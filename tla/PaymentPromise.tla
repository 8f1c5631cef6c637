---------------------------- MODULE PaymentPromise ----------------------------
(***************************************************************************)
(* What the shop promises about an order and its money, with no handler,   *)
(* callback or periodic job in sight: an order that was opened is decided  *)
(* once, it is kept only against money, and money that was taken is never  *)
(* thrown away (lib/reconcile.js: "we took the money and threw the order   *)
(* away ... the worst case"), save for the orders that it dropped without  *)
(* the gateway's word, which are excused: whoever drops an order otherwise *)
(* must know that there is no money, nor will be.                          *)
(***************************************************************************)

CONSTANT Orders

VARIABLES
  outcome,   \* "none", "open", "kept" or "dropped"
  taken,     \* the gateway settled the customer's payment
  excused    \* dropped without the gateway's word

vars == <<outcome, taken, excused>>

Init ==
  /\ outcome = [o \in Orders |-> "none"]
  /\ taken = [o \in Orders |-> FALSE]
  /\ excused = [o \in Orders |-> FALSE]

decide(o, from, to) ==
  /\ outcome[o] = from
  /\ outcome' = [outcome EXCEPT ![o] = to]

Open(o) == decide(o, "none", "open") /\ UNCHANGED <<taken, excused>>

\* Money arrives for an order that is still open, or for an excused one.
Take(o) ==
  /\ outcome[o] = "open" \/ excused[o]
  /\ taken' = [taken EXCEPT ![o] = TRUE]
  /\ UNCHANGED <<outcome, excused>>

Keep(o) == taken[o] /\ decide(o, "open", "kept") /\ UNCHANGED <<taken, excused>>

Drop(o) == ~taken[o] /\ decide(o, "open", "dropped") /\ UNCHANGED <<taken, excused>>

Excuse(o) ==
  /\ decide(o, "open", "dropped")
  /\ excused' = [excused EXCEPT ![o] = TRUE]
  /\ UNCHANGED taken

Next == \E o \in Orders : Open(o) \/ Take(o) \/ Keep(o) \/ Drop(o) \/ Excuse(o)

Spec == Init /\ [][Next]_vars
=============================================================================
