------------------------------- MODULE Sessions -------------------------------
(***************************************************************************)
(* The sessions of one customer: backend/lib/session-store.js under        *)
(* express-session as backend/server.js sets it up (resave and             *)
(* saveUninitialized off).  A request loads its whole session, works on    *)
(* its copy, and at the end of the response stores the copy, if it has     *)
(* changed, over whatever the row holds by then; an unchanged session is   *)
(* only touched.  The cart is part of the session.                         *)
(***************************************************************************)
EXTENDS Integers, FiniteSets

CONSTANTS
  Sids,     \* bound: session ids that are ever given out
  Visits,   \* requests that may be under way, in all workers
  Carts,    \* contents of a cart
  NoCart,   \* the empty one
  NoSession \* no row

\* `user': nobody, one who has still to give the second code (pendingMfa), or a
\* customer who is logged in (userId).
Session == [user : {"nobody", "pending", "user"}, cart : Carts]

ASSUME SessionAssumption ==
  NoCart \in Carts /\ NoSession \notin Session \cup Sids

VARIABLES
  sessions, \* the table
  visit,    \* the requests
  given,    \* the ids that were given out
  killed    \* history: the ids that destroyOtherSessions took

sessionVars == <<sessions, visit, given, killed>>

Blank == [user |-> "nobody", cart |-> NoCart]

\* `sid' and `sess' are req.sessionID and req.session; `orig' is the session as
\* the hash of express-session remembers it, and `old' says that it was loaded.
Away == [on |-> FALSE, sid |-> NoSession, sess |-> Blank, orig |-> Blank, old |-> FALSE]

SessionInit ==
  /\ sessions = [s \in Sids |-> NoSession]
  /\ visit = [v \in Visits |-> Away]
  /\ given = {}
  /\ killed = {}

-----------------------------------------------------------------------------
\* The beginning of a request.

\* store.get finds the row of the cookie.
get(v, s) ==
  /\ ~visit[v].on
  /\ sessions[s] # NoSession
  /\ visit' = [visit EXCEPT ![v] =
       [on |-> TRUE, sid |-> s, sess |-> sessions[s], orig |-> sessions[s], old |-> TRUE]]
  /\ UNCHANGED <<sessions, given, killed>>

\* No cookie, or no row for it: a new id.
generate(v, s) ==
  /\ ~visit[v].on
  /\ s \notin given
  /\ given' = given \cup {s}
  /\ visit' = [visit EXCEPT ![v] =
       [on |-> TRUE, sid |-> s, sess |-> Blank, orig |-> Blank, old |-> FALSE]]
  /\ UNCHANGED <<sessions, killed>>

-----------------------------------------------------------------------------
\* The handlers, on the request's copy.

\* cart.js, or a checkout that empties the cart.
ChangeCart(v, c) ==
  /\ visit[v].on
  /\ c # visit[v].sess.cart
  /\ visit' = [visit EXCEPT ![v].sess.cart = c]
  /\ UNCHANGED <<sessions, given, killed>>

\* A new id, the cart taken along, and the old row destroyed.
establishSession(v, s, mfaRequired) ==
  /\ visit[v].on
  /\ s \notin given
  /\ given' = given \cup {s}
  /\ sessions' = [sessions EXCEPT ![visit[v].sid] = NoSession]
  /\ visit' = [visit EXCEPT ![v] =
       [on |-> TRUE, sid |-> s, old |-> FALSE, orig |-> Blank,
        sess |-> [user |-> IF mfaRequired THEN "pending" ELSE "user",
                  cart |-> visit[v].sess.cart]]]
  /\ UNCHANGED killed

\* POST /totp/verify keeps the id.
SecondCodeOk(v) ==
  /\ visit[v].on
  /\ visit[v].sess.user = "pending"
  /\ visit' = [visit EXCEPT ![v].sess.user = "user"]
  /\ UNCHANGED <<sessions, given, killed>>

\* POST /logout, and a second step that took too long or failed too often.
destroy(v) ==
  /\ visit[v].on
  /\ sessions' = [sessions EXCEPT ![visit[v].sid] = NoSession]
  /\ visit' = [visit EXCEPT ![v] = Away]
  /\ UNCHANGED <<given, killed>>

\* The rows with the customer's userId but for the request's own; a row whose
\* second step is pending has none.
others(v) ==
  {s \in Sids \ {visit[v].sid} : sessions[s] # NoSession /\ sessions[s].user = "user"}

\* POST /logout-others, /password/set and /password/remove.
destroyOtherSessions(v) ==
  /\ visit[v].on
  /\ visit[v].sess.user = "user"
  /\ sessions' = [s \in Sids |-> IF s \in others(v) THEN NoSession ELSE sessions[s]]
  /\ killed' = killed \cup others(v)
  /\ UNCHANGED <<visit, given>>

-----------------------------------------------------------------------------
\* The end of a response.

changed(v) == visit[v].sess # visit[v].orig

\* An upsert of the whole session.
set(v) ==
  /\ visit[v].on
  /\ changed(v)
  /\ sessions' = [sessions EXCEPT ![visit[v].sid] = visit[v].sess]
  /\ visit' = [visit EXCEPT ![v] = Away]
  /\ UNCHANGED <<given, killed>>

\* Faulty: touch stores the session.
touch_upsert(v) ==
  /\ visit[v].on
  /\ ~changed(v)
  /\ sessions' = IF visit[v].old
                 THEN [sessions EXCEPT ![visit[v].sid] = visit[v].sess] ELSE sessions
  /\ visit' = [visit EXCEPT ![v] = Away]
  /\ UNCHANGED <<given, killed>>

\* An UPDATE of the expiry only, or nothing at all for a new blank session.
touch(v) ==
  /\ visit[v].on
  /\ ~changed(v)
  /\ visit' = [visit EXCEPT ![v] = Away]
  /\ UNCHANGED <<sessions, given, killed>>

\* A row's thirty days are over.
SessionExpires(s) ==
  /\ sessions[s] # NoSession
  /\ sessions' = [sessions EXCEPT ![s] = NoSession]
  /\ UNCHANGED <<visit, given, killed>>

SessionNext ==
  \/ \E v \in Visits :
       \/ \E s \in Sids :
            \/ get(v, s)
            \/ generate(v, s)
            \/ \E mfaRequired \in BOOLEAN : establishSession(v, s, mfaRequired)
       \/ \E c \in Carts : ChangeCart(v, c)
       \/ SecondCodeOk(v)
       \/ destroy(v)
       \/ destroyOtherSessions(v)
       \/ set(v)
       \/ touch(v)
  \/ \E s \in Sids : SessionExpires(s)

SessionSpec == SessionInit /\ [][SessionNext]_sessionVars

-----------------------------------------------------------------------------
\* Properties.

SessionTypeOK ==
  /\ sessions \in [Sids -> Session \cup {NoSession}]
  /\ visit \in [Visits -> [on : BOOLEAN, sid : Sids \cup {NoSession}, sess : Session,
                           orig : Session, old : BOOLEAN]]
  /\ given \subseteq Sids
  /\ killed \subseteq Sids

\* A row that was taken comes back only with a request that had loaded it before
\* and has changed it since.
BroughtBackByWriter ==
  \A s \in killed :
    sessions[s] = NoSession /\ sessions'[s] # NoSession
      => \E v \in Visits : visit[v].on /\ visit[v].sid = s /\ visit[v].old /\ changed(v)

\* Logging the other devices out is final but for requests under way; whoever only
\* looks at pages brings nothing back.
RevivedOnlyByWriters == [][BroughtBackByWriter]_sessionVars
=============================================================================
