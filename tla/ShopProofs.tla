------------------------------ MODULE ShopProofs ------------------------------
(***************************************************************************)
(* The server's machines that share no state with each other, for every    *)
(* value of their constants: nested transactions (Transactions), the uses  *)
(* of a coupon (Coupons), sessions that were logged out (Sessions), the    *)
(* messages of a restocking (StockDesk), the cached product list           *)
(* (Catalogue).                                                            *)
(***************************************************************************)
EXTENDS MCShop, OrderStockProofs, PageProofs

-----------------------------------------------------------------------------
\* Transactions.

\* The calls are the levels 0, 1, ... in their order, and SQLite has a level open
\* for each, or none at all if it has undone the transaction by itself.
CallsAreLevels ==
  /\ txDepth = Len(calls)
  /\ \A i \in 1..Len(calls) : calls[i] = i - 1
  /\ levels = 0 \/ levels = Len(calls)

\* Only with an error on its way is a transaction gone that has calls under way.
GoneMeansThrown ==
  /\ levels = 0 /\ Len(calls) > 0 => thrown
  /\ thrown => Len(calls) > 0

\* Nothing is for good before the outermost call has ended.
DurableAtTheEnd ==
  IF Len(calls) > 0 THEN ~durable ELSE durable <=> (outcome = "returned" /\ wrote)

TxInv == TxTypeOK /\ CallsAreLevels /\ GoneMeansThrown /\ DurableAtTheEnd

\* What is left of the calls when the innermost one ends.
LEMMA LeftCalls ==
  ASSUME TxInv, Len(calls) > 0, calls' = SubSeq(calls, 1, Len(calls) - 1)
  PROVE  /\ Len(calls) \in Nat
         /\ innermost = Len(calls) - 1
         /\ calls' \in Seq(Nat)
         /\ Len(calls') = Len(calls) - 1
         /\ \A i \in 1..Len(calls') : calls'[i] = i - 1
<1>1. calls \in Seq(Nat) /\ Len(calls) \in Nat
  BY DEF TxInv, TxTypeOK
<1>2. innermost = Len(calls) - 1
  BY <1>1 DEF TxInv, CallsAreLevels, innermost
<1>3. calls' \in Seq(Nat) /\ Len(calls') = Len(calls) - 1
      /\ \A i \in 1..Len(calls') : calls'[i] = calls[i]
  <2> DEFINE n == Len(calls) - 1
             left == SubSeq(calls, 1, n)
  <2>1. n \in Nat /\ n + 1 = Len(calls) /\ 1 \in Int /\ n \in Int
    BY <1>1
  <2>2. \A i \in 1..n : calls[i] \in Nat
    BY <1>1, <2>1
  <2> HIDE DEF n
  <2>3. /\ left \in Seq(Nat)
        /\ Len(left) = IF 1 <= n THEN n - 1 + 1 ELSE 0
        /\ \A i \in 1..(n - 1 + 1) : left[i] = calls[1 + i - 1]
    BY <2>1, <2>2, SubSeqProperties
  <2> HIDE DEF left
  <2>4. Len(left) = n /\ \A i \in 1..n : left[i] = calls[i]
    BY <2>1, <2>3
  <2>5. calls' = left
    BY DEF left, n
  <2> QED
    BY <2>3, <2>4, <2>5 DEF n
<1> QED
  BY <1>1, <1>2, <1>3 DEF TxInv, CallsAreLevels

\* A call that ends with or without an error, the levels above its own undone or
\* everything gone, keeps the invariant.
LEMMA EndKeepsTx ==
  ASSUME TxInv, Len(calls) > 0, NEW threw \in BOOLEAN, leave(threw),
         txDepth' = txDepth - 1, wrote' = wrote,
         levels' = innermost \/ (threw /\ levels' = 0),
         durable' \in BOOLEAN, durable' <=> (~threw /\ innermost = 0 /\ wrote)
  PROVE  TxInv'
<1>1. calls' = SubSeq(calls, 1, Len(calls) - 1)
      /\ thrown' \in BOOLEAN /\ (thrown' <=> (threw /\ Len(calls) > 1))
      /\ outcome' = IF Len(calls) > 1 THEN "none" ELSE IF threw THEN "threw" ELSE "returned"
  <2>1. thrown' = (threw /\ Len(calls) > 1)
    BY DEF leave
  <2>2. thrown' <=> (threw /\ Len(calls) > 1)
    BY <2>1, Zenon
  <2>3. thrown' \in BOOLEAN
    BY <2>1
  <2> QED
    BY <2>2, <2>3 DEF leave
<1>2. /\ Len(calls) \in Nat
      /\ innermost = Len(calls) - 1
      /\ calls' \in Seq(Nat)
      /\ Len(calls') = Len(calls) - 1
      /\ \A i \in 1..Len(calls') : calls'[i] = i - 1
  BY <1>1, LeftCalls
<1>3. CallsAreLevels'
  BY <1>1, <1>2 DEF TxInv, CallsAreLevels
<1>4. GoneMeansThrown'
  BY <1>1, <1>2 DEF GoneMeansThrown
<1>5. DurableAtTheEnd'
  BY <1>1, <1>2 DEF DurableAtTheEnd
<1>6. TxTypeOK'
  BY <1>1, <1>2, <1>3 DEF TxInv, TxTypeOK, CallsAreLevels
<1> QED
  BY <1>3, <1>4, <1>5, <1>6 DEF TxInv

\* undo takes the level away, unless it is gone already.
LEMMA UndoLeaves ==
  ASSUME TxInv, Len(calls) > 0, NEW n \in {levels, 0}
  PROVE  undo(innermost, n) = innermost \/ undo(innermost, n) = 0
BY DEF TxInv, TxTypeOK, CallsAreLevels, undo, innermost

\* No call is under way at the start.
LEMMA InitTxInv == TxInit => TxInv
<1> SUFFICES ASSUME TxInit PROVE TxInv
  OBVIOUS
<1>1. calls = <<>> /\ Len(calls) = 0 /\ calls \in Seq(Nat)
  BY DEF TxInit
<1>2. txDepth = 0 /\ levels = 0 /\ ~thrown /\ ~wrote /\ ~durable /\ outcome = "none"
  BY Zenon DEF TxInit
<1>3. TxTypeOK
  BY <1>1 DEF TxInit, TxTypeOK
<1>4. CallsAreLevels /\ GoneMeansThrown /\ DurableAtTheEnd
  BY <1>1, <1>2 DEF CallsAreLevels, GoneMeansThrown, DurableAtTheEnd
<1> QED
  BY <1>3, <1>4 DEF TxInv

\* Every step of a transaction keeps the invariant.
LEMMA TxStep == TxInv /\ [TxNext]_txVars => TxInv'
<1> SUFFICES ASSUME TxInv, [TxNext]_txVars PROVE TxInv'
  OBVIOUS
<1>0. calls \in Seq(Nat) /\ Len(calls) \in Nat /\ (calls # <<>> <=> Len(calls) > 0)
      /\ txDepth \in Nat /\ levels \in Nat
  BY DEF TxInv, TxTypeOK
<1> USE DEF TxInv
<1>1. CASE Begin
  <2>1. /\ ~thrown /\ levels' = levels + 1 /\ txDepth' = txDepth + 1
        /\ calls' = Append(calls, txDepth) /\ thrown' = thrown /\ outcome' = "none"
    BY <1>1 DEF Begin
  <2>2. (wrote' <=> (wrote /\ calls # <<>>)) /\ (durable' <=> (durable /\ calls # <<>>))
    BY <1>1, Zenon DEF Begin
  <2>3. wrote' \in BOOLEAN /\ durable' \in BOOLEAN
    BY <1>1 DEF Begin
  <2>4. levels = Len(calls)
    BY <1>0, <2>1 DEF CallsAreLevels, GoneMeansThrown
  <2>5. calls' \in Seq(Nat) /\ Len(calls') = Len(calls) + 1
        /\ \A i \in 1..Len(calls') :
             calls'[i] = IF i <= Len(calls) THEN calls[i] ELSE txDepth
    BY <1>0, <2>1, AppendProperties
  <2>6. CallsAreLevels'
    BY <1>0, <2>1, <2>4, <2>5 DEF CallsAreLevels
  <2>7. GoneMeansThrown'
    BY <1>0, <2>1, <2>4, <2>5 DEF GoneMeansThrown
  <2>8. DurableAtTheEnd'
    BY <1>0, <2>2, <2>5 DEF DurableAtTheEnd
  <2>9. TxTypeOK'
    BY <1>0, <2>1, <2>3, <2>5 DEF TxTypeOK
  <2> QED
    BY <2>6, <2>7, <2>8, <2>9
<1>2. CASE BeginFails
  <2>1. UNCHANGED <<txDepth, levels, calls, wrote, durable, outcome>>
    BY <1>2 DEF BeginFails
  <2>2. thrown' <=> calls # <<>>
    BY <1>2, Zenon DEF BeginFails
  <2>3. thrown' \in BOOLEAN
    BY <1>2 DEF BeginFails
  <2> QED
    BY <1>0, <2>1, <2>2, <2>3 DEF TxTypeOK, CallsAreLevels, GoneMeansThrown, DurableAtTheEnd
<1>3. CASE Write
  <2>1. UNCHANGED <<txDepth, levels, calls, thrown, outcome>> /\ calls # <<>> /\ ~thrown
    BY <1>3 DEF Write
  <2>2. wrote' \in BOOLEAN /\ durable' \in BOOLEAN
    BY <1>3 DEF Write
  <2>3. durable' <=> (durable \/ levels = 0)
    BY <1>3, Zenon DEF Write
  <2>4. levels # 0
    BY <1>0, <2>1 DEF GoneMeansThrown
  <2> QED
    BY <1>0, <2>1, <2>2, <2>3, <2>4 DEF TxTypeOK, CallsAreLevels, GoneMeansThrown,
                                       DurableAtTheEnd
<1>4. CASE FnThrows
  <2>1. UNCHANGED <<txDepth, calls, wrote, durable, outcome>> /\ calls # <<>>
        /\ levels' \in {levels, 0}
    BY <1>4 DEF FnThrows, afterError
  <2>2. thrown' /\ thrown' \in BOOLEAN
    BY <1>4 DEF FnThrows
  <2> QED
    BY <1>0, <2>1, <2>2 DEF TxTypeOK, CallsAreLevels, GoneMeansThrown, DurableAtTheEnd
<1>5. CASE Unwind
  <2>1. Len(calls) > 0 /\ ~durable
    BY <1>5 DEF Unwind, GoneMeansThrown, DurableAtTheEnd
  <2>2. UNCHANGED <<wrote, durable>> /\ leave(TRUE) /\ txDepth' = txDepth - 1
    BY <1>5, Zenon DEF Unwind
  <2>3. levels' = innermost \/ levels' = 0
    BY <1>5, <2>1, UndoLeaves DEF Unwind
  <2>4. durable' \in BOOLEAN /\ ~durable'
    BY <2>1, <2>2 DEF TxTypeOK
  <2> QED
    BY <2>1, <2>2, <2>3, <2>4, EndKeepsTx
<1>6. CASE Commit
  <2>1. Len(calls) > 0 /\ ~durable
    BY <1>0, <1>6 DEF Commit, DurableAtTheEnd
  <2>2. wrote' = wrote /\ leave(FALSE) /\ txDepth' = txDepth - 1 /\ levels' = innermost
    BY <1>6, Zenon DEF Commit
  <2>3. durable' <=> (durable \/ (innermost = 0 /\ wrote))
    BY <1>6, Zenon DEF Commit
  <2>4. durable' \in BOOLEAN
    BY <1>6 DEF Commit
  <2> QED
    BY <2>1, <2>2, <2>3, <2>4, EndKeepsTx
<1>7. CASE CommitFails
  <2>1. Len(calls) > 0 /\ ~durable
    BY <1>0, <1>7 DEF CommitFails, DurableAtTheEnd
  <2>2. UNCHANGED <<wrote, durable>> /\ leave(TRUE) /\ txDepth' = txDepth - 1
    BY <1>7, Zenon DEF CommitFails
  <2>3. levels' = innermost \/ levels' = 0
    BY <1>7, <2>1, UndoLeaves DEF CommitFails, afterError
  <2>4. durable' \in BOOLEAN /\ ~durable'
    BY <2>1, <2>2 DEF TxTypeOK
  <2> QED
    BY <2>1, <2>2, <2>3, <2>4, EndKeepsTx
<1>8. CASE UNCHANGED txVars
  BY <1>8 DEF txVars, TxTypeOK, CallsAreLevels, GoneMeansThrown, DurableAtTheEnd
<1> QED
  BY <1>1, <1>2, <1>3, <1>4, <1>5, <1>6, <1>7, <1>8 DEF TxNext

\* For any depth of nesting: nothing stays open after the outermost call, and its
\* writes are in the database exactly if it returned.
THEOREM TransactionsAreAtomic == TxSpec => []AllOrNothing
<1>1. TxInv => AllOrNothing
  BY DEF TxInv, TxTypeOK, CallsAreLevels, DurableAtTheEnd, AllOrNothing
<1>2. TxSpec => []TxInv
  BY InitTxInv, TxStep, PTL DEF TxSpec
<1> QED
  BY <1>1, <1>2, PTL

\* The stack of calls and what SQLite has open stay well typed.
THEOREM TxTypesHold == TxSpec => []TxTypeOK
<1>1. TxInv => TxTypeOK
  BY DEF TxInv
<1> QED
  BY <1>1, InitTxInv, TxStep, PTL DEF TxSpec

-----------------------------------------------------------------------------
\* Coupons.

holding == {t \in Tills : quoted[t] # Nobody}

usesOfRow == stmtCouponUses(coupon.created_at)

\* A row whose limit counts has one.
LimitIsKnown ==
  coupon # NoCoupon /\ ceiling > 0 =>
    coupon.usage_limit > 0 /\ coupon.usage_limit <= ceiling

\* What is used and what is promised: the last quote saw fewer uses than the limit,
\* whatever the other tills hold.
QuotesAreFew ==
  coupon # NoCoupon /\ ceiling > 0 =>
    Cardinality(usesOfRow) + Cardinality(holding) <= ceiling + Cardinality(Tills) - 1

CouponInv == CouponsTypeOK /\ LimitIsKnown /\ QuotesAreFew

\* Tills and orders are finitely many.
LEMMA TillsAreFinite ==
  /\ IsFiniteSet(holding) /\ Cardinality(holding) \in Nat
  /\ Cardinality(Tills) \in Nat /\ Cardinality(holding) <= Cardinality(Tills)
<1>1. IsFiniteSet(holding) /\ Cardinality(holding) <= Cardinality(Tills)
  BY CouponsAssumption, FS_Subset DEF holding
<1> QED
  BY <1>1, CouponsAssumption, FS_CardinalityType

\* The uses of a coupon are finitely many.
LEMMA UsesAreFinite ==
  ASSUME NEW at
  PROVE  IsFiniteSet(stmtCouponUses(at)) /\ Cardinality(stmtCouponUses(at)) \in Nat
<1>1. stmtCouponUses(at) \subseteq CouponOrders
  BY DEF stmtCouponUses, since
<1>2. IsFiniteSet(stmtCouponUses(at))
  BY <1>1, CouponsAssumption, FS_Subset
<1> QED
  BY <1>2, FS_CardinalityType

\* A till that gives its quote away holds one less.
LEMMA QuoteGoes ==
  ASSUME CouponsTypeOK, NEW t \in Tills, quoted[t] # Nobody,
         quoted' = [quoted EXCEPT ![t] = Nobody]
  PROVE  /\ Cardinality(holding') = Cardinality(holding) - 1
         /\ quoted' \in [Tills -> Buyers \cup {Nobody}]
<1>1. holding' = holding \ {t} /\ t \in holding
  BY DEF holding, CouponsTypeOK
<1>2. Cardinality(holding') = Cardinality(holding) - 1
  BY <1>1, TillsAreFinite, FS_RemoveElement
<1>3. quoted' \in [Tills -> Buyers \cup {Nobody}]
  BY DEF CouponsTypeOK
<1> QED
  BY <1>2, <1>3

\* With a row and quotes as they were, no more uses keep the invariant.
LEMMA FewerUses ==
  ASSUME CouponInv, CouponsTypeOK', coupon' = coupon, ceiling' = ceiling,
         quoted' = quoted, usesOfRow' \subseteq usesOfRow
  PROVE  CouponInv'
<1>1. IsFiniteSet(usesOfRow) /\ Cardinality(usesOfRow) \in Nat
  BY UsesAreFinite DEF usesOfRow
<1>2. IsFiniteSet(usesOfRow') /\ Cardinality(usesOfRow') <= Cardinality(usesOfRow)
  BY <1>1, FS_Subset
<1>3. Cardinality(usesOfRow') \in Nat
  BY <1>2, FS_CardinalityType
<1>4. holding' = holding
  BY DEF holding
<1>5. QuotesAreFew'
  BY <1>1, <1>2, <1>3, <1>4, TillsAreFinite
     DEF CouponInv, CouponsTypeOK, QuotesAreFew
<1> QED
  BY <1>5 DEF CouponInv, LimitIsKnown

\* There is neither a coupon nor an order at the start.
LEMMA InitCouponInv == CouponsInit => CouponInv
BY DEF CouponsInit, CouponInv, CouponsTypeOK, LimitIsKnown, QuotesAreFew

\* The INSERT of an order turns a quote into a use.
LEMMA InsertKeepsUses ==
  ASSUME CouponInv, NEW t \in Tills, NEW o \in CouponOrders, createOrder(t, o)
  PROVE  CouponInv'
<1> DEFINE new == [user |-> quoted[t], created_at |-> second, status |-> "pending_payment"]
<1>1. /\ quoted[t] # Nobody
      /\ order' = [order EXCEPT ![o] = new]
      /\ quoted' = [quoted EXCEPT ![t] = Nobody]
      /\ UNCHANGED <<second, coupon, ceiling>>
  BY DEF createOrder
<1>2. new \in CouponOrder
  BY <1>1 DEF CouponInv, CouponsTypeOK, CouponOrder
<1> HIDE DEF new
<1>3. /\ Cardinality(holding') = Cardinality(holding) - 1
      /\ quoted' \in [Tills -> Buyers \cup {Nobody}]
  BY <1>1, QuoteGoes DEF CouponInv
<1>4. CouponsTypeOK'
  BY <1>1, <1>2, <1>3 DEF CouponInv, CouponsTypeOK
<1>5. usesOfRow' \subseteq usesOfRow \cup {o}
  <2>1. \A p \in CouponOrders \ {o} : order'[p] = order[p]
    BY <1>1 DEF CouponInv, CouponsTypeOK
  <2> QED
    BY <1>1, <2>1 DEF usesOfRow, stmtCouponUses, since
<1>6. IsFiniteSet(usesOfRow) /\ Cardinality(usesOfRow) \in Nat
  BY UsesAreFinite DEF usesOfRow
<1>7. /\ IsFiniteSet(usesOfRow \cup {o})
      /\ Cardinality(usesOfRow \cup {o}) <= Cardinality(usesOfRow) + 1
      /\ Cardinality(usesOfRow \cup {o}) \in Nat
  <2>1. IsFiniteSet(usesOfRow \cup {o})
        /\ Cardinality(usesOfRow \cup {o}) =
             IF o \in usesOfRow THEN Cardinality(usesOfRow) ELSE Cardinality(usesOfRow) + 1
    BY <1>6, FS_AddElement
  <2> QED
    BY <1>6, <2>1
<1>8. IsFiniteSet(usesOfRow') /\ Cardinality(usesOfRow') <= Cardinality(usesOfRow) + 1
  <2>1. IsFiniteSet(usesOfRow')
        /\ Cardinality(usesOfRow') <= Cardinality(usesOfRow \cup {o})
    BY <1>5, <1>7, FS_Subset
  <2>2. Cardinality(usesOfRow') \in Nat
    BY <2>1, FS_CardinalityType
  <2> QED
    BY <1>6, <1>7, <2>1, <2>2
<1>9. Cardinality(usesOfRow') \in Nat
  BY <1>8, FS_CardinalityType
<1>10. QuotesAreFew'
  BY <1>1, <1>3, <1>6, <1>8, <1>9, TillsAreFinite
     DEF CouponInv, CouponsTypeOK, QuotesAreFew
<1> QED
  BY <1>1, <1>4, <1>10 DEF CouponInv, LimitIsKnown

\* A quote is given only below the limit.
LEMMA QuoteKeepsUses ==
  ASSUME CouponInv, NEW t \in Tills, NEW u \in Buyers, quoteCoupon(t, u)
  PROVE  CouponInv'
<1>1. /\ quoteOk(u)
      /\ quoted' = [quoted EXCEPT ![t] = u]
      /\ UNCHANGED <<second, coupon, order, ceiling>>
  BY DEF quoteCoupon
<1>2. CouponsTypeOK'
  BY <1>1 DEF CouponInv, CouponsTypeOK
<1>3. coupon # NoCoupon /\ ceiling > 0 => Cardinality(usesOfRow) < ceiling
  <2> SUFFICES ASSUME coupon # NoCoupon, ceiling > 0
               PROVE  Cardinality(usesOfRow) < ceiling
    OBVIOUS
  <2>1. coupon.usage_limit \in Nat /\ ceiling \in Nat
    BY DEF CouponInv, CouponsTypeOK, CouponRow
  <2>2. Cardinality(usesOfRow) < coupon.usage_limit
    BY <1>1 DEF quoteOk, usesOfRow, CouponInv, LimitIsKnown
  <2>3. Cardinality(usesOfRow) \in Nat
    BY UsesAreFinite DEF usesOfRow
  <2> QED
    BY <2>1, <2>2, <2>3 DEF CouponInv, LimitIsKnown
<1>4. usesOfRow' = usesOfRow
  BY <1>1 DEF usesOfRow, stmtCouponUses, since
<1>5. Cardinality(holding') \in Nat /\ Cardinality(holding') <= Cardinality(Tills)
  <2>1. holding' \subseteq Tills
    BY DEF holding
  <2>2. IsFiniteSet(holding') /\ Cardinality(holding') <= Cardinality(Tills)
    BY <2>1, CouponsAssumption, FS_Subset
  <2> QED
    BY <2>2, FS_CardinalityType
<1>6. Cardinality(usesOfRow) \in Nat
  BY UsesAreFinite DEF usesOfRow
<1>7. QuotesAreFew'
  BY <1>1, <1>3, <1>4, <1>5, <1>6, TillsAreFinite
     DEF CouponInv, CouponsTypeOK, QuotesAreFew
<1> QED
  BY <1>1, <1>2, <1>7 DEF CouponInv, LimitIsKnown

\* The panel's figures: a new row starts above what is used already, and the
\* highest limit is remembered.
LEMMA PanelKeepsUses ==
  ASSUME CouponInv, NEW limit \in UsageLimits, NEW perUser \in PerUserLimits,
         \/ adminCreateCoupon(limit, perUser)
         \/ \E active \in BOOLEAN : adminUpdateCoupon(limit, perUser, active)
  PROVE  CouponInv'
<1>1. limit \in Nat /\ perUser \in Nat /\ second \in Nat /\ ceiling \in Nat
  BY CouponsAssumption DEF CouponInv, CouponsTypeOK
<1>2. CASE adminCreateCoupon(limit, perUser)
  <2> DEFINE row == [created_at |-> second, usage_limit |-> limit,
                     per_user_limit |-> perUser, active |-> TRUE]
             uses == stmtCouponUses(second)
  <2>1. /\ coupon' = row
        /\ ceiling' = IF limit = 0 THEN 0 ELSE highest(limit, Cardinality(uses) + 1)
        /\ UNCHANGED <<second, order, quoted>>
    BY <1>2 DEF adminCreateCoupon
  <2>2. row \in CouponRow /\ row.usage_limit = limit /\ row.created_at = second
    BY <1>1 DEF CouponRow
  <2> HIDE DEF row
  <2>3. Cardinality(uses) \in Nat
    BY UsesAreFinite
  <2>4. usesOfRow' = uses
    BY <2>1, <2>2 DEF usesOfRow, stmtCouponUses, since
  <2> HIDE DEF uses
  <2>5. ceiling' \in Nat
        /\ (ceiling' > 0 => limit > 0 /\ limit <= ceiling' /\ Cardinality(uses) < ceiling')
    BY <1>1, <2>1, <2>3 DEF highest
  <2>6. holding' = holding
    BY <2>1 DEF holding
  <2>7. CouponsTypeOK'
    BY <2>1, <2>2, <2>5 DEF CouponInv, CouponsTypeOK
  <2>8. LimitIsKnown'
    BY <2>1, <2>2, <2>5 DEF LimitIsKnown
  <2>9. QuotesAreFew'
    BY <2>3, <2>4, <2>5, <2>6, TillsAreFinite DEF QuotesAreFew
  <2> QED
    BY <2>7, <2>8, <2>9 DEF CouponInv
<1>3. ASSUME NEW active \in BOOLEAN, adminUpdateCoupon(limit, perUser, active)
      PROVE  CouponInv'
  <2>1. /\ coupon # NoCoupon
        /\ coupon' = [coupon EXCEPT !.usage_limit = limit, !.per_user_limit = perUser,
                                    !.active = active]
        /\ ceiling' = IF limit = 0 \/ ceiling = 0 THEN 0 ELSE highest(limit, ceiling)
        /\ UNCHANGED <<second, order, quoted>>
    BY <1>3 DEF adminUpdateCoupon
  <2>2. coupon \in CouponRow
    BY <2>1 DEF CouponInv, CouponsTypeOK
  <2>3. coupon' \in CouponRow /\ coupon'.usage_limit = limit
        /\ coupon'.created_at = coupon.created_at
    BY <1>1, <2>1, <2>2 DEF CouponRow
  <2>4. usesOfRow' = usesOfRow
    BY <2>1, <2>3 DEF usesOfRow, stmtCouponUses, since
  <2>5. Cardinality(usesOfRow) \in Nat
    BY UsesAreFinite DEF usesOfRow
  <2>6. ceiling' \in Nat
        /\ (ceiling' > 0 => limit > 0 /\ limit <= ceiling' /\ 0 < ceiling /\ ceiling <= ceiling')
    BY <1>1, <2>1 DEF highest
  <2>7. holding' = holding
    BY <2>1 DEF holding
  <2>8. CouponsTypeOK'
    BY <2>1, <2>3, <2>6 DEF CouponInv, CouponsTypeOK
  <2>9. LimitIsKnown'
    BY <2>3, <2>6 DEF LimitIsKnown
  <2>10. QuotesAreFew'
    BY <1>1, <2>1, <2>4, <2>5, <2>6, <2>7, TillsAreFinite DEF CouponInv, QuotesAreFew
  <2> QED
    BY <2>8, <2>9, <2>10 DEF CouponInv
<1> QED
  BY <1>2, <1>3

\* Every step around a coupon keeps the invariant.
LEMMA CouponStep == CouponInv /\ [CouponsNext]_couponVars => CouponInv'
<1> SUFFICES ASSUME CouponInv, [CouponsNext]_couponVars PROVE CouponInv'
  OBVIOUS
<1>1. ASSUME NEW t \in Tills, NEW u \in Buyers, quoteCoupon(t, u) PROVE CouponInv'
  BY <1>1, QuoteKeepsUses
<1>2. ASSUME NEW t \in Tills, NEW o \in CouponOrders, createOrder(t, o) PROVE CouponInv'
  BY <1>2, InsertKeepsUses
<1>3. ASSUME NEW t \in Tills, orderRefused(t) PROVE CouponInv'
  <2>1. /\ quoted[t] # Nobody /\ quoted' = [quoted EXCEPT ![t] = Nobody]
        /\ UNCHANGED <<second, coupon, order, ceiling>>
    BY <1>3 DEF orderRefused
  <2>2. /\ Cardinality(holding') = Cardinality(holding) - 1
        /\ quoted' \in [Tills -> Buyers \cup {Nobody}]
    BY <2>1, QuoteGoes DEF CouponInv
  <2>3. usesOfRow' = usesOfRow
    BY <2>1 DEF usesOfRow, stmtCouponUses, since
  <2>4. Cardinality(usesOfRow) \in Nat
    BY UsesAreFinite DEF usesOfRow
  <2>5. QuotesAreFew'
    BY <2>1, <2>2, <2>3, <2>4, TillsAreFinite DEF CouponInv, CouponsTypeOK, QuotesAreFew
  <2> QED
    BY <2>1, <2>2, <2>5 DEF CouponInv, CouponsTypeOK, LimitIsKnown
<1>4. ASSUME NEW o \in CouponOrders, orderPaid(o) \/ orderDies(o) PROVE CouponInv'
  <2>1. PICK st \in {"paid", "failed"} :
          /\ order[o] # NoOrder /\ order' = [order EXCEPT ![o].status = st]
          /\ st = "failed" \/ order[o].status # "failed"
          /\ UNCHANGED <<second, coupon, quoted, ceiling>>
    BY <1>4 DEF orderPaid, orderDies
  <2>2. order[o] \in CouponOrder
    BY <2>1 DEF CouponInv, CouponsTypeOK
  <2>3. /\ order'[o] \in CouponOrder /\ order'[o].created_at = order[o].created_at
        /\ order'[o].status = st
        /\ \A p \in CouponOrders \ {o} : order'[p] = order[p]
    BY <2>1, <2>2 DEF CouponInv, CouponsTypeOK, CouponOrder
  <2>4. CouponsTypeOK'
    BY <2>1, <2>2, <2>3 DEF CouponInv, CouponsTypeOK, CouponOrder
  <2>5. usesOfRow' \subseteq usesOfRow
    BY <2>1, <2>3 DEF usesOfRow, stmtCouponUses, since
  <2> QED
    BY <2>1, <2>4, <2>5, FewerUses
<1>5. ASSUME NEW limit \in UsageLimits, NEW perUser \in PerUserLimits,
             \/ adminCreateCoupon(limit, perUser)
             \/ \E active \in BOOLEAN : adminUpdateCoupon(limit, perUser, active)
      PROVE  CouponInv'
  BY <1>5, PanelKeepsUses
<1>6. CASE adminDeleteCoupon
  BY <1>6 DEF adminDeleteCoupon, CouponInv, CouponsTypeOK, LimitIsKnown, QuotesAreFew
<1>7. CASE SecondPasses \/ UNCHANGED couponVars
  <2>1. UNCHANGED <<coupon, order, quoted, ceiling>> /\ second' \in Nat
    BY <1>7 DEF SecondPasses, couponVars, CouponInv, CouponsTypeOK
  <2>2. usesOfRow' = usesOfRow
    BY <2>1 DEF usesOfRow, stmtCouponUses, since
  <2>3. CouponsTypeOK'
    BY <2>1 DEF CouponInv, CouponsTypeOK
  <2> QED
    BY <2>1, <2>2, <2>3, FewerUses
<1> QED
  BY <1>1, <1>2, <1>3, <1>4, <1>5, <1>6, <1>7 DEF CouponsNext

\* For any number of workers, orders and limits: a coupon is used at most once more
\* than its highest limit for each other worker.
THEOREM UsesStayBounded == CouponsSpec => []UsesBounded
<1>1. CouponInv => UsesBounded
  <2> SUFFICES ASSUME CouponInv, coupon # NoCoupon, ceiling > 0
               PROVE  Cardinality(usesOfRow) <= ceiling + Cardinality(Tills) - 1
    BY DEF UsesBounded, usesOfRow
  <2>1. Cardinality(usesOfRow) \in Nat
    BY UsesAreFinite DEF usesOfRow
  <2> QED
    BY <2>1, TillsAreFinite DEF CouponInv, CouponsTypeOK, QuotesAreFew
<1>2. CouponsSpec => []CouponInv
  BY InitCouponInv, CouponStep, PTL DEF CouponsSpec
<1> QED
  BY <1>1, <1>2, PTL

\* Coupons, orders and quotes stay well typed.
THEOREM CouponTypesHold == CouponsSpec => []CouponsTypeOK
<1>1. CouponInv => CouponsTypeOK
  BY DEF CouponInv
<1> QED
  BY <1>1, InitCouponInv, CouponStep, PTL DEF CouponsSpec

-----------------------------------------------------------------------------
\* Sessions.

\* A request with a new session: nothing of it is in the table or under way
\* anywhere else, and nobody has logged it out.
Fresh(v) ==
  /\ sessions[visit[v].sid] = NoSession
  /\ visit[v].sid \notin killed
  /\ \A w \in Visits : visit[w].on /\ visit[w].sid = visit[v].sid => w = v

\* Ids are used only once they were given out.
IdsAreGiven ==
  /\ \A s \in Sids : sessions[s] # NoSession => s \in given
  /\ \A v \in Visits : visit[v].on => visit[v].sid \in given
  /\ killed \subseteq given

NewOnesAreFresh == \A v \in Visits : visit[v].on /\ ~visit[v].old => Fresh(v)

SessionInv == SessionTypeOK /\ IdsAreGiven /\ NewOnesAreFresh

VisitRow == [on : BOOLEAN, sid : Sids \cup {NoSession}, sess : Session, orig : Session,
             old : BOOLEAN]

\* A session is never mistaken for no row.
LEMMA BlankIsSession == Blank \in Session /\ NoSession \notin Session
BY SessionAssumption DEF Blank, Session

\* Nobody has come at the start.
LEMMA InitSessionInv == SessionInit => SessionInv
<1> SUFFICES ASSUME SessionInit PROVE SessionInv
  OBVIOUS
<1>1. Away \in VisitRow /\ Away.on = FALSE
  BY BlankIsSession DEF Away, VisitRow
<1>2. SessionTypeOK
  BY <1>1 DEF SessionInit, SessionTypeOK, VisitRow
<1>3. \A v \in Visits : visit[v].on = FALSE
  BY <1>1 DEF SessionInit
<1> QED
  BY <1>2, <1>3 DEF SessionInit, SessionInv, IdsAreGiven, NewOnesAreFresh

\* A request that begins anew, under an id that was not given before.
LEMMA NewIdKeeps ==
  ASSUME SessionInv, NEW v \in Visits, NEW s \in Sids, NEW c \in VisitRow,
         s \notin given, given' = given \cup {s}, killed' = killed,
         visit' = [visit EXCEPT ![v] = c], c.sid = s,
         sessions' \in [Sids -> Session \cup {NoSession}],
         \A x \in Sids : sessions'[x] \in {sessions[x], NoSession}
  PROVE  SessionInv'
<1> USE DEF SessionInv
<1>1. \A w \in Visits : visit'[w] = IF w = v THEN c ELSE visit[w]
  BY DEF SessionTypeOK
<1>2. SessionTypeOK'
  BY DEF SessionTypeOK, VisitRow
<1>3. IdsAreGiven'
  BY <1>1 DEF IdsAreGiven
<1>4. NewOnesAreFresh'
  <2> SUFFICES ASSUME NEW w \in Visits, visit'[w].on, ~visit'[w].old
               PROVE  Fresh(w)'
    BY DEF NewOnesAreFresh
  <2>1. CASE w = v
    BY <1>1, <2>1 DEF Fresh, IdsAreGiven
  <2>2. CASE w # v
    <3>1. Fresh(w) /\ visit[w].on /\ visit[w].sid \in given
      BY <1>1, <2>2 DEF NewOnesAreFresh, IdsAreGiven
    <3>2. visit[w].sid \in Sids
      BY <3>1 DEF SessionTypeOK
    <3> QED
      BY <1>1, <2>2, <3>1, <3>2 DEF Fresh
  <2> QED
    BY <2>1, <2>2
<1> QED
  BY <1>2, <1>3, <1>4

\* A request under way that changes its copy of the session, or ends, while rows go.
LEMMA CopyKeeps ==
  ASSUME SessionInv, NEW v \in Visits, NEW c \in VisitRow,
         visit' = [visit EXCEPT ![v] = c],
         c.on => visit[v].on /\ c.sid = visit[v].sid /\ c.old = visit[v].old,
         UNCHANGED <<given, killed>>,
         sessions' \in [Sids -> Session \cup {NoSession}],
         \A x \in Sids : sessions'[x] \in {sessions[x], NoSession}
  PROVE  SessionInv'
<1> USE DEF SessionInv
<1>1. \A w \in Visits : visit'[w] = IF w = v THEN c ELSE visit[w]
  BY DEF SessionTypeOK
<1>2. SessionTypeOK'
  BY DEF SessionTypeOK, VisitRow
<1>3. IdsAreGiven'
  BY <1>1 DEF IdsAreGiven
<1>4. NewOnesAreFresh'
  <2> SUFFICES ASSUME NEW w \in Visits, visit'[w].on, ~visit'[w].old
               PROVE  Fresh(w)'
    BY DEF NewOnesAreFresh
  <2>1. visit[w].on /\ ~visit[w].old /\ visit'[w].sid = visit[w].sid
    BY <1>1
  <2>2. Fresh(w) /\ visit[w].sid \in Sids
    BY <2>1 DEF NewOnesAreFresh, IdsAreGiven, SessionTypeOK
  <2> QED
    BY <1>1, <2>1, <2>2 DEF Fresh
<1> QED
  BY <1>2, <1>3, <1>4

\* A row that is stored at the end of a response: no other request holds the id
\* as a new one.
LEMMA SetKeeps ==
  ASSUME SessionInv, NEW v \in Visits, set(v)
  PROVE  SessionInv'
<1> USE DEF SessionInv
<1>1. /\ visit[v].on
      /\ sessions' = [sessions EXCEPT ![visit[v].sid] = visit[v].sess]
      /\ visit' = [visit EXCEPT ![v] = Away]
      /\ UNCHANGED <<given, killed>>
  BY DEF set
<1>2. visit[v].sid \in given /\ visit[v].sid \in Sids /\ visit[v].sess \in Session
  BY <1>1 DEF IdsAreGiven, SessionTypeOK
<1>3. Away \in VisitRow /\ Away.on = FALSE
  BY BlankIsSession DEF Away, VisitRow
<1> HIDE DEF Away
<1>4. \A w \in Visits : visit'[w] = IF w = v THEN Away ELSE visit[w]
  BY <1>1 DEF SessionTypeOK
<1>5. \A x \in Sids : x # visit[v].sid => sessions'[x] = sessions[x]
  BY <1>1 DEF SessionTypeOK
<1>6. SessionTypeOK'
  BY <1>1, <1>2, <1>3 DEF SessionTypeOK, VisitRow
<1>7. IdsAreGiven'
  BY <1>1, <1>2, <1>3, <1>4, <1>5 DEF IdsAreGiven
<1>8. NewOnesAreFresh'
  <2> SUFFICES ASSUME NEW w \in Visits, visit'[w].on, ~visit'[w].old
               PROVE  Fresh(w)'
    BY DEF NewOnesAreFresh
  <2>1. w # v /\ visit[w].on /\ ~visit[w].old /\ visit'[w] = visit[w]
    BY <1>3, <1>4
  <2>2. Fresh(w) /\ visit[w].sid \in Sids
    BY <2>1 DEF NewOnesAreFresh, IdsAreGiven, SessionTypeOK
  <2>3. visit[w].sid # visit[v].sid
    BY <1>1, <2>1, <2>2 DEF Fresh
  <2> QED
    BY <1>1, <1>3, <1>4, <1>5, <2>1, <2>2, <2>3 DEF Fresh
<1> QED
  BY <1>6, <1>7, <1>8

\* Every step of a session keeps the invariant.
LEMMA SessionStep == SessionInv /\ [SessionNext]_sessionVars => SessionInv'
<1> SUFFICES ASSUME SessionInv, [SessionNext]_sessionVars PROVE SessionInv'
  OBVIOUS
<1> USE DEF SessionInv
<1>0. /\ visit \in [Visits -> VisitRow]
      /\ sessions \in [Sids -> Session \cup {NoSession}]
  BY DEF SessionTypeOK, VisitRow
<1>1. ASSUME NEW v \in Visits, NEW s \in Sids, get(v, s) PROVE SessionInv'
  <2> DEFINE c == [on |-> TRUE, sid |-> s, sess |-> sessions[s], orig |-> sessions[s],
                   old |-> TRUE]
  <2>1. /\ sessions[s] # NoSession /\ visit' = [visit EXCEPT ![v] = c]
        /\ UNCHANGED <<sessions, given, killed>>
    BY <1>1 DEF get
  <2>2. c \in VisitRow /\ c.sid = s /\ c.old = TRUE
    BY <1>0, <2>1 DEF VisitRow
  <2> HIDE DEF c
  <2>3. \A w \in Visits : visit'[w] = IF w = v THEN c ELSE visit[w]
    BY <1>0, <2>1
  <2>4. SessionTypeOK'
    BY <2>1, <2>2 DEF SessionTypeOK, VisitRow
  <2>5. IdsAreGiven'
    BY <2>1, <2>2, <2>3 DEF IdsAreGiven
  <2>6. NewOnesAreFresh'
    BY <2>1, <2>2, <2>3 DEF NewOnesAreFresh, Fresh
  <2> QED
    BY <2>4, <2>5, <2>6
<1>2. ASSUME NEW v \in Visits, NEW s \in Sids, generate(v, s) PROVE SessionInv'
  <2> DEFINE c == [on |-> TRUE, sid |-> s, sess |-> Blank, orig |-> Blank, old |-> FALSE]
  <2>1. /\ s \notin given /\ given' = given \cup {s} /\ visit' = [visit EXCEPT ![v] = c]
        /\ UNCHANGED <<sessions, killed>>
    BY <1>2 DEF generate
  <2>2. c \in VisitRow /\ c.sid = s
    BY BlankIsSession DEF VisitRow
  <2> HIDE DEF c
  <2> QED
    BY <1>0, <2>1, <2>2, NewIdKeeps
<1>3. ASSUME NEW v \in Visits, NEW s \in Sids, NEW mfaRequired \in BOOLEAN,
             establishSession(v, s, mfaRequired)
      PROVE  SessionInv'
  <2> DEFINE c == [on |-> TRUE, sid |-> s, old |-> FALSE, orig |-> Blank,
                   sess |-> [user |-> IF mfaRequired THEN "pending" ELSE "user",
                             cart |-> visit[v].sess.cart]]
  <2>1. /\ s \notin given /\ given' = given \cup {s} /\ visit' = [visit EXCEPT ![v] = c]
        /\ sessions' = [sessions EXCEPT ![visit[v].sid] = NoSession]
        /\ UNCHANGED killed
    BY <1>3 DEF establishSession
  <2>2. visit[v].sess.cart \in Carts
    BY <1>0 DEF VisitRow, Session
  <2>3. c \in VisitRow /\ c.sid = s
    BY <2>2, BlankIsSession DEF VisitRow, Session
  <2> HIDE DEF c
  <2>4. /\ sessions' \in [Sids -> Session \cup {NoSession}]
        /\ \A x \in Sids : sessions'[x] \in {sessions[x], NoSession}
    BY <1>0, <2>1
  <2> QED
    BY <2>1, <2>3, <2>4, NewIdKeeps
<1>4. ASSUME NEW v \in Visits, NEW c \in Carts, ChangeCart(v, c) PROVE SessionInv'
  <2> DEFINE copy == [visit[v] EXCEPT !.sess.cart = c]
  <2>1. /\ visit[v].on /\ visit' = [visit EXCEPT ![v] = copy]
        /\ UNCHANGED <<sessions, given, killed>>
    BY <1>4 DEF ChangeCart
  <2>2. copy \in VisitRow /\ copy.sid = visit[v].sid /\ copy.old = visit[v].old
    BY <1>0 DEF VisitRow, Session
  <2> HIDE DEF copy
  <2> QED
    BY <1>0, <2>1, <2>2, CopyKeeps
<1>5. ASSUME NEW v \in Visits, SecondCodeOk(v) PROVE SessionInv'
  <2> DEFINE copy == [visit[v] EXCEPT !.sess.user = "user"]
  <2>1. /\ visit[v].on /\ visit' = [visit EXCEPT ![v] = copy]
        /\ UNCHANGED <<sessions, given, killed>>
    BY <1>5 DEF SecondCodeOk
  <2>2. copy \in VisitRow /\ copy.sid = visit[v].sid /\ copy.old = visit[v].old
    BY <1>0 DEF VisitRow, Session
  <2> HIDE DEF copy
  <2> QED
    BY <1>0, <2>1, <2>2, CopyKeeps
<1>6. ASSUME NEW v \in Visits, destroy(v) \/ touch(v) PROVE SessionInv'
  <2>1. /\ visit' = [visit EXCEPT ![v] = Away] /\ UNCHANGED <<given, killed>>
        /\ \/ sessions' = sessions
           \/ sessions' = [sessions EXCEPT ![visit[v].sid] = NoSession]
    BY <1>6 DEF destroy, touch
  <2>2. Away \in VisitRow /\ Away.on = FALSE
    BY BlankIsSession DEF Away, VisitRow
  <2>3. /\ sessions' \in [Sids -> Session \cup {NoSession}]
        /\ \A x \in Sids : sessions'[x] \in {sessions[x], NoSession}
    BY <1>0, <2>1
  <2> QED
    BY <2>1, <2>2, <2>3, CopyKeeps
<1>7. ASSUME NEW v \in Visits, destroyOtherSessions(v) PROVE SessionInv'
  <2>1. /\ sessions' = [s \in Sids |-> IF s \in others(v) THEN NoSession ELSE sessions[s]]
        /\ killed' = killed \cup others(v) /\ UNCHANGED <<visit, given>>
    BY <1>7 DEF destroyOtherSessions
  <2>2. \A s \in others(v) : s \in Sids /\ sessions[s] # NoSession
    BY DEF others
  <2>3. SessionTypeOK'
    BY <1>0, <2>1, <2>2 DEF SessionTypeOK
  <2>4. IdsAreGiven'
    BY <2>1, <2>2 DEF IdsAreGiven
  <2>5. NewOnesAreFresh'
    <3> SUFFICES ASSUME NEW w \in Visits, visit[w].on, ~visit[w].old PROVE Fresh(w)'
      BY <2>1 DEF NewOnesAreFresh
    <3>1. Fresh(w) /\ visit[w].sid \in Sids
      BY DEF NewOnesAreFresh, IdsAreGiven, SessionTypeOK
    <3> QED
      BY <2>1, <2>2, <3>1 DEF Fresh
  <2> QED
    BY <2>3, <2>4, <2>5
<1>8. ASSUME NEW v \in Visits, set(v) PROVE SessionInv'
  BY <1>8, SetKeeps
<1>9. ASSUME NEW s \in Sids, SessionExpires(s) PROVE SessionInv'
  <2>1. /\ sessions' = [sessions EXCEPT ![s] = NoSession]
        /\ UNCHANGED <<visit, given, killed>>
    BY <1>9 DEF SessionExpires
  <2>2. /\ sessions' \in [Sids -> Session \cup {NoSession}]
        /\ \A x \in Sids : sessions'[x] \in {sessions[x], NoSession}
    BY <1>0, <2>1
  <2>3. \A v \in Visits : visit[v].on => visit[v].sid \in Sids
    BY DEF IdsAreGiven, SessionTypeOK
  <2> QED
    BY <2>1, <2>2, <2>3 DEF SessionTypeOK, IdsAreGiven, NewOnesAreFresh, Fresh
<1>10. CASE UNCHANGED sessionVars
  BY <1>10 DEF sessionVars, SessionTypeOK, IdsAreGiven, NewOnesAreFresh, Fresh
<1> QED
  BY <1>1, <1>2, <1>3, <1>4, <1>5, <1>6, <1>7, <1>8, <1>9, <1>10 DEF SessionNext

\* For any number of sessions and requests: a session that was logged out comes back
\* only with a request that had loaded it before and has changed it.
THEOREM LoggedOutStaysOut == SessionSpec => RevivedOnlyByWriters
<1>1. SessionInv /\ [SessionNext]_sessionVars => [BroughtBackByWriter]_sessionVars
  <2> SUFFICES ASSUME SessionInv, SessionNext, NEW s \in killed,
                      sessions[s] = NoSession, sessions'[s] # NoSession
               PROVE  \E v \in Visits : /\ visit[v].on /\ visit[v].sid = s
                                        /\ visit[v].old /\ changed(v)
    BY DEF BroughtBackByWriter
  <2>1. s \in Sids /\ sessions \in [Sids -> Session \cup {NoSession}]
    BY DEF SessionInv, SessionTypeOK
  <2>2. PICK v \in Visits : set(v)
    BY <2>1 DEF SessionNext, get, generate, establishSession, ChangeCart, SecondCodeOk,
                destroy, destroyOtherSessions, touch, SessionExpires
  <2>3. visit[v].on /\ changed(v)
        /\ sessions' = [sessions EXCEPT ![visit[v].sid] = visit[v].sess]
    BY <2>2 DEF set
  <2>4. visit[v].sid = s
    BY <2>1, <2>3
  <2>5. visit[v].old
    BY <2>3, <2>4 DEF SessionInv, NewOnesAreFresh, Fresh
  <2> QED
    BY <2>3, <2>4, <2>5
<1>2. SessionSpec => []SessionInv
  BY InitSessionInv, SessionStep, PTL DEF SessionSpec
<1> QED
  BY <1>1, <1>2, PTL DEF SessionSpec, RevivedOnlyByWriters

\* The sessions and what the requests hold of them stay well typed.
THEOREM SessionTypesHold == SessionSpec => []SessionTypeOK
<1>1. SessionInv => SessionTypeOK
  BY DEF SessionInv
<1> QED
  BY <1>1, InitSessionInv, SessionStep, PTL DEF SessionSpec

-----------------------------------------------------------------------------
\* StockDesk.

N == Cardinality(Clerks)

\* The workers that are about to tell a customer, and those of them that have
\* marked the table already.
owed(c) ==
  {w \in Clerks : clerk[w].doing \in {"telling", "sending"} /\ c \in clerk[w].whom}

late(c) == {w \in Clerks : clerk[w].doing = "sending" /\ c \in clerk[w].whom}

\* While a wish waits, only the wishes before it were told of, or are about to be
\* by workers that have marked; once the table is marked, what is still to be
\* sent is counted with what was sent.
ToldAndPending ==
  \A c \in Waiters :
    IF alert[c] = "waiting"
    THEN told[c] + Cardinality(late(c)) + N <= wished[c] * N
    ELSE told[c] + Cardinality(owed(c)) <= wished[c] * N

\* `clerk' is a function on the workers.
ClerksWork == clerk = [w \in Clerks |-> clerk[w]]

AlertsAreTyped ==
  /\ alert \in [Waiters -> {"none", "waiting", "notified"}]
  /\ asker \subseteq Waiters
  /\ wished \in [Waiters -> Nat] /\ told \in [Waiters -> Nat]

DeskInv == AlertsAreTyped /\ ClerksWork /\ ToldAndPending

\* Workers are finitely many, and so are those about to tell someone.
LEMMA PendingIsFinite ==
  ASSUME NEW c
  PROVE  /\ IsFiniteSet(owed(c)) /\ Cardinality(owed(c)) \in Nat
         /\ IsFiniteSet(late(c)) /\ Cardinality(late(c)) \in Nat
         /\ N \in Nat /\ Cardinality(owed(c)) <= N
         /\ Cardinality(late(c)) <= Cardinality(owed(c))
<1>1. IsFiniteSet(owed(c)) /\ Cardinality(owed(c)) <= N
  BY DeskAssumption, FS_Subset DEF owed, N
<1>2. late(c) \subseteq owed(c)
  BY DEF owed, late
<1>3. IsFiniteSet(late(c)) /\ Cardinality(late(c)) <= Cardinality(owed(c))
  BY <1>1, <1>2, FS_Subset
<1> QED
  BY <1>1, <1>3, DeskAssumption, FS_CardinalityType DEF N

\* One wish more allows a message more from each worker.
LEMMA WishAddsN ==
  ASSUME NEW k \in Nat, NEW n \in Nat
  PROVE  k * n \in Nat /\ (k + 1) * n = k * n + n
OBVIOUS

\* Nobody waits at the start.
LEMMA InitDeskInv == DeskInit => DeskInv
<1> SUFFICES ASSUME DeskInit PROVE DeskInv
  OBVIOUS
<1>1. Free.doing = "nothing"
  BY DEF Free
<1>2. \A w \in Clerks : clerk[w].doing = "nothing"
  BY <1>1 DEF DeskInit
<1>3. \A c \in Waiters : owed(c) = {}
  BY <1>2 DEF owed
<1>4. Cardinality({}) = 0
  BY FS_EmptySet
<1>5. \A c \in Waiters : told[c] = 0 /\ wished[c] = 0 /\ alert[c] = "none"
  BY DEF DeskInit
<1>6. N \in Nat
  BY DeskAssumption, FS_CardinalityType DEF N
<1>7. ToldAndPending
  BY <1>3, <1>4, <1>5, <1>6 DEF ToldAndPending
<1> QED
  BY <1>7 DEF DeskInit, DeskInv, AlertsAreTyped, ClerksWork

\* A worker that goes on without telling more customers than before, but for those
\* that wait.
LEMMA ClerkKeeps ==
  ASSUME DeskInv, UNCHANGED <<alert, asker, wished, told>>, ClerksWork',
         \A c \in Waiters : late(c)' \subseteq late(c),
         \A c \in Waiters : alert[c] # "waiting" => owed(c)' \subseteq owed(c)
  PROVE  DeskInv'
<1>1. ASSUME NEW c \in Waiters
      PROVE  IF alert[c] = "waiting"
             THEN told[c] + Cardinality(late(c)') + N <= wished[c] * N
             ELSE told[c] + Cardinality(owed(c)') <= wished[c] * N
  <2>1. /\ told[c] \in Nat /\ N \in Nat /\ wished[c] * N \in Nat
        /\ Cardinality(owed(c)) \in Nat /\ Cardinality(late(c)) \in Nat
    BY PendingIsFinite, WishAddsN DEF DeskInv, AlertsAreTyped
  <2>2. CASE alert[c] = "waiting"
    <3>1. IsFiniteSet(late(c)') /\ Cardinality(late(c)') <= Cardinality(late(c))
      BY PendingIsFinite, FS_Subset
    <3>2. Cardinality(late(c)') \in Nat
      BY <3>1, FS_CardinalityType
    <3>3. told[c] + Cardinality(late(c)) + N <= wished[c] * N
      BY <2>2 DEF DeskInv, ToldAndPending
    <3> QED
      BY <2>1, <2>2, <3>1, <3>2, <3>3
  <2>3. CASE alert[c] # "waiting"
    <3>1. IsFiniteSet(owed(c)') /\ Cardinality(owed(c)') <= Cardinality(owed(c))
      BY <2>3, PendingIsFinite, FS_Subset
    <3>2. Cardinality(owed(c)') \in Nat
      BY <3>1, FS_CardinalityType
    <3>3. told[c] + Cardinality(owed(c)) <= wished[c] * N
      BY <2>3 DEF DeskInv, ToldAndPending
    <3> QED
      BY <2>1, <2>3, <3>1, <3>2, <3>3
  <2> QED
    BY <2>2, <2>3
<1>2. ToldAndPending'
  BY <1>1 DEF ToldAndPending, N
<1> QED
  BY <1>2 DEF DeskInv, AlertsAreTyped

\* A worker that takes up other work is about to tell those it tells then.
LEMMA OtherWork ==
  ASSUME DeskInv, NEW w \in Clerks, NEW job, clerk' = [clerk EXCEPT ![w] = job]
  PROVE  /\ ClerksWork'
         /\ \A v \in Clerks : clerk'[v] = IF v = w THEN job ELSE clerk[v]
         /\ job.doing # "sending" => \A c : late(c)' = late(c) \ {w}
         /\ job.doing \notin {"telling", "sending"} => \A c : owed(c)' = owed(c) \ {w}
<1>1. \A v \in Clerks : clerk'[v] = IF v = w THEN job ELSE clerk[v]
  BY DEF DeskInv, ClerksWork
<1>2. ClerksWork'
  BY DEF DeskInv, ClerksWork
<1> QED
  BY <1>1, <1>2 DEF owed, late

\* The mark: whoever waited does so no longer, and the workers that owe a message
\* are not more than there are workers.
LEMMA MarkKeeps ==
  ASSUME DeskInv, NEW w \in Clerks, markStockAlertsNotified(w)
  PROVE  DeskInv'
<1> DEFINE send == [doing |-> "sending", whom |-> clerk[w].whom]
<1>1. /\ clerk[w].doing = "telling"
      /\ alert' = marked
      /\ clerk' = [clerk EXCEPT ![w] = send]
      /\ UNCHANGED <<asker, wished, told>>
  BY DEF markStockAlertsNotified
<1>2. send.doing = "sending" /\ send.whom = clerk[w].whom
  OBVIOUS
<1> HIDE DEF send
<1>3. ClerksWork' /\ \A v \in Clerks : clerk'[v] = IF v = w THEN send ELSE clerk[v]
  BY <1>1, OtherWork
<1>4. \A c \in Waiters : owed(c)' = owed(c)
  BY <1>1, <1>2, <1>3 DEF owed
<1>5. AlertsAreTyped'
  BY <1>1 DEF DeskInv, AlertsAreTyped, marked
<1>6. ASSUME NEW c \in Waiters
      PROVE  alert'[c] # "waiting" /\ told[c] + Cardinality(owed(c)) <= wished[c] * N
  <2>1. /\ told[c] \in Nat /\ N \in Nat /\ wished[c] * N \in Nat
        /\ Cardinality(owed(c)) \in Nat /\ Cardinality(owed(c)) <= N
        /\ Cardinality(late(c)) \in Nat
    BY PendingIsFinite, WishAddsN DEF DeskInv, AlertsAreTyped
  <2>2. alert'[c] # "waiting"
    BY <1>1 DEF marked
  <2> QED
    BY <2>1, <2>2 DEF DeskInv, ToldAndPending
<1>7. ToldAndPending'
  BY <1>1, <1>4, <1>6 DEF ToldAndPending, N
<1> QED
  BY <1>3, <1>5, <1>7 DEF DeskInv

\* The messages: whoever is told was owed, by a worker that had marked.
LEMMA SendKeeps ==
  ASSUME DeskInv, NEW w \in Clerks, notifyStockAvailable(w)
  PROVE  DeskInv'
<1>1. /\ clerk[w].doing = "sending"
      /\ told' = [c \in Waiters |-> IF c \in clerk[w].whom THEN told[c] + 1 ELSE told[c]]
      /\ clerk' = [clerk EXCEPT ![w] = Free]
      /\ UNCHANGED <<alert, asker, wished>>
  BY DEF notifyStockAvailable
<1>2. Free.doing \notin {"telling", "sending"}
  BY DEF Free
<1>3. ClerksWork' /\ \A c : owed(c)' = owed(c) \ {w} /\ late(c)' = late(c) \ {w}
  BY <1>1, <1>2, OtherWork
<1>4. AlertsAreTyped'
  BY <1>1 DEF DeskInv, AlertsAreTyped
<1>5. ASSUME NEW c \in Waiters
      PROVE  /\ told'[c] + Cardinality(owed(c)') = told[c] + Cardinality(owed(c))
             /\ told'[c] + Cardinality(late(c)') = told[c] + Cardinality(late(c))
  <2>1. /\ told[c] \in Nat
        /\ Cardinality(owed(c)) \in Nat /\ Cardinality(late(c)) \in Nat
    BY PendingIsFinite DEF DeskInv, AlertsAreTyped
  <2>2. CASE c \in clerk[w].whom
    <3>1. w \in owed(c) /\ w \in late(c)
      BY <1>1, <2>2 DEF owed, late
    <3>2. /\ Cardinality(owed(c) \ {w}) = Cardinality(owed(c)) - 1
          /\ Cardinality(late(c) \ {w}) = Cardinality(late(c)) - 1
      BY <3>1, PendingIsFinite, FS_RemoveElement
    <3>3. told'[c] = told[c] + 1
      BY <1>1, <2>2
    <3>4. /\ Cardinality(owed(c)') = Cardinality(owed(c)) - 1
          /\ Cardinality(late(c)') = Cardinality(late(c)) - 1
      BY <1>3, <3>2
    <3> QED
      BY <2>1, <3>3, <3>4
  <2>3. CASE c \notin clerk[w].whom
    <3>1. owed(c) \ {w} = owed(c) /\ late(c) \ {w} = late(c)
      BY <2>3 DEF owed, late
    <3> QED
      BY <1>1, <1>3, <2>3, <3>1
  <2> QED
    BY <2>2, <2>3
<1>6. ToldAndPending'
  BY <1>1, <1>5 DEF DeskInv, ToldAndPending, N
<1> QED
  BY <1>3, <1>4, <1>6 DEF DeskInv

\* A further wish, whether one waits already or not.
LEMMA AskKeeps ==
  ASSUME DeskInv, NEW c \in Waiters, addStockAlert(c)
  PROVE  DeskInv'
<1>1. /\ c \in asker /\ asker' = asker \ {c}
      /\ alert' = [alert EXCEPT ![c] = "waiting"]
      /\ wished' = [wished EXCEPT ![c] = @ + 1]
      /\ UNCHANGED <<clerk, told>>
  BY DEF addStockAlert
<1>2. AlertsAreTyped'
  BY <1>1 DEF DeskInv, AlertsAreTyped
<1>3. \A d : owed(d)' = owed(d) /\ late(d)' = late(d)
  BY <1>1 DEF owed, late
<1>4. told[c] + Cardinality(late(c)) + N <= (wished[c] + 1) * N
  <2>1. /\ told[c] \in Nat /\ wished[c] \in Nat /\ N \in Nat
        /\ Cardinality(owed(c)) \in Nat /\ Cardinality(late(c)) \in Nat
        /\ Cardinality(late(c)) <= Cardinality(owed(c))
    BY PendingIsFinite DEF DeskInv, AlertsAreTyped
  <2>2. wished[c] * N \in Nat /\ (wished[c] + 1) * N = wished[c] * N + N
    BY <2>1, WishAddsN
  <2>3. told[c] + Cardinality(late(c)) <= wished[c] * N
    BY <2>1, <2>2 DEF DeskInv, ToldAndPending
  <2> QED
    BY <2>1, <2>2, <2>3
<1>5. ToldAndPending'
  BY <1>1, <1>3, <1>4 DEF DeskInv, AlertsAreTyped, ToldAndPending, N
<1> QED
  BY <1>1, <1>2, <1>5 DEF DeskInv, ClerksWork

\* Every step around the stock keeps the invariant.
LEMMA DeskStep == DeskInv /\ [DeskNext]_deskVars => DeskInv'
<1> SUFFICES ASSUME DeskInv, [DeskNext]_deskVars PROVE DeskInv'
  OBVIOUS
<1>0. Free.doing \notin {"telling", "sending"}
  BY DEF Free
<1>1. CASE UNCHANGED <<clerk, alert, asker, wished, told>>
  BY <1>1, ClerkKeeps DEF DeskInv, ClerksWork, owed, late
<1>2. ASSUME NEW w \in Clerks, NEW job, job.doing \notin {"telling", "sending"},
             clerk' = [clerk EXCEPT ![w] = job],
             UNCHANGED <<alert, asker, wished, told>>
      PROVE  DeskInv'
  <2>1. ClerksWork' /\ \A c : owed(c)' = owed(c) \ {w} /\ late(c)' = late(c) \ {w}
    BY <1>2, OtherWork
  <2>2. \A c \in Waiters : owed(c)' \subseteq owed(c) /\ late(c)' \subseteq late(c)
    BY <2>1
  <2> QED
    BY <1>2, <2>1, <2>2, ClerkKeeps
<1>3. ASSUME NEW d \in Panels, NEW w \in Clerks, Save(d, w) PROVE DeskInv'
  <2> DEFINE job == [doing |-> "saving", existing |-> units,
                     seen |-> form[d].seen, typed |-> form[d].typed]
  <2>1. job.doing \notin {"telling", "sending"}
    OBVIOUS
  <2>2. clerk' = [clerk EXCEPT ![w] = job] /\ UNCHANGED <<alert, asker, wished, told>>
    BY <1>3 DEF Save
  <2> QED
    BY <1>2, <2>1, <2>2
<1>4. ASSUME NEW w \in Clerks, adminUpdateProduct(w) \/ addStock(w) \/ ClerkDies(w)
      PROVE  DeskInv'
  <2> DEFINE back == [doing |-> "restocked"]
  <2>1. back.doing \notin {"telling", "sending"}
    OBVIOUS
  <2>2. PICK job \in {back, Free} : clerk' = [clerk EXCEPT ![w] = job]
    BY <1>4 DEF adminUpdateProduct, addStock, ClerkDies
  <2>3. UNCHANGED <<alert, asker, wished, told>>
    BY <1>4 DEF adminUpdateProduct, addStock, ClerkDies
  <2> QED
    BY <1>0, <1>2, <2>1, <2>2, <2>3
<1>5. ASSUME NEW w \in Clerks, getPendingStockAlerts(w) PROVE DeskInv'
  <2> DEFINE tell == [doing |-> "telling", whom |-> waiting]
  <2>1. UNCHANGED <<alert, asker, wished, told>>
    BY <1>5 DEF getPendingStockAlerts
  <2>2. clerk' = [clerk EXCEPT ![w] = Free] \/ clerk' = [clerk EXCEPT ![w] = tell]
    BY <1>5 DEF getPendingStockAlerts
  <2>3. CASE clerk' = [clerk EXCEPT ![w] = tell]
    <3>1. ClerksWork' /\ \A v \in Clerks : clerk'[v] = IF v = w THEN tell ELSE clerk[v]
      BY <2>3, OtherWork
    <3>2. /\ tell.doing = "telling"
          /\ \A c \in Waiters : alert[c] # "waiting" => c \notin tell.whom
      BY DEF waiting
    <3> HIDE DEF tell
    <3>3. /\ \A c \in Waiters : late(c)' \subseteq late(c)
          /\ \A c \in Waiters : alert[c] # "waiting" => owed(c)' \subseteq owed(c)
      BY <3>1, <3>2 DEF owed, late
    <3> QED
      BY <2>1, <3>1, <3>3, ClerkKeeps
  <2> QED
    BY <1>0, <1>2, <2>1, <2>2, <2>3
<1>6. ASSUME NEW w \in Clerks, markStockAlertsNotified(w) \/ notifyStockAvailable(w)
      PROVE  DeskInv'
  BY <1>6, MarkKeeps, SendKeeps
<1>7. ASSUME NEW c \in Waiters, NotifyMe(c) PROVE DeskInv'
  <2>1. UNCHANGED <<clerk, alert, wished, told>> /\ asker' = asker \cup {c}
    BY <1>7 DEF NotifyMe
  <2> QED
    BY <2>1 DEF DeskInv, AlertsAreTyped, ClerksWork, ToldAndPending, owed, late, N
<1>8. ASSUME NEW c \in Waiters, addStockAlert(c) PROVE DeskInv'
  BY <1>8, AskKeeps
<1>9. CASE \/ reserveUnit \/ releaseUnit \/ UNCHANGED deskVars
           \/ \E d \in Panels : OpenForm(d) \/ \E n \in Figures : TypeStock(d, n)
  BY <1>1, <1>9 DEF reserveUnit, releaseUnit, deskVars, OpenForm, TypeStock
<1> QED
  BY <1>3, <1>4, <1>5, <1>6, <1>7, <1>8, <1>9 DEF DeskNext

\* For any number of workers, customers and restockings: a wish is answered by at
\* most one message from each worker.
THEOREM ToldOncePerWorker == DeskSpec => []ToldPerWish
<1>1. DeskInv => ToldPerWish
  <2> SUFFICES ASSUME DeskInv, NEW c \in Waiters PROVE told[c] <= wished[c] * N
    BY DEF ToldPerWish, N
  <2>1. /\ told[c] \in Nat /\ wished[c] \in Nat /\ N \in Nat
        /\ Cardinality(owed(c)) \in Nat /\ Cardinality(late(c)) \in Nat
        /\ wished[c] * N \in Nat
    BY PendingIsFinite, WishAddsN DEF DeskInv, AlertsAreTyped
  <2> QED
    BY <2>1 DEF DeskInv, ToldAndPending
<1>2. DeskSpec => []DeskInv
  BY InitDeskInv, DeskStep, PTL DEF DeskSpec
<1> QED
  BY <1>1, <1>2, PTL

\* What the workers write for the stock is a figure.
FiguresAreTyped ==
  /\ units \in Nat /\ sold \in Nat
  /\ form \in [Panels -> [seen : Nat, typed : Nat] \cup {NoForm}]
  /\ ClerksWork
  /\ \A w \in Clerks : clerk[w].doing = "saving" => clerk[w].typed \in Nat

\* At the start.
LEMMA InitFigures == DeskInit => FiguresAreTyped
<1> SUFFICES ASSUME DeskInit PROVE FiguresAreTyped
  OBVIOUS
<1>1. \A w \in Clerks : clerk[w].doing = "nothing"
  BY DEF DeskInit, Free
<1> QED
  BY <1>1, DeskAssumption DEF DeskInit, FiguresAreTyped, ClerksWork

\* A worker goes on to something that writes no figure.
LEMMA WorkKeepsFigures ==
  ASSUME FiguresAreTyped, NEW w \in Clerks, NEW job, clerk' = [clerk EXCEPT ![w] = job],
         job.doing # "saving", units' \in Nat, sold' = sold, form' = form
  PROVE  FiguresAreTyped'
<1>1. ClerksWork' /\ \A v \in Clerks : clerk'[v] = IF v = w THEN job ELSE clerk[v]
  BY DEF FiguresAreTyped, ClerksWork
<1> QED
  BY <1>1 DEF FiguresAreTyped

\* Every step of the desk writes figures.
LEMMA FiguresStep == FiguresAreTyped /\ [DeskNext]_deskVars => FiguresAreTyped'
<1> SUFFICES ASSUME FiguresAreTyped, [DeskNext]_deskVars PROVE FiguresAreTyped'
  OBVIOUS
<1>1. /\ units \in Nat /\ sold \in Nat
      /\ form \in [Panels -> [seen : Nat, typed : Nat] \cup {NoForm}]
  BY DEF FiguresAreTyped
<1>2. Free.doing # "saving" /\ [doing |-> "restocked"].doing # "saving"
  BY DEF Free
<1>3. ASSUME NEW d \in Panels, OpenForm(d) PROVE FiguresAreTyped'
  <2>1. [seen |-> units, typed |-> units] \in [seen : Nat, typed : Nat]
    BY <1>1
  <2> QED
    BY <1>1, <1>3, <2>1 DEF OpenForm, FiguresAreTyped, ClerksWork
<1>4. ASSUME NEW d \in Panels, NEW n \in Figures, TypeStock(d, n) PROVE FiguresAreTyped'
  <2>1. n \in Nat /\ form[d] \in [seen : Nat, typed : Nat]
    BY <1>1, <1>4, DeskAssumption DEF TypeStock
  <2>2. form' \in [Panels -> [seen : Nat, typed : Nat] \cup {NoForm}]
    BY <1>1, <1>4, <2>1 DEF TypeStock
  <2> QED
    BY <1>1, <1>4, <2>2 DEF TypeStock, FiguresAreTyped, ClerksWork
<1>5. ASSUME NEW d \in Panels, NEW w \in Clerks, Save(d, w) PROVE FiguresAreTyped'
  <2> DEFINE job == [doing |-> "saving", existing |-> units,
                     seen |-> form[d].seen, typed |-> form[d].typed]
             left == [seen |-> form[d].typed, typed |-> form[d].typed]
  <2>1. form[d] \in [seen : Nat, typed : Nat]
    BY <1>1, <1>5 DEF Save
  <2>2. job.typed \in Nat /\ left \in [seen : Nat, typed : Nat]
    BY <2>1
  <2>3. /\ clerk' = [clerk EXCEPT ![w] = job] /\ form' = [form EXCEPT ![d] = left]
        /\ units' = units /\ sold' = sold
    BY <1>5 DEF Save
  <2> HIDE DEF job, left
  <2>4. ClerksWork' /\ \A v \in Clerks : clerk'[v] = IF v = w THEN job ELSE clerk[v]
    BY <2>3 DEF FiguresAreTyped, ClerksWork
  <2>5. form' \in [Panels -> [seen : Nat, typed : Nat] \cup {NoForm}]
    BY <1>1, <2>2, <2>3
  <2> QED
    BY <1>1, <2>2, <2>3, <2>4, <2>5 DEF FiguresAreTyped
<1>6. ASSUME NEW w \in Clerks, adminUpdateProduct(w) PROVE FiguresAreTyped'
  <2>1. units' \in Nat /\ sold' = sold /\ form' = form
    BY <1>6 DEF adminUpdateProduct, FiguresAreTyped
  <2>2. \/ clerk' = [clerk EXCEPT ![w] = Free]
        \/ clerk' = [clerk EXCEPT ![w] = [doing |-> "restocked"]]
    BY <1>6 DEF adminUpdateProduct
  <2> QED
    BY <1>2, <2>1, <2>2, WorkKeepsFigures
<1>7. ASSUME NEW w \in Clerks, addStock(w) PROVE FiguresAreTyped'
  <2>1. /\ units' = units + 1 /\ sold' = sold /\ form' = form
        /\ clerk' = [clerk EXCEPT ![w] = [doing |-> "restocked"]]
    BY <1>7 DEF addStock
  <2>2. units' \in Nat
    BY <1>1, <2>1
  <2> QED
    BY <1>2, <2>1, <2>2, WorkKeepsFigures
<1>8. ASSUME NEW w \in Clerks, getPendingStockAlerts(w) PROVE FiguresAreTyped'
  <2> DEFINE tell == [doing |-> "telling", whom |-> waiting]
  <2>1. tell.doing # "saving"
    OBVIOUS
  <2>2. clerk' = [clerk EXCEPT ![w] = Free] \/ clerk' = [clerk EXCEPT ![w] = tell]
    BY <1>8 DEF getPendingStockAlerts
  <2>3. units' \in Nat /\ sold' = sold /\ form' = form
    BY <1>1, <1>8 DEF getPendingStockAlerts
  <2> HIDE DEF tell
  <2> QED
    BY <1>2, <2>1, <2>2, <2>3, WorkKeepsFigures
<1>9. ASSUME NEW w \in Clerks, notifyStockAvailable(w) \/ ClerkDies(w) PROVE FiguresAreTyped'
  <2>1. /\ clerk' = [clerk EXCEPT ![w] = Free]
        /\ units' \in Nat /\ sold' = sold /\ form' = form
    BY <1>1, <1>9 DEF notifyStockAvailable, ClerkDies
  <2> QED
    BY <1>2, <2>1, WorkKeepsFigures
<1>10. ASSUME NEW c \in Waiters, NotifyMe(c) \/ addStockAlert(c) PROVE FiguresAreTyped'
  BY <1>10 DEF NotifyMe, addStockAlert, FiguresAreTyped, ClerksWork
<1>11. CASE reserveUnit \/ releaseUnit
  <2>1. units' \in Nat /\ sold' \in Nat
    BY <1>1, <1>11 DEF reserveUnit, releaseUnit
  <2> QED
    BY <1>11, <2>1 DEF reserveUnit, releaseUnit, FiguresAreTyped, ClerksWork
<1>12. CASE UNCHANGED deskVars
  BY <1>12 DEF deskVars, FiguresAreTyped, ClerksWork
<1>13. ASSUME NEW w \in Clerks, markStockAlertsNotified(w) PROVE FiguresAreTyped'
  <2> DEFINE send == [doing |-> "sending", whom |-> clerk[w].whom]
  <2>1. send.doing # "saving"
    OBVIOUS
  <2>2. /\ clerk' = [clerk EXCEPT ![w] = send]
        /\ units' \in Nat /\ sold' = sold /\ form' = form
    BY <1>1, <1>13 DEF markStockAlertsNotified
  <2> HIDE DEF send
  <2> QED
    BY <2>1, <2>2, WorkKeepsFigures
<1> QED
  BY <1>3, <1>4, <1>5, <1>6, <1>7, <1>8, <1>9, <1>10, <1>11, <1>12, <1>13 DEF DeskNext

\* The stock, the forms and the customers' rows stay well typed; in particular no
\* figure that a form writes takes the stock below nothing.
THEOREM DeskTypesHold == DeskSpec => []DeskTypeOK
<1>1. DeskInv /\ FiguresAreTyped => DeskTypeOK
  BY DEF DeskInv, AlertsAreTyped, FiguresAreTyped, DeskTypeOK
<1> QED
  BY <1>1, InitDeskInv, DeskStep, InitFigures, FiguresStep, PTL DEF DeskSpec

-----------------------------------------------------------------------------
\* Catalogue.

\* The workers between a review and the count of it.
bumping == {w \in Processes : process[w].doing = "bumping"}

\* reviews_rev counts no more than was written.
RevsAreCounted == reviews_rev + Cardinality(bumping) <= reviews

\* A snapshot of the settings knows no future.
SnapshotsAreOld ==
  \A w \in Processes : settingsCache[w] # NoSettings => settingsCache[w] <= reviews_rev

\* A signature is no older than its request and no newer than the tables; a list
\* that is being built goes into the cache that this signature has emptied.
JobIsSound(w) ==
  /\ process[w].doing = "signing"
       => process[w].began <= catalog_rev /\ process[w].reviews <= reviews_rev
  /\ process[w].doing \in {"signed", "building"}
       => /\ process[w].began <= process[w].sig.catalog
          /\ process[w].sig.catalog <= catalog_rev
          /\ process[w].sig.reviews <= reviews_rev
  /\ process[w].doing = "building"
       => /\ process[w].sig.reviews <= process[w].ratings
          /\ process[w].sig = listCacheSig[w]

JobsAreSound == \A w \in Processes : JobIsSound(w)

\* A list shows at least what its signature counts.
shows(body, sig) == body.products >= sig.catalog /\ body.ratings >= sig.reviews

ListsAreCurrent ==
  \A w \in Processes : \A i \in DOMAIN listCache[w] : shows(listCache[w][i], listCacheSig[w])

CopyIsCurrent == browser # NoCopy => shows(browser.body, browser.sig)

CatalogueInv ==
  /\ CatalogueTypeOK
  /\ RevsAreCounted
  /\ SnapshotsAreOld
  /\ JobsAreSound
  /\ ListsAreCurrent
  /\ CopyIsCurrent
  /\ ListIsCurrent

\* A job says what it is.
LEMMA JobsAreTold ==
  ASSUME NEW j \in Jobs
  PROVE  /\ j.doing = "signing" => j \in Signing
         /\ j.doing = "signed" => j \in Signed
         /\ j.doing = "building" => j \in Building
BY DEF Jobs, Signing, Signed, Building

\* Workers are finitely many, and so are those that have a count to make.
LEMMA BumpingIsFinite == IsFiniteSet(bumping) /\ Cardinality(bumping) \in Nat
<1>1. IsFiniteSet(bumping)
  BY CatalogueAssumption, FS_Subset DEF bumping
<1> QED
  BY <1>1, FS_CardinalityType

\* A worker that takes up another job leaves no count open, and one that has made
\* its count is one less.
LEMMA BumpingShrinks ==
  ASSUME process \in [Processes -> Jobs], NEW w \in Processes, NEW j,
         j.doing # "bumping", becomes(w, j)
  PROVE  /\ Cardinality(bumping') <= Cardinality(bumping)
         /\ Cardinality(bumping') \in Nat
         /\ w \in bumping => Cardinality(bumping') = Cardinality(bumping) - 1
<1>1. bumping' = bumping \ {w}
  BY DEF becomes, bumping
<1>2. IsFiniteSet(bumping) /\ IsFiniteSet(bumping') /\ bumping' \subseteq bumping
  BY <1>1, BumpingIsFinite, FS_Subset
<1>3. Cardinality(bumping') <= Cardinality(bumping) /\ Cardinality(bumping') \in Nat
  BY <1>2, FS_Subset, FS_CardinalityType
<1>4. w \in bumping => Cardinality(bumping') = Cardinality(bumping) - 1
  BY <1>1, <1>2, FS_RemoveElement
<1> QED
  BY <1>3, <1>4

\* Nothing is written and nothing is kept at the start.
LEMMA InitCatalogueInv == CatalogueInit => CatalogueInv
<1> SUFFICES ASSUME CatalogueInit PROVE CatalogueInv
  OBVIOUS
<1>1. CatalogueTypeOK
  BY DEF CatalogueInit, CatalogueTypeOK, AtRestIn, Jobs
<1>2. bumping = {}
  BY DEF CatalogueInit, AtRestIn, bumping
<1>3. RevsAreCounted
  BY <1>2, FS_EmptySet DEF CatalogueInit, RevsAreCounted
<1>4. JobsAreSound
  BY DEF CatalogueInit, AtRestIn, JobsAreSound, JobIsSound
<1>5. ListsAreCurrent
  BY DEF CatalogueInit, ListsAreCurrent
<1> QED
  BY <1>1, <1>3, <1>4, <1>5
  DEF CatalogueInit, CatalogueInv, SnapshotsAreOld, CopyIsCurrent, ListIsCurrent

\* A worker takes up a sound job, caches and copies stay.
LEMMA JobStep ==
  ASSUME CatalogueInv, NEW w \in Processes, NEW j \in Jobs, becomes(w, j),
         j.doing # "bumping", JobIsSound(w)',
         UNCHANGED <<catalog_rev, reviews, reviews_rev>>,
         listCacheSig' \in [Processes -> Signature \cup {NoSignature}],
         \A v \in Processes \ {w} : listCacheSig'[v] = listCacheSig[v]
  PROVE  /\ RevsAreCounted' /\ JobsAreSound'
         /\ process' \in [Processes -> Jobs]
<1> USE DEF CatalogueInv, CatalogueTypeOK
<1>1. RevsAreCounted'
  <2>1. Cardinality(bumping') <= Cardinality(bumping) /\ Cardinality(bumping') \in Nat
    BY BumpingShrinks
  <2> QED
    BY <2>1, BumpingIsFinite DEF RevsAreCounted
<1>2. \A v \in Processes \ {w} : process'[v] = process[v]
  BY DEF becomes
<1>3. \A v \in Processes \ {w} : JobIsSound(v)'
  BY <1>2 DEF JobsAreSound, JobIsSound
<1>4. JobsAreSound'
  BY <1>3 DEF JobsAreSound
<1> QED
  BY <1>1, <1>4 DEF becomes

\* An answer that shows what its signature counts, given by a worker whose caches
\* hold nothing older.
LEMMA AnswerStep ==
  ASSUME CatalogueInv, NEW w \in Processes, NEW body \in Body, answers(w, body),
         process[w].doing \in {"signed", "building"},
         shows(body, process[w].sig),
         UNCHANGED <<catalog_rev, reviews, reviews_rev, settingsCache>>,
         listCache' \in [Processes -> Seq(Body)],
         listCacheSig' \in [Processes -> Signature \cup {NoSignature}],
         \A v \in Processes \ {w} : listCache'[v] = listCache[v],
         \A v \in Processes \ {w} : listCacheSig'[v] = listCacheSig[v],
         \A i \in DOMAIN listCache'[w] : shows(listCache'[w][i], listCacheSig'[w])
  PROVE  CatalogueInv'
<1>1. CatalogueTypeOK
  BY DEF CatalogueInv
<1>2. process[w] \in Signed \cup Building
  BY <1>1, JobsAreTold DEF CatalogueTypeOK
<1>3. /\ process[w].began \in Nat /\ process[w].sig \in Signature
      /\ process[w].sig.catalog \in Nat /\ process[w].sig.reviews \in Nat
  BY <1>2 DEF Signed, Building, Signature
<1>4. process[w].began <= process[w].sig.catalog
  BY DEF CatalogueInv, JobsAreSound, JobIsSound
<1>5. body.products \in Nat /\ body.ratings \in Nat
  BY DEF Body
<1>6. ListIsCurrent'
  <2>1. answer' = [products |-> body.products, ratings |-> body.ratings,
                   began |-> process[w].began, signed |-> process[w].sig.reviews]
    BY DEF answers
  <2>2. answer'.products >= answer'.began /\ answer'.ratings >= answer'.signed
    BY <2>1, <1>3, <1>4, <1>5 DEF shows
  <2> QED
    BY <2>2 DEF ListIsCurrent
<1>7. CopyIsCurrent'
  BY DEF answers, CopyIsCurrent, shows
<1>8. AtRestIn \in Jobs /\ AtRestIn.doing = "idle"
  BY DEF AtRestIn, Jobs
<1>9. becomes(w, AtRestIn)
  BY DEF answers
<1>10. process'[w] = AtRestIn
  BY <1>1, <1>9 DEF becomes, CatalogueTypeOK
<1>11. JobIsSound(w)'
  BY <1>8, <1>10 DEF JobIsSound
<1>12. RevsAreCounted' /\ JobsAreSound' /\ process' \in [Processes -> Jobs]
  BY <1>8, <1>9, <1>11, JobStep
<1>13. ListsAreCurrent'
  BY DEF CatalogueInv, ListsAreCurrent
<1>14. answer' \in [products : Nat, ratings : Nat, began : Nat, signed : Nat]
       /\ browser' \in [sig : Signature, body : Body]
  BY <1>3, <1>5 DEF answers
<1>15. CatalogueTypeOK'
  BY <1>1, <1>12, <1>14 DEF CatalogueTypeOK
<1>16. SnapshotsAreOld'
  BY DEF CatalogueInv, SnapshotsAreOld
<1> QED
  BY <1>6, <1>7, <1>12, <1>13, <1>15, <1>16 DEF CatalogueInv

\* A list from the cache: what was kept of it is under the answer's signature.
LEMMA HitStep ==
  ASSUME CatalogueInv, NEW w \in Processes, CacheHit(w)
  PROVE  CatalogueInv'
<1>1. CatalogueTypeOK /\ ListsAreCurrent
  BY DEF CatalogueInv
<1>2. kept(w) \in Seq(Body)
  BY <1>1 DEF kept, CatalogueTypeOK
<1>3. \A i \in DOMAIN kept(w) : shows(kept(w)[i], process[w].sig)
  BY <1>1 DEF kept, ListsAreCurrent
<1>4. PICK i \in DOMAIN kept(w) : answers(w, kept(w)[i])
  BY DEF CacheHit, hits
<1>5. kept(w)[i] \in Body
  BY <1>2, <1>4, ElementOfSeq
<1>6. process[w] \in Signed
  BY <1>1, JobsAreTold DEF CacheHit, CatalogueTypeOK
<1>7. process[w].sig \in Signature
  BY <1>6 DEF Signed
<1>8. /\ listCache' = [listCache EXCEPT ![w] = kept(w)]
      /\ listCacheSig' = [listCacheSig EXCEPT ![w] = process[w].sig]
      /\ process[w].doing \in {"signed", "building"}
      /\ UNCHANGED <<catalog_rev, reviews, reviews_rev, settingsCache>>
  BY DEF CacheHit
<1>9. /\ listCache' \in [Processes -> Seq(Body)]
      /\ listCacheSig' \in [Processes -> Signature \cup {NoSignature}]
      /\ listCache'[w] = kept(w) /\ listCacheSig'[w] = process[w].sig
      /\ \A v \in Processes \ {w} : listCache'[v] = listCache[v]
      /\ \A v \in Processes \ {w} : listCacheSig'[v] = listCacheSig[v]
  BY <1>1, <1>2, <1>7, <1>8 DEF CatalogueTypeOK
<1> HIDE DEF kept, hits, answers
<1>10. \A k \in DOMAIN listCache'[w] : shows(listCache'[w][k], listCacheSig'[w])
  BY <1>3, <1>9
<1> QED
  BY <1>3, <1>4, <1>5, <1>8, <1>9, <1>10, AnswerStep

\* A list that is built: the tables are read after the signature.
LEMMA BuiltStep ==
  ASSUME CatalogueInv, NEW w \in Processes, ReadProducts(w)
  PROVE  CatalogueInv'
<1> DEFINE body == [filter |-> process[w].filter, products |-> catalog_rev,
                    ratings |-> process[w].ratings]
           rest == IF Len(listCache[w]) >= LIST_CACHE_MAX THEN Tail(listCache[w])
                   ELSE listCache[w]
<1>1. CatalogueTypeOK /\ ListsAreCurrent /\ JobsAreSound
  BY DEF CatalogueInv
<1>2. process[w].doing = "building" /\ process[w] \in Building
  BY <1>1, JobsAreTold DEF ReadProducts, CatalogueTypeOK
<1>3. body \in Body /\ process[w].sig \in Signature
  BY <1>1, <1>2 DEF Building, Body, CatalogueTypeOK
<1>4. process[w].sig.catalog \in Nat /\ process[w].sig.reviews \in Nat
      /\ process[w].ratings \in Nat /\ catalog_rev \in Nat
  BY <1>1, <1>2, <1>3 DEF Building, Signature, CatalogueTypeOK
<1>5. shows(body, process[w].sig) /\ process[w].sig = listCacheSig[w]
  BY <1>1, <1>2, <1>4 DEF JobsAreSound, JobIsSound, shows
<1>6. listCache[w] \in Seq(Body) /\ Len(listCache[w]) \in Nat
  BY <1>1 DEF CatalogueTypeOK
<1>7. /\ rest \in Seq(Body)
      /\ \A i \in DOMAIN rest : shows(rest[i], listCacheSig[w])
  <2>1. CASE Len(listCache[w]) >= LIST_CACHE_MAX
    <3>1. rest = Tail(listCache[w]) /\ listCache[w] # <<>>
      BY <2>1, <1>6, CatalogueAssumption
    <3>2. /\ Tail(listCache[w]) \in Seq(Body)
          /\ Len(Tail(listCache[w])) = Len(listCache[w]) - 1
          /\ \A i \in 1..Len(Tail(listCache[w])) :
               Tail(listCache[w])[i] = listCache[w][i + 1]
      BY <3>1, <1>6
    <3>3. \A i \in 1..Len(listCache[w]) : shows(listCache[w][i], listCacheSig[w])
      BY <1>1, <1>6 DEF ListsAreCurrent
    <3>4. \A i \in 1..Len(Tail(listCache[w])) : i + 1 \in 1..Len(listCache[w])
      BY <3>2, <1>6
    <3> HIDE DEF rest
    <3>5. DOMAIN rest = 1..Len(Tail(listCache[w]))
      BY <3>1, <3>2, LenProperties
    <3> QED
      BY <3>1, <3>2, <3>3, <3>4, <3>5
  <2>2. CASE ~(Len(listCache[w]) >= LIST_CACHE_MAX)
    BY <2>2, <1>1, <1>6 DEF ListsAreCurrent
  <2> QED
    BY <2>1, <2>2
<1>8. /\ listCache' = [listCache EXCEPT ![w] = Append(rest, body)]
      /\ answers(w, body)
      /\ UNCHANGED <<catalog_rev, reviews, reviews_rev, settingsCache, listCacheSig>>
  BY DEF ReadProducts
<1> HIDE DEF body, rest
<1>9. /\ listCache' \in [Processes -> Seq(Body)]
      /\ listCache'[w] = Append(rest, body)
      /\ \A v \in Processes \ {w} : listCache'[v] = listCache[v]
  BY <1>1, <1>3, <1>7, <1>8 DEF CatalogueTypeOK
<1>10. \A i \in DOMAIN Append(rest, body) : shows(Append(rest, body)[i], listCacheSig[w])
  <2> SUFFICES ASSUME NEW i \in DOMAIN Append(rest, body)
               PROVE  shows(Append(rest, body)[i], listCacheSig[w])
    OBVIOUS
  <2>1. i \in 1..Len(rest) + 1 /\ Len(rest) \in Nat /\ DOMAIN rest = 1..Len(rest)
    BY <1>3, <1>7, AppendProperties, LenProperties
  <2>2. CASE i = Len(rest) + 1
    BY <2>2, <1>3, <1>5, <1>7, AppendProperties
  <2>3. CASE i \in 1..Len(rest)
    <3>1. Append(rest, body)[i] = rest[i]
      BY <2>1, <2>3, <1>3, <1>7, AppendProperties
    <3> QED
      BY <3>1, <2>1, <2>3, <1>7
  <2> QED
    BY <2>1, <2>2, <2>3
<1>11. listCacheSig' = listCacheSig
       /\ listCacheSig' \in [Processes -> Signature \cup {NoSignature}]
  BY <1>1, <1>8 DEF CatalogueTypeOK
<1>12. \A i \in DOMAIN listCache'[w] : shows(listCache'[w][i], listCacheSig'[w])
  BY <1>9, <1>10, <1>11
<1> HIDE DEF answers
<1> QED
  BY <1>2, <1>3, <1>5, <1>8, <1>9, <1>11, <1>12, AnswerStep

\* The steps of a request before its answer.
LEMMA RequestStep ==
  ASSUME CatalogueInv, NEW w \in Processes,
         \/ \E f \in Filters : ReadReviewsRev(w, f)
         \/ ReadCatalogRev(w)
         \/ ReadRatings(w)
         \/ Restart(w)
  PROVE  CatalogueInv'
<1> USE DEF CatalogueInv
<1>1. ASSUME NEW f \in Filters, ReadReviewsRev(w, f) PROVE CatalogueInv'
  <2> DEFINE j == [doing |-> "signing", filter |-> f, began |-> catalog_rev,
                   reviews |-> getSettings(w)]
  <2>1. getSettings(w) \in Nat /\ getSettings(w) <= reviews_rev
    BY DEF getSettings, CatalogueTypeOK, SnapshotsAreOld
  <2>2. j \in Signing /\ j \in Jobs
    BY <2>1 DEF Jobs, Signing, CatalogueTypeOK
  <2>3. process'[w] = j /\ becomes(w, j)
    BY <1>1 DEF ReadReviewsRev, becomes, CatalogueTypeOK
  <2>4. UNCHANGED <<catalog_rev, reviews, reviews_rev, listCache, listCacheSig, answer, browser>>
        /\ settingsCache' = [settingsCache EXCEPT ![w] = getSettings(w)]
    BY <1>1 DEF ReadReviewsRev
  <2>5. JobIsSound(w)'
    BY <2>1, <2>3, <2>4 DEF JobIsSound, CatalogueTypeOK
  <2>6. RevsAreCounted' /\ JobsAreSound' /\ process' \in [Processes -> Jobs]
    BY <2>2, <2>3, <2>4, <2>5, JobStep DEF CatalogueTypeOK
  <2>7. CatalogueTypeOK' /\ SnapshotsAreOld'
    BY <2>1, <2>4, <2>6 DEF CatalogueTypeOK, SnapshotsAreOld
  <2> QED
    BY <2>4, <2>6, <2>7 DEF ListsAreCurrent, CopyIsCurrent, ListIsCurrent
<1>2. ASSUME ReadCatalogRev(w) PROVE CatalogueInv'
  <2> DEFINE sig == [reviews |-> process[w].reviews, catalog |-> catalog_rev]
             j == [doing |-> "signed", filter |-> process[w].filter,
                   began |-> process[w].began, sig |-> sig]
  <2>1. process[w] \in Signing /\ process[w].doing = "signing"
    BY <1>2, JobsAreTold DEF ReadCatalogRev, CatalogueTypeOK
  <2>2. /\ sig \in Signature /\ j \in Signed /\ j \in Jobs
        /\ process[w].began \in Nat /\ catalog_rev \in Nat
    BY <2>1 DEF Jobs, Signed, Signing, Signature, CatalogueTypeOK
  <2>3. process'[w] = j /\ becomes(w, j)
    BY <1>2 DEF ReadCatalogRev, becomes, CatalogueTypeOK
  <2>4. UNCHANGED <<catalog_rev, reviews, reviews_rev, settingsCache, listCache,
                    listCacheSig, answer, browser>>
    BY <1>2 DEF ReadCatalogRev
  <2>5. JobIsSound(w)'
    BY <2>1, <2>2, <2>3, <2>4 DEF JobsAreSound, JobIsSound
  <2>6. RevsAreCounted' /\ JobsAreSound' /\ process' \in [Processes -> Jobs]
    BY <2>2, <2>3, <2>4, <2>5, JobStep DEF CatalogueTypeOK
  <2>7. CatalogueTypeOK' /\ SnapshotsAreOld'
    BY <2>4, <2>6 DEF CatalogueTypeOK, SnapshotsAreOld
  <2> QED
    BY <2>4, <2>6, <2>7 DEF ListsAreCurrent, CopyIsCurrent, ListIsCurrent
<1>3. ASSUME ReadRatings(w) PROVE CatalogueInv'
  <2> DEFINE j == [doing |-> "building", filter |-> process[w].filter,
                   began |-> process[w].began, sig |-> process[w].sig,
                   ratings |-> reviews]
  <2>1. process[w] \in Signed /\ process[w].doing = "signed"
    BY <1>3, JobsAreTold DEF ReadRatings, CatalogueTypeOK
  <2>2. /\ process[w].sig \in Signature /\ j \in Building /\ j \in Jobs
        /\ process[w].sig.reviews \in Nat
    BY <2>1 DEF Jobs, Signed, Building, Signature, CatalogueTypeOK
  <2>3. process'[w] = j /\ becomes(w, j)
    BY <1>3 DEF ReadRatings, becomes, CatalogueTypeOK
  <2>4. /\ UNCHANGED <<catalog_rev, reviews, reviews_rev, settingsCache, answer, browser>>
        /\ listCache' = [listCache EXCEPT ![w] = kept(w)]
        /\ listCacheSig' = [listCacheSig EXCEPT ![w] = process[w].sig]
    BY <1>3 DEF ReadRatings
  <2>5. /\ kept(w) \in Seq(Body)
        /\ \A i \in DOMAIN kept(w) : shows(kept(w)[i], process[w].sig)
    BY DEF kept, CatalogueTypeOK, ListsAreCurrent
  <2> HIDE DEF j
  <2>6. /\ listCache' \in [Processes -> Seq(Body)]
        /\ listCacheSig' \in [Processes -> Signature \cup {NoSignature}]
        /\ listCache'[w] = kept(w) /\ listCacheSig'[w] = process[w].sig
        /\ \A v \in Processes \ {w} : listCache'[v] = listCache[v]
        /\ \A v \in Processes \ {w} : listCacheSig'[v] = listCacheSig[v]
    BY <2>2, <2>4, <2>5 DEF CatalogueTypeOK
  <2>7. reviews_rev <= reviews
    BY BumpingIsFinite DEF RevsAreCounted, CatalogueTypeOK
  <2>8. JobIsSound(w)'
    <3>1. j.doing = "building" /\ j.began = process[w].began /\ j.sig = process[w].sig
          /\ j.ratings = reviews
      BY DEF j
    <3>2. process[w].sig.reviews <= reviews
      BY <2>1, <2>2, <2>7 DEF JobsAreSound, JobIsSound, CatalogueTypeOK
    <3> QED
      BY <3>1, <3>2, <2>1, <2>3, <2>4, <2>6 DEF JobsAreSound, JobIsSound
  <2>9. j.doing # "bumping"
    BY DEF j
  <2>10. RevsAreCounted' /\ JobsAreSound' /\ process' \in [Processes -> Jobs]
    BY <2>2, <2>3, <2>4, <2>6, <2>8, <2>9, JobStep
  <2>11. CatalogueTypeOK' /\ SnapshotsAreOld'
    BY <2>4, <2>6, <2>10 DEF CatalogueTypeOK, SnapshotsAreOld
  <2>12. ListsAreCurrent'
    BY <2>5, <2>6 DEF ListsAreCurrent
  <2> QED
    BY <2>4, <2>10, <2>11, <2>12 DEF CopyIsCurrent, ListIsCurrent
<1>4. ASSUME Restart(w) PROVE CatalogueInv'
  <2>1. /\ becomes(w, AtRestIn) /\ AtRestIn \in Jobs /\ AtRestIn.doing = "idle"
        /\ process'[w] = AtRestIn
    BY <1>4 DEF Restart, becomes, AtRestIn, Jobs, CatalogueTypeOK
  <2>2. /\ UNCHANGED <<catalog_rev, reviews, reviews_rev, answer, browser>>
        /\ settingsCache' = [settingsCache EXCEPT ![w] = NoSettings]
        /\ listCache' = [listCache EXCEPT ![w] = <<>>]
        /\ listCacheSig' = [listCacheSig EXCEPT ![w] = NoSignature]
    BY <1>4 DEF Restart
  <2>3. /\ settingsCache' \in [Processes -> Nat \cup {NoSettings}]
        /\ listCache' \in [Processes -> Seq(Body)]
        /\ listCacheSig' \in [Processes -> Signature \cup {NoSignature}]
        /\ listCache'[w] = <<>> /\ settingsCache'[w] = NoSettings
        /\ \A v \in Processes \ {w} : /\ listCache'[v] = listCache[v]
                                      /\ listCacheSig'[v] = listCacheSig[v]
                                      /\ settingsCache'[v] = settingsCache[v]
    BY <2>2 DEF CatalogueTypeOK
  <2>4. JobIsSound(w)'
    BY <2>1 DEF JobIsSound
  <2>5. RevsAreCounted' /\ JobsAreSound' /\ process' \in [Processes -> Jobs]
    BY <2>1, <2>2, <2>3, <2>4, JobStep
  <2>6. CatalogueTypeOK' /\ SnapshotsAreOld'
    BY <2>2, <2>3, <2>5 DEF CatalogueTypeOK, SnapshotsAreOld
  <2>7. ListsAreCurrent'
    <3>1. \A i \in DOMAIN listCache'[w] : shows(listCache'[w][i], listCacheSig'[w])
      BY <2>3
    <3>2. \A v \in Processes \ {w} :
            \A i \in DOMAIN listCache'[v] : shows(listCache'[v][i], listCacheSig'[v])
      BY <2>3 DEF ListsAreCurrent
    <3> QED
      BY <3>1, <3>2 DEF ListsAreCurrent
  <2> QED
    BY <2>2, <2>5, <2>6, <2>7 DEF CopyIsCurrent, ListIsCurrent
<1> QED
  BY <1>1, <1>2, <1>3, <1>4

\* The writes: a product, a review in two statements, the settings.
LEMMA WriteStep ==
  ASSUME CatalogueInv,
         \/ WriteProduct
         \/ \E w \in Processes : WriteReview(w) \/ BumpReviewsRev(w) \/ setSettingsTx(w)
  PROVE  CatalogueInv'
<1> USE DEF CatalogueInv
<1>1. CASE WriteProduct
  <2>1. /\ UNCHANGED <<reviews, reviews_rev, settingsCache, listCache, listCacheSig,
                       process, answer, browser>>
        /\ catalog_rev' = catalog_rev + 1 /\ catalog_rev \in Nat
    BY <1>1 DEF WriteProduct, CatalogueTypeOK
  <2>2. JobsAreSound'
    <3> SUFFICES ASSUME NEW w \in Processes PROVE JobIsSound(w)'
      BY DEF JobsAreSound
    <3>1. JobIsSound(w) /\ process[w] \in Jobs
      BY DEF JobsAreSound, CatalogueTypeOK
    <3>2. process[w].doing = "signing" => process[w].began \in Nat
      BY <3>1, JobsAreTold DEF Signing
    <3>3. process[w].doing \in {"signed", "building"} => process[w].sig.catalog \in Nat
      BY <3>1, JobsAreTold DEF Signed, Building, Signature
    <3> QED
      BY <2>1, <3>1, <3>2, <3>3 DEF JobIsSound
  <2>3. RevsAreCounted'
    BY <2>1 DEF RevsAreCounted, bumping
  <2> QED
    BY <2>1, <2>2, <2>3
    DEF CatalogueTypeOK, SnapshotsAreOld, ListsAreCurrent, CopyIsCurrent, ListIsCurrent
<1>2. ASSUME NEW w \in Processes, WriteReview(w) PROVE CatalogueInv'
  <2> DEFINE j == [doing |-> "bumping"]
  <2>1. /\ UNCHANGED <<catalog_rev, reviews_rev, settingsCache, listCache,
                       listCacheSig, answer, browser>>
        /\ reviews' = reviews + 1 /\ reviews \in Nat
        /\ process' = [process EXCEPT ![w] = j]
        /\ process[w] = AtRestIn
    BY <1>2 DEF WriteReview, becomes, idle, CatalogueTypeOK
  <2>2. j \in Jobs /\ j.doing = "bumping"
    BY DEF Jobs
  <2>3. /\ process' \in [Processes -> Jobs] /\ process'[w] = j
        /\ \A v \in Processes \ {w} : process'[v] = process[v]
    BY <2>1, <2>2 DEF CatalogueTypeOK
  <2>4. RevsAreCounted'
    <3>1. bumping' = bumping \cup {w}
      BY <2>2, <2>3 DEF bumping
    <3>2. Cardinality(bumping') <= Cardinality(bumping) + 1
          /\ Cardinality(bumping') \in Nat
      BY <3>1, BumpingIsFinite, FS_AddElement
    <3> QED
      BY <2>1, <3>2, BumpingIsFinite DEF RevsAreCounted, CatalogueTypeOK
  <2>5. JobsAreSound'
    BY <2>1, <2>2, <2>3 DEF JobsAreSound, JobIsSound
  <2> QED
    BY <2>1, <2>3, <2>4, <2>5
    DEF CatalogueTypeOK, SnapshotsAreOld, ListsAreCurrent, CopyIsCurrent, ListIsCurrent
<1>3. ASSUME NEW w \in Processes, BumpReviewsRev(w) PROVE CatalogueInv'
  <2>1. /\ UNCHANGED <<catalog_rev, reviews, listCache, listCacheSig, answer, browser>>
        /\ reviews_rev' = reviews_rev + 1 /\ reviews_rev \in Nat
        /\ settingsCache' = [settingsCache EXCEPT ![w] = NoSettings]
        /\ becomes(w, AtRestIn) /\ AtRestIn \in Jobs /\ AtRestIn.doing = "idle"
        /\ w \in bumping
    BY <1>3 DEF BumpReviewsRev, bumping, AtRestIn, Jobs, CatalogueTypeOK
  <2>2. /\ process' \in [Processes -> Jobs] /\ process'[w] = AtRestIn
        /\ \A v \in Processes \ {w} : process'[v] = process[v]
    BY <2>1 DEF becomes, CatalogueTypeOK
  <2>3. RevsAreCounted'
    <3>1. Cardinality(bumping') = Cardinality(bumping) - 1
      BY <2>1, BumpingShrinks DEF CatalogueTypeOK
    <3> QED
      BY <2>1, <3>1, BumpingIsFinite DEF RevsAreCounted, CatalogueTypeOK
  <2>4. JobsAreSound'
    <3> SUFFICES ASSUME NEW v \in Processes PROVE JobIsSound(v)'
      BY DEF JobsAreSound
    <3>1. CASE v = w
      BY <3>1, <2>1, <2>2 DEF JobIsSound
    <3>2. CASE v # w
      <4>1. JobIsSound(v) /\ process[v] \in Jobs /\ process'[v] = process[v]
        BY <3>2, <2>2 DEF JobsAreSound, CatalogueTypeOK
      <4>2. process[v].doing = "signing" => process[v].reviews \in Nat
        BY <4>1, JobsAreTold DEF Signing
      <4>3. process[v].doing \in {"signed", "building"} => process[v].sig.reviews \in Nat
        BY <4>1, JobsAreTold DEF Signed, Building, Signature
      <4> QED
        BY <2>1, <4>1, <4>2, <4>3 DEF JobIsSound
    <3> QED
      BY <3>1, <3>2
  <2>5. settingsCache' \in [Processes -> Nat \cup {NoSettings}] /\ SnapshotsAreOld'
    <3>1. settingsCache' \in [Processes -> Nat \cup {NoSettings}]
          /\ settingsCache'[w] = NoSettings
          /\ \A v \in Processes \ {w} : settingsCache'[v] = settingsCache[v]
      BY <2>1 DEF CatalogueTypeOK
    <3>2. \A v \in Processes : settingsCache'[v] # NoSettings
            => settingsCache'[v] \in Nat /\ settingsCache'[v] <= reviews_rev
      BY <3>1 DEF SnapshotsAreOld
    <3> QED
      BY <2>1, <3>1, <3>2 DEF SnapshotsAreOld
  <2> QED
    BY <2>1, <2>2, <2>3, <2>4, <2>5
    DEF CatalogueTypeOK, ListsAreCurrent, CopyIsCurrent, ListIsCurrent
<1>4. ASSUME NEW w \in Processes, setSettingsTx(w) PROVE CatalogueInv'
  <2>1. /\ UNCHANGED <<catalog_rev, reviews, reviews_rev, listCache, listCacheSig,
                       process, answer, browser>>
        /\ settingsCache' = [settingsCache EXCEPT ![w] = reviews_rev]
    BY <1>4 DEF setSettingsTx
  <2>2. CatalogueTypeOK' /\ SnapshotsAreOld'
    BY <2>1 DEF CatalogueTypeOK, SnapshotsAreOld
  <2>3. RevsAreCounted' /\ JobsAreSound'
    BY <2>1 DEF RevsAreCounted, bumping, JobsAreSound, JobIsSound
  <2> QED
    BY <2>1, <2>2, <2>3 DEF ListsAreCurrent, CopyIsCurrent, ListIsCurrent
<1> QED
  BY <1>1, <1>2, <1>3, <1>4

\* Every step keeps the invariant.
LEMMA CatalogueStep == CatalogueInv /\ [CatalogueNext]_catalogueVars => CatalogueInv'
<1> SUFFICES ASSUME CatalogueInv, [CatalogueNext]_catalogueVars PROVE CatalogueInv'
  OBVIOUS
<1>1. ASSUME NEW w \in Processes, NotModified(w) PROVE CatalogueInv'
  <2>1. /\ answers(w, browser.body) /\ browser # NoCopy
        /\ browser.sig = process[w].sig
        /\ process[w].doing \in {"signed", "building"}
        /\ UNCHANGED <<catalog_rev, reviews, reviews_rev, settingsCache, listCache,
                       listCacheSig>>
    BY <1>1 DEF NotModified
  <2>2. browser.body \in Body /\ shows(browser.body, process[w].sig)
    BY <2>1 DEF CatalogueInv, CatalogueTypeOK, CopyIsCurrent
  <2>3. /\ listCache' \in [Processes -> Seq(Body)]
        /\ listCacheSig' \in [Processes -> Signature \cup {NoSignature}]
        /\ listCache' = listCache /\ listCacheSig' = listCacheSig
        /\ \A i \in DOMAIN listCache'[w] : shows(listCache'[w][i], listCacheSig'[w])
    BY <2>1 DEF CatalogueInv, CatalogueTypeOK, ListsAreCurrent
  <2> HIDE DEF answers
  <2> QED
    BY <2>1, <2>2, <2>3, AnswerStep
<1>2. CASE UNCHANGED catalogueVars
  BY <1>2
  DEF catalogueVars, CatalogueInv, CatalogueTypeOK, RevsAreCounted, bumping,
      SnapshotsAreOld, JobsAreSound, JobIsSound, ListsAreCurrent, CopyIsCurrent,
      ListIsCurrent
<1> QED
  BY <1>1, <1>2, HitStep, BuiltStep, RequestStep, WriteStep DEF CatalogueNext

\* ListIsCurrent for every cache size, any number of workers, filters and writes: no
\* answer is older than what its request could have seen.
THEOREM ListStaysCurrent == CatalogueSpec => []ListIsCurrent
<1>1. CatalogueInv => ListIsCurrent
  BY DEF CatalogueInv
<1>2. CatalogueSpec => []CatalogueInv
  BY InitCatalogueInv, CatalogueStep, PTL DEF CatalogueSpec
<1> QED
  BY <1>1, <1>2, PTL

\* The caches, their signatures and the jobs stay well typed.
THEOREM CatalogueTypesHold == CatalogueSpec => []CatalogueTypeOK
<1>1. CatalogueInv => CatalogueTypeOK
  BY DEF CatalogueInv
<1> QED
  BY <1>1, InitCatalogueInv, CatalogueStep, PTL DEF CatalogueSpec

-----------------------------------------------------------------------------
\* All of them side by side.

\* MCShop moves one machine at a time: each of them behaves as it does alone.
THEOREM ShopRunsMachines ==
  ShopSpec => /\ Spec /\ SessionSpec /\ CouponsSpec /\ CheckoutSpec /\ ResultSpec
              /\ CatalogueSpec /\ DeskSpec /\ TxSpec /\ CartSpec
<1>1. ShopInit => /\ Init /\ SessionInit /\ CouponsInit /\ CheckoutInit /\ ResultInit
                  /\ CatalogueInit /\ DeskInit /\ TxInit /\ CartInit
  BY DEF ShopInit
<1> DEFINE all == <<subject, vars, sessionVars, couponVars, checkoutVars, resultVars,
                    catalogueVars, deskVars, txVars, cartVars>>
<1>2. [ShopNext]_all => /\ [Next]_vars /\ [SessionNext]_sessionVars
                        /\ [CouponsNext]_couponVars /\ [CheckoutNext]_checkoutVars
                        /\ [ResultNext]_resultVars /\ [CatalogueNext]_catalogueVars
                        /\ [DeskNext]_deskVars /\ [TxNext]_txVars /\ [CartNext]_cartVars
  BY DEF ShopNext
<1> QED
  BY <1>1, <1>2, PTL DEF ShopSpec, Spec, SessionSpec, CouponsSpec, CheckoutSpec, ResultSpec,
                         CatalogueSpec, DeskSpec, TxSpec, CartSpec

\* Side by side, every machine's variables keep their types.
THEOREM ShopTypesHold == ShopSpec => []ShopTypeOK
<1>1. ShopTypeOK <=> /\ TypeOK /\ SessionTypeOK /\ CouponsTypeOK /\ CheckoutTypeOK
                     /\ ResultTypeOK /\ CatalogueTypeOK /\ DeskTypeOK /\ TxTypeOK /\ CartTypeOK
  BY DEF ShopTypeOK
<1> QED
  BY <1>1, ShopRunsMachines, TypeCorrect, SessionTypesHold, CouponTypesHold,
     CheckoutTypesHold, ResultTypesHold, CatalogueTypesHold, DeskTypesHold, TxTypesHold,
     CartTypesHold, PTL

\* Side by side, every machine keeps what it promises alone.
THEOREM ShopIsSafe ==
  ShopSpec => /\ []ReleasedAtMostOnce /\ []StockConserved /\ []UsesBounded
              /\ []OneOrderPerWish /\ []AsksOnSchedule /\ []ListIsCurrent
              /\ []ToldPerWish /\ []AllOrNothing /\ []PageShowsTheCart
              /\ DeadStaysDead /\ WindowNeverReopensByReturn /\ RevivedOnlyByWriters
  BY ShopRunsMachines, ReleaseOnce, UnitsAreConserved, UsesStayBounded, OneOrderOfAWish,
     PageAsksOnSchedule, ListStaysCurrent, ToldOncePerWorker, TransactionsAreAtomic,
     PageStaysTrue, NoResurrection, ReturnKeepsWindow, LoggedOutStaysOut
=============================================================================
