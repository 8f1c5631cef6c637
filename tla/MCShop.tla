-------------------------------- MODULE MCShop --------------------------------
(***************************************************************************)
(* Small instances of the machines that share no state with each other, in *)
(* one run.  Every property is about one of them, so it is enough that in  *)
(* each behaviour one of them moves: the subject, chosen at the start.     *)
(***************************************************************************)
EXTENDS OrderStock, Sessions, Coupons, CheckoutPage, ResultPage, Catalogue,
        StockDesk, Transactions, CartPage, TLC

CONSTANTS
  Subjects,  \* the machines that the run looks at
  Pair       \* two of a kind: workers, users, orders, requests, browser tabs

VARIABLE subject

ShopInit ==
  /\ subject \in Subjects
  /\ Init
  /\ SessionInit
  /\ CouponsInit
  /\ CheckoutInit
  /\ ResultInit
  /\ CatalogueInit
  /\ DeskInit
  /\ TxInit
  /\ CartInit
  \* What is not the subject rests in one of its initial states.
  /\ subject # "order" => stock = [p \in Products |-> 0]
  /\ subject # "checkout" => address = CHOOSE a \in Addresses : TRUE
  /\ subject # "desk" => units = 0
  /\ subject # "cart" => cart = [qty |-> [g \in Goods |-> 0], coupon |-> FALSE]

ShopNext ==
  /\ UNCHANGED subject
  /\ IF subject = "order" THEN Next ELSE UNCHANGED vars
  /\ IF subject = "session" THEN SessionNext ELSE UNCHANGED sessionVars
  /\ IF subject = "coupon" THEN CouponsNext ELSE UNCHANGED couponVars
  /\ IF subject = "checkout" THEN CheckoutNext ELSE UNCHANGED checkoutVars
  /\ IF subject = "result" THEN ResultNext ELSE UNCHANGED resultVars
  /\ IF subject = "catalogue" THEN CatalogueNext ELSE UNCHANGED catalogueVars
  /\ IF subject = "desk" THEN DeskNext ELSE UNCHANGED deskVars
  /\ IF subject = "transaction" THEN TxNext ELSE UNCHANGED txVars
  /\ IF subject = "cart" THEN CartNext ELSE UNCHANGED cartVars

ShopSpec ==
  ShopInit /\ [][ShopNext]_<<subject, vars, sessionVars, couponVars, checkoutVars, resultVars, catalogueVars, deskVars, txVars, cartVars>>

\* Every machine's variables have their types.
ShopTypeOK ==
  /\ TypeOK
  /\ SessionTypeOK
  /\ CouponsTypeOK
  /\ CheckoutTypeOK
  /\ ResultTypeOK
  /\ CatalogueTypeOK
  /\ DeskTypeOK
  /\ TxTypeOK
  /\ CartTypeOK

Symmetry == Permutations(Pair)
=============================================================================
