------------------------------ MODULE MCPayment ------------------------------
\* Small instances of PaymentFlow.
EXTENDS PaymentProperties, TLC

\* Orders are numbers (ORDER BY id), so they are not interchangeable.
Symmetry == Permutations(Users) \cup Permutations(Keys)
              \cup Permutations(Workers) \cup Permutations(Callbacks)
=============================================================================
