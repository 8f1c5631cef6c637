------------------------------ MODULE MCCluster ------------------------------
\* Small instances of Cluster.
EXTENDS Cluster, TLC

\* Only for runs without liveness.
Symmetry == Permutations(Ids)
=============================================================================
