---- MODULE MCTrustStore ----
(* Small instances of TrustStore, whose constants are sets of model values.  *)
EXTENDS TrustStore, TLC

\* The connection threads are interchangeable, and so are the peers and the
\* keys a start may generate: no definition tells one from another.
Interchangeable ==
    Permutations(Conns) \cup Permutations(Peers) \cup Permutations(SelfKeys)
====
