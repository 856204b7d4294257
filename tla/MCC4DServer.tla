---------------------------- MODULE MCC4DServer ----------------------------
(* Instances of C4DServer for TLC. *)
EXTENDS C4DServer, TLC

CONSTANTS n1, n2, n3, g1, g2, a1, c1, c2

\* A URL is never a node identifier.
MCUrl(n) == <<"http", n>>

\* Nodes that may fail in the same ways are interchangeable.
NodeSymmetry == Permutations({n1, n2, n3})
=============================================================================
