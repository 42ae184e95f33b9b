----------------------------- MODULE MCPreKeys -----------------------------
EXTENDS PreKeys

CONSTANTS p1, p2   \* peers

\* First frames of each peer.
OneEach == [p \in Peer |-> 1]
TwoEach == [p \in Peer |-> 2]
Uneven  == [p \in Peer |-> IF p = p1 THEN 2 ELSE 1]
=============================================================================
