--------------------------- MODULE SecureChannel ---------------------------
(***************************************************************************)
(* What a session promises its two users, and nothing of how: each party   *)
(* hands messages to the channel, and the channel hands each of them to    *)
(* the peer at most once, in any order, perhaps never.  No message is      *)
(* handed over that the peer did not write.                                *)
(***************************************************************************)
EXTENDS Naturals, Sequences

CONSTANTS Party,     \* the two ends
          Message    \* what they exchange; m.from is its author

VARIABLES sent,      \* the messages written
          read       \* read[p]: the messages handed to p, in order

vars == <<sent, read>>

Init == sent = {} /\ read = [p \in Party |-> <<>>]

Write(m) ==
  /\ m \notin sent
  /\ sent' = sent \union {m}
  /\ read' = read

Read(p, m) ==
  /\ m \in sent /\ m.from # p
  /\ \A i \in 1 .. Len(read[p]) : read[p][i] # m
  /\ read' = [read EXCEPT ![p] = Append(@, m)]
  /\ sent' = sent

Next == \/ \E m \in Message : Write(m)
        \/ \E p \in Party, m \in sent : Read(p, m)

Spec == Init /\ [][Next]_vars
=============================================================================
