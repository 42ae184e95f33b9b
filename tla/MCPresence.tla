----------------------------- MODULE MCPresence -----------------------------
EXTENDS Presence

CONSTANTS p1, p2   \* contacts

JustOne == <<p1>>
Both    == <<p1, p2>>
=============================================================================
