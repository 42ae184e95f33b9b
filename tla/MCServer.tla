------------------------------ MODULE MCServer ------------------------------
EXTENDS Server

CONSTANTS a, b,       \* keys: the sender's and the recipient's
          i1, i2,     \* instances
          snd, r1     \* a connection of each

AllAtOne == [s \in Socket |-> i1]
TwoHomes == [s \in Socket |-> IF s = snd THEN i1 ELSE i2]
OneKey   == [s \in Socket |-> IF s = snd THEN {a} ELSE {b}]
Once     == [s \in Socket |-> 1]
ToB      == [m \in Msg |-> b]
=============================================================================
