------------------------------ MODULE MCRelay ------------------------------
EXTENDS Relay

CONSTANTS a, b,            \* keys: the sender's and the recipient's
          i1, i2,          \* instances
          snd, r1, r2      \* one connection of the sender, two of the recipient

AllAtOne    == [s \in Socket |-> i1]
\* The recipient reconnects to another instance.
TwoHomes    == [s \in Socket |-> IF s = r2 THEN i2 ELSE i1]
OneKey      == [s \in Socket |-> IF s = snd THEN {a} ELSE {b}]
\* r1 switches between the two keys.
OneSwitches == [s \in Socket |-> IF s = snd THEN {a} ELSE IF s = r2 THEN {b} ELSE {a, b}]
Once        == [s \in Socket |-> 1]
R1Again     == [s \in Socket |-> IF s = r1 THEN 2 ELSE 1]
ToB         == [m \in Msg |-> b]
=============================================================================
