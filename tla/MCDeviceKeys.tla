---------------------------- MODULE MCDeviceKeys ----------------------------
EXTENDS DeviceKeys

CONSTANTS f, ann, kim,   \* a file or form hook and a client in one browser, a client in another
          x, y, alice, bob, e1

Places == [h \in Hook |-> IF h = kim THEN y ELSE x]
First  == [h \in Hook |-> IF h = kim THEN bob ELSE alice]
=============================================================================
