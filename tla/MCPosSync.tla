----------------------------- MODULE MCPosSync -----------------------------
(* PosSync on small instances: what one screen did, see the .cfg files *)
EXTENDS PosSync, TLC

CONSTANTS s1, s2

Op(kind, s, cash, number) == [kind |-> kind, shift |-> s, cash |-> cash, number |-> number]

(* A shift with a sale, its return and cash put into the drawer, and the next shift *)
TwoShifts == <<Op("open", s1, 0, 0), Op("sale", s1, 4, 1), Op("return", s1, 1, 1), Op("move", s1, 2, 0),
               Op("close", s1, 0, 0), Op("open", s2, 0, 0), Op("close", s2, 0, 0)>>
=============================================================================
