---------------------------- MODULE MCDownload ----------------------------
(* Two downloads for one path, their files differing in size, and a third    *)
(* one whose file is of the first one's size less the tolerated percent.     *)
EXTENDS Download

CONSTANTS t1, t2, t3

MCBase == [t \in Tasks |-> <<1>>]
MCSizeOf == [t \in Tasks |-> IF t = t1 THEN 100 ELSE IF t = t2 THEN 200 ELSE 99]
=============================================================================
