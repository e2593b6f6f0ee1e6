------------------------------ MODULE MCSources ------------------------------
(* Three sources: the first never works and wants nothing (so that it may    *)
(* share the key of the second), the others have chats of their own.         *)
(* Message 1 of the second and message 2 of the third have one destination   *)
(* path, no numbered variant of it left, and files of two sizes.  Message 2  *)
(* of the second has a path that is rejected, and the third a legacy cursor. *)
EXTENDS Pipeline

CONSTANTS k1, k2, f1, f2, f3, n1, n2, n3

MCKeyOf == [s \in 1..3 |-> IF s = 3 THEN k2 ELSE k1]
MCWanted == [s \in 1..3 |-> IF s = 1 THEN {} ELSE 1..MaxMsg]
MCNone == [s \in 1..3 |-> {}]
MCLast == [s \in 1..3 |-> IF s = 2 THEN {MaxMsg} ELSE {}]
MCYaml == [k \in {k1, k2} |-> IF k = k2 THEN 1 ELSE 0]
MCFileOf == [k \in {k1, k2} |-> [m \in 1..MaxMsg |->
               IF k = k1 THEN (IF m = 1 THEN f1 ELSE f2) ELSE (IF m = 1 THEN f2 ELSE f3)]]
MCNameOf == [s \in 1..3 |-> [m \in 1..MaxMsg |->
               IF s = 3 THEN (IF m = 1 THEN n3 ELSE n1) ELSE (IF m = 1 THEN n1 ELSE n2)]]
MCSizeOf == [f \in {f1, f2, f3} |-> IF f = f3 THEN 1 ELSE 2]
=============================================================================
