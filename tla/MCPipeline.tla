----------------------------- MODULE MCPipeline -----------------------------
(* One source with three messages: 1 and 3 carry the same file, and all of   *)
(* them have one destination path, the two files differing in size.          *)
EXTENDS Pipeline

CONSTANTS k1, f1, f2, n1

MCKeyOf == [s \in 1..1 |-> k1]
MCAll == [s \in 1..1 |-> 1..MaxMsg]
MCNone == [s \in 1..1 |-> {}]
MCFirst == [s \in 1..1 |-> {1}]
MCYaml == [k \in {k1} |-> 0]
MCFileOf == [k \in {k1} |-> [m \in 1..MaxMsg |-> IF m % 2 = 1 THEN f1 ELSE f2]]
MCNameOf == [s \in 1..1 |-> [m \in 1..MaxMsg |-> n1]]
MCSizeOf == [f \in {f1, f2} |-> IF f = f1 THEN 1 ELSE 2]
=============================================================================
