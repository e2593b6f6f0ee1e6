------------------------------ MODULE OneLook ------------------------------
(***************************************************************************)
(* What a scan promises run_check: however many requests it takes, it      *)
(* returns what one look at the chat would have returned, or it fails and  *)
(* returns nothing.  Pipeline's Scan is such a look.                       *)
(***************************************************************************)
EXTENDS Integers

VARIABLES
  chat,   \* the messages that exist
  mine,   \* the messages that the source is after
  floor,  \* the id at and below which it has seen everything
  found,  \* what the scan returned
  state   \* "scan", "done" or "failed"

vars == <<chat, mine, floor, found, state>>

Init == found = {} /\ state = "scan"

\* Messages disappear, and new ones are above all the others.
WorldMoves == \A n \in chat' \ chat : \A m \in chat : n > m

World == WorldMoves /\ UNCHANGED <<mine, floor, found, state>>

End(how, result) ==
  /\ state = "scan"
  /\ state' = how
  /\ found' = result
  /\ WorldMoves
  /\ UNCHANGED <<mine, floor>>

Look == End("done", {m \in chat \cap mine : m > floor})

Fail == End("failed", {})

Next == World \/ Look \/ Fail

Spec == Init /\ [][Next]_vars
=============================================================================
