----------------------------- MODULE FileStore -----------------------------
(***************************************************************************)
(* What the download folder promises, whatever the downloads go through:   *)
(* files are only ever added, under names that were free, and a download   *)
(* ends by adding its whole file, by finding a file of its size in place,  *)
(* or by giving up and leaving the folder alone.                           *)
(***************************************************************************)
EXTENDS Integers

CONSTANTS
  Tasks,  \* the downloads
  Whole   \* Whole[t]: the sizes that count as t's complete file

VARIABLES
  store,    \* store[n]: who wrote the file named n and its size
  outcome   \* outcome[t]: "open", "ok" or "failed"

vars == <<store, outcome>>

Init ==
  /\ store = [n \in {} |-> [by |-> "none", size |-> 0]]
  /\ outcome = [t \in Tasks |-> "open"]

\* One file more, by task t and of size z; the others stay as they were.
Added(t, sizes) ==
  \E n \in DOMAIN store' \ DOMAIN store :
    /\ DOMAIN store' = DOMAIN store \cup {n}
    /\ \A x \in DOMAIN store : store'[x] = store[x]
    /\ store'[n].by = t
    /\ store'[n].size \in sizes

End(t, how) == outcome[t] = "open" /\ outcome' = [outcome EXCEPT ![t] = how]

Keep(t) == End(t, "ok") /\ Added(t, Whole[t])

\* Some file has the size of t's: t is taken for its duplicate.
Skip(t) ==
  /\ End(t, "ok")
  /\ \E n \in DOMAIN store : store[n].size \in Whole[t]
  /\ UNCHANGED store

GiveUp(t) == End(t, "failed") /\ UNCHANGED store

\* A crash may leave an empty file at the name a download had reserved.
Debris(t) == UNCHANGED outcome /\ outcome[t] = "open" /\ Added(t, {0})

Next == \E t \in Tasks : Keep(t) \/ Skip(t) \/ GiveUp(t) \/ Debris(t)

Spec == Init /\ [][Next]_vars
=============================================================================
