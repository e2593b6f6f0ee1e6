------------------------------ MODULE Backlog ------------------------------
(***************************************************************************)
(* What the pipeline owes its user, without cursors, floors, batches,      *)
(* attempts and faults: a check looks at the whole of a chat and queues    *)
(* every message that is wanted and not got yet, and a queued message      *)
(* stays queued until its file is there or it is gone from the chat.       *)
(***************************************************************************)
EXTENDS Integers

CONSTANTS
  Keys,    \* the chats
  MsgIds,  \* message ids
  Wanted,  \* Wanted[k]: the messages of chat k that are to be downloaded
  FileOf,  \* FileOf[k][m]: the file of message m
  Serves,  \* Serves[k][m]: the files that, once there, leave no need of message m
  Exempt   \* Exempt[k]: messages that need no download

VARIABLES
  newest,  \* newest[k]: the last message posted
  chat,    \* chat[k]: the messages that still exist
  queue,   \* queue[k]: the messages to be downloaded
  saved    \* the files in the download folder

vars == <<newest, chat, queue, saved>>

Got(k, m) == m \in Exempt[k] \/ \E g \in saved : g \in Serves[k][m]

Init ==
  /\ newest = [k \in Keys |-> 0]
  /\ chat = [k \in Keys |-> {}]
  /\ queue = [k \in Keys |-> {}]
  /\ saved = {}

Post(k) ==
  /\ newest' = [newest EXCEPT ![k] = @ + 1]
  /\ chat' = [chat EXCEPT ![k] = @ \cup {newest[k] + 1}]
  /\ UNCHANGED <<queue, saved>>

Delete(k, m) ==
  /\ chat' = [chat EXCEPT ![k] = @ \ {m}]
  /\ UNCHANGED <<newest, queue, saved>>

\* It misses nothing; what was got before may be queued once more.
Look(k) ==
  LET there == Wanted[k] \cap chat[k]
  IN /\ \E again \in SUBSET there :
          queue' = [queue EXCEPT ![k] = @ \cup {m \in there : ~Got(k, m)} \cup again]
     /\ UNCHANGED <<newest, chat, saved>>

\* Only what is queued is downloaded.
Download(k, m) ==
  /\ m \in queue[k]
  /\ saved' = saved \cup {FileOf[k][m]}
  /\ UNCHANGED <<newest, chat, queue>>

\* Nothing is dropped that is still needed.
Clear(k) ==
  /\ \E ids \in SUBSET {m \in queue[k] : Got(k, m) \/ m \notin chat[k]} :
       queue' = [queue EXCEPT ![k] = @ \ ids]
  /\ UNCHANGED <<newest, chat, saved>>

Next ==
  \E k \in Keys :
    \/ Post(k) \/ Look(k) \/ Clear(k)
    \/ \E m \in MsgIds : Delete(k, m) \/ Download(k, m)

Spec == Init /\ [][Next]_vars
=============================================================================
