----------------------------- MODULE SourceScan -----------------------------
(***************************************************************************)
(* One scan of a source (iterate_new_media in src/sources/): request by    *)
(* request from the newest message down, while messages are posted and     *)
(* deleted.  A forum topic pages through the whole supergroup itself and   *)
(* picks its messages; the other sources leave the paging to pyrogram.     *)
(* The scan is one step in Pipeline; here it is shown to be as good as one.*)
(***************************************************************************)
EXTENDS Integers, FiniteSets

CONSTANTS
  MaxMsg,     \* bound: the highest message id
  ChunkSize,  \* messages per request of pyrogram (100)
  PageSize    \* batch_size of a forum topic (200)

ASSUME SourceScanAssumption ==
  /\ MaxMsg \in Nat
  /\ ChunkSize \in Nat \ {0}
  /\ PageSize \in Nat \ {0}

VARIABLES
  kind,    \* "topic", or "chat" for the other sources
  chat,    \* the messages that exist
  newest,  \* the highest id so far
  mine,    \* those with media, and of the topic if it is one
  floor,   \* last_seen_id
  offset,  \* offset_id: the last message read, 0 before the first
  page,    \* buf: what has arrived of the page
  read,    \* ghost: the messages that any request returned
  found,   \* the ids that run_check has collected
  state    \* "scan", "done" or "failed"

vars == <<kind, chat, newest, mine, floor, offset, page, read, found, state>>
scan == <<offset, page, read, found, state>>

MsgIds == 1..MaxMsg

Lowest(S) == CHOOSE m \in S : \A n \in S : m <= n

\* An offset of 0 means the newest message.
Below(o) == {m \in chat : o = 0 \/ m < o}

\* Where the next request starts: after the part of the page that has arrived.
Position == IF page = {} THEN offset ELSE Lowest(page)

Init ==
  /\ kind \in {"topic", "chat"}
  /\ newest \in 0..MaxMsg
  /\ chat \in SUBSET (1..newest)
  /\ mine \in SUBSET MsgIds
  /\ floor \in 0..MaxMsg
  /\ offset = 0
  /\ page = {}
  /\ read = {}
  /\ found = {}
  /\ state = "scan"

-----------------------------------------------------------------------------
(* One request, and what the source does when a page is there. *)

\* What Telegram may answer to a request that starts at o and has room for r
\* messages more: the newest ones below, and none only if there are none.
Answers(o, r) ==
  {c \in SUBSET Below(o) :
     /\ \A m \in c : \A n \in Below(o) : n > m => n \in c
     /\ Cardinality(c) <= ChunkSize /\ Cardinality(c) <= r
     /\ c = {} => Below(o) = {}}

\* Mutant: the topic's messages are counted instead of the page's.
ShortOfMine(p) == Cardinality(p \cap mine) < PageSize

\* A page that was not filled is the last one.
Short(p) == Cardinality(p) < PageSize

\* Mutant: the message at the floor is taken for a new one.
NewIncluded(p) == {m \in p \cap mine : m >= floor}

New(p) == {m \in p \cap mine : m > floor}

\* Where the iteration breaks: a topic looks at its own messages only.
ReachesFloor(p) == \E m \in p : m <= floor /\ (kind = "topic" => m \in mine)

\* Mutant: the offset follows the messages of the topic only.
LastOfMine(p) == IF p \cap mine = {} THEN offset ELSE Lowest(p \cap mine)

\* offset_id = m.id for each message of the page.
Last(p) == IF p = {} THEN offset ELSE Lowest(p)

\* The page is processed: its new messages are yielded, and the scan ends at
\* the floor or with the history.
Process(p, ended) ==
  /\ found' = found \cup New(p)
  /\ state' = IF ended \/ ReachesFloor(p) THEN "done" ELSE "scan"
  /\ offset' = Last(p)
  /\ page' = {}

FetchTopic ==
  /\ state = "scan" /\ kind = "topic"
  /\ \E c \in Answers(Position, PageSize - Cardinality(page)) :
       LET p == page \cup c
       IN /\ read' = read \cup c
          /\ IF c # {} /\ Cardinality(p) < PageSize
               THEN page' = p /\ UNCHANGED <<offset, found, state>>
               ELSE Process(p, Short(p))
  /\ UNCHANGED <<kind, chat, newest, mine, floor>>

\* pyrogram's own paging: messages are yielded as they come, until none does.
FetchChat ==
  /\ state = "scan" /\ kind = "chat"
  /\ \E c \in Answers(Position, ChunkSize) :
       /\ read' = read \cup c
       /\ Process(c, c = {})
  /\ UNCHANGED <<kind, chat, newest, mine, floor>>

\* A request raises: run_check drops what it has collected (RpcFails).
RequestFails ==
  /\ state = "scan"
  /\ state' = "failed"
  /\ found' = {}
  /\ UNCHANGED <<kind, chat, newest, mine, floor, offset, page, read>>

Post ==
  /\ newest < MaxMsg
  /\ newest' = newest + 1
  /\ chat' = chat \cup {newest'}
  /\ UNCHANGED <<kind, mine, floor, scan>>

Delete ==
  /\ \E m \in chat : chat' = chat \ {m}
  /\ UNCHANGED <<kind, newest, mine, floor, scan>>

Next == FetchTopic \/ FetchChat \/ RequestFails \/ Post \/ Delete

Spec == Init /\ [][Next]_vars

\* Telegram answers, one way or the other.
FairSpec == Spec /\ WF_vars(FetchTopic \/ FetchChat)

-----------------------------------------------------------------------------
(* What a scan is for. *)

TypeOK ==
  /\ kind \in {"topic", "chat"}
  /\ newest \in 0..MaxMsg
  /\ chat \in SUBSET (1..newest)
  /\ mine \in SUBSET MsgIds
  /\ floor \in 0..MaxMsg
  /\ read \in SUBSET MsgIds
  /\ offset \in {0} \cup read
  /\ page \in SUBSET read
  /\ found \in SUBSET read
  /\ state \in {"scan", "done", "failed"}

\* A scan that ends has found every message above the floor that was there all
\* the time, although offsets move by ids and not by counts, pages are filled
\* with messages of other topics, and deletions shorten them (the short-page
\* test and offset_id in _iter_docs_newest_first).  A message that is missed
\* falls below the next floor and is never seen again.
NoneMissed ==
  state = "done" =>
    \A m \in chat \cap mine : (m > floor /\ \E n \in read : m <= n) => m \in found

\* The chat as one look at the beginning of the scan would have to see it, for
\* the look to return what the scan returns: deletions of messages that were
\* read, and new messages, come later.
SeenChat == IF state = "scan" /\ read # {} THEN read \cup Below(Position) ELSE chat

\* The whole scan is one look at the chat (the streams of iterate_new_media
\* that run_check collects before it queues anything).
Once == INSTANCE OneLook WITH chat <- SeenChat, found <- IF state = "scan" THEN {} ELSE found
IsOneLook == Once!Spec

\* Every scan ends, also in a supergroup where the topic is silent and no floor
\* stops it, and while others keep posting.
ScanEnds == <>(state # "scan")
=============================================================================
