------------------------------ MODULE Pipeline ------------------------------
(***************************************************************************)
(* The download pipeline of the Telegram media downloader: one check       *)
(* (run_check in src/main.py) walks the configured sources in order, scans *)
(* each one for new messages into the persistent pending queue, and drains *)
(* that queue in batches of concurrent download tasks (download_batch).    *)
(* Three SQLite tables outlive the process: the cursors, the pending queue *)
(* and the download history.  The module interleaves the check with the    *)
(* chats (messages posted and deleted), with the user (files moved out of  *)
(* the download folder) and with faults: crashes at every point where the  *)
(* code commits or awaits, check timeouts, failing RPCs, failing commits.  *)
(***************************************************************************)
EXTENDS Integers, FiniteSets

CONSTANTS
  NumSources,      \* configured sources, in config order (= priority)
  Keys,            \* cursor keys
  KeyOf,           \* KeyOf[s]: the cursor key of source s
  MaxMsg,          \* bound: messages ever posted to one chat
  Wanted,          \* Wanted[s]: messages with media that the filter accepts
  Files,           \* Telegram files (file_unique_id)
  FileOf,          \* FileOf[k][m]: the file message m of chat k carries
  SizeOf,          \* SizeOf[f]: size of file f
  Names,           \* destination paths, before conflict resolution
  NoFile,          \* nothing stored at a destination path
  Crowded,         \* destination paths whose numbered variants are all taken, so that
                   \* resolve_conflict gives up
  NameOf,          \* NameOf[s][m]: destination path built for message m
  BadPath,         \* BadPath[s]: messages whose path is rejected (ValueError)
  Poison,          \* Poison[s]: messages whose download always raises (the name of
                   \* the .partial file exceeds the file system's limit)
  Broken,          \* sources whose history can never be read
  Yaml,            \* Yaml[k]: cursor in the legacy state.yaml, 0 if none
  MaxDownloads,    \* max_downloads_per_run, 0 = uncapped
  FullBatch,       \* batch size of the uncapped mode (200 in the code)
  MaxAttempts,     \* max_download_attempts
  MaxConcurrent,   \* max_concurrent_downloads
  TrackDownloads,  \* track_downloads: is there a download history?
  HookEnabled,     \* is post_download_hook configured?
  MaxFaults        \* bound: crashes, timeouts and unexpected errors

Sources == 1..NumSources
MsgIds  == 1..MaxMsg

ASSUME ConstantsAssumption ==
  /\ NumSources \in Nat \ {0}
  /\ KeyOf \in [Sources -> Keys]
  /\ MaxMsg \in Nat
  /\ Wanted \in [Sources -> SUBSET MsgIds]
  /\ FileOf \in [Keys -> [MsgIds -> Files]]
  /\ SizeOf \in [Files -> Nat]
  /\ NoFile \notin Files
  /\ Crowded \subseteq Names
  /\ NameOf \in [Sources -> [MsgIds -> Names]]
  /\ BadPath \in [Sources -> SUBSET MsgIds]
  /\ Poison \in [Sources -> SUBSET MsgIds]
  /\ Broken \subseteq Sources
  /\ Yaml \in [Keys -> Nat]
  /\ MaxDownloads \in Nat
  /\ FullBatch \in Nat \ {0}
  /\ MaxAttempts \in Nat \ {0}
  /\ MaxConcurrent \in Nat \ {0}
  /\ TrackDownloads \in BOOLEAN
  /\ HookEnabled \in BOOLEAN
  /\ MaxFaults \in Nat

VARIABLES
  newest,        \* newest[k]: id of the last message posted to chat k
  chat,          \* chat[k]: messages that still exist
  disk,          \* disk[n]: file stored at destination path n
  cursor,        \* table cursors
  pending,       \* table pending_downloads: queued messages
  attempts,      \* its column attempts, 0 for a message with no row
  history,       \* table download_history
  pc,            \* where run_check stands
  src,           \* source being processed
  task,          \* download_one tasks of the current batch
  orphans,       \* orphaned_ids of the current batch
  sourcesFailed, \* sources_failed of the current check
  outcome,       \* how the last check ended
  faults,        \* faults so far
  saved,         \* ghost: files ever written in full to the download folder
  again,         \* ghost: again[f]: downloads of f completed while f was in the history
  finished,      \* ghost: messages processed and removed from the queue
  failedNow      \* ghost: messages that failed while this source was processed

world == <<newest, chat>>
tables == <<cursor, pending, attempts, history>>
check == <<pc, src, task, orphans, sourcesFailed, outcome>>
ghosts == <<finished, failedNow>>
vars == <<newest, chat, disk, cursor, pending, attempts, history, pc, src, task,
          orphans, sourcesFailed, outcome, faults, saved, again, finished, failedNow>>

Key == KeyOf[src]
NoTasks == [m \in MsgIds |-> "none"]
InState(states) == {m \in MsgIds : task[m] \in states}
FailedIds == InState({"failed"})
\* Mutant: failures leave the queue as well.
ProcessedAll == orphans \cup InState({"done", "failed"})
Processed == orphans \cup InState({"done"})

TypeOK ==
  /\ newest \in [Keys -> 0..MaxMsg]
  /\ chat \in [Keys -> SUBSET MsgIds]
  /\ disk \in [Names -> Files \cup {NoFile}]
  /\ cursor \in [Keys -> Nat]
  /\ pending \in [Keys -> SUBSET MsgIds]
  /\ attempts \in [Keys -> [MsgIds -> Nat]]
  /\ history \subseteq Files
  /\ pc \in {"down", "idle", "source", "fetch", "tasks"}
  /\ src \in Sources
  /\ task \in [MsgIds -> {"none", "wait", "path", "load", "hook", "done", "failed"}]
  /\ orphans \subseteq MsgIds
  /\ sourcesFailed \in Nat
  /\ outcome \in {"none", "ok", "failed", "aborted"}
  /\ faults \in Nat
  /\ saved \subseteq Files
  /\ again \in [Files -> Nat]
  /\ finished \in [Keys -> SUBSET MsgIds]
  /\ failedNow \subseteq MsgIds

Init ==
  /\ newest = [k \in Keys |-> 0]
  /\ chat = [k \in Keys |-> {}]
  /\ disk = [n \in Names |-> NoFile]
  /\ cursor = [k \in Keys |-> 0]
  /\ pending = [k \in Keys |-> {}]
  /\ attempts = [k \in Keys |-> [m \in MsgIds |-> 0]]
  /\ history = {}
  /\ pc = "down"
  /\ src = 1
  /\ task = NoTasks
  /\ orphans = {}
  /\ sourcesFailed = 0
  /\ outcome = "none"
  /\ faults = 0
  /\ saved = {}
  /\ again = [f \in Files |-> 0]
  /\ finished = [k \in Keys |-> {}]
  /\ failedNow = {}

-----------------------------------------------------------------------------
(* The tables.  Each write is one SQLite transaction. *)

\* Mutant: a plain upsert, the last writer wins.
CursorSetLastWriter(k, m) == cursor' = [cursor EXCEPT ![k] = m]

\* cursor_store.set: the upsert keeps the larger id.
CursorSet(k, m) == cursor' = [cursor EXCEPT ![k] = IF m > @ THEN m ELSE @]

\* Mutant: the scan stops after the first, that is the newest, message.
AddBatchNewest(k, ids) ==
  pending' = [pending EXCEPT ![k] = @ \cup {m \in ids : \A x \in ids : x <= m}]

\* pending.add_batch: INSERT OR IGNORE, so a queued row keeps its attempts.
AddBatch(k, ids) == pending' = [pending EXCEPT ![k] = @ \cup ids]

\* pending.remove_batch: DELETE; a row queued again later starts at 0 attempts.
RemoveBatch(k, ids) ==
  /\ pending' = [pending EXCEPT ![k] = @ \ ids]
  /\ attempts' = [attempts EXCEPT ![k] = [m \in MsgIds |-> IF m \in ids THEN 0 ELSE @[m]]]

\* remove_batch followed by increment_attempts.
RemoveAndIncrement(k, ids, failed) ==
  /\ pending' = [pending EXCEPT ![k] = @ \ ids]
  /\ attempts' = [attempts EXCEPT ![k] =
                    [m \in MsgIds |-> IF m \in ids THEN 0
                                      ELSE IF m \in failed THEN @[m] + 1 ELSE @[m]]]

\* Mutant: off by one in the attempt budget.
EligibleOneMore(k) == {m \in pending[k] : attempts[k][m] <= MaxAttempts}

\* pending.get_oldest: rows within the attempt budget, oldest ids first.
Eligible(k) == {m \in pending[k] : attempts[k][m] < MaxAttempts}
Oldest(ids, n) == {m \in ids : Cardinality({x \in ids : x < m}) < n}
BatchSize == IF MaxDownloads = 0 THEN FullBatch ELSE MaxDownloads

\* Mutant: max_attempts is not passed on.
GetOldestNoBudget(k) == Oldest(pending[k], BatchSize)

GetOldest(k) == Oldest(Eligible(k), BatchSize)

\* The messages a scan may return: newest first, it stops at the floor, which
\* is the highest queued id in resume mode and the cursor otherwise.
AboveFloor(k) ==
  IF pending[k] # {} THEN {m \in chat[k] : \A p \in pending[k] : m > p}
                     ELSE {m \in chat[k] : m > cursor[k]}

-----------------------------------------------------------------------------
(* How run_check moves on. *)

\* Leave the current source: the next one, or the end of the check, which
\* fails when every source failed.
NextSource(failures) ==
  /\ task' = NoTasks
  /\ orphans' = {}
  /\ failedNow' = {}
  /\ IF src < NumSources
       THEN /\ pc' = "source"
            /\ src' = src + 1
            /\ sourcesFailed' = failures
            /\ UNCHANGED outcome
       ELSE /\ pc' = "idle"
            /\ src' = 1
            /\ sourcesFailed' = 0
            /\ outcome' = IF failures = NumSources THEN "failed" ELSE "ok"

\* The check is cut short: an account-wide error (FloodWait, Unauthorized) is
\* raised through it, the daemon's timeout cancels it, or the process dies.
CutShort(where, how) ==
  /\ pc' = where
  /\ src' = 1
  /\ task' = NoTasks
  /\ orphans' = {}
  /\ failedNow' = {}
  /\ sourcesFailed' = 0
  /\ outcome' = how

\* Mutant: an error of one source ends the whole check.
FailSourceEndsCheck == CutShort("idle", "failed")

\* `except Exception`: one broken source does not end the check.
FailSource == NextSource(sourcesFailed + 1)

Fault == faults < MaxFaults /\ faults' = faults + 1

-----------------------------------------------------------------------------
(* The process and the scan phase. *)

\* Start-up migrates the legacy cursors, every time state.yaml is still there.
Start ==
  /\ pc = "down"
  /\ pc' = "idle"
  /\ cursor' = [k \in Keys |-> IF Yaml[k] > cursor[k] THEN Yaml[k] ELSE cursor[k]]
  /\ UNCHANGED <<world, disk, pending, attempts, history, src, task, orphans,
                 sourcesFailed, outcome, faults, saved, again, ghosts>>

StartCheck ==
  /\ pc = "idle"
  /\ pc' = "source"
  /\ UNCHANGED <<world, disk, tables, src, task, orphans, sourcesFailed, outcome,
                 faults, saved, again, ghosts>>

\* The ids are collected in memory and queued in one transaction at the end of
\* the scan.  The scan is one step: it reads backwards from the newest message
\* at its opening, so a message posted during it is above everything it finds.
Scan ==
  /\ pc = "source"
  /\ src \notin Broken
  /\ LET new == AboveFloor(Key) \cap Wanted[src]
     IN /\ AddBatch(Key, new)
        /\ IF pending[Key] = {} /\ new = {}
             THEN NextSource(sourcesFailed)
             ELSE /\ pc' = "fetch"
                  /\ failedNow' = {}
                  /\ UNCHANGED <<src, task, orphans, sourcesFailed, outcome>>
  /\ UNCHANGED <<world, disk, cursor, attempts, history, faults, saved, again, finished>>

\* get_display_name, the scan or get_messages raises.
RpcFails ==
  /\ pc \in {"source", "fetch"}
  /\ IF pc = "source" /\ src \in Broken THEN UNCHANGED faults ELSE Fault
  /\ FailSource
  /\ UNCHANGED <<world, disk, tables, saved, again, finished>>

\* FloodWait or Unauthorized from the same calls ends the check.
AccountError ==
  /\ pc \in {"source", "fetch"}
  /\ Fault
  /\ CutShort("idle", "aborted")
  /\ UNCHANGED <<world, disk, tables, saved, again, finished>>

-----------------------------------------------------------------------------
(* The download phase: one batch of queued messages at a time. *)

NothingDue ==
  /\ pc = "fetch"
  /\ GetOldest(Key) = {}
  /\ NextSource(sourcesFailed)
  /\ UNCHANGED <<world, disk, tables, faults, saved, again, finished>>

\* get_messages returns none of the ids: they are dropped from the queue.
AllOrphaned ==
  /\ pc = "fetch"
  /\ GetOldest(Key) # {}
  /\ GetOldest(Key) \cap chat[Key] = {}
  /\ RemoveBatch(Key, GetOldest(Key))
  /\ IF MaxDownloads # 0
       THEN NextSource(sourcesFailed)
       ELSE UNCHANGED <<pc, src, task, orphans, sourcesFailed, outcome, failedNow>>
  /\ UNCHANGED <<world, disk, cursor, history, faults, saved, again, finished>>

StartBatch ==
  /\ pc = "fetch"
  /\ LET due == GetOldest(Key)
         candidates == due \cap chat[Key]
     IN /\ candidates # {}
        /\ task' = [m \in MsgIds |-> IF m \in candidates THEN "wait" ELSE "none"]
        /\ orphans' = due \ candidates
  /\ pc' = "tasks"
  /\ UNCHANGED <<world, disk, tables, src, sourcesFailed, outcome, faults, saved, again,
                 ghosts>>

\* The ghost's share of a remove_batch.
Finish == finished' = [finished EXCEPT ![Key] = @ \cup InState({"done"})]

\* TaskGroup done: everything but the failures leaves the queue.  In capped
\* mode the source is left after one batch, otherwise the queue is read again.
BatchDone ==
  /\ pc = "tasks"
  /\ InState({"wait", "path", "load", "hook"}) = {}
  /\ RemoveAndIncrement(Key, Processed, FailedIds)
  /\ Finish
  /\ IF MaxDownloads # 0
       THEN NextSource(sourcesFailed)
       ELSE /\ pc' = "fetch"
            /\ task' = NoTasks
            /\ orphans' = {}
            /\ failedNow' = failedNow \cup FailedIds
            /\ UNCHANGED <<src, sourcesFailed, outcome>>
  /\ UNCHANGED <<world, disk, cursor, history, faults, saved, again>>

\* One of the two commits at the end of a batch raises StateError.
BatchCommitFails ==
  /\ pc = "tasks"
  /\ InState({"wait", "path", "load", "hook"}) = {}
  /\ Fault
  /\ \/ UNCHANGED <<pending, attempts, finished>>
     \/ RemoveBatch(Key, Processed) /\ Finish
  /\ FailSource
  /\ UNCHANGED <<world, disk, cursor, history, saved, again>>

-----------------------------------------------------------------------------
(* One task, download_one(msg). *)

SetTask(m, state) == task' = [task EXCEPT ![m] = state]

\* Mutant: any file at the destination passes for a duplicate.
AnySizeStored(n, f) == disk[n] # NoFile

\* is_duplicate: the destination exists and has the size of the message's file.
SameSizeStored(n, f) == disk[n] # NoFile /\ SizeOf[disk[n]] = SizeOf[f]

\* resolve_conflict raises RuntimeError.
NoNameLeft(n, f) == disk[n] # NoFile /\ ~SameSizeStored(n, f) /\ n \in Crowded

\* Mutant: the history is not consulted.
AcquireNoHistory(m) ==
  /\ pc = "tasks"
  /\ task[m] = "wait"
  /\ \A x \in InState({"wait"}) : m <= x
  /\ Cardinality(InState({"path", "load", "hook"})) < MaxConcurrent
  /\ SetTask(m, "path")
  /\ UNCHANGED <<world, disk, tables, pc, src, orphans, sourcesFailed, outcome, faults,
                 saved, again, ghosts>>

\* The semaphore serves the tasks in creation order, that is by message id.
\* The history is consulted at once; a hit ends the task.
Acquire(m) ==
  /\ pc = "tasks"
  /\ task[m] = "wait"
  /\ \A x \in InState({"wait"}) : m <= x
  /\ Cardinality(InState({"path", "load", "hook"})) < MaxConcurrent
  /\ IF TrackDownloads /\ FileOf[Key][m] \in history
       THEN SetTask(m, "done") /\ CursorSet(Key, m)
       ELSE SetTask(m, "path") /\ UNCHANGED cursor
  /\ UNCHANGED <<world, disk, pending, attempts, history, pc, src, orphans,
                 sourcesFailed, outcome, faults, saved, again, ghosts>>

\* The destination path is built (it may await the source's display name),
\* validated and looked up on disk: rejected and same-size files are skipped, and
\* files for which there is no name left.
Resolve(m) ==
  /\ pc = "tasks"
  /\ task[m] = "path"
  /\ IF \/ m \in BadPath[src]
        \/ SameSizeStored(NameOf[src][m], FileOf[Key][m])
        \/ NoNameLeft(NameOf[src][m], FileOf[Key][m])
       THEN SetTask(m, "done") /\ CursorSet(Key, m)
       ELSE SetTask(m, "load") /\ UNCHANGED cursor
  /\ UNCHANGED <<world, disk, pending, attempts, history, pc, src, orphans,
                 sourcesFailed, outcome, faults, saved, again, ghosts>>

\* The end of a successful download_media_with_retry: the file is published
\* under its path, or dropped when a file of its size got there first, or
\* published under another name (not tracked here) on a conflict.
Publish(m) ==
  LET f == FileOf[Key][m]
      n == NameOf[src][m]
  IN /\ ~NoNameLeft(n, f)
     /\ disk' = IF disk[n] = NoFile THEN [disk EXCEPT ![n] = f] ELSE disk
     /\ saved' = IF SameSizeStored(n, f) THEN saved ELSE saved \cup {f}
     /\ again' = IF f \in history THEN [again EXCEPT ![f] = @ + 1] ELSE again

RecordHistory(m) ==
  history' = IF TrackDownloads THEN history \cup {FileOf[Key][m]} ELSE history

\* Mutant: the history row is committed before the file.
CommitsHistoryFirst(m, upto) ==
  /\ IF upto >= 1 THEN RecordHistory(m) ELSE UNCHANGED history
  /\ IF upto >= 2 THEN Publish(m) ELSE UNCHANGED <<disk, saved, again>>
  /\ IF upto >= 3 THEN CursorSet(Key, m) ELSE UNCHANGED cursor

\* The commits of a successful download, in code order; only the first `upto`
\* of them happen.
Commits(m, upto) ==
  /\ IF upto >= 1 THEN Publish(m) ELSE UNCHANGED <<disk, saved, again>>
  /\ IF upto >= 2 THEN CursorSet(Key, m) ELSE UNCHANGED cursor
  /\ IF upto >= 3 THEN RecordHistory(m) ELSE UNCHANGED history

\* download_media_with_retry returned True; there is no await up to the hook.
LoadOK(m) ==
  /\ pc = "tasks"
  /\ task[m] = "load"
  /\ m \notin Poison[src]
  /\ Commits(m, 3)
  /\ SetTask(m, IF HookEnabled THEN "hook" ELSE "done")
  /\ UNCHANGED <<world, pending, attempts, pc, src, orphans, sourcesFailed, outcome,
                 faults, ghosts>>

\* download_media_with_retry returned False.
LoadFails(m) ==
  /\ pc = "tasks"
  /\ task[m] = "load"
  /\ m \notin Poison[src]
  /\ SetTask(m, "failed")
  /\ UNCHANGED <<world, disk, tables, pc, src, orphans, sourcesFailed, outcome,
                 faults, saved, again, ghosts>>

HookDone(m) ==
  /\ pc = "tasks"
  /\ task[m] = "hook"
  /\ SetTask(m, "done")
  /\ UNCHANGED <<world, disk, tables, pc, src, orphans, sourcesFailed, outcome,
                 faults, saved, again, ghosts>>

\* An exception leaves download_one: a failing commit (StateError), a file
\* system error, a failing get_display_name.  The TaskGroup cancels the other
\* tasks and the source fails; nothing is removed and no attempt is counted.
TaskRaises(m) ==
  /\ pc = "tasks"
  /\ task[m] \in {"path", "load", "hook"}
  /\ IF task[m] = "load" /\ m \in Poison[src]
       THEN Commits(m, 0) /\ UNCHANGED faults
       ELSE /\ Fault
            /\ \E upto \in (IF task[m] = "load" THEN 0..2 ELSE {0}) : Commits(m, upto)
  /\ FailSource
  /\ UNCHANGED <<world, pending, attempts, finished>>

-----------------------------------------------------------------------------
(* Faults that end the check at an await, or the process anywhere. *)

\* wait_for(check_timeout) or a shutdown signal cancels the check.
Interrupt ==
  /\ pc \in {"source", "fetch", "tasks"}
  /\ Fault
  /\ CutShort("idle", "aborted")
  /\ UNCHANGED <<world, disk, tables, saved, again, finished>>

Crash ==
  /\ pc # "down"
  /\ Fault
  /\ CutShort("down", "none")
  /\ UNCHANGED <<world, disk, tables, saved, again, finished>>

\* The process dies between the commits of a successful download.
CrashInCommits(m) ==
  /\ pc = "tasks"
  /\ task[m] = "load"
  /\ m \notin Poison[src]
  /\ Fault
  /\ \E upto \in 1..2 : Commits(m, upto)
  /\ CutShort("down", "none")
  /\ UNCHANGED <<world, pending, attempts, finished>>

\* The process dies between remove_batch and increment_attempts.
CrashAfterRemove ==
  /\ pc = "tasks"
  /\ InState({"wait", "path", "load", "hook"}) = {}
  /\ Fault
  /\ RemoveBatch(Key, Processed)
  /\ Finish
  /\ CutShort("down", "none")
  /\ UNCHANGED <<world, disk, cursor, history, saved, again>>

-----------------------------------------------------------------------------
(* The world around the process. *)

\* Telegram hands out increasing message ids within a chat.
Post(k) ==
  /\ newest[k] < MaxMsg
  /\ newest' = [newest EXCEPT ![k] = @ + 1]
  /\ chat' = [chat EXCEPT ![k] = @ \cup {newest[k] + 1}]
  /\ UNCHANGED <<disk, tables, check, faults, saved, again, ghosts>>

Delete(k, m) ==
  /\ m \in chat[k]
  /\ chat' = [chat EXCEPT ![k] = @ \ {m}]
  /\ UNCHANGED <<newest, disk, tables, check, faults, saved, again, ghosts>>

\* The user moves a downloaded file out of the download folder.
MoveAway(n) ==
  /\ disk[n] # NoFile
  /\ disk' = [disk EXCEPT ![n] = NoFile]
  /\ UNCHANGED <<world, tables, check, faults, saved, again, ghosts>>

-----------------------------------------------------------------------------
TaskStep(m) ==
  Acquire(m) \/ Resolve(m) \/ LoadOK(m) \/ LoadFails(m) \/ HookDone(m) \/ TaskRaises(m)

\* What the program does when nothing goes wrong (a poisoned message or a
\* broken source counts as the way things are, not as a fault).
Program ==
  \/ Start \/ StartCheck \/ Scan \/ RpcFails \/ NothingDue \/ AllOrphaned
  \/ StartBatch \/ BatchDone \/ \E m \in MsgIds : TaskStep(m)

Failure ==
  \/ AccountError \/ BatchCommitFails \/ Interrupt \/ Crash \/ CrashAfterRemove
  \/ \E m \in MsgIds : CrashInCommits(m)

World ==
  \/ \E k \in Keys : Post(k) \/ \E m \in MsgIds : Delete(k, m)
  \/ \E n \in Names : MoveAway(n)

Next == Program \/ Failure \/ World

Spec == Init /\ [][Next]_vars

\* The daemon keeps starting checks and asyncio keeps running ready tasks, so
\* the program as a whole never stops while it can take a step.
FairSpec == Spec /\ WF_vars(Program)

-----------------------------------------------------------------------------
(* What the pipeline promises. *)

\* Two files land on one destination path and have one size: the code takes
\* the second for the first (is_duplicate) and stores only one of them.
SamePlace(f, g) ==
  /\ SizeOf[f] = SizeOf[g]
  /\ \E s, t \in Sources, m, n \in MsgIds :
       /\ FileOf[KeyOf[s]][m] = f
       /\ FileOf[KeyOf[t]][n] = g
       /\ NameOf[s][m] = NameOf[t][n]

Kept(f) == \E g \in saved : g = f \/ SamePlace(f, g)

\* A file of another size that takes the last name there was for message m.
Displaces(g, s, m) ==
  /\ NameOf[s][m] \in Crowded
  /\ SizeOf[g] # SizeOf[FileOf[KeyOf[s]][m]]
  /\ \E t \in Sources, x \in MsgIds : NameOf[t][x] = NameOf[s][m] /\ FileOf[KeyOf[t]][x] = g

\* Source s needs message m no more.  A message is logged and skipped when its path
\* is rejected or no name is left for its file.
Settled(s, m) ==
  \/ m \in BadPath[s]
  \/ Kept(FileOf[KeyOf[s]][m])
  \/ \E g \in saved : Displaces(g, s, m)

\* The next scan of chat k will find message m.
WillBeScanned(k, m) ==
  IF pending[k] = {} THEN m > cursor[k] ELSE \A p \in pending[k] : m > p

\* No message is ever lost: a message that still exists, that its source wants
\* and that no legacy cursor covers is queued, or will be found by the next
\* scan, or its file was written to the download folder (or no path could be
\* had for it, which the code logs and skips).  It ties together the cursor, the
\* queue and the disk across crashes, timeouts, failing sources and commits,
\* with tasks finishing out of order (run_check, download_batch).
NoLoss ==
  \A s \in Sources : \A m \in Wanted[s] \cap chat[KeyOf[s]] :
    \/ m <= Yaml[KeyOf[s]]
    \/ m \in pending[KeyOf[s]]
    \/ WillBeScanned(KeyOf[s], m)
    \/ Settled(s, m)

\* A history row is only ever there for a file that was really saved, so a
\* history hit never skips a file the user does not have (history.record after
\* the publish in download_one).
HistorySound == \A f \in history : Kept(f)

\* The attempt column never exceeds its budget, and a row that comes back to
\* the queue starts from zero (get_oldest and increment_attempts).
AttemptsInBudget ==
  \A k \in Keys : \A m \in MsgIds :
    /\ attempts[k][m] <= MaxAttempts
    /\ m \notin pending[k] => attempts[k][m] = 0

\* A step moves a cursor forward only, and from the start-up on only that of
\* the current source, to a message whose file is kept.
FollowsFile ==
  \A k \in Keys : cursor'[k] # cursor[k] =>
    /\ cursor'[k] > cursor[k]
    /\ \/ pc = "down"
       \/ k = Key /\ \E s \in {src}, m \in MsgIds : m = cursor'[k] /\ Settled(s, m)'

\* The cursor only moves forward, and while the process runs it only moves to
\* a message that is already settled: a crash between the two commits repeats
\* work but skips none (cursor_store.set in download_one).
CursorFollowsFile == [][FollowsFile]_vars

\* A step counts one attempt per failed task, and touches no row that has used
\* up its attempts.
CountsFailures ==
  \A k \in Keys : \A m \in MsgIds :
    /\ attempts'[k][m] > attempts[k][m] =>
         k = Key /\ task[m] = "failed" /\ attempts'[k][m] = attempts[k][m] + 1
    /\ (m \in pending[k] /\ attempts[k][m] >= MaxAttempts) =>
         m \in pending'[k] /\ attempts'[k][m] = attempts[k][m]

\* An attempt is counted for a failed download only, one per batch, and a row
\* that used up its attempts stays in the table for as long as it is not
\* scheduled again, which is never (increment_attempts, get_oldest).
AttemptsAreFailures == [][CountsFailures]_vars

\* A file that the history names is downloaded again by those tasks only that
\* looked it up before it was recorded, and they held the other slots then: over
\* all checks, crashes and moves of files there are fewer such downloads than
\* slots, and none with a single slot (history.contains and history.record under
\* the semaphore of download_one).
SecondCopiesBounded == \A f \in Files : again[f] <= MaxConcurrent - 1

\* A step counts no attempt for a message that has failed on this source already.
CountsOnce == \A m \in MsgIds : attempts'[Key][m] > attempts[Key][m] => m \notin failedNow

\* docs/configuration.md:301 counts max_download_attempts in checks: on its way
\* through a source a check counts at most one for a message.  Only capped mode
\* leaves the source after a batch; uncapped, the loop of run_check reads the
\* queue again and uses up the budget of a failing message in one check.
OneAttemptPerCheck == [][CountsOnce]_vars

\* Message m of source s was dealt with: processed, given up or withdrawn.
Concluded(s, m) ==
  LET k == KeyOf[s]
  IN \/ m \in finished[k]
     \/ m \in pending[k] /\ attempts[k][m] >= MaxAttempts
     \/ m \notin chat[k]
     \/ m <= Yaml[k]

\* Every wanted message is eventually processed or given up, whatever fails
\* along the way and even when sources before this one never work (the source
\* loop of run_check goes on after an error).
EventuallyConcluded ==
  \A s \in Sources \ Broken : \A m \in Wanted[s] :
    (m \in chat[KeyOf[s]]) ~> Concluded(s, m)

-----------------------------------------------------------------------------
(* The inductive invariant behind NoLoss, for sources with keys of their own. *)

DistinctKeys == \A s, t \in Sources : KeyOf[s] = KeyOf[t] => s = t

\* Everything queued or existing was posted, and a cursor beyond the newest
\* message can only be a legacy one.
QueueWasPosted ==
  \A k \in Keys :
    /\ pending[k] \subseteq 1..newest[k]
    /\ chat[k] \subseteq 1..newest[k]
    /\ cursor[k] <= newest[k] \/ cursor[k] <= Yaml[k]

\* A file on disk was saved there for some message with that destination.
DiskSound ==
  \A n \in Names : disk[n] # NoFile =>
    /\ disk[n] \in saved
    /\ \E s \in Sources, m \in MsgIds : NameOf[s][m] = n /\ FileOf[KeyOf[s]][m] = disk[n]

\* A batch works on queued messages, its orphans are gone from the chat, and
\* a task past its commits has settled its message.
BatchSound ==
  /\ pc # "tasks" => task = NoTasks /\ orphans = {}
  /\ \A m \in MsgIds : task[m] # "none" => m \in pending[Key]
  /\ orphans \subseteq pending[Key] \ chat[Key]
  /\ \A m \in MsgIds : task[m] \in {"hook", "done"} => Settled(src, m)

\* A wanted message that is neither queued nor settled is above the cursor and
\* above the whole queue, so either kind of scan finds it.
Unseen(s, m) ==
  /\ m \in Wanted[s] \cap chat[KeyOf[s]]
  /\ m > Yaml[KeyOf[s]]
  /\ m \notin pending[KeyOf[s]]
  /\ ~Settled(s, m)

UnseenAbove ==
  \A s \in Sources : \A m \in MsgIds : Unseen(s, m) =>
    /\ m > cursor[KeyOf[s]]
    /\ \A p \in pending[KeyOf[s]] : m > p

\* The inductive strengthening of NoLoss and HistorySound: what relates queue,
\* cursor, disk and history at every point of run_check.
IInv ==
  /\ TypeOK
  /\ QueueWasPosted
  /\ DiskSound
  /\ HistorySound
  /\ BatchSound
  /\ UnseenAbove

-----------------------------------------------------------------------------
(* The abstract backlog. *)

\* Per chat: what its sources want, and what they do not need downloaded.
SourcesOf(k) == {s \in Sources : KeyOf[s] = k}
WantedOf == [k \in Keys |-> UNION {Wanted[s] : s \in SourcesOf(k)}]
ExemptOf ==
  [k \in Keys |-> {m \in MsgIds : m <= Yaml[k]} \cup UNION {BadPath[s] : s \in SourcesOf(k)}]
Serves ==
  [k \in Keys |-> [m \in MsgIds |->
     {g \in Files : \/ g = FileOf[k][m] \/ SamePlace(FileOf[k][m], g)
                    \/ \E s \in SourcesOf(k) : Displaces(g, s, m)}]]

\* Cursors and resume floors are only shortcuts, and batches, crashes and
\* timeouts only delays: the checks work as if each one looked at the whole of
\* every chat, and nothing leaves the queue before its file is there or its
\* message gone (run_check, download_batch, the state stores).
Abstract == INSTANCE Backlog WITH
  Wanted <- WantedOf,
  Exempt <- ExemptOf,
  queue <- pending
WorksOffBacklog == Abstract!Spec
=============================================================================
