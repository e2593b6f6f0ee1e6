--------------------------- MODULE PipelineProofs ---------------------------
(***************************************************************************)
(* What Pipeline promises for every number of sources and messages, every  *)
(* assignment of files, names, filters and limits: type correctness, that  *)
(* the history names stored files only, that cursors follow the files and  *)
(* attempts the failures, that second copies of a file are fewer than the  *)
(* slots, and, for sources with cursor keys of their own, that no message  *)
(* is lost.                                                                *)
(***************************************************************************)
EXTENDS Pipeline, FiniteSetTheorems, TLAPS

\* The control variables of a check have their types after it left a source.
LEMMA NextSourceType ==
  ASSUME TypeOK, NEW failures \in Nat, NextSource(failures)
  PROVE  /\ pc' \in {"idle", "source"}
         /\ src' \in Sources
         /\ task' = NoTasks
         /\ orphans' = {}
         /\ failedNow' = {}
         /\ sourcesFailed' \in Nat
         /\ outcome' \in {"none", "ok", "failed", "aborted"}
  BY ConstantsAssumption DEF TypeOK, NextSource, Sources

\* The same after a source that failed.
LEMMA FailSourceType ==
  ASSUME TypeOK, FailSource
  PROVE  /\ pc' \in {"idle", "source"}
         /\ src' \in Sources
         /\ task' = NoTasks
         /\ orphans' = {}
         /\ failedNow' = {}
         /\ sourcesFailed' \in Nat
         /\ outcome' \in {"none", "ok", "failed", "aborted"}
  <1>1. sourcesFailed + 1 \in Nat
    BY DEF TypeOK
  <1> QED BY <1>1, NextSourceType DEF FailSource

\* The same after a check that was cut short.
LEMMA CutShortType ==
  ASSUME TypeOK, NEW where \in {"idle", "down"}, NEW how \in {"none", "aborted"},
         CutShort(where, how)
  PROVE  /\ pc' = where
         /\ src' \in Sources
         /\ task' = NoTasks
         /\ orphans' = {}
         /\ failedNow' = {}
         /\ sourcesFailed' \in Nat
         /\ outcome' \in {"none", "ok", "failed", "aborted"}
  BY ConstantsAssumption DEF TypeOK, CutShort, Sources

\* The empty batch is a batch.
LEMMA NoTasksType ==
  NoTasks \in [MsgIds -> {"none", "wait", "path", "load", "hook", "done", "failed"}]
  BY DEF NoTasks

\* Key is the key of a source.
LEMMA KeyType == ASSUME TypeOK PROVE Key \in Keys
  BY ConstantsAssumption DEF TypeOK, Key

\* get_oldest returns queued messages.
LEMMA GetOldestType == ASSUME TypeOK, NEW k \in Keys
                       PROVE  GetOldest(k) \subseteq pending[k] /\ GetOldest(k) \subseteq MsgIds
  BY DEF TypeOK, GetOldest, Oldest, Eligible

\* What leaves the queue at the end of a batch are messages.
LEMMA ProcessedType == ASSUME TypeOK PROVE Processed \subseteq MsgIds
  BY DEF TypeOK, Processed, InState

\* The commits of a task keep the types of what they write.
LEMMA CommitsType ==
  ASSUME TypeOK, NEW m \in MsgIds, NEW upto \in 0..3, Commits(m, upto)
  PROVE  /\ disk' \in [Names -> Files \cup {NoFile}]
         /\ saved' \subseteq Files
         /\ again' \in [Files -> Nat]
         /\ cursor' \in [Keys -> Nat]
         /\ history' \subseteq Files
  <1>1. Key \in Keys /\ FileOf[Key][m] \in Files /\ NameOf[src][m] \in Names
    BY KeyType, ConstantsAssumption DEF TypeOK
  <1>2. m \in Nat
    BY ConstantsAssumption DEF MsgIds
  <1>3. disk' \in [Names -> Files \cup {NoFile}] /\ saved' \subseteq Files
    BY <1>1 DEF TypeOK, Commits, Publish
  <1>6. again' \in [Files -> Nat]
    BY <1>1 DEF TypeOK, Commits, Publish
  <1>4. cursor' \in [Keys -> Nat]
    BY <1>1, <1>2 DEF TypeOK, Commits, CursorSet
  <1>5. history' \subseteq Files
    BY <1>1 DEF TypeOK, Commits, RecordHistory
  <1> QED BY <1>3, <1>4, <1>5, <1>6

\* A removal keeps the types of the queue.
LEMMA RemoveType ==
  ASSUME TypeOK, NEW k \in Keys, NEW ids \in SUBSET MsgIds, RemoveBatch(k, ids)
  PROVE  /\ pending' \in [Keys -> SUBSET MsgIds]
         /\ attempts' \in [Keys -> [MsgIds -> Nat]]
  BY DEF TypeOK, RemoveBatch

\* So does a removal followed by counting the failures.
LEMMA RemoveAndIncrementType ==
  ASSUME TypeOK, NEW k \in Keys, NEW ids \in SUBSET MsgIds, NEW failed \in SUBSET MsgIds,
         RemoveAndIncrement(k, ids, failed)
  PROVE  /\ pending' \in [Keys -> SUBSET MsgIds]
         /\ attempts' \in [Keys -> [MsgIds -> Nat]]
  BY DEF TypeOK, RemoveAndIncrement

\* The ghost of a removal keeps its type.
LEMMA FinishType ==
  ASSUME TypeOK, Finish PROVE finished' \in [Keys -> SUBSET MsgIds]
  BY KeyType DEF TypeOK, Finish, InState

\* The fault counter keeps its type.
LEMMA FaultType == ASSUME TypeOK, Fault PROVE faults' \in Nat
  BY DEF TypeOK, Fault

-----------------------------------------------------------------------------
\* Type correctness at the start of the process.
LEMMA TypeInit == Init => TypeOK
  <1> SUFFICES ASSUME Init PROVE TypeOK
    OBVIOUS
  <1>1. src \in Sources
    BY ConstantsAssumption DEF Init, Sources
  <1>2. newest \in [Keys -> 0..MaxMsg]
    BY ConstantsAssumption DEF Init
  <1> QED BY <1>1, <1>2, NoTasksType DEF Init, TypeOK

\* Type correctness over one step of a download task.
LEMMA TypeTask ==
  ASSUME TypeOK, NEW m \in MsgIds, TaskStep(m) PROVE TypeOK'
  <1>0. Key \in Keys /\ m \in Nat
    BY KeyType, ConstantsAssumption DEF MsgIds
  <1>1. CASE Acquire(m) \/ Resolve(m)
    <2>1. \E s \in {"path", "load", "done"} : SetTask(m, s)
      BY <1>1 DEF Acquire, Resolve
    <2>2. task' \in [MsgIds -> {"none", "wait", "path", "load", "hook", "done", "failed"}]
      BY <2>1 DEF TypeOK, SetTask
    <2>3. CursorSet(Key, m) \/ UNCHANGED cursor
      BY <1>1 DEF Acquire, Resolve
    <2>4. cursor' \in [Keys -> Nat]
      BY <1>0, <2>3 DEF TypeOK, CursorSet
    <2>5. UNCHANGED <<world, disk, pending, attempts, history, pc, src, orphans,
                      sourcesFailed, outcome, faults, saved, again, ghosts>>
      BY <1>1 DEF Acquire, Resolve
    <2> QED BY <2>2, <2>4, <2>5 DEF TypeOK, world, ghosts
  <1>3. CASE LoadOK(m)
    BY <1>3, CommitsType DEF TypeOK, LoadOK, SetTask, world, ghosts
  <1>4. CASE LoadFails(m)
    BY <1>4 DEF TypeOK, LoadFails, SetTask, world, tables, ghosts
  <1>5. CASE HookDone(m)
    BY <1>5 DEF TypeOK, HookDone, SetTask, world, tables, ghosts
  <1>6. CASE TaskRaises(m)
    <2>1. PICK upto \in 0..3 : Commits(m, upto)
      BY <1>6 DEF TaskRaises
    <2>2. faults' \in Nat
      BY <1>6, FaultType DEF TaskRaises, TypeOK
    <2> QED BY <1>6, <2>1, <2>2, CommitsType, FailSourceType, NoTasksType
            DEF TypeOK, TaskRaises, world
  <1> QED BY <1>1, <1>3, <1>4, <1>5, <1>6 DEF TaskStep

\* Type correctness over any step.
LEMMA TypeNext == TypeOK /\ [Next]_vars => TypeOK'
  <1> SUFFICES ASSUME TypeOK, [Next]_vars PROVE TypeOK'
    OBVIOUS
  <1>0. Key \in Keys
    BY KeyType
  <1>1. CASE Start
    BY <1>1, ConstantsAssumption DEF TypeOK, Start, world, ghosts
  <1>2. CASE StartCheck
    BY <1>2 DEF TypeOK, StartCheck, world, tables, ghosts
  <1>3. CASE Scan
    <2>1. pending' \in [Keys -> SUBSET MsgIds]
      BY <1>0, <1>3, ConstantsAssumption DEF TypeOK, Scan, AddBatch
    <2>2. CASE NextSource(sourcesFailed)
      BY <1>3, <2>1, <2>2, NextSourceType, NoTasksType DEF TypeOK, Scan, world
    <2>3. CASE /\ pc' = "fetch"
               /\ failedNow' = {}
               /\ UNCHANGED <<src, task, orphans, sourcesFailed, outcome>>
      BY <1>3, <2>1, <2>3 DEF TypeOK, Scan, world
    <2> QED BY <1>3, <2>2, <2>3 DEF Scan
  <1>4. CASE RpcFails
    <2>1. faults' \in Nat
      BY <1>4, FaultType DEF RpcFails, TypeOK
    <2> QED BY <1>4, <2>1, FailSourceType, NoTasksType DEF TypeOK, RpcFails, world, tables
  <1>5. CASE NothingDue
    BY <1>5, NextSourceType, NoTasksType DEF TypeOK, NothingDue, world, tables
  <1>6. CASE AllOrphaned
    <2>1. /\ pending' \in [Keys -> SUBSET MsgIds]
          /\ attempts' \in [Keys -> [MsgIds -> Nat]]
      BY <1>0, <1>6, GetOldestType, RemoveType DEF AllOrphaned
    <2>2. CASE NextSource(sourcesFailed)
      BY <1>6, <2>1, <2>2, NextSourceType, NoTasksType DEF TypeOK, AllOrphaned, world
    <2>3. CASE UNCHANGED <<pc, src, task, orphans, sourcesFailed, outcome, failedNow>>
      BY <1>6, <2>1, <2>3 DEF TypeOK, AllOrphaned, world
    <2> QED BY <1>6, <2>2, <2>3 DEF AllOrphaned
  <1>7. CASE StartBatch
    <2>1. GetOldest(Key) \subseteq MsgIds
      BY <1>0, GetOldestType
    <2> QED BY <1>7, <2>1 DEF TypeOK, StartBatch, world, tables, ghosts
  <1>8. CASE BatchDone
    <2>1. /\ pending' \in [Keys -> SUBSET MsgIds]
          /\ attempts' \in [Keys -> [MsgIds -> Nat]]
      BY <1>0, <1>8, ProcessedType, RemoveAndIncrementType DEF BatchDone, FailedIds, InState
    <2>2. finished' \in [Keys -> SUBSET MsgIds]
      BY <1>8, FinishType DEF BatchDone
    <2>3. CASE NextSource(sourcesFailed)
      BY <1>8, <2>1, <2>2, <2>3, NextSourceType, NoTasksType DEF TypeOK, BatchDone, world
    <2>4. CASE /\ pc' = "fetch"
               /\ task' = NoTasks
               /\ orphans' = {}
               /\ failedNow' = failedNow \cup FailedIds
               /\ UNCHANGED <<src, sourcesFailed, outcome>>
      BY <1>8, <2>1, <2>2, <2>4, NoTasksType
         DEF TypeOK, BatchDone, FailedIds, InState, world
    <2> QED BY <1>8, <2>3, <2>4 DEF BatchDone
  <1>9. CASE \E m \in MsgIds : TaskStep(m)
    BY <1>9, TypeTask
  <1>10. CASE AccountError
    BY <1>10, CutShortType, FaultType, NoTasksType DEF TypeOK, AccountError, world, tables
  <1>11. CASE BatchCommitFails
    <2>1. /\ pending' \in [Keys -> SUBSET MsgIds]
          /\ attempts' \in [Keys -> [MsgIds -> Nat]]
          /\ finished' \in [Keys -> SUBSET MsgIds]
      BY <1>0, <1>11, ProcessedType, RemoveType, FinishType DEF TypeOK, BatchCommitFails
    <2> QED BY <1>11, <2>1, FailSourceType, FaultType, NoTasksType
            DEF TypeOK, BatchCommitFails, world
  <1>12. CASE Interrupt
    BY <1>12, CutShortType, FaultType, NoTasksType DEF TypeOK, Interrupt, world, tables
  <1>13. CASE Crash
    BY <1>13, CutShortType, FaultType, NoTasksType DEF TypeOK, Crash, world, tables
  <1>14. CASE CrashAfterRemove
    <2>1. /\ pending' \in [Keys -> SUBSET MsgIds]
          /\ attempts' \in [Keys -> [MsgIds -> Nat]]
          /\ finished' \in [Keys -> SUBSET MsgIds]
      BY <1>0, <1>14, ProcessedType, RemoveType, FinishType DEF CrashAfterRemove
    <2> QED BY <1>14, <2>1, CutShortType, FaultType, NoTasksType
            DEF TypeOK, CrashAfterRemove, world
  <1>15. CASE \E m \in MsgIds : CrashInCommits(m)
    <2>1. PICK m \in MsgIds : CrashInCommits(m)
      BY <1>15
    <2>2. PICK upto \in 0..3 : Commits(m, upto)
      BY <2>1 DEF CrashInCommits
    <2>3. /\ disk' \in [Names -> Files \cup {NoFile}]
          /\ saved' \subseteq Files
          /\ again' \in [Files -> Nat]
          /\ cursor' \in [Keys -> Nat]
          /\ history' \subseteq Files
      BY <2>2, CommitsType
    <2>4. CutShort("down", "none") /\ Fault
      BY <2>1 DEF CrashInCommits
    <2>5. UNCHANGED <<world, pending, attempts, finished>>
      BY <2>1 DEF CrashInCommits
    <2> QED BY <2>3, <2>4, <2>5, CutShortType, FaultType, NoTasksType DEF TypeOK, world
  <1>16. CASE World
    <2>1. CASE \E k \in Keys : Post(k)
      <3>1. PICK k \in Keys : Post(k)
        BY <2>1
      <3>0. newest[k] \in 0..MaxMsg /\ newest[k] < MaxMsg
        BY <3>1 DEF TypeOK, Post
      <3>2. newest[k] + 1 \in MsgIds /\ newest[k] + 1 \in 0..MaxMsg
        BY <3>0, ConstantsAssumption DEF MsgIds
      <3> QED BY <3>1, <3>2 DEF TypeOK, Post, tables, check, ghosts
    <2>2. CASE \E k \in Keys, m \in MsgIds : Delete(k, m)
      BY <2>2 DEF TypeOK, Delete, tables, check, ghosts
    <2>3. CASE \E n \in Names : MoveAway(n)
      BY <2>3 DEF TypeOK, MoveAway, world, tables, check, ghosts
    <2> QED BY <1>16, <2>1, <2>2, <2>3 DEF World
  <1>17. CASE UNCHANGED vars
    BY <1>17 DEF TypeOK, vars
  <1> QED BY <1>1, <1>2, <1>3, <1>4, <1>5, <1>6, <1>7, <1>8, <1>9, <1>10, <1>11, <1>12,
             <1>13, <1>14, <1>15, <1>16, <1>17 DEF Next, Program, Failure

\* Type correctness of every reachable state.
THEOREM TypeCorrect == Spec => []TypeOK
  <1> QED BY TypeInit, TypeNext, PTL DEF Spec

-----------------------------------------------------------------------------
(* NoLoss.  Most steps only narrow things down: messages leave the chat or   *)
(* the queue, files are added, and a cursor moves to a legacy one or to a    *)
(* queued message.  NarrowingStep settles all of them; the scan and a new    *)
(* message are the two steps with an argument of their own.                  *)

\* What a narrowing step does to chats, queue, cursors and saved files.
Narrowing ==
  /\ newest' = newest
  /\ saved \subseteq saved'
  /\ \A k \in Keys : chat'[k] \subseteq chat[k] /\ pending'[k] \subseteq pending[k]
  /\ \A k \in Keys : \/ cursor'[k] = cursor[k]
                     \/ cursor'[k] <= Yaml[k]
                     \/ cursor'[k] \in pending[k]
  /\ \A s \in Sources : \A m \in pending[KeyOf[s]] \ pending'[KeyOf[s]] :
       Settled(s, m) \/ m \notin chat[KeyOf[s]]

\* A settled message stays settled: saved files are never forgotten.
LEMMA SettledStays ==
  ASSUME saved \subseteq saved', NEW s, NEW m, Settled(s, m)
  PROVE  Settled(s, m)'
  BY DEF Settled, Kept

\* A message without a name left for its file is settled: the file that has the
\* name was saved.
LEMMA DisplacedSettled ==
  ASSUME DiskSound, NEW m \in MsgIds, src \in Sources, Key = KeyOf[src],
         NoNameLeft(NameOf[src][m], FileOf[Key][m])
  PROVE  Settled(src, m)
  <1> DEFINE n == NameOf[src][m]
  <1>1. n \in Names
    BY ConstantsAssumption
  <1>2. disk[n] \in saved /\ \E s \in Sources, x \in MsgIds :
                               NameOf[s][x] = n /\ FileOf[KeyOf[s]][x] = disk[n]
    BY <1>1 DEF DiskSound, NoNameLeft
  <1>3. Displaces(disk[n], src, m)
    BY <1>2 DEF Displaces, NoNameLeft, SameSizeStored
  <1> QED BY <1>2, <1>3 DEF Settled

\* A narrowing step hides no unseen message behind the cursor or the queue.
LEMMA NarrowingStep ==
  ASSUME TypeOK, TypeOK', QueueWasPosted, UnseenAbove, Narrowing
  PROVE  QueueWasPosted' /\ UnseenAbove'
  <1>1. QueueWasPosted'
    <2> SUFFICES ASSUME NEW k \in Keys
                 PROVE  /\ pending'[k] \subseteq 1..newest'[k]
                        /\ chat'[k] \subseteq 1..newest'[k]
                        /\ cursor'[k] <= newest'[k] \/ cursor'[k] <= Yaml[k]
      BY DEF QueueWasPosted
    <2>1. /\ pending[k] \subseteq 1..newest[k]
          /\ chat[k] \subseteq 1..newest[k]
          /\ cursor[k] <= newest[k] \/ cursor[k] <= Yaml[k]
      BY DEF QueueWasPosted
    <2>2. cursor'[k] \in pending[k] => cursor'[k] <= newest[k]
      BY <2>1, ConstantsAssumption DEF TypeOK
    <2> QED BY <2>1, <2>2 DEF Narrowing
  <1>2. UnseenAbove'
    <2> SUFFICES ASSUME NEW s \in Sources, NEW m \in MsgIds, Unseen(s, m)'
                 PROVE  /\ m > cursor'[KeyOf[s]]
                        /\ \A p \in pending'[KeyOf[s]] : m > p
      BY DEF UnseenAbove
    <2>0. KeyOf[s] \in Keys
      BY ConstantsAssumption
    <2>1. ~Settled(s, m)
      BY SettledStays DEF Unseen, Narrowing
    <2>2. m \in chat[KeyOf[s]]
      BY <2>0 DEF Unseen, Narrowing
    <2>3. m \notin pending[KeyOf[s]]
      BY <2>0, <2>1, <2>2 DEF Unseen, Narrowing
    <2>4. Unseen(s, m)
      BY <2>1, <2>2, <2>3 DEF Unseen
    <2>5. m > cursor[KeyOf[s]] /\ \A p \in pending[KeyOf[s]] : m > p
      BY <2>4 DEF UnseenAbove
    <2>6. m > Yaml[KeyOf[s]]
      BY <2>4 DEF Unseen
    <2>7. /\ m \in Nat
          /\ Yaml[KeyOf[s]] \in Nat
          /\ cursor'[KeyOf[s]] \in Nat
      BY <2>0, ConstantsAssumption DEF TypeOK, MsgIds
    <2>8. m > cursor'[KeyOf[s]]
      BY <2>0, <2>5, <2>6, <2>7 DEF Narrowing
    <2> QED BY <2>0, <2>5, <2>8 DEF Narrowing
  <1> QED BY <1>1, <1>2

\* A step that touches none of these is a narrowing one.
LEMMA QuietStep ==
  ASSUME TypeOK, UNCHANGED <<newest, chat, cursor, pending, saved>>
  PROVE  Narrowing
  BY DEF Narrowing

\* Disk and history stay sound when nobody writes to them.
LEMMA DiskHistoryQuiet ==
  ASSUME DiskSound, HistorySound, UNCHANGED <<disk, history, saved>>
  PROVE  DiskSound' /\ HistorySound'
  BY DEF DiskSound, HistorySound, Kept

\* Between batches there is nothing to say about a batch.
LEMMA EmptyBatch ==
  ASSUME task' = NoTasks, orphans' = {}
  PROVE  BatchSound'
  BY DEF BatchSound, NoTasks

\* A cursor that advances to a queued message.
LEMMA CursorStep ==
  ASSUME TypeOK, NEW m \in pending[Key], CursorSet(Key, m),
         UNCHANGED <<newest, chat, pending>>, saved \subseteq saved'
  PROVE  Narrowing
  <1>1. Key \in Keys
    BY KeyType
  <1> QED BY <1>1 DEF Narrowing, CursorSet, TypeOK

\* The commits of a successful download, or a prefix of them, keep disk and
\* history sound, and the first of them settles the message.
LEMMA CommitsSound ==
  ASSUME TypeOK, DiskSound, HistorySound, NEW m \in MsgIds, NEW upto \in 0..3,
         Commits(m, upto)
  PROVE  /\ saved \subseteq saved'
         /\ upto >= 1 => \E g \in saved' : g = FileOf[Key][m] \/ SamePlace(FileOf[Key][m], g)
         /\ DiskSound'
         /\ HistorySound'
  <1> DEFINE f == FileOf[Key][m]
             n == NameOf[src][m]
  <1>0. Key \in Keys /\ f \in Files /\ n \in Names /\ src \in Sources
    BY KeyType, ConstantsAssumption DEF TypeOK
  <1>1. saved \subseteq saved'
    BY DEF Commits, Publish
  <1>2. ASSUME upto >= 1
        PROVE  \E g \in saved' : g = f \/ SamePlace(f, g)
    <2>1. CASE SameSizeStored(n, f)
      <3>1. PICK s \in Sources, x \in MsgIds :
              NameOf[s][x] = n /\ FileOf[KeyOf[s]][x] = disk[n]
        BY <1>0, <2>1 DEF SameSizeStored, DiskSound
      <3>2. disk[n] \in saved /\ SizeOf[f] = SizeOf[disk[n]]
        BY <1>0, <2>1 DEF SameSizeStored, DiskSound
      <3>3. SamePlace(f, disk[n])
        BY <1>0, <3>1, <3>2 DEF SamePlace, Key
      <3> QED BY <1>1, <3>2, <3>3
    <2>2. CASE ~SameSizeStored(n, f)
      BY <1>2, <2>2 DEF Commits, Publish
    <2> QED BY <2>1, <2>2
  <1>3. DiskSound'
    <2> SUFFICES ASSUME NEW d \in Names, disk'[d] # NoFile
                 PROVE  /\ disk'[d] \in saved'
                        /\ \E s \in Sources, x \in MsgIds :
                             NameOf[s][x] = d /\ FileOf[KeyOf[s]][x] = disk'[d]
      BY DEF DiskSound
    <2>1. CASE disk'[d] = disk[d]
      BY <1>1, <2>1 DEF DiskSound
    <2>2. CASE disk'[d] # disk[d]
      <3>1. d = n /\ disk[n] = NoFile /\ disk'[d] = f /\ f \in saved'
        BY <1>0, <2>2 DEF Commits, Publish, TypeOK, SameSizeStored
      <3> QED BY <1>0, <3>1 DEF Key
    <2> QED BY <2>1, <2>2
  <1>4. HistorySound'
    <2> SUFFICES ASSUME NEW h \in history' PROVE \E g \in saved' : g = h \/ SamePlace(h, g)
      BY DEF HistorySound, Kept
    <2>1. CASE h \in history
      BY <1>1, <2>1 DEF HistorySound, Kept
    <2>2. CASE h \notin history
      <3>1. upto >= 1 /\ h = f
        BY <2>2 DEF Commits, RecordHistory
      <3> QED BY <1>2, <3>1
    <2> QED BY <2>1, <2>2
  <1> QED BY <1>1, <1>2, <1>3, <1>4

\* A prefix of the commits is a narrowing step.
LEMMA CommitsNarrow ==
  ASSUME TypeOK, DiskSound, HistorySound, NEW m \in MsgIds, m \in pending[Key],
         NEW upto \in 0..3, Commits(m, upto), UNCHANGED <<newest, chat, pending>>
  PROVE  Narrowing
  <1>1. saved \subseteq saved'
    BY CommitsSound
  <1>2. CASE CursorSet(Key, m)
    BY <1>1, <1>2, CursorStep
  <1>3. CASE UNCHANGED cursor
    BY <1>1, <1>3 DEF Narrowing
  <1> QED BY <1>2, <1>3 DEF Commits

\* Removing settled and vanished messages of the current source is narrowing,
\* provided no other source shares its rows.
LEMMA RemovalNarrows ==
  ASSUME TypeOK, DistinctKeys, NEW ids \in SUBSET MsgIds,
         \A m \in ids : Settled(src, m) \/ m \notin chat[Key],
         \A k \in Keys : pending'[k] = IF k = Key THEN pending[k] \ ids ELSE pending[k],
         UNCHANGED <<newest, chat, cursor, saved>>
  PROVE  Narrowing
  <1>1. ASSUME NEW s \in Sources, NEW m \in pending[KeyOf[s]] \ pending'[KeyOf[s]]
        PROVE  Settled(s, m) \/ m \notin chat[KeyOf[s]]
    <2>1. KeyOf[s] \in Keys
      BY ConstantsAssumption
    <2>2. KeyOf[s] = Key /\ m \in ids
      BY <1>1, <2>1
    <2>3. s = src
      BY <2>2 DEF DistinctKeys, Key, TypeOK
    <2> QED BY <2>2, <2>3 DEF Key
  <1> QED BY <1>1 DEF Narrowing

\* What leaves the queue is settled, or gone from the chat.
LEMMA ProcessedSound ==
  ASSUME TypeOK, BatchSound, NEW m \in Processed
  PROVE  Settled(src, m) \/ m \notin chat[Key]
  BY DEF BatchSound, Processed, InState

\* What the four steps that end a batch do to the queue.
LEMMA RemovePending ==
  ASSUME TypeOK, NEW k \in Keys, NEW ids, RemoveBatch(k, ids)
  PROVE  \A x \in Keys : pending'[x] = IF x = k THEN pending[x] \ ids ELSE pending[x]
  BY DEF RemoveBatch, TypeOK

\* Counting the failures does not change what is queued.
LEMMA RemoveAndIncrementPending ==
  ASSUME TypeOK, NEW k \in Keys, NEW ids, NEW failed, RemoveAndIncrement(k, ids, failed)
  PROVE  \A x \in Keys : pending'[x] = IF x = k THEN pending[x] \ ids ELSE pending[x]
  BY DEF RemoveAndIncrement, TypeOK

-----------------------------------------------------------------------------
\* The invariant holds at the start of the process.
LEMMA IInvInit == Init => IInv
  <1> SUFFICES ASSUME Init PROVE IInv
    OBVIOUS
  <1>1. TypeOK
    BY TypeInit
  <1>2. QueueWasPosted
    BY ConstantsAssumption DEF Init, QueueWasPosted
  <1>3. DiskSound /\ HistorySound
    BY DEF Init, DiskSound, HistorySound
  <1>4. BatchSound
    BY DEF Init, BatchSound, NoTasks
  <1>5. UnseenAbove
    BY ConstantsAssumption DEF Init, UnseenAbove, Unseen
  <1> QED BY <1>1, <1>2, <1>3, <1>4, <1>5 DEF IInv

\* The scan: everything wanted and existing above the floor is queued, and an
\* unseen message is above either kind of floor.
LEMMA ScanStep ==
  ASSUME IInv, TypeOK', DistinctKeys, Scan
  PROVE  QueueWasPosted' /\ UnseenAbove'
  <1> USE DEF IInv
  <1>0. Key \in Keys /\ src \in Sources /\ Key = KeyOf[src]
    BY KeyType DEF TypeOK, Key
  <1>1. \A k \in Keys : pending'[k] = IF k = Key THEN pending[k] \cup (AboveFloor(Key) \cap Wanted[src])
                                                 ELSE pending[k]
    BY <1>0 DEF Scan, AddBatch, TypeOK
  <1>2. UNCHANGED <<newest, chat, cursor, saved>>
    BY DEF Scan, world
  <1>3. QueueWasPosted'
    BY <1>0, <1>1, <1>2 DEF QueueWasPosted, AboveFloor
  <1>4. UnseenAbove'
    <2> SUFFICES ASSUME NEW s \in Sources, NEW m \in MsgIds, Unseen(s, m)'
                 PROVE  /\ m > cursor'[KeyOf[s]]
                        /\ \A p \in pending'[KeyOf[s]] : m > p
      BY DEF UnseenAbove
    <2>0. KeyOf[s] \in Keys
      BY ConstantsAssumption
    <2>1. Unseen(s, m)
      BY <1>1, <1>2, <2>0 DEF Unseen, Settled, Kept
    <2>2. m > cursor[KeyOf[s]] /\ \A p \in pending[KeyOf[s]] : m > p
      BY <2>1 DEF UnseenAbove
    <2>3. CASE KeyOf[s] = Key
      <3>1. s = src
        BY <1>0, <2>3 DEF DistinctKeys
      <3>2. m \in AboveFloor(Key) \cap Wanted[src]
        BY <1>0, <2>1, <2>2, <3>1 DEF AboveFloor, Unseen
      <3>3. m \in pending'[KeyOf[s]]
        BY <1>0, <1>1, <2>3, <3>2
      <3> QED BY <3>3 DEF Unseen
    <2>4. CASE KeyOf[s] # Key
      BY <1>1, <1>2, <2>0, <2>2, <2>4
    <2> QED BY <2>3, <2>4
  <1> QED BY <1>3, <1>4

\* A new message is above everything queued, and above the cursor unless a
\* legacy cursor covers it.
LEMMA PostStep ==
  ASSUME IInv, TypeOK', NEW k \in Keys, Post(k)
  PROVE  QueueWasPosted' /\ UnseenAbove'
  <1> USE DEF IInv
  <1>1. /\ UNCHANGED <<cursor, pending, saved>>
        /\ newest[k] \in Nat /\ newest'[k] = newest[k] + 1
        /\ chat'[k] = chat[k] \cup {newest[k] + 1}
        /\ \A x \in Keys \ {k} : newest'[x] = newest[x] /\ chat'[x] = chat[x]
    BY DEF Post, tables, TypeOK
  <1>2. QueueWasPosted'
    <2> SUFFICES ASSUME NEW x \in Keys
                 PROVE  /\ pending'[x] \subseteq 1..newest'[x]
                        /\ chat'[x] \subseteq 1..newest'[x]
                        /\ cursor'[x] <= newest'[x] \/ cursor'[x] <= Yaml[x]
      BY DEF QueueWasPosted
    <2>1. /\ pending[x] \subseteq 1..newest[x]
          /\ chat[x] \subseteq 1..newest[x]
          /\ cursor[x] <= newest[x] \/ cursor[x] <= Yaml[x]
      BY DEF QueueWasPosted
    <2>2. cursor[x] \in Nat
      BY DEF TypeOK
    <2>3. CASE x = k
      BY <1>1, <2>1, <2>2, <2>3
    <2>4. CASE x # k
      BY <1>1, <2>1, <2>4
    <2> QED BY <2>3, <2>4
  <1>3. UnseenAbove'
    <2> SUFFICES ASSUME NEW s \in Sources, NEW m \in MsgIds, Unseen(s, m)'
                 PROVE  /\ m > cursor'[KeyOf[s]]
                        /\ \A p \in pending'[KeyOf[s]] : m > p
      BY DEF UnseenAbove
    <2>0. /\ KeyOf[s] \in Keys
          /\ cursor[KeyOf[s]] \in Nat /\ Yaml[KeyOf[s]] \in Nat /\ m \in Nat
      BY ConstantsAssumption DEF TypeOK, MsgIds
    <2>1. CASE m \in chat[KeyOf[s]]
      <3>1. Unseen(s, m)
        BY <1>1, <2>1 DEF Unseen, Settled, Kept
      <3> QED BY <1>1, <3>1 DEF UnseenAbove
    <2>2. CASE m \notin chat[KeyOf[s]]
      <3>1. KeyOf[s] = k /\ m = newest[k] + 1
        BY <1>1, <2>0, <2>2 DEF Unseen
      <3>2. pending[k] \subseteq 1..newest[k] /\ (cursor[k] <= newest[k] \/ cursor[k] <= Yaml[k])
        BY DEF QueueWasPosted
      <3>3. m > Yaml[k]
        BY <3>1 DEF Unseen
      <3> QED BY <1>1, <2>0, <3>1, <3>2, <3>3
    <2> QED BY <2>1, <2>2
  <1> QED BY <1>2, <1>3

-----------------------------------------------------------------------------
\* Steps that leave a source or a check end the batch.
LEMMA LeaveSource ==
  ASSUME \/ \E failures : NextSource(failures)
         \/ FailSource
         \/ \E where, how : CutShort(where, how)
  PROVE  task' = NoTasks /\ orphans' = {}
  BY DEF NextSource, FailSource, CutShort

\* A task that ends or settles its message within the running batch.
LEMMA TaskMoves ==
  ASSUME TypeOK, BatchSound, pc = "tasks", NEW m \in MsgIds, task[m] # "none",
         NEW state, SetTask(m, state),
         UNCHANGED <<chat, pending, pc, src, orphans>>, saved \subseteq saved',
         state \in {"hook", "done"} => Settled(src, m)'
  PROVE  BatchSound'
  <1>1. Key' = Key
    BY DEF Key
  <1>2. \A x \in MsgIds : task'[x] # "none" => x \in pending'[Key']
    BY <1>1 DEF BatchSound, SetTask, TypeOK
  <1>3. orphans' \subseteq pending'[Key'] \ chat'[Key']
    BY <1>1 DEF BatchSound
  <1>4. ASSUME NEW x \in MsgIds, task'[x] \in {"hook", "done"}
        PROVE  Settled(src, x)'
    <2>1. CASE x = m
      BY <1>4, <2>1 DEF SetTask, TypeOK
    <2>2. CASE x # m
      <3>1. Settled(src, x)
        BY <1>4, <2>2 DEF BatchSound, SetTask, TypeOK
      <3> QED BY <3>1 DEF Settled, Kept
    <2> QED BY <2>1, <2>2
  <1>5. pc' = "tasks"
    OBVIOUS
  <1> QED BY <1>2, <1>3, <1>4, <1>5 DEF BatchSound

\* A step of a download task keeps the invariant.
LEMMA TaskIInv ==
  ASSUME IInv, TypeOK', NEW m \in MsgIds, TaskStep(m)
  PROVE  IInv'
  <1> USE DEF IInv
  <1>0. /\ pc = "tasks" /\ task[m] # "none"
        /\ m \in pending[Key] /\ Key \in Keys /\ src \in Sources /\ Key = KeyOf[src]
    BY KeyType DEF TaskStep, Acquire, Resolve, LoadOK, LoadFails, HookDone, TaskRaises,
                   BatchSound, TypeOK, Key
  <1>1. CASE Acquire(m)
    <2>1. Narrowing
      BY <1>0, <1>1, CursorStep, QuietStep DEF Acquire, world
    <2>2. QueueWasPosted' /\ UnseenAbove' /\ DiskSound' /\ HistorySound'
      BY <1>1, <2>1, NarrowingStep, DiskHistoryQuiet DEF Acquire
    <2>3. CASE SetTask(m, "done") /\ FileOf[Key][m] \in history
      <3>1. Settled(src, m)'
        BY <1>0, <1>1, <2>3 DEF Acquire, HistorySound, Settled, Kept
      <3>2. BatchSound'
        BY <1>0, <1>1, <2>3, <3>1, TaskMoves DEF Acquire, world
      <3> QED BY <2>2, <3>2
    <2>4. CASE SetTask(m, "path")
      <3>1. BatchSound'
        BY <1>0, <1>1, <2>4, TaskMoves DEF Acquire, world
      <3> QED BY <2>2, <3>1
    <2> QED BY <1>1, <2>3, <2>4 DEF Acquire
  <1>2. CASE Resolve(m)
    <2>1. Narrowing
      BY <1>0, <1>2, CursorStep, QuietStep DEF Resolve, world
    <2>2. QueueWasPosted' /\ UnseenAbove' /\ DiskSound' /\ HistorySound'
      BY <1>2, <2>1, NarrowingStep, DiskHistoryQuiet DEF Resolve
    <2>3. CASE /\ SetTask(m, "done")
               /\ m \in BadPath[src] \/ NoNameLeft(NameOf[src][m], FileOf[Key][m])
      <3>0. Settled(src, m)
        BY <1>0, <2>3, DisplacedSettled DEF Settled
      <3>1. Settled(src, m)'
        BY <1>2, <3>0 DEF Resolve, Settled, Kept
      <3>2. BatchSound'
        BY <1>0, <1>2, <2>3, <3>1, TaskMoves DEF Resolve, world
      <3> QED BY <2>2, <3>2
    <2>4. CASE SetTask(m, "done") /\ SameSizeStored(NameOf[src][m], FileOf[Key][m])
      <3> DEFINE n == NameOf[src][m]
      <3>0. n \in Names
        BY <1>0, ConstantsAssumption
      <3>1. PICK s \in Sources, x \in MsgIds :
              NameOf[s][x] = n /\ FileOf[KeyOf[s]][x] = disk[n]
        BY <2>4, <3>0 DEF SameSizeStored, DiskSound
      <3>2. disk[n] \in saved /\ SizeOf[FileOf[Key][m]] = SizeOf[disk[n]]
        BY <2>4, <3>0 DEF SameSizeStored, DiskSound
      <3>3. SamePlace(FileOf[Key][m], disk[n])
        BY <1>0, <3>1, <3>2 DEF SamePlace
      <3>4. Settled(src, m)
        BY <1>0, <3>2, <3>3 DEF Settled, Kept
      <3>5. Settled(src, m)'
        BY <1>2, <3>4 DEF Resolve, Settled, Kept
      <3>6. BatchSound'
        BY <1>0, <1>2, <2>4, <3>5, TaskMoves DEF Resolve, world
      <3> QED BY <2>2, <3>6
    <2>5. CASE SetTask(m, "load")
      <3>1. BatchSound'
        BY <1>0, <1>2, <2>5, TaskMoves DEF Resolve, world
      <3> QED BY <2>2, <3>1
    <2> QED BY <1>2, <2>3, <2>4, <2>5 DEF Resolve
  <1>3. CASE LoadOK(m)
    <2>1. /\ Commits(m, 3)
          /\ UNCHANGED <<newest, chat, pending, pc, src, orphans>>
      BY <1>3 DEF LoadOK, world
    <2>2. Narrowing /\ DiskSound' /\ HistorySound' /\ saved \subseteq saved'
      BY <1>0, <2>1, CommitsNarrow, CommitsSound
    <2>3. \E g \in saved' : g = FileOf[Key][m] \/ SamePlace(FileOf[Key][m], g)
      BY <1>0, <2>1, CommitsSound
    <2>4. Settled(src, m)'
      BY <1>0, <2>1, <2>3 DEF Settled, Kept
    <2>5. BatchSound'
      BY <1>0, <1>3, <2>1, <2>2, <2>4, TaskMoves DEF LoadOK
    <2> QED BY <2>2, <2>5, NarrowingStep
  <1>4. CASE LoadFails(m)
    <2>1. Narrowing /\ DiskSound' /\ HistorySound'
      BY <1>4, QuietStep, DiskHistoryQuiet DEF LoadFails, world, tables
    <2>2. BatchSound'
      BY <1>0, <1>4, TaskMoves DEF LoadFails, world, tables
    <2> QED BY <2>1, <2>2, NarrowingStep
  <1>5. CASE HookDone(m)
    <2>1. Narrowing /\ DiskSound' /\ HistorySound'
      BY <1>5, QuietStep, DiskHistoryQuiet DEF HookDone, world, tables
    <2>2. Settled(src, m)'
      BY <1>5 DEF HookDone, BatchSound, Settled, Kept
    <2>3. BatchSound'
      BY <1>0, <1>5, <2>2, TaskMoves DEF HookDone, world, tables
    <2> QED BY <2>1, <2>3, NarrowingStep
  <1>6. CASE TaskRaises(m)
    <2>1. PICK upto \in 0..3 : Commits(m, upto)
      BY <1>6 DEF TaskRaises
    <2>2. Narrowing /\ DiskSound' /\ HistorySound'
      BY <1>0, <1>6, <2>1, CommitsNarrow, CommitsSound DEF TaskRaises, world
    <2>3. BatchSound'
      BY <1>6, LeaveSource, EmptyBatch DEF TaskRaises
    <2> QED BY <2>2, <2>3, NarrowingStep
  <1> QED BY <1>1, <1>2, <1>3, <1>4, <1>5, <1>6 DEF TaskStep

\* Every step keeps the invariant.
LEMMA IInvNext == DistinctKeys /\ IInv /\ [Next]_vars => IInv'
  <1> SUFFICES ASSUME DistinctKeys, IInv, [Next]_vars PROVE IInv'
    OBVIOUS
  <1> USE DEF IInv
  <1>0. TypeOK' /\ Key \in Keys
    BY TypeNext, KeyType
  <1>1. CASE Start
    <2>1. Narrowing
      BY <1>1, ConstantsAssumption DEF Start, Narrowing, world
    <2>2. DiskSound' /\ HistorySound'
      BY <1>1, DiskHistoryQuiet DEF Start
    <2>3. BatchSound'
      BY <1>1 DEF Start, BatchSound, NoTasks, world
    <2> QED BY <1>0, <2>1, <2>2, <2>3, NarrowingStep
  <1>2. CASE StartCheck
    <2>1. Narrowing /\ DiskSound' /\ HistorySound'
      BY <1>2, QuietStep, DiskHistoryQuiet DEF StartCheck, world, tables
    <2>2. BatchSound'
      BY <1>2 DEF StartCheck, BatchSound, NoTasks, world, tables
    <2> QED BY <1>0, <2>1, <2>2, NarrowingStep
  <1>3. CASE Scan
    <2>1. DiskSound' /\ HistorySound'
      BY <1>3, DiskHistoryQuiet DEF Scan
    <2>2. task' = NoTasks /\ orphans' = {}
      BY <1>3, LeaveSource DEF Scan, BatchSound
    <2> QED BY <1>0, <1>3, <2>1, <2>2, EmptyBatch, ScanStep
  <1>4. CASE RpcFails
    <2>1. Narrowing /\ DiskSound' /\ HistorySound'
      BY <1>4, QuietStep, DiskHistoryQuiet DEF RpcFails, world, tables
    <2> QED BY <1>0, <1>4, <2>1, NarrowingStep, LeaveSource, EmptyBatch DEF RpcFails
  <1>5. CASE NothingDue
    <2>1. Narrowing /\ DiskSound' /\ HistorySound'
      BY <1>5, QuietStep, DiskHistoryQuiet DEF NothingDue, world, tables
    <2> QED BY <1>0, <1>5, <2>1, NarrowingStep, LeaveSource, EmptyBatch DEF NothingDue
  <1>6. CASE AllOrphaned
    <2>1. Narrowing
      <3>1. GetOldest(Key) \in SUBSET MsgIds
        BY <1>0, GetOldestType
      <3> QED BY <1>0, <1>6, <3>1, RemovePending, RemovalNarrows DEF AllOrphaned, world
    <2>2. DiskSound' /\ HistorySound'
      BY <1>6, DiskHistoryQuiet DEF AllOrphaned
    <2>3. task' = NoTasks /\ orphans' = {}
      BY <1>6, LeaveSource DEF AllOrphaned, BatchSound
    <2> QED BY <1>0, <2>1, <2>2, <2>3, NarrowingStep, EmptyBatch
  <1>7. CASE StartBatch
    <2>1. Narrowing /\ DiskSound' /\ HistorySound'
      BY <1>7, QuietStep, DiskHistoryQuiet DEF StartBatch, world, tables
    <2>2. Key' = Key /\ UNCHANGED <<pending, chat>> /\ GetOldest(Key) \subseteq pending[Key]
      BY <1>0, <1>7, GetOldestType DEF StartBatch, Key, world, tables
    <2>3. BatchSound'
      BY <1>7, <2>2 DEF StartBatch, BatchSound
    <2> QED BY <1>0, <2>1, <2>3, NarrowingStep
  <1>8. CASE BatchDone
    <2>1. Narrowing
      BY <1>0, <1>8, ProcessedType, ProcessedSound, RemoveAndIncrementPending, RemovalNarrows
         DEF BatchDone, world
    <2>2. DiskSound' /\ HistorySound'
      BY <1>8, DiskHistoryQuiet DEF BatchDone
    <2>3. task' = NoTasks /\ orphans' = {}
      BY <1>8, LeaveSource DEF BatchDone
    <2> QED BY <1>0, <2>1, <2>2, <2>3, NarrowingStep, EmptyBatch
  <1>9. CASE \E m \in MsgIds : TaskStep(m)
    BY <1>0, <1>9, TaskIInv
  <1>10. CASE AccountError
    <2>1. Narrowing /\ DiskSound' /\ HistorySound'
      BY <1>10, QuietStep, DiskHistoryQuiet DEF AccountError, world, tables
    <2> QED BY <1>0, <1>10, <2>1, NarrowingStep, LeaveSource, EmptyBatch DEF AccountError
  <1>11. CASE BatchCommitFails
    <2>0. UNCHANGED <<newest, chat, cursor, saved>>
      BY <1>11 DEF BatchCommitFails, world
    <2>3. Narrowing
      <3>1. CASE UNCHANGED pending
        BY <2>0, <3>1, QuietStep
      <3>2. CASE RemoveBatch(Key, Processed)
        BY <1>0, <2>0, <3>2, ProcessedType, ProcessedSound, RemovePending, RemovalNarrows
      <3> QED BY <1>11, <3>1, <3>2 DEF BatchCommitFails
    <2>4. DiskSound' /\ HistorySound'
      BY <1>11, DiskHistoryQuiet DEF BatchCommitFails
    <2> QED BY <1>0, <1>11, <2>3, <2>4, NarrowingStep, LeaveSource, EmptyBatch
            DEF BatchCommitFails
  <1>12. CASE Interrupt
    <2>1. Narrowing /\ DiskSound' /\ HistorySound'
      BY <1>12, QuietStep, DiskHistoryQuiet DEF Interrupt, world, tables
    <2> QED BY <1>0, <1>12, <2>1, NarrowingStep, LeaveSource, EmptyBatch DEF Interrupt
  <1>13. CASE Crash
    <2>1. Narrowing /\ DiskSound' /\ HistorySound'
      BY <1>13, QuietStep, DiskHistoryQuiet DEF Crash, world, tables
    <2> QED BY <1>0, <1>13, <2>1, NarrowingStep, LeaveSource, EmptyBatch DEF Crash
  <1>14. CASE CrashAfterRemove
    <2>1. Narrowing
      BY <1>0, <1>14, ProcessedType, ProcessedSound, RemovePending, RemovalNarrows
         DEF CrashAfterRemove, world
    <2>2. DiskSound' /\ HistorySound'
      BY <1>14, DiskHistoryQuiet DEF CrashAfterRemove
    <2> QED BY <1>0, <1>14, <2>1, <2>2, NarrowingStep, LeaveSource, EmptyBatch
            DEF CrashAfterRemove
  <1>15. CASE \E m \in MsgIds : CrashInCommits(m)
    <2>1. PICK m \in MsgIds : CrashInCommits(m)
      BY <1>15
    <2>2. PICK upto \in 0..3 : Commits(m, upto)
      BY <2>1 DEF CrashInCommits
    <2>3. m \in pending[Key]
      BY <2>1 DEF CrashInCommits, BatchSound
    <2>4. Narrowing /\ DiskSound' /\ HistorySound'
      BY <2>1, <2>2, <2>3, CommitsNarrow, CommitsSound DEF CrashInCommits, world
    <2> QED BY <1>0, <2>1, <2>4, NarrowingStep, LeaveSource, EmptyBatch DEF CrashInCommits
  <1>16. CASE \E k \in Keys : Post(k)
    <2>1. PICK k \in Keys : Post(k)
      BY <1>16
    <2>2. DiskSound' /\ HistorySound'
      BY <2>1, DiskHistoryQuiet DEF Post, tables
    <2>3. BatchSound'
      <3>1. newest[k] + 1 \notin pending[k]
        BY DEF QueueWasPosted, TypeOK
      <3> QED BY <2>1, <3>1 DEF Post, BatchSound, Settled, Kept, Key, check, tables, TypeOK
    <2> QED BY <1>0, <2>1, <2>2, <2>3, PostStep
  <1>17. CASE \E k \in Keys, m \in MsgIds : Delete(k, m)
    <2>1. PICK k \in Keys, m \in MsgIds : Delete(k, m)
      BY <1>17
    <2>2. Narrowing
      BY <2>1 DEF Delete, Narrowing, TypeOK, tables
    <2>3. DiskSound' /\ HistorySound'
      BY <2>1, DiskHistoryQuiet DEF Delete, tables
    <2>4. BatchSound'
      BY <1>0, <2>1 DEF Delete, BatchSound, Settled, Kept, Key, check, tables, TypeOK
    <2> QED BY <1>0, <2>2, <2>3, <2>4, NarrowingStep
  <1>18. CASE \E n \in Names : MoveAway(n)
    <2>1. PICK n \in Names : MoveAway(n)
      BY <1>18
    <2>2. Narrowing
      BY <2>1, QuietStep DEF MoveAway, world, tables
    <2>3. DiskSound' /\ HistorySound'
      BY <2>1 DEF MoveAway, DiskSound, HistorySound, Kept, tables, TypeOK
    <2>4. BatchSound'
      BY <2>1 DEF MoveAway, BatchSound, Settled, Kept, Key, check, tables, world
    <2> QED BY <1>0, <2>2, <2>3, <2>4, NarrowingStep
  <1>19. CASE UNCHANGED vars
    <2>1. Narrowing /\ DiskSound' /\ HistorySound'
      BY <1>19, QuietStep, DiskHistoryQuiet DEF vars
    <2>2. BatchSound'
      BY <1>19 DEF vars, BatchSound, Settled, Kept, Key
    <2> QED BY <1>0, <2>1, <2>2, NarrowingStep
  <1> QED BY <1>1, <1>2, <1>3, <1>4, <1>5, <1>6, <1>7, <1>8, <1>9, <1>10, <1>11, <1>12, <1>13,
             <1>14, <1>15, <1>16, <1>17, <1>18, <1>19 DEF Next, Program, Failure, World

\* Queue, cursors, disk and history stay related as IInv says, however many
\* crashes, failures and sources there are.
THEOREM Invariance == ASSUME DistinctKeys PROVE Spec => []IInv
  <1>1. Init => IInv
    BY IInvInit
  <1>2. IInv /\ [Next]_vars => IInv'
    BY IInvNext
  <1> QED BY <1>1, <1>2, PTL DEF Spec

\* No message is ever lost (see NoLoss), however many sources, messages,
\* crashes and failures there are, if the sources' cursor keys differ.
THEOREM MessagesNeverLost == ASSUME DistinctKeys PROVE Spec => []NoLoss
  <1>1. IInv => NoLoss
    <2> SUFFICES ASSUME IInv, NEW s \in Sources, NEW m \in Wanted[s] \cap chat[KeyOf[s]],
                        m > Yaml[KeyOf[s]], m \notin pending[KeyOf[s]], ~Settled(s, m)
                 PROVE  WillBeScanned(KeyOf[s], m)
      <3>1. ASSUME NEW s \in Sources, NEW m \in Wanted[s] \cap chat[KeyOf[s]]
            PROVE  m \in Nat /\ Yaml[KeyOf[s]] \in Nat
        BY <3>1, ConstantsAssumption DEF MsgIds
      <3> QED BY <3>1 DEF NoLoss
    <2>1. m \in MsgIds /\ Unseen(s, m)
      BY ConstantsAssumption DEF Unseen
    <2> QED BY <2>1 DEF IInv, UnseenAbove, WillBeScanned
  <1> QED BY <1>1, Invariance, PTL

-----------------------------------------------------------------------------
(* What is on disk, in the history and behind the cursors.  None of this     *)
(* asks for cursor keys of their own.                                        *)

\* Disk and history stay sound over any step: the commits of a task are the
\* only writes, apart from the user's.
LEMMA StoredNext ==
  TypeOK /\ DiskSound /\ HistorySound /\ [Next]_vars => DiskSound' /\ HistorySound'
  <1> SUFFICES ASSUME TypeOK, DiskSound, HistorySound, [Next]_vars
               PROVE  DiskSound' /\ HistorySound'
    OBVIOUS
  <1>1. CASE UNCHANGED <<disk, history, saved>>
    BY <1>1, DiskHistoryQuiet
  <1>2. CASE \E m \in MsgIds, upto \in 0..3 : Commits(m, upto)
    BY <1>2, CommitsSound
  <1>3. CASE \E n \in Names : MoveAway(n)
    BY <1>3 DEF MoveAway, DiskSound, HistorySound, Kept, tables, TypeOK
  <1>4. ASSUME NEW m \in MsgIds, TaskStep(m)
        PROVE  \/ UNCHANGED <<disk, history, saved>>
               \/ \E upto \in 0..3 : Commits(m, upto)
    BY <1>4 DEF TaskStep, Acquire, Resolve, LoadOK, LoadFails, HookDone, TaskRaises, tables
  <1>5. Program => \/ UNCHANGED <<disk, history, saved>>
                   \/ \E m \in MsgIds, upto \in 0..3 : Commits(m, upto)
    BY <1>4 DEF Program, Start, StartCheck, Scan, RpcFails, NothingDue, AllOrphaned,
                StartBatch, BatchDone, tables
  <1>6. Failure => \/ UNCHANGED <<disk, history, saved>>
                   \/ \E m \in MsgIds, upto \in 0..3 : Commits(m, upto)
    BY DEF Failure, AccountError, BatchCommitFails, Interrupt, Crash, CrashAfterRemove,
           CrashInCommits, tables
  <1>7. World => \/ UNCHANGED <<disk, history, saved>>
                 \/ \E n \in Names : MoveAway(n)
    BY DEF World, Post, Delete, tables
  <1> QED BY <1>1, <1>2, <1>3, <1>5, <1>6, <1>7 DEF Next, vars

\* The two invariants of the store together.
LEMMA StoreSound == Spec => [](DiskSound /\ HistorySound)
  <1>1. Init => TypeOK /\ DiskSound /\ HistorySound
    BY IInvInit DEF IInv
  <1>2. (TypeOK /\ DiskSound /\ HistorySound) /\ [Next]_vars
          => (TypeOK /\ DiskSound /\ HistorySound)'
    BY StoredNext, TypeNext
  <1> QED BY <1>1, <1>2, PTL DEF Spec

\* The history only ever names files that were stored (see HistorySound).
THEOREM HistoryNamesStoredFiles == Spec => []HistorySound
  <1> QED BY StoreSound, PTL

\* A cursor that goes to a message that is settled by then.
LEMMA Advance ==
  ASSUME TypeOK, NEW m \in MsgIds, CursorSet(Key, m), NEW s, s = src, Settled(s, m)'
  PROVE  FollowsFile
  <1>1. Key \in Keys
    BY KeyType
  <1>2. cursor \in [Keys -> Nat] /\ m \in Nat
    BY ConstantsAssumption DEF TypeOK, MsgIds
  <1> QED BY <1>1, <1>2 DEF FollowsFile, CursorSet

\* Every move of a cursor is to a settled message.
LEMMA CursorNext ==
  TypeOK /\ DiskSound /\ HistorySound /\ [Next]_vars => FollowsFile
  <1> SUFFICES ASSUME TypeOK, DiskSound, HistorySound, [Next]_vars PROVE FollowsFile
    OBVIOUS
  <1>0. Key = KeyOf[src] /\ src \in Sources /\ Key \in Keys
    <2>1. Key \in Keys
      BY KeyType
    <2> QED BY <2>1 DEF Key, TypeOK
  <1>1. CASE UNCHANGED cursor
    BY <1>1 DEF FollowsFile
  <1>2. CASE Start
    BY <1>2, ConstantsAssumption DEF Start, FollowsFile, TypeOK
  <1>3. CASE \E m \in MsgIds, upto \in 0..3 : Commits(m, upto)
    <2>1. PICK m \in MsgIds, upto \in 0..3 : Commits(m, upto)
      BY <1>3
    <2>2. CASE upto >= 2
      <3>1. \E g \in saved' : g = FileOf[Key][m] \/ SamePlace(FileOf[Key][m], g)
        BY <2>1, <2>2, CommitsSound
      <3>2. PICK s : s = src
        OBVIOUS
      <3>3. Settled(s, m)'
        BY <1>0, <3>1, <3>2 DEF Settled, Kept
      <3>4. CursorSet(Key, m)
        BY <2>1, <2>2 DEF Commits
      <3> QED BY <3>2, <3>3, <3>4, Advance
    <2>3. CASE ~(upto >= 2)
      BY <1>1, <2>1, <2>3 DEF Commits
    <2> QED BY <2>2, <2>3
  <1>4. CASE \E m \in MsgIds : Acquire(m)
    <2>1. PICK m \in MsgIds : Acquire(m)
      BY <1>4
    <2>2. CASE FileOf[Key][m] \in history /\ CursorSet(Key, m)
      <3>1. PICK s : s = src
        OBVIOUS
      <3>2. Kept(FileOf[Key][m]) /\ saved' = saved
        BY <2>1, <2>2 DEF HistorySound, Acquire
      <3>3. Settled(s, m)'
        BY <1>0, <3>1, <3>2 DEF Settled, Kept
      <3> QED BY <2>2, <3>1, <3>3, Advance
    <2> QED BY <1>1, <2>1, <2>2 DEF Acquire
  <1>5. CASE \E m \in MsgIds : Resolve(m)
    <2>1. PICK m \in MsgIds : Resolve(m)
      BY <1>5
    <2>2. PICK s : s = src
      OBVIOUS
    <2>3. saved' = saved
      BY <2>1 DEF Resolve
    <2>4. CASE /\ m \in BadPath[src] \/ NoNameLeft(NameOf[src][m], FileOf[Key][m])
               /\ CursorSet(Key, m)
      <3>0. Settled(src, m)
        BY <1>0, <2>4, DisplacedSettled DEF Settled
      <3>1. Settled(s, m)'
        BY <2>2, <2>3, <3>0 DEF Settled, Kept
      <3> QED BY <2>2, <2>4, <3>1, Advance
    <2>5. CASE SameSizeStored(NameOf[src][m], FileOf[Key][m]) /\ CursorSet(Key, m)
      <3>1. NameOf[src][m] \in Names
        BY <1>0, ConstantsAssumption
      <3>2. PICK t \in Sources, x \in MsgIds :
              NameOf[t][x] = NameOf[src][m] /\ FileOf[KeyOf[t]][x] = disk[NameOf[src][m]]
        BY <2>5, <3>1 DEF DiskSound, SameSizeStored
      <3>3. SamePlace(FileOf[Key][m], disk[NameOf[src][m]])
        BY <1>0, <2>5, <3>2 DEF SamePlace, SameSizeStored
      <3>4. disk[NameOf[src][m]] \in saved
        BY <2>5, <3>1 DEF DiskSound, SameSizeStored
      <3>5. Settled(s, m)'
        BY <1>0, <2>2, <2>3, <3>3, <3>4 DEF Settled, Kept
      <3> QED BY <2>2, <2>5, <3>5, Advance
    <2> QED BY <1>1, <2>1, <2>4, <2>5 DEF Resolve
  <1>6. ASSUME NEW m \in MsgIds, TaskStep(m)
        PROVE  \/ UNCHANGED cursor
               \/ Acquire(m)
               \/ Resolve(m)
               \/ \E upto \in 0..3 : Commits(m, upto)
    BY <1>6 DEF TaskStep, LoadOK, LoadFails, HookDone, TaskRaises, tables
  <1>7. CASE Program
    BY <1>1, <1>2, <1>3, <1>4, <1>5, <1>6, <1>7
       DEF Program, StartCheck, Scan, RpcFails, NothingDue, AllOrphaned, StartBatch,
           BatchDone, tables
  <1>8. CASE Failure
    BY <1>1, <1>3, <1>8 DEF Failure, AccountError, BatchCommitFails, Interrupt, Crash,
                            CrashAfterRemove, CrashInCommits, tables
  <1>9. CASE World
    BY <1>1, <1>9 DEF World, Post, Delete, MoveAway, tables
  <1> QED BY <1>1, <1>7, <1>8, <1>9 DEF Next, vars

\* A cursor moves forward only, and to messages whose file is kept already,
\* whatever the order in which the tasks of a batch end (see CursorFollowsFile).
THEOREM CursorsFollowFiles == Spec => CursorFollowsFile
  <1>1. TypeOK /\ (DiskSound /\ HistorySound) /\ [Next]_vars => [FollowsFile]_vars
    BY CursorNext
  <1> QED BY <1>1, TypeCorrect, StoreSound, PTL DEF CursorFollowsFile, Spec

-----------------------------------------------------------------------------
(* The attempt budget.                                                       *)

\* A batch works on rows that are queued and within their budget, and so are
\* its orphans; between batches there are neither.
BatchInBudget ==
  /\ pc # "tasks" => task = NoTasks /\ orphans = {}
  /\ \A m \in MsgIds : task[m] # "none" => m \in pending[Key] /\ attempts[Key][m] < MaxAttempts
  /\ \A m \in orphans : attempts[Key][m] < MaxAttempts

Budget == AttemptsInBudget /\ BatchInBudget

\* A step that ends the batch and at most adds to the queue.
LEMMA BudgetBatchEnds ==
  ASSUME TypeOK, Budget, UNCHANGED attempts, task' = NoTasks, orphans' = {},
         \A k \in Keys : pending[k] \subseteq pending'[k]
  PROVE  Budget' /\ CountsFailures
  BY DEF TypeOK, Budget, AttemptsInBudget, BatchInBudget, NoTasks, CountsFailures

\* A removal of rows within their budget.
LEMMA BudgetRemoves ==
  ASSUME TypeOK, Budget, NEW ids \in SUBSET MsgIds, RemoveBatch(Key, ids),
         task' = NoTasks, orphans' = {},
         \A m \in ids : attempts[Key][m] < MaxAttempts
  PROVE  Budget' /\ CountsFailures
  <1>0. Key \in Keys
    BY KeyType
  <1>1. AttemptsInBudget'
    BY <1>0, ConstantsAssumption DEF Budget, AttemptsInBudget, RemoveBatch, TypeOK
  <1>2. CountsFailures
    BY <1>0, ConstantsAssumption DEF CountsFailures, RemoveBatch, TypeOK
  <1> QED BY <1>1, <1>2 DEF Budget, BatchInBudget, NoTasks

\* The messages that leave the queue with a batch were within their budget.
LEMMA ProcessedInBudget ==
  ASSUME TypeOK, Budget
  PROVE  /\ Processed \in SUBSET MsgIds
         /\ \A m \in Processed : attempts[Key][m] < MaxAttempts
  BY ProcessedType DEF Budget, BatchInBudget, Processed, InState, TypeOK

\* The end of a batch: the failures were within their budget before they are
\* counted, and they are still queued.
LEMMA BudgetBatchDone ==
  ASSUME TypeOK, Budget, BatchDone PROVE Budget' /\ CountsFailures
  <1>0. Key \in Keys /\ MaxAttempts \in Nat
    BY KeyType, ConstantsAssumption
  <1>1. task' = NoTasks /\ orphans' = {}
    BY LeaveSource DEF BatchDone
  <1>2. RemoveAndIncrement(Key, Processed, FailedIds)
    BY DEF BatchDone
  <1>3. \A m \in Processed : attempts[Key][m] < MaxAttempts
    BY ProcessedInBudget
  <1>4. \A m \in FailedIds : /\ task[m] = "failed"
                             /\ m \in pending[Key]
                             /\ attempts[Key][m] < MaxAttempts
    BY DEF FailedIds, InState, Budget, BatchInBudget
  <1>5. \A k \in Keys : \A m \in MsgIds : attempts[k][m] \in Nat
    BY DEF TypeOK
  <1>6. \A k \in Keys : k # Key => attempts'[k] = attempts[k] /\ pending'[k] = pending[k]
    BY <1>0, <1>2 DEF RemoveAndIncrement, TypeOK
  <1>7. pending'[Key] = pending[Key] \ Processed
    BY <1>0, <1>2 DEF RemoveAndIncrement, TypeOK
  <1>8. \A m \in MsgIds :
          attempts'[Key][m] = IF m \in Processed THEN 0
                              ELSE IF m \in FailedIds THEN attempts[Key][m] + 1
                                                      ELSE attempts[Key][m]
    BY <1>0, <1>2 DEF RemoveAndIncrement, TypeOK
  <1>9. AttemptsInBudget'
    BY <1>0, <1>3, <1>4, <1>5, <1>6, <1>7, <1>8 DEF Budget, AttemptsInBudget
  <1>10. CountsFailures
    BY <1>0, <1>3, <1>4, <1>5, <1>6, <1>7, <1>8 DEF CountsFailures
  <1> QED BY <1>1, <1>9, <1>10 DEF Budget, BatchInBudget, NoTasks

\* A step of a task, unless it ends the batch, moves a task that is running.
LEMMA BudgetTask ==
  ASSUME TypeOK, Budget, NEW m \in MsgIds, TaskStep(m) PROVE Budget' /\ CountsFailures
  <1>1. CASE TaskRaises(m)
    BY <1>1, BudgetBatchEnds, LeaveSource DEF TaskRaises
  <1>2. ASSUME ~TaskRaises(m)
        PROVE  /\ UNCHANGED <<pc, src, orphans, pending, attempts>>
               /\ task[m] # "none"
               /\ \E state : SetTask(m, state)
    BY <1>2 DEF TaskStep, Acquire, Resolve, LoadOK, LoadFails, HookDone, tables
  <1>3. ASSUME ~TaskRaises(m)
        PROVE  \A x \in MsgIds : task'[x] # "none" => task[x] # "none"
    BY <1>2, <1>3 DEF SetTask, TypeOK
  <1>4. CASE ~TaskRaises(m)
    <2>1. Budget'
      <3>1. pc = "tasks"
        BY <1>4 DEF TaskStep, Acquire, Resolve, LoadOK, LoadFails, HookDone
      <3> QED BY <1>2, <1>3, <1>4, <3>1 DEF Budget, AttemptsInBudget, BatchInBudget, Key
    <2>2. CountsFailures
      BY <1>2, <1>4 DEF CountsFailures, TypeOK
    <2> QED BY <2>1, <2>2
  <1> QED BY <1>1, <1>4

\* Every step keeps the budget and counts nothing but failures.
LEMMA BudgetNext == TypeOK /\ Budget /\ [Next]_vars => Budget' /\ CountsFailures
  <1> SUFFICES ASSUME TypeOK, Budget, [Next]_vars PROVE Budget' /\ CountsFailures
    OBVIOUS
  <1>0. Key \in Keys
    BY KeyType
  <1>1. CASE Start \/ StartCheck
    BY <1>1, BudgetBatchEnds DEF Start, StartCheck, Budget, BatchInBudget, tables
  <1>2. CASE Scan
    <2>1. task' = NoTasks /\ orphans' = {}
      BY <1>2, LeaveSource DEF Scan, Budget, BatchInBudget
    <2>2. \A k \in Keys : pending[k] \subseteq pending'[k]
      BY <1>2, <1>0 DEF Scan, AddBatch, TypeOK
    <2> QED BY <1>2, <2>1, <2>2, BudgetBatchEnds DEF Scan
  <1>3. CASE RpcFails \/ AccountError \/ NothingDue \/ Interrupt \/ Crash
    <2>1. UNCHANGED tables /\ task' = NoTasks /\ orphans' = {}
      BY <1>3, LeaveSource DEF RpcFails, AccountError, NothingDue, Interrupt, Crash
    <2> QED BY <2>1, BudgetBatchEnds DEF tables
  <1>4. CASE AllOrphaned
    <2>1. task' = NoTasks /\ orphans' = {}
      BY <1>4, LeaveSource DEF AllOrphaned, Budget, BatchInBudget
    <2>2. GetOldest(Key) \in SUBSET MsgIds
      BY <1>0, GetOldestType
    <2>3. \A m \in GetOldest(Key) : attempts[Key][m] < MaxAttempts
      BY DEF GetOldest, Oldest, Eligible
    <2> QED BY <1>4, <2>1, <2>2, <2>3, BudgetRemoves DEF AllOrphaned
  <1>5. CASE StartBatch
    <2>1. \A m \in GetOldest(Key) : m \in pending[Key] /\ attempts[Key][m] < MaxAttempts
      BY DEF GetOldest, Oldest, Eligible
    <2>2. UNCHANGED <<pending, attempts, src>>
      BY <1>5 DEF StartBatch, tables
    <2>3. Budget'
      BY <1>5, <2>1, <2>2 DEF StartBatch, Budget, AttemptsInBudget, BatchInBudget, Key
    <2> QED BY <2>2, <2>3 DEF CountsFailures, TypeOK
  <1>6. CASE BatchDone
    BY <1>6, BudgetBatchDone
  <1>7. CASE \E m \in MsgIds : TaskStep(m)
    BY <1>7, BudgetTask
  <1>8. CASE BatchCommitFails \/ CrashAfterRemove
    <2>1. task' = NoTasks /\ orphans' = {}
      BY <1>8, LeaveSource DEF BatchCommitFails, CrashAfterRemove
    <2>2. CASE RemoveBatch(Key, Processed)
      BY <2>1, <2>2, ProcessedInBudget, BudgetRemoves
    <2>3. CASE UNCHANGED <<pending, attempts>>
      BY <2>1, <2>3, BudgetBatchEnds
    <2> QED BY <1>8, <2>2, <2>3 DEF BatchCommitFails, CrashAfterRemove
  <1>9. CASE \E m \in MsgIds : CrashInCommits(m)
    BY <1>9, LeaveSource, BudgetBatchEnds DEF CrashInCommits
  <1>10. CASE World \/ UNCHANGED vars
    <2>1. UNCHANGED <<check, pending, attempts>>
      BY <1>10 DEF World, Post, Delete, MoveAway, tables, vars, check
    <2>2. UNCHANGED <<pc, src, task, orphans>>
      BY <2>1 DEF check
    <2>3. Budget'
      BY <2>1, <2>2 DEF Budget, AttemptsInBudget, BatchInBudget, Key
    <2> QED BY <2>1, <2>3 DEF CountsFailures, TypeOK
  <1> QED BY <1>1, <1>2, <1>3, <1>4, <1>5, <1>6, <1>7, <1>8, <1>9, <1>10
          DEF Next, Program, Failure

\* The invariant of the budget.
LEMMA BudgetKept == Spec => []Budget
  <1>1. Init => Budget
    BY ConstantsAssumption DEF Init, Budget, AttemptsInBudget, BatchInBudget, NoTasks
  <1>2. TypeOK /\ Budget /\ [Next]_vars => Budget'
    BY BudgetNext
  <1> QED BY <1>1, <1>2, TypeCorrect, PTL DEF Spec

\* No row is tried more often than max_download_attempts, and one that comes
\* back starts from zero (see AttemptsInBudget).
THEOREM AttemptsStayInBudget == Spec => []AttemptsInBudget
  <1>1. Budget => AttemptsInBudget
    BY DEF Budget
  <1> QED BY <1>1, BudgetKept, PTL

\* Attempts are counted for failed downloads alone, and a row that used them up
\* stays (see AttemptsAreFailures).
THEOREM OnlyFailuresCount == Spec => AttemptsAreFailures
  <1>1. TypeOK /\ Budget /\ [Next]_vars => [CountsFailures]_vars
    BY BudgetNext
  <1> QED BY <1>1, TypeCorrect, BudgetKept, PTL DEF AttemptsAreFailures, Spec

-----------------------------------------------------------------------------
(* Second copies.                                                            *)

InFlight == InState({"path", "load", "hook"})

\* The tasks that looked file f up in the history and have not recorded it.
Reading(f) == {m \in InState({"path", "load"}) : FileOf[Key][m] = f}

\* From the moment at which a file is recorded, the tasks that may still bring
\* another copy of it and those that have done so do not fill the other slots.
CopiesInSlots ==
  /\ Cardinality(InFlight) <= MaxConcurrent
  /\ ~TrackDownloads => history = {}
  /\ \A f \in history : again[f] + Cardinality(Reading(f)) <= MaxConcurrent - 1
  /\ \A f \in Files \ history : again[f] = 0

\* There are finitely many tasks.
LEMMA FiniteSlots ==
  /\ IsFiniteSet(InFlight) /\ Cardinality(InFlight) \in Nat
  /\ \A f : /\ Reading(f) \subseteq InFlight
           /\ IsFiniteSet(Reading(f)) /\ Cardinality(Reading(f)) \in Nat
  <1>1. IsFiniteSet(MsgIds)
    BY ConstantsAssumption, FS_Interval DEF MsgIds
  <1>2. IsFiniteSet(InFlight)
    BY <1>1, FS_Subset DEF InFlight, InState
  <1>3. \A f : Reading(f) \subseteq InFlight
    BY DEF Reading, InFlight, InState
  <1>4. \A f : IsFiniteSet(Reading(f))
    BY <1>2, <1>3, FS_Subset
  <1> QED BY <1>2, <1>3, <1>4, FS_CardinalityType

\* A step after which fewer tasks are on their way.
LEMMA FewerInFlight ==
  ASSUME TypeOK, CopiesInSlots, UNCHANGED <<history, again>>,
         InFlight' \subseteq InFlight, \A f \in history : Reading(f)' \subseteq Reading(f)
  PROVE  CopiesInSlots'
  <1>1. Cardinality(InFlight') <= Cardinality(InFlight) /\ Cardinality(InFlight') \in Nat
    BY FiniteSlots, FS_Subset, FS_CardinalityType
  <1>2. ASSUME NEW f \in history
        PROVE  again'[f] + Cardinality(Reading(f)') <= MaxConcurrent - 1
    <2>1. /\ Cardinality(Reading(f)') <= Cardinality(Reading(f))
          /\ Cardinality(Reading(f)') \in Nat /\ Cardinality(Reading(f)) \in Nat
      BY FiniteSlots, FS_Subset, FS_CardinalityType
    <2>2. again[f] \in Nat /\ again[f] + Cardinality(Reading(f)) <= MaxConcurrent - 1
      BY DEF CopiesInSlots, TypeOK
    <2> QED BY <2>1, <2>2, ConstantsAssumption
  <1>3. Cardinality(InFlight') <= MaxConcurrent
    BY <1>1, FiniteSlots, ConstantsAssumption DEF CopiesInSlots
  <1> QED BY <1>2, <1>3 DEF CopiesInSlots

\* The commits of a task take it from those that may bring another copy.
LEMMA CommitsCount ==
  ASSUME TypeOK, CopiesInSlots, NEW m \in MsgIds, task[m] = "load",
         NEW upto \in 0..3, Commits(m, upto),
         InFlight' \subseteq InFlight, \A f \in Files : Reading(f)' \subseteq Reading(f) \ {m}
  PROVE  CopiesInSlots'
  <1>a. PICK g : g = FileOf[Key][m]
    OBVIOUS
  <1>0. g \in Files /\ m \in Reading(g) /\ m \in InFlight
    BY <1>a, KeyType, ConstantsAssumption DEF TypeOK, Reading, InFlight, InState
  <1>1. /\ \A f \in Files \ {g} : again'[f] = again[f] /\ (f \in history' <=> f \in history)
        /\ g \in history => again'[g] <= again[g] + 1
        /\ g \notin history => again'[g] = again[g]
        /\ history \subseteq history'
        /\ ~TrackDownloads => history' = history
        /\ \A f \in Files : again[f] \in Nat /\ again'[f] \in Nat
    <2>1. again' = again \/ (g \in history /\ again' = [again EXCEPT ![g] = @ + 1])
      <3>1. CASE upto >= 1
        BY <1>a, <3>1 DEF Commits, Publish
      <3> QED BY <3>1 DEF Commits
    <2>2. history' = history \/ (TrackDownloads /\ history' = history \cup {g})
      BY <1>a DEF Commits, RecordHistory
    <2>3. again \in [Files -> Nat]
      BY DEF TypeOK
    <2> QED BY <1>0, <2>1, <2>2, <2>3
  <1>2. Cardinality(InFlight') <= MaxConcurrent
    <2>1. Cardinality(InFlight') <= Cardinality(InFlight) /\ Cardinality(InFlight') \in Nat
      BY FiniteSlots, FS_Subset, FS_CardinalityType
    <2> QED BY <2>1, FiniteSlots, ConstantsAssumption DEF CopiesInSlots
  <1>3. ASSUME NEW f \in Files
        PROVE  /\ Cardinality(Reading(f)') \in Nat
               /\ Cardinality(Reading(f)') <= Cardinality(Reading(f) \ {m})
               /\ Cardinality(Reading(f) \ {m}) \in Nat
    <2>1. IsFiniteSet(Reading(f) \ {m})
      BY FiniteSlots, FS_Subset
    <2> QED BY <2>1, FS_Subset, FS_CardinalityType
  <1>4. ASSUME NEW f \in history', f # g
        PROVE  again'[f] + Cardinality(Reading(f)') <= MaxConcurrent - 1
    <2>1. f \in Files /\ f \in history
      BY <1>0, <1>a, <1>1, <1>4 DEF TypeOK, Commits, RecordHistory
    <2>2. Reading(f) \ {m} = Reading(f)
      BY <1>a, <1>4 DEF Reading
    <2>3. again[f] + Cardinality(Reading(f)) <= MaxConcurrent - 1
      BY <2>1 DEF CopiesInSlots
    <2> QED BY <1>1, <1>3, <1>4, <2>1, <2>2, <2>3, ConstantsAssumption
  <1>5. CASE g \in history
    <2>1. Cardinality(Reading(g) \ {m}) = Cardinality(Reading(g)) - 1
      BY <1>0, FiniteSlots, FS_RemoveElement
    <2>2. again[g] + Cardinality(Reading(g)) <= MaxConcurrent - 1 /\ Cardinality(Reading(g)) \in Nat
      BY <1>5, FiniteSlots DEF CopiesInSlots
    <2>3. Cardinality(Reading(g)') <= Cardinality(Reading(g)) - 1 /\ Cardinality(Reading(g)') \in Nat
      BY <1>0, <1>3, <2>1
    <2>4. again[g] \in Nat /\ again'[g] \in Nat /\ again'[g] <= again[g] + 1
      BY <1>0, <1>1, <1>5
    <2>5. again'[g] + Cardinality(Reading(g)') <= MaxConcurrent - 1
      BY <2>2, <2>3, <2>4, ConstantsAssumption
    <2>6. \A f \in history' : again'[f] + Cardinality(Reading(f)') <= MaxConcurrent - 1
      BY <1>4, <2>5
    <2> QED BY <1>1, <1>2, <1>5, <2>6 DEF CopiesInSlots
  <1>6. CASE g \notin history
    <2>1. Cardinality(Reading(g) \ {m}) <= Cardinality(InFlight) - 1
      <3>1. Reading(g) \ {m} \subseteq InFlight \ {m} /\ IsFiniteSet(InFlight \ {m})
        BY FiniteSlots, FS_Subset
      <3>2. Cardinality(InFlight \ {m}) = Cardinality(InFlight) - 1
        BY <1>0, FiniteSlots, FS_RemoveElement
      <3> QED BY <3>1, <3>2, FS_Subset
    <2>2. again[g] = 0 /\ again'[g] = 0
      BY <1>0, <1>1, <1>6 DEF CopiesInSlots
    <2>3. Cardinality(InFlight) \in Nat /\ Cardinality(InFlight) <= MaxConcurrent
      BY FiniteSlots DEF CopiesInSlots
    <2>4. again'[g] + Cardinality(Reading(g)') <= MaxConcurrent - 1
      BY <1>0, <1>3, <2>1, <2>2, <2>3, ConstantsAssumption
    <2>5. \A f \in history' : again'[f] + Cardinality(Reading(f)') <= MaxConcurrent - 1
      BY <1>4, <2>4
    <2>6. \A f \in Files \ history' : again'[f] = 0
      BY <1>0, <1>1, <2>2 DEF CopiesInSlots
    <2> QED BY <1>1, <1>2, <2>5, <2>6 DEF CopiesInSlots
  <1> QED BY <1>5, <1>6

\* A task that gets a slot was not in the history.
LEMMA SlotTaken ==
  ASSUME TypeOK, CopiesInSlots, NEW m \in MsgIds, Acquire(m) PROVE CopiesInSlots'
  <1>0. /\ UNCHANGED <<history, again, src>> /\ task[m] = "wait" /\ Key' = Key
        /\ Cardinality(InFlight) < MaxConcurrent
    BY DEF Acquire, InFlight, Key
  <1>1. CASE SetTask(m, "done")
    <2>1. InFlight' \subseteq InFlight /\ \A f \in history : Reading(f)' \subseteq Reading(f)
      BY <1>0, <1>1 DEF SetTask, TypeOK, InFlight, Reading, InState
    <2> QED BY <1>0, <2>1, FewerInFlight
  <1>2. CASE SetTask(m, "path") /\ ~(TrackDownloads /\ FileOf[Key][m] \in history)
    <2>1. InFlight' = InFlight \cup {m} /\ m \notin InFlight
      BY <1>0, <1>2 DEF SetTask, TypeOK, InFlight, InState
    <2>2. Cardinality(InFlight') = Cardinality(InFlight) + 1
      BY <2>1, FiniteSlots, FS_AddElement
    <2>3. Cardinality(InFlight') <= MaxConcurrent
      BY <1>0, <2>2, FiniteSlots, ConstantsAssumption
    <2>4. FileOf[Key][m] \notin history
      BY <1>2 DEF CopiesInSlots
    <2>5. \A f \in history : Reading(f)' = Reading(f)
      BY <1>0, <1>2, <2>4 DEF SetTask, TypeOK, Reading, InState
    <2> QED BY <1>0, <2>3, <2>5 DEF CopiesInSlots
  <1> QED BY <1>1, <1>2 DEF Acquire

\* When the tasks are over, nobody is on the way.
LEMMA NobodyInFlight ==
  ASSUME task' = NoTasks PROVE InFlight' = {} /\ \A f : Reading(f)' = {}
  BY DEF InFlight, Reading, InState, NoTasks

\* A step of a task.
LEMMA SlotsTask ==
  ASSUME TypeOK, CopiesInSlots, NEW m \in MsgIds, TaskStep(m) PROVE CopiesInSlots'
  <1>1. CASE Acquire(m)
    BY <1>1, SlotTaken
  <1>2. CASE Resolve(m) \/ LoadFails(m) \/ HookDone(m)
    <2>1. /\ UNCHANGED <<history, again, src>> /\ Key' = Key
          /\ \E to \in {"load", "done", "failed"} :
               SetTask(m, to) /\ (to = "load" => task[m] = "path")
      BY <1>2 DEF Resolve, LoadFails, HookDone, tables, Key
    <2>2. InFlight' \subseteq InFlight /\ \A f \in history : Reading(f)' \subseteq Reading(f)
      BY <2>1 DEF SetTask, TypeOK, InFlight, Reading, InState
    <2> QED BY <2>1, <2>2, FewerInFlight
  <1>3. CASE LoadOK(m)
    <2>1. task[m] = "load" /\ Commits(m, 3) /\ Key' = Key /\ \E to \in {"hook", "done"} : SetTask(m, to)
      BY <1>3 DEF LoadOK, Key
    <2>2. InFlight' \subseteq InFlight /\ \A f \in Files : Reading(f)' \subseteq Reading(f) \ {m}
      BY <2>1 DEF SetTask, TypeOK, InFlight, Reading, InState
    <2> QED BY <2>1, <2>2, CommitsCount
  <1>4. CASE TaskRaises(m)
    <2>1. PICK upto \in 0..3 : Commits(m, upto)
      BY <1>4 DEF TaskRaises
    <2>2. InFlight' = {} /\ \A f : Reading(f)' = {}
      BY <1>4, LeaveSource, NobodyInFlight DEF TaskRaises
    <2>3. CASE task[m] = "load"
      BY <2>1, <2>2, <2>3, CommitsCount
    <2>4. CASE task[m] # "load"
      <3>1. UNCHANGED <<history, again>>
        BY <1>4, <2>4 DEF TaskRaises, Commits
      <3> QED BY <2>2, <3>1, FewerInFlight
    <2> QED BY <2>3, <2>4
  <1> QED BY <1>1, <1>2, <1>3, <1>4 DEF TaskStep

\* Every step keeps the second copies within the slots.
LEMMA SlotsNext == TypeOK /\ BatchInBudget /\ CopiesInSlots /\ [Next]_vars => CopiesInSlots'
  <1> SUFFICES ASSUME TypeOK, BatchInBudget, CopiesInSlots, [Next]_vars PROVE CopiesInSlots'
    OBVIOUS
  <1>1. CASE task' = NoTasks /\ UNCHANGED <<history, again>>
    BY <1>1, NobodyInFlight, FewerInFlight
  <1>2. CASE UNCHANGED <<task, history, again, src>>
    <2>1. InFlight' = InFlight /\ \A f : Reading(f)' = Reading(f)
      BY <1>2 DEF InFlight, Reading, InState, Key
    <2> QED BY <1>2, <2>1, FewerInFlight
  <1>3. CASE \E m \in MsgIds : TaskStep(m)
    BY <1>3, SlotsTask
  <1>4. CASE StartBatch
    <2>1. UNCHANGED <<history, again>>
      BY <1>4 DEF StartBatch, tables
    <2>2. \A x \in MsgIds : task'[x] \in {"wait", "none"}
      BY <1>4 DEF StartBatch
    <2>3. InFlight' = {} /\ \A f : Reading(f)' = {}
      BY <2>2 DEF InFlight, Reading, InState
    <2> QED BY <2>1, <2>3, FewerInFlight
  <1>5. CASE \E m \in MsgIds : CrashInCommits(m)
    <2>1. PICK m \in MsgIds : CrashInCommits(m)
      BY <1>5
    <2>2. InFlight' = {} /\ \A f : Reading(f)' = {}
      BY <2>1, LeaveSource, NobodyInFlight DEF CrashInCommits
    <2>3. task[m] = "load" /\ \E upto \in 0..3 : Commits(m, upto)
      BY <2>1 DEF CrashInCommits
    <2> QED BY <2>2, <2>3, CommitsCount
  <1>6. CASE Start \/ StartCheck \/ World \/ UNCHANGED vars
    BY <1>2, <1>6 DEF Start, StartCheck, World, Post, Delete, MoveAway, tables, check, vars
  <1>7. CASE Scan \/ AllOrphaned
    <2>1. UNCHANGED <<history, again>>
      BY <1>7 DEF Scan, AllOrphaned
    <2>2. task = NoTasks
      BY <1>7 DEF Scan, AllOrphaned, BatchInBudget
    <2>3. task' = NoTasks
      BY <1>7, <2>2, LeaveSource DEF Scan, AllOrphaned
    <2> QED BY <1>1, <2>1, <2>3
  <1>8. CASE RpcFails \/ NothingDue \/ BatchDone \/ Failure
    BY <1>1, <1>5, <1>8, LeaveSource
       DEF RpcFails, NothingDue, BatchDone, Failure, AccountError, BatchCommitFails,
           Interrupt, Crash, CrashAfterRemove, tables
  <1> QED BY <1>3, <1>4, <1>6, <1>7, <1>8 DEF Next, Program

\* Nobody is on the way when the process starts.
LEMMA SlotsInit == Init => CopiesInSlots
  <1> SUFFICES ASSUME Init PROVE CopiesInSlots
    OBVIOUS
  <1>1. InFlight = {}
    BY DEF Init, InFlight, InState, NoTasks
  <1>2. Cardinality(InFlight) <= MaxConcurrent
    BY <1>1, FS_EmptySet, ConstantsAssumption
  <1> QED BY <1>2 DEF Init, CopiesInSlots

\* However many crashes, checks and messages with one file there are: once it is
\* recorded it is downloaded less often than there are slots, with a single slot
\* never (see SecondCopiesBounded).
THEOREM SecondCopiesFewerThanSlots == Spec => []SecondCopiesBounded
  <1>1. Budget => BatchInBudget
    BY DEF Budget
  <1>2. TypeOK /\ CopiesInSlots => SecondCopiesBounded
    <2> SUFFICES ASSUME TypeOK, CopiesInSlots, NEW f \in Files
                 PROVE  again[f] <= MaxConcurrent - 1
      BY DEF SecondCopiesBounded
    <2>1. again[f] \in Nat /\ Cardinality(Reading(f)) \in Nat
      BY FiniteSlots DEF TypeOK
    <2>2. CASE f \in history
      BY <2>1, <2>2, ConstantsAssumption DEF CopiesInSlots
    <2>3. CASE f \notin history
      BY <2>3, ConstantsAssumption DEF CopiesInSlots
    <2> QED BY <2>2, <2>3
  <1> QED BY <1>1, <1>2, SlotsInit, SlotsNext, TypeCorrect, BudgetKept, PTL DEF Spec
=============================================================================
