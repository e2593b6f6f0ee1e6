--------------------------- MODULE BacklogProofs ---------------------------
(***************************************************************************)
(* Pipeline implements Backlog, if the sources have cursor keys of their   *)
(* own: the invariant of PipelineProofs says of each step of a check what  *)
(* the abstract step asks for.                                             *)
(***************************************************************************)
EXTENDS PipelineProofs

\* What a chat's only source wants.
LEMMA OnlySource ==
  ASSUME DistinctKeys, NEW s \in Sources
  PROVE  KeyOf[s] \in Keys /\ SourcesOf(KeyOf[s]) = {s} /\ WantedOf[KeyOf[s]] = Wanted[s]
<1>1. KeyOf[s] \in Keys
  BY ConstantsAssumption
<1>2. SourcesOf(KeyOf[s]) = {s}
  BY DEF SourcesOf, DistinctKeys
<1>3. UNION {Wanted[t] : t \in {s}} = Wanted[s]
  OBVIOUS
<1> QED BY <1>1, <1>2, <1>3 DEF WantedOf

\* What it needs no more.
LEMMA GotMeaning ==
  ASSUME TypeOK, DistinctKeys, NEW s \in Sources, NEW m \in MsgIds
  PROVE  Abstract!Got(KeyOf[s], m) <=> m <= Yaml[KeyOf[s]] \/ Settled(s, m)
<1> DEFINE k == KeyOf[s]
<1>1. k \in Keys /\ FileOf[k][m] \in Files /\ saved \subseteq Files
  BY ConstantsAssumption DEF TypeOK
<1>2. m \in ExemptOf[k] <=> m <= Yaml[k] \/ m \in BadPath[s]
  <2>1. UNION {BadPath[t] : t \in {s}} = BadPath[s]
    OBVIOUS
  <2> QED BY <1>1, <2>1, OnlySource DEF ExemptOf
<1>3. ASSUME NEW g \in saved
      PROVE  g \in Serves[k][m] <=>
               g = FileOf[k][m] \/ SamePlace(FileOf[k][m], g) \/ Displaces(g, s, m)
  BY <1>1, OnlySource DEF Serves
<1> QED BY <1>1, <1>2, <1>3 DEF Abstract!Got, Settled, Kept

\* A scan is a look at the whole chat: an unseen message is above its floor.
LEMMA ScanLooks ==
  ASSUME IInv, DistinctKeys, Scan
  PROVE  Abstract!Look(Key)
<1> DEFINE new == AboveFloor(Key) \cap Wanted[src]
           there == WantedOf[Key] \cap chat[Key]
           missing == {m \in there : ~Abstract!Got(Key, m)}
<1>0. /\ TypeOK /\ src \in Sources /\ Key = KeyOf[src] /\ Key \in Keys
      /\ UNCHANGED <<newest, chat, saved>> /\ pending' = [pending EXCEPT ![Key] = @ \cup new]
  BY KeyType DEF IInv, TypeOK, Scan, AddBatch, world, Key
<1>1. there = Wanted[src] \cap chat[Key] /\ there \subseteq MsgIds
  BY <1>0, OnlySource, ConstantsAssumption
<1>2. new \in SUBSET there
  BY <1>1 DEF AboveFloor
<1>3. ASSUME NEW m \in missing PROVE m \in pending[Key] \cup new
  <2>1. m \in MsgIds /\ m \in Wanted[src] \cap chat[Key] /\ ~Abstract!Got(Key, m)
    BY <1>1
  <2>2. ~(m <= Yaml[Key]) /\ ~Settled(src, m)
    BY <1>0, <2>1, GotMeaning
  <2>3. m > Yaml[Key]
    BY <1>0, <2>1, <2>2, ConstantsAssumption DEF MsgIds
  <2>4. SUFFICES ASSUME m \notin pending[Key] PROVE m \in new
    OBVIOUS
  <2>5. Unseen(src, m)
    BY <1>0, <2>1, <2>2, <2>3, <2>4 DEF Unseen
  <2>6. m > cursor[Key] /\ \A p \in pending[Key] : m > p
    BY <1>0, <2>1, <2>5 DEF IInv, UnseenAbove
  <2> QED BY <2>1, <2>6 DEF AboveFloor
<1>4. pending[Key] \cup missing \cup new = pending[Key] \cup new
  BY <1>3
<1>5. pending' = [pending EXCEPT ![Key] = @ \cup missing \cup new]
  BY <1>0, <1>4
<1> QED BY <1>0, <1>2, <1>5 DEF Abstract!Look

\* The commits of a task are the download of a queued message, or repeat one.
LEMMA CommitsDownload ==
  ASSUME IInv, NEW m \in MsgIds, NEW upto \in 0..3, Commits(m, upto), m \in pending[Key],
         UNCHANGED <<newest, chat, pending>>
  PROVE  Abstract!Download(Key, m) \/ UNCHANGED <<newest, chat, pending, saved>>
BY DEF Commits, Publish, Abstract!Download

\* What leaves the queue is settled or gone.
LEMMA RemovalClears ==
  ASSUME IInv, DistinctKeys, NEW ids \in SUBSET MsgIds,
         \A m \in ids : Settled(src, m) \/ m \notin chat[Key],
         \A k \in Keys : pending'[k] = IF k = Key THEN pending[k] \ ids ELSE pending[k],
         TypeOK', UNCHANGED <<newest, chat, saved>>
  PROVE  Abstract!Clear(Key)
<1> DEFINE gone == ids \cap pending[Key]
<1>1. TypeOK /\ src \in Sources /\ Key = KeyOf[src] /\ Key \in Keys
  BY KeyType DEF IInv, TypeOK, Key
<1>2. gone \in SUBSET {m \in pending[Key] : Abstract!Got(Key, m) \/ m \notin chat[Key]}
  BY <1>1, GotMeaning
<1>3. pending' = [pending EXCEPT ![Key] = @ \ gone]
  <2>1. pending \in [Keys -> SUBSET MsgIds] /\ pending' \in [Keys -> SUBSET MsgIds]
    BY <1>1 DEF TypeOK
  <2>2. pending[Key] \ ids = pending[Key] \ gone
    OBVIOUS
  <2> QED BY <1>1, <2>1, <2>2
<1> QED BY <1>2, <1>3 DEF Abstract!Clear

\* One step of a task.
LEMMA TaskRefines ==
  ASSUME IInv, NEW m \in MsgIds, TaskStep(m) \/ CrashInCommits(m)
  PROVE  Abstract!Download(Key, m) \/ UNCHANGED <<newest, chat, pending, saved>>
<1>1. UNCHANGED <<newest, chat, pending>>
  BY DEF TaskStep, Acquire, Resolve, LoadOK, LoadFails, HookDone, TaskRaises, CrashInCommits,
         world, tables
<1>2. m \in pending[Key]
  BY DEF IInv, BatchSound, TaskStep, Acquire, Resolve, LoadOK, LoadFails, HookDone, TaskRaises,
         CrashInCommits
<1>3. saved' = saved \/ \E upto \in 0..3 : Commits(m, upto)
  BY DEF TaskStep, Acquire, Resolve, LoadOK, LoadFails, HookDone, TaskRaises, CrashInCommits
<1> QED BY <1>1, <1>2, <1>3, CommitsDownload

\* The steps that end a batch.
LEMMA BatchRefines ==
  ASSUME IInv, TypeOK', DistinctKeys,
         AllOrphaned \/ BatchDone \/ BatchCommitFails \/ CrashAfterRemove
  PROVE  Abstract!Clear(Key) \/ UNCHANGED <<newest, chat, pending, saved>>
<1>0. TypeOK /\ Key \in Keys /\ UNCHANGED <<newest, chat, saved>>
  BY KeyType DEF IInv, AllOrphaned, BatchDone, BatchCommitFails, CrashAfterRemove, world
<1>1. CASE AllOrphaned
  <2>1. /\ GetOldest(Key) \in SUBSET MsgIds /\ \A m \in GetOldest(Key) : m \notin chat[Key]
        /\ \A k \in Keys : pending'[k] = IF k = Key THEN pending[k] \ GetOldest(Key) ELSE pending[k]
    BY <1>0, <1>1, GetOldestType, RemovePending DEF AllOrphaned
  <2> QED BY <1>0, <2>1, RemovalClears
<1>2. Processed \in SUBSET MsgIds /\ \A m \in Processed : Settled(src, m) \/ m \notin chat[Key]
  BY <1>0, ProcessedType, ProcessedSound DEF IInv
<1>3. CASE BatchDone
  <2>1. \A k \in Keys : pending'[k] = IF k = Key THEN pending[k] \ Processed ELSE pending[k]
    BY <1>0, <1>3, RemoveAndIncrementPending DEF BatchDone
  <2> QED BY <1>0, <1>2, <2>1, RemovalClears
<1>4. CASE RemoveBatch(Key, Processed)
  <2>1. \A k \in Keys : pending'[k] = IF k = Key THEN pending[k] \ Processed ELSE pending[k]
    BY <1>0, <1>4, RemovePending
  <2> QED BY <1>0, <1>2, <2>1, RemovalClears
<1>5. CASE BatchCommitFails \/ CrashAfterRemove
  BY <1>0, <1>4, <1>5 DEF BatchCommitFails, CrashAfterRemove
<1> QED BY <1>1, <1>3, <1>5

\* Every step does what the backlog allows, or nothing to it.
LEMMA StepRefines ==
  DistinctKeys /\ IInv /\ TypeOK' /\ [Next]_vars => [Abstract!Next]_(Abstract!vars)
<1> SUFFICES ASSUME DistinctKeys, IInv, TypeOK', [Next]_vars
             PROVE  Abstract!Next \/ UNCHANGED <<newest, chat, pending, saved>>
  BY DEF Abstract!vars
<1>0. Key \in Keys
  BY KeyType DEF IInv
<1>1. CASE Scan
  BY <1>0, <1>1, ScanLooks DEF Abstract!Next
<1>2. CASE \E m \in MsgIds : TaskStep(m) \/ CrashInCommits(m)
  BY <1>0, <1>2, TaskRefines DEF Abstract!Next
<1>3. CASE AllOrphaned \/ BatchDone \/ BatchCommitFails \/ CrashAfterRemove
  BY <1>0, <1>3, BatchRefines DEF Abstract!Next
<1>4. CASE Start \/ StartCheck \/ RpcFails \/ NothingDue \/ StartBatch
  BY <1>4 DEF Start, StartCheck, RpcFails, NothingDue, StartBatch, world, tables
<1>5. CASE AccountError \/ Interrupt \/ Crash
  BY <1>5 DEF AccountError, Interrupt, Crash, world, tables
<1>6. ASSUME NEW k \in Keys, Post(k) PROVE Abstract!Post(k)
  BY <1>6 DEF Post, Abstract!Post, tables
<1>7. ASSUME NEW k \in Keys, NEW m \in MsgIds, Delete(k, m) PROVE Abstract!Delete(k, m)
  BY <1>7 DEF Delete, Abstract!Delete, tables
<1>8. CASE World
  <2>1. CASE \E n \in Names : MoveAway(n)
    BY <2>1 DEF MoveAway, world, tables
  <2> QED BY <1>6, <1>7, <1>8, <2>1 DEF World, Abstract!Next
<1>9. CASE UNCHANGED vars
  BY <1>9 DEF vars
<1> QED BY <1>1, <1>2, <1>3, <1>4, <1>5, <1>8, <1>9 DEF Next, Program, Failure

\* Whatever fails and however many sources there are, the checks implement the
\* abstract backlog (see WorksOffBacklog), if the sources' cursor keys differ.
THEOREM ChecksRefineBacklog == ASSUME DistinctKeys PROVE Spec => WorksOffBacklog
<1>1. Init => Abstract!Init
  BY DEF Init, Abstract!Init
<1>2. IInv /\ TypeOK' /\ [Next]_vars => [Abstract!Next]_(Abstract!vars)
  BY StepRefines
<1>3. IInv => TypeOK
  BY DEF IInv
<1> QED BY <1>1, <1>2, <1>3, Invariance, PTL DEF Spec, WorksOffBacklog, Abstract!Spec
=============================================================================
