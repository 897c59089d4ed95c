-------------------------- MODULE IngestionProofs --------------------------
(***************************************************************************)
(* Proofs about Ingestion: its types, that a document never has two        *)
(* workers, that a run finds no rows when it inserts its own, and what     *)
(* READY promises, with and without rebuilds of the graph alone; when      *)
(* requests also come one at a time, that documents live as documented and *)
(* that one in a processing status has a job; and that a purged document   *)
(* stays purged.                                                           *)
(***************************************************************************)
EXTENDS Ingestion, TLAPS

USE StoreAssumption, QueueAssumption, ApiAssumption, WorkerAssumption
-----------------------------------------------------------------------------
(* Type correctness: what each queue operation does to the jobs' types *)

LEMMA NoJobType == NoJob \in Job
BY DEF NoJob, Job, Stages

\* producer.ts enqueue keeps the table of jobs well typed
LEMMA EnqueueType ==
  ASSUME QueueTypeOK, NEW d \in Docs, NEW s \in Stages, enqueue(d, s)
  PROVE  QueueTypeOK'
BY DEF QueueTypeOK, enqueue, NoJob, Job, Stages

LEMMA RetireType ==
  ASSUME QueueTypeOK, NEW d \in Docs, NEW s \in {"completed", "failed"},
         Retire(d, s)
  PROVE  QueueTypeOK'
<1>1. [NoJob EXCEPT !.state = s] \in Job
  BY DEF NoJob, Job, Stages
<1> QED
  BY <1>1 DEF QueueTypeOK, Retire

LEMMA RemoveType ==
  ASSUME QueueTypeOK, NEW d \in Docs, remove(d)
  PROVE  QueueTypeOK'
BY NoJobType DEF remove, QueueTypeOK

LEMMA FailAttemptType ==
  ASSUME QueueTypeOK, NEW d \in Docs, FailAttempt(d)
  PROVE  QueueTypeOK'
<1>1. CASE jobs[d].made + 1 < Attempts
  BY <1>1 DEF FailAttempt, QueueTypeOK, Job
<1>2. CASE ~(jobs[d].made + 1 < Attempts)
  BY <1>2, RetireType DEF FailAttempt
<1> QED
  BY <1>1, <1>2

LEMMA RecoverStalledType ==
  ASSUME QueueTypeOK, NEW d \in Docs, RecoverStalled(d)
  PROVE  QueueTypeOK'
<1>1. CASE jobs[d].stalls < MaxStalled
  BY <1>1 DEF RecoverStalled, QueueTypeOK, Job
<1>2. CASE ~(jobs[d].stalls < MaxStalled)
  BY <1>2, RetireType DEF RecoverStalled
<1> QED
  BY <1>1, <1>2

LEMMA OtherFinishesType ==
  ASSUME QueueTypeOK, OtherFinishes
  PROVE  QueueTypeOK'
BY NoJobType DEF OtherFinishes, QueueTypeOK

LEMMA ReleaseLocksType ==
  ASSUME QueueTypeOK, ReleaseLocks
  PROVE  QueueTypeOK'
BY DEF ReleaseLocks, QueueTypeOK, Job

LEMMA TakeType ==
  ASSUME QueueTypeOK, NEW w \in Workers, NEW d \in Docs, Take(w, d)
  PROVE  QueueTypeOK'
BY DEF Take, QueueTypeOK, Job
-----------------------------------------------------------------------------
(* Type correctness: the steps of the API *)

\* the request table after a request starts, goes on, or is answered
LEMMA RequestTypes ==
  ASSUME StoreTypeOK, ReqTypeOK, NEW r \in Reqs
  PROVE  /\ \A p \in ReqPc : Then(r, p) => ReqTypeOK'
         /\ Answer(r) => ReqTypeOK'
         /\ \A d \in Docs, op \in AllOps, p \in ReqPc :
              Begin(r, d, op, p) => ReqTypeOK'
<1>1. \A p \in ReqPc : Then(r, p) => ReqTypeOK'
  BY DEF Then, ReqTypeOK
<1>2. Answer(r) => ReqTypeOK'
  BY DEF Answer, ReqTypeOK, Idle, ReqPc, AllOps, Status, NoRow
<1>3. ASSUME NEW d \in Docs, NEW op \in AllOps, NEW p \in ReqPc,
             Begin(r, d, op, p)
      PROVE  ReqTypeOK'
  BY <1>3 DEF Begin, ReqTypeOK, StoreTypeOK
<1> QED
  BY <1>1, <1>2, <1>3

\* a request that is not idle is about a document
ReqDocs == \A r \in Reqs : req[r].pc # "idle" => req[r].doc \in Docs

\* a slot that is not idle runs a job of a document
WkDocs == \A w \in Workers : wk[w].pc # "idle" => wk[w].doc \in Docs

Typed == TypeOK /\ ReqDocs /\ WkDocs

LEMMA TransitionType ==
  ASSUME status \in [Docs -> Status], NEW d \in Docs, NEW s \in Status,
         transition(d, s)
  PROVE  status' \in [Docs -> Status]
BY DEF transition

LEMMA SetPublicType ==
  ASSUME es \in [Docs -> SUBSET EsChunk], NEW d \in Docs, NEW flag \in BOOLEAN,
         setCompanyPublic(d, flag)
  PROVE  es' \in [Docs -> SUBSET EsChunk]
<1>1. \A c \in es[d] : [c EXCEPT !.pub = flag] \in EsChunk
  BY DEF EsChunk
<1>2. {[c EXCEPT !.pub = flag] : c \in es[d]} \in SUBSET EsChunk
  BY <1>1
<1> QED
  BY <1>2 DEF setCompanyPublic

LEMMA FaultType ==
  ASSUME StoreTypeOK, NEW side, Fault(side)
  PROVE  faults' \in 0..MaxFaults
BY DEF StoreTypeOK, Fault

LEMMA StartTypes ==
  ASSUME Typed, NEW r \in Reqs, NEW d \in Docs, Start(r, d)
  PROVE  StoreTypeOK' /\ QueueTypeOK' /\ ReqTypeOK' /\ ReqDocs'
<1>1. PICK op \in AllOps, p \in ReqPc : Begin(r, d, op, p)
  BY DEF Start, uploadComplete, review, reindex, removeDocument, publish,
         AllOps, ReqPc, Stages
<1>2. ReqTypeOK'
  BY <1>1, RequestTypes DEF Typed, TypeOK
<1>3. ReqDocs'
  BY <1>1 DEF Begin, ReqDocs, Typed, TypeOK, ReqTypeOK
<1>4. StoreTypeOK' /\ QueueTypeOK'
  BY <1>1 DEF Begin, Typed, TypeOK, StoreTypeOK, QueueTypeOK, storeVars, rowVars,
              blobVars, indexVars
<1> QED
  BY <1>2, <1>3, <1>4

LEMMA RequestStepTypes ==
  ASSUME Typed, NEW r \in Reqs,
         RequestStep(r) \/ PublishEsFails(r) \/ RequestFails(r)
  PROVE  StoreTypeOK' /\ QueueTypeOK' /\ ReqTypeOK' /\ ReqDocs'
<1> DEFINE d == req[r].doc
<1>1. d \in Docs
  BY DEF Typed, ReqDocs, RequestStep, PublishEsFails, RequestFails, At,
         CompleteMerge, CompletePut, CompleteDup, CompleteDrop, CompleteDropRow,
         CompleteHash, CompleteSubmit, ReviewStatus, ReindexStatus, Enqueue,
         RemoveSave, RemoveGetState, RemoveCancel, PublishFlag, PublishEs,
         PublishRestore
<1>2. Answer(r) \/ \E p \in ReqPc : Then(r, p)
  BY DEF RequestStep, PublishEsFails, RequestFails, ReqPc,
         CompleteMerge, CompletePut, CompleteDup, CompleteDrop, CompleteDropRow,
         CompleteHash, CompleteSubmit, ReviewStatus, ReindexStatus, Enqueue,
         RemoveSave, RemoveGetState, RemoveCancel, PublishFlag, PublishEs,
         PublishRestore
<1>3. ReqTypeOK'
  BY <1>2, RequestTypes DEF Typed, TypeOK
<1>4. ReqDocs'
  BY <1>1, <1>2 DEF Answer, Then, Idle, ReqDocs, Typed, TypeOK, ReqTypeOK
<1>5. StoreTypeOK' /\ QueueTypeOK'
  <2> USE <1>1 DEF Typed, TypeOK, StoreTypeOK, QueueTypeOK, storeVars, rowVars,
                   blobVars, indexVars
  <2>1. CASE CompleteMerge(r) \/ CompleteDup(r) \/ RemoveGetState(r)
    BY <2>1 DEF CompleteMerge, CompleteDup, RemoveGetState
  <2>2. CASE CompletePut(r) \/ CompleteHash(r)
    BY <2>2, FaultType DEF CompletePut, CompleteHash, Exists, NoRow
  <2>3. CASE CompleteDrop(r)
    BY <2>3, FaultType DEF CompleteDrop
  <2>4. CASE CompleteDropRow(r)
    BY <2>4 DEF CompleteDropRow, Status, NoRow
  <2>5. CASE CompleteSubmit(r) \/ ReviewStatus(r) \/ ReindexStatus(r)
    <3>1. PICK s \in Status : transition(d, s)
      BY <2>5 DEF CompleteSubmit, ReviewStatus, ReindexStatus, Status, Processing
    <3>2. status' \in [Docs -> Status]
      BY <3>1, TransitionType
    <3> QED
      BY <2>5, <3>2 DEF CompleteSubmit, ReviewStatus, ReindexStatus
  <2>6. CASE Enqueue(r)
    BY <2>6, EnqueueType DEF Enqueue, Stages
  <2>7. CASE RemoveSave(r)
    BY <2>7 DEF RemoveSave, ReqTypeOK
  <2>8. CASE RemoveCancel(r)
    BY <2>8, RemoveType DEF RemoveCancel
  <2>9. CASE PublishFlag(r) \/ PublishRestore(r)
    BY <2>9 DEF PublishFlag, PublishRestore, SetPublished, ReqTypeOK
  <2>10. CASE PublishEs(r)
    BY <2>10, SetPublicType DEF PublishEs
  <2>11. CASE PublishEsFails(r)
    BY <2>11, SetPublicType, FaultType DEF PublishEsFails
  <2>12. CASE RequestFails(r)
    BY <2>12, FaultType DEF RequestFails
  <2> QED
    BY <2>1, <2>2, <2>3, <2>4, <2>5, <2>6, <2>7, <2>8, <2>9, <2>10, <2>11, <2>12
       DEF RequestStep
<1> QED
  BY <1>3, <1>4, <1>5
-----------------------------------------------------------------------------
(* Type correctness: the steps of the worker *)

LEMMA GotoTypes ==
  ASSUME Typed, NEW w \in Workers, NEW p \in WkPc, Goto(w, p),
         wk[w].pc # "idle", UNCHANGED crashes
  PROVE  WorkerTypeOK' /\ WkDocs'
BY DEF Goto, Typed, TypeOK, WorkerTypeOK, WkDocs

LEMMA GotoWithTypes ==
  ASSUME Typed, NEW w \in Workers, NEW p \in WkPc,
         NEW left \in SUBSET (Gens \X Parts), NEW pub \in BOOLEAN,
         GotoWith(w, p, left, pub), wk[w].pc # "idle", UNCHANGED crashes
  PROVE  WorkerTypeOK' /\ WkDocs'
BY DEF GotoWith, Typed, TypeOK, WorkerTypeOK, WkDocs

LEMMA FreeTypes ==
  ASSUME Typed, NEW w \in Workers, wk' = [wk EXCEPT ![w] = Free], UNCHANGED crashes
  PROVE  WorkerTypeOK' /\ WkDocs'
<1>1. Free \in [pc : WkPc, doc : Docs \union {NoJobDoc},
                left : SUBSET (Gens \X Parts), pub : BOOLEAN]
  BY DEF Free, WkPc
<1> QED
  BY <1>1 DEF Typed, TypeOK, WorkerTypeOK, WkDocs, Free

LEMMA StatusAtType == \A p \in DOMAIN StatusAt : StatusAt[p] \in Status
BY DEF StatusAt, Status, Processing

\* chunking writes its status, and fails on a document without text
LEMMA ChunkSteps ==
  ASSUME NEW w, Chunk(w)
  PROVE  \/ StatusStep(w, "chunking", "indexing")
         \/ StatusStep(w, "chunking", "failing") /\ JobDoc(w) \in textless
BY DEF Chunk

\* the steps of a run that only move its slot on
LEMMA PlainStepTypes ==
  ASSUME Typed, NEW w \in Workers, NEW p \in WkPc \ {"idle"}, NEW q \in WkPc,
         \/ p \in DOMAIN StatusAt /\ StatusStep(w, p, q)
         \/ assertNotDeleted(w, p, q)
         \/ Build(w, p, q)
  PROVE  StoreTypeOK' /\ QueueTypeOK' /\ WorkerTypeOK' /\ WkDocs'
<1>1. wk[w].pc # "idle" /\ JobDoc(w) \in Docs
  BY DEF StatusStep, assertNotDeleted, Build, Runs, JobDoc, Typed, WkDocs
<1>2. \E t \in WkPc : Goto(w, t)
  BY DEF StatusStep, assertNotDeleted, Build, Thrown, WkPc
<1>3. WorkerTypeOK' /\ WkDocs'
  BY <1>1, <1>2, GotoTypes DEF StatusStep, assertNotDeleted, Build
<1>4. StoreTypeOK' /\ QueueTypeOK'
  <2> USE <1>1 DEF Typed, TypeOK, StoreTypeOK, QueueTypeOK, storeVars, rowVars,
                   blobVars, indexVars
  <2>1. CASE p \in DOMAIN StatusAt /\ StatusStep(w, p, q)
    BY <2>1, StatusAtType, TransitionType DEF StatusStep
  <2>2. CASE assertNotDeleted(w, p, q)
    BY <2>2 DEF assertNotDeleted
  <2>3. CASE Build(w, p, q)
    BY <2>3, FaultType DEF Build, buildGraph, BrokenGraph, trackGraph
  <2> QED
    BY <2>1, <2>2, <2>3
<1> QED
  BY <1>3, <1>4

LEMMA WorkerStepTypes ==
  ASSUME Typed, NEW w \in Workers, WorkerStep(w) \/ StepFails(w) \/ BuildFails(w)
  PROVE  StoreTypeOK' /\ QueueTypeOK' /\ WorkerTypeOK' /\ WkDocs'
<1> DEFINE d == JobDoc(w)
           Goal == StoreTypeOK' /\ QueueTypeOK' /\ WorkerTypeOK' /\ WkDocs'
<1>0. wk[w].pc # "idle" /\ wk[w].pc \in WkPc /\ d \in Docs
  BY DEF Typed, TypeOK, WorkerTypeOK, WkDocs, JobDoc, WorkerStep, StepFails, Runs,
         TryPc, Fetch, StatusStep, Chunk, Parse, assertNotDeleted, ClearChunks, ClearEs,
         Insert, Load, IndexChunk, IndexDone, Build, PurgeChunks, PurgeEs,
         PurgeGraph, PurgeObject, Ack, Nack, BuildFails
<1>1. ASSUME Fetch(w) \/ Parse(w) PROVE Goal
  <2>1. \E q \in WkPc : Goto(w, q)
    BY <1>1 DEF Fetch, Parse, WkPc, TryPc, GraphPc, PurgePc
  <2>2. WorkerTypeOK' /\ WkDocs'
    BY <1>0, <1>1, <2>1, GotoTypes DEF Fetch, Parse
  <2> QED
    BY <1>1, <2>2 DEF Fetch, Parse, Typed, TypeOK, StoreTypeOK, QueueTypeOK,
                      storeVars, rowVars, blobVars, indexVars
<1>3. ASSUME \/ ClearChunks(w) \/ ClearEs(w) \/ Insert(w) \/ PurgeChunks(w)
             \/ PurgeEs(w) \/ PurgeGraph(w) \/ PurgeObject(w)
      PROVE Goal
  <2>1. \E q \in WkPc : Goto(w, q)
    BY <1>3 DEF ClearChunks, ClearEs, Insert, PurgeChunks, PurgeEs, PurgeGraph,
                PurgeObject, WkPc, TryPc, PurgePc
  <2>2. WorkerTypeOK' /\ WkDocs'
    BY <1>0, <1>3, <2>1, GotoTypes
       DEF ClearChunks, ClearEs, Insert, PurgeChunks, PurgeEs, PurgeGraph, PurgeObject
  <2>3. StoreTypeOK' /\ QueueTypeOK'
    <3> USE <1>0 DEF Typed, TypeOK, StoreTypeOK, QueueTypeOK, rowVars, blobVars,
                     indexVars
    <3>1. CASE ClearChunks(w) \/ PurgeChunks(w)
      BY <3>1 DEF ClearChunks, PurgeChunks
    <3>2. CASE ClearEs(w) \/ PurgeEs(w)
      BY <3>2, FaultType DEF ClearEs, PurgeEs, deleteByDocument
    <3>3. CASE Insert(w)
      BY <3>3 DEF Insert
    <3>4. CASE PurgeGraph(w) \/ PurgeObject(w)
      BY <3>4, FaultType DEF PurgeGraph, PurgeObject
    <3> QED
      BY <1>3, <3>1, <3>2, <3>3, <3>4
  <2> QED
    BY <2>2, <2>3
<1>4. ASSUME Load(w) PROVE Goal
  <2>1. chunks[d] \X Parts \in SUBSET (Gens \X Parts)
    BY <1>0 DEF Typed, TypeOK, StoreTypeOK
  <2>2. (Exists(d) /\ published[d]) \in BOOLEAN
    BY DEF Exists
  <2>3. WorkerTypeOK' /\ WkDocs'
    BY <1>0, <1>4, <2>1, <2>2, GotoWithTypes DEF Load, WkPc, TryPc
  <2> QED
    BY <1>4, <2>3 DEF Load, Typed, TypeOK, StoreTypeOK, QueueTypeOK, storeVars,
                      rowVars, blobVars, indexVars
<1>5. ASSUME IndexChunk(w) PROVE Goal
  <2>1. PICK c \in wk[w].left :
          /\ es' = [es EXCEPT ![d] = @ \union EsOf(c[1], {c[2]}, wk[w].pub)]
          /\ wk' = [wk EXCEPT ![w].left = @ \ {c}]
    BY <1>5 DEF IndexChunk
  <2>2. c[1] \in Gens /\ c[2] \in Parts /\ wk[w].pub \in BOOLEAN
    BY <2>1 DEF Typed, TypeOK, WorkerTypeOK
  <2>3. EsOf(c[1], {c[2]}, wk[w].pub) \in SUBSET EsChunk
    BY <2>2 DEF EsOf, EsChunk
  <2>4. es' \in [Docs -> SUBSET EsChunk]
    BY <1>0, <2>1, <2>3 DEF Typed, TypeOK, StoreTypeOK
  <2>5. StoreTypeOK' /\ QueueTypeOK'
    BY <1>5, <2>4 DEF IndexChunk, Typed, TypeOK, StoreTypeOK, QueueTypeOK, rowVars,
                      blobVars
  <2>6. WorkerTypeOK' /\ WkDocs'
    BY <1>0, <1>5, <2>1 DEF IndexChunk, Typed, TypeOK, WorkerTypeOK, WkDocs
  <2> QED
    BY <2>5, <2>6
<1>6. ASSUME IndexDone(w) PROVE Goal
  <2>1. WorkerTypeOK' /\ WkDocs'
    BY <1>0, <1>6, GotoWithTypes DEF IndexDone, WkPc, TryPc
  <2> QED
    BY <1>6, <2>1 DEF IndexDone, Typed, TypeOK, StoreTypeOK, QueueTypeOK, storeVars,
                      rowVars, blobVars, indexVars
<1>7. ASSUME Ack(w) \/ Nack(w) PROVE Goal
  <2>1. QueueTypeOK'
    BY <1>0, <1>7, RetireType, FailAttemptType DEF Ack, Nack, Complete, Typed, TypeOK
  <2>2. WorkerTypeOK' /\ WkDocs'
    BY <1>7, FreeTypes DEF Ack, Nack
  <2> QED
    BY <1>7, <2>1, <2>2 DEF Ack, Nack, Typed, TypeOK, StoreTypeOK, storeVars,
                            rowVars, blobVars, indexVars
<1>8. ASSUME StepFails(w) PROVE Goal
  <2>1. WorkerTypeOK' /\ WkDocs'
    <3>1. PICK q \in WkPc : GotoWith(w, q, {}, FALSE)
      BY <1>8 DEF StepFails, Thrown, WkPc
    <3> QED
      BY <1>0, <1>8, <3>1, GotoWithTypes DEF StepFails
  <2>2. status' \in [Docs -> Status]
    <3>1. status' = status \/ \E p \in DOMAIN StatusAt : transition(d, StatusAt[p])
      BY <1>8 DEF StepFails
    <3> QED
      BY <1>0, <3>1, StatusAtType, TransitionType DEF Typed, TypeOK, StoreTypeOK
  <2> QED
    BY <1>8, <2>1, <2>2, FaultType
       DEF StepFails, Typed, TypeOK, StoreTypeOK, QueueTypeOK, blobVars, indexVars
<1>11. ASSUME BuildFails(w) PROVE Goal
  <2>1. WorkerTypeOK' /\ WkDocs'
    <3>1. PICK q \in WkPc : Goto(w, q)
      BY <1>11 DEF BuildFails, Thrown, WkPc
    <3> QED
      BY <1>0, <1>11, <3>1, GotoTypes DEF BuildFails
  <2>2. BrokenGraph(d) \subseteq [Docs -> SUBSET Gens]
    BY <1>0 DEF BrokenGraph, Typed, TypeOK, StoreTypeOK
  <2> QED
    BY <1>11, <2>1, <2>2, FaultType
       DEF BuildFails, Typed, TypeOK, StoreTypeOK, QueueTypeOK, rowVars, blobVars
<1>9. CASE \/ StatusStep(w, "parsing", "parse")
           \/ StatusStep(w, "chunking", "indexing")
           \/ StatusStep(w, "indexing", "check2")
           \/ StatusStep(w, "graphing", "check3")
           \/ StatusStep(w, "ready", "ack")
           \/ StatusStep(w, "gGraphing", "gBuild")
           \/ StatusStep(w, "gReady", "ack")
           \/ StatusStep(w, "chunking", "failing")
           \/ StatusStep(w, "failing", "nack")
  <2>1. PICK p \in WkPc \ {"idle"}, q \in WkPc :
          p \in DOMAIN StatusAt /\ StatusStep(w, p, q)
    BY <1>9 DEF WkPc, TryPc, GraphPc, StatusAt
  <2> QED
    BY <2>1, PlainStepTypes
<1>10. CASE \/ assertNotDeleted(w, "check1", "chunking")
            \/ assertNotDeleted(w, "check2", "clear")
            \/ assertNotDeleted(w, "check3", "build")
            \/ assertNotDeleted(w, "check4", "ready")
            \/ Build(w, "build", "check4")
            \/ Build(w, "gBuild", "gReady")
  <2>1. PICK p \in WkPc \ {"idle"}, q \in WkPc :
          assertNotDeleted(w, p, q) \/ Build(w, p, q)
    BY <1>10 DEF WkPc, TryPc, GraphPc
  <2> QED
    BY <2>1, PlainStepTypes
<1> QED
  BY <1>1, <1>3, <1>4, <1>5, <1>6, <1>7, <1>8, <1>11, <1>9, <1>10, ChunkSteps
     DEF WorkerStep

LEMMA TypedInit == Init => Typed
<1> SUFFICES ASSUME Init PROVE Typed
  OBVIOUS
<1>1. StoreTypeOK
  BY DEF Init, StoreInit, StoreTypeOK, Status, NoRow
<1>2. QueueTypeOK
  BY NoJobType DEF Init, QueueInit, QueueTypeOK
<1>3. ReqTypeOK /\ ReqDocs
  BY DEF Init, ReqInit, ReqTypeOK, ReqDocs, Idle, ReqPc, AllOps, Status, NoRow
<1>4. WorkerTypeOK /\ WkDocs
  BY DEF Init, WorkerInit, WorkerTypeOK, WkDocs, Free, WkPc
<1>5. /\ textless \subseteq Docs
      /\ unqueued \in [Docs -> BOOLEAN] /\ overtaken \in [Docs -> BOOLEAN]
  BY DEF Init
<1> QED
  BY <1>1, <1>2, <1>3, <1>4, <1>5 DEF Typed, TypeOK

\* the history and the choice of the documents without text stay in their types
LEMMA HistoryTyped ==
  ASSUME TypeOK, [Next]_vars
  PROVE  /\ textless' = textless
         /\ unqueued' \in [Docs -> BOOLEAN] /\ overtaken' \in [Docs -> BOOLEAN]
<1>1. CASE Next
  <2>1. \A d \in Docs : /\ (NoJobGot(d) \/ (unqueued[d] /\ ~RunStarts(d))) \in BOOLEAN
                       /\ (Overtakes(d) \/ (overtaken[d] /\ ~StartsAfresh(d))) \in BOOLEAN
    BY DEF NoJobGot, RunStarts, Overtakes, StartsAfresh
  <2> QED
    BY <1>1, <2>1 DEF Next, Remember
<1>2. CASE UNCHANGED vars
  BY <1>2 DEF vars, TypeOK
<1> QED
  BY <1>1, <1>2

LEMMA TypedStep == Typed /\ [Next]_vars => Typed'
<1> SUFFICES ASSUME Typed, [Next]_vars PROVE Typed'
  OBVIOUS
<1>0. /\ textless' \subseteq Docs
      /\ unqueued' \in [Docs -> BOOLEAN] /\ overtaken' \in [Docs -> BOOLEAN]
  BY HistoryTyped DEF Typed, TypeOK
<1> USE <1>0 DEF Typed, TypeOK
<1>1. CASE ApiNext /\ UNCHANGED <<wk, crashes>>
  <2>1. WorkerTypeOK' /\ WkDocs'
    BY <1>1 DEF WorkerTypeOK, WkDocs
  <2>2. CASE \E d \in Docs : uploadInit(d)
    <3>1. StoreTypeOK'
      BY <2>2 DEF uploadInit, StoreTypeOK, Status, indexVars
    <3>2. QueueTypeOK' /\ ReqTypeOK' /\ ReqDocs'
      BY <2>2 DEF uploadInit, QueueTypeOK, ReqTypeOK, ReqDocs
    <3> QED
      BY <2>1, <3>1, <3>2
  <2>3. CASE \E r \in Reqs, d \in Docs : Start(r, d)
    BY <2>1, <2>3, StartTypes
  <2>4. CASE \E r \in Reqs : RequestStep(r) \/ PublishEsFails(r) \/ RequestFails(r)
    BY <2>1, <2>4, RequestStepTypes
  <2> QED
    BY <1>1, <2>2, <2>3, <2>4 DEF ApiNext
<1>2. CASE WorkerNext /\ UNCHANGED req
  <2>1. ReqTypeOK' /\ ReqDocs'
    BY <1>2 DEF ReqTypeOK, ReqDocs
  <2>2. CASE \E w \in Workers : WorkerStep(w) \/ StepFails(w) \/ BuildFails(w)
    BY <2>1, <2>2, WorkerStepTypes
  <2>3. ASSUME UNCHANGED storeVars PROVE StoreTypeOK'
    BY <2>3 DEF storeVars, rowVars, blobVars, indexVars, StoreTypeOK
  <2>4. CASE \E w \in Workers, d \in Docs : Claim(w, d)
    <3>1. PICK w \in Workers, d \in Docs : Claim(w, d)
      BY <2>4
    <3>2. WorkerTypeOK' /\ WkDocs'
      BY <3>1 DEF Claim, WorkerTypeOK, WkDocs, WkPc
    <3> QED
      BY <2>1, <2>3, <3>1, <3>2, TakeType DEF Claim
  <2>5. CASE \E d \in Docs : StalledCheck(d)
    BY <2>1, <2>3, <2>5, RecoverStalledType DEF StalledCheck, WorkerTypeOK, WkDocs
  <2>6. CASE OtherFinishes /\ UNCHANGED <<storeVars, wk, crashes>>
    BY <2>1, <2>3, <2>6, OtherFinishesType DEF WorkerTypeOK, WkDocs
  <2>7. CASE Crash
    <3>1. WorkerTypeOK' /\ WkDocs'
      BY <2>7 DEF Crash, Free, WorkerTypeOK, WkDocs, WkPc
    <3> QED
      BY <2>1, <2>3, <2>7, <3>1, ReleaseLocksType DEF Crash
  <2> QED
    BY <1>2, <2>2, <2>4, <2>5, <2>6, <2>7 DEF WorkerNext
<1>3. CASE UNCHANGED vars
  BY <1>3 DEF vars, sysVars, storeVars, rowVars, blobVars, indexVars, StoreTypeOK, QueueTypeOK,
              ReqTypeOK, ReqDocs, WorkerTypeOK, WkDocs
<1> QED
  BY <1>1, <1>2, <1>3 DEF Next, Step

\* Every variable of the ingestion system stays in its type, whatever the
\* number of documents, requests and slots and the bounds of the queue.
THEOREM TypeCorrect == Spec => []TypeOK
<1>1. Spec => []Typed
  BY TypedInit, TypedStep, PTL DEF Spec
<1>2. Typed => TypeOK
  BY DEF Typed
<1> QED
  BY <1>1, <1>2, PTL
-----------------------------------------------------------------------------
(* Mutual exclusion of the workers of a document *)

\* a slot that runs a job holds the lock of that job, which is active
HoldsLock(w) == /\ jobs[wk[w].doc].state = "active"
                /\ jobs[wk[w].doc].owner = w

LockInv == \A w \in Workers : wk[w].pc # "idle" => HoldsLock(w)

\* holding the locks is enough: a job has one owner
LEMMA LocksExclude == LockInv => OneWorkerPerDocument
BY DEF LockInv, HoldsLock, OneWorkerPerDocument

\* what an operation on the queue leaves of the jobs somebody runs
KeepsActive(D) ==
  \A e \in D : jobs[e].state = "active" /\ jobs[e].owner # NoWorker =>
               jobs'[e].state = "active" /\ jobs'[e].owner = jobs[e].owner

LEMMA QueueKeepsActive ==
  ASSUME QueueTypeOK, NEW d \in Docs
  PROVE  /\ \A s \in Stages : enqueue(d, s) => KeepsActive(Docs)
         /\ remove(d) => KeepsActive(Docs)
         /\ OtherFinishes => KeepsActive(Docs)
         /\ \A w \in Workers : Take(w, d) => KeepsActive(Docs)
         /\ \A s \in {"completed", "failed"} :
              Retire(d, s) => KeepsActive(Docs \ {d})
<1> USE DEF QueueTypeOK, KeepsActive
<1>1. ASSUME NEW s \in Stages, enqueue(d, s) PROVE KeepsActive(Docs)
  BY <1>1 DEF enqueue
<1>2. ASSUME remove(d) PROVE KeepsActive(Docs)
  BY <1>2 DEF remove
<1>3. ASSUME OtherFinishes PROVE KeepsActive(Docs)
  BY <1>3 DEF OtherFinishes
<1>4. ASSUME NEW w \in Workers, Take(w, d) PROVE KeepsActive(Docs)
  BY <1>4 DEF Take
<1>5. ASSUME NEW s \in {"completed", "failed"}, Retire(d, s)
      PROVE  KeepsActive(Docs \ {d})
  BY <1>5 DEF Retire
<1> QED
  BY <1>1, <1>2, <1>3, <1>4, <1>5

\* API steps touch the jobs only through enqueue and remove
LEMMA ApiKeepsActive ==
  ASSUME Typed, ApiNext
  PROVE  KeepsActive(Docs)
<1> USE DEF Typed, TypeOK
<1>1. CASE jobs' = jobs
  BY <1>1 DEF KeepsActive, QueueTypeOK
<1>2. ASSUME NEW r \in Reqs, Enqueue(r) PROVE KeepsActive(Docs)
  BY <1>2, QueueKeepsActive DEF Enqueue, At, ReqDocs, Stages
<1>3. ASSUME NEW r \in Reqs, RemoveCancel(r) PROVE KeepsActive(Docs)
  BY <1>3, QueueKeepsActive DEF RemoveCancel, At, ReqDocs
<1>4. \/ jobs' = jobs
      \/ \E r \in Reqs : Enqueue(r) \/ RemoveCancel(r)
  BY DEF ApiNext, uploadInit, Start, uploadComplete, review, reindex,
         removeDocument, publish, Begin, RequestStep, PublishEsFails, RequestFails,
         CompleteMerge, CompletePut, CompleteDup, CompleteDrop, CompleteDropRow,
         CompleteHash, CompleteSubmit, ReviewStatus, ReindexStatus, RemoveSave,
         RemoveGetState, PublishFlag, PublishEs, PublishRestore
<1> QED
  BY <1>1, <1>2, <1>3, <1>4

\* steps of a run before its end keep the slot's document and the jobs
RunsOn(w) == /\ wk[w].pc # "idle"
             /\ jobs' = jobs
             /\ wk'[w].doc = wk[w].doc
             /\ \A v \in Workers \ {w} : wk'[v] = wk[v]

LEMMA StepRunsOn ==
  ASSUME Typed, NEW w \in Workers, WorkerStep(w) \/ StepFails(w) \/ BuildFails(w)
  PROVE  RunsOn(w) \/ Ack(w) \/ Nack(w)
<1> USE DEF Typed, TypeOK, WorkerTypeOK, RunsOn
<1>1. ASSUME NEW p, Goto(w, p), wk[w].pc # "idle", jobs' = jobs PROVE RunsOn(w)
  BY <1>1 DEF Goto
<1>2. ASSUME NEW p, NEW left, NEW pub, GotoWith(w, p, left, pub), wk[w].pc # "idle",
             jobs' = jobs
      PROVE  RunsOn(w)
  BY <1>2 DEF GotoWith
<1>3. ASSUME NEW p, NEW q, p # "idle",
             StatusStep(w, p, q) \/ assertNotDeleted(w, p, q) \/ Build(w, p, q)
      PROVE  RunsOn(w)
  BY <1>1, <1>3 DEF StatusStep, assertNotDeleted, Build, Runs
<1>4. ASSUME \/ Fetch(w) \/ Parse(w) \/ ClearChunks(w) \/ ClearEs(w) \/ Insert(w)
             \/ PurgeChunks(w) \/ PurgeEs(w) \/ PurgeGraph(w) \/ PurgeObject(w)
      PROVE  RunsOn(w)
  BY <1>1, <1>4 DEF Fetch, Parse, ClearChunks, ClearEs, Insert, PurgeChunks, PurgeEs,
                    PurgeGraph, PurgeObject, Runs
<1>5. ASSUME Load(w) \/ IndexDone(w) \/ StepFails(w) PROVE RunsOn(w)
  BY <1>2, <1>5 DEF Load, IndexDone, StepFails, Runs, TryPc
<1>6. ASSUME IndexChunk(w) PROVE RunsOn(w)
  BY <1>6 DEF IndexChunk, Runs
<1>7. ASSUME BuildFails(w) PROVE RunsOn(w)
  BY <1>1, <1>7 DEF BuildFails
<1> QED
  BY <1>3, <1>4, <1>5, <1>6, <1>7, ChunkSteps DEF WorkerStep

LEMMA LockStep ==
  ASSUME Typed, LockInv, [Next]_vars
  PROVE  LockInv'
<1> USE DEF Typed, TypeOK
<1>1. ASSUME wk' = wk, KeepsActive({wk[w].doc : w \in {v \in Workers : wk[v].pc # "idle"}})
      PROVE  LockInv'
  BY <1>1 DEF LockInv, HoldsLock, KeepsActive
<1>2. CASE ApiNext /\ UNCHANGED <<wk, crashes>>
  BY <1>1, <1>2, ApiKeepsActive DEF KeepsActive, WkDocs
<1>3. ASSUME NEW w \in Workers,
             WorkerStep(w) \/ StepFails(w) \/ BuildFails(w)
      PROVE  LockInv'
  <2>1. CASE RunsOn(w)
    BY <2>1 DEF RunsOn, LockInv, HoldsLock
  <2>2. CASE Ack(w) \/ Nack(w)
    <3> DEFINE d == wk[w].doc
    <3>1. wk[w].pc # "idle" /\ d \in Docs /\ jobs[d].owner = w
      BY <2>2 DEF Ack, Nack, Runs, LockInv, HoldsLock, WkDocs
    <3>2. wk' = [wk EXCEPT ![w] = Free]
      BY <2>2 DEF Ack, Nack
    <3>3. KeepsActive(Docs \ {d})
      <4>1. CASE jobs' = [jobs EXCEPT ![d].state = "pending", ![d].made = @ + 1,
                                      ![d].owner = NoWorker]
        BY <4>1 DEF KeepsActive, QueueTypeOK
      <4>2. CASE \E s \in {"completed", "failed"} : Retire(d, s)
        BY <3>1, <4>2, QueueKeepsActive
      <4> QED
        BY <2>2, <4>1, <4>2 DEF Ack, Nack, Complete, FailAttempt, JobDoc
    <3>4. ASSUME NEW v \in Workers, wk'[v].pc # "idle" PROVE HoldsLock(v)'
      <4>1. v # w /\ wk'[v] = wk[v]
        BY <3>2, <3>4 DEF WorkerTypeOK, Free
      <4>2. wk[v].doc \in Docs \ {d} /\ HoldsLock(v)
        BY <3>1, <3>4, <4>1 DEF LockInv, HoldsLock, WkDocs
      <4> QED
        BY <3>3, <4>1, <4>2 DEF KeepsActive, HoldsLock
    <3> QED
      BY <3>4 DEF LockInv
  <2> QED
    BY <1>3, <2>1, <2>2, StepRunsOn
<1>4. ASSUME NEW w \in Workers, NEW d \in Docs, Claim(w, d) PROVE LockInv'
  <2>1. KeepsActive(Docs)
    BY <1>4, QueueKeepsActive DEF Claim
  <2>2. jobs'[d].state = "active" /\ jobs'[d].owner = w
    BY <1>4 DEF Claim, Take, QueueTypeOK, Job
  <2>3. wk'[w].doc = d /\ \A v \in Workers \ {w} : wk'[v] = wk[v]
    BY <1>4 DEF Claim, WorkerTypeOK
  <2> QED
    BY <2>1, <2>2, <2>3 DEF LockInv, HoldsLock, KeepsActive, WkDocs
<1>5. ASSUME NEW d \in Docs, StalledCheck(d) PROVE LockInv'
  <2>1. \A w \in Workers : wk[w].pc # "idle" => wk[w].doc \in Docs \ {d}
    BY <1>5 DEF StalledCheck, RecoverStalled, Stalled, LockInv, HoldsLock, WkDocs
  <2>2. KeepsActive(Docs \ {d})
    <3>1. CASE jobs' = [jobs EXCEPT ![d].state = "pending", ![d].stalls = @ + 1]
      BY <3>1 DEF KeepsActive, QueueTypeOK
    <3>2. CASE Retire(d, "failed")
      BY <3>2, QueueKeepsActive
    <3> QED
      BY <1>5, <3>1, <3>2 DEF StalledCheck, RecoverStalled
  <2> QED
    BY <1>1, <1>5, <2>1, <2>2 DEF StalledCheck, KeepsActive
<1>6. CASE OtherFinishes /\ UNCHANGED <<storeVars, wk, crashes>>
  <2>1. CASE Docs = {}
    BY <1>6, <2>1 DEF LockInv, WkDocs, HoldsLock
  <2>2. CASE Docs # {}
    BY <1>1, <1>6, <2>2, QueueKeepsActive DEF KeepsActive, WkDocs
  <2> QED
    BY <2>1, <2>2
<1>7. CASE Crash
  BY <1>7 DEF Crash, Free, LockInv
<1>8. CASE UNCHANGED vars
  BY <1>8 DEF vars, sysVars, LockInv, HoldsLock
<1> QED
  BY <1>2, <1>3, <1>4, <1>5, <1>6, <1>7, <1>8 DEF Next, Step, WorkerNext

\* At most one slot ever works on a document: whatever users, retries,
\* crashes and the stalled checker do, the deduplicated job id and the job's
\* lock keep a second run of the same document out.
THEOREM MutualExclusion == Spec => []OneWorkerPerDocument
<1>1. Init => LockInv
  BY DEF Init, WorkerInit, Free, LockInv
<1>2. Spec => [](Typed /\ LockInv)
  BY <1>1, TypedInit, TypedStep, LockStep, PTL DEF Spec
<1> QED
  BY <1>2, LocksExclude, PTL
-----------------------------------------------------------------------------
(* No rows between a run's clear and its insert *)

\* the steps of a run after its clear, up to its insert
ClearedPc == {"clearEs", "insert"}

GenInv == \A w \in Workers : wk[w].pc \in ClearedPc => chunks[wk[w].doc] = {}

\* a step that leaves the rows and brings no slot between clear and insert
LEMMA RowsUntouched ==
  ASSUME GenInv, chunks' = chunks,
         \A w \in Workers : wk'[w].pc \in ClearedPc =>
           wk[w].pc \in ClearedPc /\ wk'[w].doc = wk[w].doc
  PROVE  GenInv'
BY DEF GenInv

LEMMA GenWorkerStep ==
  ASSUME Typed, OneWorkerPerDocument, GenInv, NEW w \in Workers,
         WorkerStep(w) \/ StepFails(w) \/ BuildFails(w)
  PROVE  GenInv'
<1> USE DEF Typed, TypeOK, WorkerTypeOK, StoreTypeOK
<1>1. ASSUME NEW p, Goto(w, p), p \notin ClearedPc \/ wk[w].pc \in ClearedPc,
             chunks' = chunks
      PROVE  GenInv'
  BY <1>1, RowsUntouched DEF Goto
<1>2. ASSUME NEW p, NEW q, q \notin ClearedPc,
             StatusStep(w, p, q) \/ assertNotDeleted(w, p, q) \/ Build(w, p, q)
      PROVE  GenInv'
  <2>1. chunks' = chunks
    BY <1>2 DEF StatusStep, assertNotDeleted, Build, indexVars, storeVars
  <2>2. PICK r : r \notin ClearedPc /\ Goto(w, r)
    BY <1>2 DEF StatusStep, assertNotDeleted, Build, Thrown, ClearedPc
  <2> QED
    BY <1>1, <2>1, <2>2
<1>3. ASSUME \/ Fetch(w) \/ Parse(w) \/ ClearEs(w) \/ PurgeEs(w) \/ PurgeGraph(w)
             \/ PurgeObject(w)
      PROVE  GenInv'
  <2>1. chunks' = chunks
    BY <1>3 DEF Fetch, Parse, ClearEs, PurgeEs, PurgeGraph, PurgeObject, storeVars,
                indexVars
  <2> QED
    BY <1>1, <1>3, <2>1 DEF Fetch, Parse, ClearEs, PurgeEs, PurgeGraph, PurgeObject,
                            Runs, ClearedPc
<1>4. ASSUME Load(w) \/ IndexDone(w) \/ StepFails(w) PROVE GenInv'
  <2>1. chunks' = chunks
    BY <1>4 DEF Load, IndexDone, StepFails, storeVars, indexVars
  <2>2. PICK p \in {"esIndex", "graphing", "failing", "nack"} :
          \E left, pub : GotoWith(w, p, left, pub)
    BY <1>4 DEF Load, IndexDone, StepFails, Thrown
  <2> QED
    BY <2>1, <2>2, RowsUntouched DEF GotoWith, ClearedPc
<1>5. ASSUME IndexChunk(w) PROVE GenInv'
  BY <1>5, RowsUntouched DEF IndexChunk, Runs, ClearedPc
<1>6. ASSUME Ack(w) \/ Nack(w) PROVE GenInv'
  BY <1>6, RowsUntouched DEF Ack, Nack, storeVars, indexVars, Free, ClearedPc
<1>7. ASSUME ClearChunks(w) \/ PurgeChunks(w) \/ Insert(w) PROVE GenInv'
  <2> DEFINE d == wk[w].doc
  <2>1. wk[w].pc # "idle" /\ d \in Docs
    BY <1>7 DEF ClearChunks, PurgeChunks, Insert, Runs, WkDocs
  <2>2. ASSUME NEW v \in Workers, v # w, wk[v].pc \in ClearedPc PROVE wk[v].doc # d
    BY <2>1, <2>2 DEF OneWorkerPerDocument, ClearedPc
  <2>3. \A v \in Workers \ {w} : wk'[v] = wk[v]
    BY <1>7 DEF ClearChunks, PurgeChunks, Insert, Goto
  <2>4. \A e \in Docs \ {d} : chunks'[e] = chunks[e]
    BY <1>7 DEF ClearChunks, PurgeChunks, Insert, JobDoc
  <2>5. wk'[w].pc \in ClearedPc => wk'[w].doc = d /\ chunks'[d] = {}
    BY <1>7, <2>1 DEF ClearChunks, PurgeChunks, Insert, JobDoc, Goto, ClearedPc
  <2>6. ASSUME NEW v \in Workers, wk'[v].pc \in ClearedPc
        PROVE  chunks'[wk'[v].doc] = {}
    <3>1. CASE v = w
      BY <2>5, <2>6, <3>1
    <3>2. CASE v # w
      BY <2>2, <2>3, <2>4, <2>6, <3>2 DEF GenInv, WkDocs, ClearedPc
    <3> QED
      BY <3>1, <3>2
  <2> QED
    BY <2>6 DEF GenInv
<1>8. CASE \/ StatusStep(w, "parsing", "parse")
           \/ StatusStep(w, "chunking", "indexing")
           \/ StatusStep(w, "chunking", "failing")
           \/ StatusStep(w, "indexing", "check2")
           \/ StatusStep(w, "graphing", "check3")
           \/ StatusStep(w, "ready", "ack")
           \/ StatusStep(w, "gGraphing", "gBuild")
           \/ StatusStep(w, "gReady", "ack")
           \/ StatusStep(w, "failing", "nack")
           \/ assertNotDeleted(w, "check1", "chunking")
           \/ assertNotDeleted(w, "check2", "clear")
           \/ assertNotDeleted(w, "check3", "build")
           \/ assertNotDeleted(w, "check4", "ready")
           \/ Build(w, "build", "check4")
           \/ Build(w, "gBuild", "gReady")
  <2>1. PICK q : /\ q \notin ClearedPc
                 /\ \E p : \/ StatusStep(w, p, q)
                          \/ assertNotDeleted(w, p, q)
                          \/ Build(w, p, q)
    BY <1>8 DEF ClearedPc
  <2> QED
    BY <1>2, <2>1
<1>9. ASSUME BuildFails(w) PROVE GenInv'
  BY <1>1, <1>9 DEF BuildFails, Thrown, ClearedPc
<1> QED
  BY <1>3, <1>4, <1>5, <1>6, <1>7, <1>8, <1>9, ChunkSteps DEF WorkerStep

LEMMA GenStep ==
  ASSUME Typed, OneWorkerPerDocument, GenInv, [Next]_vars
  PROVE  GenInv'
<1>1. CASE ApiNext /\ UNCHANGED <<wk, crashes>>
  <2>1. CASE chunks' = chunks
    BY <1>1, <2>1, RowsUntouched
  <2>2. CASE \E r \in Reqs : CompleteDropRow(r)
    BY <1>1, <2>2 DEF CompleteDropRow, GenInv, Typed, TypeOK, StoreTypeOK
  <2>3. chunks' = chunks \/ \E r \in Reqs : CompleteDropRow(r)
    BY <1>1 DEF ApiNext, uploadInit, Start, uploadComplete, review, reindex,
         removeDocument, publish, Begin, RequestStep, PublishEsFails, RequestFails,
         CompleteMerge, CompletePut, CompleteDup, CompleteDrop,
         CompleteHash, CompleteSubmit, ReviewStatus, ReindexStatus, Enqueue,
         RemoveSave, RemoveGetState, RemoveCancel, PublishFlag, PublishEs,
         PublishRestore, storeVars, indexVars
  <2> QED
    BY <2>1, <2>2, <2>3
<1>2. CASE \E w \in Workers : WorkerStep(w) \/ StepFails(w) \/ BuildFails(w)
  BY <1>2, GenWorkerStep
<1>3. CASE \E w \in Workers, d \in Docs : Claim(w, d)
  <2>1. chunks' = chunks
    BY <1>3 DEF Claim, storeVars, indexVars
  <2> QED
    BY <1>3, <2>1, RowsUntouched DEF Claim, ClearedPc, Typed, TypeOK, WorkerTypeOK
<1>4. CASE \/ \E d \in Docs : StalledCheck(d)
           \/ OtherFinishes /\ UNCHANGED <<storeVars, wk, crashes>>
           \/ UNCHANGED vars
  BY <1>4, RowsUntouched DEF StalledCheck, vars, sysVars, storeVars, indexVars
<1>5. CASE Crash
  BY <1>5, RowsUntouched DEF Crash, Free, ClearedPc, storeVars, indexVars
<1> QED
  BY <1>1, <1>2, <1>3, <1>4, <1>5 DEF Next, Step, WorkerNext

\* indexChunks clears, then embeds for minutes, then inserts; nobody brings
\* rows in between, so the insert never meets those of another run.
THEOREM ClearedUntilInsert == Spec => []InsertFindsNoRows
<1>1. Init => GenInv
  BY DEF Init, WorkerInit, Free, GenInv, ClearedPc
<1>2. Spec => [](Typed /\ LockInv)
  <2>1. Init => LockInv
    BY DEF Init, WorkerInit, Free, LockInv
  <2> QED
    BY <2>1, TypedInit, TypedStep, LockStep, PTL DEF Spec
<1>3. Typed /\ LockInv /\ GenInv /\ [Next]_vars => GenInv'
  BY GenStep, LocksExclude
<1>4. Spec => []GenInv
  BY <1>1, <1>2, <1>3, PTL DEF Spec
<1>5. GenInv => InsertFindsNoRows
  BY DEF GenInv, InsertFindsNoRows, ClearedPc
<1> QED
  BY <1>4, <1>5, PTL
-----------------------------------------------------------------------------
(* What READY promises: always a graph of its chunks, and an index of them    *)
(* where every run is a whole one                                            *)

IndexOnly == /\ \A d \in Docs : jobs[d].from = "index"
             /\ \A r \in Reqs : req[r].arg # "graph"

LEMMA RetireFrom ==
  ASSUME Typed, IndexOnly, NEW d \in Docs, NEW s, Retire(d, s)
  PROVE  \A e \in Docs : jobs'[e].from = "index"
BY DEF Retire, NoJob, IndexOnly, Typed, TypeOK, QueueTypeOK

\* no other request than one for the graph alone queues a job for it
LEMMA IndexOnlyStep ==
  ASSUME "graph" \notin Ops, Typed, IndexOnly, [Next]_vars
  PROVE  IndexOnly'
<1> USE DEF Typed, TypeOK, QueueTypeOK
<1>1. \A r \in Reqs : req'[r].arg # "graph"
  <2>1. CASE req' = req
    BY <2>1 DEF IndexOnly
  <2>2. ASSUME NEW r \in Reqs, \/ \E p : Then(r, p)
                               \/ Answer(r)
                               \/ \E d, op, p : Begin(r, d, op, p)
        PROVE  \A q \in Reqs : req'[q].arg # "graph"
    <3>1. CASE \E p : Then(r, p)
      BY <3>1 DEF Then, IndexOnly, ReqTypeOK
    <3>2. CASE Answer(r)
      BY <3>2 DEF Answer, Idle, IndexOnly, ReqTypeOK
    <3>3. CASE \E d, op, p : Begin(r, d, op, p)
      BY <3>3 DEF Begin, IndexOnly, ReqTypeOK
    <3> QED
      BY <2>2, <3>1, <3>2, <3>3
  <2>3. \/ req' = req
        \/ \E r \in Reqs : \/ \E p : Then(r, p)
                           \/ Answer(r)
                           \/ \E d, op, p : Begin(r, d, op, p)
    <3>1. CASE \E r \in Reqs, d \in Docs : Start(r, d)
      BY <3>1 DEF Start, uploadComplete, review, reindex, removeDocument, publish
    <3>2. CASE \E r \in Reqs : RequestStep(r) \/ PublishEsFails(r) \/ RequestFails(r)
      BY <3>2 DEF RequestStep, PublishEsFails, RequestFails,
           CompleteMerge, CompletePut, CompleteDup, CompleteDrop, CompleteDropRow,
           CompleteHash, CompleteSubmit, ReviewStatus, ReindexStatus, Enqueue,
           RemoveSave, RemoveGetState, RemoveCancel, PublishFlag, PublishEs,
           PublishRestore
    <3>3. CASE (\E d \in Docs : uploadInit(d)) \/ UNCHANGED req
      BY <3>3 DEF uploadInit
    <3> QED
      BY <3>1, <3>2, <3>3 DEF Next, Step, ApiNext, vars, sysVars
  <2> QED
    BY <2>1, <2>2, <2>3
<1>2. \A d \in Docs : jobs'[d].from = "index"
  <2>1. ASSUME jobs' = jobs PROVE \A d \in Docs : jobs'[d].from = "index"
    BY <2>1 DEF IndexOnly
  <2>2. ASSUME NEW d \in Docs, enqueue(d, "index")
        PROVE  \A e \in Docs : jobs'[e].from = "index"
    BY <2>2 DEF enqueue, IndexOnly, NoJob
  <2>3. ASSUME NEW d \in Docs, remove(d) PROVE \A e \in Docs : jobs'[e].from = "index"
    BY <2>3 DEF remove, IndexOnly, NoJob, Job
  <2>4. ASSUME NEW d \in Docs, NEW w \in Workers, Take(w, d)
        PROVE  \A e \in Docs : jobs'[e].from = "index"
    BY <2>4 DEF Take, IndexOnly, Job
  <2>5. ASSUME NEW d \in Docs, FailAttempt(d) \/ Complete(d) \/ RecoverStalled(d)
        PROVE  \A e \in Docs : jobs'[e].from = "index"
    <3>1. CASE \E s : Retire(d, s)
      BY <3>1, RetireFrom
    <3>2. CASE \/ jobs' = [jobs EXCEPT ![d].state = "pending", ![d].made = @ + 1,
                                        ![d].owner = NoWorker]
               \/ jobs' = [jobs EXCEPT ![d].state = "pending", ![d].stalls = @ + 1]
      BY <3>2 DEF IndexOnly, Job
    <3> QED
      BY <2>5, <3>1, <3>2 DEF FailAttempt, Complete, RecoverStalled
  <2>6. ASSUME OtherFinishes PROVE \A e \in Docs : jobs'[e].from = "index"
    BY <2>6 DEF OtherFinishes, IndexOnly, NoJob
  <2>7. ASSUME ReleaseLocks PROVE \A e \in Docs : jobs'[e].from = "index"
    BY <2>7 DEF ReleaseLocks, IndexOnly, Job
  <2>8. CASE ApiNext
    <3>1. \/ jobs' = jobs
          \/ \E r \in Reqs : Enqueue(r) \/ RemoveCancel(r)
      BY <2>8 DEF ApiNext, uploadInit, Start, uploadComplete, review, reindex,
         removeDocument, publish, Begin, RequestStep, PublishEsFails, RequestFails,
         CompleteMerge, CompletePut, CompleteDup, CompleteDrop, CompleteDropRow,
         CompleteHash, CompleteSubmit, ReviewStatus, ReindexStatus, RemoveSave,
         RemoveGetState, PublishFlag, PublishEs, PublishRestore
    <3>2. ASSUME NEW r \in Reqs, Enqueue(r) \/ RemoveCancel(r)
          PROVE  req[r].doc \in Docs /\ (enqueue(req[r].doc, "index") \/ remove(req[r].doc))
      BY <3>2 DEF Enqueue, RemoveCancel, At, ReqDocs, IndexOnly
    <3> QED
      BY <2>1, <2>2, <2>3, <3>1, <3>2
  <2>9. CASE \E w \in Workers : WorkerStep(w) \/ StepFails(w) \/ BuildFails(w)
    <3>1. ASSUME NEW w \in Workers, Ack(w) \/ Nack(w)
          PROVE  wk[w].doc \in Docs /\ (Complete(wk[w].doc) \/ FailAttempt(wk[w].doc))
      BY <3>1 DEF Ack, Nack, Runs, JobDoc, WkDocs
    <3>2. jobs' = jobs \/ \E w \in Workers : Ack(w) \/ Nack(w)
      BY <2>9, StepRunsOn DEF RunsOn
    <3> QED
      BY <2>1, <2>5, <3>1, <3>2
  <2> QED
    BY <2>1, <2>4, <2>5, <2>6, <2>7, <2>8, <2>9
    DEF Next, Step, WorkerNext, Claim, StalledCheck, Crash, vars, sysVars
<1> QED
  BY <1>1, <1>2 DEF IndexOnly

\* neither deleted nor, as a duplicate, removed: no document comes back from that
Alive(d) == status[d] # "gone" /\ ~deleted[d]

Found(d, g, p) == \E c \in es[d] : c.gen = g /\ c.part = p
Indexed(d)   == chunks[d] # {} /\ \A g \in chunks[d], p \in Parts : Found(d, g, p)
Clean(d)       == faults = 0 => \A c \in es[d] : c.gen \in chunks[d]
Matches(d)     == graphJob[d] = "done" /\ GraphUp => graph[d] = chunks[d]

\* the steps of a run from where its status is certain, those after its
\* chunks are indexed, and those after its graph is built
BuiltPc   == {"check4", "ready", "gReady"}
IndexedPc == {"graphing", "check3", "build", "check4", "ready"}
WritingPc == {"check2", "clear", "clearEs", "insert", "load", "esIndex", "gBuild"}
             \union IndexedPc \union BuiltPc

\* what a run that is at pc has done for its document
Achieved(d, pc, left) ==
  /\ pc \in WritingPc => status[d] # "READY"
  /\ pc = "insert" => (faults = 0 => es[d] = {})
  /\ pc \in {"load", "esIndex"} => chunks[d] # {} /\ Clean(d)
  /\ pc = "esIndex" =>
       /\ left \subseteq chunks[d] \X Parts
       /\ \A g \in chunks[d], p \in Parts : <<g, p>> \in left \/ Found(d, g, p)
  /\ pc \in IndexedPc => Indexed(d) /\ Clean(d)
  /\ pc \in BuiltPc => Matches(d)

RunDoes(w) ==
  /\ wk[w].pc \in GraphPc => "graph" \in Ops
  /\ wk[w].pc \in PurgePc => deleted[wk[w].doc]
  /\ wk[w].pc # "idle" /\ Alive(wk[w].doc) => Achieved(wk[w].doc, wk[w].pc, wk[w].left)

RunsDo == \A w \in Workers : RunDoes(w)

ReadyAt(d) == Alive(d) /\ status[d] = "READY" =>
                /\ Matches(d)
                /\ "graph" \notin Ops => Indexed(d) /\ Clean(d)
ReadyIs    == \A d \in Docs : ReadyAt(d)

PromiseInv == ("graph" \notin Ops => IndexOnly) /\ RunsDo /\ ReadyIs

\* a step leaves what has been achieved for d as it was
Kept(d) ==
  /\ deleted[d] => deleted'[d]
  /\ Alive(d)' =>
       /\ Alive(d)
       /\ status'[d] = "READY" => status[d] = "READY"
       /\ UNCHANGED <<chunks[d], graph[d], graphJob[d]>>
       /\ \A g, p : Found(d, g, p)' <=> Found(d, g, p)
       /\ faults' = 0 => faults = 0

LEMMA KeptClean ==
  ASSUME Typed, Typed', NEW d \in Docs, Kept(d), Alive(d)', Clean(d) PROVE Clean(d)'
<1>1. SUFFICES ASSUME faults' = 0, NEW c \in es'[d] PROVE c.gen \in chunks'[d]
  BY DEF Clean
<1>2. Found(d, c.gen, c.part)'
  BY DEF Found
<1>3. Found(d, c.gen, c.part) /\ faults = 0 /\ chunks'[d] = chunks[d]
  BY <1>1, <1>2 DEF Kept
<1> QED
  BY <1>3 DEF Found, Clean

LEMMA KeptEmpty ==
  ASSUME Typed, Typed', NEW d \in Docs, Kept(d), Alive(d)', es[d] = {} PROVE es'[d] = {}
<1>1. SUFFICES ASSUME NEW c \in es'[d] PROVE FALSE
  OBVIOUS
<1>2. Found(d, c.gen, c.part)'
  BY DEF Found
<1> QED
  BY <1>2 DEF Kept, Found

\* so a run that does not move has done what it had, and a document that was
\* READY is what it was
LEMMA KeptAchieved ==
  ASSUME Typed, Typed', NEW d \in Docs, Kept(d), Alive(d)',
         NEW pc, NEW left, Achieved(d, pc, left)
  PROVE  Achieved(d, pc, left)'
<1>1. /\ status'[d] = "READY" => status[d] = "READY"
      /\ UNCHANGED <<chunks[d], graph[d], graphJob[d]>>
      /\ \A g, p : Found(d, g, p)' <=> Found(d, g, p)
      /\ faults' = 0 => faults = 0
  BY DEF Kept
<1>2. Clean(d) => Clean(d)'
  BY KeptClean
<1>3. Indexed(d) => Indexed(d)'
  BY <1>1 DEF Indexed
<1>4. Matches(d) => Matches(d)'
  BY <1>1 DEF Matches
<1>5. es[d] = {} => es'[d] = {}
  BY KeptEmpty
<1> QED
  BY <1>1, <1>2, <1>3, <1>4, <1>5 DEF Achieved

LEMMA KeptReady ==
  ASSUME Typed, Typed', NEW d \in Docs, Kept(d), ReadyAt(d) PROVE ReadyAt(d)'
<1>1. SUFFICES ASSUME Alive(d)', status'[d] = "READY"
      PROVE  Matches(d)' /\ ("graph" \notin Ops => Indexed(d)' /\ Clean(d)')
  BY DEF ReadyAt
<1>2. Alive(d) /\ status[d] = "READY"
  BY <1>1 DEF Kept
<1>3. Clean(d) => Clean(d)'
  BY <1>1, KeptClean
<1>4. (Indexed(d) => Indexed(d)') /\ (Matches(d) => Matches(d)')
  BY <1>1 DEF Kept, Indexed, Matches
<1> QED
  BY <1>2, <1>3, <1>4 DEF ReadyAt

\* no run moves but to its start or its end, and nothing achieved is touched
LEMMA PromiseKept ==
  ASSUME Typed, Typed', RunsDo, ReadyIs, \A d \in Docs : Kept(d),
         \A w \in Workers : wk'[w] = wk[w] \/ wk'[w].pc \in {"idle", "fetch"}
  PROVE  RunsDo' /\ ReadyIs'
<1>1. ASSUME NEW w \in Workers PROVE RunDoes(w)'
  <2>1. CASE wk'[w].pc \in {"idle", "fetch"}
    BY <2>1 DEF RunDoes, Achieved, WritingPc, IndexedPc, BuiltPc, GraphPc, PurgePc
  <2>2. CASE wk'[w] = wk[w] /\ wk[w].pc # "idle"
    <3> DEFINE d == wk[w].doc
    <3>1. d \in Docs /\ Kept(d) /\ RunDoes(w)
      BY <2>2 DEF Typed, WkDocs, RunsDo
    <3>2. ASSUME Alive(d)' PROVE Achieved(d, wk[w].pc, wk[w].left)'
      <4>1. wk'[w] = wk[w] /\ Alive(wk[w].doc)'
        BY <2>2, <3>2
      <4>2. Achieved(d, wk[w].pc, wk[w].left)
        BY <2>2, <3>1, <4>1 DEF Kept, RunDoes
      <4> QED
        BY <3>1, <4>1, <4>2, KeptAchieved
    <3>3. wk'[w].pc \in PurgePc => deleted'[wk'[w].doc]
      BY <2>2, <3>1 DEF RunDoes, Kept
    <3>4. wk'[w].pc \in GraphPc => "graph" \in Ops
      BY <2>2, <3>1 DEF RunDoes
    <3> HIDE DEF d
    <3> QED
      BY <3>2, <3>3, <3>4 DEF RunDoes, d
  <2> QED
    BY <2>1, <2>2
<1>2. ReadyIs'
  <2>1. SUFFICES ASSUME NEW d \in Docs PROVE ReadyAt(d)'
    BY DEF ReadyIs
  <2> QED
    BY <2>1, KeptReady DEF ReadyIs
<1>3. RunsDo'
  BY <1>1 DEF RunsDo
<1> QED
  BY <1>2, <1>3

\* a step that leaves the index and faults, and makes nothing READY or undeleted
LEMMA StoresKept ==
  ASSUME Typed, NEW d \in Docs, UNCHANGED <<chunks[d], es[d], graph[d], graphJob[d]>>,
         faults' = 0 => faults = 0, deleted[d] => deleted'[d],
         status'[d] \in {status[d], "UPLOADED", "PARSING", "CHUNKING", "INDEXING",
                        "GRAPHING", "FAILED", "PENDING_REVIEW", "REJECTED"} \/ deleted'[d],
         status'[d] # status[d] => status[d] # "gone" \/ deleted'[d]
  PROVE  Kept(d)
<1>1. \A g, p : Found(d, g, p)' <=> Found(d, g, p)
  BY DEF Found
<1>2. Alive(d)' => Alive(d)
  BY DEF Alive
<1>3. Alive(d)' /\ status'[d] = "READY" => status[d] = "READY"
  BY DEF Alive
<1> QED
  BY <1>1, <1>2, <1>3 DEF Kept

LEMMA ApiKeeps ==
  ASSUME Typed, ApiNext, NEW d \in Docs PROVE Kept(d)
<1> USE DEF Typed, TypeOK, StoreTypeOK, storeVars, rowVars, blobVars, indexVars
<1>1. ASSUME UNCHANGED <<chunks, es, graph, graphJob, faults, deleted>>, NEW e, NEW t,
             t \in {"PARSING", "INDEXING", "PENDING_REVIEW", "REJECTED"}, transition(e, t)
      PROVE  Kept(d)
  <2>1. status'[d] = status[d] \/ (status'[d] = t /\ status[d] # "gone")
    BY <1>1 DEF transition, NoRow
  <2> QED
    BY <1>1, <2>1, StoresKept
<1>2. ASSUME UNCHANGED <<chunks, es, graph, graphJob, deleted, status>>, faults' = 0 => faults = 0
      PROVE  Kept(d)
  BY <1>2, StoresKept
<1>3. ASSUME NEW e \in Docs, uploadInit(e) PROVE Kept(d)
  BY <1>3, StoresKept DEF uploadInit
<1>4. ASSUME NEW r \in Reqs, NEW e \in Docs, Start(r, e) PROVE Kept(d)
  BY <1>2, <1>4 DEF Start, uploadComplete, review, reindex, removeDocument, publish, Begin
<1>5. ASSUME NEW r \in Reqs, CompleteSubmit(r) \/ ReviewStatus(r) \/ ReindexStatus(r)
      PROVE  Kept(d)
  BY <1>1, <1>5 DEF CompleteSubmit, ReviewStatus, ReindexStatus
<1>6. ASSUME Fault("api") PROVE faults' = 0 => faults = 0
  BY <1>6 DEF Fault
<1>7. ASSUME NEW r \in Reqs,
             \/ CompleteMerge(r) \/ CompletePut(r) \/ CompleteDup(r) \/ CompleteDrop(r)
             \/ CompleteHash(r) \/ Enqueue(r) \/ RemoveGetState(r) \/ RemoveCancel(r)
             \/ PublishFlag(r) \/ PublishRestore(r) \/ RequestFails(r)
      PROVE  Kept(d)
  BY <1>2, <1>6, <1>7 DEF CompleteMerge, CompletePut, CompleteDup, CompleteDrop, CompleteHash,
       Enqueue, RemoveGetState, RemoveCancel, PublishFlag, PublishRestore, RequestFails
<1>8. ASSUME NEW r \in Reqs, RemoveSave(r) PROVE Kept(d)
  <2>1. /\ UNCHANGED <<chunks, es, graph, graphJob, faults>>
        /\ deleted' = [deleted EXCEPT ![req[r].doc] = TRUE]
        /\ status' = [status EXCEPT ![req[r].doc] = req[r].readStatus]
    BY <1>8 DEF RemoveSave
  <2> QED
    BY <2>1, StoresKept
<1>9. ASSUME NEW r \in Reqs, CompleteDropRow(r) PROVE Kept(d)
  <2>1. CASE d = req[r].doc
    BY <1>9, <2>1 DEF CompleteDropRow, Kept, Alive
  <2>2. CASE d # req[r].doc
    BY <1>9, <2>2, StoresKept DEF CompleteDropRow
  <2> QED
    BY <2>1, <2>2
<1>10. ASSUME NEW r \in Reqs, PublishEs(r) \/ PublishEsFails(r) PROVE Kept(d)
  <2>1. CASE UNCHANGED es
    BY <1>2, <1>6, <1>10, <2>1 DEF PublishEs, PublishEsFails
  <2>2. CASE \E e, flag : setCompanyPublic(e, flag)
    <3>1. \A g, p : Found(d, g, p)' <=> Found(d, g, p)
      <4>1. PICK e, flag : es' = [es EXCEPT ![e] = {[c EXCEPT !.pub = flag] : c \in @}]
        BY <2>2 DEF setCompanyPublic
      <4>2. CASE e # d
        BY <4>1, <4>2 DEF Found
      <4>3. CASE e = d
        <5> DEFINE flagged(c) == [c EXCEPT !.pub = flag]
        <5>1. es'[d] = {flagged(c) : c \in es[d]}
          BY <4>1, <4>3
        <5>2. \A c \in es[d] : flagged(c).gen = c.gen /\ flagged(c).part = c.part
          BY DEF EsChunk
        <5> HIDE DEF flagged
        <5> QED
          BY <5>1, <5>2 DEF Found
      <4> QED
        BY <4>2, <4>3
    <3>2. UNCHANGED <<chunks, graph, graphJob, deleted, status>> /\ (faults' = 0 => faults = 0)
      BY <1>6, <1>10 DEF PublishEs, PublishEsFails
    <3> QED
      BY <3>1, <3>2 DEF Kept, Alive
  <2> QED
    BY <1>10, <2>1, <2>2 DEF PublishEs, PublishEsFails
<1> QED
  BY <1>3, <1>4, <1>5, <1>7, <1>8, <1>9, <1>10 DEF ApiNext, RequestStep

\* a run moves on to p: no other run has its document
LEMMA RunMoves ==
  ASSUME Typed, Typed', OneWorkerPerDocument, RunsDo, ReadyIs, NEW w \in Workers, RunsOn(w),
         NEW d \in Docs, wk[w].doc = d, \A e \in Docs \ {d} : Kept(e),
         NEW p, NEW left, wk'[w].pc = p, wk'[w].left = left,
         p \in GraphPc => "graph" \in Ops, p \in PurgePc => deleted'[d],
         Alive(d)' => Achieved(d, p, left)', ReadyAt(d)'
  PROVE  RunsDo' /\ ReadyIs'
<1>1. RunDoes(w)'
  <2>1. wk'[w].doc = d
    BY DEF RunsOn
  <2> QED
    BY <2>1 DEF RunDoes
<1>2. ASSUME NEW v \in Workers \ {w} PROVE RunDoes(v)'
  <2>1. wk'[v] = wk[v] /\ RunDoes(v)
    BY DEF RunsOn, RunsDo
  <2>2. CASE wk[v].pc = "idle"
    BY <2>1, <2>2 DEF RunDoes, GraphPc, PurgePc
  <2>3. CASE wk[v].pc # "idle"
    <3>1. wk[v].doc \in Docs \ {d}
      BY <2>3 DEF OneWorkerPerDocument, RunsOn, Typed, WkDocs
    <3>2. Kept(wk[v].doc)
      BY <3>1
    <3>3. ASSUME Alive(wk[v].doc)' PROVE Achieved(wk[v].doc, wk[v].pc, wk[v].left)'
      <4>1. Achieved(wk[v].doc, wk[v].pc, wk[v].left)
        BY <2>1, <2>3, <3>2, <3>3 DEF RunDoes, Kept
      <4> QED
        BY <2>1, <3>1, <3>2, <3>3, <4>1, KeptAchieved
    <3>4. wk'[v].pc \in PurgePc => deleted'[wk'[v].doc]
      BY <2>1, <3>2 DEF RunDoes, Kept
    <3>5. wk'[v].pc \in GraphPc => "graph" \in Ops
      BY <2>1 DEF RunDoes
    <3> QED
      BY <3>3, <3>4, <3>5 DEF RunDoes
  <2> QED
    BY <2>2, <2>3
<1>3. RunsDo'
  BY <1>1, <1>2 DEF RunsDo
<1>4. ASSUME NEW e \in Docs \ {d} PROVE ReadyAt(e)'
  BY <1>4, KeptReady DEF ReadyIs
<1> QED
  BY <1>3, <1>4 DEF ReadyIs

\* a step that only looks
LEMMA RunLooks ==
  ASSUME Typed, Typed', OneWorkerPerDocument, RunsDo, ReadyIs, NEW w \in Workers, RunsOn(w),
         NEW d \in Docs, wk[w].doc = d, UNCHANGED storeVars,
         NEW p, NEW left, wk'[w].pc = p, wk'[w].left = left,
         p \in GraphPc => "graph" \in Ops, p \in PurgePc => deleted[d], Alive(d) => Achieved(d, p, left)
  PROVE  RunsDo' /\ ReadyIs'
<1>1. UNCHANGED <<status, deleted, chunks, es, graph, graphJob, faults>>
  BY DEF storeVars, rowVars, indexVars
<1>2. \A e \in Docs : Kept(e)
  BY <1>1, StoresKept
<1>3. Alive(d)' => Alive(d)
  BY <1>1 DEF Alive
<1>4. Alive(d)' => Achieved(d, p, left)'
  BY <1>2, <1>3, KeptAchieved
<1>5. ReadyAt(d)'
  BY <1>1 DEF ReadyIs, ReadyAt, Alive, Indexed, Clean, Matches, Found
<1> QED
  BY <1>1, <1>2, <1>4, <1>5, RunMoves

LEMMA LookingSteps ==
  ASSUME Typed, Typed', OneWorkerPerDocument, "graph" \notin Ops => IndexOnly, RunsDo, ReadyIs,
         NEW w \in Workers,
         RunsOn(w), \/ Fetch(w) \/ Parse(w) \/ Load(w) \/ IndexDone(w)
                    \/ assertNotDeleted(w, "check1", "chunking")
                    \/ assertNotDeleted(w, "check2", "clear")
                    \/ assertNotDeleted(w, "check3", "build")
                    \/ assertNotDeleted(w, "check4", "ready")
  PROVE  RunsDo' /\ ReadyIs'
<1> DEFINE d == wk[w].doc
<1>0. /\ d \in Docs /\ wk[w].pc # "idle" /\ RunDoes(w)
      /\ Alive(d) => Achieved(d, wk[w].pc, wk[w].left)
  BY DEF RunsOn, Typed, WkDocs, RunsDo, RunDoes
<1>1. wk \in [Workers -> [pc : WkPc, doc : Docs \union {NoJobDoc},
                          left : SUBSET (Gens \X Parts), pub : BOOLEAN]]
  BY DEF Typed, TypeOK, WorkerTypeOK
<1>2. UNCHANGED storeVars
  BY DEF Fetch, Parse, Load, IndexDone, assertNotDeleted
<1>3. ASSUME NEW p, Goto(w, p), p \in GraphPc => "graph" \in Ops, p \in PurgePc => deleted[d],
             Alive(d) => Achieved(d, p, wk[w].left)
      PROVE  RunsDo' /\ ReadyIs'
  <2>1. wk'[w].pc = p /\ wk'[w].left = wk[w].left
    BY <1>1, <1>3 DEF Goto
  <2> QED
    BY <1>0, <1>2, <1>3, <2>1, RunLooks
<1>4. ASSUME NEW p \in {"ack", "parsing", "purge", "failing", "check1", "chunking"}, NEW left
      PROVE  Achieved(d, p, left) /\ p \notin GraphPc
  BY DEF Achieved, GraphPc, WritingPc, IndexedPc, BuiltPc
<1>5. CASE Fetch(w)
  <2>1. PICK p \in {"ack", "parsing", "purge", "gGraphing"} :
          Goto(w, p) /\ (p = "purge" => deleted[d]) /\ (p = "gGraphing" => "graph" \in Ops)
    BY <1>0, <1>5 DEF Fetch, JobDoc, IndexOnly
  <2>2. Achieved(d, "gGraphing", wk[w].left)
    BY DEF Achieved, WritingPc, IndexedPc, BuiltPc
  <2> QED
    BY <1>3, <1>4, <2>1, <2>2 DEF PurgePc, GraphPc
<1>6. CASE Parse(w)
  BY <1>3, <1>4, <1>6 DEF Parse, PurgePc
<1>7. CASE assertNotDeleted(w, "check1", "chunking")
  BY <1>3, <1>4, <1>7 DEF assertNotDeleted, PurgePc
<1>8. ASSUME NEW p, NEW q, assertNotDeleted(w, p, q), q \notin GraphPc \union PurgePc,
             Achieved(d, p, wk[w].left) => Achieved(d, q, wk[w].left)
      PROVE  RunsDo' /\ ReadyIs'
  <2>1. Alive(d) => Achieved(d, q, wk[w].left)
    BY <1>0, <1>8 DEF assertNotDeleted, Runs
  <2>2. Goto(w, q) \/ Goto(w, "failing")
    BY <1>8 DEF assertNotDeleted
  <2> QED
    BY <1>3, <1>4, <1>8, <2>1, <2>2 DEF PurgePc
<1>9. CASE assertNotDeleted(w, "check2", "clear")
  <2>1. Achieved(d, "check2", wk[w].left) => Achieved(d, "clear", wk[w].left)
    BY DEF Achieved, WritingPc, IndexedPc, BuiltPc
  <2> QED
    BY <1>8, <1>9, <2>1 DEF GraphPc, PurgePc
<1>10. CASE assertNotDeleted(w, "check3", "build")
  <2>1. Achieved(d, "check3", wk[w].left) => Achieved(d, "build", wk[w].left)
    BY DEF Achieved, WritingPc, IndexedPc, BuiltPc
  <2> QED
    BY <1>8, <1>10, <2>1 DEF GraphPc, PurgePc
<1>11. CASE assertNotDeleted(w, "check4", "ready")
  <2>1. Achieved(d, "check4", wk[w].left) => Achieved(d, "ready", wk[w].left)
    BY DEF Achieved, WritingPc, IndexedPc, BuiltPc
  <2> QED
    BY <1>8, <1>11, <2>1 DEF GraphPc, PurgePc
<1>12. CASE Load(w)
  <2>1. wk'[w].pc = "esIndex" /\ wk'[w].left = chunks[d] \X Parts
    BY <1>1, <1>12 DEF Load, GotoWith, JobDoc
  <2>2. Achieved(d, "load", wk[w].left) => Achieved(d, "esIndex", chunks[d] \X Parts)
    BY DEF Achieved, WritingPc, IndexedPc, BuiltPc
  <2>3. wk[w].pc = "load"
    BY <1>12 DEF Load, Runs
  <2> QED
    BY <1>0, <1>2, <2>1, <2>2, <2>3, RunLooks DEF GraphPc, PurgePc
<1>13. CASE IndexDone(w)
  <2>1. wk'[w].pc = "graphing" /\ wk'[w].left = {}
    BY <1>1, <1>13 DEF IndexDone, GotoWith
  <2>2. Achieved(d, "esIndex", {}) /\ Clean(d) => Achieved(d, "graphing", {})
    BY DEF Achieved, WritingPc, IndexedPc, BuiltPc, Indexed
  <2>3. wk[w].pc = "esIndex" /\ wk[w].left = {}
    BY <1>13 DEF IndexDone, Runs
  <2>4. Alive(d) => Achieved(d, "graphing", {})
    BY <1>0, <2>2, <2>3 DEF Achieved
  <2> QED
    BY <1>0, <1>2, <2>1, <2>4, RunLooks DEF GraphPc, PurgePc
<1> QED
  BY <1>5, <1>6, <1>7, <1>9, <1>10, <1>11, <1>12, <1>13

\* a step that writes the status: READY at the end of a run that has done it all
LEMMA StatusSteps ==
  ASSUME Typed, Typed', OneWorkerPerDocument, RunsDo, ReadyIs, NEW w \in Workers, RunsOn(w),
         NEW d \in Docs, wk[w].doc = d, NEW p, NEW q, StatusStep(w, p, q),
         <<p, q>> \in {<<"parsing", "parse">>, <<"chunking", "indexing">>,
                                               <<"chunking", "failing">>,
                      <<"indexing", "check2">>, <<"graphing", "check3">>,
                      <<"ready", "ack">>, <<"failing", "nack">>,
                      <<"gGraphing", "gBuild">>, <<"gReady", "ack">>}
  PROVE  RunsDo' /\ ReadyIs'
<1>0. /\ wk[w].pc = p /\ (p \in GraphPc => "graph" \in Ops)
      /\ Alive(d) => Achieved(d, p, wk[w].left)
  BY DEF RunsOn, Typed, WkDocs, RunsDo, RunDoes, StatusStep, Runs
<1>1. /\ wk'[w].pc = q /\ wk'[w].left = wk[w].left
      /\ UNCHANGED <<deleted, chunks, es, graph, graphJob, faults>>
      /\ status' = [status EXCEPT ![d] = IF @ \in NoRow THEN @ ELSE StatusAt[p]]
  BY DEF StatusStep, Goto, indexVars, transition, JobDoc, Typed, TypeOK, WorkerTypeOK
<1>2. /\ status'[d] = IF status[d] \in NoRow THEN status[d] ELSE StatusAt[p]
      /\ \A e \in Docs \ {d} : status'[e] = status[e]
  BY <1>0, <1>1 DEF Typed, TypeOK, StoreTypeOK
<1>3. \A e \in Docs \ {d} : Kept(e)
  BY <1>1, <1>2, StoresKept
<1>4. Alive(d)' => Alive(d)
  BY <1>1, <1>2 DEF Alive, NoRow
<1>5. /\ Indexed(d)' <=> Indexed(d)
      /\ Clean(d)' <=> Clean(d)
      /\ Matches(d)' <=> Matches(d)
  BY <1>1 DEF Indexed, Clean, Matches, Found
<1>6. status'[d] = "READY" => p \in {"ready", "gReady"}
  BY <1>2 DEF StatusAt, NoRow
<1>7. Alive(d)' => Achieved(d, q, wk[w].left)'
  BY <1>0, <1>4, <1>5, <1>6 DEF Achieved, WritingPc, IndexedPc, BuiltPc
<1>8. ReadyAt(d)'
  BY <1>0, <1>4, <1>5, <1>6 DEF ReadyAt, Achieved, IndexedPc, BuiltPc, GraphPc
<1>9. (q \in GraphPc => "graph" \in Ops) /\ q \notin PurgePc
  BY <1>0 DEF GraphPc, PurgePc
<1> QED
  BY <1>1, <1>3, <1>7, <1>8, <1>9, RunMoves

\* a step that changes what is stored of the run's document, or fails
LEMMA WritingSteps ==
  ASSUME Typed, Typed', OneWorkerPerDocument, GenInv, RunsDo, ReadyIs, NEW w \in Workers,
         RunsOn(w), NEW d \in Docs, wk[w].doc = d,
         \/ ClearChunks(w) \/ ClearEs(w) \/ Insert(w) \/ IndexChunk(w)
         \/ Build(w, "build", "check4") \/ Build(w, "gBuild", "gReady")
         \/ PurgeChunks(w) \/ PurgeEs(w) \/ PurgeGraph(w) \/ PurgeObject(w)
         \/ StepFails(w) \/ BuildFails(w)
  PROVE  RunsDo' /\ ReadyIs'
<1> USE DEF JobDoc, Runs, rowVars, blobVars, indexVars
<1>0. /\ Alive(d) => Achieved(d, wk[w].pc, wk[w].left)
      /\ wk[w].pc \in PurgePc => deleted[d]
      /\ (wk[w].pc \in GraphPc => "graph" \in Ops) /\ ReadyAt(d)
  BY DEF RunsOn, RunsDo, RunDoes, ReadyIs
<1>1. wk \in [Workers -> [pc : WkPc, doc : Docs \union {NoJobDoc},
                          left : SUBSET (Gens \X Parts), pub : BOOLEAN]]
      /\ status \in [Docs -> Status] /\ chunks \in [Docs -> SUBSET Gens]
      /\ es \in [Docs -> SUBSET EsChunk] /\ graph \in [Docs -> SUBSET Gens]
      /\ graphJob \in [Docs -> {"none", "done", "failed"}] /\ faults \in Nat
  BY DEF Typed, TypeOK, WorkerTypeOK, StoreTypeOK
<1>2. Fault("worker") => faults' # 0
  BY <1>1 DEF Fault
\* the other documents, when only d's entries change
<1>3. ASSUME UNCHANGED deleted, faults' = 0 => faults = 0,
             \A e \in Docs \ {d} : UNCHANGED <<status[e], chunks[e], es[e], graph[e], graphJob[e]>>
      PROVE  \A e \in Docs \ {d} : Kept(e)
  BY <1>3, StoresKept
<1>4. ASSUME NEW p, NEW left, wk'[w].pc = p, wk'[w].left = left,
             UNCHANGED deleted, faults' = 0 => faults = 0,
             \A e \in Docs \ {d} : UNCHANGED <<status[e], chunks[e], es[e], graph[e], graphJob[e]>>,
             p \in GraphPc => "graph" \in Ops, p \in PurgePc => deleted[d],
             Alive(d)' => Achieved(d, p, left)', ReadyAt(d)'
      PROVE  RunsDo' /\ ReadyIs'
  BY <1>3, <1>4, RunMoves
<1>5. ASSUME NEW p, Goto(w, p) PROVE wk'[w].pc = p /\ wk'[w].left = wk[w].left
  BY <1>1, <1>5 DEF Goto
<1>6. CASE ClearChunks(w)
  <2>1. /\ chunks' = [chunks EXCEPT ![d] = {}] /\ Goto(w, "clearEs")
        /\ UNCHANGED <<status, deleted, es, graph, graphJob, faults>> /\ wk[w].pc = "clear"
    BY <1>6 DEF ClearChunks
  <2>2. Alive(d)' => status'[d] # "READY"
    BY <1>0, <2>1 DEF Alive, Achieved, WritingPc
  <2>3. /\ Alive(d)' => Achieved(d, "clearEs", wk[w].left)'
        /\ ReadyAt(d)'
    BY <2>2 DEF Achieved, ReadyAt, WritingPc, IndexedPc, BuiltPc
  <2> QED
    BY <1>1, <1>4, <1>5, <2>1, <2>3 DEF GraphPc, PurgePc
<1>7. CASE ClearEs(w)
  <2>1. /\ deleteByDocument(d) /\ Goto(w, "insert")
        /\ UNCHANGED <<status, deleted, chunks, graph, graphJob>> /\ wk[w].pc = "clearEs"
    BY <1>7 DEF ClearEs
  <2>2. Alive(d)' => status'[d] # "READY"
    BY <1>0, <2>1 DEF Alive, Achieved, WritingPc
  <2>3. /\ faults' = 0 => faults = 0 /\ es'[d] = {}
        /\ \A e \in Docs \ {d} : es'[e] = es[e]
    BY <1>1, <1>2, <2>1 DEF deleteByDocument
  <2>4. /\ Alive(d)' => Achieved(d, "insert", wk[w].left)'
        /\ ReadyAt(d)'
    BY <2>2, <2>3 DEF Achieved, ReadyAt, WritingPc, IndexedPc, BuiltPc
  <2> QED
    BY <1>4, <1>5, <2>1, <2>3, <2>4 DEF GraphPc, PurgePc
<1>8. CASE Insert(w)
  <2>1. /\ UNCHANGED <<status, deleted, es, graph, graphJob, faults>> /\ wk[w].pc = "insert"
    BY <1>8 DEF Insert
  <2>2. Alive(d)' => status'[d] # "READY" /\ (faults' = 0 => es'[d] = {})
    BY <1>0, <2>1 DEF Alive, Achieved, WritingPc
  <2>3. ReadyAt(d)'
    BY <2>2 DEF ReadyAt
  <2>4. CASE Goto(w, "failing") /\ chunks' = chunks
    <3>1. Achieved(d, "failing", wk[w].left)'
      BY DEF Achieved, WritingPc, IndexedPc, BuiltPc
    <3> QED
      BY <1>4, <1>5, <2>1, <2>3, <2>4, <3>1 DEF GraphPc, PurgePc
  <2>5. CASE Goto(w, "load") /\ \E g : chunks' = [chunks EXCEPT ![d] = {g}]
    <3>1. chunks'[d] # {} /\ \A e \in Docs \ {d} : chunks'[e] = chunks[e]
      BY <1>1, <2>5
    <3>2. Alive(d)' => Achieved(d, "load", wk[w].left)'
      BY <2>2, <3>1 DEF Achieved, WritingPc, IndexedPc, BuiltPc, Clean
    <3> QED
      BY <1>4, <1>5, <2>1, <2>3, <2>5, <3>1, <3>2 DEF GraphPc, PurgePc
  <2> QED
    BY <1>8, <2>4, <2>5 DEF Insert
<1>9. CASE IndexChunk(w)
  <2>1. PICK left : wk[w].left = left
    OBVIOUS
  <2>2. PICK c \in left :
          /\ es' = [es EXCEPT ![d] = @ \union EsOf(c[1], {c[2]}, wk[w].pub)]
          /\ wk' = [wk EXCEPT ![w].left = @ \ {c}]
    BY <1>9, <2>1 DEF IndexChunk
  <2>3. UNCHANGED <<status, deleted, chunks, graph, graphJob, faults>> /\ wk[w].pc = "esIndex"
    BY <1>9 DEF IndexChunk
  <2>4. wk'[w].pc = "esIndex" /\ wk'[w].left = left \ {c}
    BY <1>1, <2>1, <2>2, <2>3
  <2> DEFINE new == [gen |-> c[1], part |-> c[2], pub |-> wk[w].pub]
  <2>5. es'[d] = es[d] \union {new} /\ \A e \in Docs \ {d} : es'[e] = es[e]
    BY <1>1, <2>2 DEF EsOf
  <2>6. new.gen = c[1] /\ new.part = c[2]
    OBVIOUS
  <2> HIDE DEF new
  <2>7. Alive(d)' => Alive(d) /\ Achieved(d, "esIndex", left)
    BY <1>0, <2>1, <2>3 DEF Alive
  <2>8. ASSUME Alive(d)' PROVE Achieved(d, "esIndex", left \ {c})'
    <3>1. c \in chunks[d] \X Parts /\ c = <<c[1], c[2]>>
      BY <2>7, <2>8 DEF Achieved
    <3>2. /\ status'[d] # "READY" /\ chunks'[d] # {} /\ Clean(d)
          /\ \A g \in chunks[d], p \in Parts : <<g, p>> \in left \/ Found(d, g, p)
      BY <2>3, <2>7, <2>8 DEF Achieved, WritingPc
    <3>3. Clean(d)'
      BY <2>3, <2>5, <2>6, <3>1, <3>2 DEF Clean
    <3>4. ASSUME NEW g \in chunks'[d], NEW p \in Parts
          PROVE  <<g, p>> \in left \ {c} \/ Found(d, g, p)'
      <4>1. Found(d, g, p) => Found(d, g, p)'
        BY <2>5 DEF Found
      <4>2. <<g, p>> = c => new.gen = g /\ new.part = p
        BY <2>6, <3>1
      <4>3. <<g, p>> = c => Found(d, g, p)'
        BY <2>5, <4>2 DEF Found
      <4> QED
        BY <2>3, <3>2, <4>1, <4>3
    <3>5. left \ {c} \subseteq chunks'[d] \X Parts
      BY <2>3, <2>7, <2>8 DEF Achieved
    <3> QED
      BY <3>2, <3>3, <3>4, <3>5 DEF Achieved, WritingPc, IndexedPc, BuiltPc
  <2>9. ReadyAt(d)'
    BY <2>3, <2>7 DEF ReadyAt, Achieved, WritingPc
  <2>10. \A e \in Docs \ {d} : UNCHANGED <<status[e], chunks[e], es[e], graph[e], graphJob[e]>>
    BY <2>3, <2>5
  <2> QED
    BY <1>4, <2>3, <2>4, <2>8, <2>9, <2>10 DEF GraphPc, PurgePc
\* what a graph build leaves is d's, and the chunks' when it is recorded as done
<1>10. CASE Build(w, "build", "check4") \/ Build(w, "gBuild", "gReady") \/ BuildFails(w)
  <2>1. PICK b \in {"build", "gBuild"} : wk[w].pc = b /\ (Build(w, b, "check4") \/
          Build(w, b, "gReady") \/ BuildFails(w))
    BY <1>10 DEF Build, BuildFails
  <2>2. PICK p \in {"check4", "gReady", "failing", "nack"} :
          /\ Goto(w, p) /\ (p \in BuiltPc => buildGraph(d) /\ Exists(d))
          /\ p = "check4" => b = "build"
          /\ p = "gReady" => b = "gBuild"
    BY <1>10, <2>1 DEF Build, BuildFails, Thrown, TryPc, BuiltPc
  <2>3. /\ UNCHANGED <<status, deleted, chunks, es>> /\ (faults' = 0 => faults = 0)
        /\ \A e \in Docs \ {d} : UNCHANGED <<graph[e], graphJob[e]>>
    BY <1>1, <1>2, <1>10 DEF Build, BuildFails, buildGraph, BrokenGraph, trackGraph
  <2>4. wk'[w].pc = p /\ wk'[w].left = wk[w].left
    BY <1>5, <2>2
  <2>5. Alive(d)' => /\ status'[d] # "READY"
                     /\ b = "build" => Indexed(d)' /\ Clean(d)'
    BY <1>0, <2>1, <2>3 DEF Alive, Achieved, WritingPc, IndexedPc, Indexed, Clean, Found
  <2>6. p \in BuiltPc => Matches(d)'
    BY <1>1, <2>2, <2>3 DEF buildGraph, trackGraph, Matches
  <2>7. ReadyAt(d)'
    BY <2>5 DEF ReadyAt
  <2>8. Alive(d)' => Achieved(d, p, wk[w].left)'
    BY <2>2, <2>5, <2>6 DEF Achieved, WritingPc, IndexedPc, BuiltPc
  <2>9. (p \in GraphPc => "graph" \in Ops) /\ p \notin PurgePc
    BY <1>0, <2>1, <2>2 DEF GraphPc, PurgePc
  <2> QED
    BY <1>4, <2>3, <2>4, <2>7, <2>8, <2>9
<1>11. CASE PurgeChunks(w) \/ PurgeEs(w) \/ PurgeGraph(w) \/ PurgeObject(w)
  <2>1. /\ UNCHANGED <<status, deleted>> /\ (faults' = 0 => faults = 0)
        /\ wk[w].pc \in PurgePc
        /\ \A e \in Docs \ {d} : UNCHANGED <<chunks[e], es[e], graph[e], graphJob[e]>>
    BY <1>1, <1>2, <1>11
    DEF PurgeChunks, PurgeEs, PurgeGraph, PurgeObject, deleteByDocument, PurgePc
  <2>2. PICK p \in {"purgeEs", "purgeGraph", "purgeObj", "ack"} : Goto(w, p)
    BY <1>11 DEF PurgeChunks, PurgeEs, PurgeGraph, PurgeObject
  <2>3. deleted[d] /\ ~Alive(d)'
    BY <1>0, <2>1 DEF Alive
  <2> QED
    BY <1>4, <1>5, <2>1, <2>2, <2>3 DEF GraphPc, PurgePc, ReadyAt
<1>12. CASE StepFails(w)
  <2>1. PICK p \in {"failing", "nack"} : GotoWith(w, p, {}, FALSE)
    BY <1>12 DEF StepFails, Thrown
  <2>2. wk'[w].pc = p /\ wk'[w].left = {}
    BY <1>1, <2>1 DEF GotoWith
  <2>3. /\ UNCHANGED <<deleted, chunks, es, graph, graphJob>> /\ faults' # 0
        /\ \A e \in Docs \ {d} : status'[e] = status[e]
        /\ \/ status'[d] = status[d]
           \/ status[d] \notin NoRow /\ wk[w].pc \in DOMAIN StatusAt /\ status'[d] = StatusAt[wk[w].pc]
    BY <1>1, <1>2, <1>12 DEF StepFails, transition
  <2>4. ASSUME Alive(d)', status'[d] = "READY"
        PROVE  Matches(d) /\ ("graph" \notin Ops => Indexed(d))
    <3>1. Alive(d) /\ (status[d] = "READY" \/ wk[w].pc \in {"ready", "gReady"})
      BY <2>3, <2>4 DEF Alive, NoRow, StatusAt
    <3> QED
      BY <1>0, <3>1 DEF ReadyAt, Achieved, IndexedPc, BuiltPc, GraphPc
  <2>5. ReadyAt(d)'
    BY <2>3, <2>4 DEF ReadyAt, Indexed, Matches, Clean, Found
  <2>6. Achieved(d, p, {})'
    BY DEF Achieved, WritingPc, IndexedPc, BuiltPc
  <2> QED
    BY <1>4, <2>2, <2>3, <2>5, <2>6 DEF GraphPc, PurgePc
<1> QED
  BY <1>6, <1>7, <1>8, <1>9, <1>10, <1>11, <1>12

LEMMA PromiseStep ==
  ASSUME Typed, LockInv, GenInv, PromiseInv, [Next]_vars
  PROVE  PromiseInv'
<1> USE DEF PromiseInv
<1>0. Typed' /\ ("graph" \notin Ops => IndexOnly') /\ OneWorkerPerDocument
  BY TypedStep, IndexOnlyStep, LocksExclude
<1>1. ASSUME UNCHANGED storeVars, NEW d \in Docs PROVE Kept(d)
  BY <1>1, StoresKept DEF storeVars, rowVars, indexVars
<1>2. CASE ApiNext /\ UNCHANGED <<wk, crashes>>
  BY <1>0, <1>2, ApiKeeps, PromiseKept
<1>3. ASSUME NEW w \in Workers, WorkerStep(w) \/ StepFails(w) \/ BuildFails(w)
      PROVE  RunsDo' /\ ReadyIs'
  <2>1. CASE Ack(w) \/ Nack(w)
    <3>1. UNCHANGED storeVars /\ wk' = [wk EXCEPT ![w] = Free]
      BY <2>1 DEF Ack, Nack
    <3>2. \A v \in Workers : wk'[v] = wk[v] \/ wk'[v].pc \in {"idle", "fetch"}
      BY <3>1 DEF Free, Typed, TypeOK, WorkerTypeOK
    <3> QED
      BY <1>0, <1>1, <3>1, <3>2, PromiseKept
  <2>2. CASE RunsOn(w)
    <3>1. PICK d \in Docs : wk[w].doc = d
      BY <2>2 DEF RunsOn, Typed, WkDocs
    <3>3. CASE \/ Fetch(w) \/ Parse(w) \/ Load(w) \/ IndexDone(w)
               \/ assertNotDeleted(w, "check1", "chunking")
               \/ assertNotDeleted(w, "check2", "clear")
               \/ assertNotDeleted(w, "check3", "build")
               \/ assertNotDeleted(w, "check4", "ready")
      BY <1>0, <2>2, <3>3, LookingSteps
    <3>4. CASE \/ StatusStep(w, "parsing", "parse")
               \/ StatusStep(w, "chunking", "indexing")
               \/ StatusStep(w, "chunking", "failing")
               \/ StatusStep(w, "indexing", "check2")
               \/ StatusStep(w, "graphing", "check3")
               \/ StatusStep(w, "ready", "ack")
               \/ StatusStep(w, "failing", "nack")
               \/ StatusStep(w, "gGraphing", "gBuild")
               \/ StatusStep(w, "gReady", "ack")
      <4>1. PICK p, q : /\ StatusStep(w, p, q)
                        /\ <<p, q>> \in {<<"parsing", "parse">>, <<"chunking", "indexing">>,
                                                                 <<"chunking", "failing">>,
                                        <<"indexing", "check2">>, <<"graphing", "check3">>,
                                        <<"ready", "ack">>, <<"failing", "nack">>,
                                        <<"gGraphing", "gBuild">>, <<"gReady", "ack">>}
        BY <3>4
      <4> QED
        BY <1>0, <2>2, <3>1, <4>1, StatusSteps
    <3>5. CASE \/ ClearChunks(w) \/ ClearEs(w) \/ Insert(w) \/ IndexChunk(w)
               \/ Build(w, "build", "check4") \/ Build(w, "gBuild", "gReady")
               \/ PurgeChunks(w) \/ PurgeEs(w) \/ PurgeGraph(w) \/ PurgeObject(w)
               \/ StepFails(w) \/ BuildFails(w)
      BY <1>0, <2>2, <3>1, <3>5, WritingSteps
    <3> QED
      BY <1>3, <2>1, <3>3, <3>4, <3>5, ChunkSteps DEF WorkerStep
  <2> QED
    BY <1>3, <2>1, <2>2, StepRunsOn
<1>4. ASSUME NEW w \in Workers, NEW d \in Docs, Claim(w, d) PROVE RunsDo' /\ ReadyIs'
  <2>1. \A v \in Workers : wk'[v] = wk[v] \/ wk'[v].pc \in {"idle", "fetch"}
    BY <1>4 DEF Claim, Typed, TypeOK, WorkerTypeOK
  <2> QED
    BY <1>0, <1>1, <1>4, <2>1, PromiseKept DEF Claim
<1>5. CASE \/ \E d \in Docs : StalledCheck(d)
           \/ OtherFinishes /\ UNCHANGED <<storeVars, wk, crashes>>
           \/ UNCHANGED vars
  <2>1. UNCHANGED storeVars /\ wk' = wk
    BY <1>5 DEF StalledCheck, vars, sysVars
  <2> QED
    BY <1>0, <1>1, <2>1, PromiseKept
<1>6. CASE Crash
  <2>1. \A v \in Workers : wk'[v].pc = "idle"
    BY <1>6 DEF Crash, Free
  <2> QED
    BY <1>0, <1>1, <1>6, <2>1, PromiseKept DEF Crash
<1> QED
  BY <1>0, <1>2, <1>3, <1>4, <1>5, <1>6 DEF Next, Step, WorkerNext

LEMMA PromiseInit == Init => PromiseInv
<1> SUFFICES ASSUME Init PROVE PromiseInv
  OBVIOUS
<1>1. IndexOnly
  BY DEF Init, QueueInit, ReqInit, NoJob, Idle, IndexOnly
<1>2. RunsDo
  BY DEF Init, WorkerInit, Free, RunsDo, RunDoes, GraphPc, PurgePc
<1>3. ReadyIs
  BY DEF Init, StoreInit, ReadyIs, ReadyAt
<1> QED
  BY <1>1, <1>2, <1>3 DEF PromiseInv

LEMMA PromiseHolds == Spec => []PromiseInv
<1>1. Spec => [](Typed /\ LockInv /\ GenInv)
  <2>1. Init => LockInv /\ GenInv
    BY DEF Init, WorkerInit, Free, LockInv, GenInv, ClearedPc
  <2>2. Typed /\ LockInv /\ GenInv /\ [Next]_vars => GenInv'
    BY GenStep, LocksExclude
  <2> QED
    BY <2>1, <2>2, TypedInit, TypedStep, LockStep, PTL DEF Spec
<1>2. Typed /\ LockInv /\ GenInv /\ PromiseInv /\ [Next]_vars => PromiseInv'
  BY PromiseStep
<1> QED
  BY <1>1, <1>2, PromiseInit, PTL DEF Spec

\* Where the graph is not rebuilt alone, a document marked READY has its chunk
\* rows and each child of them in Elasticsearch, whatever calls fail and
\* however often the worker dies: no order of requests, retries and recoveries
\* shows a half-indexed document.
THEOREM ReadyCanBeFound ==
  ASSUME "graph" \notin Ops
  PROVE  Spec => []ReadyIsSearchable
<1>1. PromiseInv => ReadyIsSearchable
  BY DEF PromiseInv, ReadyIs, ReadyAt, Alive, Indexed, Found, ReadyIsSearchable, Searchable
<1> QED
  BY <1>1, PromiseHolds, PTL

\* A READY document whose GRAPH stage is recorded as done has in Neo4j the
\* chunks it has now and none of an earlier run, after whole runs and after
\* rebuilds of the graph alone, though builds fail half-way and their failure
\* is only recorded.
THEOREM GraphIsOfChunks == Spec => []GraphMatchesChunks
<1>1. PromiseInv => GraphMatchesChunks
  BY DEF PromiseInv, ReadyIs, ReadyAt, Alive, Matches, GraphMatchesChunks
<1> QED
  BY <1>1, PromiseHolds, PTL
-----------------------------------------------------------------------------
(* The documented life of a document, when requests come one at a time *)

UploadPc == {"merge", "put", "dup", "drop", "dropRow", "hash", "submit"}
Started  == Processing \union {"READY", "FAILED"}

\* what a request still knows of the row it read when it began
Knows(r) ==
  LET d == req[r].doc
      p == req[r].pc IN
  /\ p # "reindex"
  /\ p \in UploadPc => ~deleted[d] /\ status[d] = "UPLOADED"
  /\ p = "review" => ~deleted[d] /\ status[d] = "PENDING_REVIEW"
  /\ p = "save" => Visible(d)
  /\ p \in {"getState", "cancel"} => deleted[d]
  /\ p = "enqueue" => \/ deleted[d]
                      \/ jobs[d].state = "none" /\ status[d] \in Started

\* the statuses a live document has while its run is at p
ShownAt(p) ==
  IF p \in {"parse", "check1", "chunking"} THEN {"PARSING"}
  ELSE IF p = "indexing" THEN {"CHUNKING"}
  ELSE IF p \in {"check2", "clear", "clearEs", "insert", "load", "esIndex", "graphing"}
         THEN {"INDEXING"}
  ELSE IF p \in {"check3", "build", "check4", "ready"} THEN {"GRAPHING"}
  ELSE IF p \in GraphPc THEN {} ELSE Started

\* only a document that has been approved has a job, and then a run
JobLife(d) == jobs[d].state # "none" => deleted[d] \/ status[d] \in Started
RunLife(w) == wk[w].pc # "idle" =>
                deleted[wk[w].doc] \/ status[wk[w].doc] \in ShownAt(wk[w].pc)

LifeInv == /\ \A r \in Reqs : Knows(r)
           /\ \A d \in Docs : JobLife(d)
           /\ \A w \in Workers : RunLife(w)

\* what users see of a document, and the moves its life has
Shown(d) == IF deleted[d] THEN "DELETED" ELSE status[d]

Allowed(a, b) ==
  \/ a = "absent" /\ b = "UPLOADED"
  \/ a = "UPLOADED" /\ b \in {"PENDING_REVIEW", "gone"}
  \/ a = "PENDING_REVIEW" /\ b \in {"PARSING", "REJECTED"}
  \/ a \in Started /\ b \in {"PARSING", "FAILED"}
  \/ <<a, b>> \in {<<"PARSING", "CHUNKING">>, <<"CHUNKING", "INDEXING">>,
                   <<"INDEXING", "GRAPHING">>, <<"GRAPHING", "READY">>}
  \/ a \in Started \union {"UPLOADED", "PENDING_REVIEW", "REJECTED"} /\ b = "DELETED"

\* a step moves at most document d, and moves it as its life allows
Lives(d) == /\ \A e \in Docs \ {d} : Shown(e)' = Shown(e)
            /\ Shown(d)' = Shown(d) \/ Allowed(Shown(d), Shown(d)')

OneSlot == \A q, r \in Reqs : q = r
Users   == {"index", "graph"} \intersect Ops = {}

\* no operation on the queue but enqueue makes a job
NoNewJob(D) == \A e \in D : jobs[e].state = "none" => jobs'[e].state = "none"

LEMMA QueueMakesNone ==
  ASSUME QueueTypeOK
  PROVE  /\ \A d \in Docs, s \in Stages : enqueue(d, s) => NoNewJob(Docs \ {d})
         /\ \A d \in Docs : remove(d) => NoNewJob(Docs)
         /\ OtherFinishes => NoNewJob(Docs)
         /\ ReleaseLocks => NoNewJob(Docs)
         /\ \A d \in Docs, w \in Workers : Take(w, d) => NoNewJob(Docs)
         /\ \A d \in Docs : Stalled(d) /\ RecoverStalled(d) => NoNewJob(Docs)
         /\ \A d \in Docs : jobs[d].state = "active" /\ (Complete(d) \/ FailAttempt(d))
                              => NoNewJob(Docs)
<1> USE DEF NoNewJob, QueueTypeOK
<1>1. ASSUME NEW d \in Docs, NEW s \in Stages, enqueue(d, s) PROVE NoNewJob(Docs \ {d})
  BY <1>1 DEF enqueue
<1>2. ASSUME NEW d \in Docs, remove(d) PROVE NoNewJob(Docs)
  BY <1>2 DEF remove, NoJob
<1>3. ASSUME OtherFinishes PROVE NoNewJob(Docs)
  BY <1>3 DEF OtherFinishes, NoJob
<1>4. ASSUME ReleaseLocks PROVE NoNewJob(Docs)
  BY <1>4 DEF ReleaseLocks, Job
<1>5. ASSUME NEW d \in Docs, NEW w \in Workers, Take(w, d) PROVE NoNewJob(Docs)
  BY <1>5 DEF Take
<1>6. ASSUME NEW d \in Docs, jobs[d].state # "none", NEW s \in {"completed", "failed"},
             Retire(d, s)
      PROVE  NoNewJob(Docs)
  BY <1>6 DEF Retire
<1>7. ASSUME NEW d \in Docs, Stalled(d), RecoverStalled(d) PROVE NoNewJob(Docs)
  BY <1>6, <1>7 DEF RecoverStalled, Stalled
<1>8. ASSUME NEW d \in Docs, jobs[d].state = "active", Complete(d) \/ FailAttempt(d)
      PROVE  NoNewJob(Docs)
  BY <1>6, <1>8 DEF Complete, FailAttempt
<1> QED
  BY <1>1, <1>2, <1>3, <1>4, <1>5, <1>7, <1>8
-----------------------------------------------------------------------------
\* a step of a run shows the status of where it goes
LEMMA RunShows ==
  ASSUME Typed, IndexOnly, NEW w \in Workers, RunsOn(w), RunLife(w),
         WorkerStep(w) \/ StepFails(w) \/ BuildFails(w),
         NEW d \in Docs, wk[w].doc = d
  PROVE  /\ UNCHANGED deleted
         /\ \A e \in Docs \ {d} : status'[e] = status[e]
         /\ ~deleted[d] => /\ status'[d] \in ShownAt(wk'[w].pc)
                           /\ status'[d] = status[d] \/ Allowed(status[d], status'[d])
<1> DEFINE p == wk[w].pc
           q == wk'[w].pc
           S == status[d]
           Goal == /\ UNCHANGED deleted
                   /\ \A e \in Docs \ {d} : status'[e] = status[e]
                   /\ ~deleted[d] => /\ status'[d] \in ShownAt(q)
                                     /\ status'[d] = S \/ Allowed(S, status'[d])
<1>0. /\ status \in [Docs -> Status]
      /\ wk \in [Workers -> [pc : WkPc, doc : Docs \union {NoJobDoc},
                          left : SUBSET (Gens \X Parts), pub : BOOLEAN]]
  BY DEF Typed, TypeOK, StoreTypeOK, WorkerTypeOK
<1>1. ~deleted[d] => S \in ShownAt(p)
  BY DEF RunLife, RunsOn
<1>2. ASSUME NEW t PROVE Goto(w, t) => q = t
  BY <1>0 DEF Goto
<1>3. ASSUME NEW t, NEW left, NEW pub, GotoWith(w, t, left, pub) PROVE q = t
  BY <1>0, <1>3 DEF GotoWith
<1>4. ASSUME NEW t \in Status, transition(d, t)
      PROVE  /\ \A e \in Docs \ {d} : status'[e] = status[e]
             /\ S \notin NoRow => status'[d] = t
  BY <1>0, <1>4 DEF transition
<1>5. \A t : ShownAt(t) \subseteq Started
  BY DEF ShownAt, Started, Processing
<1>6. Started \subseteq Status /\ Started \intersect NoRow = {}
  BY DEF Started, Status, NoRow, Processing
\* a step that writes no status
<1>7. ASSUME UNCHANGED <<status, deleted>>, S \in ShownAt(p) /\ ~deleted[d] => S \in ShownAt(q)
      PROVE  Goal
  BY <1>1, <1>7
<1>8. ASSUME NEW t, NEW u, StatusStep(w, t, u),
             <<t, u>> \in {<<"parsing", "parse">>, <<"chunking", "indexing">>,
                                                   <<"chunking", "failing">>,
                           <<"indexing", "check2">>, <<"graphing", "check3">>,
                           <<"ready", "ack">>, <<"failing", "nack">>}
      PROVE  Goal
  <2>1. /\ p = t /\ q = u /\ transition(d, StatusAt[t]) /\ UNCHANGED deleted
    BY <1>2, <1>8 DEF StatusStep, Runs, JobDoc
  <2>2. StatusAt[t] \in Status
    BY <1>8, StatusAtType DEF StatusAt
  <2>3. ~deleted[d] => status'[d] = StatusAt[t]
    BY <1>1, <1>4, <1>5, <1>6, <2>1, <2>2
  <2>4. StatusAt[t] \in ShownAt(u)
    BY <1>8 DEF StatusAt, ShownAt, Started, Processing, GraphPc
  <2>5. S \in ShownAt(t) => Allowed(S, StatusAt[t])
    BY <1>8, <1>5 DEF StatusAt, ShownAt, Allowed
  <2> QED
    BY <1>1, <1>4, <2>1, <2>2, <2>3, <2>4, <2>5
<1>9. ASSUME NEW t, NEW u, assertNotDeleted(w, t, u),
             <<t, u>> \in {<<"check1", "chunking">>, <<"check2", "clear">>,
                           <<"check3", "build">>, <<"check4", "ready">>}
      PROVE  Goal
  <2>1. p = t /\ q \in {u, "failing"} /\ UNCHANGED <<status, deleted>>
    BY <1>2, <1>9 DEF assertNotDeleted, Runs, storeVars, rowVars
  <2>2. ShownAt(t) \subseteq ShownAt(u) /\ ShownAt(t) \subseteq ShownAt("failing")
    BY <1>5, <1>9 DEF ShownAt, GraphPc
  <2> QED
    BY <1>7, <2>1, <2>2
<1>10. CASE Fetch(w)
  <2>1. p = "fetch" /\ UNCHANGED <<status, deleted>>
    BY <1>10 DEF Fetch, Runs, storeVars, rowVars
  <2>2. ~deleted[d] => q \in {"ack", "parsing"}
    BY <1>2, <1>10 DEF Fetch, JobDoc, IndexOnly
  <2>3. ShownAt("ack") = Started /\ ShownAt("parsing") = Started
    BY DEF ShownAt, GraphPc
  <2> QED
    BY <1>1, <1>5, <2>1, <2>2, <2>3
<1>11. CASE \/ Parse(w) \/ ClearChunks(w) \/ ClearEs(w) \/ Insert(w) \/ Load(w) \/ IndexDone(w)
            \/ IndexChunk(w) \/ Build(w, "build", "check4") \/ BuildFails(w)
  <2>1. UNCHANGED <<status, deleted>> 
    BY <1>11 DEF Parse, ClearChunks, ClearEs, Insert, Load, IndexDone, IndexChunk,
                 Build, BuildFails, storeVars, rowVars
  <2>2. p \notin GraphPc \/ deleted[d]
    BY <1>1 DEF ShownAt, GraphPc
  <2>3. CASE IndexChunk(w)
    <3>1. q = p
      BY <1>0, <2>3 DEF IndexChunk
    <3> QED
      BY <1>7, <2>1, <3>1
  <2>4. CASE ~IndexChunk(w)
    <3>1. \/ <<p, q>> \in {<<"parse", "check1">>, <<"clear", "clearEs">>, <<"clearEs", "insert">>,
                     <<"insert", "load">>, <<"load", "esIndex">>, <<"esIndex", "graphing">>,
                     <<"build", "check4">>}
          \/ p \in {"parse", "insert", "build"} /\ q = "failing"
          \/ p \in GraphPc
      BY <1>2, <1>3, <1>11, <2>4 DEF Parse, ClearChunks, ClearEs, Insert, Load, IndexDone,
                 Build, BuildFails, Runs, Thrown, TryPc, GraphPc
    <3>2. p \in GraphPc \/ ShownAt(p) \subseteq ShownAt(q)
      BY <1>5, <3>1 DEF ShownAt, GraphPc
    <3> QED
      BY <1>7, <2>1, <2>2, <3>2
  <2> QED
    BY <2>3, <2>4
<1>12. CASE PurgeChunks(w) \/ PurgeEs(w) \/ PurgeGraph(w) \/ PurgeObject(w)
  <2>1. /\ UNCHANGED <<status, deleted>>
        /\ q \in {"purgeEs", "purgeGraph", "purgeObj", "ack"}
    BY <1>2, <1>12 DEF PurgeChunks, PurgeEs, PurgeGraph, PurgeObject, rowVars
  <2>2. ShownAt(q) = Started
    BY <2>1 DEF ShownAt, GraphPc
  <2> QED
    BY <1>1, <1>5, <2>1, <2>2
<1>13. CASE StepFails(w)
  <2>0. q = Thrown(p)
    BY <1>3, <1>13 DEF StepFails
  <2>1. /\ UNCHANGED deleted /\ q \in {"failing", "nack"}
        /\ \/ UNCHANGED status
           \/ p \in DOMAIN StatusAt /\ transition(d, StatusAt[p])
    BY <1>13, <2>0 DEF StepFails, Thrown, JobDoc
  <2>2. ShownAt(q) = Started
    BY <2>1 DEF ShownAt, GraphPc
  <2>3. CASE UNCHANGED status
    BY <1>5, <1>7, <2>1, <2>2, <2>3
  <2>4. CASE p \in DOMAIN StatusAt /\ transition(d, StatusAt[p])
    <3>1. StatusAt[p] \in Status
      BY <2>4, StatusAtType
    <3>2. ~deleted[d] => status'[d] = StatusAt[p]
      BY <1>1, <1>4, <1>5, <1>6, <2>4, <3>1
    <3>3. StatusAt[p] \in Started
      BY <2>4 DEF StatusAt, Started, Processing
    <3>4. S \in ShownAt(p) => Allowed(S, StatusAt[p])
      BY <1>5, <2>4 DEF StatusAt, ShownAt, Allowed, GraphPc
    <3> QED
      BY <1>1, <1>4, <2>1, <2>2, <2>4, <3>1, <3>2, <3>3, <3>4
  <2> QED
    BY <2>1, <2>3, <2>4
<1>14. CASE \/ StatusStep(w, "gGraphing", "gBuild") \/ StatusStep(w, "gReady", "ack")
            \/ Build(w, "gBuild", "gReady")
  <2>1. p \in GraphPc /\ deleted' = deleted
    BY <1>14 DEF StatusStep, Build, Runs, GraphPc, rowVars
  <2>2. ShownAt(p) = {}
    BY <2>1 DEF ShownAt, GraphPc
  <2>3. \A e \in Docs \ {d} : status'[e] = status[e]
    BY <1>0, <1>14 DEF StatusStep, Build, transition, JobDoc, rowVars
  <2> QED
    BY <1>1, <2>1, <2>2, <2>3
<1>15. ~Ack(w) /\ ~Nack(w)
  <2>1. Ack(w) \/ Nack(w) => wk'[w].doc = NoJobDoc
    BY <1>0 DEF Ack, Nack, Free
  <2> QED
    BY <2>1 DEF RunsOn
<1> QED
  BY <1>8, <1>9, <1>10, <1>11, <1>12, <1>13, <1>14, <1>15, ChunkSteps DEF WorkerStep

LEMMA ShownStarted == \A p : ShownAt(p) \subseteq Started
BY DEF ShownAt, Started, Processing

\* a step of the worker or the queue moves a live document between the
\* statuses of a run
Shifts(e) == /\ deleted'[e] = deleted[e]
             /\ \/ deleted[e]
                \/ status'[e] = status[e]
                \/ status[e] \in Started /\ status'[e] \in Started

LEMMA KnowsKept ==
  ASSUME Typed, NEW r \in Reqs, Knows(r), req' = req, \A e \in Docs : Shifts(e),
         NoNewJob(Docs)
  PROVE  Knows(r)'
<1>1. CASE req[r].pc = "idle"
  BY <1>1 DEF Knows, UploadPc
<1>2. CASE req[r].pc # "idle"
  <2>1. PICK d \in Docs : req[r].doc = d
    BY <1>2 DEF Typed, ReqDocs
  <2>2. Shifts(d) /\ (jobs[d].state = "none" => jobs'[d].state = "none")
    BY <2>1 DEF NoNewJob
  <2>3. "UPLOADED" \notin Started /\ "PENDING_REVIEW" \notin Started
        /\ "absent" \notin Started /\ "gone" \notin Started
    BY DEF Started, Processing
  <2> QED
    BY <2>1, <2>2, <2>3 DEF Knows, Shifts, Visible, Exists, NoRow
<1> QED
  BY <1>1, <1>2

LEMMA JobLifeKept ==
  ASSUME LifeInv, \A e \in Docs : Shifts(e), NoNewJob(Docs)
  PROVE  \A e \in Docs : JobLife(e)'
<1>1. SUFFICES ASSUME NEW e \in Docs, jobs'[e].state # "none"
      PROVE  deleted'[e] \/ status'[e] \in Started
  BY DEF JobLife
<1>2. Shifts(e) /\ (deleted[e] \/ status[e] \in Started)
  BY <1>1 DEF LifeInv, JobLife, NoNewJob
<1> QED
  BY <1>2 DEF Shifts

LEMMA RunnerLife ==
  ASSUME Typed, LockInv, IndexOnly, LifeInv, UNCHANGED req, NEW w \in Workers,
         WorkerStep(w) \/ StepFails(w) \/ BuildFails(w)
  PROVE  LifeInv' /\ \E d \in Docs : Lives(d)
<1>1. OneWorkerPerDocument
  BY LocksExclude
<1>2. CASE RunsOn(w)
  <2>1. PICK d \in Docs : wk[w].doc = d
    BY <1>2 DEF RunsOn, Typed, WkDocs
  <2>2. /\ UNCHANGED deleted
        /\ \A e \in Docs \ {d} : status'[e] = status[e]
        /\ ~deleted[d] => /\ status'[d] \in ShownAt(wk'[w].pc)
                          /\ status'[d] = status[d] \/ Allowed(status[d], status'[d])
    BY <1>2, <2>1, RunShows DEF LifeInv
  <2>3. ~deleted[d] => status[d] \in Started /\ status'[d] \in Started
    BY <1>2, <2>1, <2>2, ShownStarted DEF LifeInv, RunLife, RunsOn
  <2>4. \A e \in Docs : Shifts(e)
    BY <2>2, <2>3 DEF Shifts
  <2>5. NoNewJob(Docs)
    BY <1>2 DEF RunsOn, NoNewJob
  <2>6. RunLife(w)'
    BY <1>2, <2>1, <2>2 DEF RunLife, RunsOn
  <2>7. ASSUME NEW v \in Workers \ {w} PROVE RunLife(v)'
    <3>1. wk'[v] = wk[v] /\ RunLife(v)
      BY <1>2 DEF RunsOn, LifeInv
    <3>2. wk[v].pc # "idle" => wk[v].doc \in Docs \ {d}
      BY <1>1, <1>2, <2>1 DEF OneWorkerPerDocument, RunsOn, Typed, WkDocs
    <3> QED
      BY <2>2, <3>1, <3>2 DEF RunLife
  <2>8. LifeInv'
    BY <2>4, <2>5, <2>6, <2>7, KnowsKept, JobLifeKept DEF LifeInv
  <2>9. Lives(d)
    BY <2>2 DEF Lives, Shown
  <2> QED
    BY <2>8, <2>9
<1>3. CASE Ack(w) \/ Nack(w)
  <2>1. wk[w].pc # "idle" /\ UNCHANGED <<status, deleted>> /\ wk' = [wk EXCEPT ![w] = Free]
    BY <1>3 DEF Ack, Nack, Runs, storeVars, rowVars
  <2>2. PICK d \in Docs : wk[w].doc = d
    BY <2>1 DEF Typed, WkDocs
  <2>3. jobs[d].state = "active"
    BY <2>1, <2>2 DEF LockInv, HoldsLock
  <2>4. NoNewJob(Docs)
    BY <1>3, <2>2, <2>3, QueueMakesNone DEF Ack, Nack, JobDoc, Typed, TypeOK
  <2>5. \A e \in Docs : Shifts(e)
    BY <2>1 DEF Shifts
  <2>6. \A v \in Workers : RunLife(v)'
    BY <2>1 DEF LifeInv, RunLife, Free, Typed, TypeOK, WorkerTypeOK
  <2>7. LifeInv'
    BY <2>4, <2>5, <2>6, KnowsKept, JobLifeKept DEF LifeInv
  <2>8. Lives(d)
    BY <2>1 DEF Lives, Shown
  <2> QED
    BY <2>7, <2>8
<1> QED
  BY <1>2, <1>3, StepRunsOn

\* the rest of what the worker and the queue do shows nothing
LEMMA QueueLife ==
  ASSUME Typed, LifeInv, UNCHANGED <<status, deleted, req>>, NoNewJob(Docs),
         \A w \in Workers : \/ wk'[w] = wk[w] \/ wk'[w].pc = "idle"
                            \/ /\ wk'[w].pc = "fetch" /\ wk'[w].doc \in Docs
                               /\ jobs[wk'[w].doc].state # "none"
  PROVE  LifeInv'
<1>1. \A e \in Docs : Shifts(e)
  BY DEF Shifts
<1>2. ASSUME NEW w \in Workers PROVE RunLife(w)'
  <2>1. CASE wk'[w] = wk[w]
    BY <2>1 DEF LifeInv, RunLife
  <2>2. CASE wk'[w].pc = "idle"
    BY <2>2 DEF RunLife
  <2>3. CASE /\ wk'[w].pc = "fetch" /\ wk'[w].doc \in Docs
             /\ jobs[wk'[w].doc].state # "none"
    <3>1. deleted[wk'[w].doc] \/ status[wk'[w].doc] \in Started
      BY <2>3 DEF LifeInv, JobLife
    <3>2. ShownAt("fetch") = Started
      BY DEF ShownAt, GraphPc
    <3> QED
      BY <2>3, <3>1, <3>2 DEF RunLife
  <2> QED
    BY <2>1, <2>2, <2>3
<1> QED
  BY <1>1, <1>2, KnowsKept, JobLifeKept DEF LifeInv

LEMMA WorkerLife ==
  ASSUME Typed, LockInv, IndexOnly, LifeInv, UNCHANGED req, WorkerNext
  PROVE  LifeInv' /\ ((\E d \in Docs : Lives(d)) \/ UNCHANGED <<status, deleted>>)
<1> USE DEF storeVars, rowVars
<1>1. CASE \E w \in Workers : WorkerStep(w) \/ StepFails(w) \/ BuildFails(w)
  BY <1>1, RunnerLife
<1>2. ASSUME NEW w \in Workers, NEW d \in Docs, Claim(w, d)
      PROVE  LifeInv' /\ UNCHANGED <<status, deleted>>
  <2>1. NoNewJob(Docs) /\ jobs[d].state # "none" /\ UNCHANGED <<status, deleted>>
    BY <1>2, QueueMakesNone DEF Claim, Take, Typed, TypeOK
  <2>2. /\ wk'[w].pc = "fetch" /\ wk'[w].doc = d
        /\ \A v \in Workers \ {w} : wk'[v] = wk[v]
    BY <1>2 DEF Claim, Typed, TypeOK, WorkerTypeOK
  <2> QED
    BY <2>1, <2>2, QueueLife
<1>3. ASSUME NEW d \in Docs, StalledCheck(d) PROVE LifeInv' /\ UNCHANGED <<status, deleted>>
  <2>1. NoNewJob(Docs)
    BY <1>3, QueueMakesNone DEF StalledCheck, RecoverStalled, Typed, TypeOK
  <2> QED
    BY <1>3, <2>1, QueueLife DEF StalledCheck
<1>4. CASE OtherFinishes /\ UNCHANGED <<storeVars, wk, crashes>>
  <2>1. NoNewJob(Docs)
    BY <1>4, QueueMakesNone DEF Typed, TypeOK
  <2> QED
    BY <1>4, <2>1, QueueLife
<1>5. CASE Crash
  <2>1. NoNewJob(Docs) /\ \A w \in Workers : wk'[w].pc = "idle"
    BY <1>5, QueueMakesNone DEF Crash, Free, Typed, TypeOK
  <2> QED
    BY <1>5, <2>1, QueueLife DEF Crash
<1> QED
  BY <1>1, <1>2, <1>3, <1>4, <1>5 DEF WorkerNext
-----------------------------------------------------------------------------
\* the API moves a live document only before its first run, or deletes it
Turns(e) == \/ deleted'[e]
            \/ ~deleted[e] /\ (status'[e] = status[e] \/ status[e] \notin Started)

LEMMA RunsLeft ==
  ASSUME Typed, LifeInv, UNCHANGED wk, \A e \in Docs : Turns(e)
  PROVE  /\ \A w \in Workers : RunLife(w)'
         /\ NoNewJob(Docs) => \A e \in Docs : JobLife(e)'
<1>1. ASSUME NEW w \in Workers, wk[w].pc # "idle"
      PROVE  deleted'[wk[w].doc] \/ status'[wk[w].doc] \in ShownAt(wk[w].pc)
  <2>1. wk[w].doc \in Docs /\ RunLife(w) /\ ShownAt(wk[w].pc) \subseteq Started
    BY <1>1, ShownStarted DEF Typed, WkDocs, LifeInv
  <2> QED
    BY <1>1, <2>1 DEF RunLife, Turns
<1>2. ASSUME NoNewJob(Docs), NEW e \in Docs, jobs'[e].state # "none"
      PROVE  deleted'[e] \/ status'[e] \in Started
  BY <1>2 DEF LifeInv, JobLife, NoNewJob, Turns
<1> QED
  BY <1>1, <1>2 DEF RunLife, JobLife

\* what a step that changes only d's row moves
LEMMA RowMoves ==
  ASSUME NEW d \in Docs, \A e \in Docs \ {d} : UNCHANGED <<status[e], deleted[e]>>,
         Shown(d)' = Shown(d) \/ Allowed(Shown(d), Shown(d)')
  PROVE  Lives(d)
BY DEF Lives, Shown

\* a request goes on, or is answered
LEMMA SlotMoves ==
  ASSUME OneSlot, Typed, NEW r \in Reqs
  PROVE  /\ \A p : Then(r, p) => req'[r].pc = p /\ req'[r].doc = req[r].doc
         /\ Answer(r) => \A q \in Reqs : Knows(q)'
         /\ Knows(r)' => \A q \in Reqs : Knows(q)'
<1> USE DEF Typed, TypeOK, ReqTypeOK
<1>1. ASSUME NEW p, Then(r, p) PROVE req'[r].pc = p /\ req'[r].doc = req[r].doc
  BY <1>1 DEF Then
<1>2. Knows(r)' => \A q \in Reqs : Knows(q)'
  <2>1. \A q \in Reqs : q = r
    BY DEF OneSlot
  <2> QED
    BY <2>1
<1>3. ASSUME Answer(r) PROVE Knows(r)'
  <2>1. req'[r].pc = "idle"
    BY <1>3 DEF Answer, Idle
  <2> QED
    BY <2>1 DEF Knows, UploadPc
<1> QED
  BY <1>1, <1>2, <1>3

LEMMA StartLife ==
  ASSUME OneSlot, Users, Typed, LifeInv, UNCHANGED wk, NEW r \in Reqs, NEW d \in Docs,
         Start(r, d)
  PROVE  LifeInv' /\ UNCHANGED <<status, deleted>> /\ \A e \in Docs : Turns(e)
<1> USE DEF Typed, TypeOK, ReqTypeOK
<1>1. PICK op, p : Begin(r, d, op, p)
  BY DEF Start, uploadComplete, review, reindex, removeDocument, publish
<1>2. UNCHANGED <<status, deleted, jobs>> /\ req'[r].pc = p /\ req'[r].doc = d
  BY <1>1 DEF Begin, storeVars, rowVars
<1>3. \/ p = "merge" /\ Visible(d) /\ status[d] = "UPLOADED"
      \/ p = "review" /\ Visible(d) /\ status[d] = "PENDING_REVIEW"
      \/ p = "save" /\ Visible(d)
      \/ p = "flag"
  <2>1. ~reindex(r, d, "index") /\ ~reindex(r, d, "graph")
    BY DEF reindex, Begin, Users
  <2>2. ASSUME NEW o, NEW t, Begin(r, d, o, t) PROVE t = p
    BY <1>2, <2>2 DEF Begin
  <2> QED
    BY <2>1, <2>2 DEF Start, uploadComplete, review, removeDocument, publish, Stages
<1>4. Knows(r)'
  BY <1>2, <1>3 DEF Knows, UploadPc, Visible, Exists
<1>5. NoNewJob(Docs) /\ \A e \in Docs : Turns(e)
  BY <1>2 DEF NoNewJob, Turns, StoreTypeOK
<1> QED
  BY <1>2, <1>4, <1>5, SlotMoves, RunsLeft DEF LifeInv

LEMMA RequestLife ==
  ASSUME OneSlot, Typed, LifeInv, UNCHANGED wk, NEW r \in Reqs,
         RequestStep(r) \/ PublishEsFails(r) \/ RequestFails(r)
  PROVE  LifeInv' /\ (\E d \in Docs : Lives(d)) /\ \A e \in Docs : Turns(e)
<1> USE DEF storeVars, rowVars
<1>0. PICK d \in Docs : req[r].doc = d
  BY DEF Typed, ReqDocs, RequestStep, PublishEsFails, RequestFails, At,
         CompleteMerge, CompletePut, CompleteDup, CompleteDrop, CompleteDropRow,
         CompleteHash, CompleteSubmit, ReviewStatus, ReindexStatus, Enqueue,
         RemoveSave, RemoveGetState, RemoveCancel, PublishFlag, PublishEs,
         PublishRestore
<1>1. /\ Knows(r) /\ JobLife(d)
      /\ status \in [Docs -> Status] /\ deleted \in [Docs -> BOOLEAN]
  BY <1>0 DEF LifeInv, Typed, TypeOK, StoreTypeOK
<1>2. \A p : Then(r, p) => req'[r].pc = p /\ req'[r].doc = d
  BY <1>0, SlotMoves
<1>3. ASSUME Knows(r)' \/ Answer(r), NoNewJob(Docs), Turns(d),
             \A e \in Docs \ {d} : UNCHANGED <<status[e], deleted[e]>>,
             Shown(d)' = Shown(d) \/ Allowed(Shown(d), Shown(d)')
      PROVE  LifeInv' /\ Lives(d) /\ \A e \in Docs : Turns(e)
  <2>1. \A e \in Docs : Turns(e)
    BY <1>1, <1>3 DEF Turns
  <2>2. \A q \in Reqs : Knows(q)'
    BY <1>3, SlotMoves
  <2> QED
    BY <1>3, <2>1, <2>2, RunsLeft, RowMoves DEF LifeInv
\* a step that leaves the row
<1>4. ASSUME Knows(r)' \/ Answer(r), NoNewJob(Docs), UNCHANGED <<status, deleted>>
      PROVE  LifeInv' /\ Lives(d) /\ \A e \in Docs : Turns(e)
  <2>1. Turns(d) /\ Shown(d)' = Shown(d)
    BY <1>1, <1>4 DEF Turns, Shown
  <2> QED
    BY <1>3, <1>4, <2>1
<1>5. jobs' = jobs => NoNewJob(Docs)
  BY DEF NoNewJob
<1>6. CASE \/ CompleteMerge(r) \/ CompletePut(r) \/ CompleteDup(r) \/ CompleteDrop(r)
           \/ CompleteHash(r)
  <2>1. /\ UNCHANGED <<status, deleted, jobs>> /\ req[r].pc \in UploadPc
        /\ Answer(r) \/ \E p \in UploadPc : Then(r, p)
    BY <1>6 DEF CompleteMerge, CompletePut, CompleteDup, CompleteDrop, CompleteHash, At,
                UploadPc
  <2>2. (\E p \in UploadPc : Then(r, p)) => Knows(r)'
    BY <1>0, <1>1, <1>2, <2>1 DEF Knows, UploadPc
  <2> QED
    BY <1>4, <1>5, <2>1, <2>2
<1>7. CASE CompleteDropRow(r)
  <2>1. /\ ~deleted[d] /\ status[d] = "UPLOADED" /\ UNCHANGED <<deleted, jobs>> /\ Answer(r)
        /\ status' = [status EXCEPT ![d] = "gone"]
    BY <1>0, <1>1, <1>7 DEF CompleteDropRow, At, Knows, UploadPc
  <2>2. Turns(d) /\ Allowed(Shown(d), Shown(d)')
    BY <1>1, <2>1 DEF Turns, Shown, Allowed, Started, Processing
  <2> QED
    BY <1>1, <1>3, <1>5, <2>1, <2>2
<1>8. CASE CompleteSubmit(r)
  <2>1. /\ ~deleted[d] /\ status[d] = "UPLOADED" /\ UNCHANGED <<deleted, jobs>> /\ Answer(r)
        /\ status' = [status EXCEPT ![d] = "PENDING_REVIEW"]
    BY <1>0, <1>1, <1>8 DEF CompleteSubmit, At, Knows, UploadPc, transition, NoRow
  <2>2. Turns(d) /\ Allowed(Shown(d), Shown(d)')
    BY <1>1, <2>1 DEF Turns, Shown, Allowed, Started, Processing
  <2> QED
    BY <1>1, <1>3, <1>5, <2>1, <2>2
<1>9. CASE ReviewStatus(r)
  <2>1. /\ ~deleted[d] /\ status[d] = "PENDING_REVIEW" /\ UNCHANGED <<deleted, jobs>>
        /\ \/ status' = [status EXCEPT ![d] = "PARSING"] /\ Then(r, "enqueue")
           \/ status' = [status EXCEPT ![d] = "REJECTED"] /\ Answer(r)
    BY <1>0, <1>1, <1>9 DEF ReviewStatus, At, Knows, transition, NoRow
  <2>2. "PENDING_REVIEW" \notin Started /\ "PARSING" \in Started
    BY DEF Started, Processing
  <2>3. Turns(d) /\ Allowed(Shown(d), Shown(d)')
    BY <1>1, <2>1, <2>2 DEF Turns, Shown, Allowed
  <2>4. Then(r, "enqueue") => Knows(r)'
    <3>1. jobs[d].state = "none"
      BY <1>1, <2>1, <2>2 DEF JobLife
    <3>2. Then(r, "enqueue") => status'[d] = "PARSING"
      <4>1. ~(Then(r, "enqueue") /\ Answer(r))
        <5>1. Answer(r) => req'[r].pc = "idle"
          BY DEF Answer, Idle, Typed, TypeOK, ReqTypeOK
        <5> QED
          BY <1>2, <5>1
      <4> QED
        BY <1>1, <2>1, <4>1
    <3> QED
      BY <1>2, <2>1, <2>2, <3>1, <3>2 DEF Knows, UploadPc
  <2> QED
    BY <1>1, <1>3, <1>5, <2>1, <2>3, <2>4
<1>10. ~ReindexStatus(r)
  BY <1>1 DEF ReindexStatus, At, Knows
<1>11. CASE Enqueue(r)
  <2>1. /\ deleted[d] \/ status[d] \in Started
        /\ UNCHANGED <<status, deleted>> /\ Answer(r)
        /\ \E s \in Stages : enqueue(d, s)
    BY <1>0, <1>1, <1>11 DEF Enqueue, At, Knows, Stages
  <2>2. NoNewJob(Docs \ {d})
    BY <2>1, QueueMakesNone DEF Typed, TypeOK
  <2>3. \A e \in Docs : Turns(e)
    BY <1>1, <2>1 DEF Turns
  <2>4. ASSUME NEW e \in Docs PROVE JobLife(e)'
    BY <2>1, <2>2, <2>4 DEF NoNewJob, LifeInv, JobLife
  <2>5. Lives(d)
    BY <2>1 DEF Lives, Shown
  <2> QED
    BY <2>1, <2>3, <2>4, <2>5, RunsLeft, SlotMoves DEF LifeInv
<1>12. CASE RemoveSave(r)
  <2>1. /\ Visible(d) /\ UNCHANGED jobs /\ Then(r, "getState")
        /\ deleted' = [deleted EXCEPT ![d] = TRUE]
        /\ status' = [status EXCEPT ![d] = req[r].readStatus]
    BY <1>0, <1>1, <1>12 DEF RemoveSave, At, Knows
  <2>2. Knows(r)' /\ Turns(d)
    BY <1>1, <1>2, <2>1 DEF Knows, UploadPc, Turns
  <2>3. Allowed(Shown(d), Shown(d)')
    BY <1>1, <2>1 DEF Visible, Exists, Status, NoRow, Started, Shown, Allowed
  <2> QED
    BY <1>1, <1>3, <1>5, <2>1, <2>2, <2>3
<1>13. CASE RemoveGetState(r)
  <2>1. /\ deleted[d] /\ UNCHANGED <<status, deleted, jobs>>
        /\ Then(r, "cancel") \/ Then(r, "enqueue")
    BY <1>0, <1>1, <1>13 DEF RemoveGetState, At, Knows
  <2>2. Knows(r)'
    BY <1>2, <2>1 DEF Knows, UploadPc
  <2> QED
    BY <1>4, <1>5, <2>1, <2>2
<1>14. CASE RemoveCancel(r)
  <2>1. /\ deleted[d] /\ UNCHANGED <<status, deleted>> /\ Then(r, "enqueue") /\ remove(d)
    BY <1>0, <1>1, <1>14 DEF RemoveCancel, At, Knows
  <2>2. Knows(r)' /\ NoNewJob(Docs)
    BY <1>2, <2>1, QueueMakesNone DEF Knows, UploadPc, Typed, TypeOK
  <2> QED
    BY <1>4, <2>1, <2>2
<1>15. CASE \/ PublishFlag(r) \/ PublishEs(r) \/ PublishEsFails(r) \/ PublishRestore(r)
            \/ RequestFails(r)
  <2>1. /\ UNCHANGED <<status, deleted, jobs>>
        /\ Answer(r) \/ Then(r, "esFlag") \/ Then(r, "restore")
    BY <1>15 DEF PublishFlag, PublishEs, PublishEsFails, PublishRestore, RequestFails
  <2>2. Then(r, "esFlag") \/ Then(r, "restore") => Knows(r)'
    BY <1>2 DEF Knows, UploadPc
  <2> QED
    BY <1>4, <1>5, <2>1, <2>2
<1> QED
  BY <1>6, <1>7, <1>8, <1>9, <1>10, <1>11, <1>12, <1>13, <1>14, <1>15 DEF RequestStep

LEMMA ApiLife ==
  ASSUME OneSlot, Users, Typed, LifeInv, UNCHANGED wk, ApiNext
  PROVE  /\ LifeInv'
         /\ (\E d \in Docs : Lives(d)) \/ UNCHANGED <<status, deleted>>
         /\ \A e \in Docs : Turns(e)
<1>1. ASSUME NEW d \in Docs, uploadInit(d)
      PROVE  LifeInv' /\ Lives(d) /\ \A e \in Docs : Turns(e)
  <2>1. /\ status[d] = "absent" /\ status' = [status EXCEPT ![d] = "UPLOADED"]
        /\ UNCHANGED <<deleted, jobs, req>>
    BY <1>1 DEF uploadInit
  <2>2. status'[d] = "UPLOADED" /\ \A e \in Docs \ {d} : status'[e] = status[e]
    BY <2>1 DEF Typed, TypeOK, StoreTypeOK
  <2>3. \A e \in Docs : Turns(e)
    BY <2>1, <2>2 DEF Turns, Started, Processing, Typed, TypeOK, StoreTypeOK
  <2>4. NoNewJob(Docs)
    BY <2>1 DEF NoNewJob
  <2>5. ASSUME NEW r \in Reqs PROVE Knows(r)'
    <3>1. Knows(r) /\ "absent" \notin Started
      BY DEF LifeInv, Started, Processing
    <3>2. req[r].pc = "idle" \/ req[r].doc \in Docs
      BY DEF Typed, ReqDocs
    <3>3. CASE req[r].pc = "idle"
      BY <2>1, <3>3 DEF Knows, UploadPc
    <3>4. CASE req[r].doc \in Docs \ {d}
      BY <2>1, <2>2, <3>1, <3>4 DEF Knows, Visible, Exists
    <3>5. CASE req[r].doc = d
      BY <2>1, <2>2, <3>1, <3>5 DEF Knows, Visible, Exists, NoRow
    <3> QED
      BY <3>2, <3>3, <3>4, <3>5
  <2>6. Lives(d)
    <3>1. Shown(d)' = Shown(d) \/ Allowed(Shown(d), Shown(d)')
      BY <2>1, <2>2 DEF Shown, Allowed
    <3> QED
      BY <2>1, <2>2, <3>1, RowMoves
  <2> QED
    BY <2>3, <2>4, <2>5, <2>6, RunsLeft DEF LifeInv
<1> QED
  BY <1>1, StartLife, RequestLife DEF ApiNext

LEMMA LifeStep ==
  ASSUME OneSlot, Users, Typed, LockInv, IndexOnly, LifeInv, [Next]_vars
  PROVE  LifeInv' /\ ((\E d \in Docs : Lives(d)) \/ UNCHANGED <<status, deleted>>)
<1>1. CASE UNCHANGED vars
  <2>1. UNCHANGED <<status, deleted, jobs, req, wk>>
    BY <1>1 DEF vars, sysVars, storeVars, rowVars
  <2>2. NoNewJob(Docs)
    BY <2>1 DEF NoNewJob
  <2> QED
    BY <2>1, <2>2, QueueLife
<1> QED
  BY <1>1, ApiLife, WorkerLife DEF Next, Step

LEMMA LifeInit == Init => LifeInv
<1> SUFFICES ASSUME Init PROVE LifeInv
  OBVIOUS
<1>1. \A r \in Reqs : Knows(r)
  BY DEF Init, ReqInit, Idle, Knows, UploadPc
<1>2. \A d \in Docs : JobLife(d)
  BY DEF Init, QueueInit, NoJob, JobLife
<1>3. \A w \in Workers : RunLife(w)
  BY DEF Init, WorkerInit, Free, RunLife
<1> QED
  BY <1>1, <1>2, <1>3 DEF LifeInv

LEMMA LifeHolds ==
  ASSUME OneSlot, Users
  PROVE  Spec => [](Typed /\ LockInv /\ IndexOnly /\ LifeInv)
<1>1. "graph" \notin Ops
  BY DEF Users
<1>2. Init => LockInv /\ IndexOnly
  BY DEF Init, WorkerInit, Free, LockInv, QueueInit, ReqInit, NoJob, Idle, IndexOnly
<1>3. Typed /\ IndexOnly /\ [Next]_vars => IndexOnly'
  BY <1>1, IndexOnlyStep
<1>4. Typed /\ LockInv /\ IndexOnly /\ LifeInv /\ [Next]_vars => LifeInv'
  BY LifeStep
<1> QED
  BY <1>2, <1>3, <1>4, LifeInit, TypedInit, TypedStep, LockStep, PTL DEF Spec

\* nobody reindexes, so no reindex meets a run
NotOvertaken == \A d \in Docs : ~overtaken[d]

LEMMA NeverOvertaken ==
  ASSUME LifeInv, NotOvertaken, [Next]_vars
  PROVE  NotOvertaken'
<1>1. \A d \in Docs : ~Overtakes(d)
  BY DEF Overtakes, At, LifeInv, Knows
<1> QED
  BY <1>1 DEF NotOvertaken, Next, Remember, vars

\* the phase that refines a document's life
Phase == [d \in Docs |-> IF deleted[d] THEN "DELETED"
                         ELSE IF overtaken[d] THEN "CONTENDED"
                         ELSE status[d]]

LEMMA AllowedMoves ==
  ASSUME NotOvertaken, NotOvertaken', NEW d \in Docs, Lives(d)
  PROVE  [Lifecycle!Next]_Phase
<1>1. /\ Phase = [e \in Docs |-> Shown(e)]
      /\ Phase' = [e \in Docs |-> Shown(e)']
  BY DEF Phase, Shown, NotOvertaken
<1>2. Phase' = [Phase EXCEPT ![d] = Shown(d)'] /\ Phase[d] = Shown(d)
  BY <1>1 DEF Lives
<1>3. CASE Shown(d)' = Shown(d)
  <2>1. \A e \in Docs : Shown(e)' = Shown(e)
    BY <1>3 DEF Lives
  <2>2. UNCHANGED Phase
    BY <1>1, <2>1
  <2> QED
    BY <2>2
<1>4. CASE Allowed(Shown(d), Shown(d)')
  <2>1. ASSUME NEW from, NEW to, Shown(d) \in from, Shown(d)' = to
        PROVE  Lifecycle!Move(d, from, to)
    BY <1>2, <2>1 DEF Lifecycle!Move, Phase
  <2>2. Started = Lifecycle!Ingesting \union Lifecycle!Handled
    BY DEF Started, Processing, Lifecycle!Ingesting, Lifecycle!Handled
  <2>3. \/ Lifecycle!Upload(d) \/ Lifecycle!Submit(d) \/ Lifecycle!Refuse(d)
        \/ Lifecycle!Approve(d) \/ Lifecycle!Reject(d) \/ Lifecycle!Restart(d)
        \/ Lifecycle!Advance(d) \/ Lifecycle!Fail(d) \/ Lifecycle!Delete(d)
    BY <1>4, <2>1, <2>2
    DEF Allowed, Lifecycle!Upload, Lifecycle!Submit, Lifecycle!Refuse, Lifecycle!Approve,
        Lifecycle!Reject, Lifecycle!Restart, Lifecycle!Advance, Lifecycle!Fail,
        Lifecycle!Delete
  <2> QED
    BY <2>3 DEF Lifecycle!Next
<1> QED
  BY <1>3, <1>4 DEF Lives

\* When requests come one at a time and nobody asks for a rebuild, documents
\* live as the documented state machine allows, for any number of documents
\* and worker slots, whatever fails and however often the worker dies: no
\* retry, recovered run or late step of a run moves one out of turn, and a
\* deleted document is never seen again.
THEOREM LifecycleRefined ==
  ASSUME OneSlot, Users
  PROVE  Spec => LifecycleSpec
<1>1. Init => Lifecycle!Init /\ NotOvertaken
  BY DEF Init, StoreInit, Lifecycle!Init, NotOvertaken
<1>2. LifeInv /\ NotOvertaken /\ [Next]_vars => NotOvertaken'
  BY NeverOvertaken
<1>3. Typed /\ LockInv /\ IndexOnly /\ LifeInv /\ NotOvertaken /\ NotOvertaken' /\ [Next]_vars
        => [Lifecycle!Next]_Phase
  <2>1. NotOvertaken /\ NotOvertaken' /\ UNCHANGED <<status, deleted>> => UNCHANGED Phase
    BY DEF Phase, NotOvertaken
  <2> QED
    BY <2>1, LifeStep, AllowedMoves
<1> QED
  BY <1>1, <1>2, <1>3, LifeHolds, PTL DEF Spec, LifecycleSpec, Lifecycle!Spec, Phase
-----------------------------------------------------------------------------
(* A document in a processing status has a job *)

\* the object is there from before the review of a document to its deletion
ReqObj(r) == req[r].pc \in {"dup", "hash", "submit", "review"} => obj[req[r].doc]
DocObj(d) == ~deleted[d] /\ status[d] \in {"PENDING_REVIEW"} \union Started => obj[d]

\* each attempt that ended in an error has met a failed call of its own,
\* where the document has a text, and each time a job was found without its lock the worker had died once more
ErrPc     == {"failing", "nack"}
Erring(d) == \E w \in Workers : wk[w].doc = d /\ wk[w].pc \in ErrPc
Tries(d)  == ~deleted[d] /\ d \notin textless =>
               /\ jobs[d].made <= faults
               /\ Erring(d) => jobs[d].made + 1 <= faults
Lapses(d) == /\ jobs[d].stalls <= crashes
             /\ Stalled(d) => jobs[d].stalls + 1 <= crashes

\* a run returns when its document is READY, or has been deleted, and throws
\* when it has been marked FAILED, unless a call has failed
RunEnds(w) == /\ wk[w].pc \in PurgePc => deleted[wk[w].doc]
              /\ wk[w].pc = "ack" => \/ deleted[wk[w].doc]
                                     \/ status[wk[w].doc] = "READY"
              /\ wk[w].pc = "nack" => \/ deleted[wk[w].doc]
                                      \/ status[wk[w].doc] = "FAILED"
                                      \/ faults > 0

GivenUp(d) == crashes > MaxStalled \/ (d \in textless /\ faults > 0)

HasJob(d) ==
  /\ ~GivenUp(d) /\ status[d] \in Processing /\ ~deleted[d]
  /\ \A r \in Reqs : req[r].doc = d => req[r].pc # "enqueue"
  => Live(d)

FlightInv == /\ \A r \in Reqs : ReqObj(r)
             /\ \A w \in Workers : RunEnds(w)
             /\ \A d \in Docs : DocObj(d) /\ Tries(d) /\ Lapses(d) /\ HasJob(d)

\* a queue operation on another job leaves it, or drops it when retained
Retains(e) == /\ Live(e) => jobs'[e] = jobs[e]
              /\ ~Live(e) => /\ ~Live(e)'
                             /\ jobs'[e].made <= jobs[e].made
                             /\ jobs'[e].stalls <= jobs[e].stalls

LEMMA RetireRetains ==
  ASSUME QueueTypeOK, NEW d \in Docs, NEW s \in {"completed", "failed"}, Retire(d, s)
  PROVE  /\ \A e \in Docs \ {d} : Retains(e)
         /\ ~Live(d)' /\ jobs'[d].made = 0 /\ jobs'[d].stalls = 0
<1>1. \A e \in Docs \ {d} : jobs'[e] = jobs[e]
  BY DEF Retire, QueueTypeOK
<1>2. \A e \in Docs \ {d} : Retains(e)
  BY <1>1 DEF Retains, Live, QueueTypeOK, Job
<1>3. jobs'[d] = [NoJob EXCEPT !.state = s]
  BY DEF Retire, QueueTypeOK
<1> QED
  BY <1>2, <1>3 DEF NoJob, Live

LEMMA RemoveRetains ==
  ASSUME QueueTypeOK, NEW d \in Docs, remove(d)
  PROVE  /\ \A e \in Docs \ {d} : Retains(e)
         /\ jobs'[d] \in {jobs[d], NoJob}
<1>1. ASSUME NEW e \in Docs \ {d} PROVE Retains(e)
  <2>1. jobs'[e] = jobs[e]
    BY <1>1 DEF remove, QueueTypeOK
  <2> QED
    BY <1>1, <2>1 DEF Retains, Live, QueueTypeOK, Job
<1> QED
  BY <1>1 DEF remove, QueueTypeOK
-----------------------------------------------------------------------------
\* only a failed call throws a run of a live document, and it ends READY
LEMMA RunThrows ==
  ASSUME Typed, IndexOnly, InsertFindsNoRows, NEW w \in Workers, RunsOn(w), RunLife(w),
         RunEnds(w), WorkerStep(w) \/ StepFails(w) \/ BuildFails(w),
         NEW d \in Docs, wk[w].doc = d, DocObj(d)
  PROVE  /\ faults' \in {faults, faults + 1}
         /\ ~deleted[d] => /\ wk'[w].pc \in ErrPc => \/ wk[w].pc \in ErrPc
                                                     \/ faults' = faults + 1
                                                     \/ d \in textless
                           /\ wk'[w].pc = "ack" => status'[d] = "READY"
                           /\ wk'[w].pc = "nack" => status'[d] = "FAILED" \/ faults' > 0
                           /\ UNCHANGED obj
         /\ wk'[w].pc \in PurgePc => deleted[d]
         /\ \A e \in Docs \ {d} : obj'[e] = obj[e]
<1> USE DEF storeVars, rowVars, blobVars, indexVars
<1> DEFINE p == wk[w].pc
           q == wk'[w].pc
           Goal == /\ faults' \in {faults, faults + 1}
                   /\ ~deleted[d] => /\ q \in ErrPc => \/ p \in ErrPc
                                                       \/ faults' = faults + 1
                                                       \/ d \in textless
                                     /\ q = "ack" => status'[d] = "READY"
                                     /\ q = "nack" => status'[d] = "FAILED" \/ faults' > 0
                                     /\ UNCHANGED obj
                   /\ q \in PurgePc => deleted[d]
                   /\ \A e \in Docs \ {d} : obj'[e] = obj[e]
<1>0. /\ status \in [Docs -> Status] /\ obj \in [Docs -> BOOLEAN] /\ faults \in Nat
      /\ wk \in [Workers -> [pc : WkPc, doc : Docs \union {NoJobDoc},
                          left : SUBSET (Gens \X Parts), pub : BOOLEAN]]
  BY DEF Typed, TypeOK, StoreTypeOK, WorkerTypeOK
<1>1. ~deleted[d] => /\ status[d] \in ShownAt(p) /\ status[d] \in Started
                     /\ Visible(d) /\ obj[d]
  <2>1. ~deleted[d] => status[d] \in ShownAt(p)
    BY DEF RunLife, RunsOn
  <2> QED
    BY <2>1, ShownStarted DEF Visible, Exists, NoRow, Started, Processing, DocObj
<1>2. ASSUME NEW t PROVE Goto(w, t) => q = t
  BY <1>0 DEF Goto
<1>3. ASSUME NEW t, NEW left, NEW pub, GotoWith(w, t, left, pub) PROVE q = t
  BY <1>0, <1>3 DEF GotoWith
<1>4. p \in GraphPc => deleted[d]
  BY <1>1 DEF ShownAt, GraphPc
<1>5. Fault("worker") => faults' = faults + 1
  BY DEF Fault
\* a step that goes on, without an error
<1>6. ASSUME UNCHANGED obj, faults' \in {faults, faults + 1},
             deleted[d] \/ q \notin ErrPc \union PurgePc \union {"ack"}
      PROVE  Goal
  BY <1>0, <1>6 DEF ErrPc, PurgePc
<1>7. CASE Fetch(w)
  <2>1. /\ UNCHANGED <<obj, faults>>
        /\ ~deleted[d] => q = "parsing"
    BY <1>1, <1>2, <1>7 DEF Fetch, JobDoc, IndexOnly, Visible
  <2> QED
    BY <1>6, <2>1 DEF ErrPc, PurgePc
<1>8. ASSUME NEW t, NEW u, StatusStep(w, t, u),
             <<t, u>> \in {<<"parsing", "parse">>, <<"chunking", "indexing">>,
                           <<"indexing", "check2">>, <<"graphing", "check3">>}
      PROVE  Goal
  BY <1>2, <1>6, <1>8 DEF StatusStep, ErrPc, PurgePc
\* a document without text fails without a failed call
<1>20. ASSUME UNCHANGED <<obj, faults>>, q = "failing", d \in textless
       PROVE  Goal
  BY <1>20 DEF PurgePc
<1>21. CASE StatusStep(w, "chunking", "failing") /\ JobDoc(w) \in textless
  <2>1. UNCHANGED <<obj, faults>> /\ q = "failing"
    BY <1>2, <1>21 DEF StatusStep
  <2> QED
    BY <1>20, <1>21, <2>1 DEF JobDoc
<1>9. CASE StatusStep(w, "failing", "nack") \/ StatusStep(w, "ready", "ack")
  <2>1. UNCHANGED <<obj, faults>> /\ <<p, q>> \in {<<"failing", "nack">>, <<"ready", "ack">>}
    BY <1>2, <1>9 DEF StatusStep, Runs
  <2>2. ~deleted[d] => /\ q = "ack" => status'[d] = "READY"
                       /\ q = "nack" => status'[d] = "FAILED"
    <3>1. /\ q = "ack" => transition(d, "READY")
          /\ q = "nack" => transition(d, "FAILED")
      BY <1>2, <1>9, <2>1 DEF StatusStep, Runs, StatusAt, JobDoc
    <3> QED
      BY <1>0, <1>1, <3>1 DEF transition, Visible, Exists
  <2> QED
    BY <2>1, <2>2 DEF ErrPc, PurgePc
<1>10. ASSUME NEW t, NEW u, assertNotDeleted(w, t, u),
              <<t, u>> \in {<<"check1", "chunking">>, <<"check2", "clear">>,
                            <<"check3", "build">>, <<"check4", "ready">>}
      PROVE  Goal
  <2>1. UNCHANGED <<obj, faults>> /\ (~deleted[d] => q = u) /\ q \notin PurgePc
    BY <1>1, <1>2, <1>10 DEF assertNotDeleted, JobDoc, PurgePc
  <2> QED
    BY <1>6, <1>10, <2>1 DEF ErrPc, PurgePc
<1>22. CASE Parse(w)
  <2>1. /\ UNCHANGED <<obj, faults>> /\ q \in {"check1", "failing"}
        /\ q = "failing" => deleted[d] \/ d \in textless
    BY <1>1, <1>2, <1>22 DEF Parse, JobDoc
  <2>2. CASE q = "failing" /\ ~deleted[d]
    BY <1>20, <2>1, <2>2
  <2>3. CASE q = "check1" \/ deleted[d]
    BY <1>0, <2>1, <2>3 DEF ErrPc, PurgePc
  <2> QED
    BY <2>1, <2>2, <2>3
<1>11. CASE \/ ClearChunks(w) \/ Insert(w) \/ Load(w) \/ IndexDone(w)
  <2>1. /\ UNCHANGED <<obj, faults>>
        /\ ~deleted[d] => q \in {"clearEs", "load", "esIndex", "graphing"}
    BY <1>1, <1>2, <1>3, <1>11
    DEF ClearChunks, Insert, Load, IndexDone, JobDoc, InsertFindsNoRows, Runs, Visible
  <2> QED
    BY <1>6, <2>1 DEF ErrPc, PurgePc
<1>12. CASE ClearEs(w) \/ Build(w, "build", "check4")
  <2>1. /\ UNCHANGED obj /\ faults' \in {faults, faults + 1}
        /\ ~deleted[d] => q \in {"insert", "check4"}
    BY <1>1, <1>2, <1>5, <1>12
    DEF ClearEs, Build, buildGraph, deleteByDocument, JobDoc, Visible
  <2> QED
    BY <1>6, <2>1 DEF ErrPc, PurgePc
<1>13. CASE IndexChunk(w)
  <2>1. UNCHANGED <<obj, faults>> /\ q = "esIndex"
    BY <1>0, <1>13 DEF IndexChunk, Runs
  <2> QED
    BY <1>6, <2>1 DEF ErrPc, PurgePc
<1>14. CASE PurgeChunks(w) \/ PurgeEs(w) \/ PurgeGraph(w)
  <2>1. p \in PurgePc
    BY <1>14 DEF PurgeChunks, PurgeEs, PurgeGraph, Runs, PurgePc
  <2>2. /\ deleted[d] /\ UNCHANGED obj /\ faults' \in {faults, faults + 1}
    BY <1>5, <1>14, <2>1 DEF PurgeChunks, PurgeEs, PurgeGraph, deleteByDocument, RunEnds
  <2> QED
    BY <1>6, <2>2
<1>15. CASE PurgeObject(w)
  <2>1. p \in PurgePc /\ q = "ack" /\ faults' \in {faults, faults + 1}
        /\ \A e \in Docs \ {d} : obj'[e] = obj[e]
    BY <1>0, <1>2, <1>5, <1>15 DEF PurgeObject, Runs, PurgePc, JobDoc
  <2>2. deleted[d]
    BY <2>1 DEF RunEnds
  <2> QED
    BY <2>1, <2>2
<1>16. CASE StepFails(w) \/ BuildFails(w)
  <2>1. q = Thrown(p) /\ faults' = faults + 1 /\ UNCHANGED obj
    BY <1>2, <1>3, <1>5, <1>16 DEF StepFails, BuildFails
  <2> QED
    BY <1>0, <2>1 DEF Thrown, PurgePc
<1>17. CASE \/ StatusStep(w, "gGraphing", "gBuild") \/ StatusStep(w, "gReady", "ack")
            \/ Build(w, "gBuild", "gReady")
  <2>1. /\ p \in GraphPc /\ UNCHANGED obj /\ faults' \in {faults, faults + 1}
    BY <1>5, <1>17 DEF StatusStep, Build, buildGraph, Runs, GraphPc
  <2> QED
    BY <1>4, <1>6, <2>1
<1>18. ~Ack(w) /\ ~Nack(w)
  <2>1. Ack(w) \/ Nack(w) => wk'[w].doc = NoJobDoc
    BY <1>0 DEF Ack, Nack, Free
  <2> QED
    BY <2>1 DEF RunsOn
<1> QED
  BY <1>7, <1>8, <1>9, <1>10, <1>11, <1>12, <1>13, <1>14, <1>15, <1>16, <1>17, <1>18, <1>21,
     <1>22, ChunkSteps
  DEF WorkerStep

\* a document that waits for its job
Waits(d) == /\ status[d] \in Processing /\ ~deleted[d]
            /\ \A r \in Reqs : req[r].doc = d => req[r].pc # "enqueue"

\* what a step keeps of a document whose job it retains
LEMMA TriesKept ==
  ASSUME Typed, Typed', NEW d \in Docs, Tries(d), Retains(d), deleted[d] => deleted'[d],
         UNCHANGED textless, faults' >= faults,
         Erring(d)' => Erring(d) \/ faults' = faults + 1 \/ deleted[d] \/ d \in textless
  PROVE  Tries(d)'
<1>1. /\ jobs[d].made \in Nat /\ jobs'[d].made \in Nat /\ faults \in Nat /\ faults' \in Nat
  BY DEF Typed, TypeOK, QueueTypeOK, Job, StoreTypeOK
<1>2. jobs'[d].made <= jobs[d].made
  BY <1>1 DEF Retains
<1> QED
  BY <1>1, <1>2 DEF Tries

LEMMA LapsesKept ==
  ASSUME Typed, Typed', NEW d \in Docs, Lapses(d), Retains(d), UNCHANGED crashes
  PROVE  Lapses(d)'
<1>1. /\ jobs[d].stalls \in Nat /\ jobs'[d].stalls \in Nat /\ crashes \in Nat
  BY DEF Typed, TypeOK, QueueTypeOK, Job, WorkerTypeOK
<1>2. jobs'[d].stalls <= jobs[d].stalls /\ (Stalled(d)' => jobs'[d] = jobs[d])
  BY <1>1 DEF Retains, Stalled, Live
<1> QED
  BY <1>1, <1>2 DEF Lapses, Stalled

LEMMA HasJobKept ==
  ASSUME Typed, Typed', NEW d \in Docs, HasJob(d), Retains(d), Waits(d)' => Waits(d),
         UNCHANGED <<textless, crashes>>, faults' >= faults
  PROVE  HasJob(d)'
<1>1. faults \in Nat /\ faults' \in Nat
  BY DEF Typed, TypeOK, StoreTypeOK
<1>2. ~GivenUp(d)' => ~GivenUp(d)
  BY <1>1 DEF GivenUp
<1> QED
  BY <1>2 DEF HasJob, Waits, Retains, Live

LEMMA SameRetains ==
  ASSUME Typed, NEW e \in Docs, jobs'[e] = jobs[e]
  PROVE  Retains(e)
BY DEF Retains, Live, Typed, TypeOK, QueueTypeOK, Job

\* a run has the job of its document, and no other run has it
LEMMA RunLive ==
  ASSUME Typed, LockInv, NEW w \in Workers, wk[w].pc # "idle"
  PROVE  /\ wk[w].doc \in Docs /\ Live(wk[w].doc) /\ jobs[wk[w].doc].state = "active"
         /\ \A v \in Workers \ {w} : wk[v].pc # "idle" => wk[v].doc # wk[w].doc
BY DEF Typed, WkDocs, LockInv, HoldsLock, Live
-----------------------------------------------------------------------------
\* the requests: what one of them leaves of another document
LEMMA ApiWaits ==
  ASSUME OneSlot, Users, "api" \notin Faulty, Typed, LifeInv, ApiNext, NEW e \in Docs,
         ~deleted'[e], status'[e] \in Processing,
         \A r \in Reqs : req'[r].doc = e => req'[r].pc # "enqueue"
  PROVE  Waits(e) \/ \E r \in Reqs : Enqueue(r) /\ req[r].doc = e
<1> USE DEF storeVars, rowVars, Typed, TypeOK, ReqTypeOK, StoreTypeOK
<1>1. ASSUME NEW r \in Reqs, req[r].pc # "enqueue" \/ req[r].doc # e,
             UNCHANGED deleted, status'[e] = status[e]
      PROVE  Waits(e)
  BY <1>1 DEF Waits, OneSlot
<1>2. ASSUME NEW d \in Docs, uploadInit(d) PROVE Waits(e)
  <2>1. UNCHANGED <<deleted, req>> /\ (d # e => status'[e] = status[e])
        /\ (d = e => status'[e] = "UPLOADED")
    BY <1>2 DEF uploadInit
  <2> QED
    BY <2>1 DEF Waits, Processing
<1>3. ASSUME NEW r \in Reqs, NEW d \in Docs, Start(r, d) PROVE Waits(e)
  <2>1. UNCHANGED <<deleted, status>> /\ req[r].pc = "idle"
    BY <1>3 DEF Start, uploadComplete, review, reindex, removeDocument, publish, Begin
  <2> QED
    BY <1>1, <2>1
<1>4. ASSUME NEW r \in Reqs, RequestStep(r) \/ PublishEsFails(r) \/ RequestFails(r)
      PROVE  Waits(e) \/ (Enqueue(r) /\ req[r].doc = e)
  <2>0. Knows(r)
    BY DEF LifeInv
  <2>1. CASE \/ CompleteMerge(r) \/ CompletePut(r) \/ CompleteDup(r) \/ CompleteDrop(r)
             \/ CompleteHash(r) \/ RemoveGetState(r) \/ RemoveCancel(r)
             \/ PublishFlag(r) \/ PublishEs(r) \/ PublishEsFails(r) \/ PublishRestore(r)
    <3>1. UNCHANGED <<deleted, status>> /\ req[r].pc # "enqueue"
      BY <2>1 DEF CompleteMerge, CompletePut, CompleteDup, CompleteDrop, CompleteHash,
                  RemoveGetState, RemoveCancel, PublishFlag, PublishEs, PublishEsFails,
                  PublishRestore, At
    <3> QED
      BY <1>1, <3>1
  <2>2. CASE CompleteDropRow(r) \/ CompleteSubmit(r)
    <3>1. /\ UNCHANGED deleted /\ req[r].pc # "enqueue"
          /\ status'[e] \in {status[e], "gone", "PENDING_REVIEW"}
      BY <2>2 DEF CompleteDropRow, CompleteSubmit, At, transition
    <3> QED
      BY <1>1, <3>1 DEF Processing
  <2>3. CASE ReviewStatus(r)
    <3>1. /\ UNCHANGED deleted /\ req[r].pc = "review"
          /\ \/ transition(req[r].doc, "PARSING") /\ Then(r, "enqueue")
             \/ transition(req[r].doc, "REJECTED")
      BY <2>3 DEF ReviewStatus, At
    <3>2. Then(r, "enqueue") => req'[r].pc = "enqueue" /\ req'[r].doc = req[r].doc
      BY DEF Then
    <3>3. status'[e] = status[e]
      BY <3>1, <3>2 DEF transition, Processing
    <3> QED
      BY <1>1, <3>1, <3>3
  <2>4. CASE RemoveSave(r)
    <3>1. /\ status' = [status EXCEPT ![req[r].doc] = req[r].readStatus] /\ req[r].pc = "save"
          /\ deleted' = [deleted EXCEPT ![req[r].doc] = TRUE]
      BY <2>4 DEF RemoveSave, At
    <3>2. e # req[r].doc
      BY <3>1
    <3> QED
      BY <3>1, <3>2 DEF Waits, OneSlot
  <2>5. CASE Enqueue(r) /\ req[r].doc # e
    <3>1. UNCHANGED <<status, deleted>>
      BY <2>5 DEF Enqueue
    <3> QED
      BY <1>1, <2>5, <3>1
  <2>6. ~ReindexStatus(r) /\ ~RequestFails(r)
    BY <2>0 DEF ReindexStatus, RequestFails, Fault, Knows, At
  <2> QED
    BY <1>4, <2>1, <2>2, <2>3, <2>4, <2>5, <2>6 DEF RequestStep
<1> QED
  BY <1>2, <1>3, <1>4 DEF ApiNext

LEMMA ApiObjects ==
  ASSUME OneSlot, Users, "api" \notin Faulty, Typed, Typed', LifeInv, ApiNext,
         \A r \in Reqs : ReqObj(r), \A d \in Docs : DocObj(d)
  PROVE  (\A r \in Reqs : ReqObj(r)') /\ (\A d \in Docs : DocObj(d)') /\ UNCHANGED faults
<1> USE DEF storeVars, rowVars, blobVars, Typed, TypeOK, ReqTypeOK, StoreTypeOK
<1>1. ASSUME NEW d \in Docs, uploadInit(d)
      PROVE  (\A r \in Reqs : ReqObj(r)') /\ (\A e \in Docs : DocObj(e)') /\ UNCHANGED faults
  BY <1>1 DEF uploadInit, ReqObj, DocObj, Started, Processing
\* a step of the request in slot r about document d
<1>2. ASSUME NEW r \in Reqs, NEW d \in Docs, UNCHANGED <<faults>>,
             ReqObj(r)', DocObj(d)',
             \A e \in Docs \ {d} : UNCHANGED <<status[e], deleted[e], obj[e]>>
      PROVE  (\A q \in Reqs : ReqObj(q)') /\ (\A e \in Docs : DocObj(e)') /\ UNCHANGED faults
  <2>1. \A q \in Reqs : q = r
    BY DEF OneSlot
  <2>2. ASSUME NEW e \in Docs \ {d} PROVE DocObj(e)'
    BY <1>2, <2>2 DEF DocObj
  <2> QED
    BY <1>2, <2>1, <2>2
<1>3. ASSUME NEW r \in Reqs, NEW d \in Docs, Start(r, d)
      PROVE  (\A q \in Reqs : ReqObj(q)') /\ (\A e \in Docs : DocObj(e)') /\ UNCHANGED faults
  <2>1. UNCHANGED <<status, deleted, obj, faults>>
    BY <1>3 DEF Start, uploadComplete, review, reindex, removeDocument, publish, Begin
  <2>2. DocObj(d)'
    BY <2>1 DEF DocObj
  <2>3. ReqObj(r)'
    <3>1. PICK op, p : /\ Begin(r, d, op, p)
                       /\ p = "review" => Visible(d) /\ status[d] = "PENDING_REVIEW"
                       /\ p \in {"merge", "review", "reindex", "save", "flag"}
      BY <1>3 DEF Start, uploadComplete, review, reindex, removeDocument, publish
    <3>2. req'[r].pc = p /\ req'[r].doc = d
      BY <3>1 DEF Begin
    <3> QED
      BY <2>1, <3>1, <3>2 DEF ReqObj, DocObj, Visible
  <2> QED
    BY <1>2, <2>1, <2>2, <2>3
<1>4. ASSUME NEW r \in Reqs, RequestStep(r) \/ PublishEsFails(r) \/ RequestFails(r)
      PROVE  (\A q \in Reqs : ReqObj(q)') /\ (\A e \in Docs : DocObj(e)') /\ UNCHANGED faults
  <2>0. PICK d \in Docs : req[r].doc = d
    BY <1>4 DEF ReqDocs, RequestStep, PublishEsFails, RequestFails, At,
         CompleteMerge, CompletePut, CompleteDup, CompleteDrop, CompleteDropRow,
         CompleteHash, CompleteSubmit, ReviewStatus, ReindexStatus, Enqueue,
         RemoveSave, RemoveGetState, RemoveCancel, PublishFlag, PublishEs,
         PublishRestore
  <2>1. Knows(r) /\ ReqObj(r) /\ DocObj(d)
    BY DEF LifeInv
  <2>2. /\ \A p : Then(r, p) => req'[r].pc = p /\ req'[r].doc = d
        /\ Answer(r) => ReqObj(r)'
    <3>1. Answer(r) => req'[r].pc = "idle"
      BY DEF Answer, Idle
    <3> QED
      BY <2>0, <3>1 DEF Then, ReqObj
  <2>3. ~ReindexStatus(r) /\ ~RequestFails(r) /\ ~PublishEsFails(r)
    BY <2>1 DEF ReindexStatus, RequestFails, PublishEsFails, Fault, Knows, At
  <2>4. CASE \/ CompleteMerge(r) \/ CompleteDup(r) \/ CompleteHash(r) \/ Enqueue(r)
             \/ RemoveGetState(r) \/ RemoveCancel(r) \/ PublishFlag(r) \/ PublishEs(r)
             \/ PublishRestore(r)
    <3>1. UNCHANGED <<status, deleted, obj, faults>>
      BY <2>4 DEF CompleteMerge, CompleteDup, CompleteHash, Enqueue, RemoveGetState,
                  RemoveCancel, PublishFlag, PublishEs, PublishRestore
    <3>2. ReqObj(r)'
      <4>1. \/ Answer(r) \/ Then(r, "put") \/ Then(r, "drop") \/ Then(r, "cancel")
            \/ Then(r, "enqueue") \/ Then(r, "esFlag")
            \/ req[r].pc = "dup" /\ Then(r, "hash")
            \/ req[r].pc = "hash" /\ Then(r, "submit")
        BY <2>4 DEF CompleteMerge, CompleteDup, CompleteHash, Enqueue, RemoveGetState,
                    RemoveCancel, PublishFlag, PublishEs, PublishRestore, At
      <4> QED
        BY <2>0, <2>1, <2>2, <3>1, <4>1 DEF ReqObj
    <3>3. DocObj(d)'
      BY <2>1, <3>1 DEF DocObj
    <3> QED
      BY <1>2, <3>1, <3>2, <3>3
  <2>5. CASE CompletePut(r)
    <3>1. UNCHANGED <<status, deleted, faults>> /\ Then(r, "dup") /\ obj'[d] = TRUE
          /\ \A e \in Docs \ {d} : obj'[e] = obj[e]
      BY <2>0, <2>5 DEF CompletePut, Fault
    <3> QED
      BY <1>2, <2>2, <3>1 DEF ReqObj, DocObj
  <2>6. CASE CompleteDrop(r)
    <3>1. /\ UNCHANGED <<status, deleted, faults>> /\ Then(r, "dropRow")
          /\ status[d] = "UPLOADED"
          /\ \A e \in Docs \ {d} : obj'[e] = obj[e]
      BY <2>0, <2>1, <2>6 DEF CompleteDrop, Fault, Knows, UploadPc, At
    <3> QED
      BY <1>2, <2>2, <3>1 DEF ReqObj, DocObj, Started, Processing
  <2>7. CASE CompleteDropRow(r) \/ CompleteSubmit(r) \/ ReviewStatus(r)
    <3>1. /\ UNCHANGED <<deleted, obj, faults>>
          /\ Answer(r) \/ Then(r, "enqueue")
          /\ \A e \in Docs \ {d} : status'[e] = status[e]
          /\ \/ status'[d] = "gone"
             \/ req[r].pc \in {"submit", "review"}
      BY <2>0, <2>7 DEF CompleteDropRow, CompleteSubmit, ReviewStatus, transition, At
    <3>2. ReqObj(r)'
      BY <2>2, <3>1 DEF ReqObj
    <3>3. DocObj(d)'
      BY <2>0, <2>1, <3>1 DEF ReqObj, DocObj, Started, Processing
    <3> QED
      BY <1>2, <3>1, <3>2, <3>3
  <2>8. CASE RemoveSave(r)
    <3>1. /\ UNCHANGED <<obj, faults>> /\ Then(r, "getState") /\ deleted'[d]
          /\ \A e \in Docs \ {d} : UNCHANGED <<status[e], deleted[e]>>
      BY <2>0, <2>8 DEF RemoveSave
    <3> QED
      BY <1>2, <2>2, <3>1 DEF ReqObj, DocObj
  <2> QED
    BY <1>4, <2>3, <2>4, <2>5, <2>6, <2>7, <2>8 DEF RequestStep
<1> QED
  BY <1>1, <1>3, <1>4 DEF ApiNext

LEMMA ApiFlight ==
  ASSUME OneSlot, Users, "api" \notin Faulty, Typed, Typed', LockInv, LifeInv, FlightInv,
         ApiNext, UNCHANGED <<wk, crashes, textless>>
  PROVE  FlightInv'
<1> USE DEF FlightInv
<1>1. /\ \A r \in Reqs : ReqObj(r)'
      /\ \A d \in Docs : DocObj(d)'
      /\ UNCHANGED faults
  BY ApiObjects
<1>2. \A d \in Docs : Turns(d)
  BY ApiLife
<1>3. ASSUME NEW d \in Docs PROVE deleted[d] => deleted'[d]
  BY <1>2 DEF Turns
<1>4. ASSUME NEW w \in Workers PROVE RunEnds(w)'
  <2>1. RunEnds(w) /\ (wk[w].pc # "idle" => wk[w].doc \in Docs)
    BY DEF Typed, WkDocs
  <2>2. {"READY", "FAILED"} \subseteq Started /\ "idle" \notin PurgePc
    BY DEF Started, PurgePc
  <2>3. wk[w].pc # "idle" => Turns(wk[w].doc) /\ (deleted[wk[w].doc] => deleted'[wk[w].doc])
    BY <1>2, <1>3, <2>1
  <2> QED
    BY <1>1, <2>1, <2>2, <2>3 DEF RunEnds, Turns
<1>5. ASSUME NEW d \in Docs PROVE Erring(d)' <=> Erring(d)
  BY DEF Erring
<1>6. faults \in Nat
  BY DEF Typed, TypeOK, StoreTypeOK
\* a document whose job the step retains
<1>7. ASSUME NEW d \in Docs, Retains(d), Waits(d)' => Waits(d)
      PROVE  Tries(d)' /\ Lapses(d)' /\ HasJob(d)'
  BY <1>1, <1>3, <1>5, <1>6, <1>7, TriesKept, LapsesKept, HasJobKept
<1>8. ASSUME NEW d \in Docs PROVE Waits(d)' => Waits(d) \/ \E r \in Reqs : Enqueue(r) /\ req[r].doc = d
  BY ApiWaits DEF Waits
<1>9. CASE \E r \in Reqs : Enqueue(r)
  <2>1. PICK r \in Reqs : Enqueue(r)
    BY <1>9
  <2>2. PICK d \in Docs : req[r].doc = d
    BY <2>1 DEF Enqueue, At, Typed, ReqDocs
  <2>3. PICK s \in Stages : enqueue(d, s)
    BY <2>1, <2>2 DEF Enqueue, Stages
  <2>4. ASSUME NEW e \in Docs \ {d} PROVE Tries(e)' /\ Lapses(e)' /\ HasJob(e)'
    <3>1. jobs'[e] = jobs[e]
      BY <2>3 DEF enqueue, Typed, TypeOK, QueueTypeOK
    <3>2. \A q \in Reqs : req[q].doc # e
      BY <2>2 DEF OneSlot
    <3> QED
      BY <1>7, <1>8, <3>1, <3>2, SameRetains
  <2>5. Tries(d)' /\ Lapses(d)' /\ HasJob(d)'
    <3>1. CASE jobs[d].state = "none"
      <4>1. jobs'[d] = [NoJob EXCEPT !.state = "pending", !.from = s]
        BY <2>3, <3>1 DEF enqueue, Typed, TypeOK, QueueTypeOK
      <4>2. jobs'[d].state = "pending" /\ jobs'[d].made = 0 /\ jobs'[d].stalls = 0
        BY <4>1 DEF NoJob
      <4>3. ~Erring(d)
        BY <3>1, RunLive DEF Erring, ErrPc
      <4>4. crashes \in Nat
        BY DEF Typed, TypeOK, WorkerTypeOK
      <4> QED
        BY <1>1, <1>5, <1>6, <4>2, <4>3, <4>4 DEF Tries, Lapses, HasJob, GivenUp, Live, Stalled
    <3>2. CASE jobs[d].state # "none"
      <4>1. jobs' = jobs /\ UNCHANGED <<status, deleted>>
        BY <2>1, <2>3, <3>2 DEF enqueue, Enqueue, storeVars, rowVars
      <4>2. deleted[d]
        BY <2>1, <2>2, <3>2 DEF LifeInv, Knows, Enqueue, At
      <4> QED
        BY <4>1, <4>2, SameRetains, LapsesKept DEF Tries, HasJob, GivenUp
    <3> QED
      BY <3>1, <3>2
  <2> QED
    BY <1>1, <1>4, <2>4, <2>5
<1>10. CASE \E r \in Reqs : RemoveCancel(r)
  <2>1. PICK r \in Reqs : RemoveCancel(r)
    BY <1>10
  <2>2. PICK d \in Docs : req[r].doc = d
    BY <2>1 DEF RemoveCancel, At, Typed, ReqDocs
  <2>3. remove(d) /\ deleted[d] /\ ~Enqueue(r)
    BY <2>1, <2>2 DEF RemoveCancel, At, LifeInv, Knows, Enqueue
  <2>4. ASSUME NEW e \in Docs \ {d} PROVE Tries(e)' /\ Lapses(e)' /\ HasJob(e)'
    <3>1. Retains(e)
      BY <2>3, RemoveRetains DEF Typed, TypeOK
    <3>2. \A q \in Reqs : req[q].doc # e
      BY <2>2 DEF OneSlot
    <3> QED
      BY <1>7, <1>8, <3>1, <3>2
  <2>5. Tries(d)' /\ Lapses(d)' /\ HasJob(d)'
    <3>1. deleted'[d]
      BY <1>3, <2>3
    <3>2. CASE jobs'[d] = jobs[d]
      BY <3>1, <3>2, SameRetains, LapsesKept DEF Tries, HasJob, GivenUp
    <3>3. CASE jobs'[d] = NoJob
      <4>1. crashes \in Nat
        BY DEF Typed, TypeOK, WorkerTypeOK
      <4> QED
        BY <3>1, <3>3, <4>1 DEF Tries, HasJob, GivenUp, Lapses, Stalled, NoJob
    <3> QED
      BY <2>3, <3>2, <3>3, RemoveRetains DEF Typed, TypeOK
  <2> QED
    BY <1>1, <1>4, <2>4, <2>5
<1>11. CASE ~(\E r \in Reqs : Enqueue(r) \/ RemoveCancel(r))
  <2>1. jobs' = jobs
    BY <1>11 DEF ApiNext, uploadInit, Start, uploadComplete, review, reindex,
         removeDocument, publish, Begin, RequestStep, PublishEsFails, RequestFails,
         CompleteMerge, CompletePut, CompleteDup, CompleteDrop, CompleteDropRow,
         CompleteHash, CompleteSubmit, ReviewStatus, ReindexStatus, RemoveSave,
         RemoveGetState, PublishFlag, PublishEs, PublishRestore
  <2>2. ASSUME NEW d \in Docs PROVE Tries(d)' /\ Lapses(d)' /\ HasJob(d)'
    BY <1>7, <1>8, <1>11, <2>1, SameRetains
  <2> QED
    BY <1>1, <1>4, <2>2
<1> QED
  BY <1>9, <1>10, <1>11

\* a run goes on
LEMMA RunFlight ==
  ASSUME Typed, Typed', LockInv, GenInv, IndexOnly, LifeInv, FlightInv, UNCHANGED req,
         UNCHANGED textless,
         NEW w \in Workers, WorkerStep(w) \/ StepFails(w) \/ BuildFails(w), RunsOn(w)
  PROVE  FlightInv'
<1> USE DEF FlightInv
<1>1. PICK d \in Docs : wk[w].doc = d
  BY DEF RunsOn, Typed, WkDocs
<1>2. /\ UNCHANGED <<deleted, jobs, crashes>>
      /\ \A e \in Docs \ {d} : status'[e] = status[e]
      /\ ~deleted[d] => status[d] \in Started /\ status'[d] \in Started
  <2>1. UNCHANGED crashes
    BY DEF WorkerStep, StepFails, BuildFails, Fetch, StatusStep, Chunk, Parse, assertNotDeleted,
           ClearChunks, ClearEs, Insert, Load, IndexChunk, IndexDone, Build, PurgeChunks,
           PurgeEs, PurgeGraph, PurgeObject, Ack, Nack
  <2>2. /\ UNCHANGED deleted
        /\ \A e \in Docs \ {d} : status'[e] = status[e]
        /\ ~deleted[d] => status'[d] \in ShownAt(wk'[w].pc)
    BY <1>1, RunShows DEF LifeInv
  <2> QED
    BY <1>1, <2>1, <2>2, ShownStarted DEF RunsOn, LifeInv, RunLife
<1>3. /\ faults' \in {faults, faults + 1}
      /\ ~deleted[d] => /\ wk'[w].pc \in ErrPc => \/ wk[w].pc \in ErrPc
                                                  \/ faults' = faults + 1
                                                  \/ d \in textless
                        /\ wk'[w].pc = "ack" => status'[d] = "READY"
                        /\ wk'[w].pc = "nack" => status'[d] = "FAILED" \/ faults' > 0
                        /\ UNCHANGED obj
      /\ wk'[w].pc \in PurgePc => deleted[d]
      /\ \A e \in Docs \ {d} : obj'[e] = obj[e]
  <2>1. InsertFindsNoRows
    BY DEF GenInv, InsertFindsNoRows, ClearedPc
  <2> QED
    BY <1>1, <2>1, RunThrows DEF LifeInv
<1>4. /\ wk[w].pc # "idle" /\ wk'[w].doc = d /\ \A v \in Workers \ {w} : wk'[v] = wk[v]
      /\ Live(d) /\ \A v \in Workers \ {w} : wk[v].pc # "idle" => wk[v].doc \in Docs \ {d}
  BY <1>1, RunLive DEF RunsOn, Typed, WkDocs
<1>5. ASSUME NEW r \in Reqs PROVE ReqObj(r)'
  <2>1. SUFFICES ASSUME req[r].pc \in {"dup", "hash", "submit", "review"}
                 PROVE  obj'[req[r].doc]
    BY DEF ReqObj
  <2>2. req[r].doc \in Docs /\ ~deleted[req[r].doc] /\ obj[req[r].doc]
    BY <2>1 DEF LifeInv, Knows, UploadPc, ReqObj, Typed, ReqDocs
  <2> QED
    BY <1>3, <2>2
<1>6. ASSUME NEW v \in Workers PROVE RunEnds(v)'
  <2>1. CASE v = w
    BY <1>2, <1>3, <1>4, <2>1 DEF RunEnds
  <2>2. CASE v # w
    <3>1. wk'[v] = wk[v] /\ RunEnds(v)
      BY <1>4, <2>2
    <3>2. CASE wk[v].pc = "idle"
      BY <3>1, <3>2 DEF RunEnds, PurgePc
    <3>3. CASE wk[v].pc # "idle"
      <4>1. faults > 0 => faults' > 0
        BY <1>3 DEF Typed, TypeOK, StoreTypeOK
      <4> QED
        BY <1>2, <1>4, <2>2, <3>1, <3>3, <4>1 DEF RunEnds
    <3> QED
      BY <3>2, <3>3
  <2> QED
    BY <2>1, <2>2
<1>7. ASSUME NEW e \in Docs PROVE DocObj(e)'
  <2>1. CASE e = d
    BY <1>2, <1>3, <2>1 DEF DocObj
  <2>2. CASE e # d
    <3>1. UNCHANGED <<deleted[e], status[e], obj[e]>>
      BY <1>2, <1>3, <2>2
    <3> QED
      BY <3>1 DEF DocObj
  <2> QED
    BY <2>1, <2>2
<1>8. ASSUME NEW e \in Docs PROVE Tries(e)'
  <2>1. Erring(e)' => Erring(e) \/ faults' = faults + 1 \/ deleted[e] \/ e \in textless
    <3>1. SUFFICES ASSUME NEW v \in Workers, wk'[v].doc = e, wk'[v].pc \in ErrPc,
                          ~deleted[e], e \notin textless
                   PROVE  Erring(e) \/ faults' = faults + 1
      BY DEF Erring
    <3>2. CASE v = w
      BY <1>1, <1>3, <1>4, <3>1, <3>2 DEF Erring
    <3>3. CASE v # w
      BY <1>4, <3>1, <3>3 DEF Erring
    <3> QED
      BY <3>2, <3>3
  <2>2. Retains(e) /\ faults' >= faults
    BY <1>2, <1>3, SameRetains DEF Typed, TypeOK, StoreTypeOK
  <2> QED
    BY <1>2, <2>1, <2>2, TriesKept
<1>9. ASSUME NEW e \in Docs PROVE Lapses(e)' /\ HasJob(e)'
  <2>1. Retains(e)
    BY <1>2, SameRetains
  <2>2. HasJob(e)'
    <3>1. CASE e = d
      BY <1>2, <1>4, <3>1 DEF HasJob, GivenUp, Live
    <3>2. CASE e # d
      <4>1. faults' >= faults
        BY <1>3 DEF Typed, TypeOK, StoreTypeOK
      <4>2. Waits(e)' => Waits(e)
        BY <1>2, <3>2 DEF Waits
      <4> QED
        BY <1>2, <2>1, <4>1, <4>2, HasJobKept
    <3> QED
      BY <3>1, <3>2
  <2> QED
    BY <1>2, <2>1, <2>2, LapsesKept
<1> QED
  BY <1>5, <1>6, <1>7, <1>8, <1>9

\* what leaves the rows, the objects and the requests, and starts no run
\* but at its beginning
LEMMA QueueFlight ==
  ASSUME Typed, Typed', FlightInv, UNCHANGED <<storeVars, req, textless>>,
         \A w \in Workers : wk'[w] = wk[w] \/ wk'[w].pc \in {"idle", "fetch"}
  PROVE  /\ \A r \in Reqs : ReqObj(r)'
         /\ \A w \in Workers : RunEnds(w)'
         /\ \A d \in Docs : DocObj(d)' /\ (Waits(d)' <=> Waits(d)) /\ (Erring(d)' => Erring(d))
         /\ \A d \in Docs : Retains(d) => Tries(d)'
         /\ \A d \in Docs : Retains(d) /\ UNCHANGED crashes => Lapses(d)' /\ HasJob(d)'
<1> USE DEF FlightInv
<1>1. UNCHANGED <<status, deleted, obj, faults>>
  BY DEF storeVars, rowVars, blobVars
<1>2. \A r \in Reqs : ReqObj(r)'
  BY <1>1 DEF ReqObj
<1>3. ASSUME NEW w \in Workers PROVE RunEnds(w)'
  <2>1. RunEnds(w)
    OBVIOUS
  <2>2. CASE wk'[w] = wk[w]
    BY <1>1, <2>1, <2>2 DEF RunEnds
  <2>3. CASE wk'[w].pc \in {"idle", "fetch"}
    BY <2>3 DEF RunEnds, PurgePc
  <2> QED
    BY <2>2, <2>3
<1>4. ASSUME NEW d \in Docs PROVE DocObj(d)' /\ (Waits(d)' <=> Waits(d)) /\ (Erring(d)' => Erring(d))
  BY <1>1 DEF DocObj, Waits, Erring, ErrPc
<1>5. ASSUME NEW d \in Docs, Retains(d) PROVE Tries(d)'
  <2>1. faults' >= faults
    BY <1>1 DEF Typed, TypeOK, StoreTypeOK
  <2> QED
    BY <1>1, <1>4, <1>5, <2>1, TriesKept
<1>6. ASSUME NEW d \in Docs, Retains(d), UNCHANGED crashes PROVE Lapses(d)' /\ HasJob(d)'
  <2>1. faults' >= faults
    BY <1>1 DEF Typed, TypeOK, StoreTypeOK
  <2> QED
    BY <1>4, <1>6, <2>1, LapsesKept, HasJobKept
<1> QED
  BY <1>2, <1>3, <1>4, <1>5, <1>6

\* a run ends: process() returned, or threw
LEMMA EndFlight ==
  ASSUME MaxFaults < Attempts, Typed, Typed', LockInv, FlightInv, UNCHANGED <<req, textless>>,
         NEW w \in Workers, Ack(w) \/ Nack(w)
  PROVE  FlightInv'
<1> USE DEF FlightInv
<1>0. /\ UNCHANGED <<storeVars, crashes>> /\ wk' = [wk EXCEPT ![w] = Free]
      /\ wk[w].pc \in {"ack", "nack"} /\ (Ack(w) => wk[w].pc = "ack")
      /\ (Nack(w) => wk[w].pc = "nack")
  BY DEF Ack, Nack, Runs
<1>1. /\ \A v \in Workers \ {w} : wk'[v] = wk[v]
      /\ wk'[w].pc = "idle"
  BY <1>0 DEF Free, Typed, TypeOK, WorkerTypeOK
<1>2. PICK d \in Docs : /\ wk[w].doc = d /\ Live(d)
                        /\ \A v \in Workers \ {w} : wk[v].pc # "idle" => wk[v].doc # d
  BY <1>0, RunLive
<1>3. /\ \A r \in Reqs : ReqObj(r)'
      /\ \A v \in Workers : RunEnds(v)'
      /\ \A e \in Docs : DocObj(e)' /\ (Waits(e)' <=> Waits(e))
      /\ \A e \in Docs : Retains(e) => Tries(e)' /\ Lapses(e)' /\ HasJob(e)'
  BY <1>0, <1>1, QueueFlight
<1>4. ~Erring(d)'
  BY <1>1, <1>2 DEF Erring, ErrPc
<1>5. UNCHANGED <<status, deleted, faults>> /\ faults \in 0..MaxFaults /\ crashes \in Nat
  BY <1>0 DEF storeVars, rowVars, Typed, TypeOK, StoreTypeOK, WorkerTypeOK
<1>6. ASSUME NEW s \in {"completed", "failed"}, Retire(d, s),
             deleted[d] \/ status[d] \notin Processing \/ GivenUp(d)
      PROVE  FlightInv'
  <2>1. /\ \A e \in Docs \ {d} : Retains(e)
        /\ ~Live(d)' /\ jobs'[d].made = 0 /\ jobs'[d].stalls = 0
    BY <1>6, RetireRetains DEF Typed, TypeOK
  <2>2. Tries(d)' /\ Lapses(d)' /\ HasJob(d)'
    BY <1>0, <1>4, <1>5, <1>6, <2>1 DEF Tries, Lapses, HasJob, GivenUp, Stalled, Live
  <2> QED
    BY <1>3, <2>1, <2>2
<1>7. CASE Ack(w)
  <2>1. deleted[d] \/ status[d] = "READY"
    BY <1>0, <1>2, <1>7 DEF RunEnds
  <2>2. Retire(d, "completed")
    BY <1>2, <1>7 DEF Ack, Complete, JobDoc
  <2> QED
    BY <1>6, <2>1, <2>2 DEF Processing
<1>8. CASE Nack(w)
  <2>1. FailAttempt(d)
    BY <1>2, <1>8 DEF Nack, JobDoc
  <2>2. Erring(d)
    BY <1>0, <1>2, <1>8 DEF Erring, ErrPc
  <2>3. jobs[d].made \in Nat /\ jobs[d].stalls \in Nat
    BY DEF Typed, TypeOK, QueueTypeOK, Job
  <2>4. \/ deleted[d] \/ status[d] \notin Processing \/ GivenUp(d)
        \/ jobs[d].made + 1 < Attempts
    <3>1. CASE d \in textless
      <4>1. deleted[d] \/ status[d] = "FAILED" \/ faults > 0
        BY <1>0, <1>2, <1>8 DEF RunEnds
      <4> QED
        BY <3>1, <4>1 DEF Processing, GivenUp
    <3>2. CASE d \notin textless
      BY <1>5, <2>2, <2>3, <3>2 DEF Tries
    <3> QED
      BY <3>1, <3>2
  <2>5. CASE jobs[d].made + 1 < Attempts
    <3>1. jobs' = [jobs EXCEPT ![d].state = "pending", ![d].made = @ + 1,
                               ![d].owner = NoWorker]
      BY <2>1, <2>5 DEF FailAttempt
    <3>2. /\ \A e \in Docs \ {d} : jobs'[e] = jobs[e]
          /\ jobs'[d].state = "pending" /\ jobs'[d].made = jobs[d].made + 1
          /\ jobs'[d].stalls = jobs[d].stalls
      BY <3>1 DEF Typed, TypeOK, QueueTypeOK, Job
    <3>3. Tries(d)' /\ Lapses(d)' /\ HasJob(d)'
      BY <1>0, <1>4, <1>5, <2>2, <3>2 DEF Tries, Lapses, HasJob, GivenUp, Stalled, Live
    <3> QED
      BY <1>3, <3>2, <3>3, SameRetains
  <2>6. CASE ~(jobs[d].made + 1 < Attempts)
    BY <1>6, <2>1, <2>4, <2>6 DEF FailAttempt
  <2> QED
    BY <2>5, <2>6
<1> QED
  BY <1>7, <1>8

LEMMA WorkerFlight ==
  ASSUME MaxFaults < Attempts, Typed, Typed', LockInv, GenInv, IndexOnly, LifeInv, FlightInv,
         UNCHANGED <<req, textless>>, WorkerNext
  PROVE  FlightInv'
<1> USE DEF FlightInv
<1>1. CASE \E w \in Workers : WorkerStep(w) \/ StepFails(w) \/ BuildFails(w)
  BY <1>1, StepRunsOn, RunFlight, EndFlight
<1>2. ASSUME NEW w \in Workers, NEW d \in Docs, Claim(w, d) PROVE FlightInv'
  <2>1. /\ wk'[w].pc = "fetch" /\ \A v \in Workers \ {w} : wk'[v] = wk[v]
        /\ UNCHANGED <<storeVars, crashes>>
    BY <1>2 DEF Claim, Typed, TypeOK, WorkerTypeOK
  <2>2. /\ jobs[d].state = "pending"
        /\ jobs' = [jobs EXCEPT ![d].state = "active", ![d].owner = w]
    BY <1>2 DEF Claim, Take
  <2>3. /\ \A e \in Docs \ {d} : jobs'[e] = jobs[e]
        /\ jobs'[d].state = "active" /\ jobs'[d].owner = w
        /\ jobs'[d].made = jobs[d].made /\ jobs'[d].stalls = jobs[d].stalls
    BY <2>2 DEF Typed, TypeOK, QueueTypeOK, Job
  <2>4. /\ \A r \in Reqs : ReqObj(r)'
        /\ \A v \in Workers : RunEnds(v)'
        /\ \A e \in Docs : DocObj(e)' /\ (Erring(e)' => Erring(e))
        /\ \A e \in Docs : Retains(e) => Tries(e)' /\ Lapses(e)' /\ HasJob(e)'
    BY <2>1, QueueFlight
  <2>5. UNCHANGED <<deleted, faults>> /\ w # NoWorker
    BY <2>1 DEF storeVars, rowVars
  <2>6. Tries(d)' /\ Lapses(d)' /\ HasJob(d)'
    BY <2>1, <2>3, <2>4, <2>5 DEF Tries, Lapses, HasJob, GivenUp, Stalled, Live
  <2> QED
    BY <2>3, <2>4, <2>6, SameRetains
<1>3. ASSUME NEW d \in Docs, StalledCheck(d) PROVE FlightInv'
  <2>1. /\ UNCHANGED <<storeVars, wk, crashes>> /\ Stalled(d) /\ RecoverStalled(d)
    BY <1>3 DEF StalledCheck, RecoverStalled
  <2>2. /\ \A r \in Reqs : ReqObj(r)'
        /\ \A v \in Workers : RunEnds(v)'
        /\ \A e \in Docs : DocObj(e)' /\ (Erring(e)' => Erring(e))
        /\ \A e \in Docs : Retains(e) => Tries(e)' /\ Lapses(e)' /\ HasJob(e)'
    BY <2>1, QueueFlight
  <2>3. ~Erring(d)
    <3>1. jobs[d].owner = NoWorker
      BY <2>1 DEF Stalled
    <3> QED
      BY <3>1 DEF Erring, ErrPc, LockInv, HoldsLock
  <2>4. /\ jobs[d].stalls \in Nat /\ jobs[d].made \in Nat /\ crashes \in Nat
        /\ jobs[d].stalls + 1 <= crashes
    BY <2>1 DEF Typed, TypeOK, QueueTypeOK, Job, WorkerTypeOK, Lapses
  <2>5. UNCHANGED <<deleted, faults>> /\ faults \in Nat
    BY <2>1 DEF storeVars, rowVars, Typed, TypeOK, StoreTypeOK
  <2>6. CASE jobs[d].stalls < MaxStalled
    <3>1. jobs' = [jobs EXCEPT ![d].state = "pending", ![d].stalls = @ + 1]
      BY <2>1, <2>6 DEF RecoverStalled
    <3>2. /\ \A e \in Docs \ {d} : jobs'[e] = jobs[e]
          /\ jobs'[d].state = "pending" /\ jobs'[d].made = jobs[d].made
          /\ jobs'[d].stalls = jobs[d].stalls + 1
      BY <3>1 DEF Typed, TypeOK, QueueTypeOK, Job
    <3>3. Tries(d)' /\ Lapses(d)' /\ HasJob(d)'
      BY <2>1, <2>2, <2>4, <2>5, <3>2 DEF Tries, Lapses, HasJob, GivenUp, Stalled, Live
    <3> QED
      BY <2>2, <3>2, <3>3, SameRetains
  <2>7. CASE ~(jobs[d].stalls < MaxStalled)
    <3>1. Retire(d, "failed")
      BY <2>1, <2>7 DEF RecoverStalled
    <3>2. /\ \A e \in Docs \ {d} : Retains(e)
          /\ ~Live(d)' /\ jobs'[d].made = 0 /\ jobs'[d].stalls = 0
      BY <3>1, RetireRetains DEF Typed, TypeOK
    <3>3. ~(crashes <= MaxStalled)
      BY <2>4, <2>7
    <3>4. Tries(d)' /\ Lapses(d)' /\ HasJob(d)'
      BY <2>1, <2>2, <2>3, <2>4, <2>5, <3>2, <3>3
      DEF Tries, Lapses, HasJob, GivenUp, Stalled, Live
    <3> QED
      BY <2>2, <3>2, <3>4
  <2> QED
    BY <2>6, <2>7
<1>4. CASE OtherFinishes /\ UNCHANGED <<storeVars, wk, crashes>>
  <2>1. \A d \in Docs : Retains(d)
    BY <1>4 DEF OtherFinishes, Typed, TypeOK, QueueTypeOK, Job, NoJob, Live, Retains
  <2>2. /\ \A r \in Reqs : ReqObj(r)'
        /\ \A v \in Workers : RunEnds(v)'
        /\ \A e \in Docs : DocObj(e)'
        /\ \A e \in Docs : Retains(e) => Tries(e)' /\ Lapses(e)' /\ HasJob(e)'
    BY <1>4, QueueFlight
  <2> QED
    BY <2>1, <2>2
<1>5. CASE Crash
  <2>1. /\ UNCHANGED storeVars /\ crashes' = crashes + 1 /\ crashes \in Nat
        /\ \A w \in Workers : wk'[w].pc = "idle"
        /\ jobs' = [d \in Docs |-> [jobs[d] EXCEPT !.owner = NoWorker]]
    BY <1>5 DEF Crash, Free, ReleaseLocks, Typed, TypeOK, WorkerTypeOK
  <2>2. /\ \A r \in Reqs : ReqObj(r)'
        /\ \A v \in Workers : RunEnds(v)'
        /\ \A e \in Docs : DocObj(e)' /\ (Waits(e)' <=> Waits(e)) /\ (Erring(e)' => Erring(e))
    BY <2>1, QueueFlight
  <2>3. ASSUME NEW d \in Docs PROVE Tries(d)' /\ Lapses(d)' /\ HasJob(d)'
    <3>1. /\ jobs'[d].state = jobs[d].state /\ jobs'[d].made = jobs[d].made
          /\ jobs'[d].stalls = jobs[d].stalls /\ jobs[d].stalls \in Nat
      BY <2>1 DEF Typed, TypeOK, QueueTypeOK, Job
    <3>2. UNCHANGED <<deleted, faults, status>>
      BY <2>1 DEF storeVars, rowVars
    <3>3. Tries(d)'
      BY <2>2, <3>1, <3>2 DEF Tries
    <3>4. Lapses(d)'
      BY <2>1, <3>1 DEF Lapses
    <3>5. HasJob(d)'
      BY <2>1, <2>2, <3>1, <3>2 DEF HasJob, GivenUp, Waits, Live
    <3> QED
      BY <3>3, <3>4, <3>5
  <2> QED
    BY <2>2, <2>3
<1> QED
  BY <1>1, <1>2, <1>3, <1>4, <1>5 DEF WorkerNext

LEMMA FlightStep ==
  ASSUME OneSlot, Users, "api" \notin Faulty, MaxFaults < Attempts,
         Typed, LockInv, GenInv, IndexOnly, LifeInv, FlightInv, [Next]_vars
  PROVE  FlightInv'
<1>1. Typed'
  BY TypedStep
<1>2. CASE UNCHANGED vars
  <2>1. UNCHANGED <<storeVars, jobs, req, wk, crashes, textless>>
    BY <1>2 DEF vars, sysVars
  <2>2. \A d \in Docs : Retains(d)
    BY <2>1, SameRetains
  <2> QED
    BY <1>1, <2>1, <2>2, QueueFlight DEF FlightInv
<1> QED
  BY <1>1, <1>2, ApiFlight, WorkerFlight DEF Next, Step

LEMMA FlightInit == Init => FlightInv
<1> SUFFICES ASSUME Init PROVE FlightInv
  OBVIOUS
<1>1. \A r \in Reqs : ReqObj(r)
  BY DEF Init, ReqInit, Idle, ReqObj
<1>2. \A w \in Workers : wk[w] = Free
  BY DEF Init, WorkerInit
<1>3. \A w \in Workers : RunEnds(w)
  BY <1>2 DEF Free, RunEnds, PurgePc
<1>4. ASSUME NEW d \in Docs PROVE DocObj(d) /\ Tries(d) /\ Lapses(d) /\ HasJob(d)
  <2>1. status[d] = "absent" /\ faults = 0 /\ crashes = 0 /\ jobs[d] = NoJob /\ ~Erring(d)
    BY <1>2 DEF Init, StoreInit, QueueInit, WorkerInit, Erring, Free, ErrPc
  <2> QED
    BY <2>1 DEF DocObj, Tries, Lapses, HasJob, GivenUp, Stalled, NoJob, Started, Processing
<1> QED
  BY <1>1, <1>3, <1>4 DEF FlightInv

\* When requests come one at a time, nobody asks for a rebuild, no call of the
\* API fails and fewer calls of the worker fail than a job has attempts, a
\* document in a processing status always has a job that will move it on, for
\* any number of documents and slots and across retries and recovered runs,
\* unless the worker died too often, or a document without text meets a failed
\* call.
THEOREM JobUntilSettled ==
  ASSUME OneSlot, Users, "api" \notin Faulty, MaxFaults < Attempts
  PROVE  Spec => []InFlightHasJob
<1>1. Spec => []GenInv
  <2>1. Init => LockInv /\ GenInv
    BY DEF Init, WorkerInit, Free, LockInv, GenInv, ClearedPc
  <2>2. Typed /\ LockInv /\ GenInv /\ [Next]_vars => GenInv'
    BY GenStep, LocksExclude
  <2> QED
    BY <2>1, <2>2, TypedInit, TypedStep, LockStep, PTL DEF Spec
<1>2. Typed /\ LockInv /\ GenInv /\ IndexOnly /\ LifeInv /\ FlightInv /\ [Next]_vars
        => FlightInv'
  BY FlightStep
<1>3. Spec => []FlightInv
  BY <1>1, <1>2, FlightInit, LifeHolds, PTL DEF Spec
<1>4. FlightInv => InFlightHasJob
  BY DEF FlightInv, HasJob, GivenUp, Abandoned, InFlightHasJob
<1> QED
  BY <1>3, <1>4, PTL
-----------------------------------------------------------------------------
(* What is purged stays purged, when no two documents have the same bytes *)

OwnBytes == /\ Copied = {}
            /\ \A d, e \in Docs : d # e => Content[d] # Content[e]

\* nothing of d is in the stores, as far as calls have not failed
EsEmptied(d)    == faults = 0 => es[d] = {}
GraphEmptied(d) == faults = 0 /\ GraphUp => graph[d] = {}

\* without its object a document has nothing in the stores either, and, unless
\* it has been deleted, no job and no review behind it
Emptied(d)    == ~obj[d] => chunks[d] = {} /\ EsEmptied(d) /\ GraphEmptied(d)
BeforeObj(d)  == ~deleted[d] /\ ~obj[d] => /\ jobs[d].state = "none"
                                           /\ status[d] \in {"absent", "UPLOADED"}

\* a request past the merge has stored the object, or its document is deleted
PastPut == {"dup", "hash", "submit", "review", "reindex", "enqueue"}
ReqKeeps(r) == LET d == req[r].doc
                   p == req[r].pc IN
               /\ p \notin {"drop", "dropRow"}
               /\ p \in PastPut => obj[d] \/ deleted[d]
               /\ p \in {"getState", "cancel"} => deleted[d]

\* a run of the pipeline has its object; a purge has emptied store by store
RunKeeps(w) ==
  LET d == wk[w].doc
      p == wk[w].pc IN
  /\ p = "fetch" => obj[d] \/ deleted[d]
  /\ p \in TryPc \union GraphPc => obj[d]
  /\ p \in PurgePc => deleted[d]
  /\ p \in {"purgeEs", "purgeGraph", "purgeObj"} => chunks[d] = {}
  /\ p \in {"purgeGraph", "purgeObj"} => EsEmptied(d)
  /\ p = "purgeObj" => GraphEmptied(d)

PurgeInv == /\ \A d \in Docs : Emptied(d) /\ BeforeObj(d)
            /\ \A r \in Reqs : ReqKeeps(r)
            /\ \A w \in Workers : RunKeeps(w)

\* a step that brings nothing of e back
Spares(e) == /\ deleted[e] => deleted'[e]
             /\ obj[e] => obj'[e]
             /\ chunks[e] = {} => chunks'[e] = {}
             /\ EsEmptied(e) => EsEmptied(e)'
             /\ GraphEmptied(e) => GraphEmptied(e)'

LEMMA SparesEmptied ==
  ASSUME NEW e \in Docs, Spares(e), Emptied(e)
  PROVE  Emptied(e)'
BY DEF Spares, Emptied

LEMMA SparesRun ==
  ASSUME NEW w \in Workers, wk[w].pc # "idle" => Spares(wk[w].doc), RunKeeps(w), wk'[w] = wk[w]
  PROVE  RunKeeps(w)'
<1>1. CASE wk[w].pc = "idle"
  BY <1>1 DEF RunKeeps, TryPc, GraphPc, PurgePc
<1>2. CASE wk[w].pc # "idle"
  <2>1. PICK d, p : wk[w].doc = d /\ wk[w].pc = p
    OBVIOUS
  <2>2. Spares(d)
    BY <1>2, <2>1
  <2> QED
    BY <2>1, <2>2 DEF Spares, RunKeeps
<1> QED
  BY <1>1, <1>2

LEMMA SparesReq ==
  ASSUME NEW r \in Reqs, req[r].pc # "idle" => Spares(req[r].doc), ReqKeeps(r), req'[r] = req[r]
  PROVE  ReqKeeps(r)'
BY DEF Spares, ReqKeeps, PastPut

\* nothing but e's row and job can end its time before the object
LEMMA SameBefore ==
  ASSUME NEW e \in Docs, BeforeObj(e), deleted[e] => deleted'[e], obj[e] => obj'[e],
         jobs[e].state = "none" => jobs'[e].state = "none", status'[e] = status[e]
  PROVE  BeforeObj(e)'
BY DEF BeforeObj

LEMMA FlagEmpties ==
  ASSUME Typed, NEW e \in Docs, NEW d \in Docs, NEW flag, setCompanyPublic(d, flag),
         es[e] = {}
  PROVE  es'[e] = {}
BY DEF setCompanyPublic, Typed, TypeOK, StoreTypeOK

LEMMA UntouchedSpares ==
  ASSUME NEW e \in Docs, deleted[e] => deleted'[e], obj[e] => obj'[e],
         UNCHANGED <<chunks[e], es[e], graph[e]>>, faults' = 0 => faults = 0
  PROVE  Spares(e)
BY DEF Spares, EsEmptied, GraphEmptied
-----------------------------------------------------------------------------
LEMMA ApiSpares ==
  ASSUME Typed, PurgeInv, ApiNext, NEW e \in Docs
  PROVE  Spares(e)
<1> USE DEF storeVars, rowVars, blobVars, indexVars, Typed, TypeOK, StoreTypeOK
<1>1. ASSUME NEW d \in Docs, uploadInit(d) PROVE Spares(e)
  BY <1>1, UntouchedSpares DEF uploadInit
<1>2. ASSUME NEW r \in Reqs, NEW d \in Docs, Start(r, d) PROVE Spares(e)
  BY <1>2, UntouchedSpares DEF Start, uploadComplete, review, reindex, removeDocument,
                               publish, Begin
<1>3. Fault("api") => faults' # 0
  BY DEF Fault
<1>4. ASSUME NEW r \in Reqs, RequestStep(r) \/ PublishEsFails(r) \/ RequestFails(r)
      PROVE  Spares(e)
  <2>1. req[r].pc \notin {"drop", "dropRow"}
    BY DEF PurgeInv, ReqKeeps
  <2>2. CASE \/ CompleteMerge(r) \/ CompleteDup(r) \/ CompleteHash(r) \/ CompleteSubmit(r)
             \/ ReviewStatus(r) \/ ReindexStatus(r) \/ Enqueue(r) \/ RemoveGetState(r)
             \/ RemoveCancel(r) \/ PublishFlag(r) \/ PublishRestore(r) \/ RequestFails(r)
    <3>1. UNCHANGED <<deleted, obj, chunks, es, graph>> /\ (faults' = 0 => faults = 0)
      BY <1>3, <2>2 DEF CompleteMerge, CompleteDup, CompleteHash, CompleteSubmit,
           ReviewStatus, ReindexStatus, Enqueue, RemoveGetState, RemoveCancel, PublishFlag,
           PublishRestore, RequestFails
    <3> QED
      BY <3>1, UntouchedSpares
  <2>3. CASE CompletePut(r) \/ RemoveSave(r)
    <3>1. /\ UNCHANGED <<chunks, es, graph>> /\ (faults' = 0 => faults = 0)
          /\ deleted[e] => deleted'[e]
          /\ obj[e] => obj'[e]
      BY <1>3, <2>3 DEF CompletePut, RemoveSave
    <3> QED
      BY <3>1, UntouchedSpares
  <2>4. CASE PublishEs(r) \/ PublishEsFails(r)
    <3>1. /\ UNCHANGED <<deleted, obj, chunks, graph>>
          /\ faults' = 0 => faults = 0
          /\ es' = es \/ \E flag : setCompanyPublic(req[r].doc, flag)
          /\ req[r].doc \in Docs
      BY <1>3, <2>4 DEF PublishEs, PublishEsFails, At, ReqDocs
    <3>2. es[e] = {} => es'[e] = {}
      BY <3>1, FlagEmpties
    <3> QED
      BY <3>1, <3>2 DEF Spares, EsEmptied, GraphEmptied
  <2>5. ~CompleteDrop(r) /\ ~CompleteDropRow(r)
    BY <2>1 DEF CompleteDrop, CompleteDropRow, At
  <2> QED
    BY <1>4, <2>2, <2>3, <2>4, <2>5 DEF RequestStep
<1> QED
  BY <1>1, <1>2, <1>4 DEF ApiNext

LEMMA ApiPurge ==
  ASSUME OwnBytes, Typed, PurgeInv, ApiNext, UNCHANGED <<wk, crashes>>
  PROVE  PurgeInv'
<1> USE DEF storeVars, rowVars, blobVars, Typed, TypeOK, StoreTypeOK, ReqTypeOK
<1>1. \A e \in Docs : Spares(e) /\ Emptied(e)'
  BY ApiSpares, SparesEmptied DEF PurgeInv
<1>2. \A w \in Workers : RunKeeps(w)'
  BY <1>1, SparesRun DEF PurgeInv, WkDocs
\* a step that moves slot r to p, for document d
<1>3. ASSUME NEW r \in Reqs, \A q \in Reqs \ {r} : req'[q] = req[q], ReqKeeps(r)',
             \A e \in Docs : BeforeObj(e)'
      PROVE  PurgeInv'
  <2>1. \A q \in Reqs : ReqKeeps(q)'
    BY <1>1, <1>3, SparesReq DEF PurgeInv, ReqDocs
  <2> QED
    BY <1>1, <1>2, <1>3, <2>1 DEF PurgeInv
<1>4. ASSUME status' = status, jobs' = jobs, NEW e \in Docs PROVE BeforeObj(e)'
  BY <1>1, <1>4, SameBefore DEF PurgeInv, Spares
<1>5. ASSUME NEW d \in Docs, uploadInit(d) PROVE PurgeInv'
  <2>1. UNCHANGED <<deleted, obj, jobs, req>> /\ status' = [status EXCEPT ![d] = "UPLOADED"]
    BY <1>5 DEF uploadInit
  <2>2. \A e \in Docs : BeforeObj(e)'
    BY <2>1 DEF BeforeObj, PurgeInv
  <2>3. \A r \in Reqs : ReqKeeps(r)'
    BY <1>1, <2>1, SparesReq DEF PurgeInv, ReqDocs
  <2> QED
    BY <1>1, <1>2, <2>2, <2>3 DEF PurgeInv
<1>6. ASSUME NEW r \in Reqs, NEW d \in Docs, Start(r, d) PROVE PurgeInv'
  <2>1. UNCHANGED <<status, deleted, obj, jobs>>
    BY <1>6 DEF Start, uploadComplete, review, reindex, removeDocument, publish, Begin
  <2>2. PICK op, p : /\ Begin(r, d, op, p)
                     /\ p \in {"review", "reindex"} =>
                          ~deleted[d] /\ status[d] \in {"PENDING_REVIEW", "READY", "FAILED"}
                     /\ p \in {"merge", "review", "reindex", "save", "flag"}
    BY <1>6 DEF Start, uploadComplete, review, reindex, removeDocument, publish, Visible
  <2>3. req'[r].pc = p /\ req'[r].doc = d /\ \A q \in Reqs \ {r} : req'[q] = req[q]
    BY <2>2 DEF Begin
  <2>4. ReqKeeps(r)'
    BY <2>1, <2>2, <2>3 DEF ReqKeeps, PastPut, PurgeInv, BeforeObj
  <2> QED
    BY <1>3, <1>4, <2>1, <2>3, <2>4
<1>7. ASSUME NEW r \in Reqs, RequestStep(r) \/ PublishEsFails(r) \/ RequestFails(r)
      PROVE  PurgeInv'
  <2>0. PICK d \in Docs : req[r].doc = d
    BY <1>7 DEF ReqDocs, RequestStep, PublishEsFails, RequestFails, At,
         CompleteMerge, CompletePut, CompleteDup, CompleteDrop, CompleteDropRow,
         CompleteHash, CompleteSubmit, ReviewStatus, ReindexStatus, Enqueue,
         RemoveSave, RemoveGetState, RemoveCancel, PublishFlag, PublishEs,
         PublishRestore
  <2>1. /\ ReqKeeps(r) /\ BeforeObj(d) /\ Spares(d)
        /\ \A q \in Reqs \ {r} : req'[q] = req[q]
        /\ Answer(r) => ReqKeeps(r)'
        /\ \A p : Then(r, p) => req'[r].pc = p /\ req'[r].doc = d
    <3>1. Answer(r) \/ \E p : Then(r, p)
      BY <1>7 DEF RequestStep, PublishEsFails, RequestFails,
         CompleteMerge, CompletePut, CompleteDup, CompleteDrop, CompleteDropRow,
         CompleteHash, CompleteSubmit, ReviewStatus, ReindexStatus, Enqueue,
         RemoveSave, RemoveGetState, RemoveCancel, PublishFlag, PublishEs,
         PublishRestore
    <3>2. \A q \in Reqs \ {r} : req'[q] = req[q]
      BY <3>1 DEF Answer, Then
    <3>3. Answer(r) => req'[r].pc = "idle"
      BY DEF Answer, Idle
    <3>4. Answer(r) => ReqKeeps(r)'
      BY <3>3 DEF ReqKeeps, PastPut
    <3> QED
      BY <1>1, <2>0, <3>2, <3>4 DEF Then, PurgeInv
  <2>2. ~CompleteDrop(r) /\ ~CompleteDropRow(r)
    BY <2>1 DEF CompleteDrop, CompleteDropRow, At, ReqKeeps
  <2>3. CASE CompleteMerge(r) \/ PublishFlag(r) \/ PublishEs(r) \/ PublishEsFails(r)
             \/ PublishRestore(r) \/ RequestFails(r)
    <3>1. /\ UNCHANGED <<status, jobs>>
          /\ Answer(r) \/ Then(r, "put") \/ Then(r, "esFlag") \/ Then(r, "restore")
      BY <2>3 DEF CompleteMerge, PublishFlag, PublishEs, PublishEsFails, PublishRestore,
                  RequestFails
    <3>2. ReqKeeps(r)'
      BY <2>1, <3>1 DEF ReqKeeps, PastPut
    <3> QED
      BY <1>3, <1>4, <2>1, <3>1, <3>2
  <2>4. CASE CompletePut(r)
    <3>1. UNCHANGED <<status, jobs>> /\ Then(r, "dup") /\ obj'[d] = TRUE
      BY <2>0, <2>4 DEF CompletePut
    <3>2. ReqKeeps(r)'
      BY <2>1, <3>1 DEF ReqKeeps
    <3> QED
      BY <1>3, <1>4, <2>1, <3>1, <3>2
  <2>5. CASE CompleteDup(r) \/ CompleteHash(r) \/ RemoveGetState(r)
    <3>1. /\ UNCHANGED <<status, deleted, obj, jobs>>
          /\ req[r].pc \in PastPut \union {"getState"}
          /\ \/ Then(r, "hash") \/ Then(r, "submit") \/ Then(r, "enqueue")
             \/ Then(r, "cancel") /\ req[r].pc = "getState"
      BY <2>0, <2>5 DEF CompleteDup, CompleteHash, RemoveGetState, At, PastPut, OwnBytes,
                        findDuplicate
    <3>2. ReqKeeps(r)'
      BY <2>0, <2>1, <3>1 DEF ReqKeeps
    <3> QED
      BY <1>3, <1>4, <2>1, <3>1, <3>2
  <2>6. CASE CompleteSubmit(r) \/ ReviewStatus(r) \/ ReindexStatus(r)
    <3>1. /\ UNCHANGED <<deleted, obj, jobs>>
          /\ req[r].pc \in PastPut
          /\ \A e \in Docs \ {d} : status'[e] = status[e]
          /\ Answer(r) \/ Then(r, "enqueue")
      BY <2>0, <2>6 DEF CompleteSubmit, ReviewStatus, ReindexStatus, transition, At, PastPut
    <3>2. obj[d] \/ deleted[d]
      BY <2>0, <2>1, <3>1 DEF ReqKeeps
    <3>3. ReqKeeps(r)'
      BY <2>1, <3>1, <3>2 DEF ReqKeeps
    <3>4. \A e \in Docs : BeforeObj(e)'
      BY <3>1, <3>2 DEF BeforeObj, PurgeInv
    <3> QED
      BY <1>3, <2>1, <3>3, <3>4
  <2>7. CASE Enqueue(r)
    <3>1. /\ UNCHANGED <<status, deleted, obj>> /\ Answer(r)
          /\ \A e \in Docs \ {d} : jobs'[e] = jobs[e]
          /\ req[r].pc = "enqueue"
      BY <2>0, <2>7 DEF Enqueue, At, enqueue, QueueTypeOK
    <3>2. obj[d] \/ deleted[d]
      BY <2>0, <2>1, <3>1 DEF ReqKeeps, PastPut
    <3>3. \A e \in Docs : BeforeObj(e)'
      BY <3>1, <3>2 DEF BeforeObj, PurgeInv
    <3> QED
      BY <1>3, <2>1, <3>1, <3>3
  <2>8. CASE RemoveSave(r)
    <3>1. /\ UNCHANGED <<obj, jobs>> /\ Then(r, "getState")
          /\ deleted' = [deleted EXCEPT ![d] = TRUE]
          /\ \A e \in Docs \ {d} : status'[e] = status[e]
      BY <2>0, <2>8 DEF RemoveSave
    <3>2. ReqKeeps(r)'
      BY <2>1, <3>1 DEF ReqKeeps, PastPut
    <3>3. \A e \in Docs : BeforeObj(e)'
      BY <3>1 DEF BeforeObj, PurgeInv
    <3> QED
      BY <1>3, <2>1, <3>2, <3>3
  <2>9. CASE RemoveCancel(r)
    <3>1. /\ UNCHANGED <<status, deleted, obj>> /\ Then(r, "enqueue") /\ deleted[d]
          /\ remove(d)
      BY <2>0, <2>1, <2>9 DEF RemoveCancel, At, ReqKeeps
    <3>2. NoNewJob(Docs)
      BY <3>1, QueueMakesNone
    <3>3. \A e \in Docs : BeforeObj(e)'
      BY <3>1, <3>2 DEF BeforeObj, PurgeInv, NoNewJob
    <3>4. ReqKeeps(r)'
      BY <2>1, <3>1 DEF ReqKeeps
    <3> QED
      BY <1>3, <2>1, <3>3, <3>4
  <2> QED
    BY <1>7, <2>2, <2>3, <2>4, <2>5, <2>6, <2>7, <2>8, <2>9 DEF RequestStep
<1> QED
  BY <1>5, <1>6, <1>7 DEF ApiNext
-----------------------------------------------------------------------------
\* a run writes what belongs to its own document
LEMMA RunOwn ==
  ASSUME Typed, NEW w \in Workers, RunsOn(w), WorkerStep(w) \/ StepFails(w) \/ BuildFails(w),
         NEW d \in Docs, wk[w].doc = d
  PROVE  /\ UNCHANGED deleted
         /\ faults' = 0 => faults = 0
         /\ \A e \in Docs \ {d} :
              UNCHANGED <<status[e], obj[e], chunks[e], es[e], graph[e]>>
<1> USE DEF storeVars, rowVars, blobVars, indexVars, Typed, TypeOK, StoreTypeOK, JobDoc
<1>1. Fault("worker") => faults' # 0
  BY DEF Fault
<1>2. ASSUME NEW s, transition(d, s) PROVE \A e \in Docs \ {d} : status'[e] = status[e]
  BY <1>2 DEF transition
<1>3. ASSUME graph' \in BrokenGraph(d) PROVE \A e \in Docs \ {d} : graph'[e] = graph[e]
  BY <1>3 DEF BrokenGraph
<1> DEFINE Goal == /\ UNCHANGED deleted
                   /\ faults' = 0 => faults = 0
                   /\ \A e \in Docs \ {d} :
                        UNCHANGED <<status[e], obj[e], chunks[e], es[e], graph[e]>>
<1> SUFFICES Goal
  OBVIOUS
<1>4. ASSUME NEW p, NEW q, StatusStep(w, p, q) PROVE Goal
  BY <1>2, <1>4 DEF StatusStep
<1>5. ASSUME NEW p, NEW q, assertNotDeleted(w, p, q) PROVE Goal
  BY <1>5 DEF assertNotDeleted
<1>6. ASSUME NEW p, NEW q, Build(w, p, q) PROVE Goal
  BY <1>1, <1>3, <1>6 DEF Build, buildGraph
<1>7. CASE Fetch(w) \/ Parse(w) \/ Load(w) \/ IndexDone(w)
  BY <1>7 DEF Fetch, Parse, Load, IndexDone
<1>8. CASE ClearChunks(w) \/ Insert(w) \/ PurgeChunks(w)
  BY <1>8 DEF ClearChunks, Insert, PurgeChunks
<1>9. CASE ClearEs(w) \/ PurgeEs(w)
  BY <1>1, <1>9 DEF ClearEs, PurgeEs, deleteByDocument
<1>10. CASE IndexChunk(w)
  BY <1>10 DEF IndexChunk
<1>11. CASE PurgeGraph(w)
  BY <1>1, <1>11 DEF PurgeGraph
<1>12. CASE PurgeObject(w)
  BY <1>1, <1>12 DEF PurgeObject
<1>13. CASE StepFails(w)
  BY <1>1, <1>2, <1>13 DEF StepFails
<1>14. CASE BuildFails(w)
  BY <1>1, <1>3, <1>14 DEF BuildFails
<1>15. CASE Ack(w) \/ Nack(w)
  BY <1>15 DEF Ack, Nack
<1> HIDE DEF Goal
<1> QED
  BY <1>4, <1>5, <1>6, <1>7, <1>8, <1>9, <1>10, <1>11, <1>12, <1>13, <1>14, <1>15, ChunkSteps
     DEF WorkerStep

\* a run only fills the stores of a document that has its object, and removes
\* the object only after it has emptied them
LEMMA RunEmpties ==
  ASSUME Typed, Typed', LockInv, PurgeInv, NEW w \in Workers, RunsOn(w),
         WorkerStep(w) \/ StepFails(w) \/ BuildFails(w), NEW d \in Docs, wk[w].doc = d
  PROVE  /\ obj[d] => obj'[d] \/ deleted[d]
         /\ Emptied(d)'
         /\ RunKeeps(w)'
<1> USE DEF storeVars, rowVars, blobVars, indexVars, JobDoc
<1> DEFINE p == wk[w].pc
           q == wk'[w].pc
           Goal == (obj[d] => obj'[d] \/ deleted[d]) /\ Emptied(d)' /\ RunKeeps(w)'
<1> SUFFICES Goal
  OBVIOUS
<1>0. /\ obj \in [Docs -> BOOLEAN] /\ chunks \in [Docs -> SUBSET Gens]
      /\ es \in [Docs -> SUBSET EsChunk] /\ graph \in [Docs -> SUBSET Gens]
      /\ wk \in [Workers -> [pc : WkPc, doc : Docs \union {NoJobDoc},
                          left : SUBSET (Gens \X Parts), pub : BOOLEAN]]
  BY DEF Typed, TypeOK, StoreTypeOK, WorkerTypeOK
<1>1. /\ p # "idle" /\ wk'[w].doc = d
      /\ Emptied(d) /\ RunKeeps(w) /\ UNCHANGED deleted
      /\ obj[d] \/ deleted[d]
      /\ faults' = 0 => faults = 0
  BY RunOwn DEF PurgeInv, BeforeObj, RunsOn, LockInv, HoldsLock
<1>2. ASSUME NEW t PROVE Goto(w, t) => q = t
  BY <1>0 DEF Goto
<1>3. ASSUME NEW t, NEW left, NEW pub, GotoWith(w, t, left, pub) PROVE q = t
  BY <1>0, <1>3 DEF GotoWith
\* a step of the pipeline: the object is there, and stays
<1>4. ASSUME UNCHANGED obj, obj[d], q \notin PurgePc \union {"fetch"} PROVE Goal
  BY <1>1, <1>4 DEF Emptied, RunKeeps, PurgePc
\* a step that ends a run leaves the stores as they are
<1>5. ASSUME UNCHANGED <<obj, chunks, es, graph>>, q \in {"ack", "nack", "failing"}
      PROVE  Goal
  <2>1. Spares(d)
    BY <1>1, <1>5, UntouchedSpares
  <2>2. Emptied(d)'
    BY <1>1, <2>1, SparesEmptied
  <2>3. RunKeeps(w)'
    BY <1>5 DEF RunKeeps, TryPc, GraphPc, PurgePc
  <2> QED
    BY <1>5, <2>2, <2>3
<1>6. CASE Fetch(w)
  <2>1. UNCHANGED <<obj, chunks, es, graph, faults>> /\ q \in {"ack", "purge", "gGraphing", "parsing"}
        /\ (q = "purge" => deleted[d]) /\ (q \in {"gGraphing", "parsing"} => ~deleted[d])
    BY <1>2, <1>6 DEF Fetch
  <2>2. CASE q = "purge"
    <3>1. Emptied(d)'
      BY <1>1, <2>1, UntouchedSpares, SparesEmptied
    <3>2. RunKeeps(w)'
      BY <1>1, <2>1, <2>2 DEF RunKeeps, TryPc, GraphPc
    <3> QED
      BY <2>1, <3>1, <3>2
  <2> QED
    BY <1>1, <1>4, <1>5, <2>1, <2>2 DEF PurgePc
<1>7. ASSUME p \in TryPc \union GraphPc, q \notin PurgePc \union {"fetch"}, UNCHANGED obj
      PROVE  Goal
  BY <1>1, <1>4, <1>7 DEF RunKeeps
<1>8. ASSUME NEW t, NEW u, StatusStep(w, t, u), t \in TryPc \union GraphPc,
             u \notin PurgePc \union {"fetch"}
      PROVE  Goal
  BY <1>2, <1>7, <1>8 DEF StatusStep, Runs
<1>9. ASSUME NEW t, NEW u, assertNotDeleted(w, t, u), t \in TryPc,
             u \notin PurgePc \union {"fetch"}
      PROVE  Goal
  BY <1>2, <1>7, <1>9 DEF assertNotDeleted, Runs, PurgePc
<1>10. ASSUME NEW t, NEW u, Build(w, t, u), t \in TryPc \union GraphPc,
              u \notin PurgePc \union {"fetch"}
       PROVE  Goal
  BY <1>2, <1>7, <1>10 DEF Build, Runs, PurgePc, Thrown
<1>11. CASE \/ Parse(w) \/ ClearChunks(w) \/ ClearEs(w) \/ Insert(w) \/ Load(w)
            \/ IndexDone(w) \/ BuildFails(w)
  BY <1>2, <1>3, <1>7, <1>11
     DEF Parse, ClearChunks, ClearEs, Insert, Load, IndexDone, BuildFails, Runs, PurgePc,
         TryPc, GraphPc, Thrown
<1>12. CASE IndexChunk(w)
  <2>1. q = p /\ UNCHANGED obj /\ p = "esIndex"
    BY <1>0, <1>12 DEF IndexChunk, Runs
  <2> QED
    BY <1>7, <2>1 DEF TryPc, PurgePc
<1>13. CASE StepFails(w)
  <2>1. /\ UNCHANGED <<obj, chunks, es, graph>> /\ q \in {"nack", "failing"}
    BY <1>3, <1>13 DEF StepFails, Thrown
  <2> QED
    BY <1>5, <2>1
<1>14. CASE StatusStep(w, "failing", "nack")
  BY <1>2, <1>5, <1>14 DEF StatusStep
\* the purge, store by store: what is empty stays empty
<1>15. ASSUME UNCHANGED obj, Spares(d), p \in PurgePc, q \in PurgePc, NEW S, NEW E, NEW G,
              S => chunks'[d] = {}, E => EsEmptied(d)', G => GraphEmptied(d)',
              q \in {"purgeEs", "purgeGraph", "purgeObj"} => S,
              q \in {"purgeGraph", "purgeObj"} => E, q = "purgeObj" => G
       PROVE  Goal
  <2>1. Emptied(d)'
    BY <1>1, <1>15, SparesEmptied
  <2>2. RunKeeps(w)'
    BY <1>1, <1>15 DEF RunKeeps, PurgePc, TryPc, GraphPc
  <2> QED
    BY <1>15, <2>1, <2>2
<1>16. CASE PurgeChunks(w)
  <2>1. /\ UNCHANGED <<obj, es, graph, faults>> /\ chunks'[d] = {}
        /\ p = "purge" /\ q = "purgeEs"
    BY <1>0, <1>2, <1>16 DEF PurgeChunks, Runs
  <2>2. Spares(d)
    BY <1>1, <2>1 DEF Spares, EsEmptied, GraphEmptied
  <2> QED
    BY <1>15, <2>1, <2>2 DEF PurgePc
<1>17. CASE PurgeEs(w)
  <2>1. /\ UNCHANGED <<obj, chunks, graph>> /\ (faults' = 0 => es'[d] = {})
        /\ p = "purgeEs" /\ q = "purgeGraph" /\ (es[d] = {} => es'[d] = {})
    BY <1>0, <1>2, <1>17 DEF PurgeEs, Runs, deleteByDocument, Fault, Typed, TypeOK, StoreTypeOK
  <2>2. Spares(d) /\ EsEmptied(d)'
    BY <1>1, <2>1 DEF Spares, EsEmptied, GraphEmptied
  <2>3. chunks'[d] = {}
    BY <1>1, <2>1 DEF RunKeeps
  <2> QED
    BY <1>15, <2>1, <2>2, <2>3 DEF PurgePc
<1>18. CASE PurgeGraph(w)
  <2>1. /\ UNCHANGED <<obj, chunks, es>> /\ (faults' = 0 /\ GraphUp => graph'[d] = {})
        /\ p = "purgeGraph" /\ q = "purgeObj" /\ (graph[d] = {} => graph'[d] = {})
    BY <1>0, <1>2, <1>18 DEF PurgeGraph, Runs, Fault, Typed, TypeOK, StoreTypeOK
  <2>2. Spares(d) /\ GraphEmptied(d)'
    BY <1>1, <2>1 DEF Spares, EsEmptied, GraphEmptied
  <2>3. chunks'[d] = {} /\ EsEmptied(d)'
    BY <1>1, <2>1, <2>2 DEF RunKeeps, Spares
  <2> QED
    BY <1>15, <2>1, <2>2, <2>3 DEF PurgePc
<1>19. CASE PurgeObject(w)
  <2>1. /\ UNCHANGED <<chunks, es, graph>> /\ p = "purgeObj" /\ q = "ack"
    BY <1>2, <1>19 DEF PurgeObject, Runs
  <2>2. /\ deleted[d] /\ chunks[d] = {} /\ EsEmptied(d) /\ GraphEmptied(d)
    BY <1>1, <2>1 DEF RunKeeps, PurgePc
  <2>3. Emptied(d)'
    BY <1>1, <2>1, <2>2 DEF Emptied, EsEmptied, GraphEmptied
  <2>4. RunKeeps(w)'
    BY <2>1 DEF RunKeeps, TryPc, GraphPc, PurgePc
  <2> QED
    BY <2>2, <2>3, <2>4
<1>20. CASE Ack(w) \/ Nack(w)
  <2>1. UNCHANGED <<obj, chunks, es, graph>> /\ q = "idle"
    BY <1>0, <1>20 DEF Ack, Nack, Free
  <2>2. Emptied(d)'
    BY <1>1, <2>1, UntouchedSpares, SparesEmptied
  <2> QED
    BY <2>1, <2>2 DEF RunKeeps, TryPc, GraphPc, PurgePc
<1>21. CASE \/ StatusStep(w, "parsing", "parse") \/ StatusStep(w, "chunking", "indexing")
                                                 \/ StatusStep(w, "chunking", "failing")
            \/ StatusStep(w, "indexing", "check2") \/ StatusStep(w, "graphing", "check3")
            \/ StatusStep(w, "ready", "ack") \/ StatusStep(w, "gGraphing", "gBuild")
            \/ StatusStep(w, "gReady", "ack")
  BY <1>8, <1>21 DEF TryPc, GraphPc, PurgePc
<1>22. CASE \/ assertNotDeleted(w, "check1", "chunking") \/ assertNotDeleted(w, "check2", "clear")
            \/ assertNotDeleted(w, "check3", "build") \/ assertNotDeleted(w, "check4", "ready")
            \/ Build(w, "build", "check4") \/ Build(w, "gBuild", "gReady")
  BY <1>9, <1>10, <1>22 DEF TryPc, GraphPc, PurgePc
<1> HIDE DEF Goal
<1> QED
  BY <1>6, <1>11, <1>12, <1>13, <1>14, <1>16, <1>17, <1>18, <1>19, <1>20, <1>21, <1>22, ChunkSteps
     DEF WorkerStep

LEMMA RunPurge ==
  ASSUME Typed, Typed', LockInv, PurgeInv, NEW w \in Workers, RunsOn(w), UNCHANGED req,
         WorkerStep(w) \/ StepFails(w) \/ BuildFails(w)
  PROVE  PurgeInv'
<1>1. PICK d \in Docs : wk[w].doc = d
  BY DEF RunsOn, Typed, WkDocs
<1>2. /\ UNCHANGED <<deleted, jobs>>
      /\ \A e \in Docs \ {d} : status'[e] = status[e] /\ obj'[e] = obj[e] /\ Spares(e)
  BY <1>1, RunOwn, UntouchedSpares DEF RunsOn
<1>3. /\ obj[d] => obj'[d] \/ deleted[d]
      /\ Emptied(d)' /\ RunKeeps(w)'
      /\ obj[d] \/ deleted[d]
  BY <1>1, RunEmpties DEF PurgeInv, BeforeObj, RunsOn, LockInv, HoldsLock
<1>4. ASSUME NEW e \in Docs PROVE Emptied(e)' /\ BeforeObj(e)'
  <2>1. CASE e = d
    BY <1>2, <1>3, <2>1 DEF BeforeObj
  <2>2. CASE e # d
    <3>1. Emptied(e)'
      BY <1>2, <2>2, SparesEmptied DEF PurgeInv
    <3>2. BeforeObj(e)'
      BY <1>2, <2>2, SameBefore DEF PurgeInv
    <3> QED
      BY <3>1, <3>2
  <2> QED
    BY <2>1, <2>2
<1>5. ASSUME NEW v \in Workers PROVE RunKeeps(v)'
  <2>1. CASE v = w
    BY <1>3, <2>1
  <2>2. CASE v # w
    <3>1. wk'[v] = wk[v] /\ (wk[v].pc # "idle" => wk[v].doc \in Docs \ {d})
      BY <1>1, <2>2, LocksExclude DEF RunsOn, OneWorkerPerDocument, Typed, WkDocs
    <3> QED
      BY <1>2, <3>1, SparesRun DEF PurgeInv
  <2> QED
    BY <2>1, <2>2
<1>6. ASSUME NEW r \in Reqs PROVE ReqKeeps(r)'
  <2>1. CASE req[r].pc = "idle"
    BY <2>1 DEF ReqKeeps, PastPut
  <2>2. CASE req[r].pc # "idle"
    <3>1. PICK e \in Docs : req[r].doc = e
      BY <2>2 DEF Typed, ReqDocs
    <3>2. UNCHANGED deleted /\ (obj[e] => obj'[e] \/ deleted[e])
      BY <1>2, <1>3
    <3>3. ReqKeeps(r)
      BY DEF PurgeInv
    <3> QED
      BY <3>1, <3>2, <3>3 DEF ReqKeeps
  <2> QED
    BY <2>1, <2>2
<1> QED
  BY <1>4, <1>5, <1>6 DEF PurgeInv

\* what leaves the stores, the rows and the requests alone
LEMMA QueuePurge ==
  ASSUME Typed, PurgeInv, UNCHANGED <<storeVars, req>>, NoNewJob(Docs),
         \A w \in Workers : \/ wk'[w] = wk[w]
                            \/ wk'[w].pc = "idle"
                            \/ /\ wk'[w].pc = "fetch" /\ wk'[w].doc \in Docs
                               /\ jobs[wk'[w].doc].state # "none"
  PROVE  PurgeInv'
<1>1. UNCHANGED <<status, deleted, obj, chunks, es, graph, faults>>
  BY DEF storeVars, rowVars, blobVars, indexVars
<1>2. ASSUME NEW e \in Docs PROVE Spares(e) /\ Emptied(e)' /\ BeforeObj(e)'
  <2>1. Spares(e)
    BY <1>1, UntouchedSpares
  <2> QED
    BY <1>1, <2>1, SparesEmptied, SameBefore DEF PurgeInv, NoNewJob
<1>3. \A r \in Reqs : ReqKeeps(r)'
  BY <1>2, SparesReq DEF PurgeInv, Typed, ReqDocs
<1>4. ASSUME NEW w \in Workers PROVE RunKeeps(w)'
  <2>1. CASE wk'[w] = wk[w]
    BY <1>2, <2>1, SparesRun DEF PurgeInv, Typed, WkDocs
  <2>2. CASE wk'[w].pc = "idle"
    BY <2>2 DEF RunKeeps, TryPc, GraphPc, PurgePc
  <2>3. CASE /\ wk'[w].pc = "fetch" /\ wk'[w].doc \in Docs
             /\ jobs[wk'[w].doc].state # "none"
    <3>1. PICK d \in Docs : wk'[w].doc = d
      BY <2>3
    <3>2. obj'[d] \/ deleted'[d]
      BY <1>1, <2>3, <3>1 DEF PurgeInv, BeforeObj
    <3> QED
      BY <2>3, <3>1, <3>2 DEF RunKeeps, TryPc, GraphPc, PurgePc
  <2> QED
    BY <2>1, <2>2, <2>3
<1> QED
  BY <1>2, <1>3, <1>4 DEF PurgeInv

LEMMA PurgeStep ==
  ASSUME OwnBytes, Typed, Typed', LockInv, PurgeInv, [Next]_vars
  PROVE  PurgeInv'
<1> USE DEF Typed, TypeOK, WorkerTypeOK
<1>1. CASE ApiNext /\ UNCHANGED <<wk, crashes>>
  BY <1>1, ApiPurge
<1>2. ASSUME NEW w \in Workers, WorkerStep(w) \/ StepFails(w) \/ BuildFails(w), UNCHANGED req
      PROVE  PurgeInv'
  <2>1. CASE RunsOn(w)
    BY <1>2, <2>1, RunPurge
  <2>2. CASE Ack(w) \/ Nack(w)
    <3>1. /\ UNCHANGED storeVars /\ wk' = [wk EXCEPT ![w] = Free] /\ wk[w].pc # "idle"
          /\ Complete(wk[w].doc) \/ FailAttempt(wk[w].doc)
      BY <2>2 DEF Ack, Nack, Runs, JobDoc
    <3>2. NoNewJob(Docs)
      BY <3>1, QueueMakesNone DEF LockInv, HoldsLock, WkDocs
    <3>3. wk'[w].pc = "idle" /\ \A v \in Workers \ {w} : wk'[v] = wk[v]
      BY <3>1 DEF Free
    <3> QED
      BY <1>2, <3>1, <3>2, <3>3, QueuePurge
  <2> QED
    BY <1>2, <2>1, <2>2, StepRunsOn
<1>3. ASSUME NEW w \in Workers, NEW d \in Docs, Claim(w, d), UNCHANGED req PROVE PurgeInv'
  <2>1. UNCHANGED storeVars /\ Take(w, d) /\ jobs[d].state # "none"
    BY <1>3 DEF Claim, Take
  <2>2. NoNewJob(Docs)
    BY <2>1, QueueMakesNone
  <2>3. /\ wk'[w].pc = "fetch" /\ wk'[w].doc = d
        /\ \A v \in Workers \ {w} : wk'[v] = wk[v]
    BY <1>3 DEF Claim
  <2> QED
    BY <1>3, <2>1, <2>2, <2>3, QueuePurge
<1>4. ASSUME NEW d \in Docs, StalledCheck(d), UNCHANGED req PROVE PurgeInv'
  <2>1. UNCHANGED <<storeVars, wk>> /\ NoNewJob(Docs)
    BY <1>4, QueueMakesNone DEF StalledCheck, RecoverStalled
  <2> QED
    BY <1>4, <2>1, QueuePurge
<1>5. CASE OtherFinishes /\ UNCHANGED <<storeVars, wk, crashes, req>>
  BY <1>5, QueueMakesNone, QueuePurge
<1>6. CASE Crash /\ UNCHANGED req
  <2>1. UNCHANGED storeVars /\ NoNewJob(Docs) /\ \A w \in Workers : wk'[w].pc = "idle"
    BY <1>6, QueueMakesNone DEF Crash, Free
  <2> QED
    BY <1>6, <2>1, QueuePurge
<1>7. CASE UNCHANGED vars
  <2>1. UNCHANGED <<storeVars, req, wk>> /\ NoNewJob(Docs)
    BY <1>7 DEF vars, sysVars, NoNewJob
  <2> QED
    BY <2>1, QueuePurge
<1> QED
  BY <1>1, <1>2, <1>3, <1>4, <1>5, <1>6, <1>7 DEF Next, Step, WorkerNext

LEMMA PurgeInit == Init => PurgeInv
<1> SUFFICES ASSUME Init PROVE PurgeInv
  OBVIOUS
<1>1. \A d \in Docs : Emptied(d) /\ BeforeObj(d)
  BY DEF Init, StoreInit, QueueInit, NoJob, Emptied, BeforeObj, EsEmptied, GraphEmptied
<1>2. \A r \in Reqs : ReqKeeps(r)
  BY DEF Init, ReqInit, Idle, ReqKeeps, PastPut
<1>3. \A w \in Workers : RunKeeps(w)
  BY DEF Init, WorkerInit, Free, RunKeeps, TryPc, GraphPc, PurgePc
<1> QED
  BY <1>1, <1>2, <1>3 DEF PurgeInv

\* When no two documents have the same bytes, a purged document stays purged:
\* once the worker has removed the object, no older run, retry or recovered
\* job writes any of it back, whatever users do and whatever fails or dies.
THEOREM PurgedForGood ==
  ASSUME OwnBytes
  PROVE  Spec => []PurgedStaysPurged
<1>1. Typed /\ LockInv /\ PurgeInv /\ [Next]_vars => PurgeInv'
  BY TypedStep, PurgeStep
<1>2. Init => LockInv
  BY DEF Init, WorkerInit, Free, LockInv
<1>3. Spec => []PurgeInv
  BY <1>1, <1>2, PurgeInit, TypedInit, TypedStep, LockStep, PTL DEF Spec
<1>4. PurgeInv => PurgedStaysPurged
  BY DEF PurgeInv, Emptied, EsEmptied, GraphEmptied, PurgedStaysPurged
<1> QED
  BY <1>3, <1>4, PTL
-----------------------------------------------------------------------------
(* A document no text can be extracted from never gets a chunk: its runs     *)
(* fail before they index                                                    *)

PastText    == {"indexing", "check2", "clear", "clearEs", "insert", "load", "esIndex",
                "graphing", "check3", "build", "check4", "ready"}
BlankDoc(d) == d \in textless => chunks[d] = {} /\ es[d] = {}
BlankRun(w) == wk[w].pc \in PastText => wk[w].doc \notin textless
BlankInv    == (\A d \in Docs : BlankDoc(d)) /\ (\A w \in Workers : BlankRun(w))

LEMMA BlankApi ==
  ASSUME Typed, ApiNext, NEW d \in Docs
  PROVE  /\ chunks[d] = {} => chunks'[d] = {}
         /\ es[d] = {} => es'[d] = {}
<1> USE DEF Typed, TypeOK, StoreTypeOK
<1>1. chunks' = chunks \/ \E r \in Reqs : CompleteDropRow(r)
  BY DEF ApiNext, uploadInit, Start, uploadComplete, review, reindex,
     removeDocument, publish, Begin, RequestStep, PublishEsFails, RequestFails,
     CompleteMerge, CompletePut, CompleteDup, CompleteDrop, CompleteHash, CompleteSubmit,
     ReviewStatus, ReindexStatus, Enqueue, RemoveSave, RemoveGetState, RemoveCancel,
     PublishFlag, PublishEs, PublishRestore, storeVars, indexVars
<1>2. es' = es \/ \E e, flag : setCompanyPublic(e, flag)
  BY DEF ApiNext, uploadInit, Start, uploadComplete, review, reindex,
     removeDocument, publish, Begin, RequestStep, PublishEsFails, RequestFails,
     CompleteMerge, CompletePut, CompleteDup, CompleteDrop, CompleteDropRow, CompleteHash,
     CompleteSubmit, ReviewStatus, ReindexStatus, Enqueue, RemoveSave, RemoveGetState,
     RemoveCancel, PublishFlag, PublishEs, PublishRestore, storeVars, indexVars
<1>3. chunks[d] = {} => chunks'[d] = {}
  BY <1>1 DEF CompleteDropRow
<1>4. es[d] = {} => es'[d] = {}
  BY <1>2 DEF setCompanyPublic
<1> QED
  BY <1>3, <1>4

LEMMA BlankWorker ==
  ASSUME Typed, BlankInv, [Next]_vars, NEW w \in Workers,
         WorkerStep(w) \/ StepFails(w) \/ BuildFails(w)
  PROVE  BlankInv'
<1> USE DEF Typed, TypeOK, StoreTypeOK, WorkerTypeOK
<1>0. textless' = textless
  BY HistoryTyped
<1>1. ASSUME NEW d \in Docs, d \in textless PROVE chunks'[d] = {} /\ es'[d] = {}
  <2>0. chunks[d] = {} /\ es[d] = {}
    BY <1>1 DEF BlankInv, BlankDoc
  <2>1. CASE Insert(w) \/ IndexChunk(w)
    <3>1. wk[w].pc \in PastText
      BY <2>1 DEF Insert, IndexChunk, Runs, PastText
    <3>2. wk[w].doc # d
      BY <1>1, <3>1 DEF BlankInv, BlankRun
    <3> QED
      BY <2>0, <2>1, <3>2 DEF Insert, IndexChunk, JobDoc
  <2>2. CASE ClearChunks(w) \/ ClearEs(w) \/ PurgeChunks(w) \/ PurgeEs(w)
    BY <2>0, <2>2 DEF ClearChunks, ClearEs, PurgeChunks, PurgeEs, deleteByDocument
  <2>3. CASE ~(\/ Insert(w) \/ IndexChunk(w) \/ ClearChunks(w) \/ ClearEs(w)
               \/ PurgeChunks(w) \/ PurgeEs(w))
    BY <2>0, <2>3 DEF WorkerStep, StepFails, BuildFails, Fetch, StatusStep, Chunk, Parse,
       assertNotDeleted, Load, IndexDone, Build, PurgeGraph, PurgeObject, Ack, Nack,
       indexVars, storeVars
  <2> QED
    BY <2>1, <2>2, <2>3
<1>2. ASSUME wk'[w].pc \in PastText PROVE wk'[w].doc \notin textless
  <2>1. RunsOn(w)
    BY <1>2, StepRunsOn DEF Ack, Nack, Free, PastText
  <2>2. CASE Chunk(w)
    <3>1. CASE JobDoc(w) \in textless
      <4>1. wk'[w].pc = "failing"
        BY <2>2, <3>1 DEF Chunk, StatusStep, Goto
      <4> QED
        BY <1>2, <4>1 DEF PastText
    <3>2. CASE JobDoc(w) \notin textless
      BY <2>1, <3>2 DEF RunsOn, JobDoc
    <3> QED
      BY <3>1, <3>2
  <2>3. CASE wk[w].pc \in PastText
    BY <2>1, <2>3 DEF BlankInv, BlankRun, RunsOn
  <2>4. CASE ~Chunk(w) /\ wk[w].pc \notin PastText
    <3>1. ~StepFails(w) /\ ~BuildFails(w)
      BY <1>2 DEF StepFails, BuildFails, Goto, GotoWith, Thrown, PastText
    <3>2. /\ ~Insert(w) /\ ~IndexChunk(w) /\ ~IndexDone(w) /\ ~Load(w)
          /\ ~ClearChunks(w) /\ ~ClearEs(w)
          /\ ~StatusStep(w, "indexing", "check2") /\ ~StatusStep(w, "graphing", "check3")
          /\ ~StatusStep(w, "ready", "ack")
          /\ ~assertNotDeleted(w, "check2", "clear")
          /\ ~assertNotDeleted(w, "check3", "build")
          /\ ~assertNotDeleted(w, "check4", "ready")
          /\ ~Build(w, "build", "check4")
      BY <2>4 DEF Insert, IndexChunk, IndexDone, Load, ClearChunks, ClearEs, StatusStep,
         assertNotDeleted, Build, Runs, PastText
    <3>3. PICK p \in {"ack", "purge", "gGraphing", "parsing", "parse", "check1", "failing",
                      "chunking", "gBuild", "gReady", "nack", "purgeEs", "purgeGraph",
                      "purgeObj"} : Goto(w, p)
      BY <1>2, <2>1, <2>4, <3>1, <3>2 DEF WorkerStep, Fetch, StatusStep, Parse,
         assertNotDeleted, Build, Thrown, PurgeChunks, PurgeEs, PurgeGraph, PurgeObject,
         Ack, Nack, Free, PastText, TryPc
    <3> QED
      BY <1>2, <3>3 DEF Goto, PastText
  <2> QED
    BY <2>2, <2>3, <2>4
<1>3. ASSUME NEW v \in Workers \ {w} PROVE wk'[v] = wk[v]
  BY StepRunsOn DEF RunsOn, Ack, Nack
<1> QED
  BY <1>0, <1>1, <1>2, <1>3 DEF BlankInv, BlankDoc, BlankRun

LEMMA BlankStep ==
  ASSUME Typed, BlankInv, [Next]_vars
  PROVE  BlankInv'
<1>0. textless' = textless
  BY HistoryTyped DEF Typed
<1>1. CASE ApiNext /\ UNCHANGED <<wk, crashes>>
  BY <1>0, <1>1, BlankApi DEF BlankInv, BlankDoc, BlankRun
<1>2. ASSUME NEW w \in Workers, NEW d \in Docs, Claim(w, d) PROVE BlankInv'
  BY <1>0, <1>2 DEF Claim, BlankInv, BlankDoc, BlankRun, PastText, storeVars, indexVars,
     Typed, TypeOK, WorkerTypeOK
<1>3. CASE Crash
  BY <1>0, <1>3 DEF Crash, Free, BlankInv, BlankDoc, BlankRun, PastText, storeVars, indexVars
<1>4. CASE UNCHANGED <<storeVars, wk>>
  BY <1>0, <1>4 DEF BlankInv, BlankDoc, BlankRun, storeVars, indexVars
<1> QED
  BY <1>1, <1>2, <1>3, <1>4, BlankWorker
     DEF Next, Step, WorkerNext, StalledCheck, vars, sysVars

LEMMA BlankHolds == Spec => []BlankInv
<1>1. Init => BlankInv
  BY DEF Init, StoreInit, WorkerInit, Free, BlankInv, BlankDoc, BlankRun, PastText
<1> QED
  BY <1>1, BlankStep, TypedInit, TypedStep, PTL DEF Spec
-----------------------------------------------------------------------------
(* What READY promises where the graph is rebuilt alone as well, as long as  *)
(* no call fails and no job is given up                                      *)

Calm    == faults = 0 /\ crashes <= MaxStalled
Full(d) == Indexed(d) /\ Clean(d)

\* a document somebody asks something of, or that has a job, has a row
HasRow == /\ \A d \in Docs : jobs[d].state # "none" => Exists(d)
          /\ \A r \in Reqs : req[r].pc # "idle" => /\ Exists(req[r].doc)
                                                   /\ req[r].readStatus \notin NoRow

\* a run does what its job was queued for
RunFrom(w) == /\ wk[w].pc \in TryPc => jobs[wk[w].doc].from = "index"
              /\ wk[w].pc \in GraphPc => jobs[wk[w].doc].from = "graph"

\* a graph is rebuilt alone only on a whole index, ...
WholeDoc(d) == ~deleted[d] /\ d \notin textless =>
  /\ status[d] # "FAILED"
  /\ status[d] = "READY" => Full(d)
  /\ Live(d) /\ jobs[d].from = "graph" => Full(d)
\* ... or a request to rebuild it will be dropped, for a whole run is queued;
WholeReq(r) ==
  LET d == req[r].doc IN
  (/\ req[r].pc \in {"reindex", "enqueue"} /\ req[r].arg = "graph"
   /\ ~deleted[d] /\ d \notin textless)
    => Full(d) \/ (Live(d) /\ jobs[d].from = "index")
\* only a deleted document, or one without text, makes a run throw, and a run
\* of another one that returns leaves a whole index
Spared(d) == deleted[d] \/ d \in textless
WholeRun(w) ==
  LET d == wk[w].doc IN
  /\ wk[w].pc \in ErrPc => Spared(d)
  /\ wk[w].pc = "ack" => Spared(d) \/ Full(d)

WholeInv == /\ HasRow
            /\ \A w \in Workers : RunFrom(w)
            /\ \A d \in Docs : Lapses(d)
            /\ Calm => /\ \A d \in Docs : WholeDoc(d)
                       /\ \A r \in Reqs : WholeReq(r)
                       /\ \A w \in Workers : WholeRun(w)

\* what becomes of d's job in a step
Queued(d) == \E r \in Reqs :
  /\ Enqueue(r) /\ req[r].doc = d
  /\ jobs'[d].from = IF req[r].arg = "graph" THEN "graph" ELSE "index"
Dropped(d) == \/ \E r \in Reqs : RemoveCancel(r) /\ req[r].doc = d
              \/ \E w \in Workers : (Ack(w) \/ Nack(w)) /\ wk[w].doc = d
              \/ Lapses(d) => crashes' > MaxStalled
JobMoves(d) == /\ Live(d) /\ Live(d)' => jobs'[d].from = jobs[d].from
               /\ ~Live(d) /\ Live(d)' => Queued(d)
               /\ Live(d) /\ ~Live(d)' => Dropped(d)
               /\ Lapses(d) => Lapses(d)'

LEMMA RunStepCrashes ==
  ASSUME NEW w \in Workers, WorkerStep(w) \/ StepFails(w) \/ BuildFails(w)
  PROVE  crashes' = crashes
BY DEF WorkerStep, StepFails, BuildFails, Fetch, StatusStep, Chunk, Parse, assertNotDeleted,
       ClearChunks, ClearEs, Insert, Load, IndexChunk, IndexDone, Build, PurgeChunks,
       PurgeEs, PurgeGraph, PurgeObject, Ack, Nack

LEMMA JobsMove ==
  ASSUME Typed, Typed', LockInv, [Next]_vars, NEW d \in Docs
  PROVE  JobMoves(d)
<1> USE DEF Typed, TypeOK, QueueTypeOK
<1>0. /\ jobs[d].stalls \in Nat /\ crashes \in Nat /\ MaxStalled \in Nat
      /\ \A e \in Docs : jobs[e] \in Job
  BY QueueAssumption DEF Job, WorkerTypeOK
<1>1. ASSUME Retains(d), UNCHANGED crashes PROVE JobMoves(d)
  <2>1. Lapses(d) => Lapses(d)'
    BY <1>1, LapsesKept
  <2> QED
    BY <1>1, <2>1 DEF Retains, JobMoves, Live
<1>2. ASSUME jobs'[d] = jobs[d], UNCHANGED crashes PROVE JobMoves(d)
  BY <1>1, <1>2, SameRetains
<1>3. ASSUME NEW r \in Reqs, Enqueue(r), UNCHANGED crashes PROVE JobMoves(d)
  <2>1. PICK s \in Stages : /\ enqueue(req[r].doc, s)
                            /\ s = IF req[r].arg = "graph" THEN "graph" ELSE "index"
    BY <1>3 DEF Enqueue, Stages
  <2>2. CASE jobs'[d] = jobs[d]
    BY <1>2, <1>3, <2>2
  <2>3. CASE jobs'[d] # jobs[d]
    <3>1. /\ req[r].doc = d /\ jobs[d].state = "none"
          /\ jobs'[d] = [NoJob EXCEPT !.state = "pending", !.from = s]
      BY <2>1, <2>3 DEF enqueue
    <3>2. jobs'[d].state = "pending" /\ jobs'[d].from = s /\ jobs'[d].stalls = 0
      BY <3>1 DEF NoJob
    <3> QED
      BY <1>0, <1>3, <2>1, <3>1, <3>2 DEF JobMoves, Queued, Live, Lapses, Stalled
  <2> QED
    BY <2>2, <2>3
<1>4. ASSUME NEW r \in Reqs, RemoveCancel(r), UNCHANGED crashes PROVE JobMoves(d)
  <2>1. req[r].doc \in Docs /\ remove(req[r].doc)
    BY <1>4 DEF RemoveCancel, At, ReqDocs
  <2>2. CASE req[r].doc # d
    BY <1>1, <1>4, <2>1, <2>2, RemoveRetains
  <2>3. CASE req[r].doc = d
    <3>1. jobs'[d] \in {jobs[d], NoJob}
      BY <2>1, <2>3, RemoveRetains
    <3>2. jobs'[d] = NoJob => JobMoves(d)
      BY <1>0, <1>4, <2>3 DEF NoJob, JobMoves, Dropped, Live, Lapses, Stalled
    <3> QED
      BY <1>2, <1>4, <3>1, <3>2
  <2> QED
    BY <2>2, <2>3
\* a job that ends
<1>5. ASSUME NEW e \in Docs, NEW s \in {"completed", "failed"}, Retire(e, s),
             UNCHANGED crashes, e = d => Dropped(d)
      PROVE  JobMoves(d)
  <2>1. CASE e # d
    BY <1>1, <1>5, <2>1, RetireRetains
  <2>2. CASE e = d
    <3>1. ~Live(d)' /\ jobs'[d].stalls = 0
      BY <1>5, <2>2, RetireRetains
    <3> QED
      BY <1>0, <1>5, <2>2, <3>1 DEF JobMoves, Lapses, Stalled, Live
  <2> QED
    BY <2>1, <2>2
\* a job that goes on
<1>6. ASSUME NEW e \in Docs, \A x \in Docs \ {e} : jobs'[x] = jobs[x], UNCHANGED crashes,
             jobs'[e].from = jobs[e].from, Live(e), Live(e)', Lapses(e) => Lapses(e)'
      PROVE  JobMoves(d)
  <2>1. CASE e # d
    BY <1>2, <1>6, <2>1
  <2>2. CASE e = d
    BY <1>6, <2>2 DEF JobMoves
  <2> QED
    BY <2>1, <2>2
<1>7. ASSUME NEW w \in Workers, Ack(w) \/ Nack(w) PROVE JobMoves(d)
  <2>1. /\ UNCHANGED crashes /\ wk[w].doc \in Docs /\ jobs[wk[w].doc].state = "active"
        /\ jobs[wk[w].doc].owner = w /\ w # NoWorker
        /\ Complete(wk[w].doc) \/ FailAttempt(wk[w].doc)
    BY <1>7, QueueAssumption DEF Ack, Nack, Runs, JobDoc, WkDocs, LockInv, HoldsLock
  <2>2. PICK e \in Docs : wk[w].doc = e
    BY <2>1
  <2>3. e = d => Dropped(d)
    BY <1>7, <2>2 DEF Dropped
  <2>4. CASE \E s \in {"completed", "failed"} : Retire(e, s)
    BY <1>5, <2>1, <2>3, <2>4
  <2>5. CASE jobs' = [jobs EXCEPT ![e].state = "pending", ![e].made = @ + 1,
                                  ![e].owner = NoWorker]
    <3>1. /\ \A x \in Docs \ {e} : jobs'[x] = jobs[x]
          /\ jobs'[e].from = jobs[e].from /\ jobs'[e].state = "pending"
          /\ jobs'[e].stalls = jobs[e].stalls
      BY <1>0, <2>5 DEF Job
    <3>2. Lapses(e) => Lapses(e)'
      BY <2>1, <3>1 DEF Lapses, Stalled
    <3> QED
      BY <1>6, <2>1, <2>2, <3>1, <3>2 DEF Live
  <2> QED
    BY <2>1, <2>2, <2>4, <2>5 DEF Complete, FailAttempt
<1>8. ASSUME NEW w \in Workers, NEW e \in Docs, Claim(w, e) PROVE JobMoves(d)
  <2>1. /\ jobs[e].state = "pending" /\ UNCHANGED crashes
        /\ jobs' = [jobs EXCEPT ![e].state = "active", ![e].owner = w]
    BY <1>8 DEF Claim, Take
  <2>2. /\ \A x \in Docs \ {e} : jobs'[x] = jobs[x]
        /\ jobs'[e].from = jobs[e].from /\ jobs'[e].state = "active"
        /\ jobs'[e].owner = w /\ w # NoWorker /\ jobs'[e].stalls = jobs[e].stalls
    BY <1>0, <2>1, QueueAssumption DEF Job
  <2> QED
    BY <1>6, <2>1, <2>2 DEF Live, Lapses, Stalled
<1>9. ASSUME NEW e \in Docs, StalledCheck(e) PROVE JobMoves(d)
  <2>1. Stalled(e) /\ RecoverStalled(e) /\ UNCHANGED crashes
    BY <1>9 DEF StalledCheck, RecoverStalled
  <2>2. CASE jobs[e].stalls < MaxStalled
    <3>1. jobs' = [jobs EXCEPT ![e].state = "pending", ![e].stalls = @ + 1]
      BY <2>1, <2>2 DEF RecoverStalled
    <3>2. /\ \A x \in Docs \ {e} : jobs'[x] = jobs[x]
          /\ jobs'[e].from = jobs[e].from /\ jobs'[e].state = "pending"
          /\ jobs'[e].stalls = jobs[e].stalls + 1
      BY <1>0, <3>1 DEF Job
    <3> QED
      BY <1>6, <2>1, <3>2 DEF Live, Lapses, Stalled
  <2>3. CASE ~(jobs[e].stalls < MaxStalled)
    <3>1. Retire(e, "failed")
      BY <2>1, <2>3 DEF RecoverStalled
    <3>2. e = d => Dropped(d)
      BY <1>0, <2>1, <2>3 DEF Dropped, Lapses
    <3> QED
      BY <1>5, <2>1, <3>1, <3>2
  <2> QED
    BY <2>2, <2>3
<1>10. ASSUME OtherFinishes, UNCHANGED crashes PROVE JobMoves(d)
  <2>1. Retains(d)
    BY <1>10 DEF OtherFinishes, Job, NoJob, Live, Retains
  <2> QED
    BY <1>1, <1>10, <2>1
<1>11. CASE Crash
  <2>1. crashes' = crashes + 1 /\ jobs' = [e \in Docs |-> [jobs[e] EXCEPT !.owner = NoWorker]]
    BY <1>11 DEF Crash, ReleaseLocks
  <2>2. /\ jobs'[d].state = jobs[d].state /\ jobs'[d].from = jobs[d].from
        /\ jobs'[d].stalls = jobs[d].stalls
    BY <1>0, <2>1 DEF Job
  <2> QED
    BY <1>0, <2>1, <2>2 DEF JobMoves, Live, Lapses
<1>12. CASE ApiNext /\ UNCHANGED <<wk, crashes>>
  <2>1. \/ jobs' = jobs
        \/ \E r \in Reqs : Enqueue(r) \/ RemoveCancel(r)
    BY <1>12 DEF ApiNext, uploadInit, Start, uploadComplete, review, reindex,
       removeDocument, publish, Begin, RequestStep, PublishEsFails, RequestFails,
       CompleteMerge, CompletePut, CompleteDup, CompleteDrop, CompleteDropRow,
       CompleteHash, CompleteSubmit, ReviewStatus, ReindexStatus, RemoveSave,
       RemoveGetState, PublishFlag, PublishEs, PublishRestore
  <2> QED
    BY <1>2, <1>3, <1>4, <1>12, <2>1
<1>13. ASSUME NEW w \in Workers, WorkerStep(w) \/ StepFails(w) \/ BuildFails(w)
       PROVE  JobMoves(d)
  BY <1>2, <1>7, <1>13, StepRunsOn, RunStepCrashes DEF RunsOn
<1>14. CASE UNCHANGED vars
  BY <1>2, <1>14 DEF vars, sysVars
<1> QED
  BY <1>8, <1>9, <1>10, <1>11, <1>12, <1>13, <1>14 DEF Next, Step, WorkerNext

-----------------------------------------------------------------------------
\* what a step of a run can make of where it stands
LEMMA RunFromStep ==
  ASSUME Typed, Typed', LockInv, LockInv', [Next]_vars, NEW w \in Workers, RunFrom(w)
  PROVE  RunFrom(w)'
<1> USE DEF Typed, TypeOK, WorkerTypeOK
<1>1. CASE wk'[w].pc \notin TryPc \union GraphPc
  BY <1>1 DEF RunFrom
\* the run keeps its document, and its job what it was queued for
<1>2. ASSUME wk'[w].pc \in TryPc \union GraphPc, wk[w].pc # "idle", wk'[w].doc = wk[w].doc,
             \/ wk'[w].pc \in TryPc /\ wk[w].pc \in TryPc
             \/ wk'[w].pc \in GraphPc /\ wk[w].pc \in GraphPc
             \/ wk'[w].pc \in TryPc /\ jobs[wk[w].doc].from = "index"
             \/ wk'[w].pc \in GraphPc /\ jobs[wk[w].doc].from = "graph"
      PROVE  RunFrom(w)'
  <2>1. PICK d \in Docs : wk[w].doc = d /\ wk'[w].doc = d
    BY <1>2 DEF WkDocs
  <2>2. wk'[w].pc # "idle"
    BY <1>2 DEF TryPc, GraphPc
  <2>3. Live(d) /\ Live(d)'
    BY <1>2, <2>1, <2>2 DEF LockInv, HoldsLock, Live
  <2>4. jobs'[d].from = jobs[d].from
    BY <2>1, <2>3, JobsMove DEF JobMoves
  <2>5. \A p \in TryPc : p \notin GraphPc
    BY DEF TryPc, GraphPc
  <2> QED
    BY <1>2, <2>1, <2>4, <2>5 DEF RunFrom
<1>3. CASE wk'[w] = wk[w]
  BY <1>1, <1>2, <1>3 DEF TryPc, GraphPc
<1>4. CASE wk'[w].pc \in {"idle", "fetch"}
  BY <1>1, <1>4 DEF TryPc, GraphPc
<1>5. ASSUME RunsOn(w), WorkerStep(w) \/ StepFails(w) \/ BuildFails(w) PROVE RunFrom(w)'
  <2>0. wk[w].pc # "idle" /\ wk'[w].doc = wk[w].doc
    BY <1>5 DEF RunsOn
  <2>1. ASSUME NEW p, Goto(w, p) \/ \E left, pub : GotoWith(w, p, left, pub)
        PROVE  wk'[w].pc = p
    BY <2>1 DEF Goto, GotoWith
  <2>2. CASE Fetch(w)
    <3>1. PICK p : /\ Goto(w, p)
                   /\ \/ p \in {"ack", "purge"}
                      \/ p = "gGraphing" /\ jobs[wk[w].doc].from = "graph"
                      \/ p = "parsing" /\ jobs[wk[w].doc].from # "graph"
      BY <2>2 DEF Fetch, JobDoc
    <3>2. wk[w].doc \in Docs /\ jobs[wk[w].doc].from \in {"index", "graph"}
      BY <2>0 DEF WkDocs, QueueTypeOK, Job, Stages
    <3>3. wk'[w].pc = p
      BY <2>1, <3>1
    <3> QED
      BY <1>1, <1>2, <2>0, <3>1, <3>2, <3>3 DEF TryPc, GraphPc
  <2>3. ASSUME NEW p, NEW q, wk[w].pc = p,
               Goto(w, q) \/ \E left, pub : GotoWith(w, q, left, pub),
               \/ p \in TryPc /\ q \in TryPc
               \/ p \in GraphPc /\ q \in GraphPc
               \/ q \notin TryPc \union GraphPc
        PROVE  RunFrom(w)'
    BY <1>1, <1>2, <2>0, <2>1, <2>3
  <2>4. ASSUME NEW p, NEW q, p \in TryPc /\ q \in TryPc, assertNotDeleted(w, p, q)
        PROVE  RunFrom(w)'
    <3>1. wk[w].pc = p /\ (Goto(w, q) \/ Goto(w, "failing"))
      BY <2>4 DEF assertNotDeleted, Runs
    <3> QED
      BY <2>3, <2>4, <3>1 DEF TryPc, GraphPc
  <2>5. ASSUME NEW p, NEW q, StatusStep(w, p, q),
               \/ p \in TryPc /\ q \in TryPc
               \/ p \in GraphPc /\ q \in GraphPc
               \/ q \notin TryPc \union GraphPc
        PROVE  RunFrom(w)'
    BY <2>3, <2>5 DEF StatusStep, Runs
  <2>6. ASSUME NEW p, NEW q, Build(w, p, q),
               <<p, q>> \in {<<"build", "check4">>, <<"gBuild", "gReady">>}
        PROVE  RunFrom(w)'
    <3>1. wk[w].pc = p /\ (Goto(w, q) \/ Goto(w, "failing") \/ Goto(w, "nack"))
      BY <2>6 DEF Build, Runs, Thrown
    <3> QED
      BY <2>3, <2>6, <3>1 DEF TryPc, GraphPc
  <2>7. CASE StepFails(w) \/ BuildFails(w)
    <3>1. PICK q \in {"failing", "nack"} : Goto(w, q) \/ GotoWith(w, q, {}, FALSE)
      BY <2>7 DEF StepFails, BuildFails, Thrown
    <3> QED
      BY <2>3, <3>1 DEF TryPc, GraphPc
  <2>8. CASE Parse(w) \/ ClearChunks(w) \/ ClearEs(w) \/ Insert(w) \/ Load(w) \/ IndexDone(w)
    <3>1. PICK q : /\ Goto(w, q) \/ \E left, pub : GotoWith(w, q, left, pub)
                   /\ q \in {"check1", "failing", "clearEs", "insert", "load", "esIndex",
                             "graphing"}
      BY <2>8 DEF Parse, ClearChunks, ClearEs, Insert, Load, IndexDone
    <3>2. wk[w].pc \in TryPc
      BY <2>8 DEF Parse, ClearChunks, ClearEs, Insert, Load, IndexDone, Runs, TryPc
    <3> QED
      BY <2>3, <3>1, <3>2 DEF TryPc, GraphPc
  <2>9. CASE IndexChunk(w)
    <3>1. wk[w].pc = "esIndex" /\ wk'[w].pc = "esIndex"
      BY <2>9 DEF IndexChunk, Runs
    <3> QED
      BY <1>2, <2>0, <3>1 DEF TryPc
  <2>10. CASE PurgeChunks(w) \/ PurgeEs(w) \/ PurgeGraph(w) \/ PurgeObject(w)
    <3>1. PICK q \in {"purgeEs", "purgeGraph", "purgeObj", "ack"} : Goto(w, q)
      BY <2>10 DEF PurgeChunks, PurgeEs, PurgeGraph, PurgeObject
    <3> QED
      BY <2>3, <3>1 DEF TryPc, GraphPc
  <2>11. CASE \/ StatusStep(w, "parsing", "parse")
              \/ StatusStep(w, "chunking", "indexing")
              \/ StatusStep(w, "chunking", "failing")
              \/ StatusStep(w, "indexing", "check2")
              \/ StatusStep(w, "graphing", "check3")
              \/ StatusStep(w, "ready", "ack")
              \/ StatusStep(w, "gGraphing", "gBuild")
              \/ StatusStep(w, "gReady", "ack")
              \/ StatusStep(w, "failing", "nack")
    BY <2>5, <2>11 DEF TryPc, GraphPc
  <2>12. CASE \/ assertNotDeleted(w, "check1", "chunking")
              \/ assertNotDeleted(w, "check2", "clear")
              \/ assertNotDeleted(w, "check3", "build")
              \/ assertNotDeleted(w, "check4", "ready")
    BY <2>4, <2>12 DEF TryPc
  <2>13. CASE Ack(w) \/ Nack(w)
    BY <1>4, <2>13 DEF Ack, Nack, Free
  <2> QED
    BY <1>5, <2>2, <2>6, <2>7, <2>8, <2>9, <2>10, <2>11, <2>12, <2>13, ChunkSteps DEF WorkerStep
<1>6. ASSUME NEW v \in Workers, WorkerStep(v) \/ StepFails(v) \/ BuildFails(v)
      PROVE  RunFrom(w)'
  <2>1. CASE RunsOn(v)
    BY <1>3, <1>5, <1>6, <2>1 DEF RunsOn
  <2>2. CASE Ack(v) \/ Nack(v)
    BY <1>3, <1>4, <2>2 DEF Ack, Nack, Free
  <2> QED
    BY <1>6, <2>1, <2>2, StepRunsOn
<1>7. ASSUME NEW v \in Workers, NEW d \in Docs, Claim(v, d) PROVE RunFrom(w)'
  BY <1>3, <1>4, <1>7 DEF Claim
<1>8. CASE Crash
  BY <1>4, <1>8 DEF Crash, Free
<1>9. CASE wk' = wk
  BY <1>3, <1>9
<1> QED
  BY <1>6, <1>7, <1>8, <1>9 DEF Next, Step, WorkerNext, StalledCheck, vars, sysVars

\* where no document is removed as a duplicate, none loses its row
LEMMA RowStays ==
  ASSUME Typed, PurgeInv, HasRow, [Next]_vars, NEW d \in Docs, Exists(d)
  PROVE  Exists(d)'
<1> USE DEF Typed, TypeOK, StoreTypeOK, Exists, NoRow
<1>1. ASSUME UNCHANGED status PROVE Exists(d)'
  BY <1>1
<1>2. ASSUME NEW e, NEW t \in Status \ NoRow, transition(e, t) PROVE Exists(d)'
  BY <1>2 DEF transition
<1>3. ASSUME NEW e \in Docs, uploadInit(e) PROVE Exists(d)'
  BY <1>3 DEF uploadInit
<1>4. ASSUME NEW r \in Reqs, RequestStep(r) PROVE Exists(d)'
  <2>1. ~CompleteDropRow(r)
    BY DEF PurgeInv, ReqKeeps, CompleteDropRow, At
  <2>2. CASE CompleteSubmit(r) \/ ReviewStatus(r) \/ ReindexStatus(r)
    BY <1>2, <2>2 DEF CompleteSubmit, ReviewStatus, ReindexStatus, Status, Processing
  <2>3. CASE RemoveSave(r)
    <3>1. /\ status' = [status EXCEPT ![req[r].doc] = req[r].readStatus]
          /\ req[r].readStatus \notin NoRow
      BY <2>3 DEF RemoveSave, HasRow, At
    <3> QED
      BY <3>1
  <2> QED
    BY <1>1, <1>4, <2>1, <2>2, <2>3 DEF RequestStep, rowVars, storeVars, CompleteMerge,
       CompletePut, CompleteDup, CompleteDrop, CompleteHash, Enqueue, RemoveGetState,
       RemoveCancel, PublishFlag, PublishEs, PublishRestore
<1>5. CASE ApiNext
  BY <1>1, <1>3, <1>4, <1>5 DEF ApiNext, Start, uploadComplete, review, reindex,
     removeDocument, publish, Begin, PublishEsFails, RequestFails, rowVars, storeVars
<1>6. ASSUME NEW w \in Workers, WorkerStep(w) \/ StepFails(w) \/ BuildFails(w)
      PROVE  Exists(d)'
  <2>1. \A p \in DOMAIN StatusAt : StatusAt[p] \in Status \ NoRow
    BY DEF StatusAt, Status, Processing
  <2>2. UNCHANGED status \/ \E p \in DOMAIN StatusAt : transition(JobDoc(w), StatusAt[p])
    <3>1. CASE StepFails(w)
      BY <3>1 DEF StepFails
    <3>2. CASE \E p \in DOMAIN StatusAt : \E q : StatusStep(w, p, q)
      BY <3>2 DEF StatusStep
    <3>3. CASE WorkerStep(w) /\ ~\E p \in DOMAIN StatusAt : \E q : StatusStep(w, p, q)
      <4>1. \A p \in {"parsing", "chunking", "indexing", "graphing", "ready", "gGraphing",
                      "gReady", "failing"} : p \in DOMAIN StatusAt
        BY DEF StatusAt
      <4> QED
        BY <3>3, <4>1, ChunkSteps DEF WorkerStep, rowVars, storeVars, Fetch, Parse, assertNotDeleted,
           ClearChunks, ClearEs, Insert, Load, IndexChunk, IndexDone, Build,
           PurgeChunks, PurgeEs, PurgeGraph, PurgeObject, Ack, Nack
    <3> QED
      BY <1>6, <3>1, <3>2, <3>3 DEF BuildFails, rowVars
  <2> QED
    BY <1>1, <1>2, <2>1, <2>2
<1> QED
  BY <1>1, <1>5, <1>6 DEF Next, Step, WorkerNext, Claim, StalledCheck, Crash, rowVars, storeVars, vars, sysVars

\* a request goes on for its document, or starts on a row somebody sees
ReqMoves(q) == \/ /\ req[q].pc # "idle" /\ req'[q].doc = req[q].doc
                  /\ req'[q].arg = req[q].arg /\ req'[q].readStatus = req[q].readStatus
               \/ req'[q].pc = "idle"
               \/ \E d \in Docs : /\ Visible(d) /\ \E op, p : Begin(q, d, op, p)
                                /\ req'[q].doc = d /\ req'[q].readStatus = status[d]

LEMMA ReqsMove ==
  ASSUME Typed, [Next]_vars, NEW q \in Reqs
  PROVE  ReqMoves(q)
<1> USE DEF Typed, TypeOK, ReqTypeOK
<1>1. CASE req'[q] = req[q]
  BY <1>1 DEF ReqMoves
<1>2. ASSUME NEW r \in Reqs, Answer(r) PROVE ReqMoves(q)
  BY <1>1, <1>2 DEF Answer, Idle, ReqMoves
<1>3. ASSUME NEW r \in Reqs, NEW p, req[r].pc # "idle", Then(r, p) PROVE ReqMoves(q)
  BY <1>1, <1>3 DEF Then, ReqMoves
<1>4. ASSUME NEW r \in Reqs, NEW d \in Docs, Start(r, d) PROVE ReqMoves(q)
  <2>1. Visible(d) /\ \E op, p : Begin(r, d, op, p)
    BY <1>4 DEF Start, uploadComplete, review, reindex, removeDocument, publish
  <2>2. /\ req'[r].doc = d /\ req'[r].readStatus = status[d]
        /\ \A x \in Reqs \ {r} : req'[x] = req[x]
    BY <2>1 DEF Begin
  <2> QED
    BY <1>1, <2>1, <2>2 DEF ReqMoves
<1>5. ASSUME NEW r \in Reqs, RequestStep(r) \/ PublishEsFails(r) \/ RequestFails(r)
      PROVE  ReqMoves(q)
  <2>1. Answer(r) \/ \E p : Then(r, p)
    BY <1>5 DEF RequestStep, PublishEsFails, RequestFails,
       CompleteMerge, CompletePut, CompleteDup, CompleteDrop, CompleteDropRow,
       CompleteHash, CompleteSubmit, ReviewStatus, ReindexStatus, Enqueue,
       RemoveSave, RemoveGetState, RemoveCancel, PublishFlag, PublishEs,
       PublishRestore
  <2>2. req[r].pc # "idle"
    BY <1>5 DEF RequestStep, PublishEsFails, RequestFails, At,
       CompleteMerge, CompletePut, CompleteDup, CompleteDrop, CompleteDropRow,
       CompleteHash, CompleteSubmit, ReviewStatus, ReindexStatus, Enqueue,
       RemoveSave, RemoveGetState, RemoveCancel, PublishFlag, PublishEs,
       PublishRestore
  <2> QED
    BY <1>2, <1>3, <2>1, <2>2
<1>6. UNCHANGED req => ReqMoves(q)
  BY <1>1
<1> QED
  BY <1>4, <1>5, <1>6 DEF Next, Step, ApiNext, uploadInit, vars, sysVars

LEMMA HasRowStep ==
  ASSUME Typed, Typed', LockInv, PurgeInv, HasRow, [Next]_vars
  PROVE  HasRow'
<1>1. ASSUME NEW d \in Docs, jobs'[d].state # "none" PROVE Exists(d)'
  <2>1. jobs[d].state # "none" \/ \E r \in Reqs : req[r].pc # "idle" /\ req[r].doc = d
    <3>1. ASSUME NoNewJob(Docs) PROVE jobs[d].state # "none"
      BY <1>1, <3>1 DEF NoNewJob
    <3>2. ASSUME NEW r \in Reqs, Enqueue(r), req[r].doc # d PROVE jobs[d].state # "none"
      BY <1>1, <3>2 DEF Enqueue, enqueue, Typed, TypeOK, QueueTypeOK
    <3>3. ASSUME NEW r \in Reqs, RemoveCancel(r) PROVE NoNewJob(Docs)
      BY <3>3, QueueMakesNone DEF RemoveCancel, At, Typed, TypeOK, ReqDocs
    <3>4. ASSUME jobs' = jobs PROVE jobs[d].state # "none"
      BY <3>1, <3>4 DEF NoNewJob
    <3>5. CASE ApiNext
      <4>1. \/ jobs' = jobs
            \/ \E r \in Reqs : Enqueue(r) \/ RemoveCancel(r)
        BY <3>5 DEF ApiNext, uploadInit, Start, uploadComplete, review, reindex,
           removeDocument, publish, Begin, RequestStep, PublishEsFails, RequestFails,
           CompleteMerge, CompletePut, CompleteDup, CompleteDrop, CompleteDropRow,
           CompleteHash, CompleteSubmit, ReviewStatus, ReindexStatus, RemoveSave,
           RemoveGetState, PublishFlag, PublishEs, PublishRestore
      <4> QED
        BY <3>1, <3>2, <3>3, <3>4, <4>1 DEF Enqueue, At
    <3>6. ASSUME NEW w \in Workers, WorkerStep(w) \/ StepFails(w) \/ BuildFails(w)
          PROVE  jobs[d].state # "none"
      <4>1. CASE Ack(w) \/ Nack(w)
        <5>1. /\ wk[w].doc \in Docs /\ jobs[wk[w].doc].state = "active"
              /\ Complete(wk[w].doc) \/ FailAttempt(wk[w].doc)
          BY <4>1 DEF Ack, Nack, Runs, JobDoc, Typed, WkDocs, LockInv, HoldsLock
        <5> QED
          BY <3>1, <5>1, QueueMakesNone DEF Typed, TypeOK
      <4> QED
        BY <3>4, <3>6, <4>1, StepRunsOn DEF RunsOn
    <3>7. CASE \/ \E w \in Workers, e \in Docs : Claim(w, e)
               \/ \E e \in Docs : StalledCheck(e)
               \/ OtherFinishes \/ Crash
      <4>1. QueueTypeOK
        BY DEF Typed, TypeOK
      <4>2. \A w \in Workers, e \in Docs : Claim(w, e) => Take(w, e)
        BY DEF Claim
      <4>3. \A e \in Docs : StalledCheck(e) => Stalled(e) /\ RecoverStalled(e)
        BY DEF StalledCheck, RecoverStalled
      <4>4. Crash => ReleaseLocks
        BY DEF Crash
      <4> QED
        BY <3>1, <3>7, <4>1, <4>2, <4>3, <4>4, QueueMakesNone
    <3> QED
      BY <3>4, <3>5, <3>6, <3>7 DEF Next, Step, WorkerNext, vars, sysVars
  <2>2. Exists(d)
    BY <2>1 DEF HasRow
  <2> QED
    BY <2>2, RowStays
<1>2. ASSUME NEW r \in Reqs, req'[r].pc # "idle"
      PROVE  (Exists(req[r].doc) /\ req[r].readStatus \notin NoRow)'
  <2>1. CASE req[r].pc # "idle" /\ req'[r].doc = req[r].doc
             /\ req'[r].readStatus = req[r].readStatus
    <3>1. PICK d \in Docs : req[r].doc = d /\ req'[r].doc = d
      BY <2>1 DEF Typed, ReqDocs
    <3>2. Exists(d) /\ req[r].readStatus \notin NoRow
      BY <2>1, <3>1 DEF HasRow
    <3>3. Exists(d)'
      BY <3>2, RowStays
    <3> QED
      BY <2>1, <3>1, <3>2, <3>3 DEF Exists
  <2>2. CASE \E d \in Docs : Visible(d) /\ req'[r].doc = d /\ req'[r].readStatus = status[d]
    <3>1. PICK d \in Docs : Visible(d) /\ req'[r].doc = d /\ req'[r].readStatus = status[d]
      BY <2>2
    <3>2. Exists(d)
      BY <3>1 DEF Visible
    <3>3. Exists(d)'
      BY <3>2, RowStays
    <3> QED
      BY <3>1, <3>2, <3>3 DEF Exists
  <2> QED
    BY <1>2, <2>1, <2>2, ReqsMove DEF ReqMoves
<1> QED
  BY <1>1, <1>2 DEF HasRow

-----------------------------------------------------------------------------
\* the steps of a run that change the index; a purge is of a deleted document
RewritePc == {"clear", "clearEs", "insert", "esIndex"}

LEMMA DeletedStays ==
  ASSUME Typed, [Next]_vars, NEW d \in Docs, deleted[d]
  PROVE  deleted'[d]
<1>1. CASE ApiNext
  BY <1>1, ApiKeeps DEF Kept
<1>2. CASE WorkerNext
  BY <1>2 DEF WorkerNext, WorkerStep, StepFails, BuildFails, Claim, StalledCheck, Crash, Fetch,
     StatusStep, Chunk, Parse, assertNotDeleted, ClearChunks, ClearEs, Insert, Load, IndexChunk,
     IndexDone, Build, PurgeChunks, PurgeEs, PurgeGraph, PurgeObject, Ack, Nack,
     rowVars, storeVars
<1> QED
  BY <1>1, <1>2 DEF Next, Step, vars, sysVars, rowVars, storeVars

LEMMA SparedStays ==
  ASSUME Typed, [Next]_vars, NEW d \in Docs
  PROVE  Spared(d) => Spared(d)'
BY DeletedStays, HistoryTyped DEF Spared, Typed

LEMMA FaultsGrow ==
  ASSUME Typed, Typed', [Next]_vars, Calm'
  PROVE  Calm /\ \A side : ~Fault(side)
<1>1. faults \in Nat /\ faults' \in Nat /\ crashes \in Nat /\ MaxStalled \in Nat
  BY QueueAssumption DEF Typed, TypeOK, StoreTypeOK, WorkerTypeOK
<1>2. \A side : ~Fault(side)
  BY <1>1 DEF Fault, Calm
<1>3. faults' = faults
  <2>1. CASE ApiNext
    BY <1>2, <2>1 DEF ApiNext, uploadInit, Start, uploadComplete, review, reindex,
         removeDocument, publish, Begin, RequestStep, PublishEsFails, RequestFails,
         CompleteMerge, CompletePut, CompleteDup, CompleteDrop, CompleteDropRow,
         CompleteHash, CompleteSubmit, ReviewStatus, ReindexStatus, Enqueue, RemoveSave,
         RemoveGetState, RemoveCancel, PublishFlag, PublishEs, PublishRestore, storeVars
  <2>2. CASE WorkerNext
    BY <1>2, <2>2 DEF WorkerNext, WorkerStep, StepFails, BuildFails, Claim, StalledCheck,
       Crash, Fetch, StatusStep, Chunk, Parse, assertNotDeleted, ClearChunks, ClearEs, Insert, Load,
       IndexChunk, IndexDone, Build, buildGraph, PurgeChunks, PurgeEs, PurgeGraph,
       PurgeObject, deleteByDocument, Ack, Nack, storeVars
  <2> QED
    BY <2>1, <2>2 DEF Next, Step, vars, sysVars, storeVars
<1>4. crashes' \in {crashes, crashes + 1}
  BY RunStepCrashes DEF Next, Step, ApiNext, WorkerNext, Claim, StalledCheck, Crash, vars, sysVars
<1> QED
  BY <1>1, <1>2, <1>3, <1>4 DEF Calm

LEMMA FullStays ==
  ASSUME Typed, Typed', RunsDo, [Next]_vars, NEW d \in Docs, Exists(d)', ~deleted'[d], Full(d),
         \A w \in Workers : wk[w].pc # "idle" /\ wk[w].doc = d => wk[w].pc \notin RewritePc
  PROVE  Full(d)'
<1> USE DEF Typed, TypeOK, StoreTypeOK
<1>1. ASSUME Kept(d) PROVE Full(d)'
  <2>1. Alive(d)'
    BY DEF Alive, Exists, NoRow
  <2>2. Clean(d)'
    BY <1>1, <2>1, KeptClean DEF Full
  <2>3. Indexed(d)'
    BY <1>1, <2>1 DEF Kept, Indexed, Full
  <2> QED
    BY <2>2, <2>3 DEF Full
<1>2. ASSUME UNCHANGED <<chunks[d], es[d]>>, faults' = 0 => faults = 0 PROVE Full(d)'
  BY <1>2 DEF Full, Indexed, Clean, Found
<1>3. CASE ApiNext
  BY <1>1, <1>3, ApiKeeps
<1>4. Fault("worker") => faults' # 0
  BY DEF Fault
<1>5. ASSUME NEW w \in Workers, WorkerStep(w) \/ StepFails(w) \/ BuildFails(w) PROVE Full(d)'
  <2>1. CASE ClearChunks(w) \/ ClearEs(w) \/ Insert(w) \/ IndexChunk(w)
    <3>1. wk[w].pc \in RewritePc /\ wk[w].pc # "idle"
      BY <2>1 DEF ClearChunks, ClearEs, Insert, IndexChunk, Runs, RewritePc
    <3>2. wk[w].doc # d
      BY <3>1
    <3>3. faults' = 0 => faults = 0
      BY <1>4, <2>1 DEF ClearChunks, ClearEs, Insert, IndexChunk, deleteByDocument
    <3>4. UNCHANGED <<chunks[d], es[d]>>
      BY <2>1, <3>2 DEF ClearChunks, ClearEs, Insert, IndexChunk, deleteByDocument, JobDoc
    <3> QED
      BY <1>2, <3>3, <3>4
  <2>2. CASE PurgeChunks(w) \/ PurgeEs(w)
    <3>1. wk[w].pc \in PurgePc /\ UNCHANGED deleted
      BY <2>2 DEF PurgeChunks, PurgeEs, Runs, PurgePc, rowVars
    <3>2. wk[w].doc # d
      BY <3>1 DEF RunsDo, RunDoes
    <3>3. UNCHANGED <<chunks[d], es[d]>> /\ (faults' = 0 => faults = 0)
      BY <1>4, <2>2, <3>2 DEF PurgeChunks, PurgeEs, deleteByDocument, JobDoc
    <3> QED
      BY <1>2, <3>3
  <2>3. CASE /\ ~(ClearChunks(w) \/ ClearEs(w) \/ Insert(w) \/ IndexChunk(w))
             /\ ~(PurgeChunks(w) \/ PurgeEs(w))
    <3>1. UNCHANGED <<chunks, es>>
      BY <1>5, <2>3 DEF WorkerStep, StepFails, BuildFails, Fetch, StatusStep, Chunk, Parse,
         assertNotDeleted, Load, IndexDone, Build, PurgeGraph, PurgeObject, Ack, Nack,
         indexVars, storeVars
    <3>2. faults' = 0 => faults = 0
      BY <1>4, <1>5, <2>3 DEF WorkerStep, StepFails, BuildFails, Fetch, StatusStep, Chunk, Parse,
         assertNotDeleted, Load, IndexDone, Build, buildGraph, PurgeGraph, PurgeObject, Ack,
         Nack, storeVars
    <3> QED
      BY <1>2, <3>1, <3>2
  <2> QED
    BY <2>1, <2>2, <2>3
<1>6. UNCHANGED storeVars => Full(d)'
  BY <1>2 DEF storeVars, indexVars
<1> QED
  BY <1>3, <1>5, <1>6 DEF Next, Step, WorkerNext, Claim, StalledCheck, Crash, vars, sysVars

\* who can make a document READY or FAILED
LEMMA StatusWrites ==
  ASSUME Typed, Typed', [Next]_vars, Calm', NEW d \in Docs, ~deleted'[d],
         status'[d] \in {"READY", "FAILED"}
  PROVE  \/ status'[d] = status[d]
         \/ \E w \in Workers : /\ wk[w].doc = d /\ wk[w].pc \in {"ready", "gReady", "failing"}
                               /\ status'[d] = StatusAt[wk[w].pc]
<1> USE DEF Typed, TypeOK, StoreTypeOK
<1>1. ASSUME UNCHANGED status PROVE status'[d] = status[d]
  BY <1>1
<1>2. ASSUME NEW e, NEW t, transition(e, t)
      PROVE  status'[d] = status[d] \/ (e = d /\ status'[d] = t)
  BY <1>2 DEF transition, NoRow
<1>3. ASSUME NEW r \in Reqs, RequestStep(r) PROVE status'[d] = status[d]
  <2>1. CASE CompleteSubmit(r) \/ ReviewStatus(r) \/ ReindexStatus(r)
    BY <1>2, <2>1 DEF CompleteSubmit, ReviewStatus, ReindexStatus
  <2>2. CASE RemoveSave(r)
    BY <2>2 DEF RemoveSave
  <2>3. CASE CompleteDropRow(r)
    BY <2>3 DEF CompleteDropRow
  <2> QED
    BY <1>1, <1>3, <2>1, <2>2, <2>3 DEF RequestStep, rowVars, storeVars, CompleteMerge,
       CompletePut, CompleteDup, CompleteDrop, CompleteHash, Enqueue, RemoveGetState,
       RemoveCancel, PublishFlag, PublishEs, PublishRestore
<1>4. ASSUME NEW e \in Docs, uploadInit(e) PROVE status'[d] = status[d]
  BY <1>4 DEF uploadInit
<1>5. CASE ApiNext
  BY <1>1, <1>3, <1>4, <1>5 DEF ApiNext, Start, uploadComplete, review, reindex,
     removeDocument, publish, Begin, PublishEsFails, RequestFails, rowVars, storeVars
<1>6. ASSUME NEW w \in Workers, WorkerStep(w) \/ StepFails(w) \/ BuildFails(w)
      PROVE  \/ status'[d] = status[d]
             \/ /\ wk[w].doc = d /\ wk[w].pc \in {"ready", "gReady", "failing"}
                /\ status'[d] = StatusAt[wk[w].pc]
  <2>1. ~StepFails(w) /\ ~BuildFails(w)
    BY FaultsGrow DEF StepFails, BuildFails
  <2>2. ASSUME NEW p, NEW q, StatusStep(w, p, q),
               p \in {"parsing", "chunking", "indexing", "graphing", "ready", "gGraphing",
                      "gReady", "failing"}
        PROVE  \/ status'[d] = status[d]
               \/ /\ wk[w].doc = d /\ wk[w].pc \in {"ready", "gReady", "failing"}
                  /\ status'[d] = StatusAt[wk[w].pc]
    <3>1. wk[w].pc = p /\ transition(wk[w].doc, StatusAt[p])
      BY <2>2 DEF StatusStep, Runs, JobDoc
    <3>2. StatusAt[p] \in {"READY", "FAILED"} => p \in {"ready", "gReady", "failing"}
      BY <2>2 DEF StatusAt
    <3> QED
      BY <1>2, <3>1, <3>2
  <2>3. CASE UNCHANGED status
    BY <2>3
  <2>4. \/ UNCHANGED status
        \/ \E p, q : /\ StatusStep(w, p, q)
                     /\ p \in {"parsing", "chunking", "indexing", "graphing", "ready",
                               "gGraphing", "gReady", "failing"}
    BY <1>6, <2>1, ChunkSteps DEF WorkerStep, rowVars, storeVars, Fetch, Parse, assertNotDeleted,
           ClearChunks, ClearEs, Insert, Load, IndexChunk, IndexDone, Build,
           PurgeChunks, PurgeEs, PurgeGraph, PurgeObject, Ack, Nack
  <2> QED
    BY <2>2, <2>3, <2>4
<1> QED
  BY <1>1, <1>5, <1>6 DEF Next, Step, WorkerNext, Claim, StalledCheck, Crash, rowVars, storeVars, vars, sysVars

\* a run of a live document that rewrites its index is of a job for the index
LEMMA Rewriters ==
  ASSUME Typed, LockInv, RunsDo, WholeInv, NEW w \in Workers, wk[w].pc # "idle",
         wk[w].pc \in RewritePc, NEW d \in Docs, wk[w].doc = d
  PROVE  /\ Live(d) /\ jobs[d].from = "index"
         /\ Alive(d) => status[d] # "READY"
<1>1. wk[w].pc \in TryPc \intersect WritingPc
  BY DEF RewritePc, TryPc, WritingPc
<1> QED
  BY <1>1 DEF LockInv, HoldsLock, Live, RunsDo, RunDoes, Achieved, WholeInv, RunFrom

LEMMA WholeDocStep ==
  ASSUME Typed, Typed', LockInv, PromiseInv, PurgeInv, WholeInv, HasRow', [Next]_vars, Calm',
         NEW d \in Docs
  PROVE  WholeDoc(d)'
<1>0. Calm /\ RunsDo /\ \A side : ~Fault(side)
  BY FaultsGrow DEF PromiseInv
<1>1. SUFFICES ASSUME ~deleted'[d], d \notin textless
      PROVE  /\ status'[d] # "FAILED"
             /\ status'[d] = "READY" => Full(d)'
             /\ Live(d)' /\ jobs'[d].from = "graph" => Full(d)'
  BY HistoryTyped DEF WholeDoc, Typed
<1>2. ~deleted[d] /\ WholeDoc(d)
  BY <1>0, <1>1, DeletedStays DEF WholeInv
<1>3. status'[d] # "FAILED"
  <2>1. SUFFICES ASSUME status'[d] = "FAILED" PROVE FALSE
    OBVIOUS
  <2>2. PICK w \in Workers : wk[w].doc = d /\ wk[w].pc = "failing"
    BY <1>1, <1>2, <2>1, StatusWrites DEF WholeDoc, StatusAt
  <2> QED
    BY <1>0, <1>1, <1>2, <2>2 DEF WholeInv, WholeRun, ErrPc, Spared
<1>4. ASSUME status'[d] = "READY" PROVE Full(d)'
  <2>1. Exists(d)' /\ Exists(d) => Alive(d)
    BY <1>2, <1>4 DEF Exists, NoRow, Alive
  <2>2. Exists(d)'
    BY <1>4 DEF Exists, NoRow
  <2>3. CASE status[d] = "READY"
    <3>1. Full(d) /\ Alive(d)
      BY <1>1, <1>2, <2>3 DEF WholeDoc, Alive
    <3>2. \A w \in Workers : wk[w].pc # "idle" /\ wk[w].doc = d => wk[w].pc \notin RewritePc
      BY <1>0, <2>3, <3>1, Rewriters
    <3> QED
      BY <1>0, <1>1, <2>2, <3>1, <3>2, FullStays
  <2>4. CASE status[d] # "READY"
    <3>1. PICK w \in Workers : wk[w].doc = d /\ wk[w].pc \in {"ready", "gReady"}
      <4>1. \E w \in Workers : /\ wk[w].doc = d /\ wk[w].pc \in {"ready", "gReady", "failing"}
                               /\ status'[d] = StatusAt[wk[w].pc]
        BY <1>1, <1>4, <2>4, StatusWrites
      <4> QED
        BY <1>4, <4>1 DEF StatusAt
    <3>2. /\ HoldsLock(w) /\ Live(d) /\ Exists(d)
          /\ \A v \in Workers \ {w} : wk[v].pc # "idle" => wk[v].doc # d
      BY <3>1, LocksExclude DEF LockInv, HoldsLock, Live, WholeInv, HasRow, OneWorkerPerDocument
    <3>3. \A v \in Workers : wk[v].pc # "idle" /\ wk[v].doc = d => wk[v].pc \notin RewritePc
      BY <3>1, <3>2 DEF RewritePc
    <3>4. CASE wk[w].pc = "ready"
      <4>1. Achieved(d, "ready", wk[w].left)
        BY <1>0, <1>2, <3>1, <3>2, <3>4 DEF RunsDo, RunDoes, Alive, Exists, NoRow
      <4>2. Full(d)
        BY <4>1 DEF Achieved, IndexedPc, Full
      <4> QED
        BY <1>0, <1>1, <2>2, <3>3, <4>2, FullStays
    <3>5. CASE wk[w].pc = "gReady"
      <4>1. jobs[d].from = "graph"
        BY <3>1, <3>5 DEF WholeInv, RunFrom, GraphPc
      <4>2. Full(d)
        BY <1>1, <1>2, <3>2, <4>1 DEF WholeDoc
      <4> QED
        BY <1>0, <1>1, <2>2, <3>3, <4>2, FullStays
    <3> QED
      BY <3>1, <3>4, <3>5
  <2> QED
    BY <2>3, <2>4
<1>5. ASSUME Live(d)', jobs'[d].from = "graph" PROVE Full(d)'
  <2>1. Exists(d)'
    BY <1>5 DEF HasRow, Live
  <2>2. JobMoves(d)
    BY JobsMove
  <2>3. CASE Live(d)
    <3>1. jobs[d].from = "graph" /\ Full(d)
      BY <1>1, <1>2, <1>5, <2>2, <2>3 DEF JobMoves, WholeDoc
    <3>2. \A w \in Workers : wk[w].pc # "idle" /\ wk[w].doc = d => wk[w].pc \notin RewritePc
      BY <1>0, <3>1, Rewriters
    <3> QED
      BY <1>0, <1>1, <2>1, <3>1, <3>2, FullStays
  <2>4. CASE ~Live(d)
    <3>1. PICK r \in Reqs : Enqueue(r) /\ req[r].doc = d /\ req[r].arg = "graph"
      BY <1>5, <2>2, <2>4 DEF JobMoves, Queued
    <3>2. Full(d)
      BY <1>0, <1>1, <1>2, <2>4, <3>1 DEF WholeInv, WholeReq, Enqueue, At
    <3>3. \A w \in Workers : wk[w].pc # "idle" => wk[w].doc # d
      BY <2>4 DEF LockInv, HoldsLock, Live
    <3> QED
      BY <1>0, <1>1, <2>1, <3>2, <3>3, FullStays
  <2> QED
    BY <2>3, <2>4
<1> QED
  BY <1>3, <1>4, <1>5

LEMMA WholeReqStep ==
  ASSUME Typed, Typed', LockInv, PromiseInv, PurgeInv, WholeInv, HasRow', [Next]_vars, Calm',
         NEW r \in Reqs
  PROVE  WholeReq(r)'
<1>0. Calm /\ RunsDo
  BY FaultsGrow DEF PromiseInv
<1>1. SUFFICES ASSUME req'[r].pc \in {"reindex", "enqueue"}, req'[r].arg = "graph",
                      NEW d, req'[r].doc = d, ~deleted'[d],
                      d \notin textless
               PROVE  Full(d)' \/ (Live(d) /\ jobs[d].from = "index")'
  BY HistoryTyped DEF WholeReq, Typed
<1>2. d \in Docs /\ Exists(d)'
  BY <1>1 DEF Typed, ReqDocs, HasRow, Exists
<1>3. ~deleted[d] /\ WholeDoc(d)
  BY <1>0, <1>1, <1>2, DeletedStays DEF WholeInv
\* a request under way: what it has seen is so still
<1>4. ASSUME Full(d) \/ (Live(d) /\ jobs[d].from = "index")
      PROVE  Full(d)' \/ (Live(d) /\ jobs[d].from = "index")'
  <2>1. CASE Live(d) /\ jobs[d].from = "index"
    <3>1. JobMoves(d)
      BY <1>2, JobsMove
    <3>2. CASE Live(d)'
      BY <2>1, <3>1, <3>2 DEF JobMoves
    <3>3. CASE ~Live(d)'
      <4>1. Dropped(d)
        BY <2>1, <3>1, <3>3 DEF JobMoves
      <4>2. ASSUME NEW q \in Reqs, RemoveCancel(q), req[q].doc = d PROVE FALSE
        BY <1>3, <4>2 DEF PurgeInv, ReqKeeps, RemoveCancel, At
      <4>3. ASSUME NEW w \in Workers, Nack(w), wk[w].doc = d PROVE FALSE
        BY <1>0, <1>1, <1>3, <4>3 DEF Nack, Runs, WholeInv, WholeRun, ErrPc, Spared
      <4>4. ASSUME NEW w \in Workers, Ack(w), wk[w].doc = d PROVE Full(d)'
        <5>1. wk[w].pc = "ack"
          BY <4>4 DEF Ack, Runs
        <5>2. Full(d)
          BY <1>0, <1>1, <1>3, <4>4, <5>1 DEF WholeInv, WholeRun, Spared
        <5>3. \A v \in Workers : wk[v].pc # "idle" /\ wk[v].doc = d => wk[v].pc \notin RewritePc
          BY <4>4, <5>1, LocksExclude DEF OneWorkerPerDocument, RewritePc
        <5> QED
          BY <1>0, <1>1, <1>2, <5>2, <5>3, FullStays
      <4>5. ~(Lapses(d) => crashes' > MaxStalled)
        <5>1. crashes' <= MaxStalled /\ crashes' \in Nat /\ MaxStalled \in Nat
          BY QueueAssumption DEF Calm, Typed, TypeOK, WorkerTypeOK
        <5> QED
          BY <1>2, <5>1 DEF WholeInv
      <4> QED
        BY <4>1, <4>2, <4>3, <4>4, <4>5 DEF Dropped
    <3> QED
      BY <3>2, <3>3
  <2>2. CASE ~(Live(d) /\ jobs[d].from = "index")
    <3>1. \A w \in Workers : wk[w].pc # "idle" /\ wk[w].doc = d => wk[w].pc \notin RewritePc
      BY <1>0, <1>2, <2>2, Rewriters
    <3> QED
      BY <1>0, <1>1, <1>2, <1>4, <2>2, <3>1, FullStays
  <2> QED
    BY <2>1, <2>2
<1>5. ASSUME req[r].doc = d, req[r].pc \in {"reindex", "enqueue"}, req[r].arg = "graph"
      PROVE  Full(d) \/ (Live(d) /\ jobs[d].from = "index")
  BY <1>0, <1>1, <1>3, <1>5 DEF WholeInv, WholeReq
<1>6. CASE req'[r] = req[r]
  BY <1>1, <1>4, <1>5, <1>6
<1>7. ASSUME NEW q \in Reqs, NEW e \in Docs, Start(q, e), req'[r] # req[r]
      PROVE  Full(d)
  <2>1. PICK op, p : Begin(q, e, op, p) /\ (p = "reindex" => status[e] \in {"READY", "FAILED"})
                     /\ p \notin {"enqueue"}
    BY <1>7 DEF Start, uploadComplete, review, reindex, removeDocument, publish
  <2>2. q = r /\ req'[r].doc = e /\ req'[r].pc = p
    BY <1>7, <2>1 DEF Begin, Typed, TypeOK, ReqTypeOK
  <2> QED
    BY <1>1, <1>3, <2>1, <2>2 DEF WholeDoc
<1>8. ASSUME NEW q \in Reqs, RequestStep(q) \/ PublishEsFails(q) \/ RequestFails(q),
             req'[r] # req[r]
      PROVE  req[r].doc = d /\ req[r].pc \in {"reindex", "enqueue"} /\ req[r].arg = "graph"
  <2>1. Answer(q) \/ \E p : Then(q, p)
    BY <1>8 DEF RequestStep, PublishEsFails, RequestFails,
       CompleteMerge, CompletePut, CompleteDup, CompleteDrop, CompleteDropRow,
       CompleteHash, CompleteSubmit, ReviewStatus, ReindexStatus, Enqueue,
       RemoveSave, RemoveGetState, RemoveCancel, PublishFlag, PublishEs,
       PublishRestore
  <2>2. q = r
    BY <1>8, <2>1 DEF Answer, Then, Typed, TypeOK, ReqTypeOK
  <2>3. PICK p : Then(r, p)
    BY <1>1, <2>1, <2>2 DEF Answer, Idle, Typed, TypeOK, ReqTypeOK
  <2>4. req'[r].pc = p /\ req[r].doc = d /\ req[r].arg = "graph"
    BY <1>1, <2>3 DEF Then, Typed, TypeOK, ReqTypeOK
  <2>5. req[r].pc \notin {"getState", "cancel"}
    BY <1>3, <2>4 DEF PurgeInv, ReqKeeps
  <2>6. ReindexStatus(r)
    <3>1. ~RemoveGetState(r) /\ ~RemoveCancel(r)
      BY <2>5 DEF RemoveGetState, RemoveCancel, At
    <3>2. ~ReviewStatus(r)
      BY <1>1, <2>4 DEF ReviewStatus, Answer, Idle, Typed, TypeOK, ReqTypeOK
    <3>3. \A x : Then(r, x) => x = p
      BY <2>4 DEF Then, Typed, TypeOK, ReqTypeOK
    <3>4. ~Answer(r)
      BY <1>1 DEF Answer, Idle, Typed, TypeOK, ReqTypeOK
    <3> QED
      BY <1>1, <1>8, <2>2, <2>4, <3>1, <3>2, <3>3, <3>4 DEF RequestStep, PublishEsFails,
         RequestFails, CompleteMerge, CompletePut, CompleteDup, CompleteDrop,
         CompleteDropRow, CompleteHash, CompleteSubmit, Enqueue, RemoveSave, PublishFlag,
         PublishEs, PublishRestore
  <2> QED
    BY <2>4, <2>6 DEF ReindexStatus, At
<1>9. CASE ApiNext
  <2>1. CASE \E e \in Docs : uploadInit(e)
    BY <1>6, <2>1 DEF uploadInit
  <2> QED
    BY <1>4, <1>5, <1>6, <1>7, <1>8, <1>9, <2>1 DEF ApiNext
<1> QED
  BY <1>6, <1>9 DEF Next, Step, vars, sysVars

LEMMA WholeRunStep ==
  ASSUME Typed, Typed', LockInv, LockInv', GenInv, PromiseInv, PurgeInv, WholeInv, HasRow',
         [Next]_vars, Calm', NEW w \in Workers
  PROVE  WholeRun(w)'
<1> USE DEF WholeRun, ErrPc
<1>0. Calm /\ RunsDo /\ \A side : ~Fault(side)
  BY FaultsGrow DEF PromiseInv
<1>1. CASE wk'[w].pc \notin ErrPc \union {"ack"}
  BY <1>1
<1>2. SUFFICES ASSUME wk'[w].pc \in ErrPc \union {"ack"} PROVE WholeRun(w)'
  BY <1>1
\* the run keeps its document, which is there
<1>3. ASSUME wk[w].pc # "idle", wk'[w].doc = wk[w].doc, NEW d, wk[w].doc = d
      PROVE  /\ d \in Docs /\ Exists(d) /\ Exists(d)' /\ Live(d)
             /\ Spared(d) => Spared(d)'
             /\ \A v \in Workers \ {w} : wk[v].pc # "idle" => wk[v].doc # d
  <2>1. d \in Docs /\ HoldsLock(w) /\ HoldsLock(w)'
    BY <1>2, <1>3 DEF Typed, WkDocs, LockInv
  <2>2. jobs[d].state = "active" /\ jobs'[d].state = "active"
    BY <1>3, <2>1 DEF HoldsLock
  <2> QED
    BY <1>3, <2>1, <2>2, SparedStays, LocksExclude
    DEF WholeInv, HasRow, Live, OneWorkerPerDocument
<1>4. ASSUME wk[w].pc # "idle", wk'[w].doc = wk[w].doc, NEW d, wk[w].doc = d,
             wk'[w].pc = "ack", wk[w].pc \notin RewritePc, Spared(d) \/ Full(d)
      PROVE  WholeRun(w)'
  <2>1. /\ d \in Docs /\ Exists(d)' /\ (Spared(d) => Spared(d)')
        /\ \A v \in Workers : wk[v].pc # "idle" /\ wk[v].doc = d => wk[v].pc \notin RewritePc
    BY <1>3, <1>4
  <2>2. ~Spared(d)' => Full(d)'
    BY <1>0, <1>4, <2>1, FullStays DEF Spared
  <2> QED
    BY <1>4, <2>2
<1>5. ASSUME wk[w].pc # "idle", wk'[w].doc = wk[w].doc, Spared(wk[w].doc) PROVE WholeRun(w)'
  BY <1>3, <1>5
<1>6. CASE wk'[w] = wk[w]
  <2>1. WholeRun(w) /\ wk[w].pc # "idle" /\ wk[w].pc \notin RewritePc
    BY <1>0, <1>2, <1>6 DEF WholeInv, RewritePc
  <2>2. CASE wk[w].pc \in ErrPc
    BY <1>5, <1>6, <2>1, <2>2
  <2>3. CASE wk[w].pc = "ack"
    BY <1>4, <1>6, <2>1, <2>3
  <2> QED
    BY <1>2, <1>6, <2>2, <2>3
<1>7. ASSUME RunsOn(w), WorkerStep(w) \/ StepFails(w) \/ BuildFails(w) PROVE WholeRun(w)'
  <2>1. PICK d : wk[w].doc = d
    OBVIOUS
  <2>2. /\ d \in Docs /\ Exists(d) /\ Exists(d)' /\ Live(d)
        /\ wk[w].pc # "idle" /\ wk'[w].doc = wk[w].doc
    BY <1>3, <1>7, <2>1 DEF RunsOn
  <2>3. ASSUME NEW p, Goto(w, p) \/ \E left, pub : GotoWith(w, p, left, pub)
        PROVE  wk'[w].pc = p
    BY <2>3 DEF Goto, GotoWith, Typed, TypeOK, WorkerTypeOK
  <2>4. ~StepFails(w) /\ ~BuildFails(w)
    BY <1>0 DEF StepFails, BuildFails
  <2>5. CASE Fetch(w)
    <3>1. PICK p \in {"purge", "gGraphing", "parsing"} : Goto(w, p)
      BY <2>1, <2>2, <2>5 DEF Fetch, JobDoc
    <3> QED
      BY <1>2, <2>3, <3>1
  <2>6. CASE \/ StatusStep(w, "parsing", "parse")
             \/ StatusStep(w, "chunking", "indexing")
             \/ StatusStep(w, "indexing", "check2")
             \/ StatusStep(w, "graphing", "check3")
             \/ StatusStep(w, "gGraphing", "gBuild")
    <3>1. PICK p \in {"parse", "indexing", "check2", "check3", "gBuild"} : Goto(w, p)
      BY <2>6 DEF StatusStep
    <3> QED
      BY <1>2, <2>3, <3>1
  <2>7. CASE Parse(w)
    <3>1. obj[d]
      BY <2>1, <2>7 DEF PurgeInv, RunKeeps, Parse, Runs, TryPc
    <3>2. Goto(w, "check1") \/ d \in textless
      BY <2>1, <2>7, <3>1 DEF Parse, JobDoc
    <3> QED
      BY <1>2, <1>5, <2>1, <2>2, <2>3, <3>2 DEF Spared
  <2>8. CASE \/ assertNotDeleted(w, "check1", "chunking")
             \/ assertNotDeleted(w, "check2", "clear")
             \/ assertNotDeleted(w, "check3", "build")
             \/ assertNotDeleted(w, "check4", "ready")
    <3>1. CASE deleted[d]
      BY <1>5, <2>1, <2>2, <3>1 DEF Spared
    <3>2. CASE ~deleted[d]
      <4>1. PICK p \in {"chunking", "clear", "build", "ready"} : Goto(w, p)
        BY <2>1, <2>2, <2>8, <3>2 DEF assertNotDeleted, Visible, JobDoc
      <4> QED
        BY <1>2, <2>3, <4>1
    <3> QED
      BY <3>1, <3>2
  <2>9. CASE ClearChunks(w) \/ ClearEs(w) \/ Load(w) \/ IndexDone(w)
    <3>1. PICK p \in {"clearEs", "insert", "esIndex", "graphing"} :
            Goto(w, p) \/ \E left, pub : GotoWith(w, p, left, pub)
      BY <2>9 DEF ClearChunks, ClearEs, Load, IndexDone
    <3> QED
      BY <1>2, <2>3, <3>1
  <2>10. CASE Insert(w)
    <3>1. chunks[d] = {}
      BY <2>1, <2>10 DEF GenInv, ClearedPc, Insert, Runs
    <3>2. Goto(w, "load")
      BY <2>1, <2>2, <2>10, <3>1 DEF Insert, JobDoc
    <3> QED
      BY <1>2, <2>3, <3>2
  <2>11. CASE IndexChunk(w)
    BY <1>2, <2>11 DEF IndexChunk, Runs, Typed, TypeOK, WorkerTypeOK
  <2>12. CASE Build(w, "build", "check4") \/ Build(w, "gBuild", "gReady")
    <3>1. PICK p \in {"check4", "gReady"} : Goto(w, p)
      BY <2>1, <2>2, <2>12 DEF Build, JobDoc
    <3> QED
      BY <1>2, <2>3, <3>1
  <2>13. CASE StatusStep(w, "ready", "ack")
    <3>1. wk[w].pc = "ready" /\ wk'[w].pc = "ack"
      BY <2>3, <2>13 DEF StatusStep, Runs
    <3>2. Spared(d) \/ Full(d)
      BY <1>0, <2>1, <2>2, <3>1
      DEF RunsDo, RunDoes, Alive, Exists, NoRow, Achieved, IndexedPc, Full, Spared
    <3> QED
      BY <1>4, <2>1, <2>2, <3>1, <3>2 DEF RewritePc
  <2>14. CASE StatusStep(w, "gReady", "ack")
    <3>1. wk[w].pc = "gReady" /\ wk'[w].pc = "ack"
      BY <2>3, <2>14 DEF StatusStep, Runs
    <3>2. Spared(d) \/ Full(d)
      BY <1>0, <2>1, <2>2, <3>1 DEF WholeInv, RunFrom, GraphPc, WholeDoc, Spared
    <3> QED
      BY <1>4, <2>1, <2>2, <3>1, <3>2 DEF RewritePc
  <2>15. CASE PurgeChunks(w) \/ PurgeEs(w) \/ PurgeGraph(w) \/ PurgeObject(w)
    <3>1. wk[w].pc \in PurgePc
      BY <2>15 DEF PurgeChunks, PurgeEs, PurgeGraph, PurgeObject, Runs, PurgePc
    <3>2. deleted[d]
      BY <1>0, <2>1, <3>1 DEF RunsDo, RunDoes
    <3> QED
      BY <1>5, <2>1, <2>2, <3>2 DEF Spared
  <2>16. CASE StatusStep(w, "failing", "nack")
    <3>1. wk[w].pc = "failing"
      BY <2>16 DEF StatusStep, Runs
    <3>2. Spared(d)
      BY <1>0, <2>1, <3>1 DEF WholeInv
    <3> QED
      BY <1>5, <2>1, <2>2, <3>2
  <2>17. CASE StatusStep(w, "chunking", "failing") /\ JobDoc(w) \in textless
    BY <1>5, <2>1, <2>2, <2>17 DEF JobDoc, Spared
  <2>18. CASE Ack(w) \/ Nack(w)
    BY <1>2, <2>18 DEF Ack, Nack, Free, Typed, TypeOK, WorkerTypeOK
  <2> QED
    BY <1>7, <2>4, <2>5, <2>6, <2>7, <2>8, <2>9, <2>10, <2>11, <2>12, <2>13, <2>14, <2>15,
       <2>16, <2>17, <2>18, ChunkSteps DEF WorkerStep
<1>8. ASSUME NEW v \in Workers, WorkerStep(v) \/ StepFails(v) \/ BuildFails(v)
      PROVE  WholeRun(w)'
  <2>1. CASE RunsOn(v)
    BY <1>6, <1>7, <1>8, <2>1 DEF RunsOn
  <2>2. CASE Ack(v) \/ Nack(v)
    BY <1>2, <1>6, <2>2 DEF Ack, Nack, Free, Typed, TypeOK, WorkerTypeOK
  <2> QED
    BY <1>8, <2>1, <2>2, StepRunsOn
<1>9. ASSUME NEW v \in Workers, NEW e \in Docs, Claim(v, e) PROVE WholeRun(w)'
  BY <1>2, <1>6, <1>9 DEF Claim, Typed, TypeOK, WorkerTypeOK
<1>10. CASE Crash
  BY <1>2, <1>10 DEF Crash, Free
<1>11. CASE wk' = wk
  BY <1>6, <1>11
<1> QED
  BY <1>8, <1>9, <1>10, <1>11 DEF Next, Step, WorkerNext, StalledCheck, vars, sysVars

LEMMA WholeStep ==
  ASSUME OwnBytes, Typed, LockInv, GenInv, PromiseInv, PurgeInv, WholeInv, [Next]_vars
  PROVE  WholeInv'
<1>1. Typed' /\ LockInv'
  BY TypedStep, LockStep
<1>2. HasRow'
  BY <1>1, HasRowStep DEF WholeInv
<1>3. \A w \in Workers : RunFrom(w)'
  BY <1>1, RunFromStep DEF WholeInv
<1>4. \A d \in Docs : Lapses(d)'
  BY <1>1, JobsMove DEF WholeInv, JobMoves
<1>5. ASSUME Calm'
      PROVE  /\ \A d \in Docs : WholeDoc(d)'
             /\ \A r \in Reqs : WholeReq(r)'
             /\ \A w \in Workers : WholeRun(w)'
  BY <1>1, <1>2, <1>5, WholeDocStep, WholeReqStep, WholeRunStep
<1> QED
  BY <1>2, <1>3, <1>4, <1>5 DEF WholeInv

LEMMA WholeInit == Init => WholeInv
<1> SUFFICES ASSUME Init PROVE WholeInv
  OBVIOUS
<1>1. /\ \A d \in Docs : status[d] = "absent" /\ jobs[d] = NoJob
      /\ \A r \in Reqs : req[r] = Idle
      /\ \A w \in Workers : wk[w] = Free
      /\ crashes = 0
  BY DEF Init, StoreInit, QueueInit, ReqInit, WorkerInit
<1>2. HasRow
  BY <1>1 DEF HasRow, NoJob, Idle
<1>3. \A w \in Workers : RunFrom(w) /\ WholeRun(w)
  BY <1>1 DEF RunFrom, WholeRun, Free, TryPc, GraphPc, ErrPc
<1>4. \A d \in Docs : Lapses(d) /\ WholeDoc(d)
  BY <1>1 DEF Lapses, Stalled, WholeDoc, Live, NoJob
<1>5. \A r \in Reqs : WholeReq(r)
  BY <1>1 DEF WholeReq, Idle
<1> QED
  BY <1>2, <1>3, <1>4, <1>5 DEF WholeInv

LEMMA WholeHolds ==
  ASSUME OwnBytes
  PROVE  Spec => []WholeInv
<1>1. Spec => [](Typed /\ LockInv /\ GenInv)
  <2>1. Init => LockInv /\ GenInv
    BY DEF Init, WorkerInit, Free, LockInv, GenInv, ClearedPc
  <2>2. Typed /\ LockInv /\ GenInv /\ [Next]_vars => GenInv'
    BY GenStep, LocksExclude
  <2> QED
    BY <2>1, <2>2, TypedInit, TypedStep, LockStep, PTL DEF Spec
<1>2. Typed /\ LockInv /\ PurgeInv /\ [Next]_vars => PurgeInv'
  BY TypedStep, PurgeStep
<1>3. Spec => []PurgeInv
  BY <1>1, <1>2, PurgeInit, PTL DEF Spec
<1>4. Typed /\ LockInv /\ GenInv /\ PromiseInv /\ PurgeInv /\ WholeInv /\ [Next]_vars
        => WholeInv'
  BY WholeStep
<1> QED
  BY <1>1, <1>3, <1>4, PromiseHolds, WholeInit, PTL DEF Spec

\* Where the graph is rebuilt alone as well, and no two documents have the
\* same bytes, a document marked READY has its chunk rows and each child of
\* them in Elasticsearch, as long as every document has text, no call has
\* failed and the worker has not died so often that a job is given up: a
\* rebuild that marks it READY never finds the index half written, whoever
\* deletes, reindexes or recovers.  (One without text becomes FAILED, and a
\* rebuild of its graph marks it READY.)
THEOREM ReadyUnlessGivenUp ==
  ASSUME OwnBytes
  PROVE  Spec => [](textless = {} /\ faults = 0 /\ crashes <= MaxStalled
                      => ReadyIsSearchable)
<1>1. WholeInv => (textless = {} /\ faults = 0 /\ crashes <= MaxStalled
                     => ReadyIsSearchable)
  BY DEF WholeInv, WholeDoc, Full, Calm, Indexed, Found, ReadyIsSearchable, Searchable
<1> QED
  BY <1>1, WholeHolds, PTL

\* A READY document has no hits without rows: as long as no call fails, what a
\* run interrupted between its two deletes left in Elasticsearch is gone
\* before the document is READY again, though the stalled checker may run it
\* again or give it up.  Where the graph is rebuilt alone, no two documents
\* are to have the same bytes.
THEOREM HitsHaveRows ==
  ASSUME "graph" \notin Ops \/ OwnBytes
  PROVE  Spec => []NoStaleHits
<1>1. CASE "graph" \notin Ops
  <2>1. PromiseInv => NoStaleHits
    BY <1>1 DEF PromiseInv, ReadyIs, ReadyAt, Alive, Clean, NoStaleHits
  <2> QED
    BY <2>1, PromiseHolds, PTL
<1>2. CASE "graph" \in Ops /\ OwnBytes
  <2>1. ASSUME WholeInv, BlankInv, Calm, NEW d \in Docs, status[d] = "READY", ~deleted[d]
        PROVE  {c.gen : c \in es[d]} \subseteq chunks[d]
    <3>1. CASE d \in textless
      BY <2>1, <3>1 DEF BlankInv, BlankDoc
    <3>2. CASE d \notin textless
      BY <2>1, <3>2 DEF WholeInv, WholeDoc, Full, Clean, Calm
    <3> QED
      BY <3>1, <3>2
  <2>2. WholeInv /\ BlankInv => NoStaleHits
    BY <1>2, <2>1 DEF Calm, NoStaleHits
  <2>3. Spec => []WholeInv
    BY <1>2, WholeHolds
  <2> QED
    BY <2>2, <2>3, BlankHolds, PTL
<1> QED
  BY <1>1, <1>2
=============================================================================
