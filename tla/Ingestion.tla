----------------------------- MODULE Ingestion -----------------------------
(***************************************************************************)
(* Document ingestion: the API's document handlers, the BullMQ queue and   *)
(* the worker, over the stores they share.                                 *)
(***************************************************************************)
EXTENDS DocumentsApi, IngestionWorker

\* history of each document
VARIABLES
  unqueued,   \* unqueued[d]: the handler that set d to a processing status got
              \* no job for it: the add was ignored, or never made; until the
              \* next run of d starts
  overtaken   \* overtaken[d]: a reindex and a run wrote d's status side by
              \* side; until the next whole run of d starts after them

sysVars == <<storeVars, jobs, req, wk, crashes>>
vars    == <<sysVars, textless, unqueued, overtaken>>

Init ==
  /\ StoreInit /\ QueueInit /\ ReqInit /\ WorkerInit
  /\ textless \in SUBSET Docs
  /\ unqueued = [d \in Docs |-> FALSE]
  /\ overtaken = [d \in Docs |-> FALSE]

\* the handler in slot r leaves its enqueue, and d's job is not pending
NoJobGot(d) ==
  /\ \E r \in Reqs : req[r].doc = d /\ At(r, "enqueue") /\ ~At(r, "enqueue")'
  /\ jobs'[d].state # "pending"

\* a reindex, which has found d READY or FAILED, sets it to INDEXING while d
\* has a run, or after one has written another status
Overtakes(d) ==
  /\ \E r \in Reqs : req[r].doc = d /\ At(r, "reindex") /\ At(r, "enqueue")'
  /\ Live(d) \/ status[d] \in Processing

RunStarts(d) == jobs[d].state = "pending" /\ jobs'[d].state = "active"

\* a whole run, with no reindex on its way
StartsAfresh(d) ==
  /\ RunStarts(d) /\ jobs[d].from = "index"
  /\ \A r \in Reqs : req[r].doc = d => ~At(r, "enqueue")

Remember ==
  /\ unqueued' = [d \in Docs |-> NoJobGot(d) \/ (unqueued[d] /\ ~RunStarts(d))]
  /\ overtaken' = [d \in Docs |->
       Overtakes(d) \/ (overtaken[d] /\ ~StartsAfresh(d))]

Step ==
  \/ ApiNext /\ UNCHANGED <<wk, crashes>>
  \/ WorkerNext /\ UNCHANGED req

Next == Step /\ UNCHANGED textless /\ Remember

Spec == Init /\ [][Next]_vars

\* The event loops of both processes run what is ready: a request goes on,
\* a slot takes work and goes on with it, the stalled checker keeps running.
\* Nobody has to send a request, and nothing has to fail.
Fairness ==
  /\ \A r \in Reqs : WF_sysVars(RequestStep(r) /\ UNCHANGED <<wk, crashes>>)
  /\ \A w \in Workers : WF_sysVars(WorkerStep(w) /\ UNCHANGED req)
  /\ \A d \in Docs : /\ SF_sysVars(\E w \in Workers : Claim(w, d) /\ UNCHANGED req)
                     /\ WF_sysVars(StalledCheck(d) /\ UNCHANGED req)

FairSpec == Spec /\ Fairness

\* Every variable stays in its type.
TypeOK ==
  /\ StoreTypeOK /\ QueueTypeOK /\ ReqTypeOK /\ WorkerTypeOK
  /\ textless \subseteq Docs
  /\ unqueued \in [Docs -> BOOLEAN]
  /\ overtaken \in [Docs -> BOOLEAN]
-----------------------------------------------------------------------------
(* Safety *)

\* No two slots ever run jobs of the same document: producer.ts gives a
\* document's jobs one id "so that only one is in flight", across deletes,
\* reindexes, approvals, retries, crashes and stalled jobs.
OneWorkerPerDocument ==
  \A v, w \in Workers :
    v # w /\ wk[v].pc # "idle" /\ wk[w].pc # "idle" => wk[v].doc # wk[w].doc

\* A run inserts its chunk rows where there are none: "clear, then write"
\* minutes apart is safe for re-runs and retries, and the unique index on
\* (document, chunk_index) never turns one into a failure.
InsertFindsNoRows ==
  \A w \in Workers : wk[w].pc = "insert" => chunks[wk[w].doc] = {}

\* A live document marked READY has chunk rows, and every child of them is
\* in Elasticsearch ("READY: ingested, can be retrieved").
Searchable(d) ==
  /\ chunks[d] # {}
  /\ \A g \in chunks[d], p \in Parts : \E c \in es[d] : c.gen = g /\ c.part = p

ReadyIsSearchable ==
  \A d \in Docs : status[d] = "READY" /\ ~deleted[d] => Searchable(d)

\* The worker empties the stores of a deleted document and removes its
\* object last; after that no older run writes any of it back (the
\* "resurrection" removePending and assertNotDeleted are there to stop).
PurgedStaysPurged ==
  \A d \in Docs :
    deleted[d] /\ ~obj[d]
    => chunks[d] = {} /\ (faults = 0 => es[d] = {} /\ (GraphUp => graph[d] = {}))

\* While no delete from Elasticsearch is lost, a READY document has no
\* Elasticsearch chunk that its chunk rows do not have.  (A rebuild of the
\* graph alone marks READY what a run left that the stalled checker gave up.)
NoStaleHits ==
  ("graph" \in Ops => crashes <= MaxStalled) =>
  \A d \in Docs :
    status[d] = "READY" /\ ~deleted[d] /\ faults = 0
      => {c.gen : c \in es[d]} \subseteq chunks[d]

\* When the GRAPH stage of a READY document is recorded as done, Neo4j holds
\* the chunks the document has now and none of an earlier run.
GraphMatchesChunks ==
  \A d \in Docs :
    status[d] = "READY" /\ ~deleted[d] /\ graphJob[d] = "done" /\ GraphUp
      => graph[d] = chunks[d]

\* What may keep a document in a processing status for ever: its handler got
\* no job for it (BullMQ ignores the add of a reindex while the finished job
\* of that id is retained); the stalled checker gave its job up after more
\* than MaxStalled crashes, and tells nobody; no attempt can succeed, and the
\* write of FAILED at the end of the last one may fail.
Abandoned(d) == \/ unqueued[d]
                \/ crashes > MaxStalled
                \/ d \in textless /\ faults > 0

\* A document in a processing status has a job that will move it on, once
\* the handler that set the status has left its enqueue, across approvals,
\* rebuilds, retries and recovered runs, unless it is abandoned as above.
InFlightHasJob ==
  \A d \in Docs :
    /\ status[d] \in Processing /\ ~deleted[d] /\ ~Abandoned(d)
    /\ \A r \in Reqs : req[r].doc = d => req[r].pc # "enqueue"
    => Live(d)

-----------------------------------------------------------------------------
(* Liveness and refinement *)

\* A document in a processing status eventually becomes READY or FAILED, or
\* is deleted, unless it is abandoned.
Settles ==
  \A d \in Docs :
    status[d] \in Processing
      ~> status[d] \in {"READY", "FAILED"} \/ deleted[d] \/ Abandoned(d)

\* The document statuses move as the documented state machine allows, but for
\* a reindex and a run (a retry) of a document that write side by side.
Lifecycle == INSTANCE DocumentLifecycle
               WITH phase <- [d \in Docs |-> IF deleted[d] THEN "DELETED"
                                             ELSE IF overtaken[d] THEN "CONTENDED"
                                             ELSE status[d]]

LifecycleSpec == Lifecycle!Spec
=============================================================================
