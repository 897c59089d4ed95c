-------------------------- MODULE IngestionWorker --------------------------
(***************************************************************************)
(* ingestion.processor.ts: the worker process and its concurrency slots.   *)
(* A slot runs process() on one job; a step ends at each await on a store  *)
(* somebody else also reads or writes.  Reads of rows only this job's slot *)
(* can write are joined to the step that uses them.  The Redis progress    *)
(* hash, the meta column, tracing, and the DONE rows of ingestion_jobs     *)
(* other than GRAPH's are left out: no decision reads them.                *)
(***************************************************************************)
EXTENDS IngestionQueue

CONSTANTS NoJobDoc,     \* the document of an idle slot
          MaxCrashes,   \* bound: deaths of the worker process
          GraphUp       \* Neo4j answered when the worker started

ASSUME WorkerAssumption ==
  /\ NoJobDoc \notin Docs
  /\ MaxCrashes \in Nat
  /\ GraphUp \in BOOLEAN

VARIABLES
  wk,        \* wk[w]: slot w and the job it runs
  crashes    \* deaths of the worker process so far

\* left: child chunks still to be sent to Elasticsearch; pub: the
\* company_public they are sent with
Free == [pc |-> "idle", doc |-> NoJobDoc, left |-> {}, pub |-> FALSE]

\* steps inside the try block of process(), and the others
TryPc   == {"parsing", "parse", "check1", "chunking", "indexing", "check2",
            "clear", "clearEs", "insert", "load", "esIndex", "graphing",
            "check3", "build", "check4", "ready"}
GraphPc == {"gGraphing", "gBuild", "gReady"}
PurgePc == {"purge", "purgeEs", "purgeGraph", "purgeObj"}
WkPc    == TryPc \union GraphPc \union PurgePc \union
           {"idle", "fetch", "failing", "ack", "nack"}

WorkerTypeOK ==
  /\ wk \in [Workers -> [pc : WkPc, doc : Docs \union {NoJobDoc},
                         left : SUBSET (Gens \X Parts), pub : BOOLEAN]]
  /\ crashes \in 0..MaxCrashes

WorkerInit ==
  /\ wk = [w \in Workers |-> Free]
  /\ crashes = 0

Runs(w, p)  == wk[w].pc = p
Goto(w, p)  == wk' = [wk EXCEPT ![w].pc = p]
JobDoc(w)   == wk[w].doc

\* the run goes on at p, with these children left to index and this flag
GotoWith(w, p, left, pub) ==
  wk' = [wk EXCEPT ![w] = [pc |-> p, doc |-> @.doc, left |-> left, pub |-> pub]]
-----------------------------------------------------------------------------
Claim(w, d) ==
  /\ Runs(w, "idle")
  /\ Take(w, d)
  /\ wk' = [wk EXCEPT ![w] = [pc |-> "fetch", doc |-> d, left |-> {}, pub |-> FALSE]]
  /\ UNCHANGED <<storeVars, crashes>>

\* process: skip a missing row, purge a deleted one, rebuild the graph only,
\* or run the whole pipeline
Fetch(w) ==
  LET d == JobDoc(w) IN
  /\ Runs(w, "fetch")
  /\ Goto(w, IF ~Exists(d) THEN "ack"
             ELSE IF deleted[d] THEN "purge"
             ELSE IF jobs[d].from = "graph" THEN "gGraphing"
             ELSE "parsing")
  /\ UNCHANGED <<storeVars, jobs, crashes>>

\* the status that the transition at a step writes
StatusAt == [parsing |-> "PARSING", chunking |-> "CHUNKING", indexing |-> "INDEXING",
             graphing |-> "GRAPHING", ready |-> "READY", gGraphing |-> "GRAPHING",
             gReady |-> "READY", failing |-> "FAILED"]

\* a step that is one transition: at p, write its status, go on at q
StatusStep(w, p, q) ==
  /\ Runs(w, p)
  /\ transition(JobDoc(w), StatusAt[p])
  /\ Goto(w, q)
  /\ UNCHANGED <<deleted, published, hashed, blobVars, indexVars, faults,
                 jobs, crashes>>

\* at p, go on at q unless the document has been deleted meanwhile
assertNotDeleted(w, p, q) ==
  /\ Runs(w, p)
  /\ Goto(w, IF Visible(JobDoc(w)) THEN q ELSE "failing")
  /\ UNCHANGED <<storeVars, jobs, crashes>>

\* getObjectBuffer, the parser and assertHasExtractableText.  A textless
\* document fails here, or in Chunk, on every attempt.
Parse(w) ==
  /\ Runs(w, "parse")
  /\ \/ obj[JobDoc(w)] /\ Goto(w, "check1")
     \/ (~obj[JobDoc(w)] \/ JobDoc(w) \in textless) /\ Goto(w, "failing")
  /\ UNCHANGED <<storeVars, jobs, crashes>>

\* the chunker must give a child chunk
Chunk(w) ==
  StatusStep(w, "chunking", IF JobDoc(w) \in textless THEN "failing" ELSE "indexing")
-----------------------------------------------------------------------------
(* indexChunks: clear both stores, embed, insert a new generation, index it *)

\* mutant of ClearChunks: a retry inserts next to the rows of the last run
ClearChunksNot(w) ==
  /\ Runs(w, "clear")
  /\ Goto(w, "clearEs")
  /\ UNCHANGED <<storeVars, jobs, crashes>>

ClearChunks(w) ==
  /\ Runs(w, "clear")
  /\ chunks' = [chunks EXCEPT ![JobDoc(w)] = {}]
  /\ Goto(w, "clearEs")
  /\ UNCHANGED <<rowVars, blobVars, es, graph, graphJob, faults, jobs, crashes>>

\* deleteByDocument logs a failure and returns
deleteByDocument(d) ==
  \/ es' = [es EXCEPT ![d] = {}] /\ UNCHANGED faults
  \/ Fault("worker") /\ UNCHANGED es

\* mutant of ClearEs: only the rows are cleared before writing
ClearEsNot(w) ==
  /\ Runs(w, "clearEs")
  /\ Goto(w, "insert")
  /\ UNCHANGED <<storeVars, jobs, crashes>>

ClearEs(w) ==
  /\ Runs(w, "clearEs")
  /\ deleteByDocument(JobDoc(w))
  /\ Goto(w, "insert")
  /\ UNCHANGED <<rowVars, blobVars, chunks, graph, graphJob, jobs, crashes>>

\* minutes of embedding later, one transaction inserts parents and children;
\* (document, chunk_index) is unique and the document's row must exist
Insert(w) ==
  LET d == JobDoc(w)
      fresh == Gens \ UsedGens(d) IN
  /\ Runs(w, "insert")
  /\ IF Exists(d) /\ chunks[d] = {}
       THEN /\ fresh # {}
            /\ chunks' = [chunks EXCEPT ![d] = {CHOOSE g \in fresh : TRUE}]
            /\ Goto(w, "load")
       ELSE UNCHANGED chunks /\ Goto(w, "failing")
  /\ UNCHANGED <<rowVars, blobVars, es, graph, graphJob, faults, jobs, crashes>>

\* read the children back, then companyPublishedAt
Load(w) ==
  LET d == JobDoc(w) IN
  /\ Runs(w, "load")
  /\ GotoWith(w, "esIndex", chunks[d] \X Parts, Exists(d) /\ published[d])
  /\ UNCHANGED <<storeVars, jobs, crashes>>

\* mutant of IndexChunk: a failed write to Elasticsearch is only logged
IndexChunkSwallowing(w) ==
  LET d == JobDoc(w) IN
  /\ Runs(w, "esIndex")
  /\ \E c \in wk[w].left :
       /\ \/ es' = [es EXCEPT ![d] = @ \union EsOf(c[1], {c[2]}, wk[w].pub)]
             /\ UNCHANGED faults
          \/ Fault("worker") /\ UNCHANGED es
       /\ wk' = [wk EXCEPT ![w].left = @ \ {c}]
  /\ UNCHANGED <<rowVars, blobVars, chunks, graph, graphJob, jobs, crashes>>

\* index one child, or go on when all are
IndexChunk(w) ==
  LET d == JobDoc(w) IN
  /\ Runs(w, "esIndex")
  /\ \E c \in wk[w].left :
       /\ es' = [es EXCEPT ![d] = @ \union EsOf(c[1], {c[2]}, wk[w].pub)]
       /\ wk' = [wk EXCEPT ![w].left = @ \ {c}]
  /\ UNCHANGED <<rowVars, blobVars, chunks, graph, graphJob, faults, jobs, crashes>>

IndexDone(w) ==
  /\ Runs(w, "esIndex")
  /\ wk[w].left = {}
  /\ GotoWith(w, "graphing", {}, FALSE)
  /\ UNCHANGED <<storeVars, jobs, crashes>>
-----------------------------------------------------------------------------
(* buildGraph, in the pipeline and alone: a failure only marks the GRAPH   *)
(* stage.  buildForDocument deletes, then writes chunk by chunk; it skips  *)
(* everything, without an error, when Neo4j was down at start-up.          *)

\* trackJob of the GRAPH stage
trackGraph(d, outcome) ==
  graphJob' = [graphJob EXCEPT ![d] = IF Exists(d) THEN outcome ELSE @]

\* mutant of buildGraph: the nodes of the last run are not deleted first
buildGraphOnTop(d) ==
  /\ graph' = [graph EXCEPT ![d] = IF GraphUp THEN @ \union chunks[d] ELSE @]
  /\ trackGraph(d, "done")
  /\ UNCHANGED faults

\* what a failed buildForDocument can leave behind
BrokenGraph(d) ==
  {[graph EXCEPT ![d] = left] : left \in {graph[d], {}, chunks[d]}}

buildGraph(d) ==
  \/ /\ graph' = [graph EXCEPT ![d] = IF GraphUp THEN chunks[d] ELSE @]
     /\ trackGraph(d, "done")
     /\ UNCHANGED faults
  \/ /\ Fault("worker")
     /\ graph' \in BrokenGraph(d)
     /\ trackGraph(d, "failed")

\* where an error at step p takes the run
Thrown(p) == IF p \in TryPc THEN "failing" ELSE "nack"

\* trackJob throws, twice, when the document's row has gone
Build(w, p, q) ==
  /\ Runs(w, p)
  /\ buildGraph(JobDoc(w))
  /\ Goto(w, IF Exists(JobDoc(w)) THEN q ELSE Thrown(p))
  /\ UNCHANGED <<rowVars, blobVars, chunks, es, jobs, crashes>>
-----------------------------------------------------------------------------
(* purge: only the first of its deletes lets an error out *)

PurgeChunks(w) ==
  /\ Runs(w, "purge")
  /\ chunks' = [chunks EXCEPT ![JobDoc(w)] = {}]
  /\ Goto(w, "purgeEs")
  /\ UNCHANGED <<rowVars, blobVars, es, graph, graphJob, faults, jobs, crashes>>

PurgeEs(w) ==
  /\ Runs(w, "purgeEs")
  /\ deleteByDocument(JobDoc(w))
  /\ Goto(w, "purgeGraph")
  /\ UNCHANGED <<rowVars, blobVars, chunks, graph, graphJob, jobs, crashes>>

PurgeGraph(w) ==
  /\ Runs(w, "purgeGraph")
  /\ \/ graph' = [graph EXCEPT ![JobDoc(w)] = IF GraphUp THEN {} ELSE @]
        /\ UNCHANGED faults
     \/ Fault("worker") /\ UNCHANGED graph
  /\ Goto(w, "purgeObj")
  /\ UNCHANGED <<rowVars, blobVars, chunks, es, graphJob, jobs, crashes>>

PurgeObject(w) ==
  /\ Runs(w, "purgeObj")
  /\ \/ obj' = [obj EXCEPT ![JobDoc(w)] = FALSE] /\ UNCHANGED faults
     \/ Fault("worker") /\ UNCHANGED obj
  /\ Goto(w, "ack")
  /\ UNCHANGED <<rowVars, parts, indexVars, jobs, crashes>>
-----------------------------------------------------------------------------
(* how a run ends *)

\* process() returned
Ack(w) ==
  /\ Runs(w, "ack")
  /\ Complete(JobDoc(w))
  /\ wk' = [wk EXCEPT ![w] = Free]
  /\ UNCHANGED <<storeVars, crashes>>

\* process() threw
Nack(w) ==
  /\ Runs(w, "nack")
  /\ FailAttempt(JobDoc(w))
  /\ wk' = [wk EXCEPT ![w] = Free]
  /\ UNCHANGED <<storeVars, crashes>>

\* a call throws: inside the try block the document becomes FAILED first.
\* A transition may have written its status already, then failed on Redis.
StepFails(w) ==
  LET pc == wk[w].pc IN
  /\ pc \in (TryPc \ {"build"}) \union {"fetch", "failing", "gGraphing",
                                        "gReady", "purge"}
  /\ Fault("worker")
  /\ \/ UNCHANGED status
     \/ pc \in DOMAIN StatusAt /\ transition(JobDoc(w), StatusAt[pc])
  /\ GotoWith(w, Thrown(pc), {}, FALSE)
  /\ UNCHANGED <<deleted, published, hashed, blobVars, indexVars, jobs, crashes>>

\* buildGraph fails, and so does recording it: PostgreSQL is away
BuildFails(w) ==
  /\ wk[w].pc \in {"build", "gBuild"}
  /\ Fault("worker")
  /\ graph' \in BrokenGraph(JobDoc(w))
  /\ Goto(w, Thrown(wk[w].pc))
  /\ UNCHANGED <<rowVars, blobVars, chunks, es, graphJob, jobs, crashes>>

\* the worker process dies with all its slots, and is started again
Crash ==
  /\ crashes < MaxCrashes
  /\ crashes' = crashes + 1
  /\ \E w \in Workers : wk[w].pc # "idle"
  /\ wk' = [w \in Workers |-> Free]
  /\ ReleaseLocks
  /\ UNCHANGED storeVars

StalledCheck(d) ==
  /\ RecoverStalled(d)
  /\ UNCHANGED <<storeVars, wk, crashes>>

\* the next step of the run in slot w
WorkerStep(w) ==
  \/ Fetch(w)
  \/ StatusStep(w, "parsing", "parse")
  \/ Parse(w)
  \/ assertNotDeleted(w, "check1", "chunking")
  \/ Chunk(w)
  \/ StatusStep(w, "indexing", "check2")
  \/ assertNotDeleted(w, "check2", "clear")
  \/ ClearChunks(w) \/ ClearEs(w) \/ Insert(w) \/ Load(w)
  \/ IndexChunk(w) \/ IndexDone(w)
  \/ StatusStep(w, "graphing", "check3")
  \/ assertNotDeleted(w, "check3", "build")
  \/ Build(w, "build", "check4")
  \/ assertNotDeleted(w, "check4", "ready")
  \/ StatusStep(w, "ready", "ack")
  \/ StatusStep(w, "gGraphing", "gBuild")
  \/ Build(w, "gBuild", "gReady")
  \/ StatusStep(w, "gReady", "ack")
  \/ PurgeChunks(w) \/ PurgeEs(w) \/ PurgeGraph(w) \/ PurgeObject(w)
  \/ StatusStep(w, "failing", "nack")
  \/ Ack(w) \/ Nack(w)

WorkerNext ==
  \/ \E w \in Workers : WorkerStep(w) \/ StepFails(w) \/ BuildFails(w)
  \/ \E w \in Workers, d \in Docs : Claim(w, d)
  \/ \E d \in Docs : StalledCheck(d)
  \/ OtherFinishes /\ UNCHANGED <<storeVars, wk, crashes>>
  \/ Crash
=============================================================================
