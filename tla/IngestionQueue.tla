--------------------------- MODULE IngestionQueue ---------------------------
(***************************************************************************)
(* The BullMQ queue "ingestion" as ingestion.producer.ts and               *)
(* ingestion.processor.ts use it.  The producer gives every job the id     *)
(* ingest-<documentId>, so the queue is a table with at most one job per   *)
(* document; BullMQ ignores an add whose id already names a job in any     *)
(* state, a retained completed or failed one included.                     *)
(*                                                                         *)
(* "pending" stands for BullMQ's waiting and delayed: removePending treats *)
(* them alike and a delayed job becomes waiting by itself.  While the      *)
(* process that runs a job lives, it renews the job's lock.  Finished jobs *)
(* are retained (removeOnComplete 100, removeOnFail 500) until enough      *)
(* others have finished since: when that is, is left open.                 *)
(***************************************************************************)
EXTENDS DocumentStore

CONSTANTS Workers,        \* concurrency slots of the worker process
          NoWorker,       \* the owner of a job nobody holds the lock of
          Attempts,       \* attempts of a job (3 in the code)
          MaxStalled,     \* BullMQ's maxStalledCount (its default, 1)
          Others          \* enough other jobs finish to push retained ones out

ASSUME QueueAssumption ==
  /\ NoWorker \notin Workers
  /\ Attempts \in Nat \ {0}
  /\ MaxStalled \in Nat
  /\ Others \in BOOLEAN

VARIABLE jobs   \* jobs[d]: the job with id ingest-<d>

Stages == {"index", "graph"}

\* made: attempts that ended in an error; stalls: times the lock was found
\* lapsed
Job == [state : {"none", "pending", "active", "completed", "failed"},
        from  : Stages,
        made  : Nat,
        stalls: Nat,
        owner : Workers \union {NoWorker}]

NoJob == [state |-> "none", from |-> "index", made |-> 0, stalls |-> 0,
          owner |-> NoWorker]

QueueTypeOK == jobs \in [Docs -> Job]

QueueInit == jobs = [d \in Docs |-> NoJob]

Live(d) == jobs[d].state \in {"pending", "active"}

\* mutant of enqueue: no job id, so a second add starts a second job
enqueueAnyway(d, from) ==
  jobs' = [jobs EXCEPT ![d] = [NoJob EXCEPT !.state = "pending", !.from = from]]

\* enqueue: queue.add with jobId ingest-<d>, ignored while the id exists
enqueue(d, from) ==
  jobs' = IF jobs[d].state = "none"
            THEN [jobs EXCEPT ![d] = [NoJob EXCEPT !.state = "pending",
                                                   !.from = from]]
            ELSE jobs

\* mutant of remove: a running job is removed under its worker
removeRunning(d) == jobs' = [jobs EXCEPT ![d] = NoJob]

\* job.remove(): fails on a locked job, and the producer swallows that
remove(d) ==
  jobs' = IF jobs[d].state = "active" /\ jobs[d].owner # NoWorker
            THEN jobs
            ELSE [jobs EXCEPT ![d] = NoJob]

\* moveToActive: slot w takes a pending job and its lock
Take(w, d) ==
  /\ jobs[d].state = "pending"
  /\ jobs' = [jobs EXCEPT ![d].state = "active", ![d].owner = w]

\* d's job ends in state s.  Nobody looks at what is in such a job.
Retire(d, s) == jobs' = [jobs EXCEPT ![d] = [NoJob EXCEPT !.state = s]]

\* process() returned
Complete(d) == Retire(d, "completed")

\* mutant of FailAttempt: the job was added without its attempts option
FailAttemptOnce(d) == Retire(d, "failed")

\* process() threw: retry after the backoff, or fail for good
FailAttempt(d) ==
  IF jobs[d].made + 1 < Attempts
    THEN jobs' = [jobs EXCEPT ![d].state = "pending", ![d].made = @ + 1,
                              ![d].owner = NoWorker]
    ELSE Retire(d, "failed")

\* other jobs have finished and push a retained one out
OtherFinishes ==
  /\ Others
  /\ \E d \in Docs : /\ jobs[d].state \in {"completed", "failed"}
                     /\ jobs' = [jobs EXCEPT ![d] = NoJob]

\* mutant of ReleaseLocks: the locks of a dead process never lapse
ReleaseLocksNever == UNCHANGED jobs

\* the worker process died: nobody renews the locks of its jobs any more
ReleaseLocks ==
  jobs' = [d \in Docs |-> [jobs[d] EXCEPT !.owner = NoWorker]]

\* the stalled checker of a live worker finds an active job without a lock
Stalled(d) == jobs[d].state = "active" /\ jobs[d].owner = NoWorker

RecoverStalled(d) ==
  /\ Stalled(d)
  /\ IF jobs[d].stalls < MaxStalled
       THEN jobs' = [jobs EXCEPT ![d].state = "pending", ![d].stalls = @ + 1]
       ELSE Retire(d, "failed")
=============================================================================
