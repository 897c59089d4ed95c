---------------------------- MODULE DocumentsApi ----------------------------
(***************************************************************************)
(* documents.service.ts: the handlers that change a document.  A handler   *)
(* is a request in a slot of Reqs; every await on a store the worker or    *)
(* another handler also writes ends a step, and what the handler read      *)
(* before the await stays in the request.  Permission checks, list,        *)
(* progress, download and preview change nothing and are left out.         *)
(***************************************************************************)
EXTENDS IngestionQueue

CONSTANTS Reqs,     \* slots for concurrent requests
          NoDoc,    \* the document of an idle slot
          Ops       \* the operations users ask for, a subset of AllOps

AllOps == {"upload", "approve", "reject", "index", "graph", "remove",
           "publish", "withdraw"}

ASSUME ApiAssumption ==
  /\ NoDoc \notin Docs
  /\ Ops \subseteq AllOps

VARIABLE req   \* req[r]: the request in slot r

\* arg: the operation; readStatus, readPub: the row the handler loaded
Idle == [pc |-> "idle", doc |-> NoDoc, arg |-> "upload",
         readStatus |-> "absent", readPub |-> FALSE]

ReqPc == {"idle", "merge", "put", "dup", "drop", "dropRow", "hash", "submit",
          "review", "reindex", "enqueue", "save", "getState", "cancel",
          "flag", "esFlag", "restore"}

ReqTypeOK == req \in [Reqs -> [pc : ReqPc, doc : Docs \union {NoDoc},
                               arg : AllOps, readStatus : Status,
                               readPub : BOOLEAN]]

ReqInit == req = [r \in Reqs |-> Idle]

\* the request in slot r goes on at step p, or has been answered
Then(r, p) == req' = [req EXCEPT ![r].pc = p]
Answer(r)  == req' = [req EXCEPT ![r] = Idle]

\* a handler starts: it has read d's row and goes on at step p
Begin(r, d, op, p) ==
  /\ req[r].pc = "idle"
  /\ op \in Ops
  /\ req' = [req EXCEPT ![r] = [pc |-> p, doc |-> d, arg |-> op,
                                readStatus |-> status[d],
                                readPub |-> published[d]]]
  /\ UNCHANGED <<storeVars, jobs>>

At(r, p) == req[r].pc = p
-----------------------------------------------------------------------------
(* uploadInit, then uploadComplete *)

\* one INSERT; the client then puts the parts with the presigned URLs
uploadInit(d) ==
  /\ "upload" \in Ops
  /\ status[d] = "absent"
  /\ status' = [status EXCEPT ![d] = "UPLOADED"]
  /\ parts' = [parts EXCEPT ![d] = TRUE]
  /\ UNCHANGED <<deleted, published, hashed, obj, indexVars, faults, jobs, req>>

uploadComplete(r, d) ==
  /\ Visible(d)
  /\ status[d] = "UPLOADED"
  /\ Begin(r, d, "upload", "merge")

\* completeMultipartUpload reads the parts, and throws without them
CompleteMerge(r) ==
  /\ At(r, "merge")
  /\ IF parts[req[r].doc] THEN Then(r, "put") ELSE Answer(r)
  /\ UNCHANGED <<storeVars, jobs>>

\* then stores the merged object and removes the parts (a failure is
\* swallowed; nothing between the two looks at either)
CompletePut(r) ==
  LET d == req[r].doc IN
  /\ At(r, "put")
  /\ obj' = [obj EXCEPT ![d] = TRUE]
  /\ \/ parts' = [parts EXCEPT ![d] = FALSE] /\ UNCHANGED faults
     \/ Fault("api") /\ UNCHANGED parts
  /\ Then(r, "dup")
  /\ UNCHANGED <<rowVars, indexVars, jobs>>

CompleteDup(r) ==
  LET d == req[r].doc IN
  /\ At(r, "dup")
  /\ \/ ~findDuplicate(d) /\ Then(r, "hash")
     \/ (findDuplicate(d) \/ d \in Copied) /\ Then(r, "drop")
  /\ UNCHANGED <<storeVars, jobs>>

\* a duplicate: remove the object (a failure is swallowed), delete the row,
\* answer 409
CompleteDrop(r) ==
  /\ At(r, "drop")
  /\ \/ obj' = [obj EXCEPT ![req[r].doc] = FALSE] /\ UNCHANGED faults
     \/ Fault("api") /\ UNCHANGED obj
  /\ Then(r, "dropRow")
  /\ UNCHANGED <<rowVars, parts, indexVars, jobs>>

\* (its chunk rows and ingestion_jobs rows go with it: ON DELETE CASCADE)
CompleteDropRow(r) ==
  LET d == req[r].doc IN
  /\ At(r, "dropRow")
  /\ status' = [status EXCEPT ![d] = "gone"]
  /\ chunks' = [chunks EXCEPT ![d] = {}]
  /\ graphJob' = [graphJob EXCEPT ![d] = "none"]
  /\ Answer(r)
  /\ UNCHANGED <<deleted, published, hashed, blobVars, es, graph, faults, jobs>>

CompleteHash(r) ==
  LET d == req[r].doc IN
  /\ At(r, "hash")
  /\ hashed' = [hashed EXCEPT ![d] = Exists(d)]
  /\ Then(r, "submit")
  /\ UNCHANGED <<status, deleted, published, blobVars, indexVars, faults, jobs>>

CompleteSubmit(r) ==
  /\ At(r, "submit")
  /\ transition(req[r].doc, "PENDING_REVIEW")
  /\ Answer(r)
  /\ UNCHANGED <<deleted, published, hashed, blobVars, indexVars, faults, jobs>>
-----------------------------------------------------------------------------
(* review, reindex, and the enqueue they end with *)

\* mutant of review: no check of the status
reviewAnyStatus(r, d, verdict) ==
  /\ Visible(d)
  /\ Begin(r, d, verdict, "review")

review(r, d, verdict) ==
  /\ Visible(d)
  /\ status[d] = "PENDING_REVIEW"
  /\ Begin(r, d, verdict, "review")

\* the reviewer columns are written first; nothing else reads them
ReviewStatus(r) ==
  /\ At(r, "review")
  /\ IF req[r].arg = "approve"
       THEN transition(req[r].doc, "PARSING") /\ Then(r, "enqueue")
       ELSE transition(req[r].doc, "REJECTED") /\ Answer(r)
  /\ UNCHANGED <<deleted, published, hashed, blobVars, indexVars, faults, jobs>>

\* process() only tells fromStage 'graph' from the others
reindex(r, d, stage) ==
  /\ Visible(d)
  /\ status[d] \in {"READY", "FAILED"}
  /\ Begin(r, d, stage, "reindex")

ReindexStatus(r) ==
  /\ At(r, "reindex")
  /\ transition(req[r].doc, "INDEXING")
  /\ Then(r, "enqueue")
  /\ UNCHANGED <<deleted, published, hashed, blobVars, indexVars, faults, jobs>>

Enqueue(r) ==
  /\ At(r, "enqueue")
  /\ enqueue(req[r].doc, IF req[r].arg = "graph" THEN "graph" ELSE "index")
  /\ Answer(r)
  /\ UNCHANGED storeVars
-----------------------------------------------------------------------------
(* remove: soft delete, removePending, enqueue the purge *)

removeDocument(r, d) ==
  /\ Visible(d)
  /\ Begin(r, d, "remove", "save")

\* save(doc) writes the whole row as it was loaded, with deletedAt; it
\* inserts the row again when it has gone meanwhile.  (A content hash
\* written meanwhile is lost too, on a row no duplicate check looks at.)
RemoveSave(r) ==
  LET d == req[r].doc IN
  /\ At(r, "save")
  /\ status' = [status EXCEPT ![d] = req[r].readStatus]
  /\ published' = [published EXCEPT ![d] = req[r].readPub]
  /\ deleted' = [deleted EXCEPT ![d] = TRUE]
  /\ Then(r, "getState")
  /\ UNCHANGED <<hashed, blobVars, indexVars, faults, jobs>>

\* removePending looks at the job's state, and removes the job afterwards
RemoveGetState(r) ==
  /\ At(r, "getState")
  /\ Then(r, IF jobs[req[r].doc].state = "pending" THEN "cancel" ELSE "enqueue")
  /\ UNCHANGED <<storeVars, jobs>>

RemoveCancel(r) ==
  /\ At(r, "cancel")
  /\ remove(req[r].doc)
  /\ Then(r, "enqueue")
  /\ UNCHANGED storeVars
-----------------------------------------------------------------------------
(* publish to the company space, or withdraw *)

publish(r, d, op) ==
  /\ Visible(d)
  /\ op = "publish" => status[d] = "READY"
  /\ published[d] # (op = "publish")
  /\ Begin(r, d, op, "flag")

PublishFlag(r) ==
  /\ At(r, "flag")
  /\ SetPublished(req[r].doc, req[r].arg = "publish")
  /\ Then(r, "esFlag")
  /\ UNCHANGED <<status, deleted, hashed, blobVars, indexVars, faults, jobs>>

PublishEs(r) ==
  /\ At(r, "esFlag")
  /\ setCompanyPublic(req[r].doc, req[r].arg = "publish")
  /\ Answer(r)
  /\ UNCHANGED <<rowVars, blobVars, chunks, graph, graphJob, faults, jobs>>

\* the call to Elasticsearch failed, before or after it took effect: write
\* back the flag that was read, answer 503
PublishEsFails(r) ==
  /\ At(r, "esFlag")
  /\ Fault("api")
  /\ UNCHANGED es \/ setCompanyPublic(req[r].doc, req[r].arg = "publish")
  /\ Then(r, "restore")
  /\ UNCHANGED <<rowVars, blobVars, chunks, graph, graphJob, jobs>>

PublishRestore(r) ==
  /\ At(r, "restore")
  /\ SetPublished(req[r].doc, req[r].readPub)
  /\ Answer(r)
  /\ UNCHANGED <<status, deleted, hashed, blobVars, indexVars, faults, jobs>>
-----------------------------------------------------------------------------
\* a store call throws out of the handler, or the API process dies
RequestFails(r) ==
  /\ req[r].pc # "idle"
  /\ Fault("api")
  /\ Answer(r)
  /\ UNCHANGED <<rowVars, blobVars, indexVars, jobs>>

Start(r, d) ==
  \/ uploadComplete(r, d)
  \/ \E v \in {"approve", "reject"} : review(r, d, v)
  \/ \E s \in Stages : reindex(r, d, s)
  \/ removeDocument(r, d)
  \/ \E op \in {"publish", "withdraw"} : publish(r, d, op)

\* the next step of the request in slot r
RequestStep(r) ==
  \/ CompleteMerge(r) \/ CompletePut(r) \/ CompleteDup(r) \/ CompleteDrop(r)
  \/ CompleteDropRow(r) \/ CompleteHash(r) \/ CompleteSubmit(r)
  \/ ReviewStatus(r) \/ ReindexStatus(r) \/ Enqueue(r)
  \/ RemoveSave(r) \/ RemoveGetState(r) \/ RemoveCancel(r)
  \/ PublishFlag(r) \/ PublishEs(r) \/ PublishRestore(r)

ApiNext ==
  \/ \E d \in Docs : uploadInit(d)
  \/ \E r \in Reqs, d \in Docs : Start(r, d)
  \/ \E r \in Reqs : RequestStep(r) \/ PublishEsFails(r) \/ RequestFails(r)
=============================================================================
