------------------------- MODULE DocumentLifecycle -------------------------
(***************************************************************************)
(* The life of a document as its users see it: the status machine that     *)
(* DocumentStatus documents and the API and the worker drive together,     *)
(* with "DELETED" once the document is soft-deleted, and "CONTENDED" while *)
(* a reindex and a run write its status side by side.  Ingestion           *)
(* implements it.                                                          *)
(***************************************************************************)
CONSTANTS Docs

VARIABLE phase    \* phase[d]: where document d is in its life

Ingesting == {"PARSING", "CHUNKING", "INDEXING", "GRAPHING"}
Handled   == {"READY", "FAILED"}

Move(d, from, to) ==
  /\ phase[d] \in from
  /\ phase' = [phase EXCEPT ![d] = to]

\* upload, content check, review
Upload(d)  == Move(d, {"absent"}, "UPLOADED")
Submit(d)  == Move(d, {"UPLOADED"}, "PENDING_REVIEW")
Refuse(d)  == Move(d, {"UPLOADED"}, "gone")
Approve(d) == Move(d, {"PENDING_REVIEW"}, "PARSING")
Reject(d)  == Move(d, {"PENDING_REVIEW"}, "REJECTED")

\* one run of the pipeline, or of its last stage alone; a retry and a
\* recovered run start over
Restart(d) == Move(d, Ingesting \union Handled, "PARSING")
Regraph(d) == Move(d, {"INDEXING"} \union Handled, "GRAPHING")
Advance(d) == \/ Move(d, {"PARSING"}, "CHUNKING")
              \/ Move(d, {"CHUNKING"}, "INDEXING")
              \/ Move(d, {"INDEXING"}, "GRAPHING")
              \/ Move(d, {"GRAPHING"}, "READY")
Fail(d)    == Move(d, Ingesting \union Handled, "FAILED")

\* a user asks for the index to be rebuilt, beside a run until the next one
\* starts, or deletes the document
Reindex(d) == Move(d, Handled, "INDEXING")
Contend(d) == \/ Move(d, Ingesting \union Handled, "CONTENDED")
              \/ \E s \in Ingesting \union Handled : Move(d, {"CONTENDED"}, s)
Delete(d)  == Move(d, Ingesting \union Handled \union
                      {"UPLOADED", "PENDING_REVIEW", "REJECTED", "CONTENDED"},
                   "DELETED")

Init == phase = [d \in Docs |-> "absent"]

Next == \E d \in Docs :
          \/ Upload(d) \/ Submit(d) \/ Refuse(d) \/ Approve(d) \/ Reject(d)
          \/ Restart(d) \/ Regraph(d) \/ Advance(d) \/ Fail(d) \/ Reindex(d)
          \/ Contend(d) \/ Delete(d)

Spec == Init /\ [][Next]_phase
=============================================================================
