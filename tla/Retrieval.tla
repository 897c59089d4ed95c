----------------------------- MODULE Retrieval -----------------------------
(***************************************************************************)
(* Hybrid retrieval (retrieval.service.ts) and keyword search              *)
(* (search.controller.ts) over the two stores of chunks, while documents   *)
(* are reprocessed, published, withdrawn and deleted, and roles change.    *)
(* A generation of chunks is one parent, 0, and two children, 1 and 2;     *)
(* scores are left out: what matches and what the reranker keeps is any    *)
(* subset.  An engine that fails answers nothing.                          *)
(***************************************************************************)
EXTENDS Permissions

CONSTANT MaxGen  \* bound: generations of chunks

ASSUME RetrievalAssumption == MaxGen \in Nat \ {0}

VARIABLES
  rows,    \* generation in document_chunks, 0 for none
  es,      \* generation in Elasticsearch, and its company_public
  worker,  \* step of indexChunks or of the purge, and the flag it has read
  publishing, \* between the row and the index: the value before, or nothing
  request, \* the retrieval in flight
  may,     \* ghost: the scope has covered the document since the request began
  cleared, \* ghost: chunks were cleared since the request began
  raced,   \* ghost: published or withdrawn between the worker's read and write,
           \* or read between a publication and its index
  orphaned \* ghost: Elasticsearch did not take a deletion

ghostVars == <<may, cleared, raced, orphaned>>
storeVars == <<rows, es, worker, publishing>>
retrievalVars == <<factVars, storeVars, request, ghostVars>>

Gen == 1..MaxGen
Hit == [id : Gen \X (0..2), text : {"", "child", "parent"}, public : BOOLEAN]
Idle == [pc |-> "idle", scope |-> [spaces |-> FALSE, company |-> "no"], es |-> {}, vector |-> {}, hits |-> {}]

RetrievalTypeOK ==
  /\ FactsTypeOK
  /\ rows \in 0..MaxGen
  /\ es \in [gen : 0..MaxGen, public : BOOLEAN]
  /\ worker \in [pc : {"idle", "clearEs", "insert", "flag", "index", "purgeEs"}, public : BOOLEAN]
  /\ publishing \subseteq BOOLEAN
  /\ request.hits \subseteq Hit

\* of roles only whether the space is visible matters here
RetrievalInit ==
  /\ FactsInit /\ doc.status \in {"PROCESSING", "READY"} /\ ~doc.deleted
  /\ attached = FALSE
  /\ user \in {u \in User : u.member \in {"none", "viewer"} /\ ~(u.sysadmin \/ u.deptMember \/ u.deptAdmin)}
  /\ rows = (IF doc.status = "READY" THEN 1 ELSE 0)
  /\ es = [gen |-> rows, public |-> doc.published]
  /\ worker = [pc |-> "idle", public |-> FALSE] /\ publishing = {}
  /\ request = Idle
  /\ may = FALSE /\ cleared = FALSE /\ raced = FALSE /\ orphaned = FALSE
-----------------------------------------------------------------------------
(* what the retrieval asks the stores *)

Children(g, text, public) == {[id |-> <<g, i>>, text |-> text, public |-> public] : i \in 1..2}

\* mutant of aclFilter: an empty list of spaces lets everything through
aclFilterOpen(scope, public) == scope.company = "only" => public

\* the filter of the search, by the flag in the index
aclFilter(scope, public) == InScope(scope, public)

EsHits(scope) ==
  IF es.gen # 0 /\ aclFilter(scope, es.public) THEN Children(es.gen, "", es.public) ELSE {}

\* vectorSearch: by the row of the document, which is not deleted
VectorHits(scope) ==
  IF rows # 0 /\ ~doc.deleted /\ InScope(scope, doc.published)
    THEN Children(rows, "child", doc.published) ELSE {}

\* rrfFuse: of a chunk found twice, the hit that has its text
rrfFuse(a, b) == b \union {h \in a : \A k \in b : k.id # h.id}

\* fillContent: by id alone
fillContent(hits) ==
  {IF h.text = "" /\ rows = h.id[1] THEN [h EXCEPT !.text = "child"] ELSE h : h \in hits}

\* expandToParents, before hits of one parent are merged
Parent(h) == IF rows = h.id[1] THEN [h EXCEPT !.id = <<rows, 0>>, !.text = "parent"] ELSE h

\* one hit of each id, whichever ranks first
OneEach(hits, kept) ==
  kept \subseteq hits /\ \A h \in hits : Cardinality({k \in kept : k.id = h.id}) = 1

filterChunksByAcl(hits, scope) ==
  IF scope.company = "only" THEN {h \in hits : h.public}
  ELSE {h \in hits : scope.spaces \/ (scope.company = "also" /\ h.public)}

AllowedNow(scope) ==
  \/ scope.company # "only" /\ whitelisted
  \/ scope.company # "no" /\ (doc.published \/ publishing # {} \/ raced)

\* after every step: what the ghosts remember of the request
Watch == may' = (may \/ AllowedNow(request.scope)')
-----------------------------------------------------------------------------
(* a request *)

\* searchScope, or retrievalScope of the agent; nothing to search in: over
Start ==
  /\ request.pc \in {"idle", "done"}
  /\ \E scope \in Scopes, kind \in {"recall", "search"} :
       request' = [Idle EXCEPT !.scope = scope,
                               !.pc = IF ~scope.spaces /\ scope.company = "no" THEN "done" ELSE kind]
  /\ may' = AllowedNow(request'.scope)
  /\ cleared' = (worker.pc # "idle")
  /\ UNCHANGED <<factVars, storeVars, raced, orphaned>>

Step(pc, r) ==
  /\ request.pc = pc
  /\ request' = r
  /\ UNCHANGED <<factVars, storeVars, cleared, raced, orphaned>>
  /\ Watch

\* searchWithHighlight: hits carry the text of the index
KeywordSearch ==
  \E found \in SUBSET EsHits(request.scope) :
    Step("search", [request EXCEPT !.pc = "done", !.hits = {[h EXCEPT !.text = "child"] : h \in found}])

\* Promise.allSettled of the two engines, in either order; once they are
\* fused, what the first has found is not looked at again
EsAnswers ==
  \E found \in SUBSET EsHits(request.scope) :
    \/ Step("recall", [request EXCEPT !.pc = "vector", !.es = found])
    \/ Step("es", [request EXCEPT !.pc = "fill", !.vector = {}, !.hits = rrfFuse(found, request.vector)])
VectorAnswers ==
  \E found \in SUBSET VectorHits(request.scope) :
    \/ Step("recall", [request EXCEPT !.pc = "es", !.vector = found])
    \/ Step("vector", [request EXCEPT !.pc = "fill", !.es = {}, !.hits = rrfFuse(request.es, found)])

Fill == Step("fill", [request EXCEPT !.pc = "rerank", !.hits = fillContent(@)])

\* the reranker, or the first topN without it
Rerank == \E kept \in SUBSET request.hits : Step("rerank", [request EXCEPT !.pc = "expand", !.hits = kept])

\* expandToParents and the filter of the result
Expand ==
  LET expanded == {Parent(h) : h \in request.hits} IN
  \E kept \in SUBSET expanded :
    /\ OneEach(expanded, kept)
    /\ Step("expand", [request EXCEPT !.pc = "done", !.hits = filterChunksByAcl(kept, request.scope)])
-----------------------------------------------------------------------------
(* the worker: indexChunks, and the purge of what is deleted *)

Quiet == UNCHANGED <<request, publishing>> /\ Watch
WorkerAt(pc, next) == worker.pc = pc /\ worker' = [worker EXCEPT !.pc = next]

\* document_chunks first
ClearRows ==
  /\ \/ doc.status = "PROCESSING" /\ ~doc.deleted /\ WorkerAt("idle", "clearEs")
     \/ doc.deleted /\ (rows # 0 \/ es.gen # 0) /\ WorkerAt("idle", "purgeEs")
  /\ rows' = 0 /\ cleared' = TRUE
  /\ UNCHANGED <<factVars, es, raced, orphaned>> /\ Quiet

\* mutant of ClearEs: the index is left to be overwritten
ClearEsNot ==
  /\ WorkerAt("clearEs", "insert") \/ WorkerAt("purgeEs", "idle")
  /\ UNCHANGED <<factVars, rows, es, cleared, raced, orphaned>> /\ Quiet

\* deleteByDocument logs a failure and goes on
ClearEs ==
  /\ WorkerAt("clearEs", "insert") \/ WorkerAt("purgeEs", "idle")
  /\ \/ es' = [gen |-> 0, public |-> FALSE] /\ UNCHANGED <<changes, orphaned>>
     \/ Change /\ orphaned' = TRUE /\ UNCHANGED es
  /\ UNCHANGED <<user, attached, doc, rows, cleared, raced>> /\ Quiet

\* embedded, the new generation is inserted; ids are new
Insert ==
  /\ WorkerAt("insert", "flag")
  /\ \E g \in Gen : /\ rows' = g /\ g # es.gen
                    /\ request.pc # "idle" => \A h \in request.hits \union request.es \union request.vector : h.id[1] # g
  /\ UNCHANGED <<factVars, es, cleared, raced, orphaned>> /\ Quiet

ReadFlag ==
  /\ worker.pc = "flag"
  /\ worker' = [pc |-> "index", public |-> doc.published]
  /\ raced' = (publishing # {} \/ (raced /\ es.gen # 0))
  /\ UNCHANGED <<factVars, rows, es, cleared, orphaned>> /\ Quiet

\* esIndex, and READY
Index ==
  /\ WorkerAt("index", "idle")
  /\ es' = [gen |-> rows, public |-> worker.public]
  /\ doc' = [doc EXCEPT !.status = "READY"]
  /\ UNCHANGED <<user, attached, changes, rows, cleared, raced, orphaned>> /\ Quiet
-----------------------------------------------------------------------------
(* documents.service.ts publish, reindex, remove *)

\* the row first, then the index, and the row back when the index fails
Publish ==
  /\ publishing = {} /\ ~doc.deleted
  /\ doc.published \/ doc.status = "READY"
  /\ publishing' = {doc.published}
  /\ MoveDoc([doc EXCEPT !.published = ~@])
  /\ raced' = (raced \/ worker.pc = "index")
  /\ UNCHANGED <<rows, es, worker, request, cleared, orphaned>>
  /\ Watch

\* mutant of PublishIndex: when the index fails the row stays changed
PublishIndexKeeps ==
  /\ publishing # {}
  /\ publishing' = {}
  /\ \/ /\ es' = [es EXCEPT !.public = doc.published]
        /\ raced' = (raced /\ worker.pc = "index")
        /\ UNCHANGED changes
     \/ Change /\ raced' = (raced \/ worker.pc = "index") /\ UNCHANGED es
  /\ UNCHANGED <<user, attached, doc, rows, worker, request, cleared, orphaned>>
  /\ Watch

PublishIndex ==
  /\ publishing # {}
  /\ publishing' = {}
  /\ \/ /\ es' = [es EXCEPT !.public = doc.published]
        /\ raced' = (raced /\ worker.pc = "index")
        /\ UNCHANGED <<doc, changes>>
     \/ /\ Change
        /\ doc' = [doc EXCEPT !.published = ~@]
        /\ raced' = (raced \/ worker.pc = "index")
        /\ UNCHANGED es
  /\ UNCHANGED <<user, attached, rows, worker, request, cleared, orphaned>>
  /\ Watch

Reindex ==
  /\ doc.status \in {"READY", "FAILED"} /\ ~doc.deleted
  /\ MoveDoc([doc EXCEPT !.status = "PROCESSING"])
  /\ UNCHANGED <<rows, es, worker, cleared, raced, orphaned>> /\ Quiet

RemoveDoc ==
  /\ ~doc.deleted
  /\ MoveDoc([doc EXCEPT !.deleted = TRUE])
  /\ UNCHANGED <<rows, es, worker, cleared, raced, orphaned>> /\ Quiet

\* addMember and removeMember, by others
Others ==
  /\ Change /\ user' = [user EXCEPT !.member = IF @ = "none" THEN "viewer" ELSE "none"]
  /\ UNCHANGED <<attached, doc>>
  /\ UNCHANGED <<rows, es, worker, cleared, raced, orphaned>> /\ Quiet

RetrievalNext ==
  \/ Start \/ KeywordSearch \/ EsAnswers \/ VectorAnswers \/ Fill \/ Rerank \/ Expand
  \/ ClearRows \/ ClearEs \/ Insert \/ ReadFlag \/ Index
  \/ Publish \/ PublishIndex \/ Reindex \/ RemoveDoc \/ Others

RetrievalSpec == RetrievalInit /\ [][RetrievalNext]_retrievalVars
-----------------------------------------------------------------------------
(* Properties *)

\* An answer holds nothing of a document that the scope of the request has
\* not covered at any moment since it began, whatever is published, withdrawn
\* or revoked meanwhile: the filters by the index's flag, by the row and by
\* the result agree.  Left out: the flag that is stale because publish and
\* the worker's read and write crossed, or because the worker has indexed what
\* a publication that failed took back.
AnswerWasAllowed == request.pc = "done" /\ request.hits # {} => may

\* A hit without text, which the prompt would cite with nothing under it,
\* comes only from a clearing of the chunks while the request ran, or from an
\* index that had not taken a deletion.
EmptyOnlyByRace ==
  request.pc = "done" /\ (\E h \in request.hits : h.text = "") => cleared \/ orphaned

\* What the index or the table of chunks holds for a scope of now belongs to a
\* document that can be opened now: the flag of the index is that of the row
\* through publications, withdrawals and rebuildings.  Left out: a deleted
\* document, which is found until it is purged (SearchPage.tsx:189 expects it),
\* a publication on its way to the index, and the race above.
HitsCanBeOpened ==
  \A s \in Scopes :
    EsHits(s) \union VectorHits(s) # {} =>
      Permitted.downloadUrl \/ doc.deleted \/ publishing # {} \/ raced
=============================================================================
