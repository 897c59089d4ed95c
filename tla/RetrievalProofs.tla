-------------------------- MODULE RetrievalProofs --------------------------
(***************************************************************************)
(* Proofs about Permissions and Retrieval, for any number of changes and   *)
(* generations: what is shown can be opened, what is offered is permitted, *)
(* what is answered was allowed, and it lacks its text only when it was    *)
(* deleted or rebuilt meanwhile.                                           *)
(***************************************************************************)
EXTENDS Retrieval, TLAPS

USE PermissionsAssumption, RetrievalAssumption
-----------------------------------------------------------------------------
(* Permissions: the facts keep their types, and the rest follows from them *)

LEMMA MoveDocTypes == ASSUME FactsTypeOK, NEW d \in Doc, MoveDoc(d) PROVE FactsTypeOK'
BY DEF FactsTypeOK, MoveDoc, Change

LEMMA FactsStep == FactsTypeOK /\ [FactsNext]_factVars => FactsTypeOK'
<1> SUFFICES ASSUME FactsTypeOK, [FactsNext]_factVars PROVE FactsTypeOK'
  OBVIOUS
<1>0. doc \in Doc /\ user \in User
  BY DEF FactsTypeOK
<1>1. CASE UNCHANGED factVars
  BY <1>1 DEF factVars, FactsTypeOK
<1>2. CASE Regrant
  <2>1. user' \in User
    BY <1>0, <1>2 DEF Regrant, User
  <2> QED
    BY <1>2, <2>1 DEF Regrant, Change, FactsTypeOK
<1>3. CASE Reattach
  BY <1>3 DEF Reattach, Change, FactsTypeOK
<1>4. /\ \A s \in Status : [doc EXCEPT !.status = s] \in Doc
      /\ \A b \in BOOLEAN : [doc EXCEPT !.published = b] \in Doc
      /\ [doc EXCEPT !.deleted = TRUE] \in Doc
      /\ [status |-> "UPLOADED", published |-> FALSE, deleted |-> FALSE] \in Doc
  BY <1>0 DEF Doc, Status
<1>5. CASE Processed \/ Upload \/ Complete \/ Review \/ Publishing \/ Retry \/ Delete
  <2>1. {"PENDING_REVIEW", "PROCESSING", "REJECTED", "READY", "FAILED"} \subseteq Status
    BY DEF Status
  <2> QED
    BY <1>4, <1>5, <2>1, MoveDocTypes
    DEF Processed, Upload, Complete, Review, Publishing, Retry, Delete, Act
<1> QED
  BY <1>1, <1>2, <1>3, <1>5 DEF FactsNext

LEMMA FactsTyped == FactsSpec => []FactsTypeOK
<1>1. FactsInit => FactsTypeOK
  BY DEF FactsInit, FactsTypeOK
<1> QED
  BY <1>1, FactsStep, PTL DEF FactsSpec

\* a role is one of four, and of their ranks only the order matters
LEMMA Roles == ASSUME FactsTypeOK PROVE getRole \in Role /\ user.member \in Role
BY DEF FactsTypeOK, User, getRole, Role

LEMMA Ranks ==
  /\ rank["none"] = 0 /\ rank["viewer"] = 1 /\ rank["editor"] = 2 /\ rank["owner"] = 3
BY DEF rank

\* Whatever list or queue shows a document, it can be opened, and what a search of
\* an up-to-date index finds, unless it is deleted.
THEOREM ShownOpens == FactsSpec => []FoundCanBeOpened
<1>1. ASSUME FactsTypeOK PROVE FoundCanBeOpened
  <2>1. /\ Permitted.list = AclGuard("viewer")
        /\ Permitted.downloadUrl = assertViewable /\ Permitted.detail = assertViewable
    BY DEF Permitted
  <2>2. AclGuard("viewer") => user.sysadmin \/ getRole # "none"
    BY <1>1, Ranks, Roles DEF AclGuard
  <2>3. whitelisted <=> getRole # "none"
    BY <1>1 DEF whitelisted, getRole
  <2>4. (user.sysadmin \/ doc.published \/ getRole # "none" \/ isDocReviewer) /\ ~doc.deleted => assertViewable
    BY DEF assertViewable
  <2>5. Shown => ~doc.deleted /\ (user.sysadmin \/ doc.published \/ getRole # "none" \/ isDocReviewer)
    BY <2>1, <2>2 DEF Shown, batchProgress, isDocReviewer
  <2>6. Searched => doc.published \/ getRole # "none"
    BY <2>3 DEF Searched, Scopes, InScope
  <2> QED
    BY <2>1, <2>4, <2>5, <2>6 DEF FoundCanBeOpened
<1> QED
  BY <1>1, FactsTyped, PTL

\* Whoever is not a system administrator is offered only what the guards let
\* him do, in every state of the document and with every combination of roles.
THEOREM OffersHold == FactsSpec => []OfferedIsPermitted
<1>1. ASSUME FactsTypeOK, ~user.sysadmin, NEW tab \in {"all", "review"}, NEW r \in Offered(tab)
      PROVE  \/ Permitted[r]
             \/ r = "review" /\ tab \notin Tabs
             \/ r = "removeSpace" /\ ~doc.deleted
  <2>0. /\ getRole \in Role /\ user.member \in Role /\ doc.status \in Status
        /\ (ListedRole \in {"owner", "editor"} => getRole = ListedRole)
        /\ (Listed => getRole # "none")
    BY <1>1, Roles DEF ListedRole, Listed, whitelisted, getRole, FactsTypeOK, Doc
  <2> DEFINE Editing == rank[getRole] >= rank["editor"]
  <2>1. canEdit => Editing
    BY <1>1, <2>0, Ranks DEF canEdit
  <2>2. Listed => rank[getRole] >= rank["viewer"]
    BY <1>1, <2>0, Ranks DEF Role
  <2>3. Listed
    BY <1>1 DEF Offered
  <2>4. CASE r = "list"
    BY <2>2, <2>3, <2>4 DEF Permitted, AclGuard
  \* the reviewers' tab: what it lists awaits a review
  <2>5. CASE r = "review" /\ tab = "review" /\ InTab(tab)
    <3>1. Permitted.review = (~doc.deleted /\ doc.status = "PENDING_REVIEW" /\ assertReviewer)
      BY DEF Permitted
    <3>2. tab \in Tabs => assertReviewer
      BY <1>1, <2>5 DEF Tabs, can_review, assertReviewer, isDocReviewer
    <3> QED
      BY <2>5, <3>1, <3>2 DEF InTab
  <2>6. CASE r \in OfferedAbove(tab) /\ r # "review"
    <3>1. r = "graph" \/ (r \in {"checkDuplicate", "uploadInit"} /\ Editing)
      BY <2>1, <2>6 DEF OfferedAbove
    <3>2. /\ Permitted.graph = AclGuard("viewer")
          /\ Permitted.checkDuplicate = AclGuard("editor") /\ Permitted.uploadInit = AclGuard("editor")
      BY DEF Permitted
    <3>3. AclGuard("viewer") /\ (Editing => AclGuard("editor"))
      BY <2>2, <2>3 DEF AclGuard
    <3> QED
      BY <3>1, <3>2, <3>3
  <2>7. CASE r \in OfferedBeside(tab) /\ r # "review"
    <3>1. CASE r = "downloadUrl"
      BY <1>1, <2>0, <2>3, <2>7, <3>1 DEF OfferedBeside, InTab, Permitted, assertViewable
    <3>2. CASE r \in {"publish", "unpublish", "reindex", "remove"}
      <4>1. /\ ~doc.deleted /\ Editing
            /\ r = "publish" => doc.status = "READY"
            /\ r = "reindex" => doc.status = "FAILED"
        BY <2>1, <2>7, <3>2 DEF OfferedBeside, InTab
      <4>2. /\ Permitted.publish = (~doc.deleted /\ doc.status = "READY" /\ assertCanPublish)
            /\ Permitted.unpublish = (~doc.deleted /\ assertCanPublish)
            /\ Permitted.reindex = (assertRole("editor") /\ doc.status \in {"READY", "FAILED"})
            /\ Permitted.remove = assertRole("editor")
        BY DEF Permitted
      <4> QED
        BY <3>2, <4>1, <4>2 DEF assertCanPublish, assertRole
    <3> QED
      BY <2>7, <3>1, <3>2 DEF OfferedBeside
  <2>8. CASE r \in OfferedSpace
    <3>1. r \in {"updateSpace", "removeSpace"} /\ getRole = "owner"
      BY <1>1, <2>0, <2>8 DEF OfferedSpace
    <3>2. /\ Permitted.updateSpace = AclGuard("owner")
          /\ Permitted.removeSpace = (AclGuard("owner") /\ doc.deleted)
      BY DEF Permitted
    <3>3. AclGuard("owner")
      BY <3>1, Ranks DEF AclGuard
    <3> QED
      BY <3>1, <3>2, <3>3
  <2>9. r = "review" => r \notin OfferedAbove(tab) \union OfferedBeside(tab) \/ (tab = "review" /\ InTab(tab))
    BY DEF OfferedAbove, OfferedBeside
  <2> QED
    BY <1>1, <2>4, <2>5, <2>6, <2>7, <2>8, <2>9 DEF Offered
<1>2. FactsTypeOK => OfferedIsPermitted
  BY <1>1 DEF OfferedIsPermitted
<1> QED
  BY <1>2, FactsTyped, PTL
-----------------------------------------------------------------------------
(* Retrieval.  The flag in the index, and the one the worker has read, are *)
(* those of the row but while a publication is between its two stores, or  *)
(* after it has crossed with the worker.                                   *)

Flags ==
  /\ doc \in Doc /\ es.public \in BOOLEAN /\ worker.public \in BOOLEAN /\ raced \in BOOLEAN
  /\ DOMAIN worker = {"pc", "public"} /\ DOMAIN es = {"gen", "public"}
  /\ publishing \in {{}, {~doc.published}}
  /\ worker.pc = "index" => raced \/ (publishing = {} /\ worker.public = doc.published)
  /\ es.gen # 0 => \/ raced
                   \/ publishing = {} /\ es.public = doc.published
                   \/ publishing # {} /\ es.public = ~doc.published

\* what the request has found was allowed, and so is what it still may find
Found == request.es \union request.vector \union request.hits
Allowed ==
  /\ DOMAIN request = {"pc", "scope", "es", "vector", "hits"}
  /\ request.pc # "idle" => (AllowedNow(request.scope) => may)
  /\ request.pc # "idle" /\ request.scope.company # "only" /\ request.scope.spaces => may
  /\ Found # {} => may

RetrievalInv == Flags /\ Allowed

LEMMA RetrievalStart == RetrievalInit => RetrievalInv
<1> SUFFICES ASSUME RetrievalInit PROVE RetrievalInv
  OBVIOUS
<1>1. Flags
  BY DEF RetrievalInit, FactsInit, Flags, Doc
<1>2. Allowed
  BY DEF RetrievalInit, Allowed, Idle, Found
<1> QED
  BY <1>1, <1>2 DEF RetrievalInv

\* steps that leave the request alone watch what becomes allowed
LEMMA WatchKeeps ==
  ASSUME Allowed, UNCHANGED request, Watch
  PROVE  Allowed'
BY DEF Allowed, Watch, Found

\* steps of the request that find nothing, or only what is allowed
LEMMA StepKeeps ==
  ASSUME Allowed, Watch, request.pc # "idle", request'.scope = request.scope,
         DOMAIN request' = DOMAIN request, Found' # {} => Found # {} \/ may
  PROVE  Allowed'
<1>1. may' <=> (may \/ AllowedNow(request.scope)')
  BY DEF Watch
<1> QED
  BY <1>1 DEF Allowed

\* the engines find something only for a scope that allows it by now
LEMMA EnginesAllow ==
  ASSUME Flags, Allowed, request.pc # "idle"
  PROVE  /\ EsHits(request.scope) # {} => may
         /\ VectorHits(request.scope) # {} => may
<1>1. ASSUME InScope(request.scope, doc.published) PROVE may
  BY <1>1 DEF InScope, Allowed, AllowedNow
<1>2. ASSUME es.gen # 0, InScope(request.scope, es.public) PROVE may
  BY <1>2 DEF InScope, Allowed, AllowedNow, Flags
<1> QED
  BY <1>1, <1>2 DEF EsHits, aclFilter, VectorHits

LEMMA RequestSteps ==
  ASSUME Flags, Allowed,
         KeywordSearch \/ EsAnswers \/ VectorAnswers \/ Fill \/ Rerank \/ Expand
  PROVE  Allowed'
<1>0. DOMAIN request = {"pc", "scope", "es", "vector", "hits"}
  BY DEF Allowed
<1>1. request.pc # "idle" /\ Watch
  BY DEF KeywordSearch, EsAnswers, VectorAnswers, Fill, Rerank, Expand, Step
<1>2. request'.scope = request.scope /\ DOMAIN request' = DOMAIN request
  BY <1>0 DEF KeywordSearch, EsAnswers, VectorAnswers, Fill, Rerank, Expand, Step
<1>3. Found' # {} => Found # {} \/ may
  <2>1. CASE KeywordSearch
    <3> PICK found \in SUBSET EsHits(request.scope) :
          request' = [request EXCEPT !.pc = "done",
                                     !.hits = {[h EXCEPT !.text = "child"] : h \in found}]
      BY <2>1 DEF KeywordSearch, Step
    <3>1. found # {} => may
      BY <1>1, EnginesAllow
    <3> QED
      BY <1>0, <3>1 DEF Found
  <2>2. CASE EsAnswers
    <3> PICK found \in SUBSET EsHits(request.scope) :
          \/ request' = [request EXCEPT !.pc = "vector", !.es = found]
          \/ request' = [request EXCEPT !.pc = "fill", !.vector = {},
                                        !.hits = rrfFuse(found, request.vector)]
      BY <2>2 DEF EsAnswers, Step
    <3>1. found # {} => may
      BY <1>1, EnginesAllow
    <3>2. rrfFuse(found, request.vector) \subseteq found \union request.vector
      BY DEF rrfFuse
    <3>3. Found' \subseteq Found \union found
      BY <1>0, <3>2 DEF Found
    <3> QED
      BY <3>1, <3>3
  <2>3. CASE VectorAnswers
    <3> PICK found \in SUBSET VectorHits(request.scope) :
          \/ request' = [request EXCEPT !.pc = "es", !.vector = found]
          \/ request' = [request EXCEPT !.pc = "fill", !.es = {},
                                        !.hits = rrfFuse(request.es, found)]
      BY <2>3 DEF VectorAnswers, Step
    <3>1. found # {} => may
      BY <1>1, EnginesAllow
    <3>2. rrfFuse(request.es, found) \subseteq found \union request.es
      BY DEF rrfFuse
    <3>3. Found' \subseteq Found \union found
      BY <1>0, <3>2 DEF Found
    <3> QED
      BY <3>1, <3>3
  <2>4. CASE Fill
    <3>1. request'.es = request.es /\ request'.vector = request.vector
          /\ request'.hits = fillContent(request.hits)
      BY <1>0, <2>4 DEF Fill, Step
    <3>2. request.hits = {} => fillContent(request.hits) = {}
      BY DEF fillContent
    <3> QED
      BY <3>1, <3>2 DEF Found
  <2>5. CASE Rerank
    <3>1. request'.es = request.es /\ request'.vector = request.vector
          /\ request'.hits \subseteq request.hits
      BY <1>0, <2>5 DEF Rerank, Step
    <3> QED
      BY <3>1 DEF Found
  <2>6. CASE Expand
    <3> PICK kept \in SUBSET {Parent(h) : h \in request.hits} :
          request' = [request EXCEPT !.pc = "done", !.hits = filterChunksByAcl(kept, request.scope)]
      BY <2>6 DEF Expand, Step
    <3>1. filterChunksByAcl(kept, request.scope) # {} => request.hits # {}
      BY DEF filterChunksByAcl
    <3> QED
      BY <1>0, <3>1 DEF Found
  <2> QED
    BY <2>1, <2>2, <2>3, <2>4, <2>5, <2>6
<1> QED
  BY <1>1, <1>2, <1>3, StepKeeps

LEMMA StartAllowed == ASSUME Flags, Start PROVE Allowed'
<1> PICK scope \in Scopes, kind \in {"recall", "search"} :
      request' = [Idle EXCEPT !.scope = scope,
                    !.pc = IF ~scope.spaces /\ scope.company = "no" THEN "done" ELSE kind]
  BY DEF Start
<1>1. /\ DOMAIN request' = {"pc", "scope", "es", "vector", "hits"} /\ request'.scope = scope
      /\ request'.es = {} /\ request'.vector = {} /\ request'.hits = {}
  BY DEF Idle
<1>2. (may' <=> AllowedNow(scope)) /\ UNCHANGED <<factVars, storeVars, raced>>
  BY <1>1 DEF Start
<1>3. AllowedNow(request.scope)' <=> AllowedNow(scope)
  BY <1>1, <1>2 DEF AllowedNow, whitelisted, factVars, storeVars
<1>4. scope.spaces => whitelisted
  BY DEF Scopes
<1> QED
  BY <1>1, <1>2, <1>3, <1>4 DEF Allowed, Found, AllowedNow

\* steps that move neither the document, nor the flags
LEMMA FlagsSame ==
  ASSUME Flags, UNCHANGED <<doc, es, worker, publishing, raced>>
  PROVE  Flags'
BY DEF Flags

LEMMA FlagsStep ==
  ASSUME Flags,
         \/ ClearRows \/ ClearEs \/ Insert \/ ReadFlag \/ Index
         \/ Publish \/ PublishIndex \/ Reindex \/ RemoveDoc \/ Others
  PROVE  Flags'
<1> USE DEF Flags, factVars, WorkerAt, MoveDoc, Quiet
<1>0. doc.published \in BOOLEAN
  BY DEF Doc
<1>1. CASE ClearRows
  BY <1>1 DEF ClearRows
<1>2. CASE ClearEs
  <2>1. /\ worker'.pc # "index" /\ worker'.public = worker.public
        /\ DOMAIN worker' = DOMAIN worker /\ UNCHANGED <<doc, publishing, raced>>
    BY <1>2 DEF ClearEs
  <2>2. es' = es \/ es' = [gen |-> 0, public |-> FALSE]
    BY <1>2 DEF ClearEs
  <2>3. CASE es' = [gen |-> 0, public |-> FALSE]
    <3>1. es'.gen = 0 /\ es'.public = FALSE /\ DOMAIN es' = {"gen", "public"}
      BY <2>3
    <3> QED
      BY <2>1, <3>1
  <2>4. CASE es' = es
    BY <1>0, <2>1, <2>4
  <2> QED
    BY <2>2, <2>3, <2>4
<1>3. CASE Insert
  BY <1>3 DEF Insert
<1>4. CASE ReadFlag
  BY <1>0, <1>4 DEF ReadFlag
<1>5. CASE Index
  <2>1. doc' \in Doc /\ doc'.published = doc.published
    BY <1>5 DEF Index, Doc, Status
  <2>2. /\ worker'.pc # "index" /\ worker'.public = worker.public
        /\ DOMAIN worker' = DOMAIN worker /\ UNCHANGED <<publishing, raced>>
    BY <1>5 DEF Index
  <2>3. es'.public = worker.public /\ DOMAIN es' = {"gen", "public"}
    BY <1>5 DEF Index
  <2>4. raced \/ (publishing = {} /\ worker.public = doc.published)
    BY <1>5 DEF Index
  <2> QED
    BY <1>0, <2>1, <2>2, <2>3, <2>4
<1>6. CASE Publish
  <2>1. doc' \in Doc /\ doc'.published = ~doc.published
    BY <1>6 DEF Publish, Doc
  <2> QED
    BY <1>0, <1>6, <2>1 DEF Publish
<1>7. CASE PublishIndex
  <2>1. CASE es' = [es EXCEPT !.public = doc.published] /\ UNCHANGED doc
    BY <1>0, <1>7, <2>1 DEF PublishIndex
  <2>2. CASE doc' = [doc EXCEPT !.published = ~@] /\ UNCHANGED es
    <3>1. doc' \in Doc /\ doc'.published = ~doc.published
      BY <2>2 DEF Doc
    <3> QED
      BY <1>0, <1>7, <2>2, <3>1 DEF PublishIndex
  <2> QED
    BY <1>7, <2>1, <2>2 DEF PublishIndex
<1>8. CASE Reindex
  <2>1. doc' \in Doc /\ doc'.published = doc.published
    BY <1>8 DEF Reindex, Doc, Status
  <2> QED
    BY <1>8, <2>1 DEF Reindex
<1>9. CASE RemoveDoc
  <2>1. doc' \in Doc /\ doc'.published = doc.published
    BY <1>9 DEF RemoveDoc, Doc
  <2> QED
    BY <1>9, <2>1 DEF RemoveDoc
<1>10. CASE Others
  BY <1>10 DEF Others
<1> QED
  BY <1>1, <1>2, <1>3, <1>4, <1>5, <1>6, <1>7, <1>8, <1>9, <1>10

LEMMA StoresWatch ==
  ASSUME \/ ClearRows \/ ClearEs \/ Insert \/ ReadFlag \/ Index
         \/ Publish \/ PublishIndex \/ Reindex \/ RemoveDoc \/ Others
  PROVE  UNCHANGED request /\ Watch
BY DEF ClearRows, ClearEs, Insert, ReadFlag, Index, Publish, PublishIndex, Reindex,
       RemoveDoc, Others, Quiet

LEMMA RetrievalStep == RetrievalInv /\ [RetrievalNext]_retrievalVars => RetrievalInv'
<1> SUFFICES ASSUME RetrievalInv, [RetrievalNext]_retrievalVars PROVE RetrievalInv'
  OBVIOUS
<1> USE DEF RetrievalInv
<1>1. CASE UNCHANGED retrievalVars
  <2>1. UNCHANGED <<user, attached, doc, es, worker, publishing, request, may, raced>>
    BY <1>1 DEF retrievalVars, factVars, storeVars, ghostVars
  <2>2. Allowed'
    BY <2>1 DEF Allowed, Found, AllowedNow, whitelisted
  <2> QED
    BY <2>1, <2>2, FlagsSame
<1>2. CASE Start
  BY <1>2, StartAllowed, FlagsSame DEF Start, factVars, storeVars
<1>3. CASE KeywordSearch \/ EsAnswers \/ VectorAnswers \/ Fill \/ Rerank \/ Expand
  <2>1. UNCHANGED <<doc, es, worker, publishing, raced>>
    BY <1>3 DEF KeywordSearch, EsAnswers, VectorAnswers, Fill, Rerank, Expand, Step,
                factVars, storeVars
  <2> QED
    BY <1>3, <2>1, RequestSteps, FlagsSame
<1>4. CASE \/ ClearRows \/ ClearEs \/ Insert \/ ReadFlag \/ Index
           \/ Publish \/ PublishIndex \/ Reindex \/ RemoveDoc \/ Others
  BY <1>4, FlagsStep, StoresWatch, WatchKeeps
<1> QED
  BY <1>1, <1>2, <1>3, <1>4 DEF RetrievalNext

\* Nothing of a document is answered that the scope has not covered at some
\* moment since the request began, in any number of changes: the flag of the
\* index can only be wrong after a publication and the worker have crossed.
THEOREM AnswersAllowed == RetrievalSpec => []AnswerWasAllowed
<1>1. RetrievalInv => AnswerWasAllowed
  BY DEF RetrievalInv, Allowed, Found, AnswerWasAllowed
<1> QED
  BY <1>1, RetrievalStart, RetrievalStep, PTL DEF RetrievalSpec

\* What the stores hold for a scope of now can be opened now, unless it is
\* deleted, on its way to the index, or a publication and the worker have crossed.
THEOREM HitsOpen == RetrievalSpec => []HitsCanBeOpened
<1>1. ASSUME Flags, NEW s \in Scopes, EsHits(s) \union VectorHits(s) # {},
             ~doc.deleted, publishing = {}, ~raced
      PROVE  Permitted.downloadUrl
  <2>1. InScope(s, doc.published)
    BY <1>1 DEF EsHits, VectorHits, aclFilter, Flags
  <2>2. doc.published \/ whitelisted
    <3>1. s.spaces => whitelisted
      BY DEF Scopes
    <3> QED
      BY <2>1, <3>1 DEF InScope
  <2>3. whitelisted => getRole # "none"
    BY DEF whitelisted, getRole
  <2> QED
    BY <1>1, <2>2, <2>3 DEF Permitted, assertViewable
<1>2. RetrievalInv => HitsCanBeOpened
  BY <1>1 DEF RetrievalInv, HitsCanBeOpened
<1> QED
  BY <1>2, RetrievalStart, RetrievalStep, PTL DEF RetrievalSpec
-----------------------------------------------------------------------------
(* Hits without text.  As long as the chunks are not cleared and every     *)
(* deletion has reached the index, the index has the generation of the     *)
(* rows, and what it finds finds its text.                                 *)

Stored ==
  /\ rows \in 0..MaxGen /\ es \in [gen : 0..MaxGen, public : BOOLEAN]
  /\ worker.pc = "idle" /\ ~orphaned /\ es.gen # 0 => es.gen = rows
  /\ ~cleared => worker.pc = "idle"

\* a hit has its text, or the row to take it from
Fillable(h) == h.text = "" => h.id[1] = rows

Filled ==
  /\ request.es \subseteq Hit /\ request.vector \subseteq Hit /\ request.hits \subseteq Hit
  /\ \A h \in request.vector : h.text # ""
  /\ ~cleared /\ ~orphaned =>
       /\ \A h \in request.es \union request.hits : Fillable(h)
       /\ request.pc \in {"rerank", "expand", "done"} => \A h \in request.hits : h.text # ""

TextInv == Stored /\ Filled

LEMMA TextStart == RetrievalInit => TextInv
<1> SUFFICES ASSUME RetrievalInit PROVE TextInv
  OBVIOUS
<1>1. Stored
  BY DEF RetrievalInit, FactsInit, Stored, Doc
<1>2. Filled
  BY DEF RetrievalInit, Filled, Idle
<1> QED
  BY <1>1, <1>2 DEF TextInv

\* a child of a generation is a hit
LEMMA ChildIsHit ==
  ASSUME NEW g \in Gen, NEW i \in 1..2, NEW public \in BOOLEAN
  PROVE  \A text \in {"", "child"} :
           [id |-> <<g, i>>, text |-> text, public |-> public] \in Hit
<1>1. <<g, i>> \in Gen \X (0..2)
  OBVIOUS
<1> QED
  BY <1>1, Zenon DEF Hit

LEMMA ChildrenAreHits ==
  ASSUME NEW g \in Gen, NEW public \in BOOLEAN
  PROVE  /\ \A h \in Children(g, "", public) : h \in Hit /\ h.id[1] = g
         /\ \A h \in Children(g, "child", public) : h \in Hit /\ h.id[1] = g /\ h.text = "child"
<1>1. ASSUME NEW text, NEW h \in Children(g, text, public)
      PROVE  h.text = text /\ h.id[1] = g /\ (text = "" \/ text = "child" => h \in Hit)
  <2>1. PICK i \in 1..2 : h = [id |-> <<g, i>>, text |-> text, public |-> public]
    BY <1>1 DEF Children
  <2>2. h.text = text /\ h.id[1] = g
    BY <2>1
  <2>3. text = "" \/ text = "child" => h \in Hit
    BY <2>1, ChildIsHit, Zenon
  <2> QED
    BY <2>2, <2>3
<1> QED
  BY <1>1, Zenon

\* what the engines find
LEMMA EnginesFind ==
  ASSUME Flags, Stored
  PROVE  /\ \A h \in EsHits(request.scope) :
              /\ h \in Hit
              /\ ~cleared /\ ~orphaned => Fillable(h)
         /\ \A h \in VectorHits(request.scope) : h \in Hit /\ h.text # "" /\ Fillable(h)
<1>1. /\ rows # 0 => rows \in Gen
      /\ es.gen # 0 => es.gen \in Gen
      /\ es.public \in BOOLEAN /\ doc.published \in BOOLEAN
  BY RetrievalAssumption DEF Stored, Gen, Flags, Doc
<1>2. ASSUME NEW h \in EsHits(request.scope)
      PROVE  h \in Hit /\ (~cleared /\ ~orphaned => Fillable(h))
  <2>1. es.gen # 0 /\ h \in Children(es.gen, "", es.public)
    BY <1>2 DEF EsHits
  <2>2. es.gen \in Gen /\ (~cleared /\ ~orphaned => es.gen = rows)
    BY <1>1, <2>1 DEF Stored
  <2>3. h \in Hit /\ h.id[1] = es.gen
    BY <1>1, <2>1, <2>2, ChildrenAreHits, Zenon
  <2> QED
    BY <2>2, <2>3, Zenon DEF Fillable
<1>3. ASSUME NEW h \in VectorHits(request.scope)
      PROVE  h \in Hit /\ h.text # "" /\ Fillable(h)
  <2>1. rows # 0 /\ h \in Children(rows, "child", doc.published)
    BY <1>3 DEF VectorHits
  <2> QED
    BY <1>1, <2>1, ChildrenAreHits, Zenon DEF Fillable
<1> QED
  BY <1>2, <1>3

\* filling and expanding leave hits that are hits, and put no text away
LEMMA HitText ==
  ASSUME rows \in 0..MaxGen, NEW h \in Hit
  PROVE  /\ [h EXCEPT !.text = "child"] \in Hit
         /\ [h EXCEPT !.text = "child"].text = "child"
         /\ Parent(h) \in Hit /\ (h.text # "" => Parent(h).text # "")
<1>1. h.id \in Gen \X (0..2) /\ DOMAIN h = {"id", "text", "public"}
  BY DEF Hit
<1>2. rows = h.id[1] => <<rows, 0>> \in Gen \X (0..2)
  BY <1>1
<1> QED
  BY <1>1, <1>2 DEF Hit, Parent

\* the steps of a request find what has its text, or a row to take it from,
\* and fill it in
LEMMA RequestFills ==
  ASSUME Flags, Allowed, Stored, Filled,
         KeywordSearch \/ EsAnswers \/ VectorAnswers \/ Fill \/ Rerank \/ Expand
  PROVE  Filled'
<1>0. DOMAIN request = {"pc", "scope", "es", "vector", "hits"}
  BY DEF Allowed
<1>1. UNCHANGED <<rows, cleared, orphaned>>
  BY DEF KeywordSearch, EsAnswers, VectorAnswers, Fill, Rerank, Expand, Step, storeVars
<1>2. rows \in 0..MaxGen
  BY DEF Stored
<1>3. CASE KeywordSearch
  <2>1. PICK found \in SUBSET EsHits(request.scope) :
          request' = [request EXCEPT !.pc = "done",
                                     !.hits = {[h EXCEPT !.text = "child"] : h \in found}]
    BY <1>3 DEF KeywordSearch, Step
  <2>2. /\ request'.es = request.es /\ request'.vector = request.vector
        /\ request'.hits = {[h EXCEPT !.text = "child"] : h \in found}
    BY <1>0, <2>1
  <2>3. \A h \in found : h \in Hit
    BY EnginesFind
  <2>4. ASSUME NEW k \in request'.hits PROVE k \in Hit /\ k.text = "child"
    <3>1. PICK h \in found : k = [h EXCEPT !.text = "child"]
      BY <2>2, <2>4
    <3> QED
      BY <1>2, <2>3, <3>1, HitText
  <2> QED
    BY <1>1, <2>2, <2>4 DEF Filled, Fillable
<1>4. CASE EsAnswers
  <2>1. PICK found \in SUBSET EsHits(request.scope) :
          \/ request' = [request EXCEPT !.pc = "vector", !.es = found]
          \/ request' = [request EXCEPT !.pc = "fill", !.vector = {},
                                        !.hits = rrfFuse(found, request.vector)]
    BY <1>4 DEF EsAnswers, Step
  <2>2. \A h \in found : h \in Hit /\ (~cleared /\ ~orphaned => Fillable(h))
    BY EnginesFind
  <2>3. rrfFuse(found, request.vector) \subseteq found \union request.vector
    BY DEF rrfFuse
  <2>4. \/ /\ request'.pc = "vector" /\ request'.es = found
           /\ request'.vector = request.vector /\ request'.hits = request.hits
        \/ /\ request'.pc = "fill" /\ request'.es = request.es /\ request'.vector = {}
           /\ request'.hits \subseteq found \union request.vector
    BY <1>0, <2>1, <2>3
  <2> QED
    BY <1>1, <2>2, <2>4 DEF Filled, Fillable
<1>5. CASE VectorAnswers
  <2>1. PICK found \in SUBSET VectorHits(request.scope) :
          \/ request' = [request EXCEPT !.pc = "es", !.vector = found]
          \/ request' = [request EXCEPT !.pc = "fill", !.es = {},
                                        !.hits = rrfFuse(request.es, found)]
    BY <1>5 DEF VectorAnswers, Step
  <2>2. \A h \in found : h \in Hit /\ h.text # "" /\ Fillable(h)
    BY EnginesFind
  <2>3. rrfFuse(request.es, found) \subseteq found \union request.es
    BY DEF rrfFuse
  <2>4. \/ /\ request'.pc = "es" /\ request'.vector = found
           /\ request'.es = request.es /\ request'.hits = request.hits
        \/ /\ request'.pc = "fill" /\ request'.vector = request.vector /\ request'.es = {}
           /\ request'.hits \subseteq found \union request.es
    BY <1>0, <2>1, <2>3
  <2> QED
    BY <1>1, <2>2, <2>4 DEF Filled, Fillable
<1>6. CASE Fill
  <2>1. /\ request'.es = request.es /\ request'.vector = request.vector
        /\ request'.hits = fillContent(request.hits)
    BY <1>0, <1>6 DEF Fill, Step
  <2>2. ASSUME NEW k \in request'.hits
        PROVE  k \in Hit /\ (~cleared /\ ~orphaned => k.text # "")
    <3>1. PICK h \in request.hits :
            k = IF h.text = "" /\ rows = h.id[1] THEN [h EXCEPT !.text = "child"] ELSE h
      BY <2>1, <2>2 DEF fillContent
    <3>2. h \in Hit /\ (~cleared /\ ~orphaned => Fillable(h))
      BY DEF Filled
    <3> QED
      BY <1>2, <3>1, <3>2, HitText DEF Fillable
  <2> QED
    BY <1>1, <2>1, <2>2 DEF Filled, Fillable
<1>7. CASE Rerank
  <2>1. /\ request'.es = request.es /\ request'.vector = request.vector
        /\ request'.hits \subseteq request.hits /\ request.pc = "rerank"
    BY <1>0, <1>7 DEF Rerank, Step
  <2> QED
    BY <1>1, <2>1 DEF Filled, Fillable
<1>8. CASE Expand
  <2>1. PICK kept \in SUBSET {Parent(h) : h \in request.hits} :
          request' = [request EXCEPT !.pc = "done",
                                     !.hits = filterChunksByAcl(kept, request.scope)]
    BY <1>8 DEF Expand, Step
  <2>2. /\ request'.es = request.es /\ request'.vector = request.vector
        /\ request'.hits \subseteq kept /\ request.pc = "expand"
    BY <1>0, <1>8, <2>1 DEF filterChunksByAcl, Expand, Step
  <2>3. ASSUME NEW k \in kept
        PROVE  k \in Hit /\ (~cleared /\ ~orphaned => k.text # "")
    <3>1. PICK h \in request.hits : k = Parent(h)
      OBVIOUS
    <3>2. h \in Hit /\ (~cleared /\ ~orphaned => h.text # "")
      BY <2>2 DEF Filled
    <3> QED
      BY <1>2, <3>1, <3>2, HitText
  <2> QED
    BY <1>1, <2>2, <2>3 DEF Filled, Fillable
<1> QED
  BY <1>3, <1>4, <1>5, <1>6, <1>7, <1>8

\* a request begins while nothing is being cleared, or knows it
LEMMA StartFilled == ASSUME Stored, Start PROVE Stored' /\ Filled'
<1>1. PICK scope \in Scopes, kind \in {"recall", "search"} :
        request' = [Idle EXCEPT !.scope = scope,
                      !.pc = IF ~scope.spaces /\ scope.company = "no" THEN "done" ELSE kind]
  BY DEF Start
<1>2. request'.es = {} /\ request'.vector = {} /\ request'.hits = {}
  BY <1>1 DEF Idle
<1>3. UNCHANGED <<rows, es, worker, orphaned>> /\ cleared' = (worker.pc # "idle")
  BY DEF Start, storeVars
<1> QED
  BY <1>2, <1>3 DEF Stored, Filled

\* the rows change only while something is cleared
LEMMA StoresFilled ==
  ASSUME Flags, TextInv,
         \/ ClearRows \/ ClearEs \/ Insert \/ ReadFlag \/ Index
         \/ Publish \/ PublishIndex \/ Reindex \/ RemoveDoc \/ Others
  PROVE  Stored' /\ (rows' = rows \/ cleared') /\ (cleared => cleared') /\ (orphaned => orphaned')
<1> USE RetrievalAssumption DEF TextInv, Stored, Flags, WorkerAt, Quiet, factVars, MoveDoc, Gen
<1>1. CASE ClearRows
  BY <1>1 DEF ClearRows
<1>2. CASE ClearEs
  <2>1. /\ worker.pc \in {"clearEs", "purgeEs"} /\ worker'.pc \in {"insert", "idle"}
        /\ UNCHANGED <<rows, cleared, request>>
    BY <1>2 DEF ClearEs
  <2>2. CASE es' = [gen |-> 0, public |-> FALSE] /\ UNCHANGED orphaned
    BY <2>1, <2>2
  <2>3. CASE UNCHANGED es /\ orphaned' = TRUE
    BY <2>1, <2>3
  <2> QED
    BY <1>2, <2>2, <2>3 DEF ClearEs
<1>3. CASE Insert
  BY <1>3 DEF Insert
<1>4. CASE ReadFlag
  BY <1>4 DEF ReadFlag
<1>5. CASE Index
  BY <1>5 DEF Index
<1>6. CASE Publish
  BY <1>6 DEF Publish
<1>7. CASE PublishIndex
  <2>1. es'.gen = es.gen /\ es' \in [gen : 0..MaxGen, public : BOOLEAN]
    BY <1>7 DEF PublishIndex, Doc
  <2> QED
    BY <1>7, <2>1 DEF PublishIndex
<1>8. CASE Reindex \/ RemoveDoc \/ Others
  BY <1>8 DEF Reindex, RemoveDoc, Others
<1> QED
  BY <1>1, <1>2, <1>3, <1>4, <1>5, <1>6, <1>7, <1>8

LEMMA TextStep ==
  ASSUME RetrievalInv, TextInv, [RetrievalNext]_retrievalVars
  PROVE  TextInv'
<1> USE DEF RetrievalInv, TextInv
<1>1. CASE UNCHANGED retrievalVars
  BY <1>1 DEF retrievalVars, storeVars, ghostVars, Stored, Filled, Fillable
<1>2. CASE Start
  BY <1>2, StartFilled
<1>3. CASE KeywordSearch \/ EsAnswers \/ VectorAnswers \/ Fill \/ Rerank \/ Expand
  <2>1. UNCHANGED <<rows, es, worker, cleared, orphaned>>
    BY <1>3 DEF KeywordSearch, EsAnswers, VectorAnswers, Fill, Rerank, Expand, Step, storeVars
  <2> QED
    BY <1>3, <2>1, RequestFills DEF Stored
<1>4. CASE \/ ClearRows \/ ClearEs \/ Insert \/ ReadFlag \/ Index
           \/ Publish \/ PublishIndex \/ Reindex \/ RemoveDoc \/ Others
  <2>1. /\ Stored' /\ (rows' = rows \/ cleared') /\ (cleared => cleared')
        /\ (orphaned => orphaned') /\ UNCHANGED request
    BY <1>4, StoresFilled, StoresWatch
  <2> QED
    BY <2>1 DEF Filled, Fillable
<1> QED
  BY <1>1, <1>2, <1>3, <1>4 DEF RetrievalNext

\* A passage without text is answered only after the chunks were cleared while
\* the request ran, or the index has once not taken a deletion, for any number
\* of generations and changes.
THEOREM TextUnlessCleared == RetrievalSpec => []EmptyOnlyByRace
<1>1. TextInv => EmptyOnlyByRace
  BY DEF TextInv, Filled, EmptyOnlyByRace
<1>2. RetrievalInv /\ TextInv /\ [RetrievalNext]_retrievalVars => TextInv'
  BY TextStep
<1> QED
  BY <1>1, <1>2, RetrievalStart, RetrievalStep, TextStart, PTL DEF RetrievalSpec
=============================================================================
