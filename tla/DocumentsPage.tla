--------------------------- MODULE DocumentsPage ---------------------------
(***************************************************************************)
(* The documents page of a workspace (web pages/DocumentsPage.tsx): a      *)
(* list that is loaded page by page for one of two tabs and a filter, the  *)
(* poll that follows documents being processed, and the operations on      *)
(* documents, each followed by a reload.  Every request runs beside the    *)
(* others, with the tab, page and filter of the render it was made in, and *)
(* its answer is applied whenever it comes.  A page holds one document.    *)
(***************************************************************************)
EXTENDS Integers, FiniteSets

CONSTANTS MaxDocs,  \* bound: documents, oldest first
          Matching, \* those the filter lets through
          Slots,    \* bound: requests in flight
          Events    \* bound: clicks, other users' doings, and failures, in all

ASSUME DocumentsPageAssumption ==
  /\ MaxDocs \in Nat \ {0}
  /\ Matching \subseteq 1..MaxDocs
  /\ Slots \in Nat /\ Events \in Nat

Doc == 1..MaxDocs
\* PROCESSING of the page
Processing == {"UPLOADED", "PARSING"}
Status == Processing \union {"absent", "gone", "PENDING_REVIEW", "REJECTED", "READY", "FAILED"}

VARIABLES
  status,   \* the rows; PARSING stands for every stage of the ingestion
  render,     \* tab, page, filter as rendered
  docs,     \* the list as rendered: status of each document in it
  total, loading,
  selected, \* ticked documents of the review tab
  busy,     \* acting, publishing, retrying, uploading
  requests, \* in flight, by slot
  timer,    \* the debounce of the filter: the render it was set in, or none
  events

pageVars == <<render, docs, total, loading, selected, busy, timer>>
documentsVars == <<status, pageVars, requests, events>>

View    == [tab : {"all", "review"}, page : 1..MaxDocs, filter : BOOLEAN]
Lists   == UNION {[D -> Status] : D \in {E \in SUBSET Doc : Cardinality(E) <= 1}}
NoDocs  == [d \in {} |-> "absent"]
NoTimer == {}
Free    == [kind |-> "none"]
\* from: the render; p: the page asked for; after: the flag cleared at the end
Request(kind, from, p, ids, after) ==
  [kind |-> kind, from |-> from, p |-> p, ids |-> ids, after |-> after,
   rows |-> NoDocs, total |-> -1]
Pending(r) == r.total = -1
Flags == {"acting", "publishing", "retrying", "uploading"}
\* approveAll and rejectAll: the batch of what is ticked
Batch == {"approveAll", "rejectAll"}
Acts  == Batch \union {"approve", "reject", "publish", "retry", "upload", "remove"}

\* Every variable stays in its type; nothing is asked for in the name of an
\* operation that is over.
PageTypeOK ==
  /\ status \in [Doc -> Status]
  /\ render \in View
  /\ docs \in Lists
  /\ total \in 0..MaxDocs /\ loading \in BOOLEAN
  /\ selected \subseteq Doc
  /\ busy \subseteq Flags
  /\ timer \subseteq View /\ Cardinality(timer) <= 1
  /\ \A s \in 1..Slots : requests[s].kind # "none" =>
       /\ requests[s].kind \in Acts \union {"load", "poll"}
       /\ requests[s].from \in View /\ requests[s].p \in 1..MaxDocs
       /\ requests[s].ids \subseteq Doc
       /\ requests[s].rows \in Lists \/ requests[s].kind = "poll"
       /\ requests[s].after \in busy \union {"", "poll"}
  /\ events \in 0..Events
-----------------------------------------------------------------------------
(* requests *)

Event == events < Events /\ events' = events + 1

\* requests are alike: they take the first free slot
Send(r, s) ==
  /\ requests[s] = Free /\ \A t \in 1..(s - 1) : requests[t] # Free
  /\ requests' = [requests EXCEPT ![s] = r]

Render(tab, p, filter) == [tab |-> tab, page |-> p, filter |-> filter]

\* the two effects of a first render both load
PageInit ==
  /\ status \in [Doc -> Status]
  /\ \A d \in Doc : \/ status[d] \in {"PENDING_REVIEW", "READY"}
                    \/ status[d] = "absent" /\ \A e \in d..MaxDocs : status[e] = "absent"
  /\ \E t \in {"all", "review"} : render = Render(t, 1, FALSE)
  /\ docs = NoDocs /\ total = 0 /\ loading = TRUE
  /\ selected = {} /\ busy = {} /\ timer = NoTimer
  /\ requests = [s \in 1..Slots |->
       IF s <= 2 THEN Request("load", render, 1, {}, "") ELSE Free]
  /\ events = 0

\* documents.service.ts list: newest first, what the query lets through
Rows(v) ==
  {d \in Doc : /\ status[d] \notin {"absent", "gone"}
               /\ v.tab = "review" => status[d] = "PENDING_REVIEW"
               /\ v.filter => d \in Matching}
PageOf(rows, p) == {d \in rows : Cardinality({e \in rows : e > d}) = p - 1}

\* the rows a load or a poll is answered with; batchProgress leaves out what
\* is deleted
Served(s) ==
  LET r == requests[s]
      ids == IF r.kind = "load" THEN PageOf(Rows(r.from), r.p)
             ELSE {d \in r.ids : status[d] # "gone"} IN
  /\ r.kind \in {"load", "poll"} /\ Pending(r)
  /\ requests' = [requests EXCEPT ![s].rows = [d \in ids |-> status[d]],
                                 ![s].total = Cardinality(Rows(r.from))]
  /\ UNCHANGED <<status, pageVars, events>>

Clear(r) == busy' = busy \ {r.after}

\* mutant of PageLoaded: an empty page is left as it is
LoadedAsIs(s) ==
  LET r == requests[s] IN
  /\ docs' = r.rows /\ total' = r.total /\ loading' = FALSE
  /\ requests' = [requests EXCEPT ![s] = Free] /\ Clear(r) /\ UNCHANGED render

\* load: whatever is shown by now is replaced; from an empty page one page back
PageLoaded(s) ==
  LET r == requests[s] IN
  /\ docs' = r.rows /\ total' = r.total
  /\ IF r.rows = NoDocs /\ r.total > 0 /\ r.p > 1
       THEN /\ render' = [render EXCEPT !.page = r.p - 1]
            /\ requests' = [requests EXCEPT ![s] = Request("load", r.from, r.p - 1, {}, r.after)]
            /\ loading' = TRUE
            /\ UNCHANGED busy
       ELSE /\ loading' = FALSE
            /\ requests' = [requests EXCEPT ![s] = Free] /\ Clear(r) /\ UNCHANGED render

PageLoadFailed(s) ==
  /\ docs' = NoDocs /\ total' = 0 /\ loading' = FALSE
  /\ requests' = [requests EXCEPT ![s] = Free] /\ Clear(requests[s])
  /\ UNCHANGED render

\* mutant of Polled: only a document that has failed is news
PolledFailures(s) ==
  LET r == requests[s] IN
  /\ docs' = [d \in DOMAIN docs |->
       IF d \in DOMAIN r.rows /\ r.rows[d] = "FAILED" THEN "FAILED" ELSE docs[d]]
  /\ requests' = [requests EXCEPT ![s] = Free]
  /\ UNCHANGED <<render, total, loading, busy>>

\* statuses are written into the list shown by now, and the end of a
\* document's processing reloads it
Polled(s) ==
  LET r == requests[s] IN
  /\ docs' = [d \in DOMAIN docs |-> IF d \in DOMAIN r.rows THEN r.rows[d] ELSE docs[d]]
  /\ requests' = [requests EXCEPT ![s] =
       IF \A d \in DOMAIN r.rows : r.rows[d] \in Processing THEN Free
       ELSE Request("load", r.from, r.from.page, {}, "poll")]
  /\ UNCHANGED <<render, total, loading, busy>>

PollFailed(s) ==
  /\ requests' = [requests EXCEPT ![s] = Free]
  /\ UNCHANGED <<render, docs, total, loading, busy>>

\* the rows an operation changes, and whether it is answered with success
After(r) ==
  CASE r.kind \in {"approve", "approveAll", "reject", "rejectAll"} ->
         [d \in Doc |-> IF d \in r.ids /\ status[d] = "PENDING_REVIEW"
                        THEN IF r.kind \in {"approve", "approveAll"} THEN "PARSING" ELSE "REJECTED"
                        ELSE status[d]]
    [] r.kind = "retry" ->
         [d \in Doc |-> IF d \in r.ids /\ status[d] \in {"READY", "FAILED"} THEN "PARSING" ELSE status[d]]
    [] r.kind = "remove" -> [d \in Doc |-> IF d \in r.ids THEN "gone" ELSE status[d]]
    [] OTHER -> status

\* reload with the closure of the click
Reload(r) == Request("load", r.from, r.from.page, {}, r.after)

\* review, reviewBatch, togglePublish, retry and remove
Acted(s) ==
  LET r == requests[s] IN
  /\ r.kind \in Acts \ {"upload"}
  /\ status' = After(r)
  /\ requests' = [requests EXCEPT ![s] = Reload(r)]
  /\ loading' = TRUE
  /\ selected' = IF r.kind \in Batch THEN {} ELSE selected
  /\ UNCHANGED <<render, docs, total, busy, timer, events>>

\* refused or failed: the flag is cleared, nothing is reloaded
ActFailed(s) ==
  LET r == requests[s] IN
  /\ r.kind \in Acts \ {"upload"}
  /\ Event
  /\ requests' = [requests EXCEPT ![s] = Free] /\ Clear(r)
  /\ UNCHANGED <<status, render, docs, total, loading, selected, timer>>

\* upload-init saves the row; then the parts, and upload-complete
Created(s) ==
  LET r == requests[s] IN
  \E d \in Doc :
    /\ r.kind = "upload" /\ r.ids = {}
    /\ status[d] = "absent" /\ \A e \in 1..(d - 1) : status[e] # "absent"
    /\ status' = [status EXCEPT ![d] = "UPLOADED"]
    /\ requests' = [requests EXCEPT ![s].ids = {d}]
    /\ UNCHANGED <<pageVars, events>>

Completed(s) ==
  LET r == requests[s] IN
  /\ r.kind = "upload" /\ r.ids # {}
  /\ status' = [d \in Doc |-> IF d \in r.ids /\ status[d] = "UPLOADED" THEN "PENDING_REVIEW" ELSE status[d]]
  /\ requests' = [requests EXCEPT ![s] = Reload(r)]
  /\ loading' = TRUE
  /\ UNCHANGED <<render, docs, total, selected, busy, timer, events>>

\* a duplicate, or a failure: before the row, or after it, which stays
UploadFailed(s) ==
  LET r == requests[s] IN
  /\ r.kind = "upload"
  /\ Event
  /\ requests' = [requests EXCEPT ![s] = Free] /\ Clear(r)
  /\ UNCHANGED <<status, render, docs, total, loading, selected, timer>>

Answer(s) ==
  /\ requests[s] # Free
  /\ \/ requests[s].kind = "load" /\ ~Pending(requests[s]) /\ PageLoaded(s) /\ UNCHANGED events
     \/ requests[s].kind = "load" /\ Event /\ PageLoadFailed(s)
     \/ requests[s].kind = "poll" /\ ~Pending(requests[s]) /\ Polled(s) /\ UNCHANGED events
     \/ requests[s].kind = "poll" /\ Event /\ PollFailed(s)
  /\ UNCHANGED <<status, selected, timer>>
-----------------------------------------------------------------------------
(* the page *)

goPage(s) ==
  \E p \in 1..total :
    /\ Event /\ p # render.page
    /\ render' = [render EXCEPT !.page = p]
    /\ Send(Request("load", render, p, {}, ""), s)
    /\ UNCHANGED <<status, docs, total, loading, selected, busy, timer>>

\* the tab's effect loads page 1; a debounce that runs is not cleared
switchTab(s) ==
  \E t \in {"all", "review"} \ {render.tab} :
    /\ Event
    /\ render' = [render EXCEPT !.tab = t, !.page = 1]
    /\ docs' = NoDocs /\ total' = 0 /\ loading' = TRUE /\ selected' = {}
    /\ Send(Request("load", render', 1, {}, ""), s)
    /\ UNCHANGED <<status, busy, timer>>

\* the filter is on the tab of all documents
changeFilter ==
  /\ Event /\ render.tab = "all"
  /\ render' = [render EXCEPT !.filter = ~@]
  /\ timer' = {render'}
  /\ UNCHANGED <<status, docs, total, loading, selected, busy, requests>>

Debounced(s) ==
  \E v \in timer :
    /\ timer' = NoTimer
    /\ render' = [render EXCEPT !.page = 1]
    /\ loading' = TRUE
    /\ Send(Request("load", v, 1, {}, ""), s)
    /\ UNCHANGED <<status, docs, total, selected, busy, events>>

\* every 2 s while something is shown as processing; one at a time here
Poll(s) ==
  LET ids == {d \in DOMAIN docs : docs[d] \in Processing} IN
  /\ ids # {}
  /\ \A t \in 1..Slots : requests[t] # Free => requests[t].after # "poll"
  /\ Send(Request("poll", render, render.page, ids, "poll"), s)
  /\ UNCHANGED <<status, pageVars, events>>

toggleSelect ==
  /\ Event /\ render.tab = "review" /\ ~loading
  /\ \E d \in DOMAIN docs : selected' = (selected \union {d}) \ (selected \intersect {d})
  /\ UNCHANGED <<status, render, docs, total, loading, busy, requests, timer>>

\* buttons act on what the list shows, the batch on what is ticked
Operate(kind, flag, ids, s) ==
  /\ Event
  /\ flag \notin busy /\ ids # {}
  /\ busy' = busy \union ({flag} \ {""})
  /\ Send(Request(kind, render, render.page, ids, flag), s)
  /\ UNCHANGED <<status, render, docs, total, loading, selected, timer>>

Shown(sts) == {{d} : d \in {e \in DOMAIN docs : ~loading /\ docs[e] \in sts}}

review(s)        == \E k \in {"approve", "reject"}, i \in Shown(Status) :
                      render.tab = "review" /\ Operate(k, "acting", i, s)
reviewBatch(s)   == \E k \in Batch :
                      render.tab = "review" /\ Operate(k, "acting", selected, s)
togglePublish(s) == \E i \in Shown({"READY"}) :
                      render.tab = "all" /\ Operate("publish", "publishing", i, s)
retry(s)         == \E i \in Shown({"FAILED"}) :
                      render.tab = "all" /\ Operate("retry", "retrying", i, s)
remove(s)        == \E i \in Shown(Status \ Processing) :
                      render.tab = "all" /\ Operate("remove", "", i, s)

doUpload(s) ==
  /\ Event /\ render.tab = "all" /\ "uploading" \notin busy
  /\ \E d \in Doc : status[d] = "absent"
  /\ busy' = busy \union {"uploading"}
  /\ Send(Request("upload", render, render.page, {}, "uploading"), s)
  /\ UNCHANGED <<status, render, docs, total, loading, selected, timer>>
-----------------------------------------------------------------------------
(* everybody else *)

\* the worker
Processed ==
  \E d \in Doc, to \in {"READY", "FAILED"} :
    /\ status[d] = "PARSING"
    /\ status' = [status EXCEPT ![d] = to]
    /\ UNCHANGED <<pageVars, requests, events>>

\* other users review and delete
OtherUser ==
  /\ Event
  /\ \E d \in Doc :
       \/ status[d] = "PENDING_REVIEW" /\ status' = [status EXCEPT ![d] = "PARSING"]
       \/ status[d] \notin {"absent", "gone"} /\ status' = [status EXCEPT ![d] = "gone"]
  /\ UNCHANGED <<pageVars, requests>>

User(s) == \/ goPage(s) \/ switchTab(s) \/ review(s) \/ reviewBatch(s)
           \/ togglePublish(s) \/ retry(s) \/ remove(s) \/ doUpload(s)
Arrives(s) == Served(s) \/ Answer(s) \/ Acted(s) \/ ActFailed(s) \/ Created(s) \/ Completed(s) \/ UploadFailed(s)

PageNext ==
  \/ \E s \in 1..Slots : User(s) \/ Arrives(s) \/ Debounced(s) \/ Poll(s)
  \/ changeFilter \/ toggleSelect \/ Processed \/ OtherUser

PageSpec == PageInit /\ [][PageNext]_documentsVars
\* requests are answered, timers fire, the worker ends
PageFairness ==
  /\ WF_documentsVars(Processed)
  /\ \A s \in 1..Slots : WF_documentsVars(Arrives(s))
  /\ WF_documentsVars(\E s \in 1..Slots : Debounced(s))
  /\ WF_documentsVars(\E t \in 1..Slots : Poll(t))
-----------------------------------------------------------------------------
(* Properties *)

Loads == {s \in 1..Slots : requests[s].kind = "load"}

\* No empty page is left where there are documents, however deletions, page
\* turns and late answers meet ("one page back when the last document of a
\* page is deleted", DocumentsPage.tsx:117).
NoEmptyPage == DOMAIN docs = {} /\ total > 0 => Loads # {}

\* A document whose processing has ended does not stay on the page as being
\* processed: the poll writes the status back, whatever older list arrives
\* in between.
DoneIsShown ==
  \A d \in Doc : <>[](status[d] \in {"READY", "FAILED"})
                 => <>[](d \in DOMAIN docs => docs[d] \notin Processing)

=============================================================================
