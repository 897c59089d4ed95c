---------------------------- MODULE Permissions ----------------------------
(***************************************************************************)
(* Who may do what with a document: the guards of the API (acl.guard.ts,   *)
(* acl.service.ts getRole, the checks inside documents.service.ts), the    *)
(* lists that show documents and spaces, and the buttons the web client    *)
(* offers.  One user, one private space that a department may own, one     *)
(* document in it; roles, departments and the document change under way.   *)
(* The cache of visible spaces is Access's subject: here it is fresh.      *)
(***************************************************************************)
EXTENDS Integers, FiniteSets

CONSTANT MaxChanges  \* bound: changes of roles, departments and documents

ASSUME PermissionsAssumption == MaxChanges \in Nat

VARIABLES
  user,     \* system role, role in the space, member or admin of the department
  attached, \* the space belongs to the department
  doc,      \* status, company_published_at, deleted_at
  changes

factVars == <<user, attached, doc, changes>>

Role   == {"none", "viewer", "editor", "owner"}
Status == {"UPLOADED", "PENDING_REVIEW", "PROCESSING", "READY", "FAILED", "REJECTED"}
User   == [sysadmin : BOOLEAN, member : Role, deptMember : BOOLEAN, deptAdmin : BOOLEAN]
Doc    == [status : Status, published : BOOLEAN, deleted : BOOLEAN]

FactsTypeOK ==
  /\ user \in User /\ attached \in BOOLEAN /\ doc \in Doc
  /\ changes \in 0..MaxChanges

\* a published document has been READY
FactsInit ==
  /\ user \in User /\ attached \in BOOLEAN
  /\ doc \in Doc
  /\ (doc.published => doc.status \in {"READY", "FAILED", "PROCESSING"})
  /\ changes = 0
-----------------------------------------------------------------------------
(* roles *)

rank == [none |-> 0, viewer |-> 1, editor |-> 2, owner |-> 3]

\* getRole: an explicit role, else that of a department member, who may read
getRole ==
  IF user.member # "none" THEN user.member
  ELSE IF attached /\ (user.deptMember \/ user.deptAdmin) THEN "viewer" ELSE "none"

\* AclGuard.canActivate with RequireWorkspaceRole; a sysadmin passes
AclGuard(required) == user.sysadmin \/ rank[getRole] >= rank[required]
\* of the company space everybody is a viewer
AclGuardCompany(required) == user.sysadmin \/ rank["viewer"] >= rank[required]

\* mustGet refuses the deleted; assertRole knows no sysadmin
assertRole(required) == ~doc.deleted /\ rank[getRole] >= rank[required]

isDocReviewer  == attached /\ user.deptAdmin
assertReviewer == user.sysadmin \/ isDocReviewer

\* mutant of assertViewable: reviewers are forgotten
assertViewableMembers == ~doc.deleted /\ (user.sysadmin \/ doc.published \/ user.member # "none")

assertViewable ==
  ~doc.deleted /\ (user.sysadmin \/ doc.published \/ getRole # "none" \/ isDocReviewer)

assertCanPublish ==
  user.sysadmin \/ rank[getRole] >= rank["editor"] \/ (attached /\ user.deptAdmin)
-----------------------------------------------------------------------------
(* the endpoints of a document and of its space *)

Permitted == [
  list          |-> AclGuard("viewer"),
  listCompany   |-> AclGuardCompany("viewer"),
  uploadInit    |-> AclGuard("editor"),
  checkDuplicate |-> AclGuard("editor"),
  uploadComplete |-> assertRole("editor"),
  detail        |-> assertViewable,
  downloadUrl   |-> assertViewable,
  progress      |-> assertRole("viewer"),
  review        |-> ~doc.deleted /\ doc.status = "PENDING_REVIEW" /\ assertReviewer,
  publish       |-> ~doc.deleted /\ doc.status = "READY" /\ assertCanPublish,
  unpublish     |-> ~doc.deleted /\ assertCanPublish,
  reindex       |-> assertRole("editor") /\ doc.status \in {"READY", "FAILED"},
  remove        |-> assertRole("editor"),
  graph         |-> AclGuard("viewer"),
  members       |-> AclGuard("viewer"),
  updateSpace   |-> AclGuard("owner"),
  removeSpace   |-> AclGuard("owner") /\ doc.deleted, \* not while it holds documents
  addMember     |-> AclGuard("owner")]

\* what batchProgress answers about
batchProgress == ~doc.deleted /\ (user.sysadmin \/ getRole # "none" \/ doc.published)
-----------------------------------------------------------------------------
(* what is shown *)

\* getWhitelist: the spaces that searches of the user reach
whitelisted == user.member # "none" \/ (attached /\ (user.deptMember \/ user.deptAdmin))

\* searchScope: every space, one space, or what is published
Scopes == {[spaces |-> whitelisted, company |-> "also"], [spaces |-> whitelisted, company |-> "no"],
           [spaces |-> FALSE, company |-> "only"]}
InScope(scope, published) ==
  \/ scope.company # "only" /\ scope.spaces
  \/ scope.company # "no" /\ published

\* listMine: the spaces of the user, with the role they are shown with
Listed     == whitelisted \/ user.sysadmin
ListedRole == IF user.member # "none" THEN user.member ELSE "viewer"
can_review == user.sysadmin \/ (attached /\ user.deptAdmin)

\* list of the space, list of the company space, queue of reviews, progress
\* of a batch
Shown == ~doc.deleted /\
  \/ Permitted.list
  \/ doc.published
  \/ doc.status = "PENDING_REVIEW" /\ (user.sysadmin \/ (attached /\ user.deptAdmin))
  \/ batchProgress

\* the searches, of an index whose flag is the row's: they ask neither for the
\* status nor for the deletion
Searched == \E s \in Scopes : InScope(s, doc.published)

\* mutant of canEdit: whoever sees the space gets the buttons
canEditAll == TRUE

\* DocumentsPage: what its buttons are shown for
canEdit == ListedRole \in {"owner", "editor"} \/ user.sysadmin
Processing == {"UPLOADED", "PROCESSING"}

\* the tabs that can be chosen; the address of the page may name either
Tabs == {"all"} \union (IF can_review THEN {"review"} ELSE {})
InTab(tab) == ~doc.deleted /\ (tab = "review" => doc.status = "PENDING_REVIEW")

\* above the list: the graph, uploads, and the review of what is ticked
OfferedAbove(tab) ==
  {"graph"} \union (IF canEdit /\ tab = "all" THEN {"checkDuplicate", "uploadInit"} ELSE {})
            \union (IF tab = "review" /\ InTab(tab) THEN {"review"} ELSE {})

\* beside a document: its preview, and its review or what else can be done
OfferedBeside(tab) ==
  IF ~InTab(tab) THEN {}
  ELSE {"downloadUrl"}
    \union (IF tab = "review" THEN {"review"} ELSE {})
    \union (IF tab = "review" \/ ~canEdit THEN {}
            ELSE (IF doc.status = "READY" /\ ~doc.published THEN {"publish"} ELSE {})
                 \union (IF doc.published THEN {"unpublish"} ELSE {})
                 \union (IF doc.status = "FAILED" THEN {"reindex"} ELSE {})
                 \union (IF doc.status \notin Processing THEN {"remove"} ELSE {}))

\* beside a space
OfferedSpace == IF ListedRole = "owner" \/ user.sysadmin THEN {"updateSpace", "removeSpace"} ELSE {}

\* the requests that the pages of the client offer to send
Offered(tab) ==
  IF Listed THEN {"list"} \union OfferedAbove(tab) \union OfferedBeside(tab) \union OfferedSpace ELSE {}
-----------------------------------------------------------------------------
(* what changes *)

Change == changes < MaxChanges /\ changes' = changes + 1

\* addMember, updateMember, removeMember, the department's members and
\* administrators, updateUser: by others
Regrant ==
  /\ Change
  /\ \/ \E r \in Role \ {user.member} : user' = [user EXCEPT !.member = r]
     \/ user' = [user EXCEPT !.deptMember = ~@]
     \/ user' = [user EXCEPT !.deptAdmin = ~@]
     \/ user' = [user EXCEPT !.sysadmin = ~@]
  /\ UNCHANGED <<attached, doc>>

\* update of a space, or the removal of its department
Reattach == Change /\ attached' = ~attached /\ UNCHANGED <<user, doc>>

MoveDoc(d) == Change /\ doc' = d /\ UNCHANGED <<user, attached>>

\* the user's requests that change the document; an upload is another document
Act(r, d) == Permitted[r] /\ MoveDoc(d)
Upload   == Act("uploadInit", [status |-> "UPLOADED", published |-> FALSE, deleted |-> FALSE])
Complete == doc.status = "UPLOADED" /\ Act("uploadComplete", [doc EXCEPT !.status = "PENDING_REVIEW"])
Review   == \E s \in {"PROCESSING", "REJECTED"} : Act("review", [doc EXCEPT !.status = s])
Publishing == \/ ~doc.published /\ Act("publish", [doc EXCEPT !.published = TRUE])
              \/ doc.published /\ Act("unpublish", [doc EXCEPT !.published = FALSE])
Retry    == Act("reindex", [doc EXCEPT !.status = "PROCESSING"])
Delete   == Act("remove", [doc EXCEPT !.deleted = TRUE])

\* the worker is through with it
Processed == \E s \in {"READY", "FAILED"} :
  doc.status = "PROCESSING" /\ MoveDoc([doc EXCEPT !.status = s])

FactsNext == \/ Regrant \/ Reattach \/ Processed
             \/ Upload \/ Complete \/ Review \/ Publishing \/ Retry \/ Delete
FactsSpec == FactsInit /\ [][FactsNext]_factVars
-----------------------------------------------------------------------------
(* Properties *)

\* Whatever list or queue shows a document, it can be opened, and what a search
\* of an up-to-date index finds too, unless it is deleted and not purged yet:
\* the queries that select documents agree with the check of the download
\* (assertViewable), reviewers and company readers included.
FoundCanBeOpened ==
  /\ Shown => Permitted.downloadUrl /\ Permitted.detail
  /\ Searched => Permitted.downloadUrl \/ doc.deleted

\* A member who sees a button may use it: the conditions of the pages are
\* not wider than the guards.  Left out: the review buttons of whoever opens
\* the reviewers' tab by its address, and the removal of a space that still
\* holds documents.  Of a system administrator it does not hold: AclGuard lets
\* him pass, assertRole does not.
OfferedIsPermitted ==
  ~user.sysadmin =>
    \A tab \in {"all", "review"} : \A r \in Offered(tab) :
      \/ Permitted[r]
      \/ r = "review" /\ tab \notin Tabs
      \/ r = "removeSpace" /\ ~doc.deleted
=============================================================================
