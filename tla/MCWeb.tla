------------------------------- MODULE MCWeb -------------------------------
(***************************************************************************)
(* The three pieces of the web client that hold state over time.  They     *)
(* share nothing, so one of them moves and the others stand still.         *)
(***************************************************************************)
EXTENDS Speech, DocumentsPage, ChatClient

VARIABLE which  \* the piece that moves

webVars == <<which, speechVars, documentsVars, chatVars>>

\* the documents page is not open: it asks for nothing
PageClosed ==
  /\ status = [d \in Doc |-> "absent"] /\ render = Render("all", 1, FALSE)
  /\ docs = NoDocs /\ total = 0 /\ loading = FALSE
  /\ selected = {} /\ busy = {} /\ timer = NoTimer
  /\ requests = [s \in 1..Slots |-> Free] /\ events = 0

WebInit ==
  /\ which \in {"speech", "page", "client"}
  /\ SpeechInit /\ ClientInit
  /\ IF which = "page" THEN PageInit ELSE PageClosed

WebNext ==
  \/ which = "speech" /\ SpeechNext /\ UNCHANGED <<which, documentsVars, chatVars>>
  \/ which = "page" /\ PageNext /\ UNCHANGED <<which, speechVars, chatVars>>
  \/ which = "client" /\ ClientNext /\ UNCHANGED <<which, speechVars, documentsVars>>

WebSpec == /\ WebInit /\ [][WebNext]_webVars
           /\ SpeechFairness /\ PageFairness /\ ClientFairness
=============================================================================
