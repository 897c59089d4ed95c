---------------------------- MODULE MCKnowledge ----------------------------
(***************************************************************************)
(* What happens to the text of documents and conversations, and who is     *)
(* shown it.  The five modules share no state but the facts of Permissions *)
(* and Retrieval: one of them moves and the others stand still.            *)
(***************************************************************************)
EXTENDS Retrieval, MemoryWindow, Chunking, GraphStore

\* two documents of one workspace, and one of another
HomeOf == [f \in Files |-> IF f = 3 THEN "w2" ELSE "w1"]

VARIABLE which  \* the module that moves

\* no retrieval, no chunks, nothing published or being published
StoresEmpty ==
  /\ rows = 0 /\ es = [gen |-> 0, public |-> FALSE]
  /\ worker = [pc |-> "idle", public |-> FALSE] /\ publishing = {}
  /\ request = Idle
  /\ may = FALSE /\ cleared = FALSE /\ raced = FALSE /\ orphaned = FALSE
FactsEmpty ==
  /\ user = [sysadmin |-> FALSE, member |-> "none", deptMember |-> FALSE, deptAdmin |-> FALSE]
  /\ attached = FALSE /\ changes = 0
  /\ doc = [status |-> "UPLOADED", published |-> FALSE, deleted |-> TRUE]

KnowledgeInit ==
  /\ which \in {"facts", "retrieval", "memory", "chunking", "graph"}
  /\ IF which = "retrieval" THEN RetrievalInit ELSE StoresEmpty
  /\ IF which = "facts" THEN FactsInit ELSE which # "retrieval" => FactsEmpty
  /\ MemoryInit /\ GraphInit
  /\ IF which = "chunking" THEN ChunkingInit ELSE items = <<>> /\ lines = <<>>

KnowledgeNext ==
  \/ which = "facts" /\ FactsNext
     /\ UNCHANGED <<storeVars, request, ghostVars, memoryVars, graphVars>>
  \/ which = "retrieval" /\ RetrievalNext /\ UNCHANGED <<memoryVars, graphVars>>
  \/ which = "memory" /\ MemoryNext /\ UNCHANGED <<retrievalVars, graphVars>>
  \/ which = "graph" /\ GraphNext /\ UNCHANGED <<retrievalVars, memoryVars>>

KnowledgeSpec == /\ KnowledgeInit
                 /\ [][KnowledgeNext /\ UNCHANGED <<which, chunkVars>>]_<<which, retrievalVars, memoryVars, graphVars, chunkVars>>
=============================================================================
