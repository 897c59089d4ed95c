----------------------------- MODULE AgentRules -----------------------------
(***************************************************************************)
(* The decisions of the question-answering agent that depend on nothing    *)
(* but their arguments: which tools an intent may use, what a retrieval    *)
(* may return, and when the evidence is good enough (agent-intent.ts,      *)
(* agent-acl.ts, agent-evaluate.ts).  A chunk is abstracted to what the    *)
(* access rules look at: its workspace and the company_public flag of the  *)
(* hit; a query to nothing.                                                *)
(***************************************************************************)
EXTENDS Integers

CONSTANTS Workspaces,     \* ids of department workspaces
          Chunks,         \* the chunks that are indexed
          MaxIterations,  \* agent.maxIterations
          WebEnabled,     \* agent.enableWeb
          LoopEnabled,    \* agent.enableLoop
          FastPath        \* agent.simpleFastPath

Chunk == [workspace : Workspaces, public : BOOLEAN]

ASSUME RulesAssumption ==
  /\ Chunks \subseteq Chunk
  /\ MaxIterations \in Nat \ {0}
  /\ WebEnabled \in BOOLEAN
  /\ LoopEnabled \in BOOLEAN
  /\ FastPath \in BOOLEAN

Intent == {"chitchat", "preference", "kb", "web", "kb_then_web"}
Tool   == {"kb_retrieve", "graph_reason", "web_search"}
Grade  == {"sufficient", "rewrite", "give_up"}

Scope  == [workspaceIds : SUBSET Workspaces, includeCompanyPublic : BOOLEAN,
           companyPublicOnly : BOOLEAN]

\* what the annotations of agent.state.ts default to: nothing is allowed
NoScope == [workspaceIds |-> {}, includeCompanyPublic |-> FALSE,
            companyPublicOnly |-> FALSE]

whitelistScope(ids) == [NoScope EXCEPT !.workspaceIds = ids]
-----------------------------------------------------------------------------
(* agent-acl.ts *)

filterChunksByAcl(chunks, scope) ==
  IF scope.companyPublicOnly
    THEN {c \in chunks : c.public}
    ELSE {c \in chunks : \/ c.workspace \in scope.workspaceIds
                         \/ scope.includeCompanyPublic /\ c.public}
-----------------------------------------------------------------------------
(* agent-intent.ts *)

skipsRetrieve(intent) == intent \in {"chitchat", "preference"}
allowsGraph(intent)   == intent \in {"kb", "kb_then_web"}

\* mutant of toolsForIntent: every question may be searched on the web
toolsForIntentWeb(intent, graph) ==
  IF skipsRetrieve(intent) THEN {}
  ELSE {"kb_retrieve"} \union (IF WebEnabled THEN {"web_search"} ELSE {})
                       \union (IF graph THEN {"graph_reason"} ELSE {})

toolsForIntent(intent, graph) ==
  CASE skipsRetrieve(intent)  -> {}
    [] intent = "web"         -> IF WebEnabled THEN {"web_search"} ELSE {"kb_retrieve"}
    [] intent = "kb_then_web" -> {"kb_retrieve"} \union (IF WebEnabled THEN {"web_search"} ELSE {})
    [] intent = "kb"          -> {"kb_retrieve"} \union (IF graph THEN {"graph_reason"} ELSE {})

\* the tools of a round; kb_then_web begins with the knowledge base alone
initialToolsForIntent(intent, graph, wantGraph) ==
  CASE skipsRetrieve(intent) -> {}
    [] intent = "web"        -> IF WebEnabled THEN {"web_search"} ELSE {"kb_retrieve"}
    [] allowsGraph(intent)   -> {"kb_retrieve"} \union
                                (IF wantGraph /\ graph THEN {"graph_reason"} ELSE {})

\* what the heuristic may take a question for when the router fails
inferIntentFallback == {"kb", "chitchat"} \union (IF WebEnabled THEN {"web"} ELSE {})

\* what the router may answer; an unknown word counts as kb
parseIntentJson == IF WebEnabled THEN Intent ELSE Intent \ {"web", "kb_then_web"}

\* two entities or more make a question complex, where a graph may help
complexityFromIntent(intent, twoEntities) == allowsGraph(intent) /\ twoEntities
-----------------------------------------------------------------------------
(* agent-evaluate.ts, over a state with the fields intent, iteration,     *)
(* strong (the best chunk scores at least rerankMinScore) and web (the     *)
(* web gave hits)                                                          *)

shouldTakeFastPath(s) ==
  \/ ~FastPath \/ ~LoopEnabled
  \/ skipsRetrieve(s.intent)
  \/ s.intent \in {"web", "kb_then_web"} /\ s.web
  \/ s.intent = "kb" /\ s.strong

heuristicEvaluate(s) ==
  LET last == s.iteration + 1 >= MaxIterations IN
  CASE ~LoopEnabled                     -> "sufficient"
    [] LoopEnabled /\ s.iteration >= MaxIterations -> "give_up"
    [] OTHER ->
       CASE s.intent = "web"            -> IF s.web THEN "sufficient"
                                           ELSE IF last THEN "give_up" ELSE "rewrite"
         [] s.intent # "web" /\ s.strong -> "sufficient"
         [] OTHER -> IF s.intent = "kb_then_web" /\ ~s.web THEN "rewrite"
                     ELSE IF last THEN "give_up" ELSE "rewrite"
=============================================================================
