---------------------------- MODULE AgentProofs ----------------------------
(***************************************************************************)
(* Proofs about AgentGraph, for any number of workspaces, chunks, rounds   *)
(* and faults: the scope of the evidence, the web, callbacks, steps.       *)
(***************************************************************************)
EXTENDS AgentGraph, TLAPS

USE RulesAssumption, GraphAssumption
-----------------------------------------------------------------------------
(* Every step has one of a few shapes; most invariants need no more *)

\* what a step does to the loop, whatever the node is about
NodeReturns ==
  \E n \in Node, next \in Node : \E s :
    /\ Returns(n, next, s)
    /\ n = "execute_tools" => work.tool = NoStep

NodeDegrades ==
  \E n \in Node, next \in Node, timeout \in BOOLEAN :
    /\ Degrade(n, next, timeout)
    /\ cut' = IF n = "execute_tools" /\ work.tool # NoStep
                THEN cut \union {work.tool} ELSE cut

LEMMA Disjoint == NoStep \notin Tool /\ NoStep \notin Node
BY DEF NoStep, Tool, Node, Prelude, Loop, Coda

\* where the graph goes after a node is a node
LEMMA Edges ==
  /\ \A s : AfterPlan(s) \in Node
  /\ \A s : afterEvaluate(s) \in Node
BY DEF AfterPlan, afterEvaluate, Node, Prelude, Loop, Coda

LEMMA DegradesToShape ==
  ASSUME NEW n \in Node \ {"execute_tools"}, NEW next \in Node, DegradesTo(n, next)
  PROVE  NodeDegrades
BY DEF DegradesTo, NodeDegrades

LEMMA ReturnsShape ==
  ASSUME NEW n \in Node \ {"execute_tools"}, NEW next \in Node, NEW s,
         Returns(n, next, s)
  PROVE  NodeReturns
BY DEF NodeReturns

LEMMA PreludeShape ==
  ASSUME AclGuard \/ LoadWindow \/ QueryRewrite \/ IntentRouter \/ MemoryLoad
  PROVE  NodeReturns \/ NodeDegrades
<1> USE DegradesToShape, ReturnsShape
<1>0. /\ Prelude \subseteq Node \ {"execute_tools"}
      /\ {"think", "plan_or_act"} \subseteq Node
  BY DEF Node, Prelude, Loop, Coda
<1>1. CASE AclGuard
  BY <1>0, <1>1 DEF AclGuard, Prelude
<1>2. CASE LoadWindow
  BY <1>0, <1>2 DEF LoadWindow, Prelude
<1>3. CASE QueryRewrite
  BY <1>0, <1>3 DEF QueryRewrite, Prelude
<1>4. CASE IntentRouter
  <2>1. ASSUME NEW timeout \in BOOLEAN, Degrade("intent_router", "memory_load", timeout),
               UNCHANGED cut
        PROVE  NodeDegrades
    BY <1>0, <2>1 DEF NodeDegrades, Prelude
  <2> QED
    BY <1>0, <1>4, <2>1 DEF IntentRouter, Prelude
<1>5. CASE MemoryLoad
  BY <1>0, <1>5 DEF MemoryLoad, Prelude
<1> QED
  BY <1>1, <1>2, <1>3, <1>4, <1>5

LEMMA LoopShape ==
  ASSUME \/ PlanOrAct \/ ExecuteTools \/ ToolsTimeout \/ Evaluate
         \/ RewriteRetrieve \/ Think \/ PromptBuild
  PROVE  NodeReturns \/ NodeDegrades
<1> USE DegradesToShape, ReturnsShape, Edges
<1>0. /\ {"plan_or_act", "evaluate", "rewrite_retrieve", "think", "prompt_build"}
           \subseteq Node \ {"execute_tools"}
      /\ {"execute_tools", "llm_generate"} \subseteq Node
  BY DEF Node, Prelude, Loop, Coda
<1>1. CASE PlanOrAct
  BY <1>0, <1>1 DEF PlanOrAct
<1>2. CASE ExecuteTools
  BY <1>0, <1>2 DEF ExecuteTools, NodeReturns
<1>3. CASE ToolsTimeout
  <2>1. cut' = IF work.tool # NoStep THEN cut \union {work.tool} ELSE cut
    BY <1>3 DEF ToolsTimeout
  <2>2. Degrade("execute_tools", "evaluate", TRUE)
    BY <1>3 DEF ToolsTimeout
  <2> QED
    BY <1>0, <2>1, <2>2 DEF NodeDegrades
<1>4. CASE Evaluate
  BY <1>0, <1>4 DEF Evaluate
<1>5. CASE RewriteRetrieve
  BY <1>0, <1>5 DEF RewriteRetrieve
<1>6. CASE Think
  BY <1>0, <1>6 DEF Think
<1>7. CASE PromptBuild
  BY <1>0, <1>7 DEF PromptBuild
<1> QED
  BY <1>1, <1>2, <1>3, <1>4, <1>5, <1>6, <1>7

\* a tool starts or ends inside execute_tools
ToolBegins == \E t \in Tool : ToolStart(t)
ToolOver   == \E w : work.tool # NoStep /\ ToolEnds(w) /\ (NoFault \/ Fault)

LEMMA ToolShape ==
  ASSUME KbRetrieve \/ GraphReason \/ WebSearch \/ ToolFails
  PROVE  ToolOver
<1> USE Disjoint DEF ToolOver, Tool
<1>1. CASE KbRetrieve
  BY <1>1 DEF KbRetrieve
<1>2. CASE GraphReason
  BY <1>2 DEF GraphReason
<1>3. CASE WebSearch
  BY <1>3 DEF WebSearch
<1>4. CASE ToolFails
  BY <1>4 DEF ToolFails
<1> QED
  BY <1>1, <1>2, <1>3, <1>4

LEMMA Shapes ==
  ASSUME Next
  PROVE  \/ Enter \/ Exhaust \/ Reject \/ Stop \/ RejectLikeAbort \/ Token
         \/ LlmGenerate \/ (\E w \in late : Late(w))
         \/ ToolBegins \/ ToolOver \/ NodeReturns \/ NodeDegrades
BY PreludeShape, LoopShape, ToolShape DEF Next, Advance, Execute, ToolBegins
-----------------------------------------------------------------------------
(* Type correctness.  A rewrite is only scheduled while a round is left.   *)

Typed == TypeOK /\ (node = "rewrite_retrieve" => st.iteration < MaxIterations)

\* what the tools of an intent are: tools, the web only where it is meant
LEMMA ToolsOfIntent ==
  ASSUME NEW intent \in Intent, NEW graph, NEW want
  PROVE  /\ toolsForIntent(intent, graph) \subseteq Tool
         /\ initialToolsForIntent(intent, graph, want) \subseteq Tool
         /\ "web_search" \in toolsForIntent(intent, graph)
              => intent \in {"web", "kb_then_web"} /\ WebEnabled
         /\ "web_search" \in initialToolsForIntent(intent, graph, want)
              => intent = "web" /\ WebEnabled
<1> USE DEF toolsForIntent, initialToolsForIntent, skipsRetrieve, allowsGraph, Tool
<1>1. CASE intent \in {"chitchat", "preference"}
  BY <1>1
<1>2. CASE intent = "kb"
  BY <1>2
<1>3. CASE intent = "web"
  BY <1>3
<1>4. CASE intent = "kb_then_web"
  BY <1>4
<1> QED
  BY <1>1, <1>2, <1>3, <1>4 DEF Intent

LEMMA IntentsKnown ==
  parseIntentJson \subseteq Intent /\ inferIntentFallback \subseteq Intent
BY DEF parseIntentJson, inferIntentFallback, Intent

LEMMA FilterKeeps ==
  ASSUME NEW hits \in SUBSET Chunks, NEW scope
  PROVE  filterChunksByAcl(hits, scope) \subseteq hits
BY DEF filterChunksByAcl

LEMMA AclGuardType == ASSUME req \in Requests PROVE aclGuard \in Scope
BY DEF aclGuard, Scope, NoScope, Request

LEMMA InitTyped == Init => Typed
<1> SUFFICES ASSUME Init PROVE Typed
  OBVIOUS
<1>1. NoScope \in Scope
  BY DEF NoScope, Scope
<1>2. st \in AgentState
  BY <1>1 DEF Init, InitialState, AgentState, Intent, Grade
<1>3. work \in Work
  BY DEF Init, Work
<1>4. node = "acl_guard" /\ node \in Node
  BY DEF Init, Node, Prelude
<1>5. /\ req \in Requests /\ phase = "ready" /\ entered = 0
      /\ late = {} /\ closed = {} /\ aborted = FALSE /\ outcome = "running"
      /\ started = {} /\ open = NoStep /\ cut = {}
      /\ webCalls = 0 /\ stray = FALSE /\ faults = 0
  BY DEF Init
<1>6. node = "rewrite_retrieve" => st.iteration < MaxIterations
  BY <1>4
<1>7. TypeOK
  <2>1. entered \in 0..RecursionLimit /\ faults \in 0..MaxFaults /\ webCalls \in Nat
    BY <1>5
  <2>2. /\ aborted \in BOOLEAN /\ stray \in BOOLEAN
        /\ outcome \in {"running", "returned", "aborted", "exhausted"}
        /\ phase \in {"ready", "working"} /\ (phase = "working" => entered > 0)
    BY <1>5
  <2>3. /\ late \subseteq LateWork /\ closed \subseteq 1..RecursionLimit
        /\ started \subseteq Node \union Tool /\ cut \subseteq Tool
        /\ open \in Node \union Tool \union {NoStep}
    BY <1>5
  <2> QED
    BY <1>2, <1>3, <1>4, <1>5, <2>1, <2>2, <2>3 DEF TypeOK
<1> QED
  BY <1>6, <1>7 DEF Typed

\* the state a node may leave behind
Leaves(s, next) ==
  /\ s \in AgentState
  /\ next = "rewrite_retrieve" => s.iteration < MaxIterations

LEMMA ReturnsType ==
  ASSUME Typed, NEW n, NEW next \in Node, NEW s, Leaves(s, next), Returns(n, next, s)
  PROVE  Typed'
BY DEF Typed, TypeOK, Leaves, Returns, Schedule, StepEnd, Emits

LEMMA LeftBehindType == ASSUME Typed, phase = "working" PROVE LeftBehind \in LateWork
BY DEF Typed, TypeOK, LeftBehind, LateWork, Work, AgentState

LEMMA FaultType == ASSUME Typed, Fault PROVE faults' \in 0..MaxFaults
BY DEF Typed, TypeOK, Fault

LEMMA DegradeType ==
  ASSUME Typed, NEW n, NEW next \in Node, NEW timeout \in BOOLEAN,
         Degrade(n, next, timeout), Leaves(st', next), cut' \in SUBSET Tool
  PROVE  Typed'
<1>1. late' \subseteq LateWork /\ closed' \subseteq 1..RecursionLimit
  BY LeftBehindType DEF Typed, TypeOK, Degrade, Works
<1>2. faults' \in 0..MaxFaults
  BY FaultType DEF Degrade
<1> QED
  BY <1>1, <1>2 DEF Typed, TypeOK, Leaves, Degrade, Schedule, StepEnd

LEMMA DegradesToType ==
  ASSUME Typed, NEW n, NEW next \in Node, DegradesTo(n, next), Leaves(st, next)
  PROVE  Typed'
BY DegradeType DEF DegradesTo, Typed, TypeOK, Leaves

LEMMA PreludeType ==
  ASSUME Typed, AclGuard \/ LoadWindow \/ QueryRewrite \/ IntentRouter \/ MemoryLoad
  PROVE  Typed'
<1> USE ReturnsType, DegradesToType
<1>0. /\ Prelude \union {"think", "plan_or_act"} \subseteq Node
      /\ \A n \in Prelude \union {"think", "plan_or_act"} : Leaves(st, n)
      /\ st \in AgentState /\ req \in Requests
  BY DEF Node, Prelude, Loop, Coda, Leaves, Typed, TypeOK
<1>1. CASE AclGuard
  <2>1. Leaves([st EXCEPT !.scope = aclGuard], "load_window")
    BY <1>0, AclGuardType DEF Leaves, AgentState
  <2> QED
    BY <1>0, <1>1, <2>1 DEF AclGuard, Prelude
<1>2. CASE LoadWindow
  BY <1>0, <1>2 DEF LoadWindow, Prelude
<1>3. CASE QueryRewrite
  BY <1>0, <1>3 DEF QueryRewrite, Prelude
<1>4. CASE IntentRouter
  <2>1. ASSUME NEW intent \in Intent, NEW c \in BOOLEAN
        PROVE  Leaves(Routed(intent, c), "memory_load")
    <3>1. \A g : toolsForIntent(intent, g) \subseteq Tool
                 /\ initialToolsForIntent(intent, g, c) \subseteq Tool
      BY ToolsOfIntent
    <3> QED
      BY <1>0, <3>1 DEF Leaves, AgentState, Routed
  <2>2. ASSUME NEW intent \in parseIntentJson, NEW two \in BOOLEAN,
               Returns("intent_router", "memory_load",
                       Routed(intent, complexityFromIntent(intent, two)))
        PROVE  Typed'
    <3>1. complexityFromIntent(intent, two) \in BOOLEAN
      BY DEF complexityFromIntent, allowsGraph
    <3> QED
      BY <1>0, <2>1, <2>2, <3>1, IntentsKnown DEF Prelude
  <2>3. ASSUME NEW timeout \in BOOLEAN, Degrade("intent_router", "memory_load", timeout),
               NEW intent \in inferIntentFallback, st' = Routed(intent, FALSE),
               UNCHANGED cut
        PROVE  Typed'
    <3>1. Leaves(st', "memory_load")
      BY <2>1, <2>3, IntentsKnown
    <3>2. cut' \in SUBSET Tool
      BY <2>3 DEF Typed, TypeOK
    <3> QED
      BY <1>0, <2>3, <3>1, <3>2, DegradeType DEF Prelude
  <2> QED
    BY <1>4, <2>2, <2>3 DEF IntentRouter
<1>5. CASE MemoryLoad
  BY <1>0, <1>5 DEF MemoryLoad, Prelude
<1> QED
  BY <1>1, <1>2, <1>3, <1>4, <1>5

\* the planner and the rewriting choose among tools
LEMMA PlansAreTools ==
  ASSUME st \in AgentState
  PROVE  Wanted \subseteq Tool /\ \A tools \in planOrAct : tools \subseteq Tool
<1>1. Wanted \subseteq Tool
  BY ToolsOfIntent DEF Wanted, AgentState
<1>2. st.pending \subseteq Tool /\ st.available \subseteq Tool
  BY DEF AgentState
<1> QED
  BY <1>1, <1>2 DEF planOrAct

LEMMA PlanType == ASSUME Typed, PlanOrAct \/ Think \/ PromptBuild PROVE Typed'
<1> USE ReturnsType, DegradesToType
<1>0. /\ st \in AgentState
      /\ \A s : AfterPlan(s) \in {"execute_tools", "think"}
      /\ {"execute_tools", "think", "prompt_build", "llm_generate"} \subseteq Node
      /\ \A n \in {"execute_tools", "think", "prompt_build", "llm_generate"} :
           \A s \in AgentState : Leaves(s, n)
  BY DEF Typed, TypeOK, AfterPlan, Node, Loop, Coda, Leaves
<1>1. CASE PlanOrAct
  <2>1. \A tools \in planOrAct : [st EXCEPT !.pending = tools] \in AgentState
    BY <1>0, PlansAreTools DEF AgentState
  <2> QED
    BY <1>0, <1>1, <2>1 DEF PlanOrAct
<1>2. CASE Think
  BY <1>0, <1>2 DEF Think
<1>3. CASE PromptBuild
  BY <1>0, <1>3 DEF PromptBuild
<1> QED
  BY <1>1, <1>2, <1>3

LEMMA GradesKnown == ASSUME st \in AgentState PROVE grades \subseteq Grade
<1>1. heuristicEvaluate(st) \in Grade
  <2>1. CASE ~LoopEnabled
    BY <2>1 DEF heuristicEvaluate, Grade
  <2>2. CASE LoopEnabled /\ st.iteration >= MaxIterations
    BY <2>2 DEF heuristicEvaluate, Grade
  <2>3. CASE LoopEnabled /\ ~(st.iteration >= MaxIterations)
    BY <2>3 DEF heuristicEvaluate, Grade
  <2> QED
    BY <2>1, <2>2, <2>3
<1> QED
  BY <1>1 DEF grades, Grade

\* a grade that asks for a rewrite leaves a round to do it in
LEMMA EvaluateType == ASSUME Typed, Evaluate PROVE Typed'
<1>0. st \in AgentState
  BY DEF Typed, TypeOK
<1>1. \A s : s.iteration >= MaxIterations => afterEvaluate(s) = "think"
  BY DEF afterEvaluate
<1>2. ASSUME NEW s \in AgentState PROVE Leaves(s, afterEvaluate(s))
  BY <1>1, <1>2 DEF Leaves, AgentState
<1>3. ASSUME NEW g \in grades PROVE Evaluated(g) \in AgentState
  <2>1. g \in Grade
    BY <1>0, <1>3, GradesKnown
  <2>2. CASE shouldTakeFastPath(st)
    BY <1>0, <2>1, <2>2 DEF Evaluated, AgentState
  <2>3. CASE ~shouldTakeFastPath(st) /\ g = "rewrite"
    <3>1. st.iteration + 1 \in 0..MaxIterations
      BY <1>0, <1>3, <2>3 DEF grades, AgentState
    <3> QED
      BY <1>0, <2>1, <2>3, <3>1 DEF Evaluated, AgentState, Tool
  <2>4. CASE ~shouldTakeFastPath(st) /\ g # "rewrite"
    BY <1>0, <2>1, <2>4 DEF Evaluated, AgentState
  <2> QED
    BY <2>2, <2>3, <2>4
<1> QED
  BY <1>0, <1>2, <1>3, Edges, ReturnsType, DegradesToType DEF Evaluate

LEMMA RewriteType == ASSUME Typed, RewriteRetrieve PROVE Typed'
<1>0. st \in AgentState
  BY DEF Typed, TypeOK
<1>1. ASSUME Works("rewrite_retrieve")
      PROVE  [st EXCEPT !.iteration = @ + 1, !.pending = Wanted] \in AgentState
  <2>1. st.iteration + 1 \in 0..MaxIterations
    BY <1>0, <1>1 DEF Works, Typed, AgentState
  <2> QED
    BY <1>0, <2>1, PlansAreTools DEF AgentState
<1> QED
  BY <1>0, <1>1, ReturnsType, DegradesToType
  DEF RewriteRetrieve, Leaves, Node, Loop, Returns

LEMMA ToolsType ==
  ASSUME Typed, KbRetrieve \/ GraphReason \/ WebSearch \/ ToolFails
  PROVE  Typed'
<1>0. work \in Work /\ st \in AgentState
  BY DEF Typed, TypeOK
<1>1. ASSUME NEW w \in Work, ToolEnds(w), faults' \in 0..MaxFaults
      PROVE  Typed'
  <2>1. [w EXCEPT !.tool = NoStep] \in Work
    BY DEF Work
  <2>2. st' = st /\ work' \in Work
    BY <1>1, <2>1 DEF ToolEnds
  <2>3. open' \in Node \union Tool \union {NoStep} /\ started' \subseteq Node \union Tool
    BY <1>1 DEF ToolEnds, StepEnd, Typed, TypeOK
  <2>4. stray' \in BOOLEAN
    BY <1>1 DEF ToolEnds, Emits, Typed, TypeOK
  <2> QED
    BY <1>1, <2>2, <2>3, <2>4 DEF Typed, TypeOK, ToolEnds
<1>2. NoFault => faults' \in 0..MaxFaults
  BY DEF NoFault, Typed, TypeOK
<1>3. CASE KbRetrieve
  <2> PICK hits \in SUBSET Chunks, strong \in BOOLEAN :
        ToolEnds([work EXCEPT !.chunks = filterChunksByAcl(hits, st.scope), !.strong = strong])
    BY <1>3 DEF KbRetrieve
  <2>1. [work EXCEPT !.chunks = filterChunksByAcl(hits, st.scope), !.strong = strong] \in Work
    BY <1>0, FilterKeeps DEF Work
  <2> QED
    BY <1>1, <1>2, <1>3, <2>1 DEF KbRetrieve
<1>4. CASE GraphReason
  <2>1. [work EXCEPT !.graph = FALSE] \in Work
    BY <1>0 DEF Work
  <2>2. ASSUME NEW hits \in SUBSET Chunks, NEW paths \in BOOLEAN, NEW scope
        PROVE  [work EXCEPT !.graph = paths,
                            !.chunks = @ \union filterChunksByAcl(hits, scope)] \in Work
    BY <1>0, FilterKeeps DEF Work
  <2> QED
    BY <1>1, <1>2, <1>4, <2>1, <2>2 DEF GraphReason
<1>5. CASE WebSearch
  <2>1. \A hits \in BOOLEAN : [work EXCEPT !.web = hits, !.searched = TRUE] \in Work
    BY <1>0 DEF Work
  <2>2. st.web \in BOOLEAN
    BY <1>0 DEF AgentState
  <2> QED
    BY <1>1, <1>2, <1>5, <2>1, <2>2 DEF WebSearch
<1>6. CASE ToolFails
  BY <1>0, <1>1, <1>6, FaultType DEF ToolFails
<1> QED
  BY <1>3, <1>4, <1>5, <1>6

LEMMA ExecuteType ==
  ASSUME Typed, (\E t \in Tool : ToolStart(t)) \/ ExecuteTools \/ ToolsTimeout
  PROVE  Typed'
<1>0. /\ work \in Work /\ st \in AgentState /\ st.searches \in Nat
      /\ "evaluate" \in Node
  BY DEF Typed, TypeOK, AgentState, Node, Loop
<1>1. ASSUME NEW t \in Tool, ToolStart(t) PROVE Typed'
  <2>1. work' \in Work
    BY <1>0, <1>1 DEF ToolStart, Work
  <2>2. st' = st /\ node' = node
    BY <1>1 DEF ToolStart
  <2>3. webCalls' \in Nat
    <3>1. webCalls \in Nat /\ webCalls' \in {webCalls, webCalls + 1}
      BY <1>1 DEF ToolStart, Typed, TypeOK
    <3> QED
      BY <3>1
  <2>4. open' \in Node \union Tool \union {NoStep} /\ started' \subseteq Node \union Tool
    BY <1>1 DEF ToolStart, StepStart, Typed, TypeOK
  <2>5. stray' \in BOOLEAN
    BY <1>1 DEF ToolStart, Emits, Typed, TypeOK
  <2> QED
    BY <1>1, <2>1, <2>2, <2>3, <2>4, <2>5 DEF Typed, TypeOK, ToolStart
<1>2. CASE ExecuteTools
  <2> DEFINE s == [st EXCEPT !.chunks = work.chunks, !.strong = work.strong,
                     !.graph = work.graph, !.web = work.web, !.pending = {},
                     !.searches = IF work.searched THEN @ + 1 ELSE @]
  <2>1. s \in AgentState
    <3>1. (IF work.searched THEN st.searches + 1 ELSE st.searches) \in Nat
      BY <1>0
    <3>2. /\ work.chunks \in SUBSET Chunks /\ work.strong \in BOOLEAN
          /\ work.graph \in BOOLEAN /\ work.web \in BOOLEAN
      BY <1>0 DEF Work
    <3> QED
      BY <1>0, <3>1, <3>2 DEF AgentState
  <2> QED
    BY <1>0, <1>2, <2>1, ReturnsType DEF ExecuteTools, Leaves
<1>3. CASE ToolsTimeout
  <2>1. cut' \in SUBSET Tool /\ st' = st
    BY <1>0, <1>3 DEF ToolsTimeout, Typed, TypeOK, Work
  <2> QED
    BY <1>0, <1>3, <2>1, DegradeType DEF ToolsTimeout, Leaves
<1> QED
  BY <1>1, <1>2, <1>3

LEMMA RunType ==
  ASSUME Typed, Enter \/ Exhaust \/ Reject \/ Stop \/ RejectLikeAbort
  PROVE  Typed'
<1> USE DEF Typed, TypeOK
<1>1. CASE Enter
  <2>1. work' \in Work
    BY <1>1 DEF Enter, Work, AgentState
  <2> QED
    BY <1>1, <2>1 DEF Enter, StepStart
<1>2. CASE Exhaust
  BY <1>2 DEF Exhaust, loopVars, stepVars
<1>3. CASE Reject
  <2>1. late' \subseteq LateWork
    BY <1>3, LeftBehindType DEF Reject
  <2> QED
    BY <1>3, <2>1 DEF Reject, loopVars
<1>4. CASE Stop
  <2>1. closed' \subseteq 1..RecursionLimit
    BY <1>4 DEF Stop
  <2> QED
    BY <1>4, <2>1 DEF Stop, loopVars, stepVars
<1>5. CASE RejectLikeAbort
  <2>1. faults' \in 0..MaxFaults /\ closed' \subseteq 1..RecursionLimit
    BY <1>5, FaultType DEF RejectLikeAbort
  <2> QED
    BY <1>5, <2>1 DEF RejectLikeAbort, loopVars
<1> QED
  BY <1>1, <1>2, <1>3, <1>4, <1>5

LEMMA RestType ==
  ASSUME Typed, Token \/ LlmGenerate \/ \E w \in late : Late(w)
  PROVE  Typed'
<1> USE DEF Typed, TypeOK, Emits
<1>1. CASE Token
  BY <1>1 DEF Token, loopVars, stepVars
<1>2. CASE LlmGenerate
  <2>1. faults' \in 0..MaxFaults
    BY <1>2, FaultType DEF LlmGenerate, NoFault
  <2> QED
    BY <1>2, <2>1 DEF LlmGenerate, StepEnd, loopVars
<1>3. ASSUME NEW w \in late, Late(w) PROVE Typed'
  <2>1. late' \subseteq LateWork
    <3>1. \A t : [w EXCEPT !.todo = @ \ {t}] \in LateWork
      BY <1>3 DEF LateWork
    <3> QED
      BY <1>3, <3>1 DEF Late
  <2>2. webCalls' \in Nat
    BY <1>3 DEF Late
  <2> QED
    BY <1>3, <2>1, <2>2 DEF Late, loopVars, stepVars
<1> QED
  BY <1>1, <1>2, <1>3

LEMMA TypedStep == Typed /\ [Next]_vars => Typed'
<1>1. Typed /\ UNCHANGED vars => Typed'
  BY DEF Typed, TypeOK, vars, loopVars, stepVars
<1> QED
  BY <1>1, PreludeType, PlanType, EvaluateType, RewriteType, ToolsType,
     ExecuteType, RunType, RestType DEF Next, Advance, Execute

LEMMA AgentTyped == Spec => []Typed
BY InitTyped, TypedStep, PTL DEF Spec
-----------------------------------------------------------------------------
(* Callbacks: the gate of every work that is left behind is closed, and so *)
(* is that of the node in progress once the user has stopped the run       *)

Gates ==
  /\ \A w \in late : w.gate \in closed
  /\ aborted /\ phase = "working" => entered \in closed
  /\ ~stray

LEMMA GatesStep == Typed /\ Gates /\ [Next]_vars => Gates'
<1> SUFFICES ASSUME Typed, Gates, [Next]_vars PROVE Gates'
  OBVIOUS
<1>0. stray \in BOOLEAN /\ late \subseteq LateWork
  BY DEF Typed, TypeOK
<1>a. ~aborted /\ Running /\ Emits(entered) => stray' = stray
  BY <1>0 DEF Emits
<1> USE DEF Gates
<1>1. CASE UNCHANGED vars
  BY <1>1 DEF vars, loopVars, stepVars
<1>2. CASE Enter
  BY <1>2 DEF Enter
<1>3. CASE Exhaust
  BY <1>3 DEF Exhaust, loopVars, stepVars
<1>4. CASE Reject
  BY <1>4 DEF Reject, loopVars, LeftBehind
<1>5. CASE Stop
  BY <1>5 DEF Stop, loopVars, stepVars
<1>6. CASE RejectLikeAbort
  BY <1>6 DEF RejectLikeAbort, loopVars
<1>7. CASE Token
  BY <1>7, <1>a DEF Token, Works, loopVars, stepVars
<1>8. CASE LlmGenerate
  BY <1>8, <1>a DEF LlmGenerate, Works, loopVars
<1>9. ASSUME NEW w \in late, Late(w) PROVE Gates'
  <2>1. ~stray'
    BY <1>0, <1>9 DEF Late, Emits
  <2>2. \A v \in late' : v.gate \in closed
    BY <1>0, <1>9 DEF Late, LateWork
  <2>3. UNCHANGED <<aborted, phase, entered, closed>>
    BY <1>9 DEF Late, loopVars
  <2> QED
    BY <2>1, <2>2, <2>3
<1>10. CASE ToolBegins
  BY <1>10, <1>a DEF ToolBegins, ToolStart, Works
<1>11. CASE ToolOver
  BY <1>11, <1>a DEF ToolOver, ToolEnds, Works
<1>12. CASE NodeReturns
  BY <1>12, <1>a DEF NodeReturns, Returns, Works, Schedule
<1>13. CASE NodeDegrades
  BY <1>13 DEF NodeDegrades, Degrade, Schedule, LeftBehind
<1> QED
  BY Shapes, <1>1, <1>2, <1>3, <1>4, <1>5, <1>6, <1>7, <1>8, <1>9, <1>10,
     <1>11, <1>12, <1>13

\* The client never hears a callback from work that was left behind by a
\* timeout, nor after a stop: the gates of wrap suffice for any number of
\* timeouts, of works that go on, and of rounds.
THEOREM AgentNoStray == Spec => []NoStrayCallback
<1>1. Init => Gates
  BY DEF Init, Gates
<1>2. Gates => NoStrayCallback
  BY DEF Gates, NoStrayCallback
<1> QED
  BY <1>1, <1>2, AgentTyped, GatesStep, PTL DEF Spec
-----------------------------------------------------------------------------
(* Steps: what is shown as started and not ended is the node in progress   *)
(* and its tool, and the snapshot knows the tool as the open one           *)

InProgress == IF phase = "working" THEN {node} \union ({work.tool} \ {NoStep}) ELSE {}

Steps ==
  /\ started \subseteq cut \union IF Running THEN InProgress ELSE {}
  /\ Running /\ phase = "working" /\ work.tool # NoStep
       => node = "execute_tools" /\ open = work.tool

LEMMA StepsStep == Typed /\ Steps /\ [Next]_vars => Steps'
<1> SUFFICES ASSUME Typed, Steps, [Next]_vars PROVE Steps'
  OBVIOUS
<1>0. work \in Work /\ \A w \in Work : w.tool \in Tool \union {NoStep}
  BY DEF Typed, TypeOK, Work
<1> USE Disjoint DEF Steps, Running, InProgress, StepStart, StepEnd
<1>1. CASE UNCHANGED vars
  BY <1>1 DEF vars, loopVars, stepVars
<1>2. CASE Enter
  BY <1>2 DEF Enter
<1>3. CASE Exhaust
  BY <1>3 DEF Exhaust, loopVars, stepVars
<1>b. /\ Running /\ phase = "working" => started \ {node, open} \subseteq cut
      /\ Running /\ phase # "working" => started \ {open} \subseteq cut
  <2>1. Running /\ phase = "working" => InProgress \subseteq {node, open}
    BY DEF InProgress
  <2> QED
    BY <2>1
<1>4. CASE Reject
  <2>1. started' \subseteq cut /\ cut' = cut /\ outcome' # "running"
    BY <1>4, <1>b DEF Reject
  <2> QED
    BY <1>4, <2>1 DEF Reject, loopVars
<1>5. CASE Stop
  BY <1>5 DEF Stop, loopVars, stepVars
<1>6. CASE RejectLikeAbort
  <2>1. started' \subseteq cut /\ cut' = cut /\ outcome' # "running"
    BY <1>6, <1>b DEF RejectLikeAbort
  <2> QED
    BY <1>6, <2>1 DEF RejectLikeAbort, loopVars
<1>7. CASE Token
  BY <1>7 DEF Token, loopVars, stepVars
<1>8. CASE LlmGenerate
  BY <1>8 DEF LlmGenerate, Works, loopVars
<1>9. ASSUME NEW w \in late, Late(w) PROVE Steps'
  BY <1>9 DEF Late, loopVars, stepVars
<1>10. CASE ToolBegins
  <2> PICK t \in Tool : ToolStart(t)
    BY <1>10 DEF ToolBegins
  <2>1. work'.tool = t
    BY <1>0 DEF ToolStart, Work
  <2> QED
    BY <2>1 DEF ToolStart, Works
<1>11. CASE ToolOver
  <2> PICK w : work.tool # NoStep /\ ToolEnds(w)
    BY <1>11 DEF ToolOver
  <2>1. work'.tool = NoStep
    BY TypedStep DEF ToolEnds, Typed, TypeOK, Work
  <2> QED
    BY <2>1 DEF ToolEnds, Works
<1>12. CASE NodeReturns
  BY <1>12 DEF NodeReturns, Returns, Works, Schedule
<1>13. CASE NodeDegrades
  BY <1>13 DEF NodeDegrades, Degrade, Works, Schedule
<1> QED
  BY Shapes, <1>1, <1>2, <1>3, <1>4, <1>5, <1>6, <1>7, <1>8, <1>9, <1>10,
     <1>11, <1>12, <1>13

\* When a run is over, however it ends, every step shown as started has been
\* recorded as ended, but for tools whose node timed out around them.
THEOREM AgentStepsRecorded == Spec => []StepsRecorded
<1>1. Init => Steps
  BY DEF Init, Steps, Running, InProgress
<1>2. Steps => StepsRecorded
  BY DEF Steps, StepsRecorded
<1> QED
  BY <1>1, <1>2, AgentTyped, StepsStep, PTL DEF Spec
-----------------------------------------------------------------------------
(* The scope: what acl_guard grants, or nothing, and only chunks within it *)

Scoped ==
  /\ st.scope \in {NoScope, aclGuard}
  /\ \A c \in st.chunks \union work.chunks : Readable(c)

\* whatever the stores return, the filter lets only readable chunks through
LEMMA FilterReads ==
  ASSUME req \in Requests, NEW hits \in SUBSET Chunks, NEW scope \in {NoScope, aclGuard}
  PROVE  /\ \A c \in filterChunksByAcl(hits, scope) : Readable(c)
         /\ \A c \in filterChunksByAcl(hits, whitelistScope(scope.workspaceIds)) : Readable(c)
<1>0. req \in Request /\ hits \subseteq Chunk
  BY DEF Chunk
<1>1. CASE scope = NoScope
  BY <1>1 DEF filterChunksByAcl, whitelistScope, NoScope
<1>2. CASE scope = aclGuard /\ req.bound = CompanyWorkspace
  BY <1>2 DEF filterChunksByAcl, whitelistScope, NoScope, aclGuard, Readable
<1>3. CASE scope = aclGuard /\ req.bound = NoWorkspace
  BY <1>0, <1>3 DEF filterChunksByAcl, whitelistScope, NoScope, aclGuard, Readable, Request
<1>4. CASE scope = aclGuard /\ req.bound \notin {CompanyWorkspace, NoWorkspace}
  BY <1>0, <1>4 DEF filterChunksByAcl, whitelistScope, NoScope, aclGuard, Readable, Request
<1> QED
  BY <1>1, <1>2, <1>3, <1>4

\* a node that returns keeps the scope and the chunks, or takes them from
\* what is already within the scope
LEMMA ScopedReturn ==
  ASSUME Typed, Scoped, NEW n, NEW next, NEW s, Returns(n, next, s),
         s.scope \in {NoScope, aclGuard}, s.chunks \subseteq st.chunks \union work.chunks
  PROVE  Scoped'
<1>1. st' = s /\ req' = req /\ work' = work
  BY DEF Returns
<1>2. aclGuard' = aclGuard /\ \A c : Readable(c)' = Readable(c)
  BY <1>1 DEF aclGuard, Readable
<1> QED
  BY <1>1, <1>2 DEF Scoped

LEMMA ScopedSame ==
  ASSUME Scoped, UNCHANGED req, st'.scope = st.scope, st'.chunks = st.chunks,
         \A c \in work'.chunks : Readable(c)
  PROVE  Scoped'
<1>1. aclGuard' = aclGuard /\ \A c : Readable(c)' = Readable(c)
  BY DEF aclGuard, Readable
<1> QED
  BY <1>1 DEF Scoped

LEMMA ScopedDegrade ==
  ASSUME Scoped, NEW n, NEW next, NEW timeout, Degrade(n, next, timeout),
         st'.scope = st.scope, st'.chunks = st.chunks
  PROVE  Scoped'
BY ScopedSame DEF Degrade, Scoped

LEMMA ScopedNodes ==
  ASSUME Typed, Scoped,
         \/ AclGuard \/ LoadWindow \/ QueryRewrite \/ IntentRouter \/ MemoryLoad
         \/ PlanOrAct \/ ExecuteTools \/ ToolsTimeout \/ Evaluate \/ RewriteRetrieve
         \/ Think \/ PromptBuild
  PROVE  Scoped'
<1>0. st \in AgentState /\ st.scope \in {NoScope, aclGuard}
  BY DEF Typed, TypeOK, Scoped
<1>1. ASSUME NEW n, NEW next, DegradesTo(n, next) PROVE Scoped'
  BY <1>1, ScopedDegrade DEF DegradesTo
<1>2. ASSUME NEW n, NEW next, Returns(n, next, st) PROVE Scoped'
  BY <1>0, <1>2, ScopedReturn
<1>3. CASE AclGuard
  <2>1. [st EXCEPT !.scope = aclGuard].scope = aclGuard
        /\ [st EXCEPT !.scope = aclGuard].chunks = st.chunks
    BY <1>0 DEF AgentState
  <2> QED
    BY <1>1, <1>3, <2>1, ScopedReturn DEF AclGuard
<1>4. CASE IntentRouter
  <2>1. \A i, c : Routed(i, c).scope = st.scope /\ Routed(i, c).chunks = st.chunks
    BY <1>0 DEF Routed, AgentState
  <2> QED
    BY <1>0, <1>4, <2>1, ScopedReturn, ScopedDegrade DEF IntentRouter
<1>5. CASE PlanOrAct
  <2>1. \A tools : [st EXCEPT !.pending = tools].scope = st.scope
                   /\ [st EXCEPT !.pending = tools].chunks = st.chunks
    BY <1>0 DEF AgentState
  <2> QED
    BY <1>0, <1>1, <1>5, <2>1, ScopedReturn DEF PlanOrAct
<1>6. CASE ExecuteTools
  <2> DEFINE s == [st EXCEPT !.chunks = work.chunks, !.strong = work.strong,
                     !.graph = work.graph, !.web = work.web, !.pending = {},
                     !.searches = IF work.searched THEN @ + 1 ELSE @]
  <2>1. s.scope = st.scope /\ s.chunks = work.chunks
    BY <1>0 DEF AgentState
  <2>2. Returns("execute_tools", "evaluate", s)
    BY <1>6 DEF ExecuteTools
  <2> QED
    BY <1>0, <2>1, <2>2, ScopedReturn
<1>7. CASE ToolsTimeout
  BY <1>7, ScopedDegrade DEF ToolsTimeout
<1>8. CASE Evaluate
  <2>1. \A g : Evaluated(g).scope = st.scope /\ Evaluated(g).chunks = st.chunks
    BY <1>0 DEF Evaluated, AgentState
  <2> QED
    BY <1>0, <1>1, <1>8, <2>1, ScopedReturn DEF Evaluate
<1>9. CASE RewriteRetrieve
  <2>1. [st EXCEPT !.iteration = @ + 1, !.pending = Wanted].scope = st.scope
        /\ [st EXCEPT !.iteration = @ + 1, !.pending = Wanted].chunks = st.chunks
    BY <1>0 DEF AgentState
  <2> QED
    BY <1>0, <1>1, <1>9, <2>1, ScopedReturn DEF RewriteRetrieve
<1>10. CASE LoadWindow \/ QueryRewrite \/ MemoryLoad \/ Think \/ PromptBuild
  BY <1>1, <1>2, <1>10 DEF LoadWindow, QueryRewrite, MemoryLoad, Think, PromptBuild
<1> QED
  BY <1>3, <1>4, <1>5, <1>6, <1>7, <1>8, <1>9, <1>10

LEMMA ScopedTools ==
  ASSUME Typed, Scoped,
         (\E t \in Tool : ToolStart(t)) \/ KbRetrieve \/ GraphReason \/ WebSearch \/ ToolFails
  PROVE  Scoped'
<1>0. /\ work \in Work /\ req \in Requests /\ st.scope \in {NoScope, aclGuard}
      /\ \A c \in work.chunks : Readable(c)
  BY DEF Typed, TypeOK, Scoped
<1>1. ASSUME NEW w \in Work, ToolEnds(w),
             \A c \in w.chunks : Readable(c)
      PROVE  Scoped'
  <2>1. work'.chunks = w.chunks
    BY <1>1 DEF ToolEnds, Work
  <2> QED
    BY <1>1, <2>1, ScopedSame DEF ToolEnds
<1>2. ASSUME NEW t \in Tool, ToolStart(t) PROVE Scoped'
  <2>1. work'.chunks = work.chunks
    BY <1>0, <1>2 DEF ToolStart, Work
  <2> QED
    BY <1>0, <1>2, <2>1, ScopedSame DEF ToolStart
<1>3. CASE KbRetrieve
  <2> PICK hits \in SUBSET Chunks, strong \in BOOLEAN :
        ToolEnds([work EXCEPT !.chunks = filterChunksByAcl(hits, st.scope), !.strong = strong])
    BY <1>3 DEF KbRetrieve
  <2> DEFINE w == [work EXCEPT !.chunks = filterChunksByAcl(hits, st.scope), !.strong = strong]
  <2>1. w \in Work /\ w.chunks = filterChunksByAcl(hits, st.scope)
    BY <1>0, FilterKeeps DEF Work
  <2>2. \A c \in w.chunks : Readable(c)
    BY <1>0, <2>1, FilterReads
  <2> QED
    BY <1>1, <2>1, <2>2
<1>4. CASE GraphReason
  <2>1. CASE ToolEnds([work EXCEPT !.graph = FALSE])
    <3>1. /\ [work EXCEPT !.graph = FALSE] \in Work
          /\ [work EXCEPT !.graph = FALSE].chunks = work.chunks
      BY <1>0 DEF Work
    <3> QED
      BY <1>0, <1>1, <2>1, <3>1
  <2>2. ASSUME NEW hits \in SUBSET Chunks, NEW paths \in BOOLEAN,
               ToolEnds([work EXCEPT !.graph = paths,
                 !.chunks = @ \union
                   filterChunksByAcl(hits, whitelistScope(st.scope.workspaceIds))])
        PROVE  Scoped'
    <3> DEFINE found == filterChunksByAcl(hits, whitelistScope(st.scope.workspaceIds))
               w == [work EXCEPT !.graph = paths, !.chunks = @ \union found]
    <3>1. w \in Work /\ w.chunks = work.chunks \union found
      BY <1>0, FilterKeeps DEF Work
    <3>2. \A c \in w.chunks : Readable(c)
      BY <1>0, <3>1, FilterReads
    <3> QED
      BY <1>1, <2>2, <3>1, <3>2
  <2> QED
    BY <1>4, <2>1, <2>2 DEF GraphReason
<1>5. CASE WebSearch
  <2>1. \A hits : [work EXCEPT !.web = hits, !.searched = TRUE].chunks = work.chunks
    BY <1>0 DEF Work
  <2>2. \A hits \in BOOLEAN : [work EXCEPT !.web = hits, !.searched = TRUE] \in Work
    BY <1>0 DEF Work
  <2>3. st.web \in BOOLEAN
    BY DEF Typed, TypeOK, AgentState
  <2> QED
    BY <1>0, <1>1, <1>5, <2>1, <2>2, <2>3 DEF WebSearch
<1>6. CASE ToolFails
  BY <1>0, <1>1, <1>6 DEF ToolFails
<1> QED
  BY <1>2, <1>3, <1>4, <1>5, <1>6

LEMMA ScopedStep == Typed /\ Scoped /\ [Next]_vars => Scoped'
<1> SUFFICES ASSUME Typed, Scoped, [Next]_vars PROVE Scoped'
  OBVIOUS
<1>1. (\A c \in work.chunks : Readable(c)) /\ (\A c \in st.chunks : Readable(c))
  BY DEF Scoped
<1>2. CASE UNCHANGED <<req, st, work>>
  BY <1>1, <1>2, ScopedSame
<1>3. CASE Enter
  <2>1. work'.chunks = st.chunks
    BY <1>3 DEF Enter
  <2> QED
    BY <1>1, <1>3, <2>1, ScopedSame DEF Enter
<1>4. CASE Exhaust \/ Reject \/ Stop \/ RejectLikeAbort \/ Token \/ LlmGenerate
  BY <1>2, <1>4 DEF Exhaust, Reject, Stop, RejectLikeAbort, Token, LlmGenerate, loopVars
<1>5. ASSUME NEW w \in late, Late(w) PROVE Scoped'
  BY <1>2, <1>5 DEF Late, loopVars
<1>6. UNCHANGED vars => UNCHANGED <<req, st, work>>
  BY DEF vars, loopVars
<1> QED
  BY <1>2, <1>3, <1>4, <1>5, <1>6, ScopedNodes, ScopedTools DEF Next, Advance, Execute

\* No chunk outside the request's scope is ever evidence: acl_guard's scope,
\* or the default that allows nothing when it degrades, and the filters after
\* each tool suffice whatever the stores return.
THEOREM AgentScope == Spec => []ScopeRespected
<1>1. Init => Scoped
  BY DEF Init, InitialState, Scoped
<1>2. Scoped => ScopeRespected
  BY DEF Scoped, ScopeRespected
<1> QED
  BY <1>1, <1>2, AgentTyped, ScopedStep, PTL DEF Spec
-----------------------------------------------------------------------------
(* The web: wherever a web search is still to come, the intent allows it.  *)
(* Until the router has spoken the intent is kb, so nothing is on its way  *)
(* to the web that a later routing could make illegitimate.                *)

WebMeant == st.intent \in {"web", "kb_then_web"} /\ WebEnabled
Unrouted == node \in {"acl_guard", "load_window", "query_rewrite", "intent_router"}

WebKept ==
  /\ "web_search" \in st.pending \union st.available \union work.todo => WebMeant
  /\ work.tool = "web_search" => WebMeant
  /\ \A w \in late : "web_search" \in w.todo => WebMeant
  /\ webCalls > 0 => WebMeant
  /\ Unrouted => st.intent = "kb"

\* the state a routed node may leave behind
KeepsWeb(s) ==
  /\ s.intent = st.intent
  /\ "web_search" \in s.pending \union s.available => WebMeant

LEMMA WebReturn ==
  ASSUME Typed, WebKept, NEW n \in Node, NEW next \in Node, NEW s,
         Returns(n, next, s), KeepsWeb(s),
         next \in {"acl_guard", "load_window", "query_rewrite", "intent_router"}
           => n \in {"acl_guard", "load_window", "query_rewrite", "intent_router"}
  PROVE  WebKept'
<1>1. st' = s /\ node = n /\ node' = next /\ UNCHANGED <<work, late, webCalls>>
  BY DEF Returns, Works, Schedule
<1>2. WebMeant' = WebMeant
  BY <1>1 DEF WebMeant, KeepsWeb
<1> QED
  BY <1>1, <1>2 DEF WebKept, KeepsWeb, Unrouted

LEMMA WebDegrade ==
  ASSUME Typed, WebKept, NEW n \in Node, NEW next \in Node, NEW timeout \in BOOLEAN,
         Degrade(n, next, timeout), UNCHANGED st,
         next \in {"acl_guard", "load_window", "query_rewrite", "intent_router"}
           => n \in {"acl_guard", "load_window", "query_rewrite", "intent_router"}
  PROVE  WebKept'
<1>1. node = n /\ node' = next /\ UNCHANGED <<work, webCalls>>
  BY DEF Degrade, Works, Schedule
<1>2. \A w \in late' : w \in late \/ w.todo \subseteq work.todo
  BY DEF Degrade, LeftBehind
<1> QED
  BY <1>1, <1>2 DEF WebKept, WebMeant, Unrouted

LEMMA WebRoute ==
  ASSUME Typed, WebKept, IntentRouter
  PROVE  WebKept'
<1>0. st \in AgentState /\ webCalls \in Nat /\ node = "intent_router"
  BY DEF Typed, TypeOK, IntentRouter, Returns, Degrade, Works
<1>1. ~WebMeant
  BY <1>0 DEF WebKept, Unrouted, WebMeant
<1>2. /\ "web_search" \notin work.todo /\ work.tool # "web_search" /\ webCalls = 0
      /\ \A w \in late : "web_search" \notin w.todo
  BY <1>0, <1>1 DEF WebKept
<1>3. \E intent \in Intent : \E c : st' = Routed(intent, c)
  BY IntentsKnown DEF IntentRouter, Returns
<1> PICK intent \in Intent : \E c : st' = Routed(intent, c)
  BY <1>3
<1> PICK c : st' = Routed(intent, c)
  OBVIOUS
<1>4. "web_search" \in st'.pending \union st'.available => WebMeant'
  <2>1. \A g : /\ "web_search" \in toolsForIntent(intent, g)
                    => intent \in {"web", "kb_then_web"} /\ WebEnabled
               /\ "web_search" \in initialToolsForIntent(intent, g, c)
                    => intent \in {"web", "kb_then_web"} /\ WebEnabled
    BY ToolsOfIntent
  <2>2. /\ st'.intent = intent
        /\ \E g : /\ st'.available = toolsForIntent(intent, g)
                  /\ st'.pending = initialToolsForIntent(intent, g, c)
    BY <1>0 DEF Routed, AgentState
  <2> QED
    BY <2>1, <2>2 DEF WebMeant
<1>5. UNCHANGED <<work, webCalls>> /\ node' = "memory_load"
  BY DEF IntentRouter, Returns, Degrade, Schedule
<1>6. \A w \in late' : "web_search" \notin w.todo
  <2>1. LeftBehind.todo \subseteq work.todo
    BY DEF LeftBehind
  <2>2. late' \subseteq late \union {LeftBehind}
    BY DEF IntentRouter, Returns, Degrade
  <2> QED
    BY <1>2, <2>1, <2>2
<1> QED
  BY <1>2, <1>4, <1>5, <1>6 DEF WebKept, Unrouted

LEMMA WebNodes ==
  ASSUME Typed, WebKept,
         \/ AclGuard \/ LoadWindow \/ QueryRewrite \/ MemoryLoad \/ PlanOrAct
         \/ ExecuteTools \/ ToolsTimeout \/ Evaluate \/ RewriteRetrieve
         \/ Think \/ PromptBuild
  PROVE  WebKept'
<1>0. /\ st \in AgentState /\ KeepsWeb(st)
      /\ Prelude \subseteq Node /\ Loop \subseteq Node /\ Coda \subseteq Node
  BY DEF Typed, TypeOK, WebKept, KeepsWeb, Node
<1> DEFINE Early == {"acl_guard", "load_window", "query_rewrite", "intent_router"}
<1>1. ASSUME NEW n \in Node, NEW next \in Node, DegradesTo(n, next),
             next \in Early => n \in Early
      PROVE  WebKept'
  BY <1>1, WebDegrade DEF DegradesTo
<1>2. ASSUME NEW n \in Node, NEW next \in Node, NEW s, Returns(n, next, s), KeepsWeb(s),
             next \in Early => n \in Early
      PROVE  WebKept'
  BY <1>2, WebReturn
<1> USE DEF Prelude, Loop, Coda
<1>3. CASE AclGuard
  <2>1. KeepsWeb([st EXCEPT !.scope = aclGuard])
    BY <1>0 DEF KeepsWeb, AgentState
  <2> QED
    BY <1>0, <1>1, <1>2, <1>3, <2>1 DEF AclGuard
<1>4. CASE LoadWindow \/ QueryRewrite \/ MemoryLoad
  BY <1>0, <1>1, <1>2, <1>4 DEF LoadWindow, QueryRewrite, MemoryLoad
<1>5. CASE Think \/ PromptBuild
  BY <1>0, <1>1, <1>2, <1>5 DEF Think, PromptBuild
<1>6. "web_search" \in Wanted => WebMeant
  BY <1>0, ToolsOfIntent DEF Wanted, WebMeant, AgentState
<1>7. CASE PlanOrAct
  <2>1. ASSUME NEW tools \in planOrAct PROVE "web_search" \in tools => WebMeant
    BY <1>0, <1>6, <2>1 DEF planOrAct, KeepsWeb
  <2>2. \A tools \in planOrAct : KeepsWeb([st EXCEPT !.pending = tools])
    BY <1>0, <2>1 DEF KeepsWeb, AgentState
  <2>3. \A s : AfterPlan(s) \in {"execute_tools", "think"}
    BY DEF AfterPlan
  <2> QED
    BY <1>0, <1>1, <1>2, <1>7, <2>2, <2>3 DEF PlanOrAct
<1>8. CASE ExecuteTools
  <2> DEFINE s == [st EXCEPT !.chunks = work.chunks, !.strong = work.strong,
                     !.graph = work.graph, !.web = work.web, !.pending = {},
                     !.searches = IF work.searched THEN @ + 1 ELSE @]
  <2>1. s.intent = st.intent /\ s.pending = {} /\ s.available = st.available
    BY <1>0 DEF AgentState
  <2>2. KeepsWeb(s)
    BY <1>0, <2>1 DEF KeepsWeb
  <2>3. Returns("execute_tools", "evaluate", s)
    BY <1>8 DEF ExecuteTools
  <2> QED
    BY <1>0, <1>2, <2>2, <2>3
<1>9. CASE ToolsTimeout
  BY <1>0, <1>9, WebDegrade DEF ToolsTimeout
<1>10. \A s : afterEvaluate(s) \in {"think", "execute_tools", "rewrite_retrieve"}
  BY DEF afterEvaluate
<1>11. CASE Evaluate
  <2>1. \A g : KeepsWeb(Evaluated(g))
    BY <1>0 DEF KeepsWeb, Evaluated, AgentState, WebMeant
  <2> QED
    BY <1>0, <1>1, <1>2, <1>10, <1>11, <2>1 DEF Evaluate
<1>12. CASE RewriteRetrieve
  <2>1. KeepsWeb([st EXCEPT !.iteration = @ + 1, !.pending = Wanted])
    BY <1>0, <1>6 DEF KeepsWeb, AgentState
  <2> QED
    BY <1>0, <1>1, <1>2, <1>12, <2>1 DEF RewriteRetrieve
<1> QED
  BY <1>3, <1>4, <1>5, <1>7, <1>8, <1>9, <1>11, <1>12

LEMMA WebStarts ==
  ASSUME Typed, WebKept, NEW t \in Tool, ToolStart(t)
  PROVE  WebKept'
<1>0. work \in Work /\ UNCHANGED <<st, node, late>> /\ webCalls \in Nat
  BY DEF Typed, TypeOK, ToolStart
<1>1. WebMeant' = WebMeant /\ Unrouted' = Unrouted
  BY <1>0 DEF WebMeant, Unrouted
<1>2. work'.todo \subseteq work.todo /\ work'.tool = t /\ t \in work.todo
  BY <1>0 DEF ToolStart, Work
<1>3. webCalls' > 0 => webCalls > 0 \/ t = "web_search"
  BY <1>0 DEF ToolStart
<1> QED
  BY <1>0, <1>1, <1>2, <1>3 DEF WebKept

LEMMA WebEnds ==
  ASSUME Typed, WebKept, KbRetrieve \/ GraphReason \/ WebSearch \/ ToolFails
  PROVE  WebKept'
<1>0. work \in Work
  BY DEF Typed, TypeOK
<1>1. ASSUME NEW w, w.todo = work.todo, DOMAIN w = DOMAIN work,
             w = [x \in DOMAIN w |-> w[x]], ToolEnds(w)
      PROVE  WebKept'
  <2>1. work'.todo = work.todo /\ work'.tool = NoStep
    BY <1>0, <1>1 DEF ToolEnds, Work
  <2>2. UNCHANGED <<st, node, late, webCalls>>
    BY <1>1 DEF ToolEnds
  <2>3. WebMeant' = WebMeant /\ Unrouted' = Unrouted
    BY <2>2 DEF WebMeant, Unrouted
  <2> QED
    BY <2>1, <2>2, <2>3 DEF WebKept, NoStep
<1>2. CASE KbRetrieve
  BY <1>0, <1>1, <1>2 DEF KbRetrieve, Work
<1>3. CASE GraphReason
  BY <1>0, <1>1, <1>3 DEF GraphReason, Work
<1>4. CASE WebSearch
  BY <1>0, <1>1, <1>4 DEF WebSearch, Work
<1>5. CASE ToolFails
  BY <1>0, <1>1, <1>5 DEF ToolFails, Work
<1> QED
  BY <1>2, <1>3, <1>4, <1>5

LEMMA WebStep == Typed /\ WebKept /\ [Next]_vars => WebKept'
<1> SUFFICES ASSUME Typed, WebKept, [Next]_vars PROVE WebKept'
  OBVIOUS
<1>0. st \in AgentState /\ work \in Work /\ webCalls \in Nat
  BY DEF Typed, TypeOK
<1>1. ASSUME UNCHANGED <<st, node>>, work'.todo \subseteq work.todo \union st.pending,
             work'.tool \in {work.tool, NoStep}, webCalls' > 0 => WebMeant,
             \A w \in late' : "web_search" \in w.todo => WebMeant
      PROVE  WebKept'
  <2>1. WebMeant' = WebMeant /\ Unrouted' = Unrouted
    BY <1>1 DEF WebMeant, Unrouted
  <2> QED
    BY <1>1, <2>1 DEF WebKept, NoStep
<1>2. CASE Enter
  <2>1. work'.todo \subseteq st.pending /\ work'.tool = NoStep
    BY <1>2 DEF Enter
  <2> QED
    BY <1>1, <1>2, <2>1 DEF Enter, WebKept
<1>3. CASE Reject
  <2>1. \A w \in late' : w \in late \/ w.todo \subseteq work.todo
    BY <1>3 DEF Reject, LeftBehind
  <2> QED
    BY <1>1, <1>3, <2>1 DEF Reject, loopVars, WebKept
<1>4. CASE Exhaust \/ Stop \/ RejectLikeAbort \/ Token \/ LlmGenerate \/ UNCHANGED vars
  <2>1. UNCHANGED <<st, node, work, late, webCalls>>
    BY <1>4 DEF Exhaust, Stop, RejectLikeAbort, Token, LlmGenerate, vars, loopVars
  <2> QED
    BY <1>1, <2>1 DEF WebKept
<1>5. ASSUME NEW w \in late, Late(w) PROVE WebKept'
  <2>0. late \subseteq LateWork
    BY DEF Typed, TypeOK
  <2>1. \A v \in late' : v \in late \/ v.todo \subseteq w.todo
    BY <1>5, <2>0 DEF Late, LateWork
  <2>2. webCalls' > 0 => webCalls > 0 \/ "web_search" \in w.todo
    BY <1>0, <1>5 DEF Late
  <2>3. UNCHANGED <<st, node, work>>
    BY <1>5 DEF Late, loopVars
  <2> QED
    BY <1>1, <1>5, <2>1, <2>2, <2>3 DEF WebKept
<1> QED
  BY <1>2, <1>3, <1>4, <1>5, WebNodes, WebRoute, WebStarts, WebEnds
  DEF Next, Advance, Execute

\* A question that the router does not take for one about the web is never
\* sent there: in no round, however often the planner chooses its tools, and
\* by no tool of a node that timed out before.
THEOREM AgentPrivate == Spec => []PrivateStaysInside
<1>1. Init => WebKept
  BY DEF Init, InitialState, WebKept, NoStep
<1>2. WebKept => PrivateStaysInside
  BY DEF WebKept, WebMeant, PrivateStaysInside
<1> QED
  BY <1>1, <1>2, AgentTyped, WebStep, PTL DEF Spec
=============================================================================
