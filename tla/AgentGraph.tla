----------------------------- MODULE AgentGraph -----------------------------
(***************************************************************************)
(* agent.service.ts: one run of the LangGraph agent, from acl_guard to     *)
(* llm_generate.  A node is entered, works, and then ends in one of four   *)
(* ways: its work returns; its work throws or its 60 s are over, and the   *)
(* run goes on degraded; or the user has stopped the run.  JavaScript      *)
(* cannot cancel the work of a node that is left behind: it goes on, and   *)
(* only its gate keeps its callbacks from the client.                      *)
(* Data is abstracted to what routing and access look at; queries,         *)
(* prompts, traces and latencies are left out.  LangGraph's recursion      *)
(* limit and the cancellation signal are external.                         *)
(***************************************************************************)
EXTENDS AgentRules, FiniteSets

CONSTANTS NoWorkspace,       \* the conversation is bound to no workspace
          CompanyWorkspace,  \* the company's public workspace; no chunk has its id
          Requests,          \* the requests that are made
          RecursionLimit,    \* 25 in LangGraph: nodes that a run may enter
          MaxFaults          \* bound: nodes and tools of a run that fail

\* bound: the conversation's workspace; member: the user's whitelist
Request == [bound : Workspaces \union {NoWorkspace, CompanyWorkspace},
            enableGraph : BOOLEAN, member : SUBSET Workspaces]

ASSUME GraphAssumption ==
  /\ Requests \subseteq Request
  /\ NoWorkspace \notin Workspaces
  /\ CompanyWorkspace \notin Workspaces
  /\ CompanyWorkspace # NoWorkspace
  /\ RecursionLimit \in Nat
  /\ MaxFaults \in Nat

VARIABLES
  req,      \* the request
  st,       \* the AgentState of LangGraph
  node,     \* the node that runs, or is scheduled
  phase,    \* "ready": scheduled; "working": entered
  entered,  \* nodes entered so far; also names the gate of the latest one
  work,     \* the local variables of execute_tools
  late,     \* works left behind by a timeout or a stop
  closed,   \* gates that are closed
  aborted,  \* the signal: the user has stopped the run
  outcome,  \* how agent.run has ended
  started,  \* steps shown as started and not recorded as ended (RunSnapshot)
  open,     \* RunSnapshot.open
  cut,      \* tools whose node timed out in the middle of them
  webCalls, \* queries sent to the web search
  stray,    \* a callback came from work that should have been silent
  faults    \* failures so far

loopVars  == <<req, st, node, phase, entered, work>>
stepVars  == <<started, open, cut>>
vars == <<loopVars, late, closed, aborted, outcome, stepVars, webCalls, stray, faults>>

Prelude == {"acl_guard", "load_window", "query_rewrite", "intent_router", "memory_load"}
Loop    == {"plan_or_act", "execute_tools", "evaluate", "rewrite_retrieve"}
Coda    == {"think", "prompt_build", "llm_generate"}
Node    == Prelude \union Loop \union Coda
NoStep  == "none"

AgentState == [scope : Scope, intent : Intent, available : SUBSET Tool,
               pending : SUBSET Tool, complex : BOOLEAN, iteration : 0..MaxIterations,
               grade : Grade, chunks : SUBSET Chunks, strong : BOOLEAN,
               graph : BOOLEAN, web : BOOLEAN, searches : Nat]
\* searched: web_search has left a trace; called: it went to the network
Work == [todo : SUBSET Tool, tool : Tool \union {NoStep}, chunks : SUBSET Chunks,
         strong : BOOLEAN, graph : BOOLEAN, web : BOOLEAN, searched : BOOLEAN]
LateWork == [gate : 1..RecursionLimit, todo : SUBSET Tool, used : Nat]

\* Every variable stays in its type; iteration never exceeds maxIterations.
TypeOK ==
  /\ req \in Requests
  /\ st \in AgentState
  /\ node \in Node
  /\ phase \in {"ready", "working"}
  /\ entered \in 0..RecursionLimit
  /\ phase = "working" => entered > 0
  /\ work \in Work
  /\ late \subseteq LateWork
  /\ closed \subseteq 1..RecursionLimit
  /\ aborted \in BOOLEAN
  /\ outcome \in {"running", "returned", "aborted", "exhausted"}
  /\ started \subseteq Node \union Tool
  /\ open \in Node \union Tool \union {NoStep}
  /\ cut \subseteq Tool
  /\ webCalls \in Nat
  /\ stray \in BOOLEAN
  /\ faults \in 0..MaxFaults

InitialState ==
  [scope |-> NoScope, intent |-> "kb", available |-> {}, pending |-> {},
   complex |-> FALSE, iteration |-> 0, grade |-> "sufficient", chunks |-> {},
   strong |-> FALSE, graph |-> FALSE, web |-> FALSE, searches |-> 0]

Init ==
  /\ req \in Requests
  /\ st = InitialState
  /\ node = "acl_guard" /\ phase = "ready" /\ entered = 0
  /\ work = [todo |-> {}, tool |-> NoStep, chunks |-> {}, strong |-> FALSE,
             graph |-> FALSE, web |-> FALSE, searched |-> FALSE]
  /\ late = {} /\ closed = {}
  /\ aborted = FALSE /\ outcome = "running"
  /\ started = {} /\ open = NoStep /\ cut = {}
  /\ webCalls = 0 /\ stray = FALSE /\ faults = 0

Running   == outcome = "running"
Fault     == faults < MaxFaults /\ faults' = faults + 1
NoFault   == UNCHANGED faults
Works(n) == Running /\ node = n /\ phase = "working" /\ ~aborted
-----------------------------------------------------------------------------
(* wrap: gates and steps *)

\* a gated callback of the work with this gate
Emits(gate) ==
  stray' = (stray \/ (gate \notin closed /\ (aborted \/ gate # entered \/ ~Running)))

StepStart(s) == open' = s /\ started' = started \union {s}
StepEnd(s)   == open' = (IF open = s THEN NoStep ELSE open) /\ started' = started \ {s}

\* the work of the current node, from now on nobody's
LeftBehind == [gate |-> entered, todo |-> IF node = "execute_tools" THEN work.todo ELSE {},
               used |-> st.searches]

\* the node has ended; the graph schedules n
Schedule(n) == node' = n /\ phase' = "ready"

\* a node is entered, unless the user has stopped, or the limit is reached
Enter ==
  /\ Running /\ phase = "ready" /\ ~aborted /\ entered < RecursionLimit
  /\ phase' = "working"
  /\ entered' = entered + 1
  /\ StepStart(node)
  /\ work' = [todo |-> {t \in st.pending : /\ t = "graph_reason" => allowsGraph(st.intent)
                                           /\ t \in st.available \/ t = "web_search"},
              tool |-> NoStep, chunks |-> st.chunks, strong |-> st.strong,
              graph |-> st.graph, web |-> st.web, searched |-> FALSE]
  /\ UNCHANGED <<req, st, node, late, closed, aborted, outcome, cut, webCalls, stray, faults>>

\* LangGraph gives up; the run rejects with an error
Exhaust ==
  /\ Running /\ phase = "ready" /\ ~aborted /\ entered = RecursionLimit
  /\ outcome' = "exhausted"
  /\ UNCHANGED <<loopVars, late, closed, aborted, stepVars, webCalls, stray, faults>>

\* abort(): onAbort closes the gate of the node that works
Stop ==
  /\ Running /\ ~aborted
  /\ aborted' = TRUE
  /\ closed' = IF phase = "working" THEN closed \union {entered} ELSE closed
  /\ UNCHANGED <<loopVars, late, outcome, stepVars, webCalls, stray, faults>>

\* mutant of Reject: the snapshot is kept as it is
RejectUnflushed ==
  /\ Running /\ aborted
  /\ outcome' = "aborted"
  /\ late' = IF phase = "working" THEN late \union {LeftBehind} ELSE late
  /\ IF phase = "working" THEN StepEnd(node) ELSE UNCHANGED <<started, open>>
  /\ UNCHANGED <<loopVars, closed, aborted, cut, webCalls, stray, faults>>

\* raceSignal rejects, or the next node throws at once; wrap ends the step
\* and the controller flushes the one its snapshot still has open
Reject ==
  /\ Running /\ aborted
  /\ outcome' = "aborted"
  /\ late' = IF phase = "working" THEN late \union {LeftBehind} ELSE late
  /\ started' = IF phase = "working" THEN started \ {node, open} ELSE started \ {open}
  /\ open' = NoStep
  /\ UNCHANGED <<loopVars, closed, aborted, cut, webCalls, stray, faults>>

\* an error whose text mentions an abort is taken for a stop
RejectLikeAbort ==
  /\ Running /\ phase = "working" /\ ~aborted /\ Fault
  /\ node # "prompt_build" /\ (node = "execute_tools" => work.tool # NoStep)
  /\ closed' = closed \union {entered}
  /\ outcome' = "aborted"
  /\ started' = started \ {node, open}
  /\ open' = NoStep
  /\ UNCHANGED <<loopVars, late, aborted, cut, webCalls, stray>>

\* what is left behind goes on: it calls back, and execute_tools starts its
\* next tool unless the run was stopped
Late(w) ==
  /\ w \in late
  /\ Emits(w.gate)
  /\ \/ \E t \in w.todo :
          /\ ~aborted
          /\ late' = (late \ {w}) \union {[w EXCEPT !.todo = @ \ {t}]}
          /\ webCalls' = IF t = "web_search" /\ WebEnabled /\ w.used < MaxIterations
                           THEN webCalls + 1 ELSE webCalls
     \/ late' = late \ {w} /\ UNCHANGED webCalls
  /\ UNCHANGED <<loopVars, closed, aborted, outcome, stepVars, faults>>
-----------------------------------------------------------------------------
(* wrap: the work returns, or does not *)

\* mutant of Degrade: the gate of a node that has timed out stays open
DegradeOpen(n, next, timeout) ==
  /\ Works(n) /\ Fault
  /\ Schedule(next)
  /\ StepEnd(n)
  /\ late' = IF timeout THEN late \union {LeftBehind} ELSE late
  /\ UNCHANGED <<req, st, entered, work, closed, aborted, outcome, webCalls, stray>>

Returns(n, next, s) ==
  /\ Works(n) /\ Emits(entered)
  /\ st' = s
  /\ Schedule(next)
  /\ StepEnd(n)
  /\ UNCHANGED <<req, entered, work, late, closed, aborted, outcome, cut, webCalls, faults>>

\* the node throws, or times out and leaves its work behind
Degrade(n, next, timeout) ==
  /\ Works(n) /\ Fault
  /\ Schedule(next)
  /\ StepEnd(n)
  /\ closed' = closed \union {entered}
  /\ late' = IF timeout THEN late \union {LeftBehind} ELSE late
  /\ UNCHANGED <<req, entered, work, aborted, outcome, webCalls, stray>>

\* a degraded node changes nothing in the state
DegradesTo(n, next) ==
  /\ \E timeout \in BOOLEAN : Degrade(n, next, timeout)
  /\ UNCHANGED <<st, cut>>
-----------------------------------------------------------------------------
(* the prelude *)

\* mutant of aclGuard: a bound workspace does not narrow the whitelist
aclGuardWide ==
  IF req.bound = CompanyWorkspace
    THEN [NoScope EXCEPT !.companyPublicOnly = TRUE]
    ELSE [NoScope EXCEPT !.workspaceIds = req.member,
                         !.includeCompanyPublic = (req.bound = NoWorkspace)]

aclGuard ==
  IF req.bound = CompanyWorkspace
    THEN [NoScope EXCEPT !.companyPublicOnly = TRUE]
    ELSE IF req.bound # NoWorkspace
      THEN [NoScope EXCEPT !.workspaceIds = req.member \intersect {req.bound}]
      ELSE [NoScope EXCEPT !.workspaceIds = req.member, !.includeCompanyPublic = TRUE]

AclGuard ==
  \/ Returns("acl_guard", "load_window", [st EXCEPT !.scope = aclGuard])
  \/ DegradesTo("acl_guard", "load_window")

\* these fill the window, the memories and the query
LoadWindow ==
  \/ Returns("load_window", "query_rewrite", st)
  \/ DegradesTo("load_window", "query_rewrite")
QueryRewrite ==
  \/ Returns("query_rewrite", "intent_router", st)
  \/ DegradesTo("query_rewrite", "intent_router")
MemoryLoad ==
  LET next == IF skipsRetrieve(st.intent) THEN "think" ELSE "plan_or_act" IN
  Returns("memory_load", next, st) \/ DegradesTo("memory_load", next)

Routed(intent, complex) ==
  LET graph == allowsGraph(intent) /\ req.enableGraph IN
  [st EXCEPT !.intent = intent, !.complex = complex,
             !.available = toolsForIntent(intent, graph),
             !.pending = initialToolsForIntent(intent, graph, complex)]

\* the router's answer, or intentRouterFallback
IntentRouter ==
  \/ \E intent \in parseIntentJson, two \in BOOLEAN :
       Returns("intent_router", "memory_load", Routed(intent, complexityFromIntent(intent, two)))
  \/ /\ \E timeout \in BOOLEAN : Degrade("intent_router", "memory_load", timeout)
     /\ \E intent \in inferIntentFallback : st' = Routed(intent, FALSE)
     /\ UNCHANGED cut
-----------------------------------------------------------------------------
(* the loop *)

Wanted == initialToolsForIntent(st.intent, req.enableGraph, st.complex)

\* the planner's tools in the first round; later those the model names, or
\* when it names none, or fails, the ones that are pending, or the usual ones
planOrAct ==
  LET mayUse(tools) == {t \in tools : t = "graph_reason" => allowsGraph(st.intent)}
      fallback == IF st.pending # {} THEN mayUse(st.pending) ELSE Wanted
  IN IF st.pending # {} /\ st.iteration = 0 THEN {mayUse(st.pending)}
     ELSE IF st.available = {} THEN {{}}
     ELSE {fallback} \union {mayUse(tools) : tools \in (SUBSET st.available) \ {{}}}

AfterPlan(s) == IF s.pending # {} THEN "execute_tools" ELSE "think"

PlanOrAct ==
  \/ \E tools \in planOrAct :
       LET s == [st EXCEPT !.pending = tools] IN Returns("plan_or_act", AfterPlan(s), s)
  \/ DegradesTo("plan_or_act", AfterPlan(st))

\* a tool begins
ToolStart(t) ==
  /\ Works("execute_tools") /\ work.tool = NoStep /\ t \in work.todo
  /\ work' = [work EXCEPT !.todo = @ \ {t}, !.tool = t]
  /\ StepStart(t) /\ Emits(entered)
  /\ webCalls' = IF t = "web_search" /\ WebEnabled /\ st.searches < MaxIterations
                   THEN webCalls + 1 ELSE webCalls
  /\ UNCHANGED <<req, st, node, phase, entered, late, closed, aborted, outcome, cut, faults>>

\* a tool ends with this state of the local variables
ToolEnds(w) ==
  /\ Works("execute_tools")
  /\ work' = [w EXCEPT !.tool = NoStep]
  /\ StepEnd(work.tool) /\ Emits(entered)
  /\ UNCHANGED <<req, st, node, phase, entered, late, closed, aborted, outcome, cut, webCalls>>

\* what the retrieval returns is filtered once more; scores are missing when
\* the reranker was down
KbRetrieve ==
  /\ work.tool = "kb_retrieve" /\ NoFault
  /\ \E hits \in SUBSET Chunks, strong \in BOOLEAN :
       LET kept == filterChunksByAcl(hits, st.scope) IN
       /\ strong => kept # {}
       /\ ToolEnds([work EXCEPT !.chunks = kept, !.strong = strong])

\* runGraphReason: paths, and the chunks of their entities behind the others
GraphReason ==
  /\ work.tool = "graph_reason" /\ NoFault
  /\ \/ ToolEnds([work EXCEPT !.graph = FALSE])
     \/ /\ st.scope.workspaceIds # {}
        /\ \E hits \in SUBSET Chunks, paths \in BOOLEAN :
             ToolEnds([work EXCEPT !.graph = paths,
               !.chunks = @ \union filterChunksByAcl(hits, whitelistScope(st.scope.workspaceIds))])

\* web_search answers with hits or none; at the limit it keeps the old ones
WebSearch ==
  /\ work.tool = "web_search" /\ NoFault
  /\ \E hits \in IF WebEnabled /\ st.searches < MaxIterations THEN BOOLEAN ELSE {st.web} :
       ToolEnds([work EXCEPT !.web = hits, !.searched = TRUE])

\* a tool throws: it is recorded as degraded and the next one follows
ToolFails ==
  /\ work.tool \in {"kb_retrieve", "graph_reason"} /\ Fault
  /\ ToolEnds(work)

ExecuteTools ==
  /\ work.todo = {} /\ work.tool = NoStep
  /\ Returns("execute_tools", "evaluate",
       [st EXCEPT !.chunks = work.chunks, !.strong = work.strong, !.graph = work.graph,
                  !.web = work.web, !.pending = {},
                  !.searches = IF work.searched THEN @ + 1 ELSE @])

\* 60 s are over; the tool in progress will never be shown as ended
ToolsTimeout ==
  /\ Degrade("execute_tools", "evaluate", TRUE)
  /\ cut' = IF work.tool = NoStep THEN cut ELSE cut \union {work.tool}
  /\ UNCHANGED st

\* the grade evaluate may reach: by rule, or by the model where it is asked
grades ==
  LET webHasHits == st.intent \in {"web", "kb_then_web"} /\ st.web
      rule == heuristicEvaluate(st)
      asked == IF webHasHits /\ rule # "give_up" THEN {"sufficient"}
               ELSE IF LoopEnabled /\ rule # "give_up" THEN {rule} \union Grade ELSE {rule}
      last(g) == IF g = "rewrite" /\ st.iteration + 1 >= MaxIterations THEN "give_up" ELSE g
  IN IF shouldTakeFastPath(st) THEN {"sufficient"} ELSE {last(g) : g \in asked}

\* evaluate; a rewrite of kb_then_web goes to the web first
Evaluated(g) ==
  IF shouldTakeFastPath(st) THEN [st EXCEPT !.grade = g]
  ELSE LET toWeb == g = "rewrite" /\ st.intent = "kb_then_web" /\ WebEnabled /\ ~st.web IN
       [st EXCEPT !.grade = g,
                  !.pending = IF toWeb THEN {"web_search"} ELSE {},
                  !.iteration = IF toWeb THEN @ + 1 ELSE @]

afterEvaluate(s) ==
  IF s.iteration >= MaxIterations \/ s.grade # "rewrite" THEN "think"
  ELSE IF "web_search" \in s.pending /\ ~s.web THEN "execute_tools" ELSE "rewrite_retrieve"

Evaluate ==
  \/ \E g \in grades : Returns("evaluate", afterEvaluate(Evaluated(g)), Evaluated(g))
  \/ DegradesTo("evaluate", afterEvaluate(st))

\* mutant of RewriteRetrieve: the round is not counted
RewriteRetrieveSame ==
  \/ Returns("rewrite_retrieve", "plan_or_act", [st EXCEPT !.pending = Wanted])
  \/ DegradesTo("rewrite_retrieve", "plan_or_act")

\* the next round, whether or not the model rewrites the query
RewriteRetrieve ==
  \/ Returns("rewrite_retrieve", "plan_or_act",
             [st EXCEPT !.iteration = @ + 1, !.pending = Wanted])
  \/ DegradesTo("rewrite_retrieve", "plan_or_act")
-----------------------------------------------------------------------------
(* the coda *)

Think ==
  \/ Returns("think", "prompt_build", st)
  \/ DegradesTo("think", "prompt_build")

\* no await in it: it cannot time out
PromptBuild == Returns("prompt_build", "llm_generate", st)

\* tokens reach the client while the model answers
Token == Works("llm_generate") /\ Emits(entered)
         /\ UNCHANGED <<loopVars, late, closed, aborted, outcome, stepVars, webCalls, faults>>

\* the answer is complete, or the text of an error stands in for it
LlmGenerate ==
  /\ Works("llm_generate") /\ Emits(entered)
  /\ NoFault \/ Fault
  /\ StepEnd("llm_generate")
  /\ outcome' = "returned"
  /\ UNCHANGED <<loopVars, late, closed, aborted, cut, webCalls>>

Execute == \/ \E t \in Tool : ToolStart(t)
           \/ KbRetrieve \/ GraphReason \/ WebSearch \/ ToolFails
           \/ ExecuteTools \/ ToolsTimeout
Advance == \/ Enter \/ Exhaust \/ Reject
           \/ AclGuard \/ LoadWindow \/ QueryRewrite \/ IntentRouter \/ MemoryLoad
           \/ PlanOrAct \/ Execute \/ Evaluate \/ RewriteRetrieve
           \/ Think \/ PromptBuild \/ LlmGenerate
Next == Advance \/ Token \/ Stop \/ RejectLikeAbort \/ (\E w \in late : Late(w))

Spec == Init /\ [][Next]_vars
\* every await of a node ends: model and store clients time out, and so does
\* the node
FairSpec == Spec /\ WF_vars(Advance)
-----------------------------------------------------------------------------
(* Properties *)

\* what this request may read, said of the request alone
Readable(c) ==
  CASE req.bound = CompanyWorkspace -> c.public
    [] req.bound = NoWorkspace      -> c.workspace \in req.member \/ c.public
    [] OTHER -> c.workspace = req.bound /\ c.workspace \in req.member

\* No chunk outside the request's scope reaches the evidence, whatever the
\* retrieval and the graph return, whichever nodes fail, acl_guard included.
ScopeRespected ==
  \A c \in st.chunks \union work.chunks : Readable(c)

\* A question the router takes for an internal one is never sent to the web,
\* in no round and by no tool that was left behind.
PrivateStaysInside ==
  webCalls > 0 => st.intent \in {"web", "kb_then_web"} /\ WebEnabled

\* The client never hears a callback from a node that has ended, nor anything
\* after a stop but the end of the step in progress.
NoStrayCallback == ~stray

\* When the run is over, every step shown as started is also recorded as
\* ended, except a tool whose node timed out around it.
StepsRecorded == ~Running => started \subseteq cut

\* A run that nobody stops and in which nothing fails is answered.
Answered == [](~aborted /\ faults = 0) => <>(outcome = "returned")
=============================================================================
