----------------------------- MODULE ChatProofs -----------------------------
(***************************************************************************)
(* Proofs about ChatTurn, for any number of questions, API processes,      *)
(* resumes, frames, failures and crashes: a conversation is never left     *)
(* busy, its meta key never calls a finished run running, and what a       *)
(* stopped run has done is kept.  With one API process, the list in Redis  *)
(* is exactly what the live run has sent, and a resume delivers it whole.  *)
(***************************************************************************)
EXTENDS ChatTurn, SequenceTheorems, TLAPS

USE RunAssumption, TurnAssumption
-----------------------------------------------------------------------------
(* as much of the types as the argument needs *)

Handler == [pc : RunPc, proc : Procs \union {NoProc}, queue : Seq(Frame),
            sent : Nat, aborted : BOOLEAN, progress : BOOLEAN,
            status : {"done", "aborted"}, read : Meta]

Shapes ==
  /\ live \in [Procs -> Runs \union {NoRun}]
  /\ meta \in Meta
  /\ faults \in Seq(Failing)
  /\ answers \in [Runs -> Nat]
  /\ run \in [Runs -> Handler]
  /\ \A r \in Runs : run[r].pc \in Active \union {"asked"} => run[r].proc \in Procs

\* what handler x has written, when n answers of it are stored: its status is
\* set where it is caught, and a stop with progress passes savePartial
Keeps(x, n) ==
  /\ x.pc \in {"new", "asked", "begun", "agent", "save", "record", "catch"} => x.status = "done"
  /\ x.pc = "recordPartial" => n >= 1
  /\ x.pc \in {"drain", "mark", "over"} /\ x.status = "aborted" /\ x.progress => n >= 1

Kept == ~HasFailed("db") => \A r \in Runs : Keeps(run[r], answers[r])

\* a run about to mark itself done while the meta key calls it running has
\* read that meta
Marked ==
  ~HasFailed("redis") /\ meta.run # NoRun /\ meta.status = "running" =>
    /\ run[meta.run].pc # "over"
    /\ run[meta.run].pc = "mark" => run[meta.run].read.run = meta.run

ChatInv == Shapes /\ BusyMeansRunning /\ Kept /\ Marked
-----------------------------------------------------------------------------
(* faults add up *)

Grows == /\ faults' \in Seq(Failing)
         /\ \A what : HasFailed(what) => HasFailed(what)'

LEMMA SameFaults == ASSUME Shapes, UNCHANGED faults PROVE Grows
BY DEF Shapes, Grows, HasFailed

LEMMA FaultGrows ==
  ASSUME Shapes, NEW what, Fault(what)
  PROVE  Grows /\ HasFailed(what)'
<1>1. faults \in Seq(Failing) /\ what \in Failing /\ faults' = Append(faults, what)
  BY DEF Shapes, Fault
<1>2. /\ faults' \in Seq(Failing)
      /\ Len(faults') = Len(faults) + 1
      /\ faults'[Len(faults) + 1] = what
      /\ \A i \in 1..Len(faults) : faults'[i] = faults[i]
  BY <1>1
<1>3. DOMAIN faults = 1..Len(faults) /\ DOMAIN faults' = 1..Len(faults') /\ Len(faults) \in Nat
  BY <1>1, <1>2
<1>4. HasFailed(what)'
  BY <1>2, <1>3 DEF HasFailed
<1>5. ASSUME NEW w, HasFailed(w) PROVE HasFailed(w)'
  BY <1>5, <1>2, <1>3 DEF HasFailed
<1>. QED  BY <1>2, <1>4, <1>5 DEF Grows

LEMMA ActiveRuns ==
  /\ "new" \notin Active /\ "asked" \notin Active /\ "mark" \notin Active
  /\ "over" \notin Active /\ "refused" \notin Active /\ "dead" \notin Active
  /\ {"begun", "agent", "save", "record", "catch", "savePartial", "recordPartial", "drain"} = Active
  /\ RunPc = Active \union {"new", "asked", "mark", "over", "refused", "dead"}
BY DEF Active, RunPc

\* One handler goes from one state to another, both before or both after it
\* holds the conversation: the cases in which neither the map nor the meta
\* key changes.
LEMMA OneHandler ==
  ASSUME ChatInv, NEW r \in Runs, NEW x \in Handler,
         run' = [run EXCEPT ![r] = x],
         live' = live, meta' = meta, Grows,
         x.pc \in Active <=> run[r].pc \in Active,
         x.pc \in Active => x.proc = run[r].proc,
         x.pc = "asked" => x.proc \in Procs,
         x.pc \in {"mark", "over"} => x.pc = run[r].pc /\ x.read = run[r].read,
         answers' \in [Runs -> Nat],
         \A q \in Runs \ {r} : answers'[q] = answers[q],
         ~HasFailed("db")' => Keeps(x, answers'[r])
  PROVE  ChatInv'
<1>1. run' \in [Runs -> Handler] /\ run'[r] = x /\ \A q \in Runs \ {r} : run'[q] = run[q]
  BY DEF ChatInv, Shapes
<1>2. Shapes'
  <2>1. ASSUME NEW q \in Runs, run'[q].pc \in Active \union {"asked"} PROVE run'[q].proc \in Procs
    BY <1>1, <2>1 DEF ChatInv, Shapes
  <2>. QED  BY <1>1, <2>1 DEF ChatInv, Shapes, Grows
<1>3. BusyMeansRunning'
  <2>. SUFFICES ASSUME NEW p \in Procs, NEW q \in Runs
                PROVE  live[p] = q <=> run'[q].pc \in Active /\ run'[q].proc = p
    BY DEF BusyMeansRunning
  <2>1. live[p] = q <=> run[q].pc \in Active /\ run[q].proc = p
    BY DEF ChatInv, BusyMeansRunning
  <2>2. run'[q].pc \in Active <=> run[q].pc \in Active
    BY <1>1
  <2>3. run'[q].pc \in Active => run'[q].proc = run[q].proc
    BY <1>1
  <2>. QED  BY <2>1, <2>2, <2>3
<1>4. Kept'
  BY <1>1 DEF ChatInv, Kept, Grows
<1>5. Marked'
  <2>. SUFFICES ASSUME ~HasFailed("redis")', meta.run # NoRun, meta.status = "running"
                PROVE  /\ run'[meta.run].pc # "over"
                       /\ run'[meta.run].pc = "mark" => run'[meta.run].read.run = meta.run
    BY DEF Marked
  <2>1. meta.run \in Runs
    BY DEF ChatInv, Shapes, Meta
  <2>2. /\ run[meta.run].pc # "over"
        /\ run[meta.run].pc = "mark" => run[meta.run].read.run = meta.run
    BY DEF ChatInv, Marked, Grows
  <2>. QED  BY <1>1, <2>1, <2>2
<1>. QED  BY <1>2, <1>3, <1>4, <1>5 DEF ChatInv
-----------------------------------------------------------------------------
(* steps of one handler *)

\* a handler after a step that keeps everything but its place in the code, its
\* frames, and whether it was stopped
Like(x, y) == x.proc = y.proc /\ x.status = y.status /\ x.read = y.read

LEMMA GotoHandler ==
  ASSUME Shapes, NEW r \in Runs, NEW p \in RunPc, Goto(r, p)
  PROVE  \E x \in Handler : /\ run' = [run EXCEPT ![r] = x]
                            /\ x.pc = p /\ Like(x, run[r]) /\ x.progress = run[r].progress
<1>1. run[r] \in Handler
  BY DEF Shapes
<1> DEFINE x == [run[r] EXCEPT !.pc = p]
<1>2. x \in Handler /\ x.pc = p /\ Like(x, run[r]) /\ x.progress = run[r].progress
  BY <1>1 DEF Handler, Like
<1>3. run' = [run EXCEPT ![r] = x]
  BY DEF Goto
<1>. QED  BY <1>2, <1>3

LEMMA SentHandler ==
  ASSUME Shapes, NEW r \in Runs, NEW p \in RunPc, NEW last \in BOOLEAN, Sent(r, p, last)
  PROVE  \E x \in Handler : /\ run' = [run EXCEPT ![r] = x]
                            /\ x.pc = p /\ Like(x, run[r]) /\ x.progress = run[r].progress
<1>1. run[r] \in Handler
  BY DEF Shapes
<1> DEFINE f == [run |-> r, n |-> run[r].sent + 1, end |-> last]
           q == Append(run[r].queue, f)
           n == run[r].sent + 1
           x == [run[r] EXCEPT !.pc = p, !.sent = n, !.queue = q]
<1>2. f \in Frame
  BY <1>1 DEF Handler, Frame
<1>3. q \in Seq(Frame) /\ n \in Nat
  BY <1>1, <1>2 DEF Handler
<1> HIDE DEF f, q, n
<1>4. x \in Handler /\ x.pc = p /\ Like(x, run[r]) /\ x.progress = run[r].progress
  BY <1>1, <1>3 DEF Handler, Like
<1>5. run' = [run EXCEPT ![r] = x]
  BY DEF Sent, f, q, n
<1>. QED  BY <1>4, <1>5

\* neither the map nor the meta key changes, nor the answers
Quiet == live' = live /\ meta' = meta /\ answers' = answers

LEMMA PostSafe == ASSUME ChatInv, NEW r \in Runs, NEW p \in Procs, Post(r, p) PROVE ChatInv'
<1> USE ActiveRuns
<1>0. Shapes /\ run[r] \in Handler /\ run[r].pc = "new" /\ Quiet /\ answers \in [Runs -> Nat]
  BY DEF ChatInv, Shapes, Post, At, Quiet
<1>1. CASE Goto(r, "refused") /\ Grows
  <2>1. PICK x \in Handler : run' = [run EXCEPT ![r] = x] /\ x.pc = "refused"
    BY <1>0, <1>1, GotoHandler
  <2>2. Keeps(x, answers'[r])
    BY <2>1 DEF Keeps
  <2>. QED  BY <1>0, <1>1, <2>1, <2>2, OneHandler DEF Quiet
<1>2. CASE UNCHANGED faults /\ run' = [run EXCEPT ![r].pc = "asked", ![r].proc = p]
  <2> DEFINE x == [run[r] EXCEPT !.pc = "asked", !.proc = p]
  <2>1. x \in Handler /\ x.pc = "asked" /\ x.proc \in Procs /\ x.status = run[r].status
    BY <1>0 DEF Handler
  <2>2. run' = [run EXCEPT ![r] = x]
    BY <1>2
  <2> HIDE DEF x
  <2>3. ~HasFailed("db")' => Keeps(x, answers'[r])
    BY <1>0, <1>2, <2>1 DEF Keeps, ChatInv, Kept, HasFailed
  <2>. QED  BY <1>0, <1>2, <2>1, <2>2, <2>3, SameFaults, OneHandler DEF Quiet
<1>. QED  BY <1>0, <1>1, <1>2, SameFaults, FaultGrows DEF Post

LEMMA StartSafe == ASSUME ChatInv, NEW r \in Runs, Start(r) PROVE ChatInv'
<1> USE ActiveRuns
<1>0. /\ Shapes /\ run[r] \in Handler /\ run[r].pc = "begun" /\ Quiet
      /\ UNCHANGED faults /\ answers \in [Runs -> Nat]
  BY DEF ChatInv, Shapes, Start, At, Quiet, runVars
<1>1. PICK x \in Handler : run' = [run EXCEPT ![r] = x] /\ x.pc = "agent" /\ Like(x, run[r])
  BY <1>0, SentHandler DEF Start
<1>2. ~HasFailed("db")' => Keeps(x, answers'[r])
  BY <1>0, <1>1 DEF Keeps, ChatInv, Kept, HasFailed, Like
<1>. QED  BY <1>0, <1>1, <1>2, SameFaults, OneHandler DEF Quiet, Like

LEMMA CallbackSafe == ASSUME ChatInv, NEW r \in Runs, Callback(r) PROVE ChatInv'
<1> USE ActiveRuns
<1>0. /\ Shapes /\ run[r] \in Handler /\ run[r].pc = "agent" /\ Quiet
      /\ UNCHANGED faults /\ answers \in [Runs -> Nat]
  BY DEF ChatInv, Shapes, Callback, At, Quiet, runVars
<1>1. PICK worth \in BOOLEAN :
        run' = [run EXCEPT ![r].sent = @ + 1,
                  ![r].queue = Append(@, [run |-> r, n |-> run[r].sent + 1, end |-> FALSE]),
                  ![r].progress = @ \/ worth]
  BY DEF Callback
<1> DEFINE f == [run |-> r, n |-> run[r].sent + 1, end |-> FALSE]
           q == Append(run[r].queue, f)
           n == run[r].sent + 1
           x == [run[r] EXCEPT !.sent = n, !.queue = q, !.progress = @ \/ worth]
<1>2. f \in Frame
  BY <1>0 DEF Handler, Frame
<1>3. q \in Seq(Frame) /\ n \in Nat /\ (run[r].progress \/ worth) \in BOOLEAN
  BY <1>0, <1>2 DEF Handler
<1>4. run' = [run EXCEPT ![r] = x]
  BY <1>1
<1> HIDE DEF f, q, n
<1>5. x \in Handler /\ x.pc = "agent" /\ Like(x, run[r])
  BY <1>0, <1>3 DEF Handler, Like
<1> HIDE DEF x
<1>6. ~HasFailed("db")' => Keeps(x, answers'[r])
  BY <1>0, <1>5 DEF Keeps, ChatInv, Kept, HasFailed, Like
<1>. QED  BY <1>0, <1>4, <1>5, <1>6, SameFaults, OneHandler DEF Quiet, Like

LEMMA ReturnsSafe == ASSUME ChatInv, NEW r \in Runs, AgentReturns(r) PROVE ChatInv'
<1> USE ActiveRuns
<1>0. /\ Shapes /\ run[r] \in Handler /\ run[r].pc = "agent" /\ Quiet
      /\ UNCHANGED faults /\ answers \in [Runs -> Nat]
  BY DEF ChatInv, Shapes, AgentReturns, At, Quiet, runVars
<1>1. PICK p \in {"catch", "save"} : Goto(r, p)
  BY DEF AgentReturns
<1>2. PICK x \in Handler : run' = [run EXCEPT ![r] = x] /\ x.pc = p /\ Like(x, run[r])
  BY <1>0, <1>1, GotoHandler
<1>3. ~HasFailed("db")' => Keeps(x, answers'[r])
  BY <1>0, <1>1, <1>2 DEF Keeps, ChatInv, Kept, HasFailed, Like
<1>. QED  BY <1>0, <1>1, <1>2, <1>3, SameFaults, OneHandler DEF Quiet, Like

LEMMA ThrowsSafe == ASSUME ChatInv, NEW r \in Runs, AgentThrows(r) PROVE ChatInv'
<1> USE ActiveRuns
<1>0. /\ Shapes /\ run[r] \in Handler /\ run[r].pc = "agent" /\ Quiet
      /\ Grows /\ answers \in [Runs -> Nat]
  BY FaultGrows DEF ChatInv, Shapes, AgentThrows, At, Quiet
<1>1. PICK like \in BOOLEAN :
        run' = [run EXCEPT ![r].pc = "catch", ![r].aborted = @ \/ like]
  BY DEF AgentThrows
<1> DEFINE x == [run[r] EXCEPT !.pc = "catch", !.aborted = @ \/ like]
<1>2. (run[r].aborted \/ like) \in BOOLEAN
  BY <1>0 DEF Handler
<1>3. x \in Handler /\ x.pc = "catch" /\ Like(x, run[r])
  BY <1>0, <1>2 DEF Handler, Like
<1>4. run' = [run EXCEPT ![r] = x]
  BY <1>1
<1> HIDE DEF x
<1>5. ~HasFailed("db")' => Keeps(x, answers'[r])
  BY <1>0, <1>3 DEF Keeps, ChatInv, Kept, Grows, Like
<1>. QED  BY <1>0, <1>3, <1>4, <1>5, OneHandler DEF Quiet, Like

\* what storing an answer does, whether it returns or throws
LEMMA SavesAnswer ==
  ASSUME Shapes, NEW r \in Runs, NEW p \in RunPc, NEW q \in RunPc,
         saveAssistantMessage(r, p, q)
  PROVE  /\ Grows
         /\ answers' \in [Runs -> Nat]
         /\ \A s \in Runs \ {r} : answers'[s] = answers[s]
         /\ \/ Goto(r, p) /\ answers'[r] >= 1
            \/ Goto(r, q) /\ HasFailed("db")' /\ answers'[r] >= answers[r]
<1> DEFINE more == [answers EXCEPT ![r] = @ + 1]
<1>1. /\ answers \in [Runs -> Nat] /\ more \in [Runs -> Nat]
      /\ more[r] = answers[r] + 1
      /\ \A s \in Runs \ {r} : more[s] = answers[s]
  BY DEF Shapes
<1>2. CASE answers' = more /\ Goto(r, p) /\ UNCHANGED faults
  <2>1. answers'[r] >= 1
    BY <1>1, <1>2
  <2>. QED  BY <1>1, <1>2, <2>1, SameFaults
<1>3. CASE Fault("db") /\ answers' \in {answers, more} /\ Goto(r, q)
  <2>1. answers'[r] >= answers[r]
    BY <1>1, <1>3
  <2>. QED  BY <1>1, <1>3, <2>1, FaultGrows
<1>. QED  BY <1>2, <1>3 DEF saveAssistantMessage

LEMMA SaveSafe == ASSUME ChatInv, NEW r \in Runs, Save(r) PROVE ChatInv'
<1> USE ActiveRuns
<1>0. Shapes /\ run[r] \in Handler /\ run[r].pc = "save" /\ live' = live /\ meta' = meta
  BY DEF ChatInv, Shapes, Save, At
<1>1. PICK p \in {"record", "catch"} :
        Goto(r, p) /\ (p = "record" \/ HasFailed("db")')
  BY <1>0, SavesAnswer DEF Save
<1>2. /\ Grows /\ answers' \in [Runs -> Nat]
      /\ \A s \in Runs \ {r} : answers'[s] = answers[s]
  BY <1>0, SavesAnswer DEF Save
<1>3. PICK x \in Handler : run' = [run EXCEPT ![r] = x] /\ x.pc = p /\ Like(x, run[r])
  BY <1>0, <1>1, GotoHandler
<1>4. ~HasFailed("db")' => Keeps(x, answers'[r])
  BY <1>0, <1>1, <1>2, <1>3 DEF Keeps, ChatInv, Kept, Grows, Like
<1>. QED  BY <1>0, <1>1, <1>2, <1>3, <1>4, OneHandler DEF Like

LEMMA RecordSafe == ASSUME ChatInv, NEW r \in Runs, Record(r) PROVE ChatInv'
<1> USE ActiveRuns
<1>0. Shapes /\ run[r] \in Handler /\ run[r].pc = "record" /\ Quiet /\ answers \in [Runs -> Nat]
  BY DEF ChatInv, Shapes, Record, At, Quiet
<1>1. Grows
  BY <1>0, SameFaults, FaultGrows DEF Record
<1>2. PICK x \in Handler : /\ run' = [run EXCEPT ![r] = x]
                           /\ x.pc \in {"drain", "catch"} /\ Like(x, run[r])
  BY <1>0, SentHandler, GotoHandler DEF Record
<1>3. ~HasFailed("db")' => Keeps(x, answers'[r])
  BY <1>0, <1>1, <1>2 DEF Keeps, ChatInv, Kept, Grows, Like
<1>. QED  BY <1>0, <1>1, <1>2, <1>3, OneHandler DEF Quiet, Like

LEMMA CatchSafe == ASSUME ChatInv, NEW r \in Runs, Catch(r) PROVE ChatInv'
<1> USE ActiveRuns
<1>0. /\ Shapes /\ run[r] \in Handler /\ run[r].pc = "catch" /\ Quiet
      /\ UNCHANGED faults /\ answers \in [Runs -> Nat]
  BY DEF ChatInv, Shapes, Catch, At, Quiet, runVars
<1>1. Grows
  BY <1>0, SameFaults
<1> DEFINE s == IF run[r].aborted THEN "aborted" ELSE "done"
           f == [run |-> r, n |-> run[r].sent + 1, end |-> TRUE]
           n == run[r].sent + 1
           q == Append(run[r].queue, f)
<1>2. f \in Frame
  BY <1>0 DEF Handler, Frame
<1>3. q \in Seq(Frame) /\ n \in Nat /\ s \in {"done", "aborted"}
  BY <1>0, <1>2 DEF Handler
<1>4. \/ /\ run[r].aborted /\ run[r].progress
         /\ run' = [run EXCEPT ![r].pc = "savePartial", ![r].status = s]
      \/ /\ s = "done" \/ ~run[r].progress
         /\ run' = [run EXCEPT ![r].pc = "drain", ![r].status = s, ![r].sent = n, ![r].queue = q]
  BY <1>0 DEF Catch, Handler
<1> HIDE DEF f, q, n, s
<1>5. CASE run' = [run EXCEPT ![r].pc = "savePartial", ![r].status = s]
  <2> DEFINE x == [run[r] EXCEPT !.pc = "savePartial", !.status = s]
  <2>1. x \in Handler /\ x.pc = "savePartial" /\ x.proc = run[r].proc
    BY <1>0, <1>3 DEF Handler
  <2>2. run' = [run EXCEPT ![r] = x]
    BY <1>5
  <2> HIDE DEF x
  <2>3. Keeps(x, answers'[r])
    BY <2>1 DEF Keeps
  <2>. QED  BY <1>0, <1>1, <2>1, <2>2, <2>3, OneHandler DEF Quiet
<1>6. CASE /\ s = "done" \/ ~run[r].progress
           /\ run' = [run EXCEPT ![r].pc = "drain", ![r].status = s, ![r].sent = n, ![r].queue = q]
  <2> DEFINE x == [run[r] EXCEPT !.pc = "drain", !.status = s, !.sent = n, !.queue = q]
  <2>1. /\ x \in Handler /\ x.pc = "drain" /\ x.proc = run[r].proc
        /\ x.status = s /\ x.progress = run[r].progress
    BY <1>0, <1>3 DEF Handler
  <2>2. run' = [run EXCEPT ![r] = x]
    BY <1>6
  <2> HIDE DEF x
  <2>3. Keeps(x, answers'[r])
    BY <1>6, <2>1 DEF Keeps
  <2>. QED  BY <1>0, <1>1, <2>1, <2>2, <2>3, OneHandler DEF Quiet
<1>. QED  BY <1>4, <1>5, <1>6

LEMMA SavePartialSafe == ASSUME ChatInv, NEW r \in Runs, SavePartial(r) PROVE ChatInv'
<1> USE ActiveRuns
<1>0. Shapes /\ run[r] \in Handler /\ run[r].pc = "savePartial" /\ live' = live /\ meta' = meta
  BY DEF ChatInv, Shapes, SavePartial, At
<1>1. PICK p \in {"recordPartial", "drain"} :
        Goto(r, p) /\ ((p = "recordPartial" /\ answers'[r] >= 1) \/ HasFailed("db")')
  BY <1>0, SavesAnswer DEF SavePartial
<1>2. /\ Grows /\ answers' \in [Runs -> Nat]
      /\ \A s \in Runs \ {r} : answers'[s] = answers[s]
  BY <1>0, SavesAnswer DEF SavePartial
<1>3. PICK x \in Handler : run' = [run EXCEPT ![r] = x] /\ x.pc = p /\ Like(x, run[r])
  BY <1>0, <1>1, GotoHandler
<1>4. ~HasFailed("db")' => Keeps(x, answers'[r])
  BY <1>1, <1>3 DEF Keeps
<1>. QED  BY <1>0, <1>1, <1>2, <1>3, <1>4, OneHandler DEF Like

LEMMA RecordPartialSafe == ASSUME ChatInv, NEW r \in Runs, RecordPartial(r) PROVE ChatInv'
<1> USE ActiveRuns
<1>0. /\ Shapes /\ run[r] \in Handler /\ run[r].pc = "recordPartial" /\ Quiet
      /\ answers \in [Runs -> Nat]
  BY DEF ChatInv, Shapes, RecordPartial, At, Quiet
<1>1. Grows
  BY <1>0, SameFaults, FaultGrows DEF RecordPartial
<1>2. PICK x \in Handler : run' = [run EXCEPT ![r] = x] /\ x.pc = "drain" /\ Like(x, run[r])
  BY <1>0, SentHandler, GotoHandler DEF RecordPartial
<1>3. ~HasFailed("db")' => Keeps(x, answers'[r])
  BY <1>0, <1>1, <1>2 DEF Keeps, ChatInv, Kept, Grows, Quiet
<1>. QED  BY <1>0, <1>1, <1>2, <1>3, OneHandler DEF Quiet, Like

LEMMA AppendSafe == ASSUME ChatInv, NEW r \in Runs, AppendNext(r) PROVE ChatInv'
<1> USE ActiveRuns
<1>0. /\ Shapes /\ run[r] \in Handler /\ Quiet /\ answers \in [Runs -> Nat]
      /\ run[r].queue # <<>>
  BY DEF ChatInv, Shapes, AppendNext, Quiet
<1>1. Grows
  BY <1>0, SameFaults, FaultGrows DEF AppendNext, append
<1> DEFINE q == Tail(run[r].queue)
           x == [run[r] EXCEPT !.queue = q]
<1>2. q \in Seq(Frame)
  BY <1>0 DEF Handler
<1>3. run' = [run EXCEPT ![r] = x]
  BY DEF AppendNext
<1> HIDE DEF q
<1>4. /\ x \in Handler /\ x.pc = run[r].pc /\ Like(x, run[r])
      /\ x.progress = run[r].progress
  BY <1>0, <1>2 DEF Handler, Like
<1> HIDE DEF x
<1>5. x.pc = "asked" => x.proc \in Procs
  BY <1>0, <1>4 DEF Shapes, Like
<1>6. ~HasFailed("db")' => Keeps(x, answers'[r])
  BY <1>0, <1>1, <1>4 DEF Keeps, ChatInv, Kept, Grows, Like, Quiet
<1>. QED  BY <1>0, <1>1, <1>3, <1>4, <1>5, <1>6, OneHandler DEF Quiet, Like
-----------------------------------------------------------------------------
(* steps that take or leave the conversation, or touch its meta key *)

LEMMA BeginSafe == ASSUME ChatInv, NEW r \in Runs, Begin(r) PROVE ChatInv'
<1> USE ActiveRuns
<1>0. /\ Shapes /\ run[r] \in Handler /\ run[r].pc = "asked" /\ run[r].proc \in Procs
      /\ answers' = answers /\ answers \in [Runs -> Nat]
  BY DEF ChatInv, Shapes, Begin, At
<1> DEFINE p == run[r].proc
<1>1. CASE isLive(p)
  <2>1. UNCHANGED faults /\ Quiet /\ Goto(r, "refused")
    BY <1>0, <1>1 DEF Begin, Quiet, runVars
  <2>2. PICK x \in Handler : run' = [run EXCEPT ![r] = x] /\ x.pc = "refused"
    BY <1>0, <2>1, GotoHandler
  <2>3. Keeps(x, answers'[r])
    BY <2>2 DEF Keeps
  <2>. QED  BY <1>0, <2>1, <2>2, <2>3, SameFaults, OneHandler DEF Quiet
<1>2. CASE ~isLive(p)
  <2>1. live[p] = NoRun /\ begin(p, r) /\ Goto(r, "begun")
    BY <1>2 DEF isLive, Begin
  <2>2. PICK x \in Handler : run' = [run EXCEPT ![r] = x] /\ x.pc = "begun" /\ Like(x, run[r])
    BY <1>0, <2>1, GotoHandler
  <2>3. run' \in [Runs -> Handler] /\ run'[r] = x /\ \A q \in Runs \ {r} : run'[q] = run[q]
    BY <1>0, <2>2 DEF Shapes
  <2>4. /\ live' \in [Procs -> Runs \union {NoRun}] /\ live'[p] = r
        /\ \A q \in Procs \ {p} : live'[q] = live[q]
    BY <1>0, <2>1 DEF begin, Shapes
  <2>5. RunningMeta(r) \in Meta
    BY DEF RunningMeta, Meta
  <2>6. Grows /\ meta' \in Meta
    BY <1>0, <2>1, <2>5, SameFaults, FaultGrows DEF begin, Shapes
  <2>7. HasFailed("redis")' \/ meta' = RunningMeta(r)
    BY <1>0, <2>1, FaultGrows DEF begin
  <2>8. Shapes'
    BY <1>0, <2>2, <2>3, <2>4, <2>6 DEF Shapes, Grows, Like
  <2>9. BusyMeansRunning'
    <3>. SUFFICES ASSUME NEW a \in Procs, NEW q \in Runs
                  PROVE  live'[a] = q <=> run'[q].pc \in Active /\ run'[q].proc = a
      BY DEF BusyMeansRunning
    <3>1. live[a] = q <=> run[q].pc \in Active /\ run[q].proc = a
      BY DEF ChatInv, BusyMeansRunning
    <3>2. CASE q = r
      BY <1>0, <2>2, <2>3, <2>4, <3>1, <3>2 DEF Like
    <3>3. CASE q # r
      BY <2>1, <2>3, <2>4, <3>1, <3>3
    <3>. QED  BY <3>2, <3>3
  <2>10. Kept'
    BY <1>0, <2>2, <2>3, <2>6 DEF ChatInv, Kept, Keeps, Grows, Like
  <2>11. Marked'
    BY <2>2, <2>3, <2>7 DEF Marked, RunningMeta
  <2>. QED  BY <2>8, <2>9, <2>10, <2>11 DEF ChatInv
<1>. QED  BY <1>1, <1>2

LEMMA DrainSafe == ASSUME ChatInv, NEW r \in Runs, Drain(r) PROVE ChatInv'
<1> USE ActiveRuns
<1>0. /\ Shapes /\ run[r] \in Handler /\ run[r].pc = "drain" /\ run[r].proc \in Procs
      /\ answers' = answers /\ answers \in [Runs -> Nat] /\ meta' = meta /\ meta \in Meta
  BY DEF ChatInv, Shapes, Drain, At
<1> DEFINE p == run[r].proc
           y == [run[r] EXCEPT !.pc = "mark", !.read = meta]
<1>1. /\ live' \in [Procs -> Runs \union {NoRun}] /\ live'[p] = NoRun
      /\ \A q \in Procs \ {p} : live'[q] = live[q]
  BY <1>0 DEF Drain, Shapes
<1>2. /\ y \in Handler /\ y.pc = "mark" /\ y.read = meta
      /\ y.proc = p /\ y.status = run[r].status /\ y.progress = run[r].progress
  BY <1>0 DEF Handler
<1>3. \E x \in Handler :
        /\ run' = [run EXCEPT ![r] = x] /\ Grows
        /\ x.pc \in {"mark", "over"} /\ x.proc = p
        /\ x.status = run[r].status /\ x.progress = run[r].progress
        /\ (x.pc = "mark" /\ x.read = meta) \/ HasFailed("redis")'
  <2>1. CASE run' = [run EXCEPT ![r].pc = "mark", ![r].read = meta] /\ UNCHANGED faults
    <3>1. run' = [run EXCEPT ![r] = y]
      BY <2>1
    <3>2. Grows
      BY <1>0, <2>1, SameFaults
    <3> HIDE DEF y
    <3>. QED  BY <1>2, <3>1, <3>2
  <2>2. CASE Fault("redis") /\ Goto(r, "over")
    <3>1. PICK x \in Handler : /\ run' = [run EXCEPT ![r] = x]
                               /\ x.pc = "over" /\ Like(x, run[r]) /\ x.progress = run[r].progress
      BY <1>0, <2>2, GotoHandler
    <3>2. Grows /\ HasFailed("redis")'
      BY <1>0, <2>2, FaultGrows
    <3>. QED  BY <3>1, <3>2 DEF Like
  <2>. QED  BY <2>1, <2>2 DEF Drain
<1> HIDE DEF y
<1>4. PICK x \in Handler :
        /\ run' = [run EXCEPT ![r] = x] /\ Grows
        /\ x.pc \in {"mark", "over"} /\ x.proc = p
        /\ x.status = run[r].status /\ x.progress = run[r].progress
        /\ (x.pc = "mark" /\ x.read = meta) \/ HasFailed("redis")'
  BY <1>3
<1>5. run' \in [Runs -> Handler] /\ run'[r] = x /\ \A q \in Runs \ {r} : run'[q] = run[q]
  BY <1>0, <1>4 DEF Shapes
<1>6. Shapes'
  BY <1>0, <1>1, <1>4, <1>5 DEF Shapes, Grows
<1>7. BusyMeansRunning'
  <2>. SUFFICES ASSUME NEW a \in Procs, NEW q \in Runs
                PROVE  live'[a] = q <=> run'[q].pc \in Active /\ run'[q].proc = a
    BY DEF BusyMeansRunning
  <2>1. live[a] = q <=> run[q].pc \in Active /\ run[q].proc = a
    BY DEF ChatInv, BusyMeansRunning
  <2>2. live[p] = r
    BY <1>0 DEF ChatInv, BusyMeansRunning
  <2>3. CASE q = r
    BY <1>0, <1>1, <1>4, <1>5, <2>1, <2>3
  <2>4. CASE q # r
    BY <1>0, <1>1, <1>5, <2>1, <2>2, <2>4
  <2>. QED  BY <2>3, <2>4
<1>8. Kept'
  BY <1>0, <1>4, <1>5 DEF ChatInv, Kept, Keeps, Grows
<1>9. Marked'
  <2>. SUFFICES ASSUME ~HasFailed("redis")', meta.run # NoRun, meta.status = "running"
                PROVE  /\ run'[meta.run].pc # "over"
                       /\ run'[meta.run].pc = "mark" => run'[meta.run].read.run = meta.run
    BY <1>0 DEF Marked
  <2>1. meta.run \in Runs
    BY <1>0 DEF Meta
  <2>2. /\ run[meta.run].pc # "over"
        /\ run[meta.run].pc = "mark" => run[meta.run].read.run = meta.run
    BY <1>4 DEF ChatInv, Marked, Grows
  <2>. QED  BY <1>4, <1>5, <2>1, <2>2
<1>. QED  BY <1>6, <1>7, <1>8, <1>9 DEF ChatInv

LEMMA MarkSafe == ASSUME ChatInv, NEW r \in Runs, Mark(r) PROVE ChatInv'
<1> USE ActiveRuns
<1>0. /\ Shapes /\ run[r] \in Handler /\ run[r].pc = "mark" /\ live' = live
      /\ answers' = answers /\ answers \in [Runs -> Nat] /\ meta \in Meta
  BY DEF ChatInv, Shapes, Mark, At
<1>1. PICK x \in Handler : /\ run' = [run EXCEPT ![r] = x] /\ x.pc = "over"
                           /\ Like(x, run[r]) /\ x.progress = run[r].progress
  BY <1>0, GotoHandler DEF Mark
<1>2. run' \in [Runs -> Handler] /\ run'[r] = x /\ \A q \in Runs \ {r} : run'[q] = run[q]
  BY <1>0, <1>1 DEF Shapes
<1> DEFINE read == run[r].read
           next == IF read.run # NoRun
                     THEN [run |-> read.run, status |-> run[r].status, ttl |-> "short"]
                     ELSE [meta EXCEPT !.ttl = IF meta.run = NoRun THEN @ ELSE "short"]
<1>3. read \in Meta /\ run[r].status \in {"done", "aborted"}
  BY <1>0 DEF Handler
<1>4. next \in Meta
  BY <1>0, <1>3 DEF Meta
<1>5. /\ next.status = "running" => read.run = NoRun /\ meta.status = "running"
      /\ read.run = NoRun => next.run = meta.run
  <2>1. CASE read.run # NoRun
    <3>1. next.status = run[r].status
      BY <2>1
    <3>. QED  BY <1>3, <2>1, <3>1
  <2>2. CASE read.run = NoRun
    <3> DEFINE ttl == IF meta.run = NoRun THEN meta.ttl ELSE "short"
    <3>1. next = [meta EXCEPT !.ttl = ttl]
      BY <2>2
    <3> HIDE DEF next, ttl
    <3>2. next.status = meta.status /\ next.run = meta.run
      BY <1>0, <3>1 DEF Meta
    <3>. QED  BY <2>2, <3>2
  <2>. QED  BY <2>1, <2>2
<1>6. \/ meta' = next /\ UNCHANGED faults
      \/ meta' \in {meta, next} /\ Fault("redis")
  BY DEF Mark, markDone
<1> HIDE DEF next
<1>7. Grows /\ meta' \in Meta /\ (HasFailed("redis")' \/ meta' = next)
  BY <1>0, <1>4, <1>6, SameFaults, FaultGrows
<1>8. Shapes'
  BY <1>0, <1>1, <1>2, <1>7 DEF Shapes, Grows
<1>9. BusyMeansRunning'
  <2>. SUFFICES ASSUME NEW a \in Procs, NEW q \in Runs
                PROVE  live[a] = q <=> run'[q].pc \in Active /\ run'[q].proc = a
    BY <1>0 DEF BusyMeansRunning
  <2>1. live[a] = q <=> run[q].pc \in Active /\ run[q].proc = a
    BY DEF ChatInv, BusyMeansRunning
  <2>. QED  BY <1>0, <1>1, <1>2, <2>1
<1>10. Kept'
  BY <1>0, <1>1, <1>2, <1>7 DEF ChatInv, Kept, Keeps, Grows, Like
<1>11. Marked'
  <2>. SUFFICES ASSUME ~HasFailed("redis")', next.run # NoRun, next.status = "running"
                PROVE  /\ run'[next.run].pc # "over"
                       /\ run'[next.run].pc = "mark" => run'[next.run].read.run = next.run
    BY <1>7 DEF Marked
  <2>1. read.run = NoRun /\ meta.status = "running" /\ next.run = meta.run
    BY <1>5
  <2>2. meta.run \in Runs
    BY <1>0, <2>1 DEF Meta
  <2>3. /\ run[meta.run].pc # "over"
        /\ run[meta.run].pc = "mark" => run[meta.run].read.run = meta.run
    BY <1>7, <2>1 DEF ChatInv, Marked, Grows
  <2>4. meta.run # r
    BY <1>0, <2>1, <2>2, <2>3
  <2>. QED  BY <1>2, <2>1, <2>2, <2>3, <2>4
<1>. QED  BY <1>8, <1>9, <1>10, <1>11 DEF ChatInv

LEMMA CancelSafe == ASSUME ChatInv, NEW p \in Procs, cancel(p) PROVE ChatInv'
<1> USE ActiveRuns
<1> DEFINE r == live[p]
           x == [run[r] EXCEPT !.aborted = TRUE]
<1>0. /\ Shapes /\ r \in Runs /\ run[r] \in Handler /\ Quiet /\ UNCHANGED faults
      /\ answers \in [Runs -> Nat]
  BY DEF ChatInv, Shapes, cancel, isLive, Quiet, runVars
<1>1. run' = [run EXCEPT ![r] = x]
  BY DEF cancel
<1> HIDE DEF r
<1>2. /\ x \in Handler /\ x.pc = run[r].pc /\ Like(x, run[r])
      /\ x.progress = run[r].progress
  BY <1>0 DEF Handler, Like
<1> HIDE DEF x
<1>3. x.pc = "asked" => x.proc \in Procs
  BY <1>0, <1>2 DEF Shapes, Like
<1>4. ~HasFailed("db")' => Keeps(x, answers'[r])
  BY <1>0, <1>2 DEF Keeps, ChatInv, Kept, HasFailed, Like, Quiet
<1>. QED  BY <1>0, <1>1, <1>2, <1>3, <1>4, SameFaults, OneHandler DEF Quiet, Like

LEMMA ExpireSafe == ASSUME ChatInv, Expire PROVE ChatInv'
<1>1. UNCHANGED <<live, faults, run, answers>> /\ meta' \in {meta, NoMeta}
  BY DEF Expire, expire
<1>2. NoMeta \in Meta /\ NoMeta.run = NoRun
  BY DEF NoMeta, Meta
<1>3. Shapes' /\ BusyMeansRunning' /\ Kept'
  BY <1>1, <1>2 DEF ChatInv, Shapes, BusyMeansRunning, Kept, HasFailed
<1>4. Marked'
  BY <1>1, <1>2 DEF ChatInv, Marked, HasFailed
<1>. QED  BY <1>3, <1>4 DEF ChatInv

LEMMA CrashSafe == ASSUME ChatInv, NEW p \in Procs, Crash(p) PROVE ChatInv'
<1> USE ActiveRuns
<1>0. Shapes /\ UNCHANGED <<meta, faults, answers>> /\ run \in [Runs -> Handler] /\ meta \in Meta
  BY DEF ChatInv, Shapes, Crash
<1>1. /\ live' \in [Procs -> Runs \union {NoRun}] /\ live'[p] = NoRun
      /\ \A q \in Procs \ {p} : live'[q] = live[q]
  BY <1>0 DEF Crash, Shapes
<1> DEFINE Dies(r) == run[r].proc = p /\ run[r].pc \in Active \union {"asked", "mark"}
           y(r) == [run[r] EXCEPT !.pc = "dead", !.queue = <<>>]
<1>2. \A r \in Runs : y(r) \in Handler /\ y(r).pc = "dead"
  <2>1. <<>> \in Seq(Frame)
    OBVIOUS
  <2>. QED  BY <1>0, <2>1 DEF Handler
<1>3. run' = [r \in Runs |-> IF Dies(r) THEN y(r) ELSE run[r]]
  BY DEF Crash
<1> HIDE DEF y
<1>4. /\ run' \in [Runs -> Handler]
      /\ \A r \in Runs : IF Dies(r) THEN run'[r].pc = "dead" ELSE run'[r] = run[r]
  BY <1>0, <1>2, <1>3
<1>5. Shapes'
  BY <1>0, <1>1, <1>4 DEF Shapes
<1>6. BusyMeansRunning'
  <2>. SUFFICES ASSUME NEW a \in Procs, NEW q \in Runs
                PROVE  live'[a] = q <=> run'[q].pc \in Active /\ run'[q].proc = a
    BY DEF BusyMeansRunning
  <2>1. live[a] = q <=> run[q].pc \in Active /\ run[q].proc = a
    BY DEF ChatInv, BusyMeansRunning
  <2>. QED  BY <1>1, <1>4, <2>1
<1>7. Kept'
  BY <1>0, <1>4 DEF ChatInv, Kept, Keeps, HasFailed
<1>8. Marked'
  BY <1>0, <1>4 DEF ChatInv, Marked, HasFailed, Meta
<1>. QED  BY <1>5, <1>6, <1>7, <1>8 DEF ChatInv
-----------------------------------------------------------------------------
(* the specification *)

LEMMA ChatInit == Init => ChatInv
<1>. SUFFICES ASSUME Init PROVE ChatInv
  OBVIOUS
<1>1. <<>> \in Seq(Frame) /\ <<>> \in Seq(Failing) /\ NoMeta \in Meta
  BY DEF NoMeta, Meta
<1>2. NewRun \in Handler /\ NewRun.pc = "new" /\ NewRun.status = "done"
  BY <1>1, ActiveRuns DEF NewRun, Handler
<1>3. Shapes
  BY <1>1, <1>2, ActiveRuns DEF Init, RunInit, Shapes
<1>4. BusyMeansRunning /\ Kept
  BY <1>2, ActiveRuns DEF Init, RunInit, BusyMeansRunning, Kept, Keeps
<1>5. Marked
  BY DEF Init, RunInit, Marked, NoMeta
<1>. QED  BY <1>3, <1>4, <1>5 DEF ChatInv

LEMMA ChatStep == ChatInv /\ [Next]_vars => ChatInv'
<1>. SUFFICES ASSUME ChatInv, [Next]_vars PROVE ChatInv'
  OBVIOUS
<1>1. ASSUME UNCHANGED <<live, meta, faults, run, answers>> PROVE ChatInv'
  BY <1>1 DEF ChatInv, Shapes, BusyMeansRunning, Kept, Marked, HasFailed
<1>2. CASE UNCHANGED vars
  BY <1>1, <1>2 DEF vars, runVars
<1>3. ASSUME NEW r \in Runs, RunStep(r) PROVE ChatInv'
  BY <1>3, BeginSafe, StartSafe, ReturnsSafe, SaveSafe, RecordSafe, CatchSafe,
     SavePartialSafe, RecordPartialSafe, DrainSafe, MarkSafe DEF RunStep
<1>4. ASSUME NEW t \in Tails, TailStep(t) \/ Detach(t) \/ \E p \in Procs : Attach(t, p)
      PROVE  ChatInv'
  <2>1. CASE Poll(t)
    <3>1. Shapes /\ Grows
      BY <2>1, SameFaults, FaultGrows DEF ChatInv, Poll
    <3>2. UNCHANGED <<live, meta, run, answers>>
      BY <2>1 DEF Poll
    <3>. QED  BY <3>1, <3>2 DEF ChatInv, Shapes, BusyMeansRunning, Kept, Marked, Grows
  <2>2. CASE Look(t) \/ Detach(t) \/ \E p \in Procs : Attach(t, p)
    BY <1>1, <2>2 DEF Look, Detach, Attach, runVars
  <2>. QED  BY <1>4, <2>1, <2>2 DEF TailStep
<1>5. CASE Next
  BY <1>3, <1>4, <1>5, AppendSafe, CallbackSafe, ThrowsSafe, PostSafe, CancelSafe,
     CrashSafe, ExpireSafe DEF Next
<1>. QED  BY <1>2, <1>5

LEMMA ChatCorrect == Spec => []ChatInv
BY ChatInit, ChatStep, PTL DEF Spec

\* A process refuses new questions of a conversation exactly while it answers
\* one, whatever fails and whoever dies (chat-run.service.ts begin, markDone).
THEOREM NeverLeftBusy == Spec => []BusyMeansRunning
<1>1. ChatInv => BusyMeansRunning
  BY DEF ChatInv
<1>. QED  BY <1>1, ChatCorrect, PTL

\* The meta key never calls a finished run running, with any number of
\* processes marking theirs at once, as long as Redis answers.
THEOREM NoGhost == Spec => []NoGhostRun
<1>1. ChatInv => NoGhostRun
  BY DEF ChatInv, Marked, NoGhostRun
<1>. QED  BY <1>1, ChatCorrect, PTL

\* A run that was stopped with some progress has an answer stored when it ends
\* (agui.controller.ts, the catch block), as long as the database answers.
THEOREM ProgressKept == Spec => []StoppedKeepsProgress
<1>1. ChatInv => StoppedKeepsProgress
  BY DEF ChatInv, Kept, Keeps, StoppedKeepsProgress, Ended
<1>. QED  BY <1>1, ChatCorrect, PTL
-----------------------------------------------------------------------------
(* the frames of a run: appended ones, then queued ones *)

\* s holds frames of run r, the first one first
InOrder(s, r) == \A i \in 1..Len(s) : s[i].run = r /\ s[i].n = i

Frames(r) == events \o run[r].queue

LEMMA SendLine ==
  ASSUME NEW S, NEW e \in Seq(S), NEW q \in Seq(S), NEW f \in S
  PROVE  /\ e \o Append(q, f) \in Seq(S)
         /\ Len(e \o Append(q, f)) = Len(e \o q) + 1
         /\ \A i \in 1..Len(e \o q) : (e \o Append(q, f))[i] = (e \o q)[i]
         /\ (e \o Append(q, f))[Len(e \o q) + 1] = f
<1>1. /\ Append(q, f) \in Seq(S) /\ Len(Append(q, f)) = Len(q) + 1
      /\ \A i \in 1..Len(q) : Append(q, f)[i] = q[i]
      /\ Append(q, f)[Len(q) + 1] = f
  BY AppendProperties
<1>2. Len(e) \in Nat /\ Len(q) \in Nat
  BY LenProperties
<1> DEFINE a == Append(q, f)
<1>3. /\ e \o q \in Seq(S) /\ Len(e \o q) = Len(e) + Len(q)
      /\ \A i \in 1..Len(e) + Len(q) : (e \o q)[i] = IF i <= Len(e) THEN e[i] ELSE q[i - Len(e)]
  BY ConcatProperties
<1> HIDE DEF a
<1>4. a \in Seq(S)
  BY <1>1 DEF a
<1>5. /\ e \o a \in Seq(S) /\ Len(e \o a) = Len(e) + Len(a)
      /\ \A i \in 1..Len(e) + Len(a) : (e \o a)[i] = IF i <= Len(e) THEN e[i] ELSE a[i - Len(e)]
  BY <1>4, ConcatProperties
<1>6. Len(a) = Len(q) + 1 /\ (\A i \in 1..Len(q) : a[i] = q[i]) /\ a[Len(q) + 1] = f
  BY <1>1 DEF a
<1>7. ASSUME NEW i \in 1..Len(e \o q) PROVE (e \o a)[i] = (e \o q)[i]
  <2>1. i \in 1..Len(e) + Len(q) /\ i \in 1..Len(e) + Len(a)
    BY <1>2, <1>3, <1>6
  <2>2. CASE i <= Len(e)
    BY <1>3, <1>5, <2>1, <2>2
  <2>3. CASE ~(i <= Len(e))
    <3>1. i - Len(e) \in 1..Len(q)
      BY <1>2, <2>1, <2>3
    <3>. QED  BY <1>3, <1>5, <1>6, <2>1, <2>3, <3>1
  <2>. QED  BY <2>2, <2>3
<1>8. (e \o a)[Len(e \o q) + 1] = f
  <2>1. /\ Len(e \o q) + 1 \in 1..Len(e) + Len(a) /\ ~(Len(e \o q) + 1 <= Len(e))
        /\ (Len(e \o q) + 1) - Len(e) = Len(q) + 1
    BY <1>2, <1>3, <1>6
  <2>. QED  BY <1>5, <1>6, <2>1
<1>. QED  BY <1>2, <1>3, <1>5, <1>6, <1>7, <1>8 DEF a

LEMMA MoveLine ==
  ASSUME NEW S, NEW e \in Seq(S), NEW q \in Seq(S), q # <<>>
  PROVE  /\ Append(e, Head(q)) \in Seq(S) /\ Tail(q) \in Seq(S)
         /\ Append(e, Head(q)) \o Tail(q) = e \o q
<1> DEFINE h == Head(q)
           l == Tail(q)
           a == Append(e, h)
<1>1. /\ h \in S /\ l \in Seq(S) /\ Len(l) = Len(q) - 1 /\ h = q[1]
      /\ \A i \in 1..Len(l) : l[i] = q[i + 1]
  BY HeadTailProperties
<1>2. Len(e) \in Nat /\ Len(q) \in Nat \ {0}
  BY LenProperties, EmptySeq
<1> HIDE DEF h, l
<1>3. /\ a \in Seq(S) /\ Len(a) = Len(e) + 1
      /\ \A i \in 1..Len(e) : a[i] = e[i]
      /\ a[Len(e) + 1] = h
  BY <1>1, AppendProperties
<1> HIDE DEF a
<1>4. /\ e \o q \in Seq(S) /\ Len(e \o q) = Len(e) + Len(q)
      /\ \A i \in 1..Len(e) + Len(q) : (e \o q)[i] = IF i <= Len(e) THEN e[i] ELSE q[i - Len(e)]
  BY ConcatProperties
<1>5. /\ a \o l \in Seq(S) /\ Len(a \o l) = Len(a) + Len(l)
      /\ \A i \in 1..Len(a) + Len(l) : (a \o l)[i] = IF i <= Len(a) THEN a[i] ELSE l[i - Len(a)]
  BY <1>1, <1>3, ConcatProperties
<1>6. Len(a \o l) = Len(e \o q)
  BY <1>1, <1>2, <1>3, <1>4, <1>5
<1>7. ASSUME NEW i \in 1..Len(e \o q) PROVE (a \o l)[i] = (e \o q)[i]
  <2>1. CASE i <= Len(e)
    BY <1>1, <1>2, <1>3, <1>4, <1>5, <2>1
  <2>2. CASE i = Len(e) + 1
    <3>1. (a \o l)[i] = h
      BY <1>1, <1>2, <1>3, <1>5, <2>2
    <3>2. (e \o q)[i] = q[1]
      BY <1>1, <1>2, <1>4, <2>2
    <3>. QED  BY <1>1, <3>1, <3>2
  <2>3. CASE i > Len(e) + 1
    <3>1. (a \o l)[i] = l[i - (Len(e) + 1)] /\ i - (Len(e) + 1) \in 1..Len(l)
      BY <1>1, <1>2, <1>3, <1>4, <1>5, <2>3
    <3>2. (e \o q)[i] = q[i - Len(e)]
      BY <1>2, <1>4, <2>3
    <3>3. l[i - (Len(e) + 1)] = q[(i - (Len(e) + 1)) + 1]
      BY <1>1, <3>1
    <3>4. (i - (Len(e) + 1)) + 1 = i - Len(e)
      BY <1>2, <1>4
    <3>. QED  BY <3>1, <3>2, <3>3, <3>4
  <2>4. i \in Nat /\ Len(e) \in Nat
    BY <1>2
  <2>5. i <= Len(e) \/ i = Len(e) + 1 \/ i > Len(e) + 1
    BY <2>4
  <2>. QED  BY <2>1, <2>2, <2>3, <2>5
<1>8. a \o l = e \o q
  BY <1>4, <1>5, <1>6, <1>7, SeqEqual
<1>. QED  BY <1>1, <1>3, <1>8 DEF a, h, l
-----------------------------------------------------------------------------
(* what a step of one handler does to its frames *)

\* from handler y to handler x without a frame
Keeping(x, y) ==
  /\ x.queue = y.queue /\ x.sent = y.sent
  /\ \/ x.pc = y.pc /\ x.proc = y.proc
     \/ y.pc \in {"new", "asked"} /\ x.pc \in {"asked", "refused"}
     \/ y.pc \in Active \ {"begun", "drain"} /\ x.pc \in Active \ {"begun"}

\* from handler y to handler x with one more frame of run r; nothing follows
\* the last one
Sending(x, y, r) ==
  /\ x.sent = y.sent + 1
  /\ \E last \in BOOLEAN :
       /\ x.queue = Append(y.queue, [run |-> r, n |-> y.sent + 1, end |-> last])
       /\ last => x.pc = "drain"
  /\ y.pc \in Active \ {"drain"} /\ x.pc \in Active \ {"begun"}
  /\ y.pc = "begun" => \A q \in Runs : run[q].pc = "mark" => run[q].proc # y.proc

\* handler r goes on, and what Redis holds stays
Moves(r) ==
  /\ Grows /\ UNCHANGED <<meta, events, eventsTtl, tail>>
  /\ \E x \in Handler : /\ run' = [run EXCEPT ![r] = x] /\ x.read = run[r].read
                        /\ Keeping(x, run[r]) \/ Sending(x, run[r], r)

LEMMA GotoMoves ==
  ASSUME Shapes, NEW r \in Runs, NEW p \in RunPc, Goto(r, p),
         Grows, UNCHANGED <<meta, events, eventsTtl, tail>>,
         \/ run[r].pc \in {"new", "asked"} /\ p \in {"asked", "refused"}
         \/ run[r].pc \in Active \ {"begun", "drain"} /\ p \in Active \ {"begun"}
  PROVE  Moves(r)
<1>1. run[r] \in Handler
  BY DEF Shapes
<1> DEFINE x == [run[r] EXCEPT !.pc = p]
<1>2. /\ x \in Handler /\ x.pc = p /\ x.read = run[r].read
      /\ x.queue = run[r].queue /\ x.sent = run[r].sent
  BY <1>1 DEF Handler
<1>3. run' = [run EXCEPT ![r] = x]
  BY DEF Goto
<1> HIDE DEF x
<1>4. Keeping(x, run[r])
  BY <1>2 DEF Keeping
<1>. QED  BY <1>2, <1>3, <1>4 DEF Moves

LEMMA SentMoves ==
  ASSUME Shapes, NEW r \in Runs, NEW p \in Active \ {"begun"}, NEW last \in BOOLEAN,
         Sent(r, p, last), Grows, UNCHANGED <<meta, events, eventsTtl, tail>>,
         run[r].pc \in Active \ {"drain"}, last => p = "drain",
         run[r].pc = "begun" => \A q \in Runs : run[q].pc = "mark" => run[q].proc # run[r].proc
  PROVE  Moves(r)
<1> USE ActiveRuns
<1>1. run[r] \in Handler
  BY DEF Shapes
<1> DEFINE f == [run |-> r, n |-> run[r].sent + 1, end |-> last]
           q == Append(run[r].queue, f)
           n == run[r].sent + 1
           x == [run[r] EXCEPT !.pc = p, !.sent = n, !.queue = q]
<1>2. f \in Frame
  BY <1>1 DEF Handler, Frame
<1>3. q \in Seq(Frame) /\ n \in Nat
  BY <1>1, <1>2 DEF Handler
<1> HIDE DEF q, n
<1>4. x \in Handler /\ x.pc = p /\ x.read = run[r].read /\ x.queue = q /\ x.sent = n
  BY <1>1, <1>3 DEF Handler
<1>5. run' = [run EXCEPT ![r] = x]
  BY DEF Sent, q, n
<1> HIDE DEF x
<1>6. Sending(x, run[r], r)
  BY <1>4 DEF Sending, q, n
<1>. QED  BY <1>4, <1>5, <1>6 DEF Moves

LEMMA PostMoves == ASSUME Shapes, NEW r \in Runs, NEW p \in Procs, Post(r, p) PROVE Moves(r)
<1> USE ActiveRuns
<1>1. /\ run[r] \in Handler /\ run[r].pc = "new"
      /\ Grows /\ UNCHANGED <<meta, events, eventsTtl, tail>>
  BY SameFaults, FaultGrows DEF Shapes, Post, At
<1>2. CASE Goto(r, "refused")
  BY <1>1, <1>2, GotoMoves
<1>3. CASE run' = [run EXCEPT ![r].pc = "asked", ![r].proc = p]
  <2> DEFINE x == [run[r] EXCEPT !.pc = "asked", !.proc = p]
  <2>1. /\ x \in Handler /\ x.pc = "asked" /\ x.read = run[r].read
        /\ x.queue = run[r].queue /\ x.sent = run[r].sent
    BY <1>1 DEF Handler
  <2>2. run' = [run EXCEPT ![r] = x]
    BY <1>3
  <2> HIDE DEF x
  <2>3. Keeping(x, run[r])
    BY <1>1, <2>1 DEF Keeping
  <2>. QED  BY <1>1, <2>1, <2>2, <2>3 DEF Moves
<1>. QED  BY <1>2, <1>3 DEF Post

LEMMA StartMoves == ASSUME Shapes, NEW r \in Runs, Start(r) PROVE Moves(r)
BY ActiveRuns, SameFaults, SentMoves DEF Start, At, runVars

LEMMA CallbackMoves == ASSUME Shapes, NEW r \in Runs, Callback(r) PROVE Moves(r)
<1> USE ActiveRuns
<1>1. /\ run[r] \in Handler /\ run[r].pc = "agent"
      /\ Grows /\ UNCHANGED <<meta, events, eventsTtl, tail>>
  BY SameFaults DEF Shapes, Callback, At, runVars
<1>2. PICK worth \in BOOLEAN :
        run' = [run EXCEPT ![r].sent = @ + 1,
                  ![r].queue = Append(@, [run |-> r, n |-> run[r].sent + 1, end |-> FALSE]),
                  ![r].progress = @ \/ worth]
  BY DEF Callback
<1> DEFINE f == [run |-> r, n |-> run[r].sent + 1, end |-> FALSE]
           q == Append(run[r].queue, f)
           n == run[r].sent + 1
           x == [run[r] EXCEPT !.sent = n, !.queue = q, !.progress = @ \/ worth]
<1>3. f \in Frame
  BY <1>1 DEF Handler, Frame
<1>4. q \in Seq(Frame) /\ n \in Nat /\ (run[r].progress \/ worth) \in BOOLEAN
  BY <1>1, <1>3 DEF Handler
<1>5. run' = [run EXCEPT ![r] = x]
  BY <1>2
<1> HIDE DEF q, n
<1>6. x \in Handler /\ x.pc = "agent" /\ x.read = run[r].read /\ x.queue = q /\ x.sent = n
  BY <1>1, <1>4 DEF Handler
<1> HIDE DEF x
<1>7. Sending(x, run[r], r)
  BY <1>1, <1>6 DEF Sending, q, n
<1>. QED  BY <1>1, <1>5, <1>6, <1>7 DEF Moves

LEMMA ReturnsMoves == ASSUME Shapes, NEW r \in Runs, AgentReturns(r) PROVE Moves(r)
<1>1. PICK p \in {"catch", "save"} : Goto(r, p)
  BY DEF AgentReturns
<1>. QED  BY <1>1, ActiveRuns, SameFaults, GotoMoves DEF AgentReturns, At, runVars

LEMMA ThrowsMoves == ASSUME Shapes, NEW r \in Runs, AgentThrows(r) PROVE Moves(r)
<1> USE ActiveRuns
<1>1. /\ run[r] \in Handler /\ run[r].pc = "agent"
      /\ Grows /\ UNCHANGED <<meta, events, eventsTtl, tail>>
  BY FaultGrows DEF Shapes, AgentThrows, At
<1>2. PICK like \in BOOLEAN :
        run' = [run EXCEPT ![r].pc = "catch", ![r].aborted = @ \/ like]
  BY DEF AgentThrows
<1> DEFINE x == [run[r] EXCEPT !.pc = "catch", !.aborted = @ \/ like]
<1>3. (run[r].aborted \/ like) \in BOOLEAN
  BY <1>1 DEF Handler
<1>4. /\ x \in Handler /\ x.pc = "catch" /\ x.read = run[r].read
      /\ x.queue = run[r].queue /\ x.sent = run[r].sent
  BY <1>1, <1>3 DEF Handler
<1>5. run' = [run EXCEPT ![r] = x]
  BY <1>2
<1> HIDE DEF x
<1>6. Keeping(x, run[r])
  BY <1>1, <1>4 DEF Keeping
<1>. QED  BY <1>1, <1>4, <1>5, <1>6 DEF Moves

LEMMA SavesMoves ==
  ASSUME Shapes, NEW r \in Runs, Save(r) \/ SavePartial(r)
  PROVE  Moves(r)
<1> USE ActiveRuns
<1>1. PICK p \in {"record", "catch", "recordPartial", "drain"} :
        Goto(r, p) /\ Grows
  BY SavesAnswer DEF Save, SavePartial
<1>2. run[r].pc \in {"save", "savePartial"} /\ UNCHANGED <<meta, events, eventsTtl, tail>>
  BY DEF Save, SavePartial, At
<1>. QED  BY <1>1, <1>2, GotoMoves

LEMMA RecordsMoves ==
  ASSUME Shapes, NEW r \in Runs, Record(r) \/ RecordPartial(r)
  PROVE  Moves(r)
<1> USE ActiveRuns
<1>1. /\ run[r].pc \in {"record", "recordPartial"}
      /\ Grows /\ UNCHANGED <<meta, events, eventsTtl, tail>>
  BY SameFaults, FaultGrows DEF Record, RecordPartial, At
<1>2. CASE Sent(r, "drain", TRUE)
  BY <1>1, <1>2, SentMoves
<1>3. CASE Goto(r, "catch") \/ Goto(r, "drain")
  BY <1>1, <1>3, GotoMoves
<1>. QED  BY <1>2, <1>3 DEF Record, RecordPartial

LEMMA CatchMoves == ASSUME Shapes, NEW r \in Runs, Catch(r) PROVE Moves(r)
<1> USE ActiveRuns
<1>1. /\ run[r] \in Handler /\ run[r].pc = "catch"
      /\ Grows /\ UNCHANGED <<meta, events, eventsTtl, tail>>
  BY SameFaults DEF Shapes, Catch, At, runVars
<1> DEFINE s == IF run[r].aborted THEN "aborted" ELSE "done"
           f == [run |-> r, n |-> run[r].sent + 1, end |-> TRUE]
           n == run[r].sent + 1
           q == Append(run[r].queue, f)
           x == [run[r] EXCEPT !.pc = "savePartial", !.status = s]
           y == [run[r] EXCEPT !.pc = "drain", !.status = s, !.sent = n, !.queue = q]
<1>2. f \in Frame
  BY <1>1 DEF Handler, Frame
<1>3. q \in Seq(Frame) /\ n \in Nat /\ s \in {"done", "aborted"}
  BY <1>1, <1>2 DEF Handler
<1>4. run' = [run EXCEPT ![r] = x] \/ run' = [run EXCEPT ![r] = y]
  BY <1>1 DEF Catch
<1> HIDE DEF q, n, s
<1>5. /\ x \in Handler /\ x.pc = "savePartial" /\ x.read = run[r].read
      /\ x.queue = run[r].queue /\ x.sent = run[r].sent
  BY <1>1, <1>3 DEF Handler
<1>6. /\ y \in Handler /\ y.pc = "drain" /\ y.read = run[r].read
      /\ y.queue = q /\ y.sent = n
  BY <1>1, <1>3 DEF Handler
<1> HIDE DEF x, y
<1>7. Keeping(x, run[r]) /\ Sending(y, run[r], r)
  BY <1>1, <1>5, <1>6 DEF Keeping, Sending, q, n
<1>. QED  BY <1>1, <1>4, <1>5, <1>6, <1>7 DEF Moves

LEMMA CancelMoves == ASSUME Shapes, NEW p \in Procs, cancel(p) PROVE \E r \in Runs : Moves(r)
<1> DEFINE r == live[p]
           x == [run[r] EXCEPT !.aborted = TRUE]
<1>1. /\ r \in Runs /\ run[r] \in Handler
      /\ Grows /\ UNCHANGED <<meta, events, eventsTtl, tail>>
  BY SameFaults DEF Shapes, cancel, isLive, runVars
<1>2. run' = [run EXCEPT ![r] = x]
  BY DEF cancel
<1> HIDE DEF r
<1>3. /\ x \in Handler /\ x.pc = run[r].pc /\ x.read = run[r].read
      /\ x.queue = run[r].queue /\ x.sent = run[r].sent /\ x.proc = run[r].proc
  BY <1>1 DEF Handler
<1> HIDE DEF x
<1>4. Keeping(x, run[r])
  BY <1>3 DEF Keeping
<1>. QED  BY <1>1, <1>2, <1>3, <1>4 DEF Moves
-----------------------------------------------------------------------------
(* With one API process, the list of a live run *)

Single == \A p, q \in Procs : p = q

\* the frames of a live run, all of them; the list is kept as long as it grows
Listed(r) ==
  /\ IsTranscript(Frames(r), r)
  /\ events # <<>> => eventsTtl = "long"

\* a handler queues frames only while its run is live, has sent none before
\* begin answers, and sends none while an earlier one marks itself done
ListInv ==
  /\ events \in Seq(Frame)
  /\ \A r \in Runs :
       /\ run[r].pc \notin Active => run[r].queue = <<>>
       /\ run[r].pc \in {"new", "asked", "begun"} => run[r].sent = 0 /\ run[r].queue = <<>>
       /\ run[r].pc = "mark" => run[r].proc \in Procs
  /\ \A r, q \in Runs : run[r].pc \in Active \ {"begun"} => run[q].pc # "mark"
  /\ ~HasFailed("redis") => \A r \in Runs : run[r].pc \in Active => Listed(r)

LEMMA OneLive ==
  ASSUME Single, ChatInv, NEW r \in Runs, NEW q \in Runs,
         run[r].pc \in Active, run[q].pc \in Active
  PROVE  r = q
<1>1. run[r].proc \in Procs /\ run[q].proc \in Procs
  BY DEF ChatInv, Shapes
<1>2. run[r].proc = run[q].proc
  BY <1>1 DEF Single
<1>. QED  BY <1>1, <1>2 DEF ChatInv, BusyMeansRunning

LEMMA TranscriptGrows ==
  ASSUME NEW e \in Seq(Frame), NEW q \in Seq(Frame), NEW r \in Runs, NEW n \in Nat,
         NEW last \in BOOLEAN, Len(e \o q) = n, InOrder(e \o q, r)
  PROVE  LET l == e \o Append(q, [run |-> r, n |-> n + 1, end |-> last]) IN
         Len(l) = n + 1 /\ InOrder(l, r)
<1> DEFINE f == [run |-> r, n |-> n + 1, end |-> last]
           l == e \o Append(q, f)
<1>1. f \in Frame /\ f.run = r /\ f.n = n + 1
  BY DEF Frame
<1> HIDE DEF f
<1>2. /\ Len(l) = n + 1 /\ l[n + 1] = f
      /\ \A i \in 1..n : l[i] = (e \o q)[i]
  BY <1>1, SendLine
<1> HIDE DEF l
<1>3. InOrder(l, r)
  <2>. SUFFICES ASSUME NEW i \in 1..n + 1 PROVE l[i].run = r /\ l[i].n = i
    BY <1>2 DEF InOrder
  <2>1. CASE i \in 1..n
    BY <1>2, <2>1 DEF InOrder
  <2>2. CASE i = n + 1
    BY <1>1, <1>2, <2>2
  <2>. QED  BY <2>1, <2>2
<1>. QED  BY <1>2, <1>3 DEF l, f

LEMMA MovesList ==
  ASSUME Single, ChatInv, ListInv, NEW r \in Runs, Moves(r)
  PROVE  ListInv'
<1> USE ActiveRuns
<1>0. Shapes /\ run[r] \in Handler /\ Grows /\ UNCHANGED <<events, eventsTtl>>
  BY DEF ChatInv, Shapes, Moves
<1>1. PICK x \in Handler : /\ run' = [run EXCEPT ![r] = x]
                           /\ Keeping(x, run[r]) \/ Sending(x, run[r], r)
  BY DEF Moves
<1>2. run'[r] = x /\ \A q \in Runs \ {r} : run'[q] = run[q]
  BY <1>0, <1>1 DEF Shapes
<1>3. /\ x.pc \notin Active => x.queue = <<>>
      /\ x.pc \in {"new", "asked", "begun"} => x.sent = 0 /\ x.queue = <<>>
      /\ x.pc = "mark" => run[r].pc = "mark" /\ x.proc \in Procs
      /\ x.pc \in Active => run[r].pc \in Active
      /\ x.pc \in Active \ {"begun"} =>
           \/ run[r].pc \in Active \ {"begun"}
           \/ \A q \in Runs : run[q].pc = "mark" => run[q].proc # run[r].proc
  <2>1. CASE Keeping(x, run[r])
    BY <2>1 DEF ListInv, Keeping
  <2>2. CASE Sending(x, run[r], r)
    BY <2>2 DEF Sending
  <2>. QED  BY <1>1, <2>1, <2>2
<1>4. ASSUME NEW q \in Runs, NEW s \in Runs, run'[q].pc \in Active \ {"begun"}
      PROVE  run'[s].pc # "mark"
  <2>1. SUFFICES ASSUME run[s].pc = "mark" PROVE FALSE
    BY <1>2, <1>3
  <2>2. run[q].pc \notin Active \ {"begun"}
    BY <2>1 DEF ListInv
  <2>3. q = r /\ run[r].pc \in Active /\ run[s].proc # run[r].proc
    BY <1>2, <1>3, <1>4, <2>1, <2>2
  <2>4. run[s].proc \in Procs /\ run[r].proc \in Procs
    BY <2>1, <2>3 DEF ListInv, ChatInv, Shapes
  <2>. QED  BY <2>3, <2>4 DEF Single
<1>5. ASSUME ~HasFailed("redis")', NEW q \in Runs, run'[q].pc \in Active PROVE Listed(q)'
  <2>1. run[q].pc \in Active
    BY <1>2, <1>3, <1>5
  <2>2. Listed(q)
    BY <1>0, <1>5, <2>1 DEF ListInv, Grows
  <2>3. CASE q # r \/ Keeping(x, run[r])
    BY <1>0, <1>2, <2>2, <2>3 DEF Listed, Frames, IsTranscript, Keeping
  <2>4. CASE q = r /\ Sending(x, run[r], r)
    <3>1. events \in Seq(Frame) /\ run[r].queue \in Seq(Frame) /\ run[r].sent \in Nat
      BY <1>0 DEF ListInv, Handler
    <3>2. /\ Len(events \o run[r].queue) = run[r].sent
          /\ InOrder(events \o run[r].queue, r)
      BY <2>2, <2>4 DEF Listed, Frames, IsTranscript, InOrder
    <3>3. PICK last \in BOOLEAN :
            x.queue = Append(run[r].queue, [run |-> r, n |-> run[r].sent + 1, end |-> last])
      BY <2>4 DEF Sending
    <3>4. x.sent = run[r].sent + 1
      BY <2>4 DEF Sending
    <3> DEFINE q2 == Append(run[r].queue, [run |-> r, n |-> run[r].sent + 1, end |-> last])
    <3>5. Len(events \o q2) = run[r].sent + 1 /\ InOrder(events \o q2, r)
      BY <3>1, <3>2, <3>3, TranscriptGrows
    <3>6. Len(events \o x.queue) = x.sent /\ InOrder(events \o x.queue, r)
      BY <3>3, <3>4, <3>5
    <3>. QED  BY <1>0, <1>2, <2>2, <2>4, <3>6 DEF Listed, Frames, IsTranscript, InOrder
  <2>. QED  BY <1>1, <2>3, <2>4
<1>6. events' \in Seq(Frame)
  BY <1>0 DEF ListInv
<1>7. ASSUME NEW q \in Runs
      PROVE  /\ run'[q].pc \notin Active => run'[q].queue = <<>>
             /\ run'[q].pc \in {"new", "asked", "begun"} =>
                  run'[q].sent = 0 /\ run'[q].queue = <<>>
             /\ run'[q].pc = "mark" => run'[q].proc \in Procs
  <2>1. CASE q = r
    BY <1>2, <1>3, <2>1
  <2>2. CASE q # r
    BY <1>2, <2>2 DEF ListInv
  <2>. QED  BY <2>1, <2>2
<1>. QED  BY <1>4, <1>5, <1>6, <1>7 DEF ListInv

\* What append does while Redis answers, and what it never does.
LEMMA Appends ==
  ASSUME Shapes, events \in Seq(Frame), NEW r \in Runs, AppendNext(r)
  PROVE  LET x == [run[r] EXCEPT !.queue = Tail(run[r].queue)] IN
         /\ Grows /\ UNCHANGED <<live, meta, tail>>
         /\ run[r].queue # <<>> /\ events' \in Seq(Frame)
         /\ x \in Handler /\ run' = [run EXCEPT ![r] = x]
         /\ ~HasFailed("redis")' =>
              /\ events' \o Tail(run[r].queue) = Frames(r)
              /\ events' = Append(events, Head(run[r].queue))
              /\ eventsTtl' = "long"
<1> DEFINE q == run[r].queue
           f == Head(q)
           l == Tail(q)
           x == [run[r] EXCEPT !.queue = l]
<1>1. q \in Seq(Frame) /\ q # <<>> /\ run[r] \in Handler
  BY DEF Shapes, Handler, AppendNext
<1>2. f \in Frame /\ l \in Seq(Frame)
  BY <1>1, HeadTailProperties
<1>3. /\ Append(events, f) \in Seq(Frame)
      /\ Append(events, f) \o l = events \o q
  BY <1>1, MoveLine
<1>4. events \o <<f, f>> \in Seq(Frame)
  BY <1>2
<1>5. append(f)
  BY DEF AppendNext
<1>6. Grows
  BY <1>5, SameFaults, FaultGrows DEF append
<1>7. events' \in Seq(Frame)
  BY <1>3, <1>4, <1>5 DEF append
<1>8. ~HasFailed("redis")' => events' = Append(events, f) /\ eventsTtl' = "long"
  BY <1>5, FaultGrows DEF append
<1>9. run' = [run EXCEPT ![r] = x]
  BY DEF AppendNext
<1>10. UNCHANGED <<live, meta, tail>>
  BY DEF AppendNext
<1> HIDE DEF l
<1>11. x \in Handler
  BY <1>1, <1>2 DEF Handler
<1>. QED  BY <1>1, <1>3, <1>6, <1>7, <1>8, <1>9, <1>10, <1>11 DEF Frames, l

LEMMA AppendList ==
  ASSUME Single, ChatInv, ListInv, NEW r \in Runs, AppendNext(r)
  PROVE  ListInv'
<1> USE ActiveRuns
<1> DEFINE l == Tail(run[r].queue)
           x == [run[r] EXCEPT !.queue = l]
<1>1. /\ Grows /\ run[r].queue # <<>> /\ events' \in Seq(Frame)
      /\ x \in Handler /\ run' = [run EXCEPT ![r] = x]
      /\ ~HasFailed("redis")' => events' \o l = Frames(r) /\ eventsTtl' = "long"
  BY Appends DEF ChatInv, ListInv
<1>2. run[r] \in Handler /\ run \in [Runs -> Handler]
  BY DEF ChatInv, Shapes
<1>3. run[r].pc \in Active \ {"begun"}
  BY <1>1 DEF ListInv
<1>4. x.pc = run[r].pc /\ x.queue = l /\ x.sent = run[r].sent
  BY <1>2 DEF Handler
<1> HIDE DEF x, l
<1>5. run'[r] = x /\ \A q \in Runs \ {r} : run'[q] = run[q]
  BY <1>1, <1>2
<1>6. ASSUME ~HasFailed("redis")', NEW q \in Runs, run'[q].pc \in Active PROVE Listed(q)'
  <2>1. q = r
    BY <1>3, <1>4, <1>5, <1>6, OneLive
  <2>2. Listed(r)
    BY <1>1, <1>3, <1>6 DEF ListInv, Grows
  <2>3. Frames(r)' = Frames(r)
    BY <1>1, <1>4, <1>5, <1>6 DEF Frames
  <2>4. IsTranscript(Frames(r), r)'
    BY <1>4, <1>5, <2>2, <2>3 DEF Listed, IsTranscript
  <2>. QED  BY <1>1, <1>6, <2>1, <2>4 DEF Listed
<1>. QED  BY <1>1, <1>3, <1>4, <1>5, <1>6 DEF ListInv

\* the handlers other than r stay, and handler r goes from y to x
LEMMA BeginList ==
  ASSUME Single, ChatInv, ListInv, NEW r \in Runs, Begin(r)
  PROVE  ListInv'
<1> USE ActiveRuns
<1>0. /\ Shapes /\ run[r] \in Handler /\ run[r].pc = "asked" /\ run[r].proc \in Procs
      /\ events \in Seq(Frame) /\ run[r].sent = 0 /\ run[r].queue = <<>>
  BY DEF ChatInv, ListInv, Shapes, Begin, At
<1>1. CASE isLive(run[r].proc)
  <2>1. Goto(r, "refused") /\ Grows /\ UNCHANGED <<meta, events, eventsTtl, tail>>
    BY <1>0, <1>1, SameFaults DEF Begin, runVars
  <2>2. Moves(r)
    BY <1>0, <2>1, GotoMoves
  <2>. QED  BY <2>2, MovesList
<1>2. CASE ~isLive(run[r].proc)
  <2>1. live[run[r].proc] = NoRun /\ begin(run[r].proc, r) /\ Goto(r, "begun")
    BY <1>2 DEF isLive, Begin
  <2>2. /\ Grows /\ events' \in Seq(Frame)
        /\ HasFailed("redis")' \/ (events' = <<>> /\ eventsTtl' = "long")
    <3>1. <<>> \in Seq(Frame)
      BY EmptySeq
    <3>. QED  BY <1>0, <2>1, <3>1, SameFaults, FaultGrows DEF begin
  <2> DEFINE x == [run[r] EXCEPT !.pc = "begun"]
  <2>3. x.pc = "begun" /\ x.queue = <<>> /\ x.sent = 0
    BY <1>0 DEF Handler
  <2>4. run'[r] = x /\ \A q \in Runs \ {r} : run'[q] = run[q]
    BY <1>0, <2>1 DEF Goto, Shapes
  <2> HIDE DEF x
  <2>5. ASSUME NEW q \in Runs, run[q].pc \in Active PROVE FALSE
    <3>1. run[q].proc \in Procs /\ run[q].proc = run[r].proc
      BY <1>0, <2>5 DEF Shapes, Single
    <3>2. live[run[q].proc] = q
      BY <2>5, <3>1 DEF ChatInv, BusyMeansRunning
    <3>. QED  BY <2>1, <3>1, <3>2
  <2>6. ASSUME ~HasFailed("redis")', NEW q \in Runs, run'[q].pc \in Active PROVE Listed(q)'
    <3>1. q = r
      BY <2>4, <2>5, <2>6
    <3>2. <<>> \o <<>> = <<>> /\ Len(<<>>) = 0
      OBVIOUS
    <3>. QED  BY <2>2, <2>3, <2>4, <2>6, <3>1, <3>2 DEF Listed, Frames, IsTranscript
  <2>. QED  BY <2>2, <2>3, <2>4, <2>5, <2>6 DEF ListInv
<1>. QED  BY <1>1, <1>2

\* one handler leaves the conversation, or is done with it
LEMMA LeaveList ==
  ASSUME Single, ChatInv, ListInv, NEW r \in Runs, NEW x \in Handler,
         run' = [run EXCEPT ![r] = x], Grows, events' = events,
         x.pc \in {"mark", "over"}, x.queue = <<>>,
         \/ run[r].pc = "drain" /\ x.proc = run[r].proc /\ eventsTtl' = eventsTtl
         \/ run[r].pc = "mark" /\ x.pc = "over"
  PROVE  ListInv'
<1> USE ActiveRuns
<1>1. run'[r] = x /\ \A q \in Runs \ {r} : run'[q] = run[q]
  BY DEF ChatInv, Shapes
<1>2. x.pc = "mark" => run[r].pc = "drain" /\ x.proc \in Procs
  BY DEF ChatInv, Shapes
<1>3. ASSUME NEW q \in Runs, run'[q].pc \in Active PROVE q # r /\ run[q].pc \in Active
  BY <1>1, <1>3
<1>4. ASSUME NEW q \in Runs, NEW s \in Runs, run'[q].pc \in Active \ {"begun"}
      PROVE  run'[s].pc # "mark"
  <2>1. q # r /\ run[q].pc \in Active \ {"begun"}
    BY <1>1, <1>4
  <2>2. CASE s = r /\ run[r].pc = "drain"
    BY <2>1, <2>2, OneLive
  <2>3. CASE s = r /\ x.pc = "over"
    BY <1>1, <2>3
  <2>4. CASE s # r
    BY <1>1, <2>1, <2>4 DEF ListInv
  <2>. QED  BY <1>2, <2>2, <2>3, <2>4
<1>5. ASSUME ~HasFailed("redis")', NEW q \in Runs, run'[q].pc \in Active PROVE Listed(q)'
  <2>1. q # r /\ run[q].pc \in Active /\ Listed(q)
    BY <1>3, <1>5 DEF ListInv, Grows
  <2>2. events # <<>> => eventsTtl' = "long"
    <3>1. CASE run[r].pc = "drain"
      BY <2>1, <3>1, OneLive
    <3>2. CASE run[r].pc = "mark"
      <4>1. run[q].sent = 0 /\ run[q].queue = <<>>
        BY <2>1, <3>2 DEF ListInv
      <4>2. Len(events) = 0
        BY <2>1, <4>1 DEF ListInv, Listed, Frames, IsTranscript
      <4>. QED  BY <4>2, EmptySeq DEF ListInv
    <3>. QED  BY <3>1, <3>2
  <2>. QED  BY <1>1, <2>1, <2>2 DEF Listed, Frames, IsTranscript
<1>. QED  BY <1>1, <1>2, <1>4, <1>5 DEF ListInv

LEMMA DrainList == ASSUME Single, ChatInv, ListInv, NEW r \in Runs, Drain(r) PROVE ListInv'
<1> USE ActiveRuns
<1>0. /\ Shapes /\ run[r] \in Handler /\ run[r].pc = "drain" /\ run[r].queue = <<>>
      /\ UNCHANGED <<events, eventsTtl>> /\ meta \in Meta
  BY DEF ChatInv, Shapes, Drain, At
<1> DEFINE x == [run[r] EXCEPT !.pc = "mark", !.read = meta]
           y == [run[r] EXCEPT !.pc = "over"]
<1>1. x \in Handler /\ x.pc = "mark" /\ x.proc = run[r].proc /\ x.queue = <<>>
  BY <1>0 DEF Handler
<1>2. y \in Handler /\ y.pc = "over" /\ y.proc = run[r].proc /\ y.queue = <<>>
  BY <1>0 DEF Handler
<1>3. /\ Grows
      /\ run' = [run EXCEPT ![r] = x] \/ run' = [run EXCEPT ![r] = y]
  BY <1>0, SameFaults, FaultGrows DEF Drain, Goto
<1> HIDE DEF x, y
<1>. QED  BY <1>0, <1>1, <1>2, <1>3, LeaveList

LEMMA MarkList == ASSUME Single, ChatInv, ListInv, NEW r \in Runs, Mark(r) PROVE ListInv'
<1> USE ActiveRuns
<1>0. Shapes /\ run[r] \in Handler /\ run[r].pc = "mark" /\ run[r].queue = <<>>
  BY DEF ChatInv, ListInv, Shapes, Mark, At
<1>1. Grows /\ events' = events
  BY <1>0, SameFaults, FaultGrows DEF Mark, markDone
<1> DEFINE x == [run[r] EXCEPT !.pc = "over"]
<1>2. x \in Handler /\ x.pc = "over" /\ x.queue = <<>>
  BY <1>0 DEF Handler
<1>3. run' = [run EXCEPT ![r] = x]
  BY DEF Mark, Goto
<1> HIDE DEF x
<1>. QED  BY <1>0, <1>1, <1>2, <1>3, LeaveList

LEMMA ExpireList == ASSUME ListInv, Expire PROVE ListInv'
<1> USE ActiveRuns
<1>1. UNCHANGED <<faults, run>> /\ events' \in {events, <<>>}
  BY DEF Expire, expire
<1>2. events' \in Seq(Frame)
  BY <1>1, EmptySeq DEF ListInv
<1>3. ASSUME ~HasFailed("redis"), NEW r \in Runs, run[r].pc \in Active PROVE Listed(r)'
  <2>1. expire({"short"})
    BY <1>3 DEF Expire
  <2>2. Listed(r)
    BY <1>3 DEF ListInv
  <2>3. CASE events = <<>>
    BY <1>1, <2>2, <2>3 DEF Listed, Frames, IsTranscript
  <2>4. CASE events # <<>>
    <3>1. eventsTtl = "long"
      BY <2>2, <2>4 DEF Listed
    <3>2. events' = events /\ eventsTtl' = eventsTtl
      BY <2>1, <3>1 DEF expire
    <3>. QED  BY <1>1, <2>2, <3>2 DEF Listed, Frames, IsTranscript
  <2>. QED  BY <2>3, <2>4
<1>. QED  BY <1>1, <1>2, <1>3 DEF ListInv, HasFailed

LEMMA CrashList == ASSUME ChatInv, ListInv, NEW p \in Procs, Crash(p) PROVE ListInv'
<1> USE ActiveRuns
<1>0. UNCHANGED <<events, eventsTtl, faults>> /\ run \in [Runs -> Handler]
  BY DEF ChatInv, Shapes, Crash
<1> DEFINE Dies(r) == run[r].proc = p /\ run[r].pc \in Active \union {"asked", "mark"}
           y(r) == [run[r] EXCEPT !.pc = "dead", !.queue = <<>>]
<1>1. \A r \in Runs : y(r).pc = "dead" /\ y(r).queue = <<>>
  BY <1>0 DEF Handler
<1>2. run' = [r \in Runs |-> IF Dies(r) THEN y(r) ELSE run[r]]
  BY DEF Crash
<1> HIDE DEF y
<1>3. \A r \in Runs :
        run'[r] = run[r] \/ (run'[r].pc = "dead" /\ run'[r].queue = <<>>)
  BY <1>1, <1>2
<1>4. ASSUME ~HasFailed("redis")', NEW r \in Runs, run'[r].pc \in Active PROVE Listed(r)'
  <2>1. run'[r] = run[r] /\ ~HasFailed("redis")
    BY <1>0, <1>3, <1>4 DEF HasFailed
  <2>2. Listed(r)
    BY <1>4, <2>1 DEF ListInv
  <2>. QED  BY <1>0, <2>1, <2>2 DEF Listed, Frames, IsTranscript
<1>. QED  BY <1>0, <1>3, <1>4 DEF ListInv

LEMMA ListInit == Init => ListInv
<1> USE ActiveRuns
<1>. SUFFICES ASSUME Init PROVE ListInv
  OBVIOUS
<1>1. \A r \in Runs : run[r].pc = "new" /\ run[r].sent = 0 /\ run[r].queue = <<>>
  BY DEF Init, NewRun
<1>2. events \in Seq(Frame)
  BY EmptySeq DEF Init, RunInit
<1>. QED  BY <1>1, <1>2 DEF ListInv

\* a step of a tail leaves the runs and Redis alone
LEMMA TailsOnly ==
  ASSUME Shapes, NEW t \in Tails,
         TailStep(t) \/ Detach(t) \/ \E p \in Procs : Attach(t, p)
  PROVE  Grows /\ UNCHANGED <<live, meta, events, eventsTtl, run>>
BY SameFaults, FaultGrows DEF TailStep, Poll, Look, Detach, Attach, runVars

LEMMA ListStep == ASSUME Single PROVE ChatInv /\ ListInv /\ [Next]_vars => ListInv'
<1>. SUFFICES ASSUME ChatInv, ListInv, [Next]_vars PROVE ListInv'
  OBVIOUS
<1>0. Shapes
  BY DEF ChatInv
<1>1. ASSUME Grows, UNCHANGED <<events, eventsTtl, run>> PROVE ListInv'
  BY <1>1 DEF ListInv, Listed, Frames, IsTranscript, Grows
<1>2. CASE UNCHANGED vars
  BY <1>0, <1>1, <1>2, SameFaults DEF vars, runVars
<1>3. ASSUME NEW r \in Runs, RunStep(r) PROVE ListInv'
  BY <1>0, <1>3, BeginList, StartMoves, ReturnsMoves, SavesMoves, RecordsMoves, CatchMoves,
     DrainList, MarkList, MovesList DEF RunStep
<1>4. ASSUME NEW t \in Tails, TailStep(t) \/ Detach(t) \/ \E p \in Procs : Attach(t, p)
      PROVE  ListInv'
  BY <1>0, <1>1, <1>4, TailsOnly
<1>5. CASE Next
  BY <1>0, <1>3, <1>4, <1>5, AppendList, CallbackMoves, ThrowsMoves, PostMoves, CancelMoves,
     MovesList, CrashList, ExpireList DEF Next
<1>. QED  BY <1>2, <1>5

LEMMA ListCorrect == ASSUME Single PROVE Spec => [](ChatInv /\ ListInv)
BY ChatInit, ChatStep, ListInit, ListStep, PTL DEF Spec

\* With one API process, as it is deployed: while a run is live and Redis
\* answers, the list is exactly what it has sent, however many questions are
\* asked, stopped or refused before (chat-run.service.ts begin, append).
THEOREM OneRunInList == ASSUME Single PROVE Spec => []ListIsOneRun
<1>1. ListInv => ListIsOneRun
  BY DEF ListInv, Listed, Frames, ListIsOneRun
<1>. QED  BY <1>1, ListCorrect, PTL
-----------------------------------------------------------------------------
(* With one process and one question, what a reader is given *)

\* the keys of run r in Redis: both go together, and hold its frames as long
\* as they are there; a terminal frame is the last one
Stored(r) ==
  /\ run[r].pc \in {"new", "asked", "refused"} => meta = NoMeta /\ events = <<>>
  /\ run[r].pc \in Active \union {"mark"} => meta = RunningMeta(r) /\ eventsTtl = "long"
  /\ run[r].pc = "mark" => run[r].read = RunningMeta(r)
  /\ meta # NoMeta => meta.ttl = eventsTtl
  /\ meta # NoMeta /\ run[r].pc \in {"mark", "over"} => Len(events) = run[r].sent
  /\ InOrder(events, r) /\ Len(events) <= run[r].sent
  /\ \A i \in 1..Len(Frames(r)) : Frames(r)[i].end =>
       i = run[r].sent /\ run[r].pc \in {"drain", "mark", "over", "dead"}

\* a tail that has ended by itself was given everything, or all there is
Told(x, r) == \/ Ended(r) /\ IsTranscript(x.seen, r)
              \/ run[r].pc = "dead" /\ InOrder(x.seen, r)

\* A tail has a prefix of the list, without its last frame.  Once it waits
\* for a run that is over, it has read it all before it gives up.
Follows(x, r) ==
  /\ x.pc = "new" => x.seen = <<>> /\ x.idle = 0
  /\ x.pc \in {"tail", "look"} =>
       /\ meta # NoMeta /\ x.proc \in Procs
       /\ x.idle > 0 => run[r].pc \notin Active
       /\ Len(x.seen) <= Len(events)
       /\ \A i \in 1..Len(x.seen) : x.seen[i] = events[i] /\ ~events[i].end
  /\ x.pc = "look" /\ x.idle > 0 => Len(x.seen) = Len(events)
  /\ x.pc = "ended" => Told(x, r)

Reader == [pc : TailPc, proc : Procs \union {NoProc}, idle : Nat, seen : Seq(Frame)]

ReadInv(r) ==
  ~HasFailed("redis") =>
    /\ Stored(r)
    /\ tail \in [Tails -> Reader]
    /\ \A t \in Tails : Follows(tail[t], r)

LEMMA PrefixOfFrames ==
  ASSUME NEW e \in Seq(Frame), NEW q \in Seq(Frame)
  PROVE  /\ Len(e) <= Len(e \o q) /\ Len(e) \in Nat
         /\ \A i \in 1..Len(e) : (e \o q)[i] = e[i] /\ i \in 1..Len(e \o q)
<1>1. Len(e) \in Nat /\ Len(q) \in Nat
  BY LenProperties
<1>2. /\ Len(e \o q) = Len(e) + Len(q)
      /\ \A i \in 1 .. Len(e) + Len(q) : (e \o q)[i] = IF i <= Len(e) THEN e[i] ELSE q[i - Len(e)]
  BY ConcatProperties
<1>3. ASSUME NEW i \in 1..Len(e) PROVE i \in 1..Len(e) + Len(q) /\ i <= Len(e)
  BY <1>1
<1>. QED  BY <1>1, <1>2, <1>3

LEMMA RunningIsMeta == ASSUME NEW r \in Runs PROVE RunningMeta(r) # NoMeta /\ RunningMeta(r).ttl = "long"
BY DEF RunningMeta, NoMeta

\* The tails stay: what happens to a reader when the run goes on.
LEMMA FollowsOn ==
  ASSUME NEW r \in Runs, NEW x \in Reader, Follows(x, r),
         x.pc \in {"tail", "look"} =>
           /\ meta' # NoMeta
           /\ Len(events) <= Len(events')
           /\ \A i \in 1..Len(x.seen) : events'[i] = events[i]
           /\ run'[r].pc \in Active => run[r].pc \in Active
           /\ run[r].pc \notin Active => events' = events,
         run[r].pc = "dead" => run'[r].pc = "dead",
         Ended(r) /\ IsTranscript(x.seen, r) =>
           \/ Ended(r)' /\ run'[r].sent = run[r].sent
           \/ run'[r].pc = "dead",
         Len(events) \in Nat, Len(events') \in Nat
  PROVE  Follows(x, r)'
<1>0. x.seen \in Seq(Frame) /\ Len(x.seen) \in Nat /\ x.idle \in Nat
  BY LenProperties DEF Reader
<1>1. ASSUME x.pc = "ended" PROVE Told(x, r)'
  <2>1. CASE run[r].pc = "dead" /\ InOrder(x.seen, r)
    BY <2>1 DEF Told, InOrder
  <2>2. CASE Ended(r) /\ IsTranscript(x.seen, r)
    BY <2>2 DEF Told, InOrder, IsTranscript
  <2>. QED  BY <1>1, <2>1, <2>2 DEF Follows, Told
<1>2. ASSUME x.pc \in {"tail", "look"}
      PROVE  /\ meta' # NoMeta /\ x.proc \in Procs
             /\ x.idle > 0 => run'[r].pc \notin Active
             /\ Len(x.seen) <= Len(events')
             /\ \A i \in 1..Len(x.seen) : x.seen[i] = events'[i] /\ ~events'[i].end
  BY <1>0, <1>2 DEF Follows
<1>3. ASSUME x.pc = "look", x.idle > 0 PROVE Len(x.seen) = Len(events')
  <2>1. run[r].pc \notin Active
    BY <1>3 DEF Follows
  <2>. QED  BY <1>3, <2>1 DEF Follows
<1>. QED  BY <1>1, <1>2, <1>3 DEF Follows

LEMMA KeptTypes ==
  ASSUME ChatInv, ListInv, NEW r \in Runs
  PROVE  /\ Shapes /\ run[r] \in Handler /\ run \in [Runs -> Handler]
         /\ events \in Seq(Frame) /\ Len(events) \in Nat
         /\ run[r].queue \in Seq(Frame) /\ run[r].sent \in Nat
         /\ Frames(r) \in Seq(Frame) /\ Len(Frames(r)) \in Nat
         /\ Len(events) <= Len(Frames(r))
         /\ \A i \in 1..Len(events) : i \in 1..Len(Frames(r)) /\ Frames(r)[i] = events[i]
         /\ run[r].queue = <<>> => Frames(r) = events
<1>1. Shapes /\ run[r] \in Handler /\ run \in [Runs -> Handler] /\ events \in Seq(Frame)
  BY DEF ChatInv, ListInv, Shapes
<1>2. run[r].queue \in Seq(Frame) /\ run[r].sent \in Nat
  BY <1>1 DEF Handler
<1>3. Frames(r) \in Seq(Frame) /\ Len(Frames(r)) \in Nat
  BY <1>1, <1>2, ConcatProperties, LenProperties DEF Frames
<1>4. run[r].queue = <<>> => Frames(r) = events
  BY <1>1, ConcatEmptySeq DEF Frames
<1>. QED  BY <1>1, <1>2, <1>3, <1>4, PrefixOfFrames DEF Frames

LEMMA MovesRead ==
  ASSUME ChatInv, ListInv, NEW r \in Runs, ReadInv(r), Moves(r)
  PROVE  ReadInv(r)'
<1> USE ActiveRuns, KeptTypes
<1>. SUFFICES ASSUME ~HasFailed("redis")'
              PROVE  Stored(r)' /\ (tail \in [Tails -> Reader])' /\ \A t \in Tails : Follows(tail[t], r)'
  BY DEF ReadInv, Moves
<1>0. /\ UNCHANGED <<meta, events, eventsTtl, tail>> /\ ~HasFailed("redis")
      /\ Stored(r) /\ tail \in [Tails -> Reader] /\ \A t \in Tails : Follows(tail[t], r)
      /\ run[r].pc \in Active => Listed(r)
  BY DEF ReadInv, Moves, Grows, ListInv
<1>1. PICK x \in Handler : /\ run' = [run EXCEPT ![r] = x] /\ x.read = run[r].read
                           /\ Keeping(x, run[r]) \/ Sending(x, run[r], r)
  BY DEF Moves
<1>2. run'[r] = x
  BY <1>1
<1>3. /\ x.pc \in {"new", "asked", "refused"} => run[r].pc \in {"new", "asked", "refused"}
      /\ x.pc \in Active \union {"mark"} => run[r].pc \in Active \union {"mark"}
      /\ x.pc \in {"mark", "over"} => x.pc = run[r].pc /\ x.sent = run[r].sent
      /\ run[r].pc \in {"drain", "mark", "over", "dead"} => x.pc = run[r].pc /\ x.sent = run[r].sent
      /\ x.pc \in Active => run[r].pc \in Active
      /\ x.sent >= run[r].sent
  <2>1. CASE Keeping(x, run[r])
    BY <2>1 DEF Keeping
  <2>2. CASE Sending(x, run[r], r)
    BY <2>2 DEF Sending
  <2>. QED  BY <1>1, <2>1, <2>2
<1>4. ASSUME NEW i \in 1..Len(Frames(r)'), Frames(r)'[i].end
      PROVE  i = x.sent /\ x.pc \in {"drain", "mark", "over", "dead"}
  <2>1. CASE Keeping(x, run[r])
    BY <1>0, <1>2, <1>3, <1>4, <2>1 DEF Keeping, Frames, Stored
  <2>2. CASE Sending(x, run[r], r)
    <3>1. PICK last \in BOOLEAN :
            /\ x.queue = Append(run[r].queue, [run |-> r, n |-> run[r].sent + 1, end |-> last])
            /\ last => x.pc = "drain"
      BY <2>2 DEF Sending
    <3> DEFINE f == [run |-> r, n |-> run[r].sent + 1, end |-> last]
    <3>2. f \in Frame /\ f.end = last
      BY <3>1 DEF Frame
    <3> HIDE DEF f
    <3>3. /\ Len(Frames(r)') = Len(Frames(r)) + 1
          /\ \A j \in 1..Len(Frames(r)) : Frames(r)'[j] = Frames(r)[j]
          /\ Frames(r)'[Len(Frames(r)) + 1] = f
      <4>1. Frames(r)' = events \o Append(run[r].queue, f)
        BY <1>0, <1>2, <3>1 DEF Frames, f
      <4>. QED  BY <3>2, <4>1, SendLine DEF Frames
    <3>4. Len(Frames(r)) = run[r].sent
      BY <1>0, <2>2 DEF Sending, Listed, IsTranscript
    <3>5. CASE i \in 1..Len(Frames(r))
      BY <1>0, <1>4, <2>2, <3>3, <3>5 DEF Stored, Sending
    <3>6. CASE i = Len(Frames(r)) + 1
      BY <1>4, <2>2, <3>1, <3>2, <3>3, <3>4, <3>6 DEF Sending
    <3>. QED  BY <1>4, <3>3, <3>5, <3>6
  <2>. QED  BY <1>1, <2>1, <2>2
<1>5. Stored(r)'
  <2>1. InOrder(events', r) /\ Len(events') <= x.sent
    <3>1. InOrder(events, r) /\ Len(events) <= run[r].sent
      BY <1>0 DEF Stored
    <3>2. x.sent \in Nat
      BY DEF Handler
    <3>. QED  BY <1>0, <1>3, <3>1, <3>2
  <2>2. /\ x.pc \in {"new", "asked", "refused"} => meta = NoMeta /\ events = <<>>
        /\ x.pc \in Active \union {"mark"} => meta = RunningMeta(r) /\ eventsTtl = "long"
        /\ x.pc = "mark" => x.read = RunningMeta(r)
        /\ meta # NoMeta => meta.ttl = eventsTtl
        /\ meta # NoMeta /\ x.pc \in {"mark", "over"} => Len(events) = x.sent
    BY <1>0, <1>1, <1>3 DEF Stored
  <2>. QED  BY <1>0, <1>2, <1>4, <2>1, <2>2 DEF Stored
<1>6. ASSUME NEW t \in Tails PROVE Follows(tail[t], r)'
  <2>1. tail[t] \in Reader /\ Follows(tail[t], r)
    BY <1>0
  <2>2. Follows(tail[t], r) /\ tail[t].pc \in {"tail", "look"} => meta # NoMeta
    BY DEF Follows
  <2>3. Ended(r) => Ended(r)' /\ run'[r].sent = run[r].sent
    BY <1>2, <1>3 DEF Ended
  <2>. QED  BY <1>0, <1>2, <1>3, <2>1, <2>2, <2>3, FollowsOn
<1>. QED  BY <1>0, <1>5, <1>6

LEMMA AppendRead ==
  ASSUME ChatInv, ListInv, NEW r \in Runs, ReadInv(r), AppendNext(r)
  PROVE  ReadInv(r)'
<1> USE ActiveRuns, KeptTypes
<1> DEFINE l == Tail(run[r].queue)
           f == Head(run[r].queue)
           x == [run[r] EXCEPT !.queue = l]
<1>1. /\ Grows /\ run[r].queue # <<>> /\ events' \in Seq(Frame) /\ UNCHANGED <<meta, tail>>
      /\ x \in Handler /\ run' = [run EXCEPT ![r] = x]
      /\ ~HasFailed("redis")' =>
           events' \o l = Frames(r) /\ events' = Append(events, f) /\ eventsTtl' = "long"
  BY Appends
<1>2. x.pc = run[r].pc /\ x.queue = l /\ x.sent = run[r].sent /\ x.read = run[r].read
  BY DEF Handler
<1> HIDE DEF x
<1>3. run'[r] = x
  BY <1>1
<1>. SUFFICES ASSUME ~HasFailed("redis")'
              PROVE  Stored(r)' /\ (tail \in [Tails -> Reader])' /\ \A t \in Tails : Follows(tail[t], r)'
  BY DEF ReadInv
<1>4. /\ Stored(r) /\ tail \in [Tails -> Reader] /\ \A t \in Tails : Follows(tail[t], r)
      /\ run[r].pc \in Active /\ Listed(r)
  BY <1>1 DEF ReadInv, Grows, ListInv
<1>5. f \in Frame /\ l \in Seq(Frame)
  BY <1>1, HeadTailProperties
<1>6. /\ Len(events') = Len(events) + 1
      /\ \A i \in 1..Len(events) : events'[i] = events[i]
  BY <1>1, <1>5, AppendProperties
<1>7. Frames(r)' = Frames(r)
  BY <1>1, <1>2, <1>3 DEF Frames
<1>8. /\ Len(events') <= Len(Frames(r))
      /\ \A i \in 1..Len(events') : i \in 1..Len(Frames(r)) /\ Frames(r)[i] = events'[i]
  BY <1>1, <1>5, PrefixOfFrames
<1> HIDE DEF l, f
<1>9. InOrder(events', r) /\ Len(events') <= run[r].sent
  BY <1>4, <1>8 DEF Listed, IsTranscript, InOrder
<1>10. Stored(r)'
  BY <1>1, <1>2, <1>3, <1>4, <1>7, <1>9 DEF Stored
<1>11. ASSUME NEW t \in Tails PROVE Follows(tail[t], r)'
  <2>1. tail[t] \in Reader /\ Follows(tail[t], r)
    BY <1>4
  <2>2. Ended(r) => Ended(r)' /\ run'[r].sent = run[r].sent
    BY <1>2, <1>3 DEF Ended
  <2>3. tail[t].pc \in {"tail", "look"} =>
          /\ meta' # NoMeta
          /\ \A i \in 1..Len(tail[t].seen) : events'[i] = events[i]
    <3>1. Len(tail[t].seen) \in Nat
      BY <2>1, LenProperties DEF Reader
    <3>. QED  BY <1>1, <1>6, <2>1, <3>1 DEF Follows
  <2>. QED  BY <1>1, <1>2, <1>3, <1>4, <1>6, <2>1, <2>2, <2>3, FollowsOn
<1>. QED  BY <1>1, <1>4, <1>10, <1>11

\* neither a tail nor an end of one is there before begin
LEMMA NobodyReads ==
  ASSUME NEW r \in Runs, Stored(r), run[r].pc \in {"new", "asked", "refused"},
         NEW x, Follows(x, r)
  PROVE  x.pc \notin {"tail", "look", "ended"}
BY ActiveRuns DEF Stored, Follows, Told, Ended

LEMMA BeginRead ==
  ASSUME ChatInv, ListInv, NEW r \in Runs, ReadInv(r), Begin(r)
  PROVE  ReadInv(r)'
<1> USE ActiveRuns, KeptTypes
<1>0. run[r].pc = "asked" /\ run[r].sent = 0 /\ run[r].queue = <<>>
  BY DEF ListInv, Begin, At
<1>1. CASE isLive(run[r].proc)
  <2>1. Goto(r, "refused") /\ Grows /\ UNCHANGED <<meta, events, eventsTtl, tail>>
    BY <1>1, SameFaults DEF Begin, runVars
  <2>2. Moves(r)
    BY <1>0, <2>1, GotoMoves
  <2>. QED  BY <2>2, MovesRead
<1>2. CASE ~isLive(run[r].proc)
  <2>1. begin(run[r].proc, r) /\ Goto(r, "begun") /\ tail' = tail
    BY <1>2 DEF Begin
  <2>2. Grows
    BY <2>1, SameFaults, FaultGrows DEF begin
  <2>. SUFFICES ASSUME ~HasFailed("redis")'
                PROVE  Stored(r)' /\ (tail \in [Tails -> Reader])' /\ \A t \in Tails : Follows(tail[t], r)'
    BY DEF ReadInv
  <2>3. Stored(r) /\ tail \in [Tails -> Reader] /\ \A t \in Tails : Follows(tail[t], r)
    BY <2>2 DEF ReadInv, Grows
  <2>4. meta' = RunningMeta(r) /\ events' = <<>> /\ eventsTtl' = "long"
    BY <2>1, FaultGrows DEF begin
  <2> DEFINE x == [run[r] EXCEPT !.pc = "begun"]
  <2>5. x.pc = "begun" /\ x.queue = <<>> /\ x.sent = 0
    BY <1>0 DEF Handler
  <2>6. run'[r] = x
    BY <2>1 DEF Goto
  <2> HIDE DEF x
  <2>7. Len(<<>>) = 0 /\ <<>> \o <<>> = <<>>
    OBVIOUS
  <2>8. Stored(r)'
    BY <2>4, <2>5, <2>6, <2>7, RunningIsMeta DEF Stored, Frames, InOrder
  <2>9. ASSUME NEW t \in Tails PROVE Follows(tail[t], r)'
    BY <1>0, <2>1, <2>3, NobodyReads DEF Follows
  <2>. QED  BY <2>1, <2>3, <2>8, <2>9
<1>. QED  BY <1>1, <1>2

LEMMA DrainRead ==
  ASSUME ChatInv, ListInv, NEW r \in Runs, ReadInv(r), Drain(r)
  PROVE  ReadInv(r)'
<1> USE ActiveRuns, KeptTypes
<1>0. /\ run[r].pc = "drain" /\ run[r].queue = <<>>
      /\ UNCHANGED <<meta, events, eventsTtl, tail>> /\ meta \in Meta
  BY DEF Shapes, Drain, At
<1> DEFINE x == [run[r] EXCEPT !.pc = "mark", !.read = meta]
<1>1. Grows /\ (HasFailed("redis")' \/ run' = [run EXCEPT ![r] = x])
  BY SameFaults, FaultGrows DEF Drain
<1>. SUFFICES ASSUME ~HasFailed("redis")'
              PROVE  Stored(r)' /\ (tail \in [Tails -> Reader])' /\ \A t \in Tails : Follows(tail[t], r)'
  BY DEF ReadInv
<1>2. /\ Stored(r) /\ tail \in [Tails -> Reader] /\ \A t \in Tails : Follows(tail[t], r)
      /\ Listed(r)
  BY <1>0, <1>1 DEF ReadInv, Grows, ListInv
<1>3. /\ x.pc = "mark" /\ x.read = meta /\ x.queue = run[r].queue /\ x.sent = run[r].sent
  BY <1>0 DEF Handler
<1>4. run'[r] = x
  BY <1>1
<1> HIDE DEF x
<1>5. Frames(r) = events /\ Frames(r)' = events
  BY <1>0, <1>3, <1>4, ConcatEmptySeq DEF Frames
<1>6. Len(events) = run[r].sent
  BY <1>2, <1>5 DEF Listed, IsTranscript
<1>7. Stored(r)'
  BY <1>0, <1>2, <1>3, <1>4, <1>5, <1>6 DEF Stored, InOrder
<1>8. ASSUME NEW t \in Tails PROVE Follows(tail[t], r)'
  <2>1. tail[t] \in Reader /\ Follows(tail[t], r)
    BY <1>2
  <2>2. Ended(r)' /\ run'[r].sent = run[r].sent
    BY <1>3, <1>4 DEF Ended
  <2>3. tail[t].pc \in {"tail", "look"} => meta' # NoMeta
    BY <1>0, <2>1 DEF Follows
  <2>. QED  BY <1>0, <1>3, <1>4, <2>1, <2>2, <2>3, FollowsOn
<1>. QED  BY <1>0, <1>2, <1>7, <1>8

LEMMA MarkRead ==
  ASSUME ChatInv, ListInv, NEW r \in Runs, ReadInv(r), Mark(r)
  PROVE  ReadInv(r)'
<1> USE ActiveRuns, KeptTypes
<1>0. run[r].pc = "mark" /\ run[r].queue = <<>> /\ UNCHANGED <<events, tail>>
  BY DEF ListInv, Mark, markDone, At
<1>1. Grows
  BY SameFaults, FaultGrows DEF Mark, markDone
<1>. SUFFICES ASSUME ~HasFailed("redis")'
              PROVE  Stored(r)' /\ (tail \in [Tails -> Reader])' /\ \A t \in Tails : Follows(tail[t], r)'
  BY DEF ReadInv
<1>2. Stored(r) /\ tail \in [Tails -> Reader] /\ \A t \in Tails : Follows(tail[t], r)
  BY <1>1 DEF ReadInv, Grows
<1>3. run[r].read = RunningMeta(r) /\ meta = RunningMeta(r)
  BY <1>0, <1>2 DEF Stored
<1>4. /\ meta' = [run |-> r, status |-> run[r].status, ttl |-> "short"]
      /\ eventsTtl' = "short"
  BY <1>3, FaultGrows DEF Mark, markDone, RunningMeta
<1>5. meta' # NoMeta /\ meta'.ttl = "short"
  BY <1>4 DEF NoMeta
<1> DEFINE x == [run[r] EXCEPT !.pc = "over"]
<1>6. x.pc = "over" /\ x.queue = <<>> /\ x.sent = run[r].sent
  BY <1>0 DEF Handler
<1>7. run'[r] = x
  BY DEF Mark, Goto
<1> HIDE DEF x
<1>8. Frames(r) = events /\ Frames(r)' = events
  BY <1>0, <1>6, <1>7, ConcatEmptySeq DEF Frames
<1>9. Len(events) = run[r].sent
  BY <1>0, <1>2, <1>3, RunningIsMeta DEF Stored
<1>10. Stored(r)'
  BY <1>0, <1>2, <1>4, <1>5, <1>6, <1>7, <1>8, <1>9 DEF Stored, InOrder
<1>11. ASSUME NEW t \in Tails PROVE Follows(tail[t], r)'
  <2>1. tail[t] \in Reader /\ Follows(tail[t], r)
    BY <1>2
  <2>2. Ended(r)' /\ run'[r].sent = run[r].sent
    BY <1>6, <1>7 DEF Ended
  <2>. QED  BY <1>0, <1>5, <1>6, <1>7, <2>1, <2>2, FollowsOn
<1>. QED  BY <1>0, <1>2, <1>10, <1>11

LEMMA ExpireRead ==
  ASSUME ChatInv, ListInv, NEW r \in Runs, ReadInv(r), Expire
  PROVE  ReadInv(r)'
<1> USE ActiveRuns, KeptTypes
<1>0. UNCHANGED <<run, tail, faults>> /\ \A t \in Tails : tail[t].pc \notin {"tail", "look"}
  BY DEF Expire, expire
<1>. SUFFICES ASSUME ~HasFailed("redis")
              PROVE  Stored(r)' /\ (tail \in [Tails -> Reader])' /\ \A t \in Tails : Follows(tail[t], r)'
  BY <1>0 DEF ReadInv, HasFailed
<1>1. Stored(r) /\ tail \in [Tails -> Reader] /\ \A t \in Tails : Follows(tail[t], r)
  BY DEF ReadInv
<1>2. PICK ttls \in {{"short"}, {"short", "long"}} :
        /\ expire(ttls)
        /\ run[r].pc \in Active \union {"mark"} => ttls = {"short"}
  BY DEF Expire
<1>3. \/ UNCHANGED <<meta, events, eventsTtl>>
      \/ /\ run[r].pc \notin Active \union {"mark"}
         /\ meta' = NoMeta /\ events' \in {events, <<>>}
  <2>1. CASE run[r].pc \in Active \union {"mark"}
    BY <1>1, <1>2, <2>1, RunningIsMeta DEF expire, Stored
  <2>2. CASE run[r].pc \notin Active \union {"mark"} /\ meta # NoMeta /\ meta.ttl \notin ttls
    BY <1>1, <1>2, <2>2 DEF expire, Stored
  <2>3. CASE run[r].pc \notin Active \union {"mark"} /\ (meta = NoMeta \/ meta.ttl \in ttls)
    BY <1>2, <2>3 DEF expire
  <2>. QED  BY <2>1, <2>2, <2>3
<1>4. Stored(r)'
  <2>1. CASE UNCHANGED <<meta, events, eventsTtl>>
    BY <1>0, <1>1, <2>1 DEF Stored, Frames, InOrder
  <2>2. CASE /\ run[r].pc \notin Active \union {"mark"}
             /\ meta' = NoMeta /\ events' \in {events, <<>>}
    <3>1. run[r].queue = <<>>
      BY <2>2 DEF ListInv
    <3>2. Frames(r) = events /\ Frames(r)' = events'
      <4>1. events' \in Seq(Frame)
        BY <2>2, EmptySeq
      <4>. QED  BY <1>0, <3>1, <4>1, ConcatEmptySeq DEF Frames
    <3>3. Len(<<>>) = 0
      OBVIOUS
    <3>4. CASE events' = events
      BY <1>0, <1>1, <2>2, <3>2, <3>4 DEF Stored, InOrder
    <3>5. CASE events' = <<>>
      BY <1>0, <1>1, <2>2, <3>2, <3>3, <3>5 DEF Stored, InOrder
    <3>. QED  BY <2>2, <3>4, <3>5
  <2>. QED  BY <1>3, <2>1, <2>2
<1>5. ASSUME NEW t \in Tails PROVE Follows(tail[t], r)'
  BY <1>0, <1>1 DEF Follows, Told, Ended, IsTranscript
<1>. QED  BY <1>0, <1>1, <1>4, <1>5

LEMMA CrashRead ==
  ASSUME ChatInv, ListInv, NEW r \in Runs, ReadInv(r), NEW p \in Procs, Crash(p)
  PROVE  ReadInv(r)'
<1> USE ActiveRuns, KeptTypes
<1>0. UNCHANGED <<meta, events, eventsTtl, faults>>
  BY DEF Crash
<1>. SUFFICES ASSUME ~HasFailed("redis")
              PROVE  Stored(r)' /\ (tail \in [Tails -> Reader])' /\ \A t \in Tails : Follows(tail[t], r)'
  BY <1>0 DEF ReadInv, HasFailed
<1>1. Stored(r) /\ tail \in [Tails -> Reader] /\ \A t \in Tails : Follows(tail[t], r)
  BY DEF ReadInv
<1> DEFINE Dies == run[r].proc = p /\ run[r].pc \in Active \union {"asked", "mark"}
           y == [run[r] EXCEPT !.pc = "dead", !.queue = <<>>]
           Goes(t) == tail[t].proc = p /\ tail[t].pc \in {"tail", "look"}
           z(t) == [tail[t] EXCEPT !.pc = "cut"]
<1>2. y.pc = "dead" /\ y.queue = <<>> /\ y.sent = run[r].sent
  BY DEF Handler
<1>3. run'[r] = IF Dies THEN y ELSE run[r]
  BY DEF Crash
<1> HIDE DEF y
<1>4. \/ run'[r] = run[r]
      \/ run'[r].pc = "dead" /\ run'[r].queue = <<>> /\ run'[r].sent = run[r].sent
  BY <1>2, <1>3
<1>5. Stored(r)'
  <2>1. CASE run'[r] = run[r]
    BY <1>0, <1>1, <2>1 DEF Stored, Frames, InOrder
  <2>2. CASE run'[r].pc = "dead" /\ run'[r].queue = <<>> /\ run'[r].sent = run[r].sent
    <3>1. Frames(r)' = events
      BY <1>0, <2>2, ConcatEmptySeq DEF Frames
    <3>2. ASSUME NEW i \in 1..Len(events), events[i].end PROVE i = run[r].sent
      BY <1>1, <3>2 DEF Stored
    <3>. QED  BY <1>0, <1>1, <2>2, <3>1, <3>2 DEF Stored, InOrder
  <2>. QED  BY <1>4, <2>1, <2>2
<1>6. ASSUME NEW t \in Tails PROVE z(t) \in Reader /\ z(t).pc = "cut"
  <2>1. tail[t] \in Reader
    BY <1>1
  <2>. QED  BY <2>1 DEF Reader, TailPc
<1>7. tail' = [t \in Tails |-> IF Goes(t) THEN z(t) ELSE tail[t]]
  BY DEF Crash
<1> HIDE DEF z
<1>8. /\ tail' \in [Tails -> Reader]
      /\ \A t \in Tails : tail'[t] = tail[t] \/ tail'[t].pc = "cut"
  BY <1>1, <1>6, <1>7
<1>9. ASSUME NEW t \in Tails, NEW x, x = tail'[t] PROVE Follows(x, r)'
  <2>1. CASE x.pc = "cut"
    BY <2>1 DEF Follows
  <2>2. CASE x = tail[t]
    <3>1. x \in Reader /\ Follows(x, r)
      BY <1>1, <2>2
    <3>2. Ended(r) => \/ Ended(r)' /\ run'[r].sent = run[r].sent
                      \/ run'[r].pc = "dead"
      BY <1>4 DEF Ended
    <3>3. x.pc \in {"tail", "look"} => meta' # NoMeta
      BY <1>0, <3>1 DEF Follows
    <3>. QED  BY <1>0, <1>4, <3>1, <3>2, <3>3, FollowsOn
  <2>. QED  BY <1>8, <1>9, <2>1, <2>2
<1>10. \A t \in Tails : Follows(tail[t], r)'
  BY <1>9
<1>. QED  BY <1>5, <1>8, <1>10
-----------------------------------------------------------------------------
(* steps of a reader *)

\* one tail goes from one state to another
LEMMA OneTail ==
  ASSUME NEW r \in Runs, ReadInv(r), NEW t \in Tails, NEW x \in Reader,
         ~HasFailed("redis"), UNCHANGED <<meta, events, eventsTtl, run>>,
         tail' = [tail EXCEPT ![t] = x], Follows(x, r)
  PROVE  ReadInv(r)'
<1>1. Stored(r) /\ tail \in [Tails -> Reader] /\ \A u \in Tails : Follows(tail[u], r)
  BY DEF ReadInv
<1>2. Stored(r)'
  BY <1>1 DEF Stored, Frames, InOrder
<1>3. tail' \in [Tails -> Reader]
  BY <1>1
<1>4. ASSUME NEW u \in Tails, NEW y, y = tail'[u] PROVE Follows(y, r)'
  <2>1. Follows(y, r)
    BY <1>1, <1>4
  <2>. QED  BY <2>1 DEF Follows, Told, Ended, IsTranscript
<1>5. \A u \in Tails : Follows(tail[u], r)'
  BY <1>4
<1>. QED  BY <1>2, <1>3, <1>5 DEF ReadInv

LEMMA AttachRead ==
  ASSUME NEW r, Runs = {r}, ChatInv, ListInv, ReadInv(r),
         NEW t \in Tails, NEW p \in Procs, Attach(t, p)
  PROVE  ReadInv(r)'
<1> USE ActiveRuns, KeptTypes
<1>0. UNCHANGED <<live, meta, events, eventsTtl, faults, run>>
  BY DEF Attach, runVars
<1>. SUFFICES ASSUME ~HasFailed("redis") PROVE ReadInv(r)'
  BY <1>0 DEF ReadInv, HasFailed
<1>1. /\ Stored(r) /\ tail[t] \in Reader /\ Follows(tail[t], r)
      /\ tail[t].pc = "new" /\ tail[t].seen = <<>> /\ tail[t].idle = 0
  BY DEF ReadInv, Attach, TailAt, Follows
<1> DEFINE to == IF isLive(p) \/ meta # NoMeta THEN "tail" ELSE "empty"
           x == [tail[t] EXCEPT !.proc = p, !.pc = to]
<1>2. tail' = [tail EXCEPT ![t] = x]
  BY DEF Attach
<1>3. to \in TailPc /\ to \in {"tail", "empty"}
  BY DEF TailPc
<1>4. to = "tail" => meta # NoMeta
  <2>. SUFFICES ASSUME isLive(p) PROVE meta # NoMeta
    OBVIOUS
  <2>1. live[p] = r
    BY DEF Shapes, isLive
  <2>2. run[r].pc \in Active
    BY <2>1 DEF ChatInv, BusyMeansRunning
  <2>. QED  BY <1>1, <2>2, RunningIsMeta DEF Stored
<1> HIDE DEF to
<1>5. x \in Reader /\ x.pc = to /\ x.proc = p /\ x.seen = <<>> /\ x.idle = 0
  BY <1>1, <1>3 DEF Reader
<1> HIDE DEF x
<1>6. Len(<<>>) = 0
  OBVIOUS
<1>7. Follows(x, r)
  BY <1>3, <1>4, <1>5, <1>6 DEF Follows
<1>. QED  BY <1>0, <1>2, <1>5, <1>7, OneTail

\* the rest of a sequence, after a prefix of it
LEMMA RestOf ==
  ASSUME NEW S, NEW e \in Seq(S), NEW s \in Seq(S), Len(s) <= Len(e),
         \A i \in 1..Len(s) : s[i] = e[i]
  PROVE  /\ s \o SubSeq(e, Len(s) + 1, Len(e)) = e
         /\ SubSeq(e, Len(s) + 1, Len(e)) = <<>> <=> Len(s) = Len(e)
<1>1. Len(s) \in Nat /\ Len(e) \in Nat
  BY LenProperties
<1>2. SubSeq(e, 1, Len(s)) = s
  <2>1. \A i \in 1..Len(s) : e[i] \in S
    BY ElementOfSeq
  <2>2. /\ SubSeq(e, 1, Len(s)) \in Seq(S)
        /\ Len(SubSeq(e, 1, Len(s))) = IF 1 <= Len(s) THEN Len(s) - 1 + 1 ELSE 0
        /\ \A i \in 1..Len(s) - 1 + 1 : SubSeq(e, 1, Len(s))[i] = e[1 + i - 1]
    BY <1>1, <2>1, SubSeqProperties
  <2>3. Len(SubSeq(e, 1, Len(s))) = Len(s)
    BY <1>1, <2>2
  <2>4. ASSUME NEW i \in 1..Len(s) PROVE SubSeq(e, 1, Len(s))[i] = s[i]
    <3>1. 1 + i - 1 = i /\ Len(s) - 1 + 1 = Len(s)
      BY <1>1
    <3>. QED  BY <2>2, <3>1
  <2>. QED  BY <2>2, <2>3, <2>4, SeqEqual
<1>3. SubSeq(e, 1, Len(s)) \o SubSeq(e, Len(s) + 1, Len(e)) = SubSeq(e, 1, Len(e))
  <2>1. 1 \in 1..Len(e) + 1 /\ Len(s) \in 1 - 1..Len(e) /\ Len(e) \in Len(s)..Len(e)
    BY <1>1
  <2>. QED  BY <2>1, ConcatAdjacentSubSeq
<1>4. SubSeq(e, 1, Len(e)) = e
  BY SubSeqFull
<1>5. ASSUME Len(s) = Len(e) PROVE SubSeq(e, Len(s) + 1, Len(e)) = <<>>
  <2>1. Len(e) < Len(s) + 1 /\ Len(s) + 1 \in Int /\ Len(e) \in Int
    BY <1>1, <1>5
  <2>. QED  BY <2>1, SubSeqEmpty
<1>6. ASSUME SubSeq(e, Len(s) + 1, Len(e)) = <<>> PROVE Len(s) = Len(e)
  BY <1>2, <1>3, <1>4, <1>6, ConcatEmptySeq
<1>. QED  BY <1>2, <1>3, <1>4, <1>5, <1>6

\* What a poll reads, together with what was read before, is the whole list:
\* only its last frame may be a terminal one.
LEMMA PollReads ==
  ASSUME ChatInv, ListInv, NEW r \in Runs, Stored(r), NEW t \in Tails,
         tail[t] \in Reader, Follows(tail[t], r), tail[t].pc = "tail"
  PROVE  /\ tail[t].seen \o Unread(t) = events
         /\ Unread(t) = <<>> <=> Len(tail[t].seen) = Len(events)
         /\ \A i \in 1..Len(events) : events[i].end => i = Len(events) /\ i = run[r].sent
<1>0. events \in Seq(Frame) /\ Len(events) \in Nat /\ run[r].sent \in Nat
      /\ \A i \in 1..Len(events) : i \in 1..Len(Frames(r)) /\ Frames(r)[i] = events[i]
  BY KeptTypes
<1> DEFINE s == tail[t].seen
           n == Len(s)
           m == Len(events)
           last == {i \in n + 1..m : events[i].end}
<1>1. /\ s \in Seq(Frame) /\ n \in Nat /\ m \in Nat /\ n <= m
      /\ \A i \in 1..n : s[i] = events[i]
  BY <1>0, LenProperties DEF Reader, Follows
<1>2. ASSUME NEW i \in 1..m, events[i].end PROVE i = m /\ i = run[r].sent
  <2>1. i = run[r].sent /\ m <= run[r].sent
    BY <1>0, <1>2 DEF Stored
  <2>. QED  BY <1>0, <2>1
<1>3. Unread(t) = SubSeq(events, n + 1, m)
  <2>1. CASE last = {}
    BY <2>1 DEF Unread
  <2>2. CASE last # {}
    <3>1. last = {m}
      BY <1>1, <1>2, <2>2
    <3> DEFINE c == CHOOSE i \in last : \A j \in last : i <= j
    <3>2. c = m
      <4>1. \E i \in last : \A j \in last : i <= j
        BY <1>1, <3>1
      <4>2. c \in last
        BY <4>1
      <4>. QED  BY <3>1, <4>2
    <3>3. Unread(t) = SubSeq(events, n + 1, c)
      BY <2>2 DEF Unread
    <3>. QED  BY <3>2, <3>3
  <2>. QED  BY <2>1, <2>2
<1>4. /\ s \o SubSeq(events, n + 1, m) = events
      /\ SubSeq(events, n + 1, m) = <<>> <=> n = m
  BY <1>0, <1>1, RestOf
<1>. QED  BY <1>2, <1>3, <1>4

LEMMA PollRead ==
  ASSUME NEW r, Runs = {r}, ChatInv, ListInv, ReadInv(r), NEW t \in Tails, Poll(t)
  PROVE  ReadInv(r)'
<1> USE ActiveRuns
<1>0. UNCHANGED <<meta, events, eventsTtl, run>> /\ Grows
  BY SameFaults, FaultGrows DEF Poll, ChatInv
<1>. SUFFICES ASSUME ~HasFailed("redis")' PROVE ReadInv(r)'
  BY DEF ReadInv
<1>1. /\ ~HasFailed("redis") /\ Stored(r) /\ tail[t] \in Reader /\ Follows(tail[t], r)
      /\ tail[t].pc = "tail"
  BY <1>0 DEF ReadInv, Grows, Poll, TailAt
<1>2. /\ tail[t].seen \o Unread(t) = events
      /\ Unread(t) = <<>> <=> Len(tail[t].seen) = Len(events)
      /\ \A i \in 1..Len(events) : events[i].end => i = Len(events) /\ i = run[r].sent
  BY <1>1, PollReads
<1>3. events \in Seq(Frame) /\ Len(events) \in Nat /\ run[r].sent \in Nat
  BY KeptTypes
<1>4. Len(tail[t].seen) \in Nat /\ Len(tail[t].seen) <= Len(events)
  BY <1>1, LenProperties DEF Reader, Follows
<1> DEFINE to == IF Unread(t) # <<>> /\ events[Len(events)].end THEN "ended" ELSE "look"
           x == [tail[t] EXCEPT !.seen = events, !.pc = to]
<1>5. tail' = [tail EXCEPT ![t] = x]
  <2>1. tail' = [tail EXCEPT ![t].seen = tail[t].seen \o Unread(t),
                   ![t].pc = IF /\ Unread(t) # <<>>
                                /\ (tail[t].seen \o Unread(t))[Len(tail[t].seen \o Unread(t))].end
                               THEN "ended" ELSE "look"]
    BY <1>1, FaultGrows DEF Poll, ChatInv
  <2>. QED  BY <1>2, <2>1
<1>6. to \in TailPc
  BY DEF TailPc
<1>7. to = "ended" => Len(events) \in 1..Len(events) /\ events[Len(events)].end
  <2>. SUFFICES ASSUME Unread(t) # <<>>, events[Len(events)].end
                PROVE  Len(events) \in 1..Len(events)
    OBVIOUS
  <2>. QED  BY <1>2, <1>3, <1>4
<1>8. to = "look" => \A i \in 1..Len(events) : ~events[i].end
  <2>. SUFFICES ASSUME to = "look", NEW i \in 1..Len(events), events[i].end PROVE FALSE
    OBVIOUS
  <2>1. i = Len(events)
    BY <1>2
  <2>2. Unread(t) = <<>>
    BY <2>1
  <2>3. i \in 1..Len(tail[t].seen)
    BY <1>2, <2>2
  <2>. QED  BY <1>1, <2>3 DEF Follows
<1>9. to \in {"ended", "look"}
  OBVIOUS
<1> HIDE DEF to
<1>10. /\ x \in Reader /\ x.pc = to /\ x.seen = events
       /\ x.proc = tail[t].proc /\ x.idle = tail[t].idle
  BY <1>1, <1>3, <1>6 DEF Reader
<1> HIDE DEF x
<1>11. to = "ended" => Told(x, r)
  <2>. SUFFICES ASSUME to = "ended" PROVE Told(x, r)
    OBVIOUS
  <2>1. Len(events) = run[r].sent
    BY <1>2, <1>7
  <2>2. run[r].pc \in {"drain", "mark", "over", "dead"}
    <3>1. /\ Len(events) \in 1..Len(Frames(r))
          /\ Frames(r)[Len(events)] = events[Len(events)]
      BY <1>7, KeptTypes
    <3>. QED  BY <1>1, <1>7, <3>1 DEF Stored
  <2>. QED  BY <1>1, <1>10, <2>1, <2>2 DEF Told, Ended, Stored, IsTranscript, InOrder
<1>12. Follows(x, r)
  BY <1>1, <1>3, <1>8, <1>9, <1>10, <1>11 DEF Follows
<1>. QED  BY <1>0, <1>1, <1>5, <1>10, <1>12, OneTail

LEMMA LookRead ==
  ASSUME Single, EmptyRounds > 0, StuckRounds > 0, NEW r, Runs = {r},
         ChatInv, ListInv, ReadInv(r), NEW t \in Tails, Look(t)
  PROVE  ReadInv(r)'
<1> USE ActiveRuns
<1>0. UNCHANGED <<live, meta, events, eventsTtl, faults, run>>
  BY DEF Look, runVars
<1>. SUFFICES ASSUME ~HasFailed("redis") PROVE ReadInv(r)'
  BY <1>0 DEF ReadInv, HasFailed
<1> DEFINE y == tail[t]
           idle == IF isLive(y.proc) THEN 0 ELSE y.idle + 1
           quit == (y.seen = <<>> /\ idle > EmptyRounds) \/ idle > StuckRounds
           to == IF quit THEN "ended" ELSE "tail"
           x == [tail[t] EXCEPT !.idle = idle, !.pc = to]
<1>1. Stored(r) /\ y \in Reader /\ Follows(y, r) /\ y.pc = "look" /\ y.idle \in Nat
  BY DEF ReadInv, Look, TailAt, Reader
<1>2. tail' = [tail EXCEPT ![t] = x]
  BY DEF Look
<1>3. idle \in Nat /\ (idle > 0 => ~isLive(y.proc)) /\ (idle > 1 => y.idle > 0)
  BY <1>1
<1>4. to \in {"ended", "tail"} /\ to \in TailPc /\ (to = "ended" => idle > 1)
  BY <1>3 DEF TailPc
<1>5. ~isLive(y.proc) => run[r].pc \notin Active
  <2>. SUFFICES ASSUME run[r].pc \in Active PROVE isLive(y.proc)
    OBVIOUS
  <2>1. run[r].proc \in Procs /\ y.proc \in Procs
    BY <1>1 DEF ChatInv, Shapes, Follows
  <2>2. live[y.proc] = r
    BY <2>1 DEF ChatInv, BusyMeansRunning, Single
  <2>. QED  BY <2>2 DEF isLive
<1> HIDE DEF idle, to
<1>6. /\ x \in Reader /\ x.pc = to /\ x.idle = idle
      /\ x.seen = y.seen /\ x.proc = y.proc
  BY <1>1, <1>3, <1>4 DEF Reader
<1> HIDE DEF x
<1>7. to = "ended" => Told(x, r)
  <2>. SUFFICES ASSUME to = "ended" PROVE Told(x, r)
    OBVIOUS
  <2>1. y.idle > 0 /\ run[r].pc \notin Active
    BY <1>3, <1>4, <1>5
  <2>2. Len(y.seen) = Len(events) /\ \A i \in 1..Len(y.seen) : y.seen[i] = events[i]
    BY <1>1, <2>1 DEF Follows
  <2>3. meta # NoMeta
    BY <1>1 DEF Follows
  <2>4. run[r].pc \in {"mark", "over", "dead"}
    <3>1. run[r].pc \in RunPc
      BY DEF ChatInv, Shapes, Handler
    <3>. QED  BY <1>1, <2>1, <2>3, <3>1 DEF Stored
  <2>. QED  BY <1>1, <1>6, <2>2, <2>3, <2>4 DEF Told, Ended, Stored, IsTranscript, InOrder
<1>8. Follows(x, r)
  BY <1>1, <1>3, <1>4, <1>5, <1>6, <1>7 DEF Follows
<1>. QED  BY <1>0, <1>1, <1>2, <1>6, <1>8, OneTail

LEMMA DetachRead ==
  ASSUME NEW r \in Runs, ReadInv(r), NEW t \in Tails, Detach(t)
  PROVE  ReadInv(r)'
<1>0. UNCHANGED <<meta, events, eventsTtl, faults, run>>
  BY DEF Detach, runVars
<1>. SUFFICES ASSUME ~HasFailed("redis") PROVE ReadInv(r)'
  BY <1>0 DEF ReadInv, HasFailed
<1> DEFINE x == [tail[t] EXCEPT !.pc = "cut"]
<1>1. tail[t] \in Reader
  BY DEF ReadInv
<1>2. x \in Reader /\ x.pc = "cut"
  BY <1>1 DEF Reader, TailPc
<1>3. tail' = [tail EXCEPT ![t] = x]
  BY DEF Detach
<1> HIDE DEF x
<1>4. Follows(x, r)
  BY <1>2 DEF Follows
<1>. QED  BY <1>0, <1>2, <1>3, <1>4, OneTail

LEMMA ReadInit == ASSUME NEW r \in Runs PROVE Init => ReadInv(r)
<1>. SUFFICES ASSUME Init PROVE ReadInv(r)
  OBVIOUS
<1>0. <<>> \in Seq(Frame) /\ Len(<<>>) = 0 /\ <<>> \o <<>> = <<>>
  BY EmptySeq
<1>1. run[r].pc = "new" /\ run[r].queue = <<>> /\ run[r].sent = 0
  BY DEF Init, NewRun
<1>2. Stored(r)
  BY <1>0, <1>1, ActiveRuns DEF Init, RunInit, Stored, Frames, InOrder
<1>3. NewTail \in Reader
  BY <1>0 DEF NewTail, Reader, TailPc
<1>4. \A t \in Tails : tail[t] = NewTail
  BY DEF Init
<1>5. Follows(NewTail, r)
  BY DEF Follows, NewTail
<1>6. tail \in [Tails -> Reader] /\ \A t \in Tails : Follows(tail[t], r)
  BY <1>3, <1>4, <1>5 DEF Init
<1>. QED  BY <1>2, <1>6 DEF ReadInv

LEMMA ReadStep ==
  ASSUME Single, EmptyRounds > 0, StuckRounds > 0, NEW r, Runs = {r}
  PROVE  ChatInv /\ ListInv /\ ReadInv(r) /\ [Next]_vars => ReadInv(r)'
<1>. SUFFICES ASSUME ChatInv, ListInv, ReadInv(r), [Next]_vars PROVE ReadInv(r)'
  OBVIOUS
<1>0. Shapes /\ r \in Runs
  BY DEF ChatInv
<1>1. CASE UNCHANGED vars
  BY <1>1 DEF vars, runVars, ReadInv, HasFailed, Stored, Frames, InOrder, Follows, Told, Ended, IsTranscript
<1>2. CASE RunStep(r)
  BY <1>0, <1>2, BeginRead, StartMoves, ReturnsMoves, SavesMoves, RecordsMoves, CatchMoves,
     DrainRead, MarkRead, MovesRead DEF RunStep
<1>3. ASSUME NEW t \in Tails, TailStep(t) \/ Detach(t) \/ \E p \in Procs : Attach(t, p)
      PROVE  ReadInv(r)'
  BY <1>0, <1>3, PollRead, LookRead, DetachRead, AttachRead DEF TailStep
<1>4. ASSUME NEW p \in Procs, cancel(p) PROVE ReadInv(r)'
  BY <1>0, <1>4, CancelMoves, MovesRead
<1>5. CASE Next
  BY <1>0, <1>2, <1>3, <1>4, <1>5, AppendRead, CallbackMoves, ThrowsMoves, PostMoves,
     MovesRead, CrashRead, ExpireRead DEF Next
<1>. QED  BY <1>1, <1>5

\* A resume that ends by itself has delivered the whole run, or after the
\* process died a part of it without gaps: for one question and one API
\* process, any number of frames and readers, and as many rounds of patience
\* as there may be, if only one (chat-run.service.ts tail).
THEOREM ResumeComplete ==
  ASSUME Single, \E r : Runs = {r}, EmptyRounds > 0, StuckRounds > 0
  PROVE  Spec => []ResumeIsComplete
<1>1. PICK r : Runs = {r}
  OBVIOUS
<1>2. Init => ReadInv(r)
  BY <1>1, ReadInit
<1>3. ChatInv /\ ListInv /\ ReadInv(r) /\ [Next]_vars => ReadInv(r)'
  BY <1>1, ReadStep
<1>4. ReadInv(r) => ResumeIsComplete
  BY <1>1 DEF ReadInv, Follows, Told, InOrder, ResumeIsComplete
<1>. QED  BY <1>2, <1>3, <1>4, ListCorrect, PTL DEF Spec
=============================================================================
