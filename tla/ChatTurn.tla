------------------------------ MODULE ChatTurn ------------------------------
(***************************************************************************)
(* agui.controller.ts: answering a question, stopping it, and reading it   *)
(* again after a reload, with the replay loop of chat-run.service.ts.  A   *)
(* step of a handler ends at an await.  The run's own SSE stream, audit,   *)
(* titles and the memory update decide nothing here and are left out; the  *)
(* agent is whatever calls its callbacks and then returns or throws.       *)
(***************************************************************************)
EXTENDS ChatRun

CONSTANTS Tails,        \* GET .../resume requests
          NoProc,       \* the process of a request not made yet
          MaxFrames,    \* bound: frames a run sends before its last one
          MaxCrashes,   \* bound: API processes that die and restart
          EmptyRounds,  \* 4 in the code: rounds a tail waits for any frame
          StuckRounds   \* 8 in the code: rounds it waits for another one

ASSUME TurnAssumption ==
  /\ NoProc \notin Procs
  /\ MaxFrames \in Nat \ {0}
  /\ MaxCrashes \in Nat
  /\ EmptyRounds \in Nat
  /\ StuckRounds \in Nat

VARIABLES
  run,      \* run[r]: the handler of request r
  asked,    \* asked[r]: its question is a row of messages
  answers,  \* answers[r]: assistant rows of messages written for it
  tail,     \* tail[t]: the handler of resume t
  crashes   \* deaths of API processes so far

vars == <<runVars, run, asked, answers, tail, crashes>>

\* queue: frames sent but not yet appended; sent: how many were sent
NewRun  == [pc |-> "new", proc |-> NoProc, queue |-> <<>>, sent |-> 0,
            aborted |-> FALSE, progress |-> FALSE, status |-> "done",
            read |-> NoMeta]
NewTail == [pc |-> "new", proc |-> NoProc, idle |-> 0, seen |-> <<>>]

\* between begin and markDone, and then until markDone has returned
Active == {"begun", "agent", "save", "record", "catch", "savePartial",
           "recordPartial", "drain"}
RunPc  == Active \union {"new", "asked", "mark", "over", "refused", "dead"}
TailPc == {"new", "tail", "look", "ended", "empty", "cut"}

\* Every variable stays in its type; a run sends one last frame and no more,
\* and a tail never waits beyond StuckRounds.
TypeOK ==
  /\ RunTypeOK
  /\ run \in [Runs -> [pc : RunPc, proc : Procs \union {NoProc},
                       queue : Seq(Frame), sent : 0..MaxFrames + 1, aborted : BOOLEAN,
                       progress : BOOLEAN, status : {"done", "aborted"},
                       read : Meta]]
  /\ asked \in [Runs -> BOOLEAN]
  /\ answers \in [Runs -> 0..2]
  /\ tail \in [Tails -> [pc : TailPc, proc : Procs \union {NoProc},
                         idle : 0..StuckRounds + 1, seen : Seq(Frame)]]
  /\ crashes \in 0..MaxCrashes

Init ==
  /\ RunInit
  /\ run = [r \in Runs |-> NewRun]
  /\ asked = [r \in Runs |-> FALSE]
  /\ answers = [r \in Runs |-> 0]
  /\ tail = [t \in Tails |-> NewTail]
  /\ crashes = 0

At(r, p)   == run[r].pc = p
Goto(r, p) == run' = [run EXCEPT ![r].pc = p]

\* send: one more frame for the append queue, and on to p
Sent(r, p, last) ==
  run' = [run EXCEPT ![r].pc = p, ![r].sent = @ + 1,
            ![r].queue = Append(@, [run |-> r, n |-> run[r].sent + 1, end |-> last])]
-----------------------------------------------------------------------------
(* run: the question *)

\* the check before the question is saved
Post(r, p) ==
  /\ At(r, "new")
  /\ IF isLive(p)
       THEN Goto(r, "refused") /\ UNCHANGED <<asked, faults>>
       ELSE \/ /\ asked' = [asked EXCEPT ![r] = TRUE]
               /\ run' = [run EXCEPT ![r].pc = "asked", ![r].proc = p]
               /\ UNCHANGED faults
            \/ Fault("db") /\ Goto(r, "refused") /\ UNCHANGED asked
  /\ UNCHANGED <<live, meta, events, eventsTtl, answers, tail, crashes>>

\* mutant of Begin: only the check before the await
BeginUnchecked(r) ==
  /\ At(r, "asked")
  /\ begin(run[r].proc, r) /\ Goto(r, "begun")
  /\ UNCHANGED <<asked, answers, tail, crashes>>

\* begin checks again: another request may have begun during the save
Begin(r) ==
  /\ At(r, "asked")
  /\ IF isLive(run[r].proc)
       THEN Goto(r, "refused") /\ UNCHANGED runVars
       ELSE begin(run[r].proc, r) /\ Goto(r, "begun")
  /\ UNCHANGED <<asked, answers, tail, crashes>>

\* begin's answer; Redis answers in order, so markDone of an earlier run,
\* which reads the meta before this one was set, has gone on by now
Start(r) ==
  /\ At(r, "begun")
  /\ \A q \in Runs : At(q, "mark") => run[q].proc # run[r].proc
  /\ Sent(r, "agent", FALSE)
  /\ UNCHANGED <<runVars, asked, answers, tail, crashes>>
-----------------------------------------------------------------------------
(* run: the agent, and how the answer is kept *)

\* a callback of the agent; some frames are progress worth keeping
Callback(r) ==
  /\ At(r, "agent")
  /\ run[r].sent < MaxFrames
  /\ \E worth \in BOOLEAN :
       run' = [run EXCEPT ![r].sent = @ + 1,
                 ![r].queue = Append(@, [run |-> r, n |-> run[r].sent + 1, end |-> FALSE]),
                 ![r].progress = @ \/ worth]
  /\ UNCHANGED <<runVars, asked, answers, tail, crashes>>

\* the agent returns; after a stop its state is not used
AgentReturns(r) ==
  /\ At(r, "agent")
  /\ Goto(r, IF run[r].aborted THEN "catch" ELSE "save")
  /\ UNCHANGED <<runVars, asked, answers, tail, crashes>>

\* the agent throws by itself; a message like "aborted" counts as a stop
AgentThrows(r) ==
  /\ At(r, "agent")
  /\ Fault("agent")
  /\ \E like \in BOOLEAN :
       run' = [run EXCEPT ![r].pc = "catch", ![r].aborted = @ \/ like]
  /\ UNCHANGED <<live, meta, events, eventsTtl, asked, answers, tail, crashes>>

\* saveAssistantMessage inserts a row, then touches the conversation: it may
\* throw before or after the insert
saveAssistantMessage(r, p, q) ==
  \/ /\ answers' = [answers EXCEPT ![r] = @ + 1]
     /\ Goto(r, p)
     /\ UNCHANGED faults
  \/ /\ Fault("db")
     /\ answers' \in {answers, [answers EXCEPT ![r] = @ + 1]}
     /\ Goto(r, q)

Save(r) ==
  /\ At(r, "save")
  /\ saveAssistantMessage(r, "record", "catch")
  /\ UNCHANGED <<live, meta, events, eventsTtl, asked, tail, crashes>>

\* saveQaRecord, then RUN_FINISHED
Record(r) ==
  /\ At(r, "record")
  /\ \/ Sent(r, "drain", TRUE) /\ UNCHANGED faults
     \/ Fault("db") /\ Goto(r, "catch")
  /\ UNCHANGED <<live, meta, events, eventsTtl, asked, answers, tail, crashes>>

\* mutant of Catch: a stopped run leaves no answer behind
CatchForgets(r) ==
  /\ At(r, "catch")
  /\ run' = [run EXCEPT ![r].pc = "drain", ![r].sent = @ + 1,
               ![r].status = IF run[r].aborted THEN "aborted" ELSE "done",
               ![r].queue = Append(@, [run |-> r, n |-> run[r].sent + 1, end |-> TRUE])]
  /\ UNCHANGED <<runVars, asked, answers, tail, crashes>>

\* a stop with some progress keeps it; without any, and after an error, the
\* last frame goes out at once
Catch(r) ==
  /\ At(r, "catch")
  /\ LET s == IF run[r].aborted THEN "aborted" ELSE "done" IN
     IF run[r].aborted /\ run[r].progress
       THEN run' = [run EXCEPT ![r].pc = "savePartial", ![r].status = s]
       ELSE run' = [run EXCEPT ![r].pc = "drain", ![r].status = s,
                      ![r].sent = @ + 1,
                      ![r].queue = Append(@, [run |-> r, n |-> run[r].sent + 1, end |-> TRUE])]
  /\ UNCHANGED <<runVars, asked, answers, tail, crashes>>

\* an error here leaves the catch block: no last frame, only the finally
SavePartial(r) ==
  /\ At(r, "savePartial")
  /\ saveAssistantMessage(r, "recordPartial", "drain")
  /\ UNCHANGED <<live, meta, events, eventsTtl, asked, tail, crashes>>

RecordPartial(r) ==
  /\ At(r, "recordPartial")
  /\ \/ Sent(r, "drain", TRUE) /\ UNCHANGED faults
     \/ Fault("db") /\ Goto(r, "drain")
  /\ UNCHANGED <<live, meta, events, eventsTtl, asked, answers, tail, crashes>>
-----------------------------------------------------------------------------
(* run: the append queue, and the finally block *)

\* appendQueue appends one frame at a time, in the order of send
AppendNext(r) ==
  /\ run[r].queue # <<>>
  /\ append(Head(run[r].queue))
  /\ run' = [run EXCEPT ![r].queue = Tail(@)]
  /\ UNCHANGED <<live, meta, asked, answers, tail, crashes>>

\* mutant of Drain: the run is over before its last frames are appended
DrainEarly(r) ==
  /\ At(r, "drain")
  /\ live' = [live EXCEPT ![run[r].proc] = NoRun]
  /\ run' = [run EXCEPT ![r].pc = "mark", ![r].read = meta]
  /\ UNCHANGED <<meta, events, eventsTtl, faults, asked, answers, tail, crashes>>

\* mutant of Drain: the run leaves the map only once Redis has answered
DrainLate(r) ==
  /\ At(r, "drain")
  /\ run[r].queue = <<>>
  /\ \/ /\ live' = [live EXCEPT ![run[r].proc] = NoRun]
        /\ run' = [run EXCEPT ![r].pc = "mark", ![r].read = meta]
        /\ UNCHANGED faults
     \/ Fault("redis") /\ Goto(r, "over") /\ UNCHANGED live
  /\ UNCHANGED <<meta, events, eventsTtl, asked, answers, tail, crashes>>

\* with the queue empty, markDone leaves the map and reads the meta; it
\* throws when the read fails
Drain(r) ==
  /\ At(r, "drain")
  /\ run[r].queue = <<>>
  /\ live' = [live EXCEPT ![run[r].proc] = NoRun]
  /\ \/ run' = [run EXCEPT ![r].pc = "mark", ![r].read = meta] /\ UNCHANGED faults
     \/ Fault("redis") /\ Goto(r, "over")
  /\ UNCHANGED <<meta, events, eventsTtl, asked, answers, tail, crashes>>

\* mutant of Mark: the meta keeps the status it was read with
MarkUnchanged(r) ==
  /\ At(r, "mark")
  /\ meta' = [run[r].read EXCEPT !.ttl = "short"]
  /\ eventsTtl' = "short"
  /\ Goto(r, "over")
  /\ UNCHANGED <<live, events, faults, asked, answers, tail, crashes>>

Mark(r) ==
  /\ At(r, "mark")
  /\ markDone(run[r].read, run[r].status)
  /\ Goto(r, "over")
  /\ UNCHANGED <<live, asked, answers, tail, crashes>>
-----------------------------------------------------------------------------
(* cancel and resume *)

\* the user stops what this process is running
cancel(p) ==
  /\ isLive(p)
  /\ run' = [run EXCEPT ![live[p]].aborted = TRUE]
  /\ UNCHANGED <<runVars, asked, answers, tail, crashes>>

TailAt(t, p) == tail[t].pc = p

\* nothing to resume: 204
Attach(t, p) ==
  /\ TailAt(t, "new")
  /\ tail' = [tail EXCEPT ![t].proc = p,
                ![t].pc = IF isLive(p) \/ meta # NoMeta THEN "tail" ELSE "empty"]
  /\ UNCHANGED <<runVars, run, asked, answers, crashes>>

\* what LRANGE idx -1 returns, up to the first terminal frame
Unread(t) ==
  LET from == Len(tail[t].seen) + 1
      last == {i \in from..Len(events) : events[i].end}
  IN  IF last = {} THEN SubSeq(events, from, Len(events))
      ELSE SubSeq(events, from, CHOOSE i \in last : \A j \in last : i <= j)

Poll(t) ==
  /\ TailAt(t, "tail")
  /\ \/ LET seen == tail[t].seen \o Unread(t) IN
        /\ tail' = [tail EXCEPT ![t].seen = seen,
                      ![t].pc = IF Unread(t) # <<>> /\ seen[Len(seen)].end
                                  THEN "ended" ELSE "look"]
        /\ UNCHANGED faults
     \/ Fault("redis") /\ tail' = [tail EXCEPT ![t].pc = "cut"]
  /\ UNCHANGED <<live, meta, events, eventsTtl, run, asked, answers, crashes>>

\* mutant of Look: a tail waits for frames, however long it takes
LookPatient(t) ==
  /\ TailAt(t, "look")
  /\ tail' = [tail EXCEPT ![t].pc = "tail"]
  /\ UNCHANGED <<runVars, run, asked, answers, crashes>>

\* a run in this process may still send frames; otherwise count the rounds
Look(t) ==
  LET idle == IF isLive(tail[t].proc) THEN 0 ELSE tail[t].idle + 1
      quit == (tail[t].seen = <<>> /\ idle > EmptyRounds) \/ idle > StuckRounds IN
  /\ TailAt(t, "look")
  /\ tail' = [tail EXCEPT ![t].idle = idle, ![t].pc = IF quit THEN "ended" ELSE "tail"]
  /\ UNCHANGED <<runVars, run, asked, answers, crashes>>

\* the client goes away
Detach(t) ==
  /\ tail[t].pc \in {"tail", "look"}
  /\ tail' = [tail EXCEPT ![t].pc = "cut"]
  /\ UNCHANGED <<runVars, run, asked, answers, crashes>>
-----------------------------------------------------------------------------
\* 90 s after the end the keys vanish; 20 min without a frame end the others.
\* A tail reads every 150 ms and a run takes less than 20 min.
Expire ==
  /\ \A t \in Tails : tail[t].pc \notin {"tail", "look"}
  /\ \/ expire({"short"})
     \/ /\ \A r \in Runs : run[r].pc \notin Active \union {"mark"}
        /\ expire({"short", "long"})
  /\ UNCHANGED <<run, asked, answers, tail, crashes>>

\* process p dies with its requests, and is started again
Crash(p) ==
  /\ crashes < MaxCrashes
  /\ crashes' = crashes + 1
  /\ live' = [live EXCEPT ![p] = NoRun]
  /\ run' = [r \in Runs |->
               IF run[r].proc = p /\ run[r].pc \in Active \union {"asked", "mark"}
                 THEN [run[r] EXCEPT !.pc = "dead", !.queue = <<>>] ELSE run[r]]
  /\ tail' = [t \in Tails |->
                IF tail[t].proc = p /\ tail[t].pc \in {"tail", "look"}
                  THEN [tail[t] EXCEPT !.pc = "cut"] ELSE tail[t]]
  /\ UNCHANGED <<meta, events, eventsTtl, faults, asked, answers>>

\* the handler of request r goes on by itself
RunStep(r) ==
  \/ Begin(r) \/ Start(r) \/ AgentReturns(r) \/ Save(r) \/ Record(r)
  \/ Catch(r) \/ SavePartial(r) \/ RecordPartial(r) \/ Drain(r) \/ Mark(r)

TailStep(t) == Poll(t) \/ Look(t)

Next ==
  \/ \E r \in Runs : \/ RunStep(r) \/ AppendNext(r) \/ Callback(r) \/ AgentThrows(r)
                     \/ \E p \in Procs : Post(r, p)
  \/ \E t \in Tails : \/ TailStep(t) \/ Detach(t)
                      \/ \E p \in Procs : Attach(t, p)
  \/ \E p \in Procs : cancel(p) \/ Crash(p)
  \/ Expire

Spec == Init /\ [][Next]_vars

\* Handlers go on, the agent ends (its nodes, or their model calls, have a
\* timeout), tails poll.
Fairness ==
  /\ \A r \in Runs : WF_vars(RunStep(r)) /\ WF_vars(AppendNext(r))
  /\ \A t \in Tails : WF_vars(TailStep(t))

FairSpec == Spec /\ Fairness
-----------------------------------------------------------------------------
\* run r has sent its last frame, or gave up on it
Ended(r) == run[r].pc \in {"drain", "mark", "over"}

\* s is the frames run r has sent, in order
IsTranscript(s, r) ==
  /\ Len(s) = run[r].sent
  /\ \A i \in 1..Len(s) : s[i].run = r /\ s[i].n = i

\* While a run is live, the list holds exactly its frames: those appended and
\* those still queued are all it has sent, in order; nothing of an earlier
\* run is left ("so that the replay does not mix in old content"), and
\* nothing has expired ("a long answer's list does not expire half-way").
\* Calls to Redis that fail may lose frames, or keep old ones.
ListIsOneRun ==
  ~HasFailed("redis") =>
    \A r \in Runs : run[r].pc \in Active => IsTranscript(events \o run[r].queue, r)

\* A process refuses new questions only while it answers one: whatever
\* fails, the conversation is never left busy.
BusyMeansRunning ==
  \A p \in Procs, r \in Runs :
    live[p] = r <=> run[r].pc \in Active /\ run[r].proc = p

\* The meta key does not call a finished run running, so a reload offers to
\* resume only what goes on, unless Redis has failed.
NoGhostRun ==
  ~HasFailed("redis") /\ meta.run # NoRun /\ meta.status = "running"
    => run[meta.run].pc # "over"

\* What a stopped run has done is kept as an answer ("with or without text,
\* some progress is stored as the assistant's message"), unless the database
\* refuses it.
StoppedKeepsProgress ==
  ~HasFailed("db") => \A r \in Runs :
    Ended(r) /\ run[r].status = "aborted" /\ run[r].progress => answers[r] >= 1

\* A resume that ends by itself has delivered everything the run sent; when
\* the process died, a part of it, without gaps.
ResumeIsComplete ==
  ~HasFailed("redis") => \A t \in Tails : tail[t].pc = "ended" =>
    \E r \in Runs :
      \/ Ended(r) /\ IsTranscript(tail[t].seen, r)
      \/ /\ run[r].pc = "dead"
         /\ \A i \in 1..Len(tail[t].seen) :
              tail[t].seen[i].run = r /\ tail[t].seen[i].n = i

\* A resume ends.
ResumeEnds ==
  \A t \in Tails : tail[t].pc = "tail" ~> tail[t].pc \notin {"tail", "look"}
=============================================================================
