------------------------------ MODULE ChatRun ------------------------------
(***************************************************************************)
(* chat-run.service.ts: what is kept of the question being answered in one *)
(* conversation.  Each API process has its own map of live runs; Redis has *)
(* the meta key and the list of frames a reader can replay.  All keys hold *)
(* the conversation's id, so one conversation is all there is to model.    *)
(*                                                                         *)
(* A process sends its Redis commands over one connection, which keeps     *)
(* their order: a command takes effect in the step that issues it, and     *)
(* what follows the await is a later step.                                 *)
(***************************************************************************)
EXTENDS Naturals, Sequences

CONSTANTS Runs,         \* POST /agui/chat requests of the conversation
          NoRun,        \* no run
          Procs,        \* API processes
          MaxFaults,    \* bound: calls that fail
          Failing       \* what may fail: "redis", "db", "agent"

ASSUME RunAssumption ==
  /\ NoRun \notin Runs
  /\ MaxFaults \in Nat
  /\ Failing \subseteq {"redis", "db", "agent"}

VARIABLES
  live,       \* live[p]: the run in p's map
  meta,       \* chat:run:meta:<conversation>
  events,     \* chat:run:events:<conversation>
  eventsTtl,  \* how long the list is kept once nobody writes it any more
  faults      \* which calls have failed so far, in order

runVars == <<live, meta, events, eventsTtl, faults>>

Frame == [run : Runs, n : Nat \ {0}, end : BOOLEAN]
Meta  == [run : Runs \union {NoRun}, status : {"running", "done", "aborted"},
          ttl : {"long", "short"}]

NoMeta == [run |-> NoRun, status |-> "done", ttl |-> "long"]

RunTypeOK ==
  /\ live \in [Procs -> Runs \union {NoRun}]
  /\ meta \in Meta
  /\ events \in Seq(Frame)
  /\ eventsTtl \in {"long", "short"}
  /\ faults \in Seq(Failing) /\ Len(faults) <= MaxFaults

RunInit ==
  /\ live = [p \in Procs |-> NoRun]
  /\ meta = NoMeta
  /\ events = <<>>
  /\ eventsTtl = "long"
  /\ faults = <<>>

Fault(what) ==
  /\ what \in Failing
  /\ Len(faults) < MaxFaults
  /\ faults' = Append(faults, what)

HasFailed(what) == \E i \in DOMAIN faults : faults[i] = what

isLive(p) == live[p] # NoRun

RunningMeta(r) == [run |-> r, status |-> "running", ttl |-> "long"]

\* begin, in the map and in Redis.  ioredis resolves a pipeline even when
\* its commands failed, so nobody notices that the old list is still there.
begin(p, r) ==
  /\ live' = [live EXCEPT ![p] = r]
  /\ \/ /\ meta' = RunningMeta(r)
        /\ events' = <<>>
        /\ eventsTtl' = "long"
        /\ UNCHANGED faults
     \/ /\ Fault("redis")
        /\ meta' \in {meta, RunningMeta(r)}
        /\ \/ UNCHANGED <<events, eventsTtl>>
           \/ events' = <<>> /\ eventsTtl' = "long"

\* append: a failure loses the frame, or repeats it when ioredis sends the
\* command again after a reconnect
append(f) ==
  \/ /\ events' = Append(events, f)
     /\ eventsTtl' = "long"
     /\ UNCHANGED faults
  \/ /\ Fault("redis")
     /\ events' \in {events, Append(events, f), events \o <<f, f>>}
     /\ eventsTtl' \in {eventsTtl, "long"}

\* markDone writes back the meta that was read, or only shortens what is
\* there now
markDone(read, status) ==
  LET next == IF read.run # NoRun
                THEN [run |-> read.run, status |-> status, ttl |-> "short"]
                ELSE [meta EXCEPT !.ttl = IF meta.run = NoRun THEN @ ELSE "short"]
  IN \/ meta' = next /\ eventsTtl' = "short" /\ UNCHANGED <<events, faults>>
     \/ /\ Fault("redis")
        /\ meta' \in {meta, next}
        /\ eventsTtl' \in {eventsTtl, "short"}
        /\ UNCHANGED events

\* the keys whose time is up vanish
expire(ttls) ==
  /\ meta' = IF meta.ttl \in ttls THEN NoMeta ELSE meta
  /\ events' = IF eventsTtl \in ttls THEN <<>> ELSE events
  /\ eventsTtl' = IF eventsTtl \in ttls THEN "long" ELSE eventsTtl
  /\ UNCHANGED <<live, faults>>
=============================================================================
