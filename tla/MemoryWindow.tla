---------------------------- MODULE MemoryWindow ----------------------------
(***************************************************************************)
(* The short-term memory of a conversation: the last messages in a Redis   *)
(* list, and a rolling summary of what has left it (memory.service.ts,     *)
(* chat.service.ts updateMemory and compressOverflow).  The update after a *)
(* round is not waited for: the next round's may run beside it.  Each call *)
(* to Redis or to the model is a step.  A message is its round and role;   *)
(* the summary is the set of messages it has taken in.                     *)
(***************************************************************************)
EXTENDS Integers, Sequences, FiniteSets, SequencesExt

CONSTANTS WindowSize, \* messages kept in the list
          MaxRounds,  \* bound: rounds of the conversation
          MaxFaults   \* bound: failing calls, and expiries of a key

ASSUME MemoryAssumption == WindowSize \in Nat \ {0} /\ MaxRounds \in Nat /\ MaxFaults \in Nat

VARIABLES
  window,   \* chat:win
  summary,  \* chat:summary
  update,   \* update[r]: the step of round r's update, and what it holds;
            \* ghost: whether another one has appended beside it
  mishaps,  \* faults so far
  excused   \* ghost: messages lost to a fault, or to updates that overlapped

memoryVars == <<window, summary, update, mishaps, excused>>

Round   == 1..MaxRounds
Message == Round \X {"user", "assistant"}
NoUpdate == [pc |-> "none", count |-> 0, overflow |-> {}, existing |-> {}, beside |-> FALSE]

MemoryTypeOK ==
  /\ window \in Seq(Message)
  /\ summary \subseteq Message
  /\ \A r \in Round : /\ update[r].count \in 0..(2 * MaxRounds)
                      /\ update[r].overflow \subseteq Message /\ update[r].existing \subseteq Message
  /\ mishaps \in 0..MaxFaults
  /\ excused \subseteq Message

MemoryInit ==
  /\ window = <<>> /\ summary = {} /\ mishaps = 0 /\ excused = {}
  /\ update = [r \in Round |-> NoUpdate]

At(r, pc) == update[r].pc = pc
InFlight  == {r \in Round : update[r].pc \notin {"none", "over"}}
Appending == {r \in Round : update[r].pc \in {"len", "range", "trim"}}

\* the first n messages of the list, and what is behind them
First(n)  == {window[i] : i \in {j \in DOMAIN window : j <= n}}
Behind(n) == SubSeq(window, n + 1, Len(window))
-----------------------------------------------------------------------------
(* appendWindow *)

\* RPUSH of the round; a round ends after the one before it has begun its update
Push(r) ==
  /\ At(r, "none") /\ \A q \in 1..(r - 1) : ~At(q, "none")
  /\ window' = window \o <<<<r, "user">>, <<r, "assistant">>>>
  /\ update' = [q \in Round |->
       IF q = r THEN [NoUpdate EXCEPT !.pc = "len", !.beside = Appending # {}]
       ELSE IF q \in Appending THEN [update[q] EXCEPT !.beside = TRUE] ELSE update[q]]
  /\ UNCHANGED <<summary, mishaps, excused>>

Len_(r) ==
  LET n == Len(window) IN
  /\ At(r, "len")
  /\ update' = [update EXCEPT ![r].pc = IF n <= WindowSize THEN "over" ELSE "range",
                              ![r].count = IF n <= WindowSize THEN 0 ELSE n - WindowSize]
  /\ UNCHANGED <<window, summary, mishaps, excused>>

\* LRANGE 0 count-1
Range_(r) ==
  /\ At(r, "range")
  /\ update' = [update EXCEPT ![r].pc = "trim",
                              ![r].overflow = First(update[r].count)]
  /\ UNCHANGED <<window, summary, mishaps, excused>>

\* mutant of Trim: counted from the end of the overflow
TrimOneMore(r) ==
  /\ At(r, "trim")
  /\ window' = Behind(update[r].count + 1)
  /\ update' = [update EXCEPT ![r].pc = "get"]
  /\ UNCHANGED <<summary, mishaps, excused>>

\* LTRIM count -1; beside another update the list may have moved meanwhile
Trim(r) ==
  /\ At(r, "trim")
  /\ window' = Behind(update[r].count)
  /\ excused' = IF update[r].beside THEN excused \union (First(update[r].count) \ update[r].overflow) ELSE excused
  /\ update' = [update EXCEPT ![r].pc = "get"]
  /\ UNCHANGED <<summary, mishaps>>
-----------------------------------------------------------------------------
(* compressOverflow *)

GetSummary(r) ==
  /\ At(r, "get")
  /\ update' = [update EXCEPT ![r].pc = "set", ![r].existing = summary]
  /\ UNCHANGED <<window, summary, mishaps, excused>>

\* the model has answered: overflow and existing summary in one; another
\* summary written since is overwritten
SetSummary(r) ==
  LET new == update[r].existing \union update[r].overflow IN
  /\ At(r, "set")
  /\ summary' = new
  /\ excused' = excused \union (summary \ new)
  /\ update' = [update EXCEPT ![r] = [NoUpdate EXCEPT !.pc = "over"]]
  /\ UNCHANGED <<window, mishaps>>
-----------------------------------------------------------------------------
(* faults *)

Mishap == mishaps < MaxFaults /\ mishaps' = mishaps + 1

\* compressOverflow swallows its failures
CompressFails(r) ==
  /\ update[r].pc \in {"get", "set"}
  /\ Mishap
  /\ excused' = excused \union update[r].overflow
  /\ update' = [update EXCEPT ![r] = [NoUpdate EXCEPT !.pc = "over"]]
  /\ UNCHANGED <<window, summary>>

\* a failing call of appendWindow rejects a promise that nobody handles: the
\* process ends, and with it every update
ProcessDies ==
  /\ \E r \in Round : update[r].pc \in {"len", "range", "trim"}
  /\ Mishap
  /\ excused' = excused \union UNION {update[r].overflow : r \in Round}
  /\ update' = [r \in Round |-> IF r \in InFlight THEN [NoUpdate EXCEPT !.pc = "over"] ELSE update[r]]
  /\ UNCHANGED <<window, summary>>

\* 24 hours after its last write
Expire ==
  /\ InFlight = {} /\ Mishap
  /\ \/ window' = <<>> /\ excused' = excused \union ToSet(window) /\ UNCHANGED summary
     \/ summary' = {} /\ excused' = excused \union summary /\ UNCHANGED window
  /\ UNCHANGED update

MemoryNext ==
  \/ \E r \in Round : \/ Push(r) \/ Len_(r) \/ Range_(r) \/ Trim(r)
                      \/ GetSummary(r) \/ SetSummary(r) \/ CompressFails(r)
  \/ ProcessDies \/ Expire

MemorySpec == MemoryInit /\ [][MemoryNext]_memoryVars
-----------------------------------------------------------------------------
(* Properties *)

Pushed == {m \in Message : update[m[1]].pc # "none"}

\* No message leaves the memory unnoticed: it is in the window, in the
\* summary, or on its way from one to the other in an update that runs,
\* unless a call has failed or two updates have met in the list or in the
\* summary.
Remembered ==
  Pushed \subseteq ToSet(window) \union summary \union excused
                   \union UNION {update[r].overflow : r \in InFlight}
=============================================================================
