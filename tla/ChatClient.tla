----------------------------- MODULE ChatClient -----------------------------
(***************************************************************************)
(* The chat page (web pages/ChatPage.tsx) and the sessions it reads        *)
(* answers with (web lib/agui.ts).  Sessions outlive the view: leaving a   *)
(* conversation parks its session, coming back replays it into a new       *)
(* bubble, and without one the run is resumed from the server.  A frame is *)
(* its number in the run; of the rows of messages it matters whose they    *)
(* are and up to which answer they go.  Titles, scrolling, earlier pages   *)
(* and the lists beside the conversation are left out.                     *)
(* JavaScript is one thread: a step runs to the next await; an aborted     *)
(* request has rejected before anything else arrives.                      *)
(***************************************************************************)
EXTENDS Integers, FiniteSets, Sequences

CONSTANTS Threads, NoThread, \* conversations; the page of a new one
          Frames,            \* frames of a run, the last one terminal
          MaxSessions,       \* bound: sessions, one bubble or more each
          Moves              \* bound: what the user does, and failures, in all

ASSUME ChatClientAssumption ==
  /\ NoThread \notin Threads
  /\ Frames \in Nat \ {0} /\ MaxSessions \in Nat /\ Moves \in Nat

VARIABLES
  server,     \* server[t]: the run of a conversation, its frames, the rows
  session,    \* session[s]: thread, run, frames received, whom it tells
  parked,     \* the map of agui.ts: the session of a thread, or 0
  cur,        \* conversationId
  view,       \* the streamed bubbles in messages, each with what it was told
  history,    \* the rows above them: whose, and up to which answer
  replaced,   \* ghost: messages were set by a load that did not look at them
  loads,      \* GET messages: of the effect, and after an empty resume
  listeners,  \* listenSession calls that await: thread, session, bubble
  stream, detach,  \* streamThreadRef, and the session of detachRef (0: null)
  generating, stopped,
  bubbles,    \* how many bubbles there have been: their ids
  moves

shown == <<view, history, replaced>>
clientVars == <<session, parked, cur, shown, loads, listeners, stream, detach,
                generating, stopped, bubbles>>
chatVars == <<server, clientVars, moves>>

Sess   == 1..MaxSessions
Upto(n) == [k \in 1..n |-> k]
Bubble == [id : Nat, thread : Threads, session : Sess, got : Seq(1..Frames),
           streaming : BOOLEAN, error : BOOLEAN]
HistoryRows == [thread : Threads \union {NoThread}, answered : Nat, active : BOOLEAN]
NoRows      == [thread |-> NoThread, answered |-> 0, active |-> FALSE]
Load   == [thread : Threads, kind : {"open", "empty"}, session : 0..MaxSessions,
           served : BOOLEAN, resume : BOOLEAN, rows : HistoryRows]
Unused == [state |-> "unused", thread |-> NoThread, kind |-> "chat", run |-> 0, got |-> 0, to |-> 0]

\* Every variable stays in its type; what is parked is open, and is what its
\* thread reads.
ClientTypeOK ==
  /\ server \in [Threads -> [run : {"none", "running", "over", "dead"}, sent : 0..Frames,
                             asked : Nat, answered : Nat, stop : BOOLEAN]]
  /\ \A s \in Sess : session[s].state \in {"unused", "posted", "open", "closed"}
  /\ \A t \in Threads : parked[t] # 0 =>
       session[parked[t]].thread = t /\ session[parked[t]].state \in {"posted", "open"}
  /\ cur \in Threads \union {NoThread}
  /\ view \subseteq Bubble /\ history \in HistoryRows /\ replaced \in BOOLEAN
  /\ loads \subseteq Load
  /\ listeners \subseteq [thread : Threads, session : Sess, bubble : Nat]
  /\ stream \in Threads \union {NoThread} /\ detach \in 0..MaxSessions
  /\ generating \subseteq Threads /\ stopped \subseteq Threads
  /\ bubbles \in Nat /\ moves \in 0..Moves

NoRun == [run |-> "none", sent |-> 0, asked |-> 0, answered |-> 0, stop |-> FALSE]
ClientInit ==
  /\ server = [t \in Threads |-> NoRun]
  /\ session = [s \in Sess |-> Unused] /\ parked = [t \in Threads |-> 0]
  /\ cur = NoThread /\ view = {} /\ history = NoRows /\ replaced = FALSE /\ loads = {} /\ listeners = {}
  /\ stream = NoThread /\ detach = 0
  /\ generating = {} /\ stopped = {} /\ bubbles = 0 /\ moves = 0

Move == moves < Moves /\ moves' = moves + 1
-----------------------------------------------------------------------------
(* lib/agui.ts *)

Fresh(s) == session[s].state = "unused" /\ \A r \in 1..(s - 1) : session[r].state # "unused"

\* createSession, with the handlers of bubble b
New(t, kind, b) ==
  [state |-> "posted", thread |-> t, kind |-> kind, run |-> 0, got |-> 0, to |-> b]

\* a promise settles: it leaves the map
Forget(s) == parked' = [t \in Threads |-> IF parked[t] = s THEN 0 ELSE parked[t]]
-----------------------------------------------------------------------------
(* listenSession *)

\* a bubble that has been told the first n frames
NewBubble(t, s, n) ==
  [id |-> bubbles + 1, thread |-> t, session |-> s, got |-> Upto(n),
   streaming |-> n < Frames, error |-> FALSE]

\* mutant of listen: what came before is not replayed
listenLive(t, s, above) ==
  /\ bubbles' = bubbles + 1
  /\ listeners' = listeners \union {[thread |-> t, session |-> s, bubble |-> bubbles + 1]}
  /\ stream' = t /\ detach' = s
  /\ stopped' = stopped \ {t} /\ generating' = generating \union {t}
  /\ view' = above \union {NewBubble(t, s, 0)}

\* its synchronous part: replay, then the handlers; its bubble comes below
\* what is shown
listen(t, s, above) ==
  /\ bubbles' = bubbles + 1
  /\ listeners' = listeners \union {[thread |-> t, session |-> s, bubble |-> bubbles + 1]}
  /\ stream' = t /\ detach' = s
  /\ stopped' = stopped \ {t} /\ generating' = generating \union {t}
  /\ view' = above \union {NewBubble(t, s, session[s].got)}

\* the bubbles whose listener finds a reason to end them, while shown; an
\* error is written over what they hold
EndBubbles(ids, error) ==
  /\ view' = {IF b.id \in ids THEN [b EXCEPT !.streaming = FALSE, !.error = @ \/ error] ELSE b : b \in view}
  /\ UNCHANGED <<history, replaced>>

\* mutant of Finally: the flag is left to the thread that streams
FinallyStream(s, mine) ==
  /\ listeners' = listeners \ mine
  /\ generating' = generating \ {l.thread : l \in {m \in mine : m.thread = stream}}
  /\ detach' = IF session[s].thread = stream THEN 0 ELSE detach

Finally(s, mine) ==
  /\ listeners' = listeners \ mine
  /\ generating' = generating \ {l.thread : l \in mine}
  /\ detach' = IF mine # {} /\ session[s].thread = stream THEN 0 ELSE detach

\* the promise of s settles: an error, or a stop, is written into the bubble
\* of the conversation that is shown
Settle(s, error) ==
  LET mine == {l \in listeners : l.session = s}
      t == session[s].thread IN
  /\ session' = [session EXCEPT ![s].state = "closed"]
  /\ Forget(s)
  /\ Finally(s, mine)
  /\ IF cur = t /\ (error \/ t \in stopped) THEN EndBubbles({l.bubble : l \in mine}, t \notin stopped)
     ELSE UNCHANGED shown
-----------------------------------------------------------------------------
(* the effect of conversationId *)

\* cleanup: the session is detached, the load cancelled
Detached ==
  IF stream = cur /\ cur # NoThread /\ detach # 0
    THEN [session EXCEPT ![detach].to = 0] ELSE session

Fetch(t, kind, s) == [thread |-> t, kind |-> kind, session |-> s, served |-> FALSE,
                      resume |-> FALSE, rows |-> NoRows]

\* setMessages of rows and no bubble
ShowRows(new, late) == view' = {} /\ history' = new /\ replaced' = late

\* a cancelled load does nothing any more when it is answered
Uncancelled == {l \in loads : l.kind # "open"}

\* another conversation, or the page of a new one
Open(t) ==
  /\ Move /\ t # cur
  /\ cur' = t
  /\ session' = Detached
  /\ IF t = NoThread THEN ShowRows(NoRows, FALSE) /\ loads' = Uncancelled
     ELSE loads' = Uncancelled \union {Fetch(t, "open", 0)} /\ UNCHANGED shown
  /\ UNCHANGED <<server, parked, listeners, stream, detach, generating, stopped, bubbles>>

\* away from the page and back at t: nothing but the map of sessions is left
Remount(t) ==
  /\ Move
  /\ cur' = t
  /\ session' = Detached
  /\ loads' = IF t = NoThread THEN {} ELSE {Fetch(t, "open", 0)}
  /\ ShowRows(NoRows, FALSE)
  /\ listeners' = {} /\ stream' = NoThread /\ detach' = 0
  /\ generating' = {} /\ stopped' = {}
  /\ UNCHANGED <<server, parked, bubbles>>

\* listMessages: the rows, and the active run, which is what the meta says
Serve(l) ==
  LET v == server[l.thread]
      active == v.run \in {"running", "dead"} IN
  /\ l \in loads /\ ~l.served
  /\ loads' = (loads \ {l}) \union
       {[l EXCEPT !.served = TRUE, !.resume = active \/ v.asked > v.answered,
                  !.rows = [thread |-> l.thread, answered |-> v.answered, active |-> active]]}
  /\ UNCHANGED <<server, session, parked, cur, shown, listeners, stream, detach,
                 generating, stopped, bubbles, moves>>

\* the effect's then: rows, and below them the parked session or a resumed
\* one, whatever of its answer the rows hold; or the rows alone
Loaded(l) ==
  LET t == l.thread IN
  /\ l \in loads /\ l.served /\ l.kind = "open"
  /\ loads' = loads \ {l}
  /\ \/ /\ parked[t] # 0
        /\ listen(t, parked[t], {}) /\ history' = l.rows /\ replaced' = FALSE
        /\ session' = [session EXCEPT ![parked[t]].to = bubbles + 1]
        /\ UNCHANGED parked
     \/ /\ parked[t] = 0 /\ l.resume
        /\ \E s \in Sess :
             /\ Fresh(s)
             /\ session' = [session EXCEPT ![s] = New(t, "resume", bubbles + 1)]
             /\ parked' = [parked EXCEPT ![t] = s]
             /\ listen(t, s, {}) /\ history' = l.rows /\ replaced' = FALSE
     \/ /\ parked[t] = 0 /\ ~l.resume
        /\ ShowRows(l.rows, FALSE)
        /\ UNCHANGED <<session, parked, listeners, stream, detach, generating, stopped, bubbles>>
  /\ UNCHANGED <<server, cur, moves>>

\* its catch: no messages, a parked session or not
LoadFailed(l) ==
  /\ l \in loads /\ l.kind = "open" /\ ~l.served /\ Move
  /\ loads' = loads \ {l} /\ ShowRows(NoRows, TRUE)
  /\ UNCHANGED <<server, session, parked, cur, listeners, stream, detach,
                 generating, stopped, bubbles>>

\* the reload after an empty resume looks at nothing before its rows are
\* shown: by then another conversation may be, or an answer under way; when
\* it fails, the error goes to its bubble
Reloaded(l) ==
  LET mine == {k \in listeners : k.session = l.session} IN
  /\ l \in loads /\ l.kind = "empty"
  /\ loads' = loads \ {l}
  /\ \/ l.served /\ ShowRows(l.rows, TRUE) /\ UNCHANGED moves
     \/ /\ ~l.served /\ Move
        /\ IF cur = l.thread THEN EndBubbles({k.bubble : k \in mine}, l.thread \notin stopped)
           ELSE UNCHANGED shown
  /\ Finally(l.session, mine)
  /\ UNCHANGED <<server, session, parked, cur, stream, stopped, bubbles>>
-----------------------------------------------------------------------------
(* send and stopGenerate *)

\* send in a conversation, or in a new one, whose load is skipped
\* (skipMsgLoadRef); a session of the thread is aborted first
send(t) ==
  /\ Move
  /\ \/ t = cur /\ t \notin generating
     \/ cur = NoThread /\ server[t].asked = 0 /\ \A s \in Sess : session[s].thread # t
  /\ cur' = t
  /\ \E s \in Sess :
       /\ Fresh(s)
       /\ session' = [r \in Sess |-> IF r = s THEN New(t, "chat", bubbles + 1)
                                     ELSE IF r = parked[t] THEN [session[r] EXCEPT !.state = "closed"]
                                     ELSE session[r]]
       /\ parked' = [parked EXCEPT ![t] = s]
       /\ listen(t, s, view)
  /\ UNCHANGED <<server, loads, history, replaced>>

\* stop: the server is told, the session is dropped, the bubble is ended
stopGenerate ==
  /\ Move /\ cur \in generating
  /\ \E told \in BOOLEAN :
       server' = [server EXCEPT ![cur].stop = @ \/ (told /\ server[cur].run = "running")]
  /\ stopped' = stopped \union {cur}
  /\ IF parked[cur] = 0 THEN UNCHANGED <<session, parked, shown, listeners, generating, detach>>
     ELSE LET mine == {l \in listeners : l.session = parked[cur]} IN
          /\ session' = [session EXCEPT ![parked[cur]].state = "closed"]
          /\ parked' = [parked EXCEPT ![cur] = 0]
          /\ Finally(parked[cur], mine)
          /\ EndBubbles({l.bubble : l \in mine}, FALSE)
  /\ UNCHANGED <<cur, loads, stream, bubbles>>
-----------------------------------------------------------------------------
(* the server, as ChatTurn has it, and the streams *)

Rest == <<cur, loads, stream, stopped, bubbles, moves>>

\* POST chat: the question is saved and its run begins, or 409
Posted(s) ==
  LET t == session[s].thread IN
  /\ session[s].state = "posted" /\ session[s].kind = "chat"
  /\ IF server[t].run = "running"
       THEN Settle(s, TRUE) /\ UNCHANGED server
       ELSE /\ server' = [server EXCEPT ![t].run = "running", ![t].sent = 0, ![t].asked = @ + 1,
                                        ![t].stop = FALSE]
            /\ session' = [session EXCEPT ![s].state = "open", ![s].run = server[t].asked + 1]
            /\ UNCHANGED <<parked, shown, listeners, generating, detach>>
  /\ UNCHANGED Rest

\* GET resume: the frames from the first one, or 204: reload, if it is shown
Resumed(s) ==
  LET t == session[s].thread
      mine == {l \in listeners : l.session = s} IN
  /\ session[s].state = "posted" /\ session[s].kind = "resume"
  /\ IF server[t].run # "none"
       THEN /\ session' = [session EXCEPT ![s].state = "open", ![s].run = server[t].asked]
            /\ UNCHANGED <<parked, listeners, generating, detach, loads>>
       ELSE /\ session' = [session EXCEPT ![s].state = "closed"]
            /\ Forget(s)
            /\ IF cur = t /\ mine # {}
                 THEN /\ loads' = loads \union {Fetch(t, "empty", s)}
                      /\ UNCHANGED <<listeners, generating, detach>>
                 ELSE Finally(s, mine) /\ UNCHANGED loads
  /\ UNCHANGED <<server, cur, shown, stream, stopped, bubbles, moves>>

\* the agent: a frame, the last of them once the answer is a row; a stopped
\* run may have nothing to keep
Emit(t) ==
  LET v == server[t]
      n == v.sent + 1 IN
  /\ v.run = "running" /\ v.sent < Frames
  /\ \/ /\ n = Frames /\ v.answered < v.asked
        /\ server' = [server EXCEPT ![t].answered = v.asked]
     \/ /\ n = Frames => v.answered = v.asked \/ v.stop
        /\ server' = [server EXCEPT ![t].sent = n, ![t].run = IF n = Frames THEN "over" ELSE @]
  /\ UNCHANGED <<clientVars, moves>>

\* the API dies with the run, or the keys of an ended run expire
Dies(t) ==
  /\ Move /\ server[t].run = "running"
  /\ server' = [server EXCEPT ![t].run = "dead"]
  /\ UNCHANGED clientVars
Expires(t) ==
  /\ server[t].run \in {"over", "dead"}
  /\ \A s \in Sess : session[s].thread = t => session[s].state # "open"
  /\ server' = [server EXCEPT ![t].run = "none"]
  /\ UNCHANGED <<clientVars, moves>>

\* bindHandlers: what the frame says is added to the bubble; the terminal
\* one ends it
Handled(b, n) == [b EXCEPT !.got = Append(@, n), !.streaming = @ /\ n < Frames]

\* a frame arrives: recorded, and dispatched to the handlers
Deliver(s) ==
  LET n == session[s].got + 1 IN
  /\ session[s].state = "open" /\ n <= server[session[s].thread].sent
  /\ session' = [session EXCEPT ![s].got = n]
  /\ view' = {IF b.id = session[s].to THEN Handled(b, n) ELSE b : b \in view}
  /\ UNCHANGED <<server, parked, history, replaced, listeners, generating, detach, Rest>>

\* the response ends; an error unless a resume just has nothing more to read
Ends(s) ==
  LET v == server[session[s].thread] IN
  /\ session[s].state = "open"
  /\ session[s].got = v.sent /\ v.run \in {"over", "dead", "none"}
  /\ Settle(s, v.run = "dead" /\ session[s].kind = "chat")
  /\ UNCHANGED <<server, Rest>>

\* the request is refused, or its connection breaks
Drops(s) ==
  /\ session[s].state \in {"posted", "open"} /\ Move
  /\ Settle(s, TRUE)
  /\ UNCHANGED <<server, cur, loads, stream, stopped, bubbles>>

Net == \/ \E l \in loads : Serve(l) \/ Loaded(l) \/ Reloaded(l)
       \/ \E s \in Sess : Posted(s) \/ Resumed(s) \/ Deliver(s) \/ Ends(s)
ClientNext ==
  \/ Net
  \/ \E t \in Threads : Emit(t) \/ Dies(t) \/ Expires(t) \/ send(t)
  \/ \E t \in Threads \union {NoThread} : Open(t) \/ Remount(t)
  \/ \E l \in loads : LoadFailed(l)
  \/ \E s \in Sess : Drops(s)
  \/ stopGenerate

ClientSpec == ClientInit /\ [][ClientNext]_chatVars
\* answers arrive, frame by frame; runs end (there are finitely many)
ClientFairness ==
  /\ WF_chatVars(\E t \in Threads : Emit(t))
  /\ WF_chatVars(Net)
-----------------------------------------------------------------------------
(* Properties *)

Opening == \E l \in loads : l.thread = cur /\ l.kind = "open"

\* Once its messages are loaded, a conversation shows no bubble of another,
\* and its own hold every frame of their session, once and in order, unless
\* an error took their place: none is lost or doubled between replay and live
\* frames, however often the user leaves and comes back.  The answer that is
\* being read is among them, below rows of its own conversation, except after
\* a reload that came late, or a load that failed, has set the messages.
EveryFrameOnce ==
  ~Opening =>
    /\ \A b \in view : b.thread = cur /\ (b.error \/ b.got = Upto(session[b.session].got))
    /\ replaced \/ /\ history.thread \in {NoThread, cur}
                   /\ cur # NoThread /\ parked[cur] # 0 => \E b \in view : b.session = parked[cur]

\* What getActiveRun's comment says of a run that is over: the client renders
\* it as ordinary history, its answer being a row.
OverIsHistory ==
  ~Opening => \A b \in view :
    history.thread = b.thread /\ ~history.active => ~ session[b.session].run \in 1..history.answered

\* A conversation is not blocked for ever.
GeneratingEnds == \A t \in Threads : t \in generating ~> t \notin generating
=============================================================================
