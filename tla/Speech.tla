------------------------------- MODULE Speech -------------------------------
(***************************************************************************)
(* Reading an answer aloud: the player in the browser (web lib/tts.ts and  *)
(* the play button of ChatPage.tsx) and the gateway that synthesizes       *)
(* sentence by sentence (tts.gateway.ts), over a socket that keeps order.  *)
(* Text, voices and audio data are left out: an utterance is its           *)
(* generation and its number of sentences.  Handlers run to their next     *)
(* await; a stop lets the pump end before anything else happens.           *)
(***************************************************************************)
EXTENDS Integers, Sequences, FiniteSets

CONSTANTS Sentences,  \* sentences of an utterance
          MaxGen,     \* bound: generations that the user starts
          MaxFails    \* bound: syntheses that fail

ASSUME SpeechAssumption ==
  /\ Sentences \in Nat \ {0}
  /\ MaxGen \in Nat
  /\ MaxFails \in Nat

VARIABLES
  generation, \* TtsPlayer.generation
  queue,      \* TtsPlayer.queue
  current,    \* the audio that plays, or none
  speaking,   \* the generation of the last speak(), 0 before
  toServer,   \* frames of the socket
  toClient,
  speakGen,   \* client.data.speakGen; none is -1
  loops,      \* the speak handlers that run: generation, sentence
  fails,
  heard,      \* ghost: heard[g]: sentences played of g, in order
  told,       \* ghost: generations whose done or error has reached the client
  killed      \* ghost: generations that another one's failure has stopped

playerVars  == <<generation, queue, current, speaking, heard, told>>
gatewayVars == <<speakGen, loops, fails, killed>>
speechVars == <<playerVars, gatewayVars, toServer, toClient>>

\* each failure and each refusal stops once more
Gen  == 1..(2 * MaxGen + MaxFails)
Item == [gen : Gen, index : 1..Sentences]
Silence == {}

\* Every variable stays in its type; nothing is queued while nothing plays.
SpeechTypeOK ==
  /\ generation \in Gen \union {0}
  /\ queue \subseteq Item
  /\ current \subseteq Item /\ Cardinality(current) <= 1
  /\ current = Silence => queue = {}
  /\ speaking \in 0..MaxGen
  /\ toServer \in Seq([kind : {"speak", "stop"}, gen : Gen \union {0}])
  /\ toClient \in Seq([kind : {"audio", "done", "error"}, gen : Gen \union {0}, index : 0..Sentences])
  /\ speakGen \in Gen \union {-1}
  /\ loops \subseteq Item
  /\ fails \in 0..MaxFails
  /\ heard \in [Gen -> Seq(1..Sentences)]
  /\ told \subseteq Gen \union {0}
  /\ killed \subseteq Gen

SpeechInit ==
  /\ generation = 0 /\ queue = {} /\ current = Silence /\ speaking = 0
  /\ toServer = <<>> /\ toClient = <<>>
  /\ speakGen = -1 /\ loops = {} /\ fails = 0
  /\ heard = [g \in Gen |-> <<>>] /\ told = {} /\ killed = {}
-----------------------------------------------------------------------------
(* the player *)

\* stopPlayback, with what is sent after its stop
StopPlayback(frames) ==
  /\ generation' = generation + 1
  /\ toServer' = toServer \o <<[kind |-> "stop", gen |-> 0]>> \o frames
  /\ current' = Silence
  /\ queue' = {}

Speak ==
  /\ generation < MaxGen
  /\ StopPlayback(<<[kind |-> "speak", gen |-> generation + 1]>>)
  /\ speaking' = generation'
  /\ UNCHANGED <<heard, told, toClient, gatewayVars>>

Stop ==
  /\ speaking # 0 /\ generation < MaxGen
  /\ StopPlayback(<<>>)
  /\ UNCHANGED <<speaking, heard, told, toClient, gatewayVars>>

\* mutant of Play: the sentence that came last is next
PlayLast(items) ==
  IF items = {} THEN current' = Silence /\ queue' = {} /\ UNCHANGED heard
  ELSE LET next == CHOOSE i \in items : \A j \in items : i.index >= j.index IN
       /\ current' = {next} /\ queue' = items \ {next}
       /\ heard' = [heard EXCEPT ![next.gen] = Append(@, next.index)]

\* pump: the lowest index is next
Play(items) ==
  IF items = {} THEN current' = Silence /\ queue' = {} /\ UNCHANGED heard
  ELSE LET next == CHOOSE i \in items : \A j \in items : i.index <= j.index IN
       /\ current' = {next} /\ queue' = items \ {next}
       /\ heard' = [heard EXCEPT ![next.gen] = Append(@, next.index)]

\* mutant of OnAudio: frames of other generations are played as well
OnAudioAny(item) ==
  IF current = Silence THEN Play(queue \union {item})
  ELSE queue' = queue \union {item} /\ UNCHANGED <<current, heard>>

\* a frame of another generation is dropped
OnAudio(item) ==
  IF item.gen # generation THEN UNCHANGED <<queue, current, heard>>
  ELSE IF current = Silence THEN Play(queue \union {item})
  ELSE queue' = queue \union {item} /\ UNCHANGED <<current, heard>>

\* an error of this generation, or of none (0), stops the playback
Receive ==
  /\ toClient # <<>>
  /\ toClient' = Tail(toClient)
  /\ LET f == Head(toClient) IN
     \/ /\ f.kind = "audio"
        /\ OnAudio([gen |-> f.gen, index |-> f.index])
        /\ UNCHANGED <<generation, told, toServer>>
     \/ /\ f.kind = "done" \/ f.gen \notin {0, generation}
        /\ f.kind # "audio"
        /\ told' = told \union {f.gen}
        /\ UNCHANGED <<generation, queue, current, heard, toServer>>
     \/ /\ f.kind = "error" /\ f.gen \in {0, generation}
        /\ told' = told \union {f.gen}
        /\ StopPlayback(<<>>)
        /\ UNCHANGED heard
  /\ UNCHANGED <<speaking, gatewayVars>>

\* onended, onerror, or play() refused
Ended ==
  /\ current # Silence
  /\ Play(queue)
  /\ UNCHANGED <<generation, speaking, told, toServer, toClient, gatewayVars>>
-----------------------------------------------------------------------------
(* the gateway *)

SendFrame(kind, gen, index) ==
  toClient' = Append(toClient, [kind |-> kind, gen |-> gen, index |-> index])

\* speak runs to the first synthesis
OnSpeak ==
  /\ toServer # <<>> /\ Head(toServer).kind = "speak"
  /\ toServer' = Tail(toServer)
  /\ speakGen' = Head(toServer).gen
  /\ loops' = loops \union {[gen |-> Head(toServer).gen, index |-> 1]}
  /\ UNCHANGED <<playerVars, toClient, fails, killed>>

\* the text is too long, or empty: nothing is spoken, and what is goes on
\* here; the error names no generation
Refuse ==
  /\ toServer # <<>> /\ Head(toServer).kind = "speak"
  /\ toServer' = Tail(toServer)
  /\ SendFrame("error", 0, 0)
  /\ UNCHANGED <<playerVars, speakGen, loops, fails, killed>>

OnStop ==
  /\ toServer # <<>> /\ Head(toServer).kind = "stop"
  /\ toServer' = Tail(toServer)
  /\ speakGen' = -1
  /\ UNCHANGED <<playerVars, toClient, loops, fails, killed>>

\* mutant of Synthesized: the next sentence is not asked for
SynthesizedOnce(l) ==
  /\ l \in loops
  /\ loops' = loops \ {l}
  /\ IF speakGen # l.gen THEN UNCHANGED toClient ELSE SendFrame("audio", l.gen, l.index)
  /\ UNCHANGED <<playerVars, toServer, speakGen, fails, killed>>

\* the audio of a sentence: sent unless something else is spoken by now, and
\* on to the next
Synthesized(l) ==
  /\ l \in loops
  /\ IF speakGen # l.gen THEN loops' = loops \ {l} /\ UNCHANGED toClient
     ELSE LET audio == [kind |-> "audio", gen |-> l.gen, index |-> l.index]
              done  == [kind |-> "done", gen |-> l.gen, index |-> 0] IN
          IF l.index = Sentences
            THEN loops' = loops \ {l} /\ toClient' = toClient \o <<audio, done>>
            ELSE /\ loops' = (loops \ {l}) \union {[l EXCEPT !.index = @ + 1]}
                 /\ toClient' = Append(toClient, audio)
  /\ UNCHANGED <<playerVars, toServer, speakGen, fails, killed>>

\* a synthesis fails or times out: whatever is spoken now is stopped
SynthesisFails(l) ==
  /\ l \in loops /\ fails < MaxFails
  /\ fails' = fails + 1
  /\ SendFrame("error", l.gen, l.index)
  /\ speakGen' = -1
  /\ loops' = loops \ {l}
  /\ killed' = IF speakGen \in Gen \ {l.gen} THEN killed \union {speakGen} ELSE killed
  /\ UNCHANGED <<playerVars, toServer>>

SpeechNext ==
  \/ Speak \/ Stop \/ Receive \/ Ended
  \/ OnSpeak \/ Refuse \/ OnStop \/ \E l \in loops : Synthesized(l) \/ SynthesisFails(l)

SpeechSpec == SpeechInit /\ [][SpeechNext]_speechVars
\* frames arrive, syntheses end (within 30 s), and audio ends
SpeechFairness ==
  /\ WF_speechVars(Receive \/ OnSpeak \/ Refuse \/ OnStop)
  /\ WF_speechVars(\E l \in loops : Synthesized(l))
-----------------------------------------------------------------------------
(* Properties *)

\* What plays or waits to be played is of the latest generation: a stop takes
\* effect at once, whatever is still on its way.
OnlyLatestPlays == \A i \in current \union queue : i.gen = generation

\* The sentences of an answer are played in their order, none twice and none
\* left out, however speak, stop and old frames interleave.
InOrder == \A g \in Gen : \A n \in DOMAIN heard[g] : heard[g][n] = n

\* Speaking ends: the client hears done or error, unless it has been stopped, by
\* the user or by the refusal of a text, which names no generation, or a late
\* failure of an older generation has ended it (tts.gateway.ts:106).
SpeakEndsUnlessKilled ==
  \A g \in Gen : speaking = g ~> g \in told \union killed \/ generation # g
=============================================================================
