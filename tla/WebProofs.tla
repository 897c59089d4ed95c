----------------------------- MODULE WebProofs ------------------------------
(***************************************************************************)
(* Proofs about Speech, ChatClient and DocumentsPage: only the latest      *)
(* utterance is heard, and its sentences in their order; a bubble that is  *)
(* shown holds every frame of its session once; no page is left empty.     *)
(* For any number of sentences, conversations, sessions, documents,        *)
(* requests and failures.                                                  *)
(***************************************************************************)
EXTENDS Speech, ChatClient, DocumentsPage, TLAPS, WellFoundedInduction, FiniteSetTheorems

USE SpeechAssumption
-----------------------------------------------------------------------------
Ask   == [kind : {"speak", "stop"}, gen : Nat]
Reply == [kind : {"audio", "done", "error"}, gen : Nat, index : Nat]
Sound == [gen : Nat, index : Nat]

\* as much of the types as the argument needs: pump finds the lowest index
Shapes ==
  /\ generation \in Nat
  /\ queue \subseteq Sound /\ current \subseteq Sound
  /\ toServer \in Seq(Ask)
  /\ toClient \in Seq(Reply)
  /\ loops \subseteq Sound

SpeechInv == Shapes /\ OnlyLatestPlays

\* among sounds there is one of the lowest index
LEMMA LowestIndex ==
  ASSUME NEW items, items \subseteq Sound, items # {}
  PROVE  \E i \in items : \A j \in items : i.index <= j.index
<1> DEFINE indices == {i.index : i \in items}
<1>1. indices \subseteq Nat /\ indices # {}
  BY DEF Sound
<1> HIDE DEF indices
<1>2. PICK n \in indices : \A m \in indices : ~ (<<m, n>> \in OpToRel(<, Nat))
  BY <1>1, NatLessThanWellFounded, WFMin
<1>3. ASSUME NEW m \in indices, m < n PROVE FALSE
  <2>1. m \in Nat /\ n \in Nat
    BY <1>1
  <2>2. <<m, n>> \in OpToRel(<, Nat)
    BY <1>3, <2>1, Zenon DEF OpToRel
  <2>. QED  BY <1>2, <2>2
<1>4. \A m \in indices : n <= m
  BY <1>1, <1>3
<1>. QED  BY <1>4 DEF indices

\* pump plays one of the sounds that it is given and keeps the others
LEMMA PlayKeeps ==
  ASSUME NEW items, items \subseteq Sound, Play(items)
  PROVE  current' \subseteq items /\ queue' \subseteq items
<1>1. CASE items = {}
  BY <1>1 DEF Play, Silence
<1>2. CASE items # {}
  <2> DEFINE next == CHOOSE i \in items : \A j \in items : i.index <= j.index
  <2>1. next \in items
    BY <1>2, LowestIndex
  <2>2. current' = {next} /\ queue' = items \ {next}
    BY <1>2 DEF Play
  <2>. QED  BY <2>1, <2>2
<1>. QED  BY <1>1, <1>2

\* a stop silences what was heard, and sends its frames
LEMMA StopSilences ==
  ASSUME Shapes, NEW frames \in Seq(Ask), StopPlayback(frames)
  PROVE  /\ generation' \in Nat /\ current' = {} /\ queue' = {}
         /\ toServer' \in Seq(Ask)
<1>1. [kind |-> "stop", gen |-> 0] \in Ask
  BY DEF Ask
<1>2. <<[kind |-> "stop", gen |-> 0]>> \in Seq(Ask)
  BY <1>1
<1>. QED  BY <1>2 DEF StopPlayback, Shapes, Silence

LEMMA SpeechStart == SpeechInit => SpeechInv
<1>1. <<>> \in Seq(Ask) /\ <<>> \in Seq(Reply)
  OBVIOUS
<1>. QED  BY <1>1 DEF SpeechInit, SpeechInv, Shapes, OnlyLatestPlays, Silence

\* what is sent is a reply
LEMMA SendTypes ==
  ASSUME Shapes, NEW kind \in {"audio", "done", "error"}, NEW gen \in Nat, NEW index \in Nat
  PROVE  Append(toClient, [kind |-> kind, gen |-> gen, index |-> index]) \in Seq(Reply)
<1>1. [kind |-> kind, gen |-> gen, index |-> index] \in Reply
  BY DEF Reply
<1>. QED  BY <1>1 DEF Shapes

LEMMA PlayerSafe ==
  ASSUME SpeechInv, Speak \/ Stop \/ Receive \/ Ended
  PROVE  SpeechInv'
<1>0. Shapes
  BY DEF SpeechInv
<1>1. CASE Speak \/ Stop
  <2>1. PICK frames \in Seq(Ask) : StopPlayback(frames)
    <3>1. [kind |-> "speak", gen |-> generation + 1] \in Ask
      BY <1>0 DEF Ask, Shapes
    <3>2. <<[kind |-> "speak", gen |-> generation + 1]>> \in Seq(Ask) /\ <<>> \in Seq(Ask)
      BY <3>1
    <3>. QED  BY <1>1, <3>2 DEF Speak, Stop
  <2>2. UNCHANGED <<toClient, loops>>
    BY <1>1 DEF Speak, Stop, gatewayVars
  <2>. QED  BY <1>0, <2>1, <2>2, StopSilences DEF SpeechInv, Shapes, OnlyLatestPlays
<1>2. CASE Receive
  <2> DEFINE f == Head(toClient)
             item == [gen |-> f.gen, index |-> f.index]
  <2>0. toClient # <<>> /\ toClient' = Tail(toClient) /\ UNCHANGED loops
    BY <1>2 DEF Receive, gatewayVars
  <2>1. f \in Reply /\ toClient' \in Seq(Reply)
    BY <1>0, <2>0 DEF Shapes
  <2>2. item \in Sound /\ item.gen = f.gen
    BY <2>1 DEF Reply, Sound
  <2>3. CASE OnAudio(item) /\ UNCHANGED <<generation, toServer>>
    <3> HIDE DEF item
    <3>1. CASE UNCHANGED <<queue, current>>
      BY <1>0, <2>0, <2>1, <2>3, <3>1 DEF SpeechInv, Shapes, OnlyLatestPlays
    <3>2. CASE item.gen = generation /\ Play(queue \union {item})
      <4>1. queue \union {item} \subseteq Sound
        BY <1>0, <2>2 DEF Shapes
      <4>2. current' \union queue' \subseteq queue \union {item}
        BY <3>2, <4>1, PlayKeeps
      <4>. QED  BY <1>0, <2>0, <2>1, <2>2, <2>3, <3>2, <4>2 DEF SpeechInv, Shapes, OnlyLatestPlays
    <3>3. CASE item.gen = generation /\ queue' = queue \union {item} /\ UNCHANGED current
      BY <1>0, <2>0, <2>1, <2>2, <2>3, <3>3 DEF SpeechInv, Shapes, OnlyLatestPlays
    <3>. QED  BY <2>3, <3>1, <3>2, <3>3 DEF OnAudio
  <2>4. CASE UNCHANGED <<generation, queue, current, toServer>>
    BY <1>0, <2>0, <2>1, <2>4 DEF SpeechInv, Shapes, OnlyLatestPlays
  <2>5. CASE StopPlayback(<<>>)
    <3>1. <<>> \in Seq(Ask)
      OBVIOUS
    <3>. QED  BY <1>0, <2>0, <2>1, <2>5, <3>1, StopSilences DEF SpeechInv, Shapes, OnlyLatestPlays
  <2>. QED  BY <1>2, <2>3, <2>4, <2>5 DEF Receive
<1>3. CASE Ended
  <2>1. Play(queue) /\ UNCHANGED <<generation, toServer, toClient, loops>>
    BY <1>3 DEF Ended, gatewayVars
  <2>2. current' \subseteq queue /\ queue' \subseteq queue
    BY <1>0, <2>1, PlayKeeps DEF Shapes
  <2>. QED  BY <1>0, <2>1, <2>2 DEF SpeechInv, Shapes, OnlyLatestPlays
<1>. QED  BY <1>1, <1>2, <1>3

LEMMA GatewaySafe ==
  ASSUME SpeechInv, OnSpeak \/ Refuse \/ OnStop \/ \E l \in loops : Synthesized(l) \/ SynthesisFails(l)
  PROVE  SpeechInv'
<1>0. Shapes
  BY DEF SpeechInv
<1>1. UNCHANGED <<generation, queue, current>>
  BY DEF OnSpeak, Refuse, OnStop, Synthesized, SynthesisFails, playerVars
<1>2. toServer' \in Seq(Ask) /\ toClient' \in Seq(Reply) /\ loops' \subseteq Sound
  <2>1. CASE OnSpeak \/ OnStop
    <3>1. toServer # <<>> /\ toServer' = Tail(toServer) /\ UNCHANGED toClient
      BY <2>1 DEF OnSpeak, OnStop
    <3>2. Head(toServer) \in Ask /\ toServer' \in Seq(Ask)
      BY <1>0, <3>1 DEF Shapes
    <3>3. [gen |-> Head(toServer).gen, index |-> 1] \in Sound
      BY <3>2 DEF Ask, Sound
    <3>4. loops' \subseteq loops \union {[gen |-> Head(toServer).gen, index |-> 1]}
      BY <2>1 DEF OnSpeak, OnStop
    <3>. QED  BY <1>0, <3>1, <3>2, <3>3, <3>4 DEF Shapes
  <2>2. ASSUME NEW l \in loops, Synthesized(l) PROVE toClient' \in Seq(Reply) /\ loops' \subseteq Sound
    <3> DEFINE audio == [kind |-> "audio", gen |-> l.gen, index |-> l.index]
               done  == [kind |-> "done", gen |-> l.gen, index |-> 0]
               next  == [l EXCEPT !.index = @ + 1]
    <3>1. l \in Sound /\ l.gen \in Nat /\ l.index \in Nat
      BY <1>0, <2>2 DEF Shapes, Sound
    <3>2. audio \in Reply /\ done \in Reply /\ next \in Sound
      BY <3>1 DEF Reply, Sound
    <3>3. /\ \/ toClient' = toClient
             \/ toClient' = Append(toClient, audio)
             \/ toClient' = toClient \o <<audio, done>>
          /\ loops' \subseteq loops \union {next}
      BY <2>2 DEF Synthesized
    <3> HIDE DEF audio, done, next
    <3>4. <<audio, done>> \in Seq(Reply)
      BY <3>2
    <3>5. toClient' \in Seq(Reply)
      <4>1. toClient \in Seq(Reply)
        BY <1>0 DEF Shapes
      <4>2. Append(toClient, audio) \in Seq(Reply)
        BY <3>2, <4>1
      <4>3. toClient \o <<audio, done>> \in Seq(Reply)
        BY <3>4, <4>1
      <4>. QED  BY <3>3, <4>1, <4>2, <4>3
    <3>. QED  BY <1>0, <3>2, <3>3, <3>5 DEF Shapes
  <2>3. ASSUME NEW l \in loops, SynthesisFails(l) PROVE toClient' \in Seq(Reply) /\ loops' \subseteq Sound
    <3>1. l.gen \in Nat /\ l.index \in Nat
      BY <1>0, <2>3 DEF Shapes, Sound
    <3>. QED  BY <1>0, <2>3, <3>1, SendTypes DEF SynthesisFails, SendFrame, Shapes
  <2>4. ASSUME NEW l \in loops, Synthesized(l) \/ SynthesisFails(l) PROVE toServer' \in Seq(Ask)
    BY <1>0, <2>4 DEF Synthesized, SynthesisFails, Shapes
  <2>5. CASE Refuse
    BY <1>0, <2>5, SendTypes DEF Refuse, SendFrame, Shapes
  <2>. QED  BY <2>1, <2>2, <2>3, <2>4, <2>5
<1>. QED  BY <1>0, <1>1, <1>2 DEF SpeechInv, Shapes, OnlyLatestPlays

LEMMA SpeechInvStep == SpeechInv /\ [SpeechNext]_speechVars => SpeechInv'
<1>1. CASE UNCHANGED speechVars
  BY <1>1 DEF speechVars, playerVars, gatewayVars, SpeechInv, Shapes, OnlyLatestPlays
<1>. QED  BY <1>1, PlayerSafe, GatewaySafe DEF SpeechNext

\* What plays or waits in the player is of the latest generation: a stop takes
\* effect at once, whatever is still on its way (tts.ts stopPlayback, onAudio).
THEOREM LatestOnly == SpeechSpec => []OnlyLatestPlays
<1>1. SpeechInv => OnlyLatestPlays
  BY DEF SpeechInv
<1>. QED  BY <1>1, SpeechStart, SpeechInvStep, PTL DEF SpeechSpec
-----------------------------------------------------------------------------
(* The order of the sentences.  Of the latest generation g, the sentences  *)
(* up to Len(heard[g]) have been played, those up to r wait in the queue,  *)
(* those up to s are on their way, and the gateway goes on with s + 1.     *)

IsAudio(f, g) == f.kind = "audio" /\ f.gen = g

\* the audio of g in a sequence of frames is r + 1 .. s, in this order
Carries(seq, g, r, s) ==
  /\ \A n \in DOMAIN seq : IsAudio(seq[n], g) => seq[n].index \in (r + 1)..s
  /\ \A k \in (r + 1)..s : \E n \in DOMAIN seq : IsAudio(seq[n], g) /\ seq[n].index = k
  /\ \A m, n \in DOMAIN seq :
       m < n /\ IsAudio(seq[m], g) /\ IsAudio(seq[n], g) => seq[m].index < seq[n].index

Asks(f, g)       == f.kind = "speak" /\ f.gen = g
Asked(seq, g)    == \E n \in DOMAIN seq : Asks(seq[n], g)
AskedOnce(seq, g) == \A m, n \in DOMAIN seq : Asks(seq[m], g) /\ Asks(seq[n], g) => m = n
NoLoop(g)        == \A l \in loops : l.gen # g

\* the sentences n + 1 .. r of g
Span(g, n, r) == {[gen |-> g, index |-> k] : k \in (n + 1)..r}

SpokenUpTo(g, r, s) ==
  /\ Len(heard[g]) <= r /\ r <= s
  /\ queue = Span(g, Len(heard[g]), r)
  /\ Carries(toClient, g, r, s)
  /\ \A l \in loops : l.gen = g => l.index = s + 1
  /\ AskedOnce(toServer, g)
  /\ Asked(toServer, g) => s = 0 /\ NoLoop(g)

Spoken(g) == \E r, s \in Nat : SpokenUpTo(g, r, s)

Unsaid(g) == /\ heard[g] = <<>>
             /\ \A n \in DOMAIN toClient : ~IsAudio(toClient[n], g)
             /\ ~Asked(toServer, g)
             /\ NoLoop(g)

OrderInv ==
  /\ heard \in [Gen -> Seq(Nat)]
  /\ InOrder
  /\ generation \in Gen => Spoken(generation)
  /\ \A g \in Gen : g > generation => Unsaid(g)
-----------------------------------------------------------------------------
\* a frame that arrives or is sent: what the sequence carries then
LEMMA TailCarries ==
  ASSUME NEW seq \in Seq(Reply), seq # <<>>, NEW g, NEW r \in Nat, NEW s \in Nat,
         Carries(seq, g, r, s)
  PROVE  /\ ~IsAudio(Head(seq), g) => Carries(Tail(seq), g, r, s)
         /\ IsAudio(Head(seq), g) => /\ Head(seq).index = r + 1 /\ r < s
                                     /\ Carries(Tail(seq), g, r + 1, s)
<1> DEFINE tail == Tail(seq)
<1>1. /\ tail \in Seq(Reply) /\ DOMAIN tail = 1..(Len(seq) - 1) /\ DOMAIN seq = 1..Len(seq)
      /\ Len(seq) \in Nat \ {0}
      /\ \A n \in DOMAIN tail : tail[n] = seq[n + 1] /\ n + 1 \in DOMAIN seq
      /\ seq[1] = Head(seq)
  OBVIOUS
<1>2. \A n \in DOMAIN seq : seq[n].index \in Nat
  <2>1. \A n \in DOMAIN seq : seq[n] \in Reply
    OBVIOUS
  <2> QED
    BY <2>1 DEF Reply
<1>3. ASSUME NEW n \in DOMAIN seq, n # 1 PROVE n - 1 \in DOMAIN tail /\ tail[n - 1] = seq[n]
  BY <1>1, <1>3
<1> HIDE DEF tail
<1>4. /\ \A n \in DOMAIN tail : IsAudio(tail[n], g) => tail[n].index \in (r + 1)..s
      /\ \A m, n \in DOMAIN tail :
           m < n /\ IsAudio(tail[m], g) /\ IsAudio(tail[n], g) => tail[m].index < tail[n].index
  BY <1>1 DEF Carries
<1>5. CASE ~IsAudio(Head(seq), g)
  <2>1. ASSUME NEW k \in (r + 1)..s PROVE \E n \in DOMAIN tail : IsAudio(tail[n], g) /\ tail[n].index = k
    <3>1. PICK n \in DOMAIN seq : IsAudio(seq[n], g) /\ seq[n].index = k
      BY <2>1 DEF Carries
    <3>2. n # 1
      BY <1>1, <1>5, <3>1
    <3> QED
      BY <1>3, <3>1, <3>2
  <2> QED
    BY <1>4, <1>5, <2>1 DEF Carries, tail
<1>6. CASE IsAudio(Head(seq), g)
  <2>1. 1 \in DOMAIN seq /\ IsAudio(seq[1], g) /\ seq[1].index \in (r + 1)..s
    BY <1>1, <1>6 DEF Carries
  <2>2. PICK n \in DOMAIN seq : IsAudio(seq[n], g) /\ seq[n].index = r + 1
    BY <2>1 DEF Carries
  <2>3. seq[1].index = r + 1
    <3>1. n = 1 \/ 1 < n
      BY <1>1
    <3>2. 1 < n => seq[1].index < seq[n].index
      BY <2>1, <2>2 DEF Carries
    <3> QED
      BY <1>2, <2>1, <2>2, <3>1, <3>2
  <2>4. \A m \in DOMAIN tail : IsAudio(tail[m], g) => tail[m].index \in (r + 2)..s
    <3>1. SUFFICES ASSUME NEW m \in DOMAIN tail, IsAudio(tail[m], g)
                   PROVE  tail[m].index \in (r + 2)..s
      OBVIOUS
    <3>2. m + 1 \in DOMAIN seq /\ tail[m] = seq[m + 1] /\ 1 < m + 1
      BY <1>1
    <3>3. seq[1].index < seq[m + 1].index
      BY <2>1, <3>1, <3>2 DEF Carries
    <3> QED
      BY <1>2, <1>4, <2>1, <2>3, <3>1, <3>2, <3>3
  <2>5. ASSUME NEW k \in (r + 2)..s PROVE \E m \in DOMAIN tail : IsAudio(tail[m], g) /\ tail[m].index = k
    <3>1. PICK m \in DOMAIN seq : IsAudio(seq[m], g) /\ seq[m].index = k
      BY <2>5 DEF Carries
    <3>2. m # 1
      BY <2>3, <3>1
    <3> QED
      BY <1>3, <3>1, <3>2
  <2>6. Carries(tail, g, r + 1, s)
    BY <1>4, <2>4, <2>5 DEF Carries
  <2> QED
    BY <1>1, <1>6, <2>1, <2>3, <2>6 DEF tail
<1> QED
  BY <1>5, <1>6

LEMMA AppendCarries ==
  ASSUME NEW seq \in Seq(Reply), NEW f \in Reply, NEW g, NEW r \in Nat, NEW s \in Nat, r <= s,
         Carries(seq, g, r, s)
  PROVE  /\ ~IsAudio(f, g) => Carries(Append(seq, f), g, r, s)
         /\ IsAudio(f, g) /\ f.index = s + 1 => Carries(Append(seq, f), g, r, s + 1)
<1> DEFINE more == Append(seq, f)
<1>1. /\ DOMAIN more = 1..(Len(seq) + 1) /\ DOMAIN seq = 1..Len(seq) /\ Len(seq) \in Nat
      /\ \A n \in DOMAIN seq : more[n] = seq[n]
      /\ more[Len(seq) + 1] = f
  OBVIOUS
<1>2. \A n \in DOMAIN more : n \in DOMAIN seq \/ n = Len(seq) + 1
  BY <1>1
<1>3. \A n \in DOMAIN seq : n \in DOMAIN more /\ n < Len(seq) + 1
  BY <1>1
<1> HIDE DEF more
<1>4. CASE ~IsAudio(f, g)
  BY <1>1, <1>2, <1>3, <1>4 DEF Carries, more
<1>5. CASE IsAudio(f, g) /\ f.index = s + 1
  <2>1. \A n \in DOMAIN more : IsAudio(more[n], g) => more[n].index \in (r + 1)..(s + 1)
    BY <1>1, <1>2, <1>5 DEF Carries
  <2>2. ASSUME NEW k \in (r + 1)..(s + 1)
        PROVE  \E n \in DOMAIN more : IsAudio(more[n], g) /\ more[n].index = k
    <3>1. CASE k = s + 1
      BY <1>1, <1>5, <3>1
    <3>2. CASE k \in (r + 1)..s
      BY <1>1, <1>3, <3>2 DEF Carries
    <3> QED
      BY <2>2, <3>1, <3>2
  <2>3. ASSUME NEW m \in DOMAIN more, NEW n \in DOMAIN more, m < n,
               IsAudio(more[m], g), IsAudio(more[n], g)
        PROVE  more[m].index < more[n].index
    <3>1. m \in DOMAIN seq /\ more[m] = seq[m]
      BY <1>1, <2>3
    <3>2. CASE n = Len(seq) + 1
      <4>1. seq[m].index \in (r + 1)..s
        BY <2>3, <3>1 DEF Carries
      <4> QED
        BY <1>1, <1>5, <3>1, <3>2, <4>1
    <3>3. CASE n \in DOMAIN seq
      BY <1>1, <2>3, <3>1, <3>3 DEF Carries
    <3> QED
      BY <1>2, <3>2, <3>3
  <2> QED
    BY <1>4, <1>5, <2>1, <2>2, <2>3 DEF Carries, more
<1> QED
  BY <1>4, <1>5

\* nothing of g in a sequence is nothing up to 0
LEMMA NothingCarried ==
  ASSUME NEW seq, NEW g, \A n \in DOMAIN seq : ~IsAudio(seq[n], g)
  PROVE  Carries(seq, g, 0, 0)
BY DEF Carries

\* the requests to speak, when one is taken or frames are added
LEMMA TailAsked ==
  ASSUME NEW seq \in Seq(Ask), seq # <<>>, NEW g
  PROVE  /\ Asked(Tail(seq), g) => Asked(seq, g)
         /\ AskedOnce(seq, g) => AskedOnce(Tail(seq), g)
         /\ Asks(Head(seq), g) => Asked(seq, g)
         /\ AskedOnce(seq, g) /\ Asks(Head(seq), g) => ~Asked(Tail(seq), g)
<1> DEFINE tail == Tail(seq)
<1>1. /\ DOMAIN tail = 1..(Len(seq) - 1) /\ DOMAIN seq = 1..Len(seq) /\ Len(seq) \in Nat \ {0}
      /\ \A n \in DOMAIN tail : /\ tail[n] = seq[n + 1] /\ n \in Nat
                                /\ n + 1 \in DOMAIN seq /\ n + 1 # 1
      /\ seq[1] = Head(seq) /\ 1 \in DOMAIN seq
  OBVIOUS
<1> HIDE DEF tail
<1>2. Asked(tail, g) => Asked(seq, g)
  BY <1>1 DEF Asked
<1>3. AskedOnce(seq, g) => AskedOnce(tail, g)
  <2>1. SUFFICES ASSUME AskedOnce(seq, g), NEW m \in DOMAIN tail, NEW n \in DOMAIN tail,
                        Asks(tail[m], g), Asks(tail[n], g)
                 PROVE  m = n
    BY DEF AskedOnce
  <2>2. m + 1 = n + 1
    BY <1>1, <2>1 DEF AskedOnce
  <2> QED
    BY <1>1, <2>2
<1>4. Asks(Head(seq), g) => Asked(seq, g)
  BY <1>1 DEF Asked
<1>5. AskedOnce(seq, g) /\ Asks(Head(seq), g) => ~Asked(tail, g)
  BY <1>1 DEF Asked, AskedOnce
<1> QED
  BY <1>2, <1>3, <1>4, <1>5 DEF tail

LEMMA AppendAsked ==
  ASSUME NEW seq \in Seq(Ask), NEW f, NEW g
  PROVE  /\ ~Asks(f, g) => /\ Asked(Append(seq, f), g) => Asked(seq, g)
                           /\ AskedOnce(seq, g) => AskedOnce(Append(seq, f), g)
         /\ ~Asked(seq, g) => AskedOnce(Append(seq, f), g)
<1> DEFINE more == Append(seq, f)
<1>1. /\ DOMAIN more = 1..(Len(seq) + 1) /\ DOMAIN seq = 1..Len(seq) /\ Len(seq) \in Nat
      /\ \A n \in DOMAIN seq : more[n] = seq[n]
      /\ more[Len(seq) + 1] = f
  OBVIOUS
<1>2. \A n \in DOMAIN more : n \in DOMAIN seq \/ n = Len(seq) + 1
  BY <1>1
<1> HIDE DEF more
<1>3. ~Asks(f, g) => (Asked(more, g) => Asked(seq, g)) /\ (AskedOnce(seq, g) => AskedOnce(more, g))
  BY <1>1, <1>2 DEF Asked, AskedOnce
<1>4. ~Asked(seq, g) => AskedOnce(more, g)
  BY <1>1, <1>2 DEF Asked, AskedOnce
<1> QED
  BY <1>3, <1>4 DEF more
-----------------------------------------------------------------------------
\* pump plays the next sentence of a span, and nothing of another generation's
LEMMA PlayNext ==
  ASSUME NEW g, NEW n \in Nat, NEW r \in Nat, n <= r, Play(Span(g, n, r))
  PROVE  /\ n = r => queue' = Span(g, n, r) /\ UNCHANGED heard
         /\ n < r => /\ queue' = Span(g, n + 1, r)
                     /\ heard' = [heard EXCEPT ![g] = Append(@, n + 1)]
<1> DEFINE items == Span(g, n, r)
           first == [gen |-> g, index |-> n + 1]
<1>1. CASE n = r
  <2>1. items = {}
    BY <1>1 DEF Span
  <2> QED
    BY <1>1, <2>1 DEF Play
<1>2. CASE n < r
  <2> DEFINE next == CHOOSE i \in items : \A j \in items : i.index <= j.index
  <2>1. first \in items /\ \A j \in items : first.index <= j.index
    BY <1>2 DEF Span
  <2>2. next \in items /\ next.index <= first.index
    BY <2>1
  <2>3. next = first
    BY <2>1, <2>2 DEF Span
  <2>4. queue' = items \ {next} /\ heard' = [heard EXCEPT ![next.gen] = Append(@, next.index)]
    BY <2>1 DEF Play
  <2>5. items \ {first} = Span(g, n + 1, r)
    <3>1. ASSUME NEW k \in (n + 1)..r, [gen |-> g, index |-> k] # first PROVE k \in (n + 2)..r
      BY <3>1
    <3>2. ASSUME NEW k \in (n + 2)..r
          PROVE  k \in (n + 1)..r /\ [gen |-> g, index |-> k].index # first.index
      BY <3>2
    <3>3. items \ {first} \subseteq Span(g, n + 1, r)
      BY <3>1 DEF Span
    <3>4. Span(g, n + 1, r) \subseteq items \ {first}
      BY <3>2 DEF Span
    <3> QED
      BY <3>3, <3>4
  <2> HIDE DEF next, items
  <2>6. first.gen = g /\ first.index = n + 1
    OBVIOUS
  <2> QED
    BY <1>2, <2>3, <2>4, <2>5, <2>6
<1> QED
  BY <1>1, <1>2

LEMMA PlayElsewhere ==
  ASSUME NEW items, items \subseteq Sound, NEW g, g \notin Gen, \A i \in items : i.gen = g,
         heard \in [Gen -> Seq(Nat)], Play(items)
  PROVE  UNCHANGED heard
<1>1. CASE items = {}
  BY <1>1 DEF Play
<1>2. CASE items # {}
  <2> DEFINE next == CHOOSE i \in items : \A j \in items : i.index <= j.index
  <2>1. next.gen = g
    BY <1>2, LowestIndex
  <2>2. heard' = [heard EXCEPT ![next.gen] = Append(@, next.index)]
    BY <1>2 DEF Play
  <2> HIDE DEF next
  <2> QED
    BY <2>1, <2>2
<1> QED
  BY <1>1, <1>2

\* one more sentence in its order
LEMMA HeardInOrder ==
  ASSUME heard \in [Gen -> Seq(Nat)], InOrder, NEW g \in Gen,
         heard' = [heard EXCEPT ![g] = Append(@, Len(heard[g]) + 1)]
  PROVE  /\ heard' \in [Gen -> Seq(Nat)] /\ InOrder'
         /\ Len(heard'[g]) = Len(heard[g]) + 1
         /\ \A h \in Gen \ {g} : heard'[h] = heard[h]
<1> DEFINE old == heard[g]
           new == Append(old, Len(old) + 1)
<1>1. old \in Seq(Nat) /\ Len(old) \in Nat
  OBVIOUS
<1>2. /\ new \in Seq(Nat) /\ Len(new) = Len(old) + 1 /\ DOMAIN new = 1..(Len(old) + 1)
      /\ \A n \in DOMAIN new : new[n] = IF n = Len(old) + 1 THEN n ELSE old[n]
      /\ DOMAIN old = 1..Len(old)
  BY <1>1
<1>3. \A n \in DOMAIN old : old[n] = n
  BY DEF InOrder
<1>4. \A n \in DOMAIN new : new[n] = n
  BY <1>1, <1>2, <1>3
<1>5. heard'[g] = new /\ \A h \in Gen \ {g} : heard'[h] = heard[h]
  OBVIOUS
<1> HIDE DEF new, old
<1>6. heard' \in [Gen -> Seq(Nat)]
  BY <1>2, <1>5
<1> QED
  BY <1>2, <1>4, <1>5, <1>6 DEF InOrder, old
-----------------------------------------------------------------------------
\* what a stop sends asks for nothing, and a speak only for what comes next
LEMMA StopAsks ==
  ASSUME Shapes, NEW g, NEW h
  PROVE  /\ StopPlayback(<<>>) => (Asked(toServer', g) => Asked(toServer, g))
         /\ StopPlayback(<<[kind |-> "speak", gen |-> h]>>) =>
              /\ g # h /\ Asked(toServer', g) => Asked(toServer, g)
              /\ ~Asked(toServer, g) => AskedOnce(toServer', g)
<1> DEFINE stop  == [kind |-> "stop", gen |-> 0]
           speak == [kind |-> "speak", gen |-> h]
<1>1. /\ stop \in Ask /\ ~Asks(stop, g) /\ (g # h => ~Asks(speak, g))
      /\ toServer \in Seq(Ask)
  BY DEF Ask, Asks, Shapes
<1> HIDE DEF stop, speak
<1>2. /\ Append(toServer, stop) \in Seq(Ask)
      /\ toServer \o <<stop>> \o <<>> = Append(toServer, stop)
      /\ toServer \o <<stop>> \o <<speak>> = Append(Append(toServer, stop), speak)
  BY <1>1
<1>3. StopPlayback(<<>>) => toServer' = Append(toServer, stop)
  BY <1>2 DEF StopPlayback, stop
<1>4. StopPlayback(<<speak>>) => toServer' = Append(Append(toServer, stop), speak)
  BY <1>2 DEF StopPlayback, stop
<1>5. Asked(Append(toServer, stop), g) => Asked(toServer, g)
  BY <1>1, AppendAsked
<1>6. /\ g # h => (Asked(Append(Append(toServer, stop), speak), g) => Asked(Append(toServer, stop), g))
      /\ ~Asked(Append(toServer, stop), g) => AskedOnce(Append(Append(toServer, stop), speak), g)
  BY <1>1, <1>2, AppendAsked
<1>7. StopPlayback(<<speak>>) => /\ g # h /\ Asked(toServer', g) => Asked(toServer, g)
                                 /\ ~Asked(toServer, g) => AskedOnce(toServer', g)
  BY <1>4, <1>5, <1>6
<1> QED
  BY <1>3, <1>5, <1>7 DEF speak

\* a stop, with what is spoken next or nothing, begins a generation that
\* nothing has been heard of
LEMMA StopOrder ==
  ASSUME Shapes, OrderInv, UNCHANGED <<heard, loops>>,
         \/ StopPlayback(<<>>) \/ StopPlayback(<<[kind |-> "speak", gen |-> generation + 1]>>),
         \A g : (\A n \in DOMAIN toClient : ~IsAudio(toClient[n], g))
                 => (\A n \in DOMAIN toClient' : ~IsAudio(toClient'[n], g))
  PROVE  OrderInv'
<1>1. generation \in Nat /\ generation' = generation + 1 /\ queue' = {}
  BY DEF StopPlayback, Shapes
<1>2. \A g : g # generation' /\ Asked(toServer', g) => Asked(toServer, g)
  BY <1>1, StopAsks
<1>3. \A g : ~Asked(toServer, g) => AskedOnce(toServer', g)
  <2>1. ASSUME NEW g, ~Asked(toServer, g), ~Asked(toServer', g) PROVE AskedOnce(toServer', g)
    BY <2>1 DEF Asked, AskedOnce
  <2> QED
    BY <2>1, StopAsks
<1>4. ASSUME NEW g \in Gen, g > generation' PROVE Unsaid(g)'
  <2>1. Unsaid(g) /\ g # generation'
    BY <1>1, <1>4 DEF OrderInv, Gen
  <2> QED
    BY <1>2, <2>1 DEF Unsaid, NoLoop
<1>5. ASSUME generation' \in Gen PROVE Spoken(generation)'
  <2>1. PICK g \in Gen : g = generation'
    BY <1>5
  <2>2. Unsaid(g)
    BY <1>1, <2>1 DEF OrderInv, Gen
  <2>3. /\ heard'[g] = <<>> /\ Len(heard'[g]) = 0 /\ NoLoop(g)' /\ NoLoop(g)
        /\ Carries(toClient', g, 0, 0) /\ AskedOnce(toServer', g)
    BY <1>3, <2>2, NothingCarried DEF Unsaid, NoLoop
  <2>4. Span(g, 0, 0) = {}
    BY DEF Span
  <2>5. SpokenUpTo(g, 0, 0)'
    BY <1>1, <2>3, <2>4 DEF SpokenUpTo, NoLoop
  <2> QED
    BY <2>1, <2>5 DEF Spoken
<1> QED
  BY <1>4, <1>5 DEF OrderInv, InOrder

\* a frame that is not played: the sequence of frames is shorter
LEMMA UnheardOrder ==
  ASSUME Shapes, OrderInv, toClient # <<>>, toClient' = Tail(toClient),
         ~IsAudio(Head(toClient), generation),
         UNCHANGED <<generation, queue, heard, loops, toServer>>
  PROVE  OrderInv'
<1>1. toClient \in Seq(Reply)
  BY DEF Shapes
<1>2. ASSUME NEW g \in Gen, g > generation' PROVE Unsaid(g)'
  <2>1. Unsaid(g)
    BY <1>2 DEF OrderInv
  <2>2. \A n \in DOMAIN Tail(toClient) : n + 1 \in DOMAIN toClient /\ Tail(toClient)[n] = toClient[n + 1]
    BY <1>1
  <2> QED
    BY <2>1, <2>2 DEF Unsaid, NoLoop
<1>3. ASSUME generation' \in Gen PROVE Spoken(generation)'
  <2>1. PICK g \in Gen : g = generation
    BY <1>3
  <2>2. PICK r \in Nat, s \in Nat : SpokenUpTo(g, r, s)
    BY <2>1 DEF OrderInv, Spoken
  <2>3. Carries(toClient', g, r, s)
    BY <1>1, <2>1, <2>2, TailCarries DEF SpokenUpTo
  <2>4. SpokenUpTo(g, r, s)'
    BY <2>2, <2>3 DEF SpokenUpTo, NoLoop
  <2> QED
    BY <2>1, <2>4 DEF Spoken
<1> QED
  BY <1>2, <1>3 DEF OrderInv, InOrder

\* pump: of the latest generation the next sentence, if it is there
LEMMA PumpOrder ==
  ASSUME Shapes, OnlyLatestPlays, OrderInv, UNCHANGED <<generation, loops, toServer>>,
         NEW items, items \subseteq Sound, \A i \in items : i.gen = generation,
         Play(items) \/ (queue' = items /\ UNCHANGED heard),
         \A g \in Gen : (\A n \in DOMAIN toClient : ~IsAudio(toClient[n], g))
                 => (\A n \in DOMAIN toClient' : ~IsAudio(toClient'[n], g)),
         \A g \in Gen : g = generation =>
           \E r, s \in Nat : /\ SpokenUpTo(g, r, s)
                             /\ \E q \in Nat : /\ r <= q /\ q <= s
                                               /\ items = Span(g, Len(heard[g]), q)
                                               /\ Carries(toClient', g, q, s)
  PROVE  OrderInv'
<1>1. CASE generation \notin Gen
  <2>1. UNCHANGED heard
    BY <1>1, PlayElsewhere DEF OrderInv
  <2>2. ASSUME NEW g \in Gen, g > generation' PROVE Unsaid(g)'
    BY <2>1, <2>2 DEF OrderInv, Unsaid, NoLoop
  <2> QED
    BY <1>1, <2>1, <2>2 DEF OrderInv, InOrder
<1>2. CASE generation \in Gen
  <2>1. PICK g \in Gen : g = generation
    BY <1>2
  <2>2. PICK r \in Nat, s \in Nat, q \in Nat :
          /\ SpokenUpTo(g, r, s) /\ r <= q /\ q <= s
          /\ items = Span(g, Len(heard[g]), q) /\ Carries(toClient', g, q, s)
    BY <2>1
  <2>3. heard[g] \in Seq(Nat)
    BY DEF OrderInv
  <2> DEFINE n == Len(heard[g])
  <2>4. n \in Nat /\ n <= q
    BY <2>2, <2>3 DEF SpokenUpTo
  <2> HIDE DEF n
  <2>5. \/ queue' = Span(g, n, q) /\ UNCHANGED heard
        \/ n < q /\ queue' = Span(g, n + 1, q) /\ heard' = [heard EXCEPT ![g] = Append(@, n + 1)]
    <3>1. Play(Span(g, n, q)) \/ (queue' = Span(g, n, q) /\ UNCHANGED heard)
      BY <2>2 DEF n
    <3>2. n = q \/ n < q
      BY <2>4
    <3>3. CASE Play(Span(g, n, q)) /\ n = q
      BY <2>4, <3>3, PlayNext
    <3>4. CASE Play(Span(g, n, q)) /\ n < q
      BY <2>4, <3>4, PlayNext
    <3> QED
      BY <3>1, <3>2, <3>3, <3>4
  <2>6. /\ heard' \in [Gen -> Seq(Nat)] /\ InOrder'
        /\ queue' = Span(g, Len(heard'[g]), q) /\ Len(heard'[g]) <= q
        /\ \A h \in Gen \ {g} : heard'[h] = heard[h]
    <3>1. CASE queue' = Span(g, n, q) /\ UNCHANGED heard
      BY <2>4, <3>1 DEF OrderInv, InOrder, n
    <3>2. CASE n < q /\ queue' = Span(g, n + 1, q) /\ heard' = [heard EXCEPT ![g] = Append(@, n + 1)]
      <4>1. heard' = [heard EXCEPT ![g] = Append(@, Len(heard[g]) + 1)]
        BY <3>2 DEF n
      <4>2. /\ heard' \in [Gen -> Seq(Nat)] /\ InOrder'
            /\ Len(heard'[g]) = n + 1
            /\ \A h \in Gen \ {g} : heard'[h] = heard[h]
        BY <4>1, HeardInOrder DEF OrderInv, n
      <4> QED
        BY <2>4, <3>2, <4>2
    <3> QED
      BY <2>5, <3>1, <3>2
  <2>7. SpokenUpTo(g, q, s)'
    BY <2>2, <2>6 DEF SpokenUpTo, NoLoop
  <2>8. Spoken(generation)'
    BY <2>1, <2>7 DEF Spoken
  <2>9. ASSUME NEW h \in Gen, h > generation' PROVE Unsaid(h)'
    <3>1. h # g /\ Unsaid(h)
      BY <2>1, <2>9 DEF OrderInv, Gen
    <3> QED
      BY <2>6, <3>1 DEF Unsaid, NoLoop
  <2> QED
    BY <2>6, <2>8, <2>9 DEF OrderInv
<1> QED
  BY <1>1, <1>2

LEMMA TailSilent ==
  ASSUME Shapes, toClient # <<>>, toClient' = Tail(toClient)
  PROVE  \A g : (\A n \in DOMAIN toClient : ~IsAudio(toClient[n], g))
                 => (\A n \in DOMAIN toClient' : ~IsAudio(toClient'[n], g))
<1>1. \A n \in DOMAIN Tail(toClient) : n + 1 \in DOMAIN toClient /\ Tail(toClient)[n] = toClient[n + 1]
  BY DEF Shapes
<1> QED
  BY <1>1

LEMMA PlayerOrder ==
  ASSUME SpeechInv, OrderInv, Speak \/ Stop \/ Receive \/ Ended
  PROVE  OrderInv'
<1>0. Shapes /\ OnlyLatestPlays
  BY DEF SpeechInv
<1>1. CASE Speak \/ Stop
  BY <1>0, <1>1, StopOrder DEF Speak, Stop, gatewayVars
<1>2. CASE Ended
  <2>1. Play(queue) /\ UNCHANGED <<generation, toServer, toClient, loops>>
    BY <1>2 DEF Ended, gatewayVars
  <2>2. queue \subseteq Sound /\ \A i \in queue : i.gen = generation
    BY <1>0 DEF Shapes, OnlyLatestPlays
  <2>3. ASSUME NEW g \in Gen, g = generation
        PROVE  \E r, s \in Nat : /\ SpokenUpTo(g, r, s)
                                 /\ \E q \in Nat : /\ r <= q /\ q <= s
                                                   /\ queue = Span(g, Len(heard[g]), q)
                                                   /\ Carries(toClient', g, q, s)
    BY <2>1, <2>3 DEF OrderInv, Spoken, SpokenUpTo
  <2> QED
    BY <1>0, <2>1, <2>2, <2>3, PumpOrder
<1>3. CASE Receive
  <2>1. PICK f : f = Head(toClient)
    OBVIOUS
  <2>2. /\ toClient # <<>> /\ toClient' = Tail(toClient) /\ UNCHANGED loops
        /\ f \in Reply /\ toClient \in Seq(Reply)
    BY <1>0, <1>3, <2>1 DEF Receive, gatewayVars, Shapes
  <2>3. CASE f.kind # "audio"
    <3>1. \/ UNCHANGED <<generation, queue, heard, toServer>>
          \/ StopPlayback(<<>>) /\ UNCHANGED heard
      BY <1>3, <2>1, <2>3 DEF Receive
    <3>2. ~IsAudio(f, generation)
      BY <2>3 DEF IsAudio
    <3> QED
      BY <1>0, <2>1, <2>2, <3>1, <3>2, UnheardOrder, StopOrder, TailSilent
  <2>4. CASE f.kind = "audio" /\ f.gen # generation
    <3>1. UNCHANGED <<generation, queue, heard, toServer>>
      BY <1>3, <2>1, <2>4 DEF Receive, OnAudio
    <3> QED
      BY <1>0, <2>1, <2>2, <2>4, <3>1, UnheardOrder DEF IsAudio
  <2>5. CASE f.kind = "audio" /\ f.gen = generation
    <3> DEFINE item == [gen |-> f.gen, index |-> f.index]
               items == queue \union {item}
    <3>1. /\ UNCHANGED <<generation, toServer>>
          /\ Play(items) \/ (queue' = items /\ UNCHANGED heard)
      BY <1>3, <2>1, <2>5 DEF Receive, OnAudio
    <3>2. item \in Sound /\ item.gen = generation /\ f.index \in Nat
      BY <2>2, <2>5 DEF Reply, Sound
    <3>3. items \subseteq Sound /\ \A i \in items : i.gen = generation
      BY <1>0, <3>2 DEF Shapes, OnlyLatestPlays
    <3>4. ASSUME NEW g \in Gen, g = generation
          PROVE  \E r, s \in Nat : /\ SpokenUpTo(g, r, s)
                                   /\ \E q \in Nat : /\ r <= q /\ q <= s
                                                     /\ items = Span(g, Len(heard[g]), q)
                                                     /\ Carries(toClient', g, q, s)
      <4>1. PICK r \in Nat, s \in Nat : SpokenUpTo(g, r, s)
        BY <3>4 DEF OrderInv, Spoken
      <4>2. /\ f.index = r + 1 /\ r < s /\ Carries(toClient', g, r + 1, s)
        BY <2>1, <2>2, <2>5, <3>4, <4>1, TailCarries DEF SpokenUpTo, IsAudio
      <4>3. items = Span(g, Len(heard[g]), r + 1)
        <5>1. Len(heard[g]) \in Nat /\ Len(heard[g]) <= r
          BY <4>1 DEF SpokenUpTo, OrderInv
        <5>2. item = [gen |-> g, index |-> r + 1]
          BY <2>5, <3>4, <4>2
        <5>3. \A k : k \in (Len(heard[g]) + 1)..(r + 1) <=> k \in (Len(heard[g]) + 1)..r \/ k = r + 1
          BY <5>1
        <5> QED
          BY <4>1, <5>2, <5>3 DEF SpokenUpTo, Span
      <4> QED
        BY <4>1, <4>2, <4>3
    <3> HIDE DEF items
    <3> QED
      BY <1>0, <2>2, <3>1, <3>3, <3>4, PumpOrder, TailSilent
  <2> QED
    BY <2>3, <2>4, <2>5
<1> QED
  BY <1>1, <1>2, <1>3

\* a loop of the gateway ends or goes on, and leaves the frames of the others
Silent(seq, g) == \A n \in DOMAIN seq : ~IsAudio(seq[n], g)

KeepsOthers(h) ==
  \A g : g # h =>
    /\ Silent(toClient, g) => Silent(toClient', g)
    /\ \A r, s \in Nat : r <= s /\ Carries(toClient, g, r, s) => Carries(toClient', g, r, s)

OnlyLoop(l) == \A k \in loops : k.gen = l.gen => k = l

GoesOn(l) ==
  \A r, s \in Nat :
    (r <= s /\ l.index = s + 1 /\ Carries(toClient, l.gen, r, s) /\ OnlyLoop(l))
    => \E t \in Nat : /\ r <= t /\ Carries(toClient', l.gen, r, t)
                      /\ \A k \in loops' : k.gen = l.gen => k.index = t + 1

\* what the gateway holds and has sent for g: nothing, or up to sentence t
Idle(g) == Silent(toClient, g) /\ ~Asked(toServer, g) /\ NoLoop(g)

SentUpTo(g, r, t) ==
  /\ r <= t /\ Carries(toClient, g, r, t)
  /\ \A l \in loops : l.gen = g => l.index = t + 1
  /\ AskedOnce(toServer, g)
  /\ Asked(toServer, g) => (t = 0 /\ NoLoop(g))

LEMMA AppendSilent ==
  ASSUME NEW seq \in Seq(Reply), NEW f, NEW g, ~IsAudio(f, g), Silent(seq, g)
  PROVE  Silent(Append(seq, f), g)
<1>1. \A n \in DOMAIN Append(seq, f) : \/ n \in DOMAIN seq /\ Append(seq, f)[n] = seq[n]
                                       \/ Append(seq, f)[n] = f
  OBVIOUS
<1> QED
  BY <1>1 DEF Silent

\* the gateway: what it is asked for begins with sentence 1 and goes on with
\* the next, and is sent in this order
LEMMA GatewayOrder ==
  ASSUME SpeechInv, OrderInv,
         OnSpeak \/ Refuse \/ OnStop \/ \E l \in loops : Synthesized(l) \/ SynthesisFails(l)
  PROVE  OrderInv'
<1>0. /\ Shapes /\ UNCHANGED <<generation, queue, heard>>
      /\ toServer \in Seq(Ask) /\ toClient \in Seq(Reply) /\ loops \subseteq Sound
  BY DEF SpeechInv, Shapes, OnSpeak, Refuse, OnStop, Synthesized, SynthesisFails, playerVars
\* it is enough to look at the frames and the loops of each generation
<1>1. ASSUME \A g \in Gen : g > generation => Idle(g)',
             \A g \in Gen : \A r, s \in Nat :
               (g = generation /\ SpokenUpTo(g, r, s)) => (\E t \in Nat : SentUpTo(g, r, t)')
      PROVE  OrderInv'
  <2>1. ASSUME NEW g \in Gen, g > generation' PROVE Unsaid(g)'
    <3>1. Unsaid(g) /\ g > generation
      BY <1>0, <2>1 DEF OrderInv
    <3> QED
      BY <1>0, <1>1, <3>1 DEF Unsaid, Idle, Silent
  <2>2. ASSUME generation' \in Gen PROVE Spoken(generation)'
    <3>1. PICK g \in Gen : g = generation
      BY <1>0, <2>2
    <3>2. PICK r \in Nat, s \in Nat : SpokenUpTo(g, r, s)
      BY <3>1 DEF OrderInv, Spoken
    <3>3. PICK t \in Nat : SentUpTo(g, r, t)'
      BY <1>1, <3>1, <3>2
    <3>4. SpokenUpTo(g, r, t)'
      BY <1>0, <3>2, <3>3 DEF SpokenUpTo, SentUpTo
    <3> QED
      BY <1>0, <3>1, <3>4 DEF Spoken
  <2> QED
    BY <1>0, <2>1, <2>2 DEF OrderInv, InOrder
<1>5. CASE Refuse
  <2> DEFINE refusal == [kind |-> "error", gen |-> 0, index |-> 0]
  <2>1. /\ toServer # <<>> /\ toServer' = Tail(toServer) /\ UNCHANGED loops
        /\ toClient' = Append(toClient, refusal)
    BY <1>5 DEF Refuse, SendFrame
  <2>2. refusal \in Reply /\ \A g : ~IsAudio(refusal, g)
    BY DEF Reply, IsAudio
  <2> HIDE DEF refusal
  <2>3. ASSUME NEW g \in Gen, g > generation
        PROVE  Idle(g)'
    <3>1. Unsaid(g)
      BY <2>3 DEF OrderInv
    <3>2. ~Asked(toServer', g)
      BY <1>0, <2>1, <3>1, TailAsked DEF Unsaid
    <3>3. Silent(toClient', g)
      BY <1>0, <2>1, <2>2, <3>1, AppendSilent DEF Unsaid, Silent
    <3> QED
      BY <2>1, <3>1, <3>2, <3>3 DEF Unsaid, Idle, Silent, NoLoop
  <2>4. ASSUME NEW g \in Gen, NEW r \in Nat, NEW s \in Nat, g = generation, SpokenUpTo(g, r, s)
        PROVE  SentUpTo(g, r, s)'
    <3>1. AskedOnce(toServer', g) /\ (Asked(toServer', g) => Asked(toServer, g))
      BY <1>0, <2>1, <2>4, TailAsked DEF SpokenUpTo
    <3>2. Carries(toClient', g, r, s)
      BY <1>0, <2>1, <2>2, <2>4, AppendCarries DEF SpokenUpTo
    <3> QED
      BY <2>1, <2>4, <3>1, <3>2 DEF SpokenUpTo, SentUpTo, NoLoop
  <2> QED
    BY <1>1, <2>3, <2>4
<1>2. CASE OnSpeak \/ OnStop
  <2>1. PICK f : f = Head(toServer)
    OBVIOUS
  <2>2. /\ toServer # <<>> /\ toServer' = Tail(toServer) /\ UNCHANGED toClient
        /\ f.kind = "speak" => loops' = loops \union {[gen |-> f.gen, index |-> 1]}
        /\ f.kind # "speak" => UNCHANGED loops
    BY <1>2, <2>1 DEF OnSpeak, OnStop
  <2>3. ASSUME NEW g \in Gen, g > generation
        PROVE  Idle(g)'
    <3>1. Unsaid(g)
      BY <2>3 DEF OrderInv
    <3>2. ~Asks(f, g) /\ ~Asked(toServer', g)
      BY <1>0, <2>1, <2>2, <3>1, TailAsked DEF Unsaid
    <3> QED
      BY <2>2, <3>1, <3>2 DEF Unsaid, Idle, Silent, NoLoop, Asks
  <2>4. ASSUME NEW g \in Gen, NEW r \in Nat, NEW s \in Nat, g = generation, SpokenUpTo(g, r, s)
        PROVE  SentUpTo(g, r, s)'
    <3>1. AskedOnce(toServer', g) /\ (Asked(toServer', g) => Asked(toServer, g))
      BY <1>0, <2>2, <2>4, TailAsked DEF SpokenUpTo
    <3>2. CASE Asks(f, g)
      <4>1. s = 0 /\ NoLoop(g) /\ ~Asked(toServer', g)
        BY <1>0, <2>1, <2>2, <2>4, <3>2, TailAsked DEF SpokenUpTo
      <4>2. \A l \in loops' : l.gen = g => l.index = s + 1
        BY <2>2, <3>2, <4>1 DEF NoLoop, Asks
      <4> QED
        BY <2>2, <2>4, <3>1, <4>1, <4>2 DEF SpokenUpTo, SentUpTo
    <3>3. CASE ~Asks(f, g)
      <4>1. \A l \in loops' : l.gen = g => l \in loops
        BY <2>2, <3>3 DEF Asks
      <4> QED
        BY <2>2, <2>4, <3>1, <4>1 DEF SpokenUpTo, SentUpTo, NoLoop
    <3> QED
      BY <3>2, <3>3
  <2> QED
    BY <1>1, <2>3, <2>4
<1>3. ASSUME UNCHANGED toServer, NEW l \in loops, KeepsOthers(l.gen), GoesOn(l),
             \A k \in loops' : k \in loops \/ k.gen = l.gen
      PROVE  OrderInv'
  <2>1. ASSUME NEW g \in Gen, g > generation
        PROVE  Idle(g)'
    <3>1. Unsaid(g)
      BY <2>1 DEF OrderInv
    <3>2. g # l.gen
      BY <3>1 DEF Unsaid, NoLoop
    <3>3. Silent(toClient, g)'
      BY <1>3, <3>1, <3>2 DEF Unsaid, KeepsOthers, Silent
    <3> QED
      BY <1>3, <3>1, <3>2, <3>3 DEF Unsaid, Idle, NoLoop
  <2>2. ASSUME NEW g \in Gen, NEW r \in Nat, NEW s \in Nat, g = generation, SpokenUpTo(g, r, s)
        PROVE  \E t \in Nat : SentUpTo(g, r, t)'
    <3>1. CASE g = l.gen
      <4>1. ~Asked(toServer, g)
        BY <2>2, <3>1 DEF SpokenUpTo, NoLoop
      <4>2. l.index = s + 1 /\ r <= s /\ Carries(toClient, l.gen, r, s)
        BY <2>2, <3>1 DEF SpokenUpTo
      <4>3. OnlyLoop(l)
        BY <1>0, <2>2, <3>1, <4>2 DEF SpokenUpTo, Sound, OnlyLoop
      <4>4. PICK t \in Nat : /\ r <= t /\ Carries(toClient', l.gen, r, t)
                             /\ \A k \in loops' : k.gen = l.gen => k.index = t + 1
        BY <1>3, <4>2, <4>3 DEF GoesOn
      <4>5. AskedOnce(toServer', g) /\ ~Asked(toServer', g)
        BY <1>3, <2>2, <4>1 DEF SpokenUpTo
      <4> QED
        BY <3>1, <4>4, <4>5 DEF SentUpTo
    <3>2. CASE g # l.gen
      <4>1. Carries(toClient', g, r, s) /\ r <= s
        BY <1>3, <2>2, <3>2 DEF SpokenUpTo, KeepsOthers
      <4> QED
        BY <1>3, <2>2, <3>2, <4>1 DEF SpokenUpTo, SentUpTo, NoLoop
    <3> QED
      BY <3>1, <3>2
  <2> QED
    BY <1>1, <2>1, <2>2
<1>4. ASSUME NEW l \in loops, Synthesized(l) \/ SynthesisFails(l) PROVE OrderInv'
  <2> DEFINE audio == [kind |-> "audio", gen |-> l.gen, index |-> l.index]
             done  == [kind |-> "done", gen |-> l.gen, index |-> 0]
             error == [kind |-> "error", gen |-> l.gen, index |-> l.index]
             next  == [l EXCEPT !.index = @ + 1]
  <2>1. l.gen \in Nat /\ l.index \in Nat /\ UNCHANGED toServer
    BY <1>0, <1>4 DEF Sound, Synthesized, SynthesisFails
  <2>2. /\ audio \in Reply /\ done \in Reply /\ error \in Reply
        /\ IsAudio(audio, l.gen) /\ audio.index = l.index
        /\ \A g : g # l.gen => ~IsAudio(audio, g)
        /\ \A g : ~IsAudio(done, g) /\ ~IsAudio(error, g)
    BY <2>1 DEF Reply, IsAudio
  <2>3. next.gen = l.gen /\ next.index = l.index + 1
    BY <1>0 DEF Sound
  <2>4. \/ UNCHANGED toClient /\ loops' = loops \ {l}
        \/ toClient' = Append(toClient, audio) /\ loops' = (loops \ {l}) \union {next}
        \/ toClient' = toClient \o <<audio, done>> /\ loops' = loops \ {l}
        \/ toClient' = Append(toClient, error) /\ loops' = loops \ {l}
    BY <1>4 DEF Synthesized, SynthesisFails, SendFrame
  <2> HIDE DEF audio, done, error, next
  <2>5. CASE UNCHANGED toClient /\ loops' = loops \ {l}
    <3>1. KeepsOthers(l.gen) /\ GoesOn(l)
      BY <2>5 DEF KeepsOthers, GoesOn, OnlyLoop
    <3> QED
      BY <1>3, <2>1, <2>5, <3>1
  <2>6. CASE toClient' = Append(toClient, error) /\ loops' = loops \ {l}
    <3>1. \A g : /\ Silent(toClient, g) => Silent(toClient', g)
                 /\ \A r, s \in Nat : r <= s /\ Carries(toClient, g, r, s) => Carries(toClient', g, r, s)
      BY <1>0, <2>2, <2>6, AppendCarries, AppendSilent
    <3>2. KeepsOthers(l.gen) /\ GoesOn(l)
      BY <2>6, <3>1 DEF KeepsOthers, GoesOn, OnlyLoop
    <3> QED
      BY <1>3, <2>1, <2>6, <3>2
  <2>7. /\ \A g : g # l.gen /\ Silent(toClient, g) => Silent(Append(toClient, audio), g)
        /\ \A g : \A r, s \in Nat :
             g # l.gen /\ r <= s /\ Carries(toClient, g, r, s)
               => Carries(Append(toClient, audio), g, r, s)
        /\ \A r, s \in Nat :
             r <= s /\ l.index = s + 1 /\ Carries(toClient, l.gen, r, s)
               => Carries(Append(toClient, audio), l.gen, r, s + 1)
        /\ Append(toClient, audio) \in Seq(Reply)
    <3>1. ASSUME NEW g, g # l.gen, Silent(toClient, g) PROVE Silent(Append(toClient, audio), g)
      BY <1>0, <2>2, <3>1, AppendSilent
    <3>2. ASSUME NEW g, NEW r \in Nat, NEW s \in Nat, g # l.gen, r <= s, Carries(toClient, g, r, s)
          PROVE  Carries(Append(toClient, audio), g, r, s)
      BY <1>0, <2>2, <3>2, AppendCarries
    <3>3. ASSUME NEW r \in Nat, NEW s \in Nat, r <= s, l.index = s + 1, Carries(toClient, l.gen, r, s)
          PROVE  Carries(Append(toClient, audio), l.gen, r, s + 1)
      BY <1>0, <2>2, <3>3, AppendCarries
    <3>4. Append(toClient, audio) \in Seq(Reply)
      BY <1>0, <2>2
    <3> QED
      BY <3>1, <3>2, <3>3, <3>4
  <2>8. CASE toClient' = Append(toClient, audio) /\ loops' = (loops \ {l}) \union {next}
    <3>1. KeepsOthers(l.gen)
      BY <2>7, <2>8 DEF KeepsOthers
    <3>2. ASSUME NEW r \in Nat, NEW s \in Nat, r <= s, l.index = s + 1,
                 Carries(toClient, l.gen, r, s), OnlyLoop(l)
          PROVE  /\ s + 1 \in Nat /\ r <= s + 1 /\ Carries(toClient', l.gen, r, s + 1)
                 /\ \A k \in loops' : k.gen = l.gen => k.index = (s + 1) + 1
      BY <2>3, <2>7, <2>8, <3>2 DEF OnlyLoop
    <3>3. GoesOn(l)
      BY <3>2 DEF GoesOn
    <3> QED
      BY <1>3, <2>1, <2>3, <2>8, <3>1, <3>3
  <2>9. CASE toClient' = toClient \o <<audio, done>> /\ loops' = loops \ {l}
    <3>1. toClient' = Append(Append(toClient, audio), done)
      BY <1>0, <2>2, <2>9
    <3>2. /\ \A g : Silent(Append(toClient, audio), g) => Silent(toClient', g)
          /\ \A g : \A r, s \in Nat :
               r <= s /\ Carries(Append(toClient, audio), g, r, s) => Carries(toClient', g, r, s)
      BY <2>2, <2>7, <3>1, AppendCarries, AppendSilent
    <3>3. KeepsOthers(l.gen)
      BY <2>7, <3>2 DEF KeepsOthers
    <3>4. ASSUME NEW r \in Nat, NEW s \in Nat, r <= s, l.index = s + 1,
                 Carries(toClient, l.gen, r, s), OnlyLoop(l)
          PROVE  /\ s + 1 \in Nat /\ r <= s + 1 /\ Carries(toClient', l.gen, r, s + 1)
                 /\ \A k \in loops' : k.gen # l.gen
      <4>1. s + 1 \in Nat /\ r <= s + 1
        BY <3>4
      <4> QED
        BY <2>7, <2>9, <3>2, <3>4, <4>1 DEF OnlyLoop
    <3>5. GoesOn(l)
      BY <3>4 DEF GoesOn
    <3> QED
      BY <1>3, <2>1, <2>9, <3>3, <3>5
  <2> QED
    BY <2>4, <2>5, <2>6, <2>8, <2>9
<1> QED
  BY <1>2, <1>4, <1>5

LEMMA OrderStart == SpeechInit => OrderInv
<1> SUFFICES ASSUME SpeechInit PROVE OrderInv
  OBVIOUS
<1>1. <<>> \in Seq(Nat) /\ DOMAIN <<>> = {}
  OBVIOUS
<1>2. generation = 0 /\ generation \notin Gen
  BY DEF SpeechInit, Gen
<1>3. \A g \in Gen : heard[g] = <<>>
  BY DEF SpeechInit
<1>4. \A g \in Gen : Unsaid(g)
  BY <1>1, <1>3 DEF SpeechInit, Unsaid, Asked, NoLoop
<1>5. heard \in [Gen -> Seq(Nat)] /\ InOrder
  BY <1>1, <1>3 DEF SpeechInit, InOrder
<1> QED
  BY <1>2, <1>4, <1>5 DEF OrderInv

\* The sentences of an answer are heard in their order, none twice and none
\* left out, for any number of sentences, utterances and failures and however
\* speaks, stops and late frames cross.
THEOREM HeardAsWritten == SpeechSpec => []InOrder
<1>1. SpeechInv /\ OrderInv /\ [SpeechNext]_speechVars => OrderInv'
  <2>1. ASSUME OrderInv, UNCHANGED speechVars PROVE OrderInv'
    BY <2>1 DEF speechVars, playerVars, gatewayVars, OrderInv, InOrder, Spoken, SpokenUpTo,
                Unsaid, NoLoop
  <2>. QED  BY <2>1, PlayerOrder, GatewayOrder DEF SpeechNext
<1>2. SpeechInv /\ [SpeechNext]_speechVars => SpeechInv'
  BY SpeechInvStep
<1>3. OrderInv => InOrder
  BY DEF OrderInv
<1>. QED  BY <1>1, <1>2, <1>3, SpeechStart, OrderStart, PTL DEF SpeechSpec
-----------------------------------------------------------------------------
HIDE SpeechAssumption
USE ChatClientAssumption
-----------------------------------------------------------------------------
(* The chat page.  What a bubble of the conversation that is shown has     *)
(* taken in is what its session has received: the frames go to it as long  *)
(* as the session is read, and a bubble that is left behind is not shown.  *)
(* The session that is parked for that conversation has such a bubble.     *)

ClientSession == [state : {"unused", "posted", "open", "closed"}, thread : Threads \union {NoThread},
                  kind : {"chat", "resume"}, run : Nat, got : Nat, to : Nat]
ShownBubble == [id : Nat \ {0}, thread : Threads, session : Sess, got : Seq(Nat),
                streaming : BOOLEAN, error : BOOLEAN]

\* the rows a load brings are its conversation's
Loading(l) == /\ {"thread", "kind", "served", "rows"} \subseteq DOMAIN l /\ l.thread \in Threads
              /\ l.served => l.rows.thread = l.thread

\* as much of the types as the argument needs: ids only grow
ClientShapes ==
  /\ session \in [Sess -> ClientSession]
  /\ parked \in [Threads -> Nat]
  /\ cur \in Threads \union {NoThread}
  /\ view \subseteq ShownBubble /\ bubbles \in Nat
  /\ \A l \in loads : Loading(l)
  /\ \A s \in Sess : session[s].to <= bubbles
  /\ \A b \in view : b.id <= bubbles

\* a session that is parked has begun, one that has not has received nothing
Begun ==
  /\ \A s \in Sess : IF session[s].state = "unused" THEN session[s].got = 0
                       ELSE session[s].thread \in Threads
  /\ \A t \in Threads : parked[t] # 0 => parked[t] \in Sess /\ session[parked[t]].state # "unused"
  /\ \A b \in view : session[b.session].state # "unused"

\* a load that is not cancelled is that of the conversation that is shown
OpenIsCur == \A l \in loads : l.kind = "open" => l.thread = cur

\* the frames of a session go to the bubble that shows it, and to no other
Bound(b) ==
  /\ b.thread = cur /\ (b.error \/ b.got = Upto(session[b.session].got))
  /\ session[b.session].state \in {"posted", "open"} => session[b.session].to = b.id
  /\ \A s \in Sess : session[s].to = b.id => s = b.session
ShownIsBound == ~Opening => \A b \in view : Bound(b)

\* a bubble that another one has become
Alike(b, a) == /\ b \in ShownBubble /\ b.id = a.id /\ b.thread = a.thread
               /\ b.session = a.session /\ b.got = a.got /\ (a.error => b.error)

ClientInv == ClientShapes /\ Begun /\ OpenIsCur /\ ShownIsBound
-----------------------------------------------------------------------------
\* the frames up to n, and the next one
LEMMA UptoSeq == \A n \in Nat : Upto(n) \in Seq(Nat) /\ Len(Upto(n)) = n
BY DEF Upto

LEMMA UptoNext == ASSUME NEW n \in Nat PROVE Append(Upto(n), n + 1) = Upto(n + 1)
<1>1. /\ Append(Upto(n), n + 1) \in Seq(Nat) /\ Upto(n + 1) \in Seq(Nat)
      /\ Len(Append(Upto(n), n + 1)) = n + 1 /\ Len(Upto(n + 1)) = n + 1
  BY UptoSeq
<1>2. ASSUME NEW k \in 1..(n + 1) PROVE Append(Upto(n), n + 1)[k] = Upto(n + 1)[k]
  BY UptoSeq DEF Upto
<1>. QED  BY <1>1, <1>2

LEMMA ClientStart == ClientInit => ClientInv
<1> SUFFICES ASSUME ClientInit PROVE ClientInv
  OBVIOUS
<1>1. /\ session = [s \in Sess |-> Unused] /\ parked = [t \in Threads |-> 0]
      /\ cur = NoThread /\ view = {} /\ loads = {} /\ bubbles = 0
  BY DEF ClientInit
<1>2. Unused \in ClientSession /\ Unused.to = 0 /\ Unused.got = 0 /\ Unused.state = "unused"
  BY DEF Unused, ClientSession
<1> HIDE DEF Unused
<1>. QED  BY <1>1, <1>2 DEF ClientInv, ClientShapes, Begun, OpenIsCur, ShownIsBound

\* A session that changes: it begins, goes on or closes.  The bubbles that
\* are shown stay bound as long as it keeps what it has got and they are
\* what it speaks to, or it is closed.
Settles(was, now) ==
  /\ now.got = was.got /\ now.thread = was.thread
  /\ now.to = was.to
  /\ was.state # "unused" /\ now.state # "unused"
  /\ was.state = "closed" => now.state = "closed"

LEMMA SessionSettles ==
  ASSUME ClientInv, NEW s \in Sess, NEW now \in ClientSession, Settles(session[s], now),
         session' = [session EXCEPT ![s] = now],
         \A t \in Threads : parked'[t] = parked[t] \/ parked'[t] = 0, parked' \in [Threads -> Nat],
         UNCHANGED <<cur, bubbles>>, \A l \in loads' : Loading(l),
         \A l \in loads' : l.kind = "open" => l \in loads,
         \A l \in loads : l.kind = "open" => l \in loads',
         \A b \in view' : \E a \in view : Alike(b, a)
  PROVE  ClientInv'
<1>1. ClientShapes /\ Begun /\ OpenIsCur /\ ShownIsBound
  BY DEF ClientInv
<1>2. /\ session'[s] = now /\ session' \in [Sess -> ClientSession]
      /\ \A r \in Sess : r # s => session'[r] = session[r]
  BY <1>1 DEF ClientShapes
<1>3. \A r \in Sess : /\ session'[r].got = session[r].got /\ session'[r].to = session[r].to
                      /\ session'[r].thread = session[r].thread
                      /\ session[r].state = "unused" <=> session'[r].state = "unused"
                      /\ session'[r].state \in {"posted", "open"} => session[r].state \in {"posted", "open"}
  <2>1. session[s] \in ClientSession
    BY <1>1 DEF ClientShapes
  <2>. QED  BY <1>2, <2>1 DEF Settles, ClientSession
<1>4. ClientShapes'
  BY <1>1, <1>2, <1>3 DEF ClientShapes, Alike
<1>5. Begun'
  BY <1>1, <1>3 DEF Begun, ClientShapes, Alike
<1>6. OpenIsCur' /\ (Opening' <=> Opening)
  BY <1>1 DEF OpenIsCur, Opening
<1>7. ASSUME ~Opening, NEW b \in view' PROVE Bound(b)'
  <2>1. PICK a \in view : Alike(b, a)
    OBVIOUS
  <2>2. Bound(a) /\ a.session \in Sess
    BY <1>1, <1>7 DEF ShownIsBound, ClientShapes, ShownBubble
  <2>. QED  BY <1>3, <2>1, <2>2 DEF Bound, Alike
<1>. QED  BY <1>4, <1>5, <1>6, <1>7 DEF ClientInv, ShownIsBound

\* bubbles that end are the bubbles they were
LEMMA EndedAlike ==
  ASSUME ClientInv, NEW ids, NEW error \in BOOLEAN, view' = view \/ EndBubbles(ids, error)
  PROVE  \A b \in view' : \E a \in view : Alike(b, a)
<1>1. \A a \in view : a \in ShownBubble
  BY DEF ClientInv, ClientShapes
<1>2. CASE view' = view
  BY <1>1, <1>2 DEF Alike
<1>3. CASE EndBubbles(ids, error)
  <2>1. ASSUME NEW a \in view
        PROVE  Alike([a EXCEPT !.streaming = FALSE, !.error = @ \/ error], a)
    <3>1. a \in ShownBubble /\ (a.error \/ error) \in BOOLEAN
      BY <1>1, Zenon
    <3>2. PICK on \in BOOLEAN : on = (a.error \/ error)
      BY <3>1
    <3>3. [a EXCEPT !.streaming = FALSE, !.error = @ \/ error] = [[a EXCEPT !.streaming = FALSE] EXCEPT !.error = on]
      BY <3>1, <3>2 DEF ShownBubble
    <3>4. a.error => on
      BY <3>2, Zenon
    <3>. QED  BY <3>1, <3>3, <3>4 DEF Alike, ShownBubble
  <2>2. \A b \in view' : \E a \in view : b = a \/ b = [a EXCEPT !.streaming = FALSE, !.error = @ \/ error]
    BY <1>3, Zenon DEF EndBubbles
  <2>3. \A a \in view : Alike(a, a)
    BY <1>1 DEF Alike
  <2>. QED  BY <2>1, <2>2, <2>3
<1>. QED  BY <1>2, <1>3

LEMMA SettleKeeps ==
  ASSUME ClientInv, NEW s \in Sess, NEW error, session[s].state # "unused", Settle(s, error),
         UNCHANGED <<cur, bubbles, loads>>
  PROVE  ClientInv'
<1> DEFINE now == [session[s] EXCEPT !.state = "closed"]
           ids == {l.bubble : l \in {k \in listeners : k.session = s}}
<1>1. session' = [session EXCEPT ![s] = now]
  BY DEF Settle
<1>2. session[s] \in ClientSession /\ parked \in [Threads -> Nat]
  BY DEF ClientInv, ClientShapes
<1>3. now \in ClientSession /\ Settles(session[s], now)
  BY <1>2 DEF ClientSession, Settles
<1> HIDE DEF now
<1>4. /\ \A t \in Threads : parked'[t] = parked[t] \/ parked'[t] = 0
      /\ parked' \in [Threads -> Nat]
  BY <1>2 DEF Settle, Forget
<1>5. view' = view \/ EndBubbles(ids, session[s].thread \notin stopped)
  BY DEF Settle, shown
<1>6. \A b \in view' : \E a \in view : Alike(b, a)
  BY <1>5, EndedAlike
<1>7. \A l \in loads' : Loading(l)'
  BY DEF ClientInv, ClientShapes
<1>. QED  BY <1>1, <1>3, <1>4, <1>6, <1>7, SessionSettles DEF Loading
-----------------------------------------------------------------------------
(* one lemma for each operation *)

\* the sessions stay: loads come and go, or nothing is shown
LEMMA LoadsChange ==
  ASSUME ClientInv, UNCHANGED <<session, parked, cur, bubbles>>, view' = view \/ view' = {},
         \A l \in loads' : /\ Loading(l)
                           /\ l.kind = "open" => l.thread = cur,
         view' = {} \/ (Opening => Opening')
  PROVE  ClientInv'
<1>1. ClientShapes' /\ Begun' /\ OpenIsCur'
  BY DEF ClientInv, ClientShapes, Begun, OpenIsCur, Loading
<1>2. ShownIsBound'
  BY DEF ClientInv, ShownIsBound, Bound
<1>. QED  BY <1>1, <1>2 DEF ClientInv

\* what is left of the loads
LEMMA LoadOver ==
  ASSUME ClientInv, NEW l \in loads, loads' = loads \ {l}, UNCHANGED cur
  PROVE  /\ \A k \in loads' : Loading(k) /\ (k.kind = "open" => k.thread = cur)
         /\ l.kind # "open" => (Opening => Opening')
BY DEF ClientInv, ClientShapes, OpenIsCur, Opening

LEMMA ServeKeeps == ASSUME ClientInv, NEW l \in loads, Serve(l) PROVE ClientInv'
<1> DEFINE v == server[l.thread]
           active == v.run \in {"running", "dead"}
           said == [l EXCEPT !.served = TRUE, !.resume = active \/ v.asked > v.answered,
                             !.rows = [thread |-> l.thread, answered |-> v.answered, active |-> active]]
<1>1. /\ loads' = (loads \ {l}) \union {said} /\ UNCHANGED <<session, parked, cur, view, bubbles>>
  BY DEF Serve, shown
<1>2. Loading(l) /\ (l.kind = "open" => l.thread = cur)
  BY DEF ClientInv, ClientShapes, OpenIsCur
<1>3. said.thread = l.thread /\ said.kind = l.kind /\ said.rows.thread = l.thread /\ DOMAIN said = DOMAIN l
  BY <1>2 DEF Loading
<1> HIDE DEF said
<1>4. \A k \in loads' : Loading(k) /\ (k.kind = "open" => k.thread = cur)
  BY <1>1, <1>2, <1>3 DEF ClientInv, ClientShapes, OpenIsCur, Loading
<1>5. Opening => Opening'
  BY <1>1, <1>3 DEF Opening
<1>. QED  BY <1>1, <1>4, <1>5, LoadsChange

LEMMA LoadEnds == ASSUME ClientInv, NEW l \in loads, LoadFailed(l) \/ Reloaded(l) PROVE ClientInv'
<1>1. loads' = loads \ {l} /\ UNCHANGED <<session, parked, cur, bubbles>>
  BY DEF LoadFailed, Reloaded, Finally
<1>2. CASE view' = {} \/ (view' = view /\ l.kind # "open")
  BY <1>1, <1>2, LoadOver, LoadsChange
<1>3. CASE \E ids : \E error \in BOOLEAN : EndBubbles(ids, error) /\ l.kind # "open"
  <2>1. \A b \in view' : \E a \in view : Alike(b, a)
    BY <1>3, EndedAlike
  <2>2. (Opening => Opening') /\ \A k \in loads' : Loading(k) /\ (k.kind = "open" => k.thread = cur)
    BY <1>1, <1>3, LoadOver
  <2>3. ClientShapes' /\ Begun' /\ OpenIsCur'
    BY <1>1, <2>1, <2>2 DEF ClientInv, ClientShapes, Begun, OpenIsCur, Loading, Alike
  <2>4. ShownIsBound'
    BY <1>1, <2>1, <2>2 DEF ClientInv, ShownIsBound, Bound, Alike
  <2>. QED  BY <2>3, <2>4 DEF ClientInv
<1>4. CASE LoadFailed(l)
  BY <1>2, <1>4 DEF LoadFailed, ShowRows
<1>5. CASE Reloaded(l)
  <2>1. l.kind # "open"
    BY <1>5 DEF Reloaded
  <2> DEFINE ids == {k.bubble : k \in {k \in listeners : k.session = l.session}}
  <2>2. view' = {} \/ view' = view \/ EndBubbles(ids, l.thread \notin stopped)
    BY <1>5 DEF Reloaded, ShowRows, shown
  <2> HIDE DEF ids
  <2>3. PICK error \in BOOLEAN : error = (l.thread \notin stopped)
    OBVIOUS
  <2>4. CASE EndBubbles(ids, error)
    BY <1>3, <2>1, <2>4
  <2>. QED  BY <1>2, <2>1, <2>2, <2>3, <2>4
<1>. QED  BY <1>4, <1>5

\* a bubble is shown anew: what a session has received is replayed into it
LEMMA ListenKeeps ==
  ASSUME ClientInv, NEW t \in Threads, NEW s \in Sess, t = cur', NEW now \in ClientSession,
         now.to = bubbles + 1, now.state # "unused", now.thread \in Threads, listen(t, s, {}),
         now.got = session[s].got,
         session' = [session EXCEPT ![s] = now],
         parked' = parked \/ parked' = [parked EXCEPT ![t] = s],
         \A k \in loads' : Loading(k) /\ (k.kind = "open" => k.thread = cur')
  PROVE  ClientInv'
<1>0. PICK b : b = NewBubble(t, s, now.got)
  OBVIOUS
<1>1. view' = {b} /\ bubbles' = bubbles + 1
  BY <1>0 DEF listen
<1>2. ClientShapes /\ Begun
  BY DEF ClientInv
<1>3. b \in ShownBubble /\ b.id = bubbles + 1 /\ b.thread = t /\ b.session = s /\ b.got = Upto(now.got)
  <2>1. now.got \in Nat /\ bubbles + 1 \in Nat \ {0} /\ (now.got < Frames) \in BOOLEAN
    BY <1>2 DEF ClientShapes, ClientSession
  <2>2. Upto(now.got) \in Seq(Nat)
    BY <2>1, UptoSeq
  <2>. QED  BY <1>0, <2>1, <2>2 DEF NewBubble, ShownBubble
<1>4. /\ session'[s] = now /\ session' \in [Sess -> ClientSession]
      /\ \A q \in Sess : q # s => session'[q] = session[q]
  BY <1>2 DEF ClientShapes
<1>5. /\ parked' \in [Threads -> Nat]
      /\ \A q \in Threads : parked'[q] = parked[q] \/ parked'[q] = s
  BY <1>2 DEF ClientShapes, Sess
<1>6. bubbles \in Nat /\ \A q \in Sess : session[q].to \in Nat /\ session[q].to <= bubbles
  BY <1>2 DEF ClientShapes, ClientSession
<1>7. ClientShapes'
  BY <1>1, <1>3, <1>4, <1>5, <1>6 DEF ClientShapes, Loading
<1>8. Begun'
  BY <1>1, <1>2, <1>3, <1>4, <1>5 DEF Begun
<1>9. OpenIsCur'
  BY DEF OpenIsCur
<1>10. Bound(b)'
  BY <1>3, <1>4, <1>6 DEF Bound
<1>. QED  BY <1>1, <1>7, <1>8, <1>9, <1>10 DEF ClientInv, ShownIsBound

LEMMA LoadedKeeps == ASSUME ClientInv, NEW l \in loads, Loaded(l) PROVE ClientInv'
<1> DEFINE t == l.thread
<1>1. l.kind = "open" /\ loads' = loads \ {l} /\ UNCHANGED cur
  BY DEF Loaded
<1>2. /\ ClientShapes /\ Begun /\ t \in Threads /\ t = cur
  BY <1>1 DEF ClientInv, ClientShapes, OpenIsCur, Loading
<1>3. /\ \A k \in loads' : Loading(k) /\ (k.kind = "open" => k.thread = cur)
  BY <1>1, LoadOver
<1>5. CASE /\ parked[t] # 0
           /\ listen(t, parked[t], {})
           /\ session' = [session EXCEPT ![parked[t]].to = bubbles + 1]
           /\ UNCHANGED parked
  <2>1. PICK s \in Sess : s = parked[t]
    BY <1>2, <1>5 DEF Begun
  <2> DEFINE now == [session[s] EXCEPT !.to = bubbles + 1]
  <2>2. session' = [session EXCEPT ![s] = now] /\ session[s] \in ClientSession /\ bubbles \in Nat
        /\ session[s].state # "unused"
    BY <1>2, <1>5, <2>1 DEF ClientShapes, Begun
  <2>3. now \in ClientSession /\ now.to = bubbles + 1 /\ now.state = session[s].state /\ now.got = session[s].got
        /\ now.thread \in Threads
    BY <1>2, <2>2 DEF ClientSession, Begun
  <2> HIDE DEF now
  <2>4. listen(t, s, {}) /\ parked' = parked /\ t = cur'
    BY <1>1, <1>2, <1>5, <2>1
  <2>5. \A k \in loads' : Loading(k) /\ (k.kind = "open" => k.thread = cur')
    BY <1>1, <1>3
  <2>. QED  BY <1>2, <2>2, <2>3, <2>4, <2>5, ListenKeeps
<1>6. CASE /\ parked[t] = 0
           /\ \E s \in Sess :
                /\ Fresh(s)
                /\ session' = [session EXCEPT ![s] = New(t, "resume", bubbles + 1)]
                /\ parked' = [parked EXCEPT ![t] = s]
                /\ listen(t, s, {})
  <2>1. PICK s \in Sess : /\ Fresh(s)
                          /\ session' = [session EXCEPT ![s] = New(t, "resume", bubbles + 1)]
                          /\ parked' = [parked EXCEPT ![t] = s]
                          /\ listen(t, s, {})
    BY <1>6
  <2> DEFINE now == New(t, "resume", bubbles + 1)
  <2>2. now \in ClientSession /\ now.to = bubbles + 1 /\ now.state = "posted" /\ now.got = 0
        /\ now.thread \in Threads
    BY <1>2 DEF New, ClientSession, ClientShapes
  <2> HIDE DEF now
  <2>3. session[s].got = 0
    BY <1>2, <2>1 DEF Fresh, Begun
  <2>. QED  BY <1>1, <1>2, <1>3, <1>6, <2>1, <2>2, <2>3, ListenKeeps DEF now
<1>7. CASE view' = {} /\ UNCHANGED <<session, parked, listeners, stream, detach, generating, stopped, bubbles>>
  BY <1>1, <1>3, <1>7, LoadsChange
<1>. QED  BY <1>5, <1>6, <1>7 DEF Loaded, ShowRows

\* a session that is detached is still the session it was
LEMMA DetachedAlike ==
  ASSUME ClientInv, session' = Detached
  PROVE  /\ session' \in [Sess -> ClientSession]
         /\ \A s \in Sess : /\ session'[s].state = session[s].state /\ session'[s].got = session[s].got
                            /\ session'[s].thread = session[s].thread /\ session'[s].to <= bubbles
<1>1. session \in [Sess -> ClientSession] /\ bubbles \in Nat /\ \A s \in Sess : session[s].to <= bubbles
  BY DEF ClientInv, ClientShapes
<1>2. \A s \in Sess : [session[s] EXCEPT !.to = 0] \in ClientSession
  BY <1>1 DEF ClientSession
<1>3. session' = session \/ session' = [session EXCEPT ![detach].to = 0]
  BY DEF Detached
<1>4. CASE session' = session
  BY <1>1, <1>4
<1>5. CASE session' = [session EXCEPT ![detach].to = 0]
  <2>1. \A s \in Sess : session'[s] = session[s] \/ session'[s] = [session[s] EXCEPT !.to = 0]
    BY <1>1, <1>5
  <2>2. DOMAIN session' = Sess /\ session' = [s \in Sess |-> session'[s]]
    BY <1>1, <1>5
  <2>3. \A s \in Sess : LET x == [session[s] EXCEPT !.to = 0] IN
          x.state = session[s].state /\ x.got = session[s].got /\ x.thread = session[s].thread /\ x.to = 0
    BY <1>1 DEF ClientSession
  <2>4. \A s \in Sess : session'[s] \in ClientSession
    BY <1>1, <1>2, <2>1
  <2>5. session' \in [Sess -> ClientSession]
    BY <2>2, <2>4
  <2>6. ASSUME NEW s \in Sess
        PROVE  /\ session'[s].state = session[s].state /\ session'[s].got = session[s].got
               /\ session'[s].thread = session[s].thread /\ session'[s].to <= bubbles
    <3>1. CASE session'[s] = session[s]
      BY <1>1, <3>1
    <3>2. CASE session'[s] = [session[s] EXCEPT !.to = 0]
      <4>1. 0 <= bubbles
        BY <1>1
      <4>. QED  BY <2>3, <3>2, <4>1
    <3>. QED  BY <2>1, <3>1, <3>2
  <2>. QED  BY <2>5, <2>6
<1>. QED  BY <1>3, <1>4, <1>5

LEMMA OpenKeeps ==
  ASSUME ClientInv, NEW t \in Threads \union {NoThread}, Open(t) \/ Remount(t)
  PROVE  ClientInv'
<1> DEFINE first == Fetch(t, "open", 0)
<1>1. cur' = t /\ session' = Detached /\ UNCHANGED <<parked, bubbles>>
  BY DEF Open, Remount
<1>2. ClientShapes /\ Begun
  BY DEF ClientInv
<1>3. view' = {} \/ (view' = view /\ t \in Threads /\ first \in loads')
  BY DEF Open, Remount, ShowRows, shown, Fetch
<1>4. \A l \in loads' : \/ l = first /\ t \in Threads
                        \/ l \in Uncancelled
  <2>1. CASE t = NoThread
    BY <2>1 DEF Open, Remount
  <2>2. CASE t \in Threads
    <3>1. t # NoThread
      BY <2>2, ChatClientAssumption
    <3>2. loads' = Uncancelled \union {first} \/ loads' = {first}
      BY <3>1, Zenon DEF Open, Remount
    <3> HIDE DEF first
    <3>. QED  BY <2>2, <3>2
  <2>. QED  BY <2>1, <2>2
<1>5. ASSUME NEW l \in Uncancelled PROVE Loading(l) /\ l.kind # "open"
  BY <1>2, <1>5 DEF Uncancelled, ClientShapes
<1>6. first.thread = t /\ first.kind = "open" /\ (t \in Threads => Loading(first))
  BY DEF Loading, Fetch
<1> HIDE DEF first
<1>7. \A l \in loads' : Loading(l) /\ (l.kind = "open" => l.thread = t)
  BY <1>4, <1>5, <1>6
<1>8. ClientShapes'
  BY <1>1, <1>2, <1>3, <1>7, DetachedAlike DEF ClientShapes, Loading
<1>9. Begun'
  BY <1>1, <1>2, <1>3, DetachedAlike DEF Begun, ClientShapes, ShownBubble
<1>10. OpenIsCur'
  BY <1>1, <1>7 DEF OpenIsCur
<1>11. ShownIsBound'
  BY <1>1, <1>3, <1>6 DEF ShownIsBound, Opening
<1>. QED  BY <1>8, <1>9, <1>10, <1>11 DEF ClientInv

\* a question is sent below what is shown
LEMMA SendKeeps == ASSUME ClientInv, NEW t \in Threads, send(t) PROVE ClientInv'
<1>1. cur' = t /\ UNCHANGED loads /\ (t = cur \/ cur = NoThread)
  BY DEF send
<1>2. PICK s \in Sess :
        /\ Fresh(s)
        /\ session' = [r \in Sess |-> IF r = s THEN New(t, "chat", bubbles + 1)
                                      ELSE IF r = parked[t] THEN [session[r] EXCEPT !.state = "closed"]
                                      ELSE session[r]]
        /\ parked' = [parked EXCEPT ![t] = s]
        /\ listen(t, s, view)
  BY DEF send
<1>3. ClientShapes /\ Begun /\ OpenIsCur /\ ShownIsBound
  BY DEF ClientInv
<1>4. PICK b : b = NewBubble(t, s, 0)
  OBVIOUS
<1>5. PICK now : now = New(t, "chat", bubbles + 1)
  OBVIOUS
<1>6. session[s].state = "unused" /\ session[s].got = 0
  BY <1>2, <1>3 DEF Fresh, Begun
<1>7. view' = view \union {b} /\ bubbles' = bubbles + 1
  BY <1>2, <1>4, <1>6 DEF listen
<1>8. /\ bubbles \in Nat /\ \A r \in Sess : session[r] \in ClientSession /\ session[r].to <= bubbles
      /\ view \subseteq ShownBubble /\ \A a \in view : a.id <= bubbles
  BY <1>3 DEF ClientShapes
<1>9. /\ b \in ShownBubble /\ b.id = bubbles + 1 /\ b.thread = t /\ b.session = s /\ b.got = Upto(0)
  <2>1. bubbles + 1 \in Nat \ {0} /\ (0 < Frames) \in BOOLEAN /\ Upto(0) \in Seq(Nat)
    BY <1>8, UptoSeq
  <2>. QED  BY <1>4, <2>1 DEF NewBubble, ShownBubble
<1>10. now \in ClientSession /\ now.to = bubbles + 1 /\ now.got = 0 /\ now.state = "posted"
       /\ now.thread = t
  BY <1>5, <1>8 DEF New, ClientSession
<1>11. /\ session' \in [Sess -> ClientSession] /\ session'[s] = now
       /\ \A r \in Sess : r # s =>
            /\ session'[r].got = session[r].got /\ session'[r].to = session[r].to
            /\ session'[r].thread = session[r].thread
            /\ \/ session'[r].state = session[r].state
               \/ session'[r].state = "closed" /\ session[r].state # "unused"
  <2>1. \A r \in Sess : LET x == [session[r] EXCEPT !.state = "closed"] IN
          /\ x \in ClientSession /\ x.got = session[r].got /\ x.to = session[r].to /\ x.state = "closed"
          /\ x.thread = session[r].thread
    BY <1>8 DEF ClientSession
  <2>2. ASSUME NEW r \in Sess, r = parked[t] PROVE session[r].state # "unused"
    BY <1>3, <2>2 DEF Begun, Sess
  <2>. QED  BY <1>2, <1>5, <1>8, <1>10, <2>1, <2>2
<1>12. /\ parked' \in [Threads -> Nat]
       /\ \A q \in Threads : parked'[q] = parked[q] \/ parked'[q] = s
  BY <1>2, <1>3 DEF ClientShapes, Sess
<1>13. ClientShapes'
  <2>1. /\ \A a \in view' : a \in ShownBubble /\ a.id \in Nat /\ (a \in view \/ a.id = bubbles + 1)
        /\ \A r \in Sess : session[r].to \in Nat
    BY <1>7, <1>8, <1>9 DEF ShownBubble, ClientSession
  <2>2. \A a \in view' : a.id <= bubbles'
    BY <1>7, <1>8, <2>1
  <2>3. \A r \in Sess : session'[r].to <= bubbles'
    BY <1>7, <1>8, <1>10, <1>11, <2>1
  <2>4. bubbles' \in Nat /\ view' \subseteq ShownBubble
    BY <1>7, <1>8, <1>9
  <2>. QED  BY <1>1, <1>3, <1>11, <1>12, <2>2, <2>3, <2>4 DEF ClientShapes, Loading
<1>14. Begun'
  <2>1. \A a \in view' : a.session \in Sess /\ (a \in view \/ a.session = s)
    BY <1>7, <1>8, <1>9 DEF ShownBubble
  <2>2. \A r \in Sess : IF session'[r].state = "unused" THEN session'[r].got = 0
                         ELSE session'[r].thread \in Threads
    BY <1>3, <1>10, <1>11 DEF Begun
  <2>3. \A r \in Sess : session[r].state # "unused" => session'[r].state # "unused"
    BY <1>10, <1>11
  <2>4. \A q \in Threads : parked'[q] # 0 => parked'[q] \in Sess /\ session'[parked'[q]].state # "unused"
    BY <1>3, <1>10, <1>11, <1>12, <2>3 DEF Begun
  <2>5. \A a \in view' : session'[a.session].state # "unused"
    BY <1>3, <1>10, <1>11, <2>1, <2>3 DEF Begun
  <2>. QED  BY <2>2, <2>4, <2>5 DEF Begun
<1>15. OpenIsCur'
  <2>1. \A l \in loads : l.thread \in Threads
    BY <1>3 DEF ClientShapes, Loading
  <2>. QED  BY <1>1, <1>3, <2>1 DEF OpenIsCur
<1>16. ShownIsBound'
  <2>1. SUFFICES ASSUME ~Opening' PROVE \A a \in view' : Bound(a)'
    BY DEF ShownIsBound
  <2>2. ~Opening
    <3>1. \A l \in loads : l.thread \in Threads
      BY <1>3 DEF ClientShapes, Loading
    <3>. QED  BY <1>1, <2>1, <3>1 DEF Opening
  <2>3. ASSUME NEW a \in view PROVE Bound(a)'
    <3>1. Bound(a) /\ a \in ShownBubble /\ a.id <= bubbles
      BY <1>3, <1>8, <2>2 DEF ShownIsBound
    <3>2. a.thread = t
      BY <1>1, <3>1 DEF Bound, ShownBubble
    <3>3. a.session # s
      BY <1>3, <1>6 DEF Begun
    <3>. QED  BY <1>1, <1>8, <1>10, <1>11, <3>1, <3>2, <3>3 DEF Bound, ShownBubble
  <2>4. Bound(b)'
    BY <1>1, <1>8, <1>9, <1>10, <1>11 DEF Bound, ClientSession
  <2>. QED  BY <1>7, <2>3, <2>4
<1>. QED  BY <1>13, <1>14, <1>15, <1>16 DEF ClientInv

LEMMA StopKeeps == ASSUME ClientInv, generating \subseteq Threads, stopGenerate PROVE ClientInv'
<1> DEFINE ids == {l.bubble : l \in {k \in listeners : k.session = parked[cur]}}
<1>1. UNCHANGED <<cur, loads, bubbles>>
  BY DEF stopGenerate
<1>2. CASE UNCHANGED <<session, parked, view>>
  BY <1>1, <1>2 DEF ClientInv, ClientShapes, Begun, OpenIsCur, ShownIsBound, Opening, Bound, Loading
<1>3. CASE /\ parked[cur] # 0 /\ session' = [session EXCEPT ![parked[cur]].state = "closed"]
           /\ parked' = [parked EXCEPT ![cur] = 0] /\ EndBubbles(ids, FALSE)
  <2>1. /\ session \in [Sess -> ClientSession] /\ parked \in [Threads -> Nat] /\ Begun
        /\ \A l \in loads' : Loading(l)
    BY <1>1 DEF ClientInv, ClientShapes
  <2>2. /\ \A t \in Threads : parked'[t] = parked[t] \/ parked'[t] = 0
        /\ parked' \in [Threads -> Nat]
    BY <1>3, <2>1
  <2>3. CASE cur \in Threads
    <3>1. PICK s \in Sess : s = parked[cur] /\ session[s].state # "unused"
      BY <1>3, <2>1, <2>3 DEF Begun
    <3> DEFINE now == [session[s] EXCEPT !.state = "closed"]
    <3>2. session' = [session EXCEPT ![s] = now]
      BY <1>3, <3>1
    <3>3. now \in ClientSession /\ Settles(session[s], now)
      BY <2>1, <3>1 DEF ClientSession, Settles
    <3> HIDE DEF now
    <3>4. \A b \in view' : \E a \in view : Alike(b, a)
      BY <1>3, EndedAlike
    <3>. QED  BY <1>1, <2>1, <2>2, <3>2, <3>3, <3>4, SessionSettles
  <2>. QED  BY <2>3 DEF stopGenerate
<1>. QED  BY <1>2, <1>3 DEF stopGenerate, shown

\* the streams
LEMMA StreamKeeps ==
  ASSUME ClientInv, NEW s \in Sess, server[session[s].thread].asked \in Nat,
         Posted(s) \/ Resumed(s) \/ Ends(s) \/ Drops(s)
  PROVE  ClientInv'
<1>1. /\ session[s].state \in {"posted", "open"} /\ UNCHANGED <<cur, bubbles>>
  BY DEF Posted, Resumed, Ends, Drops, Rest
<1>2. /\ session[s] \in ClientSession /\ parked \in [Threads -> Nat] /\ view \subseteq ShownBubble
      /\ \A l \in loads : Loading(l)
  BY DEF ClientInv, ClientShapes
<1>3. CASE (\E error : Settle(s, error)) /\ UNCHANGED loads
  BY <1>1, <1>3, SettleKeeps
<1>4. ASSUME NEW state \in {"open", "closed"}, NEW run \in Nat,
             session' = [session EXCEPT ![s].state = state, ![s].run = run],
             UNCHANGED parked \/ Forget(s), UNCHANGED view,
             \A l \in loads' : Loading(l), \A l \in loads' : l.kind = "open" => l \in loads,
             loads \subseteq loads'
      PROVE  ClientInv'
  <2> DEFINE now == [session[s] EXCEPT !.state = state, !.run = run]
  <2>1. session' = [session EXCEPT ![s] = now]
    BY <1>2, <1>4 DEF ClientInv, ClientShapes
  <2>2. now \in ClientSession /\ Settles(session[s], now)
    BY <1>1, <1>2, <1>4 DEF ClientSession, Settles
  <2> HIDE DEF now
  <2>3. /\ \A t \in Threads : parked'[t] = parked[t] \/ parked'[t] = 0
        /\ parked' \in [Threads -> Nat]
    BY <1>2, <1>4 DEF Forget
  <2>4. \A b \in view' : \E a \in view : Alike(b, a)
    BY <1>2, <1>4 DEF Alike
  <2>. QED  BY <1>1, <1>2, <1>4, <2>1, <2>2, <2>3, <2>4, SessionSettles
<1>5. CASE Posted(s)
  <2>1. CASE server[session[s].thread].run = "running"
    <3>1. Settle(s, TRUE) /\ UNCHANGED loads
      BY <1>5, <2>1 DEF Posted, Rest
    <3>. QED  BY <1>1, <3>1, SettleKeeps
  <2>2. CASE server[session[s].thread].run # "running"
    <3> DEFINE run == server[session[s].thread].asked + 1
    <3>1. /\ session' = [session EXCEPT ![s].state = "open", ![s].run = run]
          /\ UNCHANGED <<parked, view, loads>> /\ run \in Nat
      BY <1>5, <2>2 DEF Posted, Rest, shown
    <3> HIDE DEF run
    <3>. QED  BY <1>2, <1>4, <3>1
  <2>. QED  BY <2>1, <2>2
<1>6. CASE Resumed(s)
  <2>1. CASE server[session[s].thread].run # "none"
    <3> DEFINE run == server[session[s].thread].asked
    <3>1. /\ session' = [session EXCEPT ![s].state = "open", ![s].run = run]
          /\ UNCHANGED <<parked, view, loads>> /\ run \in Nat
      BY <1>6, <2>1 DEF Resumed, shown
    <3> HIDE DEF run
    <3>. QED  BY <1>2, <1>4, <3>1
  <2>2. CASE server[session[s].thread].run = "none"
    <3> DEFINE again == Fetch(session[s].thread, "empty", s)
               run == session[s].run
    <3>1. /\ session' = [session EXCEPT ![s].state = "closed", ![s].run = run] /\ run \in Nat
          /\ Forget(s) /\ UNCHANGED view
          /\ \/ loads' = loads \union {again} /\ cur = session[s].thread
                /\ {l \in listeners : l.session = s} # {}
             \/ loads' = loads
      BY <1>2, <1>6, <2>2 DEF Resumed, shown, ClientInv, ClientShapes, ClientSession
    <3>2. session[s].thread \in Threads
      BY <1>1 DEF ClientInv, Begun
    <3>3. again.kind # "open" /\ Loading(again)
      BY <3>2 DEF Loading, Fetch
    <3> HIDE DEF again, run
    <3>. QED  BY <1>2, <1>4, <3>1, <3>3
  <2>. QED  BY <2>1, <2>2
<1>7. CASE Ends(s) \/ Drops(s)
  <2>1. (\E error : Settle(s, error)) /\ UNCHANGED loads
    BY <1>7 DEF Ends, Drops, Rest
  <2>. QED  BY <1>1, <2>1, SettleKeeps
<1>. QED  BY <1>5, <1>6, <1>7

\* a frame goes to the bubble of its session
LEMMA DeliverKeeps == ASSUME ClientInv, NEW s \in Sess, Deliver(s) PROVE ClientInv'
<1> DEFINE n == session[s].got + 1
           now == [session[s] EXCEPT !.got = n]
<1>1. /\ session[s].state = "open" /\ session' = [session EXCEPT ![s] = now]
      /\ view' = {IF b.id = session[s].to THEN Handled(b, n) ELSE b : b \in view}
      /\ UNCHANGED <<parked, cur, loads, bubbles>>
  BY DEF Deliver, Rest
<1>2. ClientShapes /\ Begun /\ OpenIsCur /\ ShownIsBound /\ session[s] \in ClientSession
  BY DEF ClientInv, ClientShapes
<1>3. /\ now \in ClientSession /\ now.got = n /\ n \in Nat /\ now.to = session[s].to
      /\ now.state = "open" /\ now.thread = session[s].thread
  BY <1>1, <1>2 DEF ClientSession
<1>4. \A b \in view : LET h == Handled(b, n) IN
        /\ h \in ShownBubble /\ h.id = b.id /\ h.thread = b.thread /\ h.session = b.session
        /\ h.got = Append(b.got, n) /\ h.error = b.error
  <2>1. SUFFICES ASSUME NEW b \in view
                 PROVE  LET h == Handled(b, n) IN
                        /\ h \in ShownBubble /\ h.id = b.id /\ h.thread = b.thread
                        /\ h.session = b.session /\ h.got = Append(b.got, n) /\ h.error = b.error
    OBVIOUS
  <2>2. b \in ShownBubble
    BY <1>2 DEF ClientShapes
  <2>3. (b.streaming /\ n < Frames) \in BOOLEAN
    BY <2>2, Zenon DEF ShownBubble
  <2>4. PICK on \in BOOLEAN : on = (b.streaming /\ n < Frames)
    BY <2>3
  <2>5. Handled(b, n) = [[b EXCEPT !.got = Append(@, n)] EXCEPT !.streaming = on]
    BY <2>4, Zenon DEF Handled
  <2>6. Append(b.got, n) \in Seq(Nat)
    BY <1>3, <2>2 DEF ShownBubble
  <2>. QED  BY <1>3, <2>2, <2>5, <2>6 DEF ShownBubble
<1>5. n = session[s].got + 1 /\ session[s].got \in Nat
  BY <1>2 DEF ClientSession
<1> HIDE DEF n, now
<1>6. /\ session'[s] = now /\ session' \in [Sess -> ClientSession]
      /\ \A r \in Sess : r # s => session'[r] = session[r]
  BY <1>1, <1>2, <1>3 DEF ClientShapes
<1>7. \A b \in view' : \E a \in view :
        /\ b.id = a.id /\ b.thread = a.thread /\ b.session = a.session /\ b \in ShownBubble
        /\ b.error = a.error
        /\ IF a.id = session[s].to THEN b.got = Append(a.got, n) ELSE b = a
  BY <1>1, <1>2, <1>4 DEF ClientShapes
<1>8. ClientShapes'
  BY <1>1, <1>2, <1>3, <1>6, <1>7 DEF ClientShapes
<1>9. Begun' /\ OpenIsCur'
  BY <1>1, <1>2, <1>3, <1>6, <1>7 DEF Begun, OpenIsCur, ClientShapes
<1>10. ASSUME ~Opening, NEW b \in view' PROVE Bound(b)'
  <2>1. PICK a \in view : /\ b.id = a.id /\ b.thread = a.thread /\ b.session = a.session /\ b \in ShownBubble
                          /\ b.error = a.error
                          /\ IF a.id = session[s].to THEN b.got = Append(a.got, n) ELSE b = a
    BY <1>7
  <2>2. Bound(a) /\ a.session \in Sess
    BY <1>2, <1>10 DEF ShownIsBound, ClientShapes, ShownBubble
  <2>3. a.id = session[s].to <=> a.session = s
    BY <1>1, <2>2 DEF Bound
  <2>4. CASE a.session = s
    <3>1. b.error \/ b.got = Append(Upto(session[s].got), session[s].got + 1)
      BY <1>5, <2>1, <2>2, <2>3, <2>4 DEF Bound
    <3>2. b.error \/ b.got = Upto(session'[s].got)
      BY <1>3, <1>5, <1>6, <3>1, UptoNext
    <3>. QED  BY <1>1, <1>3, <1>6, <2>1, <2>2, <2>3, <2>4, <3>2 DEF Bound
  <2>5. CASE a.session # s
    BY <1>1, <1>3, <1>6, <2>1, <2>2, <2>3, <2>5 DEF Bound
  <2>. QED  BY <2>4, <2>5
<1>. QED  BY <1>1, <1>8, <1>9, <1>10 DEF ClientInv, ShownIsBound, Opening

(* what is read is shown *)

\* the answer that is being read has a bubble, below rows of its conversation
ReadIsShown ==
  ~Opening /\ ~replaced =>
    /\ history.thread \in {NoThread, cur}
    /\ cur # NoThread /\ parked[cur] # 0 => \E b \in view : b.session = parked[cur]

\* sessions are forgotten, loads are over or on their way, bubbles stay
LEMMA ReadStays ==
  ASSUME ReadIsShown, ClientInv, Opening => Opening', UNCHANGED <<cur, history, replaced>>,
         \A t \in Threads : parked'[t] = parked[t] \/ parked'[t] = 0,
         \A a \in view : \E b \in view' : b.session = a.session
  PROVE  ReadIsShown'
BY DEF ReadIsShown, ClientInv, ClientShapes

\* bubbles that end, or that are told a frame, stay
LEMMA EndedStay ==
  ASSUME ClientInv, NEW ids, NEW error, EndBubbles(ids, error)
  PROVE  /\ \A a \in view : \E b \in view' : b.session = a.session
         /\ UNCHANGED <<history, replaced>>
<1>1. \A a \in view : [a EXCEPT !.streaming = FALSE, !.error = @ \/ error].session = a.session
  BY DEF ClientInv, ClientShapes, ShownBubble
<1>. QED  BY <1>1 DEF EndBubbles

LEMMA StreamReads ==
  ASSUME ReadIsShown, ClientInv, NEW s \in Sess,
         Posted(s) \/ Resumed(s) \/ Deliver(s) \/ Ends(s) \/ Drops(s)
  PROVE  ReadIsShown'
<1>1. UNCHANGED cur /\ (Opening => Opening')
  BY DEF Posted, Resumed, Deliver, Ends, Drops, Rest, Opening
<1>2. /\ UNCHANGED parked \/ Forget(s)
      /\ \/ UNCHANGED shown
         \/ \E ids, error : EndBubbles(ids, error)
         \/ Deliver(s)
  BY DEF Posted, Resumed, Deliver, Ends, Drops, Settle
<1>3. \A t \in Threads : parked'[t] = parked[t] \/ parked'[t] = 0
  BY <1>2 DEF Forget
<1>4. CASE UNCHANGED shown
  BY <1>1, <1>3, <1>4, ReadStays DEF shown
<1>5. CASE \E ids, error : EndBubbles(ids, error)
  BY <1>1, <1>3, <1>5, ReadStays, EndedStay
<1>6. CASE Deliver(s)
  <2>1. \A a \in view : Handled(a, session[s].got + 1).session = a.session
    BY DEF Handled, ClientInv, ClientShapes, ShownBubble
  <2>2. \A a \in view : \E b \in view' : b.session = a.session
    BY <1>6, <2>1 DEF Deliver
  <2>. QED  BY <1>1, <1>3, <1>6, <2>2, ReadStays DEF Deliver
<1>. QED  BY <1>2, <1>4, <1>5, <1>6

LEMMA LoadReads ==
  ASSUME ReadIsShown, ClientInv, NEW l \in loads,
         Serve(l) \/ Loaded(l) \/ Reloaded(l) \/ LoadFailed(l)
  PROVE  ReadIsShown'
<1>1. Loading(l) /\ (l.kind = "open" => l.thread = cur)
  BY DEF ClientInv, ClientShapes, OpenIsCur
<1>2. CASE Serve(l)
  <2> DEFINE v == server[l.thread]
             active == v.run \in {"running", "dead"}
             said == [l EXCEPT !.served = TRUE, !.resume = active \/ v.asked > v.answered,
                               !.rows = [thread |-> l.thread, answered |-> v.answered, active |-> active]]
  <2>1. loads' = (loads \ {l}) \union {said} /\ UNCHANGED <<parked, cur, shown>>
    BY <1>2 DEF Serve
  <2>2. said.thread = l.thread /\ said.kind = l.kind
    BY <1>1 DEF Loading
  <2> HIDE DEF said
  <2>3. Opening => Opening'
    BY <2>1, <2>2 DEF Opening
  <2>. QED  BY <2>1, <2>3, ReadStays DEF shown
<1>3. CASE Loaded(l)
  <2>1. l.rows.thread = cur /\ UNCHANGED cur /\ parked \in [Threads -> Nat]
    BY <1>1, <1>3 DEF Loaded, Loading, ClientInv, ClientShapes
  <2>2. CASE ShowRows(l.rows, FALSE) /\ UNCHANGED parked /\ parked[l.thread] = 0
    BY <1>1, <1>3, <2>1, <2>2 DEF ReadIsShown, ShowRows, Loaded
  <2>3. ASSUME NEW s, listen(l.thread, s, {}), history' = l.rows, parked'[l.thread] = s
        PROVE  ReadIsShown'
    <3>1. \E b \in view' : b.session = s
      BY <2>3 DEF listen, NewBubble
    <3>. QED  BY <1>1, <1>3, <2>1, <2>3, <3>1 DEF ReadIsShown, Loaded
  <2>4. ASSUME NEW s, parked' = [parked EXCEPT ![l.thread] = s] PROVE parked'[l.thread] = s
    BY <1>1, <2>1, <2>4 DEF Loading
  <2>. QED  BY <1>3, <2>2, <2>3, <2>4 DEF Loaded
<1>4. CASE Reloaded(l) /\ ~replaced'
  <2>1. /\ l.kind = "empty" /\ loads' = loads \ {l} /\ UNCHANGED <<cur, parked>>
        /\ (UNCHANGED shown \/ \E ids, error : EndBubbles(ids, error))
    BY <1>4 DEF Reloaded, ShowRows
  <2>2. Opening => Opening'
    BY <2>1 DEF Opening
  <2>. QED  BY <2>1, <2>2, ReadStays, EndedStay DEF shown
<1>5. CASE LoadFailed(l) \/ replaced'
  BY <1>5 DEF LoadFailed, ShowRows, ReadIsShown
<1>. QED  BY <1>2, <1>3, <1>4, <1>5

LEMMA UserReads ==
  ASSUME ReadIsShown, ClientInv,
         stopGenerate \/ (\E t \in Threads : send(t)) \/ \E t \in Threads \union {NoThread} : Open(t) \/ Remount(t)
  PROVE  ReadIsShown'
<1>1. parked \in [Threads -> Nat] /\ \A l \in loads : l.thread \in Threads
  BY DEF ClientInv, ClientShapes, Loading
<1>2. CASE stopGenerate
  <2>1. /\ UNCHANGED <<cur, loads>> /\ (UNCHANGED shown \/ \E ids, error : EndBubbles(ids, error))
        /\ (parked' = parked \/ parked' = [parked EXCEPT ![cur] = 0])
    BY <1>2 DEF stopGenerate
  <2>2. Opening => Opening'
    BY <2>1 DEF Opening
  <2>. QED  BY <1>1, <2>1, <2>2, ReadStays, EndedStay DEF shown
<1>3. ASSUME NEW t \in Threads, send(t) PROVE ReadIsShown'
  <2>1. PICK s \in Sess : parked' = [parked EXCEPT ![t] = s] /\ listen(t, s, view)
    BY <1>3 DEF send
  <2> DEFINE b == NewBubble(t, s, session[s].got)
  <2>2. b \in view' /\ b.session = s
    BY <2>1 DEF listen, NewBubble
  <2> HIDE DEF b
  <2>5. parked'[t] = s
    BY <1>1, <2>1
  <2>3. cur' = t /\ (t = cur \/ cur = NoThread) /\ UNCHANGED <<loads, history, replaced>>
    BY <1>3 DEF send
  <2>4. Opening => Opening'
    BY <1>1, <2>3, ChatClientAssumption DEF Opening
  <2>. QED  BY <2>2, <2>3, <2>4, <2>5 DEF ReadIsShown
<1>4. ASSUME NEW t \in Threads \union {NoThread}, Open(t) \/ Remount(t) PROVE ReadIsShown'
  <2>1. /\ cur' = t
        /\ \/ t = NoThread /\ ShowRows(NoRows, FALSE)
           \/ t # NoThread /\ Fetch(t, "open", 0) \in loads'
    BY <1>4 DEF Open, Remount
  <2>2. Fetch(t, "open", 0).thread = t /\ Fetch(t, "open", 0).kind = "open"
    BY DEF Fetch
  <2>. QED  BY <2>1, <2>2 DEF ReadIsShown, ShowRows, NoRows, Opening
<1>. QED  BY <1>2, <1>3, <1>4
-----------------------------------------------------------------------------
\* who is generating is a conversation, and the questions of each are counted
Numbered == DOMAIN server = Threads /\ \A t \in Threads : "asked" \in DOMAIN server[t] /\ server[t].asked \in Nat

LEMMA NumberedStep ==
  ASSUME ClientInv, Numbered, [ClientNext]_chatVars
  PROVE  Numbered'
<1>1. CASE UNCHANGED server
  BY <1>1 DEF Numbered
<1>2. ASSUME NEW s \in Sess, Posted(s) PROVE Numbered'
  <2> DEFINE t == session[s].thread
  <2>1. t \in Threads
    BY <1>2 DEF Posted, ClientInv, Begun
  <2>2. CASE server' = [server EXCEPT ![t].run = "running", ![t].sent = 0, ![t].asked = @ + 1, ![t].stop = FALSE]
    <3>1. /\ DOMAIN server' = Threads /\ "asked" \in DOMAIN server'[t]
          /\ server'[t].asked = server[t].asked + 1
          /\ \A u \in Threads : u # t => server'[u] = server[u]
      BY <2>1, <2>2 DEF Numbered
    <3>. QED  BY <2>1, <3>1 DEF Numbered
  <2>. QED  BY <1>1, <1>2, <2>2 DEF Posted
<1>3. ASSUME NEW t \in Threads, Emit(t) \/ Dies(t) \/ Expires(t) PROVE Numbered'
  BY <1>3 DEF Emit, Dies, Expires, Numbered
<1>4. CASE stopGenerate
  BY <1>4 DEF stopGenerate, Numbered
<1>. QED
  BY <1>1, <1>2, <1>3, <1>4
  DEF ClientNext, Net, chatVars, Serve, Loaded, Reloaded, LoadFailed, Resumed, Deliver, Ends, Drops,
      Rest, send, Open, Remount

LEMMA GeneratingStep ==
  ASSUME ClientInv, generating \subseteq Threads, [ClientNext]_chatVars
  PROVE  generating' \subseteq Threads
<1>1. \A l \in loads : l.thread \in Threads
  BY DEF ClientInv, ClientShapes, Loading
<1>2. ASSUME NEW t \in Threads, NEW s, NEW above, listen(t, s, above) PROVE generating' \subseteq Threads
  BY <1>2 DEF listen
<1>3. ASSUME NEW s, NEW mine, Finally(s, mine) PROVE generating' \subseteq Threads
  BY <1>3 DEF Finally
<1>4. ASSUME NEW l \in loads, Serve(l) \/ Loaded(l) \/ Reloaded(l) \/ LoadFailed(l)
      PROVE  generating' \subseteq Threads
  <2>1. l.thread \in Threads
    BY <1>1
  <2>2. CASE Loaded(l)
    BY <1>2, <2>1, <2>2 DEF Loaded
  <2>. QED  BY <1>3, <1>4, <2>2 DEF Serve, Reloaded, LoadFailed
<1>5. ASSUME NEW s \in Sess, Posted(s) \/ Resumed(s) \/ Deliver(s) \/ Ends(s) \/ Drops(s)
      PROVE  generating' \subseteq Threads
  BY <1>3, <1>5 DEF Posted, Resumed, Deliver, Ends, Drops, Settle
<1>6. ASSUME NEW t \in Threads, Emit(t) \/ Dies(t) \/ Expires(t) \/ send(t)
      PROVE  generating' \subseteq Threads
  BY <1>2, <1>6 DEF Emit, Dies, Expires, send, clientVars
<1>7. ASSUME NEW t, Open(t) \/ Remount(t) PROVE generating' \subseteq Threads
  BY <1>7 DEF Open, Remount
<1>8. CASE stopGenerate
  BY <1>3, <1>8 DEF stopGenerate
<1>9. CASE UNCHANGED chatVars
  BY <1>9 DEF chatVars, clientVars
<1>. QED  BY <1>4, <1>5, <1>6, <1>7, <1>8, <1>9 DEF ClientNext, Net

LEMMA ClientStep ==
  ClientInv /\ generating \subseteq Threads /\ Numbered /\ [ClientNext]_chatVars => ClientInv'
<1> SUFFICES ASSUME ClientInv, generating \subseteq Threads, Numbered, [ClientNext]_chatVars PROVE ClientInv'
  OBVIOUS
<1>1. CASE UNCHANGED clientVars
  BY <1>1 DEF clientVars, shown, ClientInv, ClientShapes, Begun, OpenIsCur, ShownIsBound, Opening, Bound, Loading
<1>2. ASSUME NEW t \in Threads, Emit(t) \/ Dies(t) \/ Expires(t) \/ send(t) PROVE ClientInv'
  BY <1>1, <1>2, SendKeeps DEF Emit, Dies, Expires
<1>3. ASSUME NEW s \in Sess, Posted(s) \/ Resumed(s) \/ Ends(s) \/ Drops(s) PROVE ClientInv'
  <2>1. session[s].thread \in Threads
    BY <1>3 DEF Posted, Resumed, Ends, Drops, ClientInv, Begun
  <2>. QED  BY <1>3, <2>1, StreamKeeps DEF Numbered
<1>. QED
  BY <1>1, <1>2, <1>3, ServeKeeps, LoadEnds, LoadedKeeps, OpenKeeps, StopKeeps, DeliverKeeps
  DEF ClientNext, Net, chatVars

LEMMA ReadStep == ASSUME ReadIsShown, ClientInv, [ClientNext]_chatVars PROVE ReadIsShown'
<1>1. CASE UNCHANGED clientVars
  BY <1>1 DEF clientVars, shown, ReadIsShown, Opening
<1>2. ASSUME NEW t \in Threads, Emit(t) \/ Dies(t) \/ Expires(t) PROVE ReadIsShown'
  BY <1>1, <1>2 DEF Emit, Dies, Expires
<1>. QED
  BY <1>1, <1>2, StreamReads, LoadReads, UserReads DEF ClientNext, Net, chatVars

\* Every bubble that is shown holds every frame of its session once, in order,
\* or an error, and the answer that is being read is shown unless a late
\* reload or a failed load has set the messages: for any number of
\* conversations, sessions and frames, however often the user leaves, comes
\* back, asks and stops.
THEOREM EveryFrameShown == ClientSpec => []EveryFrameOnce
<1> DEFINE Inv == ClientInv /\ generating \subseteq Threads /\ Numbered /\ ReadIsShown
<1>1. ClientInit => Inv
  BY ClientStart DEF ClientInit, Numbered, NoRun, ReadIsShown, NoRows
<1>2. Inv /\ [ClientNext]_chatVars => Inv'
  BY ClientStep, NumberedStep, GeneratingStep, ReadStep
<1>3. Inv => EveryFrameOnce
  BY DEF ClientInv, ShownIsBound, Bound, ReadIsShown, EveryFrameOnce
<1> HIDE DEF Inv
<1>. QED  BY <1>1, <1>2, <1>3, PTL DEF ClientSpec
-----------------------------------------------------------------------------
HIDE ChatClientAssumption
USE DocumentsPageAssumption
-----------------------------------------------------------------------------
(* The documents page.  A first page that is answered with a total is not  *)
(* empty; any other empty page is loaded again one page back.              *)

Number == Nat \ {0}
Seen   == [tab : {"all", "review"}, page : Number, filter : BOOLEAN]

\* as much of the type of a request as the argument needs
Shaped(r) == /\ {"kind", "from", "p", "rows", "total"} \subseteq DOMAIN r
             /\ r.kind \in Acts \union {"load", "poll"}
             /\ r.from \in Seen /\ r.p \in Number /\ r.total \in Nat \union {-1}

\* an empty page that is no first page, or of an empty list
FirstIsFull(r) ==
  r.kind = "load" /\ ~Pending(r) /\ DOMAIN r.rows = {}
    => r.rows = NoDocs /\ (r.total > 0 => r.p > 1)

PageInv ==
  /\ DOMAIN requests = 1..Slots
  /\ \A s \in 1..Slots : requests[s] = Free \/ (Shaped(requests[s]) /\ FirstIsFull(requests[s]))
  /\ render \in Seen /\ timer \subseteq Seen /\ total \in Nat
  /\ NoEmptyPage

LEMMA NewRequest ==
  ASSUME NEW kind \in Acts \union {"load", "poll"}, NEW from \in Seen, NEW p \in Number, NEW ids, NEW after
  PROVE  LET r == Request(kind, from, p, ids, after) IN
         Shaped(r) /\ FirstIsFull(r) /\ r.kind = kind
BY DEF Request, Shaped, FirstIsFull, Pending

\* a request is made, answered or over: the list keeps a load if it needs one
LEMMA Replaced ==
  ASSUME PageInv, NEW s \in 1..Slots, NEW r, r = Free \/ (Shaped(r) /\ FirstIsFull(r)),
         requests' = [requests EXCEPT ![s] = r],
         render' \in Seen, timer' \subseteq Seen, total' \in Nat,
         \/ requests[s].kind # "load" /\ total' = total /\ DOMAIN docs' = DOMAIN docs
         \/ r.kind = "load"
         \/ DOMAIN docs' = {} => total' = 0
  PROVE  PageInv'
<1>1. /\ DOMAIN requests' = 1..Slots /\ requests'[s] = r
      /\ \A t \in 1..Slots : t # s => requests'[t] = requests[t]
  BY DEF PageInv
<1>2. \A t \in 1..Slots : requests'[t] = Free \/ (Shaped(requests'[t]) /\ FirstIsFull(requests'[t]))
  BY <1>1 DEF PageInv
<1>3. NoEmptyPage'
  <2>1. SUFFICES ASSUME DOMAIN docs' = {}, total' > 0 PROVE \E t \in 1..Slots : requests'[t].kind = "load"
    BY DEF NoEmptyPage, Loads
  <2>2. CASE r.kind = "load"
    BY <1>1, <2>2
  <2>3. CASE requests[s].kind # "load" /\ total' = total /\ DOMAIN docs' = DOMAIN docs
    <3>1. PICK t \in 1..Slots : requests[t].kind = "load"
      BY <2>1, <2>3 DEF PageInv, NoEmptyPage, Loads
    <3>2. t # s
      BY <2>3, <3>1
    <3>. QED  BY <1>1, <3>1, <3>2
  <2>. QED  BY <2>1, <2>2, <2>3
<1>. QED  BY <1>1, <1>2, <1>3 DEF PageInv, Shaped, FirstIsFull, Pending, Free, NoDocs

\* the requests stay, and so does what is shown
LEMMA Untouched ==
  ASSUME PageInv, UNCHANGED requests, render' \in Seen, timer' \subseteq Seen, total' = total, DOMAIN docs' = DOMAIN docs
  PROVE  PageInv'
BY DEF PageInv, NoEmptyPage, Loads, Shaped, FirstIsFull, Pending, Free, NoDocs

LEMMA FirstPage ==
  ASSUME NEW rows, rows \subseteq Doc, rows # {}
  PROVE  PageOf(rows, 1) # {}
<1> DEFINE depths == {MaxDocs - d : d \in rows}
<1>1. depths \subseteq Nat /\ depths # {}
  BY DEF Doc
<1> HIDE DEF depths
<1>2. PICK n \in depths : \A m \in depths : ~ (<<m, n>> \in OpToRel(<, Nat))
  BY <1>1, NatLessThanWellFounded, WFMin
<1>3. PICK d \in rows : n = MaxDocs - d
  BY DEF depths
<1>4. ASSUME NEW e \in rows, e > d PROVE FALSE
  <2>1. MaxDocs - e \in depths /\ MaxDocs - e \in Nat /\ n \in Nat /\ MaxDocs - e < n
    BY <1>1, <1>3, <1>4 DEF depths, Doc
  <2>2. <<MaxDocs - e, n>> \in OpToRel(<, Nat)
    BY <2>1, Zenon DEF OpToRel
  <2>. QED  BY <1>2, <2>1, <2>2
<1>5. {e \in rows : e > d} = {}
  BY <1>4
<1>6. Cardinality({e \in rows : e > d}) = 1 - 1
  BY <1>5, FS_EmptySet
<1>. QED  BY <1>6 DEF PageOf

LEMMA HowMany ==
  ASSUME NEW v
  PROVE  /\ Rows(v) \subseteq Doc /\ Cardinality(Rows(v)) \in Nat
         /\ Cardinality(Rows(v)) > 0 => Rows(v) # {}
<1>1. Rows(v) \subseteq 1..MaxDocs
  BY DEF Rows, Doc
<1>2. IsFiniteSet(1..MaxDocs)
  BY FS_Interval
<1>3. IsFiniteSet(Rows(v))
  BY <1>1, <1>2, FS_Subset
<1>. QED  BY <1>1, <1>3, FS_CardinalityType, FS_EmptySet DEF Doc
-----------------------------------------------------------------------------
LEMMA PageStart == PageInit => PageInv
<1> SUFFICES ASSUME PageInit PROVE PageInv
  OBVIOUS
<1>1. PICK none : requests = [s \in 1..Slots |-> IF s <= 2 THEN Request("load", render, 1, {}, none) ELSE Free]
  BY Zenon DEF PageInit
<1>2. \E t \in {"all", "review"} : render = Render(t, 1, FALSE)
  BY Zenon DEF PageInit
<1>3. total = 0 /\ timer = {}
  BY Zenon DEF PageInit, NoTimer
<1>4. render \in Seen
  BY <1>2 DEF Render, Seen, Number
<1>5. Shaped(Request("load", render, 1, {}, none)) /\ FirstIsFull(Request("load", render, 1, {}, none))
  BY <1>4, NewRequest DEF Number
<1>. QED  BY <1>1, <1>3, <1>4, <1>5 DEF PageInv, NoEmptyPage

\* the server answers
LEMMA ServedKeeps == ASSUME PageInv, NEW s \in 1..Slots, Served(s) PROVE PageInv'
<1> DEFINE r == requests[s]
           ids == IF r.kind = "load" THEN PageOf(Rows(r.from), r.p)
                  ELSE {d \in r.ids : status[d] # "gone"}
           rows == [d \in ids |-> status[d]]
           n == Cardinality(Rows(r.from))
           answer == [r EXCEPT !.rows = rows, !.total = n]
<1>1. /\ r.kind \in {"load", "poll"} /\ requests' = [requests EXCEPT ![s] = answer]
      /\ UNCHANGED <<render, docs, total, timer>>
  BY DEF Served, pageVars
<1>2. Shaped(r)
  BY <1>1 DEF PageInv, Free
<1>3. n \in Nat /\ (n > 0 => Rows(r.from) # {}) /\ Rows(r.from) \subseteq Doc
  BY HowMany
<1>4. r.kind = "load" /\ ids = {} /\ n > 0 => r.p > 1
  BY <1>2, <1>3, FirstPage DEF Shaped, Number
<1>5. DOMAIN rows = ids /\ (ids = {} => rows = NoDocs)
  BY DEF NoDocs
<1> HIDE DEF ids, rows, n
<1>6. /\ answer.kind = r.kind /\ answer.from = r.from /\ answer.p = r.p
      /\ answer.rows = rows /\ answer.total = n /\ DOMAIN answer = DOMAIN r
  BY <1>2 DEF Shaped
<1> HIDE DEF answer
<1>7. Shaped(answer) /\ FirstIsFull(answer)
  BY <1>2, <1>3, <1>4, <1>5, <1>6 DEF Shaped, FirstIsFull
<1>8. render' \in Seen /\ timer' \subseteq Seen /\ total' \in Nat
  BY <1>1 DEF PageInv
<1>. QED  BY <1>1, <1>6, <1>7, <1>8, Replaced

\* the answer is applied
LEMMA AnswerKeeps == ASSUME PageInv, NEW s \in 1..Slots, Answer(s) PROVE PageInv'
<1> DEFINE r == requests[s]
<1>1. r # Free /\ r.kind \in {"load", "poll"} /\ timer' = timer
  BY DEF Answer
<1>2. /\ Shaped(r) /\ FirstIsFull(r) /\ Free.kind # "load" /\ render \in Seen /\ total \in Nat
      /\ 0 \in Nat /\ timer' \subseteq Seen
  BY <1>1 DEF PageInv, Free
<1>3. CASE r.kind = "load" /\ ~Pending(r) /\ PageLoaded(s)
  <2>1. docs' = r.rows /\ total' = r.total
    BY <1>3 DEF PageLoaded
  <2>2. CASE r.rows = NoDocs /\ r.total > 0 /\ r.p > 1
    <3> DEFINE back == Request("load", r.from, r.p - 1, {}, r.after)
    <3>1. /\ render' = [render EXCEPT !.page = r.p - 1]
          /\ requests' = [requests EXCEPT ![s] = back]
      BY <1>3, <2>2 DEF PageLoaded
    <3>2. r.p - 1 \in Number /\ r.from \in Seen
      BY <1>2, <2>2 DEF Shaped, Number
    <3>3. Shaped(back) /\ FirstIsFull(back) /\ back.kind = "load"
      BY <3>2, NewRequest
    <3>4. render' \in Seen /\ total' \in Nat
      BY <1>2, <2>1, <2>2, <3>1, <3>2 DEF Seen, Shaped
    <3> HIDE DEF back
    <3>. QED  BY <1>2, <3>1, <3>3, <3>4, Replaced
  <2>3. CASE ~(r.rows = NoDocs /\ r.total > 0 /\ r.p > 1)
    <3>1. requests' = [requests EXCEPT ![s] = Free] /\ render' = render
      BY <1>3, <2>3 DEF PageLoaded
    <3>2. DOMAIN r.rows = {} => ~(r.total > 0)
      BY <1>2, <1>3, <2>3 DEF FirstIsFull
    <3>3. r.total \in Nat
      BY <1>2, <1>3 DEF FirstIsFull, Pending, Shaped
    <3>4. render' \in Seen /\ total' \in Nat /\ (DOMAIN docs' = {} => total' = 0)
      BY <1>2, <2>1, <3>1, <3>2, <3>3
    <3>. QED  BY <1>2, <3>1, <3>4, Replaced
  <2>. QED  BY <2>2, <2>3
<1>4. CASE r.kind = "load" /\ PageLoadFailed(s)
  <2>1. /\ requests' = [requests EXCEPT ![s] = Free]
        /\ total' = 0 /\ UNCHANGED render
    BY <1>4, Zenon DEF PageLoadFailed
  <2>. QED  BY <1>2, <2>1, Replaced
<1>5. CASE r.kind = "poll" /\ Polled(s)
  <2>1. DOMAIN docs' = DOMAIN docs /\ UNCHANGED <<render, total>>
    BY <1>5 DEF Polled
  <2>2. PICK after : after = "poll"
    OBVIOUS
  <2> DEFINE again == Request("load", r.from, r.from.page, {}, after)
  <2>3. \/ requests' = [requests EXCEPT ![s] = Free]
        \/ requests' = [requests EXCEPT ![s] = again]
    BY <1>5, <2>2 DEF Polled
  <2>4. r.from \in Seen /\ r.from.page \in Number
    BY <1>2 DEF Shaped, Seen
  <2>5. Shaped(again) /\ FirstIsFull(again)
    BY <2>4, NewRequest
  <2> HIDE DEF again
  <2>. QED  BY <1>2, <1>5, <2>1, <2>3, <2>5, Replaced
<1>6. CASE r.kind = "poll" /\ PollFailed(s)
  <2>1. /\ requests' = [requests EXCEPT ![s] = Free]
        /\ UNCHANGED <<render, docs, total>>
    BY <1>6 DEF PollFailed
  <2>. QED  BY <1>2, <1>6, <2>1, Replaced
<1>. QED  BY <1>3, <1>4, <1>5, <1>6 DEF Answer

\* an operation is answered: the list is loaded again, or it failed
LEMMA ActKeeps ==
  ASSUME PageInv, NEW s \in 1..Slots,
         Acted(s) \/ ActFailed(s) \/ Created(s) \/ Completed(s) \/ UploadFailed(s)
  PROVE  PageInv'
<1> DEFINE r == requests[s]
           again == Reload(r)
<1>1. r.kind \in Acts /\ UNCHANGED <<render, docs, total, timer>>
  BY DEF Acted, ActFailed, Created, Completed, UploadFailed, Acts, Batch, pageVars
<1>2. "load" \notin Acts /\ "none" \notin Acts
  BY DEF Acts, Batch
<1>3. /\ Shaped(r) /\ FirstIsFull(r) /\ r.kind # "load"
      /\ render' \in Seen /\ timer' \subseteq Seen /\ total' \in Nat
  BY <1>1, <1>2 DEF PageInv, Free
<1>4. Shaped(again) /\ FirstIsFull(again)
  <2>1. r.from \in Seen /\ r.from.page \in Number
    BY <1>3 DEF Shaped, Seen
  <2>. QED  BY <2>1, NewRequest DEF Reload
<1> HIDE DEF again
<1>5. CASE requests' = [requests EXCEPT ![s] = again] \/ requests' = [requests EXCEPT ![s] = Free]
  BY <1>1, <1>3, <1>4, <1>5, Replaced
<1>6. CASE Created(s)
  <2>1. PICK d \in Doc : requests' = [requests EXCEPT ![s].ids = {d}]
    BY <1>6 DEF Created
  <2> DEFINE named == [r EXCEPT !.ids = {d}]
  <2>2. requests' = [requests EXCEPT ![s] = named]
    BY <2>1
  <2>3. /\ named.kind = r.kind /\ named.from = r.from /\ named.p = r.p /\ named.total = r.total
        /\ named.rows = r.rows /\ DOMAIN named = DOMAIN r
    BY <1>3 DEF Shaped
  <2> HIDE DEF named
  <2>4. Shaped(named) /\ FirstIsFull(named)
    BY <1>3, <2>3 DEF Shaped, FirstIsFull
  <2>. QED  BY <1>1, <1>3, <2>2, <2>4, Replaced
<1>. QED  BY <1>5, <1>6 DEF Acted, ActFailed, Completed, UploadFailed, again

\* the page asks
LEMMA AskKeeps ==
  ASSUME PageInv, NEW s \in 1..Slots, NEW kind \in Acts \union {"load", "poll"}, NEW from \in Seen,
         NEW p \in Number, NEW ids, NEW after, Send(Request(kind, from, p, ids, after), s),
         render' \in Seen, timer' \subseteq Seen,
         \/ total' = total /\ DOMAIN docs' = DOMAIN docs
         \/ kind = "load" /\ total' \in Nat
  PROVE  PageInv'
<1> DEFINE r == Request(kind, from, p, ids, after)
<1>1. Shaped(r) /\ FirstIsFull(r) /\ r.kind = kind
  BY NewRequest
<1> HIDE DEF r
<1>2. requests[s] = Free /\ requests' = [requests EXCEPT ![s] = r]
  BY DEF Send, r
<1>3. requests[s].kind # "load" /\ total \in Nat
  BY <1>2 DEF Free, PageInv
<1>. QED  BY <1>1, <1>2, <1>3, Replaced

LEMMA Renders ==
  ASSUME PageInv
  PROVE  /\ render.page \in Number /\ 1 \in Number
         /\ \A p \in Number : [render EXCEPT !.page = p] \in Seen
         /\ \A tab \in {"all", "review"} : [render EXCEPT !.tab = tab, !.page = 1] \in Seen
         /\ [render EXCEPT !.filter = ~@] \in Seen
<1>1. render \in Seen
  BY DEF PageInv
<1>2. \A v \in Seen : \A p \in Number : [v EXCEPT !.page = p] \in Seen
  BY DEF Seen
<1>3. ASSUME NEW tab \in {"all", "review"} PROVE [render EXCEPT !.tab = tab, !.page = 1] \in Seen
  <2>1. [render EXCEPT !.tab = tab] \in Seen
    BY <1>1 DEF Seen
  <2> DEFINE v == [render EXCEPT !.tab = tab]
  <2>2. [render EXCEPT !.tab = tab, !.page = 1] = [v EXCEPT !.page = 1] /\ v \in Seen /\ 1 \in Number
    BY <2>1 DEF Number
  <2> HIDE DEF v
  <2>. QED  BY <1>2, <2>2
<1>4. [render EXCEPT !.filter = ~@] \in Seen
  <2>1. render.filter \in BOOLEAN
    BY <1>1 DEF Seen
  <2>2. (~render.filter) \in BOOLEAN
    BY <2>1, Zenon
  <2>3. \A b \in BOOLEAN : [render EXCEPT !.filter = b] \in Seen
    BY <1>1 DEF Seen
  <2>. QED  BY <2>2, <2>3
<1>5. render.page \in Number /\ 1 \in Number
  BY <1>1 DEF Seen, Number
<1>. QED  BY <1>1, <1>2, <1>3, <1>4, <1>5

\* what the user does, the debounce and the poll
LEMMA UserKeeps ==
  ASSUME PageInv, NEW s \in 1..Slots, User(s) \/ Debounced(s) \/ Poll(s)
  PROVE  PageInv'
<1>0. render \in Seen /\ timer \subseteq Seen /\ total \in Nat /\ render.page \in Number /\ 1 \in Number
  BY Renders DEF PageInv
<1>1. CASE goPage(s)
  <2>1. PICK p \in 1..total : /\ render' = [render EXCEPT !.page = p] /\ UNCHANGED <<total, docs, timer>>
                              /\ \E after : Send(Request("load", render, p, {}, after), s)
    BY <1>1, Zenon DEF goPage
  <2>2. PICK after : Send(Request("load", render, p, {}, after), s)
    BY <2>1
  <2>3. p \in Number
    BY <1>0 DEF Number
  <2>4. render' \in Seen
    BY <2>1, <2>3, Renders
  <2>. QED  BY <1>0, <2>1, <2>2, <2>3, <2>4, AskKeeps
<1>2. CASE switchTab(s)
  <2>1. PICK tab \in {"all", "review"} :
          /\ render' = [render EXCEPT !.tab = tab, !.page = 1] /\ total' = 0 /\ UNCHANGED timer
          /\ \E after : Send(Request("load", render', 1, {}, after), s)
    BY <1>2, Zenon DEF switchTab
  <2>2. PICK after : Send(Request("load", render', 1, {}, after), s)
    BY <2>1
  <2>3. render' \in Seen
    BY <2>1, Renders
  <2>4. PICK from \in Seen : from = render'
    BY <2>3
  <2>. QED  BY <1>0, <2>1, <2>2, <2>3, <2>4, AskKeeps
<1>3. CASE Poll(s)
  <2>1. PICK ids, after : Send(Request("poll", render, render.page, ids, after), s)
    BY <1>3 DEF Poll
  <2>2. UNCHANGED <<render, total, docs, timer>>
    BY <1>3 DEF Poll, pageVars
  <2>. QED  BY <1>0, <2>1, <2>2, AskKeeps
<1>4. ASSUME NEW kind \in Acts, NEW flag, NEW ids, Operate(kind, flag, ids, s) PROVE PageInv'
  <2>1. Send(Request(kind, render, render.page, ids, flag), s) /\ UNCHANGED <<render, total, docs, timer>>
    BY <1>4, Zenon DEF Operate
  <2>. QED  BY <1>0, <2>1, AskKeeps
<1>5. CASE review(s) \/ reviewBatch(s) \/ togglePublish(s) \/ retry(s) \/ remove(s)
  <2>1. \E kind \in Acts : \E flag, ids : Operate(kind, flag, ids, s)
    <3>1. {"approve", "reject", "publish", "retry", "remove"} \subseteq Acts /\ Batch \subseteq Acts
      BY DEF Acts
    <3>. QED  BY <1>5, <3>1, Zenon DEF review, reviewBatch, togglePublish, retry, remove
  <2>. QED  BY <1>4, <2>1
<1>6. CASE doUpload(s)
  <2>1. PICK ids, after : Send(Request("upload", render, render.page, ids, after), s)
    BY <1>6 DEF doUpload
  <2>2. UNCHANGED <<render, total, docs, timer>> /\ "upload" \in Acts
    BY <1>6 DEF doUpload, Acts
  <2>. QED  BY <1>0, <2>1, <2>2, AskKeeps
<1>7. CASE Debounced(s)
  <2>1. PICK v \in timer : /\ render' = [render EXCEPT !.page = 1] /\ UNCHANGED <<docs, total>> /\ timer' = {}
                           /\ \E after : Send(Request("load", v, 1, {}, after), s)
    BY <1>7, Zenon DEF Debounced, NoTimer
  <2>2. PICK after : Send(Request("load", v, 1, {}, after), s)
    BY <2>1
  <2>3. v \in Seen
    BY <1>0
  <2>. QED  BY <1>0, <2>1, <2>2, <2>3, Renders, AskKeeps
<1>. QED  BY <1>1, <1>2, <1>3, <1>5, <1>6, <1>7 DEF User

LEMMA PageStep == PageInv /\ [PageNext]_documentsVars => PageInv'
<1> SUFFICES ASSUME PageInv, [PageNext]_documentsVars PROVE PageInv'
  OBVIOUS
<1>1. CASE UNCHANGED documentsVars
  BY <1>1, Untouched DEF documentsVars, pageVars, PageInv
<1>2. CASE toggleSelect
  BY <1>2, Untouched DEF toggleSelect, PageInv
<1>3. CASE changeFilter
  <2>1. render' \in Seen /\ timer' = {render'}
    BY <1>3, Renders DEF changeFilter
  <2>. QED  BY <1>3, <2>1, Untouched DEF changeFilter
<1>4. CASE Processed \/ OtherUser
  BY <1>4, Untouched DEF Processed, OtherUser, pageVars, PageInv
<1>5. ASSUME NEW s \in 1..Slots, Arrives(s) PROVE PageInv'
  BY <1>5, ServedKeeps, AnswerKeeps, ActKeeps DEF Arrives
<1>. QED  BY <1>1, <1>2, <1>3, <1>4, <1>5, UserKeeps DEF PageNext

\* No empty page is left where there are documents, for any documents, filter
\* and number of requests that answer in any order.
THEOREM NoPageStaysEmpty == PageSpec => []NoEmptyPage
<1>1. PageInv => NoEmptyPage
  BY DEF PageInv
<1>. QED  BY <1>1, PageStart, PageStep, PTL DEF PageSpec
=============================================================================
