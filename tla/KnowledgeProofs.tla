-------------------------- MODULE KnowledgeProofs ---------------------------
(***************************************************************************)
(* Proofs about MemoryWindow and GraphStore: no message of a conversation  *)
(* is forgotten unnoticed, and the graph of a workspace tells what its     *)
(* documents say.  For any window, rounds, faults, documents, chunks and   *)
(* hops, and whatever runs side by side.                                   *)
(***************************************************************************)
EXTENDS MemoryWindow, GraphStore, TLAPS, WellFoundedInduction, FiniteSetTheorems

USE MemoryAssumption
-----------------------------------------------------------------------------
(* as much of the types as the argument needs *)

Update == [pc : {"none", "len", "range", "trim", "get", "set", "over"}, count : Nat,
           overflow : SUBSET Message, existing : SUBSET Message, beside : BOOLEAN]

Shapes ==
  /\ window \in Seq(Message) /\ summary \subseteq Message
  /\ update \in [Round -> Update]

\* an update has nothing in hand before LRANGE and after its end
Empty == \A r \in Round : update[r].pc \in {"none", "len", "range", "over"} => update[r].overflow = {}

\* two updates that work on the list know that they are not alone
Aware == \A r, q \in Appending : r # q => update[r].beside

\* what the only update that works on the list has read is what it will trim
Reads == \A r \in Round :
  update[r].pc = "trim" /\ ~update[r].beside => update[r].overflow = First(update[r].count)

MemoryInv == Shapes /\ Empty /\ Aware /\ Reads /\ Remembered

\* where a message may be
Held(r) == IF r \in InFlight THEN update[r].overflow ELSE {}
Kept == ToSet(window) \union summary \union excused \union UNION {Held(r) : r \in Round}

LEMMA RememberedKept == Remembered <=> Pushed \subseteq Kept
BY DEF Remembered, Kept, Held, InFlight

\* a list is its first n messages and those behind them
LEMMA FirstAndBehind ==
  ASSUME window \in Seq(Message), NEW n \in Nat
  PROVE  Behind(n) \in Seq(Message) /\ ToSet(window) \subseteq First(n) \union ToSet(Behind(n))
<1>1. Behind(n) \in Seq(Message)
  BY DEF Behind
<1>2. ASSUME NEW i \in DOMAIN window, i > n PROVE window[i] \in ToSet(Behind(n))
  <2>1. /\ i - n \in 1..(Len(window) - n) /\ n + 1 \in 1..Len(window)
        /\ Len(window) \in Nat /\ i \in Int
    BY <1>2
  <2>2. i - n \in DOMAIN Behind(n) /\ Behind(n)[i - n] = window[i]
    BY <2>1 DEF Behind
  <2>. QED  BY <2>2 DEF ToSet
<1>3. ASSUME NEW i \in DOMAIN window, i <= n PROVE window[i] \in First(n)
  BY <1>3 DEF First
<1>. QED  BY <1>1, <1>2, <1>3 DEF ToSet
-----------------------------------------------------------------------------
(* the calls of one update *)

\* the update of round r goes on; the list changes only by what is trimmed
LEMMA OneUpdate ==
  ASSUME Shapes, NEW r \in Round, NEW x \in Update, update' = [update EXCEPT ![r] = x]
  PROVE  /\ update' \in [Round -> Update] /\ update'[r] = x
         /\ \A q \in Round \ {r} : update'[q] = update[q]
BY DEF Shapes

LEMMA GoesOn ==
  ASSUME MemoryInv, NEW r \in Round, NEW x \in Update, update' = [update EXCEPT ![r] = x],
         update[r].pc # "none", x.pc # "none",
         x.pc \in {"len", "range", "trim"} =>
           update[r].pc \in {"len", "range", "trim"} /\ (update[r].beside => x.beside),
         x.pc \in {"none", "len", "range", "over"} => x.overflow = {},
         x.pc = "trim" => window' = window,
         x.pc = "trim" /\ ~x.beside => x.overflow = First(x.count),
         window' \in Seq(Message), summary' \subseteq Message,
         window' = window \/ (r \in Appending /\ x.pc \notin {"len", "range", "trim"}),
         summary \subseteq summary' \union excused', excused \subseteq excused',
         ToSet(window) \subseteq ToSet(window') \union excused'
           \union (IF x.pc \in {"none", "over"} THEN {} ELSE x.overflow),
         update[r].overflow \subseteq summary' \union excused'
           \union (IF x.pc \in {"none", "over"} THEN {} ELSE x.overflow)
  PROVE  MemoryInv'
<1>0. Shapes /\ Empty /\ Aware /\ Reads /\ Remembered
  BY DEF MemoryInv
<1>1. /\ update' \in [Round -> Update] /\ update'[r] = x
      /\ \A q \in Round \ {r} : update'[q] = update[q]
  BY <1>0, OneUpdate
<1>2. Shapes'
  BY <1>1 DEF Shapes
<1>3. Empty'
  BY <1>0, <1>1 DEF Empty
<1>4. Aware'
  BY <1>0, <1>1 DEF Aware, Appending
<1>5. Reads'
  <2>1. ASSUME NEW q \in Round, update'[q].pc = "trim", ~update'[q].beside
        PROVE  update'[q].overflow = First(update[q].count)'
    <3>1. CASE q = r
      BY <1>1, <2>1, <3>1 DEF First
    <3>2. CASE q # r
      <4>1. update'[q] = update[q]
        BY <1>1, <3>2
      <4>2. window' = window
        BY <1>0, <2>1, <3>2, <4>1 DEF Aware, Appending
      <4>. QED  BY <1>0, <2>1, <4>1, <4>2 DEF Reads, First
    <3>. QED  BY <3>1, <3>2
  <2>. QED  BY <2>1 DEF Reads
<1>6. Pushed' = Pushed
  <2>1. \A q \in Round : update'[q].pc = "none" <=> update[q].pc = "none"
    BY <1>1
  <2>2. \A m \in Message : m[1] \in Round
    BY DEF Message
  <2>. QED  BY <2>1, <2>2 DEF Pushed
<1>7. Kept \subseteq Kept'
  <2>1. Held(r)' = IF x.pc \in {"none", "over"} THEN {} ELSE x.overflow
    BY <1>1 DEF Held, InFlight
  <2>2. \A q \in Round \ {r} : Held(q)' = Held(q)
    BY <1>1 DEF Held, InFlight
  <2>3. Held(r) \subseteq update[r].overflow
    BY DEF Held
  <2>4. UNION {Held(q) : q \in Round} \subseteq update[r].overflow \union UNION {Held(q)' : q \in Round}
    BY <2>2, <2>3
  <2>5. Held(r)' \subseteq UNION {Held(q)' : q \in Round}
    OBVIOUS
  <2>. QED  BY <2>1, <2>4, <2>5 DEF Kept
<1>8. Remembered'
  <2>1. Pushed \subseteq Kept
    BY <1>0, RememberedKept
  <2>2. Remembered' <=> (Pushed \subseteq Kept)'
    BY RememberedKept, PTL
  <2>. QED  BY <1>6, <1>7, <2>1, <2>2
<1>. QED  BY <1>2, <1>3, <1>4, <1>5, <1>8 DEF MemoryInv

LEMMA UpdateTypes ==
  /\ NoUpdate \in Update /\ NoUpdate.overflow = {} /\ NoUpdate.pc = "none"
  /\ \A p \in {"len", "over"} :
       /\ [NoUpdate EXCEPT !.pc = p] \in Update
       /\ [NoUpdate EXCEPT !.pc = p].pc = p /\ [NoUpdate EXCEPT !.pc = p].overflow = {}
BY DEF NoUpdate, Update

LEMMA LenSafe == ASSUME MemoryInv, NEW r \in Round, Len_(r) PROVE MemoryInv'
<1> DEFINE n == Len(window)
           p == IF n <= WindowSize THEN "over" ELSE "range"
           m == IF n <= WindowSize THEN 0 ELSE n - WindowSize
           x == [update[r] EXCEPT !.pc = p, !.count = m]
<1>0. /\ update[r] \in Update /\ window \in Seq(Message) /\ summary \subseteq Message
      /\ update[r].pc = "len" /\ update[r].overflow = {} /\ update' = [update EXCEPT ![r] = x]
      /\ UNCHANGED <<window, summary, mishaps, excused>>
  BY DEF MemoryInv, Shapes, Empty, Len_, At
<1>1. n \in Nat /\ WindowSize \in Nat
  BY <1>0
<1> HIDE DEF n
<1>2. m \in Nat /\ p \in {"range", "over"}
  BY <1>1
<1> HIDE DEF m, p
<1>3. x \in Update /\ x.pc \in {"range", "over"} /\ x.overflow = {} /\ x.beside = update[r].beside
  BY <1>0, <1>2 DEF Update
<1> HIDE DEF x
<1>. QED  BY <1>0, <1>3, GoesOn

LEMMA RangeSafe == ASSUME MemoryInv, NEW r \in Round, Range_(r) PROVE MemoryInv'
<1> DEFINE first == First(update[r].count)
           x == [update[r] EXCEPT !.pc = "trim", !.overflow = first]
<1>0. /\ update[r] \in Update /\ window \in Seq(Message) /\ summary \subseteq Message
      /\ update[r].pc = "range"
      /\ update[r].overflow = {} /\ update' = [update EXCEPT ![r] = x]
      /\ UNCHANGED <<window, summary, mishaps, excused>>
  BY DEF MemoryInv, Shapes, Empty, Range_, At
<1>1. first \subseteq Message
  BY <1>0 DEF First
<1> HIDE DEF first
<1>2. /\ x \in Update /\ x.pc = "trim" /\ x.overflow = first /\ x.beside = update[r].beside
      /\ x.count = update[r].count
  BY <1>0, <1>1 DEF Update
<1> HIDE DEF x
<1>. QED  BY <1>0, <1>2, GoesOn DEF first

LEMMA TrimSafe == ASSUME MemoryInv, NEW r \in Round, Trim(r) PROVE MemoryInv'
<1> DEFINE x == [update[r] EXCEPT !.pc = "get"]
           n == update[r].count
<1>0. /\ update[r] \in Update /\ window \in Seq(Message) /\ summary \subseteq Message
      /\ update[r].pc = "trim"
      /\ update' = [update EXCEPT ![r] = x] /\ window' = Behind(n) /\ summary' = summary
      /\ n \in Nat
  BY DEF MemoryInv, Shapes, Trim, At, Update
<1>1. /\ x \in Update /\ x.pc = "get" /\ x.overflow = update[r].overflow
  BY <1>0 DEF Update
<1>2. excused \subseteq excused' /\ First(n) \subseteq excused' \union update[r].overflow
  BY <1>0 DEF MemoryInv, Reads, Trim
<1>3. window' \in Seq(Message) /\ ToSet(window) \subseteq First(n) \union ToSet(window')
  BY <1>0, FirstAndBehind
<1>4. r \in Appending
  BY <1>0 DEF Appending
<1> HIDE DEF x, n
<1>. QED  BY <1>0, <1>1, <1>2, <1>3, <1>4, GoesOn

LEMMA GetSafe == ASSUME MemoryInv, NEW r \in Round, GetSummary(r) PROVE MemoryInv'
<1> DEFINE x == [update[r] EXCEPT !.pc = "set", !.existing = summary]
<1>0. /\ update[r] \in Update /\ window \in Seq(Message) /\ update[r].pc = "get"
      /\ update' = [update EXCEPT ![r] = x]
      /\ UNCHANGED <<window, summary, mishaps, excused>> /\ summary \subseteq Message
  BY DEF MemoryInv, Shapes, GetSummary, At
<1>1. x \in Update /\ x.pc = "set" /\ x.overflow = update[r].overflow
  BY <1>0 DEF Update
<1> HIDE DEF x
<1>. QED  BY <1>0, <1>1, GoesOn

\* the end of an update, its overflow in the summary or given up
LEMMA OverSafe ==
  ASSUME MemoryInv, NEW r \in Round, update[r].pc \in {"get", "set"},
         update' = [update EXCEPT ![r] = [NoUpdate EXCEPT !.pc = "over"]],
         window' = window, summary' \subseteq Message,
         summary \subseteq summary' \union excused', excused \subseteq excused',
         update[r].overflow \subseteq summary' \union excused'
  PROVE  MemoryInv'
<1> DEFINE x == [NoUpdate EXCEPT !.pc = "over"]
<1>0. window \in Seq(Message)
  BY DEF MemoryInv, Shapes
<1>1. x \in Update /\ x.pc = "over" /\ x.overflow = {}
  BY UpdateTypes
<1> HIDE DEF x
<1>2. update' = [update EXCEPT ![r] = x]
  BY DEF x
<1>. QED  BY <1>0, <1>1, <1>2, GoesOn

LEMMA SetSafe == ASSUME MemoryInv, NEW r \in Round, SetSummary(r) PROVE MemoryInv'
<1>1. update[r] \in Update
  BY DEF MemoryInv, Shapes
<1>. QED  BY <1>1, OverSafe DEF SetSummary, At, Update

LEMMA CompressFailsSafe == ASSUME MemoryInv, NEW r \in Round, CompressFails(r) PROVE MemoryInv'
<1>1. summary \subseteq Message
  BY DEF MemoryInv, Shapes
<1>. QED  BY <1>1, OverSafe DEF CompressFails
-----------------------------------------------------------------------------
(* a new update, and steps that concern them all *)

LEMMA PushSafe == ASSUME MemoryInv, NEW r \in Round, Push(r) PROVE MemoryInv'
<1> DEFINE two == <<<<r, "user">>, <<r, "assistant">>>>
           x(q) == IF q = r THEN [NoUpdate EXCEPT !.pc = "len", !.beside = Appending # {}]
                   ELSE IF q \in Appending THEN [update[q] EXCEPT !.beside = TRUE] ELSE update[q]
<1>0. /\ Shapes /\ Empty /\ Aware /\ Reads /\ Remembered /\ update[r].pc = "none"
      /\ window' = window \o two /\ UNCHANGED <<summary, mishaps, excused>>
      /\ update' = [q \in Round |-> x(q)]
  BY DEF MemoryInv, Push, At
<1>1. /\ x(r) \in Update /\ x(r).pc = "len" /\ x(r).overflow = {}
      /\ x(r).beside = (Appending # {})
  BY DEF NoUpdate, Update
<1>2. ASSUME NEW q \in Round \ {r}
      PROVE  /\ x(q) \in Update /\ x(q).pc = update[q].pc /\ x(q).overflow = update[q].overflow
             /\ q \in Appending => x(q).beside
             /\ q \notin Appending => x(q) = update[q]
  BY <1>0, <1>2 DEF Shapes, Update
<1>3. update'[r] = x(r) /\ \A q \in Round \ {r} : update'[q] = x(q)
  BY <1>0
<1>4. update' \in [Round -> Update]
  BY <1>0, <1>1, <1>2
<1> HIDE DEF x
<1>5. two \in Seq(Message)
  BY DEF Message
<1> HIDE DEF two
<1>6. /\ window' \in Seq(Message) /\ ToSet(window) \subseteq ToSet(window')
      /\ ToSet(two) \subseteq ToSet(window')
  <2>1. window \in Seq(Message) /\ window' \in Seq(Message)
    BY <1>0, <1>5 DEF Shapes
  <2>2. ASSUME NEW i \in DOMAIN window PROVE window[i] \in ToSet(window')
    <3>1. i \in DOMAIN window' /\ window'[i] = window[i]
      BY <1>0, <1>5, <2>1, <2>2
    <3>. QED  BY <3>1 DEF ToSet
  <2>3. ASSUME NEW i \in DOMAIN two PROVE two[i] \in ToSet(window')
    <3>1. Len(window) + i \in DOMAIN window' /\ window'[Len(window) + i] = two[i]
      BY <1>0, <1>5, <2>1, <2>3
    <3>. QED  BY <3>1 DEF ToSet
  <2>. QED  BY <2>1, <2>2, <2>3 DEF ToSet
<1>7. \A m \in Message : m[1] = r => m \in ToSet(two)
  <2>1. 1 \in DOMAIN two /\ 2 \in DOMAIN two /\ two[1] = <<r, "user">> /\ two[2] = <<r, "assistant">>
    BY DEF two
  <2>2. <<r, "user">> \in ToSet(two) /\ <<r, "assistant">> \in ToSet(two)
    BY <2>1 DEF ToSet
  <2>. QED  BY <2>2 DEF Message
<1>8. Shapes'
  BY <1>0, <1>4, <1>6 DEF Shapes
<1>9. Empty'
  BY <1>0, <1>1, <1>2, <1>3 DEF Empty
<1>10. Appending' = Appending \union {r}
  BY <1>0, <1>1, <1>2, <1>3 DEF Appending
<1>11. Aware'
  BY <1>1, <1>2, <1>3, <1>10 DEF Aware, Appending
<1>12. Reads'
  <2>1. ASSUME NEW q \in Round, update'[q].pc = "trim" PROVE update'[q].beside
    BY <1>1, <1>2, <1>3, <2>1 DEF Appending
  <2>. QED  BY <2>1 DEF Reads
<1>13. Remembered'
  <2>1. Pushed \subseteq Kept
    BY <1>0, RememberedKept
  <2>2. \A m \in Message : m[1] \in Round
    BY DEF Message
  <2>3. Pushed' \subseteq Pushed \union ToSet(two)
    BY <1>2, <1>3, <1>7, <2>2 DEF Pushed
  <2>4. \A q \in Round : Held(q) \subseteq Held(q)'
    BY <1>0, <1>2, <1>3 DEF Held, InFlight
  <2>5. UNION {Held(q) : q \in Round} \subseteq UNION {Held(q)' : q \in Round}
    BY <2>4
  <2>6. Kept \union ToSet(two) \subseteq Kept'
    BY <1>0, <1>6, <2>5 DEF Kept
  <2>7. Remembered' <=> (Pushed \subseteq Kept)'
    BY RememberedKept, PTL
  <2>. QED  BY <2>1, <2>3, <2>6, <2>7
<1>. QED  BY <1>8, <1>9, <1>11, <1>12, <1>13 DEF MemoryInv

LEMMA DiesSafe == ASSUME MemoryInv, ProcessDies PROVE MemoryInv'
<1> DEFINE x == [NoUpdate EXCEPT !.pc = "over"]
<1>0. /\ Shapes /\ Empty /\ Remembered /\ UNCHANGED <<window, summary>>
      /\ excused' = excused \union UNION {update[r].overflow : r \in Round}
      /\ update' = [r \in Round |-> IF r \in InFlight THEN x ELSE update[r]]
  BY DEF MemoryInv, ProcessDies
<1>1. x \in Update /\ x.pc = "over" /\ x.overflow = {}
  BY UpdateTypes
<1> HIDE DEF x
<1>2. \A r \in Round : update'[r] = IF r \in InFlight THEN x ELSE update[r]
  BY <1>0
<1>3. Shapes'
  BY <1>0, <1>1 DEF Shapes
<1>4. Empty'
  BY <1>0, <1>1, <1>2 DEF Empty
<1>5. \A r \in Round : update'[r].pc \in {"none", "over"}
  BY <1>1, <1>2 DEF InFlight
<1>6. Aware' /\ Reads'
  BY <1>5 DEF Aware, Appending, Reads
<1>7. Pushed' = Pushed
  <2>1. \A m \in Message : m[1] \in Round
    BY DEF Message
  <2>. QED  BY <1>1, <1>2, <2>1 DEF Pushed, InFlight
<1>8. Kept \subseteq Kept'
  <2>1. \A r \in Round : Held(r) \subseteq excused'
    BY <1>0 DEF Held
  <2>. QED  BY <1>0, <2>1 DEF Kept
<1>9. Remembered'
  <2>1. Remembered' <=> (Pushed \subseteq Kept)'
    BY RememberedKept, PTL
  <2>. QED  BY <1>0, <1>7, <1>8, <2>1, RememberedKept
<1>. QED  BY <1>3, <1>4, <1>6, <1>9 DEF MemoryInv

LEMMA ExpireSafe == ASSUME MemoryInv, Expire PROVE MemoryInv'
<1>0. Shapes /\ Empty /\ Remembered /\ InFlight = {} /\ update' = update
  BY DEF MemoryInv, Expire
<1>1. /\ window' \in Seq(Message) /\ summary' \subseteq Message /\ excused \subseteq excused'
      /\ ToSet(window) \subseteq ToSet(window') \union excused'
      /\ summary \subseteq summary' \union excused'
  <2>1. CASE window' = <<>> /\ excused' = excused \union ToSet(window) /\ summary' = summary
    BY <1>0, <2>1 DEF Shapes
  <2>2. CASE summary' = {} /\ excused' = excused \union summary /\ window' = window
    BY <1>0, <2>2 DEF Shapes
  <2>. QED  BY <2>1, <2>2 DEF Expire
<1>2. Shapes' /\ Empty'
  BY <1>0, <1>1 DEF Shapes, Empty
<1>3. \A r \in Round : update[r].pc \in {"none", "over"}
  BY <1>0 DEF InFlight
<1>4. Aware' /\ Reads'
  BY <1>0, <1>3 DEF Aware, Appending, Reads
<1>5. Pushed' = Pushed /\ Kept \subseteq Kept'
  BY <1>0, <1>1 DEF Pushed, Kept, Held, InFlight
<1>6. Remembered'
  <2>1. Remembered' <=> (Pushed \subseteq Kept)'
    BY RememberedKept, PTL
  <2>. QED  BY <1>0, <1>5, <2>1, RememberedKept
<1>. QED  BY <1>2, <1>4, <1>6 DEF MemoryInv
-----------------------------------------------------------------------------
(* the specification *)

LEMMA MemoryBegins == MemoryInit => MemoryInv
<1> SUFFICES ASSUME MemoryInit PROVE MemoryInv
  OBVIOUS
<1>1. window = <<>> /\ summary = {} /\ update = [r \in Round |-> NoUpdate]
  BY DEF MemoryInit
<1>2. NoUpdate \in Update /\ NoUpdate.overflow = {} /\ NoUpdate.pc = "none"
  BY UpdateTypes
<1>3. Shapes /\ Empty
  BY <1>1, <1>2 DEF Shapes, Empty
<1>4. Aware /\ Reads
  BY <1>1, <1>2 DEF Aware, Appending, Reads
<1>5. Pushed = {}
  <2>1. \A m \in Message : m[1] \in Round
    BY DEF Message
  <2>. QED  BY <1>1, <1>2, <2>1 DEF Pushed
<1>. QED  BY <1>3, <1>4, <1>5 DEF MemoryInv, Remembered

LEMMA MemoryGoesOn == MemoryInv /\ [MemoryNext]_memoryVars => MemoryInv'
<1> SUFFICES ASSUME MemoryInv, [MemoryNext]_memoryVars PROVE MemoryInv'
  OBVIOUS
<1>1. CASE MemoryNext
  BY <1>1, PushSafe, LenSafe, RangeSafe, TrimSafe, GetSafe, SetSafe, CompressFailsSafe,
     DiesSafe, ExpireSafe DEF MemoryNext
<1>2. CASE UNCHANGED memoryVars
  <2>1. UNCHANGED <<window, summary, update, mishaps, excused>>
    BY <1>2 DEF memoryVars
  <2>2. Shapes' /\ Empty'
    BY <2>1 DEF MemoryInv, Shapes, Empty
  <2>3. Aware' /\ Reads'
    BY <2>1 DEF MemoryInv, Aware, Appending, Reads, First
  <2>4. Remembered'
    BY <2>1 DEF MemoryInv, Remembered, Pushed, InFlight
  <2>. QED  BY <2>2, <2>3, <2>4 DEF MemoryInv
<1>. QED  BY <1>1, <1>2

\* Every message of the conversation is in the window, in the summary or in
\* the hands of a running update (memory.service.ts appendWindow,
\* chat.service.ts compressOverflow), unless a fault or a meeting of updates
\* took it; for any window, number of rounds, and updates side by side.
THEOREM NothingForgotten == MemorySpec => []Remembered
<1>1. MemoryInv => Remembered
  BY DEF MemoryInv
<1>. QED  BY <1>1, MemoryBegins, MemoryGoesOn, PTL DEF MemorySpec
-----------------------------------------------------------------------------
HIDE MemoryAssumption
USE GraphAssumption
-----------------------------------------------------------------------------
(* The graph.  A chunk that is written is in the graph with its mentions   *)
(* and relations, and stays there whatever is swept beside it.             *)

Report == UNION {[1..n -> Extractions] : n \in Nat}
Job == [pc : {"none", "detach", "sweep", "document", "part", "entities", "relations",
              "built", "failed", "gone"},
        purge : BOOLEAN, i : Nat, said : Report]

GraphShapes ==
  /\ parts \subseteq Files \X Nat /\ entities \subseteq Entity
  /\ mentions \subseteq parts \X entities
  /\ related \subseteq entities \X RelationTypes \X entities
  /\ work \in [Files -> Job]

\* the chunk that is being written is one of those that were extracted
AtChunk == \A f \in Files :
  /\ work[f].pc \in {"detach", "sweep", "document"} => work[f].i = 1
  /\ work[f].pc \in {"part", "entities", "relations"} => work[f].i \in DOMAIN work[f].said

\* nothing crosses the border of a workspace
AtHome == /\ \A m \in mentions : m[2][1] = Home[m[1][1]]
          /\ \A r \in related : r[1][1] = r[3][1]

Mentioned(f, i) == /\ <<f, i>> \in parts
                   /\ \A name \in work[f].said[i].names : <<<<f, i>>, entity(f, name)>> \in mentions
Relation(f, t) == <<entity(f, t[1]), t[2], entity(f, t[3])>>

\* its relations are there, each with its type or, outdated, with another
Related(f, i) ==
  \A t \in work[f].said[i].triples :
    /\ Relation(f, t) \in related \union outdated
    /\ \E type \in RelationTypes : <<entity(f, t[1]), type, entity(f, t[3])>> \in related

\* what is written so far of a document, and of its current chunk
Told(f) ==
  /\ \A i \in Written(f) : Mentioned(f, i) /\ Related(f, i)
  /\ At_(f, "entities") => <<f, work[f].i>> \in parts
  /\ At_(f, "relations") => Mentioned(f, work[f].i)

Swept(w) == Settled(w) => \A e \in entities : e[1] = w => \E m \in mentions : m[2] = e

GraphInv ==
  /\ GraphShapes /\ AtChunk /\ AtHome
  /\ \A f \in Files : Told(f)
  /\ \A w \in Workspaces : Swept(w)
-----------------------------------------------------------------------------
\* an extraction relates its own entities only
LEMMA ExtractionShape ==
  \A x \in Extractions : /\ x.names \subseteq Names
                         /\ \A t \in x.triples : /\ t = <<t[1], t[2], t[3]>> /\ t[2] \in RelationTypes
                                                /\ t[1] \in x.names /\ t[3] \in x.names
<1> SUFFICES ASSUME NEW raw \in Raw
             PROVE  LET x == toExtractionResult(raw) IN
                    /\ x.names \subseteq Names
                    /\ \A t \in x.triples : /\ t = <<t[1], t[2], t[3]>> /\ t[2] \in RelationTypes
                                           /\ t[1] \in x.names /\ t[3] \in x.names
  BY DEF Extractions
<1>1. PICK ns \in SUBSET Names :
        \E ts : /\ raw = [names |-> ns, triples |-> ts]
                /\ ts = {} \/ \E q \in Names \X RelationTypes \X Names : ts = {q}
  BY DEF Raw
<1>2. PICK ts : /\ raw = [names |-> ns, triples |-> ts]
                /\ ts = {} \/ \E q \in Names \X RelationTypes \X Names : ts = {q}
  BY <1>1
<1>3. toExtractionResult(raw) = [names |-> ns, triples |-> {t \in ts : t[1] \in ns /\ t[3] \in ns}]
  BY <1>2 DEF toExtractionResult
<1>4. \A t \in ts : t = <<t[1], t[2], t[3]>> /\ t[2] \in RelationTypes
  BY <1>2
<1>. QED  BY <1>3, <1>4

\* a document goes from one step to the next
LEMMA GotoOnly ==
  ASSUME GraphShapes, NEW f \in Files, NEW pc, Goto(f, pc)
  PROVE  /\ work'[f].pc = pc /\ work'[f].i = work[f].i /\ work'[f].said = work[f].said
         /\ work'[f].purge = work[f].purge
         /\ \A g \in Files : g # f => work'[g] = work[g]
         /\ pc \in {"none", "detach", "sweep", "document", "part", "entities", "relations",
                    "built", "failed", "gone"} => work' \in [Files -> Job]
<1>1. work \in [Files -> Job]
  BY DEF GraphShapes
<1>2. work[f] \in Job
  BY <1>1
<1> DEFINE job == [work[f] EXCEPT !.pc = pc]
<1>3. work' = [work EXCEPT ![f] = job]
  BY DEF Goto
<1>4. /\ job.pc = pc /\ job.i = work[f].i /\ job.said = work[f].said /\ job.purge = work[f].purge
      /\ pc \in {"none", "detach", "sweep", "document", "part", "entities", "relations",
                 "built", "failed", "gone"} => job \in Job
  BY <1>2 DEF Job
<1> HIDE DEF job
<1>. QED  BY <1>1, <1>3, <1>4

LEMMA GraphStart == GraphInit => GraphInv
<1> SUFFICES ASSUME GraphInit PROVE GraphInv
  OBVIOUS
<1>1. <<>> \in Report /\ DOMAIN <<>> = {}
  <2>1. <<>> \in [1..0 -> Extractions]
    OBVIOUS
  <2>. QED  BY <2>1 DEF Report
<1>2. NoWork \in Job /\ NoWork.pc = "none"
  BY <1>1 DEF Job, NoWork
<1>3. \A f \in Files : work[f] = NoWork
  BY DEF GraphInit
<1>4. GraphShapes /\ AtChunk /\ AtHome
  BY <1>2, <1>3 DEF GraphInit, GraphShapes, AtChunk, AtHome
<1>5. ASSUME NEW f \in Files PROVE Told(f)
  BY <1>2, <1>3 DEF Told, Written, At_
<1>6. ASSUME NEW w \in Workspaces PROVE Swept(w)
  BY DEF Swept, GraphInit
<1>. QED  BY <1>4, <1>5, <1>6 DEF GraphInv
-----------------------------------------------------------------------------
(* one lemma for each operation *)

\* a relation r stays: with its type or, outdated, with another; so do those
\* that were outdated
Stays(r) == /\ r \in related' \union outdated'
            /\ \E type \in RelationTypes : <<r[1], type, r[3]>> \in related'
OutdatedStay == outdated \subseteq related' \union outdated'

LEMMA RelationsStay ==
  ASSUME GraphShapes, UNCHANGED outdated
  PROVE  OutdatedStay /\ \A r \in related : r \in related' => Stays(r)
<1>1. \A r \in related : r = <<r[1], r[2], r[3]>> /\ r[2] \in RelationTypes
  BY DEF GraphShapes
<1>. QED  BY <1>1 DEF OutdatedStay, Stays

\* what a document has told stands as long as its chunks stay
LEMMA ToldStays ==
  ASSUME NEW f \in Files, Told(f), work'[f] = work[f],
         \A i \in Nat : <<f, i>> \in parts => <<f, i>> \in parts',
         \A m \in mentions : m[1][1] = f => m \in mentions',
         GraphShapes, AtChunk, OutdatedStay,
         \A r \in related : (\E m \in mentions : m[1][1] = f /\ m[2] = r[1])
                            /\ (\E m \in mentions : m[1][1] = f /\ m[2] = r[3]) => Stays(r)
  PROVE  Told(f)'
<1> DEFINE said == work[f].said
<1>1. work[f] \in Job
  BY DEF GraphShapes
<1>2. \A i \in DOMAIN said : i \in Nat /\ said[i] \in Extractions
  <2>1. PICK n \in Nat : said \in [1..n -> Extractions]
    BY <1>1 DEF Job, Report
  <2>. QED  BY <2>1
<1>3. ASSUME NEW i \in DOMAIN said, Mentioned(f, i) PROVE Mentioned(f, i)'
  <2>1. \A name \in said[i].names : <<<<f, i>>, entity(f, name)>> \in mentions'
    BY <1>3 DEF Mentioned
  <2>2. entity(f, "x")' = entity(f, "x")
    BY DEF entity
  <2>. QED  BY <1>2, <1>3, <2>1 DEF Mentioned, entity
<1>4. ASSUME NEW i \in DOMAIN said, Mentioned(f, i), Related(f, i) PROVE Related(f, i)'
  <2>1. SUFFICES ASSUME NEW t \in said[i].triples
                 PROVE  /\ Relation(f, t) \in related' \union outdated'
                        /\ \E type \in RelationTypes :
                             <<entity(f, t[1]), type, entity(f, t[3])>> \in related'
    BY DEF Related, Relation, entity
  <2>2. t[1] \in said[i].names /\ t[3] \in said[i].names
    BY <1>2, ExtractionShape
  <2>3. /\ <<<<f, i>>, entity(f, t[1])>> \in mentions
        /\ <<<<f, i>>, entity(f, t[3])>> \in mentions
    BY <1>4, <2>2 DEF Mentioned
  <2>4. ASSUME NEW r \in related, r[1] = entity(f, t[1]), r[3] = entity(f, t[3]) PROVE Stays(r)
    BY <2>3, <2>4
  <2>5. PICK type \in RelationTypes : <<entity(f, t[1]), type, entity(f, t[3])>> \in related
    BY <1>4 DEF Related
  <2>6. Stays(<<entity(f, t[1]), type, entity(f, t[3])>>)
    BY <2>4, <2>5
  <2>7. Relation(f, t) \in related => Stays(Relation(f, t))
    BY <2>4 DEF Relation
  <2>8. Relation(f, t) \in related' \union outdated'
    BY <1>4, <2>7 DEF Related, Stays, OutdatedStay
  <2>. QED  BY <2>6, <2>8 DEF Stays
<1>5. Written(f)' = Written(f) /\ Written(f) \subseteq DOMAIN said
  BY DEF Written, At_
<1>6. At_(f, "relations") => work[f].i \in DOMAIN said
  BY DEF At_, AtChunk
<1>7. At_(f, "entities") => work[f].i \in Nat
  BY <1>1 DEF Job
<1>. QED  BY <1>3, <1>4, <1>5, <1>6, <1>7 DEF Told, At_

\* nothing is deleted: what the others have told stands, and a step of f that
\* begins and ends no sweep leaves the workspaces swept
LEMMA Grows ==
  ASSUME GraphInv, NEW f \in Files, GraphShapes',
         mentions \subseteq mentions', OutdatedStay, \A r \in related : Stays(r), parts \subseteq parts',
         \A g \in Files : g # f => work'[g] = work[g]
  PROVE  \A g \in Files : g # f => Told(g)'
<1> SUFFICES ASSUME NEW g \in Files, g # f PROVE Told(g)'
  OBVIOUS
<1>. QED  BY ToldStays DEF GraphInv

LEMMA StaysSwept ==
  ASSUME GraphInv, NEW f \in Files, unswept' = unswept, ~At_(f, "sweep"), ~At_(f, "sweep")',
         \A g \in Files : g # f => work'[g] = work[g],
         mentions \subseteq mentions',
         \A e \in entities' : e \in entities \/ \E m \in mentions' : m[2] = e
  PROVE  \A w \in Workspaces : Swept(w)'
<1> SUFFICES ASSUME NEW w \in Workspaces, Settled(w)', NEW e \in entities', e[1] = w
             PROVE  \E m \in mentions' : m[2] = e
  BY DEF Swept
<1>1. Settled(w)
  BY DEF Settled, At_
<1>. QED  BY <1>1 DEF GraphInv, Swept

LEMMA ChunkSaid ==
  ASSUME GraphShapes, NEW f \in Files
  PROVE  /\ work[f].i \in Nat
         /\ \E n \in Nat : DOMAIN work[f].said = 1..n /\ work[f].said \in [1..n -> Extractions]
         /\ \A i \in DOMAIN work[f].said : i \in Nat /\ work[f].said[i] \in Extractions
<1>1. work[f] \in Job
  BY DEF GraphShapes
<1>2. PICK n \in Nat : work[f].said \in [1..n -> Extractions]
  BY <1>1 DEF Job, Report
<1>. QED  BY <1>1, <1>2 DEF Job

LEMMA BeginKeeps ==
  ASSUME GraphInv, NEW f \in Files, NEW isPurge \in BOOLEAN, NEW said \in Report, Begin(f, isPurge, said)
  PROVE  GraphInv'
<1> DEFINE job == [pc |-> "detach", purge |-> isPurge, i |-> 1, said |-> said]
<1>1. /\ AtRest(f) /\ work' = [work EXCEPT ![f] = job]
      /\ UNCHANGED <<files, parts, entities, mentions, related, unswept, outdated>>
  BY DEF Begin
<1>2. job \in Job /\ job.pc = "detach" /\ job.i = 1
  BY DEF Job
<1> HIDE DEF job
<1>3. work' \in [Files -> Job] /\ work'[f] = job /\ \A g \in Files : g # f => work'[g] = work[g]
  BY <1>1, <1>2 DEF GraphInv, GraphShapes
<1>4. GraphShapes' /\ AtHome' /\ AtChunk'
  BY <1>1, <1>2, <1>3 DEF GraphInv, GraphShapes, AtHome, AtChunk
<1>5. Told(f)'
  BY <1>2, <1>3 DEF Told, Written, At_
<1>6. \A g \in Files : g # f => Told(g)'
  BY <1>1, <1>3, <1>4, RelationsStay, Grows DEF GraphInv
<1>7. \A w \in Workspaces : Swept(w)'
  BY <1>1, <1>2, <1>3, StaysSwept DEF At_, AtRest
<1>. QED  BY <1>4, <1>5, <1>6, <1>7 DEF GraphInv

LEMMA DetachKeeps == ASSUME GraphInv, NEW f \in Files, Detach(f) PROVE GraphInv'
<1>1. /\ work[f].pc = "detach" /\ Goto(f, "sweep") /\ UNCHANGED <<entities, related, unswept, outdated>>
      /\ parts' = {p \in parts : p[1] # f} /\ mentions' = {m \in mentions : m[1][1] # f}
  BY DEF Detach, At_
<1>2. GraphShapes /\ AtChunk /\ AtHome
  BY DEF GraphInv
<1>3. /\ work' \in [Files -> Job] /\ work'[f].pc = "sweep" /\ work'[f].i = work[f].i
      /\ \A g \in Files : g # f => work'[g] = work[g]
  BY <1>1, <1>2, GotoOnly
<1>4. GraphShapes'
  BY <1>1, <1>2, <1>3 DEF GraphShapes
<1>5. AtHome' /\ AtChunk'
  BY <1>1, <1>2, <1>3 DEF AtHome, AtChunk
<1>6. Told(f)'
  BY <1>3 DEF Told, Written, At_
<1>7. ASSUME NEW g \in Files, g # f PROVE Told(g)'
  <2>1. Told(g) /\ work'[g] = work[g]
    BY <1>3, <1>7 DEF GraphInv
  <2>2. \A i \in Nat : <<g, i>> \in parts => <<g, i>> \in parts'
    BY <1>1, <1>7
  <2>3. \A m \in mentions : m[1][1] = g => m \in mentions'
    BY <1>1, <1>7
  <2>. QED  BY <1>1, <1>2, <2>1, <2>2, <2>3, RelationsStay, ToldStays
<1>8. ASSUME NEW w \in Workspaces PROVE Swept(w)'
  <2>1. SUFFICES ASSUME Settled(w)', NEW e \in entities, e[1] = w PROVE \E m \in mentions' : m[2] = e
    BY <1>1 DEF Swept
  <2>2. w # Home[f] /\ Settled(w)
    BY <1>1, <1>3, <2>1 DEF Settled, At_
  <2>3. PICK m \in mentions : m[2] = e
    BY <2>1, <2>2 DEF GraphInv, Swept
  <2>4. m[1][1] # f
    BY <1>2, <2>1, <2>2, <2>3 DEF AtHome
  <2>. QED  BY <1>1, <2>3, <2>4
<1>. QED  BY <1>4, <1>5, <1>6, <1>7, <1>8 DEF GraphInv

LEMMA SweepKeeps == ASSUME GraphInv, NEW f \in Files, Sweep(f) PROVE GraphInv'
<1> DEFINE kept == {e \in entities : e[1] # Home[f] \/ \E m \in mentions : m[2] = e}
           pc == IF work[f].purge THEN "gone" ELSE "document"
<1>1. /\ work[f].pc = "sweep" /\ Goto(f, pc) /\ UNCHANGED <<parts, mentions, outdated>>
      /\ entities' = kept /\ related' = {r \in related : r[1] \in kept /\ r[3] \in kept}
      /\ unswept' = unswept \ {Home[f]}
  BY DEF Sweep, At_
<1>2. GraphShapes /\ AtChunk /\ AtHome
  BY DEF GraphInv
<1>3. pc \in {"gone", "document"}
  OBVIOUS
<1> HIDE DEF pc
<1>4. /\ work' \in [Files -> Job] /\ work'[f].pc \in {"gone", "document"} /\ work'[f].i = work[f].i
      /\ \A g \in Files : g # f => work'[g] = work[g]
  BY <1>1, <1>2, <1>3, GotoOnly
<1>5. \A m \in mentions : m[2] \in kept
  BY <1>2 DEF GraphShapes
<1>6. mentions \subseteq parts \X kept /\ kept \subseteq entities
  BY <1>2, <1>5 DEF GraphShapes
<1>7. GraphShapes'
  BY <1>1, <1>2, <1>4, <1>6 DEF GraphShapes
<1>8. AtHome' /\ AtChunk'
  BY <1>1, <1>2, <1>4 DEF AtHome, AtChunk
<1>9. Told(f)'
  BY <1>4 DEF Told, Written, At_
<1>10. ASSUME NEW g \in Files, g # f PROVE Told(g)'
  <2>1. Told(g) /\ work'[g] = work[g]
    BY <1>4, <1>10 DEF GraphInv
  <2>2. OutdatedStay /\ \A r \in related : r[1] \in kept /\ r[3] \in kept => Stays(r)
    BY <1>1, <1>2, RelationsStay
  <2>. QED  BY <1>1, <1>2, <1>5, <2>1, <2>2, ToldStays
<1>11. ASSUME NEW w \in Workspaces PROVE Swept(w)'
  <2>1. SUFFICES ASSUME Settled(w)', NEW e \in kept, e[1] = w PROVE \E m \in mentions : m[2] = e
    BY <1>1 DEF Swept
  <2>2. CASE w = Home[f]
    BY <2>1, <2>2
  <2>3. CASE w # Home[f]
    <3>1. Settled(w)
      BY <1>1, <1>4, <2>1, <2>3 DEF Settled, At_
    <3>. QED  BY <1>6, <2>1, <3>1 DEF GraphInv, Swept
  <2>. QED  BY <2>2, <2>3
<1>. QED  BY <1>7, <1>8, <1>9, <1>10, <1>11 DEF GraphInv

LEMMA MergeDocumentKeeps == ASSUME GraphInv, NEW f \in Files, MergeDocument(f) PROVE GraphInv'
<1> DEFINE pc == IF work[f].said = <<>> THEN "built" ELSE "part"
<1>1. /\ work[f].pc = "document" /\ Goto(f, pc)
      /\ UNCHANGED <<parts, entities, mentions, related, unswept, outdated>>
  BY DEF MergeDocument, At_
<1>2. GraphShapes /\ AtChunk /\ AtHome
  BY DEF GraphInv
<1>3. pc \in {"built", "part"} /\ (pc = "built" => work[f].said = <<>>)
  OBVIOUS
<1> HIDE DEF pc
<1>4. /\ work' \in [Files -> Job] /\ work'[f].pc = pc /\ work'[f].i = work[f].i /\ work'[f].said = work[f].said
      /\ \A g \in Files : g # f => work'[g] = work[g]
  BY <1>1, <1>2, <1>3, GotoOnly
<1>5. work[f].i = 1
  BY <1>1, <1>2 DEF AtChunk
<1>6. pc = "part" => 1 \in DOMAIN work[f].said
  <2>1. PICK n \in Nat : work[f].said \in [1..n -> Extractions]
    BY <1>2, ChunkSaid
  <2>2. n = 0 => work[f].said = <<>>
    BY <2>1
  <2>3. pc = "part" => work[f].said # <<>>
    BY DEF pc
  <2>. QED  BY <2>1, <2>2, <2>3
<1>7. GraphShapes' /\ AtHome' /\ AtChunk'
  BY <1>1, <1>2, <1>3, <1>4, <1>5, <1>6 DEF GraphShapes, AtHome, AtChunk
<1>8. Told(f)'
  <2>1. \A i \in DOMAIN work[f].said : i \in Nat /\ (pc = "part" => i >= 1)
    <3>1. PICK n \in Nat : work[f].said \in [1..n -> Extractions]
      BY <1>2, ChunkSaid
    <3>. QED  BY <3>1
  <2>2. Written(f)' = {}
    <3>1. CASE pc = "built"
      BY <1>3, <1>4, <3>1 DEF Written, At_
    <3>2. CASE pc = "part"
      BY <1>4, <1>5, <2>1, <3>2 DEF Written, At_
    <3>. QED  BY <1>3, <3>1, <3>2
  <2>. QED  BY <1>3, <1>4, <2>2 DEF Told, At_
<1>9. \A g \in Files : g # f => Told(g)'
  BY <1>1, <1>2, <1>4, <1>7, RelationsStay, Grows
<1>10. \A w \in Workspaces : Swept(w)'
  BY <1>1, <1>3, <1>4, StaysSwept DEF At_
<1>. QED  BY <1>7, <1>8, <1>9, <1>10 DEF GraphInv

\* a step that writes: the document has told what it had told, and the rest
\* of the invariant
LEMMA WriteKeeps ==
  ASSUME GraphInv, NEW f \in Files, GraphShapes', AtChunk', AtHome', Told(f)',
         unswept' = unswept, ~At_(f, "sweep"), ~At_(f, "sweep")',
         parts \subseteq parts', mentions \subseteq mentions', OutdatedStay, \A r \in related : Stays(r),
         \A g \in Files : g # f => work'[g] = work[g],
         \A e \in entities' : e \in entities \/ \E m \in mentions' : m[2] = e
  PROVE  GraphInv'
BY Grows, StaysSwept DEF GraphInv

LEMMA MergePartKeeps == ASSUME GraphInv, NEW f \in Files, MergePart(f) PROVE GraphInv'
<1> DEFINE part == <<f, work[f].i>>
<1>1. /\ work[f].pc = "part" /\ Goto(f, "entities") /\ parts' = parts \union {part}
      /\ UNCHANGED <<entities, mentions, related, unswept, outdated>>
  BY DEF MergePart, At_
<1>2. GraphShapes /\ AtChunk /\ AtHome /\ Told(f)
  BY DEF GraphInv
<1>3. /\ work' \in [Files -> Job] /\ work'[f].pc = "entities"
      /\ work'[f].i = work[f].i /\ work'[f].said = work[f].said
      /\ \A g \in Files : g # f => work'[g] = work[g]
  BY <1>1, <1>2, GotoOnly
<1>4. part \in Files \X Nat
  BY <1>2, ChunkSaid
<1>5. GraphShapes' /\ AtHome' /\ AtChunk'
  BY <1>1, <1>2, <1>3, <1>4 DEF GraphShapes, AtHome, AtChunk
<1>6. Written(f)' = Written(f)
  BY <1>1, <1>3 DEF Written, At_
<1>7. Told(f)'
  <2>1. ASSUME NEW i \in Written(f) PROVE Mentioned(f, i)' /\ Related(f, i)'
    <3>1. Mentioned(f, i) /\ Related(f, i)
      BY <1>2 DEF Told
    <3>. QED  BY <1>1, <1>3, <3>1 DEF Mentioned, Related, Relation, entity
  <2>. QED  BY <1>1, <1>3, <1>6, <2>1 DEF Told, At_
<1>. QED  BY <1>1, <1>2, <1>3, <1>5, <1>7, RelationsStay, WriteKeeps DEF At_

LEMMA WriteEntitiesKeeps == ASSUME GraphInv, NEW f \in Files, WriteEntities(f) PROVE GraphInv'
<1> DEFINE i == work[f].i
           said == work[f].said
           named == {entity(f, name) : name \in said[i].names}
<1>1. /\ work[f].pc = "entities" /\ Goto(f, "relations")
      /\ entities' = entities \union named
      /\ mentions' = mentions \union ({<<f, i>>} \X named)
      /\ UNCHANGED <<parts, related, unswept, outdated>>
  BY DEF WriteEntities, At_, Said
<1>2. GraphShapes /\ AtChunk /\ AtHome /\ Told(f)
  BY DEF GraphInv
<1>3. /\ work' \in [Files -> Job] /\ work'[f].pc = "relations"
      /\ work'[f].i = i /\ work'[f].said = said
      /\ \A g \in Files : g # f => work'[g] = work[g]
  BY <1>1, <1>2, GotoOnly
<1>4. i \in DOMAIN said /\ said[i] \in Extractions /\ <<f, i>> \in parts
  BY <1>1, <1>2, ChunkSaid DEF AtChunk, Told, At_
<1>5. said[i].names \subseteq Names
  BY <1>4, ExtractionShape
<1>6. \A e \in named : e \in Entity /\ e[1] = Home[f]
  BY <1>5 DEF entity, Entity
<1>7. \A name \in said[i].names : entity(f, name) \in named
  OBVIOUS
<1> HIDE DEF named
<1>8. GraphShapes'
  BY <1>1, <1>2, <1>3, <1>4, <1>6 DEF GraphShapes
<1>9. AtHome'
  BY <1>1, <1>2, <1>6 DEF AtHome
<1>10. AtChunk'
  BY <1>1, <1>2, <1>3 DEF AtChunk
<1>11. Written(f)' = Written(f)
  BY <1>1, <1>3 DEF Written, At_
<1>12. Told(f)'
  <2>1. ASSUME NEW j \in Written(f) PROVE Mentioned(f, j)' /\ Related(f, j)'
    <3>1. Mentioned(f, j) /\ Related(f, j)
      BY <1>2 DEF Told
    <3>. QED  BY <1>1, <1>3, <3>1 DEF Mentioned, Related, Relation, entity
  <2>2. Mentioned(f, i)'
    BY <1>1, <1>3, <1>4, <1>7 DEF Mentioned, entity
  <2>. QED  BY <1>3, <1>11, <2>1, <2>2 DEF Told, At_
<1>13. \A e \in entities' : e \in entities \/ \E m \in mentions' : m[2] = e
  <2>1. ASSUME NEW e \in named PROVE \E m \in mentions' : m[2] = e
    <3>1. <<<<f, i>>, e>> \in mentions'
      BY <1>1
    <3>. QED  BY <3>1
  <2>. QED  BY <1>1, <2>1
<1>. QED  BY <1>1, <1>2, <1>3, <1>8, <1>9, <1>10, <1>12, <1>13, RelationsStay, WriteKeeps DEF At_

LEMMA WriteRelationsKeeps == ASSUME GraphInv, NEW f \in Files, WriteRelations(f) PROVE GraphInv'
<1>0. PICK i : i = work[f].i
  OBVIOUS
<1> DEFINE said == work[f].said
           stated == {Relation(f, t) : t \in said[i].triples}
           new == {r \in stated : r[1] \in entities /\ r[3] \in entities}
           pc == IF i = Cardinality(DOMAIN said) THEN "built" ELSE "part"
           job == [work[f] EXCEPT !.i = i + 1, !.pc = pc]
<1>1. /\ work[f].pc = "relations" /\ work' = [work EXCEPT ![f] = job]
      /\ related' = {r \in related : \A q \in new : <<q[1], q[3]>> # <<r[1], r[3]>>} \union new
      /\ outdated' = (outdated \union related) \ related'
      /\ UNCHANGED <<parts, entities, mentions, unswept>>
  BY <1>0 DEF WriteRelations, At_, Said, Relation
<1>2. GraphShapes /\ AtChunk /\ AtHome /\ Told(f)
  BY DEF GraphInv
<1>3. PICK n \in Nat : DOMAIN said = 1..n /\ said \in [1..n -> Extractions]
  BY <1>2, ChunkSaid
<1>4. Cardinality(DOMAIN said) = n
  BY <1>3, FS_Interval
<1>5. work[f] \in Job /\ pc \in {"built", "part"} /\ (pc = "built" <=> i = n)
  BY <1>2, <1>4 DEF GraphShapes
<1>6. i \in 1..n /\ said[i] \in Extractions
  BY <1>0, <1>1, <1>2, <1>3 DEF AtChunk
<1> HIDE DEF pc
<1>7. job \in Job /\ job.pc = pc /\ job.i = i + 1 /\ job.said = said
  <2> DEFINE next == [work[f] EXCEPT !.i = i + 1]
  <2>1. next \in Job /\ next.i = i + 1 /\ next.said = said
    BY <1>5, <1>6 DEF Job
  <2>2. job = [next EXCEPT !.pc = pc]
    OBVIOUS
  <2> HIDE DEF next, job
  <2>. QED  BY <1>5, <2>1, <2>2 DEF Job
<1> HIDE DEF job
<1>8. /\ work' \in [Files -> Job] /\ work'[f].pc = pc /\ work'[f].i = i + 1 /\ work'[f].said = said
      /\ \A g \in Files : g # f => work'[g] = work[g]
  BY <1>1, <1>2, <1>7 DEF GraphShapes
<1>9. Mentioned(f, i)
  BY <1>0, <1>1, <1>2 DEF Told, At_
<1>10. new = stated /\ stated \subseteq entities \X RelationTypes \X entities
  <2>1. ASSUME NEW t \in said[i].triples
        PROVE  /\ entity(f, t[1]) \in entities /\ entity(f, t[3]) \in entities
               /\ t[2] \in RelationTypes
    <3>1. t[1] \in said[i].names /\ t[3] \in said[i].names /\ t[2] \in RelationTypes
      BY <1>6, <2>1, ExtractionShape
    <3>2. /\ <<<<f, i>>, entity(f, t[1])>> \in mentions
          /\ <<<<f, i>>, entity(f, t[3])>> \in mentions
      BY <1>9, <3>1 DEF Mentioned
    <3>. QED  BY <1>2, <3>1, <3>2 DEF GraphShapes
  <2>. QED  BY <2>1 DEF Relation
<1>11. \A r \in stated : r[1][1] = r[3][1]
  BY DEF Relation, entity
<1>12. /\ related' = {r \in related : \A q \in stated : <<q[1], q[3]>> # <<r[1], r[3]>>} \union stated
       /\ outdated' = (outdated \union related) \ related'
  BY <1>1, <1>10
<1> HIDE DEF new, stated
<1>19. OutdatedStay /\ \A r \in related : Stays(r)
  <2>1. OutdatedStay /\ \A r \in related : r \in related' \union outdated'
    BY <1>12 DEF OutdatedStay
  <2>2. \A r \in related \union stated : r = <<r[1], r[2], r[3]>> /\ r[2] \in RelationTypes
    BY <1>2, <1>10 DEF GraphShapes
  <2>3. ASSUME NEW r \in related PROVE \E type \in RelationTypes : <<r[1], type, r[3]>> \in related'
    <3>1. CASE r \in related'
      BY <2>2, <3>1
    <3>2. CASE r \notin related'
      <4>1. PICK q \in stated : q[1] = r[1] /\ q[3] = r[3]
        BY <1>12, <3>2
      <4>. QED  BY <1>12, <2>2, <4>1
    <3>. QED  BY <3>1, <3>2
  <2>. QED  BY <2>1, <2>3 DEF Stays
<1>13. GraphShapes' /\ AtHome'
  BY <1>1, <1>2, <1>8, <1>10, <1>11, <1>12 DEF GraphShapes, AtHome
<1>14. AtChunk'
  BY <1>2, <1>3, <1>5, <1>6, <1>8 DEF AtChunk
<1>15. Written(f)' = Written(f) \union {i}
  BY <1>0, <1>1, <1>3, <1>5, <1>6, <1>8 DEF Written, At_
<1>16. Related(f, i)'
  <2>1. ASSUME NEW t \in said[i].triples PROVE Relation(f, t) \in related' /\ t[2] \in RelationTypes
    <3>1. Relation(f, t) \in stated
      BY DEF stated
    <3>. QED  BY <1>6, <1>12, <3>1, ExtractionShape
  <2>. QED  BY <1>8, <2>1 DEF Related, Relation, entity
<1>17. Told(f)'
  <2>1. ASSUME NEW j, Mentioned(f, j) PROVE Mentioned(f, j)'
    BY <1>1, <1>8, <2>1 DEF Mentioned, entity
  <2>2. ASSUME NEW j \in Written(f), Related(f, j) PROVE Related(f, j)'
    <3>1. ASSUME NEW t \in said[j].triples
          PROVE  /\ Relation(f, t) \in related' \union outdated'
                 /\ \E type \in RelationTypes :
                      <<entity(f, t[1]), type, entity(f, t[3])>> \in related'
      <4>1. PICK type \in RelationTypes : <<entity(f, t[1]), type, entity(f, t[3])>> \in related
        BY <2>2, <3>1 DEF Related
      <4>2. Stays(<<entity(f, t[1]), type, entity(f, t[3])>>)
        BY <1>19, <4>1
      <4>3. Relation(f, t) \in related \union outdated
        BY <2>2, <3>1 DEF Related
      <4>. QED  BY <1>12, <4>2, <4>3 DEF Stays
    <3>. QED  BY <1>8, <3>1 DEF Related, Relation, entity
  <2>3. \A j \in Written(f) : Mentioned(f, j) /\ Related(f, j)
    BY <1>2 DEF Told
  <2>. QED  BY <1>5, <1>8, <1>9, <1>15, <1>16, <2>1, <2>2, <2>3 DEF Told, At_
<1>. QED  BY <1>1, <1>5, <1>8, <1>13, <1>14, <1>17, <1>19, WriteKeeps DEF At_

LEMMA BrokenKeeps == ASSUME GraphInv, NEW f \in Files, Broken(f) PROVE GraphInv'
<1> DEFINE pc == IF work[f].purge THEN "gone" ELSE "failed"
<1>1. /\ Goto(f, pc) /\ UNCHANGED <<parts, entities, mentions, related, outdated>>
      /\ unswept' = IF At_(f, "sweep") THEN unswept \union {Home[f]} ELSE unswept
  BY DEF Broken
<1>2. GraphShapes /\ AtChunk /\ AtHome
  BY DEF GraphInv
<1>3. pc \in {"gone", "failed"}
  OBVIOUS
<1> HIDE DEF pc
<1>4. /\ work' \in [Files -> Job] /\ work'[f].pc \in {"gone", "failed"}
      /\ \A g \in Files : g # f => work'[g] = work[g]
  BY <1>1, <1>2, <1>3, GotoOnly
<1>5. GraphShapes' /\ AtHome' /\ AtChunk'
  BY <1>1, <1>2, <1>4 DEF GraphShapes, AtHome, AtChunk
<1>6. Told(f)'
  BY <1>4 DEF Told, Written, At_
<1>7. \A g \in Files : g # f => Told(g)'
  BY <1>1, <1>2, <1>4, <1>5, RelationsStay, Grows
<1>8. ASSUME NEW w \in Workspaces PROVE Swept(w)'
  <2>1. SUFFICES ASSUME Settled(w)' PROVE Settled(w)
    BY <1>1 DEF GraphInv, Swept
  <2>. QED  BY <1>1, <1>4, <2>1 DEF Settled, At_
<1>. QED  BY <1>5, <1>6, <1>7, <1>8 DEF GraphInv

LEMMA GraphStep == GraphInv /\ [GraphNext]_graphVars => GraphInv'
<1> SUFFICES ASSUME GraphInv, [GraphNext]_graphVars PROVE GraphInv'
  OBVIOUS
<1>1. CASE UNCHANGED graphVars
  BY <1>1 DEF graphVars, GraphInv, GraphShapes, AtChunk, AtHome, Told, Mentioned, Related, Relation, Written,
              At_, entity, Swept, Settled
<1>2. ASSUME NEW f \in Files, buildGraph(f) \/ purge(f) PROVE GraphInv'
  <2>1. CASE buildGraph(f)
    <3>1. PICK n \in 0..MaxParts : \E said \in [1..n -> Extractions] : Begin(f, FALSE, said)
      BY <2>1 DEF buildGraph
    <3>2. PICK said \in [1..n -> Extractions] : Begin(f, FALSE, said)
      BY <3>1
    <3>3. said \in Report
      BY <3>1 DEF Report
    <3>. QED  BY <3>2, <3>3, BeginKeeps
  <2>2. CASE purge(f)
    <3>1. <<>> \in [1..0 -> Extractions]
      OBVIOUS
    <3>2. <<>> \in Report
      BY <3>1 DEF Report
    <3>. QED  BY <2>2, <3>2, BeginKeeps DEF purge
  <2>. QED  BY <1>2, <2>1, <2>2
<1>. QED
  BY <1>1, <1>2, DetachKeeps, SweepKeeps, MergeDocumentKeeps, MergePartKeeps, WriteEntitiesKeeps,
     WriteRelationsKeeps, BrokenKeeps DEF GraphNext
-----------------------------------------------------------------------------
(* What is reasoned with starts at the seeds.  The entities reached are    *)
(* defined by recursion on the hops: there is such a function.             *)

LEMMA Induction ==
  ASSUME NEW S, 0 \in S, \A n \in Nat : n \in S => n + 1 \in S
  PROVE  Nat \subseteq S
<1> DEFINE others == {n \in Nat : n \notin S}
<1>1. SUFFICES ASSUME others # {} PROVE FALSE
  OBVIOUS
<1>2. others \subseteq Nat
  OBVIOUS
<1> HIDE DEF others
<1>3. PICK n \in others : \A m \in others : ~ (<<m, n>> \in OpToRel(<, Nat))
  BY <1>1, <1>2, NatLessThanWellFounded, WFMin
<1>4. n \in Nat /\ n \notin S
  BY DEF others
<1>5. n - 1 \in Nat /\ n - 1 < n /\ (n - 1) + 1 = n
  BY <1>4
<1>6. n - 1 \in others
  BY <1>4, <1>5 DEF others
<1>7. <<n - 1, n>> \in OpToRel(<, Nat)
  BY <1>4, <1>5, Zenon DEF OpToRel
<1>. QED  BY <1>3, <1>6, <1>7

LEMMA SeedsReached ==
  ASSUME NEW seeds, NEW ws, NEW types
  PROVE  entities \intersect (ws \X seeds) \subseteq reached(seeds, ws, types)
<1> DEFINE start == entities \intersect (ws \X seeds)
           Onward(es) == es \union Beside(es, ws, types)
           Upto(n, g) == g = [h \in 0..n |-> IF h = 0 THEN start ELSE Onward(g[h - 1])]
           built == {n \in Nat : \E g : Upto(n, g)}
           reach[h \in 0..MaxHops] ==
             IF h = 0 THEN entities \intersect (ws \X seeds)
             ELSE reach[h - 1] \union Beside(reach[h - 1], ws, types)
<1>1. 0 \in built
  <2> DEFINE g == [h \in 0..0 |-> start]
  <2>1. Upto(0, g)
    OBVIOUS
  <2>. QED  BY <2>1
<1>2. ASSUME NEW n \in Nat, n \in built PROVE n + 1 \in built
  <2>1. PICK g : Upto(n, g)
    BY <1>2
  <2> HIDE DEF start, Onward
  <2> DEFINE next == [h \in 0..(n + 1) |-> IF h = n + 1 THEN Onward(g[n]) ELSE g[h]]
  <2>2. ASSUME NEW h \in 0..(n + 1)
        PROVE  next[h] = IF h = 0 THEN start ELSE Onward(next[h - 1])
    <3>1. CASE h = n + 1
      BY <3>1
    <3>2. CASE h # n + 1
      <4>1. h \in 0..n /\ next[h] = g[h]
        BY <3>2
      <4>2. h # 0 => h - 1 \in 0..n /\ next[h - 1] = g[h - 1]
        BY <4>1
      <4>. QED  BY <2>1, <4>1, <4>2
    <3>. QED  BY <3>1, <3>2
  <2>3. Upto(n + 1, next)
    BY <2>2
  <2> HIDE DEF next, Upto
  <2>. QED  BY <2>3
<1>3. MaxHops \in built
  BY <1>1, <1>2, Induction
<1>4. PICK g : Upto(MaxHops, g)
  BY <1>3
<1>5. reach = [h \in 0..MaxHops |-> IF h = 0 THEN start ELSE Onward(reach[h - 1])]
  BY <1>4
<1> HIDE DEF reach
<1>6. reach[0] = start /\ \A h \in 1..MaxHops : reach[h - 1] \subseteq reach[h]
  BY <1>5
<1> DEFINE above == {n \in Nat : n <= MaxHops => start \subseteq reach[n]}
<1>7. 0 \in above
  BY <1>6
<1>8. ASSUME NEW n \in Nat, n \in above PROVE n + 1 \in above
  <2>1. n + 1 <= MaxHops => n <= MaxHops /\ n + 1 \in 1..MaxHops /\ (n + 1) - 1 = n
    OBVIOUS
  <2>. QED  BY <1>6, <1>8, <2>1
<1>9. Nat \subseteq above
  <2> HIDE DEF above
  <2>. QED  BY <1>7, <1>8, Induction
<1>10. start \subseteq reach[MaxHops - 1]
  BY <1>9
<1>. QED  BY <1>10 DEF reached, reach
-----------------------------------------------------------------------------
(* What the graph tells *)

\* a chunk that is written is found from its entities, and from itself
LEMMA ToldOfChunk ==
  ASSUME GraphInv, NEW ws \in SUBSET Workspaces, NEW f \in Files, Home[f] \in ws,
         NEW i \in Written(f), NEW name \in work[f].said[i].names, NEW asked \in SUBSET RelationTypes
  PROVE  LET said  == work[f].said[i]
             named == graphReason({name}, {}, ws, asked)
             hit   == graphReason({}, {<<f, i>>}, ws, asked) IN
         /\ <<f, i>> \in named.parts /\ <<f, i>> \in hit.parts
         /\ <<f, i>> \in searchGraph(Home[f], name).parts
         /\ \A t \in Standing(f, i) : t[2] \in relFilter(asked) =>
              t \in hit.triples /\ (name \in {t[1], t[3]} => t \in named.triples)
         /\ \A t \in said.triples : asked = {} =>
              \E type \in RelationTypes : <<t[1], type, t[3]>> \in hit.triples
<1> DEFINE said == work[f].said[i]
           part == <<f, i>>
           types == relFilter(asked)
           chunkNames == entityNamesByChunkIds({part}, ws)
<1>1. GraphShapes /\ AtHome /\ Mentioned(f, i) /\ Related(f, i)
  BY DEF GraphInv, Told
<1>2. said \in Extractions
  <2>1. i \in DOMAIN work[f].said
    BY DEF Written
  <2>. QED  BY <1>1, <2>1, ChunkSaid
<1>3. \A t \in said.triples : /\ t = <<t[1], t[2], t[3]>> /\ t[2] \in RelationTypes
                              /\ t[1] \in said.names /\ t[3] \in said.names
  BY <1>2, ExtractionShape
<1>4. \A n \in said.names : /\ <<part, <<Home[f], n>>>> \in mentions
                            /\ <<Home[f], n>> \in entities
  <2>1. \A n \in said.names : <<part, entity(f, n)>> \in mentions
    BY <1>1 DEF Mentioned
  <2>. QED  BY <1>1, <2>1 DEF entity, GraphShapes
\* a relation of two entities of the chunk is reasoned with from either
<1>5. ASSUME NEW seeds, NEW p \in said.names, NEW q \in said.names, p \in seeds \/ q \in seeds,
             NEW type \in types, <<entity(f, p), type, entity(f, q)>> \in related
      PROVE  <<p, type, q>> \in multiHop(seeds, ws, types)
  <2> DEFINE r == <<<<Home[f], p>>, type, <<Home[f], q>>>>
  <2>1. \A n \in said.names : n \in seeds => <<Home[f], n>> \in reached(seeds, ws, types)
    <3>1. \A n \in said.names : n \in seeds => <<Home[f], n>> \in entities \intersect (ws \X seeds)
      BY <1>4
    <3>. QED  BY <3>1, SeedsReached
  <2>2. r \in Inside(ws, types)
    BY <1>5 DEF Inside, entity
  <2>3. {r[1], r[3]} \intersect reached(seeds, ws, types) # {}
    BY <1>5, <2>1
  <2>4. <<p, type, q>> = <<r[1][2], r[2], r[3][2]>>
    OBVIOUS
  <2> HIDE DEF r
  <2>. QED  BY <2>2, <2>3, <2>4 DEF multiHop
<1>7. ASSUME NEW names, name \in names PROVE part \in chunkIdsByEntityNames(names, ws)
  <2>1. <<part, <<Home[f], name>>>> \in mentions
    BY <1>4
  <2>. QED  BY <1>7, <2>1 DEF chunkIdsByEntityNames
<1>8. resolveEntityNames({name}, ws) = {name} /\ resolveEntityNames({}, ws) = {}
  BY <1>4 DEF resolveEntityNames
<1>9. said.names \subseteq chunkNames
  <2>1. ASSUME NEW n \in said.names PROVE n \in chunkNames
    <3>1. <<part, <<Home[f], n>>>> \in mentions
      BY <1>4
    <3>. QED  BY <3>1 DEF entityNamesByChunkIds
  <2>. QED  BY <2>1
<1> HIDE DEF chunkNames
<1>10. /\ graphReason({name}, {}, ws, asked).triples = multiHop({name}, ws, types)
       /\ part \in graphReason({name}, {}, ws, asked).parts
  BY <1>7, <1>8 DEF graphReason
<1>11. /\ graphReason({}, {part}, ws, asked).triples = multiHop(chunkNames, ws, types)
       /\ part \in graphReason({}, {part}, ws, asked).parts
  BY <1>7, <1>8, <1>9 DEF graphReason, chunkNames
<1>12. part \in searchGraph(Home[f], name).parts
  <2>1. <<part, <<Home[f], name>>>> \in mentions /\ part \in parts
    BY <1>1, <1>4 DEF Mentioned
  <2>. QED  BY <2>1 DEF searchGraph
<1> HIDE DEF types
<1>13. ASSUME NEW t \in Standing(f, i), t[2] \in types, NEW seeds, t[1] \in seeds \/ t[3] \in seeds
       PROVE  t \in multiHop(seeds, ws, types)
  <2>1. t \in said.triples /\ Relation(f, t) \in related
    BY <1>1 DEF Standing, Related, Relation
  <2>2. <<t[1], t[2], t[3]>> \in multiHop(seeds, ws, types)
    BY <1>3, <1>5, <1>13, <2>1 DEF Relation
  <2>. QED  BY <1>3, <2>1, <2>2
<1>14. ASSUME NEW t \in said.triples, asked = {}
       PROVE  \E type \in RelationTypes : <<t[1], type, t[3]>> \in multiHop(chunkNames, ws, types)
  <2>1. types = RelationTypes
    BY <1>14 DEF types, relFilter
  <2>2. PICK type \in RelationTypes : <<entity(f, t[1]), type, entity(f, t[3])>> \in related
    BY <1>1, <1>14 DEF Related
  <2>. QED  BY <1>3, <1>5, <1>9, <2>1, <2>2
<1>15. \A t \in Standing(f, i) : t[1] \in chunkNames
  BY <1>3, <1>9 DEF Standing
<1>16. ASSUME NEW t \in Standing(f, i), t[2] \in types
       PROVE  /\ t \in multiHop(chunkNames, ws, types)
              /\ name \in {t[1], t[3]} => t \in multiHop({name}, ws, types)
  BY <1>13, <1>15, <1>16
<1>. QED  BY <1>10, <1>11, <1>12, <1>14, <1>16 DEF types

\* what is listed of a workspace is what its chunks mention
LEMMA ToldOfWorkspace ==
  ASSUME GraphInv, NEW w \in Workspaces
  PROVE  /\ Settled(w) => listNodes(w) = {m[2][2] : m \in {k \in mentions : Home[k[1][1]] = w}}
         /\ \A r \in listEdges(w) : r[1] \in listNodes(w) /\ r[3] \in listNodes(w)
         /\ \A p \in graphReason(Names, parts, {w}, {}).parts : Home[p[1]] = w
<1>1. GraphShapes /\ AtHome /\ Swept(w)
  BY DEF GraphInv
<1>2. ASSUME Settled(w) PROVE listNodes(w) = {m[2][2] : m \in {k \in mentions : Home[k[1][1]] = w}}
  <2>1. ASSUME NEW e \in entities, e[1] = w PROVE \E m \in mentions : m[2] = e /\ Home[m[1][1]] = w
    BY <1>1, <1>2, <2>1 DEF Swept, AtHome
  <2>2. ASSUME NEW m \in mentions, Home[m[1][1]] = w PROVE m[2] \in entities /\ m[2][1] = w
    BY <1>1, <2>2 DEF AtHome, GraphShapes
  <2>. QED  BY <2>1, <2>2 DEF listNodes
<1>3. \A r \in listEdges(w) : r[1] \in listNodes(w) /\ r[3] \in listNodes(w)
  <2>1. ASSUME NEW r \in related, r[1][1] = w, r[3][1] = w
        PROVE  r[1][2] \in listNodes(w) /\ r[3][2] \in listNodes(w)
    <3>1. r[1] \in entities /\ r[3] \in entities
      BY <1>1 DEF GraphShapes
    <3>. QED  BY <2>1, <3>1 DEF listNodes
  <2>. QED  BY <2>1 DEF listEdges
<1>4. ASSUME NEW p \in graphReason(Names, parts, {w}, {}).parts PROVE Home[p[1]] = w
  <2>1. \E names : graphReason(Names, parts, {w}, {}).parts = chunkIdsByEntityNames(names, {w})
    BY DEF graphReason
  <2>. QED  BY <1>4, <2>1 DEF chunkIdsByEntityNames
<1>. QED  BY <1>2, <1>3, <1>4

\* What the documents of a workspace say is what its graph tells, for any
\* documents, chunks, names and number of hops, and whatever builds,
\* deletions and broken statements run side by side.
THEOREM GraphTells == GraphSpec => []GraphFollowsFiles
<1>1. GraphInv => GraphFollowsFiles
  BY ToldOfChunk, ToldOfWorkspace DEF GraphFollowsFiles
<1>. QED  BY <1>1, GraphStart, GraphStep, PTL DEF GraphSpec
=============================================================================
