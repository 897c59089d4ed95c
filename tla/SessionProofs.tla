--------------------------- MODULE SessionProofs ---------------------------
(***************************************************************************)
(* Proofs about AuthSession: disabling an account ends its sessions, and   *)
(* requests that race to refresh leave the browser a token that works, for *)
(* any number of requests, administrators' calls, tokens and crashes.      *)
(***************************************************************************)
EXTENDS AuthSession, TLAPS

USE SessionAssumption DEF browserVars
-----------------------------------------------------------------------------
(* as much of the types as the argument needs *)

Request == [pc : {"idle"} \union Guarding \union Refreshing \union LoggingIn,
            pair : Nat, new : Nat, retry : BOOLEAN, seen : Row]
Call == [pc : {"new", "save", "keys", "revoke", "clear", "over", "cut"},
         op : AllOps, seen : Row, keys : SUBSET Nat]

Shapes ==
  /\ row \in Row
  /\ cached \subseteq Row
  /\ issued \in Nat /\ store \in Nat
  /\ live \subseteq Nat
  /\ req \in [Requests -> Request]
  /\ act \in [1..Acts -> Call]
  /\ \A a \in 1..Acts : act[a].pc = "save" => act[a].op # "logoutAll"

\* whoever is about to get tokens has read a row that was not disabled
SeenEnabled ==
  \A b \in Requests : req[b].pc \in {"rdel", "rset", "lset"} => ~req[b].seen.disabled

\* a call that is still to revoke what is alive, or never will
Revoking(a) ==
  \/ act[a].pc \in {"keys", "cut"}
  \/ act[a].pc = "revoke" /\ live \ act[a].keys \subseteq excused

Covered == row.disabled /\ ~lost => live \subseteq excused \/ \E a \in 1..Acts : Revoking(a)

SessionInv == Shapes /\ SeenEnabled /\ Covered

LEMMA RestTypes == New \in Row /\ Idle \in Request /\ Rest \in Call
BY DEF New, Row, Idle, Request, Rest, Call, AllOps

LEMMA SessionInit == Init => SessionInv
<1> SUFFICES ASSUME Init PROVE SessionInv
  OBVIOUS
<1>1. row \in Row /\ row.disabled = FALSE
  <2>1. row = New \/ row = [New EXCEPT !.status = "active"]
    BY DEF Init
  <2>2. New \in Row /\ [New EXCEPT !.status = "active"] \in Row /\ New.disabled = FALSE
        /\ [New EXCEPT !.status = "active"].disabled = FALSE
    BY DEF New, Row
  <2> QED
    BY <2>1, <2>2
<1>2. Shapes
  <2>1. issued \in Nat /\ live \subseteq Nat /\ store \in Nat /\ cached = {}
    BY DEF Init
  <2>2. req = [b \in Requests |-> Idle] /\ act = [a \in 1..Acts |-> Rest]
    BY DEF Init
  <2>3. Rest.pc = "new"
    BY DEF Rest
  <2> QED
    BY <1>1, <2>1, <2>2, <2>3, RestTypes DEF Shapes
<1>3. SeenEnabled /\ Covered
  BY <1>1 DEF Init, SeenEnabled, Covered, Idle
<1> QED
  BY <1>2, <1>3 DEF SessionInv
-----------------------------------------------------------------------------
(* the browser's requests: they never leave more alive than is excused *)

\* a request moves on, and no token is issued
LEMMA RequestMoves ==
  ASSUME SessionInv, NEW b \in Requests, NEW r \in Request,
         req' = [req EXCEPT ![b] = r],
         r.pc \in {"rdel", "rset", "lset"} => ~r.seen.disabled,
         live' \subseteq live, cached' \subseteq Row, store' \in Nat,
         UNCHANGED <<row, issued, act, lost, excused>>
  PROVE  SessionInv'
<1> USE DEF SessionInv
<1>1. Shapes'
  BY DEF Shapes
<1>2. SeenEnabled'
  BY DEF SeenEnabled, Shapes
<1>3. Covered'
  <2>1. \A a \in 1..Acts : Revoking(a) => Revoking(a)'
    BY DEF Revoking
  <2> QED
    BY <2>1 DEF Covered
<1> QED
  BY <1>1, <1>2, <1>3

LEMMA VerdictType ==
  ASSUME NEW r \in Request, NEW state
  PROVE  /\ Unauthorized(r) \in Request /\ Unauthorized(r).pc \in {"idle", "rget"}
         /\ Verdict(r, state) \in Request /\ Verdict(r, state).pc \in {"idle", "rget"}
<1>1. Unauthorized(r) \in Request /\ Unauthorized(r).pc \in {"idle", "rget"}
  BY RestTypes DEF Unauthorized, Request, Refreshing, Idle
<1> QED
  BY <1>1, RestTypes DEF Verdict, Idle

LEMMA GuardedType ==
  ASSUME NEW r \in Request
  PROVE  Guarded(r) \in Request /\ Guarded(r).pc \in {"idle", "rget", "row"}
<1>1. [r EXCEPT !.pc = "row"] \in Request /\ [r EXCEPT !.pc = "row"].pc = "row"
  BY DEF Request, Guarding
<1> QED
  BY <1>1, VerdictType DEF Guarded

LEMMA RequestSteps ==
  ASSUME SessionInv, NEW b \in Requests,
         \/ Start(b) \/ LoginRow(b) \/ Again(b) \/ GuardRow(b) \/ GuardFill(b)
         \/ RefreshGet(b) \/ RefreshRow(b) \/ RefreshDel(b)
         \/ RefreshEnd(b) \/ RefreshBreaks(b) \/ RefreshFail(b) \/ LoginEnd(b)
  PROVE  SessionInv'
<1> USE DEF redisVars, ghosts
<1>0. /\ row \in Row /\ req[b] \in Request /\ store \in Nat /\ cached \subseteq Row
      /\ req[b].pc = "rdel" => ~req[b].seen.disabled
  BY DEF SessionInv, Shapes, SeenEnabled
<1>1. ASSUME NEW p \in {"idle", "rget", "row", "fill", "rrow", "rfail", "rend", "again"},
             NEW r \in Request, r.pc = p, req' = [req EXCEPT ![b] = r],
             live' \subseteq live, cached' \subseteq Row, store' \in Nat,
             UNCHANGED <<row, issued, act, lost, excused>>
      PROVE  SessionInv'
  BY <1>1, RequestMoves
<1>2. CASE Start(b)
  <2>1. [Idle EXCEPT !.pair = store] \in Request
    BY <1>0, RestTypes DEF Request
  <2> QED
    BY <1>0, <1>1, <1>2, <2>1, GuardedType DEF Start
<1>3. CASE LoginRow(b)
  <2>1. /\ [req[b] EXCEPT !.pc = "lset", !.seen = row] \in Request
        /\ [req[b] EXCEPT !.pc = "lset", !.seen = row].seen = row
    BY <1>0 DEF Request, LoggingIn
  <2>2. req' = [req EXCEPT ![b] = [req[b] EXCEPT !.pc = "lset", !.seen = row]]
    BY <1>3 DEF LoginRow
  <2>3. ~row.disabled
    BY <1>3 DEF LoginRow, Usable
  <2> QED
    BY <1>0, <1>3, <2>1, <2>2, <2>3, RequestMoves DEF LoginRow
<1>4. CASE Again(b)
  BY <1>0, <1>1, <1>4, GuardedType DEF Again
<1>5. CASE GuardRow(b)
  <2>1. /\ [req[b] EXCEPT !.pc = "fill", !.seen = row] \in Request
        /\ [req[b] EXCEPT !.pc = "fill", !.seen = row].pc = "fill"
    BY <1>0 DEF Request, Guarding
  <2>2. req' = [req EXCEPT ![b] = [req[b] EXCEPT !.pc = "fill", !.seen = row]]
    BY <1>5 DEF GuardRow
  <2> QED
    BY <1>0, <1>1, <1>5, <2>1, <2>2 DEF GuardRow
<1>6. CASE GuardFill(b)
  <2>1. req[b].seen \in Row
    BY <1>0 DEF Request
  <2> QED
    BY <1>0, <1>1, <1>6, <2>1, VerdictType DEF GuardFill
<1>7. ASSUME NEW p \in {"rrow", "rfail"} PROVE
        [req[b] EXCEPT !.pc = p] \in Request /\ [req[b] EXCEPT !.pc = p].pc = p
  BY <1>0 DEF Request, Refreshing
<1>8. CASE RefreshGet(b)
  <2>1. \E p \in {"rrow", "rfail"} : req' = [req EXCEPT ![b] = [req[b] EXCEPT !.pc = p]]
    BY <1>8 DEF RefreshGet, Goto
  <2> QED
    BY <1>0, <1>1, <1>7, <1>8, <2>1 DEF RefreshGet
<1>13. CASE RefreshBreaks(b)
  <2> DEFINE r == [Idle EXCEPT !.pc = "rfail", !.pair = req[b].pair]
  <2>1. r \in Request /\ r.pc = "rfail"
    BY <1>0, RestTypes DEF Request, Refreshing
  <2>2. req' = [req EXCEPT ![b] = r]
    BY <1>13 DEF RefreshBreaks
  <2> HIDE DEF r
  <2> QED
    BY <1>0, <1>1, <1>13, <2>1, <2>2 DEF RefreshBreaks
<1>9. CASE RefreshRow(b)
  <2> DEFINE p == IF Usable(row) THEN "rdel" ELSE "rfail"
             r == [req[b] EXCEPT !.pc = p, !.seen = row]
  <2>1. r \in Request /\ r.pc = p /\ r.seen = row
    BY <1>0 DEF Request, Refreshing
  <2>2. req' = [req EXCEPT ![b] = r]
    BY <1>9 DEF RefreshRow
  <2>3. r.pc \in {"rdel", "rset", "lset"} => ~r.seen.disabled
    BY <2>1 DEF Usable
  <2> HIDE DEF r, p
  <2> QED
    BY <1>0, <1>9, <2>1, <2>2, <2>3, RequestMoves DEF RefreshRow
<1>10. CASE RefreshDel(b)
  <2> DEFINE r == [req[b] EXCEPT !.pc = "rset"]
  <2>1. r \in Request /\ r.seen = req[b].seen
    BY <1>0 DEF Request, Refreshing
  <2>2. req' = [req EXCEPT ![b] = r]
    BY <1>10 DEF RefreshDel, Goto
  <2>3. ~req[b].seen.disabled
    BY <1>0, <1>10 DEF RefreshDel, At
  <2> HIDE DEF r
  <2> QED
    BY <1>0, <1>10, <2>1, <2>2, <2>3, RequestMoves DEF RefreshDel
<1>11. CASE RefreshEnd(b)
  <2> DEFINE r == [Idle EXCEPT !.pc = "again", !.pair = req[b].new, !.retry = FALSE]
  <2>1. r \in Request /\ r.pc = "again" /\ req[b].new \in Nat
    BY <1>0, RestTypes DEF Request, Guarding
  <2>2. req' = [req EXCEPT ![b] = r] /\ store' = req[b].new
    BY <1>11 DEF RefreshEnd
  <2> HIDE DEF r
  <2> QED
    BY <1>0, <1>1, <1>11, <2>1, <2>2 DEF RefreshEnd
<1>12. CASE RefreshFail(b) \/ LoginEnd(b)
  <2>1. store' \in Nat
    BY <1>0, <1>12 DEF RefreshFail, LoginEnd, Request
  <2> QED
    BY <1>0, <1>1, <1>12, <2>1, RestTypes DEF RefreshFail, LoginEnd, Finish, Idle
<1> QED
  BY <1>2, <1>3, <1>4, <1>5, <1>6, <1>8, <1>9, <1>10, <1>11, <1>12, <1>13

\* a pair that is issued while the account is disabled is excused
LEMMA TokensStep ==
  ASSUME SessionInv, NEW b \in Requests, NEW from \in {"rset", "lset"},
         NEW n \in {"rend", "lend"}, IssueTokens(b, from, n)
  PROVE  SessionInv'
<1> USE DEF SessionInv
<1> DEFINE r == [Idle EXCEPT !.pc = n, !.new = issued', !.pair = req[b].pair]
<1>0. issued \in Nat /\ req[b] \in Request /\ ~req[b].seen.disabled
  BY DEF Shapes, SeenEnabled, IssueTokens, At
<1>1. issued' \in Nat /\ live' = live \union {issued'}
  BY <1>0 DEF IssueTokens
<1>2. r \in Request /\ r.pc = n
  BY <1>0, <1>1, RestTypes DEF Request, Refreshing, LoggingIn
<1>3. req' = [req EXCEPT ![b] = r]
  BY DEF IssueTokens
<1>4. UNCHANGED <<row, cached, store, act, lost>>
  BY DEF IssueTokens
<1> HIDE DEF r
<1>5. Shapes'
  BY <1>1, <1>2, <1>3, <1>4 DEF Shapes
<1>6. SeenEnabled'
  BY <1>2, <1>3 DEF SeenEnabled, Shapes
<1>7. row.disabled => issued' \in excused'
  BY <1>0 DEF IssueTokens
<1>8. excused \subseteq excused'
  BY DEF IssueTokens
<1>9. Covered'
  <2>1. SUFFICES ASSUME row.disabled, ~lost PROVE Covered'
    BY <1>4 DEF Covered
  <2>2. \A a \in 1..Acts : Revoking(a) => Revoking(a)'
    BY <1>1, <1>4, <1>7, <1>8, <2>1 DEF Revoking
  <2>3. live \subseteq excused => live' \subseteq excused'
    BY <1>1, <1>7, <1>8, <2>1
  <2> QED
    BY <2>1, <2>2, <2>3 DEF Covered
<1> QED
  BY <1>5, <1>6, <1>9
-----------------------------------------------------------------------------
(* the administrators' calls: whoever disables goes on to revoke *)

\* a call that moves on without touching row or tokens
LEMMA CallMoves ==
  ASSUME SessionInv, NEW a \in 1..Acts, NEW k \in Call,
         act' = [act EXCEPT ![a] = k], k.pc = "save" => k.op # "logoutAll",
         Revoking(a) => k.pc = "keys" \/ (k.pc = "revoke" /\ live \ k.keys \subseteq excused)
                        \/ live \subseteq excused,
         cached' \subseteq Row,
         UNCHANGED <<row, live, issued, store, req, lost, excused>>
  PROVE  SessionInv'
<1> USE DEF SessionInv
<1>1. Shapes' /\ SeenEnabled'
  BY DEF Shapes, SeenEnabled
<1>2. Covered'
  <2>1. \A c \in 1..Acts : Revoking(c) => Revoking(c)' \/ live \subseteq excused
    BY DEF Revoking, Shapes
  <2> QED
    BY <2>1 DEF Covered
<1> QED
  BY <1>1, <1>2

LEMMA LoadStep == ASSUME SessionInv, NEW a \in 1..Acts, Load(a) PROVE SessionInv'
<1> PICK op \in Ops :
      /\ act[a].pc = "new"
      /\ act' = [act EXCEPT ![a] = [pc |-> IF op = "logoutAll" THEN "keys" ELSE "save",
                                    op |-> op, seen |-> row, keys |-> {}]]
  BY DEF Load
<1> DEFINE k == [pc |-> IF op = "logoutAll" THEN "keys" ELSE "save",
                 op |-> op, seen |-> row, keys |-> {}]
<1>1. k \in Call /\ (k.pc = "save" => k.op # "logoutAll")
  BY DEF SessionInv, Shapes, Call
<1>2. ~Revoking(a) /\ cached \subseteq Row
  BY DEF Revoking, SessionInv, Shapes
<1>3. UNCHANGED <<row, live, cached, issued, store, req, lost, excused>>
  BY DEF Load, redisVars, ghosts
<1> HIDE DEF k
<1> QED
  BY <1>1, <1>2, <1>3, CallMoves DEF k

\* what is saved was read before; a call that disables goes on to the keys
LEMMA SaveStep == ASSUME SessionInv, NEW a \in 1..Acts, Save(a) PROVE SessionInv'
<1> USE DEF SessionInv
<1> DEFINE op == act[a].op
           seen == act[a].seen
<1>0. /\ op \in {"disable", "enable", "restore", "promote", "approve", "reject"}
      /\ seen \in Row /\ act[a].pc = "save" /\ row \in Row
  BY DEF Save, Shapes, Call, AllOps
<1>1. row' = Saved(op, seen) /\ UNCHANGED <<live, cached, issued, store, req, excused>>
  BY DEF Save, redisVars
<1>2. Saved(op, seen) \in Row
  BY <1>0 DEF Saved, Row
<1>3. CASE op \in {"disable", "promote", "enable"}
  <2>1. PICK p \in {"keys", "clear"} : act' = [act EXCEPT ![a] = [Rest EXCEPT !.pc = p]]
                                       /\ (p = "clear" => op = "enable")
    BY <1>3 DEF Save, AfterSave
  <2>2. [Rest EXCEPT !.pc = p] \in Call /\ [Rest EXCEPT !.pc = p].pc = p
    BY RestTypes DEF Call
  <2>3. Shapes' /\ SeenEnabled'
    BY <1>1, <1>2, <2>1, <2>2 DEF Shapes, SeenEnabled
  <2>4. Covered'
    <3>1. CASE p = "keys"
      <4>1. Revoking(a)'
        BY <2>1, <2>2, <3>1 DEF Revoking, Shapes
      <4> QED
        BY <4>1 DEF Covered
    <3>2. CASE p = "clear"
      <4>1. ~row'.disabled
        BY <1>0, <1>1, <2>1, <3>2 DEF Saved, Row
      <4> QED
        BY <4>1 DEF Covered
    <3> QED
      BY <3>1, <3>2
  <2> QED
    BY <2>3, <2>4
<1>4. CASE op \in {"restore", "approve", "reject"}
  <2>1. act' = [act EXCEPT ![a] = [Rest EXCEPT !.pc = "over"]]
    BY <1>4 DEF Save, AfterSave, Done
  <2>2. [Rest EXCEPT !.pc = "over"] \in Call /\ [Rest EXCEPT !.pc = "over"].pc = "over"
    BY RestTypes DEF Call
  <2>3. Shapes' /\ SeenEnabled'
    BY <1>1, <1>2, <2>1, <2>2 DEF Shapes, SeenEnabled
  <2>4. Covered'
    <3>1. SUFFICES ASSUME row'.disabled, ~lost' PROVE Covered'
      BY DEF Covered
    <3>2. row = seen /\ ~lost
      BY <3>1 DEF Save
    <3>3. row'.disabled = (op # "restore" /\ seen.disabled)
      BY <1>0, <1>1, <1>4 DEF Saved, Row
    <3>4. live \subseteq excused \/ \E c \in 1..Acts : Revoking(c)
      BY <3>1, <3>2, <3>3 DEF Covered
    <3>5. \A c \in 1..Acts : Revoking(c) => Revoking(c)'
      BY <1>0, <1>1, <2>1 DEF Revoking, Shapes
    <3> QED
      BY <1>1, <3>4, <3>5 DEF Covered
  <2> QED
    BY <2>3, <2>4
<1> QED
  BY <1>0, <1>3, <1>4

LEMMA ProceedStep ==
  ASSUME SessionInv, NEW a \in 1..Acts, Keys(a) \/ Revoke(a) \/ Clear(a)
  PROVE  SessionInv'
<1>0. /\ act[a] \in Call /\ live \subseteq Nat /\ cached \subseteq Row
      /\ act[a].pc = "save" => act[a].op # "logoutAll"
  BY DEF SessionInv, Shapes
<1>1. CASE Keys(a)
  <2> DEFINE k == [act[a] EXCEPT !.pc = "revoke", !.keys = live]
  <2>1. k \in Call /\ k.pc = "revoke" /\ k.keys = live
    BY <1>0 DEF Call
  <2>2. act' = [act EXCEPT ![a] = k]
    BY <1>1 DEF Keys
  <2>3. UNCHANGED <<row, live, cached, issued, store, req, lost, excused>>
    BY <1>1 DEF Keys, redisVars, ghosts
  <2> HIDE DEF k
  <2> QED
    BY <1>0, <2>1, <2>2, <2>3, CallMoves
<1>2. CASE Revoke(a)
  <2> USE DEF SessionInv
  <2> DEFINE k == [act[a] EXCEPT !.pc = "clear", !.keys = {}]
  <2>1. k \in Call /\ k.pc = "clear"
    BY <1>0 DEF Call
  <2>2. act' = [act EXCEPT ![a] = k] /\ live' = live \ act[a].keys /\ act[a].pc = "revoke"
    BY <1>2 DEF Revoke
  <2>3. UNCHANGED <<row, cached, issued, store, req, lost, excused>>
    BY <1>2 DEF Revoke, ghosts
  <2> HIDE DEF k
  <2>4. Shapes' /\ SeenEnabled'
    BY <2>1, <2>2, <2>3 DEF Shapes, SeenEnabled
  <2>5. \A c \in 1..Acts : Revoking(c) => Revoking(c)' \/ live' \subseteq excused'
    BY <2>1, <2>2, <2>3 DEF Revoking, Shapes
  <2>6. Covered'
    BY <2>2, <2>3, <2>5 DEF Covered
  <2> QED
    BY <2>4, <2>6
<1>3. CASE Clear(a)
  <2>1. [Rest EXCEPT !.pc = "over"] \in Call /\ [Rest EXCEPT !.pc = "over"].pc = "over"
    BY RestTypes DEF Call
  <2>2. ~Revoking(a) /\ cached' \subseteq Row
    BY <1>3 DEF Clear, Revoking
  <2>3. /\ act' = [act EXCEPT ![a] = [Rest EXCEPT !.pc = "over"]]
        /\ UNCHANGED <<row, live, issued, store, req, lost, excused>>
    BY <1>3 DEF Clear, Done, ghosts
  <2> QED
    BY <2>1, <2>2, <2>3, CallMoves
<1> QED
  BY <1>1, <1>2, <1>3

LEMMA SurroundingsStep ==
  ASSUME SessionInv, Logout \/ AccessExpires \/ RefreshExpires \/ StateExpires \/ Crash \/ UNCHANGED vars
  PROVE  SessionInv'
<1> USE DEF SessionInv, redisVars, ghosts
<1>1. CASE Logout \/ AccessExpires \/ RefreshExpires \/ StateExpires \/ UNCHANGED vars
  <2>1. /\ UNCHANGED <<row, issued, req, act, lost, excused>> /\ live' \subseteq live
        /\ cached' \subseteq cached /\ store' \in {store, 0}
    BY <1>1 DEF Logout, AccessExpires, RefreshExpires, StateExpires, vars
  <2>2. Shapes' /\ SeenEnabled'
    BY <2>1 DEF Shapes, SeenEnabled
  <2>3. \A a \in 1..Acts : Revoking(a) => Revoking(a)'
    BY <2>1 DEF Revoking
  <2>4. Covered'
    BY <2>1, <2>3 DEF Covered
  <2> QED
    BY <2>2, <2>4
<1>2. CASE Crash
  <2>1. UNCHANGED <<row, cached, live, issued, store, lost, excused>>
    BY <1>2 DEF Crash
  <2>2. /\ req' = [b \in Requests |-> Idle]
        /\ act' = [a \in 1..Acts |-> IF act[a].pc \in {"new", "over"} THEN act[a]
                                     ELSE [Rest EXCEPT !.pc = "cut"]]
    BY <1>2 DEF Crash
  <2>3. [Rest EXCEPT !.pc = "cut"] \in Call /\ [Rest EXCEPT !.pc = "cut"].pc = "cut"
    BY RestTypes DEF Call
  <2>4. Shapes' /\ SeenEnabled'
    BY <2>1, <2>2, <2>3, RestTypes DEF Shapes, SeenEnabled, Idle
  <2>5. \A a \in 1..Acts : Revoking(a) => Revoking(a)'
    BY <2>1, <2>2, <2>3 DEF Revoking, Shapes
  <2> QED
    BY <2>1, <2>4, <2>5 DEF Covered
<1> QED
  BY <1>1, <1>2

LEMMA SessionStep == SessionInv /\ [Next]_vars => SessionInv'
<1>1. \A b \in Requests : SessionInv /\ IssueTokens(b, "rset", "rend") => SessionInv'
  BY TokensStep
<1>2. \A b \in Requests : SessionInv /\ IssueTokens(b, "lset", "lend") => SessionInv'
  BY TokensStep
<1> QED
  BY <1>1, <1>2, RequestSteps, LoadStep, SaveStep, ProceedStep, SurroundingsStep
  DEF Next, Step, Proceed

\* When the calls that disable an account are through, no refresh token of it
\* is alive but one issued by a refresh or login that had read the row before:
\* save, KEYS and DEL close the account however many requests and other calls
\* run beside them, crashes included.
THEOREM DisabledSessions == Spec => []DisabledHasNoSessions
<1>1. SessionInv => DisabledHasNoSessions
  BY DEF SessionInv, Covered, Revoking, DisabledHasNoSessions
<1> QED
  BY <1>1, SessionInit, SessionStep, PTL DEF Spec
-----------------------------------------------------------------------------
(* the browser's store: a pair is stored once, by the request that brought *)
(* it, so no other request has it to refresh with before                   *)

Bringing(b) == req[b].pc \in {"rend", "lend"}
\* or giving the stored pair up
Replacing(b) == req[b].pc \in {"rset", "rend", "rfail"} /\ req[b].pair = store

Fresh ==
  /\ store <= issued /\ crashes \in Nat
  /\ \A b \in Requests : req[b].pair <= issued
  /\ \A b \in Requests : Bringing(b) =>
       /\ req[b].new \in 1..issued /\ req[b].new # store
       /\ \A c \in Requests : /\ req[c].pair # req[b].new
                              /\ c # b /\ Bringing(c) => req[c].new # req[b].new

\* no call of an administrator has saved anything, and no answer was lost
Quiet == crashes = 0 /\ \A a \in 1..Acts : act[a].pc \in {"new", "save"}

Stored ==
  Quiet => /\ \A b \in Requests : Bringing(b) => req[b].new \in live
           /\ store # 0 => \/ store \in live \/ lapsed
                           \/ \E b \in Requests : Replacing(b)

StoreInv == SessionInv /\ Fresh /\ Stored

LEMMA StoreInit == Init => StoreInv
<1> SUFFICES ASSUME Init PROVE StoreInv
  OBVIOUS
<1>1. issued \in {0, 1} /\ live = 1..issued /\ store = issued /\ req = [b \in Requests |-> Idle]
  BY DEF Init
<1>2. \A b \in Requests : req[b].pair = 0 /\ req[b].pc = "idle"
  BY <1>1 DEF Idle
<1>3. crashes = 0
  BY DEF Init
<1>4. Fresh /\ Stored
  BY <1>1, <1>2, <1>3 DEF Fresh, Stored, Bringing
<1> QED
  BY <1>4, SessionInit DEF StoreInv

\* a request goes on with the pair it has, or with the stored one
LEMMA PairMoves ==
  ASSUME StoreInv, SessionInv', NEW b \in Requests, NEW r \in Request,
         req' = [req EXCEPT ![b] = r], r.pc \notin {"rend", "lend"},
         r.pair \in {req[b].pair, store, 0},
         \/ req[b].pc \notin {"rset", "rend", "rfail"} \/ store' = 0
         \/ r.pc = "rfail" /\ r.pair = req[b].pair,
         \/ UNCHANGED browserVars \/ store' = 0,
         UNCHANGED <<live, issued, act, crashes>>
  PROVE  StoreInv'
<1> USE DEF StoreInv
<1>0. issued \in Nat /\ store \in Nat /\ \A c \in Requests : req[c] \in Request
  BY DEF SessionInv, Shapes
<1>1. \A c \in Requests : req'[c] = IF c = b THEN r ELSE req[c]
  BY DEF SessionInv, Shapes
<1>2. \A c \in Requests : Bringing(c)' => c # b /\ Bringing(c)
  BY <1>1 DEF Bringing
<1>3. Fresh'
  <2>1. store' <= issued' /\ crashes' \in Nat /\ \A c \in Requests : req'[c].pair <= issued'
    BY <1>0, <1>1 DEF Fresh
  <2>2. ASSUME NEW c \in Requests, Bringing(c)'
        PROVE  /\ req'[c].new \in 1..issued' /\ req'[c].new # store'
               /\ \A e \in Requests : /\ req'[e].pair # req'[c].new
                                      /\ e # c /\ Bringing(e)' => req'[e].new # req'[c].new
    BY <1>0, <1>1, <1>2, <2>2 DEF Fresh
  <2> QED
    BY <2>1, <2>2 DEF Fresh
<1>4. Stored'
  <2>1. \A c \in Requests : Replacing(c) /\ store' # 0 => Replacing(c)'
    BY <1>1 DEF Replacing
  <2> QED
    BY <1>1, <1>2, <2>1 DEF Stored, Quiet
<1> QED
  BY <1>3, <1>4

LEMMA StoreRequestSteps ==
  ASSUME StoreInv, SessionInv', NEW b \in Requests,
         \/ Start(b) \/ LoginRow(b) \/ Again(b) \/ GuardRow(b) \/ GuardFill(b)
         \/ RefreshGet(b) \/ RefreshRow(b) \/ RefreshBreaks(b) \/ RefreshFail(b)
  PROVE  StoreInv'
<1> USE DEF redisVars, ghosts
<1>0. store \in Nat /\ req[b] \in Request
  BY DEF StoreInv, SessionInv, Shapes
<1>1. ASSUME NEW r \in Request, NEW state
      PROVE  /\ Unauthorized(r) \in Request /\ Unauthorized(r).pc \notin {"rend", "lend"}
             /\ Unauthorized(r).pair \in {r.pair, 0}
             /\ Verdict(r, state) \in Request /\ Verdict(r, state).pc \notin {"rend", "lend"}
             /\ Verdict(r, state).pair \in {r.pair, 0}
  <2>1. Unauthorized(r).pair \in {r.pair, 0}
    BY DEF Unauthorized, Idle, Request
  <2> QED
    BY <2>1, VerdictType DEF Verdict, Idle
<1>2. ASSUME NEW r \in Request
      PROVE  /\ Guarded(r) \in Request /\ Guarded(r).pc \notin {"rend", "lend"}
             /\ Guarded(r).pair \in {r.pair, 0}
  <2>1. [r EXCEPT !.pc = "row"].pair = r.pair
    BY DEF Request
  <2> QED
    BY <1>1, <2>1, GuardedType DEF Guarded
<1>3. ASSUME NEW r \in Request, req' = [req EXCEPT ![b] = r], r.pc \notin {"rend", "lend"},
             r.pair \in {req[b].pair, store, 0},
             \/ req[b].pc \notin {"rset", "rend", "rfail"} \/ store' = 0
             \/ r.pc = "rfail" /\ r.pair = req[b].pair,
             \/ UNCHANGED browserVars \/ store' = 0,
             UNCHANGED <<live, issued, act, crashes>>
      PROVE  StoreInv'
  BY <1>3, PairMoves
<1>4. CASE Start(b)
  <2>1. [Idle EXCEPT !.pair = store] \in Request /\ [Idle EXCEPT !.pair = store].pair = store
    BY <1>0, RestTypes DEF Request
  <2> QED
    BY <1>2, <1>3, <1>4, <2>1 DEF Start, At
<1>5. CASE Again(b)
  BY <1>0, <1>2, <1>3, <1>5 DEF Again, At
<1>6. CASE GuardFill(b)
  BY <1>0, <1>1, <1>3, <1>6 DEF GuardFill, At
<1>7. ASSUME NEW p \in {"lset", "fill", "rrow", "rdel", "rfail"}, NEW s \in Row,
             req' = [req EXCEPT ![b] = [req[b] EXCEPT !.pc = p, !.seen = s]],
             req[b].pc \notin {"rset", "rend", "rfail"},
             UNCHANGED <<browserVars, live, issued, act, crashes>>
      PROVE  StoreInv'
  <2> DEFINE r == [req[b] EXCEPT !.pc = p, !.seen = s]
  <2>1. r \in Request /\ r.pc = p /\ r.pair = req[b].pair
    BY <1>0 DEF Request, Guarding, Refreshing, LoggingIn
  <2>2. req' = [req EXCEPT ![b] = r]
    BY <1>7
  <2> HIDE DEF r
  <2> QED
    BY <1>3, <1>7, <2>1, <2>2
<1>8. CASE LoginRow(b) \/ GuardRow(b) \/ RefreshRow(b)
  <2>1. row \in Row
    BY DEF StoreInv, SessionInv, Shapes
  <2>2. \E p \in {"lset", "fill", "rdel", "rfail"} :
          req' = [req EXCEPT ![b] = [req[b] EXCEPT !.pc = p, !.seen = row]]
    BY <1>8 DEF LoginRow, GuardRow, RefreshRow
  <2>3. /\ req[b].pc \notin {"rset", "rend", "rfail"}
        /\ UNCHANGED <<browserVars, live, issued, act, crashes>>
    BY <1>8 DEF LoginRow, GuardRow, RefreshRow, At
  <2> QED
    BY <1>7, <2>1, <2>2, <2>3
<1>9. CASE RefreshGet(b)
  <2> DEFINE p == IF req[b].pair \in live THEN "rrow" ELSE "rfail"
             r == [req[b] EXCEPT !.pc = p]
  <2>1. r \in Request /\ r.pc = p /\ r.pair = req[b].pair
    BY <1>0 DEF Request, Refreshing
  <2>2. req' = [req EXCEPT ![b] = r]
    BY <1>9 DEF RefreshGet, Goto
  <2> HIDE DEF r
  <2> QED
    BY <1>3, <1>9, <2>1, <2>2 DEF RefreshGet, At
<1>10. CASE RefreshFail(b)
  <2>1. Idle.pc = "idle" /\ Idle.pair = 0
    BY DEF Idle
  <2> QED
    BY <1>3, <1>10, <2>1, RestTypes DEF RefreshFail, Finish, At
<1>11. CASE RefreshBreaks(b)
  <2> DEFINE r == [Idle EXCEPT !.pc = "rfail", !.pair = req[b].pair]
  <2>1. r \in Request /\ r.pc = "rfail" /\ r.pair = req[b].pair
    BY <1>0, RestTypes DEF Request, Refreshing, Idle
  <2>2. req' = [req EXCEPT ![b] = r] /\ UNCHANGED <<browserVars, live, issued, act, crashes>>
    BY <1>11 DEF RefreshBreaks
  <2> HIDE DEF r
  <2> QED
    BY <1>3, <2>1, <2>2
<1> QED
  BY <1>4, <1>5, <1>6, <1>8, <1>9, <1>10, <1>11

\* the pair goes out of use and its request replaces it; no other request has
\* a pair that is not stored yet
LEMMA StoreDelStep ==
  ASSUME StoreInv, SessionInv', NEW b \in Requests, RefreshDel(b) PROVE StoreInv'
<1> USE DEF StoreInv
<1>0. req[b] \in Request /\ \A c \in Requests : req'[c] = IF c = b THEN [req[b] EXCEPT !.pc = "rset"] ELSE req[c]
  BY DEF SessionInv, Shapes, RefreshDel, Goto
<1>1. /\ req[b].pc = "rdel" /\ req'[b].pc = "rset" /\ req'[b].pair = req[b].pair
      /\ \A c \in Requests : c # b => req'[c] = req[c]
  BY <1>0 DEF RefreshDel, At, Request
<1>2. UNCHANGED <<browserVars, issued, act, crashes>> /\ live' = live \ {req[b].pair}
  BY DEF RefreshDel
<1>3. \A c \in Requests : Bringing(c)' => c # b /\ Bringing(c)
  BY <1>1 DEF Bringing
<1>4. Fresh'
  BY <1>1, <1>2, <1>3 DEF Fresh
<1>5. Stored'
  <2>1. \A c \in Requests : Replacing(c) => Replacing(c)'
    BY <1>1, <1>2 DEF Replacing
  <2>2. store = req[b].pair => Replacing(b)'
    BY <1>1, <1>2 DEF Replacing
  <2>3. \A c \in Requests : Bringing(c) => req[c].new # req[b].pair
    BY DEF Fresh
  <2> QED
    BY <1>1, <1>2, <1>3, <2>1, <2>2, <2>3 DEF Stored, Quiet
<1> QED
  BY <1>4, <1>5

LEMMA StoreTokensStep ==
  ASSUME StoreInv, SessionInv', NEW b \in Requests,
         IssueTokens(b, "rset", "rend") \/ IssueTokens(b, "lset", "lend")
  PROVE  StoreInv'
<1> USE DEF StoreInv
<1>0. /\ req[b] \in Request /\ issued \in Nat /\ live \subseteq Nat /\ store \in Nat
      /\ \A c \in Requests : req[c] \in Request
  BY DEF SessionInv, Shapes
<1>1. /\ issued' = issued + 1 /\ live' = live \union {issued'} /\ UNCHANGED <<browserVars, act, crashes>>
      /\ \A c \in Requests : c # b => req'[c] = req[c]
      /\ req'[b].pair = req[b].pair /\ req'[b].new = issued' /\ req'[b].pc \in {"rend", "lend"}
      /\ req[b].pc = "rset" => req'[b].pc = "rend"
      /\ req[b].pc \in {"rset", "lset"}
  BY DEF IssueTokens, At, Idle, SessionInv, Shapes
<1>2. \A c \in Requests : c # b => Bringing(c)' = Bringing(c)
  BY <1>1 DEF Bringing
<1>3. \A c \in Requests : req'[c].pair = req[c].pair /\ req[c].pair <= issued /\ req[c].pair \in Nat
  BY <1>0, <1>1 DEF Fresh, Request
<1>4. Fresh'
  <2>1. store' <= issued' /\ crashes' \in Nat /\ \A c \in Requests : req'[c].pair <= issued'
    BY <1>0, <1>1, <1>3 DEF Fresh
  <2>2. ASSUME NEW c \in Requests, Bringing(c)'
        PROVE  /\ req'[c].new \in 1..issued' /\ req'[c].new # store'
               /\ \A e \in Requests : /\ req'[e].pair # req'[c].new
                                      /\ e # c /\ Bringing(e)' => req'[e].new # req'[c].new
    <3>1. CASE c = b
      BY <1>0, <1>1, <1>2, <1>3, <3>1 DEF Fresh
    <3>2. CASE c # b
      BY <1>0, <1>1, <1>2, <1>3, <2>2, <3>2 DEF Fresh
    <3> QED
      BY <3>1, <3>2
  <2> QED
    BY <2>1, <2>2 DEF Fresh
<1>5. Stored'
  <2>1. \A c \in Requests : Replacing(c) => Replacing(c)'
    BY <1>1 DEF Replacing
  <2> QED
    BY <1>1, <1>2, <2>1 DEF Stored, Quiet
<1> QED
  BY <1>4, <1>5

\* what was brought is stored: nobody else has refreshed with it
LEMMA StoreEndStep ==
  ASSUME StoreInv, SessionInv', NEW b \in Requests, RefreshEnd(b) \/ LoginEnd(b)
  PROVE  StoreInv'
<1> USE DEF StoreInv
<1>0. \A c \in Requests : req[c] \in Request
  BY DEF SessionInv, Shapes
<1>1. /\ Bringing(b) /\ store' = req[b].new /\ UNCHANGED <<live, issued, act, crashes>>
      /\ \A c \in Requests : c # b => req'[c] = req[c]
      /\ req'[b].pc \in {"again", "idle"} /\ req'[b].pair \in {req[b].new, 0}
  <2>1. CASE RefreshEnd(b)
    <3>1. /\ store' = req[b].new
          /\ req' = [req EXCEPT ![b] = [Idle EXCEPT !.pc = "again", !.pair = req[b].new, !.retry = FALSE]]
      BY <2>1 DEF RefreshEnd
    <3>2. req'[b] = [Idle EXCEPT !.pc = "again", !.pair = req[b].new, !.retry = FALSE]
      BY <3>1 DEF SessionInv, Shapes
    <3>3. req'[b].pc = "again" /\ req'[b].pair = req[b].new
      BY <3>2 DEF Idle
    <3>4. Bringing(b) /\ UNCHANGED <<live, issued, act, crashes>>
      BY <2>1 DEF RefreshEnd, At, Bringing, redisVars
    <3> QED
      BY <3>1, <3>3, <3>4 DEF SessionInv, Shapes
  <2>2. CASE LoginEnd(b)
    BY <2>2 DEF LoginEnd, Finish, At, Bringing, redisVars, Idle, SessionInv, Shapes
  <2> QED
    BY <2>1, <2>2
<1>2. \A c \in Requests : Bringing(c)' => c # b /\ Bringing(c)
  BY <1>1 DEF Bringing
<1>3. Fresh'
  <2>1. req[b].new \in 1..issued /\ issued \in Nat
    BY <1>1 DEF Fresh, SessionInv, Shapes
  <2>2. store' <= issued' /\ crashes' \in Nat /\ \A c \in Requests : req'[c].pair <= issued'
    BY <1>1, <2>1 DEF Fresh
  <2>3. ASSUME NEW c \in Requests, Bringing(c)'
        PROVE  /\ req'[c].new \in 1..issued' /\ req'[c].new # store'
               /\ \A e \in Requests : /\ req'[e].pair # req'[c].new
                                      /\ e # c /\ Bringing(e)' => req'[e].new # req'[c].new
    BY <1>1, <1>2, <2>1, <2>3 DEF Fresh
  <2> QED
    BY <2>2, <2>3 DEF Fresh
<1>4. Stored'
  BY <1>1, <1>2 DEF Stored, Quiet
<1> QED
  BY <1>3, <1>4

\* a call that saves ends the time the property speaks of
LEMMA StoreCallSteps ==
  ASSUME StoreInv, SessionInv', NEW a \in 1..Acts, Load(a) \/ Proceed(a) PROVE StoreInv'
<1> USE DEF StoreInv
<1>1. UNCHANGED <<req, issued, browserVars, crashes>>
  BY DEF Load, Proceed, Save, Keys, Revoke, Clear, ghosts
<1>2. Fresh'
  BY <1>1 DEF Fresh, Bringing
<1>3. Quiet' => Quiet /\ live' = live
  <2>1. CASE Load(a)
    BY <1>1, <2>1 DEF Load, Quiet, redisVars, SessionInv, Shapes
  <2>2. CASE Proceed(a)
    <3>1. act'[a].pc \notin {"new", "save"}
      BY <2>2, RestTypes DEF Proceed, Save, Keys, Revoke, Clear, Done, AfterSave, Rest, SessionInv, Shapes, Call
    <3> QED
      BY <3>1 DEF Quiet
  <2> QED
    BY <2>1, <2>2
<1>4. Stored'
  BY <1>1, <1>3 DEF Stored, Bringing, Replacing
<1> QED
  BY <1>2, <1>4

LEMMA StoreSurroundings ==
  ASSUME StoreInv, SessionInv', Logout \/ AccessExpires \/ RefreshExpires \/ StateExpires \/ Crash \/ UNCHANGED vars
  PROVE  StoreInv'
<1> USE DEF StoreInv, redisVars, ghosts
<1>0. issued \in Nat /\ store \in Nat
  BY DEF SessionInv, Shapes
<1>1. CASE Logout \/ AccessExpires \/ RefreshExpires \/ StateExpires \/ UNCHANGED vars
  <2>1. /\ UNCHANGED <<issued, req, act, crashes>>
        /\ \/ live' = live /\ (UNCHANGED browserVars \/ store' = 0)
           \/ live' = live \ {store} /\ store' = store /\ lapsed'
    BY <1>1 DEF Logout, AccessExpires, RefreshExpires, StateExpires, vars
  <2>2. Fresh'
    BY <1>0, <2>1 DEF Fresh, Bringing
  <2>3. SUFFICES ASSUME Quiet' PROVE Stored'
    BY <2>2 DEF Stored
  <2>4. Quiet
    BY <2>1, <2>3 DEF Quiet
  <2>5. \A b \in Requests : Bringing(b)' => req'[b].new \in live'
    BY <2>1, <2>4 DEF Stored, Bringing, Fresh
  <2>6. store' # 0 => \/ store' \in live' \/ lapsed'
                      \/ \E b \in Requests : Replacing(b)'
    <3>1. CASE live' = live /\ UNCHANGED browserVars
      BY <2>1, <2>4, <3>1 DEF Stored, Replacing, browserVars
    <3>2. CASE store' = 0 \/ lapsed'
      BY <3>2
    <3> QED
      BY <2>1, <3>1, <3>2
  <2> QED
    BY <2>2, <2>5, <2>6 DEF Stored
<1>2. CASE Crash
  <2>1. /\ UNCHANGED <<live, issued, browserVars>> /\ crashes' # 0
        /\ \A c \in Requests : req'[c].pc = "idle" /\ req'[c].pair = 0
    BY <1>2 DEF Crash, Idle, Fresh
  <2>2. crashes' \in Nat
    BY <1>2 DEF Crash, Fresh
  <2>3. Fresh' /\ Stored'
    BY <1>0, <2>1, <2>2 DEF Fresh, Stored, Quiet, Bringing
  <2> QED
    BY <2>3
<1> QED
  BY <1>1, <1>2

LEMMA StoreStep == StoreInv /\ [Next]_vars => StoreInv'
<1> SUFFICES ASSUME StoreInv, [Next]_vars PROVE StoreInv'
  OBVIOUS
<1>1. SessionInv'
  BY SessionStep DEF StoreInv
<1>2. CASE \E b \in Requests : Start(b) \/ LoginRow(b) \/ Step(b)
  BY <1>1, <1>2, StoreRequestSteps, StoreDelStep, StoreTokensStep, StoreEndStep DEF Step
<1>3. CASE \E a \in 1..Acts : Load(a) \/ Proceed(a)
  BY <1>1, <1>3, StoreCallSteps
<1>4. CASE Logout \/ AccessExpires \/ RefreshExpires \/ StateExpires \/ Crash \/ UNCHANGED vars
  BY <1>1, <1>4, StoreSurroundings
<1> QED
  BY <1>2, <1>3, <1>4 DEF Next

\* The refresh token the browser holds works until its time is over, or is
\* about to be replaced or given up after a refresh that failed, as long as no
\* administrator revokes it and no answer is lost: several requests
\* may refresh with one token and a late one may clear the store, but what is
\* in the store is a pair nobody else has refreshed with.
THEOREM StoreWorks == Spec => []StoreIsLive
<1>1. StoreInv => StoreIsLive
  BY DEF StoreInv, Stored, Quiet, Replacing, StoreIsLive
<1> QED
  BY <1>1, StoreInit, StoreStep, PTL DEF Spec
=============================================================================
