---------------------------- MODULE AuthSession ----------------------------
(***************************************************************************)
(* One account: its row in users, its refresh tokens and the guard's state *)
(* cache in Redis (auth.service.ts, jwt-auth.guard.ts), the calls of       *)
(* administrators that change the row (admin.service.ts,                   *)
(* departments.service.ts), and one browser whose parallel requests share  *)
(* the stored tokens (lib/api.ts, store/auth.ts).  A pair of tokens is its *)
(* number; signatures, names, audit records and other accounts are left    *)
(* out.  A row is saved as a whole: save() writes every column that        *)
(* differs from the loaded entity.                                         *)
(***************************************************************************)
EXTENDS Integers, FiniteSets

CONSTANTS Requests,     \* requests the browser may have in flight at once
          Acts,         \* bound: calls of administrators
          Ops,          \* the operations they may be
          MaxPairs,     \* bound: pairs of tokens that are issued
          MaxCrashes    \* bound: restarts of the API

\* enable: setMemberDisabled; restore: updateUser with disabled = false
AllOps == {"disable", "enable", "restore", "promote", "approve", "reject", "logoutAll"}

ASSUME SessionAssumption ==
  /\ Ops \subseteq AllOps
  /\ Acts \in Nat
  /\ MaxPairs \in Nat
  /\ MaxCrashes \in Nat

\* the role is left out: promote reads the row and saves it
Row == [disabled : BOOLEAN, status : {"pending", "active", "rejected"}]

VARIABLES
  row,      \* the account
  live,     \* keys auth:refresh:{user}:{jti}
  issued,   \* pairs issued so far
  expired,  \* the access tokens of the pairs up to this one have expired
  cached,   \* auth:user_state:{user}: no state, or one
  volatile, \* that key has a TTL
  store,    \* the browser's pair, 0 when logged out
  lapsed,   \* the time of its refresh token is over
  req,      \* the browser's requests
  act,      \* the calls of administrators
  crashes,
  lost,     \* ghost: a save has undone one that came after it was read
  excused   \* ghost: pairs issued on a row read before it was disabled

redisVars == <<live, cached, volatile>>
browserVars == <<store, lapsed>>
ghosts == <<lost, excused>>
vars == <<row, redisVars, issued, expired, browserVars, req, act, crashes, ghosts>>

New  == [disabled |-> FALSE, status |-> "pending"]
Idle == [pc |-> "idle", pair |-> 0, new |-> 0, retry |-> TRUE, seen |-> New]
Rest == [pc |-> "new", op |-> "enable", seen |-> New, keys |-> {}]

Guarding   == {"again", "row", "fill"}
Refreshing == {"rget", "rrow", "rdel", "rset", "rend", "rfail"}
LoggingIn  == {"lset", "lend"}

\* Every variable stays in its type; the store holds a pair that was issued.
TypeOK ==
  /\ row \in Row
  /\ issued \in 0..MaxPairs
  /\ live \subseteq 1..issued
  /\ expired \in 0..issued
  /\ cached \subseteq Row /\ Cardinality(cached) <= 1
  /\ volatile \in BOOLEAN
  /\ store \in 0..issued
  /\ lapsed \in BOOLEAN /\ (lapsed => store # 0)
  /\ req \in [Requests -> [pc : {"idle"} \union Guarding \union Refreshing \union LoggingIn,
                           pair : 0..MaxPairs, new : 0..MaxPairs, retry : BOOLEAN, seen : Row]]
  /\ act \in [1..Acts -> [pc : {"new", "save", "keys", "revoke", "clear", "over", "cut"},
                       op : AllOps, seen : Row, keys : SUBSET (1..MaxPairs)]]
  /\ crashes \in 0..MaxCrashes
  /\ lost \in BOOLEAN
  /\ excused \subseteq 1..issued

\* an account that is new, or logged in
Init ==
  /\ \/ row = New /\ issued = 0
     \/ row = [New EXCEPT !.status = "active"] /\ issued = IF MaxPairs = 0 THEN 0 ELSE 1
  /\ live = 1..issued /\ store = issued
  /\ expired = 0 /\ lapsed = FALSE /\ cached = {} /\ volatile = FALSE
  /\ req = [b \in Requests |-> Idle]
  /\ act = [a \in 1..Acts |-> Rest]
  /\ crashes = 0
  /\ lost = FALSE /\ excused = {}

Usable(r) == ~r.disabled /\ r.status = "active"

At(b, p)    == req[b].pc = p
Goto(b, p)  == req' = [req EXCEPT ![b].pc = p]
Finish(b)   == req' = [req EXCEPT ![b] = Idle]
-----------------------------------------------------------------------------
(* a request of the browser, and the guard *)

\* 401: the browser refreshes, once, with the token it read at the start
Unauthorized(r) == IF r.retry THEN [Idle EXCEPT !.pc = "rget", !.pair = r.pair] ELSE Idle
Verdict(r, state) == IF Usable(state) THEN Idle ELSE Unauthorized(r)

\* canActivate with this request's access token: the token, then the cached state
Guarded(r) ==
  IF r.pair <= expired THEN Unauthorized(r)
  ELSE IF cached = {} THEN [r EXCEPT !.pc = "row"]
  ELSE Verdict(r, CHOOSE state \in cached : TRUE)

\* the tokens are read from the store, once
Start(b) ==
  /\ At(b, "idle") /\ store # 0
  /\ req' = [req EXCEPT ![b] = Guarded([Idle EXCEPT !.pair = store])]
  /\ UNCHANGED <<row, redisVars, issued, expired, browserVars, act, crashes, ghosts>>

\* the request once more, with the new token
Again(b) ==
  /\ At(b, "again")
  /\ req' = [req EXCEPT ![b] = Guarded(req[b])]
  /\ UNCHANGED <<row, redisVars, issued, expired, browserVars, act, crashes, ghosts>>

GuardRow(b) ==
  /\ At(b, "row")
  /\ req' = [req EXCEPT ![b].pc = "fill", ![b].seen = row]
  /\ UNCHANGED <<row, redisVars, issued, expired, browserVars, act, crashes, ghosts>>

\* mutant of GuardFill: the state is cached without a TTL
GuardFillForever(b) ==
  /\ At(b, "fill")
  /\ cached' = {req[b].seen} /\ volatile' = FALSE
  /\ req' = [req EXCEPT ![b] = Verdict(req[b], req[b].seen)]
  /\ UNCHANGED <<row, live, issued, expired, browserVars, act, crashes, ghosts>>

GuardFill(b) ==
  /\ At(b, "fill")
  /\ cached' = {req[b].seen} /\ volatile' = TRUE
  /\ req' = [req EXCEPT ![b] = Verdict(req[b], req[b].seen)]
  /\ UNCHANGED <<row, live, issued, expired, browserVars, act, crashes, ghosts>>
-----------------------------------------------------------------------------
(* refresh *)

RefreshGet(b) ==
  /\ At(b, "rget")
  /\ Goto(b, IF req[b].pair \in live THEN "rrow" ELSE "rfail")
  /\ UNCHANGED <<row, redisVars, issued, expired, browserVars, act, crashes, ghosts>>

RefreshRow(b) ==
  /\ At(b, "rrow")
  /\ req' = [req EXCEPT ![b].pc = IF Usable(row) THEN "rdel" ELSE "rfail", ![b].seen = row]
  /\ UNCHANGED <<row, redisVars, issued, expired, browserVars, act, crashes, ghosts>>

RefreshDel(b) ==
  /\ At(b, "rdel")
  /\ live' = live \ {req[b].pair}
  /\ Goto(b, "rset")
  /\ UNCHANGED <<row, cached, volatile, issued, expired, browserVars, act, crashes, ghosts>>

\* issueTokens; n is where the request goes on
IssueTokens(b, from, n) ==
  /\ At(b, from) /\ issued < MaxPairs
  /\ issued' = issued + 1
  /\ live' = live \union {issued'}
  /\ req' = [req EXCEPT ![b] = [Idle EXCEPT !.pc = n, !.new = issued', !.pair = req[b].pair]]
  /\ excused' = IF row.disabled /\ ~req[b].seen.disabled THEN excused \union {issued'} ELSE excused
  /\ UNCHANGED <<row, cached, volatile, expired, browserVars, act, crashes, lost>>

\* mutant of RefreshEnd: the new pair is not stored
RefreshEndForget(b) ==
  /\ At(b, "rend")
  /\ req' = [req EXCEPT ![b] = [Idle EXCEPT !.pc = "again", !.pair = req[b].new, !.retry = FALSE]]
  /\ UNCHANGED <<row, redisVars, issued, expired, browserVars, act, crashes, ghosts>>

\* setTokens, and the request once more with what the store then holds
RefreshEnd(b) ==
  /\ At(b, "rend")
  /\ store' = req[b].new /\ lapsed' = FALSE
  /\ req' = [req EXCEPT ![b] = [Idle EXCEPT !.pc = "again", !.pair = store', !.retry = FALSE]]
  /\ UNCHANGED <<row, redisVars, issued, expired, act, crashes, ghosts>>

\* a call to PostgreSQL or Redis fails, and the answer is no pair
RefreshBreaks(b) ==
  /\ \E p \in {"rget", "rrow", "rdel", "rset"} : At(b, p)
  /\ req' = [req EXCEPT ![b] = [Idle EXCEPT !.pc = "rfail", !.pair = req[b].pair]]
  /\ UNCHANGED <<row, redisVars, issued, expired, browserVars, act, crashes, ghosts>>

\* the refresh is not answered with a pair: clear(), whatever the store holds
\* by now
RefreshFail(b) ==
  /\ At(b, "rfail")
  /\ store' = 0 /\ lapsed' = FALSE
  /\ Finish(b)
  /\ UNCHANGED <<row, redisVars, issued, expired, act, crashes, ghosts>>

\* the button in Layout: the server is not told
Logout ==
  /\ store # 0 /\ store' = 0 /\ lapsed' = FALSE
  /\ UNCHANGED <<row, redisVars, issued, expired, req, act, crashes, ghosts>>
-----------------------------------------------------------------------------
(* login *)

\* the lock after failed attempts and the password are left out; an account that may not
\* log in is turned away
LoginRow(b) ==
  /\ At(b, "idle") /\ store = 0 /\ Usable(row)
  /\ req' = [req EXCEPT ![b].pc = "lset", ![b].seen = row]
  /\ UNCHANGED <<row, redisVars, issued, expired, browserVars, act, crashes, ghosts>>

LoginEnd(b) ==
  /\ At(b, "lend")
  /\ store' = req[b].new /\ lapsed' = FALSE
  /\ Finish(b)
  /\ UNCHANGED <<row, redisVars, issued, expired, act, crashes, ghosts>>
-----------------------------------------------------------------------------
(* calls that change the row *)

\* the row is read, and what the call needs of it is checked
Load(a) ==
  \E op \in Ops :
    /\ act[a].pc = "new" /\ \A c \in 1..(a - 1) : act[c].pc # "new"
    /\ op \in {"approve", "reject"} => row.status = "pending"
    /\ act' = [act EXCEPT ![a] = [pc |-> IF op = "logoutAll" THEN "keys" ELSE "save",
                                  op |-> op, seen |-> row, keys |-> {}]]
    /\ UNCHANGED <<row, redisVars, issued, expired, browserVars, req, crashes, ghosts>>

Saved(op, r) ==
  CASE op = "disable" -> [r EXCEPT !.disabled = TRUE]
    [] op \in {"enable", "restore"} -> [r EXCEPT !.disabled = FALSE]
    [] op = "promote" -> r
    [] op = "approve" -> [r EXCEPT !.status = "active"]
    [] op = "reject"  -> [r EXCEPT !.status = "rejected"]

\* mutant of AfterSave: revokeAll is left out
AfterSaveKeep(op) == IF op = "enable" THEN "clear" ELSE "over"

AfterSave(op) ==
  CASE op \in {"disable", "promote"} -> "keys"
    [] op = "enable"                 -> "clear"
    [] OTHER                         -> "over"

\* the call is answered
Done(a) == act' = [act EXCEPT ![a] = [Rest EXCEPT !.pc = "over"]]

\* users.save(user): the whole row
Save(a) ==
  /\ act[a].pc = "save"
  /\ row' = Saved(act[a].op, act[a].seen)
  /\ lost' = (lost \/ row # act[a].seen)
  /\ IF AfterSave(act[a].op) = "over" THEN Done(a)
     ELSE act' = [act EXCEPT ![a] = [Rest EXCEPT !.pc = AfterSave(act[a].op)]]
  /\ UNCHANGED <<redisVars, issued, expired, browserVars, req, crashes, excused>>

\* revokeAll: KEYS, then DEL of what it found
Keys(a) ==
  /\ act[a].pc = "keys"
  /\ act' = [act EXCEPT ![a].pc = "revoke", ![a].keys = live]
  /\ UNCHANGED <<row, redisVars, issued, expired, browserVars, req, crashes, ghosts>>

Revoke(a) ==
  /\ act[a].pc = "revoke"
  /\ live' = live \ act[a].keys
  /\ act' = [act EXCEPT ![a].pc = "clear", ![a].keys = {}]
  /\ UNCHANGED <<row, cached, volatile, issued, expired, browserVars, req, crashes, ghosts>>

Clear(a) ==
  /\ act[a].pc = "clear"
  /\ cached' = {} /\ volatile' = FALSE
  /\ Done(a)
  /\ UNCHANGED <<row, live, issued, expired, browserVars, req, crashes, ghosts>>
-----------------------------------------------------------------------------
(* time and crashes *)

\* all live equally long, so they expire in the order they were issued
AccessExpires ==
  /\ expired < issued /\ expired' = expired + 1
  /\ UNCHANGED <<row, redisVars, issued, browserVars, req, act, crashes, ghosts>>

\* the stored pair has been there for seven days.  Others are either younger,
\* or nobody has them any more
RefreshExpires ==
  /\ store # 0 /\ store <= expired /\ ~lapsed
  /\ lapsed' = TRUE /\ live' = live \ {store}
  /\ UNCHANGED <<row, cached, volatile, issued, expired, store, req, act, crashes, ghosts>>

StateExpires ==
  /\ volatile
  /\ cached' = {} /\ volatile' = FALSE
  /\ UNCHANGED <<row, live, issued, expired, browserVars, req, act, crashes, ghosts>>

\* the API restarts: what it was doing is never finished, and the browser's
\* calls reject
Crash ==
  /\ crashes < MaxCrashes /\ crashes' = crashes + 1
  /\ req' = [b \in Requests |-> Idle]
  /\ act' = [a \in 1..Acts |-> IF act[a].pc \in {"new", "over"} THEN act[a] ELSE [Rest EXCEPT !.pc = "cut"]]
  /\ UNCHANGED <<row, redisVars, issued, expired, browserVars, lost, excused>>

Step(b) ==
  \/ Again(b) \/ GuardRow(b) \/ GuardFill(b)
  \/ RefreshGet(b) \/ RefreshRow(b) \/ RefreshDel(b) \/ IssueTokens(b, "rset", "rend")
  \/ RefreshEnd(b) \/ RefreshBreaks(b) \/ RefreshFail(b)
  \/ IssueTokens(b, "lset", "lend") \/ LoginEnd(b)
Proceed(a) == Save(a) \/ Keys(a) \/ Revoke(a) \/ Clear(a)

Next ==
  \/ \E b \in Requests : Start(b) \/ LoginRow(b) \/ Step(b)
  \/ \E a \in 1..Acts : Load(a) \/ Proceed(a)
  \/ Logout \/ AccessExpires \/ RefreshExpires \/ StateExpires \/ Crash

Spec == Init /\ [][Next]_vars
\* the server finishes what it has begun, and Redis expires keys
FairSpec ==
  /\ Spec
  /\ \A b \in Requests : WF_vars(Step(b))
  /\ \A a \in 1..Acts : WF_vars(Proceed(a))
  /\ WF_vars(StateExpires)
-----------------------------------------------------------------------------
(* Properties *)

\* When the calls that disable an account are through, no refresh token of it
\* is alive but one issued by a refresh or login that had read the row before.
DisabledHasNoSessions ==
  row.disabled /\ ~lost /\ (\A a \in 1..Acts : act[a].pc \in {"new", "save", "over"})
    => live \subseteq excused

\* A refresh token the browser holds works until its time is over, or is about
\* to be replaced, or cleared because the refresh with it failed, as long as no
\* administrator revokes it and no answer is lost, however its requests race to
\* refresh.
StoreIsLive ==
  store # 0 /\ crashes = 0 /\ (\A a \in 1..Acts : act[a].pc \in {"new", "save"})
    => \/ store \in live \/ lapsed
       \/ \E b \in Requests : req[b].pc \in {"rset", "rend", "rfail"} /\ req[b].pair = store

\* An account that stays disabled is refused before long, however a guard that
\* had read the row filled the cache, and wherever the call was cut short.
LockedOut ==
  <>[](row.disabled) => <>[](\A state \in cached : ~Usable(state))

=============================================================================
