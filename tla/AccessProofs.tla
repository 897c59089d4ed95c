---------------------------- MODULE AccessProofs ----------------------------
(***************************************************************************)
(* Proof about Access: a whitelist that no race has touched is what the    *)
(* guard says, for any users, workspaces and departments, and any number   *)
(* of requests.                                                            *)
(***************************************************************************)
EXTENDS Access, TLAPS

USE AccessAssumption
-----------------------------------------------------------------------------
(* as much of the types as the argument needs *)

Request == [pc : CallPc, op : AllOps, w : Spaces, u : Users,
            d : Departments \union {NoDepartment}, r : Role,
            who : SUBSET Users, todo : Seq(Departments)]
Whitelist == [ids : SUBSET Spaces, ttl : BOOLEAN]
Reader == [pc : {"idle", "members", "departments", "spaces", "fill"},
           ids : SUBSET Spaces, deps : SUBSET Departments]

\* only a move has departments to tell, and it tells nobody else; it lists
\* them while there are some; the removal of a department tells nobody
Orderly(k) ==
  /\ k.pc = "list" => k.todo # <<>>
  /\ k.pc = "count" => k.op = "removeMember"
  /\ k.op # "update" => k.todo = <<>>
  /\ k.op = "create" => k.pc \in {"new", "inval", "commit", "over"}
  /\ k.op \in {"update", "removeDepartment"} /\ k.pc = "write" => k.who = {}

RowShapes ==
  /\ departments \subseteq Departments
  /\ spaces \subseteq Spaces
  /\ departmentOf \in [Spaces -> Departments \union {NoDepartment}]
  /\ role \in [Spaces -> [Users -> Role \union {NoRole}]]
  /\ \A w \in Spaces \ spaces, u \in Users : role[w][u] = NoRole

Shapes ==
  /\ RowShapes
  /\ cache \in [Users -> Whitelist]
  /\ reader \in [Users -> Reader]
  /\ call \in [1..Calls -> Request]
  /\ \A c \in 1..Calls : Orderly(call[c])

\* request k has written and is going to delete the whitelist of u, whose
\* departments are deps
Tells(k, u, deps) ==
  /\ k.op # "create"
  /\ \/ k.pc \in {"mirror", "inval"} /\ u \in k.who
     \/ k.pc \in {"inval", "list"} /\ \E i \in DOMAIN k.todo : k.todo[i] \in deps

Told(u) == \E c \in 1..Calls : Tells(call[c], u, memberDepartmentIds(u))

RoleIds(u) == {w \in Spaces : role[w][u] # NoRole}

\* what a reader that nothing has overtaken holds
Reading(u) ==
  /\ reader[u].pc \in {"departments", "spaces"} => reader[u].ids = RoleIds(u)
  /\ reader[u].pc = "spaces" => reader[u].deps = memberDepartmentIds(u)
  /\ reader[u].pc = "fill" => reader[u].ids = Visible(u)

\* a whitelist is right, gone, or about to be deleted
Right(u) == cache[u].ids # {} => cache[u].ids = Visible(u) \/ Told(u)

AccessInv ==
  /\ Shapes
  /\ \A u \in Watched \ stale : Reading(u) /\ Right(u)

\* what a user sees: the workspaces of a role, and those of the departments
LEMMA VisibleParts ==
  ASSUME RowShapes, NEW u \in Users
  PROVE  Visible(u) = RoleIds(u) \union {w \in spaces : departmentOf[w] \in memberDepartmentIds(u)}
<1>1. "viewer" # NoRole
  BY DEF NoRole
<1>2. NoDepartment \notin memberDepartmentIds(u)
  BY DEF memberDepartmentIds
<1>3. \A w \in Spaces : role[w][u] # NoRole => w \in spaces
  BY DEF RowShapes
<1>. QED  BY <1>1, <1>2, <1>3 DEF Visible, getRole, RoleIds, RowShapes
-----------------------------------------------------------------------------
(* readers *)

LEMMA ReaderSafe ==
  ASSUME AccessInv, NEW u \in Watched, Read(u) \/ Expire(u)
  PROVE  AccessInv'
<1>0. /\ Shapes /\ RowShapes /\ u \in Users
      /\ reader \in [Users -> Reader] /\ cache \in [Users -> Whitelist]
  BY DEF AccessInv, Shapes
<1>1. UNCHANGED <<rowVars, call>>
  BY DEF Read, Expire, GetCached, ReadMembers, ReadDepartments, ReadSpaces, Fill
<1>2. /\ RowShapes' = RowShapes
      /\ \A v : /\ Visible(v)' = Visible(v) /\ RoleIds(v)' = RoleIds(v)
                /\ memberDepartmentIds(v)' = memberDepartmentIds(v)
                /\ Told(v)' = Told(v)
  BY <1>1 DEF rowVars, RowShapes, Visible, getRole, RoleIds, memberDepartmentIds, Told
<1>3. ASSUME cache' \in [Users -> Whitelist], reader' \in [Users -> Reader] PROVE Shapes'
  BY <1>0, <1>1, <1>2, <1>3 DEF Shapes
<1>4. ASSUME cache' \in [Users -> Whitelist], reader' \in [Users -> Reader],
             \A v \in Watched \ {u} : /\ v \in stale' <=> v \in stale
                                      /\ reader'[v] = reader[v] /\ cache'[v] = cache[v],
             u \notin stale' => Reading(u)' /\ Right(u)'
      PROVE  AccessInv'
  <2>1. ASSUME NEW v \in Watched \ {u}, v \notin stale' PROVE Reading(v)' /\ Right(v)'
    BY <1>2, <1>4, <2>1 DEF AccessInv, Reading, Right
  <2>. QED  BY <1>3, <1>4, <2>1 DEF AccessInv
<1>5. CASE GetCached(u)
  <2>1. [Idle EXCEPT !.pc = "members"] \in Reader
    BY DEF Idle, Reader
  <2>2. /\ reader' \in [Users -> Reader] /\ reader'[u].pc = "members" /\ cache' = cache
        /\ \A v \in Users \ {u} : reader'[v] = reader[v]
        /\ cache[u].ids = {} /\ stale' = stale \ {u}
    BY <1>0, <1>5, <2>1 DEF GetCached, Idle
  <2>3. Reading(u)' /\ Right(u)'
    BY <2>2 DEF Reading, Right
  <2>. QED  BY <1>0, <1>4, <2>2, <2>3
<1>6. CASE ReadMembers(u)
  <2> DEFINE x == [reader[u] EXCEPT !.pc = "departments", !.ids = RoleIds(u)]
  <2>1. x \in Reader /\ x.pc = "departments" /\ x.ids = RoleIds(u)
    BY <1>0 DEF Reader, RoleIds
  <2>2. reader' = [reader EXCEPT ![u] = x] /\ UNCHANGED <<cache, stale>>
    BY <1>6 DEF ReadMembers, RoleIds
  <2> HIDE DEF x
  <2>3. reader' \in [Users -> Reader] /\ reader'[u] = x /\ \A v \in Users \ {u} : reader'[v] = reader[v]
    BY <1>0, <2>1, <2>2
  <2>4. Reading(u)'
    BY <1>2, <2>1, <2>3 DEF Reading
  <2>5. u \notin stale' => Right(u)'
    BY <1>2, <2>2 DEF AccessInv, Right
  <2>. QED  BY <1>0, <1>4, <2>2, <2>3, <2>4, <2>5
<1>7. CASE ReadDepartments(u)
  <2> DEFINE x == [reader[u] EXCEPT !.pc = "spaces", !.deps = memberDepartmentIds(u)]
  <2>1. /\ x \in Reader /\ x.pc = "spaces" /\ x.deps = memberDepartmentIds(u)
        /\ x.ids = reader[u].ids
    BY <1>0 DEF Reader, memberDepartmentIds
  <2>2. reader' = [reader EXCEPT ![u] = x] /\ UNCHANGED <<cache, stale>> /\ reader[u].pc = "departments"
    BY <1>7 DEF ReadDepartments
  <2> HIDE DEF x
  <2>3. reader' \in [Users -> Reader] /\ reader'[u] = x /\ \A v \in Users \ {u} : reader'[v] = reader[v]
    BY <1>0, <2>1, <2>2
  <2>4. u \notin stale' => Reading(u)'
    BY <1>2, <2>1, <2>2, <2>3 DEF AccessInv, Reading
  <2>5. u \notin stale' => Right(u)'
    BY <1>2, <2>2 DEF AccessInv, Right
  <2>. QED  BY <1>0, <1>4, <2>2, <2>3, <2>4, <2>5
<1>8. CASE ReadSpaces(u)
  <2> DEFINE found == reader[u].ids \union {w \in spaces : departmentOf[w] \in reader[u].deps}
             x == [reader[u] EXCEPT !.pc = "fill", !.ids = found]
  <2>0. found \subseteq Spaces
    BY <1>0 DEF RowShapes, Reader
  <2>1. reader' = [reader EXCEPT ![u] = x] /\ UNCHANGED <<cache, stale>> /\ reader[u].pc = "spaces"
    BY <1>8 DEF ReadSpaces
  <2>2. u \notin stale => found = Visible(u)
    BY <1>0, <2>1, VisibleParts DEF AccessInv, Reading
  <2> HIDE DEF found
  <2>3. x \in Reader /\ x.pc = "fill" /\ x.ids = found
    BY <1>0, <2>0 DEF Reader
  <2> HIDE DEF x
  <2>4. reader' \in [Users -> Reader] /\ reader'[u] = x /\ \A v \in Users \ {u} : reader'[v] = reader[v]
    BY <1>0, <2>1, <2>3
  <2>5. u \notin stale' => Reading(u)'
    BY <1>2, <2>1, <2>2, <2>3, <2>4 DEF Reading
  <2>6. u \notin stale' => Right(u)'
    BY <1>2, <2>1 DEF AccessInv, Right
  <2>. QED  BY <1>0, <1>4, <2>1, <2>4, <2>5, <2>6
<1>9. CASE Fill(u)
  <2>1. Idle \in Reader /\ Idle.pc = "idle"
    BY DEF Idle, Reader
  <2>2. /\ reader[u].pc = "fill" /\ stale' = stale
        /\ reader' = [reader EXCEPT ![u] = Idle]
        /\ cache' = [cache EXCEPT ![u] = refreshSet(reader[u].ids)]
    BY <1>9 DEF Fill
  <2>3. refreshSet(reader[u].ids) \in Whitelist /\ refreshSet(reader[u].ids).ids = reader[u].ids
    BY <1>0 DEF refreshSet, Whitelist, Reader
  <2>4. /\ reader' \in [Users -> Reader] /\ reader'[u] = Idle
        /\ cache' \in [Users -> Whitelist] /\ cache'[u].ids = reader[u].ids
        /\ \A v \in Users \ {u} : reader'[v] = reader[v] /\ cache'[v] = cache[v]
    BY <1>0, <2>1, <2>2, <2>3
  <2>5. Reading(u)'
    BY <2>1, <2>4 DEF Reading
  <2>6. u \notin stale' => Right(u)'
    BY <1>2, <2>2, <2>4 DEF AccessInv, Reading, Right
  <2>. QED  BY <1>0, <1>4, <2>2, <2>4, <2>5, <2>6
<1>10. CASE Expire(u)
  <2>1. Empty \in Whitelist /\ Empty.ids = {}
    BY DEF Empty, Whitelist
  <2>2. /\ cache' \in [Users -> Whitelist] /\ cache'[u] = Empty /\ UNCHANGED <<reader, stale>>
        /\ \A v \in Users \ {u} : cache'[v] = cache[v]
    BY <1>0, <1>10, <2>1 DEF Expire
  <2>3. Right(u)'
    BY <2>1, <2>2 DEF Right
  <2>4. u \notin stale' => Reading(u)'
    BY <1>2, <2>2 DEF AccessInv, Reading
  <2>. QED  BY <1>0, <1>4, <2>2, <2>3, <2>4
<1>. QED  BY <1>5, <1>6, <1>7, <1>8, <1>9, <1>10 DEF Read
-----------------------------------------------------------------------------
(* requests: two shapes of a step *)

LEMMA OneCall ==
  ASSUME call \in [1..Calls -> Request], NEW c \in 1..Calls, NEW k \in Request,
         \A b \in 1..Calls : Orderly(call[b]), Orderly(k), call' = [call EXCEPT ![c] = k]
  PROVE  /\ call' \in [1..Calls -> Request] /\ call'[c] = k
         /\ \A b \in (1..Calls) \ {c} : call'[b] = call[b]
         /\ \A b \in 1..Calls : Orderly(call'[b])
OBVIOUS

\* a request goes on, and whom it was to tell it still will, or gives up on
LEMMA GoesOn ==
  ASSUME AccessInv, NEW c \in 1..Calls, NEW k \in Request, Orderly(k),
         call' = [call EXCEPT ![c] = k], UNCHANGED <<rowVars, cache, reader>>,
         \A u \in Watched : u \in stale => u \in stale',
         \A u \in Watched \ stale' :
           Tells(call[c], u, memberDepartmentIds(u)) => Tells(k, u, memberDepartmentIds(u))
  PROVE  AccessInv'
<1>0. Shapes
  BY DEF AccessInv
<1>1. /\ call' \in [1..Calls -> Request] /\ call'[c] = k
      /\ \A b \in (1..Calls) \ {c} : call'[b] = call[b]
      /\ \A b \in 1..Calls : Orderly(call'[b])
  BY <1>0, OneCall DEF Shapes
<1>2. /\ RowShapes' = RowShapes
      /\ \A v : /\ Visible(v)' = Visible(v) /\ RoleIds(v)' = RoleIds(v)
                /\ memberDepartmentIds(v)' = memberDepartmentIds(v)
  BY DEF rowVars, RowShapes, Visible, getRole, RoleIds, memberDepartmentIds
<1>3. Shapes'
  BY <1>0, <1>1, <1>2 DEF Shapes
<1>4. ASSUME NEW u \in Watched, u \notin stale' PROVE Reading(u)' /\ Right(u)'
  <2>1. Reading(u) /\ Right(u)
    BY <1>4 DEF AccessInv
  <2>2. Told(u) => Told(u)'
    <3>1. ASSUME NEW b \in 1..Calls, Tells(call[b], u, memberDepartmentIds(u))
          PROVE  Tells(call'[b], u, memberDepartmentIds(u)')
      BY <1>1, <1>2, <1>4, <3>1
    <3>. QED  BY <3>1 DEF Told
  <2>. QED  BY <1>2, <2>1, <2>2 DEF Reading, Right
<1>. QED  BY <1>3, <1>4 DEF AccessInv

\* what u belongs to and sees is the same afterwards
Same(u) == /\ memberDepartmentIds(u)' = memberDepartmentIds(u)
           /\ Visible(u)' = Visible(u)
           /\ RoleIds(u)' = RoleIds(u)

\* it is not, in the words of Changed
Differs(u) == \/ memberDepartmentIds(u)' # memberDepartmentIds(u)
              \/ Visible(u)' # Visible(u)
              \/ \E w \in Spaces : role[w][u]' # role[w][u]

LEMMA SameOrDiffers == \A u : Same(u) \/ Differs(u)
BY DEF Same, Differs, RoleIds

\* a request changes rows: whoever's change it is that no reader meets will
\* be told
LEMMA RowsChange ==
  ASSUME AccessInv, NEW c \in 1..Calls, NEW k \in Request, Orderly(k),
         call' = [call EXCEPT ![c] = k], cache' = cache, reader' = reader, RowShapes',
         \A u \in Watched :
           Tells(call[c], u, memberDepartmentIds(u)) => Tells(k, u, memberDepartmentIds(u)),
         \A u \in Watched \ stale' :
           /\ u \notin stale
           /\ Same(u) \/ (reader[u].pc = "idle" /\ Tells(k, u, memberDepartmentIds(u)'))
  PROVE  AccessInv'
<1>0. Shapes
  BY DEF AccessInv
<1>1. /\ call' \in [1..Calls -> Request] /\ call'[c] = k
      /\ \A b \in (1..Calls) \ {c} : call'[b] = call[b]
      /\ \A b \in 1..Calls : Orderly(call'[b])
  BY <1>0, OneCall DEF Shapes
<1>2. Shapes'
  BY <1>0, <1>1 DEF Shapes
<1>3. ASSUME NEW u \in Watched, u \notin stale' PROVE Reading(u)' /\ Right(u)'
  <2>0. u \notin stale /\ Reading(u) /\ Right(u)
    BY <1>3 DEF AccessInv
  <2>1. CASE Same(u)
    <3>1. Told(u) => Told(u)'
      <4>1. ASSUME NEW b \in 1..Calls, Tells(call[b], u, memberDepartmentIds(u))
            PROVE  Tells(call'[b], u, memberDepartmentIds(u)')
        BY <1>1, <2>1, <4>1 DEF Same
      <4>. QED  BY <4>1 DEF Told
    <3>. QED  BY <2>0, <2>1, <3>1 DEF Reading, Right, Same
  <2>2. CASE reader[u].pc = "idle" /\ Tells(k, u, memberDepartmentIds(u)')
    <3>1. Told(u)'
      BY <1>1, <2>2 DEF Told
    <3>. QED  BY <2>2, <3>1 DEF Reading, Right
  <2>. QED  BY <1>3, <2>1, <2>2
<1>. QED  BY <1>2, <1>3 DEF AccessInv
-----------------------------------------------------------------------------
(* requests that begin, and end without having changed anything *)

LEMMA SomeSpace == NoCall \in Request /\ NoCall.todo = <<>> /\ NoCall.op = "create" /\ NoCall.who = {}
<1>1. (CHOOSE w \in Spaces : TRUE) \in Spaces /\ (CHOOSE u \in Users : TRUE) \in Users
  OBVIOUS
<1>2. <<>> \in Seq(Departments)
  OBVIOUS
<1>. QED  BY <1>1, <1>2 DEF NoCall, Request, CallPc, AllOps, Role

LEMMA BeginSafe ==
  ASSUME AccessInv, NEW c \in 1..Calls, NEW p \in CallPc \ {"list"},
         NEW op \in AllOps \ {"update"}, NEW w \in Spaces, NEW u \in Users,
         NEW d \in Departments \union {NoDepartment}, NEW r \in Role, NEW who \in SUBSET Users,
         p = "count" => op = "removeMember", op = "removeDepartment" => who = {},
         op = "create" => p = "inval",
         Begin(c, p, op, w, u, d, r, who)
  PROVE  AccessInv'
<1> DEFINE k == [pc |-> p, op |-> op, w |-> w, u |-> u, d |-> d, r |-> r,
                 who |-> who, todo |-> <<>>]
<1>1. <<>> \in Seq(Departments)
  OBVIOUS
<1>2. /\ k \in Request /\ k.pc # "list" /\ k.todo = <<>> /\ k.op # "update"
      /\ k.pc = "count" => k.op = "removeMember"
      /\ k.op = "removeDepartment" => k.who = {}
      /\ k.op = "create" => k.pc = "inval"
  BY <1>1 DEF Request
<1>3. /\ call' = [call EXCEPT ![c] = k] /\ UNCHANGED <<rowVars, cache, reader, stale>>
      /\ call[c].pc = "new"
  BY DEF Begin, Fresh
<1> HIDE DEF k
<1>4. Orderly(k) /\ \A v : ~Tells(call[c], v, memberDepartmentIds(v))
  BY <1>2, <1>3 DEF Orderly, Tells
<1>. QED  BY <1>2, <1>3, <1>4, GoesOn

LEMMA UpdateSafe ==
  ASSUME AccessInv, NEW c \in 1..Calls, NEW w \in Spaces, NEW d \in Departments, Update(c, w, d)
  PROVE  AccessInv'
<1> DEFINE todo == IF departmentOf[w] = d THEN <<>>
                   ELSE IF departmentOf[w] = NoDepartment THEN <<d>> ELSE <<departmentOf[w], d>>
           k == [NoCall EXCEPT !.pc = "write", !.op = "update", !.w = w, !.d = d, !.todo = todo]
<1>1. departmentOf[w] \in Departments \union {NoDepartment}
  BY DEF AccessInv, Shapes, RowShapes
<1>2. todo \in Seq(Departments)
  BY <1>1
<1>3. /\ call' = [call EXCEPT ![c] = k] /\ UNCHANGED <<rowVars, cache, reader, stale>>
      /\ call[c].pc = "new"
  BY DEF Update, Fresh
<1> HIDE DEF todo
<1>4. k \in Request /\ k.pc = "write" /\ k.op = "update" /\ k.who = {}
  BY <1>2, SomeSpace DEF Request, CallPc, AllOps
<1> HIDE DEF k
<1>5. Orderly(k) /\ \A v : ~Tells(call[c], v, memberDepartmentIds(v))
  BY <1>3, <1>4 DEF Orderly, Tells
<1>. QED  BY <1>3, <1>4, <1>5, GoesOn

LEMMA AskSafe == ASSUME AccessInv, NEW c \in 1..Calls, Ask(c) PROVE AccessInv'
<1>0. /\ departments \subseteq Departments /\ spaces \subseteq Spaces
      /\ (CHOOSE w \in Spaces : TRUE) \in Spaces /\ (CHOOSE u \in Users : TRUE) \in Users
      /\ "viewer" \in Role /\ "owner" \in Role
      /\ {"inval", "write", "count"} \subseteq CallPc \ {"list"}
  BY DEF AccessInv, Shapes, RowShapes, Role, CallPc
<1>1. ASSUME NEW u \in Users, Create(c, u) PROVE AccessInv'
  BY <1>0, <1>1, BeginSafe DEF Create, AllOps
<1>2. ASSUME NEW w \in Spaces, NEW u \in Users, AddMember(c, w, u) PROVE AccessInv'
  BY <1>0, <1>2, BeginSafe DEF AddMember, AllOps
<1>3. ASSUME NEW w \in Spaces, NEW u \in Users, UpdateMember(c, w, u) PROVE AccessInv'
  BY <1>0, <1>3, BeginSafe DEF UpdateMember, AllOps
<1>4. ASSUME NEW w \in Spaces, NEW u \in Users, RemoveMember(c, w, u) PROVE AccessInv'
  BY <1>0, <1>4, BeginSafe DEF RemoveMember, AllOps
<1>5. ASSUME NEW w \in Spaces, Remove(c, w) PROVE AccessInv'
  <2> DEFINE who == {u \in Users : role[w][u] # NoRole}
  <2>1. who \in SUBSET Users
    OBVIOUS
  <2>2. Begin(c, "write", "remove", w, CHOOSE u \in Users : TRUE, NoDepartment, "viewer", who)
    BY <1>5 DEF Remove
  <2> HIDE DEF who
  <2>. QED  BY <1>0, <2>1, <2>2, BeginSafe DEF AllOps
<1>6. ASSUME NEW op \in Ops, NEW d \in Departments, NEW u \in Users, InDepartment(c, op, d, u)
      PROVE  AccessInv'
  BY <1>0, <1>6, BeginSafe DEF InDepartment, AllOps
<1>7. ASSUME NEW d \in Departments, RemoveDepartment(c, d) PROVE AccessInv'
  BY <1>0, <1>7, BeginSafe DEF RemoveDepartment, AllOps
<1>. QED  BY <1>1, <1>2, <1>3, <1>4, <1>5, <1>6, <1>7, UpdateSafe DEF Ask
-----------------------------------------------------------------------------
(* the steps of a request *)

LEMMA OverRequest ==
  ASSUME NEW c, Over(c)
  PROVE  \E k \in Request : /\ call' = [call EXCEPT ![c] = k]
                            /\ k.pc = "over" /\ Orderly(k)
<1> DEFINE k == [NoCall EXCEPT !.pc = "over"]
<1>1. call' = [call EXCEPT ![c] = k]
  BY DEF Over
<1>2. k \in Request /\ k.pc = "over" /\ k.op = "create" /\ k.todo = <<>>
  BY SomeSpace DEF Request, CallPc
<1> HIDE DEF k
<1>. QED  BY <1>1, <1>2 DEF Orderly

\* the request in c goes on at p, and is the same otherwise
LEMMA NextRequest ==
  ASSUME Shapes, NEW c \in 1..Calls, NEW p \in CallPc
  PROVE  LET k == [call[c] EXCEPT !.pc = p] IN
         /\ k \in Request /\ k.pc = p /\ k.op = call[c].op
         /\ k.who = call[c].who /\ k.todo = call[c].todo
BY DEF Shapes, Request

LEMMA CountSafe == ASSUME AccessInv, NEW c \in 1..Calls, Count(c) PROVE AccessInv'
<1>0. /\ Shapes /\ call[c].pc = "count" /\ Orderly(call[c])
      /\ UNCHANGED <<rowVars, cache, reader, stale>>
      /\ \A v : ~Tells(call[c], v, memberDepartmentIds(v))
  BY DEF AccessInv, Shapes, Count, Tells
<1>1. CASE Over(c)
  BY <1>0, <1>1, OverRequest, GoesOn
<1>2. CASE call' = [call EXCEPT ![c].pc = "write"]
  <2> DEFINE k == [call[c] EXCEPT !.pc = "write"]
  <2>1. /\ k \in Request /\ k.pc = "write" /\ k.op = call[c].op
        /\ k.who = call[c].who /\ k.todo = call[c].todo
    BY <1>0, NextRequest DEF CallPc
  <2>2. call' = [call EXCEPT ![c] = k]
    BY <1>2
  <2> HIDE DEF k
  <2>3. Orderly(k)
    BY <1>0, <2>1 DEF Orderly
  <2>. QED  BY <1>0, <2>1, <2>2, <2>3, GoesOn
<1>. QED  BY <1>1, <1>2 DEF Count

LEMMA FailSafe == ASSUME AccessInv, NEW c \in 1..Calls, Fail(c) PROVE AccessInv'
<1>1. PICK k \in Request : call' = [call EXCEPT ![c] = k] /\ k.pc = "over" /\ Orderly(k)
  BY OverRequest DEF Fail
<1>2. ASSUME NEW u \in Watched \ stale', Tells(call[c], u, memberDepartmentIds(u)) PROVE FALSE
  <2>1. u \in Untold(c)
    BY <1>2 DEF Untold, Tells
  <2>. QED  BY <1>2, <2>1 DEF Fail
<1>3. UNCHANGED <<rowVars, cache, reader>> /\ \A u \in stale : u \in stale'
  BY DEF Fail
<1>. QED  BY <1>1, <1>2, <1>3, GoesOn

LEMMA ListSafe == ASSUME AccessInv, NEW c \in 1..Calls, List(c) PROVE AccessInv'
<1> DEFINE who  == {u \in Users : Head(call[c].todo) \in memberDepartmentIds(u)}
           todo == Tail(call[c].todo)
           k == [call[c] EXCEPT !.pc = "inval", !.todo = todo, !.who = who]
<1>0. /\ call[c] \in Request /\ Orderly(call[c]) /\ call[c].pc = "list"
      /\ UNCHANGED <<rowVars, cache, reader, stale>> /\ call' = [call EXCEPT ![c] = k]
  BY DEF AccessInv, Shapes, List
<1>1. call[c].todo \in Seq(Departments) /\ call[c].todo # <<>> /\ call[c].op = "update"
  BY <1>0 DEF Request, Orderly
<1>2. todo \in Seq(Departments) /\ who \in SUBSET Users
  BY <1>1
<1>3. ASSUME NEW u \in Users, NEW i \in DOMAIN call[c].todo, call[c].todo[i] \in memberDepartmentIds(u)
      PROVE  u \in who \/ \E j \in DOMAIN todo : todo[j] \in memberDepartmentIds(u)
  <2>1. CASE i = 1
    BY <1>1, <1>3, <2>1
  <2>2. CASE i # 1
    <3>1. i - 1 \in DOMAIN todo /\ todo[i - 1] = call[c].todo[i]
      BY <1>1, <1>3, <2>2
    <3>. QED  BY <1>3, <3>1
  <2>. QED  BY <2>1, <2>2
<1> HIDE DEF who, todo
<1>4. k \in Request /\ k.pc = "inval" /\ k.op = "update" /\ k.who = who /\ k.todo = todo
  BY <1>0, <1>1, <1>2 DEF Request, CallPc
<1> HIDE DEF k
<1>5. Orderly(k)
  BY <1>4 DEF Orderly
<1>6. \A u \in Watched :
        Tells(call[c], u, memberDepartmentIds(u)) => Tells(k, u, memberDepartmentIds(u))
  BY <1>0, <1>3, <1>4 DEF Tells
<1>. QED  BY <1>0, <1>4, <1>5, <1>6, GoesOn

LEMMA MirrorSafe == ASSUME AccessInv, NEW c \in 1..Calls, Mirror(c) PROVE AccessInv'
<1> DEFINE k == [call[c] EXCEPT !.pc = "inval"]
<1>0. /\ Shapes /\ RowShapes /\ Orderly(call[c]) /\ call[c].pc = "mirror"
      /\ UNCHANGED <<departments, spaces, departmentOf, role, cache, reader>>
      /\ call' = [call EXCEPT ![c] = k] /\ Changed(call[c].who)
  BY DEF AccessInv, Shapes, Mirror
<1>1. /\ k \in Request /\ k.pc = "inval" /\ k.op = call[c].op
      /\ k.who = call[c].who /\ k.todo = call[c].todo
  BY <1>0, NextRequest DEF CallPc
<1> HIDE DEF k
<1>2. Orderly(k)
  BY <1>0, <1>1 DEF Orderly
<1>3. RowShapes'
  BY <1>0 DEF RowShapes
<1>7. call[c].op # "create"
  BY <1>0 DEF Orderly
<1>4. \A u : /\ Tells(call[c], u, memberDepartmentIds(u)) => Tells(k, u, memberDepartmentIds(u))
             /\ u \in call[c].who => Tells(k, u, memberDepartmentIds(u)')
  BY <1>0, <1>1, <1>7 DEF Tells
<1>5. \A u \in Watched \ stale' : u \notin stale /\ (Same(u) \/ (reader[u].pc = "idle" /\ u \in call[c].who))
  <2>1. ASSUME NEW u \in Watched \ stale' PROVE u \notin stale /\ (Differs(u) => reader[u].pc = "idle" /\ u \in call[c].who)
    BY <1>0, <2>1 DEF Changed, Differs
  <2>. QED  BY <2>1, SameOrDiffers
<1>. QED  BY <1>0, <1>1, <1>2, <1>3, <1>4, <1>5, RowsChange

LEMMA InvalidateSafe == ASSUME AccessInv, NEW c \in 1..Calls, Invalidate(c) PROVE AccessInv'
<1>0. /\ Shapes /\ call[c] \in Request /\ Orderly(call[c]) /\ call[c].pc = "inval"
      /\ UNCHANGED rowVars /\ reader' = reader /\ cache \in [Users -> Whitelist]
      /\ cache' = [u \in Users |-> IF u \in call[c].who THEN Empty ELSE cache[u]]
      /\ stale' = {u \in stale : u \notin call[c].who \/ reader[u].pc # "idle"}
  BY DEF AccessInv, Shapes, Invalidate
<1>1. PICK k \in Request :
        /\ call' = [call EXCEPT ![c] = k] /\ Orderly(k)
        /\ call[c].todo # <<>> => /\ k.pc = "list" /\ k.todo = call[c].todo
                                  /\ k.op = call[c].op /\ k.op = "update"
  <2>1. CASE call[c].op # "create" /\ call[c].todo # <<>>
    <3> DEFINE k == [call[c] EXCEPT !.pc = "list"]
    <3>1. /\ k \in Request /\ k.pc = "list" /\ k.op = call[c].op
          /\ k.who = call[c].who /\ k.todo = call[c].todo
      BY <1>0, NextRequest DEF CallPc
    <3>2. call' = [call EXCEPT ![c] = k]
      BY <2>1 DEF Invalidate
    <3>3. call[c].op = "update"
      BY <1>0, <2>1 DEF Orderly
    <3> HIDE DEF k
    <3>. QED  BY <1>0, <2>1, <3>1, <3>2, <3>3 DEF Orderly
  <2>2. CASE call[c].op = "create"
    <3> DEFINE k == [call[c] EXCEPT !.pc = "commit"]
    <3>1. /\ k \in Request /\ k.pc = "commit" /\ k.op = call[c].op
          /\ k.who = call[c].who /\ k.todo = call[c].todo
      BY <1>0, NextRequest DEF CallPc
    <3>2. call' = [call EXCEPT ![c] = k]
      BY <2>2 DEF Invalidate
    <3>3. call[c].todo = <<>>
      BY <1>0, <2>2 DEF Orderly
    <3> HIDE DEF k
    <3>. QED  BY <1>0, <2>2, <3>1, <3>2, <3>3 DEF Orderly
  <2>3. CASE call[c].op # "create" /\ call[c].todo = <<>>
    <3>1. Over(c)
      BY <2>3 DEF Invalidate
    <3>. QED  BY <2>3, <3>1, OverRequest
  <2>. QED  BY <2>1, <2>2, <2>3
<1>2. /\ call' \in [1..Calls -> Request] /\ call'[c] = k
      /\ \A b \in (1..Calls) \ {c} : call'[b] = call[b]
      /\ \A b \in 1..Calls : Orderly(call'[b])
  BY <1>0, <1>1, OneCall DEF Shapes
<1>3. /\ RowShapes' = RowShapes
      /\ \A v : /\ Visible(v)' = Visible(v) /\ RoleIds(v)' = RoleIds(v)
                /\ memberDepartmentIds(v)' = memberDepartmentIds(v)
  BY <1>0 DEF rowVars, RowShapes, Visible, getRole, RoleIds, memberDepartmentIds
<1>4. Empty \in Whitelist /\ Empty.ids = {}
  BY DEF Empty, Whitelist
<1>5. Shapes'
  <2>1. cache' \in [Users -> Whitelist]
    BY <1>0, <1>4
  <2>. QED  BY <1>0, <1>2, <1>3, <2>1 DEF Shapes
<1>6. ASSUME NEW u \in Watched, u \notin stale' PROVE Reading(u)' /\ Right(u)'
  <2>1. CASE u \in call[c].who
    <3>1. cache'[u].ids = {}
      BY <1>0, <1>4, <2>1
    <3>2. reader[u].pc = "idle" \/ u \notin stale
      BY <1>0, <1>6
    <3>. QED  BY <1>0, <1>3, <3>1, <3>2 DEF AccessInv, Reading, Right
  <2>2. CASE u \notin call[c].who
    <3>1. u \notin stale /\ cache'[u] = cache[u]
      BY <1>0, <1>6, <2>2
    <3>2. Told(u) => Told(u)'
      <4>1. ASSUME NEW b \in 1..Calls, Tells(call[b], u, memberDepartmentIds(u))
            PROVE  Tells(call'[b], u, memberDepartmentIds(u)')
        <5>1. CASE b = c
          <6>1. PICK i \in DOMAIN call[c].todo : call[c].todo[i] \in memberDepartmentIds(u)
            BY <1>0, <2>2, <4>1, <5>1 DEF Tells
          <6>2. call[c].todo # <<>>
            BY <6>1
          <6>. QED  BY <1>1, <1>2, <1>3, <5>1, <6>1, <6>2 DEF Tells
        <5>2. CASE b # c
          BY <1>2, <1>3, <4>1, <5>2
        <5>. QED  BY <5>1, <5>2
      <4>. QED  BY <4>1 DEF Told
    <3>. QED  BY <1>0, <1>3, <3>1, <3>2 DEF AccessInv, Reading, Right
  <2>. QED  BY <2>1, <2>2
<1>. QED  BY <1>5, <1>6 DEF AccessInv

LEMMA CommitSafe == ASSUME AccessInv, NEW c \in 1..Calls, Commit(c) PROVE AccessInv'
<1>0. RowShapes /\ call[c] \in Request /\ call[c].pc = "commit"
  BY DEF AccessInv, Shapes, Commit
<1>1. PICK k \in Request : call' = [call EXCEPT ![c] = k] /\ k.pc = "over" /\ Orderly(k)
  BY OverRequest DEF Commit
<1>2. call[c].w \in Spaces /\ call[c].u \in Users /\ call[c].d \in departments
  BY <1>0 DEF Request, Commit
<1>3. RowShapes'
  <2> DEFINE w == call[c].w
             founded == [u \in Users |-> IF u = call[c].u THEN "owner" ELSE NoRole]
  <2>1. /\ spaces' = spaces \union {w} /\ departments' = departments
        /\ departmentOf' = [departmentOf EXCEPT ![w] = call[c].d]
        /\ role' = [role EXCEPT ![w] = founded]
    BY DEF Commit
  <2>2. founded \in [Users -> Role \union {NoRole}]
    BY DEF Role
  <2> HIDE DEF founded
  <2>. QED  BY <1>0, <1>2, <2>1, <2>2 DEF RowShapes
<1>4. \A v : ~Tells(call[c], v, memberDepartmentIds(v))
  BY <1>0 DEF Tells
<1>5. UNCHANGED <<cache, reader>> /\ Changed({})
  BY DEF Commit
<1>6. \A u \in Watched \ stale' : u \notin stale /\ Same(u)
  <2>1. ASSUME NEW u \in Watched \ stale' PROVE u \notin stale /\ (Differs(u) => reader[u].pc = "idle" /\ u \in {})
    BY <1>5, <2>1 DEF Changed, Differs
  <2>. QED  BY <2>1, SameOrDiffers
<1>. QED  BY <1>1, <1>3, <1>4, <1>5, <1>6, RowsChange

LEMMA WriteSafe == ASSUME AccessInv, NEW c \in 1..Calls, Write(c) PROVE AccessInv'
<1> DEFINE r == call[c]
<1>0. /\ Shapes /\ RowShapes /\ r \in Request /\ Orderly(r) /\ r.pc = "write"
      /\ UNCHANGED <<cache, reader>> /\ Changed(Announces(c)) /\ ~Refused(c)
      /\ r.w \in Spaces /\ r.r \in Role /\ r.d \in Departments \union {NoDepartment}
  BY DEF AccessInv, Shapes, Write, Request
<1>1. RowShapes'
  <2>1. ASSUME NEW x \in Role \union {NoRole}, SetRole(r.w, r.u, x), r.w \in spaces \/ x = NoRole
        PROVE  RowShapes'
    BY <1>0, <2>1 DEF SetRole, RowShapes
  <2>2. CASE r.op \in {"addMember", "updateMember", "removeMember"}
    <3>1. r.w \in spaces \/ r.op # "addMember"
      BY <1>0 DEF Refused
    <3>2. r.w \in spaces \/ \A u \in Users : role[r.w][u] = NoRole
      BY <1>0 DEF RowShapes
    <3>3. r.u \in Users
      BY <1>0 DEF Request
    <3>. QED  BY <1>0, <2>1, <2>2, <3>1, <3>2, <3>3 DEF Write
  <2>3. CASE r.op = "update"
    <3>1. Move(r.w, r.d)
      BY <2>3 DEF Write
    <3>. QED  BY <1>0, <3>1 DEF Move, RowShapes
  <2>4. CASE r.op = "remove"
    <3>1. DropSpace(r.w)
      BY <2>4 DEF Write
    <3>2. [u \in Users |-> NoRole] \in [Users -> Role \union {NoRole}]
      OBVIOUS
    <3>. QED  BY <1>0, <3>1, <3>2 DEF DropSpace, RowShapes
  <2>5. CASE r.op \in {"deptAdd", "deptRemove", "adminAdd", "adminRemove"}
    BY <1>0, <2>5 DEF Write, SetMembers, SetAdmins, RowShapes
  <2>6. CASE r.op = "removeDepartment"
    <3>1. DropDepartment(r.d)
      BY <2>6 DEF Write
    <3>. QED  BY <1>0, <3>1 DEF DropDepartment, RowShapes
  <2>7. CASE r.op = "create"
    BY <2>7 DEF Write
  <2>. QED  BY <1>0, <2>2, <2>3, <2>4, <2>5, <2>6, <2>7 DEF Request, AllOps
<1>2. \A v : ~Tells(r, v, memberDepartmentIds(v))
  BY <1>0 DEF Tells
<1>3. \A u \in Watched \ stale' :
        u \notin stale /\ (Same(u) \/ (reader[u].pc = "idle" /\ u \in Announces(c)))
  <2>1. ASSUME NEW u \in Watched \ stale' PROVE u \notin stale /\ (Differs(u) => reader[u].pc = "idle" /\ u \in Announces(c))
    BY <1>0, <2>1 DEF Changed, Differs
  <2>. QED  BY <2>1, SameOrDiffers
<1>4. \/ AfterWrite(c) = "over" /\ Over(c)
      \/ /\ AfterWrite(c) \in {"list", "mirror", "inval"}
         /\ call' = [call EXCEPT ![c].pc = AfterWrite(c)]
  BY <1>0 DEF Write, AfterWrite
<1>5. CASE AfterWrite(c) = "over" /\ Over(c)
  <2>1. PICK k \in Request : call' = [call EXCEPT ![c] = k] /\ k.pc = "over" /\ Orderly(k)
    BY <1>5, OverRequest
  <2>2. r.todo = <<>>
    BY <1>0, <1>5 DEF AfterWrite, Orderly
  <2>3. r.who = {}
    BY <1>0, <1>5 DEF AfterWrite, Orderly
  <2>4. Announces(c) = {}
    BY <2>2, <2>3 DEF Announces
  <2>. QED  BY <1>0, <1>1, <1>2, <1>3, <2>1, <2>4, RowsChange
<1>6. CASE /\ AfterWrite(c) \in {"list", "mirror", "inval"}
           /\ call' = [call EXCEPT ![c].pc = AfterWrite(c)]
  <2> DEFINE p == AfterWrite(c)
             k == [call[c] EXCEPT !.pc = p]
  <2>1. p \in CallPc
    BY <1>6 DEF CallPc
  <2> HIDE DEF p
  <2>2. k \in Request /\ k.pc = p /\ k.op = r.op /\ k.who = r.who /\ k.todo = r.todo
    BY <1>0, <2>1, NextRequest
  <2>3. call' = [call EXCEPT ![c] = k]
    BY <1>6 DEF p
  <2> HIDE DEF k
  <2>4. /\ p = "list" => r.op = "update" /\ r.todo # <<>>
        /\ r.op = "update" => p = "list"
        /\ p \in {"list", "mirror", "inval"}
    BY <1>6 DEF p, AfterWrite
  <2>0. r.op # "create"
    BY <1>0 DEF Orderly
  <2>5. Orderly(k)
    BY <1>0, <2>0, <2>2, <2>4 DEF Orderly
  <2>6. ASSUME NEW u \in Watched, u \in Announces(c) PROVE Tells(k, u, memberDepartmentIds(u)')
    <3>1. CASE r.op = "update"
      <4>1. memberDepartmentIds(u)' = memberDepartmentIds(u)
        BY <1>0, <3>1 DEF Write, Move, memberDepartmentIds
      <4>2. r.who = {}
        BY <1>0, <3>1 DEF Orderly
      <4>. QED  BY <2>0, <2>2, <2>4, <2>6, <3>1, <4>1, <4>2 DEF Announces, Tells
    <3>2. CASE r.op # "update"
      <4>1. r.todo = <<>>
        BY <1>0, <3>2 DEF Orderly
      <4>2. u \in r.who
        BY <2>6, <4>1 DEF Announces
      <4>. QED  BY <2>0, <2>2, <2>4, <3>2, <4>2 DEF Tells
    <3>. QED  BY <3>1, <3>2
  <2>. QED  BY <1>0, <1>1, <1>2, <1>3, <2>2, <2>3, <2>5, <2>6, RowsChange
<1>. QED  BY <1>4, <1>5, <1>6

LEMMA StepSafe == ASSUME AccessInv, NEW c \in 1..Calls, Step(c) PROVE AccessInv'
BY CountSafe, WriteSafe, FailSafe, MirrorSafe, ListSafe, InvalidateSafe, CommitSafe DEF Step
-----------------------------------------------------------------------------
(* the specification *)

LEMMA AccessBegins == Init => AccessInv
<1> SUFFICES ASSUME Init PROVE AccessInv
  OBVIOUS
<1>1. RowShapes
  <2>1. (CHOOSE d \in Departments : TRUE) \in Departments
    OBVIOUS
  <2>2. departmentOf \in [Spaces -> Departments \union {NoDepartment}]
    BY <2>1 DEF Init
  <2>3. PICK founder \in Users :
          role = [w \in Spaces |-> [u \in Users |->
                    IF w # NewSpace /\ u = founder THEN "owner" ELSE NoRole]]
    BY DEF Init
  <2>4. \A w \in Spaces \ spaces : w = NewSpace
    BY DEF Init
  <2>5. role \in [Spaces -> [Users -> Role \union {NoRole}]]
    BY <2>3 DEF Role
  <2>. QED  BY <2>2, <2>3, <2>4, <2>5 DEF Init, RowShapes
<1>2. /\ Empty \in Whitelist /\ Empty.ids = {}
      /\ Idle \in Reader /\ Idle.pc = "idle"
  BY DEF Empty, Whitelist, Idle, Reader
<1>3. Orderly(NoCall) /\ NoCall \in Request
  BY SomeSpace DEF NoCall, Orderly
<1>4. /\ cache = [u \in Users |-> Empty] /\ reader = [u \in Users |-> Idle]
      /\ call = [c \in 1..Calls |-> NoCall]
  BY DEF Init
<1>5. Shapes
  BY <1>1, <1>2, <1>3, <1>4 DEF Shapes
<1>6. ASSUME NEW u \in Watched PROVE Reading(u) /\ Right(u)
  BY <1>2, <1>4 DEF Reading, Right
<1>. QED  BY <1>5, <1>6 DEF AccessInv

LEMMA AccessGoesOn == AccessInv /\ [Next]_vars => AccessInv'
<1> SUFFICES ASSUME AccessInv, [Next]_vars PROVE AccessInv'
  OBVIOUS
<1>1. CASE Next
  BY <1>1, ReaderSafe, AskSafe, StepSafe DEF Next
<1>2. CASE UNCHANGED vars
  <2>1. UNCHANGED <<rowVars, cache, reader, call, stale>>
    BY <1>2 DEF vars
  <2>2. /\ RowShapes' = RowShapes
        /\ \A v : /\ Visible(v)' = Visible(v) /\ RoleIds(v)' = RoleIds(v)
                  /\ memberDepartmentIds(v)' = memberDepartmentIds(v)
    BY <2>1 DEF rowVars, RowShapes, Visible, getRole, RoleIds, memberDepartmentIds
  <2>3. \A v : Told(v)' = Told(v)
    BY <2>1, <2>2 DEF Told
  <2>4. Shapes' = Shapes
    BY <2>1, <2>2 DEF Shapes
  <2>5. \A v : Reading(v)' = Reading(v) /\ Right(v)' = Right(v)
    BY <2>1, <2>2, <2>3 DEF Reading, Right
  <2>. QED  BY <2>1, <2>4, <2>5 DEF AccessInv
<1>. QED  BY <1>1, <1>2

\* When no request is still to delete keys, nobody is told any more: what is
\* cached is right.
LEMMA InvGivesRight == AccessInv => StaleOnlyByRace
<1> SUFFICES ASSUME AccessInv, Quiet, NEW u \in Watched, u \notin stale, cache[u].ids # {}
             PROVE  cache[u].ids = Visible(u)
  BY DEF StaleOnlyByRace
<1>1. Right(u)
  BY DEF AccessInv
<1>2. ~Told(u)
  BY DEF Quiet, Told, Tells
<1>. QED  BY <1>1, <1>2 DEF Right

\* A whitelist in Redis (acl.service.ts, getWhitelist) names what the guard
\* would let its user read (getRole), whatever requests have changed members,
\* departments and workspaces, unless a change overtook its reader or broke
\* off before it deleted the key; for any number of requests and users.
THEOREM WhitelistsRight == Spec => []StaleOnlyByRace
<1>1. Spec => []AccessInv
  BY AccessBegins, AccessGoesOn, PTL DEF Spec
<1>. QED  BY <1>1, InvGivesRight, PTL
=============================================================================
