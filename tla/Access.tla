------------------------------- MODULE Access -------------------------------
(***************************************************************************)
(* Who may read which workspace: membership rows in PostgreSQL             *)
(* (workspaces.service.ts, departments.service.ts, admin.service.ts), and  *)
(* the whitelist of each user cached in Redis (acl.service.ts).  A call is *)
(* one HTTP request that changes rows: it checks, writes, and deletes the  *)
(* whitelists it knows of, one await each.  A reader computes a whitelist  *)
(* and stores it.  Audit records, names and listings change no decision    *)
(* and are left out.                                                       *)
(***************************************************************************)
EXTENDS Integers, Sequences, FiniteSets

CONSTANTS Users, Spaces, Departments,
          Sysadmins,     \* those of the users who are
          NoDepartment,  \* a workspace whose department was removed
          Watched,       \* bound: whose whitelists are followed; no two of them interact
          NewSpace,      \* the workspace that is not there yet
          Calls,         \* bound: requests that change memberships
          Ops            \* the operations they may be

\* an editor sees what a viewer sees and counts as one here
Role   == {"viewer", "owner"}
NoRole == "none"
AllOps == {"create", "addMember", "updateMember", "removeMember", "update", "remove",
           "deptAdd", "deptRemove", "adminAdd", "adminRemove", "removeDepartment"}

ASSUME AccessAssumption ==
  /\ NoDepartment \notin Departments
  /\ Users # {} /\ Departments # {}
  /\ Watched \subseteq Users /\ Sysadmins \subseteq Users
  /\ NewSpace \in Spaces
  /\ Calls \in Nat
  /\ Ops \subseteq AllOps

VARIABLES
  departments,  \* rows of departments
  spaces,       \* rows of workspaces
  departmentOf, \* workspaces.department_id
  role,         \* role[w][u]: rows of workspace_members
  members,      \* rows of department_members
  admins,       \* rows of department_admins
  cache,        \* acl:whitelist:{u}: the set, and whether it has a TTL
  reader,       \* getWhitelist(u) in progress
  call,         \* the requests
  stale         \* ghost: users whose whitelist, cached or under way, a change
                \* overtook or did not announce

rowVars == <<departments, spaces, departmentOf, role, members, admins>>
vars == <<rowVars, cache, reader, call, stale>>

Idle   == [pc |-> "idle", ids |-> {}, deps |-> {}]
NoCall == [pc |-> "new", op |-> "create", w |-> CHOOSE w \in Spaces : TRUE,
           u |-> CHOOSE u \in Users : TRUE, d |-> NoDepartment, r |-> "viewer",
           who |-> {}, todo |-> <<>>]
Empty  == [ids |-> {}, ttl |-> FALSE]

CallPc == {"new", "count", "write", "mirror", "list", "inval", "commit", "over"}

\* Every variable stays in its type; no row refers to a workspace or a
\* department that is gone.
TypeOK ==
  /\ departments \subseteq Departments
  /\ spaces \subseteq Spaces
  /\ departmentOf \in [Spaces -> Departments \union {NoDepartment}]
  /\ role \in [Spaces -> [Users -> Role \union {NoRole}]]
  /\ \A w \in Spaces \ spaces, u \in Users : role[w][u] = NoRole
  /\ members \subseteq departments \X Users
  /\ admins \subseteq departments \X Users
  /\ \A w \in spaces : departmentOf[w] \in departments \union {NoDepartment}
  /\ cache \in [Users -> [ids : SUBSET Spaces, ttl : BOOLEAN]]
  /\ reader \in [Users -> [pc : {"idle", "members", "departments", "spaces", "fill"},
                           ids : SUBSET Spaces, deps : SUBSET Departments]]
  /\ call \in [1..Calls -> [pc : CallPc, op : AllOps, w : Spaces, u : Users,
                         d : Departments \union {NoDepartment}, r : Role,
                         who : SUBSET Users, todo : Seq(Departments)]]
  /\ stale \subseteq Watched

\* all workspaces are one user's and in one department, with any members and
\* admins
Init ==
  /\ departments = Departments
  /\ spaces = Spaces \ {NewSpace}
  /\ \E founder \in Users :
       role = [w \in Spaces |-> [u \in Users |->
                 IF w # NewSpace /\ u = founder THEN "owner" ELSE NoRole]]
  /\ LET d == CHOOSE d \in Departments : TRUE IN
       /\ departmentOf = [w \in Spaces |-> IF w = NewSpace THEN NoDepartment ELSE d]
       /\ \E m \in SUBSET Users : \E a \in SUBSET m : members = {d} \X m /\ admins = {d} \X a
  /\ cache = [u \in Users |-> Empty]
  /\ reader = [u \in Users |-> Idle]
  /\ call = [c \in 1..Calls |-> NoCall]
  /\ stale = {}
-----------------------------------------------------------------------------
(* acl.service.ts, over the rows as they are *)

memberDepartmentIds(u) == {d \in Departments : <<d, u>> \in members \union admins}

getRole(u, w) ==
  IF role[w][u] # NoRole THEN role[w][u]
  ELSE IF w \in spaces /\ departmentOf[w] # NoDepartment
          /\ departmentOf[w] \in memberDepartmentIds(u)
         THEN "viewer" ELSE NoRole

\* what a whitelist should be, in the guard's words
Visible(u) == {w \in spaces : getRole(u, w) # NoRole}
-----------------------------------------------------------------------------
(* getWhitelist *)

\* an empty set is no hit: Redis has no empty sets
GetCached(u) ==
  /\ reader[u].pc = "idle" /\ cache[u].ids = {}
  /\ reader' = [reader EXCEPT ![u] = [Idle EXCEPT !.pc = "members"]]
  /\ stale' = stale \ {u}
  /\ UNCHANGED <<rowVars, cache, call>>

ReadMembers(u) ==
  /\ reader[u].pc = "members"
  /\ reader' = [reader EXCEPT ![u].pc = "departments",
                              ![u].ids = {w \in Spaces : role[w][u] # NoRole}]
  /\ UNCHANGED <<rowVars, cache, call, stale>>

ReadDepartments(u) ==
  /\ reader[u].pc = "departments"
  /\ reader' = [reader EXCEPT ![u].pc = "spaces", ![u].deps = memberDepartmentIds(u)]
  /\ UNCHANGED <<rowVars, cache, call, stale>>

ReadSpaces(u) ==
  /\ reader[u].pc = "spaces"
  /\ reader' = [reader EXCEPT ![u].pc = "fill",
       ![u].ids = @ \union {w \in spaces : departmentOf[w] \in reader[u].deps}]
  /\ UNCHANGED <<rowVars, cache, call, stale>>

\* mutant of refreshSet: the key never expires
refreshSetForever(ids) == [ids |-> ids, ttl |-> FALSE]

\* DEL, SADD and EXPIRE in one pipeline
refreshSet(ids) == [ids |-> ids, ttl |-> ids # {}]

Fill(u) ==
  /\ reader[u].pc = "fill"
  /\ cache' = [cache EXCEPT ![u] = refreshSet(reader[u].ids)]
  /\ reader' = [reader EXCEPT ![u] = Idle]
  /\ UNCHANGED <<rowVars, call, stale>>

\* hits do not renew it
Expire(u) ==
  /\ cache[u].ttl
  /\ cache' = [cache EXCEPT ![u] = Empty]
  /\ UNCHANGED <<rowVars, reader, call, stale>>
-----------------------------------------------------------------------------
(* calls: the checks *)

\* requests are alike: they begin in order
Fresh(c) == call[c].pc = "new" /\ \A b \in 1..(c - 1) : call[b].pc # "new"

\* the request is answered
Over(c) == call' = [call EXCEPT ![c] = [NoCall EXCEPT !.pc = "over"]]

Begin(c, p, op, w, u, d, r, who) ==
  /\ op \in Ops /\ Fresh(c)
  /\ call' = [call EXCEPT ![c] = [pc |-> p, op |-> op, w |-> w, u |-> u, d |-> d, r |-> r,
                                  who |-> who, todo |-> <<>>]]
  /\ UNCHANGED <<rowVars, cache, reader, stale>>

\* a department's admin, or a sysadmin, creates a workspace in it; the rows
\* are not committed before the whitelist is deleted
Create(c, u) ==
  \E w \in Spaces \ spaces, d \in departments :
    /\ u \in Sysadmins \/ <<d, u>> \in admins
    /\ \A b \in 1..Calls : call[b].op = "create" => call[b].w # w \/ call[b].pc = "new"
    /\ Begin(c, "inval", "create", w, u, d, "owner", {u})

AddMember(c, w, u) ==
  \E r \in Role :
    /\ w \in spaces /\ role[w][u] = NoRole
    /\ Begin(c, "write", "addMember", w, u, NoDepartment, r, {u})

UpdateMember(c, w, u) ==
  \E r \in Role :
    /\ w \in spaces /\ role[w][u] # NoRole
    /\ Begin(c, "write", "updateMember", w, u, NoDepartment, r, {u})

\* an owner is removed only after the owners are counted
RemoveMember(c, w, u) ==
  /\ w \in spaces /\ role[w][u] # NoRole
  /\ Begin(c, IF role[w][u] = "owner" THEN "count" ELSE "write",
           "removeMember", w, u, NoDepartment, "viewer", {u})

Count(c) ==
  LET w == call[c].w IN
  /\ call[c].pc = "count"
  /\ IF Cardinality({u \in Users : role[w][u] = "owner"}) <= 1
       THEN Over(c) ELSE call' = [call EXCEPT ![c].pc = "write"]
  /\ UNCHANGED <<rowVars, cache, reader, stale>>

\* a workspace moves to another department; before is read now
Update(c, w, d) ==
  /\ w \in spaces /\ d \in departments /\ "update" \in Ops /\ Fresh(c)
  /\ call' = [call EXCEPT ![c] = [NoCall EXCEPT !.pc = "write", !.op = "update", !.w = w, !.d = d,
       !.todo = IF departmentOf[w] = d THEN <<>>
                ELSE IF departmentOf[w] = NoDepartment THEN <<d>> ELSE <<departmentOf[w], d>>]]
  /\ UNCHANGED <<rowVars, cache, reader, stale>>

\* an empty workspace is removed; its members are listed before
Remove(c, w) ==
  /\ w \in spaces
  /\ Begin(c, "write", "remove", w, CHOOSE u \in Users : TRUE, NoDepartment, "viewer",
           {u \in Users : role[w][u] # NoRole})

InDepartment(c, op, d, u) ==
  /\ op \in {"deptAdd", "deptRemove", "adminAdd", "adminRemove"}
  /\ Begin(c, "write", op, CHOOSE w \in Spaces : TRUE, u, d, "viewer", {u})

RemoveDepartment(c, d) ==
  Begin(c, "write", "removeDepartment", CHOOSE w \in Spaces : TRUE,
        CHOOSE u \in Users : TRUE, d, "viewer", {})
-----------------------------------------------------------------------------
(* calls: the rows, and the whitelists *)

\* mutant of AfterWrite: the whitelist is left to its TTL
AfterWriteLazy(c) == "over"

AfterWrite(c) ==
  CASE call[c].op = "update" -> IF call[c].todo = <<>> THEN "over" ELSE "list"
    [] call[c].op \in {"adminAdd", "adminRemove"} -> "mirror"
    [] call[c].op = "removeDepartment" -> "over"
    [] OTHER -> "inval"

\* whom this call is going to tell
Announces(c) ==
  call[c].who \union {u \in Users : \E i \in DOMAIN call[c].todo : call[c].todo[i] \in memberDepartmentIds(u)}

\* ghost: a change of what a user belongs to, or sees, overtakes a reader, or
\* is not going to be told
Changed(told) ==
  stale' = stale \union {u \in Watched :
    /\ \/ memberDepartmentIds(u)' # memberDepartmentIds(u)
       \/ Visible(u)' # Visible(u)
       \/ \E w \in Spaces : role[w][u]' # role[w][u]
    /\ reader[u].pc # "idle" \/ u \notin told}

\* the keys a write refers to are gone: PostgreSQL refuses it
Refused(c) ==
  \/ call[c].op = "addMember" /\ call[c].w \notin spaces
  \/ call[c].op \in {"deptAdd", "adminAdd", "adminRemove", "update"} /\ call[c].d \notin departments

\* whom this call, which has written, has still to tell.  What a creation
\* writes is rolled back when it does not come to its end.
Untold(c) ==
  {u \in Watched : /\ call[c].op # "create"
                   /\ \/ call[c].pc \in {"mirror", "inval"} /\ u \in call[c].who
                      \/ /\ call[c].pc \in {"list", "inval"}
                         /\ \E i \in DOMAIN call[c].todo : call[c].todo[i] \in memberDepartmentIds(u)}

\* the request breaks off: PostgreSQL refuses a row, a call to it or to Redis
\* fails, or the process dies.  The keys it has not deleted stay.
Fail(c) ==
  /\ call[c].pc \in {"count", "write", "mirror", "list", "inval", "commit"}
  /\ Over(c)
  /\ stale' = stale \union Untold(c)
  /\ UNCHANGED <<rowVars, cache, reader>>

SetRole(w, u, r) ==
  /\ role' = [role EXCEPT ![w][u] = r]
  /\ UNCHANGED <<departments, spaces, departmentOf, members, admins>>
Move(w, d) ==
  /\ departmentOf' = IF w \in spaces THEN [departmentOf EXCEPT ![w] = d] ELSE departmentOf
  /\ UNCHANGED <<departments, spaces, role, members, admins>>
DropSpace(w) ==
  /\ spaces' = spaces \ {w}
  /\ role' = [role EXCEPT ![w] = [u \in Users |-> NoRole]]
  /\ UNCHANGED <<departments, departmentOf, members, admins>>
SetMembers(rows) ==
  members' = rows /\ UNCHANGED <<departments, spaces, departmentOf, role, admins>>
SetAdmins(rows) ==
  admins' = rows /\ UNCHANGED <<departments, spaces, departmentOf, role, members>>
\* members and admins cascade, workspaces lose their department
DropDepartment(d) ==
  /\ departments' = departments \ {d}
  /\ members' = {m \in members : m[1] # d}
  /\ admins'  = {m \in admins : m[1] # d}
  /\ departmentOf' = [w \in Spaces |-> IF departmentOf[w] = d THEN NoDepartment ELSE departmentOf[w]]
  /\ UNCHANGED <<spaces, role>>

Write(c) ==
  LET k == call[c] IN
  /\ k.pc = "write" /\ ~Refused(c)
  /\ IF AfterWrite(c) = "over" THEN Over(c) ELSE call' = [call EXCEPT ![c].pc = AfterWrite(c)]
  /\ \/ k.op = "addMember"    /\ SetRole(k.w, k.u, k.r)
     \/ k.op = "updateMember" /\ SetRole(k.w, k.u, IF role[k.w][k.u] = NoRole THEN NoRole ELSE k.r)
     \/ k.op = "removeMember" /\ SetRole(k.w, k.u, NoRole)
     \/ k.op = "update"       /\ Move(k.w, k.d)
     \/ k.op = "remove"       /\ DropSpace(k.w)
     \/ k.op = "deptAdd"      /\ SetMembers(members \union {<<k.d, k.u>>})
     \/ k.op = "deptRemove"   /\ SetMembers(members \ {<<k.d, k.u>>})
     \/ k.op = "adminAdd"     /\ SetAdmins(admins \union {<<k.d, k.u>>})
     \/ k.op = "adminRemove"  /\ SetAdmins(admins \ {<<k.d, k.u>>})
     \/ k.op = "removeDepartment" /\ DropDepartment(k.d)
  /\ UNCHANGED <<cache, reader>>
  /\ Changed(Announces(c))

\* the row that makes an admin a member as well, before and after
Mirror(c) ==
  /\ call[c].pc = "mirror" /\ ~Refused(c)
  /\ members' = members \union {<<call[c].d, call[c].u>>}
  /\ call' = [call EXCEPT ![c].pc = "inval"]
  /\ UNCHANGED <<departments, spaces, departmentOf, role, admins, cache, reader>>
  /\ Changed(call[c].who)

\* invalidateDepartment lists who is in the department now
List(c) ==
  /\ call[c].pc = "list"
  /\ call' = [call EXCEPT ![c].pc = "inval", ![c].todo = Tail(@),
       ![c].who = {u \in Users : Head(call[c].todo) \in memberDepartmentIds(u)}]
  /\ UNCHANGED <<rowVars, cache, reader, stale>>

Invalidate(c) ==
  LET next == IF call[c].op = "create" THEN "commit"
              ELSE IF call[c].todo # <<>> THEN "list" ELSE "over" IN
  /\ call[c].pc = "inval"
  /\ cache' = [u \in Users |-> IF u \in call[c].who THEN Empty ELSE cache[u]]
  /\ stale' = {u \in stale : u \notin call[c].who \/ reader[u].pc # "idle"}
  /\ IF next = "over" THEN Over(c) ELSE call' = [call EXCEPT ![c].pc = next]
  /\ UNCHANGED <<rowVars, reader>>

\* the transaction of create
Commit(c) ==
  LET k == call[c] IN
  /\ k.pc = "commit" /\ k.d \in departments
  /\ Over(c)
  /\ spaces' = spaces \union {k.w}
  /\ departmentOf' = [departmentOf EXCEPT ![k.w] = k.d]
  /\ role' = [role EXCEPT ![k.w] = [u \in Users |-> IF u = k.u THEN "owner" ELSE NoRole]]
  /\ UNCHANGED <<departments, members, admins, cache, reader>>
  /\ Changed({})

Read(u) == GetCached(u) \/ ReadMembers(u) \/ ReadDepartments(u) \/ ReadSpaces(u) \/ Fill(u)
Step(c) == Count(c) \/ Write(c) \/ Fail(c) \/ Mirror(c) \/ List(c) \/ Invalidate(c) \/ Commit(c)
Ask(c)  == \/ \E u \in Users : Create(c, u)
           \/ \E w \in Spaces, u \in Users : AddMember(c, w, u) \/ UpdateMember(c, w, u) \/ RemoveMember(c, w, u)
           \/ \E w \in Spaces, d \in Departments : Update(c, w, d)
           \/ \E w \in Spaces : Remove(c, w)
           \/ \E op \in Ops, d \in Departments, u \in Users : InDepartment(c, op, d, u)
           \/ \E d \in Departments : RemoveDepartment(c, d)
Next == \/ \E u \in Watched : Read(u) \/ Expire(u)
        \/ \E c \in 1..Calls : Ask(c) \/ Step(c)

Spec == Init /\ [][Next]_vars
\* a call goes on once it has begun, a reader likewise, and Redis expires keys
FairSpec == /\ Spec
            /\ \A c \in 1..Calls : WF_vars(Step(c))
            /\ \A u \in Watched : WF_vars(Expire(u)) /\ WF_vars(Read(u) /\ reader[u].pc # "idle")
-----------------------------------------------------------------------------
(* Properties *)

Quiet == \A c \in 1..Calls : call[c].pc \in {"new", "count", "write", "over"}

\* Once the changes are through, what the retrieval may search (the whitelist)
\* is what the guard would let the user read (getRole), unless a change
\* overtook the reader that filled it, or deletes no key, or broke off after
\* its rows were written and before it deleted the key.
StaleOnlyByRace ==
  Quiet => \A u \in Watched :
    cache[u].ids # {} /\ u \notin stale => cache[u].ids = Visible(u)

\* Once a user can no longer see a workspace, the whitelist comes to say so
\* as well, whatever race had filled it: the TTL bounds every staleness.
RevokedIsForgotten ==
  \A u \in Users, w \in Spaces :
    <>[](w \notin Visible(u)) => <>[](w \notin cache[u].ids)

=============================================================================
