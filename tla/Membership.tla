------------------------------ MODULE Membership ------------------------------
(***************************************************************************)
(* Who belongs to an organization, as what, and who may still join:        *)
(* src/models/organization.ts, src/services/members.ts,                    *)
(* src/services/organization-seats.ts and the routes under                 *)
(* src/app/api/account/{team,invitations}, with the part of                *)
(* src/models/account-lifecycle.ts that takes people out again.            *)
(*                                                                         *)
(* A request is one HTTP request.  Requests wait for three kinds of        *)
(* advisory lock and for a connection of the pool, which the seat lock     *)
(* keeps while the work under it asks for another.  The members lock, the  *)
(* seat lock and the erasure know nothing of each other.  A member row is  *)
(* known by its organization and its user, an address by the user who has  *)
(* it.                                                                     *)
(***************************************************************************)
EXTENDS Integers, FiniteSets

CONSTANTS
  Org, User,
  Invitation,   \* org_invitations.id
  Request,      \* each is made once
  Asked,        \* bound: the roles that are asked for
  Leaver,       \* users who may ask for their erasure
  None,         \* null
  Start,        \* the tables to begin with: records of role, org, invite and limit
  Limits,       \* values of the organization.members limit
  Pool,         \* sizes the connection pool may have
  Changes       \* bound: changes of a limit

Role == {"owner", "admin", "member"}
Manager == {"owner", "admin"}             \* who may member:manage

(* Accepted, rejected, canceled and expired are one: the row reserves no    *)
(* seat and admits nobody any more.                                         *)
InviteType ==
  [status : {"absent", "pending", "over"},
   org : Org \union {None}, user : User \union {None}, role : Role \union {"none"},
   by : User \union {None}]

OrgType == [life : {"absent", "active", "deleted"}, personal : BOOLEAN,
            home : User \union {None}]

NoInvite == [status |-> "absent", org |-> None, user |-> None, role |-> "none", by |-> None]

ASSUME MembershipAssumption ==
  /\ None \notin Org \union User \union Invitation /\ Leaver \subseteq User
  /\ Asked \subseteq Role
  /\ Limits \subseteq Nat /\ Pool \subseteq Nat \ {0} /\ Changes \in Nat
  /\ IsFiniteSet(User) /\ IsFiniteSet(Invitation) /\ IsFiniteSet(Request)

ASSUME StartAssumption ==
  \A s \in Start :
    /\ s.role \in [Org -> [User -> Role \union {"none"}]]
    /\ s.org \in [Org -> OrgType] /\ s.limit \in [Org -> Limits]
    /\ s.invite \in [Invitation -> InviteType]
    /\ \A i \in Invitation : s.invite[i].status = "pending" =>
         s.invite[i].org \in Org /\ s.invite[i].user \in User /\ s.invite[i].role \in Role
    /\ \A o \in Org : (\E u \in User : s.role[o][u] # "none") =>
                       \E u \in User : s.role[o][u] = "owner"
    /\ \A i \in Invitation : s.invite[i].status = "pending" =>
                              \E u \in User : s.role[s.invite[i].org][u] = "owner"
    /\ \A o \in Org : s.org[o].home # None => \E p \in Org : s.role[p][s.org[o].home] # "none"
    /\ \A o, p \in Org : s.org[o].home = s.org[p].home => o = p \/ s.org[o].home = None
    /\ \A o \in Org : s.org[o].life = "absent" => \A u \in User : s.role[o][u] = "none"

VARIABLES
  role,      \* org_members: the role of each user in each organization
  org,       \* organizations
  invite,    \* org_invitations
  limit,     \* resolveLimit(organization.members) of each organization
  person,    \* users.lifecycle_status; orgs: those to tear down, and at the end those it owned
  request,   \* what each request holds in memory
  changes,
  pool       \* connections of the pool, all the time

vars == <<role, org, invite, limit, person, request, changes, pool>>
tables == <<role, org, invite, limit, person>>

Kind == {"role", "remove", "invite", "accept", "provision"}

NewRequest ==
  [pc |-> "new", kind |-> "role", org |-> None, user |-> None, role |-> "none",
   by |-> None, invite |-> None, cap |-> 0]

PersonType ==
  [status : {"active", "deletion_pending", "erasing", "checked", "gone"}, orgs : SUBSET Org]

RequestType ==
  [pc : {"new", "begin", "lock", "update", "user", "delete", "check", "supersede",
         "recheck", "insert", "accept", "join", "done"},
   kind : Kind, org : Org \union {None}, user : User \union {None},
   role : Role \union {"none"}, by : User \union {None},
   invite : Invitation \union {None}, cap : Limits \union {0}]

TypeOK ==
  /\ role \in [Org -> [User -> Role \union {"none"}]]
  /\ org \in [Org -> OrgType]
  /\ invite \in [Invitation -> InviteType]
  /\ limit \in [Org -> Limits]
  /\ person \in [User -> PersonType]
  /\ request \in [Request -> RequestType]
  /\ changes \in 0..Changes
  /\ pool \in Pool

Init ==
  /\ \E s \in Start : role = s.role /\ org = s.org /\ invite = s.invite /\ limit = s.limit
  /\ person = [u \in User |-> [status |-> "active", orgs |-> {}]]
  /\ request = [r \in Request |-> NewRequest]
  /\ changes = 0
  /\ pool \in Pool

Members(o) == {u \in User : role[o][u] # "none"}
Owners(o) == {u \in User : role[o][u] = "owner"}
Belongs(u) == \E o \in Org : role[o][u] # "none"
Waits(i) == invite[i].status = "pending"
Pending(o) == {i \in Invitation : Waits(i) /\ invite[i].org = o}
Others(o, u) == {i \in Pending(o) : invite[i].user # u}
Occupied(o) == Cardinality(Members(o)) + Cardinality(Pending(o))

Is(u, s) == person[u].status = s
SignedIn(u) == person[u].status \in {"active", "deletion_pending"}

SetRole(o, u, v) == role' = [role EXCEPT ![o][u] = v]
Close(i) == invite' = [invite EXCEPT ![i].status = "over"]
GoTo(r, pc) ==
  request' = [request EXCEPT ![r] =
    IF pc = "done" THEN [NewRequest EXCEPT !.pc = "done"] ELSE [@ EXCEPT !.pc = pc]]
At(r, pc, kinds) == request[r].pc = pc /\ request[r].kind \in kinds

Roles == {"role", "remove"}
Seat == {"invite", "accept"}

(* A transaction keeps its connection and its locks until it ends, so where *)
(* a request is tells which it has.  The lock itself is waited for inside.  *)
InTransaction(r) == request[r].pc \notin {"new", "begin", "done"}
Holds(r) == InTransaction(r) /\ request[r].pc # "lock"
Used == {r \in Request : InTransaction(r)} \union {u \in User : Is(u, "checked")}
(* Mutant: one connection is kept for something else. *)
ConnectionLess == Cardinality(Used) + 1 < pool

Connection == Cardinality(Used) < pool

(* Mutant: nobody waits for the lock. *)
OrgOpen(kinds, o) == TRUE

(* organization-members:<org> and organization-seats:<org>. *)
OrgFree(kinds, o) ==
  \A q \in Request : Holds(q) /\ request[q].kind \in kinds => request[q].org # o

(* Mutant: nobody waits for the lock. *)
UserOpen(u) == TRUE

(* user-memberships:<user>, personal-organization:<user>. *)
UserFree(u) ==
  \A q \in Request : At(q, "delete", {"remove"}) => request[q].user # u

(* Mutant: nobody waits for the lock. *)
PersonalOpen(u) == TRUE

PersonalFree(u) ==
  \A q \in Request : Holds(q) /\ request[q].kind = "provision" => request[q].user # u

-----------------------------------------------------------------------------
(* A request arrives: the context is read and stays what it was. *)

Arrive(r, q) ==
  /\ request' = [request EXCEPT ![r] = [q EXCEPT !.pc = "begin"]]
  /\ UNCHANGED <<tables, changes, pool>>

Acts(c, o) == SignedIn(c) /\ role[o][c] # "none"
Manages(c, o) == Acts(c, o) /\ role[o][c] \in Manager
Assignable(c, o, v) == v = "owner" => role[o][c] = "owner"

(* PATCH team/members/[id]. *)
AskRole(r) ==
  \E o \in Org, c, u \in User, v \in Asked :
    /\ Manages(c, o) /\ Assignable(c, o, v) /\ role[o][u] # "none"
    /\ Arrive(r, [NewRequest EXCEPT !.kind = "role", !.org = o, !.user = u, !.role = v])

(* DELETE team/members/[id]. *)
AskRemove(r) ==
  \E o \in Org, c, u \in User :
    /\ Acts(c, o) /\ (u = c \/ Manages(c, o)) /\ role[o][u] # "none"
    /\ Arrive(r, [NewRequest EXCEPT !.kind = "remove", !.org = o, !.user = u])

(* Ids that nobody has drawn. *)
FreeOrgs ==
  {o \in Org : org[o].life = "absent" /\ \A q \in Request : request[q].org # o}
FreeIds ==
  {i \in Invitation : invite[i].status = "absent" /\ \A q \in Request : request[q].invite # i}

(* POST team/invitations. *)
AskInvite(r) ==
  \E o \in Org, c, u \in User, v \in Asked :
    /\ Manages(c, o) /\ Assignable(c, o, v) /\ u # c /\ FreeIds # {}
    /\ Arrive(r, [NewRequest EXCEPT !.kind = "invite", !.org = o, !.user = u, !.role = v,
                                    !.by = c, !.invite = CHOOSE i \in FreeIds : TRUE])

(* POST invitations/[id]: only the address that was invited. *)
AskAccept(r) ==
  \E i \in Invitation :
    /\ Waits(i) /\ SignedIn(invite[i].user)
    /\ Arrive(r, [NewRequest EXCEPT !.kind = "accept", !.org = invite[i].org,
         !.user = invite[i].user, !.role = invite[i].role, !.invite = i])

(* The signup hook, or the repair in getOrgContext. *)
AskProvision(r) ==
  \E u \in User :
    /\ SignedIn(u) /\ FreeOrgs # {}
    /\ Arrive(r, [NewRequest EXCEPT !.kind = "provision", !.user = u,
                                    !.org = CHOOSE o \in FreeOrgs : TRUE])

(* A transaction begins with a connection. *)
Begin(r) ==
  /\ At(r, "begin", Kind) /\ Connection
  /\ GoTo(r, IF request[r].kind = "provision" /\ Belongs(request[r].user)
                THEN "done" ELSE "lock")
  /\ UNCHANGED <<tables, changes, pool>>

-----------------------------------------------------------------------------
(* updateMemberRoleAtomically. *)

(* The member is an owner and countOwnersInTransaction says at most one. *)
LastOwner(o, u) == Owners(o) = {u}

LockRole(r) ==
  LET o == request[r].org  u == request[r].user IN
  /\ At(r, "lock", {"role"}) /\ OrgFree(Roles, o)
  /\ GoTo(r, IF role[o][u] = "none" \/ (request[r].role # "owner" /\ LastOwner(o, u))
                THEN "done" ELSE "update")
  /\ UNCHANGED <<tables, changes, pool>>

UpdateRole(r) ==
  LET o == request[r].org  u == request[r].user IN
  /\ At(r, "update", {"role"})
  /\ IF role[o][u] # "none" THEN SetRole(o, u, request[r].role) ELSE UNCHANGED role
  /\ GoTo(r, "done")
  /\ UNCHANGED <<org, invite, limit, person, changes, pool>>

(* removeMemberAtomically: the target is resolved under the lock of the    *)
(* organization, then the lock of the user is taken.                       *)
LockRemove(r) ==
  LET o == request[r].org  u == request[r].user IN
  /\ At(r, "lock", {"remove"}) /\ OrgFree(Roles, o)
  /\ GoTo(r, IF role[o][u] = "none" THEN "done" ELSE "user")
  /\ UNCHANGED <<tables, changes, pool>>

LastOrganization(o, u) == \A p \in Org \ {o} : role[p][u] = "none"

CountRemove(r) ==
  LET o == request[r].org  u == request[r].user IN
  /\ At(r, "user", {"remove"}) /\ UserFree(u)
  /\ GoTo(r, IF LastOwner(o, u) \/ LastOrganization(o, u) THEN "done" ELSE "delete")
  /\ UNCHANGED <<tables, changes, pool>>

DeleteMember(r) ==
  /\ At(r, "delete", {"remove"})
  /\ SetRole(request[r].org, request[r].user, "none")
  /\ GoTo(r, "done")
  /\ UNCHANGED <<org, invite, limit, person, changes, pool>>

-----------------------------------------------------------------------------
(* withOrganizationSeatLock around the invitation and its acceptance: what *)
(* runs under the lock takes another connection each time.                 *)

LockSeats(r) ==
  /\ At(r, "lock", Seat) /\ OrgFree(Seat, request[r].org)
  /\ GoTo(r, "check")
  /\ UNCHANGED <<tables, changes, pool>>

(* assertOrganizationCanInvite, assertOrganizationCanAcceptInvitation. *)
CanInvite(o, pending) == Cardinality(Members(o)) + Cardinality(pending) + 1 =< limit[o]
CanAccept(o) == Cardinality(Members(o)) + 1 =< limit[o]

CheckSeats(r) ==
  LET o == request[r].org IN
  /\ At(r, "check", Seat) /\ Connection
  /\ IF request[r].kind = "invite"
       THEN GoTo(r, IF CanInvite(o, Others(o, request[r].user)) THEN "supersede" ELSE "done")
       ELSE GoTo(r, IF CanAccept(o) THEN "recheck" ELSE "done")
  /\ UNCHANGED <<tables, changes, pool>>

(* createInvitation of Better Auth cancels the pending invitations of the  *)
(* address, asks the hook, and inserts.                                    *)
Supersede(r) ==
  LET o == request[r].org  u == request[r].user IN
  /\ At(r, "supersede", {"invite"}) /\ Connection
  /\ IF u \in Members(o)
       THEN GoTo(r, "done") /\ UNCHANGED invite
       ELSE /\ GoTo(r, "recheck")
            /\ invite' = [i \in Invitation |->
                 IF i \in Pending(o) \ Others(o, u)
                   THEN [invite[i] EXCEPT !.status = "over"] ELSE invite[i]]
  /\ UNCHANGED <<role, org, limit, person, changes, pool>>

Pass(r, pc) ==
  request' = [request EXCEPT ![r].pc = pc, ![r].cap = limit[request[r].org]]

(* The hooks repeat the check; acceptInvitation reads the invitation again. *)
Recheck(r) ==
  LET o == request[r].org  i == request[r].invite IN
  /\ At(r, "recheck", Seat) /\ Connection
  /\ IF request[r].kind = "invite"
       THEN IF CanInvite(o, Pending(o)) THEN Pass(r, "insert") ELSE GoTo(r, "done")
       ELSE IF invite[i].status = "pending" /\ CanAccept(o)
              THEN Pass(r, "accept") ELSE GoTo(r, "done")
  /\ UNCHANGED <<tables, changes, pool>>

InsertInvitation(r) ==
  /\ At(r, "insert", {"invite"}) /\ Connection
  /\ invite' = [invite EXCEPT ![request[r].invite] =
       [status |-> "pending", org |-> request[r].org, user |-> request[r].user,
        role |-> request[r].role, by |-> request[r].by]]
  /\ GoTo(r, "done")
  /\ UNCHANGED <<role, org, limit, person, changes, pool>>

(* By id, whatever it has become since; an invitation that was deleted     *)
(* stops the request.                                                      *)
AcceptInvitation(r) ==
  LET i == request[r].invite IN
  /\ At(r, "accept", {"accept"}) /\ Connection
  /\ IF invite[i].status = "absent"
       THEN GoTo(r, "done") /\ UNCHANGED invite
       ELSE Close(i) /\ GoTo(r, "join")
  /\ UNCHANGED <<role, org, limit, person, changes, pool>>

(* The unique index keeps the row that is there. *)
Join(r) ==
  LET o == request[r].org  u == request[r].user IN
  /\ At(r, "join", {"accept"}) /\ Connection
  /\ IF role[o][u] = "none" THEN SetRole(o, u, request[r].role) ELSE UNCHANGED role
  /\ GoTo(r, "done")
  /\ UNCHANGED <<org, invite, limit, person, changes, pool>>

-----------------------------------------------------------------------------
(* createPersonalOrganizationIfAbsent. *)

LockPersonal(r) ==
  LET u == request[r].user IN
  /\ At(r, "lock", {"provision"}) /\ PersonalFree(u)
  /\ GoTo(r, IF Belongs(u) THEN "done" ELSE "insert")
  /\ UNCHANGED <<tables, changes, pool>>

InsertPersonal(r) ==
  LET o == request[r].org  u == request[r].user IN
  /\ At(r, "insert", {"provision"})
  /\ org' = [org EXCEPT ![o] = [life |-> "active", personal |-> TRUE, home |-> u]]
  /\ SetRole(o, u, "owner")
  /\ GoTo(r, "done")
  /\ UNCHANGED <<invite, limit, person, changes, pool>>

(* The process dies, or a statement fails: the transaction is rolled back. *)
Fail(r) ==
  /\ request[r].pc \notin {"new", "done"}
  /\ GoTo(r, "done")
  /\ UNCHANGED <<tables, changes, pool>>

-----------------------------------------------------------------------------
(* Without any lock. *)

End(i) ==
  /\ Close(i)
  /\ UNCHANGED <<role, org, limit, person, request, changes, pool>>

(* DELETE invitations/[id], by the one who was invited. *)
Decline(i) == Waits(i) /\ SignedIn(invite[i].user) /\ End(i)

(* DELETE team/invitations/[id], by a manager of its organization. *)
Withdraw(i) ==
  Waits(i) /\ (\E c \in User : Manages(c, invite[i].org)) /\ End(i)

(* 72 hours are over. *)
Expire(i) == Waits(i) /\ End(i)

(* The plan changes, an administrator sets or clears the override, or it   *)
(* expires.                                                                *)
SetLimit(o, n) ==
  /\ changes < Changes /\ n # limit[o]
  /\ limit' = [limit EXCEPT ![o] = n]
  /\ changes' = changes + 1
  /\ UNCHANGED <<role, org, invite, person, request, pool>>

-----------------------------------------------------------------------------
(* The erasure of an account, as far as memberships go. *)

(* getLifecycleBlockers: sole active owner of more than the own workspace. *)
Alone(o, u) == org[o].personal /\ Members(o) = {u}
Blocked(u) ==
  \E o \in Org :
    /\ role[o][u] = "owner" /\ ~Alone(o, u)
    /\ \A v \in Owners(o) \ {u} : ~Is(v, "active")

SetPerson(u, s, os) == person' = [person EXCEPT ![u] = [status |-> s, orgs |-> os]]

RequestErasure(u) ==
  /\ u \in Leaver /\ Is(u, "active") /\ ~Blocked(u)
  /\ SetPerson(u, "deletion_pending", {})
  /\ UNCHANGED <<role, org, invite, limit, request, changes, pool>>

CancelErasure(u) ==
  /\ Is(u, "deletion_pending")
  /\ SetPerson(u, "active", {})
  /\ UNCHANGED <<role, org, invite, limit, request, changes, pool>>

(* By the job, and again by each of its retries. *)
BeginErasure(u) ==
  /\ person[u].status \in {"deletion_pending", "erasing"}
  /\ SetPerson(u, IF Blocked(u) THEN "active" ELSE "erasing", {})
  /\ UNCHANGED <<role, org, invite, limit, request, changes, pool>>

(* finalizeAccountErasure reads the memberships, and with a blocker leaves *)
(* them alone ...                                                          *)
CheckErasure(u) ==
  /\ Is(u, "erasing") /\ Connection /\ ~Blocked(u)
  /\ SetPerson(u, "checked", {o \in Org : Alone(o, u)})
  /\ UNCHANGED <<role, org, invite, limit, request, changes, pool>>

(* ... and deletes later in the same transaction. *)
EraseMember(u) ==
  LET torn == person[u].orgs IN
  /\ Is(u, "checked")
  /\ role' = [o \in Org |-> [role[o] EXCEPT ![u] = "none"]]
  /\ invite' = [i \in Invitation |->
       IF invite[i].org \in torn \/ invite[i].user = u \/ invite[i].by = u
         THEN NoInvite ELSE invite[i]]
  /\ org' = [o \in Org |->
       IF o \in torn THEN [org[o] EXCEPT !.life = "deleted", !.personal = FALSE]
       ELSE IF role[o][u] # "none" THEN [org[o] EXCEPT !.personal = FALSE] ELSE org[o]]
  /\ SetPerson(u, "gone", {o \in Org : role[o][u] = "owner"})
  /\ UNCHANGED <<limit, request, changes, pool>>

Ask(r) ==
  /\ request[r].pc = "new"
  /\ AskRole(r) \/ AskRemove(r) \/ AskInvite(r) \/ AskAccept(r) \/ AskProvision(r)

Progress(r) ==
  \/ Begin(r)
  \/ LockRole(r) \/ UpdateRole(r)
  \/ LockRemove(r) \/ CountRemove(r) \/ DeleteMember(r)
  \/ LockSeats(r) \/ CheckSeats(r) \/ Supersede(r) \/ Recheck(r)
  \/ InsertInvitation(r) \/ AcceptInvitation(r) \/ Join(r)
  \/ LockPersonal(r) \/ InsertPersonal(r)

Next ==
  \/ \E r \in Request : Ask(r) \/ Progress(r) \/ Fail(r)
  \/ \E i \in Invitation : Decline(i) \/ Withdraw(i) \/ Expire(i)
  \/ \E o \in Org, n \in Limits : SetLimit(o, n)
  \/ \E u \in User : RequestErasure(u) \/ CancelErasure(u) \/ BeginErasure(u)
                       \/ CheckErasure(u) \/ EraseMember(u)

Spec == Init /\ [][Next]_vars

-----------------------------------------------------------------------------
(* Properties. *)

Gone(u) == person'[u].status = "gone"

(* An organization that has an owner keeps one: no order of demotions,     *)
(* removals and departures takes the last, as long as no erasure took one  *)
(* of its owners (whose check does not wait for the members lock).         *)
OwnerKept ==
  [][\A o \in Org : Owners(o) # {} /\ Owners(o)' = {} =>
       \E u \in User : Gone(u) /\ o \in person'[u].orgs]_vars

(* Who belongs somewhere always does, until the account is erased: a       *)
(* person who leaves two organizations at once stays in one of them.       *)
EveryoneBelongs ==
  [][\A u \in User : Belongs(u) /\ ~Belongs(u)' => Gone(u)]_vars

(* The signup hook and the repairs of every request together give a person *)
(* one workspace.                                                          *)
OnePersonal ==
  \A o, p \in Org :
    org[o].home = org[p].home => o = p \/ org[o].home = None \/ Is(org[o].home, "gone")

(* A seat is taken only when there is one: an invitation counts members    *)
(* and invitations against the limit it read, a member joins while the     *)
(* members are within it, whatever else is under way.                      *)
SeatsKept ==
  [][\A o \in Org : Occupied(o)' > Occupied(o) =>
       \/ org[o].life = "absent"
       \/ \E r \in Request : At(r, "insert", {"invite"}) /\ Occupied(o)' =< request[r].cap
       \/ \E r \in Request : At(r, "join", {"accept"})
                             /\ Cardinality(Members(o)') =< request[r].cap]_vars

(* The lock or the connection that a request waits for is free.             *)
Ready(r) ==
  LET o == request[r].org  u == request[r].user IN
  \/ At(r, "begin", Kind) /\ Connection
  \/ At(r, "lock", Roles) /\ OrgFree(Roles, o)
  \/ At(r, "lock", Seat) /\ OrgFree(Seat, o)
  \/ At(r, "lock", {"provision"}) /\ PersonalFree(u)
  \/ At(r, "user", {"remove"}) /\ UserFree(u)
  \/ At(r, "update", {"role"}) \/ At(r, "delete", {"remove"}) \/ At(r, "insert", {"provision"})
  \/ \E pc \in {"check", "supersede", "recheck", "insert", "accept", "join"} :
       At(r, pc, Seat) /\ Connection

(* The one way to wait for ever: every connection is taken, and who holds  *)
(* a seat lock waits for a second one (withOrganizationSeatLock).          *)
Exhausted ==
  /\ Cardinality(Used) >= pool
  /\ \E r \in Request : Holds(r) /\ request[r].kind \in Seat

(* Requests that have begun wait for each other in no other circle: one of *)
(* them has the lock or the connection it waits for, unless an erasure is  *)
(* under way or the pool is exhausted under a seat lock.                   *)
SomebodyReady ==
  (\E r \in Request : request[r].pc \notin {"new", "done"}) =>
    \/ \E r \in Request : Ready(r)
    \/ \E u \in User : Is(u, "checked")
    \/ Exhausted

(* ... and who has it can go on; each takes a few steps.                   *)
NobodyStuck ==
  SomebodyReady /\ \A r \in Request : Ready(r) <=> ENABLED Progress(r)

=============================================================================
