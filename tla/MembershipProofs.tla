--------------------------- MODULE MembershipProofs ---------------------------
(***************************************************************************)
(* Proofs about Membership for any number of organizations, users,         *)
(* invitations and requests, any limits and any size of the pool.          *)
(*                                                                         *)
(* What a request read under a lock stays true until it writes: the lock   *)
(* excludes the requests that could change it, and the erasure, which no   *)
(* lock excludes, leaves a trace that the properties except.  Safe(x) is   *)
(* what the record of a request tells about the tables.                    *)
(*                                                                         *)
(* SeatInv adds the seats: one request at a time is inside the seat lock   *)
(* of an organization, so that its count can only shrink until it writes.  *)
(*                                                                         *)
(* StageInv is about waiting: the place of a request tells which lock it   *)
(* asks for and which it has, and the members lock comes before the users',*)
(* so that who has the last one can go on.                                 *)
(***************************************************************************)
EXTENDS Membership, FiniteSetTheorems, TLAPS

(* An erasure took an owner of the organization. *)
Taken(o) == \E v \in User : Is(v, "gone") /\ o \in person[v].orgs

(* Somebody owned the organization once; OwnerKept makes it last. *)
Opened(o) == Owners(o) # {} \/ Taken(o)

HasOther(o, u) == \E v \in Owners(o) : v # u

Active(x) == x.pc \notin {"new", "done"}

Shape(x) ==
  Active(x) =>
    /\ x.org \in Org /\ x.user \in User
    /\ x.kind \in {"role", "invite", "accept"} => x.role \in Role
    /\ x.kind \in Seat => x.invite \in Invitation
    /\ x.kind # "provision" => Opened(x.org)

SafeRole(x) ==
  x.pc = "update" /\ x.kind = "role" /\ x.role # "owner" =>
    Taken(x.org) \/ HasOther(x.org, x.user)

SafeRemove(x) ==
  x.pc = "delete" /\ x.kind = "remove" =>
    /\ Taken(x.org) \/ HasOther(x.org, x.user)
    /\ Is(x.user, "gone") \/ \E p \in Org \ {x.org} : role[p][x.user] # "none"

SafeProvision(x) ==
  x.pc = "insert" /\ x.kind = "provision" =>
    Is(x.user, "gone") \/ \A o \in Org : org[o].home # x.user

Safe(x) == Shape(x) /\ SafeRole(x) /\ SafeRemove(x) /\ SafeProvision(x)

RequestsSafe == \A r \in Request : Safe(request[r])

(* The locks exclude. *)
InRoles(x) == x.kind \in Roles /\ x.pc \notin {"new", "begin", "lock", "done"}
InDelete(x) == x.kind = "remove" /\ x.pc = "delete"
InProvision(x) == x.kind = "provision" /\ x.pc \notin {"new", "begin", "lock", "done"}

Exclude(x, y) ==
  /\ InRoles(x) /\ InRoles(y) => x.org # y.org
  /\ InDelete(x) /\ InDelete(y) => x.user # y.user
  /\ InProvision(x) /\ InProvision(y) => x.user # y.user

LocksExclude ==
  \A p, q \in Request : p # q => Exclude(request[p], request[q])

MembersOpened == \A o \in Org : \A u \in User : role[o][u] # "none" => Opened(o)

InvitesOpened ==
  \A i \in Invitation : Waits(i) =>
    /\ invite[i].org \in Org /\ invite[i].user \in User /\ invite[i].role \in Role
    /\ Opened(invite[i].org)

HomeBelongs ==
  \A o \in Org : org[o].home # None =>
    Belongs(org[o].home) \/ Is(org[o].home, "gone")

MemberInv ==
  /\ TypeOK
  /\ RequestsSafe
  /\ LocksExclude
  /\ MembersOpened
  /\ InvitesOpened
  /\ HomeBelongs
  /\ OnePersonal

LEMMA InitMemberInv == Init => MemberInv
<1> SUFFICES ASSUME Init PROVE MemberInv
  OBVIOUS
<1> USE MembershipAssumption, StartAssumption DEF Init
<1>1. PICK s \in Start : role = s.role /\ org = s.org /\ invite = s.invite /\ limit = s.limit
  OBVIOUS
<1>2. NewRequest \in RequestType
  BY DEF NewRequest, RequestType, Kind
<1>3. TypeOK
  BY <1>1, <1>2 DEF TypeOK, PersonType
<1>4. RequestsSafe
  BY DEF RequestsSafe, Safe, Shape, Active, SafeRole, SafeRemove, SafeProvision, NewRequest
<1>5. LocksExclude
  BY DEF LocksExclude, Exclude, InRoles, InDelete, InProvision, NewRequest
<1>6. MembersOpened
  BY <1>1, SMTT(40) DEF MembersOpened, Opened, Owners
<1>7. InvitesOpened
  BY <1>1 DEF InvitesOpened, Opened, Owners, Waits
<1>8. HomeBelongs
  BY <1>1 DEF HomeBelongs, Belongs
<1>9. OnePersonal
  BY <1>1 DEF OnePersonal
<1> QED
  BY <1>3, <1>4, <1>5, <1>6, <1>7, <1>8, <1>9 DEF MemberInv

-----------------------------------------------------------------------------
(* Steps that only move a request. *)

(* A request moves to a record that is safe and that no lock forbids. *)
LEMMA Moves ==
  ASSUME MemberInv, UNCHANGED <<tables, changes, pool>>,
         NEW r \in Request, NEW x \in RequestType,
         request' = [request EXCEPT ![r] = x],
         Safe(x), \A q \in Request \ {r} : Exclude(x, request[q])
  PROVE  MemberInv'
<1> USE DEF MemberInv, tables
<1>1. \A q \in Request : request'[q] = IF q = r THEN x ELSE request[q]
  BY DEF TypeOK
<1>2. TypeOK'
  BY DEF TypeOK
<1>3. RequestsSafe'
  <2> SUFFICES ASSUME NEW q \in Request PROVE Safe(request[q])'
    BY DEF RequestsSafe
  <2>1. Safe(request'[q])
    BY <1>1 DEF RequestsSafe
  <2> QED
    BY <2>1 DEF Safe, Shape, SafeRole, SafeRemove, SafeProvision, Active, Opened, Taken,
                HasOther, Owners, Is
<1>4. LocksExclude'
  <2> SUFFICES ASSUME NEW p \in Request, NEW q \in Request, p # q
               PROVE  Exclude(request'[p], request'[q])
    BY DEF LocksExclude, Exclude, InRoles, InDelete, InProvision
  <2> QED
    BY <1>1 DEF LocksExclude, Exclude
<1>5. MembersOpened' /\ InvitesOpened' /\ HomeBelongs' /\ OnePersonal'
  BY DEF MembersOpened, InvitesOpened, HomeBelongs, OnePersonal, Opened, Owners, Taken,
         Is, Waits, Belongs
<1> QED
  BY <1>2, <1>3, <1>4, <1>5

(* A request that is over claims nothing. *)
LEMMA Over ==
  ASSUME MemberInv
  PROVE  /\ [NewRequest EXCEPT !.pc = "done"] \in RequestType
         /\ Safe([NewRequest EXCEPT !.pc = "done"])
         /\ \A y : Exclude([NewRequest EXCEPT !.pc = "done"], y)
BY DEF NewRequest, RequestType, Kind, Safe, Shape, Active, SafeRole, SafeRemove,
       SafeProvision, Exclude, InRoles, InDelete, InProvision

LEMMA GoesDone ==
  ASSUME MemberInv, UNCHANGED <<tables, changes, pool>>, NEW r \in Request, GoTo(r, "done")
  PROVE  MemberInv'
BY Moves, Over DEF GoTo

LEMMA GoesOn ==
  ASSUME MemberInv, UNCHANGED <<tables, changes, pool>>, NEW r \in Request,
         NEW pc \in {"lock", "update", "user", "delete", "check", "supersede", "recheck",
                     "insert", "accept", "join"},
         GoTo(r, pc), Active(request[r]),
         SafeRole([request[r] EXCEPT !.pc = pc]),
         SafeRemove([request[r] EXCEPT !.pc = pc]),
         SafeProvision([request[r] EXCEPT !.pc = pc]),
         \A q \in Request \ {r} : Exclude([request[r] EXCEPT !.pc = pc], request[q])
  PROVE  MemberInv'
<1> DEFINE x == [request[r] EXCEPT !.pc = pc]
<1>1. x \in RequestType
  BY ZenonT(60) DEF MemberInv, TypeOK, RequestType
<1>2. Shape(x)
  <2>1. Shape(request[r]) /\ request[r] \in RequestType
    BY DEF MemberInv, RequestsSafe, Safe, TypeOK
  <2>2. /\ x.org = request[r].org /\ x.user = request[r].user /\ x.role = request[r].role
        /\ x.kind = request[r].kind /\ x.invite = request[r].invite
    BY <2>1 DEF RequestType
  <2> HIDE DEF x
  <2> QED
    BY <2>1, <2>2 DEF Shape
<1>3. request' = [request EXCEPT ![r] = x]
  BY DEF GoTo, MemberInv, TypeOK
<1> QED
  BY <1>1, <1>2, <1>3, Moves DEF Safe

LEMMA AskSteps ==
  ASSUME MemberInv, NEW r \in Request, Ask(r)
  PROVE  MemberInv'
<1>1. ASSUME NEW x \in RequestType, Arrive(r, x), Shape([x EXCEPT !.pc = "begin"])
      PROVE  MemberInv'
  <2> DEFINE y == [x EXCEPT !.pc = "begin"]
  <2>1. y \in RequestType /\ y.pc = "begin"
    BY DEF RequestType
  <2>2. request' = [request EXCEPT ![r] = y]
    BY <1>1 DEF Arrive, RequestType
  <2>3. Shape(y)
    BY <1>1
  <2> HIDE DEF y
  <2>4. Safe(y) /\ \A q \in Request \ {r} : Exclude(y, request[q])
    BY <2>1, <2>3 DEF Safe, SafeRole, SafeRemove, SafeProvision, Exclude, InRoles, InDelete,
                     InProvision
  <2> QED
    BY <1>1, <2>1, <2>2, <2>4, Moves DEF Arrive
<1>2. ASSUME NEW o \in Org, NEW c \in User, Acts(c, o) PROVE Opened(o)
  BY <1>2 DEF Acts, MemberInv, MembersOpened
<1> USE DEF MemberInv, TypeOK, NewRequest, RequestType, Kind, Shape, Active, Seat
<1>3. CASE AskRole(r)
  <2>1. PICK o \in Org, c \in User, u \in User, v \in Asked :
          /\ Manages(c, o)
          /\ Arrive(r, [NewRequest EXCEPT !.kind = "role", !.org = o, !.user = u, !.role = v])
    BY <1>3 DEF AskRole
  <2>2. Opened(o) /\ v \in Role
    BY <2>1, <1>2, MembershipAssumption DEF Manages
  <2> QED
    BY <2>1, <2>2, <1>1
<1>4. CASE AskRemove(r)
  <2>1. PICK o \in Org, c \in User, u \in User :
          /\ Acts(c, o)
          /\ Arrive(r, [NewRequest EXCEPT !.kind = "remove", !.org = o, !.user = u])
    BY <1>4 DEF AskRemove
  <2> QED
    BY <2>1, <1>1, <1>2
<1>5. CASE AskInvite(r)
  <2> DEFINE i == CHOOSE i \in FreeIds : TRUE
  <2>1. PICK o \in Org, c \in User, u \in User, v \in Asked :
          /\ Manages(c, o) /\ FreeIds # {}
          /\ Arrive(r, [NewRequest EXCEPT !.kind = "invite", !.org = o, !.user = u, !.role = v,
                                          !.by = c, !.invite = i])
    BY <1>5 DEF AskInvite
  <2>2. Opened(o) /\ v \in Role
    BY <2>1, <1>2, MembershipAssumption DEF Manages
  <2>3. i \in Invitation
    BY <2>1 DEF FreeIds
  <2> HIDE DEF i
  <2> QED
    BY <2>1, <2>2, <2>3, <1>1
<1>6. CASE AskAccept(r)
  <2>1. PICK i \in Invitation :
          /\ Waits(i)
          /\ Arrive(r, [NewRequest EXCEPT !.kind = "accept", !.org = invite[i].org,
               !.user = invite[i].user, !.role = invite[i].role, !.invite = i])
    BY <1>6 DEF AskAccept
  <2>2. /\ invite[i].org \in Org /\ invite[i].user \in User /\ invite[i].role \in Role
        /\ Opened(invite[i].org)
    BY <2>1 DEF InvitesOpened
  <2> QED
    BY <2>1, <2>2, <1>1
<1>7. CASE AskProvision(r)
  <2> DEFINE o == CHOOSE o \in FreeOrgs : TRUE
  <2>1. PICK u \in User :
          /\ FreeOrgs # {}
          /\ Arrive(r, [NewRequest EXCEPT !.kind = "provision", !.user = u, !.org = o])
    BY <1>7 DEF AskProvision
  <2>2. o \in Org
    BY <2>1 DEF FreeOrgs
  <2> HIDE DEF o
  <2> QED
    BY <2>1, <2>2, <1>1
<1> QED
  BY <1>3, <1>4, <1>5, <1>6, <1>7 DEF Ask

-----------------------------------------------------------------------------
(* The steps that take a lock and read under it. *)

LEMMA BeginStep ==
  ASSUME MemberInv, NEW r \in Request, Begin(r)
  PROVE  MemberInv'
<1>1. CASE GoTo(r, "done")
  BY <1>1, GoesDone DEF Begin
<1>2. CASE GoTo(r, "lock")
  BY <1>2, GoesOn DEF Begin, At, Active, SafeRole, SafeRemove, SafeProvision, Exclude,
     InRoles, InDelete, InProvision, MemberInv, TypeOK, RequestType
<1> QED
  BY <1>1, <1>2 DEF Begin

(* With the members lock free, nobody else is under it. *)
LEMMA RolesFree ==
  ASSUME MemberInv, NEW r \in Request, OrgFree(Roles, request[r].org),
         NEW q \in Request
  PROVE  ~(InRoles(request[q]) /\ request[q].org = request[r].org)
BY DEF OrgFree, Holds, InTransaction, InRoles

LEMMA LockRoleStep ==
  ASSUME MemberInv, NEW r \in Request, LockRole(r)
  PROVE  MemberInv'
<1> DEFINE o == request[r].org  u == request[r].user
<1>1. CASE GoTo(r, "done")
  BY <1>1, GoesDone DEF LockRole
<1>2. CASE GoTo(r, "update") /\ (request[r].role # "owner" => ~LastOwner(o, u))
  <2> DEFINE x == [request[r] EXCEPT !.pc = "update"]
  <2>1. /\ x.pc = "update" /\ x.kind = "role" /\ x.org = o /\ x.user = u
        /\ x.role = request[r].role
    BY DEF LockRole, At, MemberInv, TypeOK, RequestType
  <2>2. Opened(o) /\ o \in Org
    BY DEF LockRole, At, MemberInv, RequestsSafe, Safe, Shape, Active
  <2>3. x.role # "owner" => Taken(o) \/ HasOther(o, u)
    BY <1>2, <2>1, <2>2 DEF LastOwner, Opened, HasOther
  <2>4. \A q \in Request \ {r} : Exclude(x, request[q])
    <3> HIDE DEF x
    <3> QED
      BY <2>1, RolesFree DEF LockRole, Exclude, InDelete, InProvision
  <2> HIDE DEF x
  <2>5. SafeRole(x) /\ SafeRemove(x) /\ SafeProvision(x)
    BY <2>1, <2>3 DEF SafeRole, SafeRemove, SafeProvision
  <2> QED
    BY <1>2, <2>4, <2>5, GoesOn DEF x, LockRole, At, Active
<1> QED
  BY <1>1, <1>2 DEF LockRole

LEMMA LockRemoveStep ==
  ASSUME MemberInv, NEW r \in Request, LockRemove(r)
  PROVE  MemberInv'
<1>1. CASE GoTo(r, "done")
  BY <1>1, GoesDone DEF LockRemove
<1>2. CASE GoTo(r, "user")
  <2> DEFINE x == [request[r] EXCEPT !.pc = "user"]
  <2>1. x.pc = "user" /\ x.kind = "remove" /\ x.org = request[r].org
    BY DEF LockRemove, At, MemberInv, TypeOK, RequestType
  <2> HIDE DEF x
  <2>2. \A q \in Request \ {r} : Exclude(x, request[q])
    BY <2>1, RolesFree DEF LockRemove, Exclude, InDelete, InProvision
  <2>3. SafeRole(x) /\ SafeRemove(x) /\ SafeProvision(x)
    BY <2>1 DEF SafeRole, SafeRemove, SafeProvision
  <2> QED
    BY <1>2, <2>2, <2>3, GoesOn DEF x, LockRemove, At, Active
<1> QED
  BY <1>1, <1>2 DEF LockRemove

LEMMA CountRemoveStep ==
  ASSUME MemberInv, NEW r \in Request, CountRemove(r)
  PROVE  MemberInv'
<1> DEFINE o == request[r].org  u == request[r].user
<1>1. CASE GoTo(r, "done")
  BY <1>1, GoesDone DEF CountRemove
<1>2. CASE GoTo(r, "delete") /\ ~LastOwner(o, u) /\ ~LastOrganization(o, u)
  <2> DEFINE x == [request[r] EXCEPT !.pc = "delete"]
  <2>1. x.pc = "delete" /\ x.kind = "remove" /\ x.org = o /\ x.user = u
    BY DEF CountRemove, At, MemberInv, TypeOK, RequestType
  <2>2. Opened(o)
    BY DEF CountRemove, At, MemberInv, RequestsSafe, Safe, Shape, Active
  <2>3. Taken(o) \/ HasOther(o, u)
    BY <1>2, <2>2 DEF LastOwner, Opened, HasOther
  <2>4. \E p \in Org \ {o} : role[p][u] # "none"
    BY <1>2 DEF LastOrganization
  <2>5. \A q \in Request \ {r} : ~(InDelete(request[q]) /\ request[q].user = u)
    BY DEF CountRemove, UserFree, At, InDelete
  <2>6. \A q \in Request \ {r} : Exclude(request[r], request[q]) /\ InRoles(request[r])
    BY DEF MemberInv, LocksExclude, InRoles, CountRemove, At, Roles
  <2> HIDE DEF x
  <2>7. \A q \in Request \ {r} : Exclude(x, request[q])
    BY <2>1, <2>5, <2>6 DEF Exclude, InRoles, InProvision
  <2>8. SafeRole(x) /\ SafeRemove(x) /\ SafeProvision(x)
    BY <2>1, <2>3, <2>4 DEF SafeRole, SafeRemove, SafeProvision
  <2> QED
    BY <1>2, <2>7, <2>8, GoesOn DEF x, CountRemove, At, Active
<1> QED
  BY <1>1, <1>2 DEF CountRemove

LEMMA LockPersonalStep ==
  ASSUME MemberInv, NEW r \in Request, LockPersonal(r)
  PROVE  MemberInv'
<1> DEFINE u == request[r].user
<1>1. CASE GoTo(r, "done")
  BY <1>1, GoesDone DEF LockPersonal
<1>2. CASE GoTo(r, "insert") /\ ~Belongs(u)
  <2> DEFINE x == [request[r] EXCEPT !.pc = "insert"]
  <2>1. x.pc = "insert" /\ x.kind = "provision" /\ x.user = u
    BY DEF LockPersonal, At, MemberInv, TypeOK, RequestType
  <2>2. u \in User
    BY DEF LockPersonal, At, MemberInv, RequestsSafe, Safe, Shape, Active
  <2>3. Is(u, "gone") \/ \A o \in Org : org[o].home # u
    BY <1>2, <2>2, MembershipAssumption DEF MemberInv, HomeBelongs
  <2>4. \A q \in Request \ {r} : ~(InProvision(request[q]) /\ request[q].user = u)
    BY DEF LockPersonal, PersonalFree, Holds, InTransaction, InProvision
  <2> HIDE DEF x
  <2>5. \A q \in Request \ {r} : Exclude(x, request[q])
    BY <2>1, <2>4 DEF Exclude, InRoles, InDelete, Roles
  <2>6. SafeRole(x) /\ SafeRemove(x) /\ SafeProvision(x)
    BY <2>1, <2>3 DEF SafeRole, SafeRemove, SafeProvision
  <2> QED
    BY <1>2, <2>5, <2>6, GoesOn DEF x, LockPersonal, At, Active
<1> QED
  BY <1>1, <1>2 DEF LockPersonal

(* The requests under the seat lock claim nothing about the members. *)
LEMMA SeatSteps ==
  ASSUME MemberInv, NEW r \in Request, request[r].kind \in Seat, Active(request[r]),
         UNCHANGED <<tables, changes, pool>>,
         NEW x \in RequestType, request' = [request EXCEPT ![r] = x],
         Shape(x), x.kind = request[r].kind
  PROVE  MemberInv'
<1>1. Safe(x) /\ \A q \in Request \ {r} : Exclude(x, request[q])
  BY DEF Seat, Roles, Safe, SafeRole, SafeRemove, SafeProvision, Exclude, InRoles, InDelete,
         InProvision
<1> QED
  BY <1>1, Moves

LEMMA SeatMoves ==
  ASSUME MemberInv, NEW r \in Request, LockSeats(r) \/ CheckSeats(r) \/ Recheck(r)
  PROVE  MemberInv'
<1>1. /\ request[r].kind \in Seat /\ Active(request[r]) /\ UNCHANGED <<tables, changes, pool>>
      /\ request[r] \in RequestType /\ Shape(request[r])
  BY DEF LockSeats, CheckSeats, Recheck, At, Active, MemberInv, TypeOK, RequestsSafe, Safe
<1>2. CASE GoTo(r, "done")
  BY <1>1, <1>2, GoesDone
<1>3. ASSUME NEW pc \in {"check", "supersede", "recheck"}, GoTo(r, pc)
      PROVE  MemberInv'
  <2> DEFINE x == [request[r] EXCEPT !.pc = pc]
  <2>1. x \in RequestType /\ x.kind = request[r].kind /\ x.org = request[r].org
        /\ x.user = request[r].user /\ x.role = request[r].role
        /\ x.invite = request[r].invite
    BY <1>1 DEF RequestType
  <2>2. request' = [request EXCEPT ![r] = x]
    BY <1>3 DEF GoTo, MemberInv, TypeOK
  <2> HIDE DEF x
  <2>3. Shape(x)
    BY <1>1, <2>1 DEF Shape
  <2> QED
    BY <1>1, <2>1, <2>2, <2>3, SeatSteps
<1>4. ASSUME NEW pc \in {"insert", "accept"}, Pass(r, pc)
      PROVE  MemberInv'
  <2> DEFINE x == [request[r] EXCEPT !.pc = pc, !.cap = limit[request[r].org]]
  <2>1. limit[request[r].org] \in Limits
    BY <1>1 DEF Shape, Seat, MemberInv, TypeOK
  <2>2. x \in RequestType /\ x.kind = request[r].kind /\ x.org = request[r].org
        /\ x.user = request[r].user /\ x.role = request[r].role
        /\ x.invite = request[r].invite
    BY <1>1, <2>1 DEF RequestType
  <2>3. request' = [request EXCEPT ![r] = x]
    BY <1>4 DEF Pass, MemberInv, TypeOK
  <2> HIDE DEF x
  <2>4. Shape(x)
    BY <1>1, <2>2 DEF Shape
  <2> QED
    BY <1>1, <2>2, <2>3, <2>4, SeatSteps
<1> QED
  BY <1>2, <1>3, <1>4 DEF LockSeats, CheckSeats, Recheck

-----------------------------------------------------------------------------
(* Steps that write a table. *)

(* While the owners that an organization had, or the trace of the erasure, *)
(* remain, what the requests have read remains.                            *)
Kept == \A o \in Org : Opened(o) => Opened(o)'

(* Who belongs somewhere still does, or is gone. *)
Stays == \A w \in User : Belongs(w) => Belongs(w)' \/ Is(w, "gone")'

Lasting == Kept /\ Stays

(* The request r moves to a safe record and the others stay safe. *)
LEMMA Writes ==
  ASSUME MemberInv, NEW r \in Request,
         request' \in [Request -> RequestType],
         \A q \in Request \ {r} : request'[q] = request[q],
         request'[r].pc \in {"join", "recheck", "done"},
         request'[r].kind \in Seat \/ request'[r].pc = "done",
         Shape(request[r])',
         Kept,
         \A q \in Request \ {r} :
           SafeRole(request[q])' /\ SafeRemove(request[q])' /\ SafeProvision(request[q])'
  PROVE  RequestsSafe' /\ LocksExclude'
<1> USE DEF MemberInv
<1>1. ~InRoles(request'[r]) /\ ~InDelete(request'[r]) /\ ~InProvision(request'[r])
  BY DEF InRoles, InDelete, InProvision, Roles, Seat
<1>2. LocksExclude'
  <2> SUFFICES ASSUME NEW p \in Request, NEW q \in Request, p # q
               PROVE  Exclude(request'[p], request'[q])
    BY DEF LocksExclude, Exclude, InRoles, InDelete, InProvision
  <2> QED
    BY <1>1 DEF LocksExclude, Exclude
<1>3. RequestsSafe'
  <2> SUFFICES ASSUME NEW q \in Request PROVE Safe(request[q])'
    BY DEF RequestsSafe
  <2>1. CASE q = r
    BY <2>1, <1>1 DEF Safe, SafeRole, SafeRemove, SafeProvision, InRoles, Roles
  <2>2. CASE q # r
    <3>1. Shape(request[q])
      BY DEF RequestsSafe, Safe
    <3>2. Shape(request[q])'
      BY <2>2, <3>1 DEF Shape, Active, Kept
    <3> QED
      BY <2>2, <3>2 DEF Safe
  <2> QED
    BY <2>1, <2>2
<1> QED
  BY <1>2, <1>3

(* A write leaves the request over. *)
LEMMA WritesDone ==
  ASSUME MemberInv, NEW r \in Request, GoTo(r, "done"), Kept,
         \A q \in Request \ {r} :
           SafeRole(request[q])' /\ SafeRemove(request[q])' /\ SafeProvision(request[q])'
  PROVE  /\ RequestsSafe' /\ LocksExclude'
         /\ request' \in [Request -> RequestType]
<1>1. request' = [request EXCEPT ![r] = [NewRequest EXCEPT !.pc = "done"]]
  BY DEF GoTo
<1>2. /\ request' \in [Request -> RequestType] /\ request'[r].pc = "done"
      /\ \A q \in Request \ {r} : request'[q] = request[q]
  BY <1>1, Over DEF MemberInv, TypeOK, NewRequest
<1>3. Shape(request[r])'
  BY <1>2 DEF Shape, Active
<1> QED
  BY <1>2, <1>3, Writes

(* Owners and homes as they were. *)
LEMMA Untouched ==
  ASSUME MemberInv, UNCHANGED <<role, org, person>>
  PROVE  /\ Kept /\ MembersOpened' /\ HomeBelongs' /\ OnePersonal'
         /\ \A q \in Request : request'[q] = request[q] =>
              SafeRole(request[q])' /\ SafeRemove(request[q])' /\ SafeProvision(request[q])'
<1> USE DEF Opened, Owners, Taken, Is, HasOther, Belongs, MemberInv
<1>1. Kept /\ MembersOpened' /\ HomeBelongs' /\ OnePersonal'
  BY DEF Kept, MembersOpened, HomeBelongs, OnePersonal
<1>2. ASSUME NEW q \in Request, request'[q] = request[q]
      PROVE  SafeRole(request[q])' /\ SafeRemove(request[q])' /\ SafeProvision(request[q])'
  BY <1>2 DEF RequestsSafe, Safe, SafeRole, SafeRemove, SafeProvision
<1> QED
  BY <1>1, <1>2

LEMMA Closing ==
  ASSUME MemberInv, UNCHANGED <<role, org, person>>,
         invite' \in [Invitation -> InviteType],
         \A i \in Invitation : Waits(i)' =>
           /\ invite'[i].org \in Org /\ invite'[i].user \in User /\ invite'[i].role \in Role
           /\ Opened(invite'[i].org)
  PROVE  InvitesOpened'
BY Untouched DEF InvitesOpened, Kept

LEMMA Closed ==
  ASSUME MemberInv, NEW S \in SUBSET Invitation,
         invite' = [i \in Invitation |->
                      IF i \in S THEN [invite[i] EXCEPT !.status = "over"] ELSE invite[i]],
         UNCHANGED <<role, org, person>>
  PROVE  invite' \in [Invitation -> InviteType] /\ InvitesOpened'
<1>1. invite' \in [Invitation -> InviteType]
  <2>1. ASSUME NEW x \in InviteType PROVE [x EXCEPT !.status = "over"] \in InviteType
    BY <2>1 DEF InviteType
  <2> QED
    BY <2>1 DEF MemberInv, TypeOK
<1>2. ASSUME NEW i \in Invitation, Waits(i)' PROVE invite'[i] = invite[i] /\ Waits(i)
  BY <1>2 DEF Waits, MemberInv, TypeOK, InviteType
<1> QED
  BY <1>1, <1>2, Closing DEF MemberInv, InvitesOpened

LEMMA CloseStep ==
  ASSUME MemberInv, NEW i \in Invitation, Close(i), UNCHANGED <<role, org, person>>
  PROVE  invite' \in [Invitation -> InviteType] /\ InvitesOpened'
<1>1. invite' = [j \in Invitation |->
                   IF j \in {i} THEN [invite[j] EXCEPT !.status = "over"] ELSE invite[j]]
  BY DEF Close, MemberInv, TypeOK
<1> QED
  BY <1>1, Closed

LEMMA EndStep ==
  ASSUME MemberInv, NEW i \in Invitation, End(i)
  PROVE  MemberInv'
<1>1. invite' \in [Invitation -> InviteType] /\ InvitesOpened'
  BY CloseStep DEF End
<1>2. RequestsSafe' /\ LocksExclude'
  BY DEF End, MemberInv, RequestsSafe, LocksExclude, Safe, Shape, SafeRole, SafeRemove,
         SafeProvision, Active, Exclude, Opened, Owners, Taken, Is, HasOther, InRoles, InDelete,
         InProvision
<1> QED
  BY <1>1, <1>2, Untouched DEF End, MemberInv, TypeOK

LEMMA SetLimitStep ==
  ASSUME MemberInv, NEW o \in Org, NEW n \in Limits, SetLimit(o, n)
  PROVE  MemberInv'
<1>1. limit' \in [Org -> Limits] /\ changes' \in 0..Changes
  BY MembershipAssumption DEF SetLimit, MemberInv, TypeOK
<1>2. RequestsSafe' /\ LocksExclude' /\ InvitesOpened'
  BY DEF SetLimit, MemberInv, RequestsSafe, LocksExclude, Safe, Shape, SafeRole, SafeRemove,
         SafeProvision, Active, Exclude, Opened, Owners, Taken, Is, HasOther, InRoles, InDelete,
         InProvision, InvitesOpened, Waits
<1> QED
  BY <1>1, <1>2, Untouched DEF SetLimit, MemberInv, TypeOK

LEMMA InsertInvitationStep ==
  ASSUME MemberInv, NEW r \in Request, InsertInvitation(r)
  PROVE  MemberInv'
<1> DEFINE n == [status |-> "pending", org |-> request[r].org, user |-> request[r].user,
                 role |-> request[r].role, by |-> request[r].by]
<1>1. /\ request[r].org \in Org /\ request[r].user \in User /\ request[r].role \in Role
      /\ Opened(request[r].org) /\ request[r].by \in User \union {None}
  BY DEF InsertInvitation, At, MemberInv, RequestsSafe, Safe, Shape, Active, Seat, TypeOK,
         RequestType
<1>2. n \in InviteType /\ invite' = [invite EXCEPT ![request[r].invite] = n]
  BY <1>1 DEF InviteType, InsertInvitation
<1>3. /\ n.org \in Org /\ n.user \in User /\ n.role \in Role
      /\ Opened(n.org)
  BY <1>1
<1> HIDE DEF n
<1>4. invite' \in [Invitation -> InviteType]
  BY <1>2 DEF MemberInv, TypeOK
<1>5. InvitesOpened'
  <2>1. \A i \in Invitation : invite'[i] = n \/ invite'[i] = invite[i]
    BY <1>2 DEF MemberInv, TypeOK
  <2> QED
    BY <2>1, <1>3, <1>4, Closing DEF InsertInvitation, MemberInv, InvitesOpened, Waits
<1>6. \A q \in Request \ {r} : request'[q] = request[q]
  BY DEF InsertInvitation, GoTo, MemberInv, TypeOK
<1> QED
  BY <1>4, <1>5, <1>6, Untouched, WritesDone DEF InsertInvitation, MemberInv, TypeOK

(* An invitation is closed and its request goes on. *)
LEMMA ClosesOn ==
  ASSUME MemberInv, NEW r \in Request, NEW pc \in {"join", "recheck"}, GoTo(r, pc),
         request[r].kind \in Seat, Active(request[r]),
         UNCHANGED <<role, org, limit, person, changes, pool>>,
         invite' \in [Invitation -> InviteType], InvitesOpened'
  PROVE  MemberInv'
<1> DEFINE x == [request[r] EXCEPT !.pc = pc]
<1>1. x \in RequestType /\ x.kind = request[r].kind /\ x.org = request[r].org
      /\ x.user = request[r].user /\ x.role = request[r].role
      /\ x.invite = request[r].invite /\ x.pc = pc
  BY DEF RequestType, MemberInv, TypeOK
<1>2. request' = [request EXCEPT ![r] = x]
  BY DEF GoTo, MemberInv, TypeOK
<1> HIDE DEF x
<1>3. /\ request' \in [Request -> RequestType] /\ request'[r] = x
      /\ \A q \in Request \ {r} : request'[q] = request[q]
  BY <1>1, <1>2 DEF MemberInv, TypeOK
<1>4. Shape(request[r])'
  BY <1>1, <1>3, Untouched DEF MemberInv, RequestsSafe, Safe, Shape, Active, Kept
<1>5. RequestsSafe' /\ LocksExclude'
  BY <1>1, <1>3, <1>4, Untouched, Writes
<1> QED
  BY <1>3, <1>5, Untouched DEF MemberInv, TypeOK

LEMMA SupersedeStep ==
  ASSUME MemberInv, NEW r \in Request, Supersede(r)
  PROVE  MemberInv'
<1> DEFINE o == request[r].org  S == Pending(o) \ Others(o, request[r].user)
<1>1. CASE GoTo(r, "done") /\ UNCHANGED invite
  BY <1>1, GoesDone DEF Supersede, tables
<1>2. CASE /\ GoTo(r, "recheck")
           /\ invite' = [i \in Invitation |->
                IF i \in S THEN [invite[i] EXCEPT !.status = "over"] ELSE invite[i]]
  <2>1. S \in SUBSET Invitation
    BY DEF Pending
  <2> HIDE DEF S
  <2>2. invite' \in [Invitation -> InviteType] /\ InvitesOpened'
    BY <2>1, <1>2, Closed DEF Supersede
  <2> QED
    BY <2>2, <1>2, ClosesOn DEF Supersede, At, Active, Seat
<1> QED
  BY <1>1, <1>2 DEF Supersede

LEMMA AcceptInvitationStep ==
  ASSUME MemberInv, NEW r \in Request, AcceptInvitation(r)
  PROVE  MemberInv'
<1>1. CASE GoTo(r, "done") /\ UNCHANGED invite
  BY <1>1, GoesDone DEF AcceptInvitation, tables
<1>2. CASE Close(request[r].invite) /\ GoTo(r, "join")
  <2>1. request[r].invite \in Invitation
    BY DEF AcceptInvitation, At, MemberInv, RequestsSafe, Safe, Shape, Active, Seat
  <2>2. invite' \in [Invitation -> InviteType] /\ InvitesOpened'
    BY <2>1, <1>2, CloseStep DEF AcceptInvitation
  <2> QED
    BY <2>2, <1>2, ClosesOn DEF AcceptInvitation, At, Active, Seat
<1> QED
  BY <1>1, <1>2 DEF AcceptInvitation

-----------------------------------------------------------------------------
(* Steps that change who belongs where. *)

LEMMA SetsRole ==
  ASSUME MemberInv, NEW o \in Org, NEW u \in User, NEW v \in Role \union {"none"},
         SetRole(o, u, v)
  PROVE  /\ role' \in [Org -> [User -> Role \union {"none"}]]
         /\ \A p \in Org, w \in User :
              role'[p][w] = IF p = o /\ w = u THEN v ELSE role[p][w]
BY DEF SetRole, MemberInv, TypeOK

(* Nobody loses anything. *)
LEMMA Grows ==
  ASSUME MemberInv, UNCHANGED person,
         \A p \in Org, w \in User : role[p][w] = "owner" => role'[p][w] = "owner",
         \A p \in Org, w \in User : role[p][w] # "none" => role'[p][w] # "none"
  PROVE  /\ Kept
         /\ \A w \in User : Belongs(w) => Belongs(w)'
         /\ \A q \in Request : request'[q] = request[q] =>
              SafeRole(request[q])' /\ SafeRemove(request[q])'
<1> USE DEF Opened, Owners, Taken, Is, HasOther, Belongs
<1>1. Kept
  BY DEF Kept
<1>2. \A w \in User : Belongs(w) => Belongs(w)'
  OBVIOUS
<1>3. ASSUME NEW q \in Request, request'[q] = request[q]
      PROVE  SafeRole(request[q])' /\ SafeRemove(request[q])'
  BY <1>3 DEF MemberInv, RequestsSafe, Safe, SafeRole, SafeRemove, Shape, Active
<1> QED
  BY <1>1, <1>2, <1>3

LEMMA Undisturbed ==
  ASSUME UNCHANGED <<role, person>>
  PROVE  Lasting
BY DEF Lasting, Kept, Stays, Opened, Owners, Taken, Is, Belongs

LEMMA JoinStep ==
  ASSUME MemberInv, NEW r \in Request, Join(r)
  PROVE  MemberInv' /\ Lasting
<1> DEFINE o == request[r].org  u == request[r].user
<1>1. o \in Org /\ u \in User /\ request[r].role \in Role /\ Opened(o)
  BY DEF Join, At, MemberInv, RequestsSafe, Safe, Shape, Active
<1>2. CASE UNCHANGED role
  BY <1>2, GoesDone, Undisturbed DEF Join, tables
<1>3. CASE role[o][u] = "none" /\ SetRole(o, u, request[r].role)
  <2>1. /\ role' \in [Org -> [User -> Role \union {"none"}]]
        /\ \A p \in Org, w \in User :
             role'[p][w] = IF p = o /\ w = u THEN request[r].role ELSE role[p][w]
    BY <1>1, <1>3, SetsRole
  <2>2. /\ \A p \in Org, w \in User : role[p][w] = "owner" => role'[p][w] = "owner"
        /\ \A p \in Org, w \in User : role[p][w] # "none" => role'[p][w] # "none"
    BY <1>1, <1>3, <2>1 DEF Role
  <2>3. Kept /\ \A w \in User : Belongs(w) => Belongs(w)'
    BY <2>2, Grows DEF Join
  <2>4. \A q \in Request \ {r} : request'[q] = request[q]
    BY DEF Join, GoTo, MemberInv, TypeOK
  <2>5. \A q \in Request \ {r} : SafeRole(request[q])' /\ SafeRemove(request[q])'
    BY <2>2, <2>4, Grows DEF Join
  <2>6. \A q \in Request \ {r} : SafeProvision(request[q])'
    BY <2>4 DEF Join, MemberInv, RequestsSafe, Safe, SafeProvision, Is
  <2>7. /\ RequestsSafe' /\ LocksExclude' /\ request' \in [Request -> RequestType]
    BY <2>3, <2>5, <2>6, WritesDone DEF Join
  <2>8. MembersOpened'
    BY <1>1, <2>1, <2>3 DEF MembersOpened, MemberInv, Kept
  <2>9. InvitesOpened' /\ HomeBelongs' /\ OnePersonal'
    <3>1. InvitesOpened'
      BY <2>3 DEF InvitesOpened, MemberInv, Kept, Join, Waits
    <3>2. \A p \in Org : org[p].home \in User \union {None}
      BY DEF MemberInv, TypeOK, OrgType
    <3>3. HomeBelongs' /\ OnePersonal'
      BY <2>3, <3>2 DEF HomeBelongs, OnePersonal, MemberInv, Join, Is
    <3> QED
      BY <3>1, <3>3
  <2> QED
    BY <2>1, <2>3, <2>7, <2>8, <2>9 DEF MemberInv, TypeOK, Join, Lasting, Stays
<1> QED
  BY <1>2, <1>3 DEF Join

LEMMA InsertPersonalStep ==
  ASSUME MemberInv, NEW r \in Request, InsertPersonal(r)
  PROVE  MemberInv' /\ Lasting
<1>1. PICK o \in Org, u \in User : o = request[r].org /\ u = request[r].user
  BY DEF InsertPersonal, At, MemberInv, RequestsSafe, Safe, Shape, Active
<1>2. /\ role' \in [Org -> [User -> Role \union {"none"}]]
      /\ \A p \in Org, w \in User :
           role'[p][w] = IF p = o /\ w = u THEN "owner" ELSE role[p][w]
  BY <1>1, SetsRole DEF InsertPersonal, Role
<1>3. /\ org' \in [Org -> OrgType]
      /\ \A p \in Org : org'[p].home = IF p = o THEN u ELSE org[p].home
  <2> DEFINE n == [life |-> "active", personal |-> TRUE, home |-> u]
  <2>1. n \in OrgType /\ n.home = u
    BY <1>1 DEF OrgType
  <2>2. org' = [org EXCEPT ![o] = n]
    BY <1>1 DEF InsertPersonal
  <2> HIDE DEF n
  <2> QED
    BY <2>1, <2>2, <1>1 DEF MemberInv, TypeOK
<1>4. /\ \A p \in Org, w \in User : role[p][w] = "owner" => role'[p][w] = "owner"
      /\ \A p \in Org, w \in User : role[p][w] # "none" => role'[p][w] # "none"
  BY <1>2
<1>5. Kept /\ \A w \in User : Belongs(w) => Belongs(w)'
  BY <1>4, Grows DEF InsertPersonal
<1>6. \A q \in Request \ {r} : request'[q] = request[q]
  BY DEF InsertPersonal, GoTo, MemberInv, TypeOK
<1>7. \A q \in Request \ {r} : SafeRole(request[q])' /\ SafeRemove(request[q])'
  BY <1>4, <1>6, Grows DEF InsertPersonal
<1>8. UNCHANGED person /\ SafeProvision(request[r])
      /\ request[r].pc = "insert" /\ request[r].kind = "provision"
  BY DEF InsertPersonal, At, MemberInv, RequestsSafe, Safe
<1>9. ASSUME NEW q \in Request \ {r} PROVE SafeProvision(request[q])'
  <2>1. SafeProvision(request[q]) /\ Exclude(request[q], request[r])
    BY DEF MemberInv, RequestsSafe, Safe, LocksExclude
  <2>2. ASSUME request[q].pc = "insert", request[q].kind = "provision"
        PROVE  request[q].user # u
    BY <2>1, <2>2, <1>1, <1>8 DEF Exclude, InProvision
  <2> QED
    BY <2>1, <2>2, <1>3, <1>6, <1>8 DEF SafeProvision, Is
<1>10. /\ RequestsSafe' /\ LocksExclude' /\ request' \in [Request -> RequestType]
  BY <1>5, <1>7, <1>9, WritesDone DEF InsertPersonal
<1>11. MembersOpened'
  <2>1. Opened(o)'
    BY <1>1, <1>2 DEF Opened, Owners
  <2> QED
    BY <1>1, <1>2, <1>5, <2>1 DEF MembersOpened, MemberInv, Kept
<1>12. InvitesOpened'
  BY <1>5 DEF InvitesOpened, MemberInv, Kept, InsertPersonal, Waits
<1>13. HomeBelongs'
  <2>1. Belongs(u)'
    BY <1>1, <1>2 DEF Belongs
  <2>2. \A p \in Org : org[p].home \in User \union {None}
    BY DEF MemberInv, TypeOK, OrgType
  <2> QED
    BY <1>3, <1>5, <1>8, <2>1, <2>2 DEF HomeBelongs, MemberInv, Is
<1>14. OnePersonal'
  <2> SUFFICES ASSUME NEW p \in Org, NEW q \in Org, p # q, org'[p].home = org'[q].home
               PROVE  org'[p].home = None \/ Is(org'[p].home, "gone")
    BY <1>8 DEF OnePersonal, Is
  <2>1. CASE p # o /\ q # o
    BY <2>1, <1>3 DEF MemberInv, OnePersonal
  <2>2. CASE p = o \/ q = o
    BY <2>2, <1>1, <1>3, <1>8 DEF SafeProvision
  <2> QED
    BY <2>1, <2>2
<1> QED
  BY <1>2, <1>3, <1>5, <1>10, <1>11, <1>12, <1>13, <1>14
     DEF MemberInv, TypeOK, InsertPersonal, Lasting, Stays

(* A member changes under the members lock, or goes. *)
LEMMA Turns ==
  ASSUME MemberInv, NEW r \in Request, InRoles(request[r]), GoTo(r, "done"),
         UNCHANGED <<org, invite, limit, person, changes, pool>>,
         request[r].org \in Org, request[r].user \in User, NEW v \in Role \union {"none"},
         SetRole(request[r].org, request[r].user, v),
         role[request[r].org][request[r].user] # "none" \/ v = "none",
         v # "owner" => Taken(request[r].org) \/ HasOther(request[r].org, request[r].user),
         v = "none" =>
           /\ InDelete(request[r])
           /\ Is(request[r].user, "gone")
              \/ \E p \in Org \ {request[r].org} : role[p][request[r].user] # "none"
  PROVE  MemberInv' /\ Lasting
<1> DEFINE o == request[r].org  u == request[r].user
<1>1. /\ role' \in [Org -> [User -> Role \union {"none"}]]
      /\ \A p \in Org, w \in User :
           role'[p][w] = IF p = o /\ w = u THEN v ELSE role[p][w]
  BY SetsRole
<1>2. \A q \in Request \ {r} : request'[q] = request[q]
  BY DEF GoTo, MemberInv, TypeOK
<1>3. \A p \in Org : Taken(p)' <=> Taken(p)
  BY DEF Taken, Is
<1>4. Kept
  <2> SUFFICES ASSUME NEW p \in Org, Opened(p) PROVE Opened(p)'
    BY DEF Kept
  <2>1. CASE Taken(p)
    BY <2>1, <1>3 DEF Opened
  <2>2. CASE \E w \in User : role[p][w] = "owner" /\ (p # o \/ w # u)
    BY <2>2, <1>1 DEF Opened, Owners
  <2>3. CASE p = o /\ v = "owner"
    BY <2>3, <1>1 DEF Opened, Owners
  <2>4. CASE p = o /\ v # "owner"
    BY <2>1, <2>2, <2>4 DEF HasOther, Owners
  <2>5. CASE p # o
    BY <2>1, <2>2, <2>5 DEF Opened, Owners
  <2> QED
    BY <2>3, <2>4, <2>5
<1>5. \A w \in User : Belongs(w) => Belongs(w)' \/ Is(w, "gone")
  <2> SUFFICES ASSUME NEW w \in User, Belongs(w) PROVE Belongs(w)' \/ Is(w, "gone")
    OBVIOUS
  <2>1. CASE w # u \/ v # "none"
    BY <2>1, <1>1 DEF Belongs
  <2>2. CASE w = u /\ v = "none"
    BY <2>2, <1>1 DEF Belongs
  <2> QED
    BY <2>1, <2>2
<1>6. ASSUME NEW q \in Request \ {r}
      PROVE  SafeRole(request[q])' /\ SafeRemove(request[q])' /\ SafeProvision(request[q])'
  <2>1. Safe(request[q]) /\ Exclude(request[q], request[r])
    BY DEF MemberInv, RequestsSafe, LocksExclude
  <2>2. ASSUME InRoles(request[q]), Active(request[q])
        PROVE  /\ Taken(request[q].org)' <=> Taken(request[q].org)
               /\ HasOther(request[q].org, request[q].user) =>
                    HasOther(request[q].org, request[q].user)'
    <3>1. request[q].org \in Org /\ request[q].org # o
      BY <2>1, <2>2 DEF Safe, Shape, Exclude
    <3> QED
      BY <3>1, <1>1, <1>2, <1>3 DEF HasOther, Owners
  <2>3. SafeRole(request[q])'
    BY <2>1, <2>2, <1>2 DEF Safe, SafeRole, InRoles, Active, Roles
  <2>4. SafeRemove(request[q])'
    <3> SUFFICES ASSUME request[q].pc = "delete", request[q].kind = "remove"
                 PROVE  SafeRemove(request[q])'
      BY <1>2 DEF SafeRemove
    <3>1. InRoles(request[q]) /\ InDelete(request[q]) /\ Active(request[q])
      BY DEF InRoles, InDelete, Active, Roles
    <3>2. (Taken(request[q].org) \/ HasOther(request[q].org, request[q].user))'
      BY <2>1, <2>2, <3>1 DEF Safe, SafeRemove
    <3>3. request[q].user \in User /\ (v = "none" => request[q].user # u)
      BY <2>1, <3>1 DEF Safe, Shape, Exclude
    <3>4. \A p \in Org : role[p][request[q].user] # "none" =>
                           role'[p][request[q].user] # "none"
      BY <3>3, <1>1
    <3> QED
      BY <2>1, <3>2, <3>4, <1>2 DEF Safe, SafeRemove, Is
  <2>5. SafeProvision(request[q])'
    BY <2>1, <1>2 DEF Safe, SafeProvision, Is
  <2> QED
    BY <2>3, <2>4, <2>5
<1>7. /\ RequestsSafe' /\ LocksExclude' /\ request' \in [Request -> RequestType]
  BY <1>4, <1>6, WritesDone
<1>8. MembersOpened' /\ InvitesOpened'
  <2>1. MembersOpened'
    BY <1>1, <1>4 DEF MembersOpened, MemberInv, Kept
  <2>2. InvitesOpened'
    BY <1>4 DEF InvitesOpened, MemberInv, Kept, Waits
  <2> QED
    BY <2>1, <2>2
<1>9. HomeBelongs' /\ OnePersonal'
  <2>1. \A p \in Org : org[p].home \in User \union {None}
    BY DEF MemberInv, TypeOK, OrgType
  <2> QED
    BY <2>1, <1>5 DEF HomeBelongs, OnePersonal, MemberInv, Is
<1>10. Lasting
  BY <1>4, <1>5 DEF Lasting, Stays, Is
<1> QED
  BY <1>1, <1>7, <1>8, <1>9, <1>10 DEF MemberInv, TypeOK

LEMMA UpdateRoleStep ==
  ASSUME MemberInv, NEW r \in Request, UpdateRole(r)
  PROVE  MemberInv' /\ Lasting
<1>1. CASE UNCHANGED role
  BY <1>1, GoesDone, Undisturbed DEF UpdateRole, tables
<1>2. CASE /\ role[request[r].org][request[r].user] # "none"
           /\ SetRole(request[r].org, request[r].user, request[r].role)
  <2>1. /\ Shape(request[r]) /\ SafeRole(request[r]) /\ InRoles(request[r])
        /\ request[r].pc = "update" /\ request[r].kind = "role"
    BY DEF MemberInv, RequestsSafe, Safe, UpdateRole, At, InRoles, Roles
  <2>2. /\ request[r].org \in Org /\ request[r].user \in User /\ request[r].role \in Role
        /\ request[r].role # "none"
    BY <2>1 DEF Shape, Active, Role
  <2> QED
    BY <2>1, <2>2, <1>2, Turns DEF SafeRole, UpdateRole
<1> QED
  BY <1>1, <1>2 DEF UpdateRole

LEMMA DeleteMemberStep ==
  ASSUME MemberInv, NEW r \in Request, DeleteMember(r)
  PROVE  MemberInv' /\ Lasting
<1>1. /\ Shape(request[r]) /\ SafeRemove(request[r]) /\ InRoles(request[r])
      /\ InDelete(request[r]) /\ request[r].pc = "delete" /\ request[r].kind = "remove"
  BY DEF MemberInv, RequestsSafe, Safe, DeleteMember, At, InRoles, InDelete, Roles
<1>2. request[r].org \in Org /\ request[r].user \in User
  BY <1>1 DEF Shape, Active
<1> QED
  BY <1>1, <1>2, Turns DEF SafeRemove, DeleteMember, Role

-----------------------------------------------------------------------------
(* The erasure. *)

LEMMA PersonSteps ==
  ASSUME MemberInv, NEW u \in User,
         RequestErasure(u) \/ CancelErasure(u) \/ BeginErasure(u) \/ CheckErasure(u)
  PROVE  MemberInv' /\ Lasting
<1>1. PICK s \in {"active", "deletion_pending", "erasing", "checked"}, os \in SUBSET Org :
        SetPerson(u, s, os) /\ ~Is(u, "gone")
  BY DEF RequestErasure, CancelErasure, BeginErasure, CheckErasure, Is
<1>2. UNCHANGED <<role, org, invite, limit, request, changes, pool>>
  BY DEF RequestErasure, CancelErasure, BeginErasure, CheckErasure
<1> DEFINE n == [status |-> s, orgs |-> os]
<1>3. n \in PersonType /\ n.status # "gone"
  BY DEF PersonType
<1>4. person' = [person EXCEPT ![u] = n]
  BY <1>1 DEF SetPerson
<1> HIDE DEF n
<1>5. /\ person' \in [User -> PersonType]
      /\ \A v \in User : person'[v] = IF v = u THEN n ELSE person[v]
  BY <1>3, <1>4 DEF MemberInv, TypeOK
<1>6. \A v \in User : (Is(v, "gone")' <=> Is(v, "gone"))
                       /\ (Is(v, "gone") => person'[v] = person[v])
  BY <1>1, <1>3, <1>5 DEF Is
<1>7. \A o \in Org : Taken(o)' <=> Taken(o)
  BY <1>6 DEF Taken
<1>8. \A o \in Org : Opened(o)' <=> Opened(o)
  BY <1>2, <1>7 DEF Opened, Owners
<1>9. ASSUME NEW q \in Request PROVE Safe(request[q])'
  <2>1. Safe(request[q])
    BY DEF MemberInv, RequestsSafe
  <2>2. Shape(request[q])'
    BY <1>2, <1>8, <2>1 DEF Safe, Shape, Active
  <2>3. Active(request[q]) => request[q].org \in Org /\ request[q].user \in User
    BY <2>1 DEF Safe, Shape
  <2>4. SafeRole(request[q])' /\ SafeRemove(request[q])' /\ SafeProvision(request[q])'
    BY <1>2, <1>6, <1>7, <2>1, <2>3 DEF Safe, SafeRole, SafeRemove, SafeProvision, Active,
       HasOther, Owners
  <2> QED
    BY <2>2, <2>4 DEF Safe
<1>10. RequestsSafe' /\ LocksExclude'
  BY <1>2, <1>9 DEF MemberInv, RequestsSafe, LocksExclude, Exclude, InRoles, InDelete,
     InProvision
<1>11. MembersOpened' /\ InvitesOpened'
  BY <1>2, <1>8 DEF MemberInv, MembersOpened, InvitesOpened, Waits
<1>12. HomeBelongs' /\ OnePersonal'
  <2>1. \A o \in Org : org[o].home \in User \union {None}
    BY DEF MemberInv, TypeOK, OrgType
  <2> QED
    BY <1>2, <1>6, <2>1 DEF MemberInv, HomeBelongs, OnePersonal, Belongs
<1>13. Lasting
  BY <1>2, <1>8 DEF Lasting, Kept, Stays, Belongs
<1> QED
  BY <1>2, <1>5, <1>10, <1>11, <1>12, <1>13 DEF MemberInv, TypeOK

LEMMA EraseMemberStep ==
  ASSUME MemberInv, NEW u \in User, EraseMember(u)
  PROVE  MemberInv' /\ Lasting
<1> DEFINE n == [status |-> "gone", orgs |-> {o \in Org : role[o][u] = "owner"}]
<1>1. n \in PersonType /\ n.status = "gone" /\ n.orgs = {o \in Org : role[o][u] = "owner"}
  BY DEF PersonType
<1>2. person' = [person EXCEPT ![u] = n] /\ ~Is(u, "gone")
  BY DEF EraseMember, SetPerson, Is
<1> HIDE DEF n
<1>3. /\ person' \in [User -> PersonType] /\ person'[u] = n
      /\ \A v \in User : v # u => person'[v] = person[v]
  BY <1>1, <1>2 DEF MemberInv, TypeOK
<1>4. /\ role' \in [Org -> [User -> Role \union {"none"}]]
      /\ \A p \in Org, w \in User : role'[p][w] = IF w = u THEN "none" ELSE role[p][w]
  BY DEF EraseMember, MemberInv, TypeOK
<1>5. /\ invite' \in [Invitation -> InviteType]
      /\ \A i \in Invitation : invite'[i] = invite[i] \/ invite'[i].status = "absent"
  <2>1. NoInvite \in InviteType /\ NoInvite.status = "absent"
    BY DEF NoInvite, InviteType
  <2>2. /\ DOMAIN invite' = Invitation
        /\ \A i \in Invitation : invite'[i] = invite[i] \/ invite'[i] = NoInvite
        /\ invite' = [i \in Invitation |-> invite'[i]]
    <3> HIDE DEF NoInvite
    <3> QED
      BY DEF EraseMember
  <2> QED
    BY <2>1, <2>2 DEF MemberInv, TypeOK
<1>6. /\ org' \in [Org -> OrgType]
      /\ \A o \in Org : org'[o].home = org[o].home
  <2>1. ASSUME NEW o \in Org PROVE org'[o] \in OrgType /\ org'[o].home = org[o].home
    BY DEF EraseMember, MemberInv, TypeOK, OrgType
  <2>2. org' = [o \in Org |-> org'[o]]
    BY DEF EraseMember
  <2> QED
    BY <2>1, <2>2
<1>7. UNCHANGED <<limit, request, changes, pool>>
  BY DEF EraseMember
<1>8. \A v \in User : Is(v, "gone")' <=> (v = u \/ Is(v, "gone"))
  BY <1>1, <1>3 DEF Is
<1>9. \A o \in Org : Taken(o)' <=> (Taken(o) \/ role[o][u] = "owner")
  BY <1>1, <1>2, <1>3, <1>8 DEF Taken
<1>10. Kept
  BY <1>4, <1>9 DEF Kept, Opened, Owners
<1>11. \A w \in User : Belongs(w) => Belongs(w)' \/ w = u
  BY <1>4 DEF Belongs
<1>12. ASSUME NEW q \in Request PROVE Safe(request[q])'
  <2>1. Safe(request[q])
    BY DEF MemberInv, RequestsSafe
  <2>2. Shape(request[q])'
    BY <1>7, <1>10, <2>1 DEF Safe, Shape, Active, Kept
  <2>3. Active(request[q]) => request[q].org \in Org /\ request[q].user \in User
    BY <2>1 DEF Safe, Shape
  <2>4. \A o \in Org, w \in User :
          Taken(o) \/ HasOther(o, w) => Taken(o)' \/ \E v \in User : role'[o][v] = "owner" /\ v # w
    BY <1>4, <1>9 DEF HasOther, Owners
  <2>5. SafeRole(request[q])'
    BY <1>7, <2>1, <2>3, <2>4 DEF Safe, SafeRole, Active, HasOther, Owners
  <2>6. SafeRemove(request[q])'
    BY <1>4, <1>7, <1>8, <2>1, <2>3, <2>4 DEF Safe, SafeRemove, Active, HasOther, Owners
  <2>7. SafeProvision(request[q])'
    BY <1>6, <1>7, <1>8, <2>1, <2>3 DEF Safe, SafeProvision, Active
  <2> QED
    BY <2>2, <2>5, <2>6, <2>7 DEF Safe
<1>13. RequestsSafe' /\ LocksExclude'
  BY <1>7, <1>12 DEF MemberInv, RequestsSafe, LocksExclude, Exclude, InRoles, InDelete,
     InProvision
<1>14. MembersOpened'
  BY <1>4, <1>10 DEF MemberInv, MembersOpened, Kept
<1>15. InvitesOpened'
  <2>1. ASSUME NEW i \in Invitation, Waits(i)' PROVE invite'[i] = invite[i] /\ Waits(i)
    BY <2>1, <1>5 DEF Waits
  <2> QED
    BY <2>1, <1>10 DEF MemberInv, InvitesOpened, Kept
<1>16. HomeBelongs' /\ OnePersonal'
  <2>1. \A o \in Org : org[o].home \in User \union {None}
    BY DEF MemberInv, TypeOK, OrgType
  <2>2. HomeBelongs'
    BY <1>6, <1>8, <1>11, <2>1 DEF MemberInv, HomeBelongs
  <2>3. OnePersonal'
    BY <1>6, <1>8, <2>1 DEF MemberInv, OnePersonal
  <2> QED
    BY <2>2, <2>3
<1>17. Lasting
  BY <1>8, <1>10, <1>11 DEF Lasting, Stays
<1> QED
  BY <1>3, <1>4, <1>5, <1>6, <1>7, <1>13, <1>14, <1>15, <1>16, <1>17 DEF MemberInv, TypeOK

-----------------------------------------------------------------------------

LEMMA FailStep ==
  ASSUME MemberInv, NEW r \in Request, Fail(r)
  PROVE  MemberInv'
BY GoesDone DEF Fail

LEMMA ProgressSteps ==
  ASSUME MemberInv, NEW r \in Request, Progress(r)
  PROVE  MemberInv'
BY BeginStep, LockRoleStep, UpdateRoleStep, LockRemoveStep, CountRemoveStep,
   DeleteMemberStep, SeatMoves, SupersedeStep, InsertInvitationStep, AcceptInvitationStep,
   JoinStep, LockPersonalStep, InsertPersonalStep DEF Progress

LEMMA EndSteps ==
  ASSUME MemberInv, NEW i \in Invitation, Decline(i) \/ Withdraw(i) \/ Expire(i)
  PROVE  MemberInv'
BY EndStep DEF Decline, Withdraw, Expire

LEMMA NextMemberInv == MemberInv /\ [Next]_vars => MemberInv'
<1> SUFFICES ASSUME MemberInv, [Next]_vars PROVE MemberInv'
  OBVIOUS
<1>1. CASE UNCHANGED vars
  <2>1. RequestsSafe' /\ LocksExclude'
    BY <1>1 DEF vars, MemberInv, RequestsSafe, LocksExclude, Safe, Shape, SafeRole, SafeRemove,
       SafeProvision, Active, Exclude, Opened, Owners, Taken, Is, HasOther, InRoles, InDelete,
       InProvision
  <2>2. InvitesOpened'
    BY <1>1 DEF vars, MemberInv, InvitesOpened, Opened, Owners, Taken, Is, Waits
  <2> QED
    BY <1>1, <2>1, <2>2, Untouched DEF vars, MemberInv, TypeOK
<1>2. CASE Next
  BY <1>2, AskSteps, ProgressSteps, FailStep, EndSteps, SetLimitStep, PersonSteps,
     EraseMemberStep DEF Next
<1> QED
  BY <1>1, <1>2

LEMMA NextLasting == MemberInv /\ [Next]_vars => Lasting
<1> SUFFICES ASSUME MemberInv, [Next]_vars PROVE Lasting
  OBVIOUS
<1>1. CASE UNCHANGED <<role, person>>
  BY <1>1, Undisturbed
<1>2. CASE \E r \in Request : UpdateRole(r) \/ DeleteMember(r) \/ Join(r) \/ InsertPersonal(r)
  BY <1>2, UpdateRoleStep, DeleteMemberStep, JoinStep, InsertPersonalStep
<1>3. CASE \E u \in User : RequestErasure(u) \/ CancelErasure(u) \/ BeginErasure(u)
                           \/ CheckErasure(u) \/ EraseMember(u)
  BY <1>3, PersonSteps, EraseMemberStep, SMTT(40)
<1>4. ASSUME NEW r \in Request, Ask(r) PROVE UNCHANGED <<role, person>>
  BY <1>4 DEF Ask, AskRole, AskRemove, AskInvite, AskAccept, AskProvision, Arrive, tables
<1>5. ASSUME NEW r \in Request,
             \/ Begin(r) \/ LockRole(r) \/ LockRemove(r) \/ CountRemove(r) \/ LockSeats(r)
             \/ CheckSeats(r) \/ Supersede(r) \/ Recheck(r) \/ InsertInvitation(r)
             \/ AcceptInvitation(r) \/ LockPersonal(r) \/ Fail(r)
      PROVE  UNCHANGED <<role, person>>
  BY <1>5 DEF Begin, LockRole, LockRemove, CountRemove, LockSeats, CheckSeats, Supersede,
     Recheck, InsertInvitation, AcceptInvitation, LockPersonal, Fail, tables
<1>6. ASSUME NEW i \in Invitation, Decline(i) \/ Withdraw(i) \/ Expire(i)
      PROVE  UNCHANGED <<role, person>>
  BY <1>6 DEF Decline, Withdraw, Expire, End
<1>7. ASSUME NEW o \in Org, NEW n \in Limits, SetLimit(o, n) PROVE UNCHANGED <<role, person>>
  BY <1>7 DEF SetLimit
<1> QED
  BY <1>1, <1>2, <1>3, <1>4, <1>5, <1>6, <1>7 DEF Next, Progress, vars

(* The invariant of the memberships. *)
THEOREM AlwaysMemberInv == Spec => []MemberInv
<1>1. Init => MemberInv
  BY InitMemberInv
<1>2. MemberInv /\ [Next]_vars => MemberInv'
  BY NextMemberInv
<1> QED
  BY <1>1, <1>2, PTL DEF Spec

(* Every variable keeps its type. *)
THEOREM AlwaysTypeOK == Spec => []TypeOK
<1>1. MemberInv => TypeOK
  BY DEF MemberInv
<1> QED
  BY <1>1, AlwaysMemberInv, PTL

(* The signup hook and the repairs of every request give a person one      *)
(* workspace: createPersonalOrganizationIfAbsent counts the memberships    *)
(* again under its lock, and nobody takes the last of them away.           *)
THEOREM AlwaysOnePersonal == Spec => []OnePersonal
<1>1. MemberInv => OnePersonal
  BY DEF MemberInv
<1> QED
  BY <1>1, AlwaysMemberInv, PTL

(* An organization that has an owner keeps one, whatever is demoted,       *)
(* removed or left at the same time: updateMemberRoleAtomically and        *)
(* removeMemberAtomically count under the members lock.  Only an erasure   *)
(* of one of its owners may break it, and its trace says so.               *)
THEOREM KeepsOwners == Spec => OwnerKept
<1>1. MemberInv /\ [Next]_vars =>
        \A o \in Org : Owners(o) # {} /\ Owners(o)' = {} =>
          \E u \in User : Gone(u) /\ o \in person'[u].orgs
  BY NextLasting DEF Lasting, Kept, Opened, Taken, Is, Gone
<1> QED
  BY <1>1, AlwaysMemberInv, PTL DEF Spec, OwnerKept

(* Who belongs somewhere always does, until the account is erased: the     *)
(* removals of one person wait for each other in removeMemberAtomically.   *)
THEOREM KeepsBelonging == Spec => EveryoneBelongs
<1>1. MemberInv /\ [Next]_vars =>
        \A u \in User : Belongs(u) /\ ~Belongs(u)' => Gone(u)
  BY NextLasting DEF Lasting, Stays, Is, Gone
<1> QED
  BY <1>1, AlwaysMemberInv, PTL DEF Spec, EveryoneBelongs

-----------------------------------------------------------------------------
(* Seats.  The lock leaves one request of an organization under way, so    *)
(* what it counted can only shrink until it writes; the limit that it read *)
(* is what it writes against.  The organizations that are being provided   *)
(* are nobody else's yet.                                                  *)

InSeat(x) == x.kind \in Seat /\ x.pc \notin {"new", "begin", "lock", "done"}
Draws(x) == Active(x) /\ x.kind = "provision"

Apart(x, y) ==
  /\ InSeat(x) /\ InSeat(y) => x.org # y.org
  /\ Draws(x) /\ Draws(y) => x.org # y.org

Grounded(x) == Active(x) => (org[x.org].life = "absent" <=> x.kind = "provision")

SeatFree(x) ==
  /\ x.kind = "invite" /\ x.pc = "insert" => Occupied(x.org) + 1 =< x.cap
  /\ x.kind = "accept" /\ x.pc \in {"accept", "join"} =>
       Cardinality(Members(x.org)) + 1 =< x.cap

SeatSafe(x) == Grounded(x) /\ SeatFree(x)

AllSeatSafe == \A r \in Request : SeatSafe(request[r])
AllApart == \A p, q \in Request : p # q => Apart(request[p], request[q])

AbsentEmpty == \A o \in Org : org[o].life = "absent" => Members(o) = {} /\ Pending(o) = {}

TornAlive ==
  \A u \in User : Is(u, "checked") => \A o \in person[u].orgs : org[o].life # "absent"

SeatInv == AllSeatSafe /\ AllApart /\ AbsentEmpty /\ TornAlive

BothInv == MemberInv /\ SeatInv

LEMMA InitSeatInv == Init => SeatInv
<1> SUFFICES ASSUME Init PROVE SeatInv
  OBVIOUS
<1> USE DEF Init
<1>1. PICK s \in Start : role = s.role /\ org = s.org /\ invite = s.invite /\ limit = s.limit
  OBVIOUS
<1>2. AllSeatSafe /\ AllApart
  BY DEF AllSeatSafe, AllApart, SeatSafe, Grounded, SeatFree, Apart, InSeat, Draws, Active,
         NewRequest
<1>3. TornAlive
  BY DEF TornAlive, Is
<1>4. ASSUME NEW o \in Org, org[o].life = "absent"
      PROVE  Members(o) = {} /\ Pending(o) = {}
  <2>1. \A u \in User : role[o][u] = "none"
    BY <1>1, <1>4, StartAssumption
  <2>2. \A i \in Invitation : Waits(i) => \E u \in User : role[invite[i].org][u] = "owner"
    BY <1>1, StartAssumption DEF Waits
  <2> QED
    BY <2>1, <2>2 DEF Members, Pending
<1> QED
  BY <1>2, <1>3, <1>4 DEF SeatInv, AbsentEmpty

(* The sets that are counted are finite, and counting respects inclusion.  *)
LEMMA Counted ==
  ASSUME NEW o
  PROVE  /\ IsFiniteSet(Members(o)) /\ Cardinality(Members(o)) \in Nat
         /\ IsFiniteSet(Pending(o)) /\ Cardinality(Pending(o)) \in Nat
<1>1. Members(o) \in SUBSET User /\ Pending(o) \in SUBSET Invitation
  BY DEF Members, Pending
<1> QED
  BY <1>1, MembershipAssumption, FS_Subset, FS_CardinalityType

LEMMA Fewer ==
  ASSUME NEW S, NEW T, IsFiniteSet(S), T \subseteq S
  PROVE  Cardinality(T) =< Cardinality(S)
BY FS_Subset

LEMMA OneMore ==
  ASSUME NEW S, NEW T, NEW e, IsFiniteSet(S), T \subseteq S \union {e}
  PROVE  Cardinality(T) =< Cardinality(S) + 1
<1>1. /\ IsFiniteSet(S \union {e})
      /\ Cardinality(S \union {e}) =
           IF e \in S THEN Cardinality(S) ELSE Cardinality(S) + 1
  BY FS_AddElement
<1>2. Cardinality(T) =< Cardinality(S \union {e}) /\ IsFiniteSet(T)
  BY <1>1, FS_Subset
<1> QED
  BY <1>1, <1>2, FS_CardinalityType

(* Nobody joins an organization and nobody is invited to it. *)
NoMore(o) == Members(o)' \subseteq Members(o) /\ Pending(o)' \subseteq Pending(o)

LEMMA NoMoreCounted ==
  ASSUME NEW o, NoMore(o)
  PROVE  /\ Cardinality(Members(o)') =< Cardinality(Members(o))
         /\ Cardinality(Members(o)') \in Nat /\ Occupied(o)' \in Nat
         /\ Occupied(o)' =< Occupied(o)
<1>1. IsFiniteSet(Members(o)') /\ IsFiniteSet(Pending(o)')
  BY Counted, FS_Subset DEF NoMore
<1>2. Cardinality(Members(o)') \in Nat /\ Cardinality(Pending(o)') \in Nat
  BY <1>1, FS_CardinalityType
<1> QED
  BY <1>2, Counted, Fewer DEF NoMore, Occupied

(* No organization comes or goes. *)
SameLife == \A o \in Org : org'[o].life = "absent" <=> org[o].life = "absent"

Shrinks == SameLife /\ \A o \in Org : NoMore(o)

LEMMA CapNat ==
  ASSUME NEW x \in RequestType
  PROVE  x.cap \in Nat
<1>1. x.cap \in Limits \union {0}
  BY DEF RequestType
<1>2. Limits \union {0} \subseteq Nat
  BY MembershipAssumption
<1> QED
  BY <1>1, <1>2, Zenon

(* A claim survives where nothing grows. *)
LEMMA ClaimKept ==
  ASSUME NEW x, x \in RequestType, Shape(x), SeatSafe(x),
         Active(x) => /\ NoMore(x.org)
                      /\ org'[x.org].life = "absent" <=> org[x.org].life = "absent"
  PROVE  SeatSafe(x)'
<1>1. Grounded(x)'
  BY DEF SeatSafe, Grounded
<1>2. SeatFree(x)'
  <2>1. CASE ~Active(x)
    BY <2>1 DEF SeatFree, Active
  <2>2. CASE Active(x)
    <3>1. NoMore(x.org)
      BY <2>2
    <3>2. x.cap \in Nat
      BY CapNat
    <3>3. /\ Cardinality(Members(x.org)') =< Cardinality(Members(x.org))
          /\ Cardinality(Members(x.org)') \in Nat /\ Occupied(x.org)' \in Nat
          /\ Occupied(x.org)' =< Occupied(x.org)
      BY <3>1, NoMoreCounted
    <3>4. Cardinality(Members(x.org)) \in Nat /\ Occupied(x.org) \in Nat
      BY Counted DEF Occupied
    <3> QED
      BY <3>2, <3>3, <3>4 DEF SeatSafe, SeatFree
  <2> QED
    BY <2>1, <2>2
<1> QED
  BY <1>1, <1>2 DEF SeatSafe

(* A request moves to a record that claims a seat rightly, if any, and     *)
(* that no lock forbids, while nothing grows.                              *)
LEMMA SeatMove ==
  ASSUME BothInv, NEW r \in Request, NEW x \in RequestType,
         request' = [request EXCEPT ![r] = x],
         Shrinks, TornAlive', Shape(x), SeatSafe(x),
         \A q \in Request \ {r} : Apart(x, request[q])
  PROVE  SeatInv'
<1> USE DEF BothInv, MemberInv, SeatInv
<1>1. \A q \in Request : request'[q] = IF q = r THEN x ELSE request[q]
  BY DEF TypeOK
<1>2. \A q \in Request : /\ request'[q] \in RequestType /\ Shape(request'[q])
                         /\ SeatSafe(request'[q])
  BY <1>1 DEF TypeOK, RequestsSafe, Safe, AllSeatSafe
<1>3. ASSUME NEW q \in Request PROVE SeatSafe(request[q])'
  <2>1. PICK y : y = request'[q]
    OBVIOUS
  <2>2. y \in RequestType /\ Shape(y) /\ SeatSafe(y)
    BY <1>2, <2>1
  <2>3. SeatSafe(y)'
    BY <2>2, ClaimKept DEF Shape, Shrinks, SameLife
  <2> QED
    BY <2>1, <2>3 DEF SeatSafe, Grounded, SeatFree
<1>4. AllApart'
  <2> SUFFICES ASSUME NEW p \in Request, NEW q \in Request, p # q
               PROVE  Apart(request'[p], request'[q])
    BY DEF AllApart, Apart, InSeat, Draws, Active
  <2> QED
    BY <1>1 DEF AllApart, Apart
<1>5. AbsentEmpty'
  BY DEF AbsentEmpty, Shrinks, SameLife, NoMore
<1> QED
  BY <1>3, <1>4, <1>5 DEF AllSeatSafe

(* The same without a request. *)
LEMMA SeatRest ==
  ASSUME BothInv, UNCHANGED request, Shrinks, TornAlive'
  PROVE  SeatInv'
<1> USE DEF BothInv, MemberInv, SeatInv
<1>1. ASSUME NEW q \in Request PROVE SeatSafe(request[q])'
  <2>1. PICK y : y = request[q]
    OBVIOUS
  <2>2. y \in RequestType /\ Shape(y) /\ SeatSafe(y)
    BY <2>1 DEF TypeOK, RequestsSafe, Safe, AllSeatSafe
  <2>3. SeatSafe(y)'
    BY <2>2, ClaimKept DEF Shape, Shrinks, SameLife
  <2> QED
    BY <2>1, <2>3 DEF SeatSafe, Grounded, SeatFree
<1>2. AllApart'
  BY DEF AllApart, Apart, InSeat, Draws, Active
<1>3. AbsentEmpty'
  BY DEF AbsentEmpty, Shrinks, SameLife, NoMore
<1> QED
  BY <1>1, <1>2, <1>3 DEF AllSeatSafe

(* Nothing that the seats depend on changes but the request. *)
LEMMA Steady ==
  ASSUME BothInv, UNCHANGED tables
  PROVE  Shrinks /\ TornAlive'
BY DEF BothInv, SeatInv, tables, Shrinks, SameLife, NoMore, Members, Pending, Waits,
       TornAlive, Is

(* A request ends, and nothing grows. *)
LEMMA SeatDone ==
  ASSUME BothInv, NEW r \in Request, GoTo(r, "done"), Shrinks, TornAlive'
  PROVE  SeatInv'
<1> DEFINE x == [NewRequest EXCEPT !.pc = "done"]
<1>1. request' = [request EXCEPT ![r] = x] /\ x.pc = "done"
  BY DEF GoTo, NewRequest
<1>2. x \in RequestType
  BY Over DEF BothInv
<1> HIDE DEF x
<1>3. Shape(x) /\ SeatSafe(x) /\ \A q \in Request \ {r} : Apart(x, request[q])
  BY <1>1 DEF Shape, SeatSafe, Grounded, SeatFree, Apart, InSeat, Draws, Active
<1> QED
  BY <1>1, <1>2, <1>3, SeatMove

(* A request goes on, and nothing grows. *)
LEMMA SeatOn ==
  ASSUME BothInv, NEW r \in Request, Active(request[r]),
         NEW pc \in {"lock", "update", "user", "delete", "check", "supersede", "recheck",
                     "insert", "accept", "join"},
         GoTo(r, pc), Shrinks, TornAlive',
         request[r].kind \in Seat =>
           /\ SeatFree([request[r] EXCEPT !.pc = pc])
           /\ pc = "lock" \/ InSeat(request[r]) \/ OrgFree(Seat, request[r].org)
  PROVE  SeatInv'
<1> DEFINE x == [request[r] EXCEPT !.pc = pc]
<1> USE DEF BothInv, MemberInv, SeatInv
<1>1. request[r] \in RequestType /\ Shape(request[r]) /\ SeatSafe(request[r])
  BY DEF TypeOK, RequestsSafe, Safe, AllSeatSafe
<1>2. /\ x \in RequestType /\ x.pc = pc /\ x.kind = request[r].kind /\ x.org = request[r].org
      /\ x.user = request[r].user /\ x.role = request[r].role
      /\ x.invite = request[r].invite
  BY <1>1 DEF RequestType
<1>3. request' = [request EXCEPT ![r] = x]
  BY DEF GoTo
<1>4. x.kind \in Seat => SeatFree(x)
  BY <1>2
<1> HIDE DEF x
<1>5. Shape(x) /\ SeatSafe(x)
  BY <1>1, <1>2, <1>4 DEF Shape, SeatSafe, Grounded, SeatFree, Active, Seat
<1>6. ASSUME NEW q \in Request \ {r} PROVE Apart(x, request[q])
  <2>1. Apart(request[r], request[q])
    BY DEF AllApart
  <2>2. Draws(x) /\ Draws(request[q]) => x.org # request[q].org
    BY <1>2, <2>1 DEF Apart, Draws
  <2>3. InSeat(x) /\ InSeat(request[q]) => x.org # request[q].org
    BY <1>2, <2>1 DEF Apart, InSeat, OrgFree, Holds, InTransaction
  <2> QED
    BY <2>2, <2>3 DEF Apart
<1> QED
  BY <1>2, <1>3, <1>5, <1>6, SeatMove

LEMMA SeatAsk ==
  ASSUME BothInv, NEW r \in Request, Ask(r)
  PROVE  SeatInv'
<1> USE DEF BothInv, MemberInv, SeatInv
<1>1. ASSUME NEW x \in RequestType, Arrive(r, x), Shape([x EXCEPT !.pc = "begin"]),
             org[x.org].life = "absent" <=> x.kind = "provision",
             x.kind = "provision" => \A q \in Request : request[q].org # x.org
      PROVE  SeatInv'
  <2> DEFINE y == [x EXCEPT !.pc = "begin"]
  <2>1. y \in RequestType /\ y.pc = "begin" /\ y.org = x.org /\ y.kind = x.kind
    BY DEF RequestType
  <2>2. request' = [request EXCEPT ![r] = y]
    BY <1>1 DEF Arrive, RequestType
  <2>3. Shape(y)
    BY <1>1
  <2> HIDE DEF y
  <2>4. SeatSafe(y)
    BY <1>1, <2>1 DEF SeatSafe, Grounded, SeatFree
  <2>5. \A q \in Request \ {r} : Apart(y, request[q])
    BY <1>1, <2>1 DEF Apart, InSeat, Draws
  <2>6. Shrinks /\ TornAlive'
    BY <1>1, Steady DEF Arrive
  <2> QED
    BY <2>1, <2>2, <2>3, <2>4, <2>5, <2>6, SeatMove
<1>2. ASSUME NEW o \in Org, NEW c \in User, Acts(c, o)
      PROVE  Opened(o) /\ org[o].life # "absent"
  BY <1>2 DEF Acts, MembersOpened, AbsentEmpty, Members
<1> USE DEF TypeOK, NewRequest, RequestType, Kind, Shape, Active, Seat
<1>3. CASE AskRole(r)
  <2>1. PICK o \in Org, c \in User, u \in User, v \in Asked :
          /\ Manages(c, o)
          /\ Arrive(r, [NewRequest EXCEPT !.kind = "role", !.org = o, !.user = u, !.role = v])
    BY <1>3 DEF AskRole
  <2>2. Opened(o) /\ v \in Role /\ org[o].life # "absent"
    BY <2>1, <1>2, MembershipAssumption DEF Manages
  <2> QED
    BY <2>1, <2>2, <1>1
<1>4. CASE AskRemove(r)
  <2>1. PICK o \in Org, c \in User, u \in User :
          /\ Acts(c, o)
          /\ Arrive(r, [NewRequest EXCEPT !.kind = "remove", !.org = o, !.user = u])
    BY <1>4 DEF AskRemove
  <2> QED
    BY <2>1, <1>1, <1>2
<1>5. CASE AskInvite(r)
  <2> DEFINE i == CHOOSE i \in FreeIds : TRUE
  <2>1. PICK o \in Org, c \in User, u \in User, v \in Asked :
          /\ Manages(c, o) /\ FreeIds # {}
          /\ Arrive(r, [NewRequest EXCEPT !.kind = "invite", !.org = o, !.user = u, !.role = v,
                                          !.by = c, !.invite = i])
    BY <1>5 DEF AskInvite
  <2>2. Opened(o) /\ v \in Role /\ org[o].life # "absent"
    BY <2>1, <1>2, MembershipAssumption DEF Manages
  <2>3. i \in Invitation
    BY <2>1 DEF FreeIds
  <2> HIDE DEF i
  <2> QED
    BY <2>1, <2>2, <2>3, <1>1
<1>6. CASE AskAccept(r)
  <2>1. PICK i \in Invitation :
          /\ Waits(i)
          /\ Arrive(r, [NewRequest EXCEPT !.kind = "accept", !.org = invite[i].org,
               !.user = invite[i].user, !.role = invite[i].role, !.invite = i])
    BY <1>6 DEF AskAccept
  <2>2. /\ invite[i].org \in Org /\ invite[i].user \in User /\ invite[i].role \in Role
        /\ Opened(invite[i].org)
    BY <2>1 DEF InvitesOpened
  <2>3. org[invite[i].org].life # "absent"
    BY <2>1, <2>2 DEF AbsentEmpty, Pending
  <2> QED
    BY <2>1, <2>2, <2>3, <1>1
<1>7. CASE AskProvision(r)
  <2> DEFINE o == CHOOSE o \in FreeOrgs : TRUE
  <2>1. PICK u \in User :
          /\ FreeOrgs # {}
          /\ Arrive(r, [NewRequest EXCEPT !.kind = "provision", !.user = u, !.org = o])
    BY <1>7 DEF AskProvision
  <2>2. o \in Org /\ org[o].life = "absent" /\ \A q \in Request : request[q].org # o
    BY <2>1 DEF FreeOrgs
  <2> HIDE DEF o
  <2> QED
    BY <2>1, <2>2, <1>1
<1> QED
  BY <1>3, <1>4, <1>5, <1>6, <1>7 DEF Ask

(* The steps that only read. *)
LEMMA SeatReads ==
  ASSUME BothInv, NEW r \in Request,
         \/ Begin(r) \/ LockRole(r) \/ LockRemove(r) \/ CountRemove(r) \/ LockSeats(r)
         \/ CheckSeats(r) \/ LockPersonal(r) \/ Fail(r)
  PROVE  SeatInv'
<1>1. UNCHANGED tables
  BY DEF Begin, LockRole, LockRemove, CountRemove, LockSeats, CheckSeats, LockPersonal, Fail
<1>2. Shrinks /\ TornAlive'
  BY <1>1, Steady
<1>3. request[r] \in RequestType
  BY DEF BothInv, MemberInv, TypeOK
<1>4. ASSUME NEW pc \in {"lock", "check", "supersede", "recheck"}
      PROVE  SeatFree([request[r] EXCEPT !.pc = pc])
  BY <1>3 DEF SeatFree, RequestType
<1>5. CASE GoTo(r, "done")
  BY <1>2, <1>5, SeatDone
<1>6. CASE Begin(r) /\ GoTo(r, "lock")
  BY <1>2, <1>4, <1>6, SeatOn DEF Begin, At, Active
<1>7. CASE LockRole(r) /\ GoTo(r, "update")
  BY <1>2, <1>7, SeatOn DEF LockRole, At, Active, Seat
<1>8. CASE LockRemove(r) /\ GoTo(r, "user")
  BY <1>2, <1>8, SeatOn DEF LockRemove, At, Active, Seat
<1>9. CASE CountRemove(r) /\ GoTo(r, "delete")
  BY <1>2, <1>9, SeatOn DEF CountRemove, At, Active, Seat
<1>10. CASE LockSeats(r)
  BY <1>2, <1>4, <1>10, SeatOn DEF LockSeats, At, Active
<1>11. CASE CheckSeats(r) /\ (GoTo(r, "supersede") \/ GoTo(r, "recheck"))
  BY <1>2, <1>4, <1>11, SeatOn DEF CheckSeats, At, Active, InSeat
<1>12. CASE LockPersonal(r) /\ GoTo(r, "insert")
  BY <1>2, <1>12, SeatOn DEF LockPersonal, At, Active, Seat
<1> QED
  BY <1>5, <1>6, <1>7, <1>8, <1>9, <1>10, <1>11, <1>12
  DEF Begin, LockRole, LockRemove, CountRemove, CheckSeats, LockPersonal, Fail

(* Fewer pending invitations, and the rest as it was. *)
LEMMA SeatLess ==
  ASSUME BothInv, UNCHANGED <<role, org, person>>,
         \A i \in Invitation : Waits(i)' => Waits(i) /\ invite'[i].org = invite[i].org
  PROVE  Shrinks /\ TornAlive'
BY DEF BothInv, SeatInv, Shrinks, SameLife, NoMore, Members, Pending, TornAlive, Is

LEMMA SeatSupersede ==
  ASSUME BothInv, NEW r \in Request, Supersede(r)
  PROVE  SeatInv'
<1> DEFINE o == request[r].org  u == request[r].user
<1>1. request[r] \in RequestType
  BY DEF BothInv, MemberInv, TypeOK
<1>2. CASE GoTo(r, "done") /\ UNCHANGED invite
  BY <1>2, SeatDone, SeatLess DEF Supersede, Waits
<1>3. CASE /\ GoTo(r, "recheck")
           /\ invite' = [i \in Invitation |->
                IF i \in Pending(o) \ Others(o, u)
                  THEN [invite[i] EXCEPT !.status = "over"] ELSE invite[i]]
  <2>1. \A i \in Invitation : Waits(i)' => Waits(i) /\ invite'[i].org = invite[i].org
    BY <1>3 DEF Waits, BothInv, MemberInv, TypeOK, InviteType
  <2>2. Shrinks /\ TornAlive'
    BY <2>1, SeatLess DEF Supersede
  <2>3. SeatFree([request[r] EXCEPT !.pc = "recheck"])
    BY <1>1 DEF SeatFree, RequestType
  <2> QED
    BY <1>3, <2>2, <2>3, SeatOn DEF Supersede, At, Active, InSeat, Seat
<1> QED
  BY <1>2, <1>3 DEF Supersede

(* The second check under the lock: what it finds free stays free. *)
LEMMA SeatRecheck ==
  ASSUME BothInv, NEW r \in Request, Recheck(r)
  PROVE  SeatInv'
<1> USE DEF BothInv, MemberInv, SeatInv
<1> DEFINE o == request[r].org
<1>1. Shrinks /\ TornAlive'
  BY Steady DEF Recheck
<1>2. CASE GoTo(r, "done")
  BY <1>1, <1>2, SeatDone
<1>3. ASSUME NEW pc \in {"insert", "accept"}, Pass(r, pc),
             \/ pc = "insert" /\ request[r].kind = "invite" /\ CanInvite(o, Pending(o))
             \/ pc = "accept" /\ request[r].kind = "accept" /\ CanAccept(o)
      PROVE  SeatInv'
  <2> DEFINE x == [request[r] EXCEPT !.pc = pc, !.cap = limit[o]]
  <2>1. /\ request[r] \in RequestType /\ Shape(request[r]) /\ SeatSafe(request[r])
        /\ Active(request[r]) /\ InSeat(request[r]) /\ o \in Org
    BY DEF TypeOK, RequestsSafe, Safe, AllSeatSafe, Recheck, At, Active, InSeat, Seat, Shape
  <2>2. /\ x \in RequestType /\ x.pc = pc /\ x.kind = request[r].kind /\ x.org = o
        /\ x.user = request[r].user /\ x.role = request[r].role
        /\ x.invite = request[r].invite /\ x.cap = limit[o]
    BY <2>1 DEF TypeOK, RequestType
  <2>3. request' = [request EXCEPT ![r] = x]
    BY <1>3 DEF Pass
  <2> HIDE DEF x
  <2>4. Shape(x) /\ Grounded(x)
    BY <2>1, <2>2 DEF Shape, Active, SeatSafe, Grounded
  <2>5. SeatFree(x)
    BY <1>3, <2>2 DEF SeatFree, CanInvite, CanAccept, Occupied
  <2>6. ASSUME NEW q \in Request \ {r} PROVE Apart(x, request[q])
    BY <2>1, <2>2 DEF AllApart, Apart, InSeat, Draws, Active, Seat
  <2> QED
    BY <1>1, <2>2, <2>3, <2>4, <2>5, <2>6, SeatMove DEF SeatSafe
<1> QED
  BY <1>2, <1>3 DEF Recheck, At, Seat

LEMMA SeatAccepts ==
  ASSUME BothInv, NEW r \in Request, AcceptInvitation(r)
  PROVE  SeatInv'
<1> USE DEF BothInv, MemberInv, SeatInv
<1> DEFINE i == request[r].invite
<1>1. request[r] \in RequestType /\ SeatSafe(request[r])
  BY DEF TypeOK, AllSeatSafe
<1>2. CASE GoTo(r, "done") /\ UNCHANGED invite
  BY <1>2, SeatDone, SeatLess DEF AcceptInvitation, Waits
<1>3. CASE Close(i) /\ GoTo(r, "join")
  <2>1. \A j \in Invitation : Waits(j)' => Waits(j) /\ invite'[j].org = invite[j].org
    BY <1>3 DEF Close, Waits, TypeOK, InviteType
  <2>2. Shrinks /\ TornAlive'
    BY <2>1, SeatLess DEF AcceptInvitation
  <2> DEFINE x == [request[r] EXCEPT !.pc = "join"]
  <2>3. x.pc = "join" /\ x.kind = "accept" /\ x.org = request[r].org /\ x.cap = request[r].cap
    BY <1>1 DEF RequestType, AcceptInvitation, At
  <2> HIDE DEF x
  <2>4. SeatFree(x)
    BY <1>1, <2>3 DEF SeatSafe, SeatFree, AcceptInvitation, At
  <2> QED
    BY <1>3, <2>2, <2>4, SeatOn DEF x, AcceptInvitation, At, Active, InSeat, Seat
<1> QED
  BY <1>2, <1>3 DEF AcceptInvitation

(* The steps of other parties, and the writes that admit nobody. *)
LEMMA SeatEnds ==
  ASSUME BothInv, NEW i \in Invitation, Decline(i) \/ Withdraw(i) \/ Expire(i)
  PROVE  SeatInv'
<1>1. End(i)
  BY DEF Decline, Withdraw, Expire
<1>2. \A j \in Invitation : Waits(j)' => Waits(j) /\ invite'[j].org = invite[j].org
  BY <1>1 DEF End, Close, Waits, BothInv, MemberInv, TypeOK, InviteType
<1> QED
  BY <1>1, <1>2, SeatLess, SeatRest DEF End

LEMMA SeatLimit ==
  ASSUME BothInv, NEW o \in Org, NEW n \in Limits, SetLimit(o, n)
  PROVE  SeatInv'
BY SeatLess, SeatRest DEF SetLimit, Waits

LEMMA SeatRoles ==
  ASSUME BothInv, NEW r \in Request, UpdateRole(r) \/ DeleteMember(r)
  PROVE  SeatInv'
<1>1. GoTo(r, "done") /\ UNCHANGED <<org, invite, person>>
  BY DEF UpdateRole, DeleteMember
<1>2. \A o \in Org : \A u \in User : role'[o][u] # "none" => role[o][u] # "none"
  BY DEF UpdateRole, DeleteMember, SetRole, BothInv, MemberInv, TypeOK
<1>3. Shrinks /\ TornAlive'
  BY <1>1, <1>2 DEF BothInv, SeatInv, Shrinks, SameLife, NoMore, Members, Pending, Waits,
     TornAlive, Is
<1> QED
  BY <1>1, <1>3, SeatDone

LEMMA SeatPersons ==
  ASSUME BothInv, NEW u \in User,
         RequestErasure(u) \/ CancelErasure(u) \/ BeginErasure(u) \/ CheckErasure(u)
  PROVE  SeatInv'
<1> USE DEF BothInv, MemberInv, SeatInv
<1>1. UNCHANGED <<role, org, invite, request>>
  BY DEF RequestErasure, CancelErasure, BeginErasure, CheckErasure
<1>2. Shrinks
  BY <1>1 DEF Shrinks, SameLife, NoMore, Members, Pending, Waits
<1>3. PICK st : \E os \in SUBSET Org :
        /\ SetPerson(u, st, os)
        /\ st = "checked" => os = {o \in Org : Alone(o, u)}
  BY DEF RequestErasure, CancelErasure, BeginErasure, CheckErasure
<1>4. PICK os \in SUBSET Org :
        /\ SetPerson(u, st, os)
        /\ st = "checked" => os = {o \in Org : Alone(o, u)}
  BY <1>3
<1>5. \A o \in Org : Alone(o, u) => org[o].life # "absent"
  BY DEF Alone, AbsentEmpty
<1>6. TornAlive'
  BY <1>1, <1>4, <1>5 DEF SetPerson, TornAlive, Is, TypeOK
<1> QED
  BY <1>1, <1>2, <1>6, SeatRest

LEMMA SeatErased ==
  ASSUME BothInv, NEW u \in User, EraseMember(u)
  PROVE  SeatInv'
<1> USE DEF BothInv, MemberInv, SeatInv, EraseMember
<1>1. \A o \in person[u].orgs : org[o].life # "absent"
  BY DEF TornAlive
<1>2. \A o \in Org : org'[o].life = IF o \in person[u].orgs THEN "deleted" ELSE org[o].life
  BY DEF TypeOK, OrgType
<1>3. SameLife
  <2> HIDE DEF BothInv, EraseMember
  <2>1. ASSUME NEW o \in Org PROVE org'[o].life = "absent" <=> org[o].life = "absent"
    BY <1>1, <1>2
  <2> QED
    BY <2>1 DEF SameLife
<1>4. \A o \in Org : Members(o)' \subseteq Members(o)
  BY DEF Members, TypeOK
<1>5. \A i \in Invitation : Waits(i)' => Waits(i) /\ invite'[i].org = invite[i].org
  BY DEF Waits, NoInvite, TypeOK
<1>6. Shrinks
  BY <1>3, <1>4, <1>5 DEF Shrinks, NoMore, Pending
<1>7. TornAlive'
  <2>1. \A v \in User : Is(v, "checked")' => Is(v, "checked") /\ person'[v].orgs = person[v].orgs
    BY DEF SetPerson, Is, TypeOK
  <2>2. \A v \in User : person[v].orgs \subseteq Org
    BY DEF TypeOK, PersonType
  <2> QED
    BY <1>3, <2>1, <2>2 DEF SameLife, TornAlive
<1> QED
  BY <1>6, <1>7, SeatRest

(* A write that admits somebody: no other claim is on that organization.   *)
LEMMA SeatWrites ==
  ASSUME BothInv, NEW r \in Request, GoTo(r, "done"),
         \A q \in Request \ {r} :
           Active(request[q]) =>
             /\ org'[request[q].org].life = "absent" <=> org[request[q].org].life = "absent"
             /\ NoMore(request[q].org) \/ ~InSeat(request[q]),
         AbsentEmpty', TornAlive'
  PROVE  SeatInv'
<1> USE DEF BothInv, MemberInv, SeatInv
<1>1. \A q \in Request : request'[q] = IF q = r THEN [NewRequest EXCEPT !.pc = "done"]
                                                 ELSE request[q]
  BY DEF GoTo, TypeOK
<1>2. request'[r].pc = "done"
  BY <1>1 DEF NewRequest
<1>3. ASSUME NEW q \in Request PROVE SeatSafe(request[q])'
  <2>1. CASE q = r
    BY <1>2, <2>1 DEF SeatSafe, Grounded, SeatFree, Active
  <2>2. CASE q # r
    <3>1. PICK y : y = request[q]
      OBVIOUS
    <3>2. y \in RequestType /\ Shape(y) /\ SeatSafe(y)
      BY <3>1 DEF TypeOK, RequestsSafe, Safe, AllSeatSafe
    <3>3. Active(y) => /\ org'[y.org].life = "absent" <=> org[y.org].life = "absent"
                       /\ NoMore(y.org) \/ ~InSeat(y)
      BY <2>2, <3>1
    <3>4. SeatSafe(y)'
      <4>1. CASE InSeat(y)
        BY <3>2, <3>3, <4>1, ClaimKept DEF InSeat, Active
      <4>2. CASE ~InSeat(y)
        BY <3>2, <3>3, <4>2 DEF SeatSafe, Grounded, SeatFree, InSeat, Seat
      <4> QED
        BY <4>1, <4>2
    <3>5. y = request'[q]
      BY <1>1, <2>2, <3>1
    <3> QED
      BY <3>4, <3>5 DEF SeatSafe, Grounded, SeatFree
  <2> QED
    BY <2>1, <2>2
<1>4. AllApart'
  <2> SUFFICES ASSUME NEW p \in Request, NEW q \in Request, p # q
               PROVE  Apart(request'[p], request'[q])
    BY DEF AllApart, Apart, InSeat, Draws, Active
  <2> QED
    BY <1>1, <1>2 DEF AllApart, Apart, InSeat, Draws, Active
<1> QED
  BY <1>3, <1>4 DEF AllSeatSafe

(* Nobody else is under the seat lock of an organization. *)
LEMMA SeatsApart ==
  ASSUME BothInv, NEW r \in Request, InSeat(request[r])
  PROVE  \A q \in Request \ {r} : InSeat(request[q]) => request[q].org # request[r].org
BY DEF BothInv, SeatInv, AllApart, Apart

LEMMA SeatInserts ==
  ASSUME BothInv, NEW r \in Request, InsertInvitation(r)
  PROVE  /\ SeatInv'
         /\ \E o \in Org : /\ \A p \in Org : p # o => NoMore(p)
                           /\ Occupied(o)' =< request[r].cap
<1> USE DEF BothInv, MemberInv, SeatInv, InsertInvitation
<1> PICK o, i : o = request[r].org /\ i = request[r].invite
  OBVIOUS
<1>1. /\ InSeat(request[r]) /\ Active(request[r]) /\ i \in Invitation /\ o \in Org
      /\ Occupied(o) + 1 =< request[r].cap /\ request[r].kind = "invite"
      /\ org[o].life # "absent"
  BY DEF At, InSeat, Active, Seat, RequestsSafe, Safe, Shape, AllSeatSafe, SeatSafe, SeatFree,
         Grounded
<1>2. \A j \in Invitation : invite'[j].org = o \/ (Waits(j)' => Waits(j) /\ invite'[j].org = invite[j].org)
  BY <1>1 DEF Waits, TypeOK
<1>3. \A j \in Invitation \ {i} : Waits(j)' => Waits(j) /\ invite'[j].org = invite[j].org
  BY <1>1 DEF Waits, TypeOK
<1>4. \A p : Members(p)' = Members(p)
  BY DEF Members
<1>5. \A p \in Org : p # o => NoMore(p)
  BY <1>2, <1>4 DEF NoMore, Pending
<1>6. Pending(o)' \subseteq Pending(o) \union {i}
  BY <1>3 DEF Pending
<1>7. Occupied(o)' =< request[r].cap
  <2>1. Cardinality(Pending(o)') =< Cardinality(Pending(o)) + 1
    BY <1>6, Counted, OneMore
  <2>2. IsFiniteSet(Pending(o)')
    BY <1>6, Counted, FS_AddElement, FS_Subset
  <2>3. Cardinality(Pending(o)') \in Nat /\ Cardinality(Members(o)) \in Nat
        /\ Cardinality(Pending(o)) \in Nat
    BY <2>2, Counted, FS_CardinalityType
  <2>4. request[r].cap \in Nat
    BY CapNat DEF TypeOK
  <2> QED
    BY <1>1, <1>4, <2>1, <2>3, <2>4 DEF Occupied
<1>8. AbsentEmpty' /\ TornAlive'
  BY <1>1, <1>5 DEF AbsentEmpty, TornAlive, Is, NoMore
<1>9. ASSUME NEW q \in Request \ {r}, Active(request[q])
      PROVE  /\ org'[request[q].org].life = "absent" <=> org[request[q].org].life = "absent"
             /\ NoMore(request[q].org) \/ ~InSeat(request[q])
  BY <1>1, <1>5, <1>9, SeatsApart DEF RequestsSafe, Safe, Shape
<1> HIDE DEF BothInv
<1>10. SeatInv'
  BY <1>8, <1>9, SeatWrites
<1> QED
  BY <1>1, <1>5, <1>7, <1>10

LEMMA SeatJoins ==
  ASSUME BothInv, NEW r \in Request, Join(r)
  PROVE  /\ SeatInv'
         /\ \E o \in Org : /\ \A p \in Org : p # o => NoMore(p)
                           /\ Cardinality(Members(o)') =< request[r].cap
<1> USE DEF BothInv, MemberInv, SeatInv, Join
<1> PICK o, u : o = request[r].org /\ u = request[r].user
  OBVIOUS
<1>1. /\ InSeat(request[r]) /\ Active(request[r]) /\ o \in Org /\ u \in User
      /\ Cardinality(Members(o)) + 1 =< request[r].cap /\ request[r].kind = "accept"
      /\ org[o].life # "absent"
  BY DEF At, InSeat, Active, Seat, RequestsSafe, Safe, Shape, AllSeatSafe, SeatSafe, SeatFree,
         Grounded
<1>2. \A p : Pending(p)' = Pending(p)
  BY DEF Pending, Waits
<1>3. \A p \in Org : p # o => Members(p)' = Members(p)
  BY <1>1 DEF Members, SetRole, TypeOK
<1>4. \A p \in Org : p # o => NoMore(p)
  BY <1>2, <1>3 DEF NoMore
<1>5. Members(o)' \subseteq Members(o) \union {u}
  BY <1>1 DEF Members, SetRole, TypeOK
<1>6. Cardinality(Members(o)') =< request[r].cap
  <2>1. Cardinality(Members(o)') =< Cardinality(Members(o)) + 1
    BY <1>5, Counted, OneMore
  <2>2. IsFiniteSet(Members(o)')
    BY <1>5, Counted, FS_AddElement, FS_Subset, ZenonT(60)
  <2>3. Cardinality(Members(o)') \in Nat /\ Cardinality(Members(o)) \in Nat
    BY <2>2, Counted, FS_CardinalityType
  <2>4. request[r].cap \in Nat
    BY CapNat DEF TypeOK
  <2> QED
    BY <1>1, <2>1, <2>3, <2>4
<1>7. AbsentEmpty' /\ TornAlive'
  BY <1>1, <1>4 DEF AbsentEmpty, TornAlive, Is, NoMore
<1>8. ASSUME NEW q \in Request \ {r}, Active(request[q])
      PROVE  /\ org'[request[q].org].life = "absent" <=> org[request[q].org].life = "absent"
             /\ NoMore(request[q].org) \/ ~InSeat(request[q])
  BY <1>1, <1>4, <1>8, SeatsApart DEF RequestsSafe, Safe, Shape
<1> HIDE DEF BothInv
<1>9. SeatInv'
  BY <1>7, <1>8, SeatWrites
<1> QED
  BY <1>1, <1>4, <1>6, <1>9

(* The workspace that is provided was nobody's before. *)
LEMMA SeatPersonal ==
  ASSUME BothInv, NEW r \in Request, InsertPersonal(r)
  PROVE  /\ SeatInv'
         /\ \E o \in Org : /\ \A p \in Org : p # o => NoMore(p)
                           /\ org[o].life = "absent"
<1> USE DEF BothInv, MemberInv, SeatInv, InsertPersonal
<1> PICK o, u : o = request[r].org /\ u = request[r].user
  OBVIOUS
<1>1. /\ Active(request[r]) /\ Draws(request[r]) /\ o \in Org /\ u \in User
      /\ org[o].life = "absent"
  BY DEF At, Active, Draws, RequestsSafe, Safe, Shape, AllSeatSafe, SeatSafe, Grounded
<1>2. \A p \in Org : p # o => org'[p] = org[p] /\ Members(p)' = Members(p)
  BY <1>1 DEF Members, SetRole, TypeOK
<1>3. org'[o].life = "active"
  BY <1>1 DEF TypeOK
<1>4. \A p \in Org : p # o => NoMore(p)
  BY <1>2 DEF NoMore, Pending, Waits
<1>5. AbsentEmpty'
  BY <1>2, <1>3, <1>4 DEF AbsentEmpty, NoMore
<1>6. TornAlive'
  <2>1. \A v \in User : person[v].orgs \subseteq Org
    BY DEF TypeOK, PersonType
  <2> QED
    BY <1>2, <1>3, <2>1 DEF TornAlive, Is
<1>7. ASSUME NEW q \in Request \ {r}, Active(request[q])
      PROVE  /\ org'[request[q].org].life = "absent" <=> org[request[q].org].life = "absent"
             /\ NoMore(request[q].org) \/ ~InSeat(request[q])
  <2>1. request[q].org \in Org /\ Grounded(request[q]) /\ Apart(request[r], request[q])
    BY <1>7 DEF RequestsSafe, Safe, Shape, AllSeatSafe, SeatSafe, AllApart
  <2>2. request[q].org # o
    BY <1>1, <1>7, <2>1 DEF Grounded, Apart, Draws
  <2> QED
    BY <1>2, <1>4, <2>1, <2>2
<1> HIDE DEF BothInv
<1>8. SeatInv'
  BY <1>5, <1>6, <1>7, SeatWrites
<1> QED
  BY <1>1, <1>4, <1>8

LEMMA NextSeatInv == BothInv /\ [Next]_vars => SeatInv'
<1> SUFFICES ASSUME BothInv, [Next]_vars PROVE SeatInv'
  OBVIOUS
<1>1. CASE UNCHANGED vars
  BY <1>1, SeatLess, SeatRest DEF vars, Waits
<1>2. ASSUME NEW r \in Request, Ask(r) \/ Progress(r) \/ Fail(r) PROVE SeatInv'
  BY <1>2, SeatAsk, SeatReads, SeatRoles, SeatSupersede, SeatRecheck, SeatInserts, SeatAccepts,
     SeatJoins, SeatPersonal DEF Progress
<1>3. CASE \E i \in Invitation : Decline(i) \/ Withdraw(i) \/ Expire(i)
  BY <1>3, SeatEnds
<1>4. CASE \E o \in Org, n \in Limits : SetLimit(o, n)
  BY <1>4, SeatLimit
<1>5. CASE \E u \in User : \/ RequestErasure(u) \/ CancelErasure(u) \/ BeginErasure(u)
                           \/ CheckErasure(u) \/ EraseMember(u)
  BY <1>5, SeatPersons, SeatErased
<1> QED
  BY <1>1, <1>2, <1>3, <1>4, <1>5 DEF Next

(* The three steps that admit somebody.  Every other one leaves the places *)
(* of every organization as they are, or frees some.                       *)
LEMMA Admits ==
  ASSUME BothInv, [Next]_vars, NEW p \in Org, ~NoMore(p)
  PROVE  \E r \in Request : InsertInvitation(r) \/ Join(r) \/ InsertPersonal(r)
<1> USE DEF BothInv, MemberInv, NoMore
<1>1. ASSUME UNCHANGED <<role, invite>> PROVE FALSE
  BY <1>1 DEF Members, Pending, Waits
<1>2. ASSUME UNCHANGED role,
             \A i \in Invitation : Waits(i)' => Waits(i) /\ invite'[i].org = invite[i].org
      PROVE  FALSE
  BY <1>2 DEF Members, Pending
<1>3. ASSUME UNCHANGED invite,
             \A o \in Org : \A u \in User : role'[o][u] # "none" => role[o][u] # "none"
      PROVE  FALSE
  BY <1>3 DEF Members, Pending, Waits
<1>4. ASSUME NEW r \in Request,
             \/ Ask(r) \/ Begin(r) \/ LockRole(r) \/ LockRemove(r) \/ CountRemove(r)
             \/ LockSeats(r) \/ CheckSeats(r) \/ Recheck(r) \/ LockPersonal(r) \/ Fail(r)
      PROVE  FALSE
  BY <1>1, <1>4 DEF Ask, AskRole, AskRemove, AskInvite, AskAccept, AskProvision, Arrive,
     Begin, LockRole, LockRemove, CountRemove, LockSeats, CheckSeats, Recheck, LockPersonal,
     Fail, tables
<1>5. ASSUME NEW r \in Request, UpdateRole(r) \/ DeleteMember(r) PROVE FALSE
  BY <1>3, <1>5 DEF UpdateRole, DeleteMember, SetRole, TypeOK
<1>6. ASSUME NEW r \in Request, Supersede(r) \/ AcceptInvitation(r) PROVE FALSE
  <2>1. UNCHANGED role /\ \A i \in Invitation :
          invite'[i] = invite[i] \/ invite'[i] = [invite[i] EXCEPT !.status = "over"]
    BY <1>6 DEF Supersede, AcceptInvitation, Close, TypeOK
  <2>2. \A i \in Invitation : Waits(i)' => Waits(i) /\ invite'[i].org = invite[i].org
    BY <2>1 DEF Waits, TypeOK, InviteType
  <2> QED
    BY <1>2, <2>1, <2>2
<1>7. ASSUME NEW i \in Invitation, Decline(i) \/ Withdraw(i) \/ Expire(i) PROVE FALSE
  BY <1>2, <1>7 DEF Decline, Withdraw, Expire, End, Close, Waits, TypeOK, InviteType
<1>8. ASSUME NEW u \in User, EraseMember(u) PROVE FALSE
  <2>1. Members(p)' \subseteq Members(p)
    BY <1>8 DEF EraseMember, Members, TypeOK
  <2>2. \A i \in Invitation : Waits(i)' => Waits(i) /\ invite'[i].org = invite[i].org
    BY <1>8 DEF EraseMember, Waits, NoInvite, TypeOK
  <2> QED
    BY <2>1, <2>2 DEF Pending
<1>9. ASSUME NEW u \in User,
             RequestErasure(u) \/ CancelErasure(u) \/ BeginErasure(u) \/ CheckErasure(u)
      PROVE  FALSE
  BY <1>1, <1>9 DEF RequestErasure, CancelErasure, BeginErasure, CheckErasure
<1>10. ASSUME NEW o \in Org, NEW n \in Limits, SetLimit(o, n) PROVE FALSE
  BY <1>1, <1>10 DEF SetLimit
<1>11. ~UNCHANGED vars
  BY <1>1 DEF vars
<1> QED
  BY <1>4, <1>5, <1>6, <1>7, <1>8, <1>9, <1>10, <1>11 DEF Next, Progress

LEMMA SeatTaken ==
  ASSUME BothInv, [Next]_vars, NEW p \in Org, Occupied(p)' > Occupied(p)
  PROVE  \/ org[p].life = "absent"
         \/ \E r \in Request : At(r, "insert", {"invite"}) /\ Occupied(p)' =< request[r].cap
         \/ \E r \in Request : At(r, "join", {"accept"})
                               /\ Cardinality(Members(p)') =< request[r].cap
<1>1. ~NoMore(p)
  <2>1. SUFFICES ASSUME NoMore(p) PROVE FALSE
    OBVIOUS
  <2>2. Occupied(p)' =< Occupied(p) /\ Occupied(p)' \in Nat
    BY <2>1, NoMoreCounted
  <2>3. Occupied(p) \in Nat
    BY Counted DEF Occupied
  <2> QED
    BY <2>2, <2>3
<1>2. PICK r \in Request : InsertInvitation(r) \/ Join(r) \/ InsertPersonal(r)
  BY <1>1, Admits
<1>3. CASE InsertInvitation(r)
  BY <1>1, <1>3, SeatInserts DEF InsertInvitation
<1>4. CASE Join(r)
  BY <1>1, <1>4, SeatJoins DEF Join
<1>5. CASE InsertPersonal(r)
  BY <1>1, <1>5, SeatPersonal
<1> QED
  BY <1>2, <1>3, <1>4, <1>5

(* The invariant of the seats. *)
THEOREM AlwaysSeatInv == Spec => []SeatInv
<1>1. Init => BothInv
  BY InitMemberInv, InitSeatInv DEF BothInv
<1>2. BothInv /\ [Next]_vars => BothInv'
  BY NextMemberInv, NextSeatInv DEF BothInv
<1>3. BothInv => SeatInv
  BY DEF BothInv
<1> QED
  BY <1>1, <1>2, <1>3, PTL DEF Spec

(* A seat is taken only when there is one: under the lock of               *)
(* withOrganizationSeatLock the hooks count again before they let the      *)
(* invitation be inserted or the member join, and nobody else admits       *)
(* anybody to that organization in between, whatever leaves it.            *)
THEOREM KeepsSeats == Spec => SeatsKept
<1>1. BothInv /\ [Next]_vars =>
        \A o \in Org : Occupied(o)' > Occupied(o) =>
          \/ org[o].life = "absent"
          \/ \E r \in Request : At(r, "insert", {"invite"}) /\ Occupied(o)' =< request[r].cap
          \/ \E r \in Request : At(r, "join", {"accept"})
                                /\ Cardinality(Members(o)') =< request[r].cap
  BY SeatTaken
<1>2. Spec => []BothInv
  BY AlwaysMemberInv, AlwaysSeatInv, PTL DEF BothInv
<1> QED
  BY <1>1, <1>2, PTL DEF Spec, SeatsKept

-----------------------------------------------------------------------------
(* Nobody waits for ever: where a request is tells what it is there for,   *)
(* and so what it waits for.                                               *)

Staged(x) ==
  /\ x.pc = "update" => x.kind = "role"
  /\ x.pc \in {"user", "delete"} => x.kind = "remove"
  /\ x.pc \in {"check", "supersede", "recheck", "accept", "join"} => x.kind \in Seat
  /\ x.pc = "insert" => x.kind \in {"invite", "provision"}

AllStaged == \A r \in Request : Staged(request[r])

StageInv == TypeOK /\ AllStaged

LEMMA StageOf ==
  ASSUME StageInv, NEW r \in Request, NEW x, request' = [request EXCEPT ![r] = x], Staged(x)
  PROVE  AllStaged'
<1>1. ASSUME NEW q \in Request PROVE Staged(request'[q])
  <2>1. CASE q = r
    BY <2>1 DEF StageInv, TypeOK
  <2>2. CASE q # r
    <3>1. request'[q] = request[q]
      BY <2>2 DEF StageInv, TypeOK
    <3> QED
      BY <3>1 DEF StageInv, AllStaged
  <2> QED
    BY <2>1, <2>2
<1> QED
  BY <1>1 DEF AllStaged, Staged

(* What may come next for a request of the kind. *)
Follows(kind, pc) ==
  \/ pc \in {"done", "lock"}
  \/ kind = "role" /\ pc = "update"
  \/ kind = "remove" /\ pc \in {"user", "delete"}
  \/ kind \in Seat /\ pc \in {"check", "supersede", "recheck", "accept", "join"}
  \/ kind \in {"invite", "provision"} /\ pc = "insert"

LEMMA StageGoes ==
  ASSUME StageInv, NEW r \in Request, NEW pc, GoTo(r, pc), Follows(request[r].kind, pc)
  PROVE  AllStaged'
<1>1. PICK x : x = IF pc = "done" THEN [NewRequest EXCEPT !.pc = "done"]
                                  ELSE [request[r] EXCEPT !.pc = pc]
  OBVIOUS
<1>2. request' = [request EXCEPT ![r] = x]
  BY <1>1 DEF GoTo, StageInv, TypeOK
<1>3. request[r] \in RequestType
  BY DEF StageInv, TypeOK
<1>4. CASE pc = "done"
  <2>1. x.pc = "done"
    BY <1>1, <1>4 DEF NewRequest
  <2>2. Staged(x)
    BY <2>1 DEF Staged
  <2> QED
    BY <1>2, <2>2, StageOf
<1>5. CASE pc # "done"
  <2>1. x.pc = pc /\ x.kind = request[r].kind
    BY <1>1, <1>3, <1>5 DEF RequestType
  <2>2. Staged(x)
    BY <1>5, <2>1 DEF Staged, Follows
  <2> QED
    BY <1>2, <2>2, StageOf
<1> QED
  BY <1>4, <1>5

LEMMA StagePasses ==
  ASSUME StageInv, NEW r \in Request, NEW pc, pc # "done", Pass(r, pc), Follows(request[r].kind, pc)
  PROVE  AllStaged'
<1>1. PICK x : x = [request[r] EXCEPT !.pc = pc, !.cap = limit[request[r].org]]
  OBVIOUS
<1>2. request' = [request EXCEPT ![r] = x]
  BY <1>1 DEF Pass, StageInv, TypeOK
<1>3. request[r] \in RequestType
  BY DEF StageInv, TypeOK
<1>4. x.pc = pc /\ x.kind = request[r].kind
  BY <1>1, <1>3 DEF RequestType
<1>5. Staged(x)
  BY <1>4 DEF Staged, Follows
<1> QED
  BY <1>2, <1>5, StageOf

LEMMA StageAsks ==
  ASSUME StageInv, NEW r \in Request, Ask(r)
  PROVE  AllStaged'
<1>1. ASSUME NEW q, Arrive(r, q), "pc" \in DOMAIN q PROVE AllStaged'
  <2>1. PICK x : x = [q EXCEPT !.pc = "begin"]
    OBVIOUS
  <2>2. request' = [request EXCEPT ![r] = x] /\ x.pc = "begin"
    BY <1>1, <2>1 DEF Arrive
  <2>3. Staged(x)
    BY <2>2 DEF Staged
  <2> QED
    BY <2>2, <2>3, StageOf
<1>2. CASE AskRole(r)
  BY <1>1, <1>2 DEF AskRole, NewRequest
<1>3. CASE AskRemove(r)
  BY <1>1, <1>3 DEF AskRemove, NewRequest
<1>4. CASE AskInvite(r)
  BY <1>1, <1>4 DEF AskInvite, NewRequest
<1>5. CASE AskAccept(r)
  BY <1>1, <1>5 DEF AskAccept, NewRequest
<1>6. CASE AskProvision(r)
  BY <1>1, <1>6 DEF AskProvision, NewRequest
<1> QED
  BY <1>2, <1>3, <1>4, <1>5, <1>6 DEF Ask

LEMMA StageProgress ==
  ASSUME StageInv, NEW r \in Request, Progress(r)
  PROVE  AllStaged'
<1>1. CASE Begin(r) \/ LockRole(r) \/ UpdateRole(r)
  BY <1>1, StageGoes DEF Begin, LockRole, UpdateRole, At, Follows
<1>2. CASE LockRemove(r) \/ CountRemove(r) \/ DeleteMember(r)
  BY <1>2, StageGoes DEF LockRemove, CountRemove, DeleteMember, At, Follows
<1>3. CASE LockSeats(r) \/ CheckSeats(r) \/ Supersede(r)
  BY <1>3, StageGoes DEF LockSeats, CheckSeats, Supersede, At, Follows, Seat
<1>4. CASE Recheck(r)
  BY <1>4, StageGoes, StagePasses DEF Recheck, At, Follows, Seat
<1>5. CASE InsertInvitation(r) \/ AcceptInvitation(r) \/ Join(r)
  BY <1>5, StageGoes DEF InsertInvitation, AcceptInvitation, Join, At, Follows, Seat
<1>6. CASE LockPersonal(r) \/ InsertPersonal(r)
  BY <1>6, StageGoes DEF LockPersonal, InsertPersonal, At, Follows
<1> QED
  BY <1>1, <1>2, <1>3, <1>4, <1>5, <1>6 DEF Progress

LEMMA NextStaged == StageInv /\ [Next]_vars => AllStaged'
<1> SUFFICES ASSUME StageInv, [Next]_vars PROVE AllStaged'
  OBVIOUS
<1>1. ASSUME UNCHANGED request PROVE AllStaged'
  BY <1>1 DEF StageInv, AllStaged, Staged
<1>2. ASSUME NEW r \in Request, Fail(r) PROVE AllStaged'
  BY <1>2, StageGoes DEF Fail, Follows
<1>3. ASSUME NEW i \in Invitation, Decline(i) \/ Withdraw(i) \/ Expire(i) PROVE UNCHANGED request
  BY <1>3 DEF Decline, Withdraw, Expire, End
<1>4. ASSUME NEW o \in Org, NEW n \in Limits, SetLimit(o, n) PROVE UNCHANGED request
  BY <1>4 DEF SetLimit
<1>5. ASSUME NEW u \in User, \/ RequestErasure(u) \/ CancelErasure(u) \/ BeginErasure(u)
                             \/ CheckErasure(u) \/ EraseMember(u)
      PROVE  UNCHANGED request
  BY <1>5 DEF RequestErasure, CancelErasure, BeginErasure, CheckErasure, EraseMember
<1> QED
  BY <1>1, <1>2, <1>3, <1>4, <1>5, StageAsks, StageProgress DEF Next, vars

(* Whoever waits for a first connection waits for somebody who has one.    *)
LEMMA NoneTaken ==
  ASSUME StageInv, \A u \in User : ~Is(u, "checked"), \A r \in Request : ~InTransaction(r)
  PROVE  Connection
<1>1. Used = {}
  BY DEF Used
<1>2. Cardinality(Used) = 0 /\ pool \in Nat \ {0}
  BY <1>1, FS_EmptySet, MembershipAssumption DEF StageInv, TypeOK
<1> QED
  BY <1>2 DEF Connection

(* The members lock is taken before that of the user, and every other wait *)
(* is for one thing: who has the last lock of its kind can go on.          *)
LEMMA SomebodyGoes ==
  ASSUME StageInv
  PROVE  SomebodyReady
<1> SUFFICES ASSUME NEW r \in Request, Active(request[r]), \A u \in User : ~Is(u, "checked"),
                    ~Exhausted
             PROVE  \E q \in Request : Ready(q)
  BY DEF SomebodyReady, Active
<1>1. \A q \in Request : request[q] \in RequestType /\ Staged(request[q])
  BY DEF StageInv, TypeOK, AllStaged
<1>2. Connection \/ \A q \in Request : Holds(q) => request[q].kind \notin Seat
  <2>1. Used \subseteq Request /\ IsFiniteSet(Request) /\ pool \in Nat
    BY MembershipAssumption DEF Used, StageInv, TypeOK
  <2>2. Cardinality(Used) \in Nat
    BY <2>1, FS_Subset, FS_CardinalityType
  <2>3. Cardinality(Used) < pool \/ Cardinality(Used) >= pool
    BY <2>1, <2>2
  <2> QED
    BY <2>3 DEF Connection, Exhausted
<1>3. ASSUME NEW q \in Request, request[q].pc \notin {"new", "begin", "done", "lock", "user"}
      PROVE  Ready(q)
  <2>1. Holds(q)
    BY <1>3 DEF Holds, InTransaction
  <2>2. CASE request[q].kind \in Seat
    BY <1>1, <1>2, <1>3, <2>1, <2>2 DEF Ready, At, Staged, RequestType, Seat
  <2>3. CASE request[q].kind \notin Seat
    BY <1>1, <1>3, <2>3 DEF Ready, At, Staged, RequestType, Seat
  <2> QED
    BY <2>2, <2>3
<1>4. ASSUME NEW q \in Request, request[q].pc = "user" PROVE \E p \in Request : Ready(p)
  <2>1. request[q].kind = "remove"
    BY <1>1, <1>4 DEF Staged
  <2>2. CASE UserFree(request[q].user)
    BY <1>4, <2>1, <2>2 DEF Ready, At
  <2>3. CASE ~UserFree(request[q].user)
    <3>1. PICK p \in Request : request[p].pc = "delete"
      BY <2>3 DEF UserFree, At
    <3> QED
      BY <1>3, <3>1
  <2> QED
    BY <2>2, <2>3
<1>5. CASE \A q \in Request : request[q].pc \in {"new", "begin", "done", "lock"}
  <2>1. \A q \in Request : ~Holds(q)
    BY <1>5 DEF Holds, InTransaction
  <2>2. ASSUME NEW q \in Request, request[q].pc = "lock" PROVE Ready(q)
    <3>1. request[q].kind \in Kind
      BY <1>1 DEF RequestType
    <3>2. OrgFree(Roles, request[q].org) /\ OrgFree(Seat, request[q].org)
          /\ PersonalFree(request[q].user)
      BY <2>1 DEF OrgFree, PersonalFree
    <3> QED
      BY <2>2, <3>1, <3>2 DEF Ready, At, Kind, Roles, Seat
  <2>3. CASE \A q \in Request : request[q].pc # "lock"
    <3>1. Connection
      BY <1>5, <2>3, NoneTaken DEF InTransaction
    <3>2. request[r].pc = "begin" /\ request[r].kind \in Kind
      BY <1>1, <1>5, <2>3 DEF Active, RequestType
    <3> QED
      BY <3>1, <3>2 DEF Ready, At
  <2> QED
    BY <2>2, <2>3
<1> QED
  BY <1>3, <1>4, <1>5

(* Whatever waits for the members lock, the seat lock, the locks of a user *)
(* or a connection, and however small the pool: some request that has      *)
(* begun has what it waits for, unless an erasure is under way or all      *)
(* connections are taken while the holder of a seat lock asks for another. *)
THEOREM AlwaysSomebodyReady == Spec => []SomebodyReady
<1>1. Init => MemberInv /\ AllStaged
  BY InitMemberInv DEF Init, AllStaged, Staged, NewRequest
<1>2. (MemberInv /\ AllStaged) /\ [Next]_vars => MemberInv' /\ AllStaged'
  BY NextMemberInv, NextStaged DEF StageInv, MemberInv
<1>3. MemberInv /\ AllStaged => SomebodyReady
  BY SomebodyGoes DEF StageInv, MemberInv
<1> QED
  BY <1>1, <1>2, <1>3, PTL DEF Spec

=============================================================================
