----------------------------- MODULE MCMembership -----------------------------
(* Membership for TLC.                                                       *)
EXTENDS Membership, TLC

CONSTANTS team, home, new, new2, a, b, c, i1, i2, i3

Nobody == [u \in User |-> "none"]
InRole(t, h) == (team :> t) @@ (home :> h) @@ (new :> Nobody) @@ (new2 :> Nobody)
Three(x, y, z) == (a :> x) @@ (b :> y) @@ (c :> z)

Absent == [life |-> "absent", personal |-> FALSE, home |-> None]
MCOrg(u) ==
  (team :> [life |-> "active", personal |-> FALSE, home |-> None])
  @@ (home :> [life |-> "active", personal |-> TRUE, home |-> u])
  @@ (new :> Absent) @@ (new2 :> Absent)

Invited == [status |-> "pending", org |-> team, user |-> c, role |-> "member", by |-> a]

(* Two owners with another organization, which one of them could leave; c is  *)
(* not anywhere, but invited.                                                *)
MCStart ==
  {[role |-> InRole(Three("owner", "owner", "none"), Three("owner", "member", "none")),
    org |-> MCOrg(a),
    invite |-> (i1 :> Invited) @@ (i2 :> NoInvite) @@ (i3 :> NoInvite),
    limit |-> [o \in Org |-> 3]]}

MCSymmetry == Permutations(Request)
=============================================================================
