------------------------------- MODULE MCTasks -------------------------------
(* Tasks for TLC: a purchase that expires at 1, a bonus that never does, a *)
(* video that needs both, and a ping.                                      *)
EXTENDS Tasks, TLC

CONSTANTS purchase, bonus, clip, video, again, ping

MCAmount == (purchase :> 2) @@ (bonus :> 3) @@ (video :> 3) @@ (again :> 3) @@ (ping :> 1)
MCExpires == (purchase :> 1) @@ (bonus :> 9)
MCOrderNo == (purchase :> "order") @@ (bonus :> "")
MCTransNo == clip :> {video, again}

Symmetry == Permutations(Request)
=============================================================================
