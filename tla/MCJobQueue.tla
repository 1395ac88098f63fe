----------------------------- MODULE MCJobQueue -----------------------------
(* A small instance of JobQueue for TLC; JobQueue.cfg gives the constants. *)
EXTENDS JobQueue
=============================================================================
