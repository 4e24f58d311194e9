------------------------------ MODULE MCDaemon ------------------------------
(***************************************************************************)
(* Daemon for TLC.  Runs are interchangeable, and so are other requests.   *)
(***************************************************************************)
EXTENDS Daemon, TLC

ReqSymmetry == Permutations(Runs) \cup Permutations(Reqs \ Runs)
=============================================================================
