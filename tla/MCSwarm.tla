------------------------------ MODULE MCSwarm -------------------------------
(***************************************************************************)
(* Swarm for TLC.                                                          *)
(***************************************************************************)
EXTENDS Swarm

\* A second call is of interest in one checkout, where an id that is used again
\* meets claims and cancels; in worktrees its workers start from HEAD like the
\* first one's.  Nor has mail to do with them: a worker that sends some goes on
\* as after any other tool.  And a file that is never merged meets no edit.
WithWorktrees ==
    worktrees => /\ call <= 1 /\ \A c \in Calls : ~inbox[c]
                 /\ edited \cap odd = {}
=============================================================================
