---------------------------- MODULE MCBackground ----------------------------
(* Model-checking instance of Background. *)
EXTENDS Background, TLC

\* The ids are interchangeable (a job's age is its rank), and so are the
\* scheduled commands.
Symmetry == Permutations(JobIds) \cup Permutations(Schedules)

\* Symmetry is not sound for liveness.  Instead one id is always the first to
\* be handed out: every behaviour is one of these but for the names of its jobs.
FirstId == CHOOSE j \in JobIds : TRUE

FirstIdFirst ==
    (\E j \in JobIds : status[j] # "Unused") => status[FirstId] # "Unused"
=============================================================================
