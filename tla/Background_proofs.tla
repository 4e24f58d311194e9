------------------------- MODULE Background_proofs -------------------------
(***************************************************************************)
(* Proofs about the registry of background jobs, for every set of job ids, *)
(* every number of scheduled commands, every cap and every retention.      *)
(*                                                                         *)
(* None of the invariants is inductive alone.  Each needs to know which    *)
(* statuses a job can have at each place of its task (JobInv), that the    *)
(* job the agent holds is one the registry handed out and, where its end   *)
(* is being reported, one that ended (AgentInv), and, for the cap, whether *)
(* the agent is between its count and the insertion (SlotInv).             *)
(***************************************************************************)
EXTENDS Background, FiniteSetTheorems, TLAPS

\* How the status of a job, its task, its flags and its events go together.
JobInv(j) ==
    /\ task[j] = "none" <=> status[j] = "Unused"
    /\ status[j] \in {"Done", "Failed"} => task[j] = "over"
    /\ task[j] = "over" => Ended(j)
    /\ task[j] \in {"clearPid", "drain"} => exit[j] = "Done" \/ killFlag[j]
    /\ task[j] = "finalize" => exit[j] # "none"
    /\ exit[j] = "Killed" => killFlag[j]
    /\ killFlag[j] => status[j] = "Killed"
    /\ status[j] = "Running" => j \in present
    /\ j \in present => status[j] # "Unused"
    /\ ~Ended(j) => ~delivered[j] /\ ~known[j]

\* The end of a job and its one event, the end and what the model knows of it.
EndInv(j) ==
    /\ toEmit[j] + emitted[j] = IF Ended(j) THEN 1 ELSE 0
    /\ status[j] \in {"Done", "Failed"} =>
            known[j] \/ (j \in present /\ ~delivered[j])
    /\ j \in present /\ known[j] => delivered[j]

\* The job the agent holds, and its registration with Notify.
AgentInv ==
    /\ apc \in {"fgArm", "fgRead", "fgParked", "fgTail"} =>
            ajob \in JobIds /\ status[ajob] # "Unused"
    /\ apc \in {"fgMark", "fgOutput", "waitMark", "waitTail"} =>
            ajob \in JobIds /\ Ended(ajob)
    /\ apc \in {"fgRead", "fgParked"} => wake # "none"

\* The agent is between start_shell's count and the insertion of its job.
AgentSlot == IF apc \in {"bgStart", "fgStart"} THEN 1 ELSE 0

\* The running jobs and the one the agent is about to insert fit the soft cap:
\* a command that fires adds one job, and one to what the cap allows.
SlotInv ==
    Cardinality(Running) + AgentSlot <= MaxJobs + Cardinality(Fired)

IInv ==
    /\ TypeOK
    /\ \A j \in JobIds : JobInv(j) /\ EndInv(j)
    /\ AgentInv
    /\ NoLostWakeup
-----------------------------------------------------------------------------
(* Type correctness *)

\* kill keeps the types, whichever of its two branches it takes.
LEMMA KillType ==
    ASSUME TypeOK, NEW j \in JobIds, Kill(j)
    PROVE  /\ present' \subseteq JobIds /\ clock' \in Nat
           /\ rank' \in [JobIds -> Nat]
           /\ status' \in [JobIds -> {"Unused", "Running", "Done", "Failed", "Killed"}]
           /\ delivered' \in [JobIds -> BOOLEAN]
           /\ killFlag' \in [JobIds -> BOOLEAN]
           /\ pid' \in [JobIds -> BOOLEAN]
           /\ task' \in [JobIds -> {"none", "spawn", "setPid", "poll", "clearPid",
                                    "drain", "finalize", "over"}]
           /\ proc' \in [JobIds -> {"none", "live", "exited", "reaped"}]
           /\ exit' \in [JobIds -> {"none", "Done", "Failed", "Killed"}]
           /\ toEmit' \in [JobIds -> Nat]
           /\ emitted' \in [JobIds -> Nat]
<1>1. CASE j \in present /\ status[j] = "Running"
  <2>1. toEmit' \in [JobIds -> Nat]
    BY <1>1 DEF TypeOK, Kill
  <2>2. proc' \in [JobIds -> {"none", "live", "exited", "reaped"}]
    BY <1>1 DEF TypeOK, Kill
  <2>3. /\ delivered' \in [JobIds -> BOOLEAN]
        /\ killFlag' \in [JobIds -> BOOLEAN]
        /\ pid' \in [JobIds -> BOOLEAN]
    BY <1>1 DEF TypeOK, Kill
  <2>4. status' \in [JobIds -> {"Unused", "Running", "Done", "Failed", "Killed"}]
    BY <1>1 DEF TypeOK, Kill
  <2> QED
    BY <1>1, <2>1, <2>2, <2>3, <2>4 DEF TypeOK, Kill
<1>2. CASE ~(j \in present /\ status[j] = "Running")
  BY <1>2 DEF TypeOK, Kill, jobVars, taskVars, emitVars
<1> QED
  BY <1>1, <1>2

\* Every step keeps the types: one step per action.
LEMMA TypeStep == IInv /\ [Next]_vars => TypeOK'
<1> SUFFICES ASSUME IInv, [Next]_vars
             PROVE  TypeOK'
  OBVIOUS
<1>1. TypeOK /\ AgentInv /\ \A j \in JobIds : JobInv(j)
  BY DEF IInv
<1> USE BackgroundAssumption
    DEF jobVars, taskVars, emitVars, agentVars, userVars
<1>2. ASSUME NEW j \in JobIds, AgentInsert(j) PROVE TypeOK'
  BY <1>1, <1>2 DEF TypeOK, AgentInsert, Insert
<1>3. CASE FgArm \/ FgRead \/ FgWoken \/ FgDetach
  BY <1>1, <1>3 DEF TypeOK, FgArm, FgRead, FgWoken, FgDetach
<1>4. CASE FgTail
  BY <1>1, <1>4 DEF TypeOK, FgTail, Read
<1>5. CASE FgAbandon
  <2>1. ajob \in JobIds \/ ~(ajob \in Running)
    BY <1>1 DEF TypeOK, Running
  <2>2. CASE ajob \in JobIds
    BY <1>1, <1>5, <2>2, KillType DEF TypeOK, FgAbandon, KillByModel, Running
  <2>3. CASE ajob \notin JobIds
    BY <1>1, <1>5, <2>3 DEF TypeOK, FgAbandon, KillByModel, Kill, Running
  <2> QED BY <2>2, <2>3
<1>6. CASE FgMark
  BY <1>1, <1>6 DEF TypeOK, FgMark, MarkDelivered
<1>7. CASE FgOutput
  BY <1>1, <1>7 DEF TypeOK, FgOutput, AgentInv
<1>8. ASSUME NEW j \in JobIds, BgRead(j) PROVE TypeOK'
  BY <1>1, <1>8 DEF TypeOK, BgRead, Read
<1>9. ASSUME NEW j \in JobIds, BgKill(j) PROVE TypeOK'
  BY <1>1, <1>9, KillType DEF TypeOK, BgKill, KillByModel
<1>10. CASE TakeCompletions
  BY <1>1, <1>10 DEF TypeOK, TakeCompletions
<1>11. ASSUME NEW target \in JobIds \cup {NoJob}, WaitStart(target)
       PROVE  TypeOK'
  BY <1>1, <1>11 DEF TypeOK, WaitStart
<1>12. CASE WaitScan
  BY <1>1, <1>12 DEF TypeOK, WaitScan, WaitNews
<1>13. CASE WaitWake \/ WaitGiveUp
  BY <1>1, <1>13 DEF TypeOK, WaitWake, WaitGiveUp
<1>14. CASE WaitMark
  BY <1>1, <1>14 DEF TypeOK, WaitMark, MarkDelivered
<1>15. CASE WaitTail
  BY <1>1, <1>15 DEF TypeOK, WaitTail, Read, AgentInv
<1>16. ASSUME NEW kind \in {"bgStart", "fgStart"}, AgentStart(kind)
       PROVE  TypeOK'
  BY <1>1, <1>16 DEF TypeOK, AgentStart
<1>17. ASSUME NEW s \in Schedules, SchedCheck(s) PROVE TypeOK'
  BY <1>1, <1>17 DEF TypeOK, SchedCheck
<1>18. ASSUME NEW s \in Schedules, NEW j \in JobIds, SchedInsert(s, j)
       PROVE  TypeOK'
  BY <1>1, <1>18 DEF TypeOK, SchedInsert, Insert
<1>19. ASSUME NEW j \in JobIds, UserKill(j) PROVE TypeOK'
  BY <1>1, <1>19, KillType DEF TypeOK, UserKill
<1>20. CASE Close
  BY <1>1, <1>20 DEF TypeOK, Close, Running
<1>21. ASSUME NEW j \in JobIds, CloseKill(j) PROVE TypeOK'
  BY <1>1, <1>21, KillType DEF TypeOK, CloseKill
<1>22. ASSUME NEW j \in JobIds, TaskStep(j) PROVE TypeOK'
  <2>1. CASE TaskSpawn(j)
    BY <1>1, <2>1 DEF TypeOK, TaskSpawn
  <2>2. CASE TaskSetPid(j)
    BY <1>1, <2>2 DEF TypeOK, TaskSetPid
  <2>3. CASE TaskClearPid(j)
    BY <1>1, <2>3 DEF TypeOK, TaskClearPid
  <2>4. CASE TaskReap(j)
    BY <1>1, <2>4 DEF TypeOK, TaskReap
  <2>5. CASE TaskDrain(j)
    BY <1>1, <2>5 DEF TypeOK, TaskDrain
  <2>6. CASE TaskFinalize(j)
    BY <1>1, <2>6 DEF TypeOK, TaskFinalize, JobInv
  <2> QED BY <1>22, <2>1, <2>2, <2>4, <2>5, <2>6, <2>3 DEF TaskStep
<1>23. ASSUME NEW j \in JobIds, ProcExit(j) \/ Emit(j) PROVE TypeOK'
  BY <1>1, <1>23 DEF TypeOK, ProcExit, Emit
<1>24. CASE UNCHANGED vars
  BY <1>1, <1>24 DEF TypeOK, vars
<1> QED
  BY <1>2, <1>3, <1>4, <1>5, <1>6, <1>7, <1>8, <1>9, <1>10, <1>11, <1>12, <1>13,
     <1>14, <1>15, <1>16, <1>17, <1>18, <1>19, <1>20, <1>21, <1>22, <1>23, <1>24
  DEF Next, AgentStep, AgentChoice, Outside

-----------------------------------------------------------------------------
(* The inductive invariant *)

\* Every step keeps JobInv.
LEMMA JobStep == IInv /\ [Next]_vars => \A k \in JobIds : JobInv(k)'
<1> SUFFICES ASSUME IInv, [Next]_vars, NEW k \in JobIds
             PROVE  JobInv(k)'
  OBVIOUS
<1> DEFINE Goal == JobInv(k)'
<1>1. TypeOK /\ AgentInv /\ \A i \in JobIds : JobInv(i) /\ EndInv(i)
  BY DEF IInv
<1> USE BackgroundAssumption
    DEF jobVars, taskVars, emitVars, agentVars, userVars
<1>2. ASSUME NEW j \in JobIds, AgentInsert(j) PROVE Goal
  BY <1>1, <1>2 DEF TypeOK, JobInv, AgentInv, Ended, AgentInsert, Insert,
     Pruned
<1>3. CASE FgArm \/ FgRead \/ FgWoken \/ FgDetach
  BY <1>1, <1>3
  DEF TypeOK, JobInv, AgentInv, Ended, FgArm, FgRead, FgWoken, FgDetach,
      Running
<1>4. CASE FgTail
  BY <1>1, <1>4 DEF TypeOK, JobInv, AgentInv, Ended, FgTail, Read
<1>5. CASE FgAbandon
  BY <1>1, <1>5
  DEF TypeOK, JobInv, AgentInv, Ended, FgAbandon, KillByModel, Kill, Running
<1>6. CASE FgMark
  BY <1>1, <1>6 DEF TypeOK, JobInv, AgentInv, Ended, FgMark, MarkDelivered
<1>7. CASE FgOutput
  BY <1>1, <1>7 DEF TypeOK, JobInv, AgentInv, Ended, FgOutput
<1>8. ASSUME NEW j \in JobIds, BgRead(j) PROVE Goal
  BY <1>1, <1>8 DEF TypeOK, JobInv, AgentInv, Ended, BgRead, Read
<1>9. ASSUME NEW j \in JobIds, BgKill(j) PROVE Goal
  BY <1>1, <1>9
  DEF TypeOK, JobInv, AgentInv, Ended, BgKill, KillByModel, Kill, Running
<1>10. CASE TakeCompletions
  BY <1>1, <1>10 DEF TypeOK, JobInv, AgentInv, Ended, TakeCompletions
<1>11. ASSUME NEW target \in JobIds \cup {NoJob}, WaitStart(target) PROVE Goal
  BY <1>1, <1>11 DEF TypeOK, JobInv, AgentInv, Ended, WaitStart
<1>12. CASE WaitScan
  BY <1>1, <1>12
  DEF TypeOK, JobInv, AgentInv, Ended, WaitScan, WaitNews, Running
<1>13. CASE WaitWake \/ WaitGiveUp
  BY <1>1, <1>13 DEF TypeOK, JobInv, AgentInv, Ended, WaitWake, WaitGiveUp
<1>14. CASE WaitMark
  BY <1>1, <1>14 DEF TypeOK, JobInv, AgentInv, Ended, WaitMark, MarkDelivered
<1>15. CASE WaitTail
  BY <1>1, <1>15 DEF TypeOK, JobInv, AgentInv, Ended, WaitTail, Read
<1>16. ASSUME NEW kind \in {"bgStart", "fgStart"}, AgentStart(kind) PROVE Goal
  BY <1>1, <1>16 DEF TypeOK, JobInv, AgentInv, Ended, AgentStart
<1>17. ASSUME NEW s \in Schedules, SchedCheck(s) PROVE Goal
  BY <1>1, <1>17 DEF TypeOK, JobInv, AgentInv, Ended, SchedCheck
<1>18. ASSUME NEW s \in Schedules, NEW j \in JobIds, SchedInsert(s, j)
       PROVE  Goal
  BY <1>1, <1>18
  DEF TypeOK, JobInv, AgentInv, Ended, SchedInsert, Insert, Pruned
<1>19. ASSUME NEW j \in JobIds, UserKill(j) PROVE Goal
  BY <1>1, <1>19 DEF TypeOK, JobInv, AgentInv, Ended, UserKill, Kill
<1>20. CASE Close
  BY <1>1, <1>20 DEF TypeOK, JobInv, AgentInv, Ended, Close
<1>21. ASSUME NEW j \in JobIds, CloseKill(j) PROVE Goal
  BY <1>1, <1>21 DEF TypeOK, JobInv, AgentInv, Ended, CloseKill, Kill
<1>22. ASSUME NEW j \in JobIds, TaskSpawn(j) PROVE Goal
  BY <1>1, <1>22 DEF TypeOK, JobInv, AgentInv, Ended, TaskSpawn
<1>23. ASSUME NEW j \in JobIds, TaskSetPid(j) \/ TaskClearPid(j) PROVE Goal
  BY <1>1, <1>23 DEF TypeOK, JobInv, AgentInv, Ended, TaskSetPid, TaskClearPid
<1>24. ASSUME NEW j \in JobIds, TaskReap(j) PROVE Goal
  BY <1>1, <1>24 DEF TypeOK, JobInv, AgentInv, Ended, TaskReap
<1>25. ASSUME NEW j \in JobIds, TaskDrain(j) PROVE Goal
  BY <1>1, <1>25 DEF TypeOK, JobInv, AgentInv, Ended, TaskDrain
<1>26. ASSUME NEW j \in JobIds, TaskFinalize(j) PROVE Goal
  BY <1>1, <1>26 DEF TypeOK, JobInv, AgentInv, Ended, TaskFinalize
<1>27. ASSUME NEW j \in JobIds, ProcExit(j) PROVE Goal
  BY <1>1, <1>27 DEF TypeOK, JobInv, AgentInv, Ended, ProcExit
<1>28. ASSUME NEW j \in JobIds, Emit(j) PROVE Goal
  BY <1>1, <1>28 DEF TypeOK, JobInv, AgentInv, Ended, Emit
<1>29. CASE UNCHANGED vars
  BY <1>1, <1>29 DEF TypeOK, JobInv, AgentInv, Ended, vars
<1> QED
  BY <1>2, <1>3, <1>4, <1>5, <1>6, <1>7, <1>8, <1>9, <1>10, <1>11, <1>12, <1>13,
     <1>14, <1>15, <1>16, <1>17, <1>18, <1>19, <1>20, <1>21, <1>22, <1>23, <1>24, <1>25,
     <1>26, <1>27, <1>28, <1>29
  DEF Next, AgentStep, AgentChoice, TaskStep, Outside

\* A kill the model did not ask for (the user's, the teardown's) keeps EndInv:
\* the job was running, so its event is the first and nothing is owed.
LEMMA KillEnd ==
    ASSUME TypeOK, NEW j \in JobIds, NEW k \in JobIds, JobInv(k), EndInv(k),
           Kill(j), known' = known
    PROVE  EndInv(k)'
<1>1. CASE ~(j \in present /\ status[j] = "Running") \/ k # j
  BY <1>1 DEF TypeOK, EndInv, Ended, Kill, jobVars, taskVars, emitVars
<1>2. CASE j \in present /\ status[j] = "Running" /\ k = j
  <2>1. toEmit[k] + emitted[k] = 0 /\ ~known[k]
    BY <1>2 DEF EndInv, JobInv, Ended
  <2>2. /\ status'[k] = "Killed" /\ present' = present
        /\ toEmit'[k] = toEmit[k] + 1 /\ emitted' = emitted
    BY <1>2 DEF TypeOK, Kill
  <2> QED
    BY <1>2, <2>1, <2>2 DEF TypeOK, EndInv, Ended
<1> QED
  BY <1>1, <1>2

\* Every step keeps EndInv.
LEMMA EndStep == IInv /\ [Next]_vars => \A k \in JobIds : EndInv(k)'
<1> SUFFICES ASSUME IInv, [Next]_vars, NEW k \in JobIds
             PROVE  EndInv(k)'
  OBVIOUS
<1> DEFINE Goal == EndInv(k)'
<1>1. TypeOK /\ AgentInv /\ \A i \in JobIds : JobInv(i) /\ EndInv(i)
  BY DEF IInv
<1> USE BackgroundAssumption
    DEF jobVars, taskVars, emitVars, agentVars, userVars
<1>2. ASSUME NEW j \in JobIds, AgentInsert(j) PROVE Goal
  BY <1>1, <1>2
  DEF TypeOK, JobInv, EndInv, AgentInv, Ended, AgentInsert, Insert, Pruned
<1>3. CASE FgArm \/ FgRead \/ FgWoken \/ FgDetach
  BY <1>1, <1>3
  DEF TypeOK, JobInv, EndInv, AgentInv, Ended, FgArm, FgRead, FgWoken,
      FgDetach, Running
<1>4. CASE FgTail
  BY <1>1, <1>4 DEF TypeOK, JobInv, EndInv, AgentInv, Ended, FgTail, Read
<1>5. CASE FgAbandon
  BY <1>1, <1>5
  DEF TypeOK, JobInv, EndInv, AgentInv, Ended, FgAbandon, KillByModel, Kill,
      Running
<1>6. CASE FgMark
  BY <1>1, <1>6
  DEF TypeOK, JobInv, EndInv, AgentInv, Ended, FgMark, MarkDelivered
<1>7. CASE FgOutput
  BY <1>1, <1>7 DEF TypeOK, JobInv, EndInv, AgentInv, Ended, FgOutput
<1>8. ASSUME NEW j \in JobIds, BgRead(j) PROVE Goal
  BY <1>1, <1>8 DEF TypeOK, JobInv, EndInv, AgentInv, Ended, BgRead, Read
<1>9. ASSUME NEW j \in JobIds, BgKill(j) PROVE Goal
  BY <1>1, <1>9
  DEF TypeOK, JobInv, EndInv, AgentInv, Ended, BgKill, KillByModel, Kill,
      Running
<1>10. CASE TakeCompletions
  BY <1>1, <1>10 DEF TypeOK, JobInv, EndInv, AgentInv, Ended, TakeCompletions
<1>11. ASSUME NEW target \in JobIds \cup {NoJob}, WaitStart(target) PROVE Goal
  BY <1>1, <1>11 DEF TypeOK, JobInv, EndInv, AgentInv, Ended, WaitStart
<1>12. CASE WaitScan
  BY <1>1, <1>12
  DEF TypeOK, JobInv, EndInv, AgentInv, Ended, WaitScan, WaitNews, Running
<1>13. CASE WaitWake \/ WaitGiveUp
  BY <1>1, <1>13
  DEF TypeOK, JobInv, EndInv, AgentInv, Ended, WaitWake, WaitGiveUp
<1>14. CASE WaitMark
  BY <1>1, <1>14
  DEF TypeOK, JobInv, EndInv, AgentInv, Ended, WaitMark, MarkDelivered
<1>15. CASE WaitTail
  BY <1>1, <1>15 DEF TypeOK, JobInv, EndInv, AgentInv, Ended, WaitTail, Read
<1>16. ASSUME NEW kind \in {"bgStart", "fgStart"}, AgentStart(kind) PROVE Goal
  BY <1>1, <1>16 DEF TypeOK, JobInv, EndInv, AgentInv, Ended, AgentStart
<1>17. ASSUME NEW s \in Schedules, SchedCheck(s) PROVE Goal
  BY <1>1, <1>17 DEF TypeOK, JobInv, EndInv, AgentInv, Ended, SchedCheck
<1>18. ASSUME NEW s \in Schedules, NEW j \in JobIds, SchedInsert(s, j)
       PROVE  Goal
  BY <1>1, <1>18
  DEF TypeOK, JobInv, EndInv, AgentInv, Ended, SchedInsert, Insert, Pruned
<1>19. ASSUME NEW j \in JobIds, UserKill(j) PROVE Goal
  BY <1>1, <1>19, KillEnd DEF UserKill
<1>20. CASE Close
  BY <1>1, <1>20 DEF TypeOK, JobInv, EndInv, AgentInv, Ended, Close
<1>21. ASSUME NEW j \in JobIds, CloseKill(j) PROVE Goal
  BY <1>1, <1>21, KillEnd DEF CloseKill
<1>22. ASSUME NEW j \in JobIds, TaskSpawn(j) PROVE Goal
  BY <1>1, <1>22 DEF TypeOK, JobInv, EndInv, AgentInv, Ended, TaskSpawn
<1>23. ASSUME NEW j \in JobIds, TaskSetPid(j) \/ TaskClearPid(j) PROVE Goal
  BY <1>1, <1>23
  DEF TypeOK, JobInv, EndInv, AgentInv, Ended, TaskSetPid, TaskClearPid
<1>24. ASSUME NEW j \in JobIds, TaskReap(j) PROVE Goal
  BY <1>1, <1>24 DEF TypeOK, JobInv, EndInv, AgentInv, Ended, TaskReap
<1>25. ASSUME NEW j \in JobIds, TaskDrain(j) PROVE Goal
  BY <1>1, <1>25 DEF TypeOK, JobInv, EndInv, AgentInv, Ended, TaskDrain
<1>26. ASSUME NEW j \in JobIds, TaskFinalize(j) PROVE Goal
  BY <1>1, <1>26 DEF TypeOK, JobInv, EndInv, AgentInv, Ended, TaskFinalize
<1>27. ASSUME NEW j \in JobIds, ProcExit(j) PROVE Goal
  BY <1>1, <1>27 DEF TypeOK, JobInv, EndInv, AgentInv, Ended, ProcExit
<1>28. ASSUME NEW j \in JobIds, Emit(j) PROVE Goal
  BY <1>1, <1>28 DEF TypeOK, JobInv, EndInv, AgentInv, Ended, Emit
<1>29. CASE UNCHANGED vars
  BY <1>1, <1>29 DEF TypeOK, JobInv, EndInv, AgentInv, Ended, vars
<1> QED
  BY <1>2, <1>3, <1>4, <1>5, <1>6, <1>7, <1>8, <1>9, <1>10, <1>11, <1>12, <1>13,
     <1>14, <1>15, <1>16, <1>17, <1>18, <1>19, <1>20, <1>21, <1>22, <1>23, <1>24, <1>25,
     <1>26, <1>27, <1>28, <1>29
  DEF Next, AgentStep, AgentChoice, TaskStep, Outside

\* Every step keeps AgentInv.
LEMMA AgentInvStep == IInv /\ [Next]_vars => AgentInv'
<1> SUFFICES ASSUME IInv, [Next]_vars
             PROVE  AgentInv'
  OBVIOUS
<1> DEFINE Goal == AgentInv'
<1>1. TypeOK /\ AgentInv /\ \A i \in JobIds : JobInv(i)
  BY DEF IInv
<1> USE BackgroundAssumption
    DEF jobVars, taskVars, emitVars, agentVars, userVars
<1>2. ASSUME NEW j \in JobIds, AgentInsert(j) PROVE Goal
  BY <1>1, <1>2 DEF TypeOK, JobInv, AgentInv, Ended, AgentInsert, Insert,
     Pruned
<1>3. CASE FgArm \/ FgRead \/ FgWoken \/ FgDetach
  BY <1>1, <1>3
  DEF TypeOK, JobInv, AgentInv, Ended, FgArm, FgRead, FgWoken, FgDetach,
      Running
<1>4. CASE FgTail
  BY <1>1, <1>4 DEF TypeOK, JobInv, AgentInv, Ended, FgTail, Read
<1>5. CASE FgAbandon
  BY <1>1, <1>5
  DEF TypeOK, JobInv, AgentInv, Ended, FgAbandon, KillByModel, Kill, Running
<1>6. CASE FgMark
  BY <1>1, <1>6 DEF TypeOK, JobInv, AgentInv, Ended, FgMark, MarkDelivered
<1>7. CASE FgOutput
  BY <1>1, <1>7 DEF TypeOK, JobInv, AgentInv, Ended, FgOutput
<1>8. ASSUME NEW j \in JobIds, BgRead(j) PROVE Goal
  BY <1>1, <1>8 DEF TypeOK, JobInv, AgentInv, Ended, BgRead, Read
<1>9. ASSUME NEW j \in JobIds, BgKill(j) PROVE Goal
  BY <1>1, <1>9
  DEF TypeOK, JobInv, AgentInv, Ended, BgKill, KillByModel, Kill, Running
<1>10. CASE TakeCompletions
  BY <1>1, <1>10 DEF TypeOK, JobInv, AgentInv, Ended, TakeCompletions
<1>11. ASSUME NEW target \in JobIds \cup {NoJob}, WaitStart(target) PROVE Goal
  BY <1>1, <1>11 DEF TypeOK, JobInv, AgentInv, Ended, WaitStart
<1>12. CASE WaitScan
  BY <1>1, <1>12
  DEF TypeOK, JobInv, AgentInv, Ended, WaitScan, WaitNews, Running
<1>13. CASE WaitWake \/ WaitGiveUp
  BY <1>1, <1>13 DEF TypeOK, JobInv, AgentInv, Ended, WaitWake, WaitGiveUp
<1>14. CASE WaitMark
  BY <1>1, <1>14 DEF TypeOK, JobInv, AgentInv, Ended, WaitMark, MarkDelivered
<1>15. CASE WaitTail
  BY <1>1, <1>15 DEF TypeOK, JobInv, AgentInv, Ended, WaitTail, Read
<1>16. ASSUME NEW kind \in {"bgStart", "fgStart"}, AgentStart(kind) PROVE Goal
  BY <1>1, <1>16 DEF TypeOK, JobInv, AgentInv, Ended, AgentStart
<1>17. ASSUME NEW s \in Schedules, SchedCheck(s) PROVE Goal
  BY <1>1, <1>17 DEF TypeOK, JobInv, AgentInv, Ended, SchedCheck
<1>18. ASSUME NEW s \in Schedules, NEW j \in JobIds, SchedInsert(s, j)
       PROVE  Goal
  BY <1>1, <1>18
  DEF TypeOK, JobInv, AgentInv, Ended, SchedInsert, Insert, Pruned
<1>19. ASSUME NEW j \in JobIds, UserKill(j) PROVE Goal
  BY <1>1, <1>19 DEF TypeOK, JobInv, AgentInv, Ended, UserKill, Kill
<1>20. CASE Close
  BY <1>1, <1>20 DEF TypeOK, JobInv, AgentInv, Ended, Close
<1>21. ASSUME NEW j \in JobIds, CloseKill(j) PROVE Goal
  BY <1>1, <1>21 DEF TypeOK, JobInv, AgentInv, Ended, CloseKill, Kill
<1>22. ASSUME NEW j \in JobIds, TaskSpawn(j) PROVE Goal
  BY <1>1, <1>22 DEF TypeOK, JobInv, AgentInv, Ended, TaskSpawn
<1>23. ASSUME NEW j \in JobIds, TaskSetPid(j) \/ TaskClearPid(j) PROVE Goal
  BY <1>1, <1>23 DEF TypeOK, JobInv, AgentInv, Ended, TaskSetPid, TaskClearPid
<1>24. ASSUME NEW j \in JobIds, TaskReap(j) PROVE Goal
  BY <1>1, <1>24 DEF TypeOK, JobInv, AgentInv, Ended, TaskReap
<1>25. ASSUME NEW j \in JobIds, TaskDrain(j) PROVE Goal
  BY <1>1, <1>25 DEF TypeOK, JobInv, AgentInv, Ended, TaskDrain
<1>26. ASSUME NEW j \in JobIds, TaskFinalize(j) PROVE Goal
  BY <1>1, <1>26 DEF TypeOK, JobInv, AgentInv, Ended, TaskFinalize
<1>27. ASSUME NEW j \in JobIds, ProcExit(j) PROVE Goal
  BY <1>1, <1>27 DEF TypeOK, JobInv, AgentInv, Ended, ProcExit
<1>28. ASSUME NEW j \in JobIds, Emit(j) PROVE Goal
  BY <1>1, <1>28 DEF TypeOK, JobInv, AgentInv, Ended, Emit
<1>29. CASE UNCHANGED vars
  BY <1>1, <1>29 DEF TypeOK, JobInv, AgentInv, Ended, vars
<1> QED
  BY <1>2, <1>3, <1>4, <1>5, <1>6, <1>7, <1>8, <1>9, <1>10, <1>11, <1>12, <1>13,
     <1>14, <1>15, <1>16, <1>17, <1>18, <1>19, <1>20, <1>21, <1>22, <1>23, <1>24, <1>25,
     <1>26, <1>27, <1>28, <1>29
  DEF Next, AgentStep, AgentChoice, TaskStep, Outside

\* Every step keeps NoLostWakeup.
LEMMA WakeStep == IInv /\ [Next]_vars => NoLostWakeup'
<1> SUFFICES ASSUME IInv, [Next]_vars
             PROVE  NoLostWakeup'
  OBVIOUS
<1> DEFINE Goal == NoLostWakeup'
<1>1. TypeOK /\ AgentInv /\ NoLostWakeup /\ \A i \in JobIds : JobInv(i)
  BY DEF IInv
<1> USE BackgroundAssumption
    DEF jobVars, taskVars, emitVars, agentVars, userVars
<1>2. ASSUME NEW j \in JobIds, AgentInsert(j) PROVE Goal
  BY <1>1, <1>2
  DEF TypeOK, JobInv, AgentInv, NoLostWakeup, Running, Ended, AgentInsert,
      Insert, Pruned
<1>3. CASE FgArm \/ FgRead \/ FgWoken \/ FgDetach
  BY <1>1, <1>3
  DEF TypeOK, JobInv, AgentInv, NoLostWakeup, Running, Ended, FgArm, FgRead,
      FgWoken, FgDetach, Running
<1>4. CASE FgTail
  BY <1>1, <1>4
  DEF TypeOK, JobInv, AgentInv, NoLostWakeup, Running, Ended, FgTail, Read
<1>5. CASE FgAbandon
  BY <1>1, <1>5
  DEF TypeOK, JobInv, AgentInv, NoLostWakeup, Running, Ended, FgAbandon,
      KillByModel, Kill, Running
<1>6. CASE FgMark
  BY <1>1, <1>6
  DEF TypeOK, JobInv, AgentInv, NoLostWakeup, Running, Ended, FgMark,
      MarkDelivered
<1>7. CASE FgOutput
  BY <1>1, <1>7
  DEF TypeOK, JobInv, AgentInv, NoLostWakeup, Running, Ended, FgOutput
<1>8. ASSUME NEW j \in JobIds, BgRead(j) PROVE Goal
  BY <1>1, <1>8
  DEF TypeOK, JobInv, AgentInv, NoLostWakeup, Running, Ended, BgRead, Read
<1>9. ASSUME NEW j \in JobIds, BgKill(j) PROVE Goal
  BY <1>1, <1>9
  DEF TypeOK, JobInv, AgentInv, NoLostWakeup, Running, Ended, BgKill,
      KillByModel, Kill, Running
<1>10. CASE TakeCompletions
  BY <1>1, <1>10
  DEF TypeOK, JobInv, AgentInv, NoLostWakeup, Running, Ended, TakeCompletions
<1>11. ASSUME NEW target \in JobIds \cup {NoJob}, WaitStart(target) PROVE Goal
  BY <1>1, <1>11
  DEF TypeOK, JobInv, AgentInv, NoLostWakeup, Running, Ended, WaitStart
<1>12. CASE WaitScan
  BY <1>1, <1>12
  DEF TypeOK, JobInv, AgentInv, NoLostWakeup, Running, Ended, WaitScan,
      WaitNews, Running
<1>13. CASE WaitWake \/ WaitGiveUp
  BY <1>1, <1>13
  DEF TypeOK, JobInv, AgentInv, NoLostWakeup, Running, Ended, WaitWake,
      WaitGiveUp
<1>14. CASE WaitMark
  BY <1>1, <1>14
  DEF TypeOK, JobInv, AgentInv, NoLostWakeup, Running, Ended, WaitMark,
      MarkDelivered
<1>15. CASE WaitTail
  BY <1>1, <1>15
  DEF TypeOK, JobInv, AgentInv, NoLostWakeup, Running, Ended, WaitTail, Read
<1>16. ASSUME NEW kind \in {"bgStart", "fgStart"}, AgentStart(kind) PROVE Goal
  BY <1>1, <1>16
  DEF TypeOK, JobInv, AgentInv, NoLostWakeup, Running, Ended, AgentStart
<1>17. ASSUME NEW s \in Schedules, SchedCheck(s) PROVE Goal
  BY <1>1, <1>17
  DEF TypeOK, JobInv, AgentInv, NoLostWakeup, Running, Ended, SchedCheck
<1>18. ASSUME NEW s \in Schedules, NEW j \in JobIds, SchedInsert(s, j)
       PROVE  Goal
  BY <1>1, <1>18
  DEF TypeOK, JobInv, AgentInv, NoLostWakeup, Running, Ended, SchedInsert,
      Insert, Pruned
<1>19. ASSUME NEW j \in JobIds, UserKill(j) PROVE Goal
  BY <1>1, <1>19
  DEF TypeOK, JobInv, AgentInv, NoLostWakeup, Running, Ended, UserKill, Kill
<1>20. CASE Close
  BY <1>1, <1>20
  DEF TypeOK, JobInv, AgentInv, NoLostWakeup, Running, Ended, Close
<1>21. ASSUME NEW j \in JobIds, CloseKill(j) PROVE Goal
  BY <1>1, <1>21
  DEF TypeOK, JobInv, AgentInv, NoLostWakeup, Running, Ended, CloseKill, Kill
<1>22. ASSUME NEW j \in JobIds, TaskSpawn(j) PROVE Goal
  BY <1>1, <1>22
  DEF TypeOK, JobInv, AgentInv, NoLostWakeup, Running, Ended, TaskSpawn
<1>23. ASSUME NEW j \in JobIds, TaskSetPid(j) \/ TaskClearPid(j) PROVE Goal
  BY <1>1, <1>23
  DEF TypeOK, JobInv, AgentInv, NoLostWakeup, Running, Ended, TaskSetPid,
      TaskClearPid
<1>24. ASSUME NEW j \in JobIds, TaskReap(j) PROVE Goal
  BY <1>1, <1>24
  DEF TypeOK, JobInv, AgentInv, NoLostWakeup, Running, Ended, TaskReap
<1>25. ASSUME NEW j \in JobIds, TaskDrain(j) PROVE Goal
  BY <1>1, <1>25
  DEF TypeOK, JobInv, AgentInv, NoLostWakeup, Running, Ended, TaskDrain
<1>26. ASSUME NEW j \in JobIds, TaskFinalize(j) PROVE Goal
  BY <1>1, <1>26
  DEF TypeOK, JobInv, AgentInv, NoLostWakeup, Running, Ended, TaskFinalize
<1>27. ASSUME NEW j \in JobIds, ProcExit(j) PROVE Goal
  BY <1>1, <1>27
  DEF TypeOK, JobInv, AgentInv, NoLostWakeup, Running, Ended, ProcExit
<1>28. ASSUME NEW j \in JobIds, Emit(j) PROVE Goal
  BY <1>1, <1>28
  DEF TypeOK, JobInv, AgentInv, NoLostWakeup, Running, Ended, Emit
<1>29. CASE UNCHANGED vars
  BY <1>1, <1>29
  DEF TypeOK, JobInv, AgentInv, NoLostWakeup, Running, Ended, vars
<1> QED
  BY <1>2, <1>3, <1>4, <1>5, <1>6, <1>7, <1>8, <1>9, <1>10, <1>11, <1>12, <1>13,
     <1>14, <1>15, <1>16, <1>17, <1>18, <1>19, <1>20, <1>21, <1>22, <1>23, <1>24, <1>25,
     <1>26, <1>27, <1>28, <1>29
  DEF Next, AgentStep, AgentChoice, TaskStep, Outside

\* A new registry satisfies the inductive invariant.
LEMMA InitInv == Init => IInv
<1> SUFFICES ASSUME Init PROVE IInv
  OBVIOUS
<1>1. TypeOK
  <2>1. /\ rank \in [JobIds -> Nat] /\ toEmit \in [JobIds -> Nat]
        /\ emitted \in [JobIds -> Nat] /\ clock \in Nat
    BY DEF Init
  <2>2. /\ delivered \in [JobIds -> BOOLEAN] /\ killFlag \in [JobIds -> BOOLEAN]
        /\ pid \in [JobIds -> BOOLEAN] /\ known \in [JobIds -> BOOLEAN]
        /\ closed \in BOOLEAN
    BY DEF Init
  <2> QED
    BY <2>1, <2>2 DEF Init, TypeOK
<1>2. \A j \in JobIds : JobInv(j)
  BY DEF Init, JobInv, Ended
<1>3. \A j \in JobIds : EndInv(j)
  BY DEF Init, EndInv, Ended
<1> QED
  BY <1>1, <1>2, <1>3 DEF Init, IInv, AgentInv, NoLostWakeup

\* IInv holds in every reachable state.
THEOREM Inductive == Spec => []IInv
<1>1. IInv /\ [Next]_vars => IInv'
  BY TypeStep, JobStep, EndStep, AgentInvStep, WakeStep DEF IInv
<1> QED
  BY InitInv, <1>1, PTL DEF Spec

-----------------------------------------------------------------------------
(* What follows from it *)

\* Whatever the tools, the tasks, the user and the teardown do, the registry's
\* state has its type (the structures of background.rs).
THEOREM TypeCorrect == Spec => []TypeOK
<1>1. IInv => TypeOK
  BY DEF IInv
<1> QED
  BY Inductive, <1>1, PTL

\* The end of a job that exited by itself reaches the model, or is due to it
\* (take_completions against prune_locked and the three marking tools).
THEOREM EndsReachTheModel == Spec => []EndNeverLost
<1>1. IInv => EndNeverLost
  BY DEF IInv, EndInv, EndNeverLost
<1> QED
  BY Inductive, <1>1, PTL

\* A job that ended emits exactly one event, one that runs none (kill against
\* finalize_job).
THEOREM EventsOnce == Spec => []OneTerminalEvent
<1>1. IInv => OneTerminalEvent
  BY DEF IInv, EndInv, OneTerminalEvent
<1> QED
  BY Inductive, <1>1, PTL

\* No notice is due for an end the model was already told of.
THEOREM NoticesOnce == Spec => []NoSecondNotice
<1>1. IInv => NoSecondNotice
  BY DEF IInv, EndInv, TypeOK, NoSecondNotice
<1> QED
  BY Inductive, <1>1, PTL

\* A `bash` parked on a job that ended was woken, or is about to be
\* (wait_until_idle registers before it reads the status).
THEOREM WakeupsKept == Spec => []NoLostWakeup
<1>1. IInv => NoLostWakeup
  BY DEF IInv
<1> QED
  BY Inductive, <1>1, PTL

\* An end is final (finalize_job leaves a killed job alone, kill one that ended).
THEOREM EndsAreFinal == Spec => EndIsFinal
<1> DEFINE Final == \A j \in JobIds : Ended(j) => status'[j] = status[j]
<1>1. IInv /\ [Next]_vars => [Final]_vars
  <2> SUFFICES ASSUME IInv, [Next]_vars, NEW k \in JobIds, Ended(k)
               PROVE  status'[k] = status[k]
    OBVIOUS
  <2>1. TypeOK /\ \A j \in JobIds : JobInv(j)
    BY DEF IInv
  <2>2. CASE status' = status
    BY <2>2
  <2>3. ASSUME NEW j \in JobIds, Insert(j) PROVE status'[k] = status[k]
    BY <2>1, <2>3 DEF TypeOK, Insert, Ended
  <2>4. ASSUME NEW j, Kill(j) PROVE status'[k] = status[k]
    BY <2>1, <2>4 DEF TypeOK, Kill, Ended, jobVars
  <2>5. ASSUME NEW j \in JobIds, TaskFinalize(j) PROVE status'[k] = status[k]
    BY <2>1, <2>5 DEF TypeOK, JobInv, TaskFinalize, Ended
  <2>6. \/ status' = status
        \/ \E j : Kill(j)
        \/ \E j \in JobIds : Insert(j) \/ TaskFinalize(j)
    BY DEF Next, AgentStep, AgentChoice, TaskStep, Outside, vars, jobVars,
       AgentInsert, FgArm, FgRead, FgWoken, FgDetach, FgTail, FgAbandon, FgMark,
       FgOutput, BgRead, BgKill, KillByModel, Read, MarkDelivered,
       TakeCompletions, WaitStart, WaitScan, WaitWake, WaitGiveUp, WaitMark,
       WaitTail, AgentStart, SchedCheck, SchedInsert, UserKill, Close, CloseKill,
       TaskSpawn, TaskSetPid, TaskClearPid, TaskReap, TaskDrain, ProcExit, Emit
  <2> QED
    BY <2>2, <2>3, <2>4, <2>5, <2>6
<1> QED
  BY Inductive, <1>1, PTL DEF Spec, EndIsFinal

-----------------------------------------------------------------------------
(* The job cap *)

\* Inserting a job adds at most that one to the running jobs.
LEMMA InsertCount ==
    ASSUME TypeOK, NEW j \in JobIds, Insert(j)
    PROVE  Cardinality(Running') <= Cardinality(Running) + 1
<1>1. IsFiniteSet(Running)
  BY BackgroundAssumption, FS_Subset DEF TypeOK, Running
<1>2. Running' \subseteq Running \cup {j}
  BY DEF TypeOK, Running, Insert
<1>3. /\ IsFiniteSet(Running \cup {j})
      /\ Cardinality(Running \cup {j}) <= Cardinality(Running) + 1
  BY SMTT(40), <1>1, FS_AddElement, FS_CardinalityType
<1> QED
  BY <1>1, <1>2, <1>3, FS_Subset, FS_CardinalityType

\* Every step keeps SlotInv: the agent counts before it takes a slot and gives
\* the slot to the job it inserts; a command that inserts one has fired.
LEMMA SlotStep == IInv /\ IInv' /\ SlotInv /\ [Next]_vars => SlotInv'
<1> SUFFICES ASSUME IInv, IInv', SlotInv, [Next]_vars PROVE SlotInv'
  OBVIOUS
<1> DEFINE R == Cardinality(Running)
           F == Cardinality(Fired)
<1>1. /\ IsFiniteSet(Running) /\ R \in Nat
      /\ IsFiniteSet(Fired) /\ F \in Nat
      /\ MaxJobs \in Nat
  <2>1. Running \subseteq JobIds /\ Fired \subseteq Schedules
    BY DEF IInv, TypeOK, Running, Fired
  <2> QED
    BY <2>1, BackgroundAssumption, FS_Subset, FS_CardinalityType
<1>2. /\ R' \in Nat /\ IsFiniteSet(Fired') /\ F' \in Nat
  <2>1. Running' \subseteq JobIds /\ Fired' \subseteq Schedules
    BY DEF IInv, TypeOK, Running, Fired
  <2> QED
    BY <2>1, BackgroundAssumption, FS_Subset, FS_CardinalityType
<1>3. ASSUME NEW j \in JobIds, AgentInsert(j) PROVE SlotInv'
  <2>1. R' <= R + 1
    BY <1>3, InsertCount DEF AgentInsert, IInv
  <2>2. Fired' = Fired
    BY <1>3 DEF AgentInsert, Fired, userVars
  <2>3. AgentSlot = 1 /\ AgentSlot' = 0
    BY <1>3 DEF AgentInsert, AgentSlot
  <2> QED
    BY <1>1, <1>2, <2>1, <2>2, <2>3 DEF SlotInv
<1>4. ASSUME NEW s \in Schedules, NEW j \in JobIds, SchedInsert(s, j)
      PROVE  SlotInv'
  <2>1. R' <= R + 1
    BY <1>4, InsertCount DEF SchedInsert, IInv
  <2>2. s \notin Fired /\ Fired' = Fired \cup {s}
    BY <1>4 DEF SchedInsert, Fired, IInv, TypeOK
  <2>3. F' = F + 1
    BY <1>1, <2>2, FS_AddElement
  <2>4. AgentSlot' = AgentSlot /\ AgentSlot \in {0, 1}
    BY <1>4 DEF SchedInsert, AgentSlot, agentVars
  <2> QED
    BY <1>1, <1>2, <2>1, <2>3, <2>4 DEF SlotInv
<1>5. ASSUME NEW kind \in {"bgStart", "fgStart"}, AgentStart(kind)
      PROVE  SlotInv'
  <2>1. R' = R /\ R < MaxJobs /\ AgentSlot' = 1
    BY <1>5 DEF AgentStart, BelowCap, Running, AgentSlot, jobVars
  <2> QED
    BY <1>1, <1>2, <2>1 DEF SlotInv
<1>6. ASSUME NEW s \in Schedules, SchedCheck(s) PROVE SlotInv'
  <2>1. R' = R /\ AgentSlot' = AgentSlot /\ AgentSlot \in {0, 1}
    BY <1>6 DEF SchedCheck, Running, AgentSlot, jobVars, agentVars
  <2>2. Fired \subseteq Fired'
    BY <1>6 DEF SchedCheck, Fired, IInv, TypeOK
  <2>3. F <= F'
    BY <1>2, <2>2, FS_Subset
  <2> QED
    BY <1>1, <1>2, <2>1, <2>3 DEF SlotInv
<1>7. CASE UNCHANGED vars
  BY <1>7 DEF SlotInv, Running, Fired, AgentSlot, vars, jobVars, agentVars,
     userVars
<1>8. CASE /\ Next
           /\ \A j \in JobIds : ~AgentInsert(j)
           /\ \A s \in Schedules : ~SchedCheck(s) /\ \A j \in JobIds : ~SchedInsert(s, j)
           /\ \A kind \in {"bgStart", "fgStart"} : ~AgentStart(kind)
  <2>1. Fired' = Fired /\ AgentSlot' <= AgentSlot
    <3>1. /\ sched' = sched
          /\ apc' = apc \/ apc' \notin {"bgStart", "fgStart"}
      BY <1>8 DEF Next, AgentStep, AgentChoice, TaskStep, Outside, agentVars,
         userVars, FgArm, FgRead, FgWoken, FgDetach, FgTail, FgAbandon, FgMark,
         FgOutput, BgRead, BgKill, TakeCompletions, WaitStart, WaitScan,
         WaitWake, WaitGiveUp, WaitMark, WaitTail, UserKill, Close, CloseKill,
         TaskSpawn, TaskSetPid, TaskClearPid, TaskReap, TaskDrain, TaskFinalize,
         ProcExit, Emit
    <3> QED
      BY <3>1 DEF Fired, AgentSlot
  <2>2. Running' \subseteq Running
    <3>1. \/ status' = status /\ present' = present
          \/ \E j : Kill(j)
          \/ \E j \in JobIds : TaskFinalize(j)
      BY <1>8
      DEF Next, AgentStep, AgentChoice, TaskStep, Outside, jobVars, FgArm,
         FgRead, FgWoken, FgDetach, FgTail, FgAbandon, FgMark, FgOutput, BgRead,
         BgKill, KillByModel, Read, MarkDelivered, TakeCompletions, WaitStart,
         WaitScan, WaitWake, WaitGiveUp, WaitMark, WaitTail, UserKill, Close,
         CloseKill, TaskSpawn, TaskSetPid, TaskClearPid, TaskReap, TaskDrain,
         ProcExit, Emit
    <3>2. ASSUME NEW j, Kill(j) PROVE Running' \subseteq Running
      BY <3>2 DEF IInv, TypeOK, Kill, Running, jobVars
    <3>3. ASSUME NEW j \in JobIds, TaskFinalize(j) PROVE Running' \subseteq Running
      BY <3>3 DEF IInv, TypeOK, JobInv, TaskFinalize, Running
    <3> QED
      BY <3>1, <3>2, <3>3 DEF Running
  <2>3. R' <= R
    BY <1>1, <2>2, FS_Subset
  <2>4. AgentSlot \in {0, 1} /\ AgentSlot' \in {0, 1}
    BY DEF AgentSlot
  <2> QED
    BY <1>1, <1>2, <2>1, <2>3, <2>4 DEF SlotInv
<1> QED
  BY <1>3, <1>4, <1>5, <1>6, <1>7, <1>8

\* start_shell's cap can be overrun by the scheduled commands that fired, each
\* by one job, and by nothing else.
THEOREM CapIsSoft == Spec => []SoftCap
<1>1. Init => SlotInv
  <2> SUFFICES ASSUME Init PROVE SlotInv
    OBVIOUS
  <2>1. Running = {} /\ Fired = {} /\ AgentSlot = 0
    BY DEF Init, Running, Fired, AgentSlot
  <2>2. Cardinality({}) = 0
    BY FS_EmptySet
  <2> QED
    BY <2>1, <2>2, BackgroundAssumption DEF SlotInv
<1>2. IInv /\ SlotInv => SoftCap
  <2> SUFFICES ASSUME IInv, SlotInv PROVE SoftCap
    OBVIOUS
  <2>1. Running \subseteq JobIds /\ Fired \subseteq Schedules
    BY DEF IInv, TypeOK, Running, Fired
  <2>2. /\ Cardinality(Running) \in Nat /\ Cardinality(Fired) \in Nat
        /\ AgentSlot \in {0, 1}
    BY <2>1, BackgroundAssumption, FS_Subset, FS_CardinalityType DEF AgentSlot
  <2> QED
    BY <2>2, BackgroundAssumption DEF SlotInv, SoftCap
<1> QED
  BY Inductive, SlotStep, <1>1, <1>2, PTL DEF Spec
=============================================================================
