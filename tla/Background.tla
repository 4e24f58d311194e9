----------------------------- MODULE Background -----------------------------
(***************************************************************************)
(* The registry of background shell jobs (crates/agent/src/background.rs)  *)
(* and the parts of the agent that use it (agent/dispatch.rs): `bash` with *)
(* auto-detach, `bash background: true`, `bg`, `wait`, `schedule`, the     *)
(* completion notices injected before a step, the user's `/bg kill`, and   *)
(* the teardown of a session.                                              *)
(*                                                                         *)
(* Who runs concurrently: the agent's turn (one tool at a time: none of    *)
(* these tools is parallel-safe), one task per job, one task per scheduled *)
(* command, and the user interface.  An action is one critical section:    *)
(* what the code does under one hold of the job's mutex, or of `jobs`.     *)
(***************************************************************************)
EXTENDS Naturals, FiniteSets

CONSTANTS
    JobIds,     \* ids the registry can hand out (claim_job_log: never reused)
    Schedules,  \* commands delayed by the `schedule` tool, one task each
    NoJob,      \* "no job": the `wait` tool without job_id
    MaxJobs,    \* max_jobs, at least 1 (BackgroundRegistry::new)
    Retain      \* RETAIN_FINISHED

ASSUME BackgroundAssumption ==
    /\ IsFiniteSet(JobIds) /\ NoJob \notin JobIds
    /\ IsFiniteSet(Schedules)
    /\ MaxJobs \in Nat \ {0}
    /\ Retain \in Nat

VARIABLES
    \* RegistryInner.jobs and .order: the jobs listed, and when each was added
    present, rank, clock,
    \* JobInner, per job
    status, delivered, killFlag, pid,
    \* the job's own task, its child process, and the wait status it read
    task, proc, exit,
    \* events each job still has to emit, and has emitted (BackgroundEvent)
    toEmit, emitted,
    \* the agent's turn: where it is in a tool, and that tool's locals
    apc, ajob, aseen, wake,
    \* the tasks of `schedule`, and the teardown (kill_all's list of ids)
    sched, closed, toKill,
    \* ghost: ends the model was told of
    known

jobVars == <<present, rank, clock, status, delivered, killFlag, pid>>
taskVars == <<task, proc, exit>>
emitVars == <<toEmit, emitted>>
agentVars == <<apc, ajob, aseen, wake>>
userVars == <<sched, closed, toKill>>
vars == <<jobVars, taskVars, emitVars, agentVars, userVars, known>>

(***************************************************************************)
(* Reading the registry.                                                   *)
(***************************************************************************)

Running == {j \in present : status[j] = "Running"}

\* A job's end is final: it left Running.
Ended(j) == status[j] \in {"Done", "Failed", "Killed"}

\* Mutant: a job is dropped as soon as it ended.
PrunedUnheard(p) ==
    LET finished == {j \in p : Ended(j)}
    IN  {j \in finished :
            Cardinality({k \in finished : rank[k] > rank[j]}) >= Retain}

\* prune_locked: beyond Retain, the oldest jobs that ended and that the model
\* knows about are dropped.  `p` is the set listed, after the insertion.
Pruned(p) ==
    LET finished == {j \in p : Ended(j) /\ delivered[j]}
    IN  {j \in finished :
            Cardinality({k \in finished : rank[k] > rank[j]}) >= Retain}

(***************************************************************************)
(* Operations of the registry.                                             *)
(***************************************************************************)

\* Mutant: off by one.
BelowCapOrAt == Cardinality(Running) <= MaxJobs

\* start_shell's test, made before the job is prepared and inserted.
BelowCap == Cardinality(Running) < MaxJobs

\* start_prepared: a fresh id, a Running job, its task spawned, old jobs pruned.
Insert(j) ==
    LET p == present \cup {j}
    IN  /\ status[j] = "Unused"
        /\ status' = [status EXCEPT ![j] = "Running"]
        /\ rank' = [rank EXCEPT ![j] = clock + 1]
        /\ clock' = clock + 1
        /\ present' = p \ Pruned(p)
        /\ task' = [task EXCEPT ![j] = "spawn"]
        /\ UNCHANGED <<delivered, killFlag, pid, proc, exit, emitVars>>

\* kill: only a Running job; the group is signalled through the pid, if set.
Kill(j) ==
    IF j \in present /\ status[j] = "Running"
    THEN /\ killFlag' = [killFlag EXCEPT ![j] = TRUE]
         /\ pid' = [pid EXCEPT ![j] = FALSE]
         /\ proc' = IF pid[j] /\ proc[j] = "live"
                    THEN [proc EXCEPT ![j] = "exited"] ELSE proc
         /\ status' = [status EXCEPT ![j] = "Killed"]
         /\ delivered' = [delivered EXCEPT ![j] = TRUE]
         /\ toEmit' = [toEmit EXCEPT ![j] = @ + 1]
         /\ UNCHANGED <<present, rank, clock, task, exit, emitted>>
    ELSE UNCHANGED <<jobVars, taskVars, emitVars>>

\* The model did the killing, so it knows how the job ended.
KillByModel(j) ==
    /\ Kill(j)
    /\ known' = IF j \in Running THEN [known EXCEPT ![j] = TRUE] ELSE known

\* Mutant: the end is reported but not marked.
MarkNothing(j) ==
    /\ known' = [known EXCEPT ![j] = TRUE]
    /\ UNCHANGED jobVars

\* mark_delivered: the caller is about to report this job's end.
MarkDelivered(j) ==
    /\ delivered' = IF j \in present
                    THEN [delivered EXCEPT ![j] = TRUE] ELSE delivered
    /\ known' = [known EXCEPT ![j] = TRUE]
    /\ UNCHANGED <<present, rank, clock, status, killFlag, pid>>

\* read (also tail): shows the output; the end counts as delivered if it ended.
Read(j) ==
    IF j \in present /\ status[j] # "Running"
    THEN /\ delivered' = [delivered EXCEPT ![j] = TRUE]
         /\ known' = [known EXCEPT ![j] = TRUE]
         /\ UNCHANGED <<present, rank, clock, status, killFlag, pid>>
    ELSE UNCHANGED <<jobVars, known>>

(***************************************************************************)
(* `bash background: true` and `bash` with auto-detach.                    *)
(***************************************************************************)

\* start_shell refused: the call is answered (bg) or run unregistered (fg).
AgentStart(kind) ==
    /\ apc = "idle" /\ ~closed
    /\ BelowCap
    /\ apc' = kind
    /\ UNCHANGED <<jobVars, taskVars, emitVars, ajob, aseen, wake, userVars,
                   known>>

AgentInsert(j) ==
    /\ apc \in {"bgStart", "fgStart"}
    /\ Insert(j)
    /\ apc' = IF apc = "fgStart" THEN "fgArm" ELSE "idle"
    /\ ajob' = IF apc = "fgStart" THEN j ELSE NoJob
    /\ UNCHANGED <<aseen, wake, userVars, known>>

\* Mutant: the waiter reads the status without having registered.
FgArmNot ==
    /\ apc = "fgArm"
    /\ apc' = "fgRead"
    /\ UNCHANGED <<jobVars, taskVars, emitVars, ajob, aseen, wake, userVars,
                   known>>

\* wait_until_idle: the waiter registers with Notify before it reads the status.
FgArm ==
    /\ apc = "fgArm"
    /\ wake' = "armed"
    /\ apc' = "fgRead"
    /\ UNCHANGED <<jobVars, taskVars, emitVars, ajob, aseen, userVars, known>>

FgRead ==
    /\ apc = "fgRead"
    /\ apc' = IF ajob \in Running THEN "fgParked" ELSE "fgMark"
    /\ UNCHANGED <<jobVars, taskVars, emitVars, ajob, aseen, wake, userVars,
                   known>>

FgWoken ==
    /\ apc = "fgParked" /\ wake = "fired"
    /\ wake' = "none"
    /\ apc' = "fgArm"
    /\ UNCHANGED <<jobVars, taskVars, emitVars, ajob, aseen, userVars, known>>

\* The detach point: the job stays, the result carries what `tail` returns.
FgDetach ==
    /\ apc = "fgParked" /\ ~closed
    /\ wake' = "none"
    /\ apc' = "fgTail"
    /\ UNCHANGED <<jobVars, taskVars, emitVars, ajob, aseen, userVars, known>>

FgTail ==
    /\ apc = "fgTail"
    /\ Read(ajob)
    /\ apc' = "idle" /\ ajob' = NoJob
    /\ UNCHANGED <<taskVars, emitVars, aseen, wake, userVars>>

\* KillUnlessReturned: a short `timeout` passed, or the future was dropped
\* (Esc, or the session was closed).
FgAbandon ==
    /\ apc = "fgParked"
    /\ KillByModel(ajob)
    /\ wake' = "none"
    /\ apc' = "idle" /\ ajob' = NoJob
    /\ UNCHANGED <<aseen, userVars>>

\* Finished in the foreground: first the mark, then the output is fetched.
FgMark ==
    /\ apc = "fgMark"
    /\ MarkDelivered(ajob)
    /\ wake' = "none"
    /\ apc' = "fgOutput"
    /\ UNCHANGED <<taskVars, emitVars, ajob, aseen, userVars>>

FgOutput ==
    /\ apc = "fgOutput"
    /\ apc' = "idle" /\ ajob' = NoJob
    /\ UNCHANGED <<jobVars, taskVars, emitVars, aseen, wake, userVars, known>>

(***************************************************************************)
(* `bg read`, `bg kill`, and the notices before a step.                    *)
(***************************************************************************)

BgRead(j) ==
    /\ apc = "idle" /\ ~closed
    /\ j \in present
    /\ Read(j)
    /\ UNCHANGED <<taskVars, emitVars, agentVars, userVars>>

BgKill(j) ==
    /\ apc = "idle" /\ ~closed
    /\ j \in present
    /\ KillByModel(j)
    /\ UNCHANGED <<agentVars, userVars>>

\* take_completions, from inject_background_completions.
TakeCompletions ==
    LET new == {j \in present : Ended(j) /\ ~delivered[j]}
    IN  /\ apc = "idle" /\ ~closed
        /\ new # {}
        /\ delivered' = [j \in JobIds |-> delivered[j] \/ j \in new]
        /\ known' = [j \in JobIds |-> known[j] \/ j \in new]
        /\ UNCHANGED <<present, rank, clock, status, killFlag, pid, taskVars,
                       emitVars, agentVars, userVars>>

(***************************************************************************)
(* The `wait` tool.                                                        *)
(***************************************************************************)

\* Jobs that had ended when the wait began are not news, unless named.
WaitStart(target) ==
    /\ apc = "idle" /\ ~closed
    /\ target \in present \cup {NoJob}
    /\ apc' = "waitScan"
    /\ ajob' = target
    /\ aseen' = IF target = NoJob THEN {j \in present : Ended(j)} ELSE {}
    /\ UNCHANGED <<jobVars, taskVars, emitVars, wake, userVars, known>>

\* Jobs the wait would report now.
WaitNews ==
    {j \in present : Ended(j) /\ ajob \in {j, NoJob} /\ j \notin aseen}

WaitScan ==
    /\ apc = "waitScan"
    /\ \/ \E j \in WaitNews :
             /\ \A k \in WaitNews : rank[j] <= rank[k]
             /\ ajob' = j
             /\ apc' = "waitMark"
       \/ /\ WaitNews = {}
          /\ ajob # NoJob \/ Running # {}
          /\ apc' = "waitParked"
          /\ UNCHANGED ajob
       \/ /\ WaitNews = {}
          /\ ajob = NoJob /\ Running = {}
          /\ apc' = "idle"
          /\ UNCHANGED ajob
    /\ aseen' = IF apc' = "waitParked" THEN aseen ELSE {}
    /\ UNCHANGED <<jobVars, taskVars, emitVars, wake, userVars, known>>

\* changed_within: a job changed, or the poll interval passed.
WaitWake ==
    /\ apc = "waitParked"
    /\ apc' = "waitScan"
    /\ UNCHANGED <<jobVars, taskVars, emitVars, ajob, aseen, wake, userVars,
                   known>>

\* A steering message is pending, the deadline passed, or the turn is cancelled.
WaitGiveUp ==
    /\ apc \in {"waitScan", "waitParked"}
    /\ apc' = "idle" /\ ajob' = NoJob /\ aseen' = {}
    /\ UNCHANGED <<jobVars, taskVars, emitVars, wake, userVars, known>>

WaitMark ==
    /\ apc = "waitMark"
    /\ MarkDelivered(ajob)
    /\ apc' = "waitTail"
    /\ UNCHANGED <<taskVars, emitVars, ajob, aseen, wake, userVars>>

WaitTail ==
    /\ apc = "waitTail"
    /\ Read(ajob)
    /\ apc' = "idle" /\ ajob' = NoJob
    /\ UNCHANGED <<taskVars, emitVars, aseen, wake, userVars>>

(***************************************************************************)
(* The tasks of `schedule`, the user, and the teardown.                    *)
(***************************************************************************)

SchedCheck(s) ==
    /\ sched[s] = "delayed"
    /\ sched' = [sched EXCEPT ![s] = IF BelowCap THEN "start" ELSE "over"]
    /\ UNCHANGED <<jobVars, taskVars, emitVars, agentVars, closed, toKill,
                   known>>

SchedInsert(s, j) ==
    /\ sched[s] = "start"
    /\ Insert(j)
    /\ sched' = [sched EXCEPT ![s] = "over"]
    /\ UNCHANGED <<agentVars, closed, toKill, known>>

\* `/bg kill <id>`
UserKill(j) ==
    /\ ~closed
    /\ j \in present
    /\ Kill(j)
    /\ UNCHANGED <<agentVars, userVars, known>>

\* The session is closed: the turn's task is told to abort (it stops at its
\* next await), and kill_all lists the jobs that run.
Close ==
    /\ ~closed
    /\ closed' = TRUE
    /\ toKill' = Running
    /\ UNCHANGED <<jobVars, taskVars, emitVars, agentVars, sched, known>>

CloseKill(j) ==
    /\ j \in toKill
    /\ toKill' = toKill \ {j}
    /\ Kill(j)
    /\ UNCHANGED <<agentVars, sched, closed, known>>

(***************************************************************************)
(* run_background_job, the task of one job; and its child process.         *)
(***************************************************************************)

\* Mutant: a failed spawn is finalized without a status.
TaskSpawnUnset(j) ==
    /\ task[j] = "spawn"
    /\ \/ /\ proc' = [proc EXCEPT ![j] = "live"]
          /\ task' = [task EXCEPT ![j] = "setPid"]
       \/ /\ task' = [task EXCEPT ![j] = "finalize"]
          /\ UNCHANGED proc
    /\ UNCHANGED <<jobVars, exit, emitVars, agentVars, userVars, known>>

\* The child starts, or the spawn failed and the job is finalized at once.
TaskSpawn(j) ==
    /\ task[j] = "spawn"
    /\ \/ /\ proc' = [proc EXCEPT ![j] = "live"]
          /\ task' = [task EXCEPT ![j] = "setPid"]
          /\ UNCHANGED exit
       \/ /\ exit' = [exit EXCEPT ![j] = "Failed"]
          /\ task' = [task EXCEPT ![j] = "finalize"]
          /\ UNCHANGED proc
    /\ UNCHANGED <<jobVars, emitVars, agentVars, userVars, known>>

TaskSetPid(j) ==
    /\ task[j] = "setPid"
    /\ pid' = [pid EXCEPT ![j] = TRUE]
    /\ task' = [task EXCEPT ![j] = "poll"]
    /\ UNCHANGED <<present, rank, clock, status, delivered, killFlag, proc, exit,
                   emitVars, agentVars, userVars, known>>

ProcExit(j) ==
    /\ proc[j] = "live"
    /\ proc' = [proc EXCEPT ![j] = "exited"]
    /\ UNCHANGED <<jobVars, task, exit, emitVars, agentVars, userVars, known>>

\* Mutant: the loop does not look at the kill flag.
TaskReapExitOnly(j) ==
    /\ task[j] = "poll"
    /\ proc[j] = "exited"
    /\ exit' = [exit EXCEPT ![j] = "Done"]
    /\ proc' = [proc EXCEPT ![j] = "reaped"]
    /\ task' = [task EXCEPT ![j] = "clearPid"]
    /\ UNCHANGED <<jobVars, emitVars, agentVars, userVars, known>>

\* The loop: a kill flag stops the child and reaps it, an exit is reaped.  The
\* exit code chooses Done or Failed; nothing below depends on it, so an exited
\* child is Done here, and Failed is a job whose child never ran.
TaskReap(j) ==
    /\ task[j] = "poll"
    /\ \/ /\ killFlag[j]
          /\ UNCHANGED exit
       \/ /\ proc[j] = "exited"
          /\ exit' = [exit EXCEPT ![j] = "Done"]
    /\ proc' = [proc EXCEPT ![j] = "reaped"]
    /\ task' = [task EXCEPT ![j] = "clearPid"]
    /\ UNCHANGED <<jobVars, emitVars, agentVars, userVars, known>>

TaskClearPid(j) ==
    /\ task[j] = "clearPid"
    /\ pid' = [pid EXCEPT ![j] = FALSE]
    /\ task' = [task EXCEPT ![j] = "drain"]
    /\ UNCHANGED <<present, rank, clock, status, delivered, killFlag, proc, exit,
                   emitVars, agentVars, userVars, known>>

\* The pipes end, or PIPE_DRAIN_GRACE passes; then the flag is read again.
TaskDrain(j) ==
    /\ task[j] = "drain"
    /\ exit' = IF killFlag[j] THEN [exit EXCEPT ![j] = "Killed"] ELSE exit
    /\ task' = [task EXCEPT ![j] = "finalize"]
    /\ UNCHANGED <<jobVars, proc, emitVars, agentVars, userVars, known>>

\* Mutant: Killed is overwritten by the exit.
TaskFinalizeOver(j) ==
    /\ task[j] = "finalize"
    /\ task' = [task EXCEPT ![j] = "over"]
    /\ exit' = [exit EXCEPT ![j] = "none"]
    /\ status' = [status EXCEPT ![j] = exit[j]]
    /\ toEmit' = [toEmit EXCEPT ![j] = @ + 1]
    /\ UNCHANGED <<present, rank, clock, delivered, killFlag, pid, proc, emitted,
                   agentVars, userVars, known>>

\* finalize_job: a job `kill` already ended is left alone, without an event.
TaskFinalize(j) ==
    /\ task[j] = "finalize"
    /\ task' = [task EXCEPT ![j] = "over"]
    /\ exit' = [exit EXCEPT ![j] = "none"]
    /\ IF status[j] = "Killed"
       THEN UNCHANGED <<status, toEmit>>
       ELSE /\ status' = [status EXCEPT ![j] = exit[j]]
            /\ toEmit' = [toEmit EXCEPT ![j] = @ + 1]
    /\ UNCHANGED <<present, rank, clock, delivered, killFlag, pid, proc, emitted,
                   agentVars, userVars, known>>

\* Mutant: only the listener is called.
EmitQuiet(j) ==
    /\ toEmit[j] > 0
    /\ toEmit' = [toEmit EXCEPT ![j] = @ - 1]
    /\ emitted' = [emitted EXCEPT ![j] = @ + 1]
    /\ UNCHANGED <<jobVars, taskVars, agentVars, userVars, known>>

\* emit: wakes every registered waiter, then calls the listener.
Emit(j) ==
    /\ toEmit[j] > 0
    /\ toEmit' = [toEmit EXCEPT ![j] = @ - 1]
    /\ emitted' = [emitted EXCEPT ![j] = @ + 1]
    /\ wake' = IF wake = "armed" THEN "fired" ELSE wake
    /\ UNCHANGED <<jobVars, taskVars, apc, ajob, aseen, userVars, known>>

-----------------------------------------------------------------------------

Init ==
    /\ present = {} /\ clock = 0
    /\ rank = [j \in JobIds |-> 0]
    /\ status = [j \in JobIds |-> "Unused"]
    /\ delivered = [j \in JobIds |-> FALSE]
    /\ killFlag = [j \in JobIds |-> FALSE]
    /\ pid = [j \in JobIds |-> FALSE]
    /\ task = [j \in JobIds |-> "none"]
    /\ proc = [j \in JobIds |-> "none"]
    /\ exit = [j \in JobIds |-> "none"]
    /\ toEmit = [j \in JobIds |-> 0]
    /\ emitted = [j \in JobIds |-> 0]
    /\ apc = "idle" /\ ajob = NoJob /\ aseen = {} /\ wake = "none"
    /\ sched = [s \in Schedules |-> "delayed"]
    /\ closed = FALSE /\ toKill = {}
    /\ known = [j \in JobIds |-> FALSE]

\* One step of the agent inside a tool it already entered.
AgentStep ==
    \/ \E j \in JobIds : AgentInsert(j)
    \/ FgArm \/ FgRead \/ FgWoken \/ FgTail \/ FgMark \/ FgOutput
    \/ WaitScan \/ WaitWake \/ WaitMark \/ WaitTail

\* What the model, the clock and the cancel key choose.
AgentChoice ==
    \/ \E kind \in {"bgStart", "fgStart"} : AgentStart(kind)
    \/ FgDetach \/ FgAbandon \/ WaitGiveUp
    \/ \E j \in JobIds : BgRead(j) \/ BgKill(j)
    \/ TakeCompletions
    \/ \E target \in JobIds \cup {NoJob} : WaitStart(target)

\* One step of a job's task.
TaskStep(j) ==
    \/ TaskSpawn(j) \/ TaskSetPid(j) \/ TaskReap(j) \/ TaskClearPid(j)
    \/ TaskDrain(j) \/ TaskFinalize(j)

Outside ==
    \/ \E s \in Schedules : SchedCheck(s) \/ \E j \in JobIds : SchedInsert(s, j)
    \/ \E j \in JobIds : UserKill(j) \/ CloseKill(j) \/ ProcExit(j)
    \/ Close

Next ==
    \/ AgentStep
    \/ AgentChoice
    \/ \E j \in JobIds : TaskStep(j) \/ Emit(j)
    \/ Outside

Spec == Init /\ [][Next]_vars

\* tokio polls a task that can run, and a thread inside a registry call ends
\* it.  Nothing says that a child exits, that a deadline passes before an
\* event, or that anybody starts, reads or kills a job.
Fairness ==
    /\ WF_vars(AgentStep)
    /\ \A j \in JobIds : WF_vars(TaskStep(j) \/ Emit(j))

FairSpec == Spec /\ Fairness

-----------------------------------------------------------------------------
(***************************************************************************)
(* Properties.                                                             *)
(***************************************************************************)

\* Every variable has its type.
TypeOK ==
    /\ present \subseteq JobIds /\ clock \in Nat
    /\ rank \in [JobIds -> Nat]
    /\ status \in [JobIds -> {"Unused", "Running", "Done", "Failed", "Killed"}]
    /\ delivered \in [JobIds -> BOOLEAN]
    /\ killFlag \in [JobIds -> BOOLEAN]
    /\ pid \in [JobIds -> BOOLEAN]
    /\ task \in [JobIds -> {"none", "spawn", "setPid", "poll", "clearPid",
                            "drain", "finalize", "over"}]
    /\ proc \in [JobIds -> {"none", "live", "exited", "reaped"}]
    /\ exit \in [JobIds -> {"none", "Done", "Failed", "Killed"}]
    /\ toEmit \in [JobIds -> Nat]
    /\ emitted \in [JobIds -> Nat]
    /\ apc \in {"idle", "bgStart", "fgStart", "fgArm", "fgRead", "fgParked",
                "fgTail", "fgMark", "fgOutput", "waitScan", "waitParked",
                "waitMark", "waitTail"}
    /\ ajob \in JobIds \cup {NoJob}
    /\ aseen \subseteq JobIds
    /\ wake \in {"none", "armed", "fired"}
    /\ sched \in [Schedules -> {"delayed", "start", "over"}]
    /\ closed \in BOOLEAN
    /\ toKill \subseteq JobIds
    /\ known \in [JobIds -> BOOLEAN]

\* The end of a job that exited by itself reaches the model: it was reported,
\* or the job is still listed and a notice is due (take_completions, with
\* prune_locked dropping jobs and three tools marking them delivered).
EndNeverLost ==
    \A j \in JobIds :
        status[j] \in {"Done", "Failed"} =>
            known[j] \/ (j \in present /\ ~delivered[j])

\* However kill and the job's own task race, a job that ended emits exactly
\* one event, and a running job none (the `emit` of kill and finalize_job).
OneTerminalEvent ==
    \A j \in JobIds : toEmit[j] + emitted[j] = IF Ended(j) THEN 1 ELSE 0

\* wait_until_idle never sleeps through the end of its job: a waiter parked
\* on a job that no longer runs was woken, or that job's event is on its way.
NoLostWakeup ==
    apc = "fgParked" /\ ajob \notin Running =>
        wake = "fired" \/ (wake = "armed" /\ toEmit[ajob] > 0)

\* The scheduled commands that have had their time.
Fired == {s \in Schedules : sched[s] = "over"}

\* The job cap is soft: start_shell counts, then inserts, so the agent and the
\* scheduled commands can pass the count together.  Each command that has fired
\* puts at most one job beyond the cap; the agent's own calls put none there.
SoftCap == Cardinality(Running) <= MaxJobs + Cardinality(Fired)

\* An end is final: no later step turns Killed into Done, or back.
EndIsFinal == [][\A j \in JobIds : Ended(j) => status'[j] = status[j]]_vars

\* No notice is due for an end the model was already told of by `bash`,
\* `wait`, `bg read` or its own kill.
NoSecondNotice == \A j \in present : known[j] => delivered[j]

\* A foreground `bash` returns once its job ended, without its deadline.
FgReturns == apc = "fgParked" /\ ajob \notin Running ~> apc = "idle"

\* A killed job's process is stopped and reaped, even when the kill came
\* before the process was started.
KillTakesEffect ==
    \A j \in JobIds :
        killFlag[j] ~> task[j] = "over" /\ proc[j] \in {"none", "reaped"}
=============================================================================
