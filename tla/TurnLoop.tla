------------------------------ MODULE TurnLoop ------------------------------
(***************************************************************************)
(* The model/tool step loop of a turn (crates/agent/src/agent/turn.rs),    *)
(* the execution of a batch of tool calls (agent/gate.rs), the inbox of    *)
(* messages sent while a turn runs (agent/src/steer.rs), and what each     *)
(* client does before and after a turn: the TUI (tui/src/run/mod.rs), the  *)
(* daemon's chat (server/src/routes.rs) and its SDK runs (server/src/v1.rs).*)
(*                                                                         *)
(* Concurrent are the turn's task, the user interface that types, steers   *)
(* and cancels, and the calls of a parallel batch.  A step of the turn is  *)
(* what it does between two awaits.  The model's replies, the tools'       *)
(* results, the token counts and the provider's errors are choices.        *)
(***************************************************************************)
EXTENDS Transcript

CONSTANTS
    Client,         \* "tui", "chat" or "v1"
    Forced,         \* TUI: a cancel may take longer than CANCEL_FORCE_AFTER,
                    \* or than the user waits to press Esc again
    Sigs,           \* signatures of tool calls: name and arguments
    SafeSigs,       \* those of parallel-safe tools (is_parallel_safe_tool)
    TodoSigs,       \* those of `todowrite`
    CheckSigs,      \* those of `checkpoint`
    RewindSigs,     \* those of `rewind`
    NoSig,          \* no call yet
    MaxTurns,       \* max_turns, 0 for none
    DoomThreshold,  \* DOOM_LOOP_THRESHOLD
    MaxDoomRefusals,
    MaxCutOffs,
    MaxHarmony,     \* harmony leaks retried per turn
    MaxOverflow,    \* context overflows compacted and retried per turn
    MaxCompactFails,
    \* Bounds of the instance.
    MaxMsgs,        \* messages the user types: 1, 2, ...
    MaxCalls,       \* calls in one reply
    MaxSteps,       \* steps of a turn after which the model stops calling
    MaxSwitches,    \* other credentials and fallback models left in a turn
    MaxDrops,       \* stream drops that fit the retry window
    MaxHits,        \* stream rule hits of a turn
    MaxNotices      \* job notices a turn takes

ASSUME TurnLoopAssumption ==
    /\ Client \in {"tui", "chat", "v1"} /\ Forced \in BOOLEAN
    /\ SafeSigs \subseteq Sigs /\ TodoSigs \subseteq Sigs /\ NoSig \notin Sigs
    /\ CheckSigs \subseteq Sigs /\ RewindSigs \subseteq Sigs \ CheckSigs
    /\ {MaxTurns, MaxCutOffs, MaxHarmony, MaxOverflow, MaxCompactFails, MaxMsgs,
        MaxCalls, MaxSteps, MaxSwitches, MaxDrops, MaxHits, MaxNotices}
         \subseteq Nat
    /\ {DoomThreshold, MaxDoomRefusals} \subseteq Nat \ {0}

VARIABLES
    messages,   \* Session.messages
    mark,       \* Session.checkpoint: how many messages it keeps, 0 for none
    backup,     \* SessionRuntime.session_backup: the session a turn began with
    inbox,      \* SteerInbox: the session's queue of <<mode, message>>
    pending,    \* the client's prompts waiting to be sent: <<mode, message>>
    steered,    \* TUI: prompts handed to the running turn, not yet settled
    typed,      \* how many messages the user has typed
    pc,         \* where the turn is; "over": in its stop hooks, or its outcome
                \* is not read yet; "idle" outside a turn
    outcome,    \* how the last turn ended
    cancel,     \* the cancel flag
    turn,       \* how many turns were started
    t,          \* the counters of run_turn_steps
    calls,      \* the batch: signatures of the reply's calls
    done,       \* results of the batch, in call order
    started,    \* sequential batch: the next call was started
    finished,   \* parallel batch: calls whose future completed, and how
    \* Ghosts: the messages a turn read, in order; calls that completed, with
    \* the schedule of their batch.
    read, ran

clientVars == <<inbox, pending, steered, typed>>
saved == <<mark, backup>>
batchVars == <<calls, done, started, finished>>
vars == <<messages, clientVars, pc, outcome, cancel, turn, saved, t,
          batchVars, read, ran>>

Modes == {"NextStep", "Queue", "Urgent"}

\* The locals of run_turn_steps when a turn begins.
FreshCounters ==
    [steps |-> 0, doom |-> 0, runOf |-> NoSig, runLen |-> 0, cuts |-> 0,
     harmony |-> 0, overflow |-> 0, compactFails |-> 0, switches |-> 0,
     drops |-> 0, hits |-> 0, notices |-> 0, todos |-> FALSE,
     reminded |-> FALSE]

NoBackup == [messages |-> <<>>, mark |-> 0]

\* The end of a turn: what it returns, and to whom.
End(how) == pc' = "over" /\ outcome' = how

\* The id of the i-th call of the reply that was the turn's `step`-th.
CallId(step, i) == <<turn, step, i>>

(***************************************************************************)
(* The user and the client.                                                *)
(***************************************************************************)

\* A prompt is typed; a daemon client that believes a turn is running posts it
\* to the inbox instead (POST /steer), which asks nothing about the turn.
Type(mode) ==
    /\ typed < MaxMsgs
    /\ typed' = typed + 1
    /\ \/ /\ pending' = Append(pending, <<mode, typed + 1>>)
          /\ UNCHANGED inbox
       \/ /\ Client # "tui" /\ turn > 0
          /\ inbox' = Append(inbox, <<mode, typed + 1>>)
          /\ UNCHANGED pending
    /\ UNCHANGED <<messages, steered, pc, outcome, cancel, turn, saved, t,
                   batchVars, read, ran>>

\* Mutant: queued prompts are handed to the turn too.
SteerAll ==
    /\ Client = "tui" /\ pc # "idle"
    /\ pending # <<>>
    /\ inbox' = inbox \o pending
    /\ steered' = steered \o pending
    /\ pending' = <<>>
    /\ UNCHANGED <<messages, typed, pc, outcome, cancel, turn, saved, t,
                   batchVars, read, ran>>

\* The positions of the prompts that wait for a turn of their own, and of those
\* that the running turn may read.
Queued(posts) == {i \in 1..Len(posts) : posts[i][1] = "Queue"}
Steerable(posts) == {i \in 1..Len(posts) : posts[i][1] # "Queue"}

\* steer_or_reclaim while a turn runs: every prompt that is not queued.  The
\* UI still thinks the turn runs when it is over and its outcome is unread.
Steer ==
    LET ready == Pick(pending, Steerable(pending))
    IN  /\ Client = "tui" /\ pc # "idle"
        /\ ready # <<>>
        /\ inbox' = inbox \o ready
        /\ steered' = steered \o ready
        /\ pending' = Pick(pending, Queued(pending))
        /\ UNCHANGED <<messages, typed, pc, outcome, cancel, turn, saved, t,
                       batchVars, read, ran>>

\* A turn is started with the oldest prompt, by a client that has an API key
\* where its provider needs one: without it the TUI warns and drops the prompt.
StartTurn ==
    /\ pc = "idle" /\ pending # <<>>
    /\ messages' = Append(messages, Prompt(Head(pending)[2]))
    /\ backup' = IF Client = "tui"
                 THEN [messages |-> messages', mark |-> mark] ELSE NoBackup
    /\ pending' = Tail(pending)
    /\ steered' = <<>>
    /\ read' = Append(read, Head(pending))
    /\ turn' = turn + 1 /\ t' = FreshCounters
    /\ cancel' = FALSE /\ outcome' = "none" /\ pc' = "hooks"
    /\ UNCHANGED <<inbox, typed, mark, batchVars, ran>>

\* Esc, or DELETE of an SDK run; a daemon chat has no cancel flag.
Cancel ==
    /\ Client # "chat"
    /\ pc \notin {"idle", "over"} /\ ~cancel
    /\ cancel' = TRUE
    /\ UNCHANGED <<messages, clientVars, pc, outcome, turn, saved, t,
                   batchVars, read, ran>>

\* Mutant: what was typed since goes before what the turn did not read.
SettleBehind ==
    /\ pc = "over"
    /\ pc' = "idle"
    /\ pending' = pending \o SubSeq(steered, Len(steered) - Len(inbox) + 1,
                                    Len(steered))
    /\ steered' = <<>> /\ inbox' = <<>>
    /\ UNCHANGED <<messages, typed, outcome, cancel, turn, saved, t,
                   batchVars, read, ran>>

\* Mutant: what the turn did not read is dropped.
SettleDrop ==
    /\ pc = "over"
    /\ pc' = "idle"
    /\ steered' = <<>> /\ inbox' = <<>>
    /\ UNCHANGED <<messages, pending, typed, outcome, cancel, turn, saved, t,
                   batchVars, read, ran>>

\* steer_or_reclaim once the turn is over: as many of the steered prompts as
\* the inbox still held are to be sent first.
Reclaim ==
    /\ pending' = SubSeq(steered, Len(steered) - Len(inbox) + 1, Len(steered))
                     \o pending
    /\ steered' = <<>> /\ inbox' = <<>>

\* force_stop_turn, on a second Esc or after CANCEL_FORCE_AFTER: the turn's task
\* is aborted and the session is the one it began with, unless its outcome has
\* arrived just now.
ForceStop ==
    /\ Client = "tui" /\ Forced
    /\ cancel /\ pc # "idle"
    /\ \/ messages' = backup.messages /\ mark' = backup.mark
       \/ pc = "over" /\ UNCHANGED <<messages, mark>>
    /\ backup' = NoBackup
    /\ pc' = "idle" /\ outcome' = "stopped"
    /\ calls' = <<>> /\ done' = <<>> /\ started' = FALSE /\ finished' = <<>>
    /\ Reclaim
    /\ UNCHANGED <<typed, cancel, turn, t, read, ran>>

\* The client learns that the turn is over.  The TUI takes back as many of the
\* steered prompts as the inbox still held; a daemon chat replays the inbox to
\* its client; an SDK run leaves it.
Settle ==
    /\ pc = "over"
    /\ pc' = "idle" /\ backup' = NoBackup
    /\ CASE Client = "tui" -> Reclaim
         [] Client = "chat" ->
              /\ pending' = pending \o inbox
              /\ inbox' = <<>>
              /\ UNCHANGED steered
         [] Client = "v1" -> UNCHANGED <<pending, steered, inbox>>
    /\ UNCHANGED <<messages, mark, typed, outcome, cancel, turn, t,
                   batchVars, read, ran>>

(***************************************************************************)
(* The top of the loop.                                                    *)
(***************************************************************************)

\* run_prompt_hooks, which Esc does not interrupt: a hook can block the prompt,
\* which stays in the session.
PromptHooks ==
    /\ pc = "hooks"
    /\ (pc' = "top" /\ UNCHANGED outcome) \/ End("error")
    /\ UNCHANGED <<messages, clientVars, cancel, turn, saved, t, batchVars,
                   read, ran>>

\* take_for_turn: queued messages stay.
TakenNow == Pick(inbox, Steerable(inbox))

\* inject_background_completions, inject_steering, the cancel check and the
\* step limit.
Top ==
    /\ pc = "top"
    /\ inbox' = Pick(inbox, Queued(inbox))
    /\ \E jobs \in {<<>>, <<Note("job")>>} :
         /\ t.notices + Len(jobs) <= MaxNotices
         /\ messages' = messages \o jobs \o
                          [i \in 1..Len(TakenNow) |-> Prompt(TakenNow[i][2])]
         /\ t' = [t EXCEPT !.notices = @ + Len(jobs)]
    /\ read' = read \o TakenNow
    /\ CASE cancel -> End("cancelled")
         [] ~cancel /\ MaxTurns > 0 /\ t.steps >= MaxTurns -> End("ok")
         [] OTHER -> pc' = "assemble" /\ UNCHANGED outcome
    /\ UNCHANGED <<pending, steered, typed, cancel, turn, saved, batchVars,
                   ran>>

\* The auto-compaction pass, when the session is over its threshold: native or
\* full-replace; it may leave the session over it.
AutoCompact ==
    /\ pc = "assemble" /\ t.compactFails < MaxCompactFails
    /\ \/ messages' = FullReplace(messages)
       \/ NativeCut(messages) /\ messages' = NativeReplace(messages)
    /\ \E stillOver \in BOOLEAN :
         t' = [t EXCEPT !.compactFails = IF stillOver THEN @ + 1 ELSE 0]
    /\ pc' = "request"
    /\ UNCHANGED <<clientVars, outcome, cancel, turn, saved, batchVars, read,
                   ran>>

\* Under the threshold, or the circuit breaker tripped.  The request is built.
NoCompact ==
    /\ pc = "assemble"
    /\ pc' = "request"
    /\ UNCHANGED <<messages, clientVars, outcome, cancel, turn, saved, t,
                   batchVars, read, ran>>

(***************************************************************************)
(* The request and its stream.                                             *)
(***************************************************************************)

\* Esc while the session is compacted, the stream opens, runs or waits for a
\* retry: a draft's text is kept.
RequestCancelled ==
    /\ pc \in {"assemble", "request"} /\ cancel
    /\ \/ UNCHANGED messages
       \/ pc = "request" /\ messages' = Append(messages, Assistant(<<>>))
    /\ End("cancelled")
    /\ UNCHANGED <<clientVars, cancel, turn, saved, t, batchVars, read, ran>>

\* The provider refuses the request for good, or the retry window is over.
RequestFails ==
    /\ pc = "request"
    /\ End("error")
    /\ UNCHANGED <<messages, clientVars, cancel, turn, saved, t, batchVars,
                   read, ran>>

\* The step is sent again, without counting it: another credential or model, or
\* a dropped stream.
RequestRetried ==
    /\ pc = "request"
    /\ \/ /\ t.switches < MaxSwitches
          /\ t' = [t EXCEPT !.switches = @ + 1]
       \/ /\ t.drops < MaxDrops
          /\ t' = [t EXCEPT !.drops = @ + 1]
    /\ pc' = "top"
    /\ UNCHANGED <<messages, clientVars, outcome, cancel, turn, saved,
                   batchVars, read, ran>>

\* Mutant: one overflow too many is compacted and sent again.
ContextOverflowMore ==
    /\ pc = "request" /\ t.overflow <= MaxOverflow
    /\ t' = [t EXCEPT !.overflow = @ + 1]
    /\ pc' = "overflow"
    /\ UNCHANGED <<messages, clientVars, outcome, cancel, turn, saved,
                   batchVars, read, ran>>

\* The provider says, at once or in its stream, that the context is too long:
\* the session is compacted, which Esc does not interrupt ...
ContextOverflow ==
    /\ pc = "request" /\ t.overflow < MaxOverflow
    /\ t' = [t EXCEPT !.overflow = @ + 1]
    /\ pc' = "overflow"
    /\ UNCHANGED <<messages, clientVars, outcome, cancel, turn, saved,
                   batchVars, read, ran>>

\* ... and the step is sent again.
OverflowCompacted ==
    /\ pc = "overflow"
    /\ \/ messages' = FullReplace(messages)
       \/ NativeCut(messages) /\ messages' = NativeReplace(messages)
    /\ pc' = "top"
    /\ UNCHANGED <<clientVars, outcome, cancel, turn, saved, t, batchVars, read,
                   ran>>

\* check_stream_rules: the draft is discarded and the rule's hint is added.
RuleHit ==
    /\ pc = "request" /\ t.hits < MaxHits
    /\ t' = [t EXCEPT !.hits = @ + 1]
    /\ messages' = Append(messages, Note("rule"))
    /\ pc' = "top"
    /\ UNCHANGED <<clientVars, outcome, cancel, turn, saved, batchVars, read,
                   ran>>

\* Steps in a row cut off at the output token limit.
CutsAfter(limit) == IF ~limit THEN 0 ELSE IF t.cuts < MaxCutOffs THEN t.cuts + 1
                                                               ELSE t.cuts

\* The stream ended in a leak of the harmony protocol: the draft is discarded.
HarmonyLeak(limit) ==
    /\ pc = "request"
    /\ IF t.harmony < MaxHarmony
       THEN pc' = "top" /\ UNCHANGED outcome
       ELSE End("error")
    /\ t' = [t EXCEPT !.drops = 0, !.cuts = CutsAfter(limit),
                      !.harmony = IF @ < MaxHarmony THEN @ + 1 ELSE @]
    /\ UNCHANGED <<messages, clientVars, cancel, turn, saved, batchVars,
                   read, ran>>

\* The ids of the calls of a reply, and the results that answer them.
IdsOf(step, cs) == [i \in 1..Len(cs) |-> CallId(step, i)]
ResultsOf(step, bodies) ==
    [i \in 1..Len(bodies) |-> Result(CallId(step, i), bodies[i])]

\* How long the run of equal signatures is at the end of the recent calls, once
\* `cs` is added; beyond the threshold its length does not matter.
TailRun(cs) ==
    LET last == cs[Len(cs)]
        other == {i \in 1..Len(cs) : cs[i] # last}
        len == IF other # {}
               THEN Len(cs) - Max(other)
               ELSE Len(cs) + (IF t.runOf = last THEN t.runLen ELSE 0)
    IN  <<last, IF len > DoomThreshold THEN DoomThreshold ELSE len>>

\* Mutant: one repetition too many is let through.
WouldDoomLoopLate(cs) ==
    /\ \A i \in 1..Len(cs) : cs[i] = cs[1]
    /\ t.runOf = cs[1] /\ t.runLen >= DoomThreshold

\* would_doom_loop: a batch of equal calls that makes the run too long.
WouldDoomLoop(cs) ==
    /\ \A i \in 1..Len(cs) : cs[i] = cs[1]
    /\ TailRun(cs)[2] >= DoomThreshold

WritesTodos(cs) == ToSet(cs) \cap TodoSigs # {}

\* The reply is complete: it counts as a step and joins the session.
Reply(next) ==
    /\ pc = "request"
    /\ t' = [next EXCEPT !.steps = @ + 1, !.drops = 0]
    /\ UNCHANGED <<clientVars, cancel, turn, saved, read, ran>>

\* An empty reply adds no message.
Said(text) == IF text THEN <<Assistant(<<>>)>> ELSE <<>>

\* Cut off at the output token limit: no call runs, and the model goes on.
ReplyCutOff(text) ==
    /\ t.cuts < MaxCutOffs
    /\ Reply([t EXCEPT !.cuts = @ + 1])
    /\ messages' = messages \o Said(text) \o <<Note("cut off")>>
    /\ pc' = "top"
    /\ UNCHANGED <<outcome, batchVars>>

\* No call (or calls cut off once too often): the turn is over, unless a todo
\* list written in it has open items and the model was not reminded yet.
ReplyFinal(text, limit, openTodos) ==
    /\ limit => t.cuts >= MaxCutOffs
    /\ LET remind == t.todos /\ ~t.reminded /\ openTodos
       IN  /\ Reply([t EXCEPT !.cuts = CutsAfter(limit),
                              !.reminded = @ \/ remind])
           /\ messages' = messages \o Said(text) \o
                            (IF remind THEN <<Note("todos")>> ELSE <<>>)
           /\ IF remind THEN pc' = "top" /\ UNCHANGED outcome ELSE End("ok")
    /\ UNCHANGED batchVars

\* The counters once a batch was run or refused.
Repeated(cs, next) ==
    [next EXCEPT !.runOf = TailRun(cs)[1], !.runLen = TailRun(cs)[2]]

\* Calls that only repeat the last ones are refused, each with a result.
ReplyRefused(cs) ==
    /\ cs # <<>> /\ WouldDoomLoop(cs)
    /\ t.steps < MaxSteps
    /\ Reply(Repeated(cs, [t EXCEPT !.cuts = 0, !.doom = @ + 1,
                                    !.todos = @ \/ WritesTodos(cs)]))
    /\ messages' = Append(messages, Assistant(IdsOf(t.steps + 1, cs)))
                     \o ResultsOf(t.steps + 1, [i \in 1..Len(cs) |-> "doom"])
    /\ IF t.doom + 1 >= MaxDoomRefusals
       THEN End("ok") ELSE pc' = "top" /\ UNCHANGED outcome
    /\ UNCHANGED batchVars

\* Any other calls are run.
ReplyBatch(cs) ==
    /\ cs # <<>> /\ ~WouldDoomLoop(cs)
    /\ t.steps < MaxSteps
    /\ Reply([t EXCEPT !.cuts = 0, !.todos = @ \/ WritesTodos(cs)])
    /\ messages' = Append(messages, Assistant(IdsOf(t.steps + 1, cs)))
    /\ pc' = "batch"
    /\ calls' = cs /\ done' = <<>> /\ started' = FALSE
    /\ finished' = [i \in 1..Len(cs) |-> "none"]
    /\ UNCHANGED outcome

(***************************************************************************)
(* The batch: run_tool_calls.                                              *)
(***************************************************************************)

\* A batch of parallel-safe calls runs at once, any other one call at a time.
Parallel == Len(calls) > 1 /\ ToSet(calls) \subseteq SafeSigs

\* Mutant: any message waits.
UrgentWaitsAny == Len(calls) > 1 /\ inbox # <<>>

\* An urgent message waits, and the batch is one that looks for it.
UrgentWaits ==
    Len(calls) > 1 /\ \E i \in 1..Len(inbox) : inbox[i][1] = "Urgent"

NoBatch == calls' = <<>> /\ done' = <<>> /\ started' = FALSE /\ finished' = <<>>

\* settle_checkpoint_rewind: a second checkpoint, or a rewind without one, is an
\* error.  (Any other result but an error passes for a success.)
Validated(bodies) ==
    [i \in 1..Len(bodies) |->
        IF calls[i] \in (IF mark = 0 THEN RewindSigs ELSE CheckSigs)
        THEN "error" ELSE bodies[i]]

\* The effects those tools have once their results are in the session.
Succeeded(bodies, sigs) ==
    \E i \in 1..Len(bodies) : calls[i] \in sigs /\ bodies[i] # "error"

\* Mutant: the boundary is taken before the results join the session.
MarkedEarly(told, bodies) ==
    IF mark = 0 /\ Succeeded(bodies, CheckSigs)
    THEN Len(told) - Len(bodies)
    ELSE IF mark # 0 /\ Succeeded(bodies, RewindSigs) THEN 0 ELSE mark

\* mark_checkpoint, and the `take` of apply_rewind.
Marked(told, bodies) ==
    IF mark = 0 /\ Succeeded(bodies, CheckSigs) THEN Len(told)
    ELSE IF mark # 0 /\ Succeeded(bodies, RewindSigs) THEN 0 ELSE mark

\* apply_rewind: what follows the checkpoint gives way to the model's report,
\* a user message (0 of those typed).
Rewound(told, bodies) ==
    IF mark # 0 /\ Succeeded(bodies, RewindSigs)
    THEN Append(SubSeq(told, 1, IF mark < Len(told) THEN mark ELSE Len(told)),
                Prompt(0))
    ELSE told

\* Every call of the batch was answered: the results join the session, a
\* checkpoint or a rewind takes effect, the failures are named, and the loop
\* goes on.
BatchSettled(bodies) ==
    LET valid == Validated(bodies)
        told == messages \o ResultsOf(t.steps, valid)
    IN  /\ messages' = Rewound(told, valid) \o
              (IF "error" \in ToSet(valid)
               THEN <<Note("recovery")>> ELSE <<>>)
        /\ mark' = Marked(told, valid)
        /\ t' = Repeated(calls, t)
        /\ pc' = "top"
        /\ NoBatch
        /\ UNCHANGED outcome

\* Mutant: a call without a result stays open.
CloseUnansweredNot ==
    /\ messages' = messages \o ResultsOf(t.steps, done)
    /\ End("cancelled")
    /\ NoBatch
    /\ UNCHANGED t

\* close_unanswered_calls: what finished keeps its result, the rest was not run.
CloseUnanswered ==
    /\ messages' = messages \o ResultsOf(t.steps,
           done \o [i \in 1..(Len(calls) - Len(done)) |-> "not run"])
    /\ End("cancelled")
    /\ NoBatch
    /\ UNCHANGED t

\* skipped_for_urgent: the calls not started yet are answered, none is run.
SkipForUrgent ==
    /\ pc = "batch" /\ ~Parallel /\ ~started /\ ~cancel /\ UrgentWaits
    /\ BatchSettled(done \o [i \in 1..(Len(calls) - Len(done)) |-> "skipped"])
    /\ UNCHANGED <<clientVars, cancel, turn, backup, read, ran>>

\* The next call of a sequential batch, or the only call, is started.
StartCall ==
    /\ pc = "batch" /\ ~Parallel /\ ~started /\ ~cancel /\ ~UrgentWaits
    /\ started' = TRUE
    /\ UNCHANGED <<messages, clientVars, pc, outcome, cancel, turn, saved, t,
                   calls, done, finished, read, ran>>

\* Mutant: the result is only recorded with the whole batch.
FinishCallLate(body) ==
    /\ pc = "batch" /\ started
    /\ ran' = ran \cup {<<CallId(t.steps, Len(done) + 1), "serial",
                         calls[Len(done) + 1]>>}
    /\ IF Len(done) + 1 = Len(calls)
       THEN BatchSettled(Append(done, body))
       ELSE /\ done' = <<>> /\ started' = FALSE
            /\ UNCHANGED <<messages, mark, pc, outcome, t, calls, finished>>
    /\ UNCHANGED <<clientVars, cancel, turn, backup, read>>

\* The call that runs ends, with a result or an error.
FinishCall(body) ==
    /\ pc = "batch" /\ started
    /\ ran' = ran \cup {<<CallId(t.steps, Len(done) + 1), "serial",
                         calls[Len(done) + 1]>>}
    /\ IF Len(done) + 1 = Len(calls)
       THEN BatchSettled(Append(done, body))
       ELSE /\ done' = Append(done, body) /\ started' = FALSE
            /\ UNCHANGED <<messages, mark, pc, outcome, t, calls, finished>>
    /\ UNCHANGED <<clientVars, cancel, turn, backup, read>>

\* Mutant: Esc is only looked at between two calls.
BatchCancelledBetween ==
    /\ pc = "batch" /\ cancel /\ ~started /\ ~Parallel
    /\ CloseUnanswered
    /\ UNCHANGED <<clientVars, cancel, turn, saved, read, ran>>

\* Esc, before a call starts or while it runs; for a parallel batch at any
\* moment until every call has ended.
BatchCancelled ==
    /\ pc = "batch" /\ cancel
    /\ CloseUnanswered
    /\ UNCHANGED <<clientVars, cancel, turn, saved, read, ran>>

\* One call of a parallel batch ends.
ParallelCallEnds(i, body) ==
    /\ pc = "batch" /\ Parallel
    /\ i \in 1..Len(calls) /\ finished[i] = "none"
    /\ finished' = [finished EXCEPT ![i] = body]
    /\ ran' = ran \cup {<<CallId(t.steps, i), "parallel", calls[i]>>}
    /\ UNCHANGED <<messages, clientVars, pc, outcome, cancel, turn, saved, t,
                   calls, done, started, read>>

\* join_all: the turn is polled once all have ended; Esc is looked at first.
ParallelJoined ==
    /\ pc = "batch" /\ Parallel
    /\ "none" \notin ToSet(finished)
    /\ BatchSettled(finished)
    /\ UNCHANGED <<clientVars, cancel, turn, backup, read, ran>>

(***************************************************************************)
(* The specification.                                                      *)
(***************************************************************************)

Init ==
    /\ messages = <<>> /\ mark = 0 /\ backup = NoBackup
    /\ inbox = <<>> /\ pending = <<>> /\ steered = <<>> /\ typed = 0
    /\ pc = "idle" /\ outcome = "none" /\ cancel = FALSE /\ turn = 0
    /\ t = FreshCounters
    /\ calls = <<>> /\ done = <<>> /\ started = FALSE /\ finished = <<>>
    /\ read = <<>> /\ ran = {}

\* The calls a reply can make.
Batches == UNION {[1..n -> Sigs] : n \in 1..MaxCalls}

Bodies == {"ok", "error"}

\* The turn's own steps.
Step ==
    \/ PromptHooks \/ Top \/ AutoCompact \/ NoCompact
    \/ RequestCancelled \/ RequestFails \/ RequestRetried \/ RuleHit
    \/ ContextOverflow \/ OverflowCompacted
    \/ \E limit \in BOOLEAN : HarmonyLeak(limit)
    \/ \E text \in BOOLEAN : ReplyCutOff(text)
    \/ \E text, limit, open \in BOOLEAN : ReplyFinal(text, limit, open)
    \/ \E cs \in Batches : ReplyRefused(cs) \/ ReplyBatch(cs)
    \/ SkipForUrgent \/ StartCall \/ BatchCancelled \/ ParallelJoined
    \/ \E body \in Bodies :
         FinishCall(body) \/ \E i \in 1..MaxCalls : ParallelCallEnds(i, body)

Next ==
    \/ \E mode \in Modes : Type(mode)
    \/ Steer \/ StartTurn \/ Cancel \/ ForceStop \/ Settle
    \/ Step

Spec == Init /\ [][Next]_vars

\* What the scheduler and the provider's timeouts guarantee without a word from
\* the model or the tools: the loop's own steps, and Esc being looked at.
CancelFairness ==
    /\ WF_vars(PromptHooks) /\ WF_vars(Top)
    /\ WF_vars(NoCompact \/ AutoCompact)
    /\ WF_vars(OverflowCompacted)
    /\ WF_vars(RequestCancelled)
    /\ WF_vars(BatchCancelled)

SpecCancel == Spec /\ CancelFairness

\* And, when the tools end too, a turn goes on and its client takes part.
SpecLive == Spec /\ WF_vars(Step) /\ WF_vars(Settle) /\ WF_vars(StartTurn)

(***************************************************************************)
(* Properties.                                                             *)
(***************************************************************************)

Posts == Modes \X (1..MaxMsgs)

\* Every variable has the type its code declares.
TypeOK ==
    /\ ToSet(inbox) \cup ToSet(pending) \cup ToSet(steered)
         \cup ToSet(read) \subseteq Posts
    /\ typed \in 0..MaxMsgs /\ turn \in 0..MaxMsgs
    /\ pc \in {"idle", "hooks", "top", "assemble", "request", "overflow",
              "batch", "over"}
    /\ outcome \in {"none", "ok", "error", "cancelled", "stopped"}
    /\ {cancel, started, t.todos, t.reminded} \subseteq BOOLEAN
    /\ t.doom <= MaxDoomRefusals /\ t.runLen <= DoomThreshold
    /\ t.cuts <= MaxCutOffs /\ t.harmony <= MaxHarmony
    /\ t.overflow <= MaxOverflow /\ t.compactFails <= MaxCompactFails
    /\ mark \in Nat /\ t.notices <= MaxNotices
    /\ Len(done) <= Len(calls) /\ Len(finished) = Len(calls)

\* Outside a running batch every call in the session has exactly one result
\* right behind it, whichever way earlier batches, turns and compactions went:
\* the request of `build_request` never needs its repair.
SessionPaired == pc # "batch" => Accepted(messages)

\* A call that was run to its end is never told to the model as not run, be
\* it Esc, an urgent message or the doom loop guard that ended the batch
\* (run_tool_calls keeps `done` for close_unanswered_calls).
RanIsReported ==
    \A k \in 1..Len(messages) :
        messages[k].role = "tool" /\ messages[k].what \notin Bodies =>
            \A r \in ran : r[2] = "serial" => r[1] # messages[k].id

\* The checkpoint is a place in the session: right behind the results of the
\* batch it was made in, so that a rewind keeps whole batches and all that was
\* said before (mark_checkpoint keeps an index, which a restored backup, a later
\* batch or a compaction can outdate).
MarkInSession ==
    mark # 0 =>
        /\ mark <= Len(messages) /\ messages[mark].role = "tool"
        /\ mark < Len(messages) => messages[mark + 1].role # "tool"

\* Calls skipped for an urgent message: the model's next reply has read a
\* message of the user behind the results that say so.
SkippedForAMessage ==
    \A k, n \in 1..Len(messages) :
        /\ k < n /\ messages[k].role = "tool" /\ messages[k].what = "skipped"
        /\ messages[n].role = "assistant"
        => \E j \in k..n : RealUserTurn(messages[j])

\* Where a message is between the keyboard and the session.
Places(m) ==
    {<<"pending", i>> : i \in {i \in 1..Len(pending) : pending[i][2] = m}}
      \cup {<<"inbox", i>> : i \in {i \in 1..Len(inbox) : inbox[i][2] = m}}
      \cup {<<"session", i>> : i \in {i \in 1..Len(messages) :
                RealUserTurn(messages[i]) /\ messages[i].what = m}}

\* A typed message is in exactly one place: never lost by the hand-over to the
\* turn or the reclaim after it, never sent twice (steer_or_reclaim counts what
\* the inbox still holds, it does not look which messages those are).  Without
\* a compaction or a rewind, which replace messages.
SentOnce == \A m \in 1..typed : Cardinality(Places(m)) = 1

\* Messages that are not queued reach the session in the order they were typed,
\* across steps, turns and reclaims.
ReadInOrder ==
    \A i, k \in 1..Len(read) :
        i < k /\ read[i][1] # "Queue" /\ read[k][1] # "Queue" =>
            read[i][2] < read[k][2]

\* A turn whose model makes one and the same call again and again runs fewer
\* than DoomThreshold of them, however they are grouped in replies, and never
\* needs MaxSteps, the bound of the instance, to end.
RepeatsStopped ==
    /\ Cardinality({r \in ran : r[1][1] = turn}) < DoomThreshold
    /\ t.steps < MaxSteps

\* Esc ends the turn, whatever the provider and the tools do (or never do).
CancelEnds == cancel ~> (pc \in {"over", "idle"})

\* Every message is read in the end, in the running turn or in the next one.
EveryMessageRead ==
    \A m \in 1..MaxMsgs :
        (typed >= m) ~> (\E i \in 1..Len(read) : read[i][2] = m)
=============================================================================
