# A TLA+ verification of whycodes

whycodes is a coding agent: a terminal UI, a daemon and a command line around
one Rust core that runs *turns* (a loop of model requests and tool calls on a
session), keeps shell jobs in the background, compacts and repairs
transcripts, undoes turns, calls tools of MCP servers and splits work among
swarms of workers. This directory models that core, checks the
models with TLC on small instances, and proves with TLAPS, for instances of any
size, every safety property that TLC checks.

## 1. The system

| Part | State | Operations | Talks to |
|---|---|---|---|
| Turn loop (`agent/src/agent/turn.rs`) | counters of a turn (steps, refusals, cut-offs, retries), the session it owns | one step: read the inbox, compact, request, stream, retry, run the calls, settle | inbox, registry (notices), provider, tool batches |
| Tool batches (`agent/src/agent/gate.rs`) | results so far | run one call, all at once or one after the other; skip for an urgent message; stop on cancel | turn loop, inbox |
| Steering inbox (`agent/src/steer.rs`) | a queue of messages per session | `push_mode`, `take_for_turn`, `has_urgent`, `drain` | TUI, daemon chat, SDK runs, turn loop |
| Clients (`tui/src/run/mod.rs`, `server/src/routes.rs`, `server/src/v1.rs`) | prompts to send, prompts handed over, cancel flag, session backup | start a turn, steer, cancel, force a stop, apply the outcome | turn loop, inbox |
| Background jobs (`agent/src/background.rs`, `agent/src/agent/dispatch.rs`) | listed jobs; per job a status, flags, pid, task, child process | start, detach, read, wait, kill, notify, prune, tear down | turn loop, UI, timers, the operating system |
| Transcript (`session/src/session.rs`, `session/src/pairing.rs`) | the list of messages | add, repair for a request, full-replace and native compaction, checkpoint and rewind | turn loop, history |
| Undo history (`session/src/history.rs`) | undo and redo stacks of prefixes of shared logs | record before a turn, undo, redo, clear, collect | TUI |
| Daemon (`server/src/lib.rs`, `routes.rs`, `v1.rs`, `perm.rs`, `keep_warm.rs`) | sessions in memory behind a mutex each, stored sessions, cancel flags, event senders and open asks, by session | create, load, evict, run, chat, rewind, cancel, ask, answer, time out, keep alive | turn loop, HTTP clients, database |
| MCP client (`agent/src/mcp_load.rs`, `tui/src/run/mcp_defer.rs`, `mcp/src`) | the load in two stages, tools per session, one locked connection per server | connect, install, call, read, cancel | servers, TUI, turns |
| Swarm (`agent/src/agent/dispatch.rs`, `subagent.rs`, `worker_cancel.rs`, `swarm_worktree.rs`, `core/src/file_claims.rs`, `swarm_hub.rs`) | workers, permits, claims of files, worktrees, cancel requests, mail | start, step, claim, write, send, join, merge, cancel | turn loop, git, UI |
| Permission gate, speculative reads (`agent/src`) | rules, early reads | allow, ask, deny; start, take, abort | turn loop, UI |
| LLM transport, LSP, storage, auth, tools, TUI rendering and the rest | connections, caches, files | | the outside |

What is hard to test here: the turn's task, the UI, the tasks of the jobs and
of scheduled commands, and HTTP handlers all run concurrently and share
queues, flags and a registry; Esc can come at every await; messages typed
during a turn change hands three times; every retry restarts a step in the
middle; transcripts are cut by four different mechanisms while a provider
refuses any request in which a call and its result do not match; undo
entries share memory; requests to the daemon share a session that can leave
memory between them; MCP servers answer late, or never; and workers write files
that others, and the user, write too. The `hazards` of `PROJECT.json` list these places line by
line, with the property that watches each.

What makes each part correct: no message of the user is lost, doubled or
reordered; a call that ran is never reported as not run; a request always
pairs up; Esc always ends the turn; a turn cannot loop for ever by itself; the
end of a job reaches the model exactly once; a kill takes effect; undo
restores exactly what was; a tool runs on the user's word only; no turn of a
session overlaps another or is lost; a call gets its own answer; no worker
replaces what another wrote under a claim, or what the user wrote, as far as it
is seen; and whatever waits comes back.

## 2. The modules

| Module | Models |
|---|---|
| `Background` | the job registry and everything that uses it |
| `Selection` | elements of a list at given positions (`Pick`), which `retain` and `filter` come to in the code |
| `Transcript` | messages, `paired_messages`, the two compactions (operators only) |
| `TurnLoop` | turn loop, tool batches, inbox, checkpoint and rewind, and the three clients; extends `Transcript` |
| `UndoStacks` | abstract: what /undo and /redo promise |
| `History` | the shared logs, shown to implement `UndoStacks` |
| `Daemon` | sessions, runs, chats, rewinds, asks and keep-alives of `whycodes serve` |
| `Mcp` | loading MCP servers and calling their tools |
| `Swarm` | a `swarm` call, its workers, their files and their cancellation |
| `Background_proofs`, `TurnLoop_proofs`, `History_proofs`, `Daemon_proofs`, `Mcp_proofs`, `Swarm_proofs` | theorems about the module of that name |
| `Transcript_proofs` | lemmas about the operators of `Selection` and `Transcript` |
| `MCTranscript_proofs` | theorems about every list of messages, from these lemmas |
| `MCBackground`, `MCTranscript`, `MCTurnLoop`, `MCHistory`, `MCDaemon`, `MCMcp`, `MCSwarm` | instances for TLC |

`TypeOK` of a module gives the types of its variables. It is proved for
`Background`, `TurnLoop`, `History`, `Daemon`, `Mcp` and `Swarm`, and checked in
a run where it says more than types: in `Background` and in `TurnLoop` (the
limits of the retries).

`Pick(s, P)` is what `SelectSeq` would be for a test of positions. The provers
know nothing of `SelectSeq`; `Pick` is written with a cardinality, so that its
length, its elements and their order can be proved (`PickIs`).

Operators whose comment starts with "Mutant" are plausible bugs in the
definition that follows them. No specification uses them; `PROJECT.json` says
which property each one breaks.

### Background

An action is one critical section: what the code does under one hold of the
mutex of a job or of the job list. `start_shell` is two of them (`AgentStart`
or `SchedCheck` counts, `AgentInsert` or `SchedInsert` inserts and prunes); a
foreground `bash` is the path `fgArm` (the `Notified` future is registered),
`fgRead`, `fgParked`, `fgMark`, `fgOutput`, left early by `FgDetach` (20 s, then
the job runs on) or `FgAbandon` (Esc). A job's task goes through `spawn`,
`setPid`, `poll`, `clearPid`, `drain`, `finalize`. `ProcExit` is the operating system.
`known` is a history variable: the ends the model was told of. Output text,
logs, labels and the byte limit are left out.

### Transcript

A message keeps its role, the ids of the calls it makes or the call it
answers, and who wrote it (the user, the agent itself, a compaction).
`PairedMessages` is the walk of `paired_messages` with its open calls and its
leniency towards calls without an id (`Walk`, a recursive function). `Accepted` says, without the walk, what
strict providers ask: every call is answered once, right behind its message,
and no result is unasked for. Of the user's message `apply_full_replace` keeps the
text; `Wordless` are the contents without one (images only). The TUI adds a text
to pasted images and the daemon posts texts, so `TurnLoop` runs without such
messages; `MCTranscript`, which has whatever was loaded, has one.

### TurnLoop

`pc` is the await the turn is at: `hooks` (prompt hooks), `top` (inbox, cancel
check, step limit), `assemble` (hygiene and auto-compaction), `request`
(opening, streaming, waiting for a retry), `overflow` (compacting after a
context overflow, which Esc does not interrupt), `batch`, and `over` (stop
hooks run, or the client has not read the outcome). `t` holds the locals of
`run_turn_steps`. What the provider, the tools, the token counts and the hooks
answer is a choice. A batch of parallel-safe calls has one action per call
that ends and one for `join_all`; any other batch starts and ends its calls one
by one. `BatchSettled` is all that follows a batch in the code: validation of
`checkpoint` and `rewind`, the results, their effects, the recovery note.

`Client` selects who runs the turn. The TUI steers what was typed (`Steer`),
takes back what was not read (`Reclaim`), and can force a stop, which restores
the backup unless the outcome is already in the channel. A daemon chat replays
the inbox to its client when the turn ends; an SDK run does not. Clients of
the daemon post to the inbox whenever they like.

The rewriting of tool results in place (truncate, spill, prune, shake) changes
neither ids nor roles, so `TurnLoop` leaves it out; `History` has it
(`Rewrite`), because there it changes what entries share. The run of equal
signatures (`runOf`, `runLen`) stands for the last sixteen signatures: the
guard only asks for the run at their end.

### History

`stores` are the logs by id, `undo_stack` and `redo_stack` hold pairs of a log
and a length. `Record` is `capture` (extend the newest log when nothing that
stays reads past the shared part, else start a new one), the change of the
stacks, and `gc`. Between turns the transcript is appended to, rewritten and
compacted at will. The refinement mapping reads every entry with
`messages_of`. The snapshot of the working tree is left out.

### Daemon

A request is a process: `Post` (`load_or_get_session` looks in memory), `Load`
and `InsertSession` (read from the database, put in memory), `RegisterCancel`
and `RegisterRun` (an SDK run), `Enqueue` and `BeginTurn` (the fair mutex of
the session), `EndTurn`, `Save`, `TakeCancel`, `FinishRun`, `StreamEnd`. A chat
has neither flag nor asks; a rewind is one critical section. What a session
holds is the list of the requests whose turns it has. An ask is entered
(`AskUser`), shown (`Emit`), decided by the user, and then answered or, when
its time is up, expired and removed in two steps, as in the code. `Evict` is
`evict_idle_sessions` for one session: everything idle long enough may go at
any time. `WarmTick` and `WarmRecord` are the two halves of a keep-alive.
`HasDb` says whether the daemon has a database at all; a save may fail with
one too. `allowed`, `rewound` and `raced` are history variables. What the turn does
between its asks is `TurnLoop`'s subject.

### Mcp

`stage` is the value of `PendingMcp`: the load that is being made or is ready.
`Poll` installs it when no session is busy, `StartTurn` (`wait`) whoever else
is. The second load is registered client by client (`LockNext`), each behind the
calls that hold it or wait for it (`ahead`). A load whose task panics installs
nothing more (`LoadPanics`). A call queues for the client (`CallTool`), writes
(`SendRequest`), and reads lines until its own (`ReadLine`); a call over SSE also
ends with its POST or its deadline (`CallCut`). The pipes of a stdio server have
room for `InCap` and `OutCap` lines. Esc drops a call anywhere (`Cancel`); a
write or a read in progress, the answer to a server's ping included, is then cut,
and the pipe keeps a piece of a line.
The server is external: it answers in any order, talks by itself, dies, and
does not read while its output is full. A line keeps what its reader
distinguishes: an answer with its id, a notification, a request, a piece, an
error without an id.

### Swarm

`worktrees` chooses the mode for the behaviour. `StartSwarm` is
`execute_swarm_tool` up to the spawns, `Join` one round of its last loop,
`Return` its report; `Esc` drops the call, and the workers go on.
A worker goes through `permit`, `step` (cancel and step limit), `request`,
`write`, `close` (after `finish`, before its claims go), `done`. Ids of workers
are the same in every call, as in the code, and `cancels` is shared by all
calls, while `claims` and `inbox` belong to one. A file holds what HEAD has,
nothing, the user's text or the text of a worker. A file tool claims before it
writes (`ClaimFile`, `WriteFile`); a file below a link has two names, and the
registry tells them apart while it is not there (`ClaimKey`). A shell command
writes without a claim (`Shell`). A merge goes file by file through what
`git status` lists by name (`Changed`): it reads the file three times and
compares (`MergeRead`), then writes (`MergeWrite`), and the user may edit in
between; `git show` of a file that HEAD has is taken to work. `hidden` are
changes of a worktree that `git status` does not list (renamed away, committed),
`odd` the files that git ignores or quotes. `wrote`, `edited`, `overtaken`, `asked`
and `overlapped` are history variables.

## 3. The runs

| Run | Shows | Bounds |
|---|---|---|
| `background_safety` | ends are never lost nor told twice, one terminal event, final statuses, no lost wakeup, the soft cap | 2 jobs, cap 1, 1 schedule, nothing retained: two starters meet at the cap, every insertion prunes; jobs and schedules are symmetric |
| `background_live` | a foreground `bash` returns when its job ends, a kill ends in a reaped process | the same without schedules; symmetry is not sound for liveness, so one id is always handed out first (`FirstIdFirst`): every behaviour is one of these but for the names of its jobs |
| `transcript` | repair yields accepted requests, is the identity exactly on accepted transcripts, is idempotent; compactions keep pairs, keep the text of the user's last message and settle | every list of up to 5 messages over 2 ids, calls and results without an id and images without a text included |
| `turn_daemon` | messages neither lost nor doubled, and skipped calls followed by the message, for a daemon chat; the doom loop guard bounds repeated calls | 2 messages, posted at any moment; threshold 3 as in the code and 2 refusals, one call repeated in batches of 1 or 2, up to 6 steps, of which the guard needs fewer |
| `turn_retry` | the session pairs up outside a batch, the limits of all retries, a cancel ends the turn | one SDK run, step limit 2, one leak, overflow, compaction failure, cut-off, switch of provider, dropped stream, rule hit and refusal each |
| `turn_cancel` | Esc ends the turn; what ran is not reported as not run; a checkpoint stays at the end of its batch and a rewind keeps whole batches | 1 message, 2 steps of 1 or 2 calls (parallel reads, checkpoint, rewind), each failing or not, forced stops, a job notice |
| `turn_live` | messages are never lost, doubled or reordered, and every one is read in the end | TUI, 3 messages in 3 modes typed at every moment, Esc, one dropped stream, one tool call per turn |
| `history` | the shared logs implement `UndoStacks`; logs are collected | depth 2, transcripts of up to 3, 4 logs |
| `daemon_asks` | a tool runs on the user's word only; no ask outlives the runs of its session | 1 session, 2 SDK runs, 2 asks (a tool or a question), answers, timeouts and cancels in every order, without a database (no eviction: `daemon_store` has it); runs are symmetric |
| `daemon_store` | turns of a session do not overlap, no finished turn is lost, every request is answered to its end | 1 session, a database, a run with its keep-alive and a chat or a rewind; saves fail, runs panic, sessions are evicted and loaded again |
| `mcp` | own answers, the two installs add up; calls come back, and the load comes to its end behind them | a stdio server with one line of its own and an SSE server, pipes of one line, 2 sessions; two calls of the first server or one of each (`TwoCalls`), of which one may be cancelled, late or cut off |
| `swarm` | one writer per file, as far as claims go; merges replace nothing they could see, and what is listed is merged; cancels hit their worker; call and workers end, those of a call that Esc left too | 2 workers with one tool call each: in one checkout, of one call or of two calls that use the same id, with 1 file of two names; in worktrees, of one call and without mail, with 1 file and one edit of the user at any moment (`WithWorktrees`). Files do not interact in a merge, and claims make nobody wait |

`FirstIdFirst`, `TwoCalls` and `WithWorktrees` are TLC constraints. What they leave
out are steps that no fairness asks for (which id a job gets, a call, an edit), or
that have a twin without the mail, so no behaviour that could refute a liveness
property is cut short by them.

No run takes much more than a minute on two cores. What a bound leaves out (a third
request behind a torn line in `mcp`, a second turn in `turn_retry`, asks of
sessions that are evicted in `daemon_asks`) the theorems of section 5 cover, as
far as it is safety.

The limits of the code are constants; the runs make them small (0 to 3) so
that being at a limit and beyond it happens. `MaxMsgs`, `MaxCalls`,
`MaxSteps`, `MaxSwitches`, `MaxDrops`, `MaxHits`, `MaxNotices`, `MaxLen`,
`MaxStores`, `MaxAsks`, `MaxReqs`, `MaxNoise` and `MaxWorkers` exist only to
bound the instances. Deadlock is not checked: when the messages, the jobs, the
requests or the length of the list are used up, nothing is left to do.

Some behaviours that a reader of the code or its documents may not expect are
in the models, and no property calls them wrong:

- a job killed with `/bg kill` is marked delivered (`UserKill`), so the model
  is not told, though `docs/tools/bash.md` says that ends arrive as messages;
- `bash` and `wait` mark a job delivered and then read its output
  (`FgMark`, `WaitMark`): a scheduled command inserted in between can prune it;
- a kill between the reaping of a child and the clearing of its pid signals
  the old pid (`TaskReap`, `TaskClearPid`);
- a forced stop restores the session the turn began with (`ForceStop`), so
  calls that ran and messages that were read leave no trace in it;
- `inject_steering` comes before the step limit (`Top`): a message taken at the
  step that is refused gets no answer in that turn;
- the end of an SDK run does not drain the inbox, and a post to a daemon chat
  that comes after its replay stays there (`Settle`, `Type`), until a later
  turn of the session reads it;
- a step that a stream rule restarts is not counted (`turn.rs:796`), so
  `max_turns` does not cap such restarts, though
  `docs/internals/turn-loop.md:470` says that it does; `MaxHits` bounds them in
  the instances;
- a compaction moves the messages and leaves the index of a checkpoint alone
  (`session.rs:1929`), so a later rewind cuts elsewhere, though
  `docs/tools/rewind.md:6` says that it drops what came after the mark.
  `MarkInSession` is checked where no compaction intervenes;
- a `checkpoint` or `rewind` that was skipped for an urgent message takes
  effect, because the result of a skipped call is no error (`gate.rs:78`,
  `agent/mod.rs:276`);
- without an API key, for a provider that needs one, the TUI takes the prompt
  from its list, warns and drops it (`tui/src/run/mod.rs:2186`). `StartTurn`, and
  with it `SentOnce` and `EveryMessageRead`, is about a configured client;
- a full-replace compaction drops a last message of the user that has only
  images (`FullReplace`), and the next one, which then finds no message of the
  user, drops what the first one kept behind it; of a message with a text and
  images it keeps the first text;
- two requests that load one session at once get a handle each (`Load`,
  `InsertSession`): their turns run side by side and the later save wins;
- two SDK runs of one session share a flag and a sink by its id. The first
  that ends takes both, and refuses the asks of the other (`TakeCancel`,
  `FinishRun`): a cancel of the other is then answered with 404;
- "allow always" for an ask that has timed out is still recorded (`Decide`);
- where a panic unwinds (a release build aborts, `Cargo.toml`), a run that
  panics keeps its sink, so its stream ends only after another run of the
  session has begun (`StreamEnd`);
- a stdio call to an MCP server has no time limit; Esc in the middle of a
  write leaves a piece of a line, and the next call is not answered; and with
  both pipes full client and server wait for each other (`Cancel`, `Blocked`).
  `LoadEnds` and `CallsReturn` are stated for behaviours without these two
  (`PipesFlow`);
- the second load locks every client that is connected, so a stdio call that
  is never answered holds back the tools of the slower servers until Esc
  (`LockNext`), though the comment at `mcp_load.rs:233` says that one hung server
  no longer holds back the others, which is so while they connect. `LoadEnds`
  assumes that servers that live answer;
- a turn that starts installs a load that is ready, and a session that is
  busy then does not get its tools (`StartTurn`, `Install`);
- after Esc the workers of a `swarm` go on, with their own claims and under ids
  that the next call uses again: they may write the files of the next call's
  workers, and the end of one takes the cancel entry of the other (`Esc`,
  `Ends`);
- shell commands of workers in one checkout take no claim (`Shell`;
  `docs/internals/permission-gate.md:369` says so), so two workers can write one
  file with them. `OneWriter` is about file tools;
- a new file below a symbolic link has one key by each name until it is there
  (`ClaimKey`), and two workers that name it differently both get it;
- when `git status` fails in a worktree, the worker counts as a success, its
  section of the report has a note, and the worktree is removed (`Join`);
- of a file renamed with `git mv` the merge takes the new name only, so the old
  file stays; names that git quotes, files that it ignores and what a worker
  commits in its worktree are not merged (`Changed`). No conflict is reported for
  any of them;
- an edit of the user between the reads of a merged file and the write is
  replaced (`MergeRead`, `MergeWrite`, `overtaken`).

## 4. Fairness

`background_live` assumes weak fairness of the agent's steps inside a tool, and
of each job's task together with its pending event: tokio polls what can run,
and no lock is held across an await. Nothing is assumed of child processes,
deadlines, the user or the model.

`turn_cancel` and `turn_retry` assume weak fairness only of what the loop does by itself
(prompt hooks, which have a timeout; the top of the loop; compaction, whose
request has a timeout) and of the `select!` branches that look at the cancel
flag. Neither the provider nor a tool has to answer.

`turn_live` assumes weak fairness of the turn as a whole, of the client reading
the outcome and of it starting the next turn. That includes that tools end and
that the model stops calling in the end, which the code does not guarantee in
an interactive session: the run shows what steering adds, not that models
stop.

`daemon_store` assumes weak fairness of each request's handler and task and of
each ask: tokio schedules them, the session's mutex is a fair queue, the time
of an ask runs out (300 s, or the limit of questions, which is on by default
and which `tools.question.timeout_enabled` can turn off), and a turn that is not
waiting ends, which is what `turn_cancel` and `turn_retry` are about. Nobody has
to answer an ask or to cancel.

`mcp` assumes weak fairness of the load (each start has a
limit, the UI polls, a lock that is free is taken), of calls, of turns, and of
servers that live: they read and answer. `swarm`
assumes it of the parent's joins and merges and of each worker: tasks are scheduled,
requests and tools end, and the semaphore is first in, first out. Esc and
cancels are never assumed. No strong fairness is assumed anywhere.

## 5. The proofs

Each safety property of section 3 is a theorem. The runs check it on a small
instance, the theorems hold for every value of the constants that satisfies
the named assumptions of the modules (`BackgroundAssumption`,
`TurnLoopAssumption`, ...) and the hypotheses below. The bounds that exist for
the instances only (`MaxMsgs`, `MaxSteps`, `MaxCalls` and so on) are arbitrary
numbers in the theorems.

| Theorem | Property | Hypotheses beyond the module's |
|---|---|---|
| `Background_proofs`: `TypeCorrect`, `EndsReachTheModel`, `EventsOnce`, `NoticesOnce`, `WakeupsKept`, `EndsAreFinal`, `CapIsSoft` | `TypeOK`, `EndNeverLost`, `OneTerminalEvent`, `NoSecondNotice`, `NoLostWakeup`, `EndIsFinal`, `SoftCap` | |
| `MCTranscript_proofs`: `RequestsAccepted`, `RepairsOnlyWhenNeeded`, `CompactionPairs`, `CompactionIsSettled` | `RequestAccepted`, `RepairOnlyWhenNeeded`, `CompactionKeepsPairs`, `CompactionSettles` | |
| `TurnLoop_proofs`: `TypeCorrect`, `RunsAreReported`, `SkippedCallsAreRead` | `TypeOK`, `RanIsReported`, `SkippedForAMessage` | |
| `CheckpointStays`, `CallsArePaired` | `MarkInSession`, `SessionPaired` | `MarksStayValid`: no tool makes checkpoints, or nothing is compacted |
| `MessagesInOrder` | `ReadInOrder` | `Client = "tui"` |
| `MessagesSentOnce` | `SentOnce` | `NothingUndone`: no forced stop, compaction or rewind |
| `RepeatsAreStopped` | `RepeatsStopped` | `OneCall`: one signature; `StepLimit < MaxSteps` |
| `History_proofs`: `Refinement`, `TypeCorrect`, `LogsStayBounded` | `ImplementsStacks`, `TypeOK`, `LogsBounded` | |
| `Daemon_proofs`: `TypeCorrect`, `AsksApproved`, `SessionsSerialize`, `TurnsKept` | `TypeOK`, `ApprovedByUser`, `TurnsSerialize`, `NoTurnLost` | |
| `AsksEndWithRuns` | `NoAskOutlivesRuns` | `~Panics`: release builds abort on a panic |
| `Mcp_proofs`: `TypeCorrect`, `InstallsComplete`, `AnswersMatch` | `TypeOK`, `InstallsAddUp`, `OwnAnswer` | |
| `Swarm_proofs`: `TypeCorrect`, `OneWriterAtATime`, `MergesLoseNothing`, `CancelsHitTheirWorker` | `TypeOK`, `OneWriter`, `MergeLosesNothing`, `CancelHitsItsWorker` | |

The hypotheses are not for the provers' sake: without them the properties are
false of the code, or meaningless. A compaction outdates a checkpoint, and the
rewind to it may then cut a call from its result (section 3). A message posted
to a daemon's inbox overtakes prompts that wait for a turn of their own. What a
forced stop, a compaction or a rewind removes from the session is no longer in
it. The doom loop guard looks for one signature, repeated; and a `MaxSteps` that
stops the turn before the guard could would make the bound on its steps say
nothing.

### Background

None of the invariants is inductive by itself: a kill and the job's own task
write the same status, so whether an event is still to come, or whether
`finalize` may overwrite, depends on where the task is. `IInv` adds `JobInv`
(which statuses, exit values and flags a job can have at each place of its
task, and that nothing is delivered or known before the end), `AgentInv` (the
job the agent holds was handed out, is one that ended where its end is being
reported, and a waiter that may sleep is registered) and `EndInv` (the per-job
form of the properties). One lemma per conjunct of `IInv` goes through the
actions one by one. `CapIsSoft` counts the running jobs, the one the agent is
about to insert and the commands that have fired (`SlotInv`); it needs the cardinality theorems
of `FiniteSetTheorems` and is an induction of its own on top of `IInv`.

### Transcript

`Transcript_proofs` states facts about lists, without a state. `Accepted` is
closed under putting lists together and under cutting before a message that is
no result; from that both compactions keep it, and `PickIs` gives what they
return. For the repair, an invariant of the walk (`WalkInv`): its output is an
accepted list followed by an unfinished end (`Partial`), which is nothing, a
user's message, or a message with calls and some of their results, and the open
calls are exactly the ones of that message without a result. Closing them
completes the end (`CloseAccepted`); every message keeps the invariant
(`PairStepInv`). On an accepted list a second invariant (`SameInv`) says that the
output is the input so far: nothing is open where anything but a result comes,
and every result is owned. The lemmas ask that the calls of one message have
different ids (`Sound`), which `MCTranscript`'s messages have.

The library's induction theorems cannot be instantiated here. The proofs that
need induction over the length of a list or over a set of numbers take a least
counterexample instead (`SmallestNat`, from the well-foundedness of `<`), in the
form `CountUp`: a set of numbers that has 0, and has k + 1 when it has k < l,
has all numbers up to l.

### TurnLoop

`Base` is what everything else stands on: where prompts are (`PostInv`: in the
TUI the inbox is the end of what the turn was steered with, and is empty when
no turn runs), the control state with its counters (`ControlInv`) and the
session (`SessionInv`: in a batch the last message is the reply being answered).
The specification has 27 actions, and many of them differ only in what they do
to counters. They are therefore sorted once by what they do to the
session (`SessionKinds`: nothing, messages added, compacted, a call run, a batch
answered, rewound, put back) and once by what they do to the counters of a
turn (`LoopKinds`); the invariants below are then shown for each kind.

- `RanInv` (`RanIsReported`): ids in the session and in `ran` are of calls made
  in the past, in order of turn and reply, and those of the running batch are
  not in the session yet; so the results a batch adds can contradict no run but
  its own, of which the ones that ended are in `done`.
- `SkipInv` (`SkippedForAMessage`): skipped calls are followed by a message of the
  user, or the loop is at its top, the model has not replied and an urgent
  message waits in the inbox.
- `MarkInv` (`MarkInSession`) and `PairInv` (`SessionPaired`) are about the backup
  too, since a forced stop puts it back; a rewind cuts right behind a batch,
  which is why the pairs need the mark.
- `OrderInv` (`ReadInOrder`): what was read, what is in the inbox and what waits,
  put together, is in the order of typing.
- `SentInv` (`SentOnce`) counts the places a message is in: session, inbox and
  prompts have it once altogether when it was typed, and never otherwise.
  The order in which the parts pass it on drops out.
- `RepeatsInv` and `StepsInv` (`RepeatsStopped`): the runs of the turn are at most
  the repetitions counted, and every reply that does not end the turn uses up
  a repetition, a refusal, the reminder, a leak, or a place in a row of cut-off
  replies; so a turn takes at most `StepLimit` steps.

### History

`HistoryInv`: every entry reads a log that is kept and reads no further than it
goes (`EntriesInv`), no log is kept but those and the newest (`LogsInv`), and the
entries respect the depth (`DepthInv`). The refinement then takes each operation
of `History` to one of `UndoStacks`, or to a stutter: `capture` extends or cuts
the newest log only beyond what the entries that stay read of it.

### Daemon

`TurnsSerialize` and `NoTurnLost` are about sessions that are evicted and loaded
again. They need to know which handle every request has at each place
(`PlaceInv`), that a handle is of one session for ever (`HandleOf`), and that a
session that was never loaded twice at once has one handle, the one in the
table, and does not change in the database while it is loaded (`SingleInv`).
The asks need that a reply "yes" and an "always" were given by the user
(`AskInv`), and that a listed ask is one of a run that has not finished
(`PendingInv`).

### Mcp

`LoadInv` ties the reports and the tools of the sessions to the stage of the
load: servers installed so far, each failed one reported once, no tools of
others. `WireInv` is about the calls. Per server the sessions in the queue for
its client are those with a call of it, each once, and only the first has sent
its request (`QueueOf`), so no two read from one server; there are ids for the
calls that have not sent theirs (`IdsLeft`); and every request has an id below
the next one and is in one place at most, on its way, with the server or on its
way back (`Sound`). The lemmas about `Sound` say what may happen to the lines of
one server, without a state; one lemma per action then uses the one that fits.
`OwnAnswer` follows: the answer that ends a call is the last trace of its
request, whatever was cancelled, torn or timed out before.

### Swarm

`SwarmInv`: a worker that has not begun has done nothing, the workers of a call
are numbered without a gap and joined in order (`TeamInv`), in one checkout a
running worker still claims what it wrote (`ClaimInv`), a request to stop is
known for every running worker of its id (`CancelInv`). For the merges
(`MergeInv`): a file the user edited never looks like HEAD again; what is about to
be written looked like HEAD when it was compared, so it is no file of a worker
joined before, nor the user's unless edited since; and of the worktree that is
being merged everything listed is in the main checkout but what is left to do.

### Only model-checked

Liveness: `FgReturns`, `KillTakesEffect`, `CancelEnds`, `EveryMessageRead`,
`StreamsEnd`, `LoadEnds`, `CallsReturn` and `SwarmReturns`. Fairness and ENABLED
are out of the prover's reach. Everything else that a run checks is proved.

## 6. Not modelled

Rendering, input and layout; HTTP, wire formats and authentication; the
contents of prompts, results and summaries; providers' retry policy, response
cache and first-token race; the classification of shell commands; sandboxes;
search, index and memory; SQLite. They are I/O or pure data handling, and the
models take their outcomes as choices. `PROJECT.json` lists each with its
reason.

## 7. Plan

1. `TurnOutcome`: the channel between the turn's task and the TUI, with a task
   that finishes after its abort.
2. `Permissions`: the gate of one call with remembered answers, asks and
   headless denial, over the broker of the UI.
3. `Summary`: the summary prepared ahead of a compaction and its freshness
   test, with undo and new turns; `Failover`: credentials and fallback models.
4. The session store with its branches; `SpeculativeReads`; the `task` tool, stale
   marks and `/tell` in `Swarm`; streamable HTTP and reconnection in `Mcp`.
