------------------------------- MODULE Swarm --------------------------------
(***************************************************************************)
(* The `swarm` tool: one call starts several workers and waits for them    *)
(* (crates/agent/src/agent/dispatch.rs).  A worker is a spawned task that  *)
(* runs its own loop of requests and tools (agent/src/subagent.rs), in a   *)
(* git worktree that the parent merges back (agent/src/swarm_worktree.rs), *)
(* or in the main checkout under file claims (core/src/file_claims.rs).    *)
(* Workers send each other and the parent mail (core/src/swarm_hub.rs),    *)
(* and the user cancels one of them (agent/src/worker_cancel.rs) or, with  *)
(* Esc, the call; its workers then go on by themselves.                    *)
(*                                                                         *)
(* Concurrent are the parent, the workers and the user.  A worker makes    *)
(* one tool call per step.  Reads, stale marks, `/tell`, the mail from     *)
(* worker to worker and the second try for a structured report are left    *)
(* out.                                                                    *)
(***************************************************************************)
EXTENDS Naturals, FiniteSets

CONSTANTS
    MaxCalls,       \* calls of the tool
    N,              \* workers of a call: the same ids in each
    MaxWorkers,     \* workers of all calls
    Modes,          \* the values of use_worktrees
    Paths,          \* files
    Linked,         \* the ones below a directory that a symbolic link names too
    MaxTurns        \* max_turns of a worker

ASSUME SwarmAssumption ==
    /\ {MaxCalls, N} \subseteq Nat \ {0}
    /\ {MaxWorkers, MaxTurns} \subseteq Nat
    /\ Modes \subseteq BOOLEAN
    /\ Linked \subseteq Paths

Ids == 1 .. N
Free == 0           \* no claim
Calls == 1 .. MaxCalls
Workers == Calls \X Ids

\* The names a tool may give a file.
Names == (Paths \X {"path"}) \cup (Linked \X {"link"})

\* What is in a file: what HEAD has, nothing, the user's text, or a worker's.
Head == <<"head">>
Gone == <<"gone">>
User == <<"user">>
Contents == {Head, Gone, User} \cup Workers

VARIABLES
    worktrees,  \* use_worktrees
    odd,        \* the files that git ignores, or whose names it quotes (where
                \* git is asked)
    head,       \* the files at HEAD,
    main,       \* in the main checkout,
    work,       \* and in each worker's worktree
    hidden,     \* per worktree: the files whose change git status does not list
    call,       \* the last call that started its workers, and where the parent
    cpc,        \* is: "join" with `joined` of the workers joined, "merge" in the
    joined,     \* worktree of the next, "back" with the report, or "idle": no
                \* call yet, one refused or left
    todo,       \* of that worktree: the listed files that are not looked at yet,
    merging,    \* and the one that is compared and about to be written to main
    permits,    \* per call its max_concurrent
    wpc,        \* where a worker is
    steps,      \* its turn_count, while it runs
    target,     \* the file its tool call is about to write
    result,     \* how it ended, and after the join how it is reported
    claims,     \* per call FileClaimRegistry.claims
    cancels,    \* WorkerCancels: per id "none", "no" or "yes"
    inbox,      \* per call SwarmHub.inboxes of "parent": whether it has mail
    \* Ghosts: the files a worker that runs wrote in the main checkout, the ones
    \* the user edited, those of them that a merge had compared and not yet
    \* written, workers the user asked to stop (kept behind their loop when they
    \* ended as cancelled), and workers that run next to another one of the same
    \* id, or did.
    wrote, edited, overtaken, asked, overlapped

fileVars == <<odd, head, main, work, hidden, wrote, edited, overtaken>>
callVars == <<call, cpc, joined, todo, merging, permits>>
workerVars == <<wpc, steps, target, result>>
cancelVars == <<cancels, asked, overlapped>>
vars == <<worktrees, fileVars, callVars, workerVars, claims, cancelVars,
          inbox>>

\* Inside run_turn_inner, where the worker's id is registered for a cancel.
InLoop == {"step", "request", "write"}
Busy == InLoop \cup {"close"}

TypeOK ==
    /\ worktrees \in BOOLEAN
    /\ odd \subseteq Paths
    /\ {head, main} \subseteq [Paths -> Contents]
    /\ work \in [Workers -> [Paths -> Contents]]
    /\ hidden \in [Workers -> SUBSET Paths]
    /\ call \in 0 .. MaxCalls /\ joined \in 0 .. N
    /\ cpc \in {"idle", "join", "merge", "back"}
    /\ todo \subseteq Paths /\ merging \subseteq Paths
    /\ permits \in [Calls -> Ids]
    /\ wpc \in [Workers -> {"off", "permit", "done", "panicked"} \cup Busy]
    /\ steps \in [Workers -> 0 .. MaxTurns]
    /\ target \in [Workers -> SUBSET Paths]
    /\ result \in [Workers -> {"none", "ok", "cancelled", "failed", "conflict",
                               "unmerged"}]
    /\ claims \in [Calls -> [Names -> Ids \cup {Free}]]
    /\ cancels \in [Ids -> {"none", "no", "yes"}]
    /\ inbox \in [Calls -> BOOLEAN]
    /\ wrote \in [Workers -> SUBSET Paths]
    /\ edited \subseteq Paths /\ overtaken \subseteq Paths
    /\ {asked, overlapped} \subseteq SUBSET Workers

-----------------------------------------------------------------------------
(***************************************************************************)
(* The call.                                                               *)
(***************************************************************************)

\* The key of a name in the registry: links are resolved when the file is there
\* (claim_key).
ClaimKey(n) == IF main[n[1]] = Gone THEN n ELSE <<n[1], "path">>

\* The owners after the claims that the tasks ask for in advance, which gives
\* the keys per task: possible when no key is asked for twice.
PreClaimed(keys) ==
    [n \in Names |-> IF \E i \in DOMAIN keys : n \in keys[i]
                     THEN CHOOSE i \in DOMAIN keys : n \in keys[i] ELSE Free]

Disjoint(keys) ==
    \A i, k \in DOMAIN keys : i # k => keys[i] \cap keys[k] = {}

\* The workers of a call.
Team(c) == {i \in Ids : wpc[<<c, i>>] # "off"}

Waiting == {"join", "merge"}

\* execute_swarm_tool up to the spawns, with the files `own` that the tasks
\* claim in advance and at most `n` workers at a time.  Overlapping files are an
\* error, before anything starts.  With worktrees nobody looks at the claims
\* after that.
StartSwarm(own, n) ==
    LET keys == [i \in DOMAIN own |-> {ClaimKey(m) : m \in own[i]}]
    IN  /\ cpc \notin Waiting /\ call < MaxCalls
        /\ Cardinality({w \in Workers : wpc[w] # "off"})
             + Cardinality(DOMAIN own) <= MaxWorkers
        /\ IF Disjoint(keys)
           THEN /\ call' = call + 1 /\ cpc' = "join" /\ joined' = 0
                /\ claims' = IF worktrees THEN claims
                             ELSE [claims EXCEPT ![call + 1] = PreClaimed(keys)]
                /\ permits' = [permits EXCEPT ![call + 1] = n]
                /\ wpc' = [w \in Workers |->
                             IF w[1] = call + 1 /\ w[2] \in DOMAIN own
                             THEN "permit" ELSE wpc[w]]
           ELSE cpc' = "idle" /\ UNCHANGED <<call, joined, claims, permits, wpc>>
        /\ UNCHANGED <<worktrees, fileVars, todo, merging, steps, target, result,
                       cancelVars, inbox>>

\* The changed files of a worktree that git status lists by their names: not
\* the ones that are ignored or quoted, committed in the worktree, or the old
\* name of a file that `git mv` renamed (porcelain_path keeps the new one).
Changed(w) ==
    {p \in Paths \ (hidden[w] \cup odd) : work[w][p] # head[p]}

\* The worker whose turn it is to be joined.
Joining == <<call, joined + 1>>

\* The parent awaits the workers in their order and begins to merge each one's
\* worktree, however the worker ended.  When git status fails the report says
\* so, and nothing is merged.  A worker that panicked is reported as such.
Join(status) ==
    /\ cpc = "join" /\ joined < Cardinality(Team(call))
    /\ wpc[Joining] \in {"done", "panicked"}
    /\ IF worktrees /\ wpc[Joining] = "done" /\ status
       THEN /\ cpc' = "merge" /\ todo' = Changed(Joining)
            /\ UNCHANGED <<joined, result>>
       ELSE /\ joined' = joined + 1
            /\ result' = IF worktrees /\ wpc[Joining] = "done"
                         THEN [result EXCEPT ![Joining] = "unmerged"]
                         ELSE result
            /\ UNCHANGED <<cpc, todo>>
    /\ UNCHANGED <<worktrees, fileVars, call, merging, permits, wpc, steps,
                   target, claims, cancelVars, inbox>>

\* Mutant: a file that the user deleted is taken for unchanged.
DivergedUnlessGone(p) == main[p] # head[p] /\ main[p] # Gone

\* merge_changed_path: main is not as at HEAD.
Diverged(p) == main[p] # head[p]

Conflict == result' = [result EXCEPT ![Joining] = "conflict"]

\* merge_changed_path up to its write: the next file of the list is read in the
\* worktree, in main and at HEAD.  What main has already is done; what is
\* different there is a conflict.
MergeRead(p) ==
    /\ cpc = "merge" /\ merging = {} /\ p \in todo
    /\ todo' = todo \ {p}
    /\ IF main[p] = work[Joining][p]
       THEN UNCHANGED <<merging, result>>
       ELSE IF Diverged(p)
       THEN Conflict /\ UNCHANGED merging
       ELSE merging' = {p} /\ UNCHANGED result
    /\ UNCHANGED <<worktrees, fileVars, call, cpc, joined, permits, wpc, steps,
                   target, claims, cancelVars, inbox>>

\* Its end: the file is written or removed, or that fails.
MergeWrite(ok) ==
    /\ merging # {}
    /\ merging' = {}
    /\ IF ok
       THEN /\ main' = [p \in Paths |-> IF p \in merging THEN work[Joining][p]
                                        ELSE main[p]]
            /\ UNCHANGED result
       ELSE Conflict /\ UNCHANGED main
    /\ UNCHANGED <<worktrees, odd, head, work, hidden, wrote, edited, overtaken,
                   call, cpc, joined, todo, permits, wpc, steps, target, claims,
                   cancelVars, inbox>>

\* The list is done, and the worktree is removed.
MergeDone ==
    /\ cpc = "merge" /\ todo = {} /\ merging = {}
    /\ cpc' = "join" /\ joined' = joined + 1
    /\ UNCHANGED <<worktrees, fileVars, call, todo, merging, permits, workerVars,
                   claims, cancelVars, inbox>>

\* All are joined: the claims go, and the report has the mail to the parent.
Return ==
    /\ cpc = "join" /\ joined = Cardinality(Team(call))
    /\ cpc' = "back"
    /\ claims' = [claims EXCEPT ![call] = [n \in Names |-> Free]]
    /\ inbox' = [inbox EXCEPT ![call] = FALSE]
    /\ UNCHANGED <<worktrees, fileVars, call, joined, todo, merging, permits,
                   workerVars, cancelVars>>

\* Esc drops the call's future where it awaits a worker, and with it the handles
\* of the workers.
Esc ==
    /\ cpc = "join" /\ joined < Cardinality(Team(call))
    /\ cpc' = "idle"
    /\ UNCHANGED <<worktrees, fileVars, call, joined, todo, merging, permits,
                   workerVars, claims, cancelVars, inbox>>

-----------------------------------------------------------------------------
(***************************************************************************)
(* A worker.                                                               *)
(***************************************************************************)

Goto(w, where) == wpc' = [wpc EXCEPT ![w] = where]

\* Mutant: a worker whose worktree could not be made keeps its permit.
PermitsFailed(c) ==
    {i \in Ids : wpc[<<c, i>>] \in Busy \/ result[<<c, i>>] = "failed"}

\* The workers of a call that hold a permit.
Permits(c) == {i \in Ids : wpc[<<c, i>>] \in Busy}

\* Mutant: an id that is already there keeps its request.
RegisterOrKeep(i) == IF cancels[i] = "none" THEN "no" ELSE cancels[i]

\* WorkerCancels::register
Register(i) == "no"

\* A permit; with worktrees a checkout of HEAD, which may fail; and
\* SubagentRunner::run up to its loop.
Begin(w, created) ==
    /\ wpc[w] = "permit"
    /\ Cardinality(Permits(w[1])) < permits[w[1]]
    /\ ~created => worktrees
    /\ IF created
       THEN /\ Goto(w, "step")
            /\ work' = [work EXCEPT ![w] = head]
            /\ cancels' = [cancels EXCEPT ![w[2]] = Register(w[2])]
            /\ overlapped' =
                 LET others == {v \in Workers : /\ v # w /\ v[2] = w[2]
                                                /\ wpc[v] \in InLoop}
                 IN  IF others = {} THEN overlapped
                     ELSE overlapped \cup others \cup {w}
            /\ UNCHANGED result
       ELSE /\ Goto(w, "done")
            /\ result' = [result EXCEPT ![w] = "failed"]
            /\ UNCHANGED <<work, cancels, overlapped>>
    /\ UNCHANGED <<worktrees, odd, head, main, hidden, wrote, edited, overtaken,
                   callVars, steps, target, claims, asked, inbox>>

\* The loop is over: WorkerCancels::finish.
Ends(w, how) ==
    /\ Goto(w, "close")
    /\ result' = [result EXCEPT ![w] = how]
    /\ cancels' = [cancels EXCEPT ![w[2]] = "none"]
    /\ steps' = [steps EXCEPT ![w] = 0]
    /\ asked' = IF how = "cancelled" THEN asked ELSE asked \ {w}
    /\ overlapped' = overlapped \ {w}

OutOfTurns(w) == steps[w] = MaxTurns

\* The top of the loop: a cancel, the limit, or the request goes out.
Step(w) ==
    /\ wpc[w] = "step"
    /\ IF cancels[w[2]] = "yes"
       THEN Ends(w, "cancelled")
       ELSE IF OutOfTurns(w)
       THEN Ends(w, "failed")
       ELSE /\ Goto(w, "request")
            /\ steps' = [steps EXCEPT ![w] = @ + 1]
            /\ UNCHANGED <<result, cancelVars>>
    /\ UNCHANGED <<worktrees, fileVars, callVars, target, claims, inbox>>

\* The request fails, or the reply calls no tool and is the worker's report.
LastReply(w, how) ==
    /\ wpc[w] = "request" /\ how \in {"ok", "failed"}
    /\ Ends(w, how)
    /\ UNCHANGED <<worktrees, fileVars, callVars, target, claims, inbox>>

\* A tool that writes nothing.
OtherTool(w) ==
    /\ wpc[w] = "request"
    /\ Goto(w, "step")
    /\ UNCHANGED <<worktrees, fileVars, callVars, steps, target, result,
                   claims, cancelVars, inbox>>

\* swarm_msg, to the parent or to all.
SendMail(w) ==
    /\ wpc[w] = "request"
    /\ inbox' = [inbox EXCEPT ![w[1]] = TRUE]
    /\ Goto(w, "step")
    /\ UNCHANGED <<worktrees, fileVars, callVars, steps, target, result,
                   claims, cancelVars>>

\* The files of a checkout with the new texts of some.
Written(files, new) ==
    [p \in Paths |-> IF p \in DOMAIN new THEN new[p] ELSE files[p]]

\* The new texts of the files in `ps`, of which only those go that are there.
Texts(w, files, ps) ==
    {new \in [ps -> {w, Gone}] : \A p \in ps : new[p] = Gone => files[p] # Gone}

\* A shell command writes and removes files of the worker's checkout, and asks
\* for no claim.  In a worktree it may also commit some of them or rename them
\* away, `out`, which takes them off the list of git status.
Shell(w, ps, out) ==
    /\ wpc[w] = "request" /\ ps # {}
    /\ out \subseteq IF worktrees THEN ps ELSE {}
    /\ IF worktrees
       THEN /\ \E new \in Texts(w, work[w], ps) :
                 work' = [work EXCEPT ![w] = Written(@, new)]
            /\ hidden' = [hidden EXCEPT ![w] = (@ \ ps) \cup out]
            /\ UNCHANGED main
       ELSE /\ \E new \in Texts(w, main, ps) : main' = Written(main, new)
            /\ UNCHANGED <<work, hidden>>
    /\ Goto(w, "step")
    /\ UNCHANGED <<worktrees, odd, head, wrote, edited, overtaken, callVars,
                   steps, target, result, claims, cancelVars, inbox>>

\* Mutant: a claim goes to whoever asks last.
MayClaimTaken(w, key) == TRUE

\* try_claim: free, or the worker's own.
MayClaim(w, key) == claims[w[1]][key] \in {Free, w[2]}

\* A file tool that writes asks for the claim of its path first
\* (check_file_write); a conflict is its error.
ClaimFile(w, n) ==
    LET key == ClaimKey(n)
    IN  /\ wpc[w] = "request"
        /\ IF worktrees \/ MayClaim(w, key)
           THEN /\ Goto(w, "write")
                /\ target' = [target EXCEPT ![w] = {n[1]}]
                /\ claims' = IF worktrees THEN claims
                             ELSE [claims EXCEPT ![w[1]][key] = w[2]]
           ELSE Goto(w, "step") /\ UNCHANGED <<target, claims>>
        /\ UNCHANGED <<worktrees, fileVars, callVars, steps, result, cancelVars,
                       inbox>>

\* It writes, in the worker's checkout.
WriteFile(w) ==
    /\ wpc[w] = "write"
    /\ IF worktrees
       THEN /\ \E new \in Texts(w, work[w], target[w]) :
                 work' = [work EXCEPT ![w] = Written(@, new)]
            /\ hidden' = [hidden EXCEPT ![w] = @ \ target[w]]
            /\ UNCHANGED <<main, wrote>>
       ELSE /\ \E new \in Texts(w, main, target[w]) : main' = Written(main, new)
            /\ wrote' = [wrote EXCEPT ![w] = @ \cup target[w]]
            /\ UNCHANGED <<work, hidden>>
    /\ target' = [target EXCEPT ![w] = {}]
    /\ Goto(w, "step")
    /\ UNCHANGED <<worktrees, odd, head, edited, overtaken, callVars, steps,
                   result, claims, cancelVars, inbox>>

\* It cannot write.  The claim stays.
WriteFails(w) ==
    /\ wpc[w] = "write"
    /\ target' = [target EXCEPT ![w] = {}]
    /\ Goto(w, "step")
    /\ UNCHANGED <<worktrees, fileVars, callVars, steps, result, claims,
                   cancelVars, inbox>>

\* release_agent
ReleaseAgent(w) ==
    [claims EXCEPT ![w[1]] =
       [n \in Names |-> IF @[n] = w[2] THEN Free ELSE @[n]]]

\* The rest of `run`, and release_agent.
Close(w) ==
    /\ wpc[w] = "close"
    /\ Goto(w, "done")
    /\ claims' = ReleaseAgent(w)
    /\ wrote' = [wrote EXCEPT ![w] = {}]
    /\ UNCHANGED <<worktrees, odd, head, main, work, hidden, edited, overtaken,
                   callVars, steps, target, result, cancelVars, inbox>>

\* The worker's task panics, in a build that unwinds (a release build aborts):
\* its claims and its id stay.
Panic(w) ==
    /\ wpc[w] \in Busy
    /\ Goto(w, "panicked")
    /\ target' = [target EXCEPT ![w] = {}]
    /\ steps' = [steps EXCEPT ![w] = 0]
    /\ wrote' = [wrote EXCEPT ![w] = {}]
    /\ result' = [result EXCEPT ![w] = "none"]
    /\ asked' = asked \ {w} /\ overlapped' = overlapped \ {w}
    /\ UNCHANGED <<worktrees, odd, head, main, work, hidden, edited, overtaken,
                   callVars, claims, cancels, inbox>>

-----------------------------------------------------------------------------
(***************************************************************************)
(* The user.                                                               *)
(***************************************************************************)

\* `k` in the agent hub: accepted when the id is there.
CancelWorker(i) ==
    /\ cancels[i] # "none"
    /\ cancels' = [cancels EXCEPT ![i] = "yes"]
    /\ asked' = asked \cup {w \in Workers : w[2] = i /\ wpc[w] \in InLoop}
    /\ UNCHANGED <<worktrees, fileVars, callVars, workerVars, claims,
                   overlapped, inbox>>

\* The user edits or deletes a file of the main checkout, once, and not back to
\* what HEAD has.  Without worktrees nothing compares the files.
Edit(p, text) ==
    /\ worktrees
    /\ p \notin edited
    /\ text \in {User, Gone} \ {main[p], head[p]}
    /\ main' = [main EXCEPT ![p] = text]
    /\ edited' = edited \cup {p}
    /\ overtaken' = overtaken \cup ({p} \cap merging)
    /\ UNCHANGED <<worktrees, odd, head, work, hidden, wrote, callVars, workerVars,
                   claims, cancelVars, inbox>>

-----------------------------------------------------------------------------
Init ==
    /\ worktrees \in Modes
    /\ odd \in IF worktrees THEN SUBSET Paths ELSE {{}}
    /\ head \in [Paths -> {Head, Gone}]
    /\ main = head /\ edited = {} /\ overtaken = {}
    /\ work = [w \in Workers |-> head]
    /\ hidden = [w \in Workers |-> {}]
    /\ call = 0 /\ cpc = "idle" /\ joined = 0
    /\ todo = {} /\ merging = {}
    /\ permits = [c \in Calls |-> N]
    /\ wpc = [w \in Workers |-> "off"]
    /\ steps = [w \in Workers |-> 0]
    /\ target = [w \in Workers |-> {}]
    /\ result = [w \in Workers |-> "none"]
    /\ claims = [c \in Calls |-> [n \in Names |-> Free]]
    /\ cancels = [i \in Ids |-> "none"]
    /\ inbox = [c \in Calls |-> FALSE]
    /\ wrote = [w \in Workers |-> {}]
    /\ asked = {} /\ overlapped = {}

Work(w) ==
    \/ \E created \in BOOLEAN : Begin(w, created)
    \/ Step(w) \/ OtherTool(w) \/ SendMail(w) \/ Close(w)
    \/ \E how \in {"ok", "failed"} : LastReply(w, how)
    \/ \E ps, out \in SUBSET Paths : Shell(w, ps, out)
    \/ \E n \in Names : ClaimFile(w, n)
    \/ WriteFile(w) \/ WriteFails(w)

Await ==
    \/ \E status \in BOOLEAN : Join(status)
    \/ \E p \in Paths : MergeRead(p)
    \/ \E ok \in BOOLEAN : MergeWrite(ok)
    \/ MergeDone \/ Return

Next ==
    \/ \E k \in Ids : \E own \in [1 .. k -> SUBSET Names], n \in 1 .. k :
         StartSwarm(own, n)
    \/ Await \/ Esc
    \/ \E w \in Workers : Work(w) \/ Panic(w)
    \/ \E i \in Ids : CancelWorker(i)
    \/ \E p \in Paths, text \in {User, Gone} : Edit(p, text)

Spec == Init /\ [][Next]_vars

\* Spawned tasks are scheduled, requests and tools come to an end, and the
\* semaphore is fair.
Fairness == WF_vars(Await) /\ \A w \in Workers : WF_vars(Work(w))

FairSpec == Spec /\ Fairness

-----------------------------------------------------------------------------
(***************************************************************************)
(* Properties.                                                             *)
(***************************************************************************)

\* In one checkout two workers of a call that still run have written the same
\* file with file tools only when one of them claimed it by another name, which
\* a link gives a file before it is there, whatever ends, fails or panics next
\* to them (try_claim, release_agent).  What shell commands write is not
\* claimed and not meant.
OneWriter ==
    \A c \in Calls, i, k \in Ids :
        i # k /\ wpc[<<c, i>>] \in Busy /\ wpc[<<c, k>>] \in Busy =>
            \A p \in wrote[<<c, i>>] \cap wrote[<<c, k>>] :
                p \in Linked /\ claims[c][<<p, "link">>] \in {i, k}

\* The user's text, or the user's deletion, is in the file.
UserHas(p) == p \in edited /\ main[p] \in {User, Gone}

\* With worktrees, a worker reported without a conflict has all its changes that
\* git status lists in the main checkout when it is joined, and they stay there
\* until the user changes them.  What the user edited stays too, unless the
\* edit came between the reads and the write of one file's merge
\* (merge_changed_path).
MergeLosesNothing ==
    worktrees =>
        /\ \A i \in Ids :
             LET w == <<call, i>>
             IN  /\ call > 0 /\ i <= joined
                 /\ result[w] \notin {"none", "conflict", "unmerged"}
                 => \A p \in Changed(w) : main[p] = work[w][p] \/ UserHas(p)
        /\ \A p \in edited \ overtaken : UserHas(p)

\* A worker ends as cancelled only when the user asked for its id while it ran,
\* and a worker that was asked makes no other request, whichever workers had
\* the id before, unless two of one id run at once (worker_cancel.rs: "a late
\* request cannot cancel a later worker that reuses the id").
CancelHitsItsWorker ==
    \A w \in Workers :
        /\ result[w] = "cancelled" => w \in asked
        /\ w \in asked /\ wpc[w] \in InLoop /\ w \notin overlapped
             => cancels[w[2]] = "yes"

\* The tool returns, and every worker ends, those of a call that was left too:
\* no panic, failed worktree or cancelled worker keeps a permit from the rest.
\* Again and again nothing is under way.
SwarmReturns ==
    []<>(/\ cpc \notin Waiting
         /\ \A w \in Workers : wpc[w] \in {"off", "done", "panicked"})
=============================================================================
