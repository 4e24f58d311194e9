------------------------------- MODULE Daemon -------------------------------
(***************************************************************************)
(* The daemon (`whycodes serve`): the sessions it keeps in memory and in   *)
(* the database (crates/server/src/lib.rs), the SDK runs, chats and edits  *)
(* that HTTP clients ask for (server/src/v1.rs, server/src/routes.rs), the *)
(* permission and question asks of runs (server/src/perm.rs) and the       *)
(* keep-alive of idle sessions (server/src/keep_warm.rs).                  *)
(*                                                                         *)
(* Every handler and every spawned task is a process of its own; a step is *)
(* one critical section of a mutex, or the wait for one.  The session's    *)
(* mutex is fair: `waiters` is its queue.  The turn itself is in TurnLoop; *)
(* here it holds the session, asks, and ends.                              *)
(***************************************************************************)
EXTENDS Naturals, Sequences, FiniteSets, SequencesExt

CONSTANTS
    Sessions,       \* ids of sessions
    Reqs,           \* HTTP requests,
    Runs,           \* of them SDK runs; the others are chats or rewinds
    Tools,          \* names of tools that need a permission
    MaxAsks,        \* asks of all runs, numbered like PermHub.seq
    HasDb,          \* open_db finds a database that can be read and written
    Warm,           \* session.cache_warm_minutes is not zero
    Panics,         \* the task of a run may panic
    None            \* no handle, no run, no row

ASSUME DaemonAssumption ==
    /\ MaxAsks \in Nat
    /\ {HasDb, Warm, Panics} \subseteq BOOLEAN
    /\ None \notin Sessions \cup Reqs \cup Seq(Sessions \cup Reqs)
    /\ Sessions \cap Reqs = {} /\ Runs \subseteq Reqs /\ IsFiniteSet(Reqs)

\* A handle (an Arc of a locked Session) is named after the request that loaded
\* it, or after the session when it was created.
Handles == Sessions \cup Reqs
Asks == 1 .. MaxAsks

VARIABLES
    sessions,   \* AppState.sessions: the handle of each session in memory
    db,         \* the stored messages of each session, named by the request
                \* that added them (the session itself: an earlier daemon's)
    content,    \* per handle the messages of its session
    holder,     \* per handle who holds the mutex,
    waiters,    \* and who waits for it
    req,        \* per request what it asks for
    own,        \* per request the handle its handler or task holds
    pc,         \* where a request is
    warm,       \* per run its keep-alive task: "off", "sleep" or "sent", the
                \* number of messages it started with, and the handle it holds
    flags,      \* AppState.cancel_flags: the run a cancel of a session reaches
    cancelled,  \* runs whose flag is set
    sinks,      \* PermHub.events: the run whose stream shows asks
    always,     \* PermHub.allow_always
    pending,    \* PermHub.pending and pending_q: the numbers of open asks
    ask,        \* the asks so far
    \* Ghosts: the asks the user allowed, the messages a rewind removed, and the
    \* sessions that two requests loaded at the same time.
    allowed, rewound, raced

store == <<sessions, db, content, holder, waiters, own, rewound, raced>>
hub == <<sinks, always, pending, ask, allowed>>
cancels == <<flags, cancelled>>
vars == <<store, req, pc, warm, cancels, hub>>

Kinds == {"run", "chat", "rewind"}

NoReq == [kind |-> "none", session |-> None, auto |-> FALSE]

SessionOf(r) == req[r].session

\* One ask: whose, for what ("question" or a tool), where its future is, whether
\* a stream showed it (until it returns), the reply sent to it, and its result.
Ask(r, what, st, result) ==
    [run |-> r, what |-> what, st |-> st, seen |-> FALSE, reply |-> "none",
     result |-> result]

Over(r, what, result) == Ask(r, what, "over", result)

OpenAsks(r) == {a \in DOMAIN ask : ask[a].run = r /\ ask[a].st # "over"}

\* An idle keep-alive, and the number of others that hold a handle.
NoWarm == [st |-> "off", history |-> 0, handle |-> None]

StrongCount(h) ==
    Cardinality({r \in Reqs : own[r] = h})
    + Cardinality({r \in Reqs : warm[r].handle = h})

Free(h) == holder[h] = None

Go(r, where) == pc' = [pc EXCEPT ![r] = where]

TypeOK ==
    /\ sessions \in [Sessions -> Handles \cup {None}]
    /\ \A s \in Sessions : db[s] = None \/ db[s] \in Seq(Sessions \cup Reqs)
    /\ \A h \in Handles : /\ content[h] \in Seq(Sessions \cup Reqs)
                          /\ waiters[h] \in Seq(Reqs)
    /\ holder \in [Handles -> Reqs \cup {None}]
    /\ req \in [Reqs -> [kind : Kinds, session : Sessions, auto : BOOLEAN]
                          \cup {NoReq}]
    /\ own \in [Reqs -> Handles \cup {None}]
    /\ pc \in [Reqs -> {"idle", "load", "loaded", "edit", "keyed", "sink",
                        "start", "queued", "turn", "released", "saving",
                        "saved", "closing", "done", "ended",
                        "refused", "panicked"}]
    /\ \A r \in Reqs : /\ warm[r].st \in {"off", "sleep", "sent"}
                       /\ warm[r].history \in Nat
                       /\ warm[r].handle \in Handles \cup {None}
    /\ flags \in [Sessions -> Reqs \cup {None}]
    /\ sinks \in [Sessions -> Reqs \cup {None}]
    /\ cancelled \subseteq Reqs /\ rewound \subseteq Sessions \cup Reqs
    /\ raced \subseteq Sessions
    /\ always \subseteq Sessions \X Tools
    /\ Len(ask) <= MaxAsks
    /\ pending \subseteq DOMAIN ask /\ allowed \subseteq DOMAIN ask
    /\ \A a \in DOMAIN ask :
         /\ ask[a].run \in Reqs /\ ask[a].what \in Tools \cup {"question"}
         /\ ask[a].st \in {"insert", "wait", "expired", "over"}
         /\ ask[a].seen \in BOOLEAN
         /\ ask[a].reply \in {"none", "yes", "no"}
         /\ ask[a].result \in {"none", "yes", "no", "dropped"}

-----------------------------------------------------------------------------
(***************************************************************************)
(* Sessions in memory.                                                     *)
(***************************************************************************)

\* create_session: a new session is in memory, and stored unless the client
\* said otherwise or saving failed.
Create(s, stored) ==
    /\ sessions[s] = None /\ db[s] = None
    /\ stored => HasDb
    /\ sessions' = [sessions EXCEPT ![s] = s]
    /\ db' = IF stored THEN [db EXCEPT ![s] = <<>>] ELSE db
    /\ UNCHANGED <<content, holder, waiters, own, rewound, raced, req, pc,
                   warm, cancels, hub>>

\* A request arrives.  load_or_get_session looks in memory, then in the database
\* (404 for an id that is in neither; ids are unique and known once created).
Post(r, s, kind, auto) ==
    /\ pc[r] = "idle"
    /\ kind = "run" <=> r \in Runs
    /\ auto => kind = "run"
    /\ req' = [req EXCEPT ![r] = [kind |-> kind, session |-> s, auto |-> auto]]
    /\ own' = [own EXCEPT ![r] = sessions[s]]
    /\ IF sessions[s] # None
       THEN Go(r, IF kind = "rewind" THEN "edit" ELSE "keyed")
       ELSE IF db[s] = None THEN Go(r, "refused")
       ELSE Go(r, "load")
    /\ raced' = IF sessions[s] = None /\ db[s] # None
                  /\ \E q \in Reqs : /\ pc[q] \in {"load", "loaded"}
                                     /\ SessionOf(q) = s
                THEN raced \cup {s} ELSE raced
    /\ UNCHANGED <<sessions, db, content, holder, waiters, rewound, warm,
                   cancels, hub>>

\* load_or_get_session, not in memory: it is read from the database (404 if that
\* fails),
Load(r) ==
    /\ pc[r] = "load"
    /\ \/ /\ content' = [content EXCEPT ![r] = db[SessionOf(r)]]
          /\ Go(r, "loaded")
       \/ UNCHANGED content /\ Go(r, "refused")
    /\ UNCHANGED <<sessions, db, holder, waiters, own, rewound, raced, req,
                   warm, cancels, hub>>

\* and inserted, over whatever was inserted since.
InsertSession(r) ==
    /\ pc[r] = "loaded"
    /\ sessions' = [sessions EXCEPT ![SessionOf(r)] = r]
    /\ own' = [own EXCEPT ![r] = r]
    /\ Go(r, IF req[r].kind = "rewind" THEN "edit" ELSE "keyed")
    /\ UNCHANGED <<db, content, holder, waiters, rewound, raced, req, warm,
                   cancels, hub>>

\* Mutant: a handle that somebody else holds is dropped from memory.
EvictHeld(s) ==
    LET h == sessions[s]
    IN  /\ h # None /\ Free(h) /\ waiters[h] = <<>>
        /\ content[h] # <<>> /\ HasDb
        /\ sessions' = [sessions EXCEPT ![s] = None]
        /\ db' = [db EXCEPT ![s] = content[h]]
        /\ content' = IF StrongCount(h) = 0 THEN [content EXCEPT ![h] = <<>>]
                      ELSE content
        /\ UNCHANGED <<holder, waiters, own, rewound, raced, req, pc, warm,
                       cancels, hub>>

\* evict_idle_sessions: held by nobody else, not empty, and saved just now.
\* The session may have been quiet for long at any moment.
Evict(s) ==
    LET h == sessions[s]
    IN  /\ h # None /\ Free(h) /\ waiters[h] = <<>>
        /\ StrongCount(h) = 0 /\ HasDb
        /\ content[h] # <<>>
        /\ sessions' = [sessions EXCEPT ![s] = None]
        /\ db' = [db EXCEPT ![s] = content[h]]
        /\ content' = [content EXCEPT ![h] = <<>>]
        /\ UNCHANGED <<holder, waiters, own, rewound, raced, req, pc, warm,
                       cancels, hub>>

\* rewind: under the mutex, keeps the first `n` messages and saves, or fails to.
Rewind(r, n, saved) ==
    LET h == own[r]
    IN  /\ pc[r] = "edit" /\ Free(h) /\ (saved => HasDb)
        /\ n <= Len(content[h])
        /\ content' = [content EXCEPT ![h] = SubSeq(@, 1, n)]
        /\ rewound' = rewound \cup
               {content[h][i] : i \in n + 1 .. Len(content[h])}
        /\ db' = IF saved THEN [db EXCEPT ![SessionOf(r)] = content'[h]] ELSE db
        /\ Go(r, "ended")
        /\ own' = [own EXCEPT ![r] = None]
        /\ UNCHANGED <<sessions, holder, waiters, raced, req, warm, cancels,
                       hub>>

-----------------------------------------------------------------------------
(***************************************************************************)
(* Runs and chats.                                                         *)
(***************************************************************************)

\* Without an API key the stream is an error and its end; a chat is spawned at
\* once, a run registers its cancel flag first.
NoKey(r) ==
    /\ pc[r] = "keyed"
    /\ Go(r, "refused")
    /\ own' = [own EXCEPT ![r] = None]
    /\ UNCHANGED <<sessions, db, content, holder, waiters, rewound, raced, req,
                   warm, cancels, hub>>

RegisterCancel(r) ==
    /\ pc[r] = "keyed"
    /\ IF req[r].kind = "run"
       THEN /\ flags' = [flags EXCEPT ![SessionOf(r)] = r]
            /\ Go(r, "sink")
       ELSE /\ UNCHANGED flags
            /\ Go(r, "start")
    /\ UNCHANGED <<store, req, warm, cancelled, hub>>

RegisterRun(r) ==
    /\ pc[r] = "sink"
    /\ sinks' = [sinks EXCEPT ![SessionOf(r)] = r]
    /\ Go(r, "start")
    /\ UNCHANGED <<store, req, warm, cancels, always, pending, ask, allowed>>

\* The task asks for the session's mutex: before its turn, and to save after.
Enqueue(r) ==
    /\ pc[r] \in {"start", "released"}
    /\ waiters' = [waiters EXCEPT ![own[r]] = Append(@, r)]
    /\ Go(r, IF pc[r] = "start" THEN "queued" ELSE "saving")
    /\ UNCHANGED <<sessions, db, content, holder, own, rewound, raced, req,
                   warm, cancels, hub>>

AtHead(r) ==
    /\ Free(own[r])
    /\ waiters[own[r]] # <<>> /\ Head(waiters[own[r]]) = r

\* add_user_message, and the turn begins.
BeginTurn(r) ==
    LET h == own[r]
    IN  /\ pc[r] = "queued" /\ AtHead(r)
        /\ holder' = [holder EXCEPT ![h] = r]
        /\ waiters' = [waiters EXCEPT ![h] = Tail(@)]
        /\ content' = [content EXCEPT ![h] = Append(@, r)]
        /\ Go(r, "turn")
        /\ UNCHANGED <<sessions, db, own, rewound, raced, req, warm, cancels,
                       hub>>

\* The turn ends: its asks are answered, or it was cancelled, which drops the
\* futures of the asks it waits for and leaves their entries behind.
EndTurn(r) ==
    /\ pc[r] = "turn"
    /\ OpenAsks(r) = {} \/ r \in cancelled
    /\ ask' = [a \in DOMAIN ask |->
                 IF a \in OpenAsks(r)
                 THEN [ask[a] EXCEPT !.st = "over", !.reply = "none",
                                     !.result = "dropped"]
                 ELSE ask[a]]
    /\ holder' = [holder EXCEPT ![own[r]] = None]
    /\ Go(r, "released")
    /\ UNCHANGED <<sessions, db, content, waiters, own, rewound, raced, req,
                   warm, cancels, sinks, always, pending, allowed>>

\* The task of a run or chat panics during its turn, in a build that unwinds (a
\* release build aborts).  Its futures, its guard of the mutex and its handle are
\* dropped; the flag, the sink and the entries stay.
Panic(r) ==
    /\ Panics
    /\ pc[r] = "turn"
    /\ ask' = [a \in DOMAIN ask |->
                 IF a \in OpenAsks(r)
                 THEN [ask[a] EXCEPT !.st = "over", !.reply = "none",
                                     !.result = "dropped"]
                 ELSE ask[a]]
    /\ holder' = [holder EXCEPT ![own[r]] = None]
    /\ own' = [own EXCEPT ![r] = None]
    /\ Go(r, "panicked")
    /\ UNCHANGED <<sessions, db, content, waiters, rewound, raced, req, warm,
                   cancels, sinks, always, pending, allowed>>

\* The save after the turn (`saved`: it worked), and keep_warm::spawn, which
\* gives up when another request already has the session.
Save(r, saved) ==
    LET h == own[r]
    IN  /\ pc[r] = "saving" /\ AtHead(r) /\ (saved => HasDb)
        /\ db' = IF saved THEN [db EXCEPT ![SessionOf(r)] = content[h]] ELSE db
        /\ waiters' = [waiters EXCEPT ![h] = Tail(@)]
        /\ warm' = IF Warm /\ waiters'[h] = <<>>
                   THEN [warm EXCEPT ![r] = [st |-> "sleep", handle |-> h,
                                             history |-> Len(content[h])]]
                   ELSE warm
        /\ Go(r, IF req[r].kind = "run" THEN "saved" ELSE "done")
        /\ UNCHANGED <<sessions, content, holder, own, rewound, raced, req,
                       cancels, hub>>

TakeCancel(r) ==
    /\ pc[r] = "saved"
    /\ flags' = [flags EXCEPT ![SessionOf(r)] = None]
    /\ Go(r, "closing")
    /\ UNCHANGED <<store, req, warm, cancelled, hub>>

SessionAsks(s) == {a \in pending : SessionOf(ask[a].run) = s}

Reply(as, answer) ==
    ask' = [a \in DOMAIN ask |->
              IF a \in as /\ ask[a].st \in {"insert", "wait"}
              THEN [ask[a] EXCEPT !.reply = answer] ELSE ask[a]]

\* Mutant: the questions of the session stay open.
FinishPermissions(r) ==
    LET as == {a \in SessionAsks(SessionOf(r)) : ask[a].what # "question"}
    IN  /\ pc[r] = "closing"
        /\ sinks' = [sinks EXCEPT ![SessionOf(r)] = None]
        /\ pending' = pending \ as
        /\ Reply(as, "no")
        /\ Go(r, "done")
        /\ UNCHANGED <<store, req, warm, cancels, always, allowed>>

\* finish_run: the session's sink goes, and its open asks are refused.
FinishRun(r) ==
    LET as == SessionAsks(SessionOf(r))
    IN  /\ pc[r] = "closing"
        /\ sinks' = [sinks EXCEPT ![SessionOf(r)] = None]
        /\ pending' = pending \ as
        /\ Reply(as, "no")
        /\ Go(r, "done")
        /\ UNCHANGED <<store, req, warm, cancels, always, allowed>>

\* RUN_DONE reaches the stream, which ends when the task has.  After a panic it
\* ends once no sender is left: the hub keeps one while the sink is this run's.
StreamEnd(r) ==
    /\ \/ pc[r] = "done"
       \/ pc[r] = "panicked" /\ sinks[SessionOf(r)] # r
    /\ Go(r, "ended")
    /\ own' = [own EXCEPT ![r] = None]
    /\ cancelled' = cancelled \ {r}
    /\ UNCHANGED <<sessions, db, content, holder, waiters, rewound, raced, req,
                   warm, flags, hub>>

\* POST .../cancel: 202 and the flag is set, or 404.
Cancel(s) ==
    /\ flags[s] # None
    /\ cancelled' = cancelled \cup {flags[s]}
    /\ UNCHANGED <<store, req, pc, warm, flags, hub>>

-----------------------------------------------------------------------------
(***************************************************************************)
(* Asks.                                                                   *)
(***************************************************************************)

AutoApproved(r) == req[r].auto \/ req[r].kind = "chat"

\* Mutant: one tool that is allowed for good allows everything.
AllowedAnything(r, what) ==
    \E tool \in Tools : <<SessionOf(r), tool>> \in always

IsAlwaysAllowed(r, what) == <<SessionOf(r), what>> \in always

\* PermHub.seq
RequestNumber == Len(ask) + 1

\* A tool of the turn asks for a permission (`what` a tool) or the user's
\* answer: approved at once, or entered.
AskUser(r, what) ==
    /\ pc[r] = "turn" /\ Len(ask) < MaxAsks
    /\ IF AutoApproved(r) \/ IsAlwaysAllowed(r, what)
       THEN /\ ask' = Append(ask, Over(r, what, "yes"))
            /\ UNCHANGED pending
       ELSE /\ ask' = Append(ask, Ask(r, what, "insert", "none"))
            /\ pending' = pending \cup {RequestNumber}
    /\ UNCHANGED <<store, req, pc, warm, cancels, sinks, always, allowed>>

\* The ask goes to the session's stream, if it has one, and waits.
Emit(a) ==
    /\ ask[a].st = "insert"
    /\ ask' = [ask EXCEPT ![a].st = "wait",
                          ![a].seen = sinks[SessionOf(ask[a].run)] # None]
    /\ UNCHANGED <<store, req, pc, warm, cancels, sinks, always, pending,
                   allowed>>

\* The user decides on an ask that is listed: decide and answer_question.  The
\* reply of an ask that expired, or was dropped, reaches nobody.  An invalid
\* answer leaves the question open.
Decide(a, decision) ==
    /\ a \in pending /\ ask[a].seen
    /\ decision = "always" => ask[a].what \in Tools
    /\ pending' = pending \ {a}
    /\ always' = IF decision = "always"
                 THEN always \cup {<<SessionOf(ask[a].run), ask[a].what>>}
                 ELSE always
    /\ Reply({a}, IF decision = "deny" THEN "no" ELSE "yes")
    /\ allowed' = IF decision = "deny" THEN allowed ELSE allowed \cup {a}
    /\ UNCHANGED <<store, req, pc, warm, cancels, sinks>>

Answered(a) ==
    /\ ask[a].st = "wait" /\ ask[a].reply # "none"
    /\ ask' = [ask EXCEPT ![a] = Over(@.run, @.what, @.reply)]
    /\ UNCHANGED <<store, req, pc, warm, cancels, sinks, always, pending,
                   allowed>>

\* Mutant: a question waits without a limit.
ExpirePermission(a) ==
    /\ ask[a].st = "wait" /\ ask[a].reply = "none"
    /\ ask[a].what # "question"
    /\ ask' = [ask EXCEPT ![a].st = "expired"]
    /\ UNCHANGED <<store, req, pc, warm, cancels, sinks, always, pending,
                   allowed>>

\* The time is up: the receiver is gone, and then the entry is removed.
Expire(a) ==
    /\ ask[a].st = "wait" /\ ask[a].reply = "none"
    /\ ask' = [ask EXCEPT ![a].st = "expired"]
    /\ UNCHANGED <<store, req, pc, warm, cancels, sinks, always, pending,
                   allowed>>

TimedOut(a) ==
    /\ ask[a].st = "expired"
    /\ ask' = [ask EXCEPT ![a] = Over(@.run, @.what, "no")]
    /\ pending' = pending \ {a}
    /\ UNCHANGED <<store, req, pc, warm, cancels, sinks, always, allowed>>

-----------------------------------------------------------------------------
(***************************************************************************)
(* The keep-alive task of a run that ended.                                *)
(***************************************************************************)

\* It wakes up: ended by the idle window, a turn that holds the session, a
\* history that changed or nothing to send; else the last request goes out.
WarmTick(r, over) ==
    LET h == warm[r].handle
        go == /\ ~over
              /\ Free(h) /\ waiters[h] = <<>>
              /\ Len(content[h]) = warm[r].history
    IN  /\ warm[r].st = "sleep"
        /\ warm' = [warm EXCEPT ![r] = IF go THEN [@ EXCEPT !.st = "sent"]
                                       ELSE NoWarm]
        /\ UNCHANGED <<store, req, pc, cancels, hub>>

\* The request failed, or its usage is recorded under the mutex and the session
\* is saved, or fails to, unless its history changed.
WarmRecord(r, answered, saved) ==
    LET h == warm[r].handle
        same == Len(content[h]) = warm[r].history
    IN  /\ warm[r].st = "sent"
        /\ answered => Free(h)
        /\ saved => HasDb
        /\ warm' = [warm EXCEPT ![r] =
                       IF answered /\ ~same THEN NoWarm
                       ELSE [@ EXCEPT !.st = "sleep"]]
        /\ db' = IF answered /\ same /\ saved
                 THEN [db EXCEPT ![SessionOf(r)] = content[h]] ELSE db
        /\ UNCHANGED <<sessions, content, holder, waiters, own, rewound, raced,
                       req, pc, cancels, hub>>

-----------------------------------------------------------------------------
\* The daemon was just started: some sessions are stored by an earlier one.
Init ==
    /\ \E stored \in SUBSET Sessions :
         /\ stored # {} => HasDb
         /\ db = [s \in Sessions |-> IF s \in stored THEN <<s>> ELSE None]
    /\ sessions = [s \in Sessions |-> None]
    /\ content = [h \in Handles |-> <<>>]
    /\ waiters = [h \in Handles |-> <<>>]
    /\ holder = [h \in Handles |-> None]
    /\ req = [r \in Reqs |-> NoReq]
    /\ own = [r \in Reqs |-> None]
    /\ pc = [r \in Reqs |-> "idle"]
    /\ warm = [r \in Reqs |-> NoWarm]
    /\ flags = [s \in Sessions |-> None]
    /\ sinks = [s \in Sessions |-> None]
    /\ cancelled = {} /\ always = {} /\ pending = {} /\ ask = <<>>
    /\ allowed = {} /\ rewound = {} /\ raced = {}

\* What the daemon does by itself for request `r`.
Task(r) ==
    \/ Load(r) \/ InsertSession(r)
    \/ \E n \in 0 .. Cardinality(Reqs) + 1, saved \in BOOLEAN :
         Rewind(r, n, saved)
    \/ NoKey(r) \/ RegisterCancel(r) \/ RegisterRun(r) \/ Enqueue(r)
    \/ BeginTurn(r) \/ EndTurn(r)
    \/ \E saved \in BOOLEAN : Save(r, saved)
    \/ TakeCancel(r) \/ FinishRun(r) \/ StreamEnd(r)

\* What becomes of an ask without the user.
AskTask(a) == Emit(a) \/ Answered(a) \/ Expire(a) \/ TimedOut(a)

Next ==
    \/ \E s \in Sessions : \/ Evict(s) \/ Cancel(s)
                            \/ \E stored \in BOOLEAN : Create(s, stored)
    \/ \E r \in Reqs :
         \/ Task(r) \/ Panic(r)
         \/ \E s \in Sessions, kind \in Kinds, auto \in BOOLEAN :
              Post(r, s, kind, auto)
         \/ \E what \in Tools \cup {"question"} : AskUser(r, what)
         \/ \E over \in BOOLEAN : WarmTick(r, over)
         \/ \E answered, saved \in BOOLEAN : WarmRecord(r, answered, saved)
    \/ \E a \in DOMAIN ask :
         \/ AskTask(a)
         \/ \E decision \in {"deny", "allow", "always"} : Decide(a, decision)

Spec == Init /\ [][Next]_vars

\* Tasks and handlers are scheduled, the mutex is fair, the time of an ask runs
\* out (for questions unless the config turns that off), and a turn comes to its
\* end; nobody has to answer or cancel.
Fairness ==
    /\ \A r \in Reqs : WF_vars(Task(r))
    /\ \A a \in Asks : WF_vars(a \in DOMAIN ask /\ AskTask(a))

FairSpec == Spec /\ Fairness

-----------------------------------------------------------------------------
(***************************************************************************)
(* Properties.                                                             *)
(***************************************************************************)

\* A tool runs on the user's word only: an ask is approved when the run was
\* started with auto_approve or is a chat, when the user allowed this very ask,
\* or allowed the tool for good in an ask of the same session (ask and decide).
\* No timeout, cancel or end of another run approves anything.
ApprovedByUser ==
    \A a \in DOMAIN ask :
        ask[a].result = "yes" =>
            \/ AutoApproved(ask[a].run)
            \/ a \in allowed
            \/ \E b \in allowed :
                 /\ ask[b].what = ask[a].what /\ ask[b].what \in Tools
                 /\ SessionOf(ask[b].run) = SessionOf(ask[a].run)

\* The hub lists no ask of a session whose runs have all finished: the entries
\* that a cancelled turn leaves behind go when the session's runs end
\* (finish_run), which refuses those of another run of the session too.
NoAskOutlivesRuns ==
    \A a \in pending :
        \E r \in Reqs : /\ SessionOf(r) = SessionOf(ask[a].run)
                        /\ pc[r] \in {"turn", "released", "saving", "saved",
                                      "closing"}

\* Turns of one session never overlap (the mutex of SessionHandle), although
\* sessions leave memory and come back under a new handle.  The one exception
\* is what load_or_get_session allows: two requests that load it at once.
TurnsSerialize ==
    \A q, r \in Reqs :
        q # r /\ pc[q] = "turn" /\ pc[r] = "turn" /\ SessionOf(q) = SessionOf(r)
            => SessionOf(q) \in raced

\* The session the next request gets has the message of every turn that ended,
\* except for what a rewind removed and for sessions that were loaded twice at
\* once: eviction, saves that fail, keep-alives and reloads lose none
\* (evictable, save_session).
NoTurnLost ==
    \A r \in Reqs :
        /\ pc[r] = "ended" /\ req[r].kind # "rewind"
        /\ r \notin rewound /\ SessionOf(r) \notin raced
        => LET s == SessionOf(r)
               current == IF sessions[s] # None THEN content[sessions[s]]
                          ELSE db[s]
           IN  \E i \in DOMAIN current : current[i] = r

\* Every request is answered to its end: no run waits for ever for the session,
\* for an ask that nobody answers, or for the end of its event stream.  Not so
\* the stream of a run that panicked itself; another's panic blocks nobody.
StreamsEnd ==
    \A r \in Reqs :
        pc[r] # "idle" ~> pc[r] \in {"ended", "refused", "panicked"}
=============================================================================
