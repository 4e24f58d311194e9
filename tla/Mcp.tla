-------------------------------- MODULE Mcp ---------------------------------
(***************************************************************************)
(* MCP servers in the TUI: they connect in the background and their tools  *)
(* are installed in two stages (crates/agent/src/mcp_load.rs, agent/src/   *)
(* agent/mod.rs, tui/src/run/mcp_defer.rs), and the turns of several       *)
(* sessions call them through one client per server, over stdio            *)
(* (mcp/src/client.rs) or legacy HTTP+SSE (mcp/src/http.rs).               *)
(*                                                                         *)
(* Concurrent are the load's task, the UI, one turn per session and the    *)
(* servers.  A client is behind a fair mutex, `queue`; its head holds it.  *)
(* A line on a pipe keeps what the reader does with it.                    *)
(***************************************************************************)
EXTENDS Naturals, Sequences, FiniteSets, SequencesExt

CONSTANTS
    Servers,    \* configured MCP servers,
    Stdio,      \* of them those on stdio; the others are on legacy SSE
    Sessions,   \* sessions of the TUI
    InCap,      \* lines that fit the pipe to a stdio server
    OutCap,     \* lines that fit the pipe or stream from a server
    MaxReqs,    \* per server its requests,
    MaxNoise,   \* and the notifications and requests of its own
    NoServer

ASSUME McpAssumption ==
    /\ Stdio \subseteq Servers /\ NoServer \notin Servers
    /\ {InCap, OutCap} \subseteq Nat \ {0}
    /\ {MaxReqs, MaxNoise} \subseteq [Servers -> Nat]

VARIABLES
    conn,       \* per server how its start went
    stage,      \* PendingMcp: which load is being made ("fast"; "rest" and
                \* "register"), is ready ("first", "second"), "failed", or
                \* none is left
    first,      \* the servers of the first load
    unseen,     \* those whose client the second load has still to lock
    reported,   \* how often the UI was told that a server did not connect
    tools,      \* per session the servers whose tools its agent has
    turn,       \* per session "idle", "turn", or where its call is
    call,       \* per session the server and the id of its call
    queue,      \* per server who holds its client, and who waits for it
    ahead,      \* who is before the second load in the queue it waits in
    next_id,    \* per server
    stdin,      \* lines to the server,
    stdout,     \* lines from it
    torn,       \* servers whose input ends in a piece of a line
    work,       \* per server the requests it read and has not answered
    dead,       \* servers that exited
    noise       \* per server how much of its own it has sent

loadVars == <<conn, stage, first, unseen, reported, tools>>
pipeVars == <<stdin, stdout, torn, work, dead, noise>>
vars == <<loadVars, turn, call, queue, ahead, next_id, pipeVars>>

NoCall == [server |-> NoServer, id |-> 0]

InWait == {"lock", "wait"}

Lines(s) == ({"answer"} \X (1 .. MaxReqs[s]))
              \cup ({"note", "ping", "piece", "no id"} \X {0})

TypeOK ==
    /\ conn \in [Servers -> {"starting", "up", "failed"}]
    /\ stage \in {"fast", "first", "rest", "register", "second", "failed", "none"}
    /\ first \subseteq Servers /\ unseen \subseteq Servers
    /\ ahead \subseteq Sessions
    /\ reported \in [Servers -> 0 .. 2]
    /\ tools \in [Sessions -> SUBSET Servers]
    /\ turn \in [Sessions -> {"idle", "turn"} \cup InWait]
    /\ \A i \in Sessions :
         IF turn[i] \in InWait
         THEN /\ call[i].server \in Servers
              /\ call[i].id \in 0 .. MaxReqs[call[i].server]
         ELSE call[i] = NoCall
    /\ \A s \in Servers :
         /\ queue[s] \in Seq(Sessions) /\ next_id[s] \in 1 .. MaxReqs[s] + 1
         /\ stdout[s] \in Seq(Lines(s)) /\ Len(stdout[s]) <= OutCap
         /\ work[s] \subseteq 1 .. MaxReqs[s]
         /\ s \in Stdio => Len(stdin[s]) <= InCap
         /\ noise[s] \in 0 .. MaxNoise[s]
    /\ torn \subseteq Stdio /\ dead \subseteq Servers

-----------------------------------------------------------------------------
(***************************************************************************)
(* The load.                                                               *)
(***************************************************************************)

Starting == {s \in Servers : conn[s] = "starting"}
Connected == {s \in Servers : conn[s] = "up"}
Failed == {s \in Servers : conn[s] = "failed"}

\* start_server: connected and its tools listed, or an error, or the limit.  The
\* starts go on only while the load's task polls them.
StartServer(s, how) ==
    /\ stage \in {"fast", "rest"} /\ conn[s] = "starting"
    /\ how \in {"up", "failed"}
    /\ conn' = [conn EXCEPT ![s] = how]
    /\ UNCHANGED <<stage, first, unseen, reported, tools, turn, call, queue,
                   ahead, next_id, pipeVars>>

\* connect_servers: the fast window is over, or every server is done.  The load
\* then locks each client, which nobody else has yet.
FastWindow ==
    /\ stage = "fast"
    /\ stage' = "first"
    /\ first' = Servers \ Starting
    /\ UNCHANGED <<conn, unseen, reported, tools, turn, call, queue, ahead,
                   next_id, pipeVars>>

\* Mutant: the slower servers are waited for until they connect.
RestConnected ==
    /\ stage = "rest" /\ Connected = Servers
    /\ stage' = "register" /\ unseen' = Connected
    /\ UNCHANGED <<conn, first, reported, tools, turn, call, queue, ahead,
                   next_id, pipeVars>>

\* The slower servers are done; the second load is built from all of them.
RestDone ==
    /\ stage = "rest" /\ Starting = {}
    /\ stage' = "register" /\ unseen' = Connected
    /\ UNCHANGED <<conn, first, reported, tools, turn, call, queue, ahead,
                   next_id, pipeVars>>

\* register_resource_tools locks one client after the other, behind the calls
\* that hold it or wait for it.  What it reads there takes no time, so it keeps
\* nobody behind it waiting.
LockNext(s) ==
    /\ stage = "register" /\ ahead = {} /\ s \in unseen
    /\ unseen' = unseen \ {s}
    /\ ahead' = {i \in Sessions : call[i].server = s}
    /\ UNCHANGED <<conn, stage, first, reported, tools, turn, call, queue,
                   next_id, pipeVars>>

\* It had the last client: the second load is complete.
Registered ==
    /\ stage = "register" /\ ahead = {} /\ unseen = {}
    /\ stage' = "second"
    /\ UNCHANGED <<conn, first, unseen, reported, tools, turn, call, queue,
                   ahead, next_id, pipeVars>>

\* The load's task panics, where panics unwind (a release build aborts): install
\* gets a JoinError and leaves everything as it is, the rest included.
LoadPanics ==
    /\ stage \in {"fast", "rest", "register"}
    /\ stage' = "failed" /\ unseen' = {} /\ ahead' = {}
    /\ UNCHANGED <<conn, first, reported, tools, turn, call, queue, next_id,
                   pipeVars>>

Ready == stage \in {"first", "second"}

\* Mutant: the second load has the slower servers only.
LoadedSlower == IF stage = "first" THEN first \cap Connected
                ELSE Connected \ first

\* The servers in the load that is ready: the second one has them all.
Loaded == IF stage = "first" THEN first \cap Connected ELSE Connected

\* The failures it reports: the second one only the slower servers'.
Failures == IF stage = "first" THEN first \cap Failed ELSE Failed \ first

\* install: every idle session gets the load; the rest starts to be polled.
Install ==
    /\ reported' = [s \in Servers |->
                      IF s \in Failures THEN reported[s] + 1 ELSE reported[s]]
    /\ tools' = [i \in Sessions |->
                   IF turn[i] = "idle" /\ Loaded # {} THEN Loaded ELSE tools[i]]
    /\ stage' = IF stage = "first" /\ first # Servers THEN "rest" ELSE "none"
    /\ UNCHANGED <<conn, first, unseen>>

\* poll, on every round of the UI's loop: when no agent is out on a turn.
Poll ==
    /\ Ready
    /\ \A i \in Sessions : turn[i] = "idle"
    /\ Install
    /\ UNCHANGED <<turn, call, queue, ahead, next_id, pipeVars>>

\* A turn starts behind `wait`, which installs a load that is ready or becomes
\* ready within TURN_WAIT, whoever else is busy.
StartTurn(i) ==
    /\ turn[i] = "idle"
    /\ IF Ready THEN Install ELSE UNCHANGED loadVars
    /\ turn' = [turn EXCEPT ![i] = "turn"]
    /\ UNCHANGED <<call, queue, ahead, next_id, pipeVars>>

EndTurn(i) ==
    /\ turn[i] = "turn"
    /\ turn' = [turn EXCEPT ![i] = "idle"]
    /\ UNCHANGED <<loadVars, call, queue, ahead, next_id, pipeVars>>

-----------------------------------------------------------------------------
(***************************************************************************)
(* Calls of tools.                                                         *)
(***************************************************************************)

Holds(i) == queue[call[i].server] # <<>> /\ Head(queue[call[i].server]) = i

\* The call is over: the mutex goes to the next, the session to `where`.
Release(i, where) ==
    LET s == call[i].server
        n == CHOOSE k \in 1 .. Len(queue[s]) : queue[s][k] = i
    IN  /\ queue' = [queue EXCEPT ![s] = RemoveAt(@, n)]
        /\ ahead' = ahead \ {i}
        /\ call' = [call EXCEPT ![i] = NoCall]
        /\ turn' = [turn EXCEPT ![i] = where]

\* call_mcp_tool asks for the client.
CallTool(i, s) ==
    /\ turn[i] = "turn" /\ s \in tools[i]
    /\ next_id[s] + Len(queue[s]) <= MaxReqs[s]
    /\ turn' = [turn EXCEPT ![i] = "lock"]
    /\ call' = [call EXCEPT ![i] = [server |-> s, id |-> 0]]
    /\ queue' = [queue EXCEPT ![s] = Append(@, i)]
    /\ UNCHANGED <<loadVars, ahead, next_id, pipeVars>>

\* send_request: the next id, and the line is written (posted, on SSE).  Behind
\* a piece of another line it is no line of its own.
SendRequest(i) ==
    LET s == call[i].server
    IN  /\ turn[i] = "lock" /\ Holds(i) /\ s \notin dead
        /\ s \in Stdio => Len(stdin[s]) < InCap
        /\ call' = [call EXCEPT ![i].id = next_id[s]]
        /\ next_id' = [next_id EXCEPT ![s] = @ + 1]
        /\ stdin' = [stdin EXCEPT ![s] =
                       Append(@, IF s \in torn THEN 0 ELSE next_id[s])]
        /\ torn' = torn \ {s}
        /\ turn' = [turn EXCEPT ![i] = "wait"]
        /\ UNCHANGED <<loadVars, queue, ahead, stdout, work, dead, noise>>

\* The call ends without a line read: the server is gone or, on SSE, the post is
\* refused or answered in its own body (unwrap_rpc only warns of another id
\* there), or the answer takes longer than 60 s.  Its id is used up.
CallCut(i) ==
    LET s == call[i].server
    IN  /\ \/ /\ turn[i] = "lock" /\ Holds(i) /\ (s \in dead \/ s \notin Stdio)
              /\ next_id' = [next_id EXCEPT ![s] = @ + 1]
           \/ /\ turn[i] = "wait" /\ s \in dead /\ stdout[s] = <<>>
              /\ UNCHANGED next_id
           \/ /\ turn[i] = "wait" /\ s \notin Stdio
              /\ UNCHANGED next_id
        /\ Release(i, "turn")
        /\ UNCHANGED <<loadVars, pipeVars>>

\* Mutant: the first answer that comes is taken for the answer.
OwnLineAny(i, line) == line[1] = "answer"

\* The answer to the call's own request.
OwnLine(i, line) == line = <<"answer", call[i].id>>

\* read_stdio_response and wait_for_response_until: the next line ends the
\* call, or is skipped.  A stdio server's request is answered first; a line
\* without an id fails the call.
ReadLine(i) ==
    LET s == call[i].server
        line == Head(stdout[s])
        answers == line[1] = "ping" /\ s \in Stdio
    IN  /\ turn[i] = "wait" /\ stdout[s] # <<>>
        /\ answers => Len(stdin[s]) < InCap \/ s \in dead
        /\ stdout' = [stdout EXCEPT ![s] = Tail(@)]
        /\ stdin' = IF answers /\ s \notin dead
                    THEN [stdin EXCEPT ![s] = Append(@, 0)] ELSE stdin
        /\ torn' = IF answers THEN torn \ {s} ELSE torn
        /\ IF OwnLine(i, line) \/ line[1] = "no id" \/ (answers /\ s \in dead)
           THEN Release(i, "turn")
           ELSE UNCHANGED <<turn, call, queue, ahead>>
        /\ UNCHANGED <<loadVars, next_id, work, dead, noise>>

\* Mutant: the client stays locked when its call is cancelled.
CancelLocked(i) ==
    /\ turn[i] \in InWait
    /\ call' = [call EXCEPT ![i] = NoCall]
    /\ turn' = [turn EXCEPT ![i] = "idle"]
    /\ UNCHANGED <<loadVars, queue, ahead, next_id, pipeVars>>

\* Esc drops the call's future wherever it waits.  On stdio, a write that did
\* not fit, of the request or of the answer to the server's own, may leave a
\* piece of its line behind; a line that was being read loses its beginning.
Cancel(i) ==
    LET s == call[i].server
    IN  /\ turn[i] \in InWait
        /\ Release(i, "idle")
        /\ \/ UNCHANGED <<stdout, torn, next_id>>
           \/ /\ turn[i] = "lock" /\ Holds(i)
              /\ s \in Stdio /\ Len(stdin[s]) = InCap
              /\ torn' \in {torn, torn \cup {s}}
              /\ next_id' = [next_id EXCEPT ![s] = @ + 1]
              /\ UNCHANGED stdout
           \/ /\ turn[i] = "wait" /\ s \in Stdio /\ Len(stdin[s]) = InCap
              /\ stdout[s] # <<>> /\ Head(stdout[s])[1] = "ping"
              /\ stdout' = [stdout EXCEPT ![s] = Tail(@)]
              /\ torn' \in {torn, torn \cup {s}}
              /\ UNCHANGED next_id
           \/ /\ turn[i] = "wait" /\ s \in Stdio /\ stdout[s] # <<>>
              /\ stdout' = [stdout EXCEPT ![s] = <<<<"piece", 0>>>> \o Tail(@)]
              /\ UNCHANGED <<torn, next_id>>
        /\ UNCHANGED <<loadVars, stdin, work, dead, noise>>

-----------------------------------------------------------------------------
(***************************************************************************)
(* A server (external).  It may answer in any order, but does one thing at *)
(* a time: while its output is full it reads nothing.                      *)
(***************************************************************************)

Room(s) == s \notin dead /\ Len(stdout[s]) < OutCap

Say(s, line) == stdout' = [stdout EXCEPT ![s] = Append(@, line)]

\* It reads a request (an id), or something that is none: an answer to its
\* ping, or two lines run together, which it ignores or answers with an error
\* that has no id.
ServerReads(s) ==
    /\ Room(s) /\ stdin[s] # <<>>
    /\ stdin' = [stdin EXCEPT ![s] = Tail(@)]
    /\ IF Head(stdin[s]) # 0
       THEN /\ work' = [work EXCEPT ![s] = @ \cup {Head(stdin[s])}]
            /\ UNCHANGED stdout
       ELSE UNCHANGED work /\ (UNCHANGED stdout \/ Say(s, <<"no id", 0>>))
    /\ UNCHANGED <<loadVars, turn, call, queue, ahead, next_id, torn, dead,
                   noise>>

ServerAnswers(s, id) ==
    /\ Room(s) /\ id \in work[s]
    /\ work' = [work EXCEPT ![s] = @ \ {id}]
    /\ Say(s, <<"answer", id>>)
    /\ UNCHANGED <<loadVars, turn, call, queue, ahead, next_id, stdin, torn,
                   dead, noise>>

ServerNoise(s, what) ==
    /\ Room(s) /\ conn[s] = "up" /\ noise[s] < MaxNoise[s]
    /\ what \in {"note", "ping"}
    /\ noise' = [noise EXCEPT ![s] = @ + 1]
    /\ Say(s, <<what, 0>>)
    /\ UNCHANGED <<loadVars, turn, call, queue, ahead, next_id, stdin, torn,
                   work, dead>>

ServerDies(s) ==
    /\ s \notin dead /\ conn[s] = "up"
    /\ dead' = dead \cup {s}
    /\ stdin' = [stdin EXCEPT ![s] = <<>>]
    /\ work' = [work EXCEPT ![s] = {}]
    /\ UNCHANGED <<loadVars, turn, call, queue, ahead, next_id, stdout, torn,
                   noise>>

-----------------------------------------------------------------------------
Init ==
    /\ conn = [s \in Servers |-> "starting"]
    /\ stage = "fast" /\ first = {} /\ unseen = {} /\ ahead = {}
    /\ reported = [s \in Servers |-> 0]
    /\ tools = [i \in Sessions |-> {}]
    /\ turn = [i \in Sessions |-> "idle"]
    /\ call = [i \in Sessions |-> NoCall]
    /\ queue = [s \in Servers |-> <<>>]
    /\ next_id = [s \in Servers |-> 1]
    /\ stdin = [s \in Servers |-> <<>>] /\ stdout = [s \in Servers |-> <<>>]
    /\ torn = {} /\ dead = {}
    /\ work = [s \in Servers |-> {}]
    /\ noise = [s \in Servers |-> 0]

Load ==
    \/ \E s \in Servers, how \in {"up", "failed"} : StartServer(s, how)
    \/ FastWindow \/ RestDone \/ Registered \/ Poll
    \/ \E s \in Servers : LockNext(s)

\* What a call does by itself.
Proceed(i) == SendRequest(i) \/ CallCut(i) \/ ReadLine(i)

Serve(s) == ServerReads(s) \/ \E id \in 1 .. MaxReqs[s] : ServerAnswers(s, id)

Next ==
    \/ Load \/ LoadPanics
    \/ \E i \in Sessions :
         \/ StartTurn(i) \/ EndTurn(i) \/ Cancel(i) \/ Proceed(i)
         \/ \E s \in Servers : CallTool(i, s)
    \/ \E s \in Servers :
         \/ Serve(s) \/ ServerDies(s)
         \/ \E what \in {"note", "ping"} : ServerNoise(s, what)

Spec == Init /\ [][Next]_vars

\* The tasks are scheduled, a start ends within its limit, turns end, and a
\* server that lives reads and answers.  Nobody has to press Esc.
Fairness ==
    /\ WF_vars(Load)
    /\ \A i \in Sessions : WF_vars(EndTurn(i)) /\ WF_vars(Proceed(i))
    /\ \A s \in Servers : WF_vars(Serve(s))

FairSpec == Spec /\ Fairness

-----------------------------------------------------------------------------
(***************************************************************************)
(* Properties.                                                             *)
(***************************************************************************)

\* The requests on their way to a server, with it, and on their way back.
InFlight(s) ==
    Range(stdin[s]) \cup work[s]
      \cup {line[2] : line \in {l \in Range(stdout[s]) : l[1] = "answer"}}

\* A call that ends with an answer gets the one answer to its own request,
\* whatever the server still sends for calls that were cancelled or timed out
\* before it: no other call was reading, and no second answer to the request is
\* under way (read_stdio_response, wait_for_response_until).
OwnAnswer ==
    [][\A i \in Sessions, s \in Servers :
         /\ turn[i] = "wait" /\ turn'[i] = "turn" /\ call[i].server = s
         /\ stdout'[s] # stdout[s] /\ Head(stdout[s])[1] = "answer"
         => /\ Head(stdout[s])[2] = call[i].id
            /\ \A j \in Sessions \ {i} : turn[j] = "wait" => call[j].server # s
            /\ call[i].id \notin InFlight(s)']_vars

\* The two installs add up, whichever of poll and wait makes them: neither takes
\* a tool from a session, and after the last one, unless the load's task
\* panicked, each server that did not connect has been reported exactly once
\* (begin_mcp_load_staged, absorb).
InstallsAddUp ==
    [][/\ \A i \in Sessions : tools[i] \subseteq tools'[i]
       /\ stage' = "none" =>
            \A s \in Servers :
                reported'[s] = IF conn'[s] = "failed" THEN 1 ELSE 0]_vars

\* A call waits for room in the pipe to its server, to write its request or to
\* answer the server's.  Nobody reads the server's output meanwhile, so a
\* server that writes before it reads again waits too, for ever.
Blocked(i) ==
    LET s == call[i].server
    IN  /\ s \in Stdio /\ Len(stdin[s]) = InCap
        /\ \/ turn[i] = "lock" /\ Holds(i)
           \/ /\ turn[i] = "wait" /\ stdout[s] # <<>>
              /\ Head(stdout[s])[1] = "ping"

\* No call stays blocked, and no cancelled one left a piece of its line behind:
\* the server takes that and the next request for one line, and neither is
\* answered.  A stdio call has no time limit.
PipesFlow == [](torn = {}) /\ \A i \in Sessions : []<>~Blocked(i)

\* A server that never connects holds back nobody: every server ends up installed
\* or reported, although installs wait until agents are back from their turns
\* and the second load waits for the client of every server of the first.  A
\* stdio call that hangs there does hold it back, so the pipes are to flow
\* (connect_servers, register_resource_tools, poll).
LoadEnds == PipesFlow => <>(stage \in {"none", "failed"})

\* Every call comes back then: calls cancelled before it, a dead server and what
\* a server sends by itself hold up no later call (read_stdio_response).
CallsReturn == PipesFlow => \A i \in Sessions : []<>(turn[i] \notin InWait)
=============================================================================
