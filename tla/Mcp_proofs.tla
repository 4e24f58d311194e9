----------------------------- MODULE Mcp_proofs -----------------------------
(***************************************************************************)
(* Proofs for the MCP client: the two stages of the load add up, and a     *)
(* call ends with the one answer to its own request, for any servers,      *)
(* sessions and pipes.                                                     *)
(*                                                                         *)
(* The invariant has a part for the load (LoadInv) and one for the calls   *)
(* (WireInv): who is in the queue for a client, which of them has sent its *)
(* request, and that a request or its answer is in one place at most.      *)
(***************************************************************************)
EXTENDS Mcp, SequenceTheorems, TLAPS

\* The types that the proofs need.
LoadType ==
    /\ conn \in [Servers -> {"starting", "up", "failed"}]
    /\ stage \in {"fast", "first", "rest", "register", "second", "failed", "none"}
    /\ first \subseteq Servers /\ unseen \subseteq Servers
    /\ ahead \subseteq Sessions
    /\ reported \in [Servers -> Nat]
    /\ tools \in [Sessions -> SUBSET Servers]

TurnType == turn \in [Sessions -> {"idle", "turn"} \cup InWait]

\* The servers that the installs so far have told the UI about.
Told == IF stage \in {"fast", "first"} THEN {}
        ELSE IF stage = "none" THEN Servers ELSE first

\* Of these, the ones that did not connect were reported once, and a session has
\* no tools of another server.  A load that is ready has no server that still
\* starts.
LoadInv ==
    /\ \A s \in Servers :
         reported[s] = IF s \in Told /\ conn[s] = "failed" THEN 1 ELSE 0
    /\ \A i \in Sessions : tools[i] \subseteq Told \cap Connected
    /\ IF stage = "fast" THEN first = {} ELSE first \cap Starting = {}
    /\ stage \in {"register", "second", "none"} => Starting = {}

\* The invariant holds at the start.
LEMMA InitLoad == Init => LoadType /\ LoadInv
  BY DEF Init, LoadType, LoadInv, Told

\* An install keeps the invariant, takes no tool from a session and, when it is
\* the last one, leaves every failure reported once.
LEMMA InstallAddsUp ==
    ASSUME LoadType, LoadInv, Ready, Install, ahead' = ahead
    PROVE  /\ LoadType' /\ LoadInv'
           /\ \A i \in Sessions : tools[i] \subseteq tools'[i]
           /\ stage' = "none" =>
                \A s \in Servers :
                    reported'[s] = IF conn'[s] = "failed" THEN 1 ELSE 0
  <1>1. /\ reported' \in [Servers -> Nat]
        /\ tools' \in [Sessions -> SUBSET Servers]
        /\ stage' \in {"rest", "none"}
    BY DEF LoadType, Install, Loaded, Connected
  <1>2. \A i \in Sessions : tools[i] \subseteq Loaded
    BY DEF LoadType, LoadInv, Loaded, Told, Ready
  <1>3. /\ UNCHANGED <<conn, first, unseen>> /\ Starting' = Starting
        /\ Connected' = Connected
    BY DEF Install, Starting, Connected
  <1>4. Told' = IF stage = "first" /\ first # Servers THEN first ELSE Servers
    BY <1>1, <1>3 DEF Told, Install
  <1>5. \A s \in Servers :
          reported'[s] = IF s \in Told' /\ conn[s] = "failed" THEN 1 ELSE 0
    BY <1>3, <1>4 DEF LoadType, LoadInv, Install, Failures, Failed, Told, Ready
  <1>6. \A i \in Sessions : tools'[i] \subseteq Told' \cap Connected
    BY <1>2, <1>3, <1>4 DEF LoadType, LoadInv, Install, Loaded, Ready,
       Connected
  <1>7. /\ first \cap Starting = {}
        /\ stage' = "none" => Starting = {}
    BY <1>1 DEF LoadInv, Install, Ready, Starting
  <1>8. \A i \in Sessions : tools[i] \subseteq tools'[i]
    BY <1>2 DEF Install
  <1>9. LoadInv'
    BY <1>1, <1>3, <1>5, <1>6, <1>7 DEF LoadInv
  <1>10. stage' = "none" => Told' = Servers
    BY DEF Told
  <1> QED
    BY <1>1, <1>3, <1>5, <1>8, <1>9, <1>10 DEF LoadType

\* A step that does not install keeps what is reported and what is installed.
LEMMA NextLoad ==
    ASSUME LoadType, LoadInv, [Next]_vars
    PROVE  /\ LoadType' /\ LoadInv'
           /\ \A i \in Sessions : tools[i] \subseteq tools'[i]
           /\ stage' = "none" =>
                \A s \in Servers :
                    reported'[s] = IF conn'[s] = "failed" THEN 1 ELSE 0
  <1> DEFINE Goal ==
        /\ LoadType' /\ LoadInv'
        /\ \A i \in Sessions : tools[i] \subseteq tools'[i]
        /\ stage' = "none" =>
             \A s \in Servers :
                 reported'[s] = IF conn'[s] = "failed" THEN 1 ELSE 0
  <1>1. CASE Ready /\ Install /\ ahead' = ahead
    BY <1>1, InstallAddsUp
  <1>2. CASE UNCHANGED loadVars /\ ahead' \subseteq ahead
    BY <1>2 DEF loadVars, LoadType, LoadInv, Told, Connected, Starting
  <1>3. ASSUME NEW s \in Servers, NEW how \in {"up", "failed"},
               StartServer(s, how)
        PROVE  Goal
    <2>1. /\ stage \in {"fast", "rest"} /\ conn[s] = "starting"
          /\ conn' = [conn EXCEPT ![s] = how]
          /\ UNCHANGED <<stage, first, unseen, ahead, reported, tools>>
      BY <1>3 DEF StartServer
    <2>2. Told' = Told /\ s \notin Told
      BY <2>1 DEF Told, LoadInv, Starting
    <2>3. \A t \in Servers : t # s => conn'[t] = conn[t]
      BY <2>1 DEF LoadType
    <2>4. Connected \subseteq Connected' /\ Starting' \subseteq Starting
      BY <2>1, <2>3 DEF Connected, Starting, LoadType
    <2>5. LoadType'
      BY <2>1 DEF LoadType
    <2>6. LoadInv'
      BY <2>1, <2>2, <2>3, <2>4 DEF LoadInv
    <2> QED
      BY <2>1, <2>5, <2>6
  <1>4. ASSUME \/ FastWindow \/ RestDone \/ Registered \/ LoadPanics
               \/ \E s \in Servers : LockNext(s)
        PROVE  Goal
    <2>1. /\ UNCHANGED <<conn, reported, tools>>
          /\ Starting' = Starting /\ Connected' = Connected
          /\ unseen' \subseteq Servers /\ ahead' \subseteq Sessions
      BY <1>4 DEF FastWindow, RestDone, Registered, LoadPanics, LockNext,
         Starting, Connected, LoadType
    <2>2. \/ stage = "fast" /\ stage' = "first" /\ first' = Servers \ Starting
          \/ /\ stage = "rest" /\ stage' = "register" /\ first' = first
             /\ Starting = {}
          \/ /\ stage = "register" /\ stage' \in {"register", "second"}
             /\ first' = first
          \/ /\ stage \in {"fast", "rest", "register"} /\ stage' = "failed"
             /\ first' = first
      BY <1>4 DEF FastWindow, RestDone, Registered, LoadPanics, LockNext
    <2>3. Told' = Told
      BY <2>2 DEF Told, LoadInv
    <2>4. LoadType'
      BY <2>1, <2>2 DEF LoadType
    <2>5. LoadInv'
      BY <2>1, <2>2, <2>3 DEF LoadInv
    <2>6. stage' # "none"
      BY <2>2
    <2> QED
      BY <2>1, <2>4, <2>5, <2>6
  <1>5. CASE \E i \in Sessions : Cancel(i) \/ Proceed(i)
    BY <1>2, <1>5 DEF Cancel, Proceed, SendRequest, CallCut, ReadLine, Release,
       loadVars
  <1> QED
    BY <1>1, <1>2, <1>3, <1>4, <1>5 DEF Next, Load, Poll, StartTurn, EndTurn,
       CallTool, Serve, ServerReads, ServerAnswers, ServerDies, ServerNoise, vars

-----------------------------------------------------------------------------
(***************************************************************************)
(* The lines of one server.                                                *)
(***************************************************************************)

Line == ({"answer"} \X Nat) \cup ({"note", "ping", "piece", "no id"} \X {0})

\* With `in` written to a server, `w` in its hands, `out` on its way back and
\* `next` the id of the next request: no request that has not been sent is
\* there, and none is in two places.
Sound(in, w, out, next) ==
    /\ \A n \in 1 .. Len(in) : in[n] < next /\ in[n] \notin w
    /\ \A m, n \in 1 .. Len(in) : in[m] = in[n] /\ in[m] # 0 => m = n
    /\ w \subseteq 1 .. next - 1
    /\ \A n \in 1 .. Len(out) :
         out[n][1] = "answer" =>
            /\ out[n][2] \in 1 .. next - 1 /\ out[n][2] \notin w
            /\ \A m \in 1 .. Len(in) : in[m] # out[n][2]
            /\ \A m \in 1 .. Len(out) : out[m] = out[n] => m = n

\* What can happen to the lines of a server keeps them sound: an id is used up,
\* a request or an answer to a ping is written,
LEMMA SoundWrite ==
    ASSUME NEW in \in Seq(Nat), NEW w \in SUBSET Nat, NEW out \in Seq(Line),
           NEW next \in Nat \ {0}, Sound(in, w, out, next)
    PROVE  /\ Sound(in, w, out, next + 1)
           /\ Sound(Append(in, 0), w, out, next)
           /\ Sound(Append(in, 0), w, out, next + 1)
           /\ Sound(Append(in, next), w, out, next + 1)
  <1>1. Sound(in, w, out, next + 1)
    BY DEF Sound
  <1>2. ASSUME NEW k \in {0, next}, NEW up \in {next, next + 1}, k < up
        PROVE  Sound(Append(in, k), w, out, up)
    <2>1. /\ Append(in, k) \in Seq(Nat) /\ Len(Append(in, k)) = Len(in) + 1
          /\ \A n \in 1 .. Len(in) : Append(in, k)[n] = in[n]
          /\ Append(in, k)[Len(in) + 1] = k
      OBVIOUS
    <2>2. k \notin w /\ \A n \in 1 .. Len(in) : in[n] = k => k = 0
      BY DEF Sound
    <2>3. \A n \in 1 .. Len(out) : out[n][1] = "answer" => out[n][2] # k
      BY DEF Sound
    <2>4. /\ \A n \in 1 .. Len(in) + 1 :
                Append(in, k)[n] < up /\ Append(in, k)[n] \notin w
          /\ w \subseteq 1 .. up - 1
      BY <1>2, <2>1, <2>2 DEF Sound
    <2>5. \A m, n \in 1 .. Len(in) + 1 :
            Append(in, k)[m] = Append(in, k)[n] /\ Append(in, k)[m] # 0 => m = n
      <3> SUFFICES ASSUME NEW m \in 1 .. Len(in) + 1, NEW n \in 1 .. Len(in) + 1,
                          Append(in, k)[m] = Append(in, k)[n],
                          Append(in, k)[m] # 0
                   PROVE  m = n
        OBVIOUS
      <3>1. CASE m \in 1 .. Len(in) /\ n \in 1 .. Len(in)
        BY <2>1, <3>1 DEF Sound
      <3> QED
        BY <2>1, <2>2, <3>1
    <2>6. \A n \in 1 .. Len(out) :
            out[n][1] = "answer" =>
               /\ out[n][2] \in 1 .. up - 1 /\ out[n][2] \notin w
               /\ \A m \in 1 .. Len(in) + 1 : Append(in, k)[m] # out[n][2]
               /\ \A m \in 1 .. Len(out) : out[m] = out[n] => m = n
      BY SMTT(40), <1>2, <2>1, <2>3 DEF Sound
    <2> QED
      BY <2>1, <2>4, <2>5, <2>6 DEF Sound
  <1> QED
    BY <1>1, <1>2

\* the server reads a request, or a line that is none,
LEMMA SoundRead ==
    ASSUME NEW in \in Seq(Nat), NEW w \in SUBSET Nat, NEW out \in Seq(Line),
           NEW next \in Nat \ {0}, Sound(in, w, out, next), in # <<>>
    PROVE  /\ Head(in) # 0 => Sound(Tail(in), w \cup {Head(in)}, out, next)
           /\ Sound(Tail(in), w, out, next)
  <1>1. /\ Tail(in) \in Seq(Nat) /\ Len(Tail(in)) = Len(in) - 1
        /\ \A n \in 1 .. Len(in) - 1 : Tail(in)[n] = in[n + 1]
        /\ Head(in) = in[1] /\ 1 \in 1 .. Len(in) /\ in[1] \in Nat
    OBVIOUS
  <1>2. Sound(Tail(in), w, out, next)
    BY <1>1 DEF Sound
  <1>3. ASSUME Head(in) # 0
        PROVE  Sound(Tail(in), w \cup {Head(in)}, out, next)
    <2>1. \A n \in 1 .. Len(in) - 1 : Tail(in)[n] # Head(in)
      BY <1>1, <1>3 DEF Sound
    <2>2. Head(in) \in 1 .. next - 1
      BY <1>1, <1>3 DEF Sound
    <2>3. \A n \in 1 .. Len(out) : out[n][1] = "answer" => out[n][2] # Head(in)
      BY <1>1 DEF Sound
    <2> QED
      BY <1>1, <1>2, <2>1, <2>2, <2>3 DEF Sound
  <1> QED
    BY <1>2, <1>3

\* it answers one of the requests it has, or says something else,
LEMMA SoundSay ==
    ASSUME NEW in \in Seq(Nat), NEW w \in SUBSET Nat, NEW out \in Seq(Line),
           NEW next \in Nat \ {0}, Sound(in, w, out, next)
    PROVE  /\ \A id \in w :
                Sound(in, w \ {id}, Append(out, <<"answer", id>>), next)
           /\ \A what \in {"note", "ping", "no id"} :
                Sound(in, w, Append(out, <<what, 0>>), next)
  <1>1. \A line \in Line :
          /\ Append(out, line) \in Seq(Line)
          /\ Len(Append(out, line)) = Len(out) + 1
          /\ \A n \in 1 .. Len(out) : Append(out, line)[n] = out[n]
          /\ Append(out, line)[Len(out) + 1] = line
    OBVIOUS
  <1>2. ASSUME NEW id \in w
        PROVE  Sound(in, w \ {id}, Append(out, <<"answer", id>>), next)
    <2> DEFINE line == <<"answer", id>>
    <2>1. line \in Line /\ line[1] = "answer" /\ line[2] = id
      BY DEF Line
    <2>2. \A n \in 1 .. Len(out) : out[n] # line
      BY <2>1 DEF Sound
    <2>3. /\ id \in 1 .. next - 1
          /\ \A m \in 1 .. Len(in) : in[m] # id
      BY DEF Sound
    <2> HIDE DEF line
    <2>4. \A n \in 1 .. Len(out) + 1 :
            Append(out, line)[n][1] = "answer" =>
               /\ Append(out, line)[n][2] \in 1 .. next - 1
               /\ Append(out, line)[n][2] \notin w \ {id}
               /\ \A m \in 1 .. Len(in) : in[m] # Append(out, line)[n][2]
      BY <1>1, <2>1, <2>3 DEF Sound
    <2>5. \A n \in 1 .. Len(out) + 1 :
            Append(out, line)[n][1] = "answer" =>
               \A m \in 1 .. Len(out) + 1 :
                   Append(out, line)[m] = Append(out, line)[n] => m = n
      BY <1>1, <2>1, <2>2 DEF Sound
    <2>6. Sound(in, w \ {id}, Append(out, line), next)
      BY <1>1, <2>1, <2>4, <2>5 DEF Sound
    <2> QED
      BY <2>6 DEF line
  <1>3. ASSUME NEW line \in Line, line[1] # "answer"
        PROVE  Sound(in, w, Append(out, line), next)
    <2>1. PICK longer \in Seq(Line) :
            /\ longer = Append(out, line) /\ Len(longer) = Len(out) + 1
            /\ \A n \in 1 .. Len(out) : longer[n] = out[n]
            /\ longer[Len(out) + 1] = line
      BY <1>1
    <2>2. \A n \in 1 .. Len(longer) :
            longer[n][1] = "answer" => n \in 1 .. Len(out)
      BY <1>3, <2>1
    <2>3. \A n \in 1 .. Len(longer) :
            longer[n][1] = "answer" =>
               \A m \in 1 .. Len(longer) : longer[m] = longer[n] => m = n
      BY <2>1, <2>2 DEF Sound
    <2>4. Sound(in, w, longer, next)
      BY <2>1, <2>2, <2>3 DEF Sound
    <2> QED
      BY <2>1, <2>4
  <1>4. \A what \in {"note", "ping", "no id"} :
          <<what, 0>> \in Line /\ <<what, 0>>[1] # "answer"
    BY DEF Line
  <1> QED
    BY <1>2, <1>3, <1>4

\* and a line of it is read, or loses its beginning.
LEMMA SoundTake ==
    ASSUME NEW in \in Seq(Nat), NEW w \in SUBSET Nat, NEW out \in Seq(Line),
           NEW next \in Nat \ {0}, Sound(in, w, out, next), out # <<>>
    PROVE  /\ Sound(in, w, Tail(out), next)
           /\ Sound(in, w, <<<<"piece", 0>>>> \o Tail(out), next)
           /\ <<<<"piece", 0>>>> \o Tail(out) \in Seq(Line)
           /\ Len(<<<<"piece", 0>>>> \o Tail(out)) = Len(out)
  <1> DEFINE piece == <<"piece", 0>>
             cut == <<piece>> \o Tail(out)
  <1>1. /\ Tail(out) \in Seq(Line) /\ Len(Tail(out)) = Len(out) - 1
        /\ \A n \in 1 .. Len(out) - 1 : Tail(out)[n] = out[n + 1]
        /\ Head(out) = out[1] /\ 1 \in 1 .. Len(out)
        /\ \A n \in 1 .. Len(out) : out[n] \in Line
    OBVIOUS
  <1>2. piece \in Line /\ piece[1] # "answer"
    BY DEF Line
  <1> HIDE DEF piece
  <1>3. /\ cut \in Seq(Line) /\ Len(cut) = Len(out) /\ cut[1] = piece
        /\ \A n \in 2 .. Len(out) : cut[n] = out[n]
    BY <1>1, <1>2
  <1> HIDE DEF cut
  <1>4. Sound(in, w, Tail(out), next)
    BY <1>1 DEF Sound
  <1>5. Sound(in, w, cut, next)
    <2>1. \A n \in 1 .. Len(out) :
            cut[n][1] = "answer" => n \in 2 .. Len(out) /\ cut[n] = out[n]
      BY <1>2, <1>3
    <2>2. \A n \in 1 .. Len(out) :
            cut[n][1] = "answer" =>
               \A m \in 1 .. Len(out) : cut[m] = cut[n] => m = n
      BY <2>1 DEF Sound
    <2> QED
      BY <1>3, <2>1, <2>2 DEF Sound
  <1> QED
    BY <1>3, <1>4, <1>5 DEF cut, piece

\* Beside an answer there is no other trace of its request.
LEMMA AnswerAlone ==
    ASSUME NEW in \in Seq(Nat), NEW w \in SUBSET Nat, NEW out \in Seq(Line),
           NEW next \in Nat \ {0}, Sound(in, w, out, next), out # <<>>,
           Head(out)[1] = "answer"
    PROVE  /\ Head(out)[2] \notin w
           /\ \A n \in 1 .. Len(in) : in[n] # Head(out)[2]
           /\ \A n \in 1 .. Len(Tail(out)) :
                Tail(out)[n][1] = "answer" => Tail(out)[n][2] # Head(out)[2]
  <1>1. /\ Tail(out) \in Seq(Line) /\ Len(Tail(out)) = Len(out) - 1
        /\ \A n \in 1 .. Len(out) - 1 : Tail(out)[n] = out[n + 1]
        /\ Head(out) = out[1] /\ 1 \in 1 .. Len(out)
        /\ \A n \in 1 .. Len(out) : out[n] \in Line
    OBVIOUS
  <1>2. \A n \in 1 .. Len(out) - 1 :
          out[n + 1][1] = "answer" => out[n + 1][2] # Head(out)[2]
    <2> SUFFICES ASSUME NEW n \in 1 .. Len(out) - 1, out[n + 1][1] = "answer",
                        out[n + 1][2] = out[1][2]
                 PROVE  FALSE
      BY <1>1
    <2>1. out[n + 1] \in Line /\ out[1] \in Line
      BY <1>1
    <2>2. \A l \in Line : l = <<l[1], l[2]>>
      <3>1. \A l \in {"answer"} \X Nat : l = <<l[1], l[2]>>
        OBVIOUS
      <3>2. ASSUME NEW S, NEW l \in S \X {0}
            PROVE  l = <<l[1], l[2]>>
        OBVIOUS
      <3> QED
        BY <3>1, <3>2 DEF Line
    <2>3. out[n + 1] = out[1]
      <3>1. /\ out[n + 1] = <<out[n + 1][1], out[n + 1][2]>>
            /\ out[1] = <<out[1][1], out[1][2]>>
        BY <2>1, <2>2, Zenon
      <3>2. out[1][1] = "answer" /\ out[n + 1][1] = out[1][1]
        BY <1>1
      <3> QED
        BY <3>1, <3>2, Zenon
    <2> QED
      BY <1>1, <2>3 DEF Sound
  <1>3. /\ Head(out)[2] \notin w
        /\ \A n \in 1 .. Len(in) : in[n] # Head(out)[2]
    BY <1>1 DEF Sound
  <1> QED
    BY <1>1, <1>2, <1>3

-----------------------------------------------------------------------------
(***************************************************************************)
(* Calls and the queues for the clients.                                   *)
(***************************************************************************)

WireType ==
    /\ call \in [Sessions -> [server : Servers \cup {NoServer}, id : Nat]]
    /\ queue \in [Servers -> Seq(Sessions)]
    /\ next_id \in [Servers -> Nat \ {0}]
    /\ stdin \in [Servers -> Seq(Nat)]
    /\ stdout \in [Servers -> Seq(Line)]
    /\ work \in [Servers -> SUBSET Nat]
    /\ noise \in [Servers -> Nat]
    /\ torn \subseteq Stdio /\ dead \subseteq Servers

\* A call has a server, and an id from when its request is sent.
CallInv ==
    \A i \in Sessions :
        /\ turn[i] \in {"idle", "turn"} => call[i] = NoCall
        /\ turn[i] = "lock" => call[i].server \in Servers /\ call[i].id = 0
        /\ turn[i] = "wait" =>
             /\ call[i].server \in Servers
             /\ call[i].id \in 1 .. next_id[call[i].server] - 1

\* The sessions in the queue of a server are those with a call of it, each once,
\* and only the first of them has sent its request.
QueueOf(s) ==
    /\ \A m, n \in 1 .. Len(queue[s]) : queue[s][m] = queue[s][n] => m = n
    /\ \A n \in 1 .. Len(queue[s]) :
         /\ turn[queue[s][n]] \in InWait /\ call[queue[s][n]].server = s
         /\ turn[queue[s][n]] = "wait" => n = 1
    /\ \A i \in Sessions :
         turn[i] \in InWait /\ call[i].server = s =>
            \E n \in 1 .. Len(queue[s]) : queue[s][n] = i

\* There are ids left for the calls that have not sent their request.
Unsent(s) == queue[s] = <<>> \/ turn[queue[s][1]] # "wait"

IdsLeft(s) ==
    /\ next_id[s] + Len(queue[s]) <= MaxReqs[s] + 2
    /\ Unsent(s) => next_id[s] + Len(queue[s]) <= MaxReqs[s] + 1

PipeOf(s) ==
    /\ Sound(stdin[s], work[s], stdout[s], next_id[s])
    /\ Len(stdout[s]) <= OutCap
    /\ s \in Stdio => Len(stdin[s]) <= InCap
    /\ noise[s] <= MaxNoise[s]

WireInv ==
    /\ TurnType /\ WireType /\ CallInv
    /\ \A s \in Servers : QueueOf(s) /\ IdsLeft(s) /\ PipeOf(s)

\* A sequence without its n-th element.
LEMMA Removed ==
    ASSUME NEW S, NEW q \in Seq(S), NEW n \in 1 .. Len(q)
    PROVE  /\ RemoveAt(q, n) \in Seq(S) /\ Len(RemoveAt(q, n)) = Len(q) - 1
           /\ \A k \in 1 .. Len(q) - 1 :
                RemoveAt(q, n)[k] = IF k < n THEN q[k] ELSE q[k + 1]
  <1> DEFINE a == SubSeq(q, 1, n - 1)
             b == SubSeq(q, n + 1, Len(q))
  <1>1. /\ a \in Seq(S) /\ Len(a) = n - 1
        /\ \A k \in 1 .. n - 1 : a[k] = q[k]
    OBVIOUS
  <1>2. /\ b \in Seq(S) /\ Len(b) = Len(q) - n
        /\ \A k \in 1 .. Len(q) - n : b[k] = q[n + k]
    OBVIOUS
  <1> HIDE DEF a, b
  <1>3. /\ a \o b \in Seq(S) /\ Len(a \o b) = Len(q) - 1
        /\ \A k \in 1 .. n - 1 : (a \o b)[k] = a[k]
        /\ \A k \in n .. Len(q) - 1 : (a \o b)[k] = b[k - (n - 1)]
    <2>1. /\ a \o b \in Seq(S) /\ Len(a \o b) = Len(a) + Len(b)
          /\ \A k \in 1 .. Len(a) + Len(b) :
               (a \o b)[k] = IF k <= Len(a) THEN a[k] ELSE b[k - Len(a)]
      BY <1>1, <1>2, ConcatProperties
    <2>2. Len(q) \in Nat /\ n \in Nat
      OBVIOUS
    <2> QED
      BY <1>1, <1>2, <2>1, <2>2
  <1>4. \A k \in 1 .. Len(q) - 1 : (a \o b)[k] = IF k < n THEN q[k] ELSE q[k + 1]
    <2> SUFFICES ASSUME NEW k \in 1 .. Len(q) - 1
                 PROVE  (a \o b)[k] = IF k < n THEN q[k] ELSE q[k + 1]
      OBVIOUS
    <2>1. CASE k < n
      <3>1. k \in 1 .. n - 1
        BY <2>1
      <3> QED
        BY <1>1, <1>3, <2>1, <3>1
    <2>2. CASE ~(k < n)
      <3>1. /\ k \in n .. Len(q) - 1 /\ k - (n - 1) \in 1 .. Len(q) - n
            /\ n + (k - (n - 1)) = k + 1
        BY <2>2
      <3> QED
        BY <1>2, <1>3, <2>2, <3>1
    <2> QED
      BY <2>1, <2>2
  <1> QED
    BY <1>3, <1>4 DEF RemoveAt, a, b

\* A session in a call has a server.
LEMMA CallServer ==
    ASSUME WireInv, NEW i \in Sessions, turn[i] \in InWait
    PROVE  call[i].server \in Servers
  BY DEF WireInv, CallInv, InWait

\* The end of a call: its session leaves the queue, and the others keep their
\* order.
LEMMA Released ==
    ASSUME WireInv, NEW i \in Sessions, turn[i] \in InWait,
           NEW t \in Servers, t = call[i].server,
           NEW where \in {"idle", "turn"}, Release(i, where)
    PROVE  /\ turn[i] = "wait" => Holds(i)
           /\ TurnType' /\ queue' \in [Servers -> Seq(Sessions)]
           /\ call' \in [Sessions -> [server : Servers \cup {NoServer}, id : Nat]]
           /\ \A j \in Sessions \ {i} : turn'[j] = turn[j] /\ call'[j] = call[j]
           /\ turn'[i] = where /\ call'[i] = NoCall
           /\ Len(queue'[t]) = Len(queue[t]) - 1
           /\ \A s \in Servers \ {t} :
                queue'[s] = queue[s] /\ (Unsent(s)' <=> Unsent(s))
           /\ \A s \in Servers : QueueOf(s)'
  <1> DEFINE n == CHOOSE k \in 1 .. Len(queue[t]) : queue[t][k] = i
  <1>1. /\ TurnType /\ WireType /\ CallInv
        /\ \A s \in Servers : QueueOf(s)
    BY DEF WireInv
  <1>2. t # NoServer
    BY McpAssumption
  <1>3. n \in 1 .. Len(queue[t]) /\ queue[t][n] = i
    <2>1. \E k \in 1 .. Len(queue[t]) : queue[t][k] = i
      BY <1>1, Zenon DEF QueueOf
    <2> QED
      BY <2>1, Zenon
  <1>4. /\ queue' = [queue EXCEPT ![t] = RemoveAt(queue[t], n)]
        /\ call' = [call EXCEPT ![i] = NoCall]
        /\ turn' = [turn EXCEPT ![i] = where]
    BY DEF Release
  <1> HIDE DEF n
  <1>5. queue[t] \in Seq(Sessions)
    BY <1>1, <1>2 DEF WireType
  <1>6. /\ RemoveAt(queue[t], n) \in Seq(Sessions)
        /\ Len(RemoveAt(queue[t], n)) = Len(queue[t]) - 1
        /\ \A k \in 1 .. Len(queue[t]) - 1 :
             RemoveAt(queue[t], n)[k] =
               IF k < n THEN queue[t][k] ELSE queue[t][k + 1]
    BY <1>3, <1>5, Removed
  <1>7. /\ queue' \in [Servers -> Seq(Sessions)]
        /\ queue'[t] = RemoveAt(queue[t], n)
        /\ \A s \in Servers \ {t} : queue'[s] = queue[s]
    BY <1>1, <1>2, <1>4, <1>6 DEF WireType
  <1>8. /\ TurnType'
        /\ call' \in [Sessions -> [server : Servers \cup {NoServer}, id : Nat]]
        /\ \A j \in Sessions \ {i} : turn'[j] = turn[j] /\ call'[j] = call[j]
        /\ turn'[i] = where /\ call'[i] = NoCall
    BY <1>1, <1>4 DEF TurnType, WireType, NoCall
  <1>9. turn[i] = "wait" => Holds(i)
    BY <1>1, <1>2, <1>3, <1>5 DEF QueueOf, Holds
  <1>10. ASSUME NEW s \in Servers \ {t}
         PROVE  QueueOf(s)' /\ (Unsent(s)' <=> Unsent(s))
    <2>1. queue[s] \in Seq(Sessions)
      BY <1>1 DEF WireType
    <2>2. \A k \in 1 .. Len(queue[s]) :
            queue[s][k] \in Sessions /\ queue[s][k] # i
      BY <1>1, <2>1 DEF QueueOf
    <2>3. QueueOf(s)'
      <3>1. QueueOf(s) /\ queue'[s] = queue[s]
        BY <1>1, <1>7
      <3>2. \A k \in 1 .. Len(queue'[s]) :
              /\ turn'[queue'[s][k]] \in InWait /\ call'[queue'[s][k]].server = s
              /\ turn'[queue'[s][k]] = "wait" => k = 1
        BY <1>8, <2>2, <3>1 DEF QueueOf
      <3>3. \A j \in Sessions :
              turn'[j] \in InWait /\ call'[j].server = s =>
                 \E k \in 1 .. Len(queue'[s]) : queue'[s][k] = j
        BY <1>8, <3>1 DEF QueueOf, InWait
      <3>4. \A k, l \in 1 .. Len(queue'[s]) :
              queue'[s][k] = queue'[s][l] => k = l
        BY <3>1 DEF QueueOf
      <3> QED
        BY <3>2, <3>3, <3>4 DEF QueueOf
    <2>4. queue[s] # <<>> => 1 \in 1 .. Len(queue[s])
      BY <2>1
    <2>5. Unsent(s)' <=> Unsent(s)
      <3>1. queue'[s] = queue[s]
        BY <1>7
      <3>2. queue[s] # <<>> => turn'[queue[s][1]] = turn[queue[s][1]]
        BY <1>8, <2>2, <2>4
      <3> QED
        BY <3>1, <3>2, Zenon DEF Unsent
    <2> QED
      BY <2>3, <2>5
  <1>11. QueueOf(t)'
    <2> DEFINE q == queue[t]
               r == RemoveAt(queue[t], n)
    <2>1. /\ QueueOf(t) /\ q \in Seq(Sessions) /\ Len(q) \in Nat
          /\ \A k \in 1 .. Len(q) : q[k] \in Sessions
      BY <1>1, <1>2, <1>5
    <2>2. \A k \in 1 .. Len(q) - 1 :
            \E l \in 1 .. Len(q) : /\ r[k] = q[l] /\ l # n
                                   /\ l = IF k < n THEN k ELSE k + 1
      <3> SUFFICES ASSUME NEW k \in 1 .. Len(q) - 1
                   PROVE  \E l \in 1 .. Len(q) :
                             /\ r[k] = q[l] /\ l # n
                             /\ l = IF k < n THEN k ELSE k + 1
        OBVIOUS
      <3>1. k \in 1 .. Len(q) /\ k + 1 \in 1 .. Len(q)
        BY <2>1
      <3>2. r[k] = IF k < n THEN q[k] ELSE q[k + 1]
        BY <1>6
      <3>3. n \in Nat /\ k \in Nat
        BY <1>3
      <3> HIDE DEF q, r
      <3>4. CASE k < n
        BY <3>1, <3>2, <3>3, <3>4
      <3>5. CASE ~(k < n)
        BY <3>1, <3>2, <3>3, <3>5
      <3> QED
        BY <3>4, <3>5
    <2>3. \A k \in 1 .. Len(q) - 1 : r[k] \in Sessions \ {i}
      BY <1>3, <2>1, <2>2 DEF QueueOf
    <2>4. \A k, l \in 1 .. Len(q) - 1 : r[k] = r[l] => k = l
      BY <1>3, <2>1, <2>2 DEF QueueOf
    <2>5. \A k \in 1 .. Len(q) - 1 :
            /\ turn[r[k]] \in InWait /\ call[r[k]].server = t
            /\ turn[r[k]] = "wait" => k = 1
      <3> SUFFICES ASSUME NEW k \in 1 .. Len(q) - 1
                   PROVE  /\ turn[r[k]] \in InWait /\ call[r[k]].server = t
                          /\ turn[r[k]] = "wait" => k = 1
        OBVIOUS
      <3>1. PICK l \in 1 .. Len(q) : /\ r[k] = q[l] /\ l # n
                                     /\ l = IF k < n THEN k ELSE k + 1
        BY <2>2
      <3>2. /\ turn[q[l]] \in InWait /\ call[q[l]].server = t
            /\ turn[q[l]] = "wait" => l = 1
        BY <2>1, Zenon DEF QueueOf
      <3>3. l = 1 => k = 1
        BY <1>3, <2>1, <3>1
      <3> QED
        BY <3>1, <3>2, <3>3
    <2>6. \A j \in Sessions \ {i} :
            turn[j] \in InWait /\ call[j].server = t =>
               \E k \in 1 .. Len(q) - 1 : r[k] = j
      <3> SUFFICES ASSUME NEW j \in Sessions \ {i}, turn[j] \in InWait,
                          call[j].server = t
                   PROVE  \E k \in 1 .. Len(q) - 1 : r[k] = j
        OBVIOUS
      <3>1. PICK l \in 1 .. Len(q) : q[l] = j
        BY <2>1 DEF QueueOf
      <3>2. l # n
        BY <1>3, <3>1
      <3>3. CASE l < n
        BY <1>3, <1>6, <2>1, <3>1, <3>3
      <3>4. CASE l > n
        <4>1. l - 1 \in 1 .. Len(q) - 1 /\ r[l - 1] = q[l]
          BY <1>3, <1>6, <2>1, <3>1, <3>4
        <4> QED
          BY <3>1, <4>1
      <3> QED
        BY <1>3, <2>1, <3>1, <3>2, <3>3, <3>4
    <2> HIDE DEF q, r
    <2>7. queue'[t] = r /\ Len(r) = Len(q) - 1
      BY <1>6, <1>7 DEF q, r
    <2>8. turn'[i] \notin InWait
      BY <1>8 DEF InWait
    <2>9. \A k, l \in 1 .. Len(queue'[t]) : queue'[t][k] = queue'[t][l] => k = l
      BY <2>4, <2>7
    <2>10. \A k \in 1 .. Len(queue'[t]) :
             /\ turn'[queue'[t][k]] \in InWait /\ call'[queue'[t][k]].server = t
             /\ turn'[queue'[t][k]] = "wait" => k = 1
      BY <1>8, <2>3, <2>5, <2>7
    <2>11. \A j \in Sessions :
             turn'[j] \in InWait /\ call'[j].server = t =>
                \E k \in 1 .. Len(queue'[t]) : queue'[t][k] = j
      BY <1>8, <2>6, <2>7, <2>8
    <2> QED
      BY <2>9, <2>10, <2>11 DEF QueueOf
  <1> QED
    BY <1>2, <1>6, <1>7, <1>8, <1>9, <1>10, <1>11

LEMMA OneFewer ==
    ASSUME NEW a \in Nat, NEW b \in Nat, NEW c \in Nat
    PROVE  /\ a + b <= c + 2 => a + (b - 1) <= c + 1
           /\ a + b <= c + 1 => (a + 1) + (b - 1) <= c + 1
  OBVIOUS

\* A call uses up an id only when it holds the client.
IdUsed(i, t) ==
    \/ next_id' = next_id
    \/ /\ turn[i] = "lock" /\ Holds(i)
       /\ next_id' = [next_id EXCEPT ![t] = @ + 1]

\* The calls and queues after the end of a call.
LEMMA CallEnded ==
    ASSUME WireInv, NEW i \in Sessions, turn[i] \in InWait,
           NEW t \in Servers, t = call[i].server,
           NEW where \in {"idle", "turn"}, Release(i, where), IdUsed(i, t)
    PROVE  /\ TurnType' /\ CallInv'
           /\ \A s \in Servers : QueueOf(s)' /\ IdsLeft(s)'
           /\ queue' \in [Servers -> Seq(Sessions)]
           /\ call' \in [Sessions -> [server : Servers \cup {NoServer}, id : Nat]]
           /\ next_id' \in [Servers -> Nat \ {0}]
           /\ \A s \in Servers : next_id'[s] \in {next_id[s], next_id[s] + 1}
  <1>1. /\ TurnType /\ WireType /\ CallInv
        /\ \A s \in Servers : QueueOf(s) /\ IdsLeft(s)
    BY DEF WireInv
  <1>2. /\ turn[i] = "wait" => Holds(i)
        /\ TurnType' /\ queue' \in [Servers -> Seq(Sessions)]
        /\ call' \in [Sessions -> [server : Servers \cup {NoServer}, id : Nat]]
        /\ \A j \in Sessions \ {i} : turn'[j] = turn[j] /\ call'[j] = call[j]
        /\ turn'[i] = where /\ call'[i] = NoCall
        /\ Len(queue'[t]) = Len(queue[t]) - 1
        /\ \A s \in Servers \ {t} :
             queue'[s] = queue[s] /\ (Unsent(s)' <=> Unsent(s))
        /\ \A s \in Servers : QueueOf(s)'
    BY Released
  <1>3. /\ next_id' \in [Servers -> Nat \ {0}]
        /\ \A s \in Servers : /\ next_id[s] \in Nat \ {0}
                              /\ next_id'[s] \in {next_id[s], next_id[s] + 1}
        /\ \A s \in Servers \ {t} : next_id'[s] = next_id[s]
        /\ next_id'[t] # next_id[t] => turn[i] = "lock" /\ Holds(i)
    <2>1. next_id \in [Servers -> Nat \ {0}]
      BY <1>1 DEF WireType
    <2>2. CASE next_id' = next_id
      BY <2>1, <2>2
    <2>3. CASE /\ turn[i] = "lock" /\ Holds(i)
               /\ next_id' = [next_id EXCEPT ![t] = @ + 1]
      BY <2>1, <2>3
    <2> QED
      BY <2>2, <2>3 DEF IdUsed
  <1>4. CallInv'
    <2> SUFFICES ASSUME NEW j \in Sessions
                 PROVE  /\ turn'[j] \in {"idle", "turn"} => call'[j] = NoCall
                        /\ turn'[j] = "lock" =>
                             call'[j].server \in Servers /\ call'[j].id = 0
                        /\ turn'[j] = "wait" =>
                             /\ call'[j].server \in Servers
                             /\ call'[j].id \in 1 .. next_id'[call'[j].server] - 1
      BY DEF CallInv
    <2>1. CASE j = i
      BY <1>2, <2>1
    <2>2. CASE j # i
      <3>1. turn'[j] = turn[j] /\ call'[j] = call[j]
        BY <1>2, <2>2
      <3>2. /\ turn[j] \in {"idle", "turn"} => call[j] = NoCall
            /\ turn[j] = "lock" =>
                 call[j].server \in Servers /\ call[j].id = 0
            /\ turn[j] = "wait" =>
                 /\ call[j].server \in Servers
                 /\ call[j].id \in 1 .. next_id[call[j].server] - 1
        BY <1>1 DEF CallInv
      <3>3. call[j].server \in Servers =>
              /\ next_id[call[j].server] \in Nat
              /\ next_id'[call[j].server] \in
                   {next_id[call[j].server], next_id[call[j].server] + 1}
        BY <1>3
      <3> QED
        BY <3>1, <3>2, <3>3
    <2> QED
      BY <2>1, <2>2
  <1>5. \A s \in Servers \ {t} : IdsLeft(s)'
    BY <1>1, <1>2, <1>3 DEF IdsLeft
  <1>6. IdsLeft(t)'
    <2>1. next_id'[t] + Len(queue'[t]) <= MaxReqs[t] + 1
      <3>1. /\ Len(queue[t]) \in Nat /\ MaxReqs[t] \in Nat
            /\ next_id[t] \in Nat /\ Len(queue'[t]) = Len(queue[t]) - 1
        BY <1>1, <1>2, McpAssumption DEF WireType
      <3>2. next_id[t] + Len(queue[t]) <= MaxReqs[t] + 2
        BY <1>1 DEF IdsLeft
      <3>3. CASE next_id'[t] = next_id[t]
        BY <3>1, <3>2, <3>3, OneFewer
      <3>4. CASE next_id'[t] # next_id[t]
        <4>1. queue[t] \in Seq(Sessions) /\ turn[i] = "lock" /\ Holds(i)
          BY <1>1, <1>3, <3>4 DEF WireType
        <4>2. Unsent(t)
          BY <4>1 DEF Unsent, Holds
        <4>3. next_id'[t] = next_id[t] + 1
          BY <1>3, <3>4
        <4>4. next_id[t] + Len(queue[t]) <= MaxReqs[t] + 1
          BY <1>1, <4>2 DEF IdsLeft
        <4> QED
          BY <3>1, <4>3, <4>4, OneFewer
      <3> QED
        BY <3>3, <3>4
    <2>2. /\ next_id'[t] \in Nat /\ Len(queue'[t]) \in Nat
          /\ MaxReqs[t] \in Nat
      BY <1>2, <1>3, McpAssumption
    <2> QED
      BY <2>1, <2>2 DEF IdsLeft
  <1> QED
    BY <1>2, <1>3, <1>4, <1>5, <1>6

\* A pipe nothing happens to, while an id may be used up.
LEMMA PipeKept ==
    ASSUME WireInv, NEW s \in Servers,
           next_id'[s] \in {next_id[s], next_id[s] + 1},
           stdin'[s] = stdin[s], stdout'[s] = stdout[s], work'[s] = work[s],
           noise'[s] = noise[s]
    PROVE  PipeOf(s)'
  <1>1. /\ stdin[s] \in Seq(Nat) /\ work[s] \in SUBSET Nat
        /\ stdout[s] \in Seq(Line) /\ next_id[s] \in Nat \ {0} /\ PipeOf(s)
    BY DEF WireInv, WireType
  <1>2. Sound(stdin[s], work[s], stdout[s], next_id'[s])
    BY <1>1, SoundWrite DEF PipeOf
  <1> QED
    BY <1>1, <1>2 DEF PipeOf

\* What the load, the start and the end of a turn leave alone.
LEMMA WireKept ==
    ASSUME WireInv, UNCHANGED <<turn, call, queue, next_id, pipeVars>>
    PROVE  WireInv'
  <1>1. TurnType' /\ WireType' /\ CallInv'
    BY DEF WireInv, TurnType, WireType, CallInv, pipeVars
  <1>2. ASSUME NEW s \in Servers
        PROVE  QueueOf(s)' /\ IdsLeft(s)' /\ PipeOf(s)'
    <2>1. QueueOf(s)'
      BY DEF WireInv, QueueOf
    <2>2. IdsLeft(s)'
      BY DEF WireInv, IdsLeft, Unsent
    <2> QED
      BY <2>1, <2>2 DEF WireInv, PipeOf, pipeVars
  <1> QED
    BY <1>1, <1>2 DEF WireInv

LEMMA TurnWire ==
    ASSUME WireInv, NEW i \in Sessions, StartTurn(i) \/ EndTurn(i)
    PROVE  WireInv'
  <1>1. /\ TurnType /\ WireType /\ CallInv
        /\ \A s \in Servers : QueueOf(s) /\ IdsLeft(s) /\ PipeOf(s)
    BY DEF WireInv
  <1>2. /\ turn[i] \in {"idle", "turn"} /\ turn'[i] \in {"idle", "turn"}
        /\ \A j \in Sessions \ {i} : turn'[j] = turn[j]
        /\ TurnType' /\ UNCHANGED <<call, queue, next_id, pipeVars>>
    BY <1>1 DEF StartTurn, EndTurn, TurnType
  <1>3. WireType' /\ CallInv'
    BY <1>1, <1>2 DEF WireType, CallInv, pipeVars
  <1>4. ASSUME NEW s \in Servers
        PROVE  QueueOf(s)' /\ IdsLeft(s)' /\ PipeOf(s)'
    <2>1. queue[s] \in Seq(Sessions) /\ queue'[s] = queue[s]
      BY <1>1, <1>2 DEF WireType
    <2>2. \A k \in 1 .. Len(queue[s]) : queue[s][k] \in Sessions \ {i}
      BY <1>1, <1>2, <2>1 DEF QueueOf, InWait
    <2>3. QueueOf(s)'
      BY <1>1, <1>2, <2>1, <2>2 DEF QueueOf, InWait
    <2>4. queue[s] # <<>> => 1 \in 1 .. Len(queue[s])
      BY <2>1
    <2>5. Unsent(s)' <=> Unsent(s)
      BY <1>2, <2>1, <2>2, <2>4 DEF Unsent
    <2>6. IdsLeft(s)'
      BY <1>1, <1>2, <2>1, <2>5 DEF IdsLeft
    <2> QED
      BY <1>1, <1>2, <2>3, <2>6 DEF PipeOf, pipeVars
  <1> QED
    BY <1>2, <1>3, <1>4 DEF WireInv

\* A call begins: its session is the last in the queue.
LEMMA CallToolWire ==
    ASSUME WireInv, NEW i \in Sessions, NEW s \in Servers, CallTool(i, s)
    PROVE  WireInv'
  <1>1. /\ TurnType /\ WireType /\ CallInv
        /\ \A r \in Servers : QueueOf(r) /\ IdsLeft(r) /\ PipeOf(r)
    BY DEF WireInv
  <1>2. /\ turn[i] = "turn" /\ next_id[s] + Len(queue[s]) <= MaxReqs[s]
        /\ turn' = [turn EXCEPT ![i] = "lock"]
        /\ call' = [call EXCEPT ![i] = [server |-> s, id |-> 0]]
        /\ queue' = [queue EXCEPT ![s] = Append(queue[s], i)]
        /\ UNCHANGED <<next_id, stdin, stdout, torn, work, dead, noise>>
    BY DEF CallTool, pipeVars
  <1>3. /\ TurnType' /\ turn'[i] = "lock"
        /\ \A j \in Sessions \ {i} : turn'[j] = turn[j]
    BY <1>1, <1>2 DEF TurnType, InWait
  <1>4. /\ call' \in [Sessions -> [server : Servers \cup {NoServer}, id : Nat]]
        /\ call'[i].server = s /\ call'[i].id = 0
        /\ \A j \in Sessions \ {i} : call'[j] = call[j]
    BY <1>1, <1>2 DEF WireType
  <1>5. /\ queue[s] \in Seq(Sessions) /\ Append(queue[s], i) \in Seq(Sessions)
        /\ Len(Append(queue[s], i)) = Len(queue[s]) + 1
        /\ \A k \in 1 .. Len(queue[s]) : Append(queue[s], i)[k] = queue[s][k]
        /\ Append(queue[s], i)[Len(queue[s]) + 1] = i
    BY <1>1 DEF WireType
  <1>6. /\ queue' \in [Servers -> Seq(Sessions)]
        /\ queue'[s] = Append(queue[s], i)
        /\ \A r \in Servers \ {s} : queue'[r] = queue[r]
    BY <1>1, <1>2, <1>5 DEF WireType
  <1>7. WireType'
    BY <1>1, <1>2, <1>4, <1>6 DEF WireType
  <1>8. CallInv'
    BY <1>1, <1>2, <1>3, <1>4 DEF CallInv
  <1>9. ASSUME NEW r \in Servers
        PROVE  \A k \in 1 .. Len(queue[r]) : queue[r][k] \in Sessions \ {i}
    <2>1. queue[r] \in Seq(Sessions)
      BY <1>1 DEF WireType
    <2> QED
      BY <1>1, <1>2, <2>1 DEF QueueOf, InWait
  <1>10. ASSUME NEW r \in Servers \ {s}
         PROVE  QueueOf(r)' /\ IdsLeft(r)'
    <2>1. queue[r] \in Seq(Sessions) /\ queue'[r] = queue[r] /\ QueueOf(r)
      BY <1>1, <1>6 DEF WireType
    <2>2. QueueOf(r)'
      BY <1>3, <1>4, <1>9, <2>1 DEF QueueOf, InWait
    <2>3. queue[r] # <<>> => 1 \in 1 .. Len(queue[r])
      BY <2>1
    <2>4. Unsent(r)' <=> Unsent(r)
      BY <1>3, <1>9, <2>1, <2>3 DEF Unsent
    <2>5. IdsLeft(r)'
      BY <1>1, <1>2, <2>1, <2>4 DEF IdsLeft
    <2> QED
      BY <2>2, <2>5
  <1>11. QueueOf(s)'
    <2> DEFINE q == queue[s]
    <2>1. /\ QueueOf(s) /\ Len(q) \in Nat
          /\ \A k \in 1 .. Len(q) : q[k] \in Sessions \ {i}
      BY <1>1, <1>5, <1>9
    <2>2. PICK r \in Seq(Sessions) :
            /\ queue'[s] = r /\ Len(r) = Len(q) + 1 /\ r[Len(q) + 1] = i
            /\ \A k \in 1 .. Len(q) : r[k] = q[k]
      BY <1>5, <1>6
    <2>3. \A k \in 1 .. Len(q) + 1 : k \in 1 .. Len(q) \/ k = Len(q) + 1
      BY <2>1
    <2>4. \A k, l \in 1 .. Len(r) : r[k] = r[l] => k = l
      <3> SUFFICES ASSUME NEW k \in 1 .. Len(r), NEW l \in 1 .. Len(r),
                          r[k] = r[l]
                   PROVE  k = l
        OBVIOUS
      <3>1. CASE k \in 1 .. Len(q) /\ l \in 1 .. Len(q)
        BY <2>1, <2>2, <3>1 DEF QueueOf
      <3>2. \A n \in 1 .. Len(q) : r[n] # i
        BY <2>1, <2>2
      <3>3. CASE k = Len(q) + 1
        BY <2>2, <2>3, <3>2, <3>3
      <3>4. CASE l = Len(q) + 1
        BY <2>2, <2>3, <3>2, <3>4
      <3> QED
        BY <2>2, <2>3, <3>1, <3>3, <3>4
    <2>5. \A k \in 1 .. Len(r) :
            /\ turn'[r[k]] \in InWait /\ call'[r[k]].server = s
            /\ turn'[r[k]] = "wait" => k = 1
      <3> SUFFICES ASSUME NEW k \in 1 .. Len(r)
                   PROVE  /\ turn'[r[k]] \in InWait /\ call'[r[k]].server = s
                          /\ turn'[r[k]] = "wait" => k = 1
        OBVIOUS
      <3>1. CASE k \in 1 .. Len(q)
        <4>1. r[k] = q[k] /\ turn'[r[k]] = turn[q[k]] /\ call'[r[k]] = call[q[k]]
          <5>1. r[k] = q[k]
            BY <2>2, <3>1
          <5>2. q[k] \in Sessions /\ q[k] # i
            BY <2>1, <3>1
          <5>3. turn'[q[k]] = turn[q[k]] /\ call'[q[k]] = call[q[k]]
            BY <1>3, <1>4, <5>2
          <5> QED
            BY <5>1, <5>3, Zenon
        <4>2. /\ turn[q[k]] \in InWait /\ call[q[k]].server = s
              /\ turn[q[k]] = "wait" => k = 1
          BY <2>1, <3>1, Zenon DEF QueueOf
        <4> QED
          BY <4>1, <4>2
      <3>2. CASE k = Len(q) + 1
        BY <1>3, <1>4, <2>2, <3>2 DEF InWait
      <3> QED
        BY <2>2, <2>3, <3>1, <3>2
    <2>6. \A j \in Sessions :
            turn'[j] \in InWait /\ call'[j].server = s =>
               \E k \in 1 .. Len(r) : r[k] = j
      <3> SUFFICES ASSUME NEW j \in Sessions, turn'[j] \in InWait,
                          call'[j].server = s
                   PROVE  \E k \in 1 .. Len(r) : r[k] = j
        OBVIOUS
      <3>1. CASE j = i
        <4>1. Len(q) + 1 \in 1 .. Len(r)
          BY <2>1, <2>2
        <4> QED
          BY <2>2, <3>1, <4>1
      <3>2. CASE j # i
        <4>1. PICK k \in 1 .. Len(q) : q[k] = j
          BY <1>3, <1>4, <2>1, <3>2 DEF QueueOf
        <4>2. k \in 1 .. Len(r)
          BY <2>1, <2>2
        <4> QED
          BY <2>2, <4>1, <4>2
      <3> QED
        BY <3>1, <3>2
    <2> QED
      BY <2>2, <2>4, <2>5, <2>6 DEF QueueOf
  <1>12. IdsLeft(s)'
    <2>1. /\ next_id'[s] = next_id[s] /\ next_id[s] \in Nat
          /\ Len(queue'[s]) = Len(queue[s]) + 1 /\ Len(queue[s]) \in Nat
          /\ MaxReqs[s] \in Nat
      BY <1>1, <1>2, <1>5, <1>6, McpAssumption DEF WireType
    <2>2. next_id'[s] + Len(queue'[s]) <= MaxReqs[s] + 1
      BY <1>2, <2>1
    <2> QED
      BY <2>1, <2>2 DEF IdsLeft
  <1>13. \A r \in Servers : PipeOf(r)'
    BY <1>1, <1>2 DEF PipeOf
  <1> QED
    BY <1>3, <1>7, <1>8, <1>10, <1>11, <1>12, <1>13 DEF WireInv

\* The first in the queue sends its request, under an id of its own.
LEMMA SendRequestWire ==
    ASSUME WireInv, NEW i \in Sessions, SendRequest(i)
    PROVE  WireInv'
  <1>1. /\ TurnType /\ WireType /\ CallInv
        /\ \A r \in Servers : QueueOf(r) /\ IdsLeft(r) /\ PipeOf(r)
    BY DEF WireInv
  <1>2. turn[i] = "lock" /\ Holds(i)
    BY DEF SendRequest
  <1>3. PICK s \in Servers : s = call[i].server
    BY <1>2, CallServer DEF InWait
  <1>4. PICK k \in {0, next_id[s]} :
          /\ s \in Stdio => Len(stdin[s]) < InCap
          /\ call' = [call EXCEPT ![i].id = next_id[s]]
          /\ next_id' = [next_id EXCEPT ![s] = next_id[s] + 1]
          /\ stdin' = [stdin EXCEPT ![s] = Append(stdin[s], k)]
          /\ torn' = torn \ {s}
          /\ turn' = [turn EXCEPT ![i] = "wait"]
          /\ UNCHANGED <<queue, stdout, work, dead, noise>>
    BY <1>3 DEF SendRequest
  <1>5. /\ queue[s] \in Seq(Sessions) /\ next_id[s] \in Nat \ {0}
        /\ stdin[s] \in Seq(Nat) /\ work[s] \in SUBSET Nat
        /\ stdout[s] \in Seq(Line)
    BY <1>1 DEF WireType
  <1>6. /\ TurnType' /\ turn'[i] = "wait"
        /\ \A j \in Sessions \ {i} : turn'[j] = turn[j]
    BY <1>1, <1>4 DEF TurnType, InWait
  <1>7. /\ call' \in [Sessions -> [server : Servers \cup {NoServer}, id : Nat]]
        /\ call'[i].server = s /\ call'[i].id = next_id[s]
        /\ \A j \in Sessions \ {i} : call'[j] = call[j]
    BY <1>1, <1>3, <1>4, <1>5 DEF WireType
  <1>8. /\ next_id' \in [Servers -> Nat \ {0}] /\ next_id'[s] = next_id[s] + 1
        /\ \A r \in Servers \ {s} : next_id'[r] = next_id[r]
    BY <1>1, <1>4, <1>5 DEF WireType
  <1>9. /\ stdin' \in [Servers -> Seq(Nat)] /\ stdin'[s] = Append(stdin[s], k)
        /\ \A r \in Servers \ {s} : stdin'[r] = stdin[r]
        /\ Len(stdin'[s]) = Len(stdin[s]) + 1
    BY <1>1, <1>4, <1>5 DEF WireType
  <1>10. WireType'
    BY <1>1, <1>4, <1>7, <1>8, <1>9 DEF WireType
  <1>11. CallInv'
    <2> SUFFICES ASSUME NEW j \in Sessions
                 PROVE  /\ turn'[j] \in {"idle", "turn"} => call'[j] = NoCall
                        /\ turn'[j] = "lock" =>
                             call'[j].server \in Servers /\ call'[j].id = 0
                        /\ turn'[j] = "wait" =>
                             /\ call'[j].server \in Servers
                             /\ call'[j].id \in 1 .. next_id'[call'[j].server] - 1
      BY DEF CallInv
    <2>1. CASE j = i
      BY <1>5, <1>6, <1>7, <1>8, <2>1
    <2>2. CASE j # i
      <3>1. turn'[j] = turn[j] /\ call'[j] = call[j]
        BY <1>6, <1>7, <2>2
      <3>2. /\ turn[j] \in {"idle", "turn"} => call[j] = NoCall
            /\ turn[j] = "lock" =>
                 call[j].server \in Servers /\ call[j].id = 0
            /\ turn[j] = "wait" =>
                 /\ call[j].server \in Servers
                 /\ call[j].id \in 1 .. next_id[call[j].server] - 1
        BY <1>1 DEF CallInv
      <3>3. call[j].server \in Servers =>
              /\ next_id[call[j].server] \in Nat
              /\ next_id'[call[j].server] \in
                   {next_id[call[j].server], next_id[call[j].server] + 1}
        BY <1>1, <1>8 DEF WireType
      <3> QED
        BY <3>1, <3>2, <3>3
    <2> QED
      BY <2>1, <2>2
  <1>12. queue[s] # <<>> /\ queue[s][1] = i /\ 1 \in 1 .. Len(queue[s])
    BY <1>2, <1>3, <1>5 DEF Holds
  <1>13. ASSUME NEW r \in Servers
         PROVE  QueueOf(r)'
    <2>1. /\ queue[r] \in Seq(Sessions) /\ queue'[r] = queue[r] /\ QueueOf(r)
          /\ \A n \in 1 .. Len(queue[r]) : queue[r][n] \in Sessions
      BY <1>1, <1>4 DEF WireType
    <2>2. \A j \in Sessions :
            /\ turn'[j] \in InWait <=> turn[j] \in InWait
            /\ call'[j].server = call[j].server
      BY <1>2, <1>3, <1>6, <1>7 DEF InWait
    <2>3. \A n \in 1 .. Len(queue[r]) : turn'[queue[r][n]] = "wait" => n = 1
      BY <1>3, <1>6, <1>12, <2>1 DEF QueueOf
    <2> QED
      BY <2>1, <2>2, <2>3 DEF QueueOf
  <1>14. ASSUME NEW r \in Servers
         PROVE  IdsLeft(r)'
    <2>1. CASE r = s
      <3>1. next_id[s] + Len(queue[s]) <= MaxReqs[s] + 1
        BY <1>1, <1>2, <1>12 DEF IdsLeft, Unsent
      <3>2. Len(queue[s]) \in Nat /\ MaxReqs[s] \in Nat
        BY <1>5, McpAssumption
      <3>3. next_id'[s] + Len(queue[s]) <= MaxReqs[s] + 2
        BY SMTT(40), <1>5, <1>8, <3>1, <3>2
      <3>4. ~Unsent(s)'
        BY <1>4, <1>6, <1>12 DEF Unsent
      <3> QED
        BY <1>4, <2>1, <3>3, <3>4 DEF IdsLeft
    <2>2. CASE r # s
      <3>1. queue[r] \in Seq(Sessions) /\ queue'[r] = queue[r] /\ QueueOf(r)
        BY <1>1, <1>4 DEF WireType
      <3>2. queue[r] # <<>> => 1 \in 1 .. Len(queue[r])
        BY <3>1
      <3>3. queue[r] # <<>> => queue[r][1] \in Sessions \ {i}
        BY <1>3, <2>2, <3>1, <3>2 DEF QueueOf
      <3>4. Unsent(r)' <=> Unsent(r)
        BY <1>6, <3>1, <3>3 DEF Unsent
      <3> QED
        BY <1>1, <1>8, <2>2, <3>1, <3>4 DEF IdsLeft
    <2> QED
      BY <2>1, <2>2
  <1>15. PipeOf(s)'
    <2>1. Sound(stdin[s], work[s], stdout[s], next_id[s])
      BY <1>1 DEF PipeOf
    <2>2. Sound(Append(stdin[s], k), work[s], stdout[s], next_id[s] + 1)
      BY <1>5, <2>1, SoundWrite
    <2>3. s \in Stdio => Len(stdin'[s]) <= InCap
      BY <1>4, <1>5, <1>9, McpAssumption
    <2> QED
      BY <1>1, <1>4, <1>8, <1>9, <2>2, <2>3 DEF PipeOf
  <1>16. \A r \in Servers \ {s} : PipeOf(r)'
    BY <1>4, <1>8, <1>9, PipeKept
  <1> QED
    BY <1>6, <1>10, <1>11, <1>13, <1>14, <1>15, <1>16 DEF WireInv

\* A call fails.
LEMMA CallCutWire ==
    ASSUME WireInv, NEW i \in Sessions, CallCut(i)
    PROVE  WireInv'
  <1>1. turn[i] \in InWait /\ Release(i, "turn") /\ UNCHANGED pipeVars
    BY DEF CallCut, InWait
  <1>2. PICK t \in Servers : t = call[i].server
    BY <1>1, CallServer
  <1>3. IdUsed(i, t)
    BY <1>2 DEF CallCut, IdUsed
  <1>4. /\ TurnType' /\ CallInv'
        /\ \A s \in Servers : QueueOf(s)' /\ IdsLeft(s)'
        /\ queue' \in [Servers -> Seq(Sessions)]
        /\ call' \in [Sessions -> [server : Servers \cup {NoServer}, id : Nat]]
        /\ next_id' \in [Servers -> Nat \ {0}]
        /\ \A s \in Servers : next_id'[s] \in {next_id[s], next_id[s] + 1}
    BY <1>1, <1>2, <1>3, CallEnded
  <1>5. WireType'
    BY <1>1, <1>4 DEF WireInv, WireType, pipeVars
  <1>6. \A s \in Servers : PipeOf(s)'
    BY <1>1, <1>4, PipeKept DEF pipeVars
  <1> QED
    BY <1>4, <1>5, <1>6 DEF WireInv

\* Steps that leave the calls alone.
LEMMA CallsKept ==
    ASSUME WireInv, UNCHANGED <<turn, call, queue, next_id>>
    PROVE  /\ TurnType' /\ CallInv'
           /\ \A s \in Servers : QueueOf(s)' /\ IdsLeft(s)'
           /\ queue' \in [Servers -> Seq(Sessions)]
           /\ call' \in [Sessions -> [server : Servers \cup {NoServer}, id : Nat]]
           /\ next_id' \in [Servers -> Nat \ {0}]
           /\ \A s \in Servers : next_id'[s] = next_id[s]
  BY SMTT(40) DEF WireInv, TurnType, WireType, CallInv, QueueOf, IdsLeft, Unsent

\* The reader takes a line, and may answer it.
LEMMA ReadLineWire ==
    ASSUME WireInv, NEW i \in Sessions, ReadLine(i)
    PROVE  WireInv'
  <1>1. turn[i] \in InWait /\ turn[i] = "wait"
    BY DEF ReadLine, InWait
  <1>2. PICK t \in Servers : t = call[i].server
    BY <1>1, CallServer
  <1>3. /\ stdout[t] # <<>>
        /\ stdout' = [stdout EXCEPT ![t] = Tail(stdout[t])]
        /\ UNCHANGED <<next_id, work, dead, noise>>
        /\ torn' \subseteq torn
    BY <1>2 DEF ReadLine
  <1>4. \/ stdin' = stdin
        \/ /\ stdin' = [stdin EXCEPT ![t] = Append(stdin[t], 0)]
           /\ t \in Stdio => Len(stdin[t]) < InCap
    BY <1>2 DEF ReadLine
  <1>5. \/ Release(i, "turn")
        \/ UNCHANGED <<turn, call, queue>>
    BY DEF ReadLine
  <1>6. /\ stdin[t] \in Seq(Nat) /\ work[t] \in SUBSET Nat
        /\ stdout[t] \in Seq(Line) /\ next_id[t] \in Nat \ {0} /\ PipeOf(t)
        /\ WireType
    BY DEF WireInv, WireType
  <1>7. /\ TurnType' /\ CallInv'
        /\ \A s \in Servers : QueueOf(s)' /\ IdsLeft(s)'
        /\ queue' \in [Servers -> Seq(Sessions)]
        /\ call' \in [Sessions -> [server : Servers \cup {NoServer}, id : Nat]]
    <2>1. CASE Release(i, "turn")
      <3>1. IdUsed(i, t)
        BY <1>3 DEF IdUsed
      <3> QED
        BY <1>1, <1>2, <2>1, <3>1, CallEnded
    <2>2. CASE UNCHANGED <<turn, call, queue>>
      BY <1>3, <2>2, CallsKept
    <2> QED
      BY <1>5, <2>1, <2>2
  <1>8. /\ stdout' \in [Servers -> Seq(Line)] /\ stdout'[t] = Tail(stdout[t])
        /\ \A s \in Servers \ {t} : stdout'[s] = stdout[s]
        /\ Len(stdout'[t]) <= Len(stdout[t])
    BY <1>3, <1>6 DEF WireType
  <1>9. /\ stdin' \in [Servers -> Seq(Nat)]
        /\ \A s \in Servers \ {t} : stdin'[s] = stdin[s]
        /\ \/ stdin'[t] = stdin[t]
           \/ /\ stdin'[t] = Append(stdin[t], 0)
              /\ t \in Stdio => Len(stdin[t]) < InCap
    <2>1. CASE stdin' = stdin
      BY <1>6, <2>1 DEF WireType
    <2>2. CASE /\ stdin' = [stdin EXCEPT ![t] = Append(stdin[t], 0)]
               /\ t \in Stdio => Len(stdin[t]) < InCap
      BY <1>6, <2>2 DEF WireType
    <2> QED
      BY <1>4, <2>1, <2>2
  <1>10. WireType'
    BY <1>3, <1>6, <1>7, <1>8, <1>9 DEF WireType
  <1>11. PipeOf(t)'
    <2>1. Sound(stdin[t], work[t], Tail(stdout[t]), next_id[t])
      BY <1>3, <1>6, SoundTake DEF PipeOf
    <2>2. Tail(stdout[t]) \in Seq(Line)
      BY <1>3, <1>6
    <2>3. Sound(Append(stdin[t], 0), work[t], Tail(stdout[t]), next_id[t])
      BY <1>6, <2>1, <2>2, SoundWrite
    <2>4. t \in Stdio => Len(stdin'[t]) <= InCap
      BY <1>6, <1>9, McpAssumption DEF PipeOf
    <2>5. Len(stdout'[t]) <= OutCap
      <3>1. /\ Len(stdout'[t]) \in Nat /\ Len(stdout[t]) \in Nat
            /\ OutCap \in Nat
        BY <1>6, <1>8, McpAssumption
      <3> QED
        BY <1>6, <1>8, <3>1 DEF PipeOf
    <2> QED
      BY <1>3, <1>6, <1>8, <1>9, <2>1, <2>3, <2>4, <2>5 DEF PipeOf
  <1>12. \A s \in Servers \ {t} : PipeOf(s)'
    BY <1>3, <1>8, <1>9, PipeKept
  <1> QED
    BY <1>7, <1>10, <1>11, <1>12 DEF WireInv

\* Esc: the call is dropped, and may leave a piece of a line behind.
LEMMA CancelWire ==
    ASSUME WireInv, NEW i \in Sessions, Cancel(i)
    PROVE  WireInv'
  <1>1. /\ turn[i] \in InWait /\ Release(i, "idle")
        /\ UNCHANGED <<stdin, work, dead, noise>>
    BY DEF Cancel
  <1>2. PICK t \in Servers : t = call[i].server
    BY <1>1, CallServer
  <1>3. IdUsed(i, t)
    BY <1>2 DEF Cancel, IdUsed
  <1>4. /\ TurnType' /\ CallInv'
        /\ \A s \in Servers : QueueOf(s)' /\ IdsLeft(s)'
        /\ queue' \in [Servers -> Seq(Sessions)]
        /\ call' \in [Sessions -> [server : Servers \cup {NoServer}, id : Nat]]
        /\ next_id' \in [Servers -> Nat \ {0}]
        /\ \A s \in Servers : next_id'[s] \in {next_id[s], next_id[s] + 1}
    BY <1>1, <1>2, <1>3, CallEnded
  <1>5. torn' \subseteq Stdio
    BY <1>2 DEF Cancel, WireInv, WireType
  <1>6. CASE UNCHANGED stdout
    <2>1. WireType'
      BY <1>1, <1>4, <1>5, <1>6 DEF WireInv, WireType
    <2>2. \A s \in Servers : PipeOf(s)'
      BY <1>1, <1>4, <1>6, PipeKept
    <2> QED
      BY <1>4, <2>1, <2>2 DEF WireInv
  \* A line was read, or its beginning.
  <1> DEFINE headless == <<<<"piece", 0>>>> \o Tail(stdout[t])
  <1>7. ASSUME NEW cut, cut = Tail(stdout[t]) \/ cut = headless,
               stdout[t] # <<>>, next_id' = next_id,
               stdout' = [stdout EXCEPT ![t] = cut]
        PROVE  WireInv'
    <2>1. /\ stdin[t] \in Seq(Nat) /\ work[t] \in SUBSET Nat
          /\ stdout[t] \in Seq(Line) /\ next_id[t] \in Nat \ {0} /\ PipeOf(t)
          /\ WireType
      BY DEF WireInv, WireType
    <2>2. /\ Tail(stdout[t]) \in Seq(Line)
          /\ Len(Tail(stdout[t])) = Len(stdout[t]) - 1
          /\ Len(stdout[t]) \in Nat
      BY <1>7, <2>1
    <2>3. /\ cut \in Seq(Line) /\ Len(cut) <= Len(stdout[t])
          /\ Sound(stdin[t], work[t], cut, next_id[t])
      <3>1. /\ headless \in Seq(Line) /\ Len(headless) = Len(stdout[t])
            /\ Sound(stdin[t], work[t], headless, next_id[t])
            /\ Sound(stdin[t], work[t], Tail(stdout[t]), next_id[t])
        BY <1>7, <2>1, SoundTake DEF PipeOf
      <3> DEFINE tail == Tail(stdout[t])
      <3>2. /\ tail \in Seq(Line) /\ Len(tail) <= Len(stdout[t])
            /\ Sound(stdin[t], work[t], tail, next_id[t])
        BY <2>2, <3>1
      <3>3. Len(headless) <= Len(stdout[t])
        BY <2>2, <3>1
      <3>4. cut = tail \/ cut = headless
        BY <1>7
      <3> HIDE DEF headless, tail
      <3> QED
        BY <3>1, <3>2, <3>3, <3>4
    <2>4. /\ stdout' \in [Servers -> Seq(Line)] /\ stdout'[t] = cut
          /\ \A s \in Servers \ {t} : stdout'[s] = stdout[s]
      BY <1>7, <2>1, <2>3 DEF WireType
    <2>5. WireType'
      BY <1>1, <1>4, <1>5, <2>1, <2>4 DEF WireType
    <2>6. Len(cut) <= OutCap
      <3>1. /\ Len(cut) \in Nat /\ Len(stdout[t]) \in Nat /\ OutCap \in Nat
            /\ Len(stdout[t]) <= OutCap
        BY <2>1, <2>3, McpAssumption DEF PipeOf
      <3> QED
        BY <2>3, <3>1
    <2>7. PipeOf(t)'
      BY <1>1, <1>7, <2>1, <2>3, <2>4, <2>6 DEF PipeOf
    <2>8. \A s \in Servers \ {t} : PipeOf(s)'
      BY <1>1, <1>4, <2>4, PipeKept
    <2> QED
      BY <1>4, <2>5, <2>7, <2>8 DEF WireInv
  <1>8. \/ UNCHANGED stdout
        \/ /\ stdout[t] # <<>> /\ next_id' = next_id
           /\ \/ stdout' = [stdout EXCEPT ![t] = Tail(stdout[t])]
              \/ stdout' = [stdout EXCEPT ![t] = headless]
    BY <1>2 DEF Cancel
  <1> QED
    BY <1>6, <1>7, <1>8

\* What a server does: it reads a line,
LEMMA ServerReadsWire ==
    ASSUME WireInv, NEW t \in Servers, ServerReads(t)
    PROVE  WireInv'
  <1>1. /\ Len(stdout[t]) < OutCap /\ stdin[t] # <<>>
        /\ stdin' = [stdin EXCEPT ![t] = Tail(stdin[t])]
        /\ UNCHANGED <<turn, call, queue, next_id, torn, dead, noise>>
    BY DEF ServerReads, Room
  <1>2. /\ stdin[t] \in Seq(Nat) /\ work[t] \in SUBSET Nat
        /\ stdout[t] \in Seq(Line) /\ next_id[t] \in Nat \ {0} /\ PipeOf(t)
        /\ WireType
    BY DEF WireInv, WireType
  <1>3. /\ stdin' \in [Servers -> Seq(Nat)] /\ stdin'[t] = Tail(stdin[t])
        /\ \A s \in Servers \ {t} : stdin'[s] = stdin[s]
        /\ Len(stdin'[t]) = Len(stdin[t]) - 1 /\ Len(stdin[t]) \in Nat
        /\ Head(stdin[t]) \in Nat
    BY <1>1, <1>2 DEF WireType
  <1>4. /\ TurnType' /\ CallInv'
        /\ \A s \in Servers : QueueOf(s)' /\ IdsLeft(s)'
        /\ \A s \in Servers : next_id'[s] = next_id[s]
    BY <1>1, CallsKept
  <1>5. t \in Stdio => Len(stdin'[t]) <= InCap
    BY <1>2, <1>3, McpAssumption DEF PipeOf
  <1>6. Sound(Tail(stdin[t]), work[t], stdout[t], next_id[t])
    BY <1>1, <1>2, SoundRead DEF PipeOf
  <1>7. CASE /\ Head(stdin[t]) # 0 /\ UNCHANGED stdout
             /\ work' = [work EXCEPT ![t] = work[t] \cup {Head(stdin[t])}]
    <2>1. /\ work' \in [Servers -> SUBSET Nat]
          /\ work'[t] = work[t] \cup {Head(stdin[t])}
          /\ \A s \in Servers \ {t} : work'[s] = work[s]
      BY <1>2, <1>3, <1>7 DEF WireType
    <2>2. Sound(Tail(stdin[t]), work[t] \cup {Head(stdin[t])}, stdout[t],
                next_id[t])
      BY <1>1, <1>2, <1>7, SoundRead DEF PipeOf
    <2>3. PipeOf(t)'
      BY <1>1, <1>2, <1>3, <1>5, <1>7, <2>1, <2>2 DEF PipeOf
    <2>4. \A s \in Servers \ {t} : PipeOf(s)'
      BY <1>1, <1>3, <1>7, <2>1, PipeKept
    <2>5. WireType'
      BY <1>1, <1>2, <1>3, <1>7, <2>1 DEF WireType
    <2> QED
      BY <1>4, <2>3, <2>4, <2>5 DEF WireInv
  <1>8. CASE UNCHANGED work /\ (UNCHANGED stdout \/ Say(t, <<"no id", 0>>))
    <2>1. PICK line \in Line : line = <<"no id", 0>>
      BY DEF Line
    <2>2. /\ stdout' \in [Servers -> Seq(Line)]
          /\ \A s \in Servers \ {t} : stdout'[s] = stdout[s]
          /\ \/ stdout'[t] = stdout[t]
             \/ stdout'[t] = Append(stdout[t], line)
      <3>1. CASE UNCHANGED stdout
        BY <1>2, <3>1 DEF WireType
      <3>2. CASE stdout' = [stdout EXCEPT ![t] = Append(stdout[t], line)]
        BY <1>2, <3>2 DEF WireType
      <3> QED
        BY <1>8, <2>1, <3>1, <3>2 DEF Say
    <2>3. Tail(stdin[t]) \in Seq(Nat)
      BY <1>1, <1>2
    <2>4. Sound(Tail(stdin[t]), work[t], Append(stdout[t], line), next_id[t])
      BY <1>2, <1>6, <2>1, <2>3, SoundSay
    <2>5. Len(stdout'[t]) <= OutCap
      <3>1. /\ Len(stdout[t]) \in Nat /\ OutCap \in Nat
            /\ Len(Append(stdout[t], line)) = Len(stdout[t]) + 1
        BY <1>2, McpAssumption
      <3> QED
        BY <1>1, <2>2, <3>1
    <2>6. PipeOf(t)'
      BY <1>1, <1>2, <1>3, <1>5, <1>6, <1>8, <2>2, <2>4, <2>5 DEF PipeOf
    <2>7. \A s \in Servers \ {t} : PipeOf(s)'
      BY <1>1, <1>3, <1>8, <2>2, PipeKept
    <2>8. WireType'
      BY <1>1, <1>2, <1>3, <1>8, <2>2 DEF WireType
    <2> QED
      BY <1>4, <2>6, <2>7, <2>8 DEF WireInv
  <1> QED
    BY <1>7, <1>8 DEF ServerReads

\* answers, says something by itself, or dies.
LEMMA ServerSaysWire ==
    ASSUME WireInv, NEW t \in Servers,
           \/ \E id \in 1 .. MaxReqs[t] : ServerAnswers(t, id)
           \/ \E what \in {"note", "ping"} : ServerNoise(t, what)
    PROVE  WireInv'
  <1>1. PICK line \in Line :
          /\ Len(stdout[t]) < OutCap
          /\ stdout' = [stdout EXCEPT ![t] = Append(stdout[t], line)]
          /\ UNCHANGED <<turn, call, queue, next_id, stdin, torn, dead>>
          /\ \/ /\ UNCHANGED noise
                /\ \E id \in work[t] : /\ line = <<"answer", id>>
                                       /\ work' = [work EXCEPT ![t] = @ \ {id}]
             \/ /\ UNCHANGED work
                /\ \E what \in {"note", "ping"} : line = <<what, 0>>
                /\ noise[t] < MaxNoise[t]
                /\ noise' = [noise EXCEPT ![t] = @ + 1]
    <2>1. CASE \E id \in 1 .. MaxReqs[t] : ServerAnswers(t, id)
      <3>1. PICK id \in 1 .. MaxReqs[t] : ServerAnswers(t, id)
        BY <2>1
      <3>2. id \in Nat
        OBVIOUS
      <3>3. <<"answer", id>> \in Line
        BY <3>2 DEF Line
      <3> QED
        BY <3>1, <3>3 DEF ServerAnswers, Room, Say
    <2>2. CASE \E what \in {"note", "ping"} : ServerNoise(t, what)
      <3>1. PICK what \in {"note", "ping"} : ServerNoise(t, what)
        BY <2>2
      <3>2. <<what, 0>> \in Line
        BY DEF Line
      <3> QED
        BY <3>1, <3>2 DEF ServerNoise, Room, Say
    <2> QED
      BY <2>1, <2>2
  <1>2. /\ stdin[t] \in Seq(Nat) /\ work[t] \in SUBSET Nat
        /\ stdout[t] \in Seq(Line) /\ next_id[t] \in Nat \ {0} /\ PipeOf(t)
        /\ WireType /\ noise[t] \in Nat /\ MaxNoise[t] \in Nat
    BY McpAssumption DEF WireInv, WireType
  <1>3. /\ stdout' \in [Servers -> Seq(Line)]
        /\ stdout'[t] = Append(stdout[t], line)
        /\ \A s \in Servers \ {t} : stdout'[s] = stdout[s]
        /\ Len(stdout'[t]) <= OutCap
    BY <1>1, <1>2, McpAssumption DEF WireType
  <1>4. /\ TurnType' /\ CallInv'
        /\ \A s \in Servers : QueueOf(s)' /\ IdsLeft(s)'
        /\ \A s \in Servers : next_id'[s] = next_id[s]
    BY <1>1, CallsKept
  <1>5. /\ work' \in [Servers -> SUBSET Nat] /\ noise' \in [Servers -> Nat]
        /\ \A s \in Servers \ {t} : work'[s] = work[s] /\ noise'[s] = noise[s]
        /\ noise'[t] <= MaxNoise[t]
        /\ Sound(stdin[t], work'[t], stdout'[t], next_id[t])
    <2>1. CASE /\ UNCHANGED noise
               /\ \E id \in work[t] : /\ line = <<"answer", id>>
                                      /\ work' = [work EXCEPT ![t] = @ \ {id}]
      <3>1. PICK id \in work[t] : /\ line = <<"answer", id>>
                                  /\ work' = [work EXCEPT ![t] = work[t] \ {id}]
        BY <2>1
      <3>2. Sound(stdin[t], work[t] \ {id}, Append(stdout[t], line), next_id[t])
        BY <1>2, <3>1, SoundSay DEF PipeOf
      <3>3. /\ work' \in [Servers -> SUBSET Nat] /\ work'[t] = work[t] \ {id}
            /\ \A s \in Servers \ {t} : work'[s] = work[s]
        BY <1>2, <3>1 DEF WireType
      <3> QED
        BY <1>2, <1>3, <2>1, <3>2, <3>3 DEF WireType, PipeOf
    <2>2. CASE /\ UNCHANGED work
               /\ \E what \in {"note", "ping"} : line = <<what, 0>>
               /\ noise[t] < MaxNoise[t]
               /\ noise' = [noise EXCEPT ![t] = @ + 1]
      <3>1. Sound(stdin[t], work[t], Append(stdout[t], line), next_id[t])
        BY <1>2, <2>2, SoundSay DEF PipeOf
      <3>2. /\ noise' \in [Servers -> Nat] /\ noise'[t] <= MaxNoise[t]
            /\ \A s \in Servers \ {t} : noise'[s] = noise[s]
        BY <1>2, <2>2 DEF WireType
      <3> QED
        BY <1>2, <1>3, <2>2, <3>1, <3>2 DEF WireType
    <2> QED
      BY <1>1, <2>1, <2>2
  <1>6. PipeOf(t)'
    BY <1>1, <1>2, <1>3, <1>5 DEF PipeOf
  <1>7. \A s \in Servers \ {t} : PipeOf(s)'
    BY <1>1, <1>3, <1>5, PipeKept
  <1>8. WireType'
    BY <1>1, <1>2, <1>3, <1>5 DEF WireType
  <1> QED
    BY <1>4, <1>6, <1>7, <1>8 DEF WireInv

LEMMA ServerDiesWire ==
    ASSUME WireInv, NEW t \in Servers, ServerDies(t)
    PROVE  WireInv'
  <1>1. /\ dead' = dead \cup {t}
        /\ stdin' = [stdin EXCEPT ![t] = <<>>] /\ work' = [work EXCEPT ![t] = {}]
        /\ UNCHANGED <<turn, call, queue, next_id, stdout, torn, noise>>
    BY DEF ServerDies
  <1>2. /\ stdout[t] \in Seq(Line) /\ next_id[t] \in Nat \ {0} /\ PipeOf(t)
        /\ WireType
    BY DEF WireInv, WireType
  <1>3. /\ stdin' \in [Servers -> Seq(Nat)] /\ stdin'[t] = <<>>
        /\ work' \in [Servers -> SUBSET Nat] /\ work'[t] = {}
        /\ \A s \in Servers \ {t} : stdin'[s] = stdin[s] /\ work'[s] = work[s]
    BY <1>1, <1>2 DEF WireType
  <1>4. /\ TurnType' /\ CallInv'
        /\ \A s \in Servers : QueueOf(s)' /\ IdsLeft(s)'
        /\ \A s \in Servers : next_id'[s] = next_id[s]
    BY <1>1, CallsKept
  <1>5. Sound(<<>>, {}, stdout[t], next_id[t])
    BY <1>2 DEF PipeOf, Sound
  <1>6. PipeOf(t)'
    BY <1>1, <1>2, <1>3, <1>5, McpAssumption DEF PipeOf
  <1>7. \A s \in Servers \ {t} : PipeOf(s)'
    BY <1>1, <1>3, PipeKept
  <1>8. WireType'
    BY <1>1, <1>2, <1>3 DEF WireType
  <1> QED
    BY <1>4, <1>6, <1>7, <1>8 DEF WireInv

-----------------------------------------------------------------------------
(***************************************************************************)
(* The theorems.                                                           *)
(***************************************************************************)

LEMMA InitWire == Init => WireInv
  <1> SUFFICES ASSUME Init PROVE WireInv
    OBVIOUS
  <1>1. TurnType /\ WireType /\ CallInv
    BY DEF Init, TurnType, WireType, CallInv, NoCall, InWait
  <1>2. ASSUME NEW s \in Servers
        PROVE  QueueOf(s) /\ IdsLeft(s) /\ PipeOf(s)
    <2>1. /\ queue[s] = <<>> /\ next_id[s] = 1 /\ stdin[s] = <<>>
          /\ stdout[s] = <<>> /\ work[s] = {} /\ noise[s] = 0
          /\ MaxReqs[s] \in Nat /\ MaxNoise[s] \in Nat
          /\ \A i \in Sessions : turn[i] \notin InWait
      BY McpAssumption DEF Init, InWait
    <2>2. QueueOf(s)
      BY <2>1 DEF QueueOf
    <2>3. IdsLeft(s)
      BY <2>1 DEF IdsLeft, Unsent
    <2>4. PipeOf(s)
      BY <2>1, McpAssumption DEF PipeOf, Sound
    <2> QED
      BY <2>2, <2>3, <2>4
  <1> QED
    BY <1>1, <1>2 DEF WireInv

LEMMA NextWire ==
    ASSUME WireInv, [Next]_vars
    PROVE  WireInv'
  <1>1. CASE Load \/ LoadPanics \/ UNCHANGED vars
    BY <1>1, WireKept DEF Load, StartServer, FastWindow, RestDone, LockNext,
       Registered, LoadPanics, Poll, vars
  <1>2. ASSUME NEW i \in Sessions,
               \/ StartTurn(i) \/ EndTurn(i) \/ Cancel(i) \/ Proceed(i)
               \/ \E s \in Servers : CallTool(i, s)
        PROVE  WireInv'
    BY <1>2, TurnWire, CancelWire, SendRequestWire, CallCutWire, ReadLineWire,
       CallToolWire DEF Proceed
  <1>3. ASSUME NEW s \in Servers,
               \/ Serve(s) \/ ServerDies(s)
               \/ \E what \in {"note", "ping"} : ServerNoise(s, what)
        PROVE  WireInv'
    BY <1>3, ServerReadsWire, ServerSaysWire, ServerDiesWire DEF Serve
  <1> QED
    BY <1>1, <1>2, <1>3 DEF Next

\* The invariant of the load, of the queues for the clients and of the pipes
\* holds in every reachable state.
THEOREM McpInvariant == Spec => [](LoadType /\ LoadInv /\ WireInv)
  <1>1. Init => LoadType /\ LoadInv /\ WireInv
    BY InitLoad, InitWire
  <1>2. LoadType /\ LoadInv /\ WireInv /\ [Next]_vars
        => (LoadType /\ LoadInv /\ WireInv)'
    BY NextLoad, NextWire
  <1> QED
    BY <1>1, <1>2, PTL DEF Spec

\* Every variable keeps its type: ids stay within the requests that were made,
\* pipes within their size, and no failure is reported a third time.
THEOREM TypeCorrect == Spec => []TypeOK
  <1>1. LoadType /\ LoadInv /\ WireInv => TypeOK
    <2> SUFFICES ASSUME LoadType, LoadInv, WireInv PROVE TypeOK
      OBVIOUS
    <2>1. /\ TurnType /\ WireType /\ CallInv
          /\ \A s \in Servers : IdsLeft(s) /\ PipeOf(s)
      BY DEF WireInv
    <2>2. reported \in [Servers -> 0 .. 2]
      <3>1. \A s \in Servers : reported[s] \in 0 .. 2
        BY DEF LoadInv
      <3> QED
        BY <3>1 DEF LoadType
    <2>3. ASSUME NEW s \in Servers
          PROVE  /\ queue[s] \in Seq(Sessions)
                 /\ next_id[s] \in 1 .. MaxReqs[s] + 1
      <3>1. /\ queue[s] \in Seq(Sessions) /\ next_id[s] \in Nat \ {0}
            /\ MaxReqs[s] \in Nat /\ Len(queue[s]) \in Nat
            /\ queue[s] # <<>> => Len(queue[s]) >= 1
        BY <2>1, McpAssumption DEF WireType
      <3>2. CASE queue[s] = <<>>
        BY <2>1, <3>1, <3>2 DEF IdsLeft, Unsent
      <3>3. CASE queue[s] # <<>>
        <4>1. next_id[s] + Len(queue[s]) <= MaxReqs[s] + 2
          BY <2>1 DEF IdsLeft
        <4> QED
          BY <3>1, <3>3, <4>1
      <3> QED
        BY <3>2, <3>3, <3>1
    <2>4. ASSUME NEW i \in Sessions
          PROVE  IF turn[i] \in InWait
                 THEN /\ call[i].server \in Servers
                      /\ call[i].id \in 0 .. MaxReqs[call[i].server]
                 ELSE call[i] = NoCall
      <3>1. CASE turn[i] = "lock"
        BY <2>1, <3>1, McpAssumption DEF CallInv, InWait
      <3>2. CASE turn[i] = "wait"
        <4>1. /\ call[i].server \in Servers
              /\ call[i].id \in 1 .. next_id[call[i].server] - 1
          BY <2>1, <3>2 DEF CallInv
        <4>2. /\ next_id[call[i].server] \in 1 .. MaxReqs[call[i].server] + 1
              /\ MaxReqs[call[i].server] \in Nat
          BY <2>3, <4>1, McpAssumption
        <4>3. call[i].id \in 0 .. MaxReqs[call[i].server]
          BY <4>1, <4>2
        <4> QED
          BY <4>1, <4>3, <3>2 DEF InWait
      <3>3. CASE turn[i] \in {"idle", "turn"}
        BY <2>1, <3>3 DEF CallInv, InWait
      <3> QED
        BY <2>1, <3>1, <3>2, <3>3 DEF TurnType, InWait
    <2>5. ASSUME NEW s \in Servers
          PROVE  /\ stdout[s] \in Seq(Lines(s)) /\ Len(stdout[s]) <= OutCap
                 /\ work[s] \subseteq 1 .. MaxReqs[s]
                 /\ s \in Stdio => Len(stdin[s]) <= InCap
                 /\ noise[s] \in 0 .. MaxNoise[s]
      <3>1. /\ stdout[s] \in Seq(Line) /\ noise[s] \in Nat
            /\ next_id[s] \in 1 .. MaxReqs[s] + 1 /\ PipeOf(s)
            /\ MaxReqs[s] \in Nat /\ MaxNoise[s] \in Nat
        BY <2>1, <2>3, McpAssumption DEF WireType
      <3>2. \A n \in 1 .. Len(stdout[s]) : stdout[s][n] \in Lines(s)
        <4> SUFFICES ASSUME NEW n \in 1 .. Len(stdout[s])
                     PROVE  stdout[s][n] \in Lines(s)
          OBVIOUS
        <4>1. PICK line \in Line : line = stdout[s][n]
          BY <3>1
        <4>2. line[1] = "answer" => line[2] \in 1 .. next_id[s] - 1
          BY <3>1, <4>1 DEF PipeOf, Sound
        <4>3. line[1] = "answer" => line[2] \in 1 .. MaxReqs[s]
          BY <3>1, <4>2
        <4>4. CASE line \in {"answer"} \X Nat
          BY <4>1, <4>3, <4>4 DEF Lines
        <4>5. CASE line \in {"note", "ping", "piece", "no id"} \X {0}
          BY <4>1, <4>5 DEF Lines
        <4> QED
          BY <4>4, <4>5 DEF Line
      <3>3. stdout[s] \in Seq(Lines(s))
        BY <3>1, <3>2, IsASeq
      <3>4. work[s] \subseteq 1 .. next_id[s] - 1
        BY <3>1 DEF PipeOf, Sound
      <3>5. work[s] \subseteq 1 .. MaxReqs[s]
        BY <3>1, <3>4
      <3> QED
        BY <3>1, <3>3, <3>5 DEF PipeOf
    <2> QED
      BY <2>1, <2>2, <2>3, <2>4, <2>5 DEF TypeOK, LoadType, TurnType, WireType
  <1> QED
    BY <1>1, McpInvariant, PTL

\* No install takes a tool from a session, and after the last one every server
\* that did not connect has been reported exactly once, whichever of poll and
\* wait installs, and however turns and loads interleave
\* (begin_mcp_load_staged, absorb).
THEOREM InstallsComplete == Spec => InstallsAddUp
  <1>1. LoadType /\ LoadInv /\ [Next]_vars =>
          [/\ \A i \in Sessions : tools[i] \subseteq tools'[i]
           /\ stage' = "none" =>
                \A s \in Servers :
                    reported'[s] = IF conn'[s] = "failed" THEN 1 ELSE 0]_vars
    BY NextLoad
  <1> QED
    BY <1>1, McpInvariant, PTL DEF Spec, InstallsAddUp

\* A call that an answer ends was waiting for that answer; nobody else was
\* reading from its server, and there is no other trace of its request
\* (read_stdio_response, wait_for_response_until).
THEOREM AnswersMatch == Spec => OwnAnswer
  <1> DEFINE Own(i, s) ==
        /\ turn[i] = "wait" /\ turn'[i] = "turn" /\ call[i].server = s
        /\ stdout'[s] # stdout[s] /\ Head(stdout[s])[1] = "answer"
        => /\ Head(stdout[s])[2] = call[i].id
           /\ \A j \in Sessions \ {i} : turn[j] = "wait" => call[j].server # s
           /\ call[i].id \notin InFlight(s)'
  <1>1. WireInv /\ [Next]_vars
        => [\A i \in Sessions, s \in Servers : Own(i, s)]_vars
    <2> SUFFICES ASSUME WireInv, Next, NEW i \in Sessions, NEW s \in Servers,
                        turn[i] = "wait", turn'[i] = "turn",
                        call[i].server = s, stdout'[s] # stdout[s],
                        Head(stdout[s])[1] = "answer"
                 PROVE  /\ Head(stdout[s])[2] = call[i].id
                        /\ \A j \in Sessions \ {i} :
                             turn[j] = "wait" => call[j].server # s
                        /\ call[i].id \notin InFlight(s)'
      OBVIOUS
    <2>1. TurnType /\ WireType /\ QueueOf(s) /\ PipeOf(s)
      BY DEF WireInv
    <2>2. ReadLine(i)
      <3>1. ~Load /\ ~LoadPanics
        BY DEF Load, StartServer, FastWindow, RestDone, LockNext, Registered,
           LoadPanics, Poll
      <3>2. ~ \E r \in Servers :
                \/ Serve(r) \/ ServerDies(r)
                \/ \E what \in {"note", "ping"} : ServerNoise(r, what)
        BY DEF Serve, ServerReads, ServerAnswers, ServerDies, ServerNoise
      <3>3. PICK j \in Sessions :
              \/ StartTurn(j) \/ EndTurn(j) \/ Cancel(j) \/ Proceed(j)
              \/ \E r \in Servers : CallTool(j, r)
        BY <3>1, <3>2 DEF Next
      <3>4. j = i
        BY <2>1, <3>3 DEF TurnType, StartTurn, EndTurn, Cancel, Proceed,
           SendRequest, CallCut, ReadLine, Release, CallTool
      <3> QED
        BY <2>1, <3>3, <3>4 DEF TurnType, StartTurn, EndTurn, Cancel, Proceed,
           SendRequest, CallCut, Release, CallTool, pipeVars
    <2>3. /\ stdout[s] # <<>> /\ stdout' = [stdout EXCEPT ![s] = Tail(stdout[s])]
          /\ stdin' = stdin /\ work' = work
          /\ OwnLine(i, Head(stdout[s]))
      BY <2>2 DEF ReadLine
    <2>4. Head(stdout[s])[2] = call[i].id
      BY <2>3 DEF OwnLine
    <2>5. ASSUME NEW j \in Sessions, turn[j] = "wait", call[j].server = s
          PROVE  j = i
      <3>1. PICK m \in 1 .. Len(queue[s]) : queue[s][m] = j
        BY <2>1, <2>5 DEF QueueOf, InWait
      <3>2. PICK n \in 1 .. Len(queue[s]) : queue[s][n] = i
        BY <2>1 DEF QueueOf, InWait
      <3> QED
        BY <2>1, <2>5, <3>1, <3>2 DEF QueueOf
    <2>6. /\ stdin[s] \in Seq(Nat) /\ work[s] \in SUBSET Nat
          /\ stdout[s] \in Seq(Line) /\ next_id[s] \in Nat \ {0}
          /\ Tail(stdout[s]) \in Seq(Line) /\ stdout'[s] = Tail(stdout[s])
      BY <2>1, <2>3 DEF WireType
    <2>7. /\ call[i].id \notin work[s]
          /\ \A n \in 1 .. Len(stdin[s]) : stdin[s][n] # call[i].id
          /\ \A n \in 1 .. Len(Tail(stdout[s])) :
               Tail(stdout[s])[n][1] = "answer" =>
                  Tail(stdout[s])[n][2] # call[i].id
      <3>1. Sound(stdin[s], work[s], stdout[s], next_id[s])
        BY <2>1 DEF PipeOf
      <3>2. PICK in \in Seq(Nat), w \in SUBSET Nat, out \in Seq(Line),
                 next \in Nat \ {0} :
              in = stdin[s] /\ w = work[s] /\ out = stdout[s] /\ next = next_id[s]
        BY <2>6
      <3>3. /\ Head(out)[2] \notin w
            /\ \A n \in 1 .. Len(in) : in[n] # Head(out)[2]
            /\ \A n \in 1 .. Len(Tail(out)) :
                 Tail(out)[n][1] = "answer" => Tail(out)[n][2] # Head(out)[2]
        <4>1. Sound(in, w, out, next) /\ out # <<>> /\ Head(out)[1] = "answer"
          BY <2>3, <3>1, <3>2
        <4> QED
          BY <4>1, AnswerAlone
      <3>4. /\ Head(stdout[s])[2] \notin work[s]
            /\ \A n \in 1 .. Len(stdin[s]) : stdin[s][n] # Head(stdout[s])[2]
            /\ \A n \in 1 .. Len(Tail(stdout[s])) :
                 Tail(stdout[s])[n][1] = "answer" =>
                    Tail(stdout[s])[n][2] # Head(stdout[s])[2]
        BY <3>2, <3>3
      <3> QED
        BY <2>4, <3>4
    <2>8. call[i].id \notin Range(stdin[s])
      <3>1. DOMAIN stdin[s] = 1 .. Len(stdin[s])
        BY <2>6
      <3> QED
        BY <2>7, <3>1, Zenon DEF Range
    <2>9. \A line \in Range(Tail(stdout[s])) :
            line[1] = "answer" => line[2] # call[i].id
      <3>1. DOMAIN Tail(stdout[s]) = 1 .. Len(Tail(stdout[s]))
        BY <2>6
      <3> QED
        BY <2>7, <3>1, Zenon DEF Range
    <2>10. call[i].id \notin InFlight(s)'
      BY <2>3, <2>6, <2>7, <2>8, <2>9 DEF InFlight
    <2> QED
      BY <2>4, <2>5, <2>10
  <1> QED
    BY <1>1, McpInvariant, PTL DEF Spec, OwnAnswer
=============================================================================
