---------------------------- MODULE Daemon_proofs ---------------------------
(***************************************************************************)
(* Proofs about the daemon: for every set of sessions and requests, an ask *)
(* is approved on the user's word only, turns of one session do not        *)
(* overlap and no message of a turn is lost unless the session was loaded  *)
(* twice at once, and no ask outlives the runs of its session.             *)
(*                                                                         *)
(* The properties of the session store are not inductive.  They need to    *)
(* know, of every request, which handle it has at each place (PlaceInv),   *)
(* that handles belong to one session for ever (HandleOf), and that a      *)
(* session that was not loaded twice at once has a single handle, the one  *)
(* in the table (SingleInv).                                               *)
(***************************************************************************)
EXTENDS Daemon, FiniteSetTheorems, TLAPS

\* The types of the state, as function sets the provers can work with.
Messages == Sessions \cup Reqs

Places == {"idle", "load", "loaded", "edit", "keyed", "sink", "start",
           "queued", "turn", "released", "saving", "saved", "closing", "done",
           "ended", "refused", "panicked"}

AskRecords ==
    [run : Reqs, what : Tools \cup {"question"},
     st : {"insert", "wait", "expired", "over"}, seen : BOOLEAN,
     reply : {"none", "yes", "no"}, result : {"none", "yes", "no", "dropped"}]

WarmRecords ==
    [st : {"off", "sleep", "sent"}, history : Nat, handle : Handles \cup {None}]

Requests == [kind : Kinds, session : Sessions, auto : BOOLEAN]

ReqType ==
    /\ req \in [Reqs -> Requests \cup {NoReq}]
    /\ pc \in [Reqs -> Places]
    /\ \A r \in Reqs : pc[r] # "idle" => req[r] \in Requests

StoreType ==
    /\ sessions \in [Sessions -> Handles \cup {None}]
    /\ db \in [Sessions -> Seq(Messages) \cup {None}]
    /\ content \in [Handles -> Seq(Messages)]
    /\ waiters \in [Handles -> Seq(Reqs)]
    /\ holder \in [Handles -> Reqs \cup {None}]
    /\ own \in [Reqs -> Handles \cup {None}]
    /\ warm \in [Reqs -> WarmRecords]
    /\ rewound \subseteq Messages /\ raced \subseteq Sessions

HubType ==
    /\ ask \in Seq(AskRecords) /\ Len(ask) <= MaxAsks
    /\ pending \subseteq DOMAIN ask /\ allowed \subseteq DOMAIN ask
    /\ always \subseteq Sessions \X Tools
    /\ flags \in [Sessions -> Reqs \cup {None}]
    /\ sinks \in [Sessions -> Reqs \cup {None}]
    /\ cancelled \subseteq Reqs

\* The session a handle is of, and whether it was ever inserted.
Home(h) == IF h \in Sessions THEN h ELSE SessionOf(h)

Made(h) == h \in Sessions \/ pc[h] \notin {"idle", "load", "loaded"}

HandleOf(h, s) == h \in Handles /\ Made(h) /\ Home(h) = s

NoHandle == {"idle", "load", "loaded", "panicked", "ended", "refused"}

\* What a request has, by where it is.
PlaceInv(r) ==
    /\ pc[r] \in NoHandle => own[r] = None
    /\ pc[r] \notin NoHandle => HandleOf(own[r], SessionOf(r))
    /\ warm[r].handle = None \/ HandleOf(warm[r].handle, SessionOf(r))
    /\ pc[r] = "idle" => warm[r].handle = None
    /\ warm[r].st # "off" => warm[r].handle # None
    /\ pc[r] = "turn" => holder[own[r]] = r
    /\ pc[r] \in {"load", "loaded"} => db[SessionOf(r)] # None
    /\ pc[r] \notin {"idle", "refused"} =>
         sessions[SessionOf(r)] # None \/ db[SessionOf(r)] # None

StoreInv ==
    /\ \A r \in Reqs : PlaceInv(r)
    /\ \A s \in Sessions : sessions[s] = None \/ HandleOf(sessions[s], s)

\* A session as the next request gets it, and the places of requests that had
\* a turn.
Current(s) == IF sessions[s] # None THEN content[sessions[s]] ELSE db[s]

Turned == {"turn", "released", "saving", "saved", "closing", "done", "panicked",
           "ended"}

Holds(s, r) == \E i \in DOMAIN Current(s) : Current(s)[i] = r

Loading(r, s) == SessionOf(r) = s /\ pc[r] \in {"load", "loaded"}

\* A session that was not loaded twice at once has one handle, and everybody's
\* is that one.  Nothing changes in the database while it is loaded.
ReqSingle(r, s) ==
    /\ own[r] \in {None, sessions[s]}
    /\ warm[r].handle \in {None, sessions[s]}
    /\ pc[r] \in {"load", "loaded"} => sessions[s] = None
    /\ pc[r] = "loaded" => content[r] = db[s]
    /\ pc[r] \in Turned /\ req[r].kind # "rewind" /\ r \notin rewound =>
         Holds(s, r)

SingleInv(s) ==
    /\ \A r \in Reqs : SessionOf(r) = s => ReqSingle(r, s)
    /\ \A q, r \in Reqs : Loading(q, s) /\ Loading(r, s) => q = r

SinglesInv == \A s \in Sessions \ raced : SingleInv(s)

Active == {"keyed", "sink", "start", "queued", "turn", "released", "saving",
           "saved", "closing"}

\* A reply "yes" is the user's, and what is always allowed was allowed in an ask
\* of the session.
AskInv ==
    /\ \A a \in DOMAIN ask :
         /\ pc[ask[a].run] # "idle"
         /\ ask[a].reply = "yes" => a \in allowed
    /\ \A s \in Sessions, tool \in Tools : <<s, tool>> \in always =>
         \E b \in allowed : ask[b].what = tool /\ SessionOf(ask[b].run) = s

\* An entry of the hub is one of a run that has not finished.
PendingInv ==
    \A a \in pending :
        /\ req[ask[a].run].kind = "run"
        /\ pc[ask[a].run] \in {"turn", "released", "saving", "saved",
                               "closing"}

\* Rewinds do not start turns.
KindInv ==
    \A r \in Reqs : /\ pc[r] \in Active => req[r].kind \in {"run", "chat"}
                    /\ pc[r] = "edit" => req[r].kind = "rewind"

\* A function on the positions of a sequence is a sequence.
LEMMA SeqMap ==
    ASSUME NEW S, NEW s \in Seq(S), NEW f \in [DOMAIN s -> S]
    PROVE  f \in Seq(S) /\ Len(f) = Len(s) /\ DOMAIN f = DOMAIN s
  <1>1. DOMAIN s = 1 .. Len(s) /\ Len(s) \in Nat
    OBVIOUS
  <1>2. f \in [1 .. Len(s) -> S]
    BY <1>1
  <1> QED
    BY <1>1, <1>2

\* What a step does to an ask that is there: it stays the same request, it gets
\* the reply "yes" only from the user, and is approved only by that reply.
AskMoves(a) ==
    /\ ask'[a].run = ask[a].run /\ ask'[a].what = ask[a].what
    /\ ask'[a].reply = "yes" => ask[a].reply = "yes" \/ a \in allowed'
    /\ ask'[a].result = "yes" => ask[a].result = "yes" \/ ask[a].reply = "yes"

\* A step leaves the number of asks as it is and every ask in its place, or a
\* tool asks.
LEMMA NextAsk ==
    ASSUME HubType, ReqType, [Next]_vars
    PROVE  \/ /\ ask' \in Seq(AskRecords) /\ Len(ask') = Len(ask)
              /\ DOMAIN ask' = DOMAIN ask
              /\ \A a \in DOMAIN ask : AskMoves(a)
           \/ \E r \in Reqs, what \in Tools \cup {"question"} :
                AskUser(r, what)
  <1> DEFINE Goal ==
        /\ ask' \in Seq(AskRecords) /\ Len(ask') = Len(ask)
        /\ DOMAIN ask' = DOMAIN ask
        /\ \A a \in DOMAIN ask : AskMoves(a)
  <1>1. /\ ask \in Seq(AskRecords)
        /\ \A a \in DOMAIN ask : ask[a] \in AskRecords
        /\ allowed \subseteq DOMAIN ask
    BY DEF HubType
  <1>2. ASSUME UNCHANGED <<ask, allowed>> PROVE Goal
    BY <1>1, <1>2 DEF AskMoves, HubType
  <1>3. ASSUME NEW r \in Reqs, EndTurn(r) \/ Panic(r)
        PROVE  Goal
    <2> DEFINE Dropped(a) == [ask[a] EXCEPT !.st = "over", !.reply = "none",
                                            !.result = "dropped"]
    <2>1. /\ ask' = [a \in DOMAIN ask |-> IF a \in OpenAsks(r) THEN Dropped(a)
                                          ELSE ask[a]]
          /\ allowed' = allowed
      BY <1>3 DEF EndTurn, Panic
    <2>2. \A a \in DOMAIN ask :
            /\ Dropped(a) \in AskRecords
            /\ Dropped(a).run = ask[a].run /\ Dropped(a).what = ask[a].what
            /\ Dropped(a).reply = "none" /\ Dropped(a).result = "dropped"
      BY <1>1 DEF AskRecords
    <2> HIDE DEF Dropped
    <2>3. ask' \in [DOMAIN ask -> AskRecords]
      BY <1>1, <2>1, <2>2
    <2>4. \A a \in DOMAIN ask : AskMoves(a)
      BY <2>1, <2>2 DEF AskMoves
    <2> QED
      BY <1>1, <2>3, <2>4, SeqMap
  <1>4. ASSUME NEW as, NEW answer \in {"yes", "no"}, Reply(as, answer),
               allowed \subseteq allowed', answer = "yes" =>
                 as \subseteq allowed'
        PROVE  Goal
    <2> DEFINE Replied(a) == [ask[a] EXCEPT !.reply = answer]
    <2>1. ask' = [a \in DOMAIN ask |->
                    IF a \in as /\ ask[a].st \in {"insert", "wait"}
                    THEN Replied(a) ELSE ask[a]]
      BY <1>4 DEF Reply
    <2>2. \A a \in DOMAIN ask :
            /\ Replied(a) \in AskRecords
            /\ Replied(a).run = ask[a].run /\ Replied(a).what = ask[a].what
            /\ Replied(a).reply = answer /\ Replied(a).result = ask[a].result
      BY <1>1 DEF AskRecords
    <2> HIDE DEF Replied
    <2>3. ask' \in [DOMAIN ask -> AskRecords]
      BY <1>1, <2>1, <2>2
    <2>4. \A a \in DOMAIN ask : AskMoves(a)
      BY <1>4, <2>1, <2>2 DEF AskMoves
    <2> QED
      BY <1>1, <2>3, <2>4, SeqMap
  <1>5. ASSUME NEW r \in Reqs, FinishRun(r)
        PROVE  Goal
    BY <1>4, <1>5 DEF FinishRun
  <1>6. ASSUME NEW a \in DOMAIN ask,
               NEW decision \in {"deny", "allow", "always"}, Decide(a, decision)
        PROVE  Goal
    <2>1. CASE decision = "deny"
      BY <1>4, <1>6, <2>1 DEF Decide
    <2>2. CASE decision # "deny"
      BY <1>4, <1>6, <2>2 DEF Decide
    <2> QED
      BY <2>1, <2>2
  <1>7. ASSUME NEW a \in DOMAIN ask, AskTask(a)
        PROVE  Goal
    <2> DEFINE Good(rec) ==
          /\ rec \in AskRecords
          /\ rec.run = ask[a].run /\ rec.what = ask[a].what
          /\ rec.reply \in {"none", ask[a].reply}
          /\ rec.result \in {"no", ask[a].result, ask[a].reply}
    <2>1. \E rec : Good(rec) /\ ask' = [ask EXCEPT ![a] = rec]
      <3>1. ask[a] \in AskRecords
        BY <1>1
      <3>2. CASE Emit(a)
        <4> DEFINE rec == [ask[a] EXCEPT !.st = "wait",
                             !.seen = sinks[SessionOf(ask[a].run)] # None]
        <4>1. ask' = [ask EXCEPT ![a] = rec]
          BY <3>2, <1>1 DEF Emit
        <4>2. Good(rec)
          BY <3>1 DEF AskRecords
        <4> QED
          BY <4>1, <4>2
      <3>3. CASE Answered(a)
        <4> DEFINE rec == Over(ask[a].run, ask[a].what, ask[a].reply)
        <4>1. ask' = [ask EXCEPT ![a] = rec]
          BY <3>3 DEF Answered
        <4>2. Good(rec)
          BY <3>1, <3>3 DEF AskRecords, Over, Ask, Answered
        <4> QED
          BY <4>1, <4>2
      <3>4. CASE Expire(a)
        <4> DEFINE rec == [ask[a] EXCEPT !.st = "expired"]
        <4>1. ask' = [ask EXCEPT ![a] = rec]
          BY <3>4, <1>1 DEF Expire
        <4>2. Good(rec)
          BY <3>1 DEF AskRecords
        <4> QED
          BY <4>1, <4>2
      <3>5. CASE TimedOut(a)
        <4> DEFINE rec == Over(ask[a].run, ask[a].what, "no")
        <4>1. ask' = [ask EXCEPT ![a] = rec]
          BY <3>5 DEF TimedOut
        <4>2. Good(rec)
          BY <3>1 DEF AskRecords, Over, Ask
        <4> QED
          BY <4>1, <4>2
      <3> QED
        BY <1>7, <3>2, <3>3, <3>4, <3>5 DEF AskTask
    <2>2. ask' \in [DOMAIN ask -> AskRecords]
      BY <1>1, <2>1
    <2>3. allowed' = allowed
      BY <1>7 DEF AskTask, Emit, Answered, Expire, TimedOut
    <2>4. \A b \in DOMAIN ask : AskMoves(b)
      BY <1>1, <2>1, <2>3 DEF AskMoves, AskRecords
    <2> QED
      BY <1>1, <2>2, <2>4, SeqMap
  <1>8. ASSUME NEW s \in Sessions,
               Evict(s) \/ Cancel(s) \/ \E stored \in BOOLEAN : Create(s, stored)
        PROVE  UNCHANGED <<ask, allowed>>
    BY <1>8 DEF Evict, Cancel, Create, hub
  <1>9. ASSUME NEW r \in Reqs, Task(r), ~EndTurn(r), ~FinishRun(r)
        PROVE  UNCHANGED <<ask, allowed>>
    BY <1>9 DEF Task, Load, InsertSession, Rewind, NoKey, RegisterCancel,
       RegisterRun, Enqueue, BeginTurn, Save, TakeCancel, StreamEnd, hub
  <1>10. ASSUME NEW r \in Reqs,
                \/ \E s \in Sessions, kind \in Kinds, auto \in BOOLEAN :
                     Post(r, s, kind, auto)
                \/ \E over \in BOOLEAN : WarmTick(r, over)
                \/ \E answered, saved \in BOOLEAN : WarmRecord(r, answered, saved)
         PROVE  UNCHANGED <<ask, allowed>>
    BY <1>10 DEF Post, WarmTick, WarmRecord, hub
  <1>11. UNCHANGED vars => UNCHANGED <<ask, allowed>>
    BY DEF vars, hub
  <1> HIDE DEF Goal
  <1>12. ASSUME NEW r \in Reqs, Task(r) \/ Panic(r)
         PROVE  Goal
    <2>1. CASE EndTurn(r) \/ Panic(r)
      BY <1>3, <2>1
    <2>2. CASE FinishRun(r)
      BY <1>5, <2>2
    <2>3. CASE Task(r) /\ ~EndTurn(r) /\ ~FinishRun(r)
      <3>1. UNCHANGED <<ask, allowed>>
        BY <1>9, <2>3
      <3> QED
        BY <1>2, <3>1
    <2> QED
      BY <1>12, <2>1, <2>2, <2>3
  <1>13. ASSUME UNCHANGED vars PROVE Goal
    BY <1>2, <1>11, <1>13
  <1>14. ASSUME Next
         PROVE  Goal \/ \E r \in Reqs, what \in Tools \cup {"question"} :
                           AskUser(r, what)
    <2>1. ASSUME NEW s \in Sessions,
                 \/ Evict(s) \/ Cancel(s)
                 \/ \E stored \in BOOLEAN : Create(s, stored)
          PROVE  Goal
      BY <1>2, <1>8, <2>1
    <2>2. ASSUME NEW r \in Reqs,
                 \/ \E s \in Sessions, kind \in Kinds, auto \in BOOLEAN :
                      Post(r, s, kind, auto)
                 \/ \E over \in BOOLEAN : WarmTick(r, over)
                 \/ \E answered, saved \in BOOLEAN :
                      WarmRecord(r, answered, saved)
          PROVE  Goal
      BY <1>2, <1>10, <2>2
    <2> QED
      BY <1>6, <1>7, <1>12, <1>14, <2>1, <2>2, Zenon DEF Next
  <1>15. Goal \/ \E r \in Reqs, what \in Tools \cup {"question"} : AskUser(r, what)
    BY <1>13, <1>14
  <1> QED
    BY <1>15 DEF Goal

\* The ways of a request.
Edge(r, from, to) == pc[r] = from /\ pc' = [pc EXCEPT ![r] = to]

Flow(r) ==
    \/ (Edge(r, "load", "loaded") \/ Edge(r, "load", "refused")) /\ Load(r)
    \/ Edge(r, "loaded", IF req[r].kind = "rewind" THEN "edit" ELSE "keyed")
    \/ Edge(r, "edit", "ended") \/ Edge(r, "keyed", "refused")
    \/ Edge(r, "keyed", IF req[r].kind = "run" THEN "sink" ELSE "start")
    \/ Edge(r, "sink", "start") \/ Edge(r, "start", "queued")
    \/ Edge(r, "queued", "turn") /\ BeginTurn(r)
    \/ Edge(r, "turn", "released")
    \/ Panics /\ Edge(r, "turn", "panicked")
    \/ Edge(r, "released", "saving")
    \/ Edge(r, "saving", IF req[r].kind = "run" THEN "saved" ELSE "done")
    \/ Edge(r, "saved", "closing")
    \/ Edge(r, "closing", "done") /\ FinishRun(r)
    \/ Edge(r, "done", "ended") \/ Edge(r, "panicked", "ended")

\* A step moves one request on its way, takes a new one in, or moves none.
LEMMA NextFlow ==
    ASSUME [Next]_vars
    PROVE  \/ UNCHANGED <<req, pc>>
           \/ \E r \in Reqs : Flow(r) /\ UNCHANGED req
           \/ \E r \in Reqs, s \in Sessions, kind \in Kinds, auto \in BOOLEAN :
                Post(r, s, kind, auto)
  <1>1. ASSUME NEW r \in Reqs, Task(r) \/ Panic(r)
        PROVE  Flow(r) /\ UNCHANGED req
    <2>1. CASE \E n \in 0 .. Cardinality(Reqs) + 1, saved \in BOOLEAN :
                 Rewind(r, n, saved)
      BY <2>1 DEF Flow, Edge, Rewind, Go
    <2>2. CASE \E saved \in BOOLEAN : Save(r, saved)
      BY <2>2 DEF Flow, Edge, Save, Go
    <2>3. CASE FinishRun(r)
      <3>1. Edge(r, "closing", "done") /\ UNCHANGED req
        BY <2>3 DEF Edge, FinishRun, Go
      <3> QED
        BY <2>3, <3>1 DEF Flow
    <2>4. CASE BeginTurn(r)
      <3>1. Edge(r, "queued", "turn") /\ UNCHANGED req
        BY <2>4 DEF Edge, BeginTurn, Go
      <3> QED
        BY <2>4, <3>1 DEF Flow
    <2>5. CASE Load(r)
      <3>1. /\ Edge(r, "load", "loaded") \/ Edge(r, "load", "refused")
            /\ UNCHANGED req
        BY <2>5 DEF Edge, Load, Go
      <3> QED
        BY <2>5, <3>1 DEF Flow
    <2> QED
      BY <1>1, <2>1, <2>2, <2>3, <2>4, <2>5 DEF Task, Flow, Edge,
         InsertSession, NoKey, RegisterCancel, RegisterRun, Enqueue, EndTurn,
         Panic, TakeCancel, StreamEnd, Go
  <1> QED
    BY <1>1 DEF Next, Evict, Cancel, Create, AskUser, AskTask, Emit, Answered,
       Expire, TimedOut, Decide, WarmTick, WarmRecord, vars

\* Requests and their places keep their types.
LEMMA NextReqType ==
    ASSUME ReqType, [Next]_vars
    PROVE  ReqType'
  <1>1. ASSUME NEW r \in Reqs, Flow(r), UNCHANGED req
        PROVE  ReqType'
    BY <1>1 DEF ReqType, Flow, Edge, Places
  <1>2. ASSUME NEW r \in Reqs, NEW s \in Sessions, NEW kind \in Kinds,
               NEW auto \in BOOLEAN, Post(r, s, kind, auto)
        PROVE  ReqType'
    BY <1>2 DEF ReqType, Requests, Post, Go, Places
  <1>3. CASE UNCHANGED <<req, pc>>
    BY <1>3 DEF ReqType
  <1> QED
    BY <1>1, <1>2, <1>3, NextFlow

\* A request that was made stays as it is.
LEMMA ReqKept ==
    ASSUME ReqType, [Next]_vars, NEW r \in Reqs, pc[r] # "idle"
    PROVE  req'[r] = req[r] /\ pc'[r] # "idle"
  <1>1. ASSUME NEW q \in Reqs, Flow(q), UNCHANGED req
        PROVE  req'[r] = req[r] /\ pc'[r] # "idle"
    BY <1>1 DEF ReqType, Flow, Edge, Places
  <1>2. ASSUME NEW q \in Reqs, NEW s \in Sessions, NEW kind \in Kinds,
               NEW auto \in BOOLEAN, Post(q, s, kind, auto)
        PROVE  req'[r] = req[r] /\ pc'[r] # "idle"
    BY <1>2 DEF ReqType, Post, Go
  <1> QED
    BY <1>1, <1>2, NextFlow

\* Rewinds do not start turns.
LEMMA NextKind ==
    ASSUME ReqType, KindInv, [Next]_vars
    PROVE  KindInv'
  <1>1. \A r \in Reqs : pc[r] = "loaded" => req[r].kind \in Kinds
    BY DEF ReqType, Requests
  <1>2. ASSUME NEW r \in Reqs, Flow(r), UNCHANGED req
        PROVE  KindInv'
    BY <1>1, <1>2 DEF KindInv, ReqType, Flow, Edge, Active, Kinds
  <1>3. ASSUME NEW r \in Reqs, NEW s \in Sessions, NEW kind \in Kinds,
               NEW auto \in BOOLEAN, Post(r, s, kind, auto)
        PROVE  KindInv'
    BY <1>3 DEF KindInv, ReqType, Post, Go, Active, Kinds
  <1>4. CASE UNCHANGED <<req, pc>>
    BY <1>4 DEF KindInv
  <1> QED
    BY <1>2, <1>3, <1>4, NextFlow

\* A run that has not finished stays so until finish_run.
LEMMA RunMoves ==
    ASSUME ~Panics, ReqType, [Next]_vars, NEW r \in Reqs,
           req[r].kind = "run",
           pc[r] \in {"turn", "released", "saving", "saved", "closing"}
    PROVE  \/ pc'[r] \in {"turn", "released", "saving", "saved", "closing"}
           \/ FinishRun(r)
  <1>1. ASSUME NEW q \in Reqs, Flow(q)
        PROVE  \/ pc'[r] \in {"turn", "released", "saving", "saved", "closing"}
               \/ FinishRun(r)
    BY <1>1 DEF ReqType, Flow, Edge
  <1>2. ASSUME NEW q \in Reqs, NEW s \in Sessions, NEW kind \in Kinds,
               NEW auto \in BOOLEAN, Post(q, s, kind, auto)
        PROVE  pc'[r] = pc[r]
    BY <1>2 DEF ReqType, Post, Go
  <1> QED
    BY <1>1, <1>2, NextFlow

\* A new ask gets the next number, is of the run that asks, and is approved at
\* once only for auto_approve, a chat, or a tool that is always allowed.
LEMMA AskAppends ==
    ASSUME HubType, ReqType, NEW r \in Reqs,
           NEW what \in Tools \cup {"question"}, AskUser(r, what), NEW n,
           n = Len(ask) + 1
    PROVE  /\ ask' \in Seq(AskRecords) /\ Len(ask') = n
           /\ DOMAIN ask' = DOMAIN ask \cup {n} /\ n \notin DOMAIN ask
           /\ \A a \in DOMAIN ask : ask'[a] = ask[a]
           /\ ask'[n].run = r /\ ask'[n].what = what /\ ask'[n].reply = "none"
           /\ \/ AutoApproved(r) \/ IsAlwaysAllowed(r, what)
              \/ ask'[n].result = "none"
           /\ \/ pending' = pending
              \/ pending' = pending \cup {n} /\ ~AutoApproved(r)
  <1>1. ask \in Seq(AskRecords)
    BY DEF HubType
  <1> DEFINE rec == IF AutoApproved(r) \/ IsAlwaysAllowed(r, what)
                    THEN Over(r, what, "yes")
                    ELSE Ask(r, what, "insert", "none")
  <1>2. /\ rec \in AskRecords /\ rec.run = r /\ rec.what = what
        /\ rec.reply = "none"
        /\ \/ AutoApproved(r) \/ IsAlwaysAllowed(r, what)
           \/ rec.result = "none"
    BY DEF AskRecords, Over, Ask
  <1>3. ask' = Append(ask, rec)
    BY DEF AskUser
  <1> HIDE DEF rec
  <1>4. /\ ask' \in Seq(AskRecords)
        /\ Len(ask') = n
        /\ DOMAIN ask' = DOMAIN ask \cup {n} /\ n \notin DOMAIN ask
        /\ \A a \in DOMAIN ask : ask'[a] = ask[a]
        /\ ask'[n] = rec
    BY <1>1, <1>2, <1>3
  <1> QED
    BY <1>2, <1>3, <1>4 DEF AskUser, RequestNumber

\* The actions that leave the hub and the cancel flags alone.
LEMMA HubKept ==
    ASSUME [Next]_vars
    PROVE  \/ UNCHANGED <<hub, cancels>>
           \/ \E s \in Sessions : Cancel(s)
           \/ \E r \in Reqs :
                \/ RegisterCancel(r) \/ RegisterRun(r) \/ EndTurn(r) \/ Panic(r)
                \/ TakeCancel(r) \/ FinishRun(r) \/ StreamEnd(r)
                \/ \E what \in Tools \cup {"question"} : AskUser(r, what)
           \/ \E a \in DOMAIN ask :
                \/ AskTask(a)
                \/ \E decision \in {"deny", "allow", "always"} :
                     Decide(a, decision)
  <1>1. ASSUME NEW r \in Reqs,
               \/ Load(r) \/ InsertSession(r) \/ NoKey(r) \/ Enqueue(r)
               \/ BeginTurn(r)
               \/ \E n \in 0 .. Cardinality(Reqs) + 1, saved \in BOOLEAN :
                    Rewind(r, n, saved)
               \/ \E saved \in BOOLEAN : Save(r, saved)
               \/ \E s \in Sessions, kind \in Kinds, auto \in BOOLEAN :
                    Post(r, s, kind, auto)
               \/ \E over \in BOOLEAN : WarmTick(r, over)
               \/ \E answered, saved \in BOOLEAN :
                    WarmRecord(r, answered, saved)
        PROVE  UNCHANGED <<hub, cancels>>
    BY <1>1, Zenon DEF Load, InsertSession, NoKey, Enqueue, BeginTurn, Rewind, Save,
       Post, WarmTick, WarmRecord
  <1>2. ASSUME NEW s \in Sessions,
               Evict(s) \/ \E stored \in BOOLEAN : Create(s, stored)
        PROVE  UNCHANGED <<hub, cancels>>
    BY <1>2, Zenon DEF Evict, Create
  <1>3. CASE UNCHANGED vars
    BY <1>3 DEF vars
  <1> QED
    BY <1>1, <1>2, <1>3, Zenon DEF Next, Task

\* The hub of permissions and the cancel flags keep their types.
LEMMA NextHubType ==
    ASSUME HubType, ReqType, AskInv, [Next]_vars
    PROVE  HubType'
  <1> USE DaemonAssumption DEF HubType
  <1>1. \A r \in Reqs : pc[r] # "idle" => SessionOf(r) \in Sessions
    BY DEF ReqType, Requests, SessionOf
  <1>2. /\ ask' \in Seq(AskRecords) /\ Len(ask') <= MaxAsks
        /\ DOMAIN ask \subseteq DOMAIN ask'
    <2>1. ASSUME NEW r \in Reqs, NEW what \in Tools \cup {"question"},
                 AskUser(r, what)
          PROVE  /\ ask' \in Seq(AskRecords) /\ Len(ask') <= MaxAsks
                 /\ DOMAIN ask \subseteq DOMAIN ask'
      <3> DEFINE n == Len(ask) + 1
      <3>1. Len(ask) \in Nat /\ Len(ask) < MaxAsks
        BY <2>1 DEF AskUser
      <3>2. /\ ask' \in Seq(AskRecords) /\ Len(ask') = n
            /\ DOMAIN ask' = DOMAIN ask \cup {n}
        BY <2>1, AskAppends
      <3> QED
        BY <3>1, <3>2
    <2> QED
      BY <2>1, NextAsk
  <1>3. pending' \subseteq DOMAIN ask' /\ allowed' \subseteq DOMAIN ask'
    <2>1. ASSUME NEW r \in Reqs, NEW what \in Tools \cup {"question"},
                 AskUser(r, what)
          PROVE  /\ pending' \subseteq DOMAIN ask'
                 /\ allowed' \subseteq DOMAIN ask'
      <3> DEFINE n == Len(ask) + 1
      <3>1. /\ DOMAIN ask' = DOMAIN ask \cup {n}
            /\ pending' = pending \/ pending' = pending \cup {n}
        <4> HIDE DEF n, HubType
        <4>1. n = Len(ask) + 1
          BY DEF n
        <4> QED
          BY <2>1, <4>1, AskAppends
      <3> QED
        BY <2>1, <3>1 DEF AskUser
    <2>2. ASSUME NEW a \in DOMAIN ask,
                 NEW decision \in {"deny", "allow", "always"},
                 Decide(a, decision)
          PROVE  /\ pending' \subseteq DOMAIN ask'
                 /\ allowed' \subseteq DOMAIN ask'
      BY <1>2, <2>2 DEF Decide
    <2>3. CASE pending' \subseteq pending /\ allowed' = allowed
      BY <1>2, <2>3
    <2> QED
      BY <2>1, <2>2, <2>3, HubKept DEF Cancel, RegisterCancel, RegisterRun,
         EndTurn, Panic, TakeCancel, FinishRun, StreamEnd, AskTask, Emit,
         Answered, Expire, TimedOut, hub
  <1>4. always' \subseteq Sessions \X Tools
    <2>1. ASSUME NEW a \in DOMAIN ask,
                 NEW decision \in {"deny", "allow", "always"},
                 Decide(a, decision)
          PROVE  always' \subseteq Sessions \X Tools
      <3>1. ask[a] \in AskRecords
        OBVIOUS
      <3>2. SessionOf(ask[a].run) \in Sessions
        BY <1>1, <3>1 DEF AskInv, AskRecords
      <3> QED
        BY <2>1, <3>2 DEF Decide
    <2>2. CASE always' = always
      BY <2>2
    <2> QED
      BY <2>1, <2>2, HubKept DEF Cancel, RegisterCancel, RegisterRun, EndTurn,
         Panic, TakeCancel, FinishRun, StreamEnd, AskUser, AskTask, Emit,
         Answered, Expire, TimedOut, hub
  <1>5. flags' \in [Sessions -> Reqs \cup {None}]
    <2>1. \/ flags' = flags
          \/ \E r \in Reqs, f \in Reqs \cup {None} :
               flags' = [flags EXCEPT ![SessionOf(r)] = f]
      BY HubKept DEF Cancel, RegisterCancel, RegisterRun, EndTurn, Panic,
         TakeCancel, FinishRun, StreamEnd, AskUser, AskTask, Emit, Answered,
         Expire, TimedOut, Decide, cancels
    <2> QED
      BY <2>1
  <1>6. sinks' \in [Sessions -> Reqs \cup {None}]
    <2>1. \/ sinks' = sinks
          \/ \E r \in Reqs, f \in Reqs \cup {None} :
               sinks' = [sinks EXCEPT ![SessionOf(r)] = f]
      BY HubKept DEF Cancel, RegisterCancel, RegisterRun, EndTurn, Panic,
         TakeCancel, FinishRun, StreamEnd, AskUser, AskTask, Emit, Answered,
         Expire, TimedOut, Decide, hub
    <2> QED
      BY <2>1
  <1>7. cancelled' \subseteq Reqs
    <2>1. \/ cancelled' \subseteq cancelled
          \/ \E s \in Sessions : flags[s] # None
                                 /\ cancelled' = cancelled \cup {flags[s]}
      BY HubKept DEF Cancel, RegisterCancel, RegisterRun, EndTurn, Panic,
         TakeCancel, FinishRun, StreamEnd, AskUser, AskTask, Emit, Answered,
         Expire, TimedOut, Decide, cancels
    <2> QED
      BY <2>1
  <1> QED
    BY <1>2, <1>3, <1>4, <1>5, <1>6, <1>7

\* No step of any request approves an ask without the user (ask, decide,
\* finish_run, the timeouts).
LEMMA NextAskInv ==
    ASSUME HubType, ReqType, AskInv,
           ApprovedByUser, [Next]_vars
    PROVE  AskInv' /\ ApprovedByUser'
  <1>1. /\ \A a \in DOMAIN ask : ask[a] \in AskRecords /\ ask[a].run \in Reqs
        /\ allowed \subseteq DOMAIN ask
    <2>1. \A a \in DOMAIN ask : ask[a] \in AskRecords
      BY DEF HubType
    <2> QED
      BY <2>1 DEF HubType, AskRecords
  <1>2. \A a \in DOMAIN ask :
          /\ req'[ask[a].run] = req[ask[a].run] /\ pc'[ask[a].run] # "idle"
          /\ SessionOf(ask[a].run)' = req'[ask'[a].run].session
    BY <1>1, ReqKept DEF AskInv, SessionOf
  <1>3. allowed \subseteq allowed'
    BY HubKept DEF Cancel, RegisterCancel, RegisterRun, EndTurn, Panic,
       TakeCancel, FinishRun, StreamEnd, AskUser, AskTask, Emit, Answered,
       Expire, TimedOut, Decide, hub
  <1>4. CASE /\ DOMAIN ask' = DOMAIN ask
             /\ \A a \in DOMAIN ask : AskMoves(a)
    <2>1. \A a \in DOMAIN ask :
            /\ ask'[a].run = ask[a].run /\ ask'[a].what = ask[a].what
            /\ (SessionOf(ask[a].run))' = SessionOf(ask[a].run)
            /\ AutoApproved(ask[a].run)' = AutoApproved(ask[a].run)
      BY <1>2, <1>4 DEF AskMoves, SessionOf, AutoApproved
    <2>2. \A a \in DOMAIN ask' :
            /\ pc'[ask'[a].run] # "idle"
            /\ ask'[a].reply = "yes" => a \in allowed'
      BY <1>2, <1>3, <1>4, <2>1 DEF AskMoves, AskInv
    <2>3. ASSUME NEW s \in Sessions, NEW tool \in Tools,
                 <<s, tool>> \in always'
          PROVE  \E b \in allowed' : ask'[b].what = tool
                                     /\ SessionOf(ask[b].run)' = s
      <3>1. CASE <<s, tool>> \in always
        BY <1>1, <1>3, <2>1, <3>1 DEF AskInv
      <3>2. ASSUME NEW a \in DOMAIN ask,
                 NEW decision \in {"deny", "allow", "always"},
                 Decide(a, decision), <<s, tool>> \notin always
            PROVE  a \in allowed' /\ ask[a].what = tool
                   /\ SessionOf(ask[a].run) = s
        BY <2>3, <3>2 DEF Decide
      <3>3. CASE always' = always
        BY <2>3, <3>1, <3>3
      <3> QED
        BY ZenonT(60), <2>1, <3>1, <3>2, <3>3, HubKept DEF Cancel, RegisterCancel,
           RegisterRun, EndTurn, Panic, TakeCancel, FinishRun, StreamEnd,
           AskUser, AskTask, Emit, Answered, Expire, TimedOut, hub
    <2>4. ApprovedByUser'
      <3> SUFFICES ASSUME NEW a \in DOMAIN ask, ask'[a].result = "yes"
                   PROVE  \/ AutoApproved(ask[a].run)'
                          \/ a \in allowed'
                          \/ \E b \in allowed' :
                               /\ ask'[b].what = ask'[a].what
                               /\ ask'[b].what \in Tools
                              /\ 
                              /\ SessionOf(ask[b].run)' = SessionOf(ask[a].run)'
        BY <1>4 DEF ApprovedByUser
      <3>1. CASE ask[a].reply = "yes"
        BY <1>3, <3>1 DEF AskInv
      <3>2. CASE ask[a].result = "yes"
        BY <1>1, <1>3, <2>1, <3>2 DEF ApprovedByUser
      <3> QED
        BY <1>4, <3>1, <3>2 DEF AskMoves
    <2> QED
      BY <2>2, <2>3, <2>4 DEF AskInv
  <1>5. ASSUME NEW r \in Reqs, NEW what \in Tools \cup {"question"},
               AskUser(r, what)
        PROVE  AskInv' /\ ApprovedByUser'
    <2> DEFINE n == Len(ask) + 1
    <2>1. /\ DOMAIN ask' = DOMAIN ask \cup {n}
          /\ \A a \in DOMAIN ask : ask'[a] = ask[a]
          /\ ask'[n].run = r /\ ask'[n].what = what
          /\ ask'[n].reply = "none"
          /\ \/ AutoApproved(r) \/ IsAlwaysAllowed(r, what)
             \/ ask'[n].result = "none"
      BY ZenonT(100), <1>5, AskAppends
    <2>2. UNCHANGED <<req, pc, always, allowed>> /\ pc[r] = "turn"
      BY <1>5 DEF AskUser
    <2> HIDE DEF n
    <2>3. \A a \in DOMAIN ask' :
            /\ pc'[ask'[a].run] # "idle"
            /\ ask'[a].reply = "yes" => a \in allowed'
      BY <2>1, <2>2 DEF AskInv
    <2>4. \A q : /\ SessionOf(q)' = SessionOf(q)
                 /\ AutoApproved(q)' = AutoApproved(q)
      BY <2>2 DEF SessionOf, AutoApproved
    <2>5. AskInv'
      BY <1>1, <2>1, <2>2, <2>3, <2>4 DEF AskInv, SessionOf
    <2>6. SessionOf(r) \in Sessions
      BY <2>2 DEF ReqType, Requests, SessionOf
    <2>7. IsAlwaysAllowed(r, what) =>
            \E b \in allowed : /\ ask[b].what = what /\ what \in Tools
                               /\ SessionOf(ask[b].run) = SessionOf(r)
      BY <2>6 DEF IsAlwaysAllowed, AskInv, HubType
    <2>8. ApprovedByUser'
      BY <1>1, <2>1, <2>2, <2>7 DEF ApprovedByUser, SessionOf, AutoApproved
    <2> QED
      BY <2>5, <2>8
  <1> QED
    BY <1>4, <1>5, NextAsk

\* An entry of the hub is one of a run that has not finished.
LEMMA NextPending ==
    ASSUME ~Panics, HubType, ReqType, AskInv, KindInv, PendingInv, [Next]_vars
    PROVE  PendingInv'
  <1> DEFINE Open == {"turn", "released", "saving", "saved", "closing"}
  <1>1. /\ \A a \in DOMAIN ask : ask[a].run \in Reqs /\ pc[ask[a].run] # "idle"
        /\ pending \subseteq DOMAIN ask
    <2>1. \A a \in DOMAIN ask : ask[a] \in AskRecords
      BY DEF HubType
    <2> QED
      BY <2>1 DEF HubType, AskRecords, AskInv
  <1>2. ASSUME NEW a \in pending, a \in pending', ask'[a].run = ask[a].run
        PROVE  /\ req'[ask'[a].run].kind = "run"
               /\ pc'[ask'[a].run] \in Open
    <2>1. /\ ask[a].run \in Reqs /\ req[ask[a].run].kind = "run"
          /\ pc[ask[a].run] \in Open
      BY <1>1 DEF PendingInv
    <2>2. req'[ask[a].run] = req[ask[a].run]
      BY <2>1, ReqKept
    <2>3. ~FinishRun(ask[a].run)
      BY <1>2 DEF FinishRun, SessionAsks
    <2> QED
      BY <1>2, <2>1, <2>2, <2>3, RunMoves
  <1>3. ASSUME NEW r \in Reqs, NEW what \in Tools \cup {"question"},
               AskUser(r, what)
        PROVE  PendingInv'
    <2> DEFINE n == Len(ask) + 1
    <2>1. /\ \A a \in DOMAIN ask : ask'[a] = ask[a]
          /\ ask'[n].run = r
          /\ \/ pending' = pending
             \/ pending' = pending \cup {n} /\ ~AutoApproved(r)
      BY <1>3, AskAppends
    <2> HIDE DEF n
    <2>2. pc[r] = "turn" /\ req' = req /\ pc' = pc
      BY <1>3 DEF AskUser
    <2>3. ~AutoApproved(r) => req[r].kind = "run"
      <3>1. req[r].kind \in {"run", "chat"}
        BY <2>2 DEF KindInv, Active
      <3> QED
        BY <3>1 DEF AutoApproved
    <2> QED
      BY <1>1, <1>2, <2>1, <2>2, <2>3 DEF PendingInv
  <1>4. CASE ~ \E r \in Reqs, what \in Tools \cup {"question"} :
                 AskUser(r, what)
    <2>1. pending' \subseteq pending
      BY <1>4, HubKept DEF Cancel, RegisterCancel, RegisterRun, EndTurn, Panic,
         TakeCancel, FinishRun, StreamEnd, AskTask, Emit, Answered, Expire,
         TimedOut, Decide, hub
    <2>2. \A a \in DOMAIN ask : ask'[a].run = ask[a].run
      BY <1>4, NextAsk DEF AskMoves
    <2> QED
      BY <1>1, <1>2, <2>1, <2>2 DEF PendingInv
  <1> QED
    BY <1>3, <1>4

\* The actions that change the store or a keep-alive.
LEMMA StoreKept ==
    ASSUME [Next]_vars
    PROVE  \/ UNCHANGED <<store, warm>>
           \/ \E s \in Sessions : \/ Evict(s)
                                  \/ \E stored \in BOOLEAN : Create(s, stored)
           \/ \E r \in Reqs :
                \/ Load(r) \/ InsertSession(r) \/ NoKey(r) \/ Enqueue(r)
                \/ BeginTurn(r) \/ EndTurn(r) \/ Panic(r) \/ StreamEnd(r)
                \/ \E n \in 0 .. Cardinality(Reqs) + 1, saved \in BOOLEAN :
                     Rewind(r, n, saved)
                \/ \E saved \in BOOLEAN : Save(r, saved)
                \/ \E s \in Sessions, kind \in Kinds, auto \in BOOLEAN :
                     Post(r, s, kind, auto)
                \/ \E over \in BOOLEAN : WarmTick(r, over)
                \/ \E answered, saved \in BOOLEAN :
                     WarmRecord(r, answered, saved)
  <1>1. ASSUME NEW r \in Reqs,
               \/ RegisterCancel(r) \/ RegisterRun(r) \/ TakeCancel(r)
               \/ FinishRun(r)
               \/ \E what \in Tools \cup {"question"} : AskUser(r, what)
        PROVE  UNCHANGED <<store, warm>>
    BY <1>1, Zenon DEF RegisterCancel, RegisterRun, TakeCancel, FinishRun, AskUser
  <1>2. ASSUME NEW a \in DOMAIN ask,
               \/ AskTask(a)
               \/ \E decision \in {"deny", "allow", "always"} :
                    Decide(a, decision)
        PROVE  UNCHANGED <<store, warm>>
    BY <1>2, Zenon DEF AskTask, Emit, Answered, Expire, TimedOut, Decide
  <1>3. ASSUME NEW s \in Sessions, Cancel(s)
        PROVE  UNCHANGED <<store, warm>>
    BY <1>3, Zenon DEF Cancel
  <1>4. CASE UNCHANGED vars
    BY <1>4 DEF vars
  <1> QED
    BY <1>1, <1>2, <1>3, <1>4, Zenon DEF Next, Task

\* Of them, the ones that leave the table of sessions and the database alone.
LEMMA TableKept ==
    ASSUME [Next]_vars
    PROVE  \/ UNCHANGED <<sessions, db>>
           \/ \E s \in Sessions : \/ Evict(s)
                                  \/ \E stored \in BOOLEAN : Create(s, stored)
           \/ \E r \in Reqs :
                \/ InsertSession(r)
                \/ \E n \in 0 .. Cardinality(Reqs) + 1, saved \in BOOLEAN :
                     Rewind(r, n, saved)
                \/ \E saved \in BOOLEAN : Save(r, saved)
                \/ \E answered, saved \in BOOLEAN :
                     WarmRecord(r, answered, saved)
  <1>1. ASSUME NEW r \in Reqs,
               \/ Load(r) \/ NoKey(r) \/ Enqueue(r) \/ BeginTurn(r)
               \/ EndTurn(r) \/ Panic(r) \/ StreamEnd(r)
        PROVE  UNCHANGED <<sessions, db>>
    BY <1>1 DEF Load, NoKey, Enqueue, BeginTurn, EndTurn, Panic, StreamEnd
  <1>2. ASSUME NEW r \in Reqs, NEW s \in Sessions, NEW kind \in Kinds,
               NEW auto \in BOOLEAN, Post(r, s, kind, auto)
        PROVE  UNCHANGED <<sessions, db>>
    BY <1>2 DEF Post
  <1>3. ASSUME NEW r \in Reqs, NEW over \in BOOLEAN, WarmTick(r, over)
        PROVE  UNCHANGED <<sessions, db>>
    BY <1>3 DEF WarmTick, store
  <1>4. CASE UNCHANGED <<store, warm>>
    BY <1>4 DEF store
  <1> QED
    BY <1>1, <1>2, <1>3, <1>4, StoreKept

\* The sessions in memory and in the database, the mutexes and the keep-alives
\* keep their types.
LEMMA NextStoreType ==
    ASSUME StoreType, ReqType, StoreInv, [Next]_vars
    PROVE  StoreType'
  <1> USE DaemonAssumption DEF StoreType
  <1>1. CASE UNCHANGED <<store, warm>>
    BY <1>1 DEF store
  <1>2. ASSUME NEW s \in Sessions, NEW stored \in BOOLEAN, Create(s, stored)
        PROVE  StoreType'
    BY <1>2 DEF Create, Handles
  <1>3. ASSUME NEW s \in Sessions, Evict(s)
        PROVE  StoreType'
    <2>1. sessions[s] \in Handles
      BY <1>3 DEF Evict
    <2>2. content[sessions[s]] \in Seq(Messages)
      BY <2>1
    <2> QED
      BY <1>3, <2>1, <2>2 DEF Evict
  <1>4. ASSUME NEW r \in Reqs, NEW s \in Sessions, NEW kind \in Kinds,
               NEW auto \in BOOLEAN, Post(r, s, kind, auto)
        PROVE  StoreType'
    BY <1>4 DEF Post
  <1>5. ASSUME NEW r \in Reqs, Load(r)
        PROVE  StoreType'
    <2>1. SessionOf(r) \in Sessions /\ db[SessionOf(r)] # None
      BY <1>5 DEF Load, ReqType, Requests, StoreInv, PlaceInv, SessionOf
    <2> QED
      BY <1>5, <2>1 DEF Load
  <1>6. ASSUME NEW r \in Reqs, InsertSession(r) \/ NoKey(r) \/ StreamEnd(r)
        PROVE  StoreType'
    <2>1. r \in Handles
      BY DEF Handles
    <2>2. /\ UNCHANGED <<db, content, waiters, holder, warm, rewound, raced>>
          /\ \/ sessions' = sessions
             \/ sessions' = [sessions EXCEPT ![SessionOf(r)] = r]
          /\ \E h \in {r, None} : own' = [own EXCEPT ![r] = h]
      BY <1>6 DEF InsertSession, NoKey, StreamEnd
    <2>3. sessions' \in [Sessions -> Handles \cup {None}]
      BY ZenonT(100), <2>1, <2>2
    <2>4. own' \in [Reqs -> Handles \cup {None}]
      BY <2>1, <2>2
    <2> QED
      BY <2>2, <2>3, <2>4
  <1>7. ASSUME NEW r \in Reqs, pc[r] \in Active \cup {"edit"}
        PROVE  /\ own[r] \in Handles /\ content[own[r]] \in Seq(Messages)
               /\ waiters[own[r]] \in Seq(Reqs)
    BY <1>7 DEF StoreInv, PlaceInv, HandleOf, Active, NoHandle
  <1>8. ASSUME NEW r \in Reqs, NEW n \in 0 .. Cardinality(Reqs) + 1,
               NEW saved \in BOOLEAN, Rewind(r, n, saved)
        PROVE  StoreType'
    <2>1. /\ own[r] \in Handles /\ content[own[r]] \in Seq(Messages)
          /\ n \in 0 .. Len(content[own[r]])
      BY <1>7, <1>8 DEF Rewind
    <2>2. SubSeq(content[own[r]], 1, n) \in Seq(Messages)
      BY <2>1
    <2>3. content' \in [Handles -> Seq(Messages)]
      BY <1>8, <2>2 DEF Rewind
    <2>4. db' \in [Sessions -> Seq(Messages) \cup {None}]
      BY <1>8, <2>1, <2>3 DEF Rewind
    <2>5. rewound' \subseteq Messages
      BY <1>8, <2>1 DEF Rewind
    <2> QED
      BY <1>8, <2>3, <2>4, <2>5 DEF Rewind
  <1>9. ASSUME NEW r \in Reqs, Enqueue(r)
        PROVE  StoreType'
    <2>1. Append(waiters[own[r]], r) \in Seq(Reqs)
      BY <1>7, <1>9 DEF Enqueue, Active
    <2> QED
      BY <1>9, <2>1 DEF Enqueue
  <1>10. ASSUME NEW r \in Reqs, BeginTurn(r)
        PROVE  StoreType'
    <2>1. /\ content[own[r]] \in Seq(Messages) /\ waiters[own[r]] \in Seq(Reqs)
          /\ waiters[own[r]] # << >> /\ r \in Messages
      BY <1>7, <1>10 DEF BeginTurn, AtHead, Active, Messages
    <2>2. /\ Append(content[own[r]], r) \in Seq(Messages)
          /\ Tail(waiters[own[r]]) \in Seq(Reqs)
      BY <2>1
    <2> QED
      BY <1>10, <2>2 DEF BeginTurn
  <1>11. ASSUME NEW r \in Reqs, EndTurn(r) \/ Panic(r)
        PROVE  StoreType'
    <2>1. holder' = [holder EXCEPT ![own[r]] = None]
      BY <1>11 DEF EndTurn, Panic
    <2> QED
      BY <1>11, <2>1 DEF EndTurn, Panic
  <1>12. ASSUME NEW r \in Reqs, NEW saved \in BOOLEAN, Save(r, saved)
        PROVE  StoreType'
    <2>1. /\ own[r] \in Handles /\ content[own[r]] \in Seq(Messages)
          /\ waiters[own[r]] \in Seq(Reqs) /\ waiters[own[r]] # << >>
      BY <1>7, <1>12 DEF Save, AtHead, Active
    <2>2. Tail(waiters[own[r]]) \in Seq(Reqs) /\ Len(content[own[r]]) \in Nat
      BY <2>1
    <2>3. waiters' \in [Handles -> Seq(Reqs)]
      BY <1>12, <2>2 DEF Save
    <2>4. db' \in [Sessions -> Seq(Messages) \cup {None}]
      BY <1>12, <2>1 DEF Save
    <2>5. warm' \in [Reqs -> WarmRecords]
      <3>1. [st |-> "sleep", handle |-> own[r],
             history |-> Len(content[own[r]])] \in WarmRecords
        BY <2>1, <2>2 DEF WarmRecords
      <3> QED
        BY <1>12, <3>1 DEF Save
    <2> QED
      BY <1>12, <2>3, <2>4, <2>5 DEF Save
  <1>13. ASSUME NEW r \in Reqs, NEW over \in BOOLEAN, WarmTick(r, over)
        PROVE  StoreType'
    <2>1. /\ NoWarm \in WarmRecords
          /\ [warm[r] EXCEPT !.st = "sent"] \in WarmRecords
      <3>1. warm[r] \in WarmRecords
        OBVIOUS
      <3> QED
        BY <3>1 DEF NoWarm, WarmRecords
    <2>2. \E rec \in WarmRecords : warm' = [warm EXCEPT ![r] = rec]
      BY <1>13, <2>1 DEF WarmTick
    <2>3. UNCHANGED <<sessions, db, content, holder, waiters, own, rewound, raced>>
      BY <1>13 DEF WarmTick, store
    <2>4. warm' \in [Reqs -> WarmRecords]
      BY <2>2
    <2> QED
      BY <2>3, <2>4
  <1>14. ASSUME NEW r \in Reqs, NEW answered \in BOOLEAN, NEW saved \in BOOLEAN,
                WarmRecord(r, answered, saved)
        PROVE  StoreType'
    <2>1. /\ NoWarm \in WarmRecords
          /\ [warm[r] EXCEPT !.st = "sleep"] \in WarmRecords
      <3>1. warm[r] \in WarmRecords
        OBVIOUS
      <3> QED
        BY <3>1 DEF NoWarm, WarmRecords
    <2>2. \E rec \in WarmRecords : warm' = [warm EXCEPT ![r] = rec]
      BY <1>14, <2>1 DEF WarmRecord
    <2>3. warm[r].handle \in Handles
      BY <1>14 DEF WarmRecord, StoreInv, PlaceInv, HandleOf
    <2>4. db' \in [Sessions -> Seq(Messages) \cup {None}]
      BY <1>14, <2>3 DEF WarmRecord
    <2>5. UNCHANGED <<sessions, content, holder, waiters, own, rewound, raced>>
      BY <1>14 DEF WarmRecord
    <2>6. warm' \in [Reqs -> WarmRecords]
      BY <2>2
    <2> QED
      BY <2>4, <2>5, <2>6
  <1> QED
    BY <1>1, <1>2, <1>3, <1>4, <1>5, <1>6, <1>8, <1>9, <1>10, <1>11, <1>12,
       <1>13, <1>14, StoreKept

\* The handles that requests and keep-alives hold are of their sessions.
LEMMA NextStoreInv ==
    ASSUME StoreType, ReqType, StoreInv, [Next]_vars
    PROVE  StoreInv'
  <1> USE DaemonAssumption
  <1>1. /\ \A r \in Reqs : pc[r] # "idle" => SessionOf(r) \in Sessions
        /\ \A r \in Reqs : own[r] \in Handles \cup {None}
        /\ \A r \in Reqs : warm[r] \in WarmRecords
        /\ \A r \in Reqs : r \notin Sessions
    BY DEF ReqType, StoreType, Requests, SessionOf
  \* A handle stays one of its session.
  <1>2. \A h, s : HandleOf(h, s) => HandleOf(h, s)'
    <2> SUFFICES ASSUME NEW h \in Reqs, NEW s, HandleOf(h, s), h \notin Sessions
                 PROVE  HandleOf(h, s)'
      BY DEF HandleOf, Handles, Made, Home
    <2>1. pc[h] \notin {"idle", "load", "loaded"} /\ SessionOf(h) = s
      BY DEF HandleOf, Made, Home
    <2>2. req'[h] = req[h] /\ pc'[h] \notin {"idle", "load", "loaded"}
      <3>1. ASSUME NEW q \in Reqs, Flow(q), UNCHANGED req
            PROVE  req'[h] = req[h] /\ pc'[h] \notin {"idle", "load", "loaded"}
        BY <2>1, <3>1 DEF ReqType, Flow, Edge, Places
      <3>2. ASSUME NEW q \in Reqs, NEW t \in Sessions, NEW kind \in Kinds,
                   NEW auto \in BOOLEAN, Post(q, t, kind, auto)
            PROVE  req'[h] = req[h] /\ pc'[h] \notin {"idle", "load", "loaded"}
        BY <2>1, <3>2 DEF ReqType, Post, Go
      <3> QED
        BY <2>1, <3>1, <3>2, NextFlow
    <2> QED
      BY <2>1, <2>2 DEF HandleOf, Made, Home, SessionOf, Handles
  <1>3. \A s \in Sessions : db[s] # None => db'[s] # None
    <2> DEFINE Kept == \A t \in Sessions : db[t] # None => db'[t] # None
    <2>1. ASSUME NEW s \in Sessions, NEW h \in Handles,
                 db' = [db EXCEPT ![s] = content'[h]]
                 \/ db' = [db EXCEPT ![s] = content[h]]
          PROVE  Kept
      <3>1. content[h] # None /\ content'[h] # None
        BY NextStoreType DEF StoreType, Messages
      <3> QED
        BY <2>1, <3>1 DEF StoreType
    <2>2. ASSUME db' = db PROVE Kept
      BY <2>2
    <2>3. ASSUME NEW s \in Sessions, NEW stored \in BOOLEAN, Create(s, stored)
          PROVE  Kept
      BY <2>3 DEF Create, StoreType
    <2>4. ASSUME NEW s \in Sessions, Evict(s)
          PROVE  Kept
      BY <2>1, <2>4 DEF Evict, StoreType
    <2>5. ASSUME NEW r \in Reqs, NEW n \in 0 .. Cardinality(Reqs) + 1,
                 NEW saved \in BOOLEAN, Rewind(r, n, saved)
          PROVE  Kept
      <3>1. own[r] \in Handles /\ SessionOf(r) \in Sessions
        BY <1>1, <2>5 DEF Rewind, StoreInv, PlaceInv, HandleOf, NoHandle
      <3> QED
        BY <2>1, <2>2, <2>5, <3>1 DEF Rewind
    <2>6. ASSUME NEW r \in Reqs, NEW saved \in BOOLEAN, Save(r, saved)
          PROVE  Kept
      <3>1. own[r] \in Handles /\ SessionOf(r) \in Sessions
        BY <1>1, <2>6 DEF Save, StoreInv, PlaceInv, HandleOf, NoHandle
      <3> QED
        BY <2>1, <2>2, <2>6, <3>1 DEF Save
    <2>7. ASSUME NEW r \in Reqs, NEW answered \in BOOLEAN,
                 NEW saved \in BOOLEAN,
                 WarmRecord(r, answered, saved)
          PROVE  Kept
      <3>1. warm[r].handle \in Handles /\ SessionOf(r) \in Sessions
        BY <1>1, <2>7 DEF WarmRecord, StoreInv, PlaceInv, HandleOf
      <3> QED
        BY <2>1, <2>2, <2>7, <3>1 DEF WarmRecord
    <2> HIDE DEF Kept
    <2>8. Kept
      BY <2>2, <2>3, <2>4, <2>5, <2>6, <2>7, TableKept DEF InsertSession
    <2> QED
      BY <2>8 DEF Kept
  <1>4. \A s \in Sessions : sessions[s] # None \/ db[s] # None
                            => sessions'[s] # None \/ db'[s] # None
    <2> DEFINE Kept == \A t \in Sessions : sessions[t] # None \/ db[t] # None
                         => sessions'[t] # None \/ db'[t] # None
    <2>1. ASSUME NEW s \in Sessions, Evict(s)
          PROVE  Kept
      <3>1. sessions[s] \in Handles
        BY <2>1 DEF Evict, StoreType
      <3>2. content[sessions[s]] # None
        BY <3>1 DEF StoreType, Messages
      <3> QED
        BY <1>3, <2>1, <3>2 DEF Evict, StoreType
    <2>2. ASSUME NEW s \in Sessions, NEW stored \in BOOLEAN, Create(s, stored)
          PROVE  Kept
      BY <1>3, <2>2 DEF Create, StoreType
    <2>3. ASSUME NEW r \in Reqs, InsertSession(r)
          PROVE  Kept
      BY <1>3, <2>3 DEF InsertSession, StoreType
    <2>4. ASSUME sessions' = sessions PROVE Kept
      BY <1>3, <2>4
    <2> HIDE DEF Kept
    <2>5. Kept
      BY <2>1, <2>2, <2>3, <2>4, TableKept DEF Rewind, Save, WarmRecord
    <2> QED
      BY <2>5 DEF Kept
  <1>5. \A s \in Sessions : sessions'[s] = None \/ HandleOf(sessions[s], s)'
    <2> DEFINE Good == \A t \in Sessions :
                         sessions'[t] = None \/ HandleOf(sessions[t], t)'
    <2>1. ASSUME NEW s \in Sessions, NEW h \in {s, None},
                 sessions' = [sessions EXCEPT ![s] = h]
          PROVE  Good
      <3>1. HandleOf(s, s)'
        BY DEF HandleOf, Home, Made, Handles
      <3> QED
        BY <1>2, <2>1, <3>1 DEF StoreType, StoreInv
    <2>2. ASSUME NEW r \in Reqs, InsertSession(r)
          PROVE  Good
      <3>1. SessionOf(r) \in Sessions /\ HandleOf(r, SessionOf(r))'
        BY <1>1, <2>2 DEF InsertSession, Go, ReqType, HandleOf, Home, Made,
           Handles, SessionOf
      <3> QED
        BY <1>2, <2>2, <3>1 DEF StoreType, StoreInv, InsertSession, SessionOf
    <2>3. ASSUME sessions' = sessions PROVE Good
      BY <1>2, <2>3 DEF StoreInv
    <2> HIDE DEF Good
    <2>4. Good
      BY <2>1, <2>2, <2>3, TableKept DEF Evict, Create, Rewind, Save,
         WarmRecord
    <2> QED
      BY <2>4 DEF Good
  <1>6. ASSUME NEW q \in Reqs, UNCHANGED <<req[q], own[q], warm[q]>>,
               \/ pc'[q] = pc[q]
               \/ /\ pc[q] \notin {"idle", "refused"} /\ pc'[q] # "idle"
                  /\ pc[q] \in NoHandle <=> pc'[q] \in NoHandle
                  /\ pc'[q] \in {"load", "loaded"} => pc[q] = "load",
               pc'[q] = "turn" => holder'[own[q]] = q
        PROVE  PlaceInv(q)'
    <2>1. SessionOf(q)' = SessionOf(q) /\ PlaceInv(q)
      BY <1>6 DEF SessionOf, StoreInv
    <2>2. pc'[q] \notin NoHandle => HandleOf(own[q], SessionOf(q))'
      BY <1>2, <1>6, <2>1 DEF PlaceInv
    <2>3. warm[q].handle # None => HandleOf(warm[q].handle, SessionOf(q))'
      BY <1>2, <1>6, <2>1 DEF PlaceInv
    <2>4. /\ pc'[q] \in {"load", "loaded"} => (db[SessionOf(q)] # None)'
          /\ pc'[q] \notin {"idle", "refused"} =>
               (sessions[SessionOf(q)] # None \/ db[SessionOf(q)] # None)'
      BY <1>1, <1>3, <1>4, <1>6, <2>1 DEF PlaceInv
    <2>5. /\ pc'[q] \in NoHandle => own'[q] = None
          /\ pc'[q] = "idle" => warm'[q].handle = None
          /\ warm'[q].st # "off" => warm'[q].handle # None
          /\ pc'[q] = "turn" => holder'[own'[q]] = q
      BY <1>6, <2>1 DEF PlaceInv
    <2> QED
      BY <1>6, <2>2, <2>3, <2>4, <2>5 DEF PlaceInv
  <1>7. \A q \in Reqs : pc[q] = "turn" => holder[own[q]] = q
    BY DEF StoreInv, PlaceInv
  <1> DEFINE Placed == \A q \in Reqs : PlaceInv(q)'
  <1>8. ASSUME UNCHANGED <<req, pc, own, warm, holder>>
        PROVE  Placed
    BY <1>6, <1>7, <1>8
  <1>9. ASSUME NEW r \in Reqs,
               \/ Load(r) \/ RegisterCancel(r) \/ RegisterRun(r) \/ Enqueue(r)
               \/ TakeCancel(r) \/ FinishRun(r)
        PROVE  Placed
    <2>1. /\ UNCHANGED <<req, own, warm, holder>>
          /\ \E where \in {"loaded", "refused", "sink", "start", "queued",
                           "saving", "closing", "done"} : Go(r, where)
          /\ pc[r] \notin {"idle", "refused", "turn", "loaded", "ended"}
          /\ pc[r] = "load" <=> pc'[r] \in {"loaded", "refused"}
      BY <1>9 DEF Load, RegisterCancel, RegisterRun, Enqueue, TakeCancel,
         FinishRun, Go, store, ReqType
    <2>2. \A q \in Reqs \ {r} : pc'[q] = pc[q]
      BY <2>1 DEF Go, ReqType
    <2>3. pc'[r] \in {"loaded", "refused", "sink", "start", "queued", "saving",
                      "closing", "done"}
      BY <2>1 DEF Go, ReqType
    <2>4. pc[r] # "panicked"
      BY <1>9 DEF Load, RegisterCancel, RegisterRun, Enqueue, TakeCancel,
         FinishRun
    <2>5. PlaceInv(r)'
      BY <1>6, <2>1, <2>3, <2>4 DEF NoHandle
    <2> QED
      BY <1>6, <1>7, <2>1, <2>2, <2>5
  <1>10. ASSUME NEW r \in Reqs, BeginTurn(r) \/ EndTurn(r)
        PROVE  Placed
    <2>1. /\ UNCHANGED <<req, own, warm>>
          /\ pc' = [pc EXCEPT ![r] = pc'[r]]
          /\ \/ /\ pc[r] = "queued" /\ pc'[r] = "turn" /\ holder[own[r]] = None
                /\ holder' = [holder EXCEPT ![own[r]] = r]
             \/ /\ pc[r] = "turn" /\ pc'[r] = "released"
                /\ holder' = [holder EXCEPT ![own[r]] = None]
      BY <1>10 DEF BeginTurn, EndTurn, Go, AtHead, Free, ReqType
    <2>2. \A q \in Reqs : pc[q] \in {"queued", "turn"} => own[q] \in Handles
      BY DEF StoreInv, PlaceInv, HandleOf, NoHandle
    <2>3. \A q \in Reqs \ {r} :
            /\ pc'[q] = pc[q]
            /\ pc[q] = "turn" => holder'[own[q]] = q
      BY <1>1, <1>7, <2>1, <2>2 DEF StoreType, ReqType
    <2>4. pc'[r] = "turn" => holder'[own[r]] = r
      BY <2>1, <2>2 DEF StoreType
    <2>5. PlaceInv(r)'
      BY <1>6, <2>1, <2>4 DEF NoHandle
    <2> QED
      BY <1>6, <2>1, <2>3, <2>5
  \* The other requests, when one gets or loses a handle.
  <1>11. ASSUME NEW r \in Reqs, holder' = holder, PlaceInv(r)',
                \A q \in Reqs \ {r} :
                  UNCHANGED <<req[q], pc[q], own[q], warm[q]>>
         PROVE  Placed
    BY <1>6, <1>7, <1>11
  <1>12. ASSUME NEW r \in Reqs, NEW s \in Sessions, NEW kind \in Kinds,
                NEW auto \in BOOLEAN, Post(r, s, kind, auto)
         PROVE  Placed
    <2>1. /\ holder' = holder /\ warm' = warm /\ sessions' = sessions
          /\ pc[r] = "idle" /\ own'[r] = sessions[s] /\ SessionOf(r)' = s
          /\ \A q \in Reqs \ {r} : UNCHANGED <<req[q], pc[q], own[q]>>
          /\ db' = db
          /\ \/ sessions[s] # None /\ pc'[r] \in {"edit", "keyed"}
             \/ sessions[s] = None /\ pc'[r] = "refused"
             \/ sessions[s] = None /\ db[s] # None /\ pc'[r] = "load"
      BY <1>12 DEF Post, Go, ReqType, StoreType, SessionOf
    <2>2. warm[r].handle = None
      BY <2>1 DEF StoreInv, PlaceInv
    <2>3. warm[r].st = "off"
      BY <2>1, <2>2 DEF StoreInv, PlaceInv
    <2>4. sessions[s] # None => HandleOf(sessions[s], s)'
      BY <1>5, <2>1
    <2>5. PlaceInv(r)'
      BY <2>1, <2>2, <2>3, <2>4 DEF PlaceInv, NoHandle
    <2> QED
      BY <1>11, <2>1, <2>5
  <1>13. ASSUME NEW r \in Reqs, InsertSession(r)
         PROVE  Placed
    <2>1. /\ holder' = holder /\ warm' = warm /\ req' = req
          /\ pc[r] = "loaded" /\ own'[r] = r /\ pc'[r] \in {"edit", "keyed"}
          /\ \A q \in Reqs \ {r} : UNCHANGED <<pc[q], own[q]>>
      BY <1>13 DEF InsertSession, Go, ReqType, StoreType
    <2>2. /\ SessionOf(r)' = SessionOf(r) /\ SessionOf(r) \in Sessions
          /\ PlaceInv(r)
      BY <1>1, <2>1 DEF SessionOf, StoreInv
    <2>3. HandleOf(r, SessionOf(r))'
      BY <1>1, <2>1, <2>2 DEF HandleOf, Made, Home, Handles
    <2>4. warm[r].handle # None => HandleOf(warm[r].handle, SessionOf(r))'
      BY <1>2, <2>1, <2>2 DEF PlaceInv
    <2>5. (sessions[SessionOf(r)] # None \/ db[SessionOf(r)] # None)'
      BY <1>4, <2>1, <2>2 DEF PlaceInv
    <2>6. PlaceInv(r)'
      BY <2>1, <2>2, <2>3, <2>4, <2>5 DEF PlaceInv, NoHandle
    <2> QED
      BY <1>11, <2>1, <2>6
  <1>14. ASSUME NEW r \in Reqs,
                \/ NoKey(r) \/ StreamEnd(r)
                \/ \E n \in 0 .. Cardinality(Reqs) + 1, saved \in BOOLEAN :
                     Rewind(r, n, saved)
         PROVE  Placed
    <2>1. /\ holder' = holder /\ warm' = warm /\ req' = req
          /\ pc[r] \in {"keyed", "done", "panicked", "edit"}
          /\ own' = [own EXCEPT ![r] = None]
          /\ \E where \in {"ended", "refused"} : Go(r, where)
      BY <1>14 DEF NoKey, StreamEnd, Rewind
    <2>2. /\ own'[r] = None /\ pc'[r] \in {"ended", "refused"}
          /\ \A q \in Reqs \ {r} : UNCHANGED <<pc[q], own[q]>>
      BY <2>1 DEF Go, ReqType, StoreType
    <2>3. /\ SessionOf(r)' = SessionOf(r) /\ SessionOf(r) \in Sessions
          /\ PlaceInv(r)
      BY <1>1, <2>1 DEF SessionOf, StoreInv
    <2>4. warm[r].handle # None => HandleOf(warm[r].handle, SessionOf(r))'
      BY <1>2, <2>1, <2>3 DEF PlaceInv
    <2>5. (sessions[SessionOf(r)] # None \/ db[SessionOf(r)] # None)'
      BY <1>4, <2>1, <2>3 DEF PlaceInv
    <2>6. PlaceInv(r)'
      BY <2>1, <2>2, <2>3, <2>4, <2>5 DEF PlaceInv, NoHandle
    <2> QED
      BY <1>11, <2>1, <2>2, <2>6
  \* A panicking turn gives back the lock and the handle at once.
  <1>21. ASSUME NEW r \in Reqs, Panic(r)
         PROVE  Placed
    <2>1. /\ warm' = warm /\ req' = req /\ pc[r] = "turn"
          /\ own' = [own EXCEPT ![r] = None]
          /\ holder' = [holder EXCEPT ![own[r]] = None]
          /\ pc' = [pc EXCEPT ![r] = "panicked"]
      BY <1>21 DEF Panic, Go
    <2>2. /\ own'[r] = None /\ pc'[r] = "panicked"
          /\ \A q \in Reqs \ {r} : UNCHANGED <<pc[q], own[q], warm[q], req[q]>>
      BY <2>1 DEF ReqType, StoreType
    <2>3. /\ SessionOf(r)' = SessionOf(r) /\ SessionOf(r) \in Sessions
          /\ PlaceInv(r)
      BY <1>1, <2>1 DEF SessionOf, StoreInv
    <2>4. warm[r].handle # None => HandleOf(warm[r].handle, SessionOf(r))'
      BY <1>2, <2>1, <2>3 DEF PlaceInv
    <2>5. (sessions[SessionOf(r)] # None \/ db[SessionOf(r)] # None)'
      BY <1>4, <2>1, <2>3 DEF PlaceInv
    <2>6. PlaceInv(r)'
      BY <2>1, <2>2, <2>3, <2>4, <2>5 DEF PlaceInv, NoHandle
    <2>7. \A q \in Reqs : pc[q] = "turn" => own[q] \in Handles
      BY DEF StoreInv, PlaceInv, HandleOf, NoHandle
    <2>8. holder[own[r]] = r
      BY <1>7, <2>1
    <2>9. ASSUME NEW q \in Reqs \ {r}, pc[q] = "turn"
          PROVE  holder'[own[q]] = q
      <3>1. holder[own[q]] = q /\ own[q] \in Handles
        BY <1>7, <2>7, <2>9
      <3>2. own[q] # own[r]
        BY <2>8, <3>1
      <3> QED
        BY <2>1, <3>1, <3>2 DEF StoreType
    <2> QED
      BY <1>6, <2>2, <2>6, <2>9
  <1>15. ASSUME NEW r \in Reqs, holder' = holder, own' = own, req' = req,
                pc[r] # "idle",
                \/ pc'[r] = pc[r]
                \/ pc[r] = "saving" /\ pc'[r] \in {"saved", "done"},
                \A q \in Reqs \ {r} : UNCHANGED <<pc[q], warm[q]>>,
                warm'[r].handle \in {None, own[r], warm[r].handle},
                warm'[r].handle = None => warm'[r].st = "off"
         PROVE  Placed
    <2>1. /\ SessionOf(r)' = SessionOf(r) /\ SessionOf(r) \in Sessions
          /\ PlaceInv(r)
      BY <1>1, <1>15 DEF SessionOf, StoreInv
    <2>2. pc[r] \notin NoHandle => HandleOf(own[r], SessionOf(r))'
      BY <1>2, <1>15, <2>1 DEF PlaceInv
    <2>3. warm'[r].handle # None => HandleOf(warm[r].handle, SessionOf(r))'
      BY <1>2, <1>15, <2>1, <2>2 DEF PlaceInv
    <2>4. pc'[r] # "refused" =>
            (sessions[SessionOf(r)] # None \/ db[SessionOf(r)] # None)'
      BY <1>4, <1>15, <2>1 DEF PlaceInv
    <2>5. pc'[r] \in {"load", "loaded"} => (db[SessionOf(r)] # None)'
      BY <1>3, <1>15, <2>1 DEF PlaceInv
    <2>6. PlaceInv(r)'
      BY <1>15, <2>1, <2>2, <2>3, <2>4, <2>5 DEF PlaceInv, NoHandle
    <2> QED
      BY <1>11, <1>15, <2>6
  <1>16. ASSUME NEW r \in Reqs, NEW saved \in BOOLEAN, Save(r, saved)
         PROVE  Placed
    <2>1. /\ UNCHANGED <<holder, own, req>> /\ pc[r] = "saving"
          /\ pc'[r] \in {"saved", "done"}
          /\ \A q \in Reqs \ {r} : pc'[q] = pc[q]
      BY <1>16 DEF Save, Go, ReqType
    <2>2. /\ \A q \in Reqs \ {r} : warm'[q] = warm[q]
          /\ \/ warm'[r] = warm[r]
             \/ warm'[r].handle = own[r] /\ own[r] # None
      <3>1. own[r] # None
        BY <2>1 DEF StoreInv, PlaceInv, HandleOf, NoHandle, Handles
      <3>2. \/ warm' = warm
            \/ warm' = [warm EXCEPT ![r] = [st |-> "sleep", handle |-> own[r],
                                           history |-> Len(content[own[r]])]]
        BY <1>16 DEF Save
      <3> QED
        BY <3>1, <3>2 DEF StoreType
    <2>3. warm[r].handle = None => warm[r].st = "off"
      BY <1>1 DEF StoreInv, PlaceInv
    <2> HIDE DEF Placed
    <2> QED
      BY <1>15, <2>1, <2>2, <2>3
  <1>17. ASSUME NEW r \in Reqs, UNCHANGED <<holder, own, req, pc>>,
                warm[r].st # "off",
                \/ warm' = [warm EXCEPT ![r] = NoWarm]
                \/ \E st \in {"sleep", "sent"} :
                     warm' = [warm EXCEPT ![r].st = st]
         PROVE  Placed
    <2>1. warm[r].handle # None /\ pc[r] # "idle"
      BY <1>17 DEF StoreInv, PlaceInv
    <2>2. warm[r] \in WarmRecords
      BY <1>1
    <2>3. /\ \A q \in Reqs \ {r} : warm'[q] = warm[q]
          /\ \/ warm'[r].handle = None /\ warm'[r].st = "off"
             \/ warm'[r].handle = warm[r].handle
      BY <1>17, <2>2 DEF StoreType, NoWarm, WarmRecords
    <2> HIDE DEF Placed
    <2> QED
      BY <1>15, <1>17, <2>1, <2>3
  <1> HIDE DEF Placed
  <1>18. ASSUME NEW r \in Reqs, NEW over \in BOOLEAN, WarmTick(r, over)
         PROVE  Placed
    <2>1. \/ warm' = [warm EXCEPT ![r] = NoWarm]
          \/ warm' = [warm EXCEPT ![r].st = "sent"]
      BY <1>18 DEF WarmTick
    <2> QED
      BY <1>17, <1>18, <2>1 DEF WarmTick, store
  <1>19. ASSUME NEW r \in Reqs, NEW answered \in BOOLEAN,
                NEW saved \in BOOLEAN, WarmRecord(r, answered, saved)
         PROVE  Placed
    <2>1. \/ warm' = [warm EXCEPT ![r] = NoWarm]
          \/ warm' = [warm EXCEPT ![r].st = "sleep"]
      BY <1>19 DEF WarmRecord
    <2> QED
      BY <1>17, <1>19, <2>1 DEF WarmRecord
  <1>20. Placed
    <2>1. ASSUME NEW s \in Sessions,
                 \/ Evict(s) \/ Cancel(s)
                 \/ \E stored \in BOOLEAN : Create(s, stored)
          PROVE  Placed
      BY <1>8, <2>1 DEF Evict, Cancel, Create, store
    <2>2. ASSUME NEW r \in Reqs, NEW what \in Tools \cup {"question"},
                 AskUser(r, what)
          PROVE  Placed
      BY <1>8, <2>2 DEF AskUser, store
    <2>3. ASSUME NEW a \in DOMAIN ask,
                 \/ AskTask(a)
                 \/ \E decision \in {"deny", "allow", "always"} :
                      Decide(a, decision)
          PROVE  Placed
      BY <1>8, <2>3 DEF AskTask, Emit, Answered, Expire, TimedOut, Decide,
         store
    <2>4. CASE UNCHANGED vars
      BY <1>8, <2>4 DEF vars, store
    <2> QED
      BY <1>9, <1>10, <1>12, <1>13, <1>14, <1>16, <1>18, <1>19, <1>21, <2>1,
         <2>2, <2>3, <2>4 DEF Next, Task
  <1> QED
    BY <1>5, <1>20 DEF Placed, StoreInv

\* Where a step that takes no request in and begins no turn moves a request.
LEMMA PcMoves ==
    ASSUME ReqType, KindInv, [Next]_vars, NEW r \in Reqs, ~BeginTurn(r),
           ~\E q \in Reqs, s \in Sessions, kind \in Kinds, auto \in BOOLEAN :
              Post(q, s, kind, auto)
    PROVE  /\ req' = req
           /\ pc'[r] = "load" => pc[r] = "load"
           /\ pc'[r] = "loaded" => pc[r] = "loaded" \/ Load(r)
           /\ pc'[r] \in Turned => pc[r] \in Turned \/ req[r].kind = "rewind"
  <1>1. ASSUME NEW q \in Reqs, Flow(q)
        PROVE  /\ pc'[r] = "load" => pc[r] = "load"
               /\ pc'[r] = "loaded" => pc[r] = "loaded" \/ Load(r)
               /\ pc'[r] \in Turned =>
                    pc[r] \in Turned \/ req[r].kind = "rewind"
    BY <1>1 DEF ReqType, Flow, Edge, Turned, KindInv
  <1> QED
    BY <1>1, NextFlow

\* A step that keeps the session's handle and its messages, except for what a
\* rewind removes, and gives nobody another handle.
LEMMA SingleFrame ==
    ASSUME NEW s \in Sessions, SingleInv(s), sessions'[s] = sessions[s],
           rewound \subseteq rewound',
           \A r \in Reqs : Holds(s, r) => Holds(s, r)' \/ r \in rewound',
           \A r \in Reqs : SessionOf(r)' = s =>
             /\ SessionOf(r) = s /\ req'[r] = req[r]
             /\ own'[r] \in {None, own[r]}
             /\ warm'[r].handle \in {None, own[r], warm[r].handle}
             /\ pc'[r] \in {"load", "loaded"} => pc[r] \in {"load", "loaded"}
             /\ pc'[r] = "loaded" => content'[r] = db'[s]
             /\ pc'[r] \in Turned => \/ pc[r] \in Turned
                                     \/ req[r].kind = "rewind"
                                     \/ Holds(s, r)'
    PROVE  SingleInv(s)'
  <1>1. ASSUME NEW r \in Reqs, SessionOf(r)' = s
        PROVE  ReqSingle(r, s)'
    <2>1. ReqSingle(r, s)
      BY <1>1 DEF SingleInv
    <2> QED
      BY <1>1, <2>1 DEF ReqSingle
  <1>2. \A q, r \in Reqs : Loading(q, s)' /\ Loading(r, s)' => q = r
    BY DEF SingleInv, Loading
  <1> QED
    BY <1>1, <1>2 DEF SingleInv

\* A change of the messages of one handle, or of its stored row, does not show
\* in another session, nor in one that is being loaded.
LEMMA StoreFrame ==
    ASSUME StoreType, ReqType, StoreInv, NEW s \in Sessions, SingleInv(s),
           NEW t \in Sessions, NEW h, HandleOf(h, t), t = s => h = sessions[s],
           sessions'[s] = sessions[s],
           content' = content \/ \E c : content' = [content EXCEPT ![h] = c],
           db' = db \/ \E d : db' = [db EXCEPT ![t] = d]
    PROVE  /\ t # s \/ content' = content => Current(s)' = Current(s)
           /\ \A r \in Reqs : pc[r] = "loaded" /\ SessionOf(r) = s =>
                content'[r] = db'[s]
  <1> USE DaemonAssumption
  <1>1. h \in Handles /\ h # None
    BY DEF HandleOf, Handles
  <1>2. sessions[s] # None /\ t # s => sessions[s] \in Handles \ {h}
    BY DEF StoreInv, HandleOf
  <1>3. sessions[s] = None => t # s
    BY <1>1
  <1>4. t # s => db'[s] = db[s]
    BY DEF StoreType
  <1>5. t # s /\ sessions[s] # None =>
          content'[sessions[s]] = content[sessions[s]]
    BY <1>2 DEF StoreType
  <1>6. t # s \/ content' = content => Current(s)' = Current(s)
    BY <1>3, <1>4, <1>5 DEF Current
  <1>7. ASSUME NEW r \in Reqs, pc[r] = "loaded", SessionOf(r) = s
        PROVE  content'[r] = db'[s]
    <2>1. r # h /\ r \in Handles
      BY <1>7 DEF HandleOf, Made, Handles
    <2>2. content'[r] = content[r]
      BY <2>1 DEF StoreType
    <2>3. ReqSingle(r, s)
      BY <1>7 DEF SingleInv
    <2> QED
      BY <1>3, <1>4, <1>7, <2>2, <2>3 DEF ReqSingle
  <1> QED
    BY <1>6, <1>7

\* A session that was not loaded twice at once keeps its single handle and the
\* messages of its turns, whatever is evicted, reloaded, rewound or saved.
LEMMA NextSingles ==
    ASSUME StoreType, ReqType, KindInv, StoreInv, SinglesInv, [Next]_vars
    PROVE  SinglesInv'
  <1> USE DaemonAssumption
  <1>1. raced \subseteq raced' /\ rewound \subseteq rewound'
    <2>1. ASSUME NEW r \in Reqs, NEW s \in Sessions, NEW kind \in Kinds,
                 NEW auto \in BOOLEAN, Post(r, s, kind, auto)
          PROVE  raced \subseteq raced' /\ rewound \subseteq rewound'
      BY <2>1 DEF Post
    <2>2. ASSUME NEW r \in Reqs, NEW n \in 0 .. Cardinality(Reqs) + 1,
                 NEW saved \in BOOLEAN, Rewind(r, n, saved)
          PROVE  raced \subseteq raced' /\ rewound \subseteq rewound'
      BY <2>2 DEF Rewind
    <2>3. CASE UNCHANGED <<raced, rewound>>
      BY <2>3
    <2>4. ASSUME NEW r \in Reqs,
                 \/ Load(r) \/ InsertSession(r) \/ NoKey(r) \/ Enqueue(r)
                 \/ BeginTurn(r) \/ EndTurn(r) \/ Panic(r) \/ StreamEnd(r)
                 \/ \E saved \in BOOLEAN : Save(r, saved)
                 \/ \E over \in BOOLEAN : WarmTick(r, over)
                 \/ \E answered, saved \in BOOLEAN :
                      WarmRecord(r, answered, saved)
          PROVE  UNCHANGED <<raced, rewound>>
      BY <2>4 DEF store, Load, InsertSession, NoKey, Enqueue, BeginTurn, EndTurn,
         Panic, StreamEnd, Save, WarmTick, WarmRecord
    <2>5. ASSUME NEW s \in Sessions,
                 Evict(s) \/ \E stored \in BOOLEAN : Create(s, stored)
          PROVE  UNCHANGED <<raced, rewound>>
      BY <2>5 DEF Evict, Create
    <2>6. CASE UNCHANGED <<store, warm>>
      BY <2>6 DEF store
    <2> QED
      BY <2>1, <2>2, <2>3, <2>4, <2>5, <2>6, StoreKept, Zenon
  <1> SUFFICES ASSUME NEW s \in Sessions, s \notin raced'
               PROVE  SingleInv(s)'
    BY DEF SinglesInv
  <1>2. SingleInv(s)
    BY <1>1 DEF SinglesInv
  <1>3. \A r \in Reqs : /\ pc[r] # "idle" => SessionOf(r) \in Sessions
                        /\ SessionOf(r) = s => ReqSingle(r, s)
                        /\ PlaceInv(r) /\ r \in Handles /\ r # None
    BY <1>2 DEF SingleInv, StoreInv, ReqType, Requests, SessionOf, Handles
  <1>4. ASSUME NEW r \in Reqs, pc[r] \notin NoHandle
        PROVE  /\ HandleOf(own[r], SessionOf(r)) /\ SessionOf(r) \in Sessions
               /\ SessionOf(r) = s => own[r] = sessions[s]
    <2>1. HandleOf(own[r], SessionOf(r)) /\ own[r] # None
      BY <1>3, <1>4 DEF PlaceInv, HandleOf, Handles
    <2> QED
      BY <1>3, <1>4, <2>1 DEF ReqSingle, NoHandle
  <1>5. ASSUME UNCHANGED <<sessions, db, content>>
        PROVE  /\ \A r \in Reqs : Holds(s, r)' = Holds(s, r)
               /\ \A r \in Reqs : pc[r] = "loaded" /\ SessionOf(r) = s =>
                    content'[r] = db'[s]
    BY <1>3, <1>5 DEF Holds, Current, ReqSingle
  <1>6. ASSUME NEW r \in Reqs, NEW t \in Sessions, NEW kind \in Kinds,
               NEW auto \in BOOLEAN, Post(r, t, kind, auto)
        PROVE  SingleInv(s)'
    <2>1. /\ UNCHANGED <<sessions, db, content, warm, rewound>>
          /\ pc[r] = "idle" /\ own'[r] = sessions[t] /\ SessionOf(r)' = t
          /\ \A q \in Reqs \ {r} : UNCHANGED <<req[q], pc[q], own[q]>>
          /\ pc'[r] \in {"edit", "keyed", "refused", "load"}
          /\ pc'[r] = "load" => sessions[t] = None
          /\ pc'[r] = "load" /\ (\E q \in Reqs : Loading(q, t)) => t \in raced'
      BY <1>6 DEF Post, Go, ReqType, StoreType, SessionOf, Loading
    <2>2. \A q \in Reqs \ {r} : SessionOf(q)' = SessionOf(q)
      BY <2>1 DEF SessionOf
    <2>3. ASSUME NEW q \in Reqs \ {r}, SessionOf(q)' = s
          PROVE  ReqSingle(q, s)'
      BY <1>3, <1>5, <2>1, <2>2, <2>3 DEF ReqSingle
    <2>4. warm[r].handle = None
      BY <1>3, <2>1 DEF PlaceInv
    <2>5. SessionOf(r)' = s => ReqSingle(r, s)'
      BY <2>1, <2>4 DEF ReqSingle, Turned
    <2>6. \A q \in Reqs \ {r} : Loading(q, s)' = Loading(q, s)
      BY <2>1, <2>2 DEF Loading
    <2>7. Loading(r, s)' => \A q \in Reqs : ~Loading(q, s)
      BY <2>1 DEF Loading
    <2>8. \A q, p \in Reqs : Loading(q, s)' /\ Loading(p, s)' => q = p
      BY <1>2, <2>6, <2>7 DEF SingleInv
    <2> QED
      BY <2>3, <2>5, <2>8 DEF SingleInv
  <1>7. ASSUME NEW r \in Reqs, BeginTurn(r)
        PROVE  SingleInv(s)'
    <2>1. /\ UNCHANGED <<sessions, db, own, req, warm, rewound>>
          /\ content' = [content EXCEPT ![own[r]] = Append(content[own[r]], r)]
          /\ pc[r] = "queued" /\ pc'[r] = "turn"
          /\ \A q \in Reqs \ {r} : pc'[q] = pc[q]
      BY <1>7 DEF BeginTurn, Go, ReqType
    <2>2. /\ HandleOf(own[r], SessionOf(r)) /\ SessionOf(r) \in Sessions
          /\ SessionOf(r) = s => own[r] = sessions[s]
      BY <1>4, <2>1 DEF NoHandle
    <2>3. /\ SessionOf(r) # s => Current(s)' = Current(s)
          /\ \A q \in Reqs : pc[q] = "loaded" /\ SessionOf(q) = s =>
               content'[q] = db'[s]
      BY <1>2, <2>1, <2>2, StoreFrame
    <2>4. SessionOf(r) = s =>
            /\ \A q \in Reqs : Holds(s, q) => Holds(s, q)'
            /\ Holds(s, r)'
      <3> SUFFICES ASSUME SessionOf(r) = s
                   PROVE  /\ \A q \in Reqs : Holds(s, q) => Holds(s, q)'
                          /\ Holds(s, r)'
        OBVIOUS
      <3> DEFINE c == content[own[r]]
      <3>1. c \in Seq(Messages) /\ own[r] \in Handles /\ own[r] # None
        BY <2>2 DEF StoreType, HandleOf, Handles
      <3>2. Current(s) = c /\ Current(s)' = Append(c, r)
        BY <2>1, <2>2, <3>1 DEF Current, StoreType
      <3> HIDE DEF c
      <3>3. /\ DOMAIN Append(c, r) = DOMAIN c \cup {Len(c) + 1}
            /\ Append(c, r)[Len(c) + 1] = r
            /\ \A i \in DOMAIN c : Append(c, r)[i] = c[i]
        BY <3>1
      <3> QED
        BY <3>2, <3>3 DEF Holds
    <2>5. \A q \in Reqs : Holds(s, q) => Holds(s, q)'
      BY <2>3, <2>4 DEF Holds
    <2>6. \A q \in Reqs : SessionOf(q)' = SessionOf(q)
      BY <2>1 DEF SessionOf
    <2> QED
      BY <1>2, <2>1, <2>3, <2>4, <2>5, <2>6, SingleFrame
  <1>8. ASSUME NEW r \in Reqs, Load(r), pc'[r] # "refused"
        PROVE  SingleInv(s)'
    <2>1. /\ UNCHANGED <<sessions, db, own, req, warm, rewound>>
          /\ content' = [content EXCEPT ![r] = db[SessionOf(r)]]
          /\ pc[r] = "load" /\ pc'[r] = "loaded"
          /\ \A q \in Reqs \ {r} : pc'[q] = pc[q]
      BY <1>8 DEF Load, Go, ReqType
    <2>2. sessions[s] # None => sessions[s] \in Handles \ {r}
      BY <2>1 DEF StoreInv, HandleOf, Made
    <2>3. Current(s)' = Current(s)
      BY <2>1, <2>2 DEF Current, StoreType
    <2>4. \A q \in Reqs : SessionOf(q)' = SessionOf(q)
      BY <2>1 DEF SessionOf
    <2>5. ASSUME NEW q \in Reqs, pc'[q] = "loaded", SessionOf(q) = s
          PROVE  content'[q] = db'[s]
      <3>1. CASE q = r
        BY <1>3, <2>1, <2>5, <3>1 DEF StoreType
      <3>2. CASE q # r
        <4>1. content'[q] = content[q]
          BY <1>3, <2>1, <3>2 DEF StoreType
        <4> QED
          BY <1>3, <2>1, <2>5, <3>2, <4>1 DEF ReqSingle
      <3> QED
        BY <3>1, <3>2
    <2>6. \A q \in Reqs : Holds(s, q)' = Holds(s, q)
      BY <2>3 DEF Holds
    <2> QED
      BY <1>2, <2>1, <2>4, <2>5, <2>6, SingleFrame DEF Turned
  <1> DEFINE Quiet == /\ UNCHANGED req
                      /\ \A r \in Reqs :
                           /\ pc'[r] = "load" => pc[r] = "load"
                           /\ pc'[r] = "loaded" => pc[r] = "loaded"
                           /\ pc'[r] \in Turned =>
                                pc[r] \in Turned \/ req[r].kind = "rewind"
  <1>9. ASSUME Quiet, sessions'[s] = sessions[s],
               \A r \in Reqs : Holds(s, r) => Holds(s, r)' \/ r \in rewound',
               \A r \in Reqs : SessionOf(r) = s =>
                 /\ own'[r] \in {None, own[r]}
                 /\ warm'[r].handle \in {None, own[r], warm[r].handle}
                 /\ pc[r] = "loaded" => content'[r] = db'[s]
        PROVE  SingleInv(s)'
    <2>1. \A q \in Reqs : SessionOf(q)' = SessionOf(q)
      BY <1>9 DEF SessionOf
    <2> QED
      BY <1>1, <1>2, <1>9, <2>1, SingleFrame
  <1> HIDE DEF Quiet
  \* Requests that give their handle back, and keep-alives that stop.
  <1>10. ASSUME Quiet, UNCHANGED <<sessions, db, content>>,
                \A r \in Reqs :
                  /\ own'[r] \in {None, own[r]}
                  /\ warm'[r].handle \in {None, own[r], warm[r].handle}
         PROVE  SingleInv(s)'
    BY <1>5, <1>9, <1>10
  <1>11. ASSUME Quiet, NEW t \in Sessions, NEW stored \in BOOLEAN,
                Create(t, stored)
         PROVE  SingleInv(s)'
    <2>1. /\ UNCHANGED <<content, own, warm, pc, req, rewound>>
          /\ sessions[t] = None /\ db[t] = None
          /\ sessions' = [sessions EXCEPT ![t] = t]
          /\ db' = db \/ db' = [db EXCEPT ![t] = << >>]
      BY <1>11 DEF Create
    <2>2. CASE t # s
      <3>1. sessions'[s] = sessions[s] /\ db'[s] = db[s]
        BY <2>1, <2>2 DEF StoreType
      <3>2. \A q \in Reqs : Holds(s, q)' = Holds(s, q)
        BY <2>1, <3>1 DEF Holds, Current
      <3> QED
        BY <1>3, <1>9, <1>11, <2>1, <3>1, <3>2 DEF ReqSingle
    <2>3. CASE t = s
      <3>1. \A q \in Reqs : SessionOf(q) = s =>
              /\ pc[q] \in {"idle", "refused"} /\ own[q] = None
              /\ warm[q].handle = None
        BY <1>3, <2>1, <2>3 DEF PlaceInv, NoHandle, ReqSingle
      <3>2. \A q \in Reqs : SessionOf(q)' = SessionOf(q)
        BY <2>1 DEF SessionOf
      <3>3. \A q \in Reqs : SessionOf(q)' = s =>
              ReqSingle(q, s)' /\ ~Loading(q, s)'
        BY <2>1, <3>1, <3>2 DEF ReqSingle, Loading, Turned
      <3> QED
        BY <3>3 DEF SingleInv, Loading
    <2> QED
      BY <2>2, <2>3
  <1>12. ASSUME Quiet, NEW t \in Sessions, Evict(t)
         PROVE  SingleInv(s)'
    <2> DEFINE h == sessions[t]
    <2>1. /\ UNCHANGED <<own, warm, pc, req, rewound>>
          /\ h # None /\ StrongCount(h) = 0
          /\ sessions' = [sessions EXCEPT ![t] = None]
          /\ db' = [db EXCEPT ![t] = content[h]]
          /\ content' = [content EXCEPT ![h] = << >>]
      BY <1>12 DEF Evict
    <2>2. HandleOf(h, t)
      BY <2>1 DEF StoreInv
    <2> HIDE DEF h
    <2>3. CASE t # s
      <3>1. sessions'[s] = sessions[s]
        BY <2>1, <2>3 DEF StoreType
      <3>2. /\ Current(s)' = Current(s)
            /\ \A r \in Reqs : pc[r] = "loaded" /\ SessionOf(r) = s =>
                 content'[r] = db'[s]
        BY <1>2, <2>1, <2>2, <2>3, <3>1, StoreFrame
      <3>3. \A q \in Reqs : Holds(s, q)' = Holds(s, q)
        BY <3>2 DEF Holds
      <3> QED
        BY <1>9, <1>12, <2>1, <3>1, <3>2, <3>3
    <2>4. CASE t = s
      <3>1. \A q \in Reqs : own[q] # h /\ warm[q].handle # h
        <4> DEFINE A == {r \in Reqs : own[r] = h}
                   B == {r \in Reqs : warm[r].handle = h}
        <4>1. IsFiniteSet(A) /\ IsFiniteSet(B)
          BY FS_Subset
        <4>2. /\ Cardinality(A) \in Nat /\ Cardinality(B) \in Nat
              /\ Cardinality(A) = 0 <=> A = {}
              /\ Cardinality(B) = 0 <=> B = {}
          <5> HIDE DEF A, B
          <5> QED
            BY <4>1, FS_CardinalityType, FS_EmptySet
        <4>3. Cardinality(A) + Cardinality(B) = 0
          BY <2>1 DEF StrongCount
        <4>4. A = {} /\ B = {}
          <5> HIDE DEF A, B
          <5> QED
            BY <4>2, <4>3
        <4> QED
          BY <4>4
      <3>2. sessions'[s] = None /\ sessions[s] = h /\ Current(s)' = Current(s)
        BY <2>1, <2>4 DEF StoreType, Current, h
      <3>3. \A q \in Reqs : Holds(s, q)' = Holds(s, q)
        BY <3>2 DEF Holds
      <3>4. \A q \in Reqs : SessionOf(q) = s =>
              /\ pc[q] \notin {"load", "loaded"} /\ own[q] = None
              /\ warm[q].handle = None
        BY <1>3, <2>1, <3>1, <3>2 DEF ReqSingle
      <3>5. \A q \in Reqs : SessionOf(q)' = SessionOf(q)
        BY <2>1 DEF SessionOf
      <3>6. \A q \in Reqs : SessionOf(q)' = s =>
              ReqSingle(q, s)' /\ ~Loading(q, s)'
        BY <1>3, <2>1, <3>3, <3>4, <3>5 DEF ReqSingle, Loading
      <3> QED
        BY <3>6 DEF SingleInv, Loading
    <2> QED
      BY <2>3, <2>4
  <1>13. ASSUME Quiet, NEW r \in Reqs, InsertSession(r)
         PROVE  SingleInv(s)'
    <2>1. /\ UNCHANGED <<db, content, warm, req, rewound>>
          /\ sessions' = [sessions EXCEPT ![SessionOf(r)] = r]
          /\ own'[r] = r /\ pc[r] = "loaded" /\ pc'[r] \in {"edit", "keyed"}
          /\ \A q \in Reqs \ {r} : pc'[q] = pc[q] /\ own'[q] = own[q]
      BY <1>13 DEF InsertSession, Go, ReqType, StoreType
    <2>2. CASE SessionOf(r) # s
      <3>1. sessions'[s] = sessions[s]
        BY <2>1, <2>2 DEF StoreType
      <3>2. \A q \in Reqs : Holds(s, q)' = Holds(s, q)
        BY <2>1, <3>1 DEF Holds, Current
      <3> QED
        BY <1>3, <1>9, <1>13, <2>1, <2>2, <3>1, <3>2 DEF ReqSingle
    <2>3. CASE SessionOf(r) = s
      <3>1. /\ sessions[s] = None /\ content[r] = db[s] /\ sessions'[s] = r
            /\ warm[r].handle = None
        BY <1>3, <2>1, <2>3 DEF ReqSingle, StoreType
      <3>2. Current(s)' = Current(s)
        BY <1>3, <2>1, <3>1 DEF Current
      <3>3. \A q \in Reqs : Holds(s, q)' = Holds(s, q)
        BY <3>2 DEF Holds
      <3>4. \A q \in Reqs : SessionOf(q)' = SessionOf(q)
        BY <2>1 DEF SessionOf
      <3>5. \A q \in Reqs \ {r} : SessionOf(q) = s =>
              pc[q] \notin {"load", "loaded"}
        BY <1>2, <2>1, <2>3 DEF SingleInv, Loading
      <3>6. \A q \in Reqs \ {r} : SessionOf(q)' = s =>
              ReqSingle(q, s)' /\ ~Loading(q, s)'
        BY <1>3, <2>1, <3>1, <3>3, <3>4, <3>5 DEF ReqSingle, Loading
      <3>7. ReqSingle(r, s)' /\ ~Loading(r, s)'
        BY <2>1, <3>1 DEF ReqSingle, Loading, Turned
      <3> QED
        BY <3>6, <3>7 DEF SingleInv, Loading
    <2> QED
      BY <2>2, <2>3
  <1>14. ASSUME Quiet, NEW r \in Reqs, NEW n \in 0 .. Cardinality(Reqs) + 1,
                NEW saved \in BOOLEAN, Rewind(r, n, saved)
         PROVE  SingleInv(s)'
    <2> DEFINE c == content[own[r]]
    <2>1. /\ UNCHANGED <<sessions, warm, req>> /\ pc[r] = "edit"
          /\ own' = [own EXCEPT ![r] = None]
          /\ n <= Len(c)
          /\ content' = [content EXCEPT ![own[r]] = SubSeq(c, 1, n)]
          /\ rewound' = rewound \cup {c[i] : i \in n + 1 .. Len(c)}
          /\ db' = db \/ \E d : db' = [db EXCEPT ![SessionOf(r)] = d]
      BY <1>14 DEF Rewind
    <2>2. /\ HandleOf(own[r], SessionOf(r)) /\ SessionOf(r) \in Sessions
          /\ SessionOf(r) = s => own[r] = sessions[s]
      BY <1>4, <2>1 DEF NoHandle
    <2>3. /\ SessionOf(r) # s => Current(s)' = Current(s)
          /\ \A q \in Reqs : pc[q] = "loaded" /\ SessionOf(q) = s =>
               content'[q] = db'[s]
      BY <1>2, <2>1, <2>2, StoreFrame
    <2>4. ASSUME SessionOf(r) = s, NEW q \in Reqs, Holds(s, q)
          PROVE  Holds(s, q)' \/ q \in rewound'
      <3>1. c \in Seq(Messages) /\ own[r] \in Handles /\ own[r] # None
        BY <2>2 DEF StoreType, HandleOf, Handles
      <3>2. Current(s) = c /\ Current(s)' = SubSeq(c, 1, n)
        BY <2>1, <2>2, <2>4, <3>1 DEF Current, StoreType
      <3> HIDE DEF c
      <3>3. PICK i \in DOMAIN c : c[i] = q
        BY <2>4, <3>2 DEF Holds
      <3>4. i \in 1 .. Len(c) /\ Len(c) \in Nat /\ n \in 0 .. Len(c)
        BY <2>1, <3>1
      <3>5. CASE i <= n
        <4>1. i \in DOMAIN SubSeq(c, 1, n) /\ SubSeq(c, 1, n)[i] = c[i]
          BY <3>1, <3>4, <3>5
        <4> QED
          BY <3>2, <3>3, <4>1 DEF Holds
      <3>6. CASE i > n
        BY <2>1, <3>3, <3>4, <3>6
      <3> QED
        BY <3>4, <3>5, <3>6
    <2>5. \A q \in Reqs : Holds(s, q) => Holds(s, q)' \/ q \in rewound'
      BY <2>3, <2>4 DEF Holds
    <2>6. \A q \in Reqs : own'[q] \in {None, own[q]}
      BY <2>1 DEF StoreType
    <2> QED
      BY <1>9, <1>14, <2>1, <2>3, <2>5, <2>6
  \* A save changes the row of a session that is in memory.
  <1>15. ASSUME Quiet, NEW r \in Reqs, NEW h, HandleOf(h, SessionOf(r)),
                SessionOf(r) \in Sessions, SessionOf(r) = s => h = sessions[s],
                UNCHANGED <<sessions, content, own>>,
                db' = db \/ \E d : db' = [db EXCEPT ![SessionOf(r)] = d],
                \A q \in Reqs :
                  warm'[q].handle \in {None, own[q], warm[q].handle}
         PROVE  SingleInv(s)'
    <2>1. /\ Current(s)' = Current(s)
          /\ \A q \in Reqs : pc[q] = "loaded" /\ SessionOf(q) = s =>
               content'[q] = db'[s]
      BY <1>2, <1>15, StoreFrame
    <2>2. \A q \in Reqs : Holds(s, q)' = Holds(s, q)
      BY <2>1 DEF Holds
    <2> QED
      BY <1>9, <1>15, <2>1, <2>2
  <1>16. ASSUME Quiet, NEW r \in Reqs, NEW saved \in BOOLEAN, Save(r, saved)
         PROVE  SingleInv(s)'
    <2>1. /\ UNCHANGED <<sessions, content, own>> /\ pc[r] = "saving"
          /\ db' = db \/ \E d : db' = [db EXCEPT ![SessionOf(r)] = d]
          /\ \/ warm' = warm
             \/ warm' = [warm EXCEPT ![r] = [st |-> "sleep", handle |-> own[r],
                                            history |-> Len(content[own[r]])]]
      BY <1>16 DEF Save
    <2>2. \A q \in Reqs : warm'[q].handle \in {None, own[q], warm[q].handle}
      <3>1. \A q \in Reqs \ {r} : warm'[q] = warm[q]
        BY <2>1 DEF StoreType
      <3>2. warm'[r] = warm[r] \/ warm'[r].handle = own[r]
        BY <2>1 DEF StoreType
      <3> QED
        BY <3>1, <3>2
    <2>3. /\ HandleOf(own[r], SessionOf(r)) /\ SessionOf(r) \in Sessions
          /\ SessionOf(r) = s => own[r] = sessions[s]
      BY <1>4, <2>1 DEF NoHandle
    <2> QED
      BY <1>15, <1>16, <2>1, <2>2, <2>3
  <1>17. ASSUME NEW r \in Reqs,
                \/ warm' = [warm EXCEPT ![r] = NoWarm]
                \/ \E st \in {"sleep", "sent"} :
                     warm' = [warm EXCEPT ![r].st = st]
         PROVE  \A q \in Reqs :
                  warm'[q].handle \in {None, own[q], warm[q].handle}
    <2>1. warm \in [Reqs -> WarmRecords] /\ warm[r] \in WarmRecords
      BY DEF StoreType
    <2>2. \A q \in Reqs \ {r} : warm'[q] = warm[q]
      BY <1>17, <2>1
    <2>3. CASE warm' = [warm EXCEPT ![r] = NoWarm]
      <3>1. warm'[r].handle = None
        BY <2>1, <2>3 DEF NoWarm
      <3> QED
        BY <2>2, <3>1
    <2>4. CASE \E st \in {"sleep", "sent"} : warm' = [warm EXCEPT ![r].st = st]
      <3>1. warm'[r].handle = warm[r].handle
        BY <2>1, <2>4 DEF WarmRecords
      <3> QED
        BY <2>2, <3>1
    <2> QED
      BY <1>17, <2>3, <2>4
  <1>18. ASSUME Quiet, NEW r \in Reqs, NEW over \in BOOLEAN, WarmTick(r, over)
         PROVE  SingleInv(s)'
    <2>1. \/ warm' = [warm EXCEPT ![r] = NoWarm]
          \/ warm' = [warm EXCEPT ![r].st = "sent"]
      BY <1>18 DEF WarmTick
    <2>2. UNCHANGED <<sessions, db, content, own>>
      BY <1>18 DEF WarmTick, store
    <2>3. \A q \in Reqs : warm'[q].handle \in {None, own[q], warm[q].handle}
      BY <1>17, <2>1
    <2> QED
      BY <1>10, <1>18, <2>2, <2>3
  <1>19. ASSUME Quiet, NEW r \in Reqs, NEW answered \in BOOLEAN,
                NEW saved \in BOOLEAN, WarmRecord(r, answered, saved)
         PROVE  SingleInv(s)'
    <2>1. \/ warm' = [warm EXCEPT ![r] = NoWarm]
          \/ warm' = [warm EXCEPT ![r].st = "sleep"]
      BY <1>19 DEF WarmRecord
    <2>2. /\ UNCHANGED <<sessions, content, own>> /\ warm[r].st = "sent"
          /\ db' = db \/ \E d : db' = [db EXCEPT ![SessionOf(r)] = d]
      BY <1>19 DEF WarmRecord
    <2>3. \A q \in Reqs : warm'[q].handle \in {None, own[q], warm[q].handle}
      BY <1>17, <2>1
    <2>4. warm[r].handle # None /\ pc[r] # "idle" /\ PlaceInv(r)
      BY <1>3, <2>2 DEF PlaceInv
    <2>5. /\ HandleOf(warm[r].handle, SessionOf(r)) /\ SessionOf(r) \in Sessions
          /\ SessionOf(r) = s => warm[r].handle = sessions[s]
      BY <1>3, <2>4 DEF PlaceInv, ReqSingle
    <2> QED
      BY <1>15, <1>19, <2>2, <2>3, <2>5
  <1>20. ASSUME Quiet, NEW r \in Reqs,
                \/ NoKey(r) \/ StreamEnd(r) \/ Enqueue(r) \/ EndTurn(r)
                \/ Panic(r)
         PROVE  SingleInv(s)'
    <2>1. /\ UNCHANGED <<sessions, db, content, warm>>
          /\ own' = own \/ own' = [own EXCEPT ![r] = None]
      BY <1>20 DEF NoKey, StreamEnd, Enqueue, EndTurn, Panic
    <2>2. \A q \in Reqs : own'[q] \in {None, own[q]}
      BY <2>1 DEF StoreType
    <2> QED
      BY <1>10, <1>20, <2>1, <2>2
  <1>21. CASE Quiet
    <2>1. CASE UNCHANGED <<store, warm>>
      BY <1>10, <1>21, <2>1 DEF store
    <2>2. ASSUME NEW r \in Reqs, Load(r), pc'[r] = "refused"
          PROVE  SingleInv(s)'
      <3>1. UNCHANGED <<sessions, db, content, own, warm>>
        BY <2>2 DEF Load, Go, ReqType
      <3> QED
        BY <1>10, <1>21, <3>1
    <2> QED
      BY <1>7, <1>8, <1>6, <1>11, <1>12, <1>13, <1>14, <1>16, <1>18, <1>19,
         <1>20, <1>21, <2>1, <2>2, StoreKept
  <1>22. CASE \E r \in Reqs, t \in Sessions, kind \in Kinds,
                 auto \in BOOLEAN : Post(r, t, kind, auto)
    BY <1>6, <1>22
  <1>23. CASE \E r \in Reqs : BeginTurn(r) \/ (Load(r) /\ pc'[r] # "refused")
    BY <1>7, <1>8, <1>23
  <1>24. CASE /\ ~\E r \in Reqs :
                    BeginTurn(r) \/ (Load(r) /\ pc'[r] # "refused")
              /\ ~\E r \in Reqs, t \in Sessions, kind \in Kinds,
                     auto \in BOOLEAN : Post(r, t, kind, auto)
    <2>1. \A r \in Reqs :
            /\ req' = req
            /\ pc'[r] = "load" => pc[r] = "load"
            /\ pc'[r] = "loaded" => pc[r] = "loaded"
            /\ pc'[r] \in Turned => pc[r] \in Turned \/ req[r].kind = "rewind"
      BY <1>24, PcMoves
    <2>2. req' = req
      BY <1>24, NextFlow
    <2> QED
      BY <1>21, <2>1, <2>2 DEF Quiet
  <1> QED
    BY <1>22, <1>23, <1>24

-----------------------------------------------------------------------------
\* The parts of the inductive invariant.
DaemonInv ==
    /\ ReqType /\ StoreType /\ HubType
    /\ KindInv /\ StoreInv /\ SinglesInv
    /\ AskInv /\ ApprovedByUser

\* The daemon starts without requests, handles and asks.
LEMMA InitInv == Init => DaemonInv /\ PendingInv
  <1> SUFFICES ASSUME Init PROVE DaemonInv /\ PendingInv
    OBVIOUS
  <1> USE DaemonAssumption
  <1>1. ReqType
    BY DEF Init, ReqType, Places
  <1>2. PICK stored \in SUBSET Sessions :
          db = [s \in Sessions |-> IF s \in stored THEN <<s>> ELSE None]
    BY DEF Init
  <1>3. StoreType
    <2>1. db \in [Sessions -> Seq(Messages) \cup {None}]
      <3>1. \A s \in Sessions : <<s>> \in Seq(Messages)
        BY DEF Messages
      <3> QED
        BY <1>2, <3>1
    <2>2. NoWarm \in WarmRecords
      BY DEF NoWarm, WarmRecords
    <2>3. << >> \in Seq(Messages) /\ << >> \in Seq(Reqs)
      OBVIOUS
    <2> QED
      BY <2>1, <2>2, <2>3 DEF Init, StoreType
  <1>4. HubType
    BY DEF Init, HubType
  <1>5. KindInv
    BY DEF Init, KindInv, Active
  <1>6. \A r \in Reqs : /\ pc[r] = "idle" /\ own[r] = None
                        /\ warm[r].st = "off" /\ warm[r].handle = None
                        /\ SessionOf(r) \notin Sessions
    BY DEF Init, NoWarm, SessionOf, NoReq
  <1>7. StoreInv
    <2>1. \A r \in Reqs : PlaceInv(r)
      BY <1>6 DEF PlaceInv, NoHandle
    <2> QED
      BY <2>1 DEF Init, StoreInv
  <1>8. SinglesInv
    BY <1>6 DEF SinglesInv, SingleInv, Loading
  <1>9. AskInv /\ ApprovedByUser /\ PendingInv
    BY DEF Init, AskInv, ApprovedByUser, PendingInv
  <1> QED
    BY <1>1, <1>3, <1>4, <1>5, <1>7, <1>8, <1>9 DEF DaemonInv

\* Every step keeps all of it.
LEMMA NextInv ==
    ASSUME DaemonInv, [Next]_vars
    PROVE  DaemonInv'
  BY NextReqType, NextStoreType, NextHubType, NextKind, NextStoreInv,
     NextSingles, NextAskInv DEF DaemonInv

\* The inductive invariant of the daemon.
THEOREM DaemonInvariant == Spec => []DaemonInv
  BY InitInv, NextInv, PTL DEF Spec

\* Every variable of the daemon keeps its type.
THEOREM TypeCorrect == Spec => []TypeOK
  <1>1. DaemonInv => TypeOK
    <2> SUFFICES ASSUME DaemonInv PROVE TypeOK
      OBVIOUS
    <2> USE DEF DaemonInv
    <2>1. \A a \in DOMAIN ask : ask[a] \in AskRecords
      BY DEF HubType
    <2>2. \A a \in DOMAIN ask :
            /\ ask[a].run \in Reqs /\ ask[a].what \in Tools \cup {"question"}
            /\ ask[a].st \in {"insert", "wait", "expired", "over"}
            /\ ask[a].seen \in BOOLEAN
            /\ ask[a].reply \in {"none", "yes", "no"}
            /\ ask[a].result \in {"none", "yes", "no", "dropped"}
      BY <2>1 DEF AskRecords
    <2>3. \A r \in Reqs : /\ warm[r].st \in {"off", "sleep", "sent"}
                          /\ warm[r].history \in Nat
                          /\ warm[r].handle \in Handles \cup {None}
      BY DEF StoreType, WarmRecords
    <2>4. /\ \A s \in Sessions :
              db[s] = None \/ db[s] \in Seq(Sessions \cup Reqs)
          /\ \A h \in Handles : /\ content[h] \in Seq(Sessions \cup Reqs)
                                /\ waiters[h] \in Seq(Reqs)
      BY DEF StoreType, Messages
    <2> QED
      BY <2>2, <2>3, <2>4 DEF TypeOK, StoreType, ReqType, HubType, Requests,
         Places, Messages
  <1> QED
    BY <1>1, DaemonInvariant, PTL

\* A tool runs on the user's word only (PermHub.ask and decide): for any number
\* of sessions, runs, chats and asks, timeouts, cancels and ends of other runs
\* approve nothing.
THEOREM AsksApproved == Spec => []ApprovedByUser
  <1>1. DaemonInv => ApprovedByUser
    BY DEF DaemonInv
  <1> QED
    BY <1>1, DaemonInvariant, PTL

\* Turns of one session never overlap, also across eviction and reload, unless
\* load_or_get_session loaded it twice at once.
THEOREM SessionsSerialize == Spec => []TurnsSerialize
  <1>1. DaemonInv => TurnsSerialize
    <2> SUFFICES ASSUME DaemonInv, NEW q \in Reqs, NEW r \in Reqs,
                        pc[q] = "turn", pc[r] = "turn",
                        SessionOf(q) = SessionOf(r), SessionOf(q) \notin raced
                 PROVE  q = r
      BY DEF TurnsSerialize
    <2>1. SessionOf(q) \in Sessions
      BY DEF DaemonInv, ReqType, Requests, SessionOf
    <2>2. SingleInv(SessionOf(q))
      BY <2>1 DEF DaemonInv, SinglesInv
    <2>3. ReqSingle(q, SessionOf(q)) /\ ReqSingle(r, SessionOf(q))
      BY <2>2 DEF SingleInv
    <2>4. PlaceInv(q) /\ PlaceInv(r)
      BY DEF DaemonInv, StoreInv
    <2>5. /\ own[q] # None /\ holder[own[q]] = q
          /\ own[r] # None /\ holder[own[r]] = r
      BY <2>4, DaemonAssumption DEF PlaceInv, NoHandle, HandleOf, Handles
    <2> QED
      BY <2>3, <2>5 DEF ReqSingle
  <1> QED
    BY <1>1, DaemonInvariant, PTL

\* The session that the next request gets has the message of every turn that
\* ended, unless a rewind removed it or the session was loaded twice at once
\* (evict_idle_sessions, save_session, keep_warm).
THEOREM TurnsKept == Spec => []NoTurnLost
  <1>1. DaemonInv => NoTurnLost
    <2> SUFFICES ASSUME DaemonInv, NEW r \in Reqs, pc[r] = "ended",
                        req[r].kind # "rewind", r \notin rewound,
                        SessionOf(r) \notin raced
                 PROVE  Holds(SessionOf(r), r)
      BY DEF NoTurnLost, Holds, Current
    <2>1. SessionOf(r) \in Sessions
      BY DEF DaemonInv, ReqType, Requests, SessionOf
    <2>2. ReqSingle(r, SessionOf(r))
      BY <2>1 DEF DaemonInv, SinglesInv, SingleInv
    <2> QED
      BY <2>2 DEF ReqSingle, Turned
  <1> QED
    BY <1>1, DaemonInvariant, PTL

\* In a build that aborts on a panic, as release builds do, the hub lists no ask
\* of a session whose runs have all finished (finish_run).
THEOREM AsksEndWithRuns ==
    ASSUME ~Panics
    PROVE  Spec => []NoAskOutlivesRuns
  <1>1. DaemonInv /\ PendingInv /\ [Next]_vars => (DaemonInv /\ PendingInv)'
    <2> SUFFICES ASSUME DaemonInv, PendingInv, [Next]_vars
                 PROVE  DaemonInv' /\ PendingInv'
      OBVIOUS
    <2>1. DaemonInv'
      BY NextInv
    <2>2. PendingInv'
      BY NextPending DEF DaemonInv
    <2> QED
      BY <2>1, <2>2
  <1>2. DaemonInv /\ PendingInv => NoAskOutlivesRuns
    <2> SUFFICES ASSUME DaemonInv, PendingInv, NEW a \in pending
                 PROVE  \E r \in Reqs :
                          /\ SessionOf(r) = SessionOf(ask[a].run)
                          /\ pc[r] \in {"turn", "released", "saving", "saved",
                                        "closing"}
      BY DEF NoAskOutlivesRuns
    <2>1. ask[a] \in AskRecords
      BY DEF DaemonInv, HubType
    <2>2. ask[a].run \in Reqs
      BY <2>1 DEF AskRecords
    <2> QED
      BY <2>2 DEF PendingInv
  <1> QED
    BY <1>1, <1>2, InitInv, PTL DEF Spec
=============================================================================
