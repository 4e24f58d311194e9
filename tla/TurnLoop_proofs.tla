-------------------------- MODULE TurnLoop_proofs ---------------------------
(***************************************************************************)
(* Proofs for the turn loop.  First what the state is made of (`Base`: the *)
(* posts, the control state with its counters, the session), then one      *)
(* invariant for each property.                                            *)
(*                                                                         *)
(* The steps of the specification are first sorted into kinds, by what     *)
(* they do to the session (`SessionKinds`) or to the counters of the turn  *)
(* (`LoopKinds`); an invariant is then shown for each kind.                *)
(***************************************************************************)
EXTENDS TurnLoop, Transcript_proofs

CallIds == Nat \X Nat \X Nat
Whats == Bodies \cup {"not run", "skipped", "doom"}

\* The messages of a session.
Msg ==
    [role : {"user"}, kind : {"prompt"}, what : Nat]
      \cup [role : {"user"}, kind : {"note"},
            why : {"job", "rule", "cut off", "todos", "recovery"}]
      \cup [role : {"user"}, kind : {"carrier"}]
      \cup [role : {"assistant"}, ids : Seq(CallIds)]
      \cup [role : {"tool"}, id : CallIds, what : Whats]

Schedules == {"serial", "parallel"}

Counters ==
    [steps : Nat, doom : Nat, runOf : Sigs \cup {NoSig}, runLen : Nat,
     cuts : Nat, harmony : Nat, overflow : Nat, compactFails : Nat,
     switches : Nat, drops : Nat, hits : Nat, notices : Nat, todos : BOOLEAN,
     reminded : BOOLEAN]

Pcs == {"idle", "hooks", "top", "assemble", "request", "overflow", "batch",
        "over"}
Outcomes == {"none", "ok", "error", "cancelled", "stopped"}

\* Types, sequences as sequences: of the turn,
ControlType ==
    /\ pc \in Pcs /\ outcome \in Outcomes
    /\ cancel \in BOOLEAN /\ started \in BOOLEAN
    /\ calls \in Seq(Sigs) /\ done \in Seq(Bodies)
    /\ finished \in Seq(Bodies \cup {"none"})

\* the session,
SessionType ==
    /\ messages \in Seq(Msg) /\ mark \in Nat
    /\ backup \in [messages : Seq(Msg), mark : Nat]
    /\ ran \subseteq CallIds \X Schedules \X Sigs

\* and what the user typed.
PostType ==
    /\ inbox \in Seq(Posts) /\ pending \in Seq(Posts)
    /\ steered \in Seq(Posts) /\ read \in Seq(Posts)
    /\ typed \in 0 .. MaxMsgs

\* The counters stay within the limits of the code; a turn that goes on has
\* a refusal left.
CounterInv ==
    /\ t \in Counters
    /\ t.runLen <= DoomThreshold /\ t.cuts <= MaxCutOffs
    /\ t.harmony <= MaxHarmony /\ t.overflow <= MaxOverflow
    /\ t.compactFails <= MaxCompactFails /\ t.notices <= MaxNotices
    /\ t.doom <= MaxDoomRefusals
    /\ pc \notin {"idle", "over"} => t.doom < MaxDoomRefusals

\* A batch is as the reply made it, its calls run one by one or all at once.
BatchInv ==
    IF pc = "batch"
    THEN /\ Len(calls) > 0 /\ Len(done) < Len(calls)
         /\ Len(finished) = Len(calls)
         /\ Parallel => ~started /\ done = << >>
         /\ t.steps > 0
    ELSE calls = << >> /\ done = << >> /\ ~started /\ finished = << >>

\* A compaction for an overflow is one of those that were counted.
OverflowInv == pc = "overflow" => t.overflow > 0

ControlInv == ControlType /\ CounterInv /\ BatchInv /\ OverflowInv

-----------------------------------------------------------------------------
\* A sequence of elements of `S` is one over `S`.
LEMMA InSeq ==
    ASSUME NEW R, NEW S, NEW s \in Seq(R),
           \A i \in 1 .. Len(s) : s[i] \in S
    PROVE  s \in Seq(S)
  <1>1. s = [i \in 1 .. Len(s) |-> s[i]] /\ Len(s) \in Nat
    OBVIOUS
  <1>2. s \in [1 .. Len(s) -> S]
    BY <1>1
  <1> QED
    BY <1>1, <1>2

\* Each message that the loop makes is one.
LEMMA MakeMsg ==
    /\ \A m \in Nat : Prompt(m) \in Msg
    /\ \A why \in {"job", "rule", "cut off", "todos", "recovery"} :
         Note(why) \in Msg
    /\ Carrier \in Msg /\ NativeBlock \in Msg
    /\ \A ids \in Seq(CallIds) : Assistant(ids) \in Msg
    /\ \A id \in CallIds, what \in Whats : Result(id, what) \in Msg
  <1>1. \A m \in Nat : Prompt(m) \in Msg
    BY DEF Msg, Prompt
  <1>2. \A why \in {"job", "rule", "cut off", "todos", "recovery"} :
          Note(why) \in Msg
    BY DEF Msg, Note
  <1>3. Carrier \in Msg
    BY DEF Msg, Carrier
  <1>4. \A ids \in Seq(CallIds) : Assistant(ids) \in Msg
    BY DEF Msg, Assistant
  <1>5. \A id \in CallIds, what \in Whats : Result(id, what) \in Msg
    BY DEF Msg, Result
  <1>6. << >> \in Seq(CallIds)
    OBVIOUS
  <1>7. NativeBlock \in Msg
    BY <1>4, <1>6 DEF NativeBlock
  <1> QED
    BY <1>1, <1>2, <1>3, <1>4, <1>5, <1>7

\* Fields of messages.
LEMMA MsgFields ==
    /\ \A m : Prompt(m).role = "user" /\ Prompt(m).kind = "prompt"
              /\ Prompt(m).what = m /\ RealUserTurn(Prompt(m))
    /\ \A why : Note(why).role = "user" /\ ~RealUserTurn(Note(why))
    /\ Carrier.role = "user" /\ ~RealUserTurn(Carrier)
    /\ \A ids : Assistant(ids).role = "assistant" /\ Assistant(ids).ids = ids
                /\ ~RealUserTurn(Assistant(ids))
    /\ \A id, what : /\ Result(id, what).role = "tool"
                     /\ Result(id, what).id = id
                     /\ Result(id, what).what = what
                     /\ ~RealUserTurn(Result(id, what))
  BY DEF Prompt, Note, Carrier, Assistant, Result, RealUserTurn

\* The ids of a reply's calls, and the results for them.
LEMMA IdsResults ==
    ASSUME turn \in Nat, NEW step \in Nat
    PROVE  /\ \A i \in Nat : CallId(step, i) \in CallIds
           /\ \A cs \in Seq(Sigs) :
                /\ IdsOf(step, cs) \in Seq(CallIds)
                /\ IdsOf(step, cs) \in [1 .. Len(cs) -> CallIds]
                /\ Len(IdsOf(step, cs)) = Len(cs)
           /\ \A bodies \in Seq(Whats) :
                /\ ResultsOf(step, bodies) \in Seq(Msg)
                /\ Len(ResultsOf(step, bodies)) = Len(bodies)
                /\ \A i \in 1 .. Len(bodies) :
                     ResultsOf(step, bodies)[i]
                       = Result(CallId(step, i), bodies[i])
  <1>1. \A i \in Nat : CallId(step, i) \in CallIds
    BY DEF CallId, CallIds
  <1>2. ASSUME NEW cs \in Seq(Sigs)
        PROVE  /\ IdsOf(step, cs) \in Seq(CallIds)
               /\ IdsOf(step, cs) \in [1 .. Len(cs) -> CallIds]
               /\ Len(IdsOf(step, cs)) = Len(cs)
    <2>1. Len(cs) \in Nat /\ \A i \in 1 .. Len(cs) : i \in Nat
      OBVIOUS
    <2>2. IdsOf(step, cs) \in [1 .. Len(cs) -> CallIds]
      BY <1>1, <2>1 DEF IdsOf
    <2> QED
      BY <2>1, <2>2
  <1>3. ASSUME NEW bodies \in Seq(Whats)
        PROVE  /\ ResultsOf(step, bodies) \in Seq(Msg)
               /\ Len(ResultsOf(step, bodies)) = Len(bodies)
               /\ \A i \in 1 .. Len(bodies) :
                    ResultsOf(step, bodies)[i]
                      = Result(CallId(step, i), bodies[i])
    <2>1. Len(bodies) \in Nat /\ \A i \in 1 .. Len(bodies) : i \in Nat
      OBVIOUS
    <2>2. ASSUME NEW i \in 1 .. Len(bodies)
          PROVE  Result(CallId(step, i), bodies[i]) \in Msg
      <3>1. bodies[i] \in Whats /\ i \in Nat
        OBVIOUS
      <3>2. CallId(step, i) \in CallIds
        BY <1>1, <3>1
      <3> QED
        BY <3>1, <3>2, MakeMsg
    <2>3. ResultsOf(step, bodies) \in [1 .. Len(bodies) -> Msg]
      BY <2>2 DEF ResultsOf
    <2> QED
      BY <2>1, <2>3 DEF ResultsOf
  <1> QED
    BY <1>1, <1>2, <1>3

\* The replies of the model.
LEMMA BatchesIs ==
    ASSUME NEW cs \in Batches
    PROVE  cs \in Seq(Sigs) /\ Len(cs) > 0 /\ Len(cs) \in Nat
  <1>1. PICK n \in 1 .. MaxCalls : cs \in [1 .. n -> Sigs]
    BY DEF Batches
  <1>2. n \in Nat /\ n > 0
    BY TurnLoopAssumption
  <1> QED
    BY <1>1, <1>2

-----------------------------------------------------------------------------
(***************************************************************************)
(* What the user typed, between the keyboard and the session.              *)
(***************************************************************************)

\* `a` is the end of `b`.
Suffix(a, b) ==
    /\ Len(a) <= Len(b)
    /\ \A i \in 1 .. Len(a) : a[i] = b[Len(b) - Len(a) + i]

\* The TUI steers a turn only while one runs, and never with a queued prompt;
\* what the turn did not take is the end of what it was steered with.
TuiInv ==
    Client = "tui" =>
        /\ Suffix(inbox, steered)
        /\ pc = "idle" => inbox = << >>
        /\ \A i \in 1 .. Len(inbox) : inbox[i][1] # "Queue"

\* A prompt starts one turn at most.
PostInv ==
    /\ PostType /\ TuiInv
    /\ turn \in Nat /\ turn + Len(pending) + Len(inbox) <= typed

\* A step that moves no prompt.
Quiet ==
    /\ UNCHANGED <<clientVars, read, turn>>
    /\ pc = "idle" <=> pc' = "idle"

\* The steps that move prompts are few.
LEMMA PostStep ==
    ASSUME [Next]_vars
    PROVE  \/ \E mode \in Modes : Type(mode)
           \/ Steer \/ StartTurn \/ ForceStop \/ Settle \/ Top \/ Quiet
  <1>1. CASE UNCHANGED vars
    BY <1>1 DEF vars, Quiet, clientVars
  <1>2. CASE Cancel
    BY <1>2 DEF Cancel, Quiet
  <1>3. CASE PromptHooks \/ AutoCompact \/ NoCompact \/ RequestCancelled
               \/ RequestFails \/ RequestRetried \/ RuleHit \/ ContextOverflow
               \/ OverflowCompacted
    BY <1>3 DEF PromptHooks, AutoCompact, NoCompact, RequestCancelled,
         RequestFails, RequestRetried, RuleHit, ContextOverflow,
         OverflowCompacted, Quiet, End
  <1>4. ASSUME NEW limit \in BOOLEAN, HarmonyLeak(limit)
        PROVE  Quiet
    BY <1>4 DEF HarmonyLeak, Quiet, End
  <1>5. ASSUME NEW text \in BOOLEAN, ReplyCutOff(text)
        PROVE  Quiet
    BY <1>5 DEF ReplyCutOff, Reply, Quiet
  <1>6. ASSUME NEW text \in BOOLEAN, NEW limit \in BOOLEAN,
               NEW open \in BOOLEAN, ReplyFinal(text, limit, open)
        PROVE  Quiet
    BY <1>6 DEF ReplyFinal, Reply, Quiet, End
  <1>7. ASSUME NEW cs \in Batches, ReplyRefused(cs) \/ ReplyBatch(cs)
        PROVE  Quiet
    BY <1>7 DEF ReplyRefused, ReplyBatch, Reply, Quiet, End
  <1>8. CASE SkipForUrgent \/ StartCall \/ BatchCancelled \/ ParallelJoined
    BY <1>8 DEF SkipForUrgent, StartCall, BatchCancelled, ParallelJoined,
         BatchSettled, CloseUnanswered, Quiet, End
  <1>9. ASSUME NEW body \in Bodies,
               FinishCall(body)
                 \/ \E i \in 1 .. MaxCalls : ParallelCallEnds(i, body)
        PROVE  Quiet
    BY <1>9 DEF FinishCall, ParallelCallEnds, BatchSettled, Quiet
  <1> QED
    BY <1>1, <1>2, <1>3, <1>4, <1>5, <1>6, <1>7, <1>8, <1>9 DEF Next, Step

\* The end of a sequence, cut out of it.
LEMMA SuffixIs ==
    ASSUME NEW S, NEW a \in Seq(S), NEW b \in Seq(S), Suffix(a, b)
    PROVE  SubSeq(b, Len(b) - Len(a) + 1, Len(b)) = a
  <1>1. Len(a) \in Nat /\ Len(b) \in Nat /\ Len(a) <= Len(b)
    BY DEF Suffix
  <1>2. Len(b) - Len(a) + 1 \in 1 .. Len(b) + 1
    BY <1>1
  <1> DEFINE c == SubSeq(b, Len(b) - Len(a) + 1, Len(b))
  <1>3. /\ c \in Seq(S) /\ Len(c) = Len(a)
        /\ \A i \in 1 .. Len(a) : c[i] = b[Len(b) - Len(a) + i]
    BY <1>1, <1>2
  <1>4. \A i \in 1 .. Len(a) : c[i] = a[i]
    BY <1>3 DEF Suffix
  <1> HIDE DEF c
  <1>5. c = a
    BY <1>3, <1>4
  <1> QED
    BY <1>5 DEF c

\* Queued prompts and the others: each prompt is one of them.
LEMMA PickPosts ==
    ASSUME NEW S, NEW s \in Seq(S)
    PROVE  /\ Pick(s, Queued(s)) \in Seq(S) /\ Pick(s, Steerable(s)) \in Seq(S)
           /\ Len(Pick(s, Queued(s))) + Len(Pick(s, Steerable(s))) = Len(s)
           /\ Queued(s) = {} => Pick(s, Queued(s)) = << >>
           /\ \A k \in 1 .. Len(Pick(s, Steerable(s))) :
                Pick(s, Steerable(s))[k][1] # "Queue"
           /\ \A i \in 1 .. Len(s) : s[i][1] # "Queue" =>
                \E k \in 1 .. Len(Pick(s, Steerable(s))) :
                  Pick(s, Steerable(s))[k] = s[i]
  <1> DEFINE q == Queued(s)
             r == Steerable(s)
             p == Pick(s, r)
  <1>1. q \subseteq 1 .. Len(s) /\ r \subseteq 1 .. Len(s)
    BY DEF Queued, Steerable
  <1>2. /\ Pick(s, q) \in Seq(S) /\ Len(Pick(s, q)) = Cardinality(q)
        /\ p \in Seq(S) /\ Len(p) = Cardinality(r)
        /\ \E f : Picked(s, r, f, p)
    BY <1>1, PickIs
  <1>3. Cardinality(q) + Cardinality(r) = Len(s)
    <2>1. Len(s) \in Nat
      OBVIOUS
    <2>2. IsFiniteSet(1 .. Len(s)) /\ Cardinality(1 .. Len(s)) = Len(s)
      BY SMTT(30), <2>1, FS_Interval
    <2>3. IsFiniteSet(q) /\ IsFiniteSet(r)
      BY <1>1, <2>2, FS_Subset
    <2>4. q \cup r = 1 .. Len(s) /\ q \cap r = {}
      BY DEF Queued, Steerable
    <2>5. Cardinality(q \cup r)
            = Cardinality(q) + Cardinality(r) - Cardinality(q \cap r)
      BY <2>3, FS_Union
    <2>6. Cardinality(q \cap r) = 0
      BY <2>4, FS_EmptySet
    <2>7. Cardinality(q) \in Nat /\ Cardinality(r) \in Nat
      BY <2>3, FS_CardinalityType
    <2>8. Cardinality(q \cup r) = Len(s)
      BY <2>2, <2>4
    <2> HIDE DEF q, r
    <2> QED
      BY <2>5, <2>6, <2>7, <2>8
  <1>4. q = {} => Pick(s, q) = << >>
    BY <1>2, FS_EmptySet
  <1>5. PICK f : Picked(s, r, f, p)
    BY <1>2
  <1>6. \A k \in 1 .. Len(p) : f[k] \in r /\ p[k] = s[f[k]]
    BY <1>5 DEF Picked
  <1>7. \A k \in 1 .. Len(p) : p[k][1] # "Queue"
    BY <1>6 DEF Steerable
  <1>8. ASSUME NEW i \in 1 .. Len(s), s[i][1] # "Queue"
        PROVE  \E k \in 1 .. Len(p) : p[k] = s[i]
    <2>1. i \in r
      BY <1>8 DEF Steerable
    <2>2. PICK k \in 1 .. Len(p) : f[k] = i
      BY <1>5, <2>1 DEF Picked
    <2> QED
      BY <1>6, <2>2
  <1> QED
    BY <1>2, <1>3, <1>4, <1>7, <1>8

\* Prompts are counted, typed and told apart wherever they are.
LEMMA PostInvariant == Spec => []PostInv
  <1>1. Init => PostInv
    <2> SUFFICES ASSUME Init PROVE PostInv
      OBVIOUS
    <2>1. PostType
      BY TurnLoopAssumption DEF Init, PostType
    <2>2. TuiInv
      BY DEF Init, TuiInv, Suffix
    <2> QED
      BY <2>1, <2>2 DEF Init, PostInv
  <1>2. PostInv /\ [Next]_vars => PostInv'
    <2> SUFFICES ASSUME PostInv, [Next]_vars
                 PROVE  PostInv'
      OBVIOUS
    <2>1. /\ inbox \in Seq(Posts) /\ pending \in Seq(Posts)
          /\ steered \in Seq(Posts) /\ read \in Seq(Posts)
          /\ typed \in 0 .. MaxMsgs /\ typed \in Nat /\ MaxMsgs \in Nat
          /\ turn \in Nat /\ turn + Len(pending) + Len(inbox) <= typed
          /\ TuiInv
      BY TurnLoopAssumption DEF PostInv, PostType
    <2>2. Len(inbox) \in Nat /\ Len(pending) \in Nat /\ Len(steered) \in Nat
      BY <2>1
    <2>3. ASSUME NEW mode \in Modes, Type(mode)
          PROVE  PostInv'
      <3>1. <<mode, typed + 1>> \in Posts /\ typed + 1 \in 0 .. MaxMsgs
        BY <2>1, <2>3 DEF Type, Posts
      <3> DEFINE post == <<mode, typed + 1>>
      <3> HIDE DEF post
      <3>2. /\ post \in Posts /\ typed' = typed + 1
            /\ UNCHANGED <<steered, read, turn>>
            /\ \/ pending' = Append(pending, post) /\ inbox' = inbox
               \/ inbox' = Append(inbox, post) /\ pending' = pending
        BY <2>3, <3>1 DEF Type, post
      <3>3. /\ Append(pending, post) \in Seq(Posts)
            /\ Append(inbox, post) \in Seq(Posts)
            /\ Len(Append(pending, post)) = Len(pending) + 1
            /\ Len(Append(inbox, post)) = Len(inbox) + 1
        BY <2>1, <3>2
      <3>4. pending' \in Seq(Posts) /\ inbox' \in Seq(Posts)
        BY <2>1, <3>2, <3>3
      <3>5. PostType'
        BY <2>1, <3>1, <3>2, <3>4 DEF PostType
      <3>6. TuiInv'
        BY <2>1, <2>3 DEF Type, TuiInv
      <3>7. /\ turn' = turn /\ typed' = typed + 1
            /\ Len(pending') + Len(inbox') = Len(pending) + Len(inbox) + 1
            /\ Len(pending') \in Nat /\ Len(inbox') \in Nat
        <4>1. CASE pending' = Append(pending, post) /\ inbox' = inbox
          BY <2>2, <3>2, <3>3, <4>1
        <4>2. CASE inbox' = Append(inbox, post) /\ pending' = pending
          BY <2>2, <3>2, <3>3, <4>2
        <4> QED
          BY <3>2, <4>1, <4>2
      <3> QED
        BY <2>1, <2>2, <3>6, <3>7, <3>5 DEF PostInv
    <2>4. CASE Steer
      <3> DEFINE ready == Pick(pending, Steerable(pending))
                 rest == Pick(pending, Queued(pending))
      <3>1. /\ ready \in Seq(Posts) /\ rest \in Seq(Posts)
            /\ Len(rest) + Len(ready) = Len(pending)
            /\ \A k \in 1 .. Len(ready) : ready[k][1] # "Queue"
        BY <2>1, PickPosts
      <3> HIDE DEF ready, rest
      <3>2. /\ Client = "tui" /\ pc # "idle" /\ pc' = pc
            /\ inbox' = inbox \o ready /\ steered' = steered \o ready
            /\ pending' = rest /\ UNCHANGED <<typed, read, turn>>
        BY <2>4 DEF Steer, ready, rest
      <3>3. PostType'
        BY <2>1, <3>1, <3>2 DEF PostType
      <3>4. /\ Len(ready) \in Nat /\ Len(rest) \in Nat
            /\ Len(inbox') = Len(inbox) + Len(ready)
            /\ Len(steered') = Len(steered) + Len(ready)
        BY <2>1, <3>1, <3>2
      <3>5. Suffix(inbox', steered')
        <4>1. Len(inbox) <= Len(steered)
          BY <2>1, <3>2 DEF TuiInv, Suffix
        <4>2. ASSUME NEW i \in 1 .. Len(inbox')
              PROVE  inbox'[i] = steered'[Len(steered') - Len(inbox') + i]
          <5>1. CASE i <= Len(inbox)
            <6>1. inbox'[i] = inbox[i]
              BY <2>1, <3>1, <3>2, <5>1
            <6>2. Len(steered) - Len(inbox) + i \in 1 .. Len(steered)
              BY <2>2, <4>1, <5>1
            <6>3. steered'[Len(steered) - Len(inbox) + i]
                    = steered[Len(steered) - Len(inbox) + i]
              BY <2>1, <3>1, <3>2, <6>2
            <6>4. Len(steered') - Len(inbox') = Len(steered) - Len(inbox)
              BY <2>2, <3>4
            <6>5. inbox[i] = steered[Len(steered) - Len(inbox) + i]
              BY <2>1, <3>2, <5>1 DEF TuiInv, Suffix
            <6> QED
              BY <6>1, <6>3, <6>4, <6>5
          <5>2. CASE ~(i <= Len(inbox))
            <6>1. i - Len(inbox) \in 1 .. Len(ready)
              BY <2>2, <3>4, <5>2
            <6>2. inbox'[i] = ready[i - Len(inbox)]
              BY <2>1, <3>1, <3>2, <3>4, <5>2
            <6>3. /\ Len(steered') - Len(inbox') + i
                       = Len(steered) + (i - Len(inbox))
                  /\ Len(steered) + (i - Len(inbox)) \in 1 .. Len(steered')
              BY <2>2, <3>4, <6>1
            <6>4. steered'[Len(steered) + (i - Len(inbox))]
                    = ready[i - Len(inbox)]
              BY <2>1, <2>2, <3>1, <3>2, <6>1, <6>3
            <6> QED
              BY <6>2, <6>3, <6>4
          <5> QED
            BY <5>1, <5>2
        <4> QED
          BY <2>2, <3>4, <4>1, <4>2 DEF Suffix
      <3>6. \A i \in 1 .. Len(inbox') : inbox'[i][1] # "Queue"
        BY <2>1, <2>2, <3>1, <3>2, <3>4 DEF TuiInv
      <3>7. TuiInv'
        BY <3>2, <3>5, <3>6 DEF TuiInv
      <3> QED
        BY <2>1, <2>2, <3>1, <3>2, <3>3, <3>4, <3>7 DEF PostInv
    <2>5. CASE StartTurn
      <3>1. /\ pending # << >> /\ pending' = Tail(pending)
            /\ steered' = << >> /\ read' = Append(read, Head(pending))
            /\ turn' = turn + 1 /\ pc = "idle" /\ pc' = "hooks"
            /\ UNCHANGED <<inbox, typed>>
        BY <2>5 DEF StartTurn
      <3>2. /\ Head(pending) \in Posts /\ Tail(pending) \in Seq(Posts)
            /\ Len(Tail(pending)) = Len(pending) - 1
        BY <2>1, <3>1
      <3>3. PostType'
        BY <2>1, <3>1, <3>2 DEF PostType
      <3>4. TuiInv'
        BY <2>1, <3>1 DEF TuiInv, Suffix
      <3> QED
        BY <2>1, <2>2, <3>1, <3>2, <3>3, <3>4 DEF PostInv
    <2>6. CASE Top
      <3> DEFINE rest == Pick(inbox, Queued(inbox))
      <3>1. /\ TakenNow \in Seq(Posts) /\ rest \in Seq(Posts)
            /\ Len(rest) + Len(TakenNow) = Len(inbox)
            /\ Queued(inbox) = {} => rest = << >>
        BY <2>1, PickPosts DEF TakenNow
      <3> HIDE DEF rest
      <3>2. /\ inbox' = rest /\ read' = read \o TakenNow
            /\ UNCHANGED <<pending, steered, typed, turn>>
            /\ pc = "top" /\ pc' # "idle"
        BY <2>6 DEF Top, rest, End
      <3>3. PostType'
        BY <2>1, <3>1, <3>2 DEF PostType
      <3>4. TuiInv'
        <4> SUFFICES ASSUME Client = "tui" PROVE TuiInv'
          BY DEF TuiInv
        <4>1. inbox' = << >>
          BY <2>1, <3>1, <3>2 DEF TuiInv, Queued
        <4> QED
          BY <2>2, <3>2, <4>1 DEF TuiInv, Suffix
      <3>5. Len(rest) \in Nat /\ Len(TakenNow) \in Nat
        BY <3>1
      <3> QED
        BY <2>1, <2>2, <3>1, <3>2, <3>3, <3>4, <3>5 DEF PostInv
    <2>7. ASSUME Client = "tui", Reclaim, UNCHANGED <<typed, read, turn>>
          PROVE  PostInv'
      <3>1. Suffix(inbox, steered)
        BY <2>1, <2>7 DEF TuiInv
      <3>2. /\ pending' = inbox \o pending /\ inbox' = << >>
            /\ steered' = << >>
        BY <2>1, <2>7, <3>1, SuffixIs DEF Reclaim
      <3>3. PostType'
        BY <2>1, <2>7, <3>2 DEF PostType
      <3>4. TuiInv'
        BY <3>2 DEF TuiInv, Suffix
      <3>5. Len(pending') = Len(inbox) + Len(pending) /\ Len(inbox') = 0
        BY <2>1, <3>2
      <3> QED
        BY <2>1, <2>2, <2>7, <3>3, <3>4, <3>5 DEF PostInv
    <2>8. CASE ForceStop
      BY <2>7, <2>8 DEF ForceStop
    <2>9. CASE Settle
      <3>1. CASE Client = "tui"
        BY <2>7, <2>9, <3>1 DEF Settle
      <3>2. CASE Client = "chat"
        <4>1. /\ pending' = pending \o inbox /\ inbox' = << >>
              /\ UNCHANGED <<steered, typed, read, turn>>
          BY <2>9, <3>2 DEF Settle
        <4>2. PostType'
          BY <2>1, <4>1 DEF PostType
        <4>3. Len(pending') = Len(inbox) + Len(pending) /\ Len(inbox') = 0
          BY <2>1, <4>1
        <4> QED
          BY <2>1, <2>2, <3>2, <4>1, <4>2, <4>3 DEF PostInv, TuiInv
      <3>3. CASE Client = "v1"
        BY <2>1, <2>9, <3>3 DEF Settle, PostInv, PostType, TuiInv
      <3> QED
        BY <3>1, <3>2, <3>3, TurnLoopAssumption
    <2>10. CASE Quiet
      <3>1. /\ UNCHANGED <<inbox, pending, steered, typed, read, turn>>
            /\ pc' = "idle" => pc = "idle"
        BY <2>10 DEF Quiet, clientVars
      <3>2. PostType'
        BY <2>1, <3>1 DEF PostType
      <3>3. TuiInv'
        BY <2>1, <3>1 DEF TuiInv
      <3> QED
        BY <2>1, <3>1, <3>2, <3>3 DEF PostInv
    <2> QED
      BY <2>3, <2>4, <2>5, <2>6, <2>8, <2>9, <2>10, PostStep
  <1> QED
    BY <1>1, <1>2, PTL DEF Spec

-----------------------------------------------------------------------------
(***************************************************************************)
(* The turn: where it is, its counters and its batch.                      *)
(***************************************************************************)

\* The run of equal calls at the end of those made.
LEMMA TailRunIs ==
    ASSUME t \in Counters, NEW cs \in Seq(Sigs), Len(cs) > 0
    PROVE  /\ TailRun(cs)[1] \in Sigs /\ TailRun(cs)[2] \in Nat
           /\ TailRun(cs)[2] <= DoomThreshold
  <1> DEFINE n == Len(cs)
             last == cs[n]
             other == {i \in 1 .. n : cs[i] # last}
             more == IF t.runOf = last THEN t.runLen ELSE 0
             len == IF other # {} THEN n - Max(other) ELSE n + more
  <1>1. n \in Nat /\ n > 0 /\ last \in Sigs
    OBVIOUS
  <1>2. DoomThreshold \in Nat
    BY TurnLoopAssumption
  <1>3. t.runLen \in Nat
    BY DEF Counters
  <1>4. other # {} => Max(other) \in 0 .. n
    <2>1. other \subseteq 0 .. n
      BY <1>1
    <2> HIDE DEF other
    <2> QED
      BY <1>1, <2>1, MaxIs
  <1>5. more \in Nat
    BY <1>3
  <1>6. TailRun(cs) = <<last, IF len > DoomThreshold THEN DoomThreshold ELSE len>>
    BY DEF TailRun
  <1> HIDE DEF more, other, n, last
  <1>7. len \in Nat
    BY <1>1, <1>4, <1>5
  <1> HIDE DEF len
  <1> QED
    BY <1>1, <1>2, <1>6, <1>7

\* The type of the counters, field by field.
LEMMA CounterTypes ==
    ASSUME NEW c \in Counters
    PROVE  /\ c.steps \in Nat /\ c.doom \in Nat /\ c.runLen \in Nat
           /\ c.cuts \in Nat /\ c.harmony \in Nat /\ c.overflow \in Nat
           /\ c.compactFails \in Nat /\ c.switches \in Nat /\ c.drops \in Nat
           /\ c.hits \in Nat /\ c.notices \in Nat /\ c.todos \in BOOLEAN
           /\ c.reminded \in BOOLEAN
  BY DEF Counters

\* Every step keeps the counters in their limits.
LEMMA CounterStep ==
    ASSUME ControlInv, [Next]_vars
    PROVE  CounterInv'
  <1>1. /\ t \in Counters
        /\ t.runLen <= DoomThreshold /\ t.cuts <= MaxCutOffs
        /\ t.harmony <= MaxHarmony /\ t.overflow <= MaxOverflow
        /\ t.compactFails <= MaxCompactFails /\ t.notices <= MaxNotices
        /\ t.doom <= MaxDoomRefusals
        /\ pc \notin {"idle", "over"} => t.doom < MaxDoomRefusals
    BY DEF ControlInv, CounterInv
  <1>2. /\ t.steps \in Nat /\ t.doom \in Nat /\ t.runLen \in Nat
        /\ t.cuts \in Nat /\ t.harmony \in Nat /\ t.overflow \in Nat
        /\ t.compactFails \in Nat /\ t.switches \in Nat /\ t.drops \in Nat
        /\ t.hits \in Nat /\ t.notices \in Nat /\ t.todos \in BOOLEAN
        /\ t.reminded \in BOOLEAN
    BY <1>1, CounterTypes
  <1>3. /\ MaxCutOffs \in Nat /\ MaxHarmony \in Nat /\ MaxOverflow \in Nat
        /\ MaxCompactFails \in Nat /\ MaxNotices \in Nat
        /\ DoomThreshold \in Nat \ {0} /\ MaxDoomRefusals \in Nat \ {0}
    BY TurnLoopAssumption
  <1>4. ASSUME UNCHANGED t, pc \in {"idle", "over"} => pc' \in {"idle", "over"}
        PROVE  CounterInv'
    BY <1>1, <1>4 DEF CounterInv
  <1>5. CASE \/ UNCHANGED vars \/ Steer \/ Cancel \/ ForceStop \/ Settle
             \/ PromptHooks \/ NoCompact \/ RequestCancelled \/ RequestFails
             \/ OverflowCompacted
    BY <1>4, <1>5 DEF vars, Steer, Cancel, ForceStop, Settle, PromptHooks,
         NoCompact, RequestCancelled, RequestFails, OverflowCompacted, End
  <1>6. ASSUME NEW mode \in Modes, Type(mode)
        PROVE  CounterInv'
    BY <1>4, <1>6 DEF Type
  <1>7. CASE StartTurn
    <2>1. t' = FreshCounters
      BY <1>7 DEF StartTurn
    <2> QED
      BY <1>3, <2>1 DEF CounterInv, FreshCounters, Counters
  <1>8. CASE Top
    <2>1. PICK n \in Nat : /\ t.notices + n <= MaxNotices
                           /\ t' = [t EXCEPT !.notices = @ + n]
      <3>1. Len(<< >>) \in Nat /\ Len(<<Note("job")>>) \in Nat
        OBVIOUS
      <3> QED
        BY <1>8, <3>1 DEF Top
    <2>2. pc = "top"
      BY <1>8 DEF Top
    <2> QED
      BY <1>1, <1>2, <1>3, <2>1, <2>2 DEF CounterInv, Counters
  <1>9. CASE AutoCompact
    <2>1. PICK n \in {t.compactFails + 1, 0} :
             t' = [t EXCEPT !.compactFails = n]
      BY <1>9 DEF AutoCompact
    <2>2. pc = "assemble" /\ t.compactFails < MaxCompactFails
      BY <1>9 DEF AutoCompact
    <2> QED
      BY <1>1, <1>2, <1>3, <2>1, <2>2 DEF CounterInv, Counters
  <1>10. CASE RequestRetried \/ RuleHit \/ ContextOverflow
    <2>1. /\ pc = "request"
          /\ \/ \E n \in Nat : t' = [t EXCEPT !.switches = n]
             \/ \E n \in Nat : t' = [t EXCEPT !.drops = n]
             \/ \E n \in Nat : t' = [t EXCEPT !.hits = n]
             \/ \E n \in Nat : /\ t' = [t EXCEPT !.overflow = n]
                               /\ n <= MaxOverflow
      <3>1. /\ t.switches + 1 \in Nat /\ t.drops + 1 \in Nat
            /\ t.hits + 1 \in Nat /\ t.overflow + 1 \in Nat
            /\ t.overflow < MaxOverflow => t.overflow + 1 <= MaxOverflow
        BY <1>2, <1>3
      <3>2. CASE RequestRetried \/ RuleHit
        BY <3>1, <3>2 DEF RequestRetried, RuleHit
      <3>3. CASE ContextOverflow
        BY <3>1, <3>3 DEF ContextOverflow
      <3> QED
        BY <1>10, <3>2, <3>3
    <2> QED
      BY <1>1, <1>2, <1>3, <2>1 DEF CounterInv, Counters
  <1>11. \A limit \in BOOLEAN :
           CutsAfter(limit) \in Nat /\ CutsAfter(limit) <= MaxCutOffs
    BY <1>1, <1>2, <1>3 DEF CutsAfter
  <1>12. ASSUME NEW limit \in BOOLEAN, HarmonyLeak(limit)
         PROVE  CounterInv'
    <2>1. PICK cuts \in Nat, harmony \in Nat :
            /\ t' = [t EXCEPT !.drops = 0, !.cuts = cuts, !.harmony = harmony]
            /\ cuts <= MaxCutOffs /\ harmony <= MaxHarmony
      <3>1. PICK cuts \in Nat : cuts = CutsAfter(limit) /\ cuts <= MaxCutOffs
        BY <1>11
      <3>2. PICK harmony \in Nat :
              /\ harmony = IF t.harmony < MaxHarmony THEN t.harmony + 1
                                                     ELSE t.harmony
              /\ harmony <= MaxHarmony
        BY <1>1, <1>2, <1>3
      <3>3. t' = [t EXCEPT !.drops = 0, !.cuts = cuts, !.harmony = harmony]
        BY <1>12, <3>1, <3>2 DEF HarmonyLeak
      <3> QED
        BY <3>1, <3>2, <3>3
    <2>2. pc = "request"
      BY <1>12 DEF HarmonyLeak
    <2> QED
      BY <1>1, <1>2, <1>3, <2>1, <2>2 DEF CounterInv, Counters
  <1>13. ASSUME NEW text \in BOOLEAN, ReplyCutOff(text)
         PROVE  CounterInv'
    <2>1. PICK steps \in Nat, cuts \in Nat :
            /\ t' = [t EXCEPT !.cuts = cuts, !.steps = steps, !.drops = 0]
            /\ cuts <= MaxCutOffs
      <3>1. PICK steps \in Nat : steps = t.steps + 1
        BY <1>2
      <3>2. t.cuts < MaxCutOffs
        BY <1>13 DEF ReplyCutOff
      <3>3. PICK cuts \in Nat : cuts = t.cuts + 1 /\ cuts <= MaxCutOffs
        BY <1>2, <1>3, <3>2
      <3>4. t' = [t EXCEPT !.cuts = cuts, !.steps = steps, !.drops = 0]
        BY <1>13, <3>1, <3>3 DEF ReplyCutOff, Reply
      <3> QED
        BY <3>3, <3>4
    <2>2. pc = "request"
      BY <1>13 DEF ReplyCutOff, Reply
    <2> QED
      BY <1>1, <1>2, <1>3, <2>1, <2>2 DEF CounterInv, Counters
  <1>14. ASSUME NEW text \in BOOLEAN, NEW limit \in BOOLEAN,
                NEW open \in BOOLEAN, ReplyFinal(text, limit, open)
         PROVE  CounterInv'
    <2>1. PICK rem \in BOOLEAN :
            t' = [[t EXCEPT !.cuts = CutsAfter(limit), !.reminded = rem]
                    EXCEPT !.steps = @ + 1, !.drops = 0]
      BY <1>2, <1>14 DEF ReplyFinal, Reply
    <2>2. PICK steps \in Nat : steps = t.steps + 1
      BY <1>2
    <2>3. PICK cuts \in Nat : cuts = CutsAfter(limit) /\ cuts <= MaxCutOffs
      BY <1>11
    <2>4. t' = [t EXCEPT !.cuts = cuts, !.reminded = rem, !.steps = steps,
                         !.drops = 0]
      BY <2>1, <2>2, <2>3
    <2>5. pc = "request"
      BY <1>14 DEF ReplyFinal, Reply
    <2> QED
      BY <1>1, <1>2, <1>3, <2>3, <2>4, <2>5 DEF CounterInv, Counters
  <1>15. ASSUME NEW cs \in Batches, ReplyRefused(cs)
         PROVE  CounterInv'
    <2>1. cs \in Seq(Sigs) /\ Len(cs) > 0
      BY BatchesIs
    <2>2. PICK last \in Sigs, len \in Nat :
            last = TailRun(cs)[1] /\ len = TailRun(cs)[2] /\ len <= DoomThreshold
      BY <1>1, <2>1, TailRunIs
    <2>3. PICK todos \in BOOLEAN :
            t' = [[[t EXCEPT !.cuts = 0, !.doom = @ + 1, !.todos = todos]
                     EXCEPT !.runOf = last, !.runLen = len]
                     EXCEPT !.steps = @ + 1, !.drops = 0]
      BY <1>2, <1>15, <2>2 DEF ReplyRefused, Reply, Repeated, WritesTodos
    <2>4. /\ pc = "request"
          /\ t.doom + 1 >= MaxDoomRefusals => pc' = "over"
      BY <1>15 DEF ReplyRefused, Reply, End
    <2>5. PICK steps \in Nat : steps = t.steps + 1
      BY <1>2
    <2>6. PICK doom \in Nat : doom = t.doom + 1
      BY <1>2
    <2>7. t' = [t EXCEPT !.cuts = 0, !.doom = doom, !.todos = todos,
                         !.runOf = last, !.runLen = len, !.steps = steps,
                         !.drops = 0]
      BY <2>3, <2>5, <2>6
    <2>8. t' \in Counters
      BY <1>1, <2>7 DEF Counters
    <2>9. /\ t'.runLen = len /\ t'.cuts = 0 /\ t'.doom = doom
          /\ t'.harmony = t.harmony /\ t'.overflow = t.overflow
          /\ t'.compactFails = t.compactFails /\ t'.notices = t.notices
      BY <1>1, <2>7 DEF Counters
    <2>10. /\ doom <= MaxDoomRefusals
           /\ pc' \notin {"idle", "over"} => doom < MaxDoomRefusals
      BY <1>1, <1>2, <1>3, <2>4, <2>6
    <2> QED
      BY <1>1, <1>3, <2>2, <2>8, <2>9, <2>10 DEF CounterInv
  <1>16. ASSUME NEW cs \in Batches, ReplyBatch(cs)
         PROVE  CounterInv'
    <2>1. PICK todos \in BOOLEAN :
            t' = [[t EXCEPT !.cuts = 0, !.todos = todos]
                     EXCEPT !.steps = @ + 1, !.drops = 0]
      BY <1>2, <1>16 DEF ReplyBatch, Reply, WritesTodos
    <2>2. PICK steps \in Nat : steps = t.steps + 1
      BY <1>2
    <2>3. t' = [t EXCEPT !.cuts = 0, !.todos = todos, !.steps = steps,
                         !.drops = 0]
      BY <2>1, <2>2
    <2>4. pc = "request"
      BY <1>16 DEF ReplyBatch, Reply
    <2>5. t' \in Counters
      BY <1>1, <2>3 DEF Counters
    <2>6. /\ t'.runLen = t.runLen /\ t'.cuts = 0 /\ t'.doom = t.doom
          /\ t'.harmony = t.harmony /\ t'.overflow = t.overflow
          /\ t'.compactFails = t.compactFails /\ t'.notices = t.notices
      BY <1>1, <2>3 DEF Counters
    <2> QED
      BY <1>1, <1>2, <1>3, <2>4, <2>5, <2>6 DEF CounterInv
  <1>17. ASSUME NEW bodies, pc = "batch", BatchSettled(bodies)
         PROVE  CounterInv'
    <2>1. calls \in Seq(Sigs) /\ Len(calls) > 0
      BY <1>17 DEF ControlInv, ControlType, BatchInv
    <2>2. PICK last \in Sigs, len \in Nat :
            /\ last = TailRun(calls)[1] /\ len = TailRun(calls)[2]
            /\ len <= DoomThreshold
      BY <1>1, <2>1, TailRunIs
    <2>3. t' = [t EXCEPT !.runOf = last, !.runLen = len]
      BY <1>17, <2>2 DEF BatchSettled, Repeated
    <2> QED
      BY <1>1, <1>2, <1>3, <1>17, <2>2, <2>3 DEF CounterInv, Counters
  <1>18. CASE SkipForUrgent \/ ParallelJoined
    BY <1>17, <1>18 DEF SkipForUrgent, ParallelJoined
  <1>19. CASE StartCall \/ BatchCancelled
    BY <1>4, <1>19 DEF StartCall, BatchCancelled, CloseUnanswered, End
  <1>20. ASSUME NEW body \in Bodies, FinishCall(body)
         PROVE  CounterInv'
    <2>1. CASE Len(done) + 1 = Len(calls)
      BY <1>17, <1>20, <2>1 DEF FinishCall
    <2>2. CASE Len(done) + 1 # Len(calls)
      BY <1>4, <1>20, <2>2 DEF FinishCall
    <2> QED
      BY <2>1, <2>2
  <1>21. ASSUME NEW body \in Bodies, NEW i \in 1 .. MaxCalls,
                ParallelCallEnds(i, body)
         PROVE  CounterInv'
    BY <1>4, <1>21 DEF ParallelCallEnds
  <1> QED
    BY <1>5, <1>6, <1>7, <1>8, <1>9, <1>10, <1>12, <1>13, <1>14, <1>15,
       <1>16, <1>18, <1>19, <1>20, <1>21 DEF Next, Step

\* Every step keeps the turn's state typed and the batch in shape.
LEMMA ControlStep ==
    ASSUME ControlInv, [Next]_vars
    PROVE  ControlType' /\ BatchInv'
  <1>1. /\ pc \in Pcs /\ outcome \in Outcomes
        /\ cancel \in BOOLEAN /\ started \in BOOLEAN
        /\ calls \in Seq(Sigs) /\ done \in Seq(Bodies)
        /\ finished \in Seq(Bodies \cup {"none"})
    BY DEF ControlInv, ControlType
  <1>2. pc # "batch" =>
          calls = << >> /\ done = << >> /\ started = FALSE /\ finished = << >>
    BY <1>1 DEF ControlInv, BatchInv
  <1>3. pc = "batch" =>
          /\ Len(calls) > 0 /\ Len(done) < Len(calls)
          /\ Len(finished) = Len(calls)
          /\ Parallel => ~started /\ done = << >>
          /\ t.steps > 0
    BY DEF ControlInv, BatchInv
  <1>4. ASSUME pc # "batch", pc' # "batch", pc' \in Pcs,
               outcome' \in Outcomes, cancel' \in BOOLEAN,
               UNCHANGED batchVars
        PROVE  ControlType' /\ BatchInv'
    BY <1>1, <1>2, <1>4 DEF ControlType, BatchInv, batchVars
  <1>5. ASSUME pc' # "batch", pc' \in Pcs, outcome' \in Outcomes,
               cancel' = cancel, NoBatch
        PROVE  ControlType' /\ BatchInv'
    <2>1. /\ << >> \in Seq(Sigs) /\ << >> \in Seq(Bodies)
          /\ << >> \in Seq(Bodies \cup {"none"}) /\ FALSE \in BOOLEAN
      OBVIOUS
    <2>2. /\ calls' = << >> /\ done' = << >> /\ started' = FALSE
          /\ finished' = << >>
      BY <1>5 DEF NoBatch
    <2>3. ControlType'
      BY <1>1, <1>5, <2>1, <2>2, Zenon DEF ControlType
    <2> QED
      BY <1>5, <2>2, <2>3 DEF BatchInv
  <1>6. ASSUME pc' = pc, outcome' = outcome, cancel' \in BOOLEAN, t' = t,
               UNCHANGED batchVars
        PROVE  ControlType' /\ BatchInv'
    <2>1. UNCHANGED <<calls, done, started, finished>>
      BY <1>6 DEF batchVars
    <2>2. ControlType'
      BY <1>1, <1>6, <2>1 DEF ControlType
    <2>3. BatchInv'
      BY <1>6, <2>1 DEF ControlInv, BatchInv, Parallel
    <2> QED
      BY <2>2, <2>3
  <1>7. CASE UNCHANGED vars \/ Steer \/ Cancel
    BY <1>1, <1>6, <1>7 DEF vars, Steer, Cancel
  <1>8. ASSUME NEW mode \in Modes, Type(mode)
        PROVE  ControlType' /\ BatchInv'
    BY <1>1, <1>6, <1>8 DEF Type
  <1>9. CASE \/ StartTurn \/ Settle \/ PromptHooks \/ Top \/ AutoCompact
             \/ NoCompact \/ RequestCancelled \/ RequestFails
             \/ RequestRetried \/ RuleHit \/ ContextOverflow
             \/ OverflowCompacted
    BY <1>1, <1>4, <1>9 DEF StartTurn, Settle, PromptHooks, Top, AutoCompact,
         NoCompact, RequestCancelled, RequestFails, RequestRetried, RuleHit,
         ContextOverflow, OverflowCompacted, End, Pcs, Outcomes
  <1>10. CASE ForceStop
    BY <1>5, <1>10 DEF ForceStop, NoBatch, Pcs, Outcomes
  <1>11. ASSUME NEW limit \in BOOLEAN, HarmonyLeak(limit)
         PROVE  ControlType' /\ BatchInv'
    BY <1>1, <1>4, <1>11 DEF HarmonyLeak, End, Pcs, Outcomes
  <1>12. ASSUME NEW text \in BOOLEAN, ReplyCutOff(text)
         PROVE  ControlType' /\ BatchInv'
    BY <1>1, <1>4, <1>12 DEF ReplyCutOff, Reply, Pcs, Outcomes
  <1>13. ASSUME NEW text \in BOOLEAN, NEW limit \in BOOLEAN,
                NEW open \in BOOLEAN, ReplyFinal(text, limit, open)
         PROVE  ControlType' /\ BatchInv'
    BY <1>1, <1>4, <1>13 DEF ReplyFinal, Reply, End, Pcs, Outcomes
  <1>14. ASSUME NEW cs \in Batches, ReplyRefused(cs)
         PROVE  ControlType' /\ BatchInv'
    BY <1>1, <1>4, <1>14 DEF ReplyRefused, Reply, End, Pcs, Outcomes
  <1>15. ASSUME NEW cs \in Batches, ReplyBatch(cs)
         PROVE  ControlType' /\ BatchInv'
    <2>1. cs \in Seq(Sigs) /\ Len(cs) > 0 /\ Len(cs) \in Nat
      BY BatchesIs
    <2>2. /\ pc' = "batch" /\ calls' = cs /\ done' = << >>
          /\ started' = FALSE /\ cancel' = cancel /\ outcome' = outcome
          /\ finished' = [i \in 1 .. Len(cs) |-> "none"]
      BY <1>15 DEF ReplyBatch, Reply
    <2>3. t'.steps > 0
      <3>1. t \in Counters /\ t.steps \in Nat
        BY CounterTypes DEF ControlInv, CounterInv
      <3>2. PICK c \in Counters : /\ c.steps = t.steps
                                  /\ t' = [c EXCEPT !.steps = @ + 1, !.drops = 0]
        <4>1. [t EXCEPT !.cuts = 0, !.todos = @ \/ WritesTodos(cs)] \in Counters
          BY <3>1 DEF Counters, WritesTodos
        <4>2. [t EXCEPT !.cuts = 0, !.todos = @ \/ WritesTodos(cs)].steps
                = t.steps
          BY <3>1 DEF Counters
        <4> QED
          BY <1>15, <4>1, <4>2 DEF ReplyBatch, Reply
      <3> QED
        BY <3>1, <3>2 DEF Counters
    <2>4. /\ finished' \in [1 .. Len(cs) -> Bodies \cup {"none"}]
          /\ finished' \in Seq(Bodies \cup {"none"})
          /\ Len(finished') = Len(cs)
      BY <2>1, <2>2
    <2>5. ControlType'
      <3>1. << >> \in Seq(Bodies) /\ FALSE \in BOOLEAN /\ "batch" \in Pcs
        BY DEF Pcs
      <3> QED
        BY <1>1, <2>1, <2>2, <2>4, <3>1, Zenon DEF ControlType
    <2>6. BatchInv'
      BY <2>1, <2>2, <2>3, <2>4 DEF BatchInv
    <2> QED
      BY <2>5, <2>6
  <1>16. CASE SkipForUrgent \/ ParallelJoined
    BY <1>1, <1>5, <1>16
       DEF SkipForUrgent, ParallelJoined, BatchSettled, Pcs
  <1>17. CASE BatchCancelled
    BY <1>5, <1>17 DEF BatchCancelled, CloseUnanswered, End, Pcs, Outcomes
  <1>18. CASE StartCall
    <2>1. /\ pc = "batch" /\ ~Parallel /\ started' = TRUE
          /\ UNCHANGED <<pc, outcome, cancel, t, calls, done, finished>>
      BY <1>18 DEF StartCall
    <2>2. ControlType'
      BY <1>1, <2>1 DEF ControlType
    <2>3. BatchInv'
      BY <1>3, <2>1 DEF BatchInv, Parallel
    <2> QED
      BY <2>2, <2>3
  <1>19. ASSUME NEW body \in Bodies, FinishCall(body)
         PROVE  ControlType' /\ BatchInv'
    <2>1. CASE Len(done) + 1 = Len(calls)
      BY <1>1, <1>5, <1>19, <2>1 DEF FinishCall, BatchSettled, Pcs
    <2>2. CASE Len(done) + 1 # Len(calls)
      <3>1. /\ pc = "batch" /\ started /\ started' = FALSE
            /\ done' = Append(done, body)
            /\ UNCHANGED <<pc, outcome, cancel, t, calls, finished>>
        BY <1>19, <2>2 DEF FinishCall
      <3>2. Append(done, body) \in Seq(Bodies)
            /\ Len(Append(done, body)) = Len(done) + 1
        BY <1>1
      <3>3. Len(done) \in Nat /\ Len(calls) \in Nat
        BY <1>1
      <3>4. ControlType'
        BY <1>1, <3>1, <3>2 DEF ControlType
      <3>5. BatchInv'
        BY <1>3, <2>2, <3>1, <3>2, <3>3 DEF BatchInv, Parallel
      <3> QED
        BY <3>4, <3>5
    <2> QED
      BY <2>1, <2>2
  <1>20. ASSUME NEW body \in Bodies, NEW i \in 1 .. MaxCalls,
                ParallelCallEnds(i, body)
         PROVE  ControlType' /\ BatchInv'
    <2>1. /\ pc = "batch" /\ i \in 1 .. Len(calls)
          /\ finished' = [finished EXCEPT ![i] = body]
          /\ UNCHANGED <<pc, outcome, cancel, t, calls, done, started>>
      BY <1>20 DEF ParallelCallEnds
    <2>2. /\ finished' \in Seq(Bodies \cup {"none"})
          /\ Len(finished') = Len(finished)
      BY <1>1, <1>3, <2>1
    <2>3. ControlType'
      BY <1>1, <2>1, <2>2 DEF ControlType
    <2>4. BatchInv'
      BY <1>3, <2>1, <2>2 DEF BatchInv, Parallel
    <2> QED
      BY <2>3, <2>4
  <1> QED
    BY <1>7, <1>8, <1>9, <1>10, <1>11, <1>12, <1>13, <1>14, <1>15, <1>16,
       <1>17, <1>18, <1>19, <1>20 DEF Next, Step

\* Only an overflow leads to the compaction for one.
LEMMA OverflowStep ==
    ASSUME ControlInv, [Next]_vars
    PROVE  OverflowInv'
  <1>1. t \in Counters /\ t.overflow \in Nat
    BY CounterTypes DEF ControlInv, CounterInv
  <1>2. CASE ContextOverflow
    <2>1. PICK n \in Nat : n > 0 /\ t' = [t EXCEPT !.overflow = n]
      BY <1>1, <1>2 DEF ContextOverflow
    <2> QED
      BY <1>1, <2>1 DEF OverflowInv, Counters
  <1>3. ASSUME pc' = pc, t' = t
        PROVE  OverflowInv'
    BY <1>3 DEF ControlInv, OverflowInv
  <1>4. CASE UNCHANGED vars \/ Steer \/ Cancel \/ StartCall
    BY <1>3, <1>4 DEF vars, Steer, Cancel, StartCall
  <1>5. ASSUME NEW mode \in Modes, Type(mode)
        PROVE  OverflowInv'
    BY <1>3, <1>5 DEF Type
  <1>6. ASSUME pc' # "overflow"
        PROVE  OverflowInv'
    BY <1>6 DEF OverflowInv
  <1>7. CASE \/ StartTurn \/ ForceStop \/ Settle \/ PromptHooks \/ Top
             \/ AutoCompact \/ NoCompact \/ RequestCancelled \/ RequestFails
             \/ RequestRetried \/ RuleHit \/ OverflowCompacted
    BY <1>6, <1>7 DEF StartTurn, ForceStop, Settle, PromptHooks, Top,
         AutoCompact, NoCompact, RequestCancelled, RequestFails,
         RequestRetried, RuleHit, OverflowCompacted, End
  <1>8. ASSUME NEW limit \in BOOLEAN, HarmonyLeak(limit)
        PROVE  OverflowInv'
    BY <1>6, <1>8 DEF HarmonyLeak, End
  <1>9. ASSUME NEW text \in BOOLEAN, ReplyCutOff(text)
        PROVE  OverflowInv'
    BY <1>6, <1>9 DEF ReplyCutOff
  <1>10. ASSUME NEW text \in BOOLEAN, NEW limit \in BOOLEAN,
                NEW open \in BOOLEAN, ReplyFinal(text, limit, open)
         PROVE  OverflowInv'
    BY <1>6, <1>10 DEF ReplyFinal, End
  <1>11. ASSUME NEW cs \in Batches, ReplyRefused(cs) \/ ReplyBatch(cs)
         PROVE  OverflowInv'
    BY <1>6, <1>11 DEF ReplyRefused, ReplyBatch, End
  <1>12. CASE SkipForUrgent \/ BatchCancelled \/ ParallelJoined
    BY <1>6, <1>12 DEF SkipForUrgent, BatchCancelled, ParallelJoined,
         BatchSettled, CloseUnanswered, End
  <1>13. ASSUME NEW body \in Bodies,
                FinishCall(body)
                  \/ \E i \in 1 .. MaxCalls : ParallelCallEnds(i, body)
         PROVE  OverflowInv'
    BY <1>6, <1>13 DEF FinishCall, ParallelCallEnds, BatchSettled
  <1> QED
    BY <1>2, <1>4, <1>5, <1>7, <1>8, <1>9, <1>10, <1>11, <1>12, <1>13
       DEF Next, Step

\* The turn's part of the inductive invariant.
LEMMA ControlInvariant == Spec => []ControlInv
  <1>1. Init => ControlInv
    <2> SUFFICES ASSUME Init PROVE ControlInv
      OBVIOUS
    <2>1. ControlType
      <3>1. /\ << >> \in Seq(Sigs) /\ << >> \in Seq(Bodies)
            /\ << >> \in Seq(Bodies \cup {"none"}) /\ FALSE \in BOOLEAN
            /\ "idle" \in Pcs /\ "none" \in Outcomes
        BY DEF Pcs, Outcomes
      <3> QED
        BY <3>1, Zenon DEF Init, ControlType
    <2>2. CounterInv
      BY TurnLoopAssumption DEF Init, CounterInv, FreshCounters, Counters
    <2>3. BatchInv
      BY DEF Init, BatchInv
    <2>4. OverflowInv
      BY DEF Init, OverflowInv
    <2> QED
      BY <2>1, <2>2, <2>3, <2>4 DEF ControlInv
  <1>2. ControlInv /\ [Next]_vars => ControlInv'
    BY CounterStep, ControlStep, OverflowStep DEF ControlInv
  <1> QED
    BY <1>1, <1>2, PTL DEF Spec

-----------------------------------------------------------------------------
(***************************************************************************)
(* What a step does to the session.                                        *)
(***************************************************************************)

\* Messages without a call and without a result.
Plain(p) ==
    \A i \in 1 .. Len(p) :
        /\ p[i].role # "tool"
        /\ p[i].role = "assistant" => p[i].ids = << >>

\* Messages that the user did not write.
Ours(p) == \A i \in 1 .. Len(p) : ~RealUserTurn(p[i])

UrgentPost == \E i \in 1 .. Len(inbox) : inbox[i][1] = "Urgent"

\* Nothing.
Stays ==
    /\ UNCHANGED <<messages, mark, turn, ran>>
    /\ backup' = backup \/ backup' = NoBackup
    /\ t'.steps = t.steps
    /\ pc = "batch" <=> pc' = "batch"
    /\ pc = "batch" => UNCHANGED <<calls, done>>
    /\ pc = "top" => pc' = "top" /\ (UrgentPost => UrgentPost')

\* Plain messages are added, the user's only at the top of the loop, where an
\* urgent one is among them, if one waits.
Adds(add) ==
    /\ pc # "batch" /\ pc' # "batch"
    /\ messages' = messages \o add
    /\ Ours(add) \/ Top
    /\ UNCHANGED <<saved, turn, ran>>
    /\ t'.steps = t.steps \/ t'.steps = t.steps + 1
    /\ pc = "top" =>
         /\ pc' # "top"
         /\ \A i \in 1 .. Len(add) : add[i].role = "user"
         /\ UrgentPost => \E i \in 1 .. Len(add) : RealUserTurn(add[i])

\* A turn is started with the prompt `m`.
Starts(m) ==
    /\ pc = "idle" /\ pc' = "hooks"
    /\ messages' = Append(messages, Prompt(m))
    /\ \/ backup' = [messages |-> messages', mark |-> mark]
       \/ backup' = NoBackup
    /\ UNCHANGED <<mark, ran>>
    /\ turn' = turn + 1 /\ t'.steps = 0

\* A compaction.
Compacts ==
    /\ pc \in {"assemble", "overflow"} /\ pc' \in {"request", "top"}
    /\ MaxCompactFails > 0 \/ MaxOverflow > 0
    /\ \/ messages' = FullReplace(messages)
       \/ NativeCut(messages) /\ messages' = NativeReplace(messages)
    /\ UNCHANGED <<saved, turn, ran>>
    /\ t'.steps = t.steps

\* Calls that are refused.
Refuses(cs) ==
    /\ pc = "request" /\ pc' \in {"over", "top"}
    /\ messages' = Append(messages, Assistant(IdsOf(t.steps + 1, cs)))
                      \o ResultsOf(t.steps + 1, [i \in 1 .. Len(cs) |-> "doom"])
    /\ UNCHANGED <<saved, turn, ran>>
    /\ t'.steps = t.steps + 1

\* Calls that are to be run.
Opens(cs) ==
    /\ pc = "request" /\ pc' = "batch"
    /\ messages' = Append(messages, Assistant(IdsOf(t.steps + 1, cs)))
    /\ calls' = cs /\ done' = << >>
    /\ UNCHANGED <<saved, turn, ran>>
    /\ t'.steps = t.steps + 1

\* A batch goes on: a call is started or ended.
NewRun(how, i) == <<CallId(t.steps, i), how, calls[i]>>

Runs ==
    /\ pc = "batch" /\ pc' = "batch"
    /\ UNCHANGED <<messages, saved, turn, t, calls>>
    /\ \/ UNCHANGED <<done, ran>>
       \/ /\ ran' = ran \cup {NewRun("serial", Len(done) + 1)}
          /\ \E body \in Bodies : done' = Append(done, body)
       \/ /\ UNCHANGED done
          /\ \E i \in 1 .. Len(calls) : ran' = ran \cup {NewRun("parallel", i)}

\* A batch is settled with the results `valid`: they join the session, or a
\* rewind makes the session short, and a hint may follow.  Results that are not
\* those of a run are for calls that were not run.
Settles(valid, hint) ==
    /\ pc = "batch" /\ pc' = "top"
    /\ Len(valid) = Len(calls)
    /\ \A i \in 1 .. Len(hint) : hint[i].role = "user"
    /\ Ours(hint)
    /\ LET told == messages \o ResultsOf(t.steps, valid)
       IN  \/ /\ messages' = told \o hint
              /\ mark' = mark \/ (CheckSigs # {} /\ mark' = Len(told))
           \/ /\ RewindSigs # {} /\ mark # 0 /\ mark' = 0
              /\ messages' = Append(SubSeq(told, 1, IF mark < Len(told)
                                                     THEN mark ELSE Len(told)),
                                    Prompt(0)) \o hint
    /\ UNCHANGED <<backup, turn>>
    /\ t'.steps = t.steps
    /\ \/ ran' = ran
       \/ ran' = ran \cup {NewRun("serial", Len(done) + 1)}
    /\ \A i \in 1 .. Len(valid) :
         valid[i] \notin Bodies =>
            ran' = ran /\ i > Len(done) /\ UrgentPost /\ UrgentPost'

\* A batch is closed by Esc.
Closes(valid) ==
    /\ pc = "batch" /\ pc' = "over"
    /\ Len(valid) = Len(calls)
    /\ messages' = messages \o ResultsOf(t.steps, valid)
    /\ UNCHANGED <<saved, turn, t, ran>>
    /\ \A i \in 1 .. Len(valid) :
         /\ valid[i] \notin Bodies => i > Len(done)
         /\ valid[i] # "skipped"

\* A turn is stopped by force.
Reverts ==
    /\ Forced /\ pc # "idle" /\ pc' = "idle"
    /\ \/ messages' = backup.messages /\ mark' = backup.mark
       \/ pc = "over" /\ UNCHANGED <<messages, mark>>
    /\ backup' = NoBackup
    /\ UNCHANGED <<turn, t, ran>>

SessionKinds ==
    \/ Stays
    \/ \E add \in Seq(Msg) : Plain(add) /\ Adds(add)
    \/ \E m \in Nat : Starts(m)
    \/ Compacts
    \/ \E cs \in Batches : Refuses(cs) \/ Opens(cs)
    \/ Runs
    \/ \E valid \in Seq(Whats), hint \in Seq(Msg) :
         Plain(hint) /\ Settles(valid, hint)
    \/ \E valid \in Seq(Whats) : Closes(valid)
    \/ Reverts

\* Results of a batch once checkpoints and rewinds are looked at.
LEMMA ValidatedIs ==
    ASSUME NEW bodies \in Seq(Whats)
    PROVE  /\ Validated(bodies) \in Seq(Whats)
           /\ Len(Validated(bodies)) = Len(bodies)
           /\ \A i \in 1 .. Len(bodies) :
                Validated(bodies)[i] = bodies[i] \/ Validated(bodies)[i] = "error"
  <1>1. \A i \in 1 .. Len(bodies) : bodies[i] \in Whats
    OBVIOUS
  <1>2. "error" \in Whats
    BY DEF Whats, Bodies
  <1> DEFINE v(i) == IF calls[i] \in (IF mark = 0 THEN RewindSigs ELSE CheckSigs)
                     THEN "error" ELSE bodies[i]
  <1>3. Validated(bodies) = [i \in 1 .. Len(bodies) |-> v(i)]
    BY DEF Validated
  <1>4. \A i \in 1 .. Len(bodies) :
          v(i) \in Whats /\ (v(i) = bodies[i] \/ v(i) = "error")
    BY <1>1, <1>2
  <1> HIDE DEF v
  <1>5. Validated(bodies) \in [1 .. Len(bodies) -> Whats]
    BY <1>3, <1>4
  <1>6. Len(bodies) \in Nat
    OBVIOUS
  <1> QED
    BY <1>3, <1>4, <1>5, <1>6

\* A batch that is settled.
LEMMA SettledIs ==
    ASSUME NEW bodies \in Seq(Whats), Len(bodies) = Len(calls),
           t \in Counters, calls \in Seq(Sigs), Len(calls) > 0,
           pc = "batch", BatchSettled(bodies), UNCHANGED <<backup, turn>>,
           \/ ran' = ran
           \/ ran' = ran \cup {NewRun("serial", Len(done) + 1)},
           \A i \in 1 .. Len(bodies) :
             bodies[i] \notin Bodies =>
                ran' = ran /\ i > Len(done) /\ UrgentPost /\ UrgentPost'
    PROVE  \E valid \in Seq(Whats), hint \in Seq(Msg) :
              Plain(hint) /\ Settles(valid, hint)
  <1> DEFINE valid == Validated(bodies)
             told == messages \o ResultsOf(t.steps, valid)
             hint == IF "error" \in ToSet(valid)
                     THEN <<Note("recovery")>> ELSE << >>
  <1>1. /\ valid \in Seq(Whats) /\ Len(valid) = Len(calls)
        /\ \A i \in 1 .. Len(bodies) : valid[i] = bodies[i] \/ valid[i] = "error"
    BY ValidatedIs
  <1>2. /\ hint \in Seq(Msg) /\ Plain(hint) /\ Ours(hint)
        /\ \A i \in 1 .. Len(hint) : hint[i].role = "user"
    <2>1. << >> \in Seq(Msg) /\ Plain(<< >>) /\ Ours(<< >>)
      BY DEF Plain, Ours
    <2>2. /\ Note("recovery") \in Msg /\ Note("recovery").role = "user"
          /\ ~RealUserTurn(Note("recovery"))
      BY MakeMsg, MsgFields
    <2>3. /\ <<Note("recovery")>> \in Seq(Msg) /\ Plain(<<Note("recovery")>>)
          /\ Ours(<<Note("recovery")>>)
      BY <2>2 DEF Plain, Ours
    <2>4. CASE "error" \in ToSet(valid)
      BY <2>2, <2>3, <2>4
    <2>5. CASE "error" \notin ToSet(valid)
      BY <2>1, <2>5
    <2> QED
      BY <2>4, <2>5
  <1>3. /\ messages' = Rewound(told, valid) \o hint
        /\ mark' = Marked(told, valid)
        /\ t' = Repeated(calls, t) /\ pc' = "top"
    BY DEF BatchSettled
  <1>4. t'.steps = t.steps
    <2>1. TailRun(calls)[1] \in Sigs /\ TailRun(calls)[2] \in Nat
      BY TailRunIs
    <2> QED
      BY <1>3, <2>1 DEF Repeated, Counters
  <1>5. /\ Succeeded(valid, CheckSigs) => CheckSigs # {}
        /\ Succeeded(valid, RewindSigs) => RewindSigs # {}
    BY DEF Succeeded
  <1> HIDE DEF valid, hint
  <1>6. \/ /\ messages' = told \o hint
           /\ mark' = mark \/ (CheckSigs # {} /\ mark' = Len(told))
        \/ /\ RewindSigs # {} /\ mark # 0 /\ mark' = 0
           /\ messages' = Append(SubSeq(told, 1, IF mark < Len(told)
                                                  THEN mark ELSE Len(told)),
                                 Prompt(0)) \o hint
    <2> HIDE DEF told
    <2>1. CASE mark # 0 /\ Succeeded(valid, RewindSigs)
      BY <1>3, <1>5, <2>1 DEF Rewound, Marked
    <2>2. CASE ~(mark # 0 /\ Succeeded(valid, RewindSigs))
      <3>1. Rewound(told, valid) = told
        BY <2>2 DEF Rewound
      <3>2. mark' = mark \/ (CheckSigs # {} /\ mark' = Len(told))
        BY <1>3, <1>5, <2>2 DEF Marked
      <3> QED
        BY <1>3, <3>1, <3>2
    <2> QED
      BY <2>1, <2>2
  <1>7. \A i \in 1 .. Len(valid) :
          valid[i] \notin Bodies =>
             ran' = ran /\ i > Len(done) /\ UrgentPost /\ UrgentPost'
    <2>1. "error" \in Bodies
      BY DEF Bodies
    <2> QED
      BY <1>1, <2>1
  <1>8. Settles(valid, hint)
    BY <1>1, <1>2, <1>3, <1>4, <1>6, <1>7 DEF Settles
  <1> QED
    BY <1>1, <1>2, <1>8

\* The prompts that a turn takes, as messages.
LEMMA TakenIs ==
    ASSUME inbox \in Seq(Posts)
    PROVE  LET p == [i \in 1 .. Len(TakenNow) |-> Prompt(TakenNow[i][2])]
           IN  /\ p \in Seq(Msg) /\ TakenNow \in Seq(Posts)
               /\ Len(p) = Len(TakenNow) /\ Len(TakenNow) \in Nat
               /\ \A i \in 1 .. Len(p) :
                    /\ p[i] = Prompt(TakenNow[i][2])
                    /\ p[i].role = "user" /\ RealUserTurn(p[i])
               /\ UrgentPost => Len(p) > 0
  <1> DEFINE p == [i \in 1 .. Len(TakenNow) |-> Prompt(TakenNow[i][2])]
  <1>1. /\ TakenNow \in Seq(Posts)
        /\ \A i \in 1 .. Len(inbox) : inbox[i][1] # "Queue" =>
             \E k \in 1 .. Len(TakenNow) : TakenNow[k] = inbox[i]
    BY PickPosts DEF TakenNow
  <1>2. Len(TakenNow) \in Nat /\ MaxMsgs \in Nat
    BY <1>1, TurnLoopAssumption
  <1>3. \A i \in 1 .. Len(TakenNow) : TakenNow[i][2] \in Nat
    <2>1. \A i \in 1 .. Len(TakenNow) : TakenNow[i] \in Posts
      BY <1>1
    <2> QED
      BY <1>2, <2>1 DEF Posts
  <1>4. p \in [1 .. Len(TakenNow) -> Msg]
    BY <1>3, MakeMsg
  <1>5. p \in Seq(Msg) /\ Len(p) = Len(TakenNow)
    BY <1>2, <1>4
  <1>6. \A i \in 1 .. Len(TakenNow) :
          /\ p[i] = Prompt(TakenNow[i][2])
          /\ p[i].role = "user" /\ RealUserTurn(p[i])
    BY MsgFields
  <1>7. UrgentPost => Len(TakenNow) > 0
    BY <1>1, <1>2 DEF UrgentPost
  <1> QED
    BY <1>1, <1>2, <1>5, <1>6, <1>7

\* Every step of the specification is of one of the kinds.
LEMMA SessionStep ==
    ASSUME PostInv, ControlInv, messages \in Seq(Msg), [Next]_vars
    PROVE  SessionKinds
  <1>1. /\ inbox \in Seq(Posts) /\ pending \in Seq(Posts)
        /\ t \in Counters /\ t.steps \in Nat /\ pc \in Pcs
        /\ calls \in Seq(Sigs) /\ done \in Seq(Bodies)
        /\ finished \in Seq(Bodies \cup {"none"})
        /\ MaxMsgs \in Nat
    BY CounterTypes, TurnLoopAssumption
       DEF PostInv, PostType, ControlInv, ControlType, CounterInv
  <1>2. pc = "batch" => /\ Len(calls) > 0 /\ Len(done) < Len(calls)
                        /\ Len(finished) = Len(calls)
                        /\ Parallel => ~started /\ done = << >>
    BY DEF ControlInv, BatchInv
  <1>3. Len(calls) \in Nat /\ Len(done) \in Nat /\ Len(inbox) \in Nat
    BY <1>1
  <1>4. CASE UNCHANGED vars \/ Cancel
    <2>1. UNCHANGED <<messages, inbox, pc, turn, mark, backup, t, calls, done,
                      ran>>
      BY <1>4 DEF vars, Cancel, clientVars, saved, batchVars
    <2>2. Stays
      BY <2>1 DEF Stays, UrgentPost
    <2> QED
      BY <2>2 DEF SessionKinds
  <1>5. ASSUME UNCHANGED <<messages, pc, turn, mark, backup, t, calls, done,
                           ran>>,
               NEW more \in Seq(Posts), inbox' = inbox \o more
        PROVE  SessionKinds
    <2>1. UrgentPost => UrgentPost'
      <3> SUFFICES ASSUME NEW i \in 1 .. Len(inbox), inbox[i][1] = "Urgent"
                   PROVE  UrgentPost'
        BY DEF UrgentPost
      <3>1. i \in 1 .. Len(inbox') /\ inbox'[i] = inbox[i]
        BY <1>1, <1>5
      <3> QED
        BY <3>1 DEF UrgentPost
    <2>2. Stays
      BY <1>5, <2>1 DEF Stays
    <2> QED
      BY <2>2 DEF SessionKinds
  <1>6. ASSUME NEW mode \in Modes, Type(mode)
        PROVE  SessionKinds
    <2> DEFINE post == <<mode, typed + 1>>
    <2>1. post \in Posts
      BY SMTT(30), <1>1, <1>6 DEF Type, Posts, PostInv, PostType
    <2> HIDE DEF post
    <2>2. inbox' = inbox \/ inbox' = Append(inbox, post)
      BY <1>6 DEF Type, post
    <2>3. /\ inbox = inbox \o << >> /\ << >> \in Seq(Posts)
          /\ Append(inbox, post) = inbox \o <<post>> /\ <<post>> \in Seq(Posts)
      <3>1. <<post>> \in Seq(Posts)
        BY <2>1
      <3>2. inbox = inbox \o << >> /\ << >> \in Seq(Posts)
        BY <1>1, ConcatEmptySeq, EmptySeq
      <3>3. Append(inbox, post) = inbox \o <<post>>
        BY <1>1, <2>1, AppendIsConcat
      <3> QED
        BY <3>1, <3>2, <3>3
    <2>4. \E more \in Seq(Posts) : inbox' = inbox \o more
      BY <2>2, <2>3
    <2>5. UNCHANGED <<messages, pc, turn, mark, backup, t, calls, done, ran>>
      BY <1>6 DEF Type, saved, batchVars
    <2> QED
      BY <1>5, <2>4, <2>5
  <1>7. CASE Steer
    <2>1. Pick(pending, Steerable(pending)) \in Seq(Posts)
      BY <1>1, PickPosts
    <2>2. /\ inbox' = inbox \o Pick(pending, Steerable(pending))
          /\ UNCHANGED <<messages, pc, turn, mark, backup, t, calls, done, ran>>
      BY <1>7 DEF Steer, saved, batchVars
    <2> QED
      BY <1>5, <2>1, <2>2
  <1>8. ASSUME pc \notin {"batch", "top"}, pc' # "batch",
               UNCHANGED <<messages, mark, turn, ran>>,
               backup' = backup \/ backup' = NoBackup, t'.steps = t.steps
        PROVE  SessionKinds
    BY <1>8 DEF SessionKinds, Stays
  <1>9. CASE Settle \/ PromptHooks \/ NoCompact \/ RequestFails
    BY <1>8, <1>9 DEF Settle, PromptHooks, NoCompact, RequestFails, End, saved
  <1>10. CASE RequestRetried \/ ContextOverflow
    <2>1. t'.steps = t.steps
      BY <1>1, <1>10 DEF RequestRetried, ContextOverflow, Counters
    <2> QED
      BY <1>8, <1>10, <2>1 DEF RequestRetried, ContextOverflow, saved
  <1>11. ASSUME NEW limit \in BOOLEAN, HarmonyLeak(limit)
         PROVE  SessionKinds
    <2>1. t'.steps = t.steps
      BY <1>1, <1>11 DEF HarmonyLeak, Counters
    <2> QED
      BY <1>8, <1>11, <2>1 DEF HarmonyLeak, End, saved
  <1>12. ASSUME NEW add \in Seq(Msg), Plain(add), Ours(add),
                pc \notin {"batch", "top"}, pc' # "batch",
                messages' = messages \o add, UNCHANGED <<saved, turn, ran>>,
                t'.steps = t.steps \/ t'.steps = t.steps + 1
         PROVE  SessionKinds
    BY <1>12 DEF SessionKinds, Adds
  <1>13. /\ << >> \in Seq(Msg) /\ Plain(<< >>) /\ Ours(<< >>)
         /\ \A m \in Msg : /\ <<m>> \in Seq(Msg)
                           /\ m.role = "user" => Plain(<<m>>)
                           /\ ~RealUserTurn(m) => Ours(<<m>>)
         /\ <<Assistant(<< >>)>> \in Seq(Msg) /\ Plain(<<Assistant(<< >>)>>)
         /\ Ours(<<Assistant(<< >>)>>)
    <2>1. Assistant(<< >>) \in Msg
      <3>1. << >> \in Seq(CallIds)
        OBVIOUS
      <3> QED
        BY <3>1, MakeMsg
    <2>2. /\ Assistant(<< >>).role = "assistant"
          /\ Assistant(<< >>).ids = << >>
          /\ ~RealUserTurn(Assistant(<< >>))
      BY MsgFields
    <2> QED
      BY <2>1, <2>2 DEF Plain, Ours
  <1>14. \A text \in BOOLEAN :
           Said(text) \in Seq(Msg) /\ Plain(Said(text)) /\ Ours(Said(text))
    BY <1>13 DEF Said
  <1>15. ASSUME NEW a \in Seq(Msg), NEW b \in Seq(Msg), Plain(a), Plain(b)
         PROVE  /\ a \o b \in Seq(Msg) /\ Plain(a \o b)
                /\ Ours(a) /\ Ours(b) => Ours(a \o b)
    <2>1. /\ a \o b \in Seq(Msg) /\ Len(a \o b) = Len(a) + Len(b)
          /\ \A i \in 1 .. Len(a) + Len(b) :
               (a \o b)[i] = IF i <= Len(a) THEN a[i] ELSE b[i - Len(a)]
      OBVIOUS
    <2>2. \A i \in 1 .. Len(a) + Len(b) :
            i <= Len(a) \/ i - Len(a) \in 1 .. Len(b)
      OBVIOUS
    <2> QED
      BY <1>15, <2>1, <2>2 DEF Plain, Ours
  <1>16. CASE StartTurn
    <2>1. Head(pending) \in Posts
      BY <1>1, <1>16 DEF StartTurn
    <2>2. Head(pending)[2] \in Nat
      BY <1>1, <2>1 DEF Posts
    <2>3. t'.steps = 0
      BY <1>16 DEF StartTurn, FreshCounters
    <2>4. Starts(Head(pending)[2])
      BY <1>16, <2>3 DEF StartTurn, Starts
    <2> QED
      BY <2>2, <2>4 DEF SessionKinds
  <1>17. CASE ForceStop
    BY <1>17 DEF ForceStop, SessionKinds, Reverts
  <1>18. CASE AutoCompact
    <2>1. t'.steps = t.steps
      BY <1>1, <1>18 DEF AutoCompact, Counters
    <2>2. MaxCompactFails > 0
      <3>1. t.compactFails \in Nat /\ t.compactFails < MaxCompactFails
        BY <1>1, <1>18, CounterTypes DEF AutoCompact
      <3> QED
        BY <3>1, TurnLoopAssumption
    <2>3. Compacts
      BY <1>18, <2>1, <2>2 DEF AutoCompact, Compacts
    <2> QED
      BY <2>3 DEF SessionKinds
  <1>19. CASE OverflowCompacted
    <2>1. MaxOverflow > 0
      <3>1. /\ t.overflow \in Nat /\ t.overflow > 0
            /\ t.overflow <= MaxOverflow
        BY <1>1, <1>19, CounterTypes
           DEF OverflowCompacted, ControlInv, CounterInv, OverflowInv
      <3> QED
        BY SMTT(30), <3>1, TurnLoopAssumption
    <2>2. Compacts
      BY <1>19, <2>1 DEF OverflowCompacted, Compacts
    <2> QED
      BY <2>2 DEF SessionKinds
  <1>20. CASE Top
    <2> DEFINE taken == [i \in 1 .. Len(TakenNow) |-> Prompt(TakenNow[i][2])]
    <2>1. /\ taken \in Seq(Msg) /\ Len(taken) \in Nat
          /\ \A i \in 1 .. Len(taken) :
               taken[i].role = "user" /\ RealUserTurn(taken[i])
          /\ UrgentPost => Len(taken) > 0
      BY <1>1, TakenIs
    <2> HIDE DEF taken
    <2>2. PICK jobs \in {<< >>, <<Note("job")>>} :
             /\ messages' = messages \o jobs \o taken
             /\ t' = [t EXCEPT !.notices = @ + Len(jobs)]
      BY <1>20 DEF Top, taken
    <2>3. /\ jobs \in Seq(Msg) /\ Plain(jobs) /\ Len(jobs) \in Nat
          /\ \A i \in 1 .. Len(jobs) : jobs[i].role = "user"
      <3>1. Note("job") \in Msg /\ Note("job").role = "user"
        BY MakeMsg, MsgFields
      <3>2. CASE jobs = << >>
        BY <1>13, <3>2
      <3>3. CASE jobs = <<Note("job")>>
        BY <1>13, <3>1, <3>3
      <3> QED
        BY <3>2, <3>3
    <2>4. Plain(taken)
      BY <2>1 DEF Plain
    <2> DEFINE add == jobs \o taken
    <2>5. add \in Seq(Msg) /\ Plain(add)
      BY <1>15, <2>1, <2>3, <2>4
    <2>6. /\ Len(add) = Len(jobs) + Len(taken)
          /\ \A i \in 1 .. Len(jobs) : add[i] = jobs[i]
          /\ \A i \in 1 .. Len(taken) : add[Len(jobs) + i] = taken[i]
          /\ \A i \in 1 .. Len(add) :
               i \in 1 .. Len(jobs) \/ i - Len(jobs) \in 1 .. Len(taken)
      BY <2>1, <2>3
    <2>7. messages' = messages \o add
      <3>1. (messages \o jobs) \o taken = messages \o (jobs \o taken)
        BY <2>1, <2>3, Concat3
      <3> QED
        BY <2>2, <3>1
    <2> HIDE DEF add
    <2>8. \A i \in 1 .. Len(add) : add[i].role = "user"
      <3> SUFFICES ASSUME NEW i \in 1 .. Len(add) PROVE add[i].role = "user"
        OBVIOUS
      <3>1. CASE i \in 1 .. Len(jobs)
        BY <2>3, <2>6, <3>1
      <3>2. CASE i - Len(jobs) \in 1 .. Len(taken)
        <4>1. i \in Nat
          BY <2>1, <2>3, <2>6
        <4>2. i = Len(jobs) + (i - Len(jobs))
          BY <2>3, <4>1
        <4>3. add[Len(jobs) + (i - Len(jobs))] = taken[i - Len(jobs)]
          BY <2>6, <3>2
        <4> QED
          BY <2>1, <3>2, <4>2, <4>3
      <3> QED
        BY <2>6, <3>1, <3>2
    <2>9. UrgentPost => \E i \in 1 .. Len(add) : RealUserTurn(add[i])
      <3> SUFFICES ASSUME UrgentPost
                   PROVE  \E i \in 1 .. Len(add) : RealUserTurn(add[i])
        OBVIOUS
      <3>1. 1 \in 1 .. Len(taken) /\ Len(jobs) + 1 \in 1 .. Len(add)
        BY <2>1, <2>3, <2>6
      <3>2. RealUserTurn(add[Len(jobs) + 1])
        BY <2>1, <2>6, <3>1
      <3> QED
        BY <3>1, <3>2
    <2>10. t'.steps = t.steps
      BY <1>1, <2>2 DEF Counters
    <2>11. /\ pc = "top" /\ pc' \notin {"top", "batch"}
           /\ UNCHANGED <<saved, turn, ran>>
      BY <1>20 DEF Top, End
    <2>12. Adds(add)
      BY <1>20, <2>8, <2>9, <2>10, <2>11, <2>7 DEF Adds
    <2> QED
      BY <2>5, <2>12 DEF SessionKinds
  <1>21. CASE RequestCancelled
    <2>1. CASE UNCHANGED messages
      BY <1>8, <1>21, <2>1 DEF RequestCancelled, End, saved
    <2>2. CASE messages' = Append(messages, Assistant(<< >>))
      <3>1. Assistant(<< >>) \in Msg
        BY MakeMsg, EmptySeq
      <3>2. messages' = messages \o <<Assistant(<< >>)>>
        BY <2>2, <3>1, AppendIsConcat
      <3> QED
        BY <1>12, <1>13, <1>21, <3>2 DEF RequestCancelled, End
    <2> QED
      BY <1>21, <2>1, <2>2 DEF RequestCancelled
  <1>22. CASE RuleHit
    <2>1. /\ Note("rule") \in Msg /\ Note("rule").role = "user"
          /\ ~RealUserTurn(Note("rule"))
      BY MakeMsg, MsgFields
    <2>2. messages' = messages \o <<Note("rule")>>
      BY <1>22, <2>1, AppendIsConcat DEF RuleHit
    <2>3. t'.steps = t.steps
      BY <1>1, <1>22 DEF RuleHit, Counters
    <2> QED
      BY <1>12, <1>13, <1>22, <2>1, <2>2, <2>3 DEF RuleHit
  <1>23. ASSUME NEW c \in Counters, Reply(c), c.steps = t.steps
         PROVE  t'.steps = t.steps + 1
    BY <1>23 DEF Reply, Counters
  <1>24. ASSUME NEW text \in BOOLEAN, ReplyCutOff(text)
         PROVE  SessionKinds
    <2>1. /\ Note("cut off") \in Msg /\ Note("cut off").role = "user"
          /\ ~RealUserTurn(Note("cut off"))
      BY MakeMsg, MsgFields
    <2> DEFINE hint == <<Note("cut off")>>
               add == Said(text) \o hint
    <2>2. hint \in Seq(Msg) /\ Plain(hint) /\ Ours(hint)
      BY <1>13, <2>1
    <2>3. messages' = (messages \o Said(text)) \o hint
      BY <1>24 DEF ReplyCutOff
    <2> HIDE DEF hint
    <2>4. add \in Seq(Msg) /\ Plain(add) /\ Ours(add)
      BY <1>14, <1>15, <2>2
    <2>5. messages' = messages \o add
      <3>1. (messages \o Said(text)) \o hint = messages \o (Said(text) \o hint)
        BY <1>14, <2>2, Concat3
      <3> QED
        BY <2>3, <3>1
    <2>6. t'.steps = t.steps + 1
      <3> DEFINE c == [t EXCEPT !.cuts = @ + 1]
      <3>1. t.cuts + 1 \in Nat
        BY <1>1, CounterTypes
      <3>2. c \in Counters /\ c.steps = t.steps
        BY <1>1, <3>1 DEF Counters
      <3>3. Reply(c)
        BY <1>24 DEF ReplyCutOff
      <3> HIDE DEF c
      <3> QED
        BY <1>23, <3>2, <3>3
    <2>7. pc = "request" /\ pc' = "top" /\ UNCHANGED <<saved, turn, ran>>
      BY <1>24 DEF ReplyCutOff, Reply
    <2> HIDE DEF add
    <2> QED
      BY <1>12, <2>4, <2>5, <2>6, <2>7
  <1>25. ASSUME NEW text \in BOOLEAN, NEW limit \in BOOLEAN,
                NEW open \in BOOLEAN, ReplyFinal(text, limit, open)
         PROVE  SessionKinds
    <2>1. /\ Note("todos") \in Msg /\ Note("todos").role = "user"
          /\ ~RealUserTurn(Note("todos"))
      BY MakeMsg, MsgFields
    <2>2. PICK hint \in {<< >>, <<Note("todos")>>} :
            messages' = messages \o Said(text) \o hint
      BY <1>25 DEF ReplyFinal
    <2>3. hint \in Seq(Msg) /\ Plain(hint) /\ Ours(hint)
      BY <1>13, <2>1
    <2> DEFINE add == Said(text) \o hint
    <2>4. add \in Seq(Msg) /\ Plain(add) /\ Ours(add)
      BY <1>14, <1>15, <2>3
    <2>5. messages' = messages \o add
      <3>1. (messages \o Said(text)) \o hint = messages \o (Said(text) \o hint)
        <4>1. Said(text) \in Seq(Msg) /\ hint \in Seq(Msg)
          BY <1>14, <2>3
        <4> QED
          BY SMTT(30), <4>1, Concat3
      <3> QED
        BY <2>2, <3>1
    <2>6. t'.steps = t.steps + 1
      <3> DEFINE remind == t.todos /\ ~t.reminded /\ open
                 c == [t EXCEPT !.cuts = CutsAfter(limit),
                                !.reminded = @ \/ remind]
      <3>1. CutsAfter(limit) \in Nat
        <4>1. t.cuts \in Nat
          BY <1>1, CounterTypes
        <4> QED
          BY <4>1 DEF CutsAfter
      <3>2. c \in Counters /\ c.steps = t.steps
        BY <1>1, <3>1 DEF Counters
      <3>3. Reply(c)
        BY <1>25 DEF ReplyFinal
      <3> HIDE DEF c
      <3> QED
        BY <1>23, <3>2, <3>3
    <2>7. /\ pc = "request" /\ pc' \in {"top", "over"}
          /\ UNCHANGED <<saved, turn, ran>>
      BY <1>25 DEF ReplyFinal, Reply, End
    <2> HIDE DEF add
    <2> QED
      BY <1>12, <2>4, <2>5, <2>6, <2>7
  <1>26. ASSUME NEW cs \in Batches, ReplyRefused(cs)
         PROVE  SessionKinds
    <2>1. cs \in Seq(Sigs) /\ Len(cs) > 0
      BY BatchesIs
    <2>2. t'.steps = t.steps + 1
      <3> DEFINE b == [t EXCEPT !.cuts = 0, !.doom = @ + 1,
                                !.todos = @ \/ WritesTodos(cs)]
                 c == Repeated(cs, b)
      <3>1. t.doom + 1 \in Nat /\ TailRun(cs)[1] \in Sigs /\ TailRun(cs)[2] \in Nat
        BY <1>1, <2>1, CounterTypes, TailRunIs
      <3>2. b \in Counters /\ b.steps = t.steps
        BY <1>1, <3>1 DEF Counters, WritesTodos
      <3>3. Reply(c)
        BY <1>26 DEF ReplyRefused
      <3> HIDE DEF b
      <3>4. c \in Counters /\ c.steps = t.steps
        BY <3>1, <3>2 DEF Repeated, Counters
      <3> HIDE DEF c
      <3> QED
        BY <1>23, <3>3, <3>4
    <2>3. Refuses(cs)
      BY <1>26, <2>2 DEF ReplyRefused, Reply, Refuses, End
    <2> QED
      BY <2>3 DEF SessionKinds
  <1>27. ASSUME NEW cs \in Batches, ReplyBatch(cs)
         PROVE  SessionKinds
    <2>1. t'.steps = t.steps + 1
      <3> DEFINE c == [t EXCEPT !.cuts = 0, !.todos = @ \/ WritesTodos(cs)]
      <3>1. c \in Counters /\ c.steps = t.steps
        BY <1>1 DEF Counters, WritesTodos
      <3>2. Reply(c)
        BY <1>27 DEF ReplyBatch
      <3> HIDE DEF c
      <3> QED
        BY <1>23, <3>1, <3>2
    <2>2. Opens(cs)
      BY <1>27, <2>1 DEF ReplyBatch, Reply, Opens
    <2> QED
      BY <2>2 DEF SessionKinds
  <1>28. CASE StartCall
    BY <1>28 DEF StartCall, SessionKinds, Runs
  <1>29. \A b \in Bodies : b \in Whats
    BY DEF Whats
  <1> DEFINE Rest(what) == [i \in 1 .. (Len(calls) - Len(done)) |-> what]
  <1>30. ASSUME pc = "batch", NEW what \in Whats
         PROVE  /\ done \o Rest(what) \in Seq(Whats)
                /\ Len(done \o Rest(what)) = Len(calls)
                /\ \A i \in 1 .. Len(calls) :
                     IF i <= Len(done) THEN (done \o Rest(what))[i] \in Bodies
                                       ELSE (done \o Rest(what))[i] = what
    <2>1. Len(calls) - Len(done) \in Nat
      BY <1>2, <1>3, <1>30
    <2>2. Rest(what) \in [1 .. Len(calls) - Len(done) -> Whats]
      OBVIOUS
    <2>3. Rest(what) \in Seq(Whats) /\ Len(Rest(what)) = Len(calls) - Len(done)
      BY <2>1, <2>2
    <2>4. \A i \in 1 .. Len(calls) - Len(done) : Rest(what)[i] = what
      OBVIOUS
    <2>5. done \in Seq(Whats)
      BY <1>1, <1>29, InSeq
    <2> HIDE DEF Rest
    <2>6. /\ done \o Rest(what) \in Seq(Whats)
          /\ Len(done \o Rest(what)) = Len(done) + (Len(calls) - Len(done))
          /\ \A i \in 1 .. Len(done) : (done \o Rest(what))[i] = done[i]
          /\ \A i \in 1 .. Len(calls) :
               i > Len(done) =>
                 (done \o Rest(what))[i] = Rest(what)[i - Len(done)]
      BY <1>3, <2>3, <2>5
    <2>7. \A i \in 1 .. Len(calls) : i > Len(done) =>
             i - Len(done) \in 1 .. Len(calls) - Len(done)
      BY <1>3
    <2>8. \A i \in 1 .. Len(done) : done[i] \in Bodies
      BY <1>1
    <2>9. Len(done) + (Len(calls) - Len(done)) = Len(calls)
      BY <1>3
    <2>10. ASSUME NEW i \in 1 .. Len(calls)
           PROVE  IF i <= Len(done) THEN (done \o Rest(what))[i] \in Bodies
                                    ELSE (done \o Rest(what))[i] = what
      <3>1. CASE i <= Len(done)
        <4>1. i \in 1 .. Len(done)
          BY <1>3, <3>1
        <4> QED
          BY <2>6, <2>8, <3>1, <4>1
      <3>2. CASE ~(i <= Len(done))
        <4>1. i > Len(done)
          BY <1>3, <3>2
        <4> QED
          BY <2>4, <2>6, <2>7, <3>2, <4>1
      <3> QED
        BY <3>1, <3>2
    <2> QED
      BY <2>6, <2>9, <2>10
  <1> HIDE DEF Rest
  <1>31. CASE SkipForUrgent
    <2>1. /\ pc = "batch" /\ UrgentPost /\ UNCHANGED <<backup, turn, ran, inbox>>
          /\ BatchSettled(done \o Rest("skipped"))
      BY <1>31 DEF SkipForUrgent, UrgentWaits, UrgentPost, clientVars, Rest
    <2>2. "skipped" \in Whats
      BY DEF Whats
    <2>3. UrgentPost'
      BY <2>1 DEF UrgentPost
    <2>4. PICK bodies \in Seq(Whats) :
            /\ bodies = done \o Rest("skipped") /\ Len(bodies) = Len(calls)
            /\ \A i \in 1 .. Len(calls) : bodies[i] \notin Bodies => i > Len(done)
      <3>1. /\ done \o Rest("skipped") \in Seq(Whats)
            /\ Len(done \o Rest("skipped")) = Len(calls)
            /\ \A i \in 1 .. Len(calls) : i <= Len(done) =>
                 (done \o Rest("skipped"))[i] \in Bodies
        BY <1>30, <2>1, <2>2
      <3>2. \A i \in 1 .. Len(calls) : i > Len(done) \/ i <= Len(done)
        BY <1>3
      <3> QED
        BY <3>1, <3>2
    <2> QED
      BY <1>1, <1>2, <2>1, <2>3, <2>4, SettledIs DEF SessionKinds
  <1>32. CASE BatchCancelled
    <2>1. /\ pc = "batch" /\ pc' = "over"
          /\ UNCHANGED <<saved, turn, t, ran>>
          /\ messages' = messages \o ResultsOf(t.steps, done \o Rest("not run"))
      BY <1>32 DEF BatchCancelled, CloseUnanswered, End, Rest
    <2>2. "not run" \in Whats /\ "not run" # "skipped" /\ "skipped" \notin Bodies
      BY DEF Whats, Bodies
    <2>3. PICK bodies \in Seq(Whats) :
            /\ bodies = done \o Rest("not run") /\ Len(bodies) = Len(calls)
            /\ \A i \in 1 .. Len(calls) :
                 IF i <= Len(done) THEN bodies[i] \in Bodies
                                   ELSE bodies[i] = "not run"
      BY <1>30, <2>1, <2>2
    <2>4. \A i \in 1 .. Len(calls) : i > Len(done) \/ i <= Len(done)
      BY <1>3
    <2>5. \A i \in 1 .. Len(bodies) :
            (bodies[i] \notin Bodies => i > Len(done)) /\ bodies[i] # "skipped"
      BY <2>2, <2>3, <2>4
    <2>6. Closes(bodies)
      BY <2>1, <2>3, <2>5 DEF Closes
    <2> QED
      BY <2>6 DEF SessionKinds
  <1>33. CASE ParallelJoined
    <2>1. /\ pc = "batch" /\ "none" \notin ToSet(finished)
          /\ BatchSettled(finished) /\ UNCHANGED <<backup, turn, ran>>
      BY <1>33 DEF ParallelJoined
    <2>2. \A i \in 1 .. Len(finished) : finished[i] \in Bodies
      BY <1>1, <2>1 DEF ToSet
    <2>3. finished \in Seq(Whats)
      BY <1>1, <1>29, <2>2, InSeq
    <2> QED
      BY <1>1, <1>2, <2>1, <2>2, <2>3, SettledIs DEF SessionKinds
  <1>34. ASSUME NEW body \in Bodies, FinishCall(body)
         PROVE  SessionKinds
    <2>1. /\ pc = "batch" /\ UNCHANGED <<backup, turn>>
          /\ ran' = ran \cup {NewRun("serial", Len(done) + 1)}
      BY <1>34 DEF FinishCall, NewRun
    <2>2. CASE Len(done) + 1 = Len(calls)
      <3>1. BatchSettled(Append(done, body))
        BY <1>34, <2>2 DEF FinishCall
      <3>2. /\ Append(done, body) \in Seq(Bodies)
            /\ Len(Append(done, body)) = Len(calls)
        BY <1>1, <2>2
      <3>3. PICK bodies \in Seq(Bodies) : bodies = Append(done, body)
        BY <3>2
      <3>4. /\ bodies \in Seq(Whats)
            /\ \A i \in 1 .. Len(bodies) : bodies[i] \in Bodies
        BY <1>29, InSeq
      <3> QED
        BY <1>1, <1>2, <2>1, <3>1, <3>2, <3>3, <3>4, SettledIs
           DEF SessionKinds
    <2>3. CASE Len(done) + 1 # Len(calls)
      <3>1. /\ done' = Append(done, body) /\ pc' = "batch"
            /\ UNCHANGED <<messages, mark, t, calls>>
        BY <1>34, <2>1, <2>3 DEF FinishCall
      <3>2. Runs
        BY <2>1, <3>1 DEF Runs, saved
      <3> QED
        BY <3>2 DEF SessionKinds
    <2> QED
      BY <2>2, <2>3
  <1>35. ASSUME NEW body \in Bodies, NEW i \in 1 .. MaxCalls,
                ParallelCallEnds(i, body)
         PROVE  SessionKinds
    <2>1. Runs
      BY <1>35 DEF ParallelCallEnds, Runs, NewRun
    <2> QED
      BY <2>1 DEF SessionKinds
  <1> QED
    BY <1>4, <1>6, <1>7, <1>9, <1>10, <1>11, <1>16, <1>17, <1>18, <1>19,
       <1>20, <1>21, <1>22, <1>24, <1>25, <1>26, <1>27, <1>28, <1>31, <1>32,
       <1>33, <1>34, <1>35 DEF Next, Step

-----------------------------------------------------------------------------
(***************************************************************************)
(* The session: its type, and the reply that a running batch answers.      *)
(***************************************************************************)

OpenInv ==
    pc = "batch" =>
        /\ Len(messages) > 0
        /\ messages[Len(messages)] = Assistant(IdsOf(t.steps, calls))

\* A compaction keeps no result from before the last message of the user.
LEMMA CompactIs ==
    ASSUME NEW p \in Seq(Msg), NEW q,
           \/ q = FullReplace(p)
           \/ NativeCut(p) /\ q = NativeReplace(p)
    PROVE  /\ q \in Seq(Msg)
           /\ \A k \in 1 .. Len(q) : q[k].role = "tool" =>
                \E n \in 1 .. Len(p) : n >= LastRealUser(p) /\ q[k] = p[n]
  <1>1. LastRealUser(p) \in 0 .. Len(p) /\ Len(p) \in Nat
    BY LastRealUserIs
  <1>2. /\ Carrier \in Msg /\ NativeBlock \in Msg
        /\ Carrier.role # "tool" /\ NativeBlock.role # "tool"
    BY MakeMsg, MsgFields DEF NativeBlock
  <1> DEFINE at == LastRealUser(p)
  <1> HIDE DEF at
  <1>3. CASE q = FullReplace(p) /\ p = << >>
    <2>1. q = << >>
      BY <1>3, FullReplaceIs
    <2> QED
      BY <2>1
  <1>4. CASE q = FullReplace(p) /\ p # << >>
    <2> DEFINE r == Pick(p, KeptBy(p))
    <2>1. q = Append(r, Carrier)
      BY <1>4, FullReplaceIs
    <2>2. KeptBy(p) \subseteq 1 .. Len(p) /\ \A i \in KeptBy(p) : i >= at
      BY <1>1 DEF KeptBy, at
    <2>3. r \in Seq(Msg) /\ \E f : Picked(p, KeptBy(p), f, r)
      BY <2>2, PickIs
    <2>4. PICK f : Picked(p, KeptBy(p), f, r)
      BY <2>3
    <2>5. \A k \in 1 .. Len(r) : f[k] \in KeptBy(p) /\ r[k] = p[f[k]]
      BY <2>4 DEF Picked
    <2> HIDE DEF r
    <2>6. /\ q \in Seq(Msg) /\ Len(q) = Len(r) + 1 /\ Len(r) \in Nat
          /\ q[Len(r) + 1] = Carrier
          /\ \A k \in 1 .. Len(r) : q[k] = r[k]
      BY <1>2, <2>1, <2>3
    <2>7. ASSUME NEW k \in 1 .. Len(q), q[k].role = "tool"
          PROVE  \E n \in 1 .. Len(p) : n >= at /\ q[k] = p[n]
      <3>1. k \in 1 .. Len(r)
        BY <1>2, <2>6, <2>7
      <3> QED
        BY <2>2, <2>5, <2>6, <3>1
    <2> QED
      BY <2>6, <2>7 DEF at
  <1>5. CASE NativeCut(p) /\ q = NativeReplace(p)
    <2>1. at > 1 /\ at \in 1 .. Len(p)
      BY <1>1, <1>5 DEF NativeCut, at
    <2> DEFINE r == SubSeq(p, at, Len(p))
    <2>2. q = <<NativeBlock>> \o r
      BY <1>5 DEF NativeReplace, at
    <2>3. /\ r \in Seq(Msg) /\ Len(r) = Len(p) - at + 1 /\ Len(r) \in Nat
          /\ \A k \in 1 .. Len(r) : r[k] = p[at + k - 1]
      BY <1>1, <2>1
    <2> HIDE DEF r
    <2>4. <<NativeBlock>> \in Seq(Msg)
      BY <1>2
    <2>5. /\ q \in Seq(Msg) /\ Len(q) = Len(r) + 1
          /\ q[1] = NativeBlock
          /\ \A k \in 1 .. Len(q) : k > 1 => q[k] = r[k - 1]
      BY <2>2, <2>3, <2>4
    <2>6. ASSUME NEW k \in 1 .. Len(q), q[k].role = "tool"
          PROVE  \E n \in 1 .. Len(p) : n >= at /\ q[k] = p[n]
      <3>1. k > 1
        BY <1>2, <2>3, <2>5, <2>6
      <3>2. k - 1 \in 1 .. Len(r) /\ at + (k - 1) - 1 \in 1 .. Len(p)
            /\ at + (k - 1) - 1 >= at
        BY <1>1, <2>1, <2>3, <2>5, <3>1
      <3>3. q[k] = p[at + (k - 1) - 1]
        BY <2>3, <2>5, <3>1, <3>2
      <3> QED
        BY <3>2, <3>3
    <2> QED
      BY <2>5, <2>6 DEF at
  <1> QED
    BY <1>3, <1>4, <1>5

\* The messages of a refused reply.
LEMMA RefusedIs ==
    ASSUME turn \in Nat, NEW step \in Nat, NEW cs \in Seq(Sigs)
    PROVE  LET d == [i \in 1 .. Len(cs) |-> "doom"]
           IN  /\ d \in Seq(Whats) /\ Len(d) = Len(cs)
               /\ \A i \in 1 .. Len(d) : d[i] = "doom"
  <1> DEFINE d == [i \in 1 .. Len(cs) |-> "doom"]
  <1>1. "doom" \in Whats /\ Len(cs) \in Nat
    BY DEF Whats
  <1>2. d \in [1 .. Len(cs) -> Whats]
    BY <1>1
  <1> QED
    BY <1>1, <1>2

SessionInv == SessionType /\ OpenInv

\* Every step keeps it.
LEMMA SessionInvStep ==
    ASSUME PostInv, ControlInv, ControlInv', SessionInv, SessionKinds
    PROVE  SessionInv'
  <1>1. /\ messages \in Seq(Msg) /\ mark \in Nat
        /\ backup \in [messages : Seq(Msg), mark : Nat]
        /\ ran \subseteq CallIds \X Schedules \X Sigs
        /\ pc = "batch" =>
             /\ Len(messages) > 0
             /\ messages[Len(messages)] = Assistant(IdsOf(t.steps, calls))
    BY DEF SessionInv, SessionType, OpenInv
  <1>2. /\ turn \in Nat /\ t.steps \in Nat /\ t.steps + 1 \in Nat
        /\ calls \in Seq(Sigs) /\ Len(calls) \in Nat
        /\ done \in Seq(Bodies) /\ Len(done) \in Nat
        /\ pc = "batch" => Len(done) < Len(calls)
    BY CounterTypes DEF PostInv, ControlInv, ControlType, CounterInv, BatchInv
  <1>3. NoBackup \in [messages : Seq(Msg), mark : Nat]
    BY DEF NoBackup
  <1>4. CASE Stays
    <2>1. SessionType'
      BY <1>1, <1>3, <1>4 DEF Stays, SessionType
    <2>2. OpenInv'
      BY <1>1, <1>4 DEF Stays, OpenInv, IdsOf, CallId
    <2> QED
      BY <2>1, <2>2 DEF SessionInv
  <1>5. ASSUME messages' \in Seq(Msg), pc' # "batch",
               UNCHANGED <<backup, ran>>, mark' \in Nat
        PROVE  SessionInv'
    BY <1>1, <1>5 DEF SessionInv, SessionType, OpenInv
  <1>6. ASSUME NEW add \in Seq(Msg), Adds(add)
        PROVE  SessionInv'
    BY <1>1, <1>5, <1>6 DEF Adds, saved
  <1>7. ASSUME NEW m \in Nat, Starts(m)
        PROVE  SessionInv'
    <2>1. messages' \in Seq(Msg)
      <3>1. Prompt(m) \in Msg /\ messages' = Append(messages, Prompt(m))
        BY <1>7, MakeMsg DEF Starts
      <3> QED
        BY <1>1, <3>1, AppendProperties
    <2>2. backup' \in [messages : Seq(Msg), mark : Nat]
      <3>1. CASE backup' = NoBackup
        BY <1>3, <3>1
      <3>2. CASE backup' = [messages |-> messages', mark |-> mark]
        BY <1>1, <2>1, <3>2
      <3> QED
        BY <1>7, <3>1, <3>2 DEF Starts
    <2> QED
      BY <1>1, <1>7, <2>1, <2>2 DEF Starts, SessionInv, SessionType, OpenInv
  <1>8. CASE Compacts
    BY <1>1, <1>5, <1>8, CompactIs DEF Compacts, saved
  <1>9. ASSUME NEW cs \in Batches
        PROVE  /\ cs \in Seq(Sigs)
               /\ Assistant(IdsOf(t.steps + 1, cs)) \in Msg
               /\ Append(messages, Assistant(IdsOf(t.steps + 1, cs)))
                    \in Seq(Msg)
    <2>1. cs \in Seq(Sigs)
      BY BatchesIs
    <2>2. IdsOf(t.steps + 1, cs) \in Seq(CallIds)
      BY <1>2, <2>1, IdsResults
    <2>3. Assistant(IdsOf(t.steps + 1, cs)) \in Msg
      BY <2>2, MakeMsg
    <2> QED
      BY <1>1, <2>1, <2>3, AppendProperties
  <1>10. ASSUME NEW cs \in Batches, Refuses(cs)
         PROVE  SessionInv'
    <2> DEFINE d == [i \in 1 .. Len(cs) |-> "doom"]
    <2>1. d \in Seq(Whats)
      BY <1>2, <1>9, RefusedIs
    <2> HIDE DEF d
    <2>2. ResultsOf(t.steps + 1, d) \in Seq(Msg)
      BY <1>2, <2>1, IdsResults
    <2>3. messages' = Append(messages, Assistant(IdsOf(t.steps + 1, cs)))
                         \o ResultsOf(t.steps + 1, d)
      BY <1>10 DEF Refuses, d
    <2>4. messages' \in Seq(Msg)
      BY <1>9, <2>2, <2>3, ConcatProperties
    <2> QED
      BY <1>1, <1>5, <1>10, <2>4 DEF Refuses, saved
  <1>11. ASSUME NEW cs \in Batches, Opens(cs)
         PROVE  SessionInv'
    <2> DEFINE a == Assistant(IdsOf(t.steps + 1, cs))
    <2>1. messages' = Append(messages, a) /\ a \in Msg
      BY <1>9, <1>11 DEF Opens
    <2>2. a = Assistant(IdsOf(t.steps, calls))'
      BY <1>11 DEF Opens, IdsOf, CallId
    <2> HIDE DEF a
    <2>3. /\ messages' \in Seq(Msg) /\ Len(messages') > 0
          /\ messages'[Len(messages')] = a
      BY <1>1, <2>1
    <2>4. SessionType'
      BY <1>1, <1>11, <2>3 DEF Opens, SessionType, saved
    <2>5. OpenInv'
      BY <2>2, <2>3 DEF OpenInv
    <2> QED
      BY <2>4, <2>5 DEF SessionInv
  <1>12. ASSUME pc = "batch", NEW how \in Schedules, NEW i \in 1 .. Len(calls)
         PROVE  NewRun(how, i) \in CallIds \X Schedules \X Sigs
    <2>1. calls[i] \in Sigs /\ i \in Nat
      BY <1>2
    <2>2. CallId(t.steps, i) \in CallIds
      BY <1>2, <2>1, IdsResults
    <2> QED
      BY <2>1, <2>2 DEF NewRun
  <1>13. pc = "batch" => Len(done) + 1 \in 1 .. Len(calls)
    BY <1>2
  <1>14. "serial" \in Schedules /\ "parallel" \in Schedules
    BY DEF Schedules
  <1>15. CASE Runs
    <2>1. pc = "batch" /\ pc' = "batch"
      BY <1>15 DEF Runs
    <2>2. ran' \subseteq CallIds \X Schedules \X Sigs
      <3>1. CASE ran' = ran
        BY <1>1, <3>1
      <3>2. CASE ran' = ran \cup {NewRun("serial", Len(done) + 1)}
        BY <1>1, <1>12, <1>13, <1>14, <2>1, <3>2
      <3>3. CASE \E i \in 1 .. Len(calls) :
                   ran' = ran \cup {NewRun("parallel", i)}
        <4>1. PICK i \in 1 .. Len(calls) :
                ran' = ran \cup {NewRun("parallel", i)}
          BY <3>3
        <4> QED
          BY <1>1, <1>12, <1>14, <2>1, <4>1
      <3> QED
        BY <1>15, <3>1, <3>2, <3>3 DEF Runs
    <2>3. SessionType'
      BY <1>1, <1>15, <2>2 DEF Runs, SessionType, saved
    <2>4. OpenInv'
      BY <1>1, <1>15 DEF Runs, OpenInv, IdsOf, CallId
    <2> QED
      BY <2>3, <2>4 DEF SessionInv
  <1>16. ASSUME NEW valid \in Seq(Whats), NEW hint \in Seq(Msg),
                Settles(valid, hint)
         PROVE  SessionInv'
    <2>1. ResultsOf(t.steps, valid) \in Seq(Msg)
      BY <1>2, IdsResults
    <2> DEFINE told == messages \o ResultsOf(t.steps, valid)
               keep == IF mark < Len(told) THEN mark ELSE Len(told)
    <2>2. told \in Seq(Msg) /\ Len(told) \in Nat
      BY <1>1, <2>1
    <2>3. \/ /\ messages' = told \o hint
             /\ mark' = mark \/ mark' = Len(told)
          \/ /\ mark' = 0
             /\ messages' = Append(SubSeq(told, 1, keep), Prompt(0)) \o hint
      BY <1>16 DEF Settles
    <2> HIDE DEF told
    <2>4. keep \in 0 .. Len(told)
      BY <1>1, <2>2
    <2> HIDE DEF keep
    <2>5. SubSeq(told, 1, keep) \in Seq(Msg)
      BY <2>2, <2>4
    <2>6. Prompt(0) \in Msg
      BY MakeMsg
    <2>7. Append(SubSeq(told, 1, keep), Prompt(0)) \in Seq(Msg)
      BY <2>5, <2>6, AppendProperties
    <2>8. messages' \in Seq(Msg) /\ mark' \in Nat
      <3>1. /\ told \o hint \in Seq(Msg)
            /\ Append(SubSeq(told, 1, keep), Prompt(0)) \o hint \in Seq(Msg)
        BY <2>2, <2>7, ConcatProperties
      <3>2. mark' = mark \/ mark' = Len(told) \/ mark' = 0
        BY <2>3
      <3>3. messages' \in Seq(Msg)
        BY <2>3, <3>1, Zenon
      <3> QED
        BY <1>1, <2>2, <3>2, <3>3
    <2>9. ran' \subseteq CallIds \X Schedules \X Sigs
      BY <1>1, <1>12, <1>13, <1>14, <1>16 DEF Settles
    <2> QED
      BY <1>1, <1>16, <2>8, <2>9 DEF Settles, SessionInv, SessionType, OpenInv
  <1>17. ASSUME NEW valid \in Seq(Whats), Closes(valid)
         PROVE  SessionInv'
    <2>1. ResultsOf(t.steps, valid) \in Seq(Msg)
      BY <1>2, IdsResults
    <2>2. messages' \in Seq(Msg)
      BY <1>1, <1>17, <2>1 DEF Closes
    <2> QED
      BY <1>1, <1>5, <1>17, <2>2 DEF Closes, saved
  <1>18. CASE Reverts
    <2>1. messages' \in Seq(Msg) /\ mark' \in Nat
      BY <1>1, <1>18 DEF Reverts
    <2> QED
      BY <1>1, <1>3, <1>18, <2>1 DEF Reverts, SessionInv, SessionType, OpenInv
  <1> QED
    BY <1>4, <1>6, <1>7, <1>8, <1>10, <1>11, <1>15, <1>16, <1>17, <1>18
       DEF SessionKinds

\* All of the inductive invariant that says what the state is made of.
Base == PostInv /\ ControlInv /\ SessionInv

\* The state is made of what the code declares, in every behaviour.
LEMMA BaseInvariant == Spec => []Base
  <1>1. Init => SessionInv
    <2> SUFFICES ASSUME Init PROVE SessionInv
      OBVIOUS
    <2>1. << >> \in Seq(Msg) /\ 0 \in Nat
      OBVIOUS
    <2>2. SessionType
      BY <2>1 DEF Init, SessionType, NoBackup
    <2> QED
      BY <2>2 DEF Init, SessionInv, OpenInv
  <1>2. SessionInv /\ PostInv /\ ControlInv /\ ControlInv' /\ [Next]_vars
          => SessionInv'
    <2> SUFFICES ASSUME SessionInv, PostInv, ControlInv, ControlInv',
                        [Next]_vars
                 PROVE  SessionInv'
      OBVIOUS
    <2>1. SessionKinds
      BY SessionStep DEF SessionInv, SessionType
    <2> QED
      BY <2>1, SessionInvStep
  <1> QED
    BY <1>1, <1>2, PostInvariant, ControlInvariant, PTL DEF Spec, Base

\* The parts of it that are used most.
LEMMA BaseTypes ==
    ASSUME Base
    PROVE  /\ messages \in Seq(Msg) /\ Len(messages) \in Nat /\ mark \in Nat
           /\ backup.messages \in Seq(Msg) /\ backup.mark \in Nat
           /\ ran \subseteq CallIds \X Schedules \X Sigs
           /\ turn \in Nat /\ t.steps \in Nat
           /\ calls \in Seq(Sigs) /\ Len(calls) \in Nat
           /\ done \in Seq(Bodies) /\ Len(done) \in Nat
           /\ pc = "batch" =>
                /\ t.steps > 0 /\ Len(calls) > 0 /\ Len(done) < Len(calls)
                /\ Len(messages) > 0
                /\ messages[Len(messages)] = Assistant(IdsOf(t.steps, calls))
  <1>1. /\ messages \in Seq(Msg) /\ mark \in Nat
        /\ backup.messages \in Seq(Msg) /\ backup.mark \in Nat
        /\ ran \subseteq CallIds \X Schedules \X Sigs
    BY DEF Base, SessionInv, SessionType
  <1>2. turn \in Nat /\ t.steps \in Nat
    BY CounterTypes DEF Base, PostInv, ControlInv, CounterInv
  <1>3. calls \in Seq(Sigs) /\ done \in Seq(Bodies)
    BY DEF Base, ControlInv, ControlType
  <1>4. pc = "batch" =>
          /\ t.steps > 0 /\ Len(calls) > 0 /\ Len(done) < Len(calls)
          /\ Len(messages) > 0
          /\ messages[Len(messages)] = Assistant(IdsOf(t.steps, calls))
    BY DEF Base, ControlInv, BatchInv, SessionInv, OpenInv
  <1> QED
    BY <1>1, <1>2, <1>3, <1>4

\* Every variable keeps the type its code declares and every counter its
\* limit, for any client, tools and limits.
THEOREM TypeCorrect == Spec => []TypeOK
  <1>1. Base => TypeOK
    <2> SUFFICES ASSUME Base PROVE TypeOK
      OBVIOUS
    <2>1. /\ inbox \in Seq(Posts) /\ pending \in Seq(Posts)
          /\ steered \in Seq(Posts) /\ read \in Seq(Posts)
          /\ typed \in 0 .. MaxMsgs /\ turn \in Nat
          /\ turn + Len(pending) + Len(inbox) <= typed
      BY DEF Base, PostInv, PostType
    <2>2. ToSet(inbox) \cup ToSet(pending) \cup ToSet(steered)
            \cup ToSet(read) \subseteq Posts
      BY <2>1 DEF ToSet
    <2>3. turn \in 0 .. MaxMsgs
      <3>1. Len(pending) \in Nat /\ Len(inbox) \in Nat
        BY <2>1
      <3>2. MaxMsgs \in Nat
        BY TurnLoopAssumption
      <3> QED
        BY <2>1, <3>1, <3>2
    <2>4. /\ pc \in Pcs /\ outcome \in Outcomes
          /\ {cancel, started, t.todos, t.reminded} \subseteq BOOLEAN
      BY CounterTypes DEF Base, ControlInv, ControlType, CounterInv
    <2>5. Len(done) <= Len(calls) /\ Len(finished) = Len(calls)
      <3>1. Len(done) \in Nat /\ Len(calls) \in Nat
        BY DEF Base, ControlInv, ControlType
      <3> QED
        BY <3>1 DEF Base, ControlInv, BatchInv
    <2>6. mark \in Nat
      BY DEF Base, SessionInv, SessionType
    <2>7. /\ t.doom <= MaxDoomRefusals /\ t.runLen <= DoomThreshold
          /\ t.cuts <= MaxCutOffs /\ t.harmony <= MaxHarmony
          /\ t.overflow <= MaxOverflow /\ t.compactFails <= MaxCompactFails
          /\ t.notices <= MaxNotices
      BY DEF Base, ControlInv, CounterInv
    <2> QED
      BY <2>1, <2>2, <2>3, <2>4, <2>5, <2>6, <2>7 DEF TypeOK, Pcs, Outcomes
  <1> QED
    BY <1>1, BaseInvariant, PTL

-----------------------------------------------------------------------------
(***************************************************************************)
(* Calls that were run, and what the session says of them.                 *)
(***************************************************************************)

\* The results in a list of messages.
Tools(s) == {s[k] : k \in {i \in 1 .. Len(s) : s[i].role = "tool"}}

\* A result in the session names a call and says one of the results.
LEMMA ToolsType ==
    ASSUME NEW s \in Seq(Msg), NEW m \in Tools(s)
    PROVE  m.id \in CallIds /\ m.what \in Whats
  <1>1. PICK k \in 1 .. Len(s) : m = s[k] /\ m.role = "tool"
    BY DEF Tools
  <1>2. m \in Msg
    BY <1>1
  <1> QED
    BY <1>1, <1>2 DEF Msg

\* Joining two lists makes no new results.
LEMMA ToolsConcat ==
    ASSUME NEW a \in Seq(Msg), NEW b \in Seq(Msg)
    PROVE  Tools(a \o b) \subseteq Tools(a) \cup Tools(b)
  <1> SUFFICES ASSUME NEW m \in Tools(a \o b), m \notin Tools(a)
               PROVE  m \in Tools(b)
    OBVIOUS
  <1>1. PICK k \in 1 .. Len(a \o b) : m = (a \o b)[k] /\ m.role = "tool"
    BY DEF Tools
  <1>2. CASE k <= Len(a)
    <2>1. k \in 1 .. Len(a) /\ m = a[k]
      BY <1>1, <1>2
    <2> QED
      BY <1>1, <2>1 DEF Tools
  <1>3. CASE ~(k <= Len(a))
    <2>1. k - Len(a) \in 1 .. Len(b) /\ m = b[k - Len(a)]
      BY <1>1, <1>3
    <2> QED
      BY <1>1, <2>1 DEF Tools
  <1> QED
    BY <1>2, <1>3

\* Messages that are no results hold none.
LEMMA ToolsPlain ==
    ASSUME NEW s, Plain(s)
    PROVE  Tools(s) = {}
  BY DEF Plain, Tools

\* Neither does a message that is added,
LEMMA ToolsAppend ==
    ASSUME NEW a \in Seq(Msg), NEW m \in Msg, m.role # "tool"
    PROVE  Append(a, m) \in Seq(Msg) /\ Tools(Append(a, m)) \subseteq Tools(a)
  <1>1. <<m>> \in Seq(Msg) /\ Append(a, m) = a \o <<m>>
    BY AppendIsConcat
  <1>2. Tools(<<m>>) = {}
    BY DEF Tools
  <1>3. Append(a, m) \in Seq(Msg)
    BY AppendProperties
  <1> QED
    BY <1>1, <1>2, <1>3, ToolsConcat

\* nor cutting the end of the list off.
LEMMA ToolsPrefix ==
    ASSUME NEW a \in Seq(Msg), NEW n \in 0 .. Len(a)
    PROVE  SubSeq(a, 1, n) \in Seq(Msg) /\ Tools(SubSeq(a, 1, n)) \subseteq Tools(a)
  <1> DEFINE b == SubSeq(a, 1, n)
  <1>1. b \in Seq(Msg) /\ Len(b) = n /\ \A k \in 1 .. n : b[k] = a[k]
    OBVIOUS
  <1>2. \A k \in 1 .. n : k \in 1 .. Len(a)
    OBVIOUS
  <1> HIDE DEF b
  <1>3. Tools(b) \subseteq Tools(a)
    BY <1>1, <1>2 DEF Tools
  <1> QED
    BY <1>1, <1>3 DEF b

\* The results of a batch, each with the id of its call.
LEMMA ToolsResults ==
    ASSUME turn \in Nat, NEW step \in Nat, NEW bodies \in Seq(Whats),
           NEW m \in Tools(ResultsOf(step, bodies))
    PROVE  \E i \in 1 .. Len(bodies) :
              m.id = CallId(step, i) /\ m.what = bodies[i]
  <1>1. /\ Len(ResultsOf(step, bodies)) = Len(bodies)
        /\ \A i \in 1 .. Len(bodies) :
             ResultsOf(step, bodies)[i] = Result(CallId(step, i), bodies[i])
    BY IdsResults
  <1>2. PICK i \in 1 .. Len(bodies) : m = Result(CallId(step, i), bodies[i])
    BY <1>1 DEF Tools
  <1> QED
    BY <1>2, MsgFields

\* What a compaction leaves of the results.
LEMMA ToolsCompacted ==
    ASSUME NEW p \in Seq(Msg), NEW q,
           \/ q = FullReplace(p)
           \/ NativeCut(p) /\ q = NativeReplace(p)
    PROVE  Tools(q) \subseteq Tools(p)
  <1>1. \A k \in 1 .. Len(q) : q[k].role = "tool" =>
          \E n \in 1 .. Len(p) : q[k] = p[n]
    BY CompactIs
  <1> QED
    BY <1>1 DEF Tools

\* The id is of a call made by the `b`-th reply of turn `a`, or earlier.
Past(id, a, b) == id[1] < a \/ (id[1] = a /\ id[2] <= b)

\* Calls ran in the past; in a batch run one by one, those that have ended.
RunsKnown ==
    /\ \A r \in ran : Past(r[1], turn, t.steps)
    /\ pc = "batch" =>
         \A r \in ran : r[2] = "serial" /\ r[1][1] = turn /\ r[1][2] = t.steps
                        => r[1][3] <= Len(done)

\* Results are of calls made in the past, and not of the batch that runs; those
\* of the backup are of an earlier turn.
ToldKnown ==
    /\ \A m \in Tools(messages) :
         Past(m.id, turn, IF pc = "batch" THEN t.steps - 1 ELSE t.steps)
    /\ \A m \in Tools(backup.messages) : m.id[1] < turn

\* RanIsReported, of any list of messages.
Honest(told, runs) ==
    \A m \in told : m.what \notin Bodies =>
        \A r \in runs : r[2] = "serial" => r[1] # m.id

RanInv ==
    /\ RunsKnown /\ ToldKnown
    /\ Honest(Tools(messages), ran) /\ Honest(Tools(backup.messages), ran)

\* Arithmetic of ids.
LEMMA PastIs ==
    ASSUME NEW id \in CallIds, NEW a \in Nat, NEW b \in Int, Past(id, a, b)
    PROVE  /\ \A c \in Int : b <= c => Past(id, a, c)
           /\ \A c \in Int : Past(id, a + 1, c) /\ id[1] < a + 1
           /\ \A i, c \in Nat : b < c => id # <<a, c, i>>
           /\ \A c \in Nat : b < c => ~(id[1] = a /\ id[2] = c)
  <1>1. id[1] \in Nat /\ id[2] \in Nat
    BY DEF CallIds
  <1>2. id[1] < a \/ (id[1] = a /\ id[2] <= b)
    BY DEF Past
  <1>3. \A c \in Int : b <= c => Past(id, a, c)
    BY <1>1, <1>2 DEF Past
  <1>4. \A c \in Int : Past(id, a + 1, c) /\ id[1] < a + 1
    BY <1>1, <1>2 DEF Past
  <1>5. \A c \in Nat : b < c => ~(id[1] = a /\ id[2] = c)
    BY <1>1, <1>2
  <1>6. \A i, c \in Nat : b < c => id # <<a, c, i>>
    BY <1>5
  <1> QED
    BY <1>3, <1>4, <1>5, <1>6

\* Every step keeps it.
LEMMA RanStep ==
    ASSUME Base, Base', RanInv, SessionKinds
    PROVE  RanInv'
  <1>1. /\ messages \in Seq(Msg) /\ messages' \in Seq(Msg)
        /\ backup.messages \in Seq(Msg)
        /\ ran \subseteq CallIds \X Schedules \X Sigs
        /\ turn \in Nat /\ t.steps \in Nat
        /\ done \in Seq(Bodies) /\ Len(done) \in Nat
        /\ pc = "batch" => t.steps > 0
    <2>1. messages' \in Seq(Msg)
      BY DEF Base, SessionInv, SessionType
    <2> QED
      BY <2>1, BaseTypes
  <1>2. \A r \in ran : r[1] \in CallIds
    BY <1>1
  <1>3. \A m \in Tools(messages) : m.id \in CallIds
    BY <1>1, ToolsType
  <1>4. \A m \in Tools(backup.messages) : m.id \in CallIds
    BY <1>1, ToolsType
  <1>5. /\ \A r \in ran : Past(r[1], turn, t.steps)
        /\ pc = "batch" =>
             \A r \in ran : r[2] = "serial" /\ r[1][1] = turn
                             /\ r[1][2] = t.steps => r[1][3] <= Len(done)
        /\ pc = "batch" =>
             \A m \in Tools(messages) : Past(m.id, turn, t.steps - 1)
        /\ \A m \in Tools(messages) : Past(m.id, turn, t.steps)
        /\ \A m \in Tools(backup.messages) : m.id[1] < turn
        /\ Honest(Tools(messages), ran)
        /\ Honest(Tools(backup.messages), ran)
    <2>1. pc = "batch" =>
            \A m \in Tools(messages) : Past(m.id, turn, t.steps - 1)
      BY DEF RanInv, ToldKnown
    <2>2. t.steps - 1 \in Int /\ t.steps \in Int /\ t.steps - 1 <= t.steps
      BY <1>1
    <2>3. pc = "batch" => \A m \in Tools(messages) : Past(m.id, turn, t.steps)
      BY <1>1, <1>3, <2>1, <2>2, PastIs
    <2>4. pc # "batch" => \A m \in Tools(messages) : Past(m.id, turn, t.steps)
      BY DEF RanInv, ToldKnown
    <2> QED
      BY <2>1, <2>3, <2>4 DEF RanInv, RunsKnown, ToldKnown
  <1>6. Tools(NoBackup.messages) = {}
    BY DEF Tools, NoBackup
  <1>7. ASSUME Tools(messages') \subseteq Tools(messages), pc' # "batch",
               UNCHANGED <<turn, ran>>,
               backup' = backup \/ backup' = NoBackup,
               t'.steps = t.steps \/ t'.steps = t.steps + 1
        PROVE  RanInv'
    <2>1. t'.steps \in Int /\ t.steps \in Int /\ t.steps <= t'.steps
      BY <1>1, <1>7
    <2>2. RunsKnown'
      BY <1>1, <1>2, <1>5, <1>7, <2>1, PastIs DEF RunsKnown
    <2>3. ToldKnown'
      <3>1. \A m \in Tools(messages') : Past(m.id, turn', t'.steps)
        BY <1>1, <1>3, <1>5, <1>7, <2>1, PastIs
      <3> QED
        BY <1>5, <1>6, <1>7, <3>1 DEF ToldKnown
    <2> QED
      BY <1>5, <1>6, <1>7, <2>2, <2>3 DEF RanInv, Honest
  <1>8. CASE Stays
    <2>1. CASE pc = "batch"
      <3>1. /\ UNCHANGED <<messages, turn, ran, done>> /\ pc' = "batch"
            /\ backup' = backup \/ backup' = NoBackup
            /\ t'.steps = t.steps
        BY <1>8, <2>1 DEF Stays
      <3>2. RunsKnown' /\ ToldKnown'
        BY <1>5, <1>6, <2>1, <3>1 DEF RunsKnown, ToldKnown
      <3> QED
        BY <1>5, <1>6, <3>1, <3>2 DEF RanInv, Honest
    <2>2. CASE pc # "batch"
      BY <1>7, <1>8, <2>2 DEF Stays
    <2> QED
      BY <2>1, <2>2
  <1>9. ASSUME NEW add \in Seq(Msg), Plain(add), Adds(add)
        PROVE  RanInv'
    <2>1. Tools(messages') \subseteq Tools(messages)
      BY <1>1, <1>9, ToolsConcat, ToolsPlain DEF Adds
    <2> QED
      BY <1>7, <1>9, <2>1 DEF Adds, saved
  <1>10. CASE Compacts
    <2>1. Tools(messages') \subseteq Tools(messages)
      BY <1>1, <1>10, ToolsCompacted DEF Compacts
    <2> QED
      BY <1>7, <1>10, <2>1 DEF Compacts, saved
  <1>11. ASSUME NEW m \in Nat, Starts(m)
         PROVE  RanInv'
    <2>1. Tools(messages') \subseteq Tools(messages)
      BY <1>1, <1>11, MakeMsg, MsgFields, ToolsAppend DEF Starts
    <2>2. /\ turn' = turn + 1 /\ t'.steps = 0 /\ pc' = "hooks" /\ ran' = ran
          /\ \/ backup' = [messages |-> messages', mark |-> mark]
             \/ backup' = NoBackup
      BY <1>11 DEF Starts
    <2>3. Tools(backup'.messages) \subseteq Tools(messages)
      BY <1>6, <2>1, <2>2
    <2>4. \A m2 \in Tools(messages) :
            Past(m2.id, turn + 1, 0) /\ m2.id[1] < turn + 1
      BY <1>1, <1>3, <1>5, PastIs
    <2>5. \A r \in ran : Past(r[1], turn + 1, 0)
      BY <1>1, <1>2, <1>5, PastIs
    <2>6. RunsKnown' /\ ToldKnown'
      BY <2>1, <2>2, <2>3, <2>4, <2>5 DEF RunsKnown, ToldKnown
    <2> QED
      BY <1>5, <2>1, <2>2, <2>3, <2>6 DEF RanInv, Honest
  <1>12. ASSUME NEW cs \in Batches, Refuses(cs)
         PROVE  RanInv'
    <2> DEFINE d == [i \in 1 .. Len(cs) |-> "doom"]
               a == Assistant(IdsOf(t.steps + 1, cs))
    <2>1. cs \in Seq(Sigs) /\ t.steps + 1 \in Nat
      BY <1>1, BatchesIs
    <2>2. d \in Seq(Whats)
      BY <1>1, <2>1, RefusedIs
    <2>3. a \in Msg /\ a.role # "tool"
      <3>1. IdsOf(t.steps + 1, cs) \in Seq(CallIds)
        BY <1>1, <2>1, IdsResults
      <3> QED
        BY <3>1, MakeMsg, MsgFields
    <2> HIDE DEF d, a
    <2>4. messages' = Append(messages, a) \o ResultsOf(t.steps + 1, d)
      BY <1>12 DEF Refuses, d, a
    <2>5. ResultsOf(t.steps + 1, d) \in Seq(Msg)
      BY <1>1, <2>1, <2>2, IdsResults
    <2>6. /\ Append(messages, a) \in Seq(Msg)
          /\ Tools(Append(messages, a)) \subseteq Tools(messages)
      BY <1>1, <2>3, ToolsAppend
    <2>7. Tools(messages') \subseteq
            Tools(messages) \cup Tools(ResultsOf(t.steps + 1, d))
      <3>1. Tools(Append(messages, a) \o ResultsOf(t.steps + 1, d)) \subseteq
              Tools(Append(messages, a)) \cup Tools(ResultsOf(t.steps + 1, d))
        BY <2>5, <2>6, ToolsConcat
      <3> QED
        BY <2>4, <2>6, <3>1
    <2>8. /\ pc' # "batch" /\ UNCHANGED <<turn, ran, backup>>
          /\ t'.steps = t.steps + 1
      BY <1>12 DEF Refuses, saved
    <2>9. ASSUME NEW m \in Tools(ResultsOf(t.steps + 1, d))
          PROVE  /\ Past(m.id, turn, t.steps + 1)
                 /\ \A r \in ran : r[1] # m.id
      <3>1. PICK i \in 1 .. Len(d) : m.id = CallId(t.steps + 1, i)
        BY <1>1, <2>1, <2>2, ToolsResults
      <3>2. m.id = <<turn, t.steps + 1, i>> /\ i \in Nat
        BY <2>2, <3>1 DEF CallId
      <3>3. Past(m.id, turn, t.steps + 1)
        BY <1>1, <2>1, <3>2 DEF Past
      <3>4. t.steps < t.steps + 1 /\ t.steps \in Int
        BY <1>1
      <3> QED
        BY <1>1, <1>2, <1>5, <2>1, <3>2, <3>3, <3>4, PastIs
    <2>10. t.steps <= t.steps + 1 /\ t.steps \in Int /\ t.steps + 1 \in Int
      BY <1>1
    <2>11. \A m \in Tools(messages) : Past(m.id, turn, t.steps + 1)
      BY <1>1, <1>3, <1>5, <2>10, PastIs
    <2>12. \A r \in ran : Past(r[1], turn, t.steps + 1)
      BY <1>1, <1>2, <1>5, <2>10, PastIs
    <2>13. RunsKnown'
      BY <2>8, <2>12 DEF RunsKnown
    <2>14. ToldKnown'
      BY <1>5, <2>7, <2>8, <2>9, <2>11 DEF ToldKnown
    <2> QED
      BY <1>5, <2>7, <2>8, <2>9, <2>13, <2>14 DEF RanInv, Honest
  <1>13. ASSUME NEW cs \in Batches, Opens(cs)
         PROVE  RanInv'
    <2>1. cs \in Seq(Sigs) /\ t.steps + 1 \in Nat
      BY <1>1, BatchesIs
    <2>2. IdsOf(t.steps + 1, cs) \in Seq(CallIds)
      BY <1>1, <2>1, IdsResults
    <2>3. Tools(messages') \subseteq Tools(messages)
      BY <1>1, <1>13, <2>2, MakeMsg, MsgFields, ToolsAppend DEF Opens
    <2>4. /\ pc' = "batch" /\ UNCHANGED <<turn, ran, backup>>
          /\ t'.steps = t.steps + 1
      BY <1>13 DEF Opens, saved
    <2>5. /\ t.steps < t.steps + 1 /\ t.steps <= t.steps + 1
          /\ (t.steps + 1) - 1 = t.steps
          /\ t.steps \in Int /\ t.steps + 1 \in Int
      BY <1>1
    <2>6. \A r \in ran : /\ Past(r[1], turn, t.steps + 1)
                         /\ ~(r[1][1] = turn /\ r[1][2] = t.steps + 1)
      BY <1>1, <1>2, <1>5, <2>1, <2>5, PastIs
    <2>7. RunsKnown'
      BY <2>4, <2>6 DEF RunsKnown
    <2>8. ToldKnown'
      BY <1>5, <2>3, <2>4, <2>5 DEF ToldKnown
    <2> QED
      BY <1>5, <2>3, <2>4, <2>7, <2>8 DEF RanInv, Honest
  <1>14. ASSUME pc = "batch", NEW i \in Nat
         PROVE  /\ CallId(t.steps, i) = <<turn, t.steps, i>>
                /\ Past(CallId(t.steps, i), turn, t.steps)
                /\ \A m \in Tools(messages) : m.id # CallId(t.steps, i)
                /\ \A m \in Tools(backup.messages) : m.id # CallId(t.steps, i)
    <2>1. CallId(t.steps, i) = <<turn, t.steps, i>>
      BY DEF CallId
    <2>2. Past(CallId(t.steps, i), turn, t.steps)
      BY <1>1, <2>1 DEF Past
    <2>3. t.steps - 1 < t.steps /\ t.steps - 1 \in Int
      BY <1>1
    <2>4. \A m \in Tools(messages) : m.id # <<turn, t.steps, i>>
      BY <1>1, <1>3, <1>5, <1>14, <2>3, PastIs
    <2>5. \A m \in Tools(backup.messages) : m.id # <<turn, t.steps, i>>
      BY <1>1, <1>5
    <2> QED
      BY <2>1, <2>2, <2>4, <2>5
  <1>15. ASSUME pc = "batch",
                \/ ran' = ran
                \/ ran' = ran \cup {NewRun("serial", Len(done) + 1)}
                \/ \E i \in 1 .. Len(calls) :
                     ran' = ran \cup {NewRun("parallel", i)}
         PROVE  /\ \A r \in ran' : Past(r[1], turn, t.steps)
                /\ \A r \in ran' : r \in ran \/ r = NewRun("serial", Len(done) + 1)
                                             \/ r[2] = "parallel"
                /\ Honest(Tools(messages), ran')
                /\ Honest(Tools(backup.messages), ran')
    <2>1. Len(done) + 1 \in Nat /\ \A i \in 1 .. Len(calls) : i \in Nat
      BY <1>1
    <2>2. \A how, i : /\ NewRun(how, i)[1] = CallId(t.steps, i)
                      /\ NewRun(how, i)[2] = how
      BY DEF NewRun
    <2>3. \A r \in ran' :
            \/ r \in ran
            \/ \E i \in Nat : r[1] = CallId(t.steps, i) /\ i = Len(done) + 1
                              /\ r = NewRun("serial", i)
            \/ \E i \in Nat : r[1] = CallId(t.steps, i) /\ r[2] = "parallel"
      BY <1>15, <2>1, <2>2
    <2>4. \A r \in ran' : r \in ran \/ \E i \in Nat : r[1] = CallId(t.steps, i)
      BY <2>3
    <2>5. \A r \in ran' : Past(r[1], turn, t.steps)
      BY <1>5, <1>14, <1>15, <2>4
    <2>6. Honest(Tools(messages), ran')
      BY <1>5, <1>14, <1>15, <2>4 DEF Honest
    <2>7. Honest(Tools(backup.messages), ran')
      BY <1>5, <1>14, <1>15, <2>4 DEF Honest
    <2> QED
      BY <2>3, <2>5, <2>6, <2>7
  <1>16. CASE Runs
    <2>1. /\ pc = "batch" /\ pc' = "batch"
          /\ UNCHANGED <<messages, backup, turn, t>>
      BY <1>16 DEF Runs, saved
    <2>2. /\ \A r \in ran' : Past(r[1], turn, t.steps)
          /\ Honest(Tools(messages), ran')
          /\ Honest(Tools(backup.messages), ran')
      BY <1>15, <1>16 DEF Runs
    <2>3. ASSUME NEW r \in ran', r[2] = "serial", r[1][1] = turn,
                 r[1][2] = t.steps
          PROVE  r[1][3] <= Len(done')
      <3>1. CASE r \in ran
        <4>1. r[1][3] <= Len(done) /\ r[1][3] \in Nat
          BY <1>2, <1>5, <2>1, <2>3, <3>1 DEF CallIds
        <4>2. Len(done) <= Len(done') /\ Len(done') \in Nat
          BY <1>1, <1>16 DEF Runs
        <4> QED
          BY <1>1, <4>1, <4>2
      <3>2. CASE r \notin ran
        <4>1. /\ ran' = ran \cup {NewRun("serial", Len(done) + 1)}
              /\ \E body \in Bodies : done' = Append(done, body)
          BY <1>16, <2>3, <3>2 DEF Runs, NewRun
        <4>2. r = NewRun("serial", Len(done) + 1)
          BY <3>2, <4>1
        <4>3. r[1][3] = Len(done) + 1
          BY <4>2 DEF NewRun, CallId
        <4>4. Len(done') = Len(done) + 1
          BY <1>1, <4>1
        <4> QED
          BY <1>1, <4>3, <4>4
      <3> QED
        BY <3>1, <3>2
    <2>4. RunsKnown'
      BY <2>1, <2>2, <2>3 DEF RunsKnown
    <2>5. ToldKnown'
      BY <1>5, <2>1 DEF ToldKnown
    <2> QED
      BY <2>1, <2>2, <2>4, <2>5 DEF RanInv
  <1>17. ASSUME NEW valid \in Seq(Whats), pc = "batch", pc' # "batch",
                Tools(messages') \subseteq
                   Tools(messages) \cup Tools(ResultsOf(t.steps, valid)),
                UNCHANGED <<turn, backup>>, t'.steps = t.steps,
                \/ ran' = ran
                \/ ran' = ran \cup {NewRun("serial", Len(done) + 1)},
                \A i \in 1 .. Len(valid) :
                   valid[i] \notin Bodies => ran' = ran /\ i > Len(done)
         PROVE  RanInv'
    <2>1. /\ \A r \in ran' : Past(r[1], turn, t.steps)
          /\ Honest(Tools(messages), ran')
          /\ Honest(Tools(backup.messages), ran')
      BY <1>15, <1>17
    <2>2. ASSUME NEW m \in Tools(ResultsOf(t.steps, valid))
          PROVE  /\ Past(m.id, turn, t.steps)
                 /\ m.what \notin Bodies =>
                      \A r \in ran' : r[2] = "serial" => r[1] # m.id
      <3>1. PICK i \in 1 .. Len(valid) :
              m.id = CallId(t.steps, i) /\ m.what = valid[i]
        BY <1>1, ToolsResults
      <3>2. i \in Nat
        OBVIOUS
      <3>3. Past(m.id, turn, t.steps) /\ m.id = <<turn, t.steps, i>>
        BY <1>14, <1>17, <3>1, <3>2
      <3>4. ASSUME m.what \notin Bodies, NEW r \in ran', r[2] = "serial",
                   r[1] = m.id
            PROVE  FALSE
        <4>1. ran' = ran /\ i > Len(done)
          BY <1>17, <3>1, <3>4
        <4>2. r[1][1] = turn /\ r[1][2] = t.steps /\ r[1][3] = i
          BY <3>3, <3>4
        <4>3. r[1][3] <= Len(done)
          BY <1>5, <1>17, <3>4, <4>1, <4>2
        <4> QED
          BY <1>1, <3>2, <4>1, <4>2, <4>3
      <3> QED
        BY <3>3, <3>4
    <2>3. RunsKnown'
      BY <1>17, <2>1 DEF RunsKnown
    <2>4. ToldKnown'
      BY <1>5, <1>17, <2>2 DEF ToldKnown
    <2>5. Honest(Tools(messages), ran)'
      BY <1>17, <2>1, <2>2 DEF Honest
    <2> QED
      BY <1>17, <2>1, <2>3, <2>4, <2>5 DEF RanInv
  <1>18. ASSUME NEW valid \in Seq(Whats), NEW hint \in Seq(Msg), Plain(hint),
                Settles(valid, hint)
         PROVE  RanInv'
    <2> DEFINE res == ResultsOf(t.steps, valid)
               told == messages \o res
               keep == IF mark < Len(told) THEN mark ELSE Len(told)
    <2>1. res \in Seq(Msg)
      BY <1>1, IdsResults
    <2>2. \/ messages' = told \o hint
          \/ messages' = Append(SubSeq(told, 1, keep), Prompt(0)) \o hint
      BY <1>18 DEF Settles
    <2> HIDE DEF res
    <2>3. told \in Seq(Msg) /\ Len(told) \in Nat
          /\ Tools(told) \subseteq Tools(messages) \cup Tools(res)
      BY <1>1, <2>1, ToolsConcat
    <2> HIDE DEF told
    <2>4. keep \in 0 .. Len(told)
      BY <2>3, BaseTypes
    <2> HIDE DEF keep
    <2>5. /\ SubSeq(told, 1, keep) \in Seq(Msg)
          /\ Tools(SubSeq(told, 1, keep)) \subseteq Tools(told)
      BY <2>3, <2>4, ToolsPrefix
    <2>6. Prompt(0) \in Msg /\ Prompt(0).role # "tool"
      BY MakeMsg, MsgFields
    <2> DEFINE cut == Append(SubSeq(told, 1, keep), Prompt(0))
    <2>7. cut \in Seq(Msg) /\ Tools(cut) \subseteq Tools(told)
      BY <2>5, <2>6, ToolsAppend
    <2>8. messages' = told \o hint \/ messages' = cut \o hint
      BY <2>2
    <2> HIDE DEF cut
    <2>9. Tools(hint) = {}
      BY <1>18, ToolsPlain
    <2>10. /\ Tools(told \o hint) \subseteq Tools(told)
           /\ Tools(cut \o hint) \subseteq Tools(told)
      BY <2>3, <2>7, <2>9, ToolsConcat
    <2>11. Tools(messages') \subseteq Tools(messages) \cup Tools(res)
      BY <2>3, <2>8, <2>10
    <2>12. /\ pc = "batch" /\ pc' = "top" /\ UNCHANGED <<turn, backup>>
           /\ t'.steps = t.steps
           /\ \/ ran' = ran
              \/ ran' = ran \cup {NewRun("serial", Len(done) + 1)}
           /\ \A i \in 1 .. Len(valid) :
                valid[i] \notin Bodies => ran' = ran /\ i > Len(done)
      BY <1>18 DEF Settles
    <2> QED
      BY <1>17, <2>11, <2>12 DEF res
  <1>19. ASSUME NEW valid \in Seq(Whats), Closes(valid)
         PROVE  RanInv'
    <2>1. ResultsOf(t.steps, valid) \in Seq(Msg)
      BY <1>1, IdsResults
    <2>2. Tools(messages') \subseteq
            Tools(messages) \cup Tools(ResultsOf(t.steps, valid))
      BY <1>1, <1>19, <2>1, ToolsConcat DEF Closes
    <2>3. /\ pc = "batch" /\ pc' = "over" /\ UNCHANGED <<turn, backup, t, ran>>
          /\ \A i \in 1 .. Len(valid) : valid[i] \notin Bodies => i > Len(done)
      BY <1>19 DEF Closes, saved
    <2> QED
      BY <1>17, <2>2, <2>3
  <1>20. CASE Reverts
    <2>1. /\ pc' = "idle" /\ UNCHANGED <<turn, t, ran>> /\ backup' = NoBackup
          /\ messages' = backup.messages \/ messages' = messages
      BY <1>20 DEF Reverts
    <2>2. CASE messages' = messages
      BY <1>7, <2>1, <2>2
    <2>3. CASE messages' = backup.messages
      <3>1. \A m \in Tools(backup.messages) : Past(m.id, turn, t.steps)
        BY <1>5 DEF Past
      <3>2. RunsKnown' /\ ToldKnown'
        BY <1>5, <1>6, <2>1, <2>3, <3>1 DEF RunsKnown, ToldKnown
      <3> QED
        BY <1>5, <1>6, <2>1, <2>3, <3>2 DEF RanInv, Honest
    <2> QED
      BY <2>1, <2>2, <2>3
  <1> QED
    BY <1>8, <1>9, <1>10, <1>11, <1>12, <1>13, <1>16, <1>18, <1>19, <1>20
       DEF SessionKinds

\* A call that was run to its end is never told to the model as not run, for
\* any client, tools, limits, checkpoints and compactions: `run_tool_calls`
\* hands what is done to `close_unanswered_calls` and `skipped_for_urgent`.
THEOREM RunsAreReported == Spec => []RanIsReported
  <1>1. Init => RanInv
    <2> SUFFICES ASSUME Init PROVE RanInv
      OBVIOUS
    <2>1. Tools(messages) = {} /\ Tools(backup.messages) = {} /\ ran = {}
      BY DEF Init, Tools, NoBackup
    <2> QED
      BY <2>1 DEF RanInv, RunsKnown, ToldKnown, Honest
  <1>2. RanInv /\ Base /\ Base' /\ [Next]_vars => RanInv'
    <2> SUFFICES ASSUME RanInv, Base, Base', [Next]_vars PROVE RanInv'
      OBVIOUS
    <2>1. SessionKinds
      BY SessionStep DEF Base, SessionInv, SessionType
    <2> QED
      BY <2>1, RanStep
  <1>3. RanInv => RanIsReported
    <2> SUFFICES ASSUME RanInv, NEW k \in 1 .. Len(messages),
                        messages[k].role = "tool",
                        messages[k].what \notin Bodies,
                        NEW r \in ran, r[2] = "serial"
                 PROVE  r[1] # messages[k].id
      BY DEF RanIsReported
    <2>1. messages[k] \in Tools(messages)
      BY DEF Tools
    <2> QED
      BY <2>1 DEF RanInv, Honest
  <1> QED
    BY <1>1, <1>2, <1>3, BaseInvariant, PTL DEF Spec

-----------------------------------------------------------------------------
(***************************************************************************)
(* Calls that were skipped for an urgent message.                          *)
(***************************************************************************)

Skip(m) == m.role = "tool" /\ m.what = "skipped"
NoSkip(s) == \A k \in 1 .. Len(s) : ~Skip(s[k])

\* A message of the user follows before the model's next reply.
UserFollows(s, k) ==
    \E j \in 1 .. Len(s) :
        /\ k < j /\ RealUserTurn(s[j])
        /\ \A n \in k .. j : s[n].role # "assistant"

\* The model has not replied yet.
NoReply(s, k) == \A n \in k .. Len(s) : s[n].role # "assistant"

SkipsRead(s) == \A k \in 1 .. Len(s) : Skip(s[k]) => UserFollows(s, k)
SkipsOpen(s) ==
    \A k \in 1 .. Len(s) : Skip(s[k]) => UserFollows(s, k) \/ NoReply(s, k)

\* Skipped calls are answered, or the loop is about to take the message.
SkipInv ==
    /\ SkipsRead(backup.messages)
    /\ pc # "top" => SkipsRead(messages)
    /\ pc = "top" => SkipsOpen(messages) /\ (SkipsRead(messages) \/ UrgentPost)

\* More messages do no harm.
LEMMA FollowsConcat ==
    ASSUME NEW a \in Seq(Msg), NEW b \in Seq(Msg), NEW k \in 1 .. Len(a),
           UserFollows(a, k)
    PROVE  UserFollows(a \o b, k)
  <1>1. PICK j \in 1 .. Len(a) :
          /\ k < j /\ RealUserTurn(a[j])
          /\ \A n \in k .. j : a[n].role # "assistant"
    BY DEF UserFollows
  <1>2. /\ \A n \in 1 .. Len(a) : (a \o b)[n] = a[n]
        /\ j \in 1 .. Len(a \o b) /\ \A n \in k .. j : n \in 1 .. Len(a)
    OBVIOUS
  <1> QED
    BY <1>1, <1>2 DEF UserFollows

\* What is added later leaves the skipped calls read.
LEMMA SkipsConcat ==
    ASSUME NEW a \in Seq(Msg), NEW b \in Seq(Msg), SkipsRead(a), NoSkip(b)
    PROVE  SkipsRead(a \o b)
  <1> SUFFICES ASSUME NEW k \in 1 .. Len(a \o b), Skip((a \o b)[k])
               PROVE  UserFollows(a \o b, k)
    BY DEF SkipsRead
  <1>1. k <= Len(a)
    <2> SUFFICES ASSUME ~(k <= Len(a)) PROVE FALSE
      OBVIOUS
    <2>1. k - Len(a) \in 1 .. Len(b) /\ (a \o b)[k] = b[k - Len(a)]
      OBVIOUS
    <2> QED
      BY <2>1 DEF NoSkip
  <1>2. k \in 1 .. Len(a) /\ (a \o b)[k] = a[k]
    BY <1>1
  <1>3. UserFollows(a, k)
    BY <1>2 DEF SkipsRead
  <1> QED
    BY <1>2, <1>3, FollowsConcat

\* Results without a reply behind them are open at worst.
LEMMA SkipsOpened ==
    ASSUME NEW a \in Seq(Msg), NEW b \in Seq(Msg), SkipsRead(a),
           \A i \in 1 .. Len(b) : b[i].role # "assistant"
    PROVE  SkipsOpen(a \o b)
  <1> SUFFICES ASSUME NEW k \in 1 .. Len(a \o b), Skip((a \o b)[k])
               PROVE  UserFollows(a \o b, k) \/ NoReply(a \o b, k)
    BY DEF SkipsOpen
  <1>1. CASE k <= Len(a)
    <2>1. k \in 1 .. Len(a) /\ (a \o b)[k] = a[k]
      BY <1>1
    <2>2. UserFollows(a, k)
      BY <2>1 DEF SkipsRead
    <2> QED
      BY <2>1, <2>2, FollowsConcat
  <1>2. CASE ~(k <= Len(a))
    <2>1. \A n \in k .. Len(a \o b) :
            n - Len(a) \in 1 .. Len(b) /\ (a \o b)[n] = b[n - Len(a)]
      BY <1>2
    <2> QED
      BY <2>1 DEF NoReply
  <1> QED
    BY <1>1, <1>2

\* A message of the user answers what was open.
LEMMA SkipsClosed ==
    ASSUME NEW a \in Seq(Msg), NEW b \in Seq(Msg), SkipsOpen(a),
           \A i \in 1 .. Len(b) : b[i].role = "user",
           NEW u \in 1 .. Len(b), RealUserTurn(b[u])
    PROVE  SkipsRead(a \o b)
  <1> SUFFICES ASSUME NEW k \in 1 .. Len(a \o b), Skip((a \o b)[k])
               PROVE  UserFollows(a \o b, k)
    BY DEF SkipsRead
  <1>1. /\ \A n \in 1 .. Len(a) : (a \o b)[n] = a[n]
        /\ \A n \in 1 .. Len(b) : (a \o b)[Len(a) + n] = b[n]
        /\ Len(a \o b) = Len(a) + Len(b) /\ Len(a) \in Nat /\ Len(b) \in Nat
    OBVIOUS
  <1>2. k <= Len(a)
    <2> SUFFICES ASSUME ~(k <= Len(a)) PROVE FALSE
      OBVIOUS
    <2>1. k - Len(a) \in 1 .. Len(b) /\ (a \o b)[k] = b[k - Len(a)]
      OBVIOUS
    <2> QED
      BY <2>1 DEF Skip
  <1>3. k \in 1 .. Len(a) /\ Skip(a[k])
    BY <1>1, <1>2
  <1>4. CASE UserFollows(a, k)
    BY <1>3, <1>4, FollowsConcat
  <1>5. CASE NoReply(a, k)
    <2> DEFINE j == Len(a) + u
    <2>1. j \in 1 .. Len(a \o b) /\ k < j /\ RealUserTurn((a \o b)[j])
      BY <1>1, <1>3
    <2>2. ASSUME NEW n \in k .. j
          PROVE  (a \o b)[n].role # "assistant"
      <3>1. CASE n <= Len(a)
        BY <1>1, <1>3, <1>5, <3>1 DEF NoReply
      <3>2. CASE ~(n <= Len(a))
        <4>1. n - Len(a) \in 1 .. Len(b) /\ n = Len(a) + (n - Len(a))
          BY <1>1, <1>3, <3>2
        <4>2. (a \o b)[Len(a) + (n - Len(a))] = b[n - Len(a)]
          BY <1>1, <4>1
        <4> QED
          BY <4>1, <4>2
      <3> QED
        BY <3>1, <3>2
    <2> QED
      BY <2>1, <2>2 DEF UserFollows
  <1> QED
    BY <1>3, <1>4, <1>5 DEF SkipsOpen

\* The beginning of a session.
LEMMA SkipsPrefix ==
    ASSUME NEW a \in Seq(Msg), SkipsOpen(a), NEW n \in 0 .. Len(a)
    PROVE  SubSeq(a, 1, n) \in Seq(Msg) /\ SkipsOpen(SubSeq(a, 1, n))
  <1> DEFINE b == SubSeq(a, 1, n)
  <1>1. b \in Seq(Msg) /\ Len(b) = n /\ \A k \in 1 .. n : b[k] = a[k]
    OBVIOUS
  <1>2. \A k \in 1 .. n : k \in 1 .. Len(a)
    OBVIOUS
  <1> HIDE DEF b
  <1>3. ASSUME NEW k \in 1 .. n, Skip(b[k])
        PROVE  UserFollows(b, k) \/ NoReply(b, k)
    <2>1. Skip(a[k]) /\ k \in 1 .. Len(a)
      BY <1>1, <1>2, <1>3
    <2>2. CASE NoReply(a, k)
      <3>1. \A i \in k .. n : i \in k .. Len(a) /\ i \in 1 .. n
        BY <2>1
      <3> QED
        BY <1>1, <2>2, <3>1 DEF NoReply
    <2>3. CASE UserFollows(a, k)
      <3>1. PICK j \in 1 .. Len(a) :
              /\ k < j /\ RealUserTurn(a[j])
              /\ \A i \in k .. j : a[i].role # "assistant"
        BY <2>3 DEF UserFollows
      <3>2. CASE j <= n
        <4>1. j \in 1 .. n /\ \A i \in k .. j : i \in 1 .. n
          BY <3>2
        <4> QED
          BY <1>1, <3>1, <4>1 DEF UserFollows
      <3>3. CASE ~(j <= n)
        <4>1. \A i \in k .. n : i \in k .. j /\ i \in 1 .. n
          BY <3>3
        <4> QED
          BY <1>1, <3>1, <4>1 DEF NoReply
      <3> QED
        BY <3>2, <3>3
    <2> QED
      BY <2>1, <2>2, <2>3 DEF SkipsOpen
  <1> QED
    BY <1>1, <1>3 DEF SkipsOpen, b

\* A compaction keeps no skipped call that was answered.
LEMMA SkipsCompacted ==
    ASSUME NEW p \in Seq(Msg), SkipsRead(p), NEW q,
           \/ q = FullReplace(p)
           \/ NativeCut(p) /\ q = NativeReplace(p)
    PROVE  SkipsRead(q)
  <1> SUFFICES ASSUME NEW k \in 1 .. Len(q), Skip(q[k])
               PROVE  FALSE
    BY DEF SkipsRead
  <1>1. PICK n \in 1 .. Len(p) : n >= LastRealUser(p) /\ q[k] = p[n]
    BY CompactIs DEF Skip
  <1>2. PICK j \in 1 .. Len(p) : n < j /\ RealUserTurn(p[j])
    BY <1>1 DEF SkipsRead, UserFollows
  <1>3. j <= LastRealUser(p) /\ LastRealUser(p) \in 0 .. Len(p)
    BY <1>2, LastRealUserIs
  <1> QED
    BY <1>1, <1>2, <1>3

\* Results that are not of a skipped call; plain messages.
LEMMA NoSkips ==
    /\ \A s : Plain(s) => NoSkip(s)
    /\ \A m : m.role # "tool" => NoSkip(<<m>>)
    /\ turn \in Nat =>
         \A step \in Nat, bodies \in Seq(Whats) :
            (\A i \in 1 .. Len(bodies) : bodies[i] # "skipped")
              => NoSkip(ResultsOf(step, bodies))
    /\ \A a, b \in Seq(Msg) : NoSkip(a) /\ NoSkip(b) => NoSkip(a \o b)
  <1>1. \A s : Plain(s) => NoSkip(s)
    BY DEF Plain, NoSkip, Skip
  <1>2. \A m : m.role # "tool" => NoSkip(<<m>>)
    BY DEF NoSkip, Skip
  <1>3. ASSUME turn \in Nat, NEW step \in Nat, NEW bodies \in Seq(Whats),
               \A i \in 1 .. Len(bodies) : bodies[i] # "skipped"
        PROVE  NoSkip(ResultsOf(step, bodies))
    <2>1. /\ Len(ResultsOf(step, bodies)) = Len(bodies)
          /\ \A i \in 1 .. Len(bodies) :
               ResultsOf(step, bodies)[i] = Result(CallId(step, i), bodies[i])
      BY <1>3, IdsResults
    <2> QED
      BY <1>3, <2>1, MsgFields DEF NoSkip, Skip
  <1>4. ASSUME NEW a \in Seq(Msg), NEW b \in Seq(Msg), NoSkip(a), NoSkip(b)
        PROVE  NoSkip(a \o b)
    <2>1. ASSUME NEW k \in 1 .. Len(a \o b)
          PROVE  \/ k \in 1 .. Len(a) /\ (a \o b)[k] = a[k]
                 \/ k - Len(a) \in 1 .. Len(b) /\ (a \o b)[k] = b[k - Len(a)]
      OBVIOUS
    <2> QED
      BY <1>4, <2>1 DEF NoSkip
  <1> QED
    BY <1>1, <1>2, <1>3, <1>4

\* Every step keeps it.
LEMMA SkipStep ==
    ASSUME Base, SkipInv, SessionKinds
    PROVE  SkipInv'
  <1>1. /\ messages \in Seq(Msg) /\ backup.messages \in Seq(Msg)
        /\ turn \in Nat /\ t.steps \in Nat /\ t.steps + 1 \in Nat
    BY BaseTypes
  <1>2. /\ SkipsRead(backup.messages)
        /\ pc # "top" => SkipsRead(messages)
        /\ pc = "top" =>
             SkipsOpen(messages) /\ (SkipsRead(messages) \/ UrgentPost)
    BY DEF SkipInv
  <1>3. \A s : SkipsRead(s) => SkipsOpen(s)
    BY DEF SkipsRead, SkipsOpen
  <1>4. SkipsRead(NoBackup.messages)
    BY DEF SkipsRead, NoBackup
  <1>5. ASSUME SkipsRead(messages'),
               backup' = backup \/ backup' = NoBackup
                 \/ backup' = [messages |-> messages', mark |-> mark]
        PROVE  SkipInv'
    <2>1. SkipsRead(backup'.messages)
      BY <1>2, <1>4, <1>5
    <2> QED
      BY <1>3, <1>5, <2>1 DEF SkipInv
  <1>6. CASE Stays
    <2>1. CASE pc = "top"
      <3>1. /\ pc' = "top" /\ messages' = messages
            /\ UrgentPost => UrgentPost'
            /\ SkipsRead(backup'.messages)
        BY <1>2, <1>4, <1>6, <2>1 DEF Stays
      <3> QED
        BY <1>2, <2>1, <3>1 DEF SkipInv
    <2>2. CASE pc # "top"
      BY <1>2, <1>5, <1>6, <2>2 DEF Stays
    <2> QED
      BY <2>1, <2>2
  <1>7. ASSUME NEW add \in Seq(Msg), Plain(add), Adds(add)
        PROVE  SkipInv'
    <2>1. messages' = messages \o add /\ backup' = backup /\ NoSkip(add)
      BY <1>7, NoSkips DEF Adds, saved
    <2>2. CASE SkipsRead(messages)
      BY <1>1, <1>5, <2>1, <2>2, SkipsConcat
    <2>3. CASE ~SkipsRead(messages)
      <3>1. pc = "top" /\ UrgentPost /\ SkipsOpen(messages)
        BY <1>2, <2>3
      <3>2. \A i \in 1 .. Len(add) : add[i].role = "user"
        BY <1>7, <3>1 DEF Adds
      <3>3. PICK u \in 1 .. Len(add) : RealUserTurn(add[u])
        BY <1>7, <3>1 DEF Adds
      <3>4. SkipsRead(messages \o add)
        BY <1>1, <3>1, <3>2, <3>3, SkipsClosed
      <3> QED
        BY <1>5, <2>1, <3>4
    <2> QED
      BY <2>2, <2>3
  <1>8. ASSUME NEW m \in Msg, m.role # "tool", pc # "top"
        PROVE  Append(messages, m) \in Seq(Msg) /\ SkipsRead(Append(messages, m))
    <2>1. /\ Append(messages, m) = messages \o <<m>> /\ <<m>> \in Seq(Msg)
          /\ Append(messages, m) \in Seq(Msg)
      BY <1>1, AppendIsConcat, AppendProperties
    <2>2. NoSkip(<<m>>)
      BY <1>8, NoSkips
    <2> QED
      BY <1>1, <1>2, <1>8, <2>1, <2>2, SkipsConcat
  <1>9. ASSUME NEW m \in Nat, Starts(m)
        PROVE  SkipInv'
    <2>1. Prompt(m) \in Msg /\ Prompt(m).role # "tool"
      BY MakeMsg, MsgFields
    <2>2. /\ messages' = Append(messages, Prompt(m)) /\ pc = "idle"
          /\ \/ backup' = NoBackup
             \/ backup' = [messages |-> messages', mark |-> mark]
      BY <1>9 DEF Starts
    <2>3. SkipsRead(messages')
      BY <1>8, <2>1, <2>2
    <2> QED
      BY <1>5, <2>2, <2>3
  <1>10. CASE Compacts
    <2>1. /\ pc # "top" /\ backup' = backup
          /\ \/ messages' = FullReplace(messages)
             \/ NativeCut(messages) /\ messages' = NativeReplace(messages)
      BY <1>10 DEF Compacts, saved
    <2>2. SkipsRead(messages')
      BY <1>1, <1>2, <2>1, SkipsCompacted
    <2> QED
      BY <1>5, <2>1, <2>2
  <1>11. ASSUME NEW cs \in Batches, pc # "top"
         PROVE  LET a == Append(messages, Assistant(IdsOf(t.steps + 1, cs)))
                IN  a \in Seq(Msg) /\ SkipsRead(a)
    <2>1. cs \in Seq(Sigs)
      BY BatchesIs
    <2>2. IdsOf(t.steps + 1, cs) \in Seq(CallIds)
      BY <1>1, <2>1, IdsResults
    <2>3. /\ Assistant(IdsOf(t.steps + 1, cs)) \in Msg
          /\ Assistant(IdsOf(t.steps + 1, cs)).role # "tool"
      BY <2>2, MakeMsg, MsgFields
    <2> QED
      BY <1>8, <1>11, <2>3
  <1>12. ASSUME NEW cs \in Batches, Refuses(cs)
         PROVE  SkipInv'
    <2> DEFINE d == [i \in 1 .. Len(cs) |-> "doom"]
               a == Append(messages, Assistant(IdsOf(t.steps + 1, cs)))
               b == ResultsOf(t.steps + 1, d)
    <2>1. cs \in Seq(Sigs)
      BY BatchesIs
    <2>2. d \in Seq(Whats) /\ \A i \in 1 .. Len(d) : d[i] = "doom"
      BY <1>1, <2>1, RefusedIs
    <2>3. a \in Seq(Msg) /\ SkipsRead(a)
      BY <1>11, <1>12 DEF Refuses
    <2>4. messages' = a \o b /\ backup' = backup
      BY <1>12 DEF Refuses, saved
    <2> HIDE DEF a, d
    <2>5. b \in Seq(Msg) /\ NoSkip(b)
      BY <1>1, <2>2, IdsResults, NoSkips
    <2> HIDE DEF b
    <2>6. SkipsRead(messages')
      BY <2>3, <2>4, <2>5, SkipsConcat
    <2> QED
      BY <1>5, <2>4, <2>6
  <1>13. ASSUME NEW cs \in Batches, Opens(cs)
         PROVE  SkipInv'
    BY <1>5, <1>11, <1>13 DEF Opens, saved
  <1>14. CASE Runs
    <2>1. pc = "batch" /\ UNCHANGED <<messages, backup>>
      BY <1>14 DEF Runs, saved
    <2> QED
      BY <1>2, <1>5, <2>1
  <1>15. ASSUME NEW valid \in Seq(Whats), NEW hint \in Seq(Msg), Plain(hint),
                Settles(valid, hint)
         PROVE  SkipInv'
    <2> DEFINE res == ResultsOf(t.steps, valid)
               told == messages \o res
               keep == IF mark < Len(told) THEN mark ELSE Len(told)
    <2>1. /\ res \in Seq(Msg) /\ Len(res) = Len(valid)
          /\ \A i \in 1 .. Len(valid) :
               res[i] = Result(CallId(t.steps, i), valid[i])
      BY <1>1, IdsResults
    <2>2. \A i \in 1 .. Len(res) : res[i].role # "assistant"
      BY <2>1, MsgFields
    <2>3. /\ pc = "batch" /\ pc' = "top" /\ backup' = backup
          /\ \A i \in 1 .. Len(hint) : hint[i].role = "user"
          /\ \/ messages' = told \o hint
             \/ messages' = Append(SubSeq(told, 1, keep), Prompt(0)) \o hint
          /\ \A i \in 1 .. Len(valid) : valid[i] \notin Bodies => UrgentPost'
      BY <1>15 DEF Settles
    <2>4. NoSkip(res) \/ UrgentPost'
      <3>1. "skipped" \notin Bodies
        BY DEF Bodies
      <3> QED
        BY <1>1, <2>3, <3>1, NoSkips
    <2> HIDE DEF res
    <2>5. SkipsRead(messages)
      BY <1>2, <2>3
    <2>6. NoSkip(hint)
      BY <1>15, NoSkips
    <2>7. CASE messages' = told \o hint
      <3> DEFINE b == res \o hint
      <3>1. messages' = messages \o b
        BY SMTT(30), <1>1, <2>1, <2>7, Concat3
      <3>2. b \in Seq(Msg) /\ \A i \in 1 .. Len(b) : b[i].role # "assistant"
        <4>1. b \in Seq(Msg)
          BY <2>1
        <4>2. ASSUME NEW i \in 1 .. Len(b)
              PROVE  \/ i \in 1 .. Len(res) /\ b[i] = res[i]
                     \/ /\ i - Len(res) \in 1 .. Len(hint)
                        /\ b[i] = hint[i - Len(res)]
          BY <2>1
        <4> QED
          BY <2>2, <2>3, <4>1, <4>2
      <3>3. NoSkip(res) => NoSkip(b)
        BY <2>1, <2>6, NoSkips
      <3> HIDE DEF b
      <3>4. SkipsOpen(messages')
        BY <1>1, <2>5, <3>1, <3>2, SkipsOpened
      <3>5. SkipsRead(messages') \/ UrgentPost'
        BY <1>1, <2>4, <2>5, <3>1, <3>2, <3>3, SkipsConcat
      <3> QED
        BY <1>2, <2>3, <3>4, <3>5 DEF SkipInv
    <2>8. CASE messages' = Append(SubSeq(told, 1, keep), Prompt(0)) \o hint
      <3>1. told \in Seq(Msg) /\ SkipsOpen(told) /\ Len(told) \in Nat
        BY <1>1, <2>1, <2>2, <2>5, SkipsOpened
      <3> HIDE DEF told
      <3>2. keep \in 0 .. Len(told)
        BY <3>1, BaseTypes
      <3> HIDE DEF keep
      <3>3. /\ SubSeq(told, 1, keep) \in Seq(Msg)
            /\ SkipsOpen(SubSeq(told, 1, keep))
        BY <3>1, <3>2, SkipsPrefix
      <3> DEFINE c == SubSeq(told, 1, keep)
                 d == Append(c, Prompt(0))
      <3> HIDE DEF c
      <3>4. c \in Seq(Msg) /\ SkipsOpen(c)
        BY <3>3 DEF c
      <3>5. Prompt(0) \in Msg /\ Prompt(0).role = "user" /\ RealUserTurn(Prompt(0))
        BY MakeMsg, MsgFields
      <3>6. /\ d = c \o <<Prompt(0)>> /\ <<Prompt(0)>> \in Seq(Msg)
            /\ d \in Seq(Msg)
        BY <3>4, <3>5, AppendIsConcat, AppendProperties
      <3>7. SkipsRead(c \o <<Prompt(0)>>)
        <4>1. /\ \A i \in 1 .. Len(<<Prompt(0)>>) :
                   <<Prompt(0)>>[i].role = "user"
              /\ 1 \in 1 .. Len(<<Prompt(0)>>)
              /\ RealUserTurn(<<Prompt(0)>>[1])
          BY <3>5
        <4> QED
          BY <3>4, <3>6, <4>1, SkipsClosed
      <3>8. SkipsRead(d \o hint)
        BY <2>6, <3>6, <3>7, SkipsConcat
      <3>9. messages' = d \o hint
        BY <2>8 DEF c
      <3> HIDE DEF d
      <3> QED
        BY <1>5, <2>3, <3>8, <3>9
    <2> QED
      BY <2>3, <2>7, <2>8
  <1>16. ASSUME NEW valid \in Seq(Whats), Closes(valid)
         PROVE  SkipInv'
    <2>1. /\ pc = "batch" /\ backup' = backup
          /\ messages' = messages \o ResultsOf(t.steps, valid)
          /\ \A i \in 1 .. Len(valid) : valid[i] # "skipped"
      BY <1>16 DEF Closes, saved
    <2>2. /\ ResultsOf(t.steps, valid) \in Seq(Msg)
          /\ NoSkip(ResultsOf(t.steps, valid))
      BY <1>1, <2>1, IdsResults, NoSkips
    <2>3. SkipsRead(messages')
      BY <1>1, <1>2, <2>1, <2>2, SkipsConcat
    <2> QED
      BY <1>5, <2>1, <2>3
  <1>17. CASE Reverts
    <2>1. SkipsRead(messages') /\ backup' = NoBackup
      BY <1>2, <1>17 DEF Reverts
    <2> QED
      BY <1>5, <2>1
  <1> QED
    BY <1>6, <1>7, <1>9, <1>10, <1>12, <1>13, <1>14, <1>15, <1>16, <1>17
       DEF SessionKinds

\* Calls skipped for an urgent message: the model's next reply has read a
\* message of the user behind the results that say so, for any client, tools,
\* limits, checkpoints and compactions (inject_steering comes before the next
\* request, and while a turn runs nobody else takes messages from its inbox).
THEOREM SkippedCallsAreRead == Spec => []SkippedForAMessage
  <1>1. Init => SkipInv
    BY DEF Init, SkipInv, SkipsRead, NoBackup
  <1>2. SkipInv /\ Base /\ [Next]_vars => SkipInv'
    <2> SUFFICES ASSUME SkipInv, Base, [Next]_vars PROVE SkipInv'
      OBVIOUS
    <2>1. SessionKinds
      BY SessionStep DEF Base, SessionInv, SessionType
    <2> QED
      BY <2>1, SkipStep
  <1>3. SkipInv /\ Base => SkippedForAMessage
    <2> SUFFICES ASSUME SkipInv, Base,
                        NEW k \in 1 .. Len(messages),
                        NEW n \in 1 .. Len(messages),
                        k < n, messages[k].role = "tool",
                        messages[k].what = "skipped",
                        messages[n].role = "assistant"
                 PROVE  \E j \in k .. n : RealUserTurn(messages[j])
      BY DEF SkippedForAMessage
    <2>1. Len(messages) \in Nat
      BY BaseTypes
    <2>2. UserFollows(messages, k) \/ NoReply(messages, k)
      BY DEF SkipInv, SkipsRead, SkipsOpen, Skip
    <2>3. ~NoReply(messages, k)
      BY <2>1 DEF NoReply
    <2>4. PICK j \in 1 .. Len(messages) :
            /\ k < j /\ RealUserTurn(messages[j])
            /\ \A i \in k .. j : messages[i].role # "assistant"
      BY <2>2, <2>3 DEF UserFollows
    <2>5. j \in k .. n
      BY <2>1, <2>4
    <2> QED
      BY <2>4, <2>5
  <1> QED
    BY <1>1, <1>2, <1>3, BaseInvariant, PTL DEF Spec

-----------------------------------------------------------------------------
(***************************************************************************)
(* The checkpoint, as a place in the session.                              *)
(***************************************************************************)

\* A session is not compacted, or has no checkpoint that a compaction outdates.
MarksStayValid == CheckSigs = {} \/ (MaxCompactFails = 0 /\ MaxOverflow = 0)

\* `n` is right behind the results of a batch.
MarkOK(s, n) ==
    n # 0 =>
        /\ n <= Len(s) /\ s[n].role = "tool"
        /\ n < Len(s) => s[n + 1].role # "tool"

MarkInv ==
    /\ MarkOK(messages, mark) /\ MarkOK(backup.messages, backup.mark)
    /\ CheckSigs = {} => mark = 0 /\ backup.mark = 0

\* A checkpoint stays in place when no result follows it.
LEMMA MarkConcat ==
    ASSUME NEW a \in Seq(Msg), NEW b \in Seq(Msg), NEW n \in Nat, MarkOK(a, n),
           n = Len(a) /\ Len(b) > 0 => b[1].role # "tool"
    PROVE  MarkOK(a \o b, n)
  <1> SUFFICES ASSUME n # 0
               PROVE  /\ n <= Len(a \o b) /\ (a \o b)[n].role = "tool"
                      /\ n < Len(a \o b) => (a \o b)[n + 1].role # "tool"
    BY DEF MarkOK
  <1>1. /\ n \in 1 .. Len(a) /\ a[n].role = "tool"
        /\ n < Len(a) => a[n + 1].role # "tool"
    BY DEF MarkOK
  <1>2. n <= Len(a \o b) /\ (a \o b)[n] = a[n]
    BY <1>1
  <1>3. CASE n < Len(a)
    <2>1. (a \o b)[n + 1] = a[n + 1]
      BY <1>1, <1>3
    <2> QED
      BY <1>1, <1>2, <1>3, <2>1
  <1>4. CASE n = Len(a) /\ Len(b) > 0
    <2>1. (a \o b)[n + 1] = b[1]
      BY <1>1, <1>4
    <2> QED
      BY <1>1, <1>2, <1>4, <2>1
  <1>5. CASE n = Len(a) /\ Len(b) = 0
    BY <1>1, <1>2, <1>5
  <1>6. Len(b) \in Nat /\ Len(a) \in Nat
    OBVIOUS
  <1> QED
    BY <1>1, <1>3, <1>4, <1>5, <1>6

\* Every step keeps it.
LEMMA MarkStep ==
    ASSUME MarksStayValid, Base, MarkInv, SessionKinds
    PROVE  MarkInv'
  <1>1. /\ messages \in Seq(Msg) /\ Len(messages) \in Nat /\ mark \in Nat
        /\ turn \in Nat /\ t.steps \in Nat /\ t.steps + 1 \in Nat
        /\ pc = "batch" =>
             /\ Len(messages) > 0 /\ Len(calls) > 0 /\ Len(calls) \in Nat
             /\ messages[Len(messages)] = Assistant(IdsOf(t.steps, calls))
    BY BaseTypes
  <1>2. /\ MarkOK(messages, mark) /\ MarkOK(backup.messages, backup.mark)
        /\ CheckSigs = {} => mark = 0 /\ backup.mark = 0
    BY DEF MarkInv
  <1>3. MarkOK(NoBackup.messages, NoBackup.mark) /\ NoBackup.mark = 0
    BY DEF MarkOK, NoBackup
  <1>4. pc = "batch" => mark # Len(messages)
    BY <1>1, <1>2, MsgFields DEF MarkOK
  <1>5. \A s : MarkOK(s, 0)
    BY DEF MarkOK
  <1>6. ASSUME MarkOK(messages', mark), mark' = mark,
               backup' = backup \/ backup' = NoBackup
                 \/ backup' = [messages |-> messages', mark |-> mark]
        PROVE  MarkInv'
    <2>1. /\ MarkOK(backup'.messages, backup'.mark)
          /\ CheckSigs = {} => backup'.mark = 0
      BY <1>2, <1>3, <1>6
    <2> QED
      BY <1>2, <1>6, <2>1 DEF MarkInv
  <1>7. CASE Stays
    BY <1>2, <1>6, <1>7 DEF Stays
  <1>8. ASSUME NEW add \in Seq(Msg), Plain(add), Adds(add)
        PROVE  MarkInv'
    <2>1. Len(add) > 0 => add[1].role # "tool"
      BY <1>8 DEF Plain
    <2> QED
      BY <1>1, <1>2, <1>6, <1>8, <2>1, MarkConcat DEF Adds, saved
  <1>9. ASSUME NEW m \in Msg, m.role # "tool"
        PROVE  Append(messages, m) \in Seq(Msg) /\ MarkOK(Append(messages, m), mark)
    <2>1. /\ Append(messages, m) = messages \o <<m>> /\ <<m>> \in Seq(Msg)
          /\ Append(messages, m) \in Seq(Msg)
      BY <1>1, AppendIsConcat, AppendProperties
    <2>2. <<m>>[1].role # "tool"
      BY <1>9
    <2> QED
      BY <1>1, <1>2, <2>1, <2>2, MarkConcat
  <1>10. ASSUME NEW m \in Nat, Starts(m)
         PROVE  MarkInv'
    <2>1. Prompt(m) \in Msg /\ Prompt(m).role # "tool"
      BY MakeMsg, MsgFields
    <2>2. /\ messages' = Append(messages, Prompt(m)) /\ mark' = mark
          /\ \/ backup' = NoBackup
             \/ backup' = [messages |-> messages', mark |-> mark]
      BY <1>10 DEF Starts
    <2>3. MarkOK(messages', mark)
      BY <1>9, <2>1, <2>2
    <2> QED
      BY <1>6, <2>2, <2>3
  <1>11. CASE Compacts
    <2>1. /\ UNCHANGED <<mark, backup>>
          /\ MaxCompactFails > 0 \/ MaxOverflow > 0
      BY <1>11 DEF Compacts, saved
    <2>2. CheckSigs = {}
      BY <2>1 DEF MarksStayValid
    <2> QED
      BY <1>2, <1>5, <1>6, <2>1, <2>2
  <1>12. ASSUME NEW cs \in Batches
         PROVE  LET a == Append(messages, Assistant(IdsOf(t.steps + 1, cs)))
                IN  /\ a \in Seq(Msg) /\ MarkOK(a, mark)
                    /\ mark # Len(a)
    <2>1. cs \in Seq(Sigs)
      BY BatchesIs
    <2>2. IdsOf(t.steps + 1, cs) \in Seq(CallIds)
      BY <1>1, <2>1, IdsResults
    <2>3. /\ Assistant(IdsOf(t.steps + 1, cs)) \in Msg
          /\ Assistant(IdsOf(t.steps + 1, cs)).role # "tool"
      BY <2>2, MakeMsg, MsgFields
    <2> DEFINE m == Assistant(IdsOf(t.steps + 1, cs))
    <2> HIDE DEF m
    <2>4. Append(messages, m) \in Seq(Msg) /\ MarkOK(Append(messages, m), mark)
      BY <1>9, <2>3 DEF m
    <2>5. mark # Len(Append(messages, m))
      <3>1. mark = 0 \/ mark <= Len(messages)
        BY <1>2 DEF MarkOK
      <3>2. Len(Append(messages, m)) = Len(messages) + 1
        BY <1>1
      <3> QED
        BY <1>1, <3>1, <3>2
    <2> QED
      BY <2>4, <2>5 DEF m
  <1>13. ASSUME NEW cs \in Batches, Refuses(cs)
         PROVE  MarkInv'
    <2> DEFINE d == [i \in 1 .. Len(cs) |-> "doom"]
               a == Append(messages, Assistant(IdsOf(t.steps + 1, cs)))
               b == ResultsOf(t.steps + 1, d)
    <2>1. cs \in Seq(Sigs)
      BY BatchesIs
    <2>2. d \in Seq(Whats)
      BY <1>1, <2>1, RefusedIs
    <2>3. a \in Seq(Msg) /\ MarkOK(a, mark) /\ mark # Len(a)
      BY <1>12
    <2>4. messages' = a \o b /\ UNCHANGED <<mark, backup>>
      BY <1>13 DEF Refuses, saved
    <2> HIDE DEF a, d
    <2>5. b \in Seq(Msg)
      BY <1>1, <2>2, IdsResults
    <2> HIDE DEF b
    <2>6. MarkOK(messages', mark)
      BY <1>1, <2>3, <2>4, <2>5, MarkConcat
    <2> QED
      BY <1>6, <2>4, <2>6
  <1>14. ASSUME NEW cs \in Batches, Opens(cs)
         PROVE  MarkInv'
    BY <1>6, <1>12, <1>14 DEF Opens, saved
  <1>15. CASE Runs
    BY <1>2, <1>6, <1>15 DEF Runs, saved
  <1>16. ASSUME NEW valid \in Seq(Whats), pc = "batch", Len(valid) = Len(calls)
         PROVE  LET told == messages \o ResultsOf(t.steps, valid)
                IN  /\ told \in Seq(Msg) /\ Len(told) \in Nat
                    /\ MarkOK(told, mark) /\ MarkOK(told, Len(told))
    <2> DEFINE res == ResultsOf(t.steps, valid)
               told == messages \o res
    <2>1. /\ res \in Seq(Msg) /\ Len(res) = Len(calls)
          /\ \A i \in 1 .. Len(valid) :
               res[i] = Result(CallId(t.steps, i), valid[i])
      BY <1>1, <1>16, IdsResults
    <2>2. Len(calls) > 0 /\ Len(calls) \in Nat
      BY <1>1, <1>16
    <2>3. res[Len(res)].role = "tool"
      BY <1>16, <2>1, <2>2, MsgFields
    <2> HIDE DEF res
    <2>4. /\ told \in Seq(Msg) /\ Len(told) = Len(messages) + Len(res)
          /\ told[Len(messages) + Len(res)] = res[Len(res)]
      <3>1. messages \in Seq(Msg) /\ res \in Seq(Msg) /\ Len(res) \in 1 .. Len(res)
        BY <1>1, <2>1, <2>2
      <3>2. /\ told \in Seq(Msg) /\ Len(told) = Len(messages) + Len(res)
            /\ \A i \in 1 .. Len(res) : told[Len(messages) + i] = res[i]
        BY <3>1, ConcatProperties
      <3> QED
        BY <3>1, <3>2
    <2>5. MarkOK(told, mark)
      BY <1>1, <1>2, <1>4, <1>16, <2>1, MarkConcat
    <2> HIDE DEF told
    <2>6. MarkOK(told, Len(told))
      BY <2>3, <2>4 DEF MarkOK
    <2>7. Len(told) \in Nat
      BY <2>4
    <2> QED
      BY <2>4, <2>5, <2>6, <2>7 DEF told, res
  <1>17. ASSUME NEW valid \in Seq(Whats), NEW hint \in Seq(Msg), Plain(hint),
                Settles(valid, hint)
         PROVE  MarkInv'
    <2> DEFINE told == messages \o ResultsOf(t.steps, valid)
    <2>1. /\ pc = "batch" /\ Len(valid) = Len(calls) /\ backup' = backup
          /\ \/ /\ messages' = told \o hint
                /\ mark' = mark \/ (CheckSigs # {} /\ mark' = Len(told))
             \/ mark' = 0
      BY <1>17 DEF Settles
    <2>2. /\ told \in Seq(Msg) /\ Len(told) \in Nat
          /\ MarkOK(told, mark) /\ MarkOK(told, Len(told))
      BY <1>16, <2>1
    <2> HIDE DEF told
    <2>3. Len(hint) > 0 => hint[1].role # "tool"
      BY <1>17 DEF Plain
    <2>4. MarkOK(told \o hint, mark) /\ MarkOK(told \o hint, Len(told))
      BY <1>1, <2>2, <2>3, MarkConcat
    <2>5. MarkOK(messages', mark')
      BY <1>5, <2>1, <2>4
    <2>6. CheckSigs = {} => mark' = 0
      BY <1>2, <2>1
    <2> QED
      BY <1>2, <2>1, <2>5, <2>6 DEF MarkInv
  <1>18. ASSUME NEW valid \in Seq(Whats), Closes(valid)
         PROVE  MarkInv'
    BY <1>6, <1>16, <1>18 DEF Closes, saved
  <1>19. CASE Reverts
    <2>1. /\ \/ messages' = backup.messages /\ mark' = backup.mark
             \/ messages' = messages /\ mark' = mark
          /\ backup' = NoBackup
      BY <1>19 DEF Reverts
    <2> QED
      BY <1>2, <1>3, <2>1 DEF MarkInv
  <1> QED
    BY <1>7, <1>8, <1>10, <1>11, <1>13, <1>14, <1>15, <1>17, <1>18, <1>19
       DEF SessionKinds

\* Both checkpoints are in place in every behaviour.
LEMMA MarkInvariant ==
    ASSUME MarksStayValid
    PROVE  Spec => []MarkInv
  <1>1. Init => MarkInv
    BY DEF Init, MarkInv, MarkOK, NoBackup
  <1>2. MarkInv /\ Base /\ [Next]_vars => MarkInv'
    <2> SUFFICES ASSUME MarkInv, Base, [Next]_vars PROVE MarkInv'
      OBVIOUS
    <2>1. SessionKinds
      BY SessionStep DEF Base, SessionInv, SessionType
    <2> QED
      BY <2>1, MarkStep
  <1> QED
    BY <1>1, <1>2, BaseInvariant, PTL DEF Spec

\* While sessions are not compacted, or no tool makes checkpoints: the
\* checkpoint is a place in the session, right behind the results of the batch
\* it was made in, through later batches, rewinds and a backup put back.
THEOREM CheckpointStays ==
    ASSUME MarksStayValid
    PROVE  Spec => []MarkInSession
  <1>1. MarkInv => MarkInSession
    BY DEF MarkInv, MarkOK, MarkInSession
  <1> QED
    BY <1>1, MarkInvariant, PTL

-----------------------------------------------------------------------------
(***************************************************************************)
(* Calls and their results, paired.                                        *)
(***************************************************************************)

\* The session is accepted, without the reply whose batch is running.
PairInv ==
    /\ Accepted(IF pc = "batch" THEN SubSeq(messages, 1, Len(messages) - 1)
                ELSE messages)
    /\ Accepted(backup.messages)

\* A reply and the results of its calls.
LEMMA BlockIs ==
    ASSUME turn \in Nat, NEW step \in Nat, NEW cs \in Seq(Sigs),
           NEW bodies \in Seq(Whats), Len(bodies) = Len(cs)
    PROVE  LET b == <<Assistant(IdsOf(step, cs))>> \o ResultsOf(step, bodies)
           IN  b \in Seq(Msg) /\ Accepted(b)
  <1>1. PICK n \in Nat : n = Len(cs)
    OBVIOUS
  <1>2. PICK ids : ids = IdsOf(step, cs)
    OBVIOUS
  <1>3. ids \in Seq(CallIds) /\ ids \in [1 .. n -> CallIds] /\ Len(ids) = n
    BY <1>1, <1>2, IdsResults
  <1>4. PICK res : res = ResultsOf(step, bodies)
    OBVIOUS
  <1>5. /\ res \in Seq(Msg) /\ Len(res) = n
        /\ \A i \in 1 .. n : res[i] = Result(CallId(step, i), bodies[i])
    BY <1>1, <1>4, IdsResults
  <1>6. \A i \in 1 .. n : ids[i] = CallId(step, i)
    BY <1>1, <1>2 DEF IdsOf
  <1>7. \A i, j \in 1 .. n : ids[i] = ids[j] => i = j
    <2>1. \A i, j : CallId(step, i) = CallId(step, j) => i = j
      BY DEF CallId
    <2> QED
      BY <1>6, <2>1
  <1>8. PICK m \in Msg : m = Assistant(ids)
    BY <1>3, MakeMsg
  <1>9. m.role = "assistant" /\ m.ids = ids
    BY <1>8, MsgFields
  <1> DEFINE b == <<m>> \o res
  <1>10. /\ b \in Seq(Msg) /\ Len(b) = n + 1 /\ b[1] = m
         /\ \A i \in 1 .. n : b[i + 1] = res[i]
    BY <1>5, <1>8
  <1>11. \A i \in 1 .. n : b[i + 1].role = "tool" /\ b[i + 1].id = ids[i]
    BY <1>5, <1>6, <1>10, MsgFields
  <1> HIDE DEF b
  <1>12. Accepted(b)
    <2>1. IsBlock(b, CallIds, ids, n)
      BY <1>3, <1>7, <1>9, <1>10, <1>11 DEF IsBlock
    <2> QED
      BY <1>10, <2>1, BlockAccepted
  <1> QED
    BY <1>2, <1>4, <1>8, <1>10, <1>12 DEF b

\* An accepted session stays one when a reply and its results are added.
LEMMA Answered ==
    ASSUME turn \in Nat, NEW step \in Nat, NEW cs \in Seq(Sigs),
           NEW bodies \in Seq(Whats), Len(bodies) = Len(cs),
           NEW s \in Seq(Msg), Accepted(s)
    PROVE  Accepted(Append(s, Assistant(IdsOf(step, cs)))
                      \o ResultsOf(step, bodies))
  <1>1. PICK m \in Msg : m = Assistant(IdsOf(step, cs))
    BY IdsResults, MakeMsg
  <1>2. PICK res \in Seq(Msg) : res = ResultsOf(step, bodies)
    BY IdsResults
  <1>3. <<m>> \o res \in Seq(Msg) /\ Accepted(<<m>> \o res)
    BY <1>1, <1>2, BlockIs
  <1>4. Accepted(s \o (<<m>> \o res))
    BY <1>3, ConcatAccepted
  <1>5. <<m>> \in Seq(Msg) /\ Append(s, m) = s \o <<m>>
    BY AppendIsConcat
  <1>6. (s \o <<m>>) \o res = s \o (<<m>> \o res)
    BY <1>5, Concat3
  <1> QED
    BY <1>1, <1>2, <1>4, <1>5, <1>6

\* Every step keeps it.
LEMMA PairKept ==
    ASSUME Base, MarkInv, PairInv, SessionKinds
    PROVE  PairInv'
  <1>1. /\ messages \in Seq(Msg) /\ Len(messages) \in Nat /\ mark \in Nat
        /\ backup.messages \in Seq(Msg) /\ calls \in Seq(Sigs)
        /\ turn \in Nat /\ t.steps \in Nat /\ t.steps + 1 \in Nat
        /\ pc = "batch" =>
             /\ Len(messages) > 0 /\ Len(calls) > 0 /\ Len(calls) \in Nat
             /\ messages[Len(messages)] = Assistant(IdsOf(t.steps, calls))
    BY BaseTypes
  <1>2. /\ pc # "batch" => Accepted(messages)
        /\ pc = "batch" => Accepted(SubSeq(messages, 1, Len(messages) - 1))
        /\ Accepted(backup.messages)
    BY DEF PairInv
  <1>3. \A s \in Seq(Msg) : Plain(s) => Accepted(s)
    BY PlainAccepted DEF Plain
  <1>4. Accepted(NoBackup.messages)
    <2>1. << >> \in Seq(Msg) /\ Plain(<< >>)
      BY DEF Plain
    <2> QED
      BY <1>3, <2>1 DEF NoBackup
  <1>5. ASSUME pc' # "batch", Accepted(messages'),
               backup' = backup \/ backup' = NoBackup
                 \/ backup'.messages = messages'
        PROVE  PairInv'
    BY <1>2, <1>4, <1>5 DEF PairInv
  <1>6. ASSUME UNCHANGED messages, pc = "batch" <=> pc' = "batch",
               backup' = backup \/ backup' = NoBackup
        PROVE  PairInv'
    BY <1>2, <1>4, <1>6 DEF PairInv
  <1>7. CASE Stays
    BY <1>6, <1>7 DEF Stays
  <1>8. ASSUME NEW add \in Seq(Msg), Plain(add), Adds(add)
        PROVE  PairInv'
    <2>1. pc # "batch" /\ pc' # "batch" /\ messages' = messages \o add
          /\ backup' = backup
      BY <1>8 DEF Adds, saved
    <2>2. Accepted(messages) /\ Accepted(add)
      BY <1>2, <1>3, <1>8, <2>1
    <2>3. Accepted(messages \o add)
      BY <1>1, <2>2, ConcatAccepted
    <2> QED
      BY <1>5, <2>1, <2>3
  <1>9. ASSUME NEW s \in Seq(Msg), Accepted(s), NEW m \in Nat
        PROVE  Append(s, Prompt(m)) \in Seq(Msg) /\ Accepted(Append(s, Prompt(m)))
    <2>1. PICK p \in Msg : p = Prompt(m) /\ p.role = "user"
      BY MakeMsg, MsgFields
    <2>2. <<p>> \in Seq(Msg) /\ Append(s, p) = s \o <<p>>
      BY AppendIsConcat
    <2>3. Plain(<<p>>)
      BY <2>1 DEF Plain
    <2>4. Accepted(<<p>>)
      BY <1>3, <2>2, <2>3
    <2>5. Accepted(s \o <<p>>)
      BY <1>9, <2>2, <2>4, ConcatAccepted
    <2> QED
      BY <2>1, <2>2, <2>5
  <1>10. ASSUME NEW m \in Nat, Starts(m)
         PROVE  PairInv'
    <2>1. /\ pc = "idle" /\ pc' = "hooks"
          /\ messages' = Append(messages, Prompt(m))
          /\ \/ backup' = NoBackup
             \/ backup'.messages = messages'
      BY <1>10 DEF Starts
    <2>2. Accepted(messages')
      BY <1>1, <1>2, <1>9, <2>1
    <2> QED
      BY <1>5, <2>1, <2>2
  <1>11. CASE Compacts
    <2>1. /\ pc # "batch" /\ pc' # "batch" /\ backup' = backup
          /\ \/ messages' = FullReplace(messages)
             \/ NativeCut(messages) /\ messages' = NativeReplace(messages)
      BY <1>11 DEF Compacts, saved
    <2>2. Carrier \in Msg /\ NativeBlock \in Msg
      BY MakeMsg
    <2>3. Accepted(FullReplace(messages))
      BY <1>1, <1>2, <2>1, <2>2, FullReplaceAccepted
    <2>4. NativeCut(messages) => Accepted(NativeReplace(messages))
      BY <1>1, <1>2, <2>1, <2>2, NativeReplaceAccepted
    <2> QED
      BY <1>5, <2>1, <2>3, <2>4
  <1>12. ASSUME NEW cs \in Batches, Refuses(cs)
         PROVE  PairInv'
    <2> DEFINE d == [i \in 1 .. Len(cs) |-> "doom"]
    <2>1. cs \in Seq(Sigs)
      BY BatchesIs
    <2>2. d \in Seq(Whats) /\ Len(d) = Len(cs)
      BY <1>1, <2>1, RefusedIs
    <2>3. /\ messages' = Append(messages, Assistant(IdsOf(t.steps + 1, cs)))
                           \o ResultsOf(t.steps + 1, d)
          /\ pc # "batch" /\ pc' # "batch" /\ backup' = backup
      BY <1>12 DEF Refuses, saved
    <2> HIDE DEF d
    <2>4. Accepted(messages')
      BY <1>1, <1>2, <2>1, <2>2, <2>3, Answered
    <2> QED
      BY <1>5, <2>3, <2>4
  <1>13. ASSUME NEW cs \in Batches, Opens(cs)
         PROVE  PairInv'
    <2>1. cs \in Seq(Sigs)
      BY BatchesIs
    <2>2. PICK m \in Msg : m = Assistant(IdsOf(t.steps + 1, cs))
      BY <1>1, <2>1, IdsResults, MakeMsg
    <2>3. /\ messages' = Append(messages, m)
          /\ pc # "batch" /\ pc' = "batch" /\ backup' = backup
      BY <1>13, <2>2 DEF Opens, saved
    <2>4. SubSeq(messages', 1, Len(messages') - 1) = messages
      <3>1. PICK n \in Nat : n = Len(messages)
        BY <1>1
      <3>2. Len(messages') - 1 = n
        BY <1>1, <2>3, <3>1
      <3>3. SubSeq(Append(messages, m), 1, n) = messages
        BY <1>1, <3>1
      <3> QED
        BY <2>3, <3>2, <3>3
    <2> QED
      BY <1>2, <2>3, <2>4 DEF PairInv
  <1>14. CASE Runs
    BY <1>6, <1>14 DEF Runs, saved
  <1>15. ASSUME NEW valid \in Seq(Whats), pc = "batch", Len(valid) = Len(calls)
         PROVE  /\ messages \o ResultsOf(t.steps, valid) \in Seq(Msg)
                /\ Accepted(messages \o ResultsOf(t.steps, valid))
    <2>1. PICK m \in Msg : m = messages[Len(messages)]
                             /\ m = Assistant(IdsOf(t.steps, calls))
      BY <1>1, <1>15
    <2>2. PICK n \in Nat : n + 1 = Len(messages) /\ n = Len(messages) - 1
      <3>1. PICK l \in Nat : l = Len(messages) /\ l > 0
        BY <1>1, <1>15
      <3>2. l - 1 \in Nat /\ (l - 1) + 1 = l
        BY <3>1
      <3> QED
        BY <3>1, <3>2
    <2>3. PICK s : s = SubSeq(messages, 1, n)
      OBVIOUS
    <2>4. /\ s \in Seq(Msg) /\ Len(s) = n
          /\ \A i \in 1 .. n : s[i] = messages[i]
      BY <1>1, <2>2, <2>3
    <2>5. messages = Append(s, m)
      <3>1. /\ Append(s, m) \in Seq(Msg) /\ Len(Append(s, m)) = n + 1
            /\ \A i \in 1 .. n : Append(s, m)[i] = messages[i]
            /\ Append(s, m)[n + 1] = m
        BY <2>4
      <3>2. PICK a \in Seq(Msg) : a = Append(s, m)
        BY <3>1
      <3>3. /\ Len(a) = n + 1 /\ Len(messages) = n + 1
            /\ \A i \in 1 .. n : a[i] = messages[i]
            /\ a[n + 1] = messages[n + 1]
        BY <2>1, <2>2, <3>1, <3>2
      <3>4. \A i \in 1 .. n + 1 : i \in 1 .. n \/ i = n + 1
        OBVIOUS
      <3>5. \A i \in 1 .. n + 1 : a[i] = messages[i]
        BY <3>3, <3>4
      <3>6. a = messages
        BY <1>1, <3>3, <3>5, SeqEqual
      <3> QED
        BY <3>2, <3>6
    <2>6. Accepted(Append(s, Assistant(IdsOf(t.steps, calls)))
                     \o ResultsOf(t.steps, valid))
      BY <1>1, <1>2, <1>15, <2>2, <2>3, <2>4, Answered
    <2>7. ResultsOf(t.steps, valid) \in Seq(Msg)
      BY <1>1, IdsResults
    <2>8. messages \o ResultsOf(t.steps, valid) \in Seq(Msg)
      BY <1>1, <2>7
    <2> QED
      BY <2>1, <2>5, <2>6, <2>8
  <1>16. ASSUME NEW valid \in Seq(Whats), NEW hint \in Seq(Msg), Plain(hint),
                Settles(valid, hint)
         PROVE  PairInv'
    <2> DEFINE told == messages \o ResultsOf(t.steps, valid)
    <2>1. /\ pc = "batch" /\ pc' # "batch" /\ Len(valid) = Len(calls)
          /\ backup' = backup
          /\ \/ messages' = told \o hint
             \/ /\ mark # 0
                /\ messages' = Append(SubSeq(told, 1, IF mark < Len(told)
                                                       THEN mark ELSE Len(told)),
                                      Prompt(0)) \o hint
      BY <1>16 DEF Settles
    <2>2. told \in Seq(Msg) /\ Accepted(told) /\ Accepted(hint)
      BY <1>3, <1>15, <1>16, <2>1
    <2>3. CASE messages' = told \o hint
      <3> HIDE DEF told
      <3>1. Accepted(told \o hint)
        BY <2>2, ConcatAccepted
      <3> QED
        BY <1>5, <2>1, <2>3, <3>1
    <2>4. CASE mark # 0
               /\ messages' = Append(SubSeq(told, 1, IF mark < Len(told)
                                                      THEN mark ELSE Len(told)),
                                     Prompt(0)) \o hint
      <3>1. /\ mark \in 1 .. Len(messages)
            /\ messages[mark].role = "tool"
            /\ mark < Len(messages) => messages[mark + 1].role # "tool"
        BY <1>1, <2>4 DEF MarkInv, MarkOK
      <3>2. mark # Len(messages)
        BY <1>1, <2>1, <3>1, MsgFields
      <3>3. mark < Len(messages) /\ mark + 1 \in 1 .. Len(messages)
        BY <1>1, <3>1, <3>2
      <3>4. PICK res \in Seq(Msg) : res = ResultsOf(t.steps, valid)
        BY <1>1, IdsResults
      <3>5. /\ Len(told) = Len(messages) + Len(res) /\ Len(res) \in Nat
            /\ told[mark + 1] = messages[mark + 1]
        BY <1>1, <3>3, <3>4
      <3> HIDE DEF told
      <3>6. mark < Len(told) /\ mark \in 0 .. Len(told)
            /\ told[mark + 1].role # "tool"
        BY <1>1, <3>1, <3>3, <3>5
      <3>7. Accepted(SubSeq(told, 1, mark))
        BY <2>2, <3>6, PrefixAccepted
      <3>8. PICK p \in Seq(Msg) : p = SubSeq(told, 1, mark)
        <4>1. told \in Seq(Msg) /\ mark \in Nat /\ Len(told) \in Nat
              /\ mark <= Len(told)
          BY <1>1, <2>2, <3>6
        <4>2. SubSeq(told, 1, mark) \in Seq(Msg)
          BY <4>1
        <4> QED
          BY <4>2
      <3>9. /\ Append(p, Prompt(0)) \in Seq(Msg)
            /\ Accepted(Append(p, Prompt(0)))
        BY <1>9, <3>7, <3>8
      <3>10. Accepted(Append(p, Prompt(0)) \o hint)
        BY <2>2, <3>9, ConcatAccepted
      <3>11. messages' = Append(p, Prompt(0)) \o hint
        BY <2>4, <3>6, <3>8
      <3> QED
        BY <1>5, <2>1, <3>10, <3>11
    <2> QED
      BY <2>1, <2>3, <2>4
  <1>17. ASSUME NEW valid \in Seq(Whats), Closes(valid)
         PROVE  PairInv'
    BY <1>5, <1>15, <1>17 DEF Closes, saved
  <1>18. CASE Reverts
    <2>1. /\ pc' = "idle" /\ backup' = NoBackup
          /\ messages' = backup.messages \/ (pc = "over" /\ messages' = messages)
      BY <1>18 DEF Reverts
    <2> QED
      BY <1>2, <1>5, <2>1
  <1> QED
    BY <1>7, <1>8, <1>10, <1>11, <1>12, <1>13, <1>14, <1>16, <1>17, <1>18
       DEF SessionKinds

\* While a compaction outdates no checkpoint: outside a running batch every
\* call of the session has its one result right behind it, whichever way its
\* batch ended and whatever a rewind, a compaction or a backup put back left.
THEOREM CallsArePaired ==
    ASSUME MarksStayValid
    PROVE  Spec => []SessionPaired
  <1>1. Init => PairInv
    <2>1. << >> \in Seq(Msg) /\ Len(<< >>) = 0 /\ 1 .. 0 = {}
      OBVIOUS
    <2>2. Accepted(<< >>)
      BY <2>1, PlainAccepted
    <2> QED
      BY <2>2 DEF Init, PairInv, NoBackup
  <1>2. PairInv /\ MarkInv /\ Base /\ [Next]_vars => PairInv'
    <2> SUFFICES ASSUME PairInv, MarkInv, Base, [Next]_vars PROVE PairInv'
      OBVIOUS
    <2>1. SessionKinds
      BY SessionStep DEF Base, SessionInv, SessionType
    <2> QED
      BY <2>1, PairKept
  <1>3. PairInv => SessionPaired
    BY DEF PairInv, SessionPaired
  <1> QED
    BY <1>1, <1>2, <1>3, BaseInvariant, MarkInvariant, PTL DEF Spec

-----------------------------------------------------------------------------
(***************************************************************************)
(* The order in which a TUI's messages are read.                           *)
(***************************************************************************)

\* Prompts that are not queued, in the order they were typed: in one list, in
\* two that follow each other; and all of a list among the first `n`.
Ord(s) ==
    \A i, k \in 1 .. Len(s) :
        i < k /\ s[i][1] # "Queue" /\ s[k][1] # "Queue" => s[i][2] < s[k][2]
Ahead(a, b) ==
    \A i \in 1 .. Len(a), k \in 1 .. Len(b) :
        a[i][1] # "Queue" /\ b[k][1] # "Queue" => a[i][2] < b[k][2]
UpTo(s, n) == \A i \in 1 .. Len(s) : s[i][2] <= n

\* The way of a prompt: it was read, is in the inbox, or waits.
Line == read \o (inbox \o pending)

OrderInv == Ord(Line) /\ UpTo(Line, typed)

\* The order of two lists put together.
LEMMA OrdConcat ==
    ASSUME NEW S, NEW a \in Seq(S), NEW b \in Seq(S)
    PROVE  Ord(a \o b) <=> Ord(a) /\ Ord(b) /\ Ahead(a, b)
  <1>1. PICK c \in Seq(S) : c = a \o b
    BY ConcatProperties
  <1>2. PICK la \in Nat, lb \in Nat : la = Len(a) /\ lb = Len(b)
    OBVIOUS
  <1>3. /\ Len(c) = la + lb
        /\ \A i \in 1 .. la : c[i] = a[i]
        /\ \A i \in 1 .. lb : c[la + i] = b[i]
    BY <1>1, <1>2
  <1>4. /\ \A i \in 1 .. la : i \in 1 .. la + lb
        /\ \A i \in 1 .. lb : la + i \in 1 .. la + lb
        /\ \A i, k \in 1 .. lb : i < k => la + i < la + k
        /\ \A i \in 1 .. la, k \in 1 .. lb : i < la + k
    OBVIOUS
  <1>5. Ord(c) => Ord(a)
    BY <1>2, <1>3, <1>4 DEF Ord
  <1>6. Ord(c) => Ord(b)
    <2> SUFFICES ASSUME Ord(c), NEW i \in 1 .. lb, NEW k \in 1 .. lb, i < k,
                        b[i][1] # "Queue", b[k][1] # "Queue"
                 PROVE  b[i][2] < b[k][2]
      BY <1>2 DEF Ord
    <2>1. PICK x \in 1 .. Len(c), y \in 1 .. Len(c) :
            x = la + i /\ y = la + k /\ x < y
      BY <1>3, <1>4
    <2>2. c[x] = b[i] /\ c[y] = b[k]
      BY <1>3, <2>1
    <2> QED
      BY <2>1, <2>2 DEF Ord
  <1>7. Ord(c) => Ahead(a, b)
    <2> SUFFICES ASSUME Ord(c), NEW i \in 1 .. la, NEW k \in 1 .. lb,
                        a[i][1] # "Queue", b[k][1] # "Queue"
                 PROVE  a[i][2] < b[k][2]
      BY <1>2 DEF Ahead
    <2>1. PICK x \in 1 .. Len(c), y \in 1 .. Len(c) :
            x = i /\ y = la + k /\ x < y
      BY <1>3, <1>4
    <2>2. c[x] = a[i] /\ c[y] = b[k]
      BY <1>3, <2>1
    <2> QED
      BY <2>1, <2>2 DEF Ord
  <1>8. ASSUME Ord(a), Ord(b), Ahead(a, b),
               NEW i \in 1 .. Len(c), NEW k \in 1 .. Len(c), i < k,
               c[i][1] # "Queue", c[k][1] # "Queue"
        PROVE  c[i][2] < c[k][2]
    <2>1. CASE k <= la
      <3>1. i \in 1 .. la /\ k \in 1 .. la
        BY <1>3, <1>8, <2>1
      <3> QED
        BY <1>2, <1>3, <1>8, <3>1 DEF Ord
    <2>2. CASE i <= la /\ k > la
      <3>1. PICK j \in 1 .. lb : k = la + j
        <4>1. k - la \in 1 .. lb /\ k = la + (k - la)
          BY <1>3, <2>2
        <4> QED
          BY <4>1
      <3>2. i \in 1 .. la
        BY <2>2
      <3>3. c[i] = a[i] /\ c[k] = b[j]
        BY <1>3, <3>1, <3>2
      <3> QED
        BY <1>2, <1>8, <3>2, <3>3 DEF Ahead
    <2>3. CASE i > la
      <3>1. PICK j \in 1 .. lb, l \in 1 .. lb :
              i = la + j /\ k = la + l /\ j < l
        <4>1. /\ i - la \in 1 .. lb /\ i = la + (i - la)
              /\ k - la \in 1 .. lb /\ k = la + (k - la) /\ i - la < k - la
          BY <1>3, <1>8, <2>3
        <4> QED
          BY <4>1
      <3>2. c[i] = b[j] /\ c[k] = b[l]
        BY <1>3, <3>1
      <3> QED
        BY <1>2, <1>8, <3>1, <3>2 DEF Ord
    <2> QED
      BY <2>1, <2>2, <2>3
  <1>9. Ord(a) /\ Ord(b) /\ Ahead(a, b) => Ord(c)
    BY <1>8 DEF Ord
  <1> QED
    BY <1>1, <1>5, <1>6, <1>7, <1>9

\* Two lists behind another one, and the numbers of a list.
LEMMA AheadConcat ==
    ASSUME NEW S, NEW a \in Seq(S), NEW b \in Seq(S), NEW c \in Seq(S),
           NEW n \in Nat
    PROVE  /\ Ahead(c, a \o b) <=> Ahead(c, a) /\ Ahead(c, b)
           /\ UpTo(a \o b, n) <=> UpTo(a, n) /\ UpTo(b, n)
  <1>1. PICK d \in Seq(S) : d = a \o b
    BY ConcatProperties
  <1>2. PICK la \in Nat, lb \in Nat : la = Len(a) /\ lb = Len(b)
    OBVIOUS
  <1>3. /\ Len(d) = la + lb
        /\ \A i \in 1 .. la : d[i] = a[i]
        /\ \A i \in 1 .. lb : d[la + i] = b[i]
    BY <1>1, <1>2
  <1>4. /\ \A i \in 1 .. la : i \in 1 .. la + lb
        /\ \A i \in 1 .. lb : la + i \in 1 .. la + lb
    OBVIOUS
  <1>5. ASSUME NEW k \in 1 .. Len(d)
        PROVE  \/ k \in 1 .. la /\ d[k] = a[k]
               \/ \E j \in 1 .. lb : d[k] = b[j]
    <2>1. CASE k <= la
      BY <1>3, <2>1
    <2>2. CASE k > la
      <3>1. k - la \in 1 .. lb /\ k = la + (k - la)
        BY <1>3, <2>2
      <3> QED
        BY <1>3, <3>1
    <2> QED
      BY <2>1, <2>2
  <1>6. Ahead(c, d) => Ahead(c, a) /\ Ahead(c, b)
    <2>1. ASSUME Ahead(c, d), NEW i \in 1 .. Len(c), NEW k \in 1 .. lb,
                 c[i][1] # "Queue", b[k][1] # "Queue"
          PROVE  c[i][2] < b[k][2]
      <3>1. PICK y \in 1 .. Len(d) : y = la + k
        BY <1>3, <1>4
      <3>2. d[y] = b[k]
        BY <1>3, <3>1
      <3> QED
        BY <2>1, <3>2 DEF Ahead
    <2>2. ASSUME Ahead(c, d), NEW i \in 1 .. Len(c), NEW k \in 1 .. la,
                 c[i][1] # "Queue", a[k][1] # "Queue"
          PROVE  c[i][2] < a[k][2]
      BY <1>3, <1>4, <2>2 DEF Ahead
    <2> QED
      BY <1>2, <2>1, <2>2 DEF Ahead
  <1>7. Ahead(c, a) /\ Ahead(c, b) => Ahead(c, d)
    BY <1>2, <1>5 DEF Ahead
  <1>8. UpTo(d, n) => UpTo(a, n) /\ UpTo(b, n)
    BY <1>2, <1>3, <1>4 DEF UpTo
  <1>9. UpTo(a, n) /\ UpTo(b, n) => UpTo(d, n)
    BY <1>2, <1>5 DEF UpTo
  <1> QED
    BY <1>1, <1>6, <1>7, <1>8, <1>9

\* Prompts in order stay so when the queued ones are put behind the others.
LEMMA OrdSteered ==
    ASSUME NEW S, NEW a \in Seq(S), NEW p \in Seq(S), NEW n \in Nat,
           Ord(a \o p), UpTo(a \o p, n)
    PROVE  LET q == Pick(p, Steerable(p)) \o Pick(p, Queued(p))
           IN  Ord(a \o q) /\ UpTo(a \o q, n)
  <1>1. Steerable(p) \subseteq 1 .. Len(p) /\ Queued(p) \subseteq 1 .. Len(p)
    BY DEF Steerable, Queued
  <1>2. PICK x \in Seq(S) : x = Pick(p, Steerable(p))
    BY <1>1, PickIs
  <1>3. PICK y \in Seq(S) : y = Pick(p, Queued(p))
    BY <1>1, PickIs
  <1>4. PICK f : Picked(p, Steerable(p), f, x)
    BY <1>1, <1>2, PickIs
  <1>5. PICK g : Picked(p, Queued(p), g, y)
    BY <1>1, <1>3, PickIs
  <1>6. /\ \A k \in 1 .. Len(x) : f[k] \in 1 .. Len(p) /\ x[k] = p[f[k]]
        /\ \A k, l \in 1 .. Len(x) : k < l => f[k] < f[l]
    BY <1>1, <1>4 DEF Picked
  <1>7. \A k \in 1 .. Len(y) :
          g[k] \in 1 .. Len(p) /\ y[k] = p[g[k]] /\ y[k][1] = "Queue"
    <2>1. \A k \in 1 .. Len(y) : g[k] \in Queued(p) /\ y[k] = p[g[k]]
      BY <1>5 DEF Picked
    <2> QED
      BY <2>1 DEF Queued
  <1>8. Ord(a) /\ Ord(p) /\ Ahead(a, p) /\ UpTo(a, n) /\ UpTo(p, n)
    BY OrdConcat, AheadConcat
  <1>9. Ord(x) /\ Ahead(a, x) /\ UpTo(x, n)
    <2>1. Ord(x)
      <3> SUFFICES ASSUME NEW k \in 1 .. Len(x), NEW l \in 1 .. Len(x), k < l,
                          x[k][1] # "Queue", x[l][1] # "Queue"
                   PROVE  x[k][2] < x[l][2]
        BY DEF Ord
      <3>1. /\ f[k] \in 1 .. Len(p) /\ f[l] \in 1 .. Len(p) /\ f[k] < f[l]
            /\ x[k] = p[f[k]] /\ x[l] = p[f[l]]
        BY <1>6
      <3> QED
        BY <1>8, <3>1 DEF Ord
    <2>2. Ahead(a, x)
      BY <1>6, <1>8 DEF Ahead
    <2>3. UpTo(x, n)
      BY <1>6, <1>8 DEF UpTo
    <2> QED
      BY <2>1, <2>2, <2>3
  <1>10. Ord(y) /\ Ahead(a, y) /\ Ahead(x, y) /\ UpTo(y, n)
    <2>1. UpTo(y, n)
      BY <1>7, <1>8 DEF UpTo
    <2> QED
      BY <1>7, <2>1 DEF Ord, Ahead
  <1>11. PICK q \in Seq(S) : q = x \o y
    BY ConcatProperties
  <1>12. Ord(q)
    BY <1>9, <1>10, <1>11, OrdConcat
  <1>13. Ahead(a, q) /\ UpTo(q, n)
    BY <1>9, <1>10, <1>11, AheadConcat
  <1>14. Ord(a \o q) /\ UpTo(a \o q, n)
    BY <1>8, <1>12, <1>13, OrdConcat, AheadConcat
  <1> QED
    BY <1>2, <1>3, <1>11, <1>14

\* Every step of a TUI keeps the order; but for a prompt that is typed and the
\* hand-over to the turn the line itself stays the same.
LEMMA OrderStep ==
    ASSUME Client = "tui", PostInv, OrderInv, [Next]_vars
    PROVE  OrderInv'
  <1>1. /\ inbox \in Seq(Posts) /\ pending \in Seq(Posts)
        /\ steered \in Seq(Posts) /\ read \in Seq(Posts)
        /\ typed \in Nat /\ MaxMsgs \in Nat
    <2>1. MaxMsgs \in Nat
      BY TurnLoopAssumption
    <2> QED
      BY <2>1 DEF PostInv, PostType
  <1>2. /\ Suffix(inbox, steered)
        /\ pc = "idle" => inbox = << >>
        /\ \A i \in 1 .. Len(inbox) : inbox[i][1] # "Queue"
    BY DEF PostInv, TuiInv
  <1>3. Ord(Line) /\ UpTo(Line, typed)
    BY DEF OrderInv
  <1>4. Line \in Seq(Posts) /\ inbox \o pending \in Seq(Posts)
        /\ read \o inbox \in Seq(Posts)
    BY <1>1 DEF Line
  <1>5. ASSUME Line' = Line, typed' = typed
        PROVE  OrderInv'
    BY <1>3, <1>5 DEF OrderInv
  <1>6. \A s \in Seq(Posts) : << >> \o s = s /\ s \o << >> = s
    OBVIOUS
  <1>7. \A u, v, w \in Seq(Posts) : (u \o v) \o w = u \o (v \o w)
    BY Concat3
  <1>8. ASSUME NEW mode \in Modes, Type(mode)
        PROVE  OrderInv'
    <2>1. PICK p : p = <<mode, typed + 1>>
      OBVIOUS
    <2>2. /\ typed < MaxMsgs /\ typed' = typed + 1 /\ read' = read
          /\ inbox' = inbox /\ pending' = Append(pending, p)
      BY <1>8, <2>1 DEF Type
    <2>3. p \in Posts /\ p[2] = typed + 1 /\ typed + 1 \in Nat
      BY <1>1, <2>1, <2>2 DEF Posts
    <2>4. <<p>> \in Seq(Posts) /\ Append(pending, p) = pending \o <<p>>
      BY <1>1, <2>3, AppendIsConcat
    <2>5. inbox \o (pending \o <<p>>) = (inbox \o pending) \o <<p>>
      BY <1>1, <2>4, Concat3
    <2>6. read \o ((inbox \o pending) \o <<p>>)
            = (read \o (inbox \o pending)) \o <<p>>
      BY SMTT(30), <1>1, <1>4, <2>4, Concat3
    <2>7. Line' = Line \o <<p>>
      BY <2>2, <2>4, <2>5, <2>6 DEF Line
    <2>8. PICK l \in Seq(Posts) : l = Line
      BY <1>4
    <2>9. Ord(l) /\ UpTo(l, typed)
      BY <1>3, <2>8
    <2>10. \A i \in 1 .. Len(l) : l[i][2] \in Nat
      <3>1. \A i \in 1 .. Len(l) : l[i] \in Posts
        OBVIOUS
      <3> QED
        BY <1>1, <3>1 DEF Posts
    <2>11. Ord(<<p>>) /\ UpTo(<<p>>, typed + 1)
      BY <2>3 DEF Ord, UpTo
    <2>12. Ahead(l, <<p>>) /\ UpTo(l, typed + 1)
      <3>1. \A i \in 1 .. Len(l) : l[i][2] < typed + 1 /\ l[i][2] <= typed + 1
        BY <1>1, <2>9, <2>10 DEF UpTo
      <3>2. \A i \in 1 .. Len(<<p>>) : <<p>>[i][2] = typed + 1
        BY <2>3
      <3> QED
        BY <3>1, <3>2 DEF Ahead, UpTo
    <2>13. Ord(l \o <<p>>) /\ UpTo(l \o <<p>>, typed + 1)
      BY <2>3, <2>4, <2>9, <2>11, <2>12, OrdConcat, AheadConcat
    <2> QED
      BY <2>2, <2>7, <2>8, <2>13 DEF OrderInv
  <1>9. CASE Steer
    <2>1. PICK x \in Seq(Posts) : x = Pick(pending, Steerable(pending))
      BY <1>1, PickPosts
    <2>2. PICK y \in Seq(Posts) : y = Pick(pending, Queued(pending))
      BY <1>1, PickPosts
    <2>3. /\ inbox' = inbox \o x /\ pending' = y
          /\ UNCHANGED <<read, typed>>
      BY <1>9, <2>1, <2>2 DEF Steer
    <2>4. PICK a \in Seq(Posts) : a = read \o inbox
      BY <1>4
    <2>5. Line = a \o pending
      <3>1. (read \o inbox) \o pending = read \o (inbox \o pending)
        BY ZenonT(100), <1>1, <1>7
      <3> QED
        BY <2>4, <3>1 DEF Line
    <2>6. Ord(a \o (x \o y)) /\ UpTo(a \o (x \o y), typed)
      BY <1>1, <1>3, <2>1, <2>2, <2>5, OrdSteered
    <2>7. PICK z \in Seq(Posts) : z = x \o y
      BY ConcatProperties
    <2>8. (inbox \o x) \o y = inbox \o (x \o y)
      <3>1. inbox \in Seq(Posts) /\ x \in Seq(Posts) /\ y \in Seq(Posts)
        BY <1>1, <2>1, <2>2
      <3> QED
        BY ZenonT(100), <1>7, <3>1
    <2>9. (read \o inbox) \o z = read \o (inbox \o z)
      <3>1. inbox \in Seq(Posts) /\ read \in Seq(Posts) /\ z \in Seq(Posts)
        BY <1>1, <2>7
      <3> QED
        BY ZenonT(100), <1>7, <3>1
    <2>10. Line' = a \o (x \o y)
      BY <2>3, <2>4, <2>7, <2>8, <2>9 DEF Line
    <2> QED
      BY <2>3, <2>6, <2>10 DEF OrderInv
  <1>10. CASE StartTurn
    <2>1. PICK h \in Posts : h = Head(pending)
      BY <1>1, <1>10 DEF StartTurn
    <2>2. PICK r \in Seq(Posts) : r = Tail(pending)
      <3>1. pending # << >>
        BY <1>10 DEF StartTurn
      <3> QED
        BY <1>1, <3>1, HeadTailProperties
    <2>3. /\ pending # << >> /\ inbox = << >> /\ inbox' = << >>
          /\ pending' = r /\ read' = Append(read, h) /\ typed' = typed
      BY <1>2, <1>10, <2>1, <2>2 DEF StartTurn
    <2>4. pending = <<h>> \o r
      BY <1>1, <2>1, <2>2, <2>3
    <2>5. <<h>> \in Seq(Posts) /\ Append(read, h) = read \o <<h>>
      BY <1>1, AppendIsConcat
    <2>6. (read \o <<h>>) \o r = read \o (<<h>> \o r)
      BY <1>1, <2>5, Concat3
    <2>7. inbox \o pending = pending /\ inbox' \o pending' = r
      BY <1>1, <1>6, <2>3
    <2>8. Line' = Line
      BY <2>3, <2>4, <2>5, <2>6, <2>7 DEF Line
    <2> QED
      BY <1>5, <2>3, <2>8
  <1>11. ASSUME Reclaim, UNCHANGED <<read, typed>>
         PROVE  OrderInv'
    <2>1. SubSeq(steered, Len(steered) - Len(inbox) + 1, Len(steered)) = inbox
      BY <1>1, <1>2, SuffixIs
    <2>2. pending' = inbox \o pending /\ inbox' = << >>
      BY <1>11, <2>1 DEF Reclaim
    <2>3. inbox' \o pending' = inbox \o pending
      BY <1>4, <1>6, <2>2
    <2>4. Line' = Line
      BY <1>11, <2>3 DEF Line
    <2> QED
      BY <1>5, <1>11, <2>4
  <1>12. CASE ForceStop
    BY <1>11, <1>12 DEF ForceStop
  <1>13. CASE Settle
    <2>1. Reclaim /\ UNCHANGED <<read, typed>>
      BY <1>13 DEF Settle
    <2> QED
      BY <1>11, <2>1
  <1>14. CASE Top
    <2>1. Queued(inbox) = {} /\ Steerable(inbox) = 1 .. Len(inbox)
      BY <1>2 DEF Queued, Steerable
    <2>2. Pick(inbox, Queued(inbox)) = << >>
      BY <1>1, <2>1, PickPosts
    <2>3. TakenNow = inbox
      <3>1. Len(inbox) \in Nat
        BY <1>1
      <3>2. Pick(inbox, 1 .. Len(inbox)) = inbox
        BY <1>1, <3>1, PickAll
      <3> QED
        BY <2>1, <3>2 DEF TakenNow
    <2>4. /\ inbox' = << >> /\ read' = read \o inbox
          /\ pending' = pending /\ typed' = typed
      BY <1>14, <2>2, <2>3 DEF Top
    <2>5. inbox' \o pending' = pending
      BY <1>1, <1>6, <2>4
    <2>6. (read \o inbox) \o pending = read \o (inbox \o pending)
      BY <1>1, Concat3
    <2>7. Line' = Line
      BY <2>4, <2>5, <2>6 DEF Line
    <2> QED
      BY <1>5, <2>4, <2>7
  <1>15. CASE Quiet
    <2>1. Line' = Line /\ typed' = typed
      BY <1>15 DEF Quiet, clientVars, Line
    <2> QED
      BY <1>5, <2>1
  <1> QED
    BY <1>8, <1>9, <1>10, <1>12, <1>13, <1>14, <1>15, PostStep

\* For the TUI, with any limits and any number of messages: messages that are
\* not queued are read in the order they were typed, across steps, turns,
\* reclaims and forced stops.
THEOREM MessagesInOrder ==
    ASSUME Client = "tui"
    PROVE  Spec => []ReadInOrder
  <1>1. Init => OrderInv
    <2> SUFFICES ASSUME Init PROVE OrderInv
      OBVIOUS
    <2>1. Line = << >>
      BY DEF Init, Line
    <2> QED
      BY <2>1 DEF OrderInv, Ord, UpTo
  <1>2. OrderInv /\ PostInv /\ [Next]_vars => OrderInv'
    BY OrderStep
  <1>3. OrderInv /\ PostInv => ReadInOrder
    <2> SUFFICES ASSUME OrderInv, PostInv PROVE ReadInOrder
      OBVIOUS
    <2>1. PICK r \in Seq(Posts) : r = read
      BY DEF PostInv, PostType
    <2>2. PICK p \in Seq(Posts) : p = inbox \o pending
      <3>1. inbox \in Seq(Posts) /\ pending \in Seq(Posts)
        BY DEF PostInv, PostType
      <3> QED
        BY <3>1, ConcatProperties
    <2>3. Ord(r \o p)
      BY <2>1, <2>2 DEF OrderInv, Line
    <2>4. Ord(r)
      BY <2>3, OrdConcat
    <2> QED
      BY <2>1, <2>4 DEF Ord, ReadInOrder
  <1> QED
    BY <1>1, <1>2, <1>3, PostInvariant, PTL DEF Spec

-----------------------------------------------------------------------------
(***************************************************************************)
(* Where a typed message is: counted over the session, the inbox and what  *)
(* waits, so that the order in which they pass it on does not matter.      *)
(***************************************************************************)

\* Nothing takes a message out of the session again: no forced stop, no
\* compaction, no rewind.
NothingUndone ==
    ~Forced /\ MaxCompactFails = 0 /\ MaxOverflow = 0 /\ RewindSigs = {}

\* Positions of the elements of `T`, and how many there are.
At(s, T) == {i \in 1 .. Len(s) : s[i] \in T}
Times(s, T) == Cardinality(At(s, T))

\* The ways to send the message `m`.
Of(m) == Modes \X {m}

SentInv ==
    \A m \in Nat \ {0} :
        Times(messages, {Prompt(m)})
          + (Times(inbox, Of(m)) + Times(pending, Of(m)))
          = IF m <= typed THEN 1 ELSE 0

\* Sets whose elements correspond have as many.
LEMMA SameSize ==
    ASSUME NEW S, NEW T, NEW f \in [S -> T], IsFiniteSet(S),
           \A x, y \in S : f[x] = f[y] => x = y,
           \A y \in T : \E x \in S : f[x] = y
    PROVE  IsFiniteSet(T) /\ Cardinality(T) = Cardinality(S)
  <1>1. f \in Bijection(S, T)
    BY DEF Bijection, Injection, Surjection, IsInjective
  <1>2. ExistsBijection(S, T)
    BY <1>1 DEF ExistsBijection
  <1> QED
    BY <1>2, FS_Bijection

\* Two sets without a common element.
LEMMA SizeOfBoth ==
    ASSUME NEW A, NEW B, IsFiniteSet(A), IsFiniteSet(B), A \cap B = {}
    PROVE  /\ IsFiniteSet(A \cup B) /\ Cardinality(A) \in Nat
           /\ Cardinality(B) \in Nat
           /\ Cardinality(A \cup B) = Cardinality(A) + Cardinality(B)
  <1>1. /\ IsFiniteSet(A \cup B)
        /\ Cardinality(A \cup B)
             = Cardinality(A) + Cardinality(B) - Cardinality(A \cap B)
    BY FS_Union
  <1>2. Cardinality(A \cap B) = 0
    BY FS_EmptySet
  <1>3. Cardinality(A) \in Nat /\ Cardinality(B) \in Nat
    BY FS_CardinalityType
  <1> QED
    BY <1>1, <1>2, <1>3

\* A count is a number, and none without an element.
LEMMA TimesIs ==
    ASSUME NEW S, NEW s \in Seq(S), NEW T
    PROVE  /\ IsFiniteSet(At(s, T)) /\ Times(s, T) \in Nat
           /\ (\A i \in 1 .. Len(s) : s[i] \notin T) => Times(s, T) = 0
  <1>1. Len(s) \in Nat
    OBVIOUS
  <1>2. At(s, T) \subseteq 1 .. Len(s)
    BY DEF At
  <1>3. IsFiniteSet(At(s, T))
    <2>1. IsFiniteSet(1 .. Len(s))
      BY <1>1, FS_Interval
    <2> QED
      BY <1>2, <2>1, FS_Subset
  <1>4. (\A i \in 1 .. Len(s) : s[i] \notin T) => At(s, T) = {}
    BY DEF At
  <1> QED
    BY <1>3, <1>4, FS_CardinalityType, FS_EmptySet DEF Times

\* Counts of two lists put together add up.
LEMMA TimesConcat ==
    ASSUME NEW S, NEW a \in Seq(S), NEW b \in Seq(S), NEW T
    PROVE  Times(a \o b, T) = Times(a, T) + Times(b, T)
  <1>1. PICK c \in Seq(S) : c = a \o b
    BY ConcatProperties
  <1>2. PICK la \in Nat, lb \in Nat : la = Len(a) /\ lb = Len(b)
    OBVIOUS
  <1>3. /\ Len(c) = la + lb
        /\ \A i \in 1 .. la : c[i] = a[i]
        /\ \A i \in 1 .. lb : c[la + i] = b[i]
    BY <1>1, <1>2
  <1> DEFINE B == {i \in 1 .. Len(c) : i > la /\ c[i] \in T}
             f == [i \in At(b, T) |-> la + i]
  <1>4. At(c, T) = At(a, T) \cup B /\ At(a, T) \cap B = {}
    <2>1. \A i \in 1 .. Len(c) : i > la \/ i \in 1 .. la
      BY <1>3
    <2>2. \A i \in 1 .. la : i \in 1 .. Len(c) /\ ~(i > la)
      BY <1>3
    <2> QED
      BY <1>2, <1>3, <2>1, <2>2 DEF At
  <1>5. f \in [At(b, T) -> B]
    <2>1. ASSUME NEW i \in At(b, T)
          PROVE  la + i \in B
      <3>1. i \in 1 .. lb /\ b[i] \in T
        BY <1>2 DEF At
      <3>2. la + i \in 1 .. Len(c) /\ la + i > la
        BY <1>3, <3>1
      <3> QED
        BY <1>3, <3>1, <3>2
    <2> QED
      BY <2>1
  <1>6. \A x, y \in At(b, T) : f[x] = f[y] => x = y
    <2>1. \A x \in At(b, T) : x \in Nat
      BY DEF At
    <2> QED
      BY <2>1
  <1>7. ASSUME NEW y \in B
        PROVE  \E x \in At(b, T) : f[x] = y
    <2>1. y - la \in 1 .. lb /\ la + (y - la) = y
      BY <1>3
    <2>2. b[y - la] \in T
      BY <1>3, <2>1
    <2>3. y - la \in At(b, T)
      BY <1>2, <2>1, <2>2 DEF At
    <2> QED
      BY <2>1, <2>3
  <1>8. IsFiniteSet(At(a, T)) /\ IsFiniteSet(At(b, T))
    BY TimesIs
  <1> HIDE DEF B, f
  <1>9. IsFiniteSet(B) /\ Cardinality(B) = Cardinality(At(b, T))
    BY <1>5, <1>6, <1>7, <1>8, SameSize
  <1>10. Cardinality(At(a, T) \cup B) = Cardinality(At(a, T)) + Cardinality(B)
    BY <1>4, <1>8, <1>9, SizeOfBoth
  <1> QED
    BY <1>1, <1>4, <1>9, <1>10 DEF Times

\* One element.
LEMMA TimesOne ==
    ASSUME NEW x, NEW T
    PROVE  Times(<<x>>, T) = IF x \in T THEN 1 ELSE 0
  <1>1. Len(<<x>>) = 1 /\ <<x>>[1] = x /\ 1 .. 1 = {1}
    OBVIOUS
  <1>2. At(<<x>>, T) = IF x \in T THEN {1} ELSE {}
    BY <1>1 DEF At
  <1> QED
    BY <1>2, FS_Singleton, FS_EmptySet DEF Times

\* The counts of the queued prompts and of the others.
LEMMA TimesParted ==
    ASSUME NEW S, NEW s \in Seq(S), NEW T
    PROVE  Times(Pick(s, Steerable(s)), T) + Times(Pick(s, Queued(s)), T)
             = Times(s, T)
  <1>1. ASSUME NEW at, at \subseteq 1 .. Len(s)
        PROVE  /\ IsFiniteSet(At(s, T) \cap at)
               /\ Times(Pick(s, at), T) = Cardinality(At(s, T) \cap at)
    <2>1. PICK p \in Seq(S) : p = Pick(s, at)
      BY <1>1, PickIs
    <2>2. PICK f : Picked(s, at, f, p)
      BY <1>1, <2>1, PickIs
    <2>3. /\ \A k \in 1 .. Len(p) : f[k] \in at /\ p[k] = s[f[k]]
          /\ \A k, l \in 1 .. Len(p) : k < l => f[k] < f[l]
          /\ \A i \in at : \E k \in 1 .. Len(p) : f[k] = i
      BY <2>2 DEF Picked
    <2> DEFINE g == [k \in At(p, T) |-> f[k]]
               U == At(s, T) \cap at
    <2>4. g \in [At(p, T) -> U]
      BY <1>1, <2>3 DEF At
    <2>5. ASSUME NEW x \in At(p, T), NEW y \in At(p, T), g[x] = g[y]
          PROVE  x = y
      <3>1. x \in 1 .. Len(p) /\ y \in 1 .. Len(p) /\ f[x] = f[y]
        BY <2>5 DEF At
      <3>2. f[x] \in at /\ f[y] \in at
        BY <2>3, <3>1
      <3>3. f[x] \in Nat /\ f[y] \in Nat
        <4>1. \A i \in at : i \in Nat
          BY <1>1
        <4> QED
          BY <3>2, <4>1, Zenon
      <3>4. x < y \/ y < x \/ x = y
        BY <3>1
      <3> QED
        BY <2>3, <3>1, <3>3, <3>4
    <2>6. \A y \in U : \E x \in At(p, T) : g[x] = y
      BY <2>3 DEF At
    <2>7. IsFiniteSet(At(p, T))
      BY TimesIs
    <2> HIDE DEF g, U
    <2>8. IsFiniteSet(U) /\ Cardinality(U) = Cardinality(At(p, T))
      BY <2>4, <2>5, <2>6, <2>7, SameSize
    <2> QED
      BY <2>1, <2>8 DEF Times, U
  <1> DEFINE A == At(s, T) \cap Steerable(s)
             B == At(s, T) \cap Queued(s)
  <1>2. Steerable(s) \subseteq 1 .. Len(s) /\ Queued(s) \subseteq 1 .. Len(s)
    BY DEF Steerable, Queued
  <1>3. A \cup B = At(s, T) /\ A \cap B = {}
    BY DEF At, Steerable, Queued
  <1>4. /\ IsFiniteSet(A) /\ Times(Pick(s, Steerable(s)), T) = Cardinality(A)
        /\ IsFiniteSet(B) /\ Times(Pick(s, Queued(s)), T) = Cardinality(B)
    BY <1>1, <1>2
  <1> HIDE DEF A, B
  <1>5. Cardinality(A \cup B) = Cardinality(A) + Cardinality(B)
    BY <1>3, <1>4, SizeOfBoth
  <1> QED
    BY <1>3, <1>4, <1>5 DEF Times

\* Messages of the user, in the session and on their way to it.
LEMMA PromptsIs ==
    ASSUME NEW m \in Nat \ {0}
    PROVE  /\ \A x \in Msg : x \in {Prompt(m)} <=> RealUserTurn(x) /\ x.what = m
           /\ \A x \in Posts : x \in Of(m) <=> x[2] = m
  <1>1. ASSUME NEW x \in Msg, RealUserTurn(x), x.what = m
        PROVE  x = Prompt(m)
    BY <1>1 DEF Msg, RealUserTurn, Prompt
  <1>2. \A x \in Posts : x \in Of(m) <=> x[2] = m
    BY DEF Posts, Of
  <1> QED
    BY <1>1, <1>2, MsgFields

\* The agent's own messages count for nothing.
LEMMA TimesOurs ==
    ASSUME NEW p \in Seq(Msg), Ours(p), NEW m
    PROVE  Times(p, {Prompt(m)}) = 0
  <1>1. \A i \in 1 .. Len(p) : p[i] # Prompt(m)
    BY MsgFields DEF Ours
  <1> QED
    BY <1>1, TimesIs

\* The messages made of prompts.
LEMMA TimesPrompts ==
    ASSUME NEW s \in Seq(Posts), NEW p \in Seq(Msg), NEW m \in Nat \ {0},
           Len(p) = Len(s), \A i \in 1 .. Len(p) : p[i] = Prompt(s[i][2])
    PROVE  Times(p, {Prompt(m)}) = Times(s, Of(m))
  <1>1. ASSUME NEW i \in 1 .. Len(s)
        PROVE  p[i] \in {Prompt(m)} <=> s[i] \in Of(m)
    <2>1. s[i] \in Posts
      OBVIOUS
    <2>2. Prompt(s[i][2]) = Prompt(m) <=> s[i][2] = m
      <3>1. Prompt(s[i][2]).what = s[i][2] /\ Prompt(m).what = m
        BY MsgFields
      <3> QED
        BY <3>1
    <2> QED
      BY <2>1, <2>2, PromptsIs
  <1>2. At(p, {Prompt(m)}) = At(s, Of(m))
    BY <1>1 DEF At
  <1> QED
    BY <1>2 DEF Times

\* Every step keeps the count of a message.
LEMMA SentStep ==
    ASSUME NothingUndone, Base, SentInv, SessionKinds, [Next]_vars
    PROVE  SentInv'
  <1> SUFFICES ASSUME NEW m \in Nat \ {0}
               PROVE  Times(messages', {Prompt(m)})
                        + (Times(inbox', Of(m)) + Times(pending', Of(m)))
                        = IF m <= typed' THEN 1 ELSE 0
    BY DEF SentInv
  <1>1. /\ inbox \in Seq(Posts) /\ pending \in Seq(Posts)
        /\ steered \in Seq(Posts) /\ typed \in Nat /\ MaxMsgs \in Nat
        /\ messages \in Seq(Msg)
    <2>1. MaxMsgs \in Nat
      BY TurnLoopAssumption
    <2> QED
      BY <2>1, BaseTypes DEF Base, PostInv, PostType
  <1>2. PICK M \in Nat, I \in Nat, P \in Nat :
          /\ M = Times(messages, {Prompt(m)}) /\ I = Times(inbox, Of(m))
          /\ P = Times(pending, Of(m))
    BY <1>1, TimesIs
  <1>3. M + (I + P) = IF m <= typed THEN 1 ELSE 0
    BY <1>2 DEF SentInv
  <1>4. ASSUME typed' = typed, inbox' = inbox, pending' = pending,
               Times(messages', {Prompt(m)}) = M
        PROVE  Times(messages', {Prompt(m)})
                 + (Times(inbox', Of(m)) + Times(pending', Of(m)))
                 = IF m <= typed' THEN 1 ELSE 0
    BY <1>2, <1>3, <1>4
  <1>5. ASSUME typed' = typed, messages' = messages,
               NEW i \in Nat, NEW p \in Nat, i + p = I + P,
               Times(inbox', Of(m)) = i, Times(pending', Of(m)) = p
        PROVE  Times(messages', {Prompt(m)})
                 + (Times(inbox', Of(m)) + Times(pending', Of(m)))
                 = IF m <= typed' THEN 1 ELSE 0
    BY <1>2, <1>3, <1>5
  <1>6. Times(<< >>, Of(m)) = 0
    <2>1. << >> \in Seq(Posts) /\ Len(<< >>) = 0 /\ 1 .. 0 = {}
      OBVIOUS
    <2> QED
      BY <2>1, TimesIs
  <1>7. ASSUME NEW a \in Seq(Msg), Ours(a)
        PROVE  Times(messages \o a, {Prompt(m)}) = M
    <2>1. Times(messages \o a, {Prompt(m)})
            = Times(messages, {Prompt(m)}) + Times(a, {Prompt(m)})
      BY <1>1, TimesConcat
    <2>2. Times(a, {Prompt(m)}) = 0
      BY <1>7, TimesOurs
    <2> QED
      BY <1>2, <2>1, <2>2
  <1>8. ASSUME NEW mode \in Modes, Type(mode)
        PROVE  Times(messages', {Prompt(m)})
                 + (Times(inbox', Of(m)) + Times(pending', Of(m)))
                 = IF m <= typed' THEN 1 ELSE 0
    <2>1. PICK x : x = <<mode, typed + 1>>
      OBVIOUS
    <2>2. x \in Posts /\ (x \in Of(m) <=> m = typed + 1)
      BY <1>1, <1>8, <2>1 DEF Posts, Of, Type
    <2>3. \A s \in Seq(Posts) :
            Times(Append(s, x), Of(m))
              = Times(s, Of(m)) + (IF m = typed + 1 THEN 1 ELSE 0)
      <3> SUFFICES ASSUME NEW s \in Seq(Posts)
                   PROVE  Times(Append(s, x), Of(m)) = Times(s, Of(m))
                            + (IF m = typed + 1 THEN 1 ELSE 0)
        OBVIOUS
      <3>1. <<x>> \in Seq(Posts) /\ Append(s, x) = s \o <<x>>
        BY <2>2, AppendIsConcat
      <3>2. Times(s \o <<x>>, Of(m)) = Times(s, Of(m)) + Times(<<x>>, Of(m))
        BY <3>1, TimesConcat
      <3>3. Times(<<x>>, Of(m)) = IF m = typed + 1 THEN 1 ELSE 0
        BY <2>2, TimesOne
      <3> QED
        BY <3>1, <3>2, <3>3
    <2>4. /\ typed' = typed + 1 /\ messages' = messages
          /\ \/ pending' = Append(pending, x) /\ inbox' = inbox
             \/ inbox' = Append(inbox, x) /\ pending' = pending
      BY <1>8, <2>1 DEF Type
    <2>5. \/ /\ Times(pending', Of(m)) = P + (IF m = typed + 1 THEN 1 ELSE 0)
             /\ Times(inbox', Of(m)) = I
          \/ /\ Times(inbox', Of(m)) = I + (IF m = typed + 1 THEN 1 ELSE 0)
             /\ Times(pending', Of(m)) = P
      BY <1>1, <1>2, <2>3, <2>4
    <2>6. Times(messages', {Prompt(m)}) = M
      BY <1>2, <2>4
    <2> QED
      BY <1>1, <1>3, <2>4, <2>5, <2>6
  <1>9. CASE Steer
    <2>1. PICK x \in Seq(Posts) : x = Pick(pending, Steerable(pending))
      BY <1>1, PickPosts
    <2>2. PICK y \in Seq(Posts) : y = Pick(pending, Queued(pending))
      BY <1>1, PickPosts
    <2>3. /\ inbox' = inbox \o x /\ pending' = y
          /\ messages' = messages /\ typed' = typed
      BY <1>9, <2>1, <2>2 DEF Steer
    <2>4. PICK X \in Nat, Y \in Nat :
            X = Times(x, Of(m)) /\ Y = Times(y, Of(m))
      BY <2>1, <2>2, TimesIs
    <2>5. X + Y = P
      BY <1>1, <1>2, <2>1, <2>2, <2>4, TimesParted
    <2>6. Times(inbox \o x, Of(m)) = I + X
      BY <1>1, <1>2, <2>1, <2>4, TimesConcat
    <2>7. I + X \in Nat /\ (I + X) + Y = I + P
      BY <2>5
    <2> QED
      BY <1>5, <2>3, <2>4, <2>6, <2>7
  <1>10. CASE StartTurn
    <2>1. pending # << >>
      BY <1>10 DEF StartTurn
    <2>2. PICK h \in Posts, r \in Seq(Posts) :
            h = Head(pending) /\ r = Tail(pending)
      BY <1>1, <2>1, HeadTailProperties
    <2>3. /\ messages' = Append(messages, Prompt(h[2])) /\ pending' = r
          /\ inbox' = inbox /\ typed' = typed
      BY <1>10, <2>2 DEF StartTurn
    <2>4. pending = <<h>> \o r
      BY <1>1, <2>1, <2>2
    <2>5. <<h>> \in Seq(Posts) /\ r \in Seq(Posts)
      BY <2>2
    <2>6. Times(<<h>> \o r, Of(m)) = Times(<<h>>, Of(m)) + Times(r, Of(m))
      BY <2>5, TimesConcat
    <2>7. PICK X : X = IF h[2] = m THEN 1 ELSE 0
      OBVIOUS
    <2>8. Times(<<h>>, Of(m)) = X
      BY <2>2, <2>7, PromptsIs, TimesOne
    <2>9. PICK q \in Msg : q = Prompt(h[2])
      <3>1. h[2] \in Nat
        BY <1>1, <2>2 DEF Posts
      <3> QED
        BY <3>1, MakeMsg
    <2>10. Times(<<q>>, {Prompt(m)}) = X
      <3>1. q \in {Prompt(m)} <=> h[2] = m
        BY <2>9, MsgFields
      <3> QED
        BY <2>7, <3>1, TimesOne
    <2>11. <<q>> \in Seq(Msg) /\ Append(messages, q) = messages \o <<q>>
      BY <1>1, <2>9, AppendIsConcat
    <2>12. Times(messages \o <<q>>, {Prompt(m)})
             = Times(messages, {Prompt(m)}) + Times(<<q>>, {Prompt(m)})
      <3>1. PICK a \in Seq(Msg), b \in Seq(Msg) : a = messages /\ b = <<q>>
        BY <1>1, <2>11
      <3>2. Times(a \o b, {Prompt(m)}) = Times(a, {Prompt(m)}) + Times(b, {Prompt(m)})
        <4>1. a \in Seq(Msg) /\ b \in Seq(Msg)
          BY <3>1
        <4> QED
          BY <4>1, TimesConcat
      <3> QED
        BY <3>1, <3>2
    <2>13. PICK Y \in Nat : Y = Times(r, Of(m))
      BY <2>5, TimesIs
    <2>14. P = X + Y /\ X \in Nat
      BY <1>2, <2>4, <2>6, <2>7, <2>8, <2>13
    <2>15. Times(messages', {Prompt(m)}) = M + X
      BY <1>2, <2>3, <2>9, <2>10, <2>11, <2>12
    <2>16. Times(inbox', Of(m)) = I /\ Times(pending', Of(m)) = Y
      BY <1>2, <2>3, <2>13
    <2>17. (M + X) + (I + Y) = M + (I + P)
      BY SMTT(30), <1>2, <2>13, <2>14
    <2> QED
      BY <1>3, <2>3, <2>15, <2>16, <2>17
  <1>11. CASE ForceStop
    BY <1>11 DEF ForceStop, NothingUndone
  <1>12. CASE Settle
    <2>1. typed' = typed /\ messages' = messages
      BY <1>12 DEF Settle
    <2>2. \/ pending' = inbox \o pending /\ inbox' = << >>
          \/ pending' = pending \o inbox /\ inbox' = << >>
          \/ pending' = pending /\ inbox' = inbox
      <3>1. CASE Client = "tui"
        <4>1. Reclaim
          BY <1>12, <3>1 DEF Settle
        <4>2. Suffix(inbox, steered)
          BY <3>1 DEF Base, PostInv, TuiInv
        <4>3. SubSeq(steered, Len(steered) - Len(inbox) + 1, Len(steered))
                = inbox
          BY <1>1, <4>2, SuffixIs
        <4> QED
          BY <4>1, <4>3 DEF Reclaim
      <3>2. CASE Client # "tui"
        BY <1>12, <3>2, TurnLoopAssumption DEF Settle
      <3> QED
        BY <3>1, <3>2
    <2>3. /\ Times(inbox \o pending, Of(m)) = I + P
          /\ Times(pending \o inbox, Of(m)) = P + I
      BY <1>1, <1>2, TimesConcat
    <2>4. CASE pending' = pending /\ inbox' = inbox
      BY <1>2, <1>4, <2>1, <2>4
    <2>5. CASE pending' \in {inbox \o pending, pending \o inbox}
               /\ inbox' = << >>
      <3>1. Times(pending', Of(m)) = I + P /\ Times(inbox', Of(m)) = 0
        <4>1. Times(pending', Of(m)) \in {I + P, P + I}
          BY <2>3, <2>5
        <4>2. I + P = P + I
          BY <1>2
        <4> QED
          BY <1>6, <2>5, <4>1, <4>2
      <3>2. I + P \in Nat /\ 0 + (I + P) = I + P
        BY <1>2
      <3> QED
        BY <1>5, <2>1, <3>1, <3>2
    <2> QED
      BY <2>2, <2>4, <2>5
  <1>13. CASE Top
    <2>1. PICK x \in Seq(Posts) : x = TakenNow
      BY <1>1, PickPosts DEF TakenNow
    <2>2. PICK y \in Seq(Posts) : y = Pick(inbox, Queued(inbox))
      BY <1>1, PickPosts
    <2>3. PICK p \in Seq(Msg) :
            /\ p = [i \in 1 .. Len(TakenNow) |-> Prompt(TakenNow[i][2])]
            /\ Len(p) = Len(x)
            /\ \A i \in 1 .. Len(p) : p[i] = Prompt(x[i][2])
      BY <1>1, <2>1, TakenIs
    <2>4. PICK jobs \in {<< >>, <<Note("job")>>} :
             messages' = messages \o jobs \o p
      BY <1>13, <2>3 DEF Top
    <2>5. /\ inbox' = y /\ pending' = pending /\ typed' = typed
      BY <1>13, <2>2 DEF Top
    <2>6. jobs \in Seq(Msg) /\ Ours(jobs)
      <3>1. Note("job") \in Msg /\ ~RealUserTurn(Note("job"))
        BY MakeMsg, MsgFields
      <3>2. jobs = << >> \/ jobs = <<Note("job")>>
        BY <2>4
      <3>3. CASE jobs = << >>
        BY <3>3 DEF Ours
      <3>4. CASE jobs = <<Note("job")>>
        BY <3>1, <3>4 DEF Ours
      <3> QED
        BY <3>2, <3>3, <3>4
    <2>7. Times(messages \o jobs, {Prompt(m)}) = M /\ messages \o jobs \in Seq(Msg)
      BY <1>1, <1>7, <2>6, ConcatProperties
    <2>8. PICK X \in Nat, Y \in Nat :
            X = Times(x, Of(m)) /\ Y = Times(y, Of(m))
      BY <2>1, <2>2, TimesIs
    <2>9. X + Y = I
      BY <1>1, <1>2, <2>1, <2>2, <2>8, TimesParted DEF TakenNow
    <2>10. Times(p, {Prompt(m)}) = X
      BY <2>1, <2>3, <2>8, TimesPrompts
    <2>11. PICK a \in Seq(Msg) : a = messages \o jobs
      BY <2>7
    <2>12. Times(a \o p, {Prompt(m)}) = M + X
      <3>1. a \in Seq(Msg) /\ p \in Seq(Msg)
        BY <2>3, <2>11
      <3>2. Times(a \o p, {Prompt(m)}) = Times(a, {Prompt(m)}) + Times(p, {Prompt(m)})
        BY <3>1, TimesConcat
      <3> QED
        BY <2>7, <2>10, <2>11, <3>2
    <2>13. Times(messages', {Prompt(m)}) = M + X
      BY <2>4, <2>11, <2>12
    <2>14. Times(inbox', Of(m)) = Y /\ Times(pending', Of(m)) = P
      BY <1>2, <2>5, <2>8
    <2>15. (M + X) + (Y + P) = M + (I + P)
      <3>1. M \in Nat /\ P \in Nat /\ X \in Nat /\ Y \in Nat
        BY <1>2, <2>8
      <3> QED
        BY <2>9, <3>1
    <2> QED
      BY <1>3, <2>5, <2>13, <2>14, <2>15
  <1>14. CASE Quiet /\ ~Top
    <2>1. typed' = typed /\ inbox' = inbox /\ pending' = pending
      BY <1>14 DEF Quiet, clientVars
    <2>2. SUFFICES Times(messages', {Prompt(m)}) = M
      BY <1>4, <2>1
    <2>3. ASSUME messages' = messages
          PROVE  Times(messages', {Prompt(m)}) = M
      BY <1>2, <2>3
    <2>4. ASSUME NEW step \in Nat, NEW bodies \in Seq(Whats)
          PROVE  /\ ResultsOf(step, bodies) \in Seq(Msg)
                 /\ Ours(ResultsOf(step, bodies))
      <3>1. turn \in Nat
        BY BaseTypes
      <3>2. /\ ResultsOf(step, bodies) \in Seq(Msg)
            /\ Len(ResultsOf(step, bodies)) = Len(bodies)
            /\ \A i \in 1 .. Len(bodies) :
                 ResultsOf(step, bodies)[i] = Result(CallId(step, i), bodies[i])
        BY <3>1, IdsResults, Zenon
      <3>3. PICK q \in Seq(Msg) : q = ResultsOf(step, bodies)
        BY <3>2
      <3>4. ASSUME NEW i \in 1 .. Len(q) PROVE ~RealUserTurn(q[i])
        <4>1. q[i] = Result(CallId(step, i), bodies[i])
          BY <3>2, <3>3
        <4>2. q[i].role = "tool"
          BY <4>1 DEF Result
        <4> QED
          BY <4>2 DEF RealUserTurn
      <3>5. Ours(q)
        BY <3>4 DEF Ours
      <3> QED
        BY <3>3, <3>5
    <2>5. ASSUME NEW step \in Nat, NEW cs \in Batches
          PROVE  /\ Assistant(IdsOf(step, cs)) \in Msg
                 /\ <<Assistant(IdsOf(step, cs))>> \in Seq(Msg)
                 /\ Ours(<<Assistant(IdsOf(step, cs))>>)
      <3>1. turn \in Nat /\ cs \in Seq(Sigs)
        BY BaseTypes, BatchesIs
      <3>2. PICK q \in Msg : q = Assistant(IdsOf(step, cs)) /\ ~RealUserTurn(q)
        BY <3>1, IdsResults, MakeMsg, MsgFields
      <3>3. <<q>> \in Seq(Msg) /\ Ours(<<q>>)
        BY <3>2 DEF Ours
      <3> QED
        BY <3>2, <3>3
    <2>6. t.steps \in Nat /\ t.steps + 1 \in Nat
      BY BaseTypes
    <2>7. CASE Stays \/ Runs
      BY <2>3, <2>7 DEF Stays, Runs
    <2>8. ASSUME NEW add \in Seq(Msg), Adds(add)
          PROVE  Times(messages', {Prompt(m)}) = M
      BY <1>7, <1>14, <2>8 DEF Adds
    <2>9. ASSUME NEW k \in Nat, Starts(k)
          PROVE  FALSE
      BY <1>14, <2>9 DEF Starts, Quiet
    <2>10. ~Compacts /\ ~Reverts
      BY DEF Compacts, Reverts, NothingUndone
    <2>11. ASSUME NEW cs \in Batches, Opens(cs)
           PROVE  Times(messages', {Prompt(m)}) = M
      <3>1. PICK q \in Msg : /\ q = Assistant(IdsOf(t.steps + 1, cs))
                             /\ <<q>> \in Seq(Msg) /\ Ours(<<q>>)
        BY <2>5, <2>6
      <3>2. messages' = messages \o <<q>>
        BY <1>1, <2>11, <3>1, AppendIsConcat DEF Opens
      <3> QED
        BY <1>7, <3>1, <3>2
    <2>12. ASSUME NEW cs \in Batches, Refuses(cs)
           PROVE  Times(messages', {Prompt(m)}) = M
      <3>1. PICK q \in Msg : /\ q = Assistant(IdsOf(t.steps + 1, cs))
                             /\ <<q>> \in Seq(Msg) /\ Ours(<<q>>)
        BY <2>5, <2>6
      <3>2. PICK d \in Seq(Whats) : d = [i \in 1 .. Len(cs) |-> "doom"]
        <4>1. cs \in Seq(Sigs) /\ turn \in Nat
          BY BatchesIs, BaseTypes
        <4> QED
          BY <2>6, <4>1, RefusedIs
      <3>3. PICK b \in Seq(Msg) : b = ResultsOf(t.steps + 1, d) /\ Ours(b)
        BY <2>4, <2>6, <3>2
      <3>4. messages' = Append(messages, q) \o b
        BY <2>12, <3>1, <3>2, <3>3 DEF Refuses
      <3>5. PICK a \in Seq(Msg) : a = messages \o <<q>> /\ a = Append(messages, q)
        BY <1>1, <3>1, AppendIsConcat, ConcatProperties
      <3>6. Times(a, {Prompt(m)}) = M
        BY <1>7, <3>1, <3>5
      <3>7. Times(a \o b, {Prompt(m)})
              = Times(a, {Prompt(m)}) + Times(b, {Prompt(m)})
        <4>1. a \in Seq(Msg) /\ b \in Seq(Msg)
          BY <3>3, <3>5
        <4> QED
          BY <4>1, TimesConcat
      <3>8. Times(b, {Prompt(m)}) = 0
        BY <3>3, TimesOurs
      <3> QED
        <4>1. messages' = a \o b /\ M + 0 = M
          BY SMTT(30), <1>2, <3>4, <3>5
        <4> QED
          BY <3>6, <3>7, <3>8, <4>1
    <2>13. ASSUME NEW valid \in Seq(Whats), NEW hint \in Seq(Msg), Plain(hint),
                  Settles(valid, hint)
           PROVE  Times(messages', {Prompt(m)}) = M
      <3>1. PICK b \in Seq(Msg) : b = ResultsOf(t.steps, valid) /\ Ours(b)
        BY <2>4, <2>6
      <3>2. messages' = (messages \o b) \o hint /\ Ours(hint)
        BY <2>13, <3>1 DEF Settles, NothingUndone
      <3>3. PICK a \in Seq(Msg) : a = messages \o b
        BY <1>1, <3>1, ConcatProperties
      <3>4. Times(a, {Prompt(m)}) = M
        BY <1>7, <3>1, <3>3
      <3>5. Times(a \o hint, {Prompt(m)})
              = Times(a, {Prompt(m)}) + Times(hint, {Prompt(m)})
        BY ZenonT(40), <3>3, TimesConcat
      <3>6. Times(hint, {Prompt(m)}) = 0
        BY <3>2, TimesOurs
      <3> QED
        BY <1>2, <3>2, <3>3, <3>4, <3>5, <3>6
    <2>14. ASSUME NEW valid \in Seq(Whats), Closes(valid)
           PROVE  Times(messages', {Prompt(m)}) = M
      BY <1>7, <2>4, <2>6, <2>14 DEF Closes
    <2> QED
      BY <2>7, <2>8, <2>9, <2>10, <2>11, <2>12, <2>13, <2>14 DEF SessionKinds
  <1> QED
    BY <1>8, <1>9, <1>10, <1>11, <1>12, <1>13, <1>14, PostStep

\* The places of a message are as many as the counts say.
LEMMA PlacesIs ==
    ASSUME Base, NEW m \in Nat \ {0}
    PROVE  Cardinality(Places(m))
             = Times(messages, {Prompt(m)})
                 + (Times(inbox, Of(m)) + Times(pending, Of(m)))
  <1>1. /\ inbox \in Seq(Posts) /\ pending \in Seq(Posts)
        /\ messages \in Seq(Msg)
    BY BaseTypes DEF Base, PostInv, PostType
  <1>2. PICK p, i, s : /\ p = At(pending, Of(m)) /\ i = At(inbox, Of(m))
                       /\ s = At(messages, {Prompt(m)})
    OBVIOUS
  <1>3. IsFiniteSet(p) /\ IsFiniteSet(i) /\ IsFiniteSet(s)
    BY <1>1, <1>2, TimesIs
  <1>4. p = {k \in 1 .. Len(pending) : pending[k][2] = m}
    BY <1>1, <1>2, PromptsIs DEF At
  <1>5. i = {k \in 1 .. Len(inbox) : inbox[k][2] = m}
    BY <1>1, <1>2, PromptsIs DEF At
  <1>6. s = {k \in 1 .. Len(messages) :
               RealUserTurn(messages[k]) /\ messages[k].what = m}
    BY <1>1, <1>2, PromptsIs DEF At
  <1> DEFINE Tag(n, S) == {<<n, k>> : k \in S}
  <1>7. Places(m) = (Tag("pending", p) \cup Tag("inbox", i)) \cup Tag("session", s)
    BY <1>4, <1>5, <1>6 DEF Places
  <1>8. ASSUME NEW n, NEW S, IsFiniteSet(S)
        PROVE  IsFiniteSet(Tag(n, S)) /\ Cardinality(Tag(n, S)) = Cardinality(S)
    <2> DEFINE f == [k \in S |-> <<n, k>>]
    <2>1. f \in [S -> Tag(n, S)]
      OBVIOUS
    <2>2. \A x, y \in S : f[x] = f[y] => x = y
      OBVIOUS
    <2>3. \A y \in Tag(n, S) : \E x \in S : f[x] = y
      OBVIOUS
    <2> HIDE DEF f, Tag
    <2> QED
      BY <1>8, <2>1, <2>2, <2>3, SameSize
  <1>9. /\ Tag("pending", p) \cap Tag("inbox", i) = {}
        /\ (Tag("pending", p) \cup Tag("inbox", i)) \cap Tag("session", s) = {}
    OBVIOUS
  <1>10. PICK A, B, C : A = Tag("pending", p) /\ B = Tag("inbox", i)
                          /\ C = Tag("session", s)
    OBVIOUS
  <1>11. /\ IsFiniteSet(A) /\ Cardinality(A) = Cardinality(p)
         /\ IsFiniteSet(B) /\ Cardinality(B) = Cardinality(i)
         /\ IsFiniteSet(C) /\ Cardinality(C) = Cardinality(s)
    BY <1>3, <1>8, <1>10
  <1>12. /\ Places(m) = (A \cup B) \cup C
         /\ A \cap B = {} /\ (A \cup B) \cap C = {}
    BY <1>7, <1>9, <1>10
  <1>13. /\ IsFiniteSet(A \cup B)
         /\ Cardinality(A \cup B) = Cardinality(A) + Cardinality(B)
         /\ Cardinality(A) \in Nat /\ Cardinality(B) \in Nat
    BY <1>11, <1>12, SizeOfBoth
  <1>14. /\ Cardinality((A \cup B) \cup C) = Cardinality(A \cup B) + Cardinality(C)
         /\ Cardinality(C) \in Nat
    BY <1>11, <1>12, <1>13, SizeOfBoth
  <1>15. /\ Cardinality(p) = Times(pending, Of(m))
         /\ Cardinality(i) = Times(inbox, Of(m))
         /\ Cardinality(s) = Times(messages, {Prompt(m)})
    BY <1>2 DEF Times
  <1> HIDE DEF Tag
  <1> QED
    BY <1>11, <1>12, <1>13, <1>14, <1>15

\* For every client, any limits and any number of messages, while nothing takes
\* messages out of the session again: a typed message is in exactly one place,
\* never lost and never sent twice.
THEOREM MessagesSentOnce ==
    ASSUME NothingUndone
    PROVE  Spec => []SentOnce
  <1>1. Init => SentInv
    <2> SUFFICES ASSUME Init, NEW m \in Nat \ {0}
                 PROVE  Times(messages, {Prompt(m)})
                          + (Times(inbox, Of(m)) + Times(pending, Of(m)))
                          = IF m <= typed THEN 1 ELSE 0
      BY DEF SentInv
    <2>1. \A T : Times(<< >>, T) = 0
      <3>1. << >> \in Seq(Msg) /\ Len(<< >>) = 0 /\ 1 .. 0 = {}
        OBVIOUS
      <3> QED
        BY <3>1, TimesIs
    <2>2. messages = << >> /\ inbox = << >> /\ pending = << >> /\ typed = 0
      BY DEF Init
    <2> QED
      BY <2>1, <2>2
  <1>2. SentInv /\ Base /\ [Next]_vars => SentInv'
    <2> SUFFICES ASSUME SentInv, Base, [Next]_vars PROVE SentInv'
      OBVIOUS
    <2>1. SessionKinds
      BY SessionStep DEF Base, SessionInv, SessionType
    <2> QED
      BY <2>1, SentStep
  <1>3. SentInv /\ Base => SentOnce
    <2> SUFFICES ASSUME SentInv, Base, NEW m \in 1 .. typed
                 PROVE  Cardinality(Places(m)) = 1
      BY DEF SentOnce
    <2>1. typed \in Nat
      BY TurnLoopAssumption DEF Base, PostInv, PostType
    <2>2. m \in Nat \ {0} /\ m <= typed
      BY <2>1
    <2> QED
      BY <2>2, PlacesIs DEF SentInv
  <1> QED
    BY <1>1, <1>2, <1>3, BaseInvariant, PTL DEF Spec

-----------------------------------------------------------------------------
(***************************************************************************)
(* A turn that makes one and the same call again and again.                *)
(***************************************************************************)

\* The model has one call to make.
OneCall == \E x : Sigs = {x}

\* Steps that a turn takes at most: each reply that ends no turn uses up a run
\* or a refusal, a reminder, a leak, or one of the steps cut off in a row.
StepLimit ==
    (DoomThreshold + MaxDoomRefusals + MaxHarmony) * (MaxCutOffs + 1)

\* Runs of turn `a`: all, and those of replies before the `b`-th; those of the
\* `b`-th are calls of its batch, run the way a batch is.
Mine(R, a) == {r \in R : r[1][1] = a}
Earlier(R, a, b) == {r \in R : r[1][1] = a /\ r[1][2] < b}
OfBatch(R, a, b, n, how) ==
    \A r \in R : r[1][1] = a /\ r[1][2] = b => r[1][3] \in 1 .. n /\ r[2] = how

How == IF Parallel THEN "parallel" ELSE "serial"

\* Runs that the repetitions so far stand for.
Used == IF t.runLen < DoomThreshold THEN t.runLen ELSE DoomThreshold - 1

\* What a turn has used up of StepLimit.
Spent ==
    Used + t.doom + t.harmony + (IF t.reminded THEN 1 ELSE 0)
      + (IF pc = "batch" THEN 1 ELSE 0)

\* Repetitions are counted, calls that run are short of the threshold, and so
\* are all that ran.
RepeatsInv ==
    /\ t.runLen > 0 => t.runOf # NoSig
    /\ \A r \in ran : /\ r[1][1] <= turn
                      /\ r[1][1] = turn => r[1][2] <= t.steps
    /\ IsFiniteSet(Mine(ran, turn))
    /\ Cardinality(Mine(ran, turn)) < DoomThreshold
    /\ pc \notin {"batch", "idle", "over"} =>
         Cardinality(Mine(ran, turn)) <= Used
    /\ pc = "batch" =>
         /\ t.runLen + Len(calls) < DoomThreshold
         /\ IsFiniteSet(Earlier(ran, turn, t.steps))
         /\ Cardinality(Earlier(ran, turn, t.steps)) <= t.runLen
         /\ OfBatch(ran, turn, t.steps, Len(calls), How)

\* A turn that goes on has steps left.
StepsInv ==
    /\ t.steps <= StepLimit
    /\ pc \notin {"idle", "over"} =>
         t.steps <= Spent * (MaxCutOffs + 1) + t.cuts

\* The runs of a batch are at most its calls.
LEMMA RunsOfTurn ==
    ASSUME OneCall, NEW R, R \subseteq CallIds \X Schedules \X Sigs,
           NEW a \in Nat, NEW b \in Nat, NEW n \in Nat, NEW how,
           IsFiniteSet(Earlier(R, a, b)), OfBatch(R, a, b, n, how),
           \A r \in R : r[1][1] = a => r[1][2] <= b
    PROVE  /\ IsFiniteSet(Mine(R, a))
           /\ Cardinality(Mine(R, a)) <= Cardinality(Earlier(R, a, b)) + n
           /\ Cardinality(Earlier(R, a, b)) \in Nat
           /\ Cardinality(Mine(R, a)) \in Nat
  <1>1. PICK x : Sigs = {x}
    BY DEF OneCall
  <1> DEFINE N == {r \in R : r[1][1] = a /\ r[1][2] = b}
             f == [r \in N |-> r[1][3]]
             E == Earlier(R, a, b)
  <1>2. ASSUME NEW r \in N
        PROVE  r[1][3] \in 1 .. n /\ r = <<<<a, b, r[1][3]>>, how, x>>
    <2>1. r \in CallIds \X Schedules \X Sigs /\ r[1][1] = a /\ r[1][2] = b
          /\ r[1][3] \in 1 .. n /\ r[2] = how
      BY DEF OfBatch
    <2>2. r = <<r[1], r[2], r[3]>> /\ r[1] \in CallIds /\ r[3] = x
      BY <1>1, <2>1
    <2>3. r[1] = <<r[1][1], r[1][2], r[1][3]>>
      BY <2>2 DEF CallIds
    <2> QED
      BY <2>1, <2>2, <2>3
  <1>3. f \in Injection(N, 1 .. n)
    <2>1. f \in [N -> 1 .. n]
      BY <1>2
    <2>2. \A r, s \in N : f[r] = f[s] => r = s
      BY <1>2
    <2> HIDE DEF f, N
    <2> QED
      BY <2>1, <2>2 DEF Injection, IsInjective
  <1>4. IsFiniteSet(1 .. n) /\ Cardinality(1 .. n) = n
    BY FS_Interval
  <1>5. Mine(R, a) = E \cup N /\ E \cap N = {}
    <2>1. \A r \in R : r[1] \in CallIds
      OBVIOUS
    <2>2. \A r \in R : r[1][2] \in Nat
      BY <2>1 DEF CallIds
    <2> QED
      BY <2>2 DEF Mine, Earlier
  <1> HIDE DEF f, N, E
  <1>6. IsFiniteSet(N) /\ Cardinality(N) <= n
    BY <1>3, <1>4, FS_Injection
  <1>7. /\ IsFiniteSet(E \cup N) /\ Cardinality(E) \in Nat
        /\ Cardinality(N) \in Nat
        /\ Cardinality(E \cup N) = Cardinality(E) + Cardinality(N)
    BY <1>5, <1>6, SizeOfBoth DEF E
  <1> QED
    BY <1>5, <1>6, <1>7 DEF E

\* The run of the only call.
LEMMA OnlyRun ==
    ASSUME OneCall, t \in Counters, t.runLen > 0 => t.runOf # NoSig,
           NEW cs \in Seq(Sigs), Len(cs) > 0
    PROVE  /\ TailRun(cs)[1] \in Sigs
           /\ TailRun(cs)[2] = IF Len(cs) + t.runLen > DoomThreshold
                               THEN DoomThreshold ELSE Len(cs) + t.runLen
           /\ WouldDoomLoop(cs) <=> Len(cs) + t.runLen >= DoomThreshold
  <1>1. PICK x : Sigs = {x}
    BY DEF OneCall
  <1>2. \A i \in 1 .. Len(cs) : cs[i] = x
    BY <1>1
  <1>3. PICK n \in Nat : n = Len(cs) /\ n > 0
    OBVIOUS
  <1>4. cs[n] = x /\ {i \in 1 .. n : cs[i] # cs[n]} = {}
    BY <1>2, <1>3
  <1>5. t.runOf \in {x, NoSig} /\ t.runLen \in Nat
    BY <1>1 DEF Counters
  <1>6. (IF t.runOf = x THEN t.runLen ELSE 0) = t.runLen
    BY <1>5
  <1>7. TailRun(cs) = <<x, IF n + t.runLen > DoomThreshold
                           THEN DoomThreshold ELSE n + t.runLen>>
    BY <1>3, <1>4, <1>6 DEF TailRun
  <1>8. DoomThreshold \in Nat
    BY TurnLoopAssumption
  <1>9. \A i \in 1 .. Len(cs) : cs[i] = cs[1]
    BY <1>2, <1>3
  <1>10. TailRun(cs)[2] >= DoomThreshold <=> n + t.runLen >= DoomThreshold
    BY <1>3, <1>5, <1>7, <1>8
  <1> QED
    BY <1>1, <1>3, <1>7, <1>9, <1>10 DEF WouldDoomLoop

\* Arithmetic of the step limit.
LEMMA Room ==
    ASSUME NEW a \in Nat, NEW b \in Nat, NEW w \in Nat
    PROVE  /\ a * w \in Nat
           /\ a <= b => a * w <= b * w
           /\ (a + 1) * w = a * w + w
  <1>1. a * w \in Nat
    OBVIOUS
  <1>2. (a + 1) * w = a * w + w
    OBVIOUS
  <1>3. ASSUME a <= b
        PROVE  a * w <= b * w
    <2>1. PICK d \in Nat : b = a + d
      <3>1. b - a \in Nat /\ b = a + (b - a)
        BY <1>3
      <3> QED
        BY <3>1
    <2>2. b * w = a * w + d * w /\ d * w \in Nat
      BY <2>1
    <2> QED
      BY <1>1, <2>2
  <1> QED
    BY <1>1, <1>2, <1>3

(***************************************************************************)
(* What a step does to the counters that matter here.                      *)
(***************************************************************************)

Running == pc \notin {"idle", "over"}

\* The run of calls, the refusals, leaks and the reminder stay.
SameRun == t'.runOf = t.runOf /\ t'.runLen = t.runLen
SameRest ==
    t'.doom = t.doom /\ t'.harmony = t.harmony /\ t'.reminded = t.reminded

\* Nothing is counted; a batch may be given up.
Passes ==
    /\ UNCHANGED <<turn, ran>> /\ SameRun /\ SameRest
    /\ t'.steps = t.steps /\ t'.cuts = t.cuts
    /\ Running' => Running
    /\ pc' = "batch" => pc = "batch" /\ calls' = calls
    /\ pc = "batch" => pc' \in {"batch", "idle", "over"}

\* A turn begins.
Begins ==
    /\ turn' = turn + 1 /\ ran' = ran /\ t' = FreshCounters /\ pc' = "hooks"

\* A reply without calls, or a leak: the turn is over, or the step is one more
\* that was cut off, the reminder is given, the leak is counted.
Talks ==
    /\ UNCHANGED <<turn, ran>> /\ SameRun /\ t'.doom = t.doom
    /\ pc = "request" /\ t'.steps \in {t.steps, t.steps + 1}
    /\ \/ pc' = "over"
       \/ /\ pc' = "top" /\ SameRest
          /\ t'.steps = t.steps + 1 /\ t'.cuts = t.cuts + 1
       \/ /\ pc' = "top" /\ t'.harmony = t.harmony
          /\ ~t.reminded /\ t'.reminded /\ t'.steps = t.steps + 1
       \/ /\ pc' = "top" /\ t'.reminded = t.reminded
          /\ t'.harmony = t.harmony + 1 /\ t'.steps = t.steps

\* Calls are refused,
Denies(cs) ==
    /\ UNCHANGED <<turn, ran>> /\ WouldDoomLoop(cs)
    /\ pc = "request" /\ pc' \in {"top", "over"}
    /\ t'.runOf = TailRun(cs)[1] /\ t'.runLen = TailRun(cs)[2]
    /\ t'.doom = t.doom + 1 /\ t'.harmony = t.harmony
    /\ t'.reminded = t.reminded /\ t'.steps = t.steps + 1

\* or are to be run,
Accepts(cs) ==
    /\ UNCHANGED <<turn, ran>> /\ ~WouldDoomLoop(cs) /\ SameRun /\ SameRest
    /\ pc = "request" /\ pc' = "batch" /\ calls' = cs
    /\ t'.steps = t.steps + 1

\* one of them was run, and the batch may be complete with it.
Works ==
    /\ pc = "batch" /\ pc' = "batch" /\ UNCHANGED <<t, turn, calls>>
    /\ \/ ran' = ran
       \/ \E i \in 1 .. Len(calls) : ran' = ran \cup {NewRun(How, i)}

Completes ==
    /\ pc = "batch" /\ pc' = "top" /\ turn' = turn
    /\ t'.runOf = TailRun(calls)[1] /\ t'.runLen = TailRun(calls)[2]
    /\ SameRest /\ t'.steps = t.steps /\ t'.cuts = t.cuts
    /\ \/ ran' = ran
       \/ \E i \in 1 .. Len(calls) : ran' = ran \cup {NewRun(How, i)}

LoopKinds ==
    \/ Passes \/ Begins \/ Talks \/ Works \/ Completes
    \/ \E cs \in Batches : Denies(cs) \/ Accepts(cs)

\* Every step of the specification is one of them.
LEMMA LoopStep ==
    ASSUME ControlInv, [Next]_vars
    PROVE  LoopKinds
  <1>1. /\ t \in Counters /\ pc \in Pcs
        /\ t.runLen \in Nat /\ t.runOf \in Sigs \cup {NoSig}
        /\ t.steps \in Nat /\ t.doom \in Nat /\ t.cuts \in Nat
        /\ t.harmony \in Nat /\ t.reminded \in BOOLEAN /\ t.todos \in BOOLEAN
    BY DEF ControlInv, ControlType, CounterInv, Counters
  <1>2. pc = "batch" => /\ calls \in Seq(Sigs) /\ Len(calls) > 0
                        /\ Len(done) \in Nat /\ Len(calls) \in Nat
                        /\ Len(done) < Len(calls) /\ (Parallel => ~started)
    BY DEF ControlInv, ControlType, BatchInv
  <1>3. ASSUME UNCHANGED <<turn, ran>>, SameRun, SameRest, t'.steps = t.steps,
               t'.cuts = t.cuts, Running' => Running,
               pc' = "batch" => pc = "batch" /\ calls' = calls,
               pc = "batch" => pc' \in {"batch", "idle", "over"}
        PROVE  LoopKinds
    BY <1>3 DEF LoopKinds, Passes
  <1>4. ASSUME UNCHANGED t
        PROVE  SameRun /\ SameRest /\ t'.steps = t.steps /\ t'.cuts = t.cuts
    BY <1>4 DEF SameRun, SameRest
  <1>5. CASE UNCHANGED vars \/ Steer \/ Cancel
    BY <1>3, <1>4, <1>5 DEF vars, batchVars, Steer, Cancel, Running
  <1>6. CASE ForceStop \/ Settle
    BY <1>3, <1>4, <1>6 DEF batchVars, ForceStop, Settle, Running
  <1>7. CASE \/ PromptHooks \/ NoCompact \/ RequestCancelled \/ RequestFails
             \/ OverflowCompacted
    BY <1>3, <1>4, <1>7 DEF PromptHooks, NoCompact, RequestCancelled,
         RequestFails, OverflowCompacted, End, Running
  <1>8. ASSUME NEW mode \in Modes, Type(mode)
        PROVE  LoopKinds
    BY <1>3, <1>4, <1>8 DEF Type, batchVars, Running
  <1>9. CASE StartTurn
    BY <1>9 DEF StartTurn, Begins, LoopKinds
  <1>10. CASE Top
    <2>1. PICK n : t' = [t EXCEPT !.notices = n]
      BY <1>10 DEF Top
    <2>2. SameRun /\ SameRest /\ t'.steps = t.steps /\ t'.cuts = t.cuts
      BY <1>1, <2>1 DEF SameRun, SameRest, Counters
    <2>3. pc = "top" /\ pc' \in {"assemble", "over"} /\ UNCHANGED <<turn, ran>>
      BY <1>10 DEF Top, End
    <2> QED
      BY <1>3, <2>2, <2>3 DEF Running
  <1>11. CASE AutoCompact
    <2>1. PICK n : t' = [t EXCEPT !.compactFails = n]
      BY <1>11 DEF AutoCompact
    <2>2. SameRun /\ SameRest /\ t'.steps = t.steps /\ t'.cuts = t.cuts
      BY <1>1, <2>1 DEF SameRun, SameRest, Counters
    <2> QED
      BY <1>3, <1>11, <2>2 DEF AutoCompact, Running
  <1>12. CASE RequestRetried \/ RuleHit \/ ContextOverflow
    <2>1. \/ \E n : t' = [t EXCEPT !.switches = n]
          \/ \E n : t' = [t EXCEPT !.drops = n]
          \/ \E n : t' = [t EXCEPT !.hits = n]
          \/ \E n : t' = [t EXCEPT !.overflow = n]
      BY <1>12 DEF RequestRetried, RuleHit, ContextOverflow
    <2>2. SameRun /\ SameRest /\ t'.steps = t.steps /\ t'.cuts = t.cuts
      BY <1>1, <2>1 DEF SameRun, SameRest, Counters
    <2> QED
      BY <1>3, <1>12, <2>2 DEF RequestRetried, RuleHit, ContextOverflow,
         Running
  <1>13. ASSUME NEW limit \in BOOLEAN, HarmonyLeak(limit)
         PROVE  LoopKinds
    <2>1. PICK c, h : /\ t' = [t EXCEPT !.drops = 0, !.cuts = c, !.harmony = h]
                      /\ h = IF t.harmony < MaxHarmony THEN t.harmony + 1
                                                       ELSE t.harmony
      BY <1>13 DEF HarmonyLeak
    <2>2. /\ SameRun /\ t'.doom = t.doom /\ t'.reminded = t.reminded
          /\ t'.steps = t.steps /\ t'.harmony = h
      BY <1>1, <2>1 DEF SameRun, Counters
    <2>3. /\ pc = "request" /\ UNCHANGED <<turn, ran>>
          /\ pc' = "over" \/ (pc' = "top" /\ t.harmony < MaxHarmony)
      BY <1>13 DEF HarmonyLeak, End
    <2>4. Talks
      BY <2>1, <2>2, <2>3 DEF Talks
    <2> QED
      BY <2>4 DEF LoopKinds
  <1>14. ASSUME NEW text \in BOOLEAN, ReplyCutOff(text)
         PROVE  LoopKinds
    <2>1. PICK c, n : /\ t' = [t EXCEPT !.cuts = c, !.steps = n, !.drops = 0]
                      /\ c = t.cuts + 1 /\ n = t.steps + 1
      BY <1>14 DEF ReplyCutOff, Reply
    <2>2. /\ SameRun /\ SameRest /\ t'.steps = n /\ t'.cuts = c
      BY <1>1, <2>1 DEF SameRun, SameRest, Counters
    <2>3. pc = "request" /\ pc' = "top" /\ UNCHANGED <<turn, ran>>
      BY <1>14 DEF ReplyCutOff, Reply
    <2>4. Talks
      BY <2>1, <2>2, <2>3 DEF Talks, SameRest
    <2> QED
      BY <2>4 DEF LoopKinds
  <1>15. ASSUME NEW text \in BOOLEAN, NEW limit \in BOOLEAN,
                NEW open \in BOOLEAN, ReplyFinal(text, limit, open)
         PROVE  LoopKinds
    <2> DEFINE rem == t.todos /\ ~t.reminded /\ open
    <2>1. rem \in BOOLEAN /\ (t.reminded \/ rem) \in BOOLEAN
      BY <1>1, Zenon
    <2>2. /\ t' = [[t EXCEPT !.cuts = CutsAfter(limit),
                             !.reminded = t.reminded \/ rem]
                     EXCEPT !.steps = @ + 1, !.drops = 0]
          /\ pc' = IF rem THEN "top" ELSE "over"
      BY <1>15 DEF ReplyFinal, Reply, End
    <2> HIDE DEF rem
    <2>3. PICK c, n, given, remind :
            /\ c = CutsAfter(limit) /\ n = t.steps + 1
            /\ given = (t.reminded \/ rem) /\ remind = rem
      OBVIOUS
    <2>4. given \in BOOLEAN /\ remind \in BOOLEAN
      BY <2>1, <2>3
    <2>5. t' = [t EXCEPT !.cuts = c, !.reminded = given, !.steps = n,
                         !.drops = 0]
      BY <1>1, <2>2, <2>3 DEF Counters
    <2>6. remind => ~t.reminded /\ given
      BY <2>3, Zenon DEF rem
    <2>7. pc' = IF remind THEN "top" ELSE "over"
      BY <2>2, <2>3
    <2>8. /\ SameRun /\ t'.doom = t.doom /\ t'.harmony = t.harmony
          /\ t'.steps = n /\ t'.reminded = given
      BY <1>1, <2>5 DEF SameRun, Counters
    <2>9. pc = "request" /\ UNCHANGED <<turn, ran>>
      BY <1>15 DEF ReplyFinal, Reply
    <2>10. Talks
      BY <2>3, <2>4, <2>6, <2>7, <2>8, <2>9 DEF Talks
    <2> QED
      BY <2>10 DEF LoopKinds
  <1>16. ASSUME NEW cs \in Batches, ReplyRefused(cs)
         PROVE  LoopKinds
    <2>1. PICK a, b, todos, d, n :
            /\ a = TailRun(cs)[1] /\ b = TailRun(cs)[2]
            /\ todos = (t.todos \/ WritesTodos(cs))
            /\ d = t.doom + 1 /\ n = t.steps + 1
      OBVIOUS
    <2>2. t' = [[[t EXCEPT !.cuts = 0, !.doom = d, !.todos = todos]
                     EXCEPT !.runOf = a, !.runLen = b]
                     EXCEPT !.steps = n, !.drops = 0]
      BY <1>1, <1>16, <2>1 DEF ReplyRefused, Reply, Repeated, Counters
    <2>3. /\ t'.runOf = a /\ t'.runLen = b /\ t'.doom = d
          /\ t'.harmony = t.harmony /\ t'.reminded = t.reminded /\ t'.steps = n
      BY <1>1, <2>2 DEF Counters
    <2>4. /\ pc = "request" /\ pc' \in {"top", "over"} /\ UNCHANGED <<turn, ran>>
          /\ WouldDoomLoop(cs)
      BY <1>16 DEF ReplyRefused, Reply, End
    <2>5. Denies(cs)
      BY <2>1, <2>3, <2>4 DEF Denies
    <2> QED
      BY <2>5 DEF LoopKinds
  <1>17. ASSUME NEW cs \in Batches, ReplyBatch(cs)
         PROVE  LoopKinds
    <2>1. PICK todos, n : /\ todos = (t.todos \/ WritesTodos(cs))
                          /\ n = t.steps + 1
      OBVIOUS
    <2>2. t' = [[t EXCEPT !.cuts = 0, !.todos = todos]
                     EXCEPT !.steps = n, !.drops = 0]
      BY <1>1, <1>17, <2>1 DEF ReplyBatch, Reply, Counters
    <2>3. SameRun /\ SameRest /\ t'.steps = n
      BY <1>1, <2>2 DEF Counters, SameRun, SameRest
    <2>4. /\ pc = "request" /\ pc' = "batch" /\ calls' = cs
          /\ UNCHANGED <<turn, ran>> /\ ~WouldDoomLoop(cs)
      BY <1>17 DEF ReplyBatch, Reply
    <2>5. Accepts(cs)
      BY <2>1, <2>3, <2>4 DEF Accepts
    <2> QED
      BY <2>5 DEF LoopKinds
  <1>18. ASSUME NEW bodies, pc = "batch", BatchSettled(bodies), turn' = turn,
                \/ ran' = ran
                \/ \E i \in 1 .. Len(calls) : ran' = ran \cup {NewRun(How, i)}
         PROVE  LoopKinds
    <2>1. PICK a, b : a = TailRun(calls)[1] /\ b = TailRun(calls)[2]
      OBVIOUS
    <2>2. t' = [t EXCEPT !.runOf = a, !.runLen = b] /\ pc' = "top"
      BY <1>18, <2>1 DEF BatchSettled, Repeated
    <2>3. /\ t'.runOf = a /\ t'.runLen = b /\ SameRest
          /\ t'.steps = t.steps /\ t'.cuts = t.cuts
      BY <1>1, <2>2 DEF Counters, SameRest
    <2>4. Completes
      BY <1>18, <2>1, <2>2, <2>3 DEF Completes
    <2> QED
      BY <2>4 DEF LoopKinds
  <1>19. CASE SkipForUrgent \/ ParallelJoined
    BY <1>18, <1>19 DEF SkipForUrgent, ParallelJoined
  <1>20. CASE BatchCancelled
    BY <1>3, <1>4, <1>20 DEF BatchCancelled, CloseUnanswered, End, Running
  <1>21. CASE StartCall
    BY <1>21 DEF StartCall, Works, LoopKinds
  <1>22. ASSUME NEW body \in Bodies, FinishCall(body)
         PROVE  LoopKinds
    <2>1. pc = "batch" /\ started /\ turn' = turn
          /\ ran' = ran \cup {NewRun("serial", Len(done) + 1)}
      BY <1>22 DEF FinishCall, NewRun
    <2>2. How = "serial" /\ Len(done) + 1 \in 1 .. Len(calls)
      BY <1>2, <2>1 DEF How
    <2>3. \E i \in 1 .. Len(calls) : ran' = ran \cup {NewRun(How, i)}
      BY <2>1, <2>2
    <2>4. CASE Len(done) + 1 = Len(calls)
      BY <1>18, <1>22, <2>1, <2>3, <2>4 DEF FinishCall
    <2>5. CASE Len(done) + 1 # Len(calls)
      <3>1. pc' = pc /\ UNCHANGED <<t, calls>>
        BY <1>22, <2>5 DEF FinishCall
      <3> QED
        BY <2>1, <2>3, <3>1 DEF Works, LoopKinds
    <2> QED
      BY <2>4, <2>5
  <1>23. ASSUME NEW body \in Bodies, NEW i \in 1 .. MaxCalls,
                ParallelCallEnds(i, body)
         PROVE  LoopKinds
    <2>1. /\ pc = "batch" /\ pc' = "batch" /\ UNCHANGED <<t, turn, calls>>
          /\ How = "parallel" /\ i \in 1 .. Len(calls)
          /\ ran' = ran \cup {NewRun("parallel", i)}
      BY <1>23 DEF ParallelCallEnds, NewRun, How
    <2> QED
      BY <2>1 DEF Works, LoopKinds
  <1> QED
    BY <1>5, <1>6, <1>7, <1>8, <1>9, <1>10, <1>11, <1>12, <1>13, <1>14,
       <1>15, <1>16, <1>17, <1>19, <1>20, <1>21, <1>22, <1>23 DEF Next, Step

\* Every step keeps the count of what ran.
LEMMA RepeatsStep ==
    ASSUME OneCall, Base, RepeatsInv, ControlInv', SessionType', LoopKinds
    PROVE  RepeatsInv'
  <1>1. PICK D \in Nat \ {0} : D = DoomThreshold
    BY TurnLoopAssumption
  <1>2. PICK len \in Nat, b \in Nat, a \in Nat,
             R \in SUBSET (CallIds \X Schedules \X Sigs) :
          /\ len = t.runLen /\ b = t.steps /\ a = turn /\ R = ran
          /\ R \subseteq CallIds \X Schedules \X Sigs /\ len <= D
    BY <1>1, BaseTypes DEF Base, ControlInv, CounterInv, Counters
  <1>3. \A r \in R : r[1][1] \in Nat /\ r[1][2] \in Nat
    <2>1. \A r \in R : r[1] \in CallIds
      BY <1>2
    <2> QED
      BY <2>1 DEF CallIds
  <1>4. /\ len > 0 => t.runOf # NoSig
        /\ \A r \in R : r[1][1] <= a /\ (r[1][1] = a => r[1][2] <= b)
    BY <1>2 DEF RepeatsInv
  <1>5. /\ IsFiniteSet(Mine(R, a)) /\ Cardinality(Mine(R, a)) \in Nat
        /\ Cardinality(Mine(R, a)) < D
    BY <1>1, <1>2, FS_CardinalityType DEF RepeatsInv
  <1>6. pc \notin {"batch", "idle", "over"} =>
          Cardinality(Mine(R, a)) <= Used
    BY <1>2 DEF RepeatsInv
  <1>7. Used \in Nat /\ Used <= D - 1 /\ (len < D => Used = len)
    BY <1>1, <1>2 DEF Used
  <1>8. CASE Passes
    <2>1. t'.runLen = len /\ t'.runOf = t.runOf /\ t'.steps = b /\ turn' = a
          /\ ran' = R
      BY <1>2, <1>8 DEF Passes, SameRun
    <2>2. Used' = Used
      BY <1>2, <2>1 DEF Used
    <2>3. pc' \notin {"batch", "idle", "over"} =>
            pc \notin {"batch", "idle", "over"}
      BY <1>8 DEF Passes, Running
    <2>4. pc' = "batch" =>
            /\ t'.runLen + Len(calls)' < DoomThreshold
            /\ IsFiniteSet(Earlier(ran', turn', t'.steps))
            /\ Cardinality(Earlier(ran', turn', t'.steps)) <= t'.runLen
            /\ OfBatch(ran', turn', t'.steps, Len(calls)', How')
      <3>1. SUFFICES ASSUME pc' = "batch"
                     PROVE  /\ len + Len(calls)' < D
                            /\ IsFiniteSet(Earlier(R, a, b))
                            /\ Cardinality(Earlier(R, a, b)) <= len
                            /\ OfBatch(R, a, b, Len(calls)', How')
        BY <1>1, <2>1
      <3>2. pc = "batch" /\ calls' = calls
        BY <1>8, <3>1 DEF Passes
      <3>3. How' = How /\ Len(calls)' = Len(calls)
        BY <3>2 DEF How, Parallel
      <3> QED
        BY <1>1, <1>2, <3>2, <3>3 DEF RepeatsInv
    <2> QED
      BY <1>1, <1>4, <1>5, <1>6, <2>1, <2>2, <2>3, <2>4 DEF RepeatsInv
  <1>9. CASE Begins
    <2>1. /\ turn' = a + 1 /\ ran' = R /\ pc' = "hooks" /\ t'.runLen = 0
          /\ t'.steps = 0
      BY <1>2, <1>9 DEF Begins, FreshCounters
    <2>2. Mine(R, a + 1) = {}
      BY <1>3, <1>4 DEF Mine
    <2>3. IsFiniteSet({}) /\ Cardinality({}) = 0
      BY FS_EmptySet
    <2>4. Used' = 0
      BY <1>1, <2>1 DEF Used
    <2>5. \A r \in R : r[1][1] <= a + 1 /\ r[1][1] # a + 1
      BY <1>3, <1>4
    <2>6. PICK M, n : M = Mine(R, a + 1) /\ n = Cardinality(M)
      OBVIOUS
    <2>7. M = Mine(ran', turn') /\ IsFiniteSet(M) /\ n = 0 /\ n < D
          /\ ~(t'.runLen > 0)
      BY <1>1, <2>1, <2>2, <2>3, <2>6
    <2>8. \A r \in ran' : r[1][1] <= turn' /\ r[1][1] # turn'
      BY <2>1, <2>5
    <2> QED
      BY <1>1, <2>1, <2>4, <2>6, <2>7, <2>8 DEF RepeatsInv
  <1>10. CASE Talks
    <2>1. /\ t'.runLen = len /\ t'.runOf = t.runOf /\ turn' = a /\ ran' = R
          /\ t'.steps \in {b, b + 1} /\ pc = "request" /\ pc' # "batch"
      BY <1>2, <1>10 DEF Talks, SameRun
    <2>2. Used' = Used
      BY <1>2, <2>1 DEF Used
    <2>3. \A r \in R : r[1][1] = a => r[1][2] <= t'.steps
      BY <1>3, <1>4, <2>1
    <2> QED
      BY <1>1, <1>4, <1>5, <1>6, <2>1, <2>2, <2>3 DEF RepeatsInv
  <1>11. ASSUME NEW cs \in Batches
         PROVE  /\ TailRun(cs)[1] \in Sigs /\ Len(cs) \in Nat /\ Len(cs) > 0
                /\ TailRun(cs)[2] = IF Len(cs) + len > D THEN D
                                                         ELSE Len(cs) + len
                /\ WouldDoomLoop(cs) <=> Len(cs) + len >= D
    <2>1. cs \in Seq(Sigs) /\ Len(cs) > 0 /\ Len(cs) \in Nat
      BY BatchesIs
    <2>2. t \in Counters /\ (t.runLen > 0 => t.runOf # NoSig)
      BY DEF Base, ControlInv, CounterInv, RepeatsInv
    <2> QED
      BY <1>1, <1>2, <2>1, <2>2, OnlyRun
  <1>12. ASSUME NEW cs \in Batches, Denies(cs)
         PROVE  RepeatsInv'
    <2>1. /\ t'.runLen = D /\ t'.runOf # NoSig /\ turn' = a /\ ran' = R
          /\ t'.steps = b + 1 /\ pc' \in {"top", "over"}
      <3>1. PICK n \in Nat : n = Len(cs) /\ n + len >= D
        BY <1>11, <1>12 DEF Denies
      <3>2. TailRun(cs)[1] \in Sigs /\ TailRun(cs)[2] = D
        BY <1>1, <1>2, <1>11, <3>1
      <3>3. NoSig \notin Sigs
        BY TurnLoopAssumption
      <3> QED
        BY <1>2, <1>12, <3>2, <3>3 DEF Denies
    <2>2. Used' = D - 1
      BY <1>1, <2>1 DEF Used
    <2>3. \A r \in R : r[1][1] = a => r[1][2] <= b + 1
      BY <1>3, <1>4
    <2> QED
      BY <1>1, <1>4, <1>5, <2>1, <2>2, <2>3 DEF RepeatsInv
  <1>13. ASSUME NEW cs \in Batches, Accepts(cs)
         PROVE  RepeatsInv'
    <2>1. /\ t'.runLen = len /\ t'.runOf = t.runOf /\ turn' = a /\ ran' = R
          /\ t'.steps = b + 1 /\ pc = "request" /\ pc' = "batch" /\ calls' = cs
      BY <1>2, <1>13 DEF Accepts, SameRun
    <2>2. Len(cs) + len < D /\ Used = len
      BY <1>7, <1>11, <1>13 DEF Accepts
    <2>3. Earlier(R, a, b + 1) = Mine(R, a)
      BY <1>3, <1>4 DEF Earlier, Mine
    <2>4. \A r \in R : r[1][1] = a => r[1][2] <= b + 1 /\ r[1][2] # b + 1
      BY <1>3, <1>4
    <2>5. \A n, how : OfBatch(R, a, b + 1, n, how)
      BY <2>4 DEF OfBatch
    <2>6. Len(calls)' = Len(cs) /\ len + Len(cs) < D
      BY <1>11, <2>1, <2>2
    <2>7. Cardinality(Mine(R, a)) <= len
      BY <1>6, <2>1, <2>2
    <2> QED
      BY <1>1, <1>4, <1>5, <2>1, <2>3, <2>4, <2>5, <2>6, <2>7 DEF RepeatsInv
  <1>14. ASSUME pc = "batch", turn' = turn,
                \/ ran' = ran
                \/ \E i \in 1 .. Len(calls) : ran' = ran \cup {NewRun(How, i)}
         PROVE  /\ IsFiniteSet(Earlier(ran', a, b))
                /\ Cardinality(Earlier(ran', a, b)) <= len
                /\ OfBatch(ran', a, b, Len(calls), How)
                /\ \A r \in ran' : r[1][1] <= a /\ (r[1][1] = a => r[1][2] <= b)
                /\ IsFiniteSet(Mine(ran', a))
                /\ Cardinality(Mine(ran', a)) \in Nat
                /\ Cardinality(Mine(ran', a)) <= len + Len(calls)
                /\ len + Len(calls) < D
    <2>1. PICK n \in Nat, how \in {How}, S \in {ran'} :
            n = Len(calls) /\ how = How /\ S = ran' /\ n > 0
      BY <1>14, BaseTypes
    <2>2. /\ len + n < D
          /\ IsFiniteSet(Earlier(R, a, b))
          /\ Cardinality(Earlier(R, a, b)) <= len
          /\ OfBatch(R, a, b, n, how)
      BY <1>1, <1>2, <1>14, <2>1 DEF RepeatsInv
    <2>3. \A r \in S : r \in R \/ \E i \in 1 .. n : r[1] = <<a, b, i>> /\ r[2] = how
      BY <1>2, <1>14, <2>1 DEF NewRun, CallId
    <2>4. R \subseteq S /\ S \subseteq CallIds \X Schedules \X Sigs
      BY <1>2, <1>14, <2>1 DEF SessionType
    <2>5. Earlier(S, a, b) = Earlier(R, a, b)
      BY <1>2, <2>3, <2>4 DEF Earlier
    <2>6. OfBatch(S, a, b, n, how)
      BY <2>2, <2>3 DEF OfBatch
    <2>7. \A r \in S : r[1][1] <= a /\ (r[1][1] = a => r[1][2] <= b)
      BY <1>2, <1>4, <2>3
    <2>8. /\ IsFiniteSet(Mine(S, a))
          /\ Cardinality(Mine(S, a)) <= Cardinality(Earlier(S, a, b)) + n
          /\ Cardinality(Earlier(S, a, b)) \in Nat
          /\ Cardinality(Mine(S, a)) \in Nat
      BY <1>2, <2>1, <2>2, <2>4, <2>5, <2>6, <2>7, RunsOfTurn
    <2>9. Cardinality(Mine(S, a)) <= len + n
      BY <1>2, <2>1, <2>2, <2>5, <2>8
    <2> QED
      BY <2>1, <2>2, <2>5, <2>6, <2>7, <2>8, <2>9
  <1>15. CASE Works
    <2>1. /\ pc = "batch" /\ pc' = "batch" /\ turn' = turn /\ turn' = a
          /\ calls' = calls /\ t'.runLen = len /\ t'.runOf = t.runOf
          /\ t'.steps = b
      BY <1>2, <1>15 DEF Works
    <2>2. How' = How /\ Len(calls)' = Len(calls)
      BY <2>1 DEF How, Parallel
    <2>3. /\ IsFiniteSet(Earlier(ran', a, b))
          /\ Cardinality(Earlier(ran', a, b)) <= len
          /\ OfBatch(ran', a, b, Len(calls), How)
          /\ \A r \in ran' : r[1][1] <= a /\ (r[1][1] = a => r[1][2] <= b)
          /\ IsFiniteSet(Mine(ran', a))
          /\ Cardinality(Mine(ran', a)) \in Nat
          /\ Cardinality(Mine(ran', a)) <= len + Len(calls)
          /\ len + Len(calls) < D /\ Len(calls) \in Nat
      BY <1>14, <1>15, <2>1, BaseTypes DEF Works
    <2>4. Cardinality(Mine(ran', a)) < D
      BY <1>1, <1>2, <2>3
    <2> QED
      BY <1>1, <1>4, <2>1, <2>2, <2>3, <2>4 DEF RepeatsInv
  <1>16. CASE Completes
    <2>1. /\ pc = "batch" /\ pc' = "top" /\ turn' = turn /\ turn' = a
          /\ t'.runLen = TailRun(calls)[2] /\ t'.runOf = TailRun(calls)[1]
          /\ t'.steps = b
      BY <1>2, <1>16 DEF Completes
    <2>2. PICK n \in Nat : n = Len(calls) /\ n > 0 /\ calls \in Seq(Sigs)
      BY <2>1, BaseTypes
    <2>3. /\ \A r \in ran' : r[1][1] <= a /\ (r[1][1] = a => r[1][2] <= b)
          /\ IsFiniteSet(Mine(ran', a))
          /\ Cardinality(Mine(ran', a)) \in Nat
          /\ Cardinality(Mine(ran', a)) <= len + n
          /\ len + n < D
      BY <1>14, <1>16, <2>1, <2>2 DEF Completes
    <2>4. /\ TailRun(calls)[1] \in Sigs
          /\ TailRun(calls)[2] = IF n + len > D THEN D ELSE n + len
      <3>1. t \in Counters /\ (t.runLen > 0 => t.runOf # NoSig)
        BY DEF Base, ControlInv, CounterInv, RepeatsInv
      <3> QED
        BY <1>1, <1>2, <2>2, <3>1, OnlyRun
    <2>5. t'.runLen = len + n /\ t'.runOf # NoSig
      BY <1>1, <1>2, <2>1, <2>3, <2>4, TurnLoopAssumption
    <2>6. Used' = len + n
      BY <1>1, <2>3, <2>5 DEF Used
    <2>7. Cardinality(Mine(ran', a)) < D
      BY <1>1, <1>2, <2>2, <2>3
    <2> QED
      BY <1>1, <2>1, <2>3, <2>5, <2>6, <2>7 DEF RepeatsInv
  <1> QED
    BY <1>8, <1>9, <1>10, <1>12, <1>13, <1>15, <1>16 DEF LoopKinds

\* What a turn that goes on has used up leaves it one more reply.
LEMMA SpentLeft ==
    ASSUME Base, RepeatsInv, Running
    PROVE  Spent \in Nat
           /\ Spent + 1 <= DoomThreshold + MaxDoomRefusals + MaxHarmony
  <1>1. PICK D \in Nat \ {0}, F \in Nat \ {0}, H \in Nat :
          D = DoomThreshold /\ F = MaxDoomRefusals /\ H = MaxHarmony
    BY TurnLoopAssumption
  <1>2. PICK len \in Nat, d \in Nat, h \in Nat :
          /\ len = t.runLen /\ d = t.doom /\ h = t.harmony
          /\ len <= D /\ d + 1 <= F /\ h <= H
    <2>1. /\ t.runLen \in Nat /\ t.doom \in Nat /\ t.harmony \in Nat
          /\ t.runLen <= D /\ t.doom < F /\ t.harmony <= H
      BY <1>1 DEF Base, ControlInv, CounterInv, Counters, Running
    <2> QED
      BY <1>1, <2>1
  <1>3. PICK k \in {0, 1}, q \in {0, 1} :
          /\ k = (IF t.reminded THEN 1 ELSE 0)
          /\ q = (IF pc = "batch" THEN 1 ELSE 0)
    OBVIOUS
  <1>4. Used \in Nat /\ Used + q <= D - 1
    <2>1. CASE pc = "batch"
      <3>1. PICK n \in Nat : n = Len(calls) /\ n > 0 /\ len + n < D
        BY <1>1, <1>2, <2>1, BaseTypes DEF RepeatsInv
      <3> QED
        BY <1>1, <1>2, <1>3, <2>1, <3>1 DEF Used
    <2>2. CASE pc # "batch"
      BY <1>1, <1>2, <1>3, <2>2 DEF Used
    <2> QED
      BY <2>1, <2>2
  <1>5. Spent = Used + d + h + k + q
    BY <1>2, <1>3 DEF Spent
  <1> QED
    BY <1>1, <1>2, <1>3, <1>4, <1>5

\* Every step keeps the count of the steps.
LEMMA StepsStep ==
    ASSUME OneCall, Base, RepeatsInv, StepsInv, ControlInv', LoopKinds
    PROVE  StepsInv'
  <1>1. PICK D \in Nat \ {0}, w \in Nat \ {0} :
          D = DoomThreshold /\ w = MaxCutOffs + 1
    <2>1. MaxCutOffs \in Nat /\ DoomThreshold \in Nat \ {0}
      BY TurnLoopAssumption
    <2> QED
      BY <2>1
  <1>2. PICK L \in Nat :
          L = DoomThreshold + MaxDoomRefusals + MaxHarmony
    BY TurnLoopAssumption
  <1>3. StepLimit = L * w /\ L * w \in Nat
    BY <1>1, <1>2 DEF StepLimit
  <1>4. PICK len \in Nat, d \in Nat, h \in Nat, c \in Nat, s \in Nat :
          /\ len = t.runLen /\ d = t.doom /\ h = t.harmony /\ c = t.cuts
          /\ s = t.steps /\ len <= D /\ c + 1 <= w
    <2>1. /\ t.runLen \in Nat /\ t.doom \in Nat /\ t.harmony \in Nat
          /\ t.cuts \in Nat /\ t.steps \in Nat
          /\ t.runLen <= D /\ t.cuts <= MaxCutOffs
      BY <1>1 DEF Base, ControlInv, CounterInv, Counters
    <2>2. MaxCutOffs \in Nat
      BY TurnLoopAssumption
    <2>3. t.cuts + 1 <= w
      BY <1>1, <2>1, <2>2
    <2> QED
      BY <2>1, <2>3
  <1>5. s <= L * w
    BY <1>3, <1>4 DEF StepsInv
  <1>6. t'.cuts \in Nat /\ t'.steps \in Nat
    BY DEF ControlInv, CounterInv, Counters
  <1>7. PICK u \in Nat, k \in {0, 1}, q \in {0, 1} :
          /\ u = Used /\ u <= D - 1 /\ (len < D => u = len)
          /\ k = (IF t.reminded THEN 1 ELSE 0)
          /\ q = (IF pc = "batch" THEN 1 ELSE 0)
    <2>1. Used \in Nat /\ Used <= D - 1 /\ (len < D => Used = len)
      BY <1>1, <1>4 DEF Used
    <2> QED
      BY <2>1
  <1>8. PICK x \in Nat : x = Spent /\ x = u + d + h + k + q
    BY <1>4, <1>7 DEF Spent
  <1>9. ASSUME Running
        PROVE  /\ s + 1 <= L * w
               /\ \A z, y \in Nat : z >= x + 1 => s + 1 <= z * w + y
               /\ \A z \in Nat : z >= x => s <= z * w + c
               /\ \A z \in Nat : z >= x => s + 1 <= z * w + (c + 1)
    <2>1. s <= x * w + c /\ x * w \in Nat
      BY <1>1, <1>4, <1>8, <1>9 DEF StepsInv, Running
    <2>2. x + 1 <= L
      BY <1>2, <1>8, <1>9, SpentLeft
    <2>3. \A z \in Nat : z >= x => x * w <= z * w /\ z * w \in Nat
      BY <1>1, Room
    <2>4. (x + 1) * w = x * w + w /\ x + 1 \in Nat
      BY <1>1, Room
    <2>5. \A z \in Nat : z >= x + 1 => x * w + w <= z * w /\ z * w \in Nat
      BY <1>1, <2>4, Room
    <2>6. x * w + w <= L * w
      BY <2>2, <2>5
    <2>7. s + 1 <= x * w + w
      BY <1>1, <1>4, <2>1
    <2>8. s + 1 <= L * w
      BY <1>3, <2>1, <2>6, <2>7
    <2>9. ASSUME NEW z \in Nat, NEW y \in Nat, z >= x + 1
          PROVE  s + 1 <= z * w + y
      <3>1. x * w + w <= z * w /\ z * w \in Nat
        BY <2>5, <2>9
      <3> QED
        BY <2>1, <2>7, <3>1
    <2>10. ASSUME NEW z \in Nat, z >= x
           PROVE  s <= z * w + c /\ s + 1 <= z * w + (c + 1)
      <3>1. x * w <= z * w /\ z * w \in Nat
        BY <2>3, <2>10
      <3> QED
        BY <2>1, <3>1
    <2> QED
      BY <2>8, <2>9, <2>10
  <1>10. ASSUME t'.steps <= L * w,
               Running' => t'.steps <= Spent' * w + t'.cuts
        PROVE  StepsInv'
    BY <1>1, <1>3, <1>10 DEF StepsInv, Running, StepLimit
  <1>11. CASE Passes \/ Works
    <2>1. /\ t'.steps = s /\ t'.cuts = c /\ t'.runLen = len /\ t'.doom = d
          /\ t'.harmony = h /\ t'.reminded = t.reminded
      BY <1>4, <1>11 DEF Passes, Works, SameRun, SameRest
    <2>2. Running' => Running /\ (pc' = "batch" <=> pc = "batch")
      BY <1>11 DEF Passes, Works, Running
    <2>3. Running' => Spent' = x
      BY <1>4, <1>7, <1>8, <2>1, <2>2 DEF Spent, Used
    <2> QED
      BY <1>4, <1>9, <1>10, <1>5, <2>1, <2>2, <2>3
  <1>12. CASE Begins
    <2>1. t' = FreshCounters /\ pc' = "hooks"
      BY <1>12 DEF Begins
    <2>2. /\ t'.steps = 0 /\ t'.runLen = 0 /\ t'.doom = 0 /\ t'.harmony = 0
          /\ t'.cuts = 0 /\ ~t'.reminded
      BY <2>1 DEF FreshCounters
    <2>3. Spent' = 0
      BY <1>1, <2>1, <2>2 DEF Spent, Used
    <2>4. 0 <= 0 * w + 0 /\ 0 <= L * w
      BY <1>1, <1>3
    <2> QED
      BY <1>10, <2>2, <2>3, <2>4
  <1>13. CASE Talks
    <2>1. /\ t'.runLen = len /\ t'.doom = d /\ t'.steps \in {s, s + 1}
          /\ pc = "request" /\ pc' \in {"top", "over"} /\ q = 0
      BY <1>4, <1>7, <1>13 DEF Talks, SameRun
    <2>2. Running /\ Used' = u
      BY <1>4, <1>7, <2>1 DEF Running, Used
    <2>3. t'.steps <= L * w
      BY <1>3, <1>4, <1>9, <1>5, <2>1, <2>2
    <2>4. CASE pc' = "over"
      BY <1>10, <2>3, <2>4 DEF Running
    <2>5. CASE /\ pc' = "top" /\ SameRest
               /\ t'.steps = t.steps + 1 /\ t'.cuts = t.cuts + 1
      <3>1. Spent' = x
        BY <1>4, <1>7, <1>8, <2>1, <2>2, <2>5 DEF Spent, SameRest
      <3> QED
        BY <1>4, <1>9, <1>10, <2>2, <2>3, <2>5, <3>1
    <2>6. CASE /\ pc' = "top" /\ t'.harmony = t.harmony
               /\ ~t.reminded /\ t'.reminded /\ t'.steps = t.steps + 1
      <3>1. Spent' = x + 1
        BY <1>4, <1>7, <1>8, <2>1, <2>2, <2>6 DEF Spent
      <3>2. s + 1 <= (x + 1) * w + t'.cuts
        BY <1>6, <1>9, <2>2
      <3> QED
        BY <1>4, <1>10, <2>3, <2>6, <3>1, <3>2
    <2>7. CASE /\ pc' = "top" /\ t'.reminded = t.reminded
               /\ t'.harmony = t.harmony + 1 /\ t'.steps = t.steps
      <3>1. Spent' = x + 1
        BY <1>4, <1>7, <1>8, <2>1, <2>2, <2>7 DEF Spent
      <3>2. s + 1 <= (x + 1) * w + t'.cuts
        BY <1>6, <1>9, <2>2
      <3>3. s <= (x + 1) * w + t'.cuts
        <4>1. (x + 1) * w + t'.cuts \in Nat
          BY <1>1, <1>6, <1>8, Room
        <4> QED
          BY <3>2, <4>1
      <3> QED
        BY <1>4, <1>10, <2>3, <2>7, <3>1, <3>3
    <2> QED
      BY <1>13, <2>4, <2>5, <2>6, <2>7 DEF Talks
  <1>14. t \in Counters /\ (t.runLen > 0 => t.runOf # NoSig)
    BY DEF Base, ControlInv, CounterInv, RepeatsInv
  <1>15. ASSUME NEW cs \in Batches, Denies(cs)
         PROVE  StepsInv'
    <2>1. PICK n \in Nat : n = Len(cs) /\ cs \in Seq(Sigs) /\ n > 0
      BY BatchesIs
    <2>2. TailRun(cs)[2] = D
      <3>1. /\ TailRun(cs)[2] = IF n + len > D THEN D ELSE n + len
            /\ WouldDoomLoop(cs) <=> n + len >= D
        BY <1>1, <1>4, <1>14, <2>1, OnlyRun
      <3>2. n + len >= D
        BY <1>15, <3>1 DEF Denies
      <3> QED
        BY SMTT(30), <1>1, <1>4, <2>1, <3>1, <3>2
    <2>3. /\ t'.runLen = D /\ t'.doom = d + 1 /\ t'.harmony = h
          /\ t'.reminded = t.reminded /\ t'.steps = s + 1
          /\ pc = "request" /\ pc' \in {"top", "over"} /\ q = 0
      BY <1>4, <1>7, <1>15, <2>2 DEF Denies
    <2>4. Running /\ Used' = D - 1
      BY <1>1, <2>3 DEF Running, Used
    <2>5. PICK z \in Nat : z = Spent' /\ z >= x + 1
      <3>1. Spent' = (D - 1) + (d + 1) + h + k
        BY <1>4, <1>7, <2>3, <2>4 DEF Spent
      <3> QED
        BY <1>1, <1>4, <1>7, <1>8, <2>3, <3>1
    <2>6. s + 1 <= z * w + t'.cuts /\ s + 1 <= L * w
      BY <1>6, <1>9, <2>4, <2>5
    <2> QED
      BY <1>10, <2>3, <2>5, <2>6
  <1>16. ASSUME NEW cs \in Batches, Accepts(cs)
         PROVE  StepsInv'
    <2>1. /\ t'.runLen = len /\ t'.doom = d /\ t'.harmony = h
          /\ t'.reminded = t.reminded /\ t'.steps = s + 1
          /\ pc = "request" /\ pc' = "batch" /\ q = 0
      BY <1>4, <1>7, <1>16 DEF Accepts, SameRun, SameRest
    <2>2. Running /\ Used' = u
      BY <1>4, <1>7, <2>1 DEF Running, Used
    <2>3. Spent' = x + 1
      BY <1>4, <1>7, <1>8, <2>1, <2>2 DEF Spent
    <2>4. s + 1 <= (x + 1) * w + t'.cuts /\ s + 1 <= L * w
      BY <1>6, <1>9, <2>2
    <2> QED
      BY <1>10, <2>1, <2>3, <2>4
  <1>17. CASE Completes
    <2>1. /\ pc = "batch" /\ pc' = "top" /\ t'.runLen = TailRun(calls)[2]
          /\ t'.doom = d /\ t'.harmony = h /\ t'.reminded = t.reminded
          /\ t'.steps = s /\ t'.cuts = c /\ q = 1
      BY <1>4, <1>7, <1>17 DEF Completes, SameRest
    <2>2. PICK n \in Nat : /\ n = Len(calls) /\ n > 0 /\ calls \in Seq(Sigs)
                           /\ len + n < D
      BY <1>1, <1>4, <2>1, BaseTypes DEF RepeatsInv
    <2>3. TailRun(calls)[2] = len + n
      BY <1>1, <1>4, <1>14, <2>2, OnlyRun
    <2>4. Running /\ Used' = len + n /\ u = len
      BY <1>1, <1>4, <1>7, <2>1, <2>2, <2>3 DEF Running, Used
    <2>5. PICK z \in Nat : z = Spent' /\ z >= x
      <3>1. Spent' = (len + n) + d + h + k
        BY <1>4, <1>7, <2>1, <2>4 DEF Spent
      <3>2. x = len + d + h + k + 1
        BY <1>8, <2>1, <2>4
      <3>3. len \in Nat /\ d \in Nat /\ h \in Nat /\ k \in Nat /\ n \in Nat
            /\ n >= 1
        BY <1>4, <1>7, <2>2
      <3>4. PICK z \in Nat : z = (len + n) + d + h + k
        BY <3>3
      <3>5. z >= x
        BY <3>2, <3>3, <3>4
      <3> QED
        BY <3>1, <3>4, <3>5
    <2>6. s <= z * w + c
      BY <1>9, <2>4, <2>5
    <2> QED
      BY <1>4, <1>10, <1>5, <2>1, <2>5, <2>6
  <1> QED
    BY <1>11, <1>12, <1>13, <1>15, <1>16, <1>17 DEF LoopKinds

\* For any limits and any number of turns, when all the model does is one call:
\* fewer than DOOM_LOOP_THRESHOLD of them run in a turn, however they are
\* grouped in replies, cancelled, skipped or interrupted by cut-off replies, and
\* the turn has a last step.
THEOREM RepeatsAreStopped ==
    ASSUME OneCall, StepLimit < MaxSteps
    PROVE  Spec => []RepeatsStopped
  <1>1. DoomThreshold \in Nat \ {0} /\ MaxSteps \in Nat
        /\ MaxDoomRefusals \in Nat /\ MaxHarmony \in Nat /\ MaxCutOffs \in Nat
    BY TurnLoopAssumption
  <1>2. Init => RepeatsInv /\ StepsInv
    <2> SUFFICES ASSUME Init PROVE RepeatsInv /\ StepsInv
      OBVIOUS
    <2>1. /\ t = FreshCounters /\ ran = {} /\ pc = "idle"
          /\ t.runLen = 0 /\ t.steps = 0
      BY DEF Init, FreshCounters
    <2>2. Mine(ran, turn) = {} /\ Cardinality({}) = 0 /\ IsFiniteSet({})
      BY <2>1, FS_EmptySet DEF Mine
    <2>3. RepeatsInv
      BY <1>1, <2>1, <2>2 DEF RepeatsInv
    <2>4. 0 <= StepLimit
      BY <1>1, Room DEF StepLimit
    <2> QED
      BY <2>1, <2>3, <2>4 DEF StepsInv
  <1>3. /\ Base /\ RepeatsInv /\ StepsInv /\ [Next]_vars /\ Base'
        => RepeatsInv' /\ StepsInv'
    <2> SUFFICES ASSUME Base, RepeatsInv, StepsInv, [Next]_vars, Base'
                 PROVE  RepeatsInv' /\ StepsInv'
      OBVIOUS
    <2>1. ControlInv /\ ControlInv' /\ SessionType'
      BY DEF Base, SessionInv
    <2>2. LoopKinds
      BY <2>1, LoopStep
    <2> QED
      BY <2>1, <2>2, RepeatsStep, StepsStep
  <1>4. Base /\ RepeatsInv /\ StepsInv => RepeatsStopped
    <2> SUFFICES ASSUME Base, RepeatsInv, StepsInv PROVE RepeatsStopped
      OBVIOUS
    <2>1. StepLimit \in Nat /\ t.steps \in Nat
      <3>1. /\ DoomThreshold + MaxDoomRefusals + MaxHarmony \in Nat
            /\ MaxCutOffs + 1 \in Nat
        BY <1>1
      <3> QED
        BY <3>1, BaseTypes, Room DEF StepLimit
    <2>2. t.steps < MaxSteps
      BY <1>1, <2>1 DEF StepsInv
    <2> QED
      BY <2>2 DEF RepeatsInv, Mine, RepeatsStopped
  <1> QED
    BY <1>2, <1>3, <1>4, BaseInvariant, PTL DEF Spec
=============================================================================
