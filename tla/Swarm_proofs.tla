---------------------------- MODULE Swarm_proofs ----------------------------
(***************************************************************************)
(* Proofs for the swarm: its types, one writer per file, cancels that hit  *)
(* the worker they were meant for, and merges that lose nothing, for any   *)
(* number of calls, workers, files and turns.                              *)
(***************************************************************************)
EXTENDS Swarm, FiniteSetTheorems, TLAPS

Ended == {"done", "panicked"}
Places == {"off", "permit", "done", "panicked"} \cup Busy
Results == {"none", "ok", "cancelled", "failed", "conflict", "unmerged"}

\* What a worker that has not begun has done: nothing.
FreshInv(w) ==
    wpc[w] \in {"off", "permit"} =>
        /\ wrote[w] = {} /\ target[w] = {} /\ work[w] = head
        /\ w \notin asked /\ result[w] = "none"

\* Calls that were not made have no workers, the workers that were joined have
\* ended, the workers of a call are numbered without a gap, and the one whose
\* worktree is merged is the next of them.
TeamInv ==
    /\ \A w \in Workers : w[1] > call => wpc[w] = "off"
    /\ \A i \in 1 .. joined : <<call, i>> \in Workers
                              /\ wpc[<<call, i>>] \in Ended
    /\ cpc \in Waiting => call \in Calls /\ \E k \in Ids : Team(call) = 1 .. k
    /\ cpc = "merge" => /\ worktrees /\ Joining \in Workers
                        /\ wpc[Joining] = "done"
    /\ cpc # "merge" => todo = {} /\ merging = {}

\* A worker has the claim of a file, by one of its names.
Claims(w, p) == \E n \in Names : n[1] = p /\ claims[w[1]][n] = w[2]

\* In one checkout a worker that runs still claims what it wrote, and what it is
\* about to write.
ClaimInv ==
    /\ worktrees => \A w \in Workers : wrote[w] = {}
    /\ ~worktrees =>
         \A w \in Workers : wpc[w] \in Busy =>
             \A p \in wrote[w] \cup target[w] : Claims(w, p)

\* A request to stop an id is one for every worker of the id that runs, and
\* workers of one id that run at once are known to overlap.
CancelInv ==
    /\ \A w \in Workers :
         wpc[w] \in InLoop /\ cancels[w[2]] = "yes" => w \in asked
    /\ \A v, w \in Workers :
         /\ v # w /\ v[2] = w[2]
         /\ wpc[v] \in InLoop /\ wpc[w] \in InLoop
         => w \in overlapped

\* A worker reported without a conflict.
Good(w) == result[w] \notin {"none", "conflict", "unmerged"}

\* Its listed changes are in main, those in `left` aside.
Kept(w, left) ==
    \A p \in Changed(w) \ left : main[p] = work[w][p] \/ UserHas(p)

\* A worker that panicked is not reported.  A file the user edited never looks
\* like HEAD again.  What is about to be written was like HEAD when it was
\* compared: neither the user's, unless edited since, nor a joined worker's.
\* Of the worktree that is merged, everything is in main but what is left to do.
MergeInv ==
    /\ \A w \in Workers : wpc[w] = "panicked" => result[w] = "none"
    /\ worktrees => \A p \in edited : main[p] # head[p]
    /\ merging \cap edited \subseteq overtaken
    /\ cpc = "merge" =>
         /\ todo \cup merging \subseteq Changed(Joining)
         /\ Good(Joining) => Kept(Joining, todo \cup merging)
         /\ \A i \in 1 .. joined :
              Good(<<call, i>>) => merging \cap Changed(<<call, i>>) = {}

\* Types, workers that have not begun, and the order of the workers of a call.
BaseInv ==
    /\ TypeOK
    /\ \A w \in Workers : FreshInv(w)
    /\ TeamInv

\* A worker is a pair of a call and an id.
LEMMA WorkerFields ==
    ASSUME NEW w \in Workers
    PROVE  w[1] \in Calls /\ w[2] \in Ids /\ w = <<w[1], w[2]>>
    BY DEF Workers

\* A call has at most N workers.
LEMMA TeamFinite ==
    ASSUME NEW c
    PROVE  /\ IsFiniteSet(Team(c)) /\ Cardinality(Team(c)) \in 0 .. N
  <1>1. IsFiniteSet(Ids) /\ Cardinality(Ids) = N
    BY SwarmAssumption, FS_Interval DEF Ids
  <1>2. Team(c) \subseteq Ids
    BY DEF Team
  <1> QED
    BY <1>1, <1>2, FS_Subset, FS_CardinalityType, SwarmAssumption

\* The worker to be joined next is one of the call's.
LEMMA JoiningWorker ==
    ASSUME TypeOK, TeamInv, cpc = "join", joined < Cardinality(Team(call))
    PROVE  Joining \in Workers /\ joined + 1 \in Ids
  <1>1. joined + 1 \in Ids
    BY TeamFinite, SwarmAssumption DEF TypeOK, Ids
  <1> QED
    BY <1>1 DEF TeamInv, Waiting, Joining, Workers

\* A key is one of the file's names.
LEMMA KeyIsName ==
    ASSUME NEW n \in Names
    PROVE  ClaimKey(n) \in Names /\ ClaimKey(n)[1] = n[1] /\ n[1] \in Paths
    BY SwarmAssumption DEF ClaimKey, Names

\* The types hold at the start.
LEMMA InitType == Init => TypeOK
  <1> SUFFICES ASSUME Init PROVE TypeOK
    OBVIOUS
  <1>1. N \in Ids
    BY SwarmAssumption DEF Ids
  <1> QED
    BY <1>1, SwarmAssumption DEF Init, TypeOK, Contents, Free, Busy, InLoop,
       Ids

\* What a tool writes are files.
LEMMA WrittenType ==
    ASSUME NEW w \in Workers, NEW files \in [Paths -> Contents],
           NEW ps \in SUBSET Paths, NEW new \in Texts(w, files, ps)
    PROVE  Written(files, new) \in [Paths -> Contents]
    BY DEF Texts, Written, Contents

\* Every step keeps the types: the parent joins no worker that is not there.
LEMMA NextType == TypeOK /\ TeamInv /\ [Next]_vars => TypeOK'
  <1> SUFFICES ASSUME TypeOK, TeamInv, [Next]_vars PROVE TypeOK'
    OBVIOUS
  <1> USE SwarmAssumption DEF Places, Results
  <1>a. /\ wpc \in [Workers -> Places] /\ result \in [Workers -> Results]
        /\ target \in [Workers -> SUBSET Paths]
    BY DEF TypeOK
  <1>b. /\ main \in [Paths -> Contents] /\ hidden \in [Workers -> SUBSET Paths]
        /\ work \in [Workers -> [Paths -> Contents]]
    BY DEF TypeOK
  <1>1. ASSUME NEW k \in Ids, NEW own \in [1 .. k -> SUBSET Names],
               NEW n \in 1 .. k, StartSwarm(own, n)
        PROVE  TypeOK'
    <2> DEFINE keys == [i \in DOMAIN own |-> {ClaimKey(m) : m \in own[i]}]
    <2>1. DOMAIN own \subseteq Ids /\ n \in Ids /\ k \in Nat
      BY DEF Ids
    <2>2. /\ call' \in 0 .. MaxCalls /\ joined' \in 0 .. N
          /\ cpc' \in {"idle", "join", "merge", "back"}
      BY <1>1 DEF TypeOK, StartSwarm
    <2>3. PreClaimed(keys) \in [Names -> Ids \cup {Free}]
      <3> HIDE DEF keys
      <3>1. DOMAIN keys \subseteq Ids
        BY <2>1 DEF keys
      <3> QED
        BY <3>1 DEF PreClaimed
    <2>4. call + 1 \in Calls
      BY <1>1 DEF TypeOK, StartSwarm, Calls
    <2>5. claims' \in [Calls -> [Names -> Ids \cup {Free}]]
      <3>1. \/ claims' = claims
            \/ claims' = [claims EXCEPT ![call + 1] = PreClaimed(keys)]
        BY <1>1 DEF StartSwarm
      <3> QED
        BY <2>3, <2>4, <3>1 DEF TypeOK
    <2>6. permits' \in [Calls -> Ids]
      BY <1>1, <2>1, <2>4 DEF TypeOK, StartSwarm
    <2>7. wpc' \in [Workers -> Places]
      BY <1>1 DEF TypeOK, StartSwarm
    <2> QED
      BY <1>1, <2>2, <2>5, <2>6, <2>7 DEF TypeOK, StartSwarm, fileVars,
         cancelVars
  <1>2. ASSUME NEW status \in BOOLEAN, Join(status)
        PROVE  TypeOK'
    <2>1. Joining \in Workers /\ joined + 1 \in 0 .. N
      BY <1>2, JoiningWorker DEF Join, Ids
    <2>2. result' \in [Workers -> Results]
      BY <1>2, <2>1 DEF TypeOK, Join
    <2>3. todo' \subseteq Paths
      BY <1>2 DEF TypeOK, Join, Changed
    <2> QED
      BY <1>2, <2>1, <2>2, <2>3 DEF TypeOK, Join, fileVars, cancelVars
  <1>18. ASSUME NEW p \in Paths, MergeRead(p)
        PROVE  TypeOK'
    BY <1>18 DEF TypeOK, MergeRead, Conflict, fileVars, cancelVars
  <1>19. ASSUME NEW ok \in BOOLEAN, MergeWrite(ok)
        PROVE  TypeOK'
    <2>1. Joining \in Workers
      BY <1>19 DEF TeamInv, MergeWrite
    <2>2. work[Joining] \in [Paths -> Contents] /\ main \in [Paths -> Contents]
      BY <2>1 DEF TypeOK
    <2>3. main' \in [Paths -> Contents]
      BY <1>19, <2>2 DEF MergeWrite
    <2>4. result' \in [Workers -> Results]
      BY <1>19 DEF TypeOK, MergeWrite, Conflict
    <2> QED
      BY <1>19, <2>3, <2>4 DEF TypeOK, MergeWrite, cancelVars
  <1>20. ASSUME MergeDone
        PROVE  TypeOK'
    <2>1. joined + 1 \in 0 .. N
      BY <1>20 DEF TeamInv, MergeDone, Joining, Workers, Ids
    <2> QED
      BY <1>20, <2>1 DEF TypeOK, MergeDone, fileVars, workerVars, cancelVars
  <1>3. ASSUME Return
        PROVE  TypeOK'
    BY <1>3 DEF TypeOK, Return, Free, Busy, InLoop, Contents, fileVars,
       callVars, workerVars, cancelVars
  <1>4. ASSUME Esc
        PROVE  TypeOK'
    BY <1>4 DEF TypeOK, Esc, Free, Busy, InLoop, Contents, fileVars, callVars,
       workerVars, cancelVars
  <1>5. ASSUME NEW w \in Workers, NEW created \in BOOLEAN, Begin(w, created)
        PROVE  TypeOK'
    <2>1. overlapped' \subseteq Workers
      BY <1>5 DEF TypeOK, Begin
    <2>2. cancels' \in [Ids -> {"none", "no", "yes"}]
      BY <1>5, WorkerFields DEF TypeOK, Begin, Register
    <2>3. work' \in [Workers -> [Paths -> Contents]]
      BY <1>5 DEF TypeOK, Begin
    <2>4. wpc' \in [Workers -> Places]
      BY ZenonT(40), <1>a, <1>5 DEF Begin, Goto, Busy, InLoop
    <2>5. result' \in [Workers -> Results]
      BY <1>5 DEF TypeOK, Begin
    <2> QED
      BY <1>5, <2>1, <2>2, <2>3, <2>4, <2>5 DEF TypeOK, Begin, callVars
  <1>6. ASSUME NEW w \in Workers, Step(w)
        PROVE  TypeOK'
    <2>1. cancels' \in [Ids -> {"none", "no", "yes"}]
      BY <1>6, WorkerFields DEF TypeOK, Step, Ends, cancelVars
    <2>2. steps' \in [Workers -> 0 .. MaxTurns]
      <3>1. steps[w] \in 0 .. MaxTurns /\ MaxTurns \in Nat
        BY DEF TypeOK
      <3>2. ~OutOfTurns(w) => steps[w] + 1 \in 0 .. MaxTurns
        BY <3>1 DEF OutOfTurns
      <3>3. \/ steps' = [steps EXCEPT ![w] = 0]
            \/ ~OutOfTurns(w) /\ steps' = [steps EXCEPT ![w] = @ + 1]
        BY <1>6 DEF Step, Ends
      <3>4. steps \in [Workers -> 0 .. MaxTurns] /\ 0 \in 0 .. MaxTurns
        BY <3>1 DEF TypeOK
      <3> QED
        BY <3>2, <3>3, <3>4
    <2>3. wpc' \in [Workers -> Places]
      BY ZenonT(60), <1>a, <1>6 DEF Step, Ends, Goto, Busy, InLoop
    <2>4. result' \in [Workers -> Results]
      BY <1>a, <1>6 DEF Step, Ends
    <2>5. asked' \subseteq Workers /\ overlapped' \subseteq Workers
      BY <1>6 DEF TypeOK, Step, Ends, cancelVars
    <2> QED
      BY <1>6, <2>1, <2>2, <2>3, <2>4, <2>5 DEF TypeOK, Step, fileVars, callVars
  <1>7. ASSUME NEW w \in Workers, OtherTool(w)
        PROVE  TypeOK'
    BY <1>7 DEF TypeOK, OtherTool, Goto, Free, Busy, InLoop, Contents,
       fileVars, callVars, workerVars, cancelVars
  <1>8. ASSUME NEW w \in Workers, SendMail(w)
        PROVE  TypeOK'
    BY <1>8, WorkerFields DEF TypeOK, SendMail, Goto, Free, Busy, InLoop,
       Contents, fileVars, callVars, workerVars, cancelVars
  <1>9. ASSUME NEW w \in Workers, WriteFails(w)
        PROVE  TypeOK'
    BY <1>9 DEF TypeOK, WriteFails, Goto, Free, Busy, InLoop, Contents,
       fileVars, callVars, workerVars, cancelVars
  <1>10. ASSUME NEW w \in Workers, Close(w)
        PROVE  TypeOK'
    <2>1. claims' \in [Calls -> [Names -> Ids \cup {Free}]]
      <3>1. claims \in [Calls -> [Names -> Ids \cup {Free}]] /\ w[1] \in Calls
        BY WorkerFields DEF TypeOK
      <3> QED
        BY <1>10, <3>1 DEF Close, ReleaseAgent
    <2>2. wpc' \in [Workers -> Places]
      BY <1>a, <1>10 DEF Close, Goto
    <2>3. wrote' \in [Workers -> SUBSET Paths]
      BY <1>10 DEF TypeOK, Close
    <2> QED
      BY <1>10, <2>1, <2>2, <2>3 DEF TypeOK, Close, callVars, cancelVars
  <1>11. ASSUME NEW w \in Workers, NEW how \in {"ok", "failed"},
                LastReply(w, how)
        PROVE  TypeOK'
    <2>1. cancels' \in [Ids -> {"none", "no", "yes"}]
      BY <1>11, WorkerFields DEF TypeOK, LastReply, Ends
    <2>2. steps' \in [Workers -> 0 .. MaxTurns]
      <3>1. 0 \in 0 .. MaxTurns
        BY DEF TypeOK
      <3> QED
        BY <1>11, <3>1 DEF TypeOK, LastReply, Ends
    <2>3. wpc' \in [Workers -> Places]
      BY <1>11 DEF TypeOK, LastReply, Ends, Goto, Busy, InLoop
    <2>4. result' \in [Workers -> Results]
      BY <1>11 DEF TypeOK, LastReply, Ends
    <2>5. asked' \subseteq Workers /\ overlapped' \subseteq Workers
      BY <1>11 DEF TypeOK, LastReply, Ends
    <2> QED
      BY <1>11, <2>1, <2>2, <2>3, <2>4, <2>5 DEF TypeOK, LastReply, fileVars,
         callVars
  <1>12. ASSUME NEW w \in Workers, NEW n \in Names, ClaimFile(w, n)
        PROVE  TypeOK'
    <2>1. claims' \in [Calls -> [Names -> Ids \cup {Free}]]
      <3>1. w[1] \in Calls /\ w[2] \in Ids
        BY WorkerFields
      <3>2. \/ claims' = claims
            \/ claims' = [claims EXCEPT ![w[1]][ClaimKey(n)] = w[2]]
        BY <1>12 DEF ClaimFile
      <3>3. claims \in [Calls -> [Names -> Ids \cup {Free}]]
        BY DEF TypeOK
      <3>4. \A c \in Calls, i \in Ids, m \in Names :
              [claims EXCEPT ![c][m] = i]
                \in [Calls -> [Names -> Ids \cup {Free}]]
        BY <3>3
      <3> QED
        BY <3>1, <3>2, <3>3, <3>4, KeyIsName
    <2>2. target' \in [Workers -> SUBSET Paths]
      <3>1. target' = target \/ target' = [target EXCEPT ![w] = {n[1]}]
        BY <1>12 DEF ClaimFile
      <3> QED
        BY <1>a, <3>1, KeyIsName
    <2>3. wpc' \in [Workers -> Places]
      <3>1. wpc' \in {[wpc EXCEPT ![w] = "write"], [wpc EXCEPT ![w] = "step"]}
        BY <1>12 DEF ClaimFile, Goto
      <3> QED
        BY <1>a, <3>1 DEF Busy, InLoop
    <2> QED
      BY <1>12, <2>1, <2>2, <2>3 DEF TypeOK, ClaimFile, fileVars, callVars,
         cancelVars
  <1>13. ASSUME NEW w \in Workers, WriteFile(w)
        PROVE  TypeOK'
    <2>1. target[w] \subseteq Paths /\ work[w] \in [Paths -> Contents]
      BY DEF TypeOK
    <2>2. work' \in [Workers -> [Paths -> Contents]]
      <3>1. \/ work' = work
            \/ \E new \in Texts(w, work[w], target[w]) :
                 work' = [work EXCEPT ![w] = Written(work[w], new)]
        BY <1>b, <1>13 DEF WriteFile
      <3>2. \A new \in Texts(w, work[w], target[w]) :
              Written(work[w], new) \in [Paths -> Contents]
        BY <2>1, WrittenType
      <3> QED
        BY <1>b, <3>1, <3>2
    <2>3. main' \in [Paths -> Contents]
      <3>1. \/ main' = main
            \/ \E new \in Texts(w, main, target[w]) : main' = Written(main, new)
        BY <1>13 DEF WriteFile
      <3>2. \A new \in Texts(w, main, target[w]) :
              Written(main, new) \in [Paths -> Contents]
        BY <1>b, <2>1, WrittenType
      <3> QED
        BY <1>b, <3>1, <3>2
    <2>4. wrote' \in [Workers -> SUBSET Paths]
      <3>1. wrote[w] \cup target[w] \in SUBSET Paths
        BY DEF TypeOK
      <3>2. \/ wrote' = wrote
            \/ wrote' = [wrote EXCEPT ![w] = wrote[w] \cup target[w]]
        BY <1>13 DEF WriteFile, TypeOK
      <3>3. wrote \in [Workers -> SUBSET Paths]
        BY DEF TypeOK
      <3> QED
        BY <3>1, <3>2, <3>3
    <2>5. target' \in [Workers -> SUBSET Paths]
      BY <1>13 DEF TypeOK, WriteFile
    <2>6. wpc' \in [Workers -> Places]
      BY <1>13 DEF TypeOK, WriteFile, Goto, Busy, InLoop
    <2>7. hidden' \in [Workers -> SUBSET Paths]
      <3>1. \/ hidden' = hidden
            \/ hidden' = [hidden EXCEPT ![w] = hidden[w] \ target[w]]
        BY <1>13 DEF WriteFile, TypeOK
      <3>2. hidden \in [Workers -> SUBSET Paths]
        BY DEF TypeOK
      <3> QED
        BY <3>1, <3>2
    <2> QED
      BY <1>13, <2>2, <2>3, <2>4, <2>5, <2>6, <2>7 DEF TypeOK, WriteFile,
         callVars, cancelVars
  <1>21. ASSUME NEW w \in Workers, NEW ps \in SUBSET Paths,
                NEW out \in SUBSET Paths, Shell(w, ps, out)
        PROVE  TypeOK'
    <2>1. work[w] \in [Paths -> Contents]
      BY DEF TypeOK
    <2>2. work' \in [Workers -> [Paths -> Contents]]
      <3>1. \/ work' = work
            \/ \E new \in Texts(w, work[w], ps) :
                 work' = [work EXCEPT ![w] = Written(work[w], new)]
        BY <1>b, <1>21 DEF Shell
      <3>2. \A new \in Texts(w, work[w], ps) :
              Written(work[w], new) \in [Paths -> Contents]
        BY <2>1, WrittenType
      <3> QED
        BY <1>b, <3>1, <3>2
    <2>3. main' \in [Paths -> Contents]
      <3>1. \/ main' = main
            \/ \E new \in Texts(w, main, ps) : main' = Written(main, new)
        BY <1>21 DEF Shell
      <3>2. \A new \in Texts(w, main, ps) :
              Written(main, new) \in [Paths -> Contents]
        BY <1>b, <2>1, WrittenType
      <3> QED
        BY <1>b, <3>1, <3>2
    <2>4. hidden' \in [Workers -> SUBSET Paths]
      <3>1. \/ hidden' = hidden
            \/ hidden' = [hidden EXCEPT ![w] = (hidden[w] \ ps) \cup out]
        BY <1>b, <1>21 DEF Shell
      <3>2. (hidden[w] \ ps) \cup out \in SUBSET Paths
        BY <1>b
      <3> QED
        BY <1>b, <3>1, <3>2
    <2>5. wpc' \in [Workers -> Places]
      BY <1>21 DEF TypeOK, Shell, Goto, Busy, InLoop
    <2> QED
      BY <1>21, <2>2, <2>3, <2>4, <2>5 DEF TypeOK, Shell, callVars, cancelVars
  <1>14. ASSUME NEW w \in Workers, Panic(w)
        PROVE  TypeOK'
    BY <1>14 DEF TypeOK, Panic, Goto, Free, Busy, InLoop, Contents, fileVars,
       callVars, workerVars, cancelVars
  <1>15. ASSUME NEW i \in Ids, CancelWorker(i)
        PROVE  TypeOK'
    BY <1>15 DEF TypeOK, CancelWorker, Free, Busy, InLoop, Contents, fileVars,
       callVars, workerVars, cancelVars
  <1>16. ASSUME NEW p \in Paths, NEW text \in {User, Gone}, Edit(p, text)
        PROVE  TypeOK'
    BY <1>16 DEF TypeOK, Edit, Free, Busy, InLoop, Contents, fileVars,
       callVars, workerVars, cancelVars
  <1>17. CASE UNCHANGED vars
    BY <1>17 DEF TypeOK, vars, fileVars, callVars, workerVars, cancelVars
  <1> QED
    BY <1>1, <1>2, <1>3, <1>4, <1>5, <1>6, <1>7, <1>8, <1>9, <1>10, <1>11,
       <1>12, <1>13, <1>14, <1>15, <1>16, <1>17, <1>18, <1>19, <1>20, <1>21
       DEF Next, Await, Work

\* A step of a worker moves that worker alone, which runs or waits to begin, and
\* leaves the call, the other workers and the user's edits as they are.
LEMMA WorkerMoves ==
    ASSUME TypeOK, NEW w \in Workers, Work(w) \/ Panic(w)
    PROVE  /\ wpc[w] \in Busy \cup {"permit"} /\ wpc'[w] \in Busy \cup Ended
           /\ \A v \in Workers \ {w} :
                /\ wpc'[v] = wpc[v] /\ target'[v] = target[v]
                /\ result'[v] = result[v]
                /\ work'[v] = work[v] /\ wrote'[v] = wrote[v]
                /\ hidden'[v] = hidden[v]
           /\ UNCHANGED <<worktrees, odd, head, callVars, edited, overtaken>>
           /\ asked' \subseteq asked
  <1>1. /\ wpc[w] \in Busy \cup {"permit"} /\ wpc'[w] \in Busy \cup Ended
        /\ \A v \in Workers \ {w} : wpc'[v] = wpc[v]
        /\ UNCHANGED <<worktrees, odd, head, callVars, edited, overtaken>>
    BY ZenonT(60) DEF TypeOK, Work, Panic, Begin, Step, OtherTool, SendMail,
       Shell, WriteFails, Close, LastReply, ClaimFile, WriteFile, Ends, Goto,
       Busy, InLoop, Ended, fileVars, cancelVars
  <1>2. \A v \in Workers \ {w} :
          target'[v] = target[v] /\ result'[v] = result[v]
    BY DEF TypeOK, Work, Panic, Begin, Step, OtherTool, SendMail, Shell,
           WriteFails, Close, LastReply, ClaimFile, WriteFile, Ends
  <1>3. \A v \in Workers \ {w} :
          wrote'[v] = wrote[v] /\ hidden'[v] = hidden[v]
    BY DEF TypeOK, Work, Panic, Begin, Step, OtherTool, SendMail, Shell,
           WriteFails, Close, LastReply, ClaimFile, WriteFile, fileVars
  <1>4. \A v \in Workers \ {w} : work'[v] = work[v]
    BY DEF TypeOK, Work, Panic, Begin, Step, OtherTool, SendMail, Shell,
           WriteFails, Close, LastReply, ClaimFile, WriteFile, fileVars
  <1>5. asked' \subseteq asked
    BY DEF Work, Panic, Begin, Step, OtherTool, SendMail, Shell, WriteFails,
           Close, LastReply, ClaimFile, WriteFile, Ends, cancelVars
  <1> QED
    BY <1>1, <1>2, <1>3, <1>4, <1>5

\* A worker that has not begun has done nothing.
LEMMA NextFresh ==
    ASSUME BaseInv, [Next]_vars
    PROVE  (\A w \in Workers : FreshInv(w))'
  <1> USE SwarmAssumption DEF BaseInv, Places, Results
  <1>1. CASE /\ UNCHANGED head
             /\ \A v \in Workers :
                  /\ wpc'[v] \in {"off", "permit"} =>
                       wpc[v] \in {"off", "permit"}
                  /\ wpc[v] \in {"off", "permit"} =>
                       UNCHANGED <<wrote[v], target[v], work[v], result[v]>>
                       /\ (v \in asked' => v \in asked)
    BY <1>1 DEF FreshInv
  <1>2. ASSUME NEW w \in Workers, Work(w) \/ Panic(w)
        PROVE  (\A v \in Workers : FreshInv(v))'
    BY <1>1, <1>2, WorkerMoves DEF FreshInv, Busy, InLoop, Ended
  <1>3. ASSUME NEW k \in Ids, NEW own \in [1 .. k -> SUBSET Names],
               NEW n \in 1 .. k, StartSwarm(own, n)
        PROVE  (\A v \in Workers : FreshInv(v))'
    <2>1. \A v \in Workers : v[1] = call + 1 => wpc[v] = "off"
      <3>1. call \in Nat /\ call + 1 > call
        BY DEF TypeOK
      <3> QED
        BY <3>1 DEF TeamInv
    <2>2. UNCHANGED <<head, wrote, target, work, result, asked>>
      BY <1>3 DEF StartSwarm, fileVars, cancelVars
    <2>3. \A v \in Workers :
            wpc'[v] \in {"off", "permit"} => wpc[v] \in {"off", "permit"}
      BY <1>3, <2>1 DEF StartSwarm
    <2> QED
      BY <1>1, <2>2, <2>3
  <1>4. ASSUME \/ \E status \in BOOLEAN : Join(status)
               \/ \E p \in Paths : MergeRead(p)
               \/ \E ok \in BOOLEAN : MergeWrite(ok)
               \/ MergeDone
        PROVE  (\A v \in Workers : FreshInv(v))'
    <2>1. /\ UNCHANGED <<head, wrote, target, work, asked, wpc>>
          /\ wpc[Joining] \in Ended
          /\ \A v \in Workers \ {Joining} : result'[v] = result[v]
      BY <1>4 DEF TypeOK, TeamInv, Join, MergeRead, MergeWrite, MergeDone,
         Conflict, Ended, fileVars, workerVars, cancelVars
    <2> QED
      BY <1>1, <2>1 DEF Ended
  <1>5. ASSUME \/ Return \/ Esc \/ UNCHANGED vars
               \/ \E i \in Ids : CancelWorker(i)
               \/ \E p \in Paths, text \in {User, Gone} : Edit(p, text)
        PROVE  (\A v \in Workers : FreshInv(v))'
    BY <1>1, <1>5 DEF Return, Esc, CancelWorker, Edit, InLoop, vars, fileVars,
       workerVars, cancelVars
  <1> QED
    BY <1>2, <1>3, <1>4, <1>5 DEF Next, Await

\* Workers are joined in their order, after they ended.
LEMMA NextTeam ==
    ASSUME TypeOK, TeamInv, [Next]_vars
    PROVE  TeamInv'
  <1> USE SwarmAssumption
  <1>1. ASSUME NEW k \in Ids, NEW own \in [1 .. k -> SUBSET Names],
               NEW n \in 1 .. k, StartSwarm(own, n)
        PROVE  TeamInv'
    <2> DEFINE keys == [i \in DOMAIN own |-> {ClaimKey(m) : m \in own[i]}]
    <2>1. CASE ~Disjoint(keys)
      <3>1. /\ UNCHANGED <<call, joined, wpc, todo, merging>>
            /\ cpc' = "idle" /\ cpc # "merge"
        BY <1>1, <2>1 DEF StartSwarm, Waiting
      <3> QED
        BY <3>1 DEF TeamInv, Waiting
    <2>2. CASE Disjoint(keys)
      <3>1. call \in Nat /\ call' = call + 1 /\ joined' = 0 /\ call + 1 \in Calls
        BY <1>1, <2>2 DEF TypeOK, StartSwarm, Calls
      <3>2. \A v \in Workers : v[1] > call + 1 => v[1] > call /\ v[1] # call + 1
        BY <3>1, WorkerFields DEF Calls
      <3>3. \A v \in Workers : v[1] > call + 1 => wpc'[v] = "off"
        BY <1>1, <2>2, <3>2 DEF StartSwarm, TeamInv, TypeOK
      <3>4. cpc' = "join" => Team(call)' = 1 .. k
        <4>1. DOMAIN own = 1 .. k /\ 1 .. k \subseteq Ids
          BY DEF Ids
        <4>2. \A i \in Ids : <<call + 1, i>> \in Workers
          BY <3>1 DEF Workers
        <4>3. \A i \in Ids : wpc[<<call + 1, i>>] = "off"
          BY <3>1, <4>2 DEF TeamInv
        <4>4. cpc' = "join" => \A i \in Ids :
                wpc'[<<call + 1, i>>] = IF i \in 1 .. k THEN "permit" ELSE "off"
          BY <1>1, <2>2, <4>1, <4>2, <4>3 DEF StartSwarm
        <4> QED
          BY <3>1, <4>1, <4>4 DEF Team
      <3>5. todo' = {} /\ merging' = {} /\ cpc' = "join"
        BY <1>1, <2>2 DEF StartSwarm, TeamInv, Waiting
      <3> QED
        BY <3>1, <3>3, <3>4, <3>5 DEF TeamInv, Waiting
    <2> QED
      BY <2>1, <2>2
  <1>2. ASSUME Joining \in Workers, wpc[Joining] \in Ended, cpc \in Waiting,
               joined' = joined + 1, cpc' = "join", todo' = {}, merging' = {},
               UNCHANGED <<call, wpc>>
        PROVE  TeamInv'
    <2>1. joined \in Nat
      BY DEF TypeOK
    <2>2. \A i \in 1 .. joined + 1 : <<call, i>> \in Workers
                                      /\ wpc[<<call, i>>] \in Ended
      <3> SUFFICES ASSUME NEW i \in 1 .. joined + 1
                   PROVE  <<call, i>> \in Workers /\ wpc[<<call, i>>] \in Ended
        OBVIOUS
      <3>1. CASE i = joined + 1
        BY <1>2, <3>1 DEF Joining
      <3>2. CASE i \in 1 .. joined
        BY <3>2 DEF TeamInv
      <3> QED
        BY <2>1, <3>1, <3>2
    <2> QED
      BY <1>2, <2>2 DEF TeamInv, Team, Waiting
  <1>5. ASSUME NEW status \in BOOLEAN, Join(status)
        PROVE  TeamInv'
    <2>1. /\ cpc = "join" /\ Joining \in Workers /\ wpc[Joining] \in Ended
          /\ todo = {} /\ merging = {} /\ UNCHANGED <<worktrees, call, wpc, merging>>
      BY <1>5, JoiningWorker DEF Join, TeamInv, Ended
    <2>2. CASE cpc' = "merge"
      <3>1. worktrees /\ wpc[Joining] = "done" /\ joined' = joined
        BY <1>5, <2>1, <2>2 DEF Join
      <3> QED
        BY <2>1, <2>2, <3>1 DEF TeamInv, Team, Waiting, Joining
    <2>3. CASE cpc' # "merge"
      <3>1. joined' = joined + 1 /\ cpc' = cpc /\ todo' = todo
        BY <1>5, <2>3 DEF Join
      <3> QED
        BY <1>2, <2>1, <3>1 DEF Waiting
    <2> QED
      BY <2>2, <2>3
  <1>6. CASE MergeDone
    BY <1>2, <1>6 DEF MergeDone, TeamInv, Waiting, Ended, workerVars
  <1>7. CASE \/ \E p \in Paths : MergeRead(p)
             \/ \E ok \in BOOLEAN : MergeWrite(ok)
    <2>1. cpc = "merge" /\ UNCHANGED <<worktrees, call, cpc, joined, wpc>>
      BY <1>7 DEF MergeRead, MergeWrite, TeamInv
    <2> QED
      BY <2>1 DEF TeamInv, Team, Waiting, Joining
  <1>3. ASSUME NEW w \in Workers, Work(w) \/ Panic(w)
        PROVE  TeamInv'
    <2>1. /\ wpc[w] \in Busy \cup {"permit"} /\ wpc'[w] \in Busy \cup Ended
          /\ \A v \in Workers \ {w} : wpc'[v] = wpc[v]
          /\ UNCHANGED <<worktrees, call, cpc, joined, todo, merging>>
      BY <1>3, WorkerMoves DEF callVars
    <2>2. \A v \in Workers : wpc'[v] = "off" <=> wpc[v] = "off"
      BY <2>1 DEF Busy, InLoop, Ended
    <2>3. \A i \in 1 .. joined : wpc'[<<call, i>>] \in Ended
      BY <2>1 DEF TeamInv, Busy, InLoop, Ended
    <2>4. call \in Calls => Team(call)' = Team(call)
      BY <2>1, <2>2 DEF Team, Workers
    <2>5. cpc = "merge" => wpc'[Joining] = "done" /\ Joining' = Joining
      BY <2>1 DEF TeamInv, Busy, InLoop, Joining
    <2> QED
      BY <2>1, <2>2, <2>3, <2>4, <2>5 DEF TeamInv
  <1>4. CASE /\ UNCHANGED <<worktrees, wpc, call, joined, todo, merging>>
             /\ cpc' = cpc \/ (cpc # "merge" /\ cpc' \notin Waiting)
    <2>1. Joining' = Joining /\ Team(call)' = Team(call)
      BY <1>4 DEF Joining, Team
    <2> QED
      BY <1>4, <2>1 DEF TeamInv, Waiting
  <1>8. CASE \/ Return \/ Esc \/ UNCHANGED vars
             \/ \E i \in Ids : CancelWorker(i)
             \/ \E p \in Paths, text \in {User, Gone} : Edit(p, text)
    <2>1. UNCHANGED <<worktrees, wpc, call, joined, todo, merging>>
      BY <1>8 DEF Return, Esc, CancelWorker, Edit, vars, callVars, workerVars
    <2>2. cpc' = cpc \/ (cpc # "merge" /\ cpc' \notin Waiting)
      BY <1>8 DEF Return, Esc, CancelWorker, Edit, vars, callVars, Waiting
    <2> QED
      BY <1>4, <2>1, <2>2
  <1> QED
    BY <1>1, <1>3, <1>5, <1>6, <1>7, <1>8 DEF Next, Await

\* While workers of a call run, not all of them are joined.
LEMMA BusyNotJoined ==
    ASSUME TypeOK, TeamInv, cpc = "join", joined = Cardinality(Team(call)),
           NEW i \in Ids
    PROVE  wpc[<<call, i>>] \in Ended \cup {"off"}
  <1>1. PICK k \in Ids : Team(call) = 1 .. k
    BY DEF TeamInv, Waiting
  <1>2. joined = k
    BY <1>1, FS_Interval, SwarmAssumption DEF Ids
  <1> QED
    BY <1>1, <1>2 DEF TeamInv, Team

\* A running worker keeps the claims on what it wrote: only its own end or the
\* return of its call takes them, and try_claim gives no taken file away.
LEMMA NextClaims ==
    ASSUME BaseInv, ClaimInv, [Next]_vars
    PROVE  ClaimInv'
  <1> USE SwarmAssumption DEF BaseInv, Places, Results
  <1>0. /\ claims \in [Calls -> [Names -> Ids \cup {Free}]]
        /\ wpc \in [Workers -> Places]
        /\ wrote \in [Workers -> SUBSET Paths]
        /\ target \in [Workers -> SUBSET Paths]
    BY DEF TypeOK
  <1>1. ASSUME NEW k \in Ids, NEW own \in [1 .. k -> SUBSET Names],
               NEW n \in 1 .. k, StartSwarm(own, n)
        PROVE  ClaimInv'
    <2>1. UNCHANGED <<worktrees, wrote, target>>
      BY <1>1 DEF StartSwarm, fileVars
    <2>2. \A v \in Workers : wpc'[v] \in Busy => wpc[v] \in Busy
      BY <1>1 DEF StartSwarm, Busy, InLoop
    <2>3. \A v \in Workers : wpc[v] \in Busy => v[1] # call + 1
      <3>1. call \in Nat
        BY DEF TypeOK
      <3>2. call + 1 > call
        BY <3>1
      <3> QED
        BY <3>2 DEF TeamInv, Busy, InLoop
    <2>4. \A c \in Calls : c # call + 1 => claims'[c] = claims[c]
      BY <1>1, <1>0 DEF StartSwarm
    <2> QED
      BY <2>1, <2>2, <2>3, <2>4, WorkerFields DEF ClaimInv, Claims
  <1>2. CASE Return
    <2>1. UNCHANGED <<worktrees, wrote, target, wpc>>
      BY <1>2 DEF Return, fileVars, workerVars
    <2>2. \A v \in Workers : wpc[v] \in Busy => v[1] # call
      BY <1>2, BusyNotJoined, WorkerFields DEF Return, Busy, InLoop, Ended
    <2>3. \A c \in Calls : c # call => claims'[c] = claims[c]
      BY <1>2, <1>0 DEF Return
    <2> QED
      BY <2>1, <2>2, <2>3, WorkerFields DEF ClaimInv, Claims
  <1>3. ASSUME NEW w \in Workers, NEW n \in Names, ClaimFile(w, n)
        PROVE  ClaimInv'
    <2>0. PICK key \in Names : key = ClaimKey(n) /\ key[1] = n[1]
      BY KeyIsName
    <2>1. /\ UNCHANGED <<worktrees, wrote>> /\ wpc[w] \in Busy
          /\ \A v \in Workers : wpc'[v] \in Busy => wpc[v] \in Busy
          /\ \A v \in Workers \ {w} : target'[v] = target[v]
          /\ target'[w] \in {target[w], {n[1]}}
      BY <1>3, <1>0 DEF ClaimFile, Goto, Busy, InLoop, fileVars
    <2>2. CASE claims' = claims /\ (worktrees \/ target' = target)
      BY <2>1, <2>2 DEF ClaimInv, Claims
    <2>3. CASE /\ claims' = [claims EXCEPT ![w[1]][key] = w[2]]
               /\ claims[w[1]][key] \in {Free, w[2]}
      <3>1. \A c \in Calls, m \in Names :
              claims'[c][m] = IF c = w[1] /\ m = key THEN w[2] ELSE claims[c][m]
        BY <1>0, <2>3, WorkerFields
      <3>2. ASSUME ~worktrees, NEW v \in Workers, wpc[v] \in Busy,
                   NEW q \in wrote[v] \cup target[v]
            PROVE  Claims(v, q)'
        <4>1. PICK m \in Names : m[1] = q /\ claims[v[1]][m] = v[2]
          BY <1>0, <3>2 DEF ClaimInv, Claims
        <4>2. v[2] # Free
          BY WorkerFields DEF Ids, Free
        <4>3. claims'[v[1]][m] = v[2]
          BY <2>3, <3>1, <4>1, <4>2, WorkerFields
        <4> QED
          BY <4>1, <4>3 DEF Claims
      <3>3. Claims(w, n[1])'
        BY <2>0, <3>1, WorkerFields DEF Claims
      <3> QED
        BY <2>1, <3>2, <3>3 DEF ClaimInv
    <2> QED
      BY <1>3, <2>0, <2>2, <2>3 DEF ClaimFile, MayClaim
  <1>4. ASSUME NEW w \in Workers, WriteFile(w)
        PROVE  ClaimInv'
    <2>1. /\ UNCHANGED <<worktrees, claims>> /\ wpc[w] \in Busy
          /\ \A v \in Workers : wpc'[v] \in Busy => wpc[v] \in Busy
          /\ target'[w] = {}
          /\ \A v \in Workers \ {w} : target'[v] = target[v]
                                      /\ wrote'[v] = wrote[v]
          /\ worktrees => wrote' = wrote
          /\ wrote'[w] \subseteq wrote[w] \cup target[w]
      BY <1>4, <1>0 DEF WriteFile, Goto, Busy, InLoop
    <2> QED
      BY <2>1 DEF ClaimInv, Claims
  <1>5. ASSUME NEW w \in Workers, Close(w)
        PROVE  ClaimInv'
    <2>1. /\ UNCHANGED <<worktrees, target>>
          /\ \A v \in Workers : wrote'[v] \subseteq wrote[v]
          /\ \A v \in Workers : wpc'[v] \in Busy => wpc[v] \in Busy /\ v # w
      BY <1>5, <1>0 DEF Close, Goto, Busy, InLoop
    <2>2. \A c \in Calls, m \in Names :
            claims'[c][m] = IF c = w[1] /\ claims[c][m] = w[2] THEN Free
                            ELSE claims[c][m]
      BY <1>5, <1>0, WorkerFields DEF Close, ReleaseAgent
    <2>3. ASSUME ~worktrees, NEW v \in Workers, wpc'[v] \in Busy,
                 NEW q \in wrote[v] \cup target[v]
          PROVE  Claims(v, q)'
      <3>1. PICK m \in Names : m[1] = q /\ claims[v[1]][m] = v[2]
        BY <1>0, <2>1, <2>3 DEF ClaimInv, Claims
      <3>2. ~ (v[1] = w[1] /\ v[2] = w[2])
        BY <2>1, <2>3, WorkerFields
      <3>3. claims'[v[1]][m] = v[2]
        BY <2>2, <3>1, <3>2, WorkerFields
      <3> QED
        BY <3>1, <3>3 DEF Claims
    <2> QED
      BY <2>1, <2>3 DEF ClaimInv
  <1>6. CASE /\ UNCHANGED <<worktrees, claims>>
             /\ \A v \in Workers : wrote'[v] \subseteq wrote[v]
             /\ \A v \in Workers : target'[v] \subseteq target[v]
             /\ \A v \in Workers : wpc'[v] \in Busy =>
                  wpc[v] \in Busy \/ wrote[v] \cup target[v] = {}
    BY <1>6 DEF ClaimInv, Claims
  <1>7. ASSUME NEW w \in Workers, NEW created \in BOOLEAN, Begin(w, created)
        PROVE  ClaimInv'
    BY <1>7, <1>6, <1>0 DEF Begin, Goto, FreshInv, Busy, InLoop
  <1>8. ASSUME NEW w \in Workers,
               \/ Step(w) \/ OtherTool(w) \/ SendMail(w) \/ WriteFails(w)
               \/ Panic(w)
               \/ \E how \in {"ok", "failed"} : LastReply(w, how)
               \/ \E ps, out \in SUBSET Paths : Shell(w, ps, out)
        PROVE  ClaimInv'
    BY <1>8, <1>6, <1>0 DEF Step, OtherTool, SendMail, WriteFails, Panic,
       LastReply, Shell, Ends, Goto, Busy, InLoop, fileVars
  <1>9. ASSUME \/ \E status \in BOOLEAN : Join(status)
               \/ \E p \in Paths : MergeRead(p)
               \/ \E ok \in BOOLEAN : MergeWrite(ok)
               \/ MergeDone \/ Esc \/ UNCHANGED vars
               \/ \E i \in Ids : CancelWorker(i)
               \/ \E p \in Paths, text \in {User, Gone} : Edit(p, text)
        PROVE  ClaimInv'
    BY <1>9, <1>6 DEF Join, MergeRead, MergeWrite, MergeDone, Esc, CancelWorker,
       Edit, vars, fileVars, workerVars
  <1> QED
    BY <1>1, <1>2, <1>3, <1>4, <1>5, <1>7, <1>8, <1>9 DEF Next, Await, Work

\* A request to stop reaches the worker that runs, and no later one of its id.
LEMMA NextCancels ==
    ASSUME BaseInv, CancelInv, CancelHitsItsWorker, [Next]_vars
    PROVE  CancelInv' /\ CancelHitsItsWorker'
  <1> USE SwarmAssumption DEF BaseInv, Places, Results
  <1>0. /\ cancels \in [Ids -> {"none", "no", "yes"}]
        /\ wpc \in [Workers -> Places]
        /\ result \in [Workers -> Results]
        /\ \A w \in Workers : w[2] \in Ids
    BY WorkerFields DEF TypeOK
  <1>1. CASE /\ UNCHANGED <<cancels, asked, overlapped>>
             /\ \A v \in Workers : wpc'[v] \in InLoop => wpc[v] \in InLoop
             /\ \A v \in Workers :
                  result'[v] = "cancelled" => result[v] = "cancelled"
    BY <1>1 DEF CancelInv, CancelHitsItsWorker
  <1>2. ASSUME NEW w \in Workers, NEW created \in BOOLEAN, Begin(w, created)
        PROVE  CancelInv' /\ CancelHitsItsWorker'
    <2>1. CASE ~created
      BY <2>1, <1>0, <1>1, <1>2 DEF Begin, Goto, InLoop, Busy
    <2>2. CASE created
      <3>1. /\ wpc[w] = "permit" /\ w \notin asked /\ wpc'[w] \in InLoop
            /\ \A v \in Workers \ {w} : wpc'[v] = wpc[v]
            /\ UNCHANGED <<result, asked>>
            /\ \A i \in Ids : cancels'[i] = IF i = w[2] THEN "no"
                                            ELSE cancels[i]
        BY <2>2, <1>0, <1>2 DEF Begin, Goto, Register, FreshInv, InLoop
      <3>2. /\ overlapped \subseteq overlapped'
            /\ \A v \in Workers :
                 v # w /\ v[2] = w[2] /\ wpc[v] \in InLoop
                 => {v, w} \subseteq overlapped'
        BY <2>2, <1>2 DEF Begin
      <3>3. CancelInv'
        BY <1>0, <3>1, <3>2 DEF CancelInv
      <3>4. CancelHitsItsWorker'
        BY <1>0, <3>1, <3>2 DEF CancelHitsItsWorker
      <3> QED
        BY <3>3, <3>4
    <2> QED
      BY <2>1, <2>2
  <1>3. ASSUME NEW w \in Workers, NEW how, Ends(w, how), wpc[w] \in InLoop,
               how = "cancelled" => cancels[w[2]] = "yes"
        PROVE  CancelInv' /\ CancelHitsItsWorker'
    <2>1. /\ wpc'[w] \notin InLoop
          /\ \A v \in Workers \ {w} : wpc'[v] = wpc[v] /\ result'[v] = result[v]
          /\ result'[w] = how
          /\ \A i \in Ids : cancels'[i] = IF i = w[2] THEN "none"
                                          ELSE cancels[i]
          /\ asked \ {w} \subseteq asked' /\ asked' \subseteq asked
          /\ overlapped' = overlapped \ {w}
          /\ how = "cancelled" => asked' = asked
      BY <1>0, <1>3 DEF Ends, Goto, InLoop
    <2>2. CancelInv'
      BY <1>0, <1>3, <2>1 DEF CancelInv
    <2>3. CancelHitsItsWorker'
      BY <1>0, <1>3, <2>1 DEF CancelInv, CancelHitsItsWorker
    <2> QED
      BY <2>2, <2>3
  <1>4. ASSUME NEW w \in Workers, Step(w)
        PROVE  CancelInv' /\ CancelHitsItsWorker'
    <2>1. CASE cancels[w[2]] = "yes"
      BY <2>1, <1>3, <1>4 DEF Step, InLoop
    <2>2. CASE cancels[w[2]] # "yes" /\ OutOfTurns(w)
      BY <2>2, <1>3, <1>4 DEF Step, InLoop
    <2>3. CASE cancels[w[2]] # "yes" /\ ~OutOfTurns(w)
      BY <2>3, <1>0, <1>1, <1>4 DEF Step, Goto, InLoop, cancelVars
    <2> QED
      BY <2>1, <2>2, <2>3
  <1>5. ASSUME NEW w \in Workers, NEW how \in {"ok", "failed"},
               LastReply(w, how)
        PROVE  CancelInv' /\ CancelHitsItsWorker'
    BY <1>3, <1>5 DEF LastReply, InLoop
  <1>6. ASSUME NEW w \in Workers,
               \/ OtherTool(w) \/ SendMail(w) \/ WriteFails(w) \/ Close(w)
               \/ \E n \in Names : ClaimFile(w, n)
               \/ \E ps, out \in SUBSET Paths : Shell(w, ps, out)
               \/ WriteFile(w)
        PROVE  CancelInv' /\ CancelHitsItsWorker'
    BY <1>0, <1>1, <1>6 DEF OtherTool, SendMail, WriteFails, Close, ClaimFile,
       Shell, WriteFile, Goto, Busy, InLoop, cancelVars
  <1>11. ASSUME NEW w \in Workers, Panic(w)
         PROVE  CancelInv' /\ CancelHitsItsWorker'
    <2>1. /\ wpc'[w] \notin InLoop /\ result'[w] = "none"
          /\ \A v \in Workers \ {w} : wpc'[v] = wpc[v] /\ result'[v] = result[v]
          /\ cancels' = cancels
          /\ asked' = asked \ {w} /\ overlapped' = overlapped \ {w}
      BY <1>0, <1>11 DEF Panic, Goto, InLoop
    <2> QED
      BY <1>0, <2>1 DEF CancelInv, CancelHitsItsWorker
  <1>7. ASSUME NEW i \in Ids, CancelWorker(i)
        PROVE  CancelInv' /\ CancelHitsItsWorker'
    BY <1>0, <1>7 DEF CancelWorker, CancelInv, CancelHitsItsWorker, workerVars
  <1>8. ASSUME NEW k \in Ids, NEW own \in [1 .. k -> SUBSET Names],
               NEW n \in 1 .. k, StartSwarm(own, n)
        PROVE  CancelInv' /\ CancelHitsItsWorker'
    <2>1. /\ UNCHANGED <<cancels, asked, overlapped, result>>
          /\ \A v \in Workers : wpc'[v] \in InLoop => wpc[v] \in InLoop
      BY <1>8 DEF StartSwarm, InLoop, cancelVars
    <2> QED
      BY <1>1, <2>1
  <1>9. ASSUME \/ \E status \in BOOLEAN : Join(status)
               \/ \E p \in Paths : MergeRead(p)
               \/ \E ok \in BOOLEAN : MergeWrite(ok)
               \/ MergeDone
        PROVE  CancelInv' /\ CancelHitsItsWorker'
    <2>1. /\ UNCHANGED <<cancels, asked, overlapped, wpc>>
          /\ \/ result' = result
             \/ \E r \in {"conflict", "unmerged"} :
                  result' = [result EXCEPT ![Joining] = r]
      BY <1>9 DEF Join, MergeRead, MergeWrite, MergeDone, Conflict, cancelVars,
         workerVars
    <2>2. \A v \in Workers :
            result'[v] = "cancelled" => result[v] = "cancelled"
      BY <1>0, <2>1
    <2> QED
      BY <1>1, <2>1, <2>2
  <1>10. CASE \/ Return \/ Esc \/ UNCHANGED vars
              \/ \E p \in Paths, text \in {User, Gone} : Edit(p, text)
    BY <1>1, <1>10 DEF Return, Esc, Edit, vars, cancelVars, workerVars
  <1> QED
    BY <1>2, <1>4, <1>5, <1>6, <1>7, <1>8, <1>9, <1>10, <1>11
       DEF Next, Await, Work

\* MergeLosesNothing in terms of Good and Kept.
LEMMA LosesNothing ==
    MergeLosesNothing <=>
        (worktrees =>
           /\ \A i \in Ids : call > 0 /\ i <= joined /\ Good(<<call, i>>)
                             => Kept(<<call, i>>, {})
           /\ \A p \in edited \ overtaken : UserHas(p))
    BY DEF MergeLosesNothing, Good, Kept

\* What was merged, and what the user edited, stays.
LEMMA NextMerge ==
    ASSUME BaseInv, MergeInv, MergeLosesNothing, [Next]_vars
    PROVE  MergeInv' /\ MergeLosesNothing'
  <1> USE SwarmAssumption DEF BaseInv, Places, Results
  <1>0. /\ main \in [Paths -> Contents] /\ head \in [Paths -> Contents]
        /\ work \in [Workers -> [Paths -> Contents]] /\ edited \subseteq Paths
        /\ wpc \in [Workers -> Places]
        /\ result \in [Workers -> Results]
        /\ joined \in Nat /\ call \in Nat /\ merging \subseteq Paths
        /\ Ids \subseteq Nat \ {0}
    BY DEF TypeOK, Ids
  <1>2. \A i \in 1 .. joined : <<call, i>> \in Workers /\ i \in Ids
                               /\ wpc[<<call, i>>] \in Ended
    BY DEF TeamInv, Workers
  <1>9. ASSUME worktrees, NEW i \in 1 .. joined, Good(<<call, i>>)
        PROVE  Kept(<<call, i>>, {})
    <2>1. i \in Ids /\ <<call, i>> \in Workers
      BY <1>2
    <2>2. call > 0 /\ i <= joined
      BY <1>0, <2>1 DEF Workers, Calls
    <2> QED
      BY <1>9, <2>1, <2>2, LosesNothing
  \* A step that neither merges nor edits, and changes only workers that are
  \* neither joined nor being merged.
  <1>1. ASSUME UNCHANGED <<worktrees, odd, head, edited, overtaken, todo, merging>>,
               worktrees => main' = main,
               \A v \in Workers : wpc'[v] = "panicked" => result'[v] = "none",
               \/ joined' = 0 /\ cpc # "merge" /\ cpc' # "merge"
               \/ /\ UNCHANGED <<call, joined>> /\ (cpc' = "merge" => cpc = "merge")
                  /\ \A v \in Workers : wpc[v] \in Ended =>
                       /\ result'[v] = result[v] /\ work'[v] = work[v]
                       /\ hidden'[v] = hidden[v]
        PROVE  MergeInv' /\ MergeLosesNothing'
    <2>1. CASE joined' = 0 /\ cpc # "merge" /\ cpc' # "merge"
      <3>1. \A i \in Ids : ~(i <= joined')
        BY <1>0, <2>1
      <3>2. worktrees => \A p \in edited \ overtaken : UserHas(p)'
        BY <1>1 DEF MergeLosesNothing, UserHas
      <3> QED
        BY <1>1, <2>1, <3>1, <3>2 DEF MergeInv, MergeLosesNothing
    <2>2. CASE /\ UNCHANGED <<call, joined>> /\ (cpc' = "merge" => cpc = "merge")
               /\ \A v \in Workers : wpc[v] \in Ended =>
                       /\ result'[v] = result[v] /\ work'[v] = work[v]
                       /\ hidden'[v] = hidden[v]
      <3>1. Joining' = Joining
        BY <2>2 DEF Joining
      <3>2. ASSUME worktrees, NEW v \in Workers, wpc[v] \in Ended
            PROVE  /\ Changed(v)' = Changed(v) /\ Good(v)' = Good(v)
                   /\ \A left : Kept(v, left)' = Kept(v, left)
        BY <1>1, <2>2, <3>2 DEF Changed, Good, Kept, UserHas
      <3>3. MergeInv'
        <4>1. ASSUME cpc' = "merge"
              PROVE  /\ cpc = "merge" /\ worktrees /\ Joining \in Workers
                     /\ wpc[Joining] \in Ended
          BY <2>2, <4>1 DEF TeamInv, Ended
        <4>2. ASSUME cpc' = "merge"
              PROVE  /\ todo \cup merging \subseteq Changed(Joining)'
                     /\ Good(Joining)' => Kept(Joining, todo \cup merging)'
          BY <1>1, <2>2, <3>1, <4>1, <4>2 DEF MergeInv, Good, Kept, Changed,
             UserHas
        <4>3. ASSUME cpc' = "merge", NEW i \in 1 .. joined, Good(<<call, i>>)'
              PROVE  merging \cap Changed(<<call, i>>)' = {}
          BY <1>2, <2>2, <3>2, <4>1, <4>3 DEF MergeInv
        <4> QED
          BY <1>1, <2>2, <3>1, <4>2, <4>3 DEF MergeInv
      <3>4. worktrees => \A p \in edited \ overtaken : UserHas(p)'
        BY <1>1 DEF MergeLosesNothing, UserHas
      <3>5. ASSUME worktrees, NEW i \in Ids, call > 0, i <= joined,
                   Good(<<call, i>>)'
            PROVE  Kept(<<call, i>>, {})'
        <4>1. i \in 1 .. joined
          BY <1>0, <3>5
        <4> QED
          BY <1>2, <1>9, <2>2, <3>2, <3>5, <4>1
      <3> QED
        BY <1>1, <2>2, <3>3, <3>4, <3>5, LosesNothing DEF MergeLosesNothing, Good,
           Kept
    <2> QED
      BY <1>1, <2>1, <2>2
  <1>3. ASSUME NEW status \in BOOLEAN, Join(status)
        PROVE  MergeInv' /\ MergeLosesNothing'
    <2>1. /\ cpc = "join" /\ Joining \in Workers /\ wpc[Joining] \in Ended
          /\ todo = {} /\ merging = {}
          /\ UNCHANGED <<worktrees, fileVars, call, merging, wpc>>
      BY <1>3, JoiningWorker DEF Join, TeamInv, Ended
    <2>2. /\ \A v \in Workers : result'[v] # result[v] =>
                v = Joining /\ wpc[v] = "done" /\ result'[v] = "unmerged"
      BY <1>0, <1>3 DEF Join
    <2>3. /\ \A v : Changed(v)' = Changed(v)
          /\ \A p : UserHas(p)' = UserHas(p)
      BY <2>1 DEF Changed, UserHas, fileVars
    <2>4. /\ \A v \in Workers : wpc'[v] = "panicked" => result'[v] = "none"
          /\ worktrees => \A p \in edited : main'[p] # head[p]
          /\ merging' \cap edited' \subseteq overtaken'
      BY <2>1, <2>2 DEF MergeInv, fileVars
    <2>5. ASSUME worktrees, NEW i \in 1 .. joined, Good(<<call, i>>)'
          PROVE  Kept(<<call, i>>, {})'
      <3>1. Good(<<call, i>>)
        BY <1>2, <2>1, <2>2, <2>5 DEF Good
      <3>2. Kept(<<call, i>>, {})
        BY <1>9, <2>5, <3>1
      <3> QED
        BY <2>1, <2>3, <3>2 DEF Kept, fileVars
    <2>6. CASE cpc' = "merge"
      <3>1. joined' = joined /\ todo' = Changed(Joining) /\ Joining' = Joining
        BY <1>3, <2>1, <2>6 DEF Join, Joining
      <3>2. MergeInv'
        BY <2>1, <2>4, <3>1 DEF MergeInv, Kept, Changed, fileVars
      <3>3. \A i \in Ids : i <= joined' => i \in 1 .. joined
        BY <1>0, <3>1
      <3> QED
        BY <2>1, <2>3, <2>5, <3>2, <3>3 DEF MergeLosesNothing, Good, Kept,
           fileVars
    <2>7. CASE cpc' # "merge"
      <3>1. joined' = joined + 1
        BY <1>3, <2>7 DEF Join
      <3>2. MergeInv'
        BY <2>1, <2>4, <2>7 DEF MergeInv, fileVars
      <3>3. worktrees => result'[Joining] \in {"none", "unmerged"}
        <4>1. CASE wpc[Joining] = "panicked"
          BY <2>1, <2>4, <4>1
        <4>2. CASE wpc[Joining] = "done"
          <5>1. worktrees => result' = [result EXCEPT ![Joining] = "unmerged"]
            BY <1>3, <2>7, <4>2 DEF Join
          <5> QED
            BY <1>0, <2>1, <5>1
        <4> QED
          BY <2>1, <4>1, <4>2 DEF Ended
      <3>4. \A i \in Ids : i <= joined' => i \in 1 .. joined \/ i = joined + 1
        BY <1>0, <3>1
      <3>5. ASSUME worktrees, NEW i \in Ids, i <= joined', Good(<<call, i>>)'
            PROVE  Kept(<<call, i>>, {})'
        <4>1. i # joined + 1
          BY <2>1, <3>3, <3>5 DEF Good, Joining
        <4> QED
          BY <2>5, <3>4, <3>5, <4>1
      <3>6. worktrees => \A p \in edited \ overtaken : UserHas(p)'
        BY <2>3 DEF MergeLosesNothing
      <3> QED
        BY <2>1, <3>2, <3>5, <3>6 DEF MergeLosesNothing, Good, Kept, fileVars
    <2> QED
      BY <2>6, <2>7
  \* The steps of a merge: the worker is there, and the joined ones are others.
  <1>10. ASSUME cpc = "merge"
         PROVE  /\ worktrees /\ Joining \in Workers /\ wpc[Joining] = "done"
                /\ \A i \in 1 .. joined : <<call, i>> # Joining
    BY <1>0, <1>10 DEF TeamInv, Joining
  <1>11. ASSUME NEW q \in Paths, MergeRead(q)
         PROVE  MergeInv' /\ MergeLosesNothing'
    <2>1. /\ cpc = "merge" /\ merging = {} /\ q \in todo /\ todo' = todo \ {q}
          /\ UNCHANGED <<worktrees, fileVars, call, cpc, joined, wpc>>
          /\ Joining' = Joining
      BY <1>11 DEF MergeRead, Joining
    <2>2. \A v \in Workers : result'[v] = result[v]
                             \/ (v = Joining /\ result'[v] = "conflict")
      <3>1. result' = result \/ result' = [result EXCEPT ![Joining] = "conflict"]
        BY <1>11 DEF MergeRead, Conflict
      <3> QED
        BY <1>0, <3>1
    <2>3. /\ \A v : Changed(v)' = Changed(v)
          /\ \A p : UserHas(p)' = UserHas(p)
          /\ \A v, left : Kept(v, left)' = Kept(v, left)
      BY <2>1 DEF Changed, UserHas, Kept, fileVars
    <2>4. \A v \in Workers : Good(v)' => Good(v)
      BY <2>2 DEF Good
    <2>5. \/ main[q] = work[Joining][q] /\ merging' = {}
          \/ ~Good(Joining)' /\ merging' = {}
          \/ main[q] = head[q] /\ merging' = {q}
      <3>1. Conflict => ~Good(Joining)'
        BY <1>0, <1>10, <2>1 DEF Conflict, Good
      <3> QED
        BY <1>11, <2>1, <3>1 DEF MergeRead, Diverged
    <2>6. MergeInv'
      <3>1. \A v \in Workers : wpc'[v] = "panicked" => result'[v] = "none"
        BY <1>10, <2>1, <2>2 DEF MergeInv
      <3>2. merging' \cap edited \subseteq overtaken
        BY <1>10, <2>1, <2>5 DEF MergeInv
      <3>3. todo' \cup merging' \subseteq Changed(Joining)
        BY <2>1, <2>5 DEF MergeInv
      <3>4. Good(Joining)' => Kept(Joining, todo' \cup merging')
        BY <1>10, <2>1, <2>4, <2>5 DEF MergeInv, Kept
      <3>5. ASSUME NEW i \in 1 .. joined, Good(<<call, i>>)
            PROVE  merging' \cap Changed(<<call, i>>) = {}
        <4>1. Kept(<<call, i>>, {})
          BY <1>9, <1>10, <2>1, <3>5
        <4>2. q \in Changed(<<call, i>>) => main[q] # head[q]
          BY <1>10, <2>1, <4>1 DEF Kept, Changed, UserHas, MergeInv
        <4> QED
          BY <2>5, <4>2
      <3>6. \A i \in 1 .. joined : Good(<<call, i>>)' => Good(<<call, i>>)
        BY <1>2, <2>1, <2>4
      <3>7. /\ (todo \cup merging \subseteq Changed(Joining))'
            /\ (Good(Joining) => Kept(Joining, todo \cup merging))'
            /\ (\A i \in 1 .. joined :
                  Good(<<call, i>>) => merging \cap Changed(<<call, i>>) = {})'
        BY <2>1, <2>3, <3>3, <3>4, <3>5, <3>6 DEF Kept, Changed, fileVars
      <3> QED
        BY <2>1, <3>1, <3>2, <3>7 DEF MergeInv, fileVars
    <2>7. \A i \in Ids : i <= joined => i \in 1 .. joined
      BY <1>0
    <2>8. \A i \in 1 .. joined : Good(<<call, i>>)' => Kept(<<call, i>>, {})'
      BY <1>2, <1>9, <1>10, <2>1, <2>3, <2>4
    <2> QED
      BY <2>1, <2>3, <2>6, <2>7, <2>8 DEF MergeLosesNothing, Good, Kept, fileVars
  <1>12. ASSUME NEW ok \in BOOLEAN, MergeWrite(ok)
         PROVE  MergeInv' /\ MergeLosesNothing'
    <2>1. /\ merging # {} /\ merging' = {} /\ cpc = "merge"
          /\ UNCHANGED <<worktrees, odd, head, work, hidden, edited, overtaken, call,
                         cpc, joined, todo, wpc>>
          /\ Joining' = Joining
      BY <1>12 DEF MergeWrite, TeamInv, Joining
    <2>2. \A v \in Workers : result'[v] = result[v]
                             \/ (v = Joining /\ result'[v] = "conflict")
      <3>1. result' = result \/ result' = [result EXCEPT ![Joining] = "conflict"]
        BY <1>12 DEF MergeWrite, Conflict
      <3> QED
        BY <1>0, <3>1
    <2>3. \A v : Changed(v)' = Changed(v)
      BY <2>1 DEF Changed
    <2>4. \A v \in Workers : Good(v)' => Good(v)
      BY <2>2 DEF Good
    <2>5. \A p \in Paths : main'[p] = main[p]
                           \/ (p \in merging /\ main'[p] = work[Joining][p])
      <3>1. \/ main' = main
            \/ main' = [p \in Paths |-> IF p \in merging THEN work[Joining][p]
                                        ELSE main[p]]
        BY <1>12 DEF MergeWrite
      <3> QED
        BY <3>1
    <2>6. Good(Joining)' => \A p \in merging : main'[p] = work[Joining][p]
      <3>1. CASE ok
        BY <1>0, <1>12, <3>1 DEF MergeWrite
      <3>2. CASE ~ok
        BY <1>0, <1>10, <1>12, <2>1, <3>2 DEF MergeWrite, Conflict, Good
      <3> QED
        BY <3>1, <3>2
    <2>7. merging \subseteq Changed(Joining) /\ merging \subseteq Paths
      BY <1>0, <2>1 DEF MergeInv
    <2>8. \A p \in edited : main'[p] # head[p]
      BY <1>0, <1>10, <2>1, <2>5, <2>7 DEF MergeInv, Changed
    <2>9. \A p \in Paths \ merging : UserHas(p) => UserHas(p)'
      BY <2>1, <2>5 DEF UserHas
    <2>10. Good(Joining)' => Kept(Joining, todo)'
      <3> SUFFICES ASSUME Good(Joining)', NEW p \in Changed(Joining) \ todo
                   PROVE  main'[p] = work[Joining][p] \/ UserHas(p)'
        BY <2>1, <2>3 DEF Kept
      <3>1. CASE p \in merging
        BY <2>6, <3>1
      <3>2. CASE p \notin merging
        <4>1. p \in Paths /\ (main[p] = work[Joining][p] \/ UserHas(p))
          BY <1>10, <2>1, <2>4, <3>2 DEF MergeInv, Kept, Changed
        <4> QED
          BY <2>5, <2>9, <3>2, <4>1
      <3> QED
        BY <3>1, <3>2
    <2>11. ASSUME NEW i \in 1 .. joined, Good(<<call, i>>)'
           PROVE  Kept(<<call, i>>, {})'
      <3>1. Good(<<call, i>>)
        BY <1>2, <2>1, <2>2, <2>11 DEF Good
      <3>2. merging \cap Changed(<<call, i>>) = {} /\ Kept(<<call, i>>, {})
        BY <1>9, <1>10, <2>1, <3>1 DEF MergeInv
      <3>3. ASSUME NEW p \in Changed(<<call, i>>)
            PROVE  main'[p] = work[<<call, i>>][p] \/ UserHas(p)'
        <4>1. p \in Paths \ merging
          BY <3>2 DEF Changed
        <4> QED
          BY <2>5, <2>9, <3>2, <4>1 DEF Kept
      <3> QED
        BY <2>1, <2>3, <3>3 DEF Kept
    <2>12. MergeInv'
      <3>1. \A v \in Workers : wpc'[v] = "panicked" => result'[v] = "none"
        BY <1>10, <2>1, <2>2 DEF MergeInv
      <3>2. (todo \cup merging \subseteq Changed(Joining))'
        BY <2>1, <2>3 DEF MergeInv
      <3>3. (Good(Joining) => Kept(Joining, todo \cup merging))'
        BY <2>1, <2>10 DEF Kept
      <3> QED
        BY <2>1, <2>8, <3>1, <3>2, <3>3 DEF MergeInv
    <2>13. \A i \in Ids : i <= joined => i \in 1 .. joined
      BY <1>0
    <2>14. \A p \in edited \ overtaken : UserHas(p)'
      <3> SUFFICES ASSUME NEW p \in edited \ overtaken
                   PROVE  UserHas(p)'
        OBVIOUS
      <3>1. p \in Paths \ merging /\ UserHas(p)
        BY <1>0, <1>10, <2>1 DEF MergeInv, MergeLosesNothing
      <3> QED
        BY <2>9, <3>1
    <2> QED
      BY <2>1, <2>11, <2>12, <2>13, <2>14 DEF MergeLosesNothing, Good, Kept
  <1>13. ASSUME MergeDone
         PROVE  MergeInv' /\ MergeLosesNothing'
    <2>1. /\ cpc = "merge" /\ todo = {} /\ merging = {}
          /\ cpc' = "join" /\ joined' = joined + 1
          /\ UNCHANGED <<worktrees, fileVars, call, todo, merging, wpc, result>>
      BY <1>13 DEF MergeDone, workerVars
    <2>2. MergeInv'
      BY <2>1 DEF MergeInv, fileVars
    <2>3. /\ \A v, left : Kept(v, left)' = Kept(v, left)
          /\ \A v : Good(v)' = Good(v)
          /\ \A p : UserHas(p)' = UserHas(p)
      BY <2>1 DEF Kept, Changed, Good, UserHas, fileVars
    <2>4. Good(Joining) => Kept(Joining, {})
      BY <2>1 DEF MergeInv
    <2>5. \A i \in 1 .. joined : Good(<<call, i>>) => Kept(<<call, i>>, {})
      BY <1>9, <1>10, <2>1
    <2>6. \A i \in Ids : i <= joined' => i \in 1 .. joined \/ i = joined + 1
      BY <1>0, <2>1
    <2>7. \A i \in Ids : i <= joined' /\ Good(<<call, i>>)
                         => Kept(<<call, i>>, {})
      BY <2>4, <2>5, <2>6 DEF Joining
    <2> QED
      BY <2>1, <2>2, <2>3, <2>7 DEF MergeLosesNothing, Good, Kept, fileVars
  <1>4. ASSUME NEW q \in Paths, NEW text \in {User, Gone}, Edit(q, text)
        PROVE  MergeInv' /\ MergeLosesNothing'
    <2>1. /\ UNCHANGED <<worktrees, odd, head, work, hidden, callVars, wpc, result>>
          /\ main' = [main EXCEPT ![q] = text]
          /\ text # head[q] /\ edited' = edited \cup {q}
          /\ overtaken' = overtaken \cup ({q} \cap merging)
          /\ worktrees
          /\ Joining' = Joining
      BY <1>4 DEF Edit, callVars, workerVars, Joining
    <2>2. /\ \A v : Changed(v)' = Changed(v)
          /\ \A v : Good(v)' = Good(v)
      BY <2>1 DEF Changed, Good
    <2>3. UserHas(q)'
      BY <1>0, <2>1 DEF UserHas
    <2>4. \A p \in Paths : p # q => main'[p] = main[p] /\ (UserHas(p) => UserHas(p)')
      BY <1>0, <2>1 DEF UserHas
    <2>5. \A v, left : Kept(v, left) => Kept(v, left)'
      <3> SUFFICES ASSUME NEW v, NEW left, Kept(v, left),
                          NEW p \in Changed(v) \ left
                   PROVE  main'[p] = work[v][p] \/ UserHas(p)'
        BY <2>1, <2>2 DEF Kept
      <3>1. p \in Paths /\ (main[p] = work[v][p] \/ UserHas(p))
        BY DEF Kept, Changed
      <3> QED
        BY <2>3, <2>4, <3>1
    <2>6. MergeInv'
      <3>1. \A p \in edited' : main'[p] # head[p]
        BY <1>0, <2>1 DEF MergeInv
      <3>2. merging \cap edited' \subseteq overtaken'
        BY <2>1 DEF MergeInv
      <3>3. UNCHANGED <<cpc, todo, merging, joined, call>>
        BY <2>1 DEF callVars
      <3>4. cpc = "merge" => (Good(Joining) => Kept(Joining, todo \cup merging))'
        BY <2>1, <2>2, <2>5, <3>3 DEF MergeInv
      <3> QED
        BY <2>1, <2>2, <3>1, <3>2, <3>3, <3>4 DEF MergeInv
    <2>7. \A p \in edited' \ overtaken' : UserHas(p)'
      <3> SUFFICES ASSUME NEW p \in edited' \ overtaken'
                   PROVE  UserHas(p)'
        OBVIOUS
      <3>1. p # q => p \in Paths /\ UserHas(p)
        BY <1>0, <2>1 DEF MergeLosesNothing
      <3> QED
        BY <2>3, <2>4, <3>1
    <2>8. \A i \in Ids : i <= joined => i \in 1 .. joined
      BY <1>0
    <2>9. \A i \in 1 .. joined : Good(<<call, i>>)' => Kept(<<call, i>>, {})'
      <3> SUFFICES ASSUME NEW i \in 1 .. joined, Good(<<call, i>>)'
                   PROVE  Kept(<<call, i>>, {})'
        OBVIOUS
      <3>1. call' = call
        BY <2>1 DEF callVars
      <3>2. Good(<<call, i>>)
        BY <2>1, <3>1 DEF Good
      <3>3. Kept(<<call, i>>, {})
        BY <1>9, <2>1, <3>2
      <3> QED
        BY <2>5, <3>1, <3>3
    <2> QED
      BY <2>1, <2>6, <2>7, <2>8, <2>9 DEF MergeLosesNothing, Good, Kept, callVars
  <1>5. ASSUME NEW w \in Workers, Work(w) \/ Panic(w)
        PROVE  MergeInv' /\ MergeLosesNothing'
    <2>1. /\ wpc[w] \notin Ended
          /\ UNCHANGED <<worktrees, odd, head, callVars, edited, overtaken>>
      BY <1>5, WorkerMoves DEF Busy, InLoop, Ended
    <2>2. worktrees => main' = main
      BY <1>5 DEF Work, Panic, Begin, Step, OtherTool, SendMail, Shell, WriteFails,
         Close, LastReply, ClaimFile, WriteFile, fileVars
    <2>3. wpc'[w] = "panicked" => result'[w] = "none"
      BY <1>0, <1>5 DEF Work, Panic, Begin, Step, OtherTool, SendMail, Shell,
         WriteFails, Close, LastReply, ClaimFile, WriteFile, Ends, Goto
    <2>4. \A v \in Workers : wpc[v] \in Ended =>
                       /\ result'[v] = result[v] /\ work'[v] = work[v]
                       /\ hidden'[v] = hidden[v]
      BY <1>5, <2>1, WorkerMoves
    <2>5. \A v \in Workers : wpc'[v] = "panicked" => result'[v] = "none"
      BY <1>5, <2>3, WorkerMoves DEF MergeInv
    <2> QED
      BY <1>1, <2>1, <2>2, <2>4, <2>5 DEF callVars
  <1>6. ASSUME NEW k \in Ids, NEW own \in [1 .. k -> SUBSET Names],
               NEW n \in 1 .. k, StartSwarm(own, n)
        PROVE  MergeInv' /\ MergeLosesNothing'
    <2>1. /\ UNCHANGED <<worktrees, fileVars, todo, merging, result>>
          /\ cpc # "merge" /\ cpc' # "merge"
          /\ joined' = 0 \/ UNCHANGED <<call, joined>>
          /\ \A v \in Workers : wpc'[v] = "panicked" => wpc[v] = "panicked"
      BY <1>6 DEF StartSwarm, Waiting
    <2>2. \A v \in Workers : wpc'[v] = "panicked" => result'[v] = "none"
      BY <2>1 DEF MergeInv
    <2> QED
      BY <1>1, <2>1, <2>2 DEF fileVars
  <1>7. CASE \/ Return \/ Esc \/ UNCHANGED vars
             \/ \E i \in Ids : CancelWorker(i)
    <2>1. /\ UNCHANGED <<worktrees, fileVars, call, joined, todo, merging, wpc,
                         result>>
          /\ cpc' = "merge" => cpc = "merge"
      BY <1>7 DEF Return, Esc, CancelWorker, vars, callVars, workerVars
    <2> QED
      BY <1>1, <2>1 DEF MergeInv, fileVars
  <1> QED
    BY <1>3, <1>4, <1>5, <1>6, <1>7, <1>11, <1>12, <1>13 DEF Next, Await

-----------------------------------------------------------------------------
\* The inductive invariant.
SwarmInv ==
    /\ BaseInv /\ ClaimInv
    /\ CancelInv /\ CancelHitsItsWorker
    /\ MergeInv /\ MergeLosesNothing

\* It holds at the start.
LEMMA InitInv == Init => SwarmInv
  <1> SUFFICES ASSUME Init PROVE SwarmInv
    OBVIOUS
  <1>1. BaseInv
    BY InitType, SwarmAssumption
       DEF Init, BaseInv, FreshInv, TeamInv, Waiting
  <1>2. ClaimInv /\ CancelInv /\ CancelHitsItsWorker
    BY DEF Init, ClaimInv, CancelInv, CancelHitsItsWorker, Busy, InLoop
  <1>3. MergeInv /\ MergeLosesNothing
    BY SwarmAssumption DEF Init, MergeInv, MergeLosesNothing, Ids
  <1> QED
    BY <1>1, <1>2, <1>3 DEF SwarmInv

\* Every step keeps it.
LEMMA NextInv == SwarmInv /\ [Next]_vars => SwarmInv'
  <1> SUFFICES ASSUME SwarmInv, [Next]_vars PROVE SwarmInv'
    OBVIOUS
  <1>1. BaseInv'
    BY NextType, NextFresh, NextTeam DEF SwarmInv, BaseInv
  <1> QED
    BY <1>1, NextClaims, NextCancels, NextMerge DEF SwarmInv

\* It holds in every reachable state.
THEOREM SwarmInvariant == Spec => []SwarmInv
  <1> QED
    BY InitInv, NextInv, PTL DEF Spec

\* Every variable keeps its type.
THEOREM TypeCorrect == Spec => []TypeOK
  <1>1. SwarmInv => TypeOK
    BY DEF SwarmInv, BaseInv
  <1> QED
    BY <1>1, SwarmInvariant, PTL

\* Two running workers of a call have written the same file of the shared
\* checkout with file tools only when one of them claimed it by the name a link
\* gives it: each still claims what it wrote, and a key has one owner
\* (claim_key, try_claim, release_agent).
THEOREM OneWriterAtATime == Spec => []OneWriter
  <1>1. SwarmInv => OneWriter
    <2> SUFFICES ASSUME SwarmInv, NEW c \in Calls, NEW i \in Ids, NEW k \in Ids,
                        i # k, wpc[<<c, i>>] \in Busy, wpc[<<c, k>>] \in Busy,
                        NEW p \in wrote[<<c, i>>] \cap wrote[<<c, k>>]
                 PROVE  p \in Linked /\ claims[c][<<p, "link">>] \in {i, k}
      BY DEF OneWriter
    <2>1. <<c, i>> \in Workers /\ <<c, k>> \in Workers
      BY DEF Workers
    <2>2. PICK n \in Names : n[1] = p /\ claims[c][n] = i
      BY <2>1 DEF SwarmInv, ClaimInv, Claims
    <2>3. PICK m \in Names : m[1] = p /\ claims[c][m] = k
      BY <2>1 DEF SwarmInv, ClaimInv, Claims
    <2>4. n # m
      BY <2>2, <2>3
    <2>5. \/ n = <<p, "link">> /\ p \in Linked
          \/ m = <<p, "link">> /\ p \in Linked
      BY <2>2, <2>3, <2>4 DEF Names
    <2> QED
      BY <2>2, <2>3, <2>5
  <1> QED
    BY <1>1, SwarmInvariant, PTL

\* What git status lists of a worker joined without a conflict is in main until
\* the user changes it, and what the user edited is not replaced by a merge that
\* had not compared the file yet (merge_changed_path).
THEOREM MergesLoseNothing == Spec => []MergeLosesNothing
  <1>1. SwarmInv => MergeLosesNothing
    BY DEF SwarmInv
  <1> QED
    BY <1>1, SwarmInvariant, PTL

\* A worker ends as cancelled only when the user asked for it while it ran, and
\* a request is not lost while its worker is alone with its id
\* (WorkerCancels::register, request and finish).
THEOREM CancelsHitTheirWorker == Spec => []CancelHitsItsWorker
  <1>1. SwarmInv => CancelHitsItsWorker
    BY DEF SwarmInv
  <1> QED
    BY <1>1, SwarmInvariant, PTL

=============================================================================
