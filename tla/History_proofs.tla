--------------------------- MODULE History_proofs ---------------------------
(***************************************************************************)
(* Proofs for the undo history: entries that share and reuse logs stand    *)
(* for whole transcripts, step by step, and the logs that are kept stay as *)
(* few as the entries, for any depth and any messages.                     *)
(***************************************************************************)
EXTENDS History, FiniteSetTheorems, SequenceTheorems, TLAPS

\* A non-empty set of naturals has a least element.
LEMMA SmallestNat ==
    ASSUME NEW U, U \subseteq Nat, U # {}
    PROVE  \E u \in U : \A v \in U : u <= v
  <1> DEFINE R == OpToRel(<, Nat)
  <1>1. PICK u \in U : \A v \in U : <<v, u>> \notin R
    <2>1. IsWellFoundedOn(R, Nat)
      BY NatLessThanWellFounded
    <2> HIDE DEF R
    <2> QED
      BY <2>1, WFMin
  <1>2. \A v \in U : u \in Nat /\ v \in Nat /\ (v < u => <<v, u>> \in R)
    BY DEF OpToRel
  <1> HIDE DEF R
  <1>3. ASSUME NEW v \in U PROVE u <= v
    <2>1. u \in Nat /\ v \in Nat /\ ~(v < u)
      BY <1>1, <1>2
    <2> QED
      BY <2>1
  <1> QED
    BY <1>3

\* The maximum of a bounded set is one of its elements, and the largest.
LEMMA MaxIs ==
    ASSUME NEW n \in Nat, NEW T, T \subseteq 0 .. n, T # {}
    PROVE  Max(T) \in T /\ \A y \in T : y <= Max(T)
  <1> DEFINE U == {n - x : x \in T}
  <1>1. \A x \in T : x \in Nat /\ x <= n /\ n - x \in Nat /\ n - x \in U
    OBVIOUS
  <1>2. U \subseteq Nat /\ U # {}
    BY <1>1
  <1>3. PICK u \in U : \A v \in U : u <= v
    <2> HIDE DEF U
    <2> QED
      BY <1>2, SmallestNat
  <1>4. PICK x \in T : u = n - x
    BY <1>3
  <1>5. \A y \in T : x >= y
    <2> HIDE DEF U
    <2> QED
      BY <1>1, <1>3, <1>4
  <1>6. Max(T) \in T /\ \A y \in T : Max(T) >= y
    BY <1>5 DEF Max
  <1> QED
    BY <1>1, <1>6

-----------------------------------------------------------------------------
\* The inductive invariant.  Types, sequences as sequences.
HType ==
    /\ messages \in Seq(Msgs) /\ Len(messages) <= MaxLen
    /\ undo_stack \in Seq(Snapshots) /\ redo_stack \in Seq(Snapshots)
    /\ next_store \in 0 .. MaxStores /\ DOMAIN stores \subseteq 1 .. next_store
    /\ \A id \in DOMAIN stores : stores[id] \in Seq(Msgs)
    /\ dropped \in BOOLEAN

\* The log of an entry is kept, as far as the entry reads.
Readable(snap) ==
    snap.store \in DOMAIN stores /\ snap.len <= Len(stores[snap.store])

\* The entries of both stacks.
Entries(undo, redo) == ToSet(undo) \cup ToSet(redo)

\* Every entry can still be read: gc and the reuse of the newest log spare it.
EntriesInv == \A snap \in Entries(undo_stack, redo_stack) : Readable(snap)

\* No other log is kept than the newest and the ones that entries read.
LogsInv == DOMAIN stores \subseteq
               LogsUsed(undo_stack, redo_stack) \cup {next_store}

\* Undo and redo move entries between the stacks, a push drops the oldest.
DepthInv == Depth > 0 => Len(undo_stack) + Len(redo_stack) <= Depth

\* The conjunction that every operation keeps.
HistoryInv == HType /\ EntriesInv /\ LogsInv /\ DepthInv

\* The elements of a stack.
LEMMA StackSet ==
    ASSUME NEW S, NEW s \in Seq(S)
    PROVE  /\ DOMAIN s = 1 .. Len(s) /\ Len(s) \in Nat
           /\ ToSet(s) \subseteq S
           /\ \A i \in 1 .. Len(s) : s[i] \in ToSet(s)
           /\ \A x \in ToSet(s) : \E i \in 1 .. Len(s) : x = s[i]
  BY DEF ToSet

\* Shared is a common prefix of the newest log and the transcript.
LEMMA SharedIs ==
    ASSUME HType, next_store \in DOMAIN stores
    PROVE  /\ Shared \in 0 .. Len(messages)
           /\ Shared <= Len(stores[next_store])
           /\ \A i \in 1 .. Shared : stores[next_store][i] = messages[i]
  <1> DEFINE T == {n \in 0 .. Len(messages) :
                     /\ n <= Len(stores[next_store])
                     /\ \A i \in 1 .. n : stores[next_store][i] = messages[i]}
  <1>1. Len(messages) \in Nat /\ Len(stores[next_store]) \in Nat
    BY DEF HType
  <1>2. T \subseteq 0 .. Len(messages) /\ 0 \in T
    BY <1>1
  <1>3. Max(T) \in T
    <2> HIDE DEF T
    <2> QED
      BY <1>1, <1>2, MaxIs
  <1>4. Shared = Max(T)
    BY DEF Shared
  <1> QED
    BY <1>3, <1>4

\* Needed is as far as any entry that stays reads in the newest log.
LEMMA NeededIs ==
    ASSUME NEW undo \in Seq(Snapshots), NEW redo \in Seq(Snapshots),
           NEW snap \in Entries(undo, redo), snap.store = next_store
    PROVE  snap.len <= Needed(undo, redo) /\ Needed(undo, redo) \in Nat
  <1> DEFINE T == {0} \cup {s.len : s \in {s \in ToSet(undo) \cup ToSet(redo) :
                                             s.store = next_store}}
  <1>1. MaxLen \in Nat
    BY HistoryAssumption
  <1>2. \A s \in ToSet(undo) \cup ToSet(redo) : s \in Snapshots
    BY StackSet
  <1>3. T \subseteq 0 .. MaxLen
    BY <1>1, <1>2 DEF Snapshots
  <1>4. snap.len \in T
    BY DEF Entries
  <1>5. Needed(undo, redo) = Max(T)
    BY DEF Needed
  <1> HIDE DEF T
  <1> DEFINE m == Max(T)
  <1>6. m \in T /\ \A y \in T : y <= m
    BY <1>1, <1>3, <1>4, MaxIs
  <1>7. Needed(undo, redo) = m
    BY <1>5
  <1> HIDE DEF m
  <1>8. m \in 0 .. MaxLen
    BY <1>3, <1>6
  <1>9. m \in Nat
    BY <1>1, <1>8
  <1>10. snap.len <= m
    BY <1>4, <1>6
  <1> QED
    BY <1>7, <1>9, <1>10

\* The log that capture writes is the transcript.
LEMMA CapturedLogIs ==
    ASSUME HType, NEW undo, NEW redo
    PROVE  CapturedLog(undo, redo) = messages
  <1>1. CASE Extends(undo, redo)
    <2> DEFINE log == stores[next_store]
               n == Shared
               a == SubSeq(log, 1, n)
               b == SubSeq(messages, n + 1, Len(messages))
    <2>1. /\ messages \in Seq(Msgs) /\ log \in Seq(Msgs)
          /\ n \in 0 .. Len(messages) /\ n <= Len(log)
          /\ \A i \in 1 .. n : log[i] = messages[i]
      BY <1>1, SharedIs DEF Extends, HType
    <2>2. CapturedLog(undo, redo) = a \o b
      BY <1>1 DEF CapturedLog
    <2> HIDE DEF log, n
    <2>3. /\ a \in Seq(Msgs) /\ Len(a) = n
          /\ \A i \in 1 .. n : a[i] = messages[i]
      BY <2>1
    <2>4. /\ b \in Seq(Msgs) /\ Len(b) = Len(messages) - n
          /\ \A i \in 1 .. Len(messages) - n : b[i] = messages[n + i]
      BY <2>1
    <2> HIDE DEF a, b
    <2>5. /\ a \o b \in Seq(Msgs) /\ Len(a \o b) = Len(messages)
          /\ \A i \in 1 .. Len(messages) : (a \o b)[i] = messages[i]
      BY <2>1, <2>3, <2>4, ConcatProperties
    <2> QED
      BY <2>1, <2>2, <2>5, SeqEqual
  <1>2. CASE ~Extends(undo, redo)
    BY <1>2 DEF CapturedLog
  <1> QED
    BY <1>1, <1>2

\* An entry that capture leaves in place reads in the newest log only messages
\* that the transcript shares.
LEMMA EntryShared ==
    ASSUME HType, NEW undo \in Seq(Snapshots), NEW redo \in Seq(Snapshots),
           NEW snap \in Entries(undo, redo), Readable(snap),
           snap.store = Target(undo, redo)
    PROVE  /\ snap.len \in 0 .. Len(messages)
           /\ \A i \in 1 .. snap.len : stores[snap.store][i] = messages[i]
  <1>1. snap \in Snapshots
    BY StackSet DEF Entries
  <1>2. snap.len \in Nat
    BY <1>1, HistoryAssumption DEF Snapshots
  <1>3. Extends(undo, redo) /\ snap.store = next_store
    BY DEF Target, Readable, HType
  <1>4. /\ Shared \in 0 .. Len(messages) /\ Len(messages) \in Nat
        /\ \A i \in 1 .. Shared : stores[next_store][i] = messages[i]
    BY <1>3, SharedIs DEF Extends, HType
  <1>5. snap.len <= Shared
    BY <1>2, <1>3, <1>4, NeededIs DEF Extends
  <1> QED
    BY <1>2, <1>3, <1>4, <1>5

\* Every entry of these stacks can be read.
AllReadable(undo, redo) == \A snap \in Entries(undo, redo) : Readable(snap)

\* capture, new stacks and gc: the entry it makes reads the transcript, and the
\* entries that stay read what they read before.
Kept(undo, redo, undo2, redo2, new) ==
    /\ next_store' \in 0 .. MaxStores
    /\ DOMAIN stores' \subseteq 1 .. next_store'
    /\ \A id \in DOMAIN stores' : stores'[id] \in Seq(Msgs)
    /\ EntriesInv' /\ LogsInv'
    /\ MessagesOf(new)' = messages
    /\ \A snap \in Entries(undo2, redo2) \cap Entries(undo, redo) :
         MessagesOf(snap)' = MessagesOf(snap)

\* capture, the change of the stacks and gc keep every entry's transcript.
LEMMA RecordKeeps ==
    ASSUME HType, NEW undo \in Seq(Snapshots), NEW redo \in Seq(Snapshots),
           NEW undo2 \in Seq(Snapshots), NEW redo2 \in Seq(Snapshots),
           AllReadable(undo, redo), Record(undo, redo, undo2, redo2),
           NEW new, new = Captured(undo, redo),
           Entries(undo2, redo2) \subseteq Entries(undo, redo) \cup {new}
    PROVE  Kept(undo, redo, undo2, redo2, new)
  <1> DEFINE target == Target(undo, redo)
             used == LogsUsed(undo2, redo2)
  <1>1. /\ target \in 1 .. MaxStores /\ target \in {next_store, next_store + 1}
        /\ DOMAIN stores \subseteq 1 .. target
    BY HistoryAssumption DEF Record, Target, Extends, HType
  <1>2. /\ undo_stack' = undo2 /\ redo_stack' = redo2 /\ next_store' = target
        /\ DOMAIN stores' = ((DOMAIN stores \cup {target}) \cap used)
                              \cup {target}
        /\ stores'[target] = messages
        /\ \A id \in DOMAIN stores' \ {target} : stores'[id] = stores[id]
    BY CapturedLogIs DEF Record
  <1>3. new \in Snapshots /\ new.store = target /\ new.len = Len(messages)
    BY <1>1, HistoryAssumption DEF Captured, Snapshots, HType
  <1> HIDE DEF target
  <1>4. /\ next_store' \in 0 .. MaxStores
        /\ DOMAIN stores' \subseteq 1 .. next_store'
        /\ \A id \in DOMAIN stores' : stores'[id] \in Seq(Msgs)
    BY <1>1, <1>2, HistoryAssumption DEF HType
  <1>5. LogsInv'
    BY <1>2 DEF LogsInv
  <1>6. \A snap \in Entries(undo2, redo2) : snap.store \in used
    BY DEF LogsUsed, Entries
  <1>7. Readable(new)' /\ MessagesOf(new)' = messages
    <2>1. /\ new.store \in DOMAIN stores' /\ stores'[new.store] = messages
          /\ messages \in Seq(Msgs) /\ Len(messages) \in Nat
      BY <1>2, <1>3 DEF HType
    <2>2. SubSeq(messages, 1, Len(messages)) = messages
      BY <2>1, SubSeqFull
    <2> QED
      BY <1>3, <2>1, <2>2 DEF Readable, MessagesOf
  <1>8. ASSUME NEW snap \in Entries(undo2, redo2), snap \in Entries(undo, redo)
        PROVE  Readable(snap)' /\ MessagesOf(snap)' = MessagesOf(snap)
    <2>1. snap.store \in DOMAIN stores' /\ Readable(snap)
      BY <1>2, <1>6, <1>8 DEF Readable, AllReadable
    <2>2. CASE snap.store # target
      <3>1. stores'[snap.store] = stores[snap.store]
        BY <1>2, <2>1, <2>2
      <3> QED
        BY <2>1, <3>1 DEF Readable, MessagesOf
    <2>3. CASE snap.store = target
      <3> DEFINE log == stores[target]
      <3>1. /\ snap.len \in 0 .. Len(messages) /\ messages \in Seq(Msgs)
            /\ \A i \in 1 .. snap.len : log[i] = messages[i]
            /\ log \in Seq(Msgs) /\ snap.len <= Len(log)
        <4>1. snap.store = Target(undo, redo)
          BY <2>3 DEF target
        <4>2. /\ snap.len \in 0 .. Len(messages)
              /\ \A i \in 1 .. snap.len : stores[snap.store][i] = messages[i]
          BY <1>8, <2>1, <4>1, EntryShared
        <4> QED
          BY <2>1, <2>3, <4>2 DEF Readable, HType
      <3>2. /\ MessagesOf(snap)' = SubSeq(messages, 1, snap.len)
            /\ MessagesOf(snap) = SubSeq(log, 1, snap.len)
        BY <1>2, <2>1, <2>3, <3>1 DEF MessagesOf, Readable
      <3> HIDE DEF log
      <3>3. SubSeq(messages, 1, snap.len) = SubSeq(log, 1, snap.len)
        BY <3>1
      <3>4. Readable(snap)'
        BY <1>2, <2>1, <2>3, <3>1 DEF Readable
      <3> QED
        BY <3>2, <3>3, <3>4
    <2> QED
      BY <2>2, <2>3
  <1>9. EntriesInv'
    BY <1>2, <1>7, <1>8 DEF EntriesInv
  <1> QED
    BY <1>4, <1>5, <1>7, <1>8, <1>9 DEF Kept

-----------------------------------------------------------------------------
\* What push_undo leaves out of a stack of `n` entries.
Left(n) == IF Depth > 0 /\ n + 1 > Depth THEN n + 1 - Depth ELSE 0

\* A stack `p` that push_undo makes of `s` and the entry `x`.
Pushed(s, x, d, p) ==
    /\ d \in 0 .. Len(s) /\ Len(p) = Len(s) + 1 - d
    /\ \A i \in 1 .. Len(s) + 1 - d :
         p[i] = IF i + d <= Len(s) THEN s[i + d] ELSE x

\* push_undo keeps the newest entries, in order, and adds one at the end.
LEMMA PushIs ==
    ASSUME NEW S, NEW s \in Seq(S), NEW x \in S
    PROVE  /\ PushUndo(s, x) \in Seq(S)
           /\ Pushed(s, x, Left(Len(s)), PushUndo(s, x))
  <1>1. PICK d : d = Left(Len(s))
    OBVIOUS
  <1> DEFINE all == Append(s, x)
  <1>2. Depth \in Nat /\ Len(s) \in Nat
    BY HistoryAssumption
  <1>3. /\ all \in Seq(S) /\ Len(all) = Len(s) + 1
        /\ \A i \in 1 .. Len(s) + 1 :
             all[i] = IF i <= Len(s) THEN s[i] ELSE x
    OBVIOUS
  <1> HIDE DEF all
  <1>4. d \in 0 .. Len(s)
    BY <1>1, <1>2 DEF Left
  <1>5. CASE d > 0
    <2>1. Depth > 0 /\ Len(s) + 1 > Depth /\ Len(all) - Depth + 1 = d + 1
      BY <1>1, <1>2, <1>3, <1>5 DEF Left
    <2>2. PushUndo(s, x) = SubSeq(all, Len(all) - Depth + 1, Len(all))
      BY <1>3, <2>1 DEF PushUndo, all
    <2>3. PushUndo(s, x) = SubSeq(all, d + 1, Len(s) + 1)
      BY <1>3, <2>1, <2>2
    <2> DEFINE p == SubSeq(all, d + 1, Len(s) + 1)
    <2>4. /\ p \in Seq(S) /\ Len(p) = Len(s) + 1 - d
          /\ \A i \in 1 .. Len(s) + 1 - d : p[i] = all[i + d]
      BY <1>2, <1>3, <1>4
    <2> HIDE DEF p
    <2>5. \A i \in 1 .. Len(s) + 1 - d :
            p[i] = IF i + d <= Len(s) THEN s[i + d] ELSE x
      BY <1>2, <1>3, <1>4, <2>4
    <2>6. PushUndo(s, x) = p
      BY <2>3 DEF p
    <2> QED
      BY <1>1, <1>4, <2>4, <2>5, <2>6 DEF Pushed
  <1>6. CASE d = 0
    <2>1. PushUndo(s, x) = all
      BY <1>1, <1>2, <1>3, <1>6 DEF PushUndo, Left, all
    <2> QED
      BY <1>1, <1>2, <1>3, <1>4, <1>6, <2>1 DEF Pushed
  <1> QED
    BY <1>4, <1>5, <1>6

\* Every entry stands for a transcript.
LEMMA MessagesOfType ==
    ASSUME HType, NEW snap \in Snapshots
    PROVE  MessagesOf(snap) \in Seq(Msgs) /\ Len(MessagesOf(snap)) <= MaxLen
  <1>1. snap.len \in 0 .. MaxLen /\ MaxLen \in Nat
    BY HistoryAssumption DEF Snapshots
  <1>2. CASE Readable(snap)
    <2> DEFINE log == stores[snap.store]
    <2>1. log \in Seq(Msgs) /\ snap.len <= Len(log)
      BY <1>2 DEF Readable, HType
    <2>2. MessagesOf(snap) = SubSeq(log, 1, snap.len)
      BY <1>2 DEF MessagesOf, Readable
    <2> HIDE DEF log
    <2> QED
      BY <1>1, <2>1, <2>2
  <1>3. CASE ~Readable(snap)
    BY <1>1, <1>3 DEF MessagesOf, Readable
  <1> QED
    BY <1>2, <1>3

\* A stack of entries stands for a stack of as many transcripts.
LEMMA TranscriptsIs ==
    ASSUME HType, NEW s \in Seq(Snapshots)
    PROVE  /\ Transcripts(s) \in Seq(Seq(Msgs))
           /\ Len(Transcripts(s)) = Len(s)
           /\ \A i \in 1 .. Len(s) : Transcripts(s)[i] = MessagesOf(s[i])
  <1>1. Len(s) \in Nat /\ \A i \in 1 .. Len(s) : s[i] \in Snapshots
    OBVIOUS
  <1>2. Transcripts(s) \in [1 .. Len(s) -> Seq(Msgs)]
    BY <1>1, MessagesOfType DEF Transcripts
  <1> QED
    BY <1>1, <1>2 DEF Transcripts

\* What the stacks stand for when an entry is pushed or popped and the logs that
\* the entries read are kept.
LEMMA MapPush ==
    ASSUME HType, NEW s \in Seq(Snapshots), NEW new \in Snapshots,
           NEW s2, s2 = PushUndo(s, new), MessagesOf(new)' = messages,
           \A snap \in ToSet(s2) \cap ToSet(s) :
             MessagesOf(snap)' = MessagesOf(snap)
    PROVE  Transcripts(s2)' = PushUndo(Transcripts(s), messages)
  <1> DEFINE t == Transcripts(s)
  <1>1. PICK d : d = Left(Len(s))
    OBVIOUS
  <1>2. /\ d \in 0 .. Len(s) /\ s2 \in Seq(Snapshots)
        /\ Len(s2) = Len(s) + 1 - d
        /\ \A i \in 1 .. Len(s) + 1 - d :
             s2[i] = IF i + d <= Len(s) THEN s[i + d] ELSE new
    <2>1. s2 \in Seq(Snapshots) /\ Pushed(s, new, d, s2)
      BY <1>1, PushIs
    <2> QED
      BY <2>1 DEF Pushed
  <1>3. /\ t \in Seq(Seq(Msgs)) /\ Len(t) = Len(s) /\ messages \in Seq(Msgs)
        /\ \A i \in 1 .. Len(s) : t[i] = MessagesOf(s[i])
    BY TranscriptsIs DEF HType
  <1>4. /\ PushUndo(t, messages) \in Seq(Seq(Msgs))
        /\ Len(PushUndo(t, messages)) = Len(s) + 1 - d
        /\ \A i \in 1 .. Len(s) + 1 - d :
             PushUndo(t, messages)[i] =
               IF i + d <= Len(s) THEN t[i + d] ELSE messages
    <2> HIDE DEF t
    <2>1. d = Left(Len(t))
      BY <1>1, <1>3
    <2>2. /\ PushUndo(t, messages) \in Seq(Seq(Msgs))
          /\ Pushed(t, messages, d, PushUndo(t, messages))
      BY <1>3, <2>1, PushIs
    <2> QED
      BY <1>3, <2>2 DEF Pushed
  <1> HIDE DEF t
  <1>5. \A i \in 1 .. Len(s2) :
          MessagesOf(s2[i])' = PushUndo(t, messages)[i]
    <2> SUFFICES ASSUME NEW i \in 1 .. Len(s2)
                 PROVE  MessagesOf(s2[i])' = PushUndo(t, messages)[i]
      OBVIOUS
    <2>1. i \in 1 .. Len(s) + 1 - d /\ Len(s) \in Nat
      BY <1>2
    <2>2. CASE i + d <= Len(s)
      <3>1. s2[i] = s[i + d] /\ i + d \in 1 .. Len(s)
        BY <1>2, <2>1, <2>2
      <3>2. s2[i] \in ToSet(s2) \cap ToSet(s)
        BY <1>2, <3>1, StackSet
      <3>3. MessagesOf(s2[i])' = MessagesOf(s2[i])
        BY <3>2
      <3> QED
        BY <1>3, <1>4, <2>1, <2>2, <3>1, <3>3
    <2>3. CASE ~(i + d <= Len(s))
      BY <1>2, <1>4, <2>1, <2>3
    <2> QED
      BY <2>2, <2>3
  <1>6. Transcripts(s2)' = [i \in 1 .. Len(s2) |-> PushUndo(t, messages)[i]]
    BY <1>5 DEF Transcripts
  <1>7. PushUndo(t, messages) =
          [i \in 1 .. Len(s2) |-> PushUndo(t, messages)[i]]
    BY <1>2, <1>4
  <1> QED
    BY <1>6, <1>7 DEF t

\* An entry added without a limit (undo pushes on the redo stack this way) adds
\* the transcript of now, as long as the logs of the others are kept.
LEMMA MapAppend ==
    ASSUME HType, NEW s \in Seq(Snapshots), NEW new \in Snapshots,
           NEW s2, s2 = Append(s, new), MessagesOf(new)' = messages,
           \A snap \in ToSet(s) : MessagesOf(snap)' = MessagesOf(snap)
    PROVE  Transcripts(s2)' = Append(Transcripts(s), messages)
  <1> DEFINE t == Transcripts(s)
  <1>1. /\ t \in Seq(Seq(Msgs)) /\ Len(t) = Len(s) /\ messages \in Seq(Msgs)
        /\ \A i \in 1 .. Len(s) : t[i] = MessagesOf(s[i])
    BY TranscriptsIs DEF HType
  <1>2. /\ Len(s) \in Nat /\ Len(s2) = Len(s) + 1 /\ s2[Len(s) + 1] = new
        /\ \A i \in 1 .. Len(s) : s2[i] = s[i] /\ s[i] \in ToSet(s)
    BY StackSet
  <1> HIDE DEF t
  <1> DEFINE u == Append(t, messages)
  <1>3. /\ u \in Seq(Seq(Msgs)) /\ Len(u) = Len(s) + 1
        /\ u[Len(s) + 1] = messages /\ \A i \in 1 .. Len(s) : u[i] = t[i]
    BY <1>1
  <1> HIDE DEF u
  <1>4. \A i \in 1 .. Len(s) : MessagesOf(s2[i])' = u[i]
    BY <1>1, <1>2, <1>3
  <1>5. \A i \in 1 .. Len(s) + 1 : MessagesOf(s2[i])' = u[i]
    BY <1>2, <1>3, <1>4
  <1>6. Transcripts(s2)' = [i \in 1 .. Len(s) + 1 |-> u[i]]
    BY <1>2, <1>5 DEF Transcripts
  <1>7. u = [i \in 1 .. Len(s) + 1 |-> u[i]]
    BY <1>3
  <1> QED
    BY <1>6, <1>7 DEF u, t

\* A pop of entries is a pop of transcripts, and the entry popped stands for the
\* transcript popped.
LEMMA MapFront ==
    ASSUME HType, NEW s \in Seq(Snapshots), s # << >>, NEW s2, s2 = Front(s),
           \A snap \in ToSet(s2) : MessagesOf(snap)' = MessagesOf(snap)
    PROVE  /\ Transcripts(s2)' = Front(Transcripts(s))
           /\ MessagesOf(Last(s)) = Last(Transcripts(s))
           /\ Transcripts(s) # << >>
  <1> DEFINE t == Transcripts(s)
  <1>1. /\ t \in Seq(Seq(Msgs)) /\ Len(t) = Len(s)
        /\ \A i \in 1 .. Len(s) : t[i] = MessagesOf(s[i])
    BY TranscriptsIs
  <1>2. /\ Len(s) \in Nat \ {0} /\ s2 \in Seq(Snapshots)
        /\ Len(s2) = Len(s) - 1 /\ \A i \in 1 .. Len(s) - 1 : s2[i] = s[i]
    <2>1. Len(s) \in Nat \ {0}
      BY EmptySeq
    <2>2. s2 = SubSeq(s, 1, Len(s) - 1)
      BY DEF Front
    <2>3. PICK n \in Nat : n = Len(s) - 1
      BY <2>1
    <2>4. /\ SubSeq(s, 1, n) \in Seq(Snapshots) /\ Len(SubSeq(s, 1, n)) = n
          /\ \A i \in 1 .. n : SubSeq(s, 1, n)[i] = s[i]
      BY <2>1, <2>3
    <2> QED
      BY <2>1, <2>2, <2>3, <2>4
  <1>3. \A i \in 1 .. Len(s) - 1 : s2[i] \in ToSet(s2)
    BY <1>2, StackSet
  <1> HIDE DEF t
  <1> DEFINE u == Front(t)
  <1>4. /\ u \in Seq(Seq(Msgs)) /\ Len(u) = Len(s) - 1
        /\ \A i \in 1 .. Len(s) - 1 : u[i] = t[i]
    BY <1>1, <1>2 DEF Front
  <1> HIDE DEF u
  <1>5. ASSUME NEW i \in 1 .. Len(s) - 1
        PROVE  MessagesOf(s2[i])' = u[i]
    <2>1. MessagesOf(s2[i])' = MessagesOf(s2[i])
      BY <1>3
    <2>2. s2[i] = s[i] /\ u[i] = t[i] /\ i \in 1 .. Len(s)
      BY <1>2, <1>4
    <2> QED
      BY <1>1, <2>1, <2>2
  <1>6. Transcripts(s2)' = [i \in 1 .. Len(s) - 1 |-> u[i]]
    BY <1>2, <1>5 DEF Transcripts
  <1>7. u = [i \in 1 .. Len(s) - 1 |-> u[i]]
    BY <1>2, <1>4
  <1>8. MessagesOf(Last(s)) = Last(t) /\ t # << >>
    BY <1>1, <1>2 DEF Last
  <1> QED
    BY <1>6, <1>7, <1>8 DEF u, t

\* The entries of a stack after a push and after a pop, and their number.
LEMMA PushSet ==
    ASSUME NEW S, NEW s \in Seq(S), NEW x \in S
    PROVE  /\ PushUndo(s, x) \in Seq(S)
           /\ ToSet(PushUndo(s, x)) \subseteq ToSet(s) \cup {x}
           /\ Len(PushUndo(s, x)) <= Len(s) + 1
           /\ Depth > 0 => Len(PushUndo(s, x)) <= Depth
           /\ Len(PushUndo(s, x)) <= Len(s) <=> Depth > 0 /\ Len(s) >= Depth
  <1> DEFINE p == PushUndo(s, x)
  <1>1. PICK d : d = Left(Len(s))
    OBVIOUS
  <1>2. p \in Seq(S) /\ Pushed(s, x, d, p)
    BY <1>1, PushIs
  <1> HIDE DEF p
  <1>3. /\ d \in 0 .. Len(s) /\ Len(p) = Len(s) + 1 - d
        /\ \A i \in 1 .. Len(s) + 1 - d :
             p[i] = IF i + d <= Len(s) THEN s[i + d] ELSE x
    BY <1>2 DEF Pushed
  <1>4. Len(s) \in Nat /\ Depth \in Nat
    BY HistoryAssumption
  <1>5. ASSUME NEW y \in ToSet(p)
        PROVE  y \in ToSet(s) \cup {x}
    <2>1. PICK i \in 1 .. Len(s) + 1 - d : y = p[i]
      BY <1>2, <1>3, StackSet
    <2>2. CASE i + d <= Len(s)
      <3>1. i + d \in 1 .. Len(s) /\ y = s[i + d]
        BY <1>3, <1>4, <2>1, <2>2
      <3> QED
        BY <3>1, StackSet
    <2>3. CASE ~(i + d <= Len(s))
      BY <1>3, <2>1, <2>3
    <2> QED
      BY <2>2, <2>3
  <1>6. /\ Len(p) <= Len(s) + 1
        /\ Depth > 0 => Len(p) <= Depth
        /\ Len(p) <= Len(s) <=> Depth > 0 /\ Len(s) >= Depth
    <2>1. CASE Depth > 0 /\ Len(s) + 1 > Depth
      <3>1. d = Len(s) + 1 - Depth
        BY <1>1, <2>1 DEF Left
      <3>2. Len(p) = Depth
        BY <1>3, <1>4, <3>1
      <3> QED
        BY <1>4, <2>1, <3>2
    <2>2. CASE ~(Depth > 0 /\ Len(s) + 1 > Depth)
      <3>1. d = 0
        BY <1>1, <2>2 DEF Left
      <3>2. Len(p) = Len(s) + 1
        BY <1>3, <1>4, <3>1
      <3> QED
        BY <1>4, <2>2, <3>2
    <2> QED
      BY <2>1, <2>2
  <1> QED
    BY <1>2, <1>5, <1>6 DEF p

\* The entries of a stack after a pop.
LEMMA FrontSet ==
    ASSUME NEW S, NEW s \in Seq(S), s # << >>
    PROVE  /\ Front(s) \in Seq(S) /\ ToSet(Front(s)) \subseteq ToSet(s)
           /\ Len(Front(s)) = Len(s) - 1
           /\ Len(s) \in Nat \ {0} /\ Last(s) \in ToSet(s)
  <1>1. Len(s) \in Nat \ {0}
    BY EmptySeq
  <1>2. PICK n \in Nat : n = Len(s) - 1
    BY <1>1
  <1>3. Front(s) = SubSeq(s, 1, n)
    BY <1>2 DEF Front
  <1>4. /\ SubSeq(s, 1, n) \in Seq(S) /\ Len(SubSeq(s, 1, n)) = n
        /\ \A i \in 1 .. n : SubSeq(s, 1, n)[i] = s[i]
    BY <1>1, <1>2
  <1>5. ToSet(Front(s)) \subseteq ToSet(s)
    <2> SUFFICES ASSUME NEW y \in ToSet(Front(s))
                 PROVE  y \in ToSet(s)
      OBVIOUS
    <2>1. Front(s) \in Seq(S) /\ Len(Front(s)) = n
      BY <1>3, <1>4
    <2>2. PICK i \in 1 .. n : y = Front(s)[i]
      BY <2>1, StackSet
    <2>3. i \in 1 .. Len(s) /\ y = s[i]
      BY <1>2, <1>3, <1>4, <2>2
    <2> QED
      BY <2>3, StackSet
  <1>6. Last(s) \in ToSet(s)
    BY <1>1, StackSet DEF Last
  <1> QED
    BY <1>1, <1>2, <1>3, <1>4, <1>5, <1>6

\* The entries of a stack after one was added.
LEMMA AppendSet ==
    ASSUME NEW S, NEW s \in Seq(S), NEW x \in S
    PROVE  /\ Append(s, x) \in Seq(S) /\ Len(Append(s, x)) = Len(s) + 1
           /\ ToSet(Append(s, x)) = ToSet(s) \cup {x}
  <1> DEFINE a == Append(s, x)
  <1>1. /\ a \in Seq(S) /\ Len(a) = Len(s) + 1 /\ a[Len(s) + 1] = x
        /\ Len(s) \in Nat /\ \A i \in 1 .. Len(s) : a[i] = s[i]
    OBVIOUS
  <1> HIDE DEF a
  <1>2. ASSUME NEW y \in ToSet(a) PROVE y \in ToSet(s) \cup {x}
    <2>1. PICK i \in 1 .. Len(a) : y = a[i]
      BY <1>1, StackSet
    <2>2. i \in 1 .. Len(s) \/ i = Len(s) + 1
      BY <1>1
    <2> QED
      BY <1>1, <2>1, <2>2, StackSet
  <1>3. ASSUME NEW y \in ToSet(s) PROVE y \in ToSet(a)
    <2>1. PICK i \in 1 .. Len(s) : y = s[i]
      BY StackSet
    <2>2. i \in 1 .. Len(a) /\ y = a[i]
      BY <1>1, <2>1
    <2> QED
      BY <1>1, <2>2, StackSet
  <1>4. x \in ToSet(a)
    <2>1. Len(s) + 1 \in 1 .. Len(a)
      BY <1>1
    <2> QED
      BY <1>1, <2>1, StackSet
  <1> QED
    BY <1>1, <1>2, <1>3, <1>4 DEF a

-----------------------------------------------------------------------------
\* push_before_turn keeps the invariant and is the turn of the abstract stacks.
LEMMA StepBeginTurn ==
    ASSUME HistoryInv, NEW m \in UserMsgs, BeginTurn(m)
    PROVE  HistoryInv' /\ Stacks!BeginTurn(m)
  <1> USE DEF HistoryInv
  <1>1. PICK new : new = Captured(undo_stack, << >>)
    OBVIOUS
  <1>2. PICK undo2 : undo2 = PushUndo(undo_stack, new)
    OBVIOUS
  <1>3. /\ Record(undo_stack, << >>, undo2, << >>)
        /\ dropped' = (dropped \/ Len(undo2) <= Len(undo_stack))
        /\ messages' = Append(messages, m) /\ Len(messages) < MaxLen
    BY <1>1, <1>2 DEF BeginTurn
  <1>4. /\ undo_stack \in Seq(Snapshots) /\ << >> \in Seq(Snapshots)
        /\ ToSet(<< >>) = {} /\ Len(<< >>) = 0
    BY DEF HType, ToSet
  <1>5. new \in Snapshots
    BY <1>1, <1>3, HistoryAssumption
       DEF Captured, Snapshots, Record, Target, Extends, HType
  <1>6. /\ undo2 \in Seq(Snapshots) /\ ToSet(undo2) \subseteq ToSet(undo_stack) \cup {new}
        /\ Depth > 0 => Len(undo2) <= Depth
        /\ Len(undo2) <= Len(undo_stack) <=> Depth > 0 /\ Len(undo_stack) >= Depth
    BY <1>2, <1>4, <1>5, PushSet
  <1>7. /\ next_store' \in 0 .. MaxStores
        /\ DOMAIN stores' \subseteq 1 .. next_store'
        /\ \A id \in DOMAIN stores' : stores'[id] \in Seq(Msgs)
        /\ EntriesInv' /\ LogsInv' /\ MessagesOf(new)' = messages
        /\ \A snap \in ToSet(undo2) \cap ToSet(undo_stack) :
             MessagesOf(snap)' = MessagesOf(snap)
    <2>1. /\ Entries(undo_stack, << >>) = ToSet(undo_stack)
          /\ Entries(undo2, << >>) = ToSet(undo2)
      BY <1>4 DEF Entries
    <2>2. AllReadable(undo_stack, << >>)
      BY <2>1 DEF EntriesInv, Entries, AllReadable
    <2>3. Entries(undo2, << >>) \subseteq Entries(undo_stack, << >>) \cup {new}
      BY <1>6, <2>1
    <2>4. Kept(undo_stack, << >>, undo2, << >>, new)
      BY <1>1, <1>3, <1>4, <1>6, <2>2, <2>3, RecordKeeps
    <2> QED
      BY <2>1, <2>4 DEF Kept
  <1>8. undo_stack' = undo2 /\ redo_stack' = << >>
    BY <1>3 DEF Record
  <1>9. Transcripts(undo_stack)' = PushUndo(Transcripts(undo_stack), messages)
    BY <1>2, <1>4, <1>5, <1>7, <1>8, MapPush
  <1>10. Transcripts(redo_stack)' = << >>
    BY <1>8 DEF Transcripts
  <1>11. HType'
    BY <1>3, <1>4, <1>6, <1>7, <1>8, HistoryAssumption DEF HType, Msgs
  <1>12. DepthInv'
    BY <1>4, <1>6, <1>8, HistoryAssumption DEF DepthInv
  <1>13. Stacks!Push(Transcripts(undo_stack), messages)
           = PushUndo(Transcripts(undo_stack), messages)
    BY DEF Stacks!Push, Stacks!Newest, PushUndo
  <1>14. dropped' = (dropped \/ Stacks!Overflows(Transcripts(undo_stack)))
    BY <1>3, <1>4, <1>6, TranscriptsIs DEF Stacks!Overflows
  <1> QED
    BY <1>3, <1>7, <1>9, <1>10, <1>11, <1>12, <1>13, <1>14
       DEF Stacks!BeginTurn

\* undo keeps the invariant and is the undo of the abstract stacks.
LEMMA StepUndo ==
    ASSUME HistoryInv, Undo
    PROVE  HistoryInv' /\ Stacks!Undo
  <1> USE DEF HistoryInv
  <1>1. PICK undo : undo = Front(undo_stack)
    OBVIOUS
  <1>2. PICK new : new = Captured(undo, redo_stack)
    OBVIOUS
  <1>3. PICK redo2 : redo2 = Append(redo_stack, new)
    OBVIOUS
  <1>4. /\ Record(undo, redo_stack, undo, redo2) /\ undo_stack # << >>
        /\ messages' = MessagesOf(Last(undo_stack)) /\ dropped' = dropped
    BY <1>1, <1>2, <1>3 DEF Undo
  <1>5. undo_stack \in Seq(Snapshots) /\ redo_stack \in Seq(Snapshots)
    BY DEF HType
  <1>6. /\ undo \in Seq(Snapshots) /\ ToSet(undo) \subseteq ToSet(undo_stack)
        /\ Len(undo) = Len(undo_stack) - 1 /\ Len(undo_stack) \in Nat \ {0}
        /\ Last(undo_stack) \in Snapshots
    BY <1>1, <1>4, <1>5, FrontSet, StackSet
  <1>7. new \in Snapshots
    BY <1>2, <1>4, HistoryAssumption
       DEF Captured, Snapshots, Record, Target, Extends, HType
  <1>8. /\ redo2 \in Seq(Snapshots) /\ Len(redo2) = Len(redo_stack) + 1
        /\ ToSet(redo2) = ToSet(redo_stack) \cup {new}
    BY <1>3, <1>5, <1>7, AppendSet
  <1>9. /\ next_store' \in 0 .. MaxStores
        /\ DOMAIN stores' \subseteq 1 .. next_store'
        /\ \A id \in DOMAIN stores' : stores'[id] \in Seq(Msgs)
        /\ EntriesInv' /\ LogsInv' /\ MessagesOf(new)' = messages
        /\ \A snap \in ToSet(undo) \cup ToSet(redo_stack) :
             MessagesOf(snap)' = MessagesOf(snap)
    <2>1. /\ Entries(undo, redo_stack) = ToSet(undo) \cup ToSet(redo_stack)
          /\ Entries(undo, redo2) = Entries(undo, redo_stack) \cup {new}
      BY <1>8 DEF Entries
    <2>2. AllReadable(undo, redo_stack)
      BY <1>6, <2>1 DEF EntriesInv, Entries, AllReadable
    <2>3. Kept(undo, redo_stack, undo, redo2, new)
      BY <1>2, <1>4, <1>5, <1>6, <1>8, <2>1, <2>2, RecordKeeps
    <2> QED
      BY <2>1, <2>3 DEF Kept
  <1>10. undo_stack' = undo /\ redo_stack' = redo2
    BY <1>4 DEF Record
  <1>11. /\ Transcripts(undo)' = Front(Transcripts(undo_stack))
         /\ MessagesOf(Last(undo_stack)) = Last(Transcripts(undo_stack))
         /\ Transcripts(undo_stack) # << >>
    BY <1>1, <1>4, <1>5, <1>9, MapFront
  <1>12. Transcripts(redo2)' = Append(Transcripts(redo_stack), messages)
    BY <1>3, <1>5, <1>7, <1>9, MapAppend
  <1>13. messages' \in Seq(Msgs) /\ Len(messages') <= MaxLen
    BY <1>4, <1>6, MessagesOfType
  <1>14. HType'
    BY <1>4, <1>6, <1>8, <1>9, <1>10, <1>13 DEF HType
  <1>15. DepthInv'
    <2>1. Len(redo_stack) \in Nat
      BY <1>5
    <2> QED
      BY <1>6, <1>8, <1>10, <2>1 DEF DepthInv
  <1>16. /\ Transcripts(undo_stack)' = Front(Transcripts(undo_stack))
         /\ Transcripts(redo_stack)' = Append(Transcripts(redo_stack), messages)
    BY <1>10, <1>11, <1>12
  <1> QED
    BY <1>4, <1>9, <1>11, <1>14, <1>15, <1>16
       DEF Stacks!Undo, Stacks!Front, Stacks!Last, Front, Last

\* redo keeps the invariant and is the redo of the abstract stacks.
LEMMA StepRedo ==
    ASSUME HistoryInv, Redo
    PROVE  HistoryInv' /\ Stacks!Redo
  <1> USE DEF HistoryInv
  <1>1. PICK redo : redo = Front(redo_stack)
    OBVIOUS
  <1>2. PICK new : new = Captured(undo_stack, redo)
    OBVIOUS
  <1>3. PICK undo2 : undo2 = PushUndo(undo_stack, new)
    OBVIOUS
  <1>4. /\ Record(undo_stack, redo, undo2, redo) /\ redo_stack # << >>
        /\ messages' = MessagesOf(Last(redo_stack))
        /\ dropped' = (dropped \/ Len(undo2) <= Len(undo_stack))
    BY <1>1, <1>2, <1>3 DEF Redo
  <1>5. undo_stack \in Seq(Snapshots) /\ redo_stack \in Seq(Snapshots)
    BY DEF HType
  <1>6. /\ redo \in Seq(Snapshots) /\ ToSet(redo) \subseteq ToSet(redo_stack)
        /\ Len(redo) = Len(redo_stack) - 1 /\ Len(redo_stack) \in Nat \ {0}
        /\ Last(redo_stack) \in Snapshots
    BY <1>1, <1>4, <1>5, FrontSet, StackSet
  <1>7. new \in Snapshots
    BY <1>2, <1>4, HistoryAssumption
       DEF Captured, Snapshots, Record, Target, Extends, HType
  <1>8. /\ undo2 \in Seq(Snapshots) /\ Len(undo2) <= Len(undo_stack) + 1
        /\ ToSet(undo2) \subseteq ToSet(undo_stack) \cup {new}
        /\ Len(undo2) <= Len(undo_stack) <=>
             Depth > 0 /\ Len(undo_stack) >= Depth
    BY <1>3, <1>5, <1>7, PushSet
  <1>9. /\ next_store' \in 0 .. MaxStores
        /\ DOMAIN stores' \subseteq 1 .. next_store'
        /\ \A id \in DOMAIN stores' : stores'[id] \in Seq(Msgs)
        /\ EntriesInv' /\ LogsInv' /\ MessagesOf(new)' = messages
        /\ \A snap \in ToSet(redo) \cup (ToSet(undo2) \cap ToSet(undo_stack)) :
             MessagesOf(snap)' = MessagesOf(snap)
    <2>1. /\ Entries(undo_stack, redo) = ToSet(undo_stack) \cup ToSet(redo)
          /\ Entries(undo2, redo) = ToSet(undo2) \cup ToSet(redo)
      BY DEF Entries
    <2>2. AllReadable(undo_stack, redo)
      BY <1>6, <2>1 DEF EntriesInv, Entries, AllReadable
    <2>3. Entries(undo2, redo) \subseteq Entries(undo_stack, redo) \cup {new}
      BY <1>8, <2>1
    <2>4. Kept(undo_stack, redo, undo2, redo, new)
      BY <1>2, <1>4, <1>5, <1>6, <1>8, <2>2, <2>3, RecordKeeps
    <2> QED
      BY <2>1, <2>4 DEF Kept
  <1>10. undo_stack' = undo2 /\ redo_stack' = redo
    BY <1>4 DEF Record
  <1>11. /\ Transcripts(redo)' = Front(Transcripts(redo_stack))
         /\ MessagesOf(Last(redo_stack)) = Last(Transcripts(redo_stack))
         /\ Transcripts(redo_stack) # << >>
    BY <1>1, <1>4, <1>5, <1>9, MapFront
  <1>12. Transcripts(undo2)' = PushUndo(Transcripts(undo_stack), messages)
    BY <1>3, <1>5, <1>7, <1>9, MapPush
  <1>13. messages' \in Seq(Msgs) /\ Len(messages') <= MaxLen
    BY <1>4, <1>6, MessagesOfType
  <1>14. HType'
    BY <1>4, <1>6, <1>8, <1>9, <1>10, <1>13 DEF HType
  <1>15. DepthInv'
    <2>1. Len(undo_stack) \in Nat /\ Len(undo2) \in Nat /\ Depth \in Nat
      BY <1>5, <1>8, HistoryAssumption
    <2> QED
      BY <1>6, <1>8, <1>10, <2>1 DEF DepthInv
  <1>16. /\ Transcripts(redo_stack)' = Front(Transcripts(redo_stack))
         /\ Transcripts(undo_stack)' =
              PushUndo(Transcripts(undo_stack), messages)
    BY <1>10, <1>11, <1>12
  <1>17. Stacks!Push(Transcripts(undo_stack), messages)
           = PushUndo(Transcripts(undo_stack), messages)
    BY DEF Stacks!Push, Stacks!Newest, PushUndo
  <1>18. dropped' = (dropped \/ Stacks!Overflows(Transcripts(undo_stack)))
    BY <1>4, <1>5, <1>8, TranscriptsIs DEF Stacks!Overflows
  <1> QED
    BY <1>4, <1>9, <1>11, <1>14, <1>15, <1>16, <1>17, <1>18
       DEF Stacks!Redo, Stacks!Front, Stacks!Last, Front, Last

\* A change of the transcript that leaves the history alone changes no entry.
LEMMA StepChange ==
    ASSUME HistoryInv, messages' \in Seq(Msgs), Len(messages') <= MaxLen,
           UNCHANGED <<undo_stack, redo_stack, stores, next_store, dropped>>
    PROVE  HistoryInv' /\ Stacks!Change
  <1>1. \A snap : /\ MessagesOf(snap)' = MessagesOf(snap)
                  /\ Readable(snap)' = Readable(snap)
    BY DEF MessagesOf, Readable
  <1>2. HistoryInv'
    BY <1>1 DEF HistoryInv, HType, EntriesInv, LogsInv, DepthInv
  <1>3. /\ Transcripts(undo_stack)' = Transcripts(undo_stack)
        /\ Transcripts(redo_stack)' = Transcripts(redo_stack)
    BY <1>1 DEF Transcripts
  <1> QED
    BY <1>2, <1>3 DEF Stacks!Change

\* The empty sequence: no element, no index.
LEMMA NoneEmpty ==
    /\ \A S : << >> \in Seq(S)
    /\ Len(<< >>) = 0 /\ DOMAIN << >> = {} /\ ToSet(<< >>) = {}
  BY DEF ToSet

\* clear forgets every entry, and every transcript with it.
LEMMA StepClear ==
    ASSUME HistoryInv, Clear
    PROVE  HistoryInv' /\ Stacks!Clear
  <1>1. HistoryInv'
    <2>1. /\ messages' = << >> /\ undo_stack' = << >> /\ redo_stack' = << >>
          /\ stores' = << >> /\ next_store' = 0 /\ dropped' = FALSE
      BY DEF Clear
    <2>2. HType'
      <3>1. MaxLen \in Nat /\ MaxStores \in Nat
        BY HistoryAssumption
      <3>2. messages' \in Seq(Msgs) /\ Len(messages') <= MaxLen
        BY <2>1, <3>1
      <3>3. undo_stack' \in Seq(Snapshots) /\ redo_stack' \in Seq(Snapshots)
        BY <2>1
      <3>4. DOMAIN stores' = {} /\ next_store' \in 0 .. MaxStores
        BY <2>1, <3>1
      <3> QED
        BY <2>1, <3>2, <3>3, <3>4 DEF HType
    <2>3. EntriesInv'
      BY <2>1, NoneEmpty DEF EntriesInv, Entries
    <2>4. LogsInv'
      BY <2>1, NoneEmpty DEF LogsInv
    <2>5. DepthInv'
      BY <2>1, HistoryAssumption, NoneEmpty DEF DepthInv
    <2> QED
      BY <2>2, <2>3, <2>4, <2>5 DEF HistoryInv
  <1>2. Transcripts(undo_stack)' = << >> /\ Transcripts(redo_stack)' = << >>
    BY DEF Clear, Transcripts
  <1> QED
    BY <1>1, <1>2 DEF Clear, Stacks!Clear

\* Every step of the code keeps the invariant and is a step, or no step, of the
\* abstract stacks.
LEMMA StepNext ==
    ASSUME HistoryInv, [Next]_vars
    PROVE  HistoryInv' /\ [Stacks!Next]_(Stacks!vars)
  <1>1. messages \in Seq(Msgs) /\ Len(messages) \in Nat /\ MaxLen \in Nat
    BY HistoryAssumption DEF HistoryInv, HType
  <1>2. ASSUME NEW m \in UserMsgs, BeginTurn(m)
        PROVE  HistoryInv' /\ Stacks!Next
    BY <1>2, StepBeginTurn DEF Stacks!Next, Msgs
  <1>3. ASSUME NEW m \in OtherMsgs, AddMessage(m)
        PROVE  HistoryInv' /\ Stacks!Next
    BY <1>1, <1>3, StepChange DEF AddMessage, Stacks!Next, Msgs
  <1>4. ASSUME NEW i \in 1 .. MaxLen, NEW m \in OtherMsgs, Rewrite(i, m)
        PROVE  HistoryInv' /\ Stacks!Next
    <2>1. messages' \in Seq(Msgs) /\ Len(messages') = Len(messages)
      BY <1>1, <1>4 DEF Rewrite, Msgs
    <2> QED
      BY <1>1, <1>4, <2>1, StepChange DEF Rewrite, Stacks!Next, HistoryInv,
         HType
  <1>5. ASSUME NEW k \in 0 .. MaxLen, NEW m \in UserMsgs, Compact(k, m)
        PROVE  HistoryInv' /\ Stacks!Next
    <2> DEFINE a == SubSeq(messages, Len(messages) - k + 1, Len(messages))
    <2>1. k \in 0 .. Len(messages) - 1 /\ messages' = <<m>> \o a
      BY <1>5 DEF Compact
    <2>2. a \in Seq(Msgs) /\ Len(a) = k
      BY <1>1, <2>1
    <2> HIDE DEF a
    <2>3. <<m>> \in Seq(Msgs) /\ Len(<<m>>) = 1
      BY DEF Msgs
    <2>4. messages' \in Seq(Msgs) /\ Len(messages') = k + 1
      BY <2>1, <2>2, <2>3, ConcatProperties
    <2>5. Len(messages') <= MaxLen
      BY <1>1, <2>1, <2>4 DEF HistoryInv, HType
    <2> QED
      BY <1>5, <2>4, <2>5, StepChange DEF Compact, Stacks!Next
  <1>6. ASSUME UndoLastTurn
        PROVE  HistoryInv' /\ Stacks!Next
    <2> DEFINE at == {i \in 1 .. Len(messages) : messages[i] \in UserMsgs}
               n == Max(at)
    <2>1. at # {} /\ messages' = SubSeq(messages, 1, n - 1)
      BY <1>6 DEF UndoLastTurn
    <2>2. at \subseteq 0 .. Len(messages)
      BY <1>1
    <2>3. n \in at
      <3> HIDE DEF at
      <3> QED
        BY <1>1, <2>1, <2>2, MaxIs
    <2>4. n \in 1 .. Len(messages)
      BY <2>3
    <2> HIDE DEF n
    <2>5. messages' \in Seq(Msgs) /\ Len(messages') <= Len(messages)
      BY <1>1, <2>1, <2>4
    <2>6. Len(messages') <= MaxLen
      BY <1>1, <2>5 DEF HistoryInv, HType
    <2> QED
      BY <1>6, <2>5, <2>6, StepChange DEF UndoLastTurn, Stacks!Next
  <1>7. CASE UNCHANGED vars
    <2>1. HistoryInv' /\ Stacks!Change
      BY <1>1, <1>7, StepChange DEF vars, HistoryInv, HType
    <2> QED
      BY <2>1 DEF Stacks!Next
  <1>8. CASE Undo \/ Redo \/ Clear
    BY <1>8, StepUndo, StepRedo, StepClear DEF Stacks!Next
  <1> QED
    BY <1>2, <1>3, <1>4, <1>5, <1>6, <1>7, <1>8 DEF Next

\* A session starts without entries.
LEMMA InitHistory == Init => HistoryInv /\ Stacks!Init
  <1> SUFFICES ASSUME Init PROVE HistoryInv /\ Stacks!Init
    OBVIOUS
  <1>1. HistoryInv
    <2>1. /\ messages = << >> /\ undo_stack = << >> /\ redo_stack = << >>
          /\ stores = << >> /\ next_store = 0 /\ dropped = FALSE
      BY DEF Init
    <2>2. HType
      <3>1. MaxLen \in Nat /\ MaxStores \in Nat
        BY HistoryAssumption
      <3>2. messages \in Seq(Msgs) /\ Len(messages) <= MaxLen
        BY <2>1, <3>1
      <3>3. undo_stack \in Seq(Snapshots) /\ redo_stack \in Seq(Snapshots)
        BY <2>1
      <3>4. DOMAIN stores = {} /\ next_store \in 0 .. MaxStores
        BY <2>1, <3>1
      <3> QED
        BY <2>1, <3>2, <3>3, <3>4 DEF HType
    <2>3. EntriesInv
      BY <2>1, NoneEmpty DEF EntriesInv, Entries
    <2>4. LogsInv
      BY <2>1, NoneEmpty DEF LogsInv
    <2>5. DepthInv
      BY <2>1, HistoryAssumption, NoneEmpty DEF DepthInv
    <2> QED
      BY <2>2, <2>3, <2>4, <2>5 DEF HistoryInv
  <1>2. Transcripts(undo_stack) = << >> /\ Transcripts(redo_stack) = << >>
    BY DEF Init, Transcripts
  <1> QED
    BY <1>1, <1>2 DEF Init, Stacks!Init

\* Every entry that is kept can be read, no log is kept that no entry reads but
\* the newest, and the depth is respected, in every state of the history.
THEOREM HistoryInvariant == Spec => []HistoryInv
  BY InitHistory, StepNext, PTL DEF Spec

\* The stacks of log prefixes implement stacks of whole transcripts: reusing a
\* log in capture never changes what an earlier undo or redo entry restores.
THEOREM Refinement == Spec => ImplementsStacks
  BY InitHistory, StepNext, HistoryInvariant, PTL
     DEF Spec, ImplementsStacks, Stacks!Spec

\* The history keeps the types its code declares.
THEOREM TypeCorrect == Spec => []TypeOK
  <1>1. HistoryInv => TypeOK
    <2> SUFFICES ASSUME HistoryInv PROVE TypeOK
      OBVIOUS
    <2>1. /\ ToSet(messages) \subseteq Msgs
          /\ ToSet(undo_stack) \cup ToSet(redo_stack) \subseteq Snapshots
      BY StackSet DEF HistoryInv, HType
    <2> QED
      BY <2>1 DEF HistoryInv, HType, TypeOK
  <1> QED
    BY <1>1, HistoryInvariant, PTL

\* Logs do not pile up: gc after every capture leaves at most one per entry and
\* the newest, and the entries never exceed the undo depth.
THEOREM LogsStayBounded == Spec => []LogsBounded
  <1>1. HistoryInv => LogsBounded
    <2> SUFFICES ASSUME HistoryInv PROVE LogsBounded
      OBVIOUS
    <2> DEFINE a == Len(undo_stack)
               b == Len(redo_stack)
               used == LogsUsed(undo_stack, redo_stack)
               f == [i \in 1 .. a + b |-> IF i <= a THEN undo_stack[i].store
                                          ELSE redo_stack[i - a].store]
    <2>1. /\ undo_stack \in Seq(Snapshots) /\ redo_stack \in Seq(Snapshots)
          /\ a \in Nat /\ b \in Nat
      BY DEF HistoryInv, HType
    <2>2. \A i \in 1 .. a + b : f[i] \in used
      <3> SUFFICES ASSUME NEW i \in 1 .. a + b PROVE f[i] \in used
        OBVIOUS
      <3>1. CASE i <= a
        <4>1. undo_stack[i] \in ToSet(undo_stack)
          BY <2>1, <3>1, StackSet
        <4> QED
          BY <3>1, <4>1 DEF LogsUsed
      <3>2. CASE ~(i <= a)
        <4>1. i - a \in 1 .. b
          BY <2>1, <3>2
        <4>2. redo_stack[i - a] \in ToSet(redo_stack)
          BY <2>1, <4>1, StackSet
        <4> QED
          BY <3>2, <4>2 DEF LogsUsed
      <3> QED
        BY <3>1, <3>2
    <2>3. \A id \in used : \E i \in 1 .. a + b : f[i] = id
      <3> SUFFICES ASSUME NEW id \in used
                   PROVE  \E i \in 1 .. a + b : f[i] = id
        OBVIOUS
      <3>1. PICK s \in ToSet(undo_stack) \cup ToSet(redo_stack) : id = s.store
        BY DEF LogsUsed
      <3>2. CASE s \in ToSet(undo_stack)
        <4>1. PICK i \in 1 .. a : s = undo_stack[i]
          BY <2>1, <3>2, StackSet
        <4>2. i \in 1 .. a + b /\ f[i] = id
          BY <2>1, <3>1, <4>1
        <4> QED
          BY <4>2
      <3>3. CASE s \in ToSet(redo_stack)
        <4>1. PICK i \in 1 .. b : s = redo_stack[i]
          BY <2>1, <3>3, StackSet
        <4>2. a + i \in 1 .. a + b /\ f[a + i] = id
          BY <2>1, <3>1, <4>1
        <4> QED
          BY <4>2
      <3> QED
        BY <3>1, <3>2, <3>3
    <2>4. f \in Surjection(1 .. a + b, used)
      BY <2>2, <2>3 DEF Surjection
    <2>5. a + b \in Nat /\ ExistsSurjection(1 .. a + b, used)
      BY <2>1, <2>4 DEF ExistsSurjection
    <2> HIDE DEF a, b, used, f
    <2>6. /\ IsFiniteSet(used) /\ Cardinality(used) <= a + b
          /\ Cardinality(used) \in Nat
      BY <2>5, FS_SurjCardinalityBound, FS_NatSurjection, FS_CardinalityType
    <2>7. /\ IsFiniteSet(used \cup {next_store})
          /\ Cardinality(used \cup {next_store}) <= a + b + 1
          /\ Cardinality(used \cup {next_store}) \in Nat
      BY <2>5, <2>6, FS_AddElement
    <2>8. DOMAIN stores \subseteq used \cup {next_store}
      BY DEF HistoryInv, LogsInv, used
    <2>9. /\ Cardinality(DOMAIN stores) <= Cardinality(used \cup {next_store})
          /\ Cardinality(DOMAIN stores) \in Nat
      BY <2>7, <2>8, FS_Subset, FS_CardinalityType
    <2>10. Cardinality(DOMAIN stores) <= a + b + 1
      BY <2>5, <2>7, <2>9
    <2> QED
      BY <2>10 DEF HistoryInv, DepthInv, LogsBounded, a, b
  <1> QED
    BY <1>1, HistoryInvariant, PTL
=============================================================================
