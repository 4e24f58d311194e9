------------------------ MODULE MCTranscript_proofs -------------------------
(***************************************************************************)
(* Every list of messages that MCTranscript can build, of any length and   *)
(* over any ids: the repair makes it acceptable to a provider, and both    *)
(* compactions keep it so.                                                 *)
(***************************************************************************)
EXTENDS MCTranscript, Transcript_proofs

\* The messages a list holds before and after a compaction.
Message == Alphabet \cup {Carrier, NativeBlock}

\* The lists are lists of messages.
LEMMA Lists == Spec => [](msgs \in Seq(Message))
  <1>1. Init => msgs \in Seq(Message)
    BY DEF Init
  <1>2. msgs \in Seq(Message) /\ [Next]_msgs => (msgs \in Seq(Message))'
    BY DEF Next, Load, Message
  <1> QED
    BY <1>1, <1>2, PTL DEF Spec

\* apply_full_replace and apply_native_compaction never separate a call from its
\* results, whatever list they are given, as long as it was in order before.
THEOREM CompactionPairs == Spec => []CompactionKeepsPairs
  <1>1. msgs \in Seq(Message) => CompactionKeepsPairs
    <2>1. Carrier \in Message /\ NativeBlock \in Message
      BY DEF Message
    <2> QED
      BY <2>1, FullReplaceAccepted, NativeReplaceAccepted
         DEF CompactionKeepsPairs
  <1> QED
    BY <1>1, Lists, PTL

\* apply_full_replace leaves the text of the user's last message in front and one
\* carrier: the pass after it finds nothing to do, unless that message had only
\* images, when the pass after it leaves the carrier alone.
THEOREM CompactionIsSettled == Spec => []CompactionSettles
  <1>1. msgs \in Seq(Message) => CompactionSettles
    BY FullReplaceSettles DEF CompactionSettles
  <1> QED
    BY <1>1, Lists, PTL

\* The messages the repair of a request reads and writes.
Repaired == Alphabet \cup {Result(i, "missing") : i \in Ids \cup {NoId}}

\* The calls of one of them have different ids.
LEMMA RepairedSound == Sound(Repaired, Ids \cup {NoId}) /\ Alphabet \subseteq Repaired
  <1> DEFINE I == Ids \cup {NoId}
  <1>1. ASSUME NEW ids \in Calls
        PROVE  ids \in Seq(I) /\ Distinct(ids)
    <2>1. CASE ids = << >>
      BY <2>1 DEF Distinct
    <2>2. ASSUME NEW i \in I, ids = <<i>>
          PROVE  ids \in Seq(I) /\ Distinct(ids)
      BY <2>2 DEF Distinct
    <2>3. ASSUME NEW i \in I, NEW j \in I, ids = <<i, j>>, i # j
          PROVE  ids \in Seq(I) /\ Distinct(ids)
      <3>1. ids \in Seq(I) /\ Len(ids) = 2 /\ ids[1] = i /\ ids[2] = j
        BY <2>3
      <3>2. \A k \in 1 .. 2 : k = 1 \/ k = 2
        OBVIOUS
      <3> QED
        BY <2>3, <3>1, <3>2 DEF Distinct
    <2> QED
      BY <2>1, <2>2, <2>3 DEF Calls
  <1>2. ASSUME NEW m \in Repaired
        PROVE  /\ m.role \in {"user", "assistant", "tool"}
               /\ m.role = "tool" => m.id \in I
               /\ m.role = "assistant" => m.ids \in Seq(I) /\ Distinct(m.ids)
    <2>1. CASE m \in {Prompt("p"), Prompt("image"), Note("n"), Carrier}
      BY <2>1 DEF Prompt, Note, Carrier
    <2>2. ASSUME NEW ids \in Calls, m = Assistant(ids)
          PROVE  m.role = "assistant" /\ m.ids \in Seq(I) /\ Distinct(m.ids)
      BY <1>1, <2>2 DEF Assistant
    <2>3. ASSUME NEW i \in I, NEW what, m = Result(i, what)
          PROVE  m.role = "tool" /\ m.id \in I
      BY <2>3 DEF Result
    <2> HIDE DEF I
    <2>4. m \in Alphabet \/ \E i \in I : m = Result(i, "missing")
      BY DEF Repaired, I
    <2>5. CASE \E i \in I : m = Result(i, "missing")
      BY <2>3, <2>5
    <2>6. CASE m \in Alphabet
      <3>1. \/ m \in {Prompt("p"), Prompt("image"), Note("n"), Carrier}
            \/ \E ids \in Calls : m = Assistant(ids)
            \/ \E i \in I : m = Result(i, "ok")
        BY <2>6 DEF Alphabet, I
      <3> QED
        BY <2>1, <2>2, <2>3, <3>1
    <2> QED
      BY <2>4, <2>5, <2>6
  <1>3. \A id \in I : Result(id, "missing") \in Repaired
    BY DEF Repaired
  <1> QED
    BY <1>2, <1>3 DEF Sound, Repaired

\* The lists are lists of such messages.
LEMMA Loaded == Spec => [](msgs \in Seq(Repaired))
  <1>1. Init => msgs \in Seq(Repaired)
    BY DEF Init
  <1>2. msgs \in Seq(Repaired) /\ [Next]_msgs => (msgs \in Seq(Repaired))'
    BY DEF Next, Load, Repaired
  <1> QED
    BY <1>1, <1>2, PTL DEF Spec

\* build_request: whatever list a session was loaded with, of any length, the
\* request answers every call once and holds no result nobody asked for.
THEOREM RequestsAccepted == Spec => []RequestAccepted
  <1>1. msgs \in Seq(Repaired) => RequestAccepted
    BY RepairedSound, PairedAccepted DEF RequestAccepted
  <1> QED
    BY <1>1, Loaded, PTL

\* paired_messages changes a list exactly when a provider would refuse it, and
\* what it returns it leaves alone.
THEOREM RepairsOnlyWhenNeeded == Spec => []RepairOnlyWhenNeeded
  <1>1. ASSUME msgs \in Seq(Repaired) PROVE RepairOnlyWhenNeeded
    <2>1. PICK p \in Seq(Repaired) : p = PairedMessages(msgs) /\ Accepted(p)
      BY <1>1, RepairedSound, PairedAccepted
    <2>2. PairedMessages(p) = p
      BY <2>1, RepairedSound, PairedSame
    <2>3. Accepted(msgs) => p = msgs
      BY <1>1, <2>1, RepairedSound, PairedSame
    <2> QED
      BY <2>1, <2>2, <2>3 DEF RepairOnlyWhenNeeded
  <1> QED
    BY <1>1, Loaded, PTL
=============================================================================
