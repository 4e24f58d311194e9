---------------------------- MODULE MCTranscript ----------------------------
(***************************************************************************)
(* Every list of at most MaxLen messages over a small alphabet, built one  *)
(* message at a time: the pure operations of Transcript are checked on     *)
(* each.  The lists are the ones a session can be loaded with: `pairing`   *)
(* exists for saved, imported and trimmed transcripts.                     *)
(***************************************************************************)
EXTENDS Transcript

CONSTANTS Ids, MaxLen

VARIABLE msgs

\* The calls of one message have distinct ids (ToolCallAssembler merges by id).
Calls ==
    {<<>>, <<NoId>>} \cup {<<i>> : i \in Ids}
        \cup {c \in Ids \X (Ids \cup {NoId}) : c[1] # c[2]}

Alphabet ==
    {Prompt("p"), Prompt("image"), Note("n"), Carrier}
        \cup {Assistant(ids) : ids \in Calls}
        \cup {Result(i, "ok") : i \in Ids \cup {NoId}}

Init == msgs = <<>>

Load(m) == Len(msgs) < MaxLen /\ msgs' = Append(msgs, m)

Next == \E m \in Alphabet : Load(m)

Spec == Init /\ [][Next]_msgs

\* Ids are compared with one another only.
IdSymmetry == Permutations(Ids)

\* build_request: whatever the transcript, the request a provider gets answers
\* every call once and holds no result nobody asked for.
RequestAccepted == Accepted(PairedMessages(msgs))

\* paired_messages returns None, so the request is the transcript itself,
\* exactly when the transcript pairs up; and repairing twice changes nothing.
RepairOnlyWhenNeeded ==
    /\ Accepted(msgs) <=> PairedMessages(msgs) = msgs
    /\ PairedMessages(PairedMessages(msgs)) = PairedMessages(msgs)

\* Both compactions of an accepted transcript leave an accepted transcript.
CompactionKeepsPairs ==
    Accepted(msgs) =>
        /\ Accepted(FullReplace(msgs))
        /\ NativeCut(msgs) => Accepted(NativeReplace(msgs))

\* apply_full_replace keeps the text of the user's last message where the next
\* pass finds it and never leaves two summaries: a second pass changes nothing.
\* If that message has only images nothing of it is left, and the second pass
\* finds no message of the user: it drops what the first one kept.
CompactionSettles ==
    LET at == LastRealUser(msgs)
        once == FullReplace(msgs)
        twice == FullReplace(once)
    IN  /\ at = 0 => twice = once
        /\ at # 0 /\ HasText(msgs[at]) => once[1] = msgs[at] /\ twice = once
        /\ at # 0 /\ ~HasText(msgs[at]) => twice = <<Carrier>>
=============================================================================
