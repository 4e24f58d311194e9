----------------------------- MODULE UndoStacks -----------------------------
(***************************************************************************)
(* What /undo and /redo promise: two stacks of whole transcripts.  /undo   *)
(* goes back to the transcript before the last turn, /redo to the one      *)
(* /undo left, a new turn forgets what could be redone, and at most Depth  *)
(* turns can be undone (0: any number).  Implemented by History.           *)
(***************************************************************************)
EXTENDS Naturals, SequencesExt

CONSTANTS Depth, Msgs

VARIABLES messages, undo, redo, dropped

vars == <<messages, undo, redo, dropped>>

\* The newest entries of a stack, as many as are kept.
Newest(stack) ==
    IF Depth > 0 /\ Len(stack) > Depth
    THEN SubSeq(stack, Len(stack) - Depth + 1, Len(stack)) ELSE stack

Push(stack, m) == Newest(Append(stack, m))

Overflows(stack) == Depth > 0 /\ Len(stack) >= Depth

Init == messages = <<>> /\ undo = <<>> /\ redo = <<>> /\ dropped = FALSE

\* A user turn begins, with the message the user wrote.
BeginTurn(m) ==
    /\ undo' = Push(undo, messages) /\ redo' = <<>>
    /\ dropped' = (dropped \/ Overflows(undo))
    /\ messages' = Append(messages, m)

Undo ==
    /\ undo # <<>>
    /\ messages' = Last(undo)
    /\ undo' = Front(undo) /\ redo' = Append(redo, messages)
    /\ UNCHANGED dropped

Redo ==
    /\ redo # <<>>
    /\ messages' = Last(redo)
    /\ redo' = Front(redo) /\ undo' = Push(undo, messages)
    /\ dropped' = (dropped \/ Overflows(undo))

Clear ==
    /\ messages' = <<>> /\ undo' = <<>> /\ redo' = <<>> /\ dropped' = FALSE

\* The transcript changes on its own: a turn adds to it, a compaction or the
\* trimming of tool results rewrites it, /undo without an entry shortens it.
Change == messages' \in Seq(Msgs) /\ UNCHANGED <<undo, redo, dropped>>

Next ==
    \/ \E m \in Msgs : BeginTurn(m)
    \/ Undo \/ Redo \/ Clear \/ Change

Spec == Init /\ [][Next]_vars
=============================================================================
