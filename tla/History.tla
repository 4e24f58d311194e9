------------------------------ MODULE History -------------------------------
(***************************************************************************)
(* SessionHistory (crates/session/src/history.rs): the /undo and /redo     *)
(* stacks of a session.  An entry does not hold the transcript, it names a *)
(* prefix of a message log that entries share; a log is cut and extended   *)
(* as long as no entry reads past the cut.  The working tree is left out.  *)
(*                                                                         *)
(* Store ids only grow and the newest log is never collected, so the last  *)
(* of `stores` is the one with the id `next_store`.                        *)
(***************************************************************************)
EXTENDS Naturals, SequencesExt

CONSTANTS
    Depth,      \* undo_depth, 0 for unlimited
    UserMsgs,   \* messages of the user
    OtherMsgs,  \* replies and tool results
    MaxLen,     \* bound: messages of a transcript
    MaxStores   \* bound: logs ever started

ASSUME HistoryAssumption ==
    /\ {Depth, MaxLen, MaxStores} \subseteq Nat
    /\ UserMsgs \cap OtherMsgs = {}

Msgs == UserMsgs \cup OtherMsgs

VARIABLES
    messages,    \* Session.messages
    undo_stack, redo_stack,     \* snapshots [store, len]
    stores,      \* the logs kept, by id
    next_store, dropped

vars == <<messages, undo_stack, redo_stack, stores, next_store, dropped>>

\* messages_of: the prefix the snapshot names, nothing if its log is gone.
MessagesOf(snap) ==
    IF snap.store \in DOMAIN stores /\ snap.len <= Len(stores[snap.store])
    THEN SubSeq(stores[snap.store], 1, snap.len) ELSE <<>>

\* How many messages the newest log and the transcript share at their start.
Shared ==
    Max({n \in 0..Len(messages) :
        /\ n <= Len(stores[next_store])
        /\ \A i \in 1..n : stores[next_store][i] = messages[i]})

\* Mutant: the entries that can be redone are forgotten.
NeededUndo(undo, redo) ==
    Max({0} \cup {s.len : s \in {s \in ToSet(undo) :
                                        s.store = next_store}})

\* How far the entries that stay read in the newest log.
Needed(undo, redo) ==
    Max({0} \cup {s.len : s \in {s \in ToSet(undo) \cup ToSet(redo) :
                                        s.store = next_store}})

\* capture extends the newest log.
Extends(undo, redo) ==
    next_store \in DOMAIN stores /\ Shared >= Needed(undo, redo)

\* The id of the log capture writes to.
Target(undo, redo) == IF Extends(undo, redo) THEN next_store ELSE next_store + 1

\* The snapshot capture returns, given the entries that stay.
Captured(undo, redo) == [store |-> Target(undo, redo), len |-> Len(messages)]

\* The log it writes: cut to the shared messages and extended, or a new copy.
CapturedLog(undo, redo) ==
    IF Extends(undo, redo)
    THEN SubSeq(stores[next_store], 1, Shared)
           \o SubSeq(messages, Shared + 1, Len(messages))
    ELSE messages

\* push_undo: beyond the depth the oldest entries are dropped.
PushUndo(undo, snap) ==
    LET all == Append(undo, snap)
    IN  IF Depth > 0 /\ Len(all) > Depth
        THEN SubSeq(all, Len(all) - Depth + 1, Len(all)) ELSE all

\* Mutant: no log is ever collected.
LogsUsedAll(undo, redo) == DOMAIN stores

\* gc: the logs some entry reads.
LogsUsed(undo, redo) == {s.store : s \in ToSet(undo) \cup ToSet(redo)}

\* capture with the entries `undo` and `redo`, then the stacks become `undo2`
\* and `redo2`, then gc.
Record(undo, redo, undo2, redo2) ==
    LET target == Target(undo, redo)
        log == CapturedLog(undo, redo)
        kept == ((DOMAIN stores \cup {target}) \cap LogsUsed(undo2, redo2))
                    \cup {target}
    IN  /\ target <= MaxStores
        /\ undo_stack' = undo2 /\ redo_stack' = redo2
        /\ stores' = [id \in kept |-> IF id = target THEN log ELSE stores[id]]
        /\ next_store' = target

(***************************************************************************)
(* Operations.                                                             *)
(***************************************************************************)

Init ==
    /\ messages = <<>> /\ undo_stack = <<>> /\ redo_stack = <<>>
    /\ stores = <<>> /\ next_store = 0 /\ dropped = FALSE

\* push_before_turn, then the user's message is added (record_user_turn).
BeginTurn(m) ==
    LET undo == PushUndo(undo_stack, Captured(undo_stack, <<>>))
    IN  /\ Len(messages) < MaxLen
        /\ Record(undo_stack, <<>>, undo, <<>>)
        /\ dropped' = (dropped \/ Len(undo) <= Len(undo_stack))
        /\ messages' = Append(messages, m)

\* The turn adds a message.
AddMessage(m) ==
    /\ Len(messages) < MaxLen
    /\ messages' = Append(messages, m)
    /\ UNCHANGED <<undo_stack, redo_stack, stores, next_store, dropped>>

\* Tool results are truncated, spilled, pruned or shaken where they are.
Rewrite(i, m) ==
    /\ i \in 1..Len(messages) /\ messages[i] \in OtherMsgs
    /\ messages' = [messages EXCEPT ![i] = m]
    /\ UNCHANGED <<undo_stack, redo_stack, stores, next_store, dropped>>

\* A compaction replaces the messages before the last k.
Compact(k, m) ==
    /\ k \in 0..(Len(messages) - 1)
    /\ messages' = <<m>> \o
                     SubSeq(messages, Len(messages) - k + 1, Len(messages))
    /\ UNCHANGED <<undo_stack, redo_stack, stores, next_store, dropped>>

\* undo: the entry's transcript is copied out before the log is reused.
Undo ==
    LET snap == Last(undo_stack)
        undo == Front(undo_stack)
        redo == Append(redo_stack, Captured(undo, redo_stack))
    IN  /\ undo_stack # <<>>
        /\ messages' = MessagesOf(snap)
        /\ Record(undo, redo_stack, undo, redo)
        /\ UNCHANGED dropped

\* redo
Redo ==
    LET snap == Last(redo_stack)
        redo == Front(redo_stack)
        undo == PushUndo(undo_stack, Captured(undo_stack, redo))
    IN  /\ redo_stack # <<>>
        /\ messages' = MessagesOf(snap)
        /\ Record(undo_stack, redo, undo, redo)
        /\ dropped' = (dropped \/ Len(undo) <= Len(undo_stack))

\* /undo without an entry, and none dropped: the last user message and what
\* follows it are removed (undo_last_turn).
UndoLastTurn ==
    LET at == {i \in 1..Len(messages) : messages[i] \in UserMsgs}
    IN  /\ undo_stack = <<>> /\ ~dropped /\ at # {}
        /\ messages' = SubSeq(messages, 1, Max(at) - 1)
        /\ UNCHANGED <<undo_stack, redo_stack, stores, next_store, dropped>>

\* /new, or another session is loaded: every entry is forgotten.
Clear ==
    /\ messages' = <<>> /\ undo_stack' = <<>> /\ redo_stack' = <<>>
    /\ stores' = <<>> /\ next_store' = 0 /\ dropped' = FALSE

Next ==
    \/ \E m \in UserMsgs : BeginTurn(m)
    \/ \E m \in OtherMsgs : AddMessage(m)
    \/ \E i \in 1..MaxLen, m \in OtherMsgs : Rewrite(i, m)
    \/ \E k \in 0..MaxLen, m \in UserMsgs : Compact(k, m)
    \/ Undo \/ Redo \/ UndoLastTurn \/ Clear

Spec == Init /\ [][Next]_vars

(***************************************************************************)
(* Properties.                                                             *)
(***************************************************************************)

Snapshots == [store : 1..MaxStores, len : 0..MaxLen]

\* Every variable has the type its code declares.
TypeOK ==
    /\ ToSet(messages) \subseteq Msgs /\ Len(messages) <= MaxLen
    /\ ToSet(undo_stack) \cup ToSet(redo_stack) \subseteq Snapshots
    /\ DOMAIN stores \subseteq 1..next_store /\ next_store \in 0..MaxStores
    /\ dropped \in BOOLEAN

\* The logs that are kept hold no more than the entries read and the newest one:
\* memory does not grow with the turns that were undone or dropped.
LogsBounded ==
    /\ Cardinality(DOMAIN stores) <= Len(undo_stack) + Len(redo_stack) + 1
    /\ Depth > 0 => Len(undo_stack) + Len(redo_stack) <= Depth

Transcripts(stack) == [i \in 1..Len(stack) |-> MessagesOf(stack[i])]

\* The entries stand for whole transcripts: sharing and reusing logs never
\* shows, whatever rewrites the transcript between two turns.
Stacks ==
    INSTANCE UndoStacks WITH undo <- Transcripts(undo_stack),
                             redo <- Transcripts(redo_stack)

ImplementsStacks == Stacks!Spec
=============================================================================
