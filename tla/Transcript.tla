----------------------------- MODULE Transcript -----------------------------
(***************************************************************************)
(* Messages of a session and the pure operations on a list of them: the    *)
(* repair of a request (session/src/pairing.rs) and the two ways a         *)
(* compaction cuts (session/src/session.rs).                               *)
(*                                                                         *)
(* A message keeps its role, the ids of the calls it makes or answers, and *)
(* a tag that says who wrote it.  Tokens are left out, and of the content  *)
(* of a user's message only whether it has a text.                         *)
(***************************************************************************)
EXTENDS Naturals, SequencesExt, Selection

CONSTANTS
    NoId,       \* stands for the id of a call whose provider sent none
    Wordless    \* the user's messages without a text: images only

\* User-role messages: what the user wrote, what the agent wrote (a recovery
\* hint, a reminder, a job notice), what a compaction left behind.
Prompt(m) == [role |-> "user", kind |-> "prompt", what |-> m]
Note(why) == [role |-> "user", kind |-> "note", why |-> why]
Carrier == [role |-> "user", kind |-> "carrier"]

\* An assistant message makes the calls `ids`, in order; a result answers one.
Assistant(ids) == [role |-> "assistant", ids |-> ids]
Result(id, what) == [role |-> "tool", id |-> id, what |-> what]

\* The block a provider returns for the prefix it compacted.
NativeBlock == Assistant(<<>>)

(***************************************************************************)
(* paired_messages                                                         *)
(***************************************************************************)

\* close_open: every call still open is answered with MISSING_RESULT.
CloseOpen(s) ==
    [s EXCEPT !.out = @ \o [i \in 1..Len(s.open) |-> Result(s.open[i], "missing")],
              !.open = <<>>]

\* The ids but `id`.
Others(ids, id) == Pick(ids, {i \in 1..Len(ids) : ids[i] # id})

\* Mutant: a result nobody asked for is kept.
PairStepKeepAll(s, m) ==
    CASE m.role = "tool" ->
            [s EXCEPT !.out = Append(@, m),
                      !.open = Others(@, m.id)]
      [] m.role = "assistant" ->
            LET c == CloseOpen(s)
            IN  [c EXCEPT !.out = Append(@, m),
                          !.open = Others(m.ids, NoId),
                          !.lenient = NoId \in ToSet(m.ids)]
      [] m.role = "user" ->
            LET c == CloseOpen(s)
            IN  [c EXCEPT !.out = Append(@, m), !.lenient = FALSE]

\* Mutant: a result that follows a call without an id is dropped.
PairStepStrict(s, m) ==
    CASE m.role = "tool" ->
            [s EXCEPT !.out = IF m.id \in ToSet(s.open)
                              THEN Append(@, m) ELSE @,
                      !.open = Others(@, m.id)]
      [] m.role = "assistant" ->
            LET c == CloseOpen(s)
            IN  [c EXCEPT !.out = Append(@, m),
                          !.open = Others(m.ids, NoId)]
      [] m.role = "user" ->
            LET c == CloseOpen(s) IN [c EXCEPT !.out = Append(@, m)]

\* One message of the walk: a result is kept when it answers an open call (or
\* follows a call without an id), anything else first closes the open calls.
PairStep(s, m) ==
    CASE m.role = "tool" ->
            [s EXCEPT !.out = IF m.id \in ToSet(s.open) \/ s.lenient
                              THEN Append(@, m) ELSE @,
                      !.open = Others(@, m.id)]
      [] m.role = "assistant" ->
            LET c == CloseOpen(s)
            IN  [c EXCEPT !.out = Append(@, m),
                          !.open = Others(m.ids, NoId),
                          !.lenient = NoId \in ToSet(m.ids)]
      [] m.role = "user" ->
            LET c == CloseOpen(s)
            IN  [c EXCEPT !.out = Append(@, m), !.lenient = FALSE]

\* The walk after 0, 1, ... messages.
Walk(msgs) ==
    LET walk[n \in 0..Len(msgs)] ==
            IF n = 0 THEN [out |-> <<>>, open |-> <<>>, lenient |-> FALSE]
            ELSE PairStep(walk[n - 1], msgs[n])
    IN  walk

\* The messages a request carries.
PairedMessages(msgs) == CloseOpen(Walk(msgs)[Len(msgs)]).out

(***************************************************************************)
(* Compaction.                                                             *)
(***************************************************************************)

\* is_carrier
IsCarrier(m) == m.role = "user" /\ m.kind = "carrier"

\* Mutant: a tool result counts as a user turn.
RealUserTurnOrResult(m) ==
    m.role = "tool" \/ (m.role = "user" /\ m.kind = "prompt")

\* A message the user wrote, not a carrier and not a note of the agent.
RealUserTurn(m) == m.role = "user" /\ m.kind = "prompt"

\* last_real_user_index; 0 when there is none.
LastRealUser(msgs) ==
    Max({0} \cup {i \in 1..Len(msgs) : RealUserTurn(msgs[i])})

\* content.as_text() of a user's message is Some.
HasText(m) == m.what \notin Wordless

\* Mutant: the carrier of the pass before is kept.
FullReplaceKeepCarrier(msgs) ==
    LET at == LastRealUser(msgs)
        kept == {i \in at..Len(msgs) : at # 0 /\ (i = at => HasText(msgs[at]))}
    IN  IF msgs = <<>> THEN <<>> ELSE Append(Pick(msgs, kept), Carrier)

\* apply_full_replace: the text of the last user turn, if it has one, what
\* followed it without the carrier of an earlier pass, and the new carrier.
FullReplace(msgs) ==
    LET at == LastRealUser(msgs)
        kept == {i \in at..Len(msgs) : /\ at # 0 /\ ~IsCarrier(msgs[i])
                                       /\ i = at => HasText(msgs[at])}
    IN  IF msgs = <<>> THEN <<>> ELSE Append(Pick(msgs, kept), Carrier)

\* native_compaction_prefix: something precedes the last user turn, and just
\* before it is an assistant reply without a call.
NativeCut(msgs) ==
    LET at == LastRealUser(msgs)
    IN  /\ at > 1
        /\ msgs[at - 1].role = "assistant"
        /\ msgs[at - 1].ids = <<>>

\* apply_native_compaction: the provider's block instead of that prefix.
NativeReplace(msgs) ==
    <<NativeBlock>> \o SubSeq(msgs, LastRealUser(msgs), Len(msgs))

(***************************************************************************)
(* What a strict provider accepts, stated without the walk.                *)
(***************************************************************************)

\* Positions of the results that follow the assistant message at `i`.
ResultsAfter(msgs, i) ==
    {k \in (i + 1)..Len(msgs) : \A n \in (i + 1)..k : msgs[n].role = "tool"}

\* Every call with an id is answered by exactly one result right after its
\* message, and every result answers such a call, or follows a call without id.
Accepted(msgs) ==
    /\ \A i \in 1..Len(msgs) :
         msgs[i].role = "assistant" =>
            \A id \in ToSet(msgs[i].ids) \ {NoId} :
                \E k \in ResultsAfter(msgs, i) : msgs[k].id = id
    /\ \A k \in 1..Len(msgs) :
         msgs[k].role = "tool" =>
            \E i \in 1..(k - 1) :
                /\ msgs[i].role = "assistant"
                /\ k \in ResultsAfter(msgs, i)
                /\ \/ NoId \in ToSet(msgs[i].ids)
                   \/ /\ msgs[k].id \in ToSet(msgs[i].ids)
                      /\ \A n \in ResultsAfter(msgs, i) :
                            msgs[n].id = msgs[k].id => n = k
=============================================================================
