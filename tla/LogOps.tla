------------------------------- MODULE LogOps -------------------------------
(***************************************************************************)
(* The operations of struct Entries (raft-server/src/entry.rs) on their    *)
(* own.  RaftLog defines them with sets, for the provers; here every log   *)
(* that a sequence of updates can produce, whatever the indices and terms  *)
(* it is given, is asked every query, and the answers are compared with    *)
(* those of the loops of the code.                                         *)
(***************************************************************************)
EXTENDS RaftLog

CONSTANTS Indices, Terms,   \* what the entries of the run are made of
          MaxLen            \* how long its logs grow

ASSUME LogOpsAssumption ==
    /\ Indices \subseteq Nat /\ Terms \subseteq Nat /\ MaxLen \in Nat

VARIABLE log

Entries == {[index |-> i, term |-> t, payload |-> [req |-> r, event |-> 1]] :
                i \in Indices, t \in Terms, r \in Request}

Init == log = EmptyLog

Fits(n) == Len(log.inner) + n <= MaxLen

AddOne == Fits(1) /\ \E e \in Entries : log' = AddEach(log, <<e>>)

AppendTwo == Fits(2) /\ \E d, e \in Entries : log' = AppendBatch(log, <<d, e>>)

Remove == \E i \in Indices, t \in Terms :
              log' = RemoveUncommittedEntriesFrom(log, i, t)

Next == AddOne \/ AppendTwo \/ Remove

Spec == Init /\ [][Next]_log

-----------------------------------------------------------------------------
(***************************************************************************)
(* The loops, as functions of the place they have come to: what they       *)
(* return from there on, or what they have collected up to there.          *)
(***************************************************************************)
ContainsLoop(inner, index, term) ==
    LET from[i \in 1..(Len(inner) + 1)] ==
            /\ i <= Len(inner)
            /\ \/ inner[i].index = index /\ inner[i].term = term
               \/ ~(inner[i].index > index) /\ from[i + 1]
    IN  from[1]

RetainLoop(inner, index, term) ==
    LET kept[i \in 0..Len(inner)] ==
            IF i = 0 THEN << >>
            ELSE IF \/ inner[i].index < index
                    \/ inner[i].index >= index /\ inner[i].term = term
            THEN Append(kept[i - 1], inner[i]) ELSE kept[i - 1]
    IN  kept[Len(inner)]

PreviousLoop(inner, ref) ==
    LET seen(i) == IF i = 1 THEN [index |-> 0, term |-> 1]
                   ELSE [index |-> inner[i - 1].index, term |-> inner[i - 1].term]
        from[i \in 1..(Len(inner) + 1)] ==
            IF i > Len(inner) THEN seen(i)
            ELSE IF inner[i].index = ref THEN seen(i) ELSE from[i + 1]
    IN  from[1]

\* count >= max_count is tested after the push.
ReadLoop(inner, index, max) ==
    LET batch[i \in 0..Len(inner)] ==
            IF i = 0 THEN << >>
            ELSE IF \/ inner[i].index <= index
                    \/ batch[i - 1] # << >> /\ Len(batch[i - 1]) >= max
            THEN batch[i - 1] ELSE Append(batch[i - 1], inner[i])
    IN  batch[Len(inner)]

-----------------------------------------------------------------------------
\* contains_log finds what its loop finds, on logs whose indices repeat or
\* fall, where the early break hides entries that are there.
ContainsAsLoop ==
    \A i \in Indices \cup {0}, t \in Terms :
        ContainsLog(log, i, t) <=>
            (i = 0 /\ log.inner = << >>) \/ ContainsLoop(log.inner, i, t)

\* remove_uncommitted_entries_from keeps what its closure retains, in order.
RemoveAsLoop ==
    \A i \in Indices, t \in Terms :
        RemoveUncommittedEntriesFrom(log, i, t).inner = RetainLoop(log.inner, i, t)

\* get_previous_entry stops at the first entry at ref and, when there is none,
\* runs to the end of the log.
PreviousAsLoop ==
    \A i \in Indices \cup {0} :
        GetPreviousEntry(log, i) = PreviousLoop(log.inner, i)

\* read_entries_from returns at most max entries, the first of those beyond
\* the index.
ReadAsLoop ==
    \A i \in Indices \cup {0}, max \in 1..MaxLen :
        ReadEntriesFrom(log, i, max) = ReadLoop(log.inner, i, max)

\* On a log with one entry per index, a leader that sends a peer the entries
\* beyond the reference point of next sends those from next on, and the
\* reference point is one its own log contains (Seeds::send_append_entries).
BatchStartsAtNext ==
    (\A i \in DOMAIN log.inner : log.inner[i].index = i) =>
        \A next \in 1..(Len(log.inner) + 1) :
            LET prev == GetPreviousEntry(log, next)
            IN  /\ prev.index = next - 1
                /\ next > 1 => ContainsLog(log, prev.index, prev.term)
                /\ ReadEntriesFrom(log, prev.index, MaxLen)
                      = SubSeq(log.inner, next, Len(log.inner))

=============================================================================
