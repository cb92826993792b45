------------------------------ MODULE RaftLog ------------------------------
(***************************************************************************)
(* The in-memory log of a node: struct Entries of raft-server/src/entry.rs *)
(* A log is the vector of entries together with the index and the term of  *)
(* its last entry, which the code caches in two fields of their own.       *)
(*                                                                         *)
(* The code never checks that the indices of the vector grow, and a vector *)
(* whose indices do not grow is reachable, so every operator below is      *)
(* defined for an arbitrary sequence of entries and follows the order in   *)
(* which the loop of the code looks at it.  None of them is recursive:     *)
(* LogOps.tla checks them against the loops they stand for.                *)
(***************************************************************************)
EXTENDS Positions

CONSTANT Request        \* the client calls that bring events

\* The bytes of an entry, which the log never looks at: the event-th event of
\* the client call req.
Payload == [req : Request, event : Nat]

Entry == [index : Nat, term : Nat, payload : Payload]

Log == [inner : Seq(Entry), last_index : Nat, last_term : Nat]

\* Entries::default()
EmptyLog == [inner |-> << >>, last_index |-> 0, last_term |-> 0]

(***************************************************************************)
(* Faults somebody could make in the definitions of the same name.  They   *)
(* are not part of the model: substituted one at a time, each breaks the   *)
(* property that PROJECT.json pairs it with.                               *)
(***************************************************************************)
\* Leaves the cached index and term as they were.
FaultyAppendBatch(log, batch) == [log EXCEPT !.inner = @ \o batch]

\* Keeps the reference point itself whatever its term is.
FaultyRemoveUncommittedEntriesFrom(log, index, term) ==
    LET kept == {i \in DOMAIN log.inner :
                    \/ log.inner[i].index <= index
                    \/ log.inner[i].term = term}
    IN  [log EXCEPT !.inner = SubSeqAt(log.inner, kept)]

\* Does not let an empty log share the reference point 0.
FaultyContainsLog(log, index, term) ==
    \E i \in DOMAIN log.inner :
       /\ log.inner[i].index = index /\ log.inner[i].term = term
       /\ \A j \in 1..(i - 1) : log.inner[j].index <= index

\* Takes the entry at ref itself when it is the first one.
FaultyGetPreviousEntry(log, ref) ==
    IF log.inner = << >>
    THEN [index |-> 0, term |-> 1]
    ELSE LET hits == {i \in DOMAIN log.inner : log.inner[i].index = ref}
             at == IF hits = {} THEN Len(log.inner)
                   ELSE CHOOSE i \in hits : \A j \in hits : i <= j
         IN  [index |-> log.inner[IF at = 1 THEN 1 ELSE at - 1].index,
              term  |-> log.inner[IF at = 1 THEN 1 ELSE at - 1].term]

\* Reads the entry at index too.
FaultyReadEntriesFrom(log, index, max) ==
    LET found == SubSeqAt(log.inner,
                          {i \in DOMAIN log.inner : log.inner[i].index >= index})
    IN  SubSeq(found, 1, IF Len(found) < max THEN Len(found) ELSE max)

(***************************************************************************)
(* Updates.                                                                *)
(***************************************************************************)
\* Entries::append; the code asserts that the batch is not empty.
AppendBatch(log, batch) ==
    [inner      |-> log.inner \o batch,
     last_index |-> batch[Len(batch)].index,
     last_term  |-> batch[Len(batch)].term]

\* Entries::add, once for each of the entries in turn.
AddEach(log, batch) == IF batch = << >> THEN log ELSE AppendBatch(log, batch)

\* Keeps what precedes index and whatever has the term of the reference
\* point.  The cached last index and term are not refreshed.
RemoveUncommittedEntriesFrom(log, index, term) ==
    LET kept == {i \in DOMAIN log.inner :
                    \/ log.inner[i].index < index
                    \/ log.inner[i].term = term}
    IN  [log EXCEPT !.inner = SubSeqAt(log.inner, kept)]

(***************************************************************************)
(* Queries.                                                                *)
(***************************************************************************)

\* The loop gives up at the first entry beyond index.
ContainsLog(log, index, term) ==
    \/ index = 0 /\ log.inner = << >>
    \/ \E i \in DOMAIN log.inner :
          /\ log.inner[i].index = index
          /\ log.inner[i].term = term
          /\ \A j \in 1..(i - 1) : log.inner[j].index <= index

\* The entry the loop saw just before the first one whose index is ref, and
\* the last entry when there is none; (0, 1) when it saw none at all.
GetPreviousEntry(log, ref) ==
    LET hits == {i \in DOMAIN log.inner : log.inner[i].index = ref}
        stop == IF hits = {} THEN Len(log.inner) + 1
                ELSE CHOOSE i \in hits : \A j \in hits : i <= j
    IN  IF stop = 1
        THEN [index |-> 0, term |-> 1]
        ELSE [index |-> log.inner[stop - 1].index,
              term  |-> log.inner[stop - 1].term]

\* At most max entries beyond index, in the order of the vector.
ReadEntriesFrom(log, index, max) ==
    LET found == SubSeqAt(log.inner,
                          {i \in DOMAIN log.inner : log.inner[i].index > index})
    IN  SubSeq(found, 1, IF Len(found) < max THEN Len(found) ELSE max)

=============================================================================
