------------------------------ MODULE Streams ------------------------------
(***************************************************************************)
(* How an event of a stream is kept in the payload of a log entry, and how *)
(* a stream is read back: on_append_stream and on_read_stream of           *)
(* raft-server/src/machine.rs.  The length in front of the stream id       *)
(* counts its characters, and the reader takes that many bytes.            *)
(*                                                                         *)
(* A text is the sequence of its characters, and a byte is the character   *)
(* it belongs to together with its place in it.                            *)
(***************************************************************************)
EXTENDS Positions, SequencesExt

CONSTANT Wide           \* the characters that take two bytes, not one

BytesOf(c) == IF c \in Wide THEN <<<<c, 1>>, <<c, 2>>>> ELSE <<<<c, 1>>>>

Utf8(text) == FlattenSeq([i \in DOMAIN text |-> BytesOf(text[i])])

\* The n-th JSON value that was sent, one byte for what it is here.
Json(n) == <<<<"json", n>>>>

IsJson(bytes) == Len(bytes) = 1 /\ bytes[1][1] = "json"

(***************************************************************************)
(* Faults somebody could make in the definitions of the same name; no part *)
(* of the model.                                                           *)
(***************************************************************************)
\* Numbers the events by their place in the log.
FaultyOnReadStream(log, name) ==
    LET own == {i \in DOMAIN log :
                    SubSeq(log[i].bytes, 1, log[i].length) = Utf8(name)}
        read == SubSeqAt(log, own)
    IN  [k \in DOMAIN read |->
            [revision |-> Nth(own, k) - 1,
             payload  |-> SubSeq(read[k].bytes, read[k].length + 1, Len(read[k].bytes))]]

(***************************************************************************)
(* The two handlers.                                                       *)
(***************************************************************************)
OnAppendStream(log, name, event) ==
    Append(log, [length |-> Len(name), bytes |-> Utf8(name) \o event])

\* Every event the log has under that id, numbered from 0.
OnReadStream(log, name) ==
    LET own == SubSeqAt(log, {i \in DOMAIN log :
                    SubSeq(log[i].bytes, 1, log[i].length) = Utf8(name)})
    IN  [i \in DOMAIN own |->
            [revision |-> i - 1,
             payload  |-> SubSeq(own[i].bytes, own[i].length + 1, Len(own[i].bytes))]]

=============================================================================
