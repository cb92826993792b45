------------------------- MODULE TerminalProperties -------------------------
(***************************************************************************)
(* What the user of raft-repl may rely on between the prompt, the history  *)
(* file and the streams of a node.                                         *)
(***************************************************************************)
EXTENDS Terminal

Char == {Newline} \cup UNION {{line[i] : i \in DOMAIN line} : line \in Lines}
Text == Seq(Char)
Byte == (Char \X {1, 2}) \cup UNION {{<<"json", n>>} : n \in 1..MaxAppends}

\* Every variable holds what its Rust type may hold; of a text that is loaded
\* from a file nothing is left that is not a character of a line.
TypeOK ==
    /\ up \in BOOLEAN
    /\ {prompt, temp_prompt, draft} \subseteq Text
    /\ entries \in Seq(Text) /\ offset \in Nat
    /\ file \in Seq(Byte)
    /\ popup \in [shown : BOOLEAN, size : [Axis -> Nat], scroll : [Axis -> Nat]]
    /\ calls \in Seq(Text)
    /\ \A i \in DOMAIN replies : replies[i].type \in {"status", "stream"}
    /\ \A i \in DOMAIN stored : stored[i].bytes \in Seq(Byte)
                                /\ stored[i].length \in 0..Len(stored[i].bytes)
    /\ written \in Seq([name : Text, event : Nat])

-----------------------------------------------------------------------------
(***************************************************************************)
(* The history.                                                            *)
(***************************************************************************)

\* The offset never leaves the history ("My maintainer miscalculated the
\* history offset", history.rs:71 and history.rs:89), through any sequence of
\* commands, moves, failed writes and restarts.
OffsetInHistory == offset <= Len(entries)

\* While the program runs the file has the lines of the history and nothing
\* else, although it is overwritten in place and never truncated (persist): at
\* most the last newline is missing, since a write that failed.
FileHoldsHistory ==
    up => FileText(entries) \in {file, file \o BytesOf(Newline)}

\* A program that starts again finds the lines of the last one, of which only
\* the end may be missing: the last lines, and the rest of the one before them.
RestartLosesOnlyTheEnd ==
    [][~up /\ up' =>
          /\ Len(entries') <= Len(entries)
          /\ \A i \in DOMAIN entries' :
                IF i < Len(entries') THEN entries'[i] = entries[i]
                ELSE IsPrefix(entries'[i], entries[i])]_vars

\* Walking back to the end of the history brings back the text that was in the
\* prompt when the walk began, whatever was edited or answered on the way
\* (temp_prompt in on_input), if there was one.
DraftComesBack ==
    [][offset < Len(entries) /\ offset' = Len(entries) /\ up' /\ prompt' # NoText
          /\ draft # NoText => prompt' = draft]_vars

-----------------------------------------------------------------------------
(***************************************************************************)
(* The popup and the streams.                                              *)
(***************************************************************************)

\* The popup never shows what lies beyond its text, whichever text it was
\* scrolled in before (Popup::on_input, set_text).
ScrollWithinText ==
    popup.shown => \A a \in Axis : popup.scroll[a] <= End(popup, a)

\* A stream whose id has one-byte characters only is read back as it was
\* written: its own events, in order, with nothing of the streams whose ids
\* have longer characters (on_append_stream, on_read_stream).
StreamsReadBack ==
    \A name \in {Tail(line) : line \in Lines} :
        (\A i \in DOMAIN name : name[i] \notin Wide) =>
            LET own == SubSeqAt(written, {i \in DOMAIN written :
                                             written[i].name = name})
            IN  OnReadStream(stored, name) =
                   [i \in DOMAIN own |-> [revision |-> i - 1,
                                          payload  |-> Json(own[i].event)]]

=============================================================================
