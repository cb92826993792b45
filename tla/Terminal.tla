------------------------------ MODULE Terminal ------------------------------
(***************************************************************************)
(* What happens between the keyboard and one node of raft-repl: the prompt *)
(* and the commands typed into it (state.rs, command.rs), the history of   *)
(* those commands and the file it is kept in (history.rs, persistence.rs), *)
(* the popup (ui/popup.rs), and the command task of the node, which        *)
(* appends to streams and reads them (node.rs, handler.rs, Streams.tla).   *)
(*                                                                         *)
(* Keys and answers reach the thread of the terminal through one mailbox   *)
(* and interleave freely; the answers keep the order of the commands.  The *)
(* terminal draws after every message, so an action ends with the popup as *)
(* the drawing left it.  Nodes and their servers are in Supervision.tla.   *)
(***************************************************************************)
EXTENDS Streams

CONSTANTS
    Lines,          \* the lines that may be typed, as texts
    Screen          \* what fits into the popup without a scrollbar, per axis

\* What follows restricts the runs, not the code.
CONSTANTS
    MaxEntries,     \* how many lines the history may hold
    MaxCalls,       \* how many commands wait for the task, answers for the user
    MaxAppends      \* how many events are appended

Axis == {"vert", "horiz"}
Newline == "newline"

ASSUME TerminalAssumption ==
    /\ \A line \in Lines : /\ line \in Seq({line[i] : i \in DOMAIN line})
                            /\ line # << >>
                            /\ \A i \in DOMAIN line : line[i] # Newline
    /\ Newline \notin Wide
    /\ Screen \in [Axis -> Nat]
    /\ MaxEntries \in Nat /\ MaxCalls \in Nat /\ MaxAppends \in Nat

VARIABLES
    up,                         \* whether the program runs
    prompt, temp_prompt,        \* State::view.shell, State::temp_prompt
    entries, offset,            \* struct History
    file,                       \* ~/.raft-repl
    popup,                      \* struct Popup
    calls,                      \* the mailbox of the command task
    replies,                    \* its answers in the mailbox of the terminal
    stored,                     \* the payloads of the log of the node
    written, draft              \* history: events appended, the text left behind

shell   == <<prompt, temp_prompt>>
history == <<entries, offset, file>>
task    == <<calls, replies, stored, written>>
vars    == <<up, shell, history, popup, task, draft>>

NoText == << >>

(***************************************************************************)
(* Faults somebody could make in the definitions of the same name; no part *)
(* of the model.                                                           *)
(***************************************************************************)
\* Writes after what the file holds.
FaultyOverwritten(old, new) == old \o new

\* Moves a line that was entered before to the end.
FaultyPushed(lines, line) == Append(SelectSeq(lines, LAMBDA l : l # line), line)

\* Takes the offset for that of the last line.
FaultyAtHead == offset + 1 = Len(entries)

\* Puts the prompt aside on every key.
FaultyKeyUp ==
    /\ up /\ ~popup.shown /\ entries # << >>
    /\ temp_prompt' = prompt
    /\ draft' = IF offset = Len(entries) THEN prompt ELSE draft
    /\ offset' = IF offset >= 1 /\ Len(entries) > 1 THEN offset - 1 ELSE offset
    /\ prompt' = entries[IF offset' = Len(entries) THEN 1 ELSE offset' + 1]
    /\ UNCHANGED <<up, entries, file, popup, task>>

\* Does not saturate.
FaultyBack(p, a) == p.scroll[a] - 1

\* Stays where the last text was scrolled to.
FaultyOpened(size) == [popup EXCEPT !.shown = TRUE, !.size = size]

(***************************************************************************)
(* The history file: one line per entry.                                   *)
(***************************************************************************)
FileText(lines) ==
    FlattenSeq([i \in DOMAIN lines |-> Utf8(Append(lines[i], Newline))])

\* The file is written from its start and keeps what lies beyond.
Overwritten(old, new) == new \o SubSeq(old, Len(new) + 1, Len(old))

\* str::lines: the pieces between newlines, of which the last one may lack its
\* newline.
LinesOf(text) ==
    LET newlines == {i \in DOMAIN text : text[i] = Newline}
        ends == IF text # << >> /\ Len(text) \notin newlines
                THEN newlines \cup {Len(text) + 1} ELSE newlines
        StartOf(k) == IF k = 1 THEN 1 ELSE Nth(ends, k - 1) + 1
    IN  [k \in 1..Cardinality(ends) |-> SubSeq(text, StartOf(k), Nth(ends, k) - 1)]

\* A text that ends within a character is no text.
IsUtf8(bytes) ==
    bytes # << >> /\ Last(bytes)[1] \in Wide => Last(bytes)[2] = 2

Characters(bytes) ==
    LET firsts == SubSeqAt(bytes, {i \in DOMAIN bytes : bytes[i][2] = 1})
    IN  [i \in DOMAIN firsts |-> firsts[i][1]]

(***************************************************************************)
(* The popup.                                                              *)
(***************************************************************************)
Fresh == [a \in Axis |-> 0]

\* What is drawn without a scrollbar is drawn from its start.
Drawn(p) ==
    [p EXCEPT !.scroll = [a \in Axis |-> IF p.shown /\ p.size[a] <= Screen[a]
                                         THEN 0 ELSE p.scroll[a]]]

\* A text of that size, from its start: set_text, and shown.
Opened(size) == Drawn([popup EXCEPT !.shown = TRUE, !.size = size, !.scroll = Fresh])

Back(p, a) == IF p.scroll[a] = 0 THEN 0 ELSE p.scroll[a] - 1

End(p, a) == IF p.size[a] = 0 THEN 0 ELSE p.size[a] - 1

Further(p, a) == IF p.scroll[a] + 1 <= End(p, a) THEN p.scroll[a] + 1 ELSE End(p, a)

Scrolled(p, key) ==
    CASE key = "up"       -> [p EXCEPT !.scroll["vert"] = Back(p, "vert")]
      [] key = "down"     -> [p EXCEPT !.scroll["vert"] = Further(p, "vert")]
      [] key = "pageup"   -> [p EXCEPT !.scroll["vert"] = 0]
      [] key = "pagedown" -> [p EXCEPT !.scroll["vert"] = End(p, "vert")]
      [] key = "left"     -> [p EXCEPT !.scroll["horiz"] = Back(p, "horiz")]
      [] key = "right"    -> [p EXCEPT !.scroll["horiz"] = Further(p, "horiz")]
      [] key = "enter"    -> [p EXCEPT !.shown = FALSE]

\* The sizes of what the popup shows: the message of the parser, the status of
\* a node, and the records of a stream, each of which takes as much room.
ErrorSize  == [vert |-> 2, horiz |-> 2]
StatusSize == [vert |-> 1, horiz |-> 2]
RecordsSize(records) ==
    [vert |-> 2 * Len(records), horiz |-> IF records = << >> THEN 0 ELSE 2]

-----------------------------------------------------------------------------
Init ==
    /\ up = TRUE
    /\ prompt = NoText /\ temp_prompt = NoText
    /\ entries = << >> /\ offset = 0 /\ file = << >>
    /\ popup = [shown |-> FALSE, size |-> Fresh, scroll |-> Fresh]
    /\ calls = << >> /\ replies = << >> /\ stored = << >>
    /\ written = << >> /\ draft = NoText

(***************************************************************************)
(* Keys: State::on_input.  As long as the popup is shown it takes them.    *)
(***************************************************************************)
PopupKey(key) ==
    /\ up /\ popup.shown
    /\ popup' = Drawn(Scrolled(popup, key))
    /\ UNCHANGED <<up, shell, history, task, draft>>

\* Any edit of the prompt, in as many keys as it takes.
Type(line) ==
    /\ up /\ ~popup.shown
    /\ prompt' = line
    /\ UNCHANGED <<up, temp_prompt, history, popup, task, draft>>

AtHead == offset = Len(entries)

\* Of a history of one line the offset stays behind it.
PrevEntry ==
    \/ entries = << >> /\ UNCHANGED <<prompt, offset>>
    \/ /\ Len(entries) = 1 /\ offset = 1
       /\ prompt' = entries[1]
       /\ UNCHANGED offset
    \/ /\ entries # << >> /\ ~(Len(entries) = 1 /\ offset = 1)
       /\ offset' = IF offset >= 1 THEN offset - 1 ELSE offset
       /\ prompt' = entries[offset' + 1]

KeyUp ==
    /\ up /\ ~popup.shown
    /\ temp_prompt' = IF AtHead THEN prompt ELSE temp_prompt
    /\ draft' = IF AtHead THEN prompt ELSE draft
    /\ PrevEntry
    /\ UNCHANGED <<up, entries, file, popup, task>>

\* When there is none the prompt becomes the text put aside, also when nothing
\* was put aside since the last command.
NextEntry ==
    /\ offset' = IF AtHead THEN offset ELSE offset + 1
    /\ prompt' = IF offset' < Len(entries) THEN entries[offset' + 1]
                 ELSE IF temp_prompt # NoText THEN temp_prompt ELSE prompt

KeyDown ==
    /\ up /\ ~popup.shown
    /\ NextEntry
    /\ UNCHANGED <<up, temp_prompt, entries, file, popup, task, draft>>

(***************************************************************************)
(* A command: State::on_command.  The line joins the history, unless it is *)
(* the last one again, and the whole history is written before it runs.    *)
(***************************************************************************)
Pushed(lines, line) ==
    IF lines # << >> /\ Last(lines) = line THEN lines ELSE Append(lines, line)

\* The line is a command to the task of the node.
IsCall(line) ==
    \/ line = <<"status">>
    \/ Len(line) > 1 /\ line[1] \in {"append", "read"}

Enter ==
    /\ up /\ ~popup.shown /\ prompt # NoText /\ prompt # <<"quit">>
    /\ Len(Pushed(entries, prompt)) <= MaxEntries
    /\ entries' = Pushed(entries, prompt)
    /\ offset'  = Len(entries')
    /\ file'    = IF entries' = entries THEN file
                  ELSE Overwritten(file, FileText(entries'))
    /\ prompt'  = NoText
    /\ \/ /\ IsCall(prompt) /\ Len(calls) + Len(replies) < MaxCalls
          /\ calls' = Append(calls, prompt)
          /\ UNCHANGED popup
       \/ /\ ~IsCall(prompt)
          /\ popup' = Opened(ErrorSize)
          /\ UNCHANGED calls
    /\ UNCHANGED <<up, temp_prompt, replies, stored, written, draft>>

\* The program ends, and takes the task with it, every answer, and the node
\* unless that is a process of its own.  Its other variables keep what they were
\* until it starts again.
Leaves ==
    /\ up' = FALSE
    /\ calls' = << >> /\ replies' = << >>
    /\ \/ stored' = << >> /\ written' = << >>
       \/ UNCHANGED <<stored, written>>
    /\ UNCHANGED <<shell, offset, popup, draft>>

Quit ==
    /\ up /\ ~popup.shown /\ prompt = <<"quit">>
    /\ Len(Pushed(entries, prompt)) <= MaxEntries
    /\ entries' = Pushed(entries, prompt)
    /\ file' = IF entries' = entries THEN file
               ELSE Overwritten(file, FileText(entries'))
    /\ Leaves

\* The write of the history fails part of the way, and its unwrap panics.
WriteFails ==
    /\ up /\ ~popup.shown /\ prompt # NoText
    /\ Pushed(entries, prompt) # entries
    /\ Len(Pushed(entries, prompt)) <= MaxEntries
    /\ entries' = Pushed(entries, prompt)
    /\ \E k \in 0..(Len(FileText(entries')) - 1) :
          file' = Overwritten(file, SubSeq(FileText(entries'), 1, k))
    /\ Leaves

\* State::new.  A file that is no text keeps the program from starting.
Start ==
    /\ ~up /\ IsUtf8(file)
    /\ up' = TRUE
    /\ entries' = LinesOf(Characters(file))
    /\ offset' = Len(entries')
    /\ prompt' = NoText /\ temp_prompt' = NoText /\ draft' = NoText
    /\ popup' = [shown |-> FALSE, size |-> Fresh, scroll |-> Fresh]
    /\ UNCHANGED <<file, task>>

(***************************************************************************)
(* The task of the node runs one command after the other to its end.       *)
(***************************************************************************)
TaskAppend ==
    /\ calls # << >> /\ Head(calls)[1] = "append"
    /\ calls' = Tail(calls)
    /\ \/ LET name == Tail(Head(calls))
          IN  /\ Len(written) < MaxAppends
              /\ stored' = OnAppendStream(stored, name, Json(Len(written) + 1))
              /\ written' = Append(written, [name |-> name, event |-> Len(written) + 1])
       \/ UNCHANGED <<stored, written>>     \* not connected, refused, or lost
    /\ UNCHANGED <<up, shell, history, popup, replies, draft>>

TaskRead ==
    /\ calls # << >> /\ Head(calls)[1] = "read"
    /\ calls' = Tail(calls)
    /\ \/ replies' = Append(replies, [type    |-> "stream",
                                     records |-> OnReadStream(stored, Tail(Head(calls)))])
       \/ UNCHANGED replies                 \* an error is a line of the list
    /\ UNCHANGED <<up, shell, history, popup, stored, written, draft>>

\* An answer goes to the popup whether there is a status or not.
TaskStatus ==
    /\ calls # << >> /\ Head(calls) = <<"status">>
    /\ calls' = Tail(calls)
    /\ replies' = Append(replies, [type |-> "status", records |-> << >>])
    /\ UNCHANGED <<up, shell, history, popup, stored, written, draft>>

(***************************************************************************)
(* Answers: on_node_status, on_node_stream_read.  They take over a popup   *)
(* that is shown, and open one in the middle of a line.                    *)
(***************************************************************************)
Shows(size) ==
    /\ replies' = Tail(replies)
    /\ popup' = Opened(size)
    /\ UNCHANGED <<up, shell, history, calls, stored, written, draft>>

Readable(reply) == \A i \in DOMAIN reply.records : IsJson(reply.records[i].payload)

StatusShown ==
    /\ up /\ replies # << >> /\ Head(replies).type = "status"
    /\ Shows(StatusSize)

StreamShown ==
    /\ up /\ replies # << >> /\ Head(replies).type = "stream"
    /\ Readable(Head(replies))
    /\ Shows(RecordsSize(Head(replies).records))

\* serialize_records unwraps: a payload that is not JSON ends the program.
StreamPanics ==
    /\ up /\ replies # << >> /\ Head(replies).type = "stream"
    /\ ~Readable(Head(replies))
    /\ Leaves
    /\ UNCHANGED <<entries, file>>

-----------------------------------------------------------------------------
Next ==
    \/ \E key \in {"up", "down", "pageup", "pagedown", "left", "right", "enter"} :
          PopupKey(key)
    \/ \E line \in Lines \cup {NoText} : Type(line)
    \/ KeyUp \/ KeyDown \/ Enter \/ Quit \/ WriteFails \/ Start
    \/ TaskAppend \/ TaskRead \/ TaskStatus
    \/ StatusShown \/ StreamShown \/ StreamPanics

Spec == Init /\ [][Next]_vars

=============================================================================
