----------------------------- MODULE MCTerminal -----------------------------
(***************************************************************************)
(* The lines that are typed for TLC: a command is one character, followed  *)
(* by those of the name of a stream.                                       *)
(***************************************************************************)
EXTENDS TerminalProperties

TypedLines ==
    {<<"append", "a">>, <<"append", "a", "a">>, <<"append", "w", "a">>,
     <<"read", "a">>, <<"read", "w">>, <<"read">>, <<"status">>, <<"quit">>}

Popup == [vert |-> 1, horiz |-> 1]

=============================================================================
