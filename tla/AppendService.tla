---------------------------- MODULE AppendService ----------------------------
(***************************************************************************)
(* What the append calls of the clients are promised, without logs, nodes  *)
(* or messages: a call that is accepted gets a place once and for all, it  *)
(* is answered at most once, and an answer names the place it got.         *)
(***************************************************************************)
EXTENDS Naturals

CONSTANT Request

VARIABLES
    state,          \* of every call
    place           \* the place in the log of the last event of every call

callVars == <<state, place>>

Init ==
    /\ state = [r \in Request |-> "unsent"]
    /\ place = [r \in Request |-> 0]

\* The call gets a place, and either waits for an answer or has it at once.
Accept(r) ==
    /\ state[r] = "unsent"
    /\ \E s \in {"waiting", "confirmed"} : state' = [state EXCEPT ![r] = s]
    /\ place' \in [Request -> Nat]
    /\ \A q \in Request \ {r} : place'[q] = place[q]

Refuse(r) ==
    /\ state[r] = "unsent"
    /\ state' = [state EXCEPT ![r] = "refused"]
    /\ UNCHANGED place

\* Some of the calls that wait are answered, all in the same way.
Settle(answer) ==
    \E S \in SUBSET {r \in Request : state[r] = "waiting"} :
        /\ state' = [r \in Request |-> IF r \in S THEN answer ELSE state[r]]
        /\ UNCHANGED place

Next ==
    \/ \E r \in Request : Accept(r) \/ Refuse(r)
    \/ \E answer \in {"confirmed", "refused", "lost"} : Settle(answer)

Spec == Init /\ [][Next]_callVars

=============================================================================
