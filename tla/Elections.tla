------------------------------ MODULE Elections ------------------------------
(***************************************************************************)
(* What an election of a cluster promises, without logs, messages, tallies *)
(* or time: votes are cast once per term, a quorum that votes for one node *)
(* makes it the leader of that term.  Two clauses say what this cluster    *)
(* promises less than Raft does: a voter that has been started again, or   *)
(* whose term already has a leader, may vote a second time, and a leader   *)
(* that hears of a later term may go on leading in it.                     *)
(***************************************************************************)
EXTENDS Naturals

CONSTANTS
    Node,
    Quorum          \* the sets of nodes whose votes make a leader

VARIABLES
    votes,          \* the votes ever cast
    leads,          \* who ever led which term
    forgetful       \* the nodes that do not remember what they did

electionVars == <<votes, leads, forgetful>>

Ballot(v, c, t) == [voter |-> v, candidate |-> c, term |-> t]

Init ==
    /\ votes = {} /\ forgetful = {}
    /\ leads = IF \E n \in Node : Node = {n} THEN Node \X {0} ELSE {}

\* v may vote for c in term t.
MayVote(v, c, t) ==
    \/ v \in forgetful
    \/ \E l \in leads : l[2] = t
    \/ \A g \in votes : g.voter = v /\ g.term = t => g.candidate = c

Cast(v, c, t) ==
    /\ MayVote(v, c, t)
    /\ votes' = votes \cup {Ballot(v, c, t)}
    /\ UNCHANGED <<leads, forgetful>>

\* A candidate opens the first term, or the one after an opened term, by the
\* vote it gives itself.
Candidacy(n) == \E t \in {1} \cup {g.term + 1 : g \in votes} : Cast(n, n, t)

\* A vote goes to a candidate of the term.
Vote(v) == \E g \in votes : g.voter = g.candidate /\ Cast(v, g.candidate, g.term)

VotersOf(n, t) == {v \in Node : Ballot(v, n, t) \in votes}

Win(n) ==
    \E g \in votes :
        /\ VotersOf(n, g.term) \in Quorum
        /\ leads' = leads \cup {<<n, g.term>>}
        /\ UNCHANGED <<votes, forgetful>>

\* A leader is not deposed by a candidate it does not vote for.
CarryOn(n) ==
    \E l \in leads, g \in votes :
        /\ l[1] = n /\ l[2] < g.term
        /\ leads' = leads \cup {<<n, g.term>>}
        /\ UNCHANGED <<votes, forgetful>>

Forget(n) ==
    /\ forgetful' = forgetful \cup {n}
    /\ UNCHANGED <<votes, leads>>

Next == \E n \in Node :
            Candidacy(n) \/ Vote(n) \/ Win(n) \/ CarryOn(n) \/ Forget(n)

Spec == Init /\ [][Next]_electionVars

=============================================================================
