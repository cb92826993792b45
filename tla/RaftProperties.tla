-------------------------- MODULE RaftProperties ---------------------------
(***************************************************************************)
(* What a cluster of raft-server nodes promises, and under which regime.   *)
(*                                                                         *)
(*   - In every regime: the invariants of the first two sections.          *)
(*   - Under a stable leader (one node whose election timeout may fire, no *)
(*     restart): the replication properties, whatever the network loses,   *)
(*     delays, reorders or the ticks repeat.                               *)
(*   - Across changes of leader, in a cluster of three without restarts    *)
(*     whose requests carry a whole log and whose rounds of calls do not   *)
(*     overlap, as long as truncation leaves nothing behind that is in the *)
(*     way of a batch (IndicesAscend): ConfirmedEverywhere and             *)
(*     EverywhereIsForever.  Where it does leave something, see            *)
(*     ConfirmedByMajority.                                                *)
(*   - Under a stable leader whose append calls are answered before its    *)
(*     next tick: the liveness properties, followers being free to crash.  *)
(*                                                                         *)
(* The properties under "Not kept" are what the repository says of this    *)
(* code and the code does not do.                                          *)
(***************************************************************************)
EXTENDS Raft

NodesOK ==
    /\ term         \in [Node -> Nat]
    /\ entries      \in [Node -> Log]
    /\ status       \in [Node -> {"follower", "candidate", "leader"}]
    /\ leader       \in [Node -> Node \cup {None}]
    /\ voted_for    \in [Node -> Node \cup {None, DefaultId}]
    /\ tally        \in [Node -> SUBSET Node]
    /\ commit_index \in [Node -> Nat]
    /\ inflights    \in [Node -> SUBSET [index : Nat, req : Request]]
    /\ alive        \in [Node -> BOOLEAN]
    /\ boots        \in [Node -> Nat]

SeedsOK(index) ==
    /\ index = [n \in Node |-> index[n]]
    /\ \A n \in Node : index[n] \in [Seeds(n) -> Nat]

MessagesOK ==
    /\ IsABag(msgs) /\ DOMAIN msgs \subseteq Message
    /\ \A m \in DOMAIN msgs : m.src # m.dst

RecordsOK ==
    /\ answers \in [Request -> Answer]
    /\ granted \subseteq [voter : Node, candidate : Node, term : Nat]
    /\ led     \subseteq Node \X Nat

\* Every variable holds what its Rust type may hold: in particular no index
\* falls below 0 (saturating_sub in on_append_entries_resp), and a log is made
\* of entries that the clients of this cluster caused.
TypeOK ==
    NodesOK /\ SeedsOK(next_index) /\ SeedsOK(match_index)
            /\ MessagesOK /\ RecordsOK

-----------------------------------------------------------------------------
(***************************************************************************)
(* Elections.                                                              *)
(***************************************************************************)
Opened(t) == t = 0 \/ \E g \in granted : g.candidate = g.voter /\ g.term = t

\* Terms are a clock that only candidates advance: no node and no message is
\* ever in a term that no candidate opened (switch_to_candidate), through the
\* four handlers that take the term of a message and through restarts.
TermsAreOpened ==
    /\ \A n \in Node : Opened(term[n])
    /\ \A m \in DOMAIN msgs : Opened(m.term)
    /\ \A l \in led : Opened(l[2])

\* Until a term has a leader a node that has not restarted gives its vote in
\* that term to one candidate only (on_request_vote), although a refusal in a
\* newer term does not clear the vote of the older one.
VotesOnceUntilLed ==
    \A g, h \in granted :
        (/\ g.voter = h.voter /\ boots[g.voter] = 0
         /\ g.term = h.term /\ g.candidate # h.candidate)
            => \E l \in led : l[2] = g.term

\* Who voted for n in term t, ever.
Voters(n, t) ==
    {v \in Node : [voter |-> v, candidate |-> n, term |-> t] \in granted}

\* Whoever a node counts did vote for it, in this term or in an earlier one:
\* on_vote_received has no term to check a tally against, only the sender's.
TallyWasGranted ==
    \A n \in Node : \A v \in tally[n] :
        \E g \in granted : g.voter = v /\ g.candidate = n /\ g.term <= term[n]

\* A node becomes leader only in a term in which a majority voted for it
\* (have_we_reached_quorum), late, ignored and crossed answers included.
ElectedByMajority ==
    [][\A n \in Node :
          status[n] # "leader" /\ status'[n] = "leader" =>
              2 * Cardinality(Voters(n, term[n])') > Cardinality(Node)]_vars

\* Who voted for n in term t, or in an earlier one.
VotersUpTo(n, t) ==
    {v \in Node : \E g \in granted : g.voter = v /\ g.candidate = n /\ g.term <= t}

\* In a cluster of any size a node becomes leader only after a majority voted
\* for it, in the term of its victory or in an earlier one: the tally outlives
\* its candidacy (on_vote_received, switch_to_candidate), but it is a set of
\* other nodes, each of which did vote for this one.
ElectedUpToTerm ==
    [][\A n \in Node :
          status[n] # "leader" /\ status'[n] = "leader" =>
              2 * Cardinality(VotersUpTo(n, term[n])') > Cardinality(Node)]_vars

Majority == {Q \in SUBSET Node : 2 * Cardinality(Q) > Cardinality(Node)}

Forgetful == {n \in Node : boots[n] > 0}

E == INSTANCE Elections
     WITH Quorum <- Majority,
          votes <- granted, leads <- led, forgetful <- Forgetful

\* Across terms, restarts and answers of every age the election handlers do
\* what Elections.tla promises: nobody votes twice in a term without leader,
\* nobody leads a term without its majority or an earlier leadership, and no
\* term is opened out of turn.
ElectionsAsPromised == E!Spec

-----------------------------------------------------------------------------
(***************************************************************************)
(* Logs.                                                                   *)
(***************************************************************************)

\* No entry comes from a term that its holder has not reached, and none
\* travels in a request of an older term than its own (on_append_entries,
\* on_append_stream): what log comparison in on_request_vote relies on.
EntryTermBound ==
    /\ \A n \in Node : \A i \in DOMAIN entries[n].inner :
          entries[n].inner[i].term <= term[n]
    /\ \A m \in DOMAIN msgs : m.type = "EntriesReq" =>
          \A i \in DOMAIN m.entries : m.entries[i].term <= m.term

LastOf(log) ==
    IF log.inner = << >> THEN [index |-> 0, term |-> 0]
    ELSE [index |-> log.inner[Len(log.inner)].index,
          term  |-> log.inner[Len(log.inner)].term]

\* The last index and term, cached by Entries::append and left stale by
\* remove_uncommitted_entries_from, are right whenever a handler returns.
CacheMatchesLog ==
    \A n \in Node :
        /\ entries[n].last_index = LastOf(entries[n]).index
        /\ entries[n].last_term  = LastOf(entries[n]).term

\* The entry at an index of a log, for a log where there is just one.
Holds(n, e) == \E i \in DOMAIN entries[n].inner : entries[n].inner[i] = e

\* The call a leader owes an answer to is in its own log, at the position it
\* will be told, whatever leaderships came before (inflights, reset).
LeaderHoldsInflights ==
    \A n \in Node : status[n] = "leader" =>
        \A f \in inflights[n] :
            \E i \in DOMAIN entries[n].inner :
                /\ entries[n].inner[i].index = f.index
                /\ entries[n].inner[i].payload.req = f.req

\* A call waits exactly as long as some node still has to answer it.
WaitingIsOwed ==
    \A r \in Request :
        answers[r].state = "waiting" <=>
            \E n \in Node : \E f \in inflights[n] : f.req = r

\* The place of the last event of a call: what its leader still remembers, or
\* what the client was told.
OwedCalls(r) == {f \in UNION {inflights[n] : n \in Node} : f.req = r}

Place(r) == IF answers[r].state = "waiting"
            THEN (CHOOSE f \in OwedCalls(r) : TRUE).index
            ELSE answers[r].position

A == INSTANCE AppendService
     WITH state <- [r \in Request |-> answers[r].state],
          place <- [r \in Request |-> Place(r)]

\* Through elections, repeated requests and restarts, a client is told at most
\* once what became of its call, and the position it is told is the one its
\* events were given when the call was accepted (on_append_stream, inflights).
CallsAsPromised == A!Spec

-----------------------------------------------------------------------------
(***************************************************************************)
(* Replication under a stable leader.                                      *)
(***************************************************************************)

\* The entries of a leader up to the match index of a peer are in the log of
\* that peer (on_append_entries_resp: "Means that node successfully replicated
\* to that point").
MatchIsReplicated ==
    \A n \in Node : status[n] = "leader" =>
        \A s \in Seeds(n) : \A i \in DOMAIN entries[n].inner :
            entries[n].inner[i].index <= match_index[n][s] =>
                Holds(s, entries[n].inner[i])

\* What a client was told is confirmed stays in the log of every node, at the
\* position the client was told: a write is confirmed once the lowest match
\* index reaches it.
ConfirmedEverywhere ==
    \A r \in Request : answers[r].state = "confirmed" =>
        \A n \in Node : \E i \in DOMAIN entries[n].inner :
            /\ entries[n].inner[i].index = answers[r].position
            /\ entries[n].inner[i].payload.req = r

\* A commit index, the leader's own or the one a follower took from it, never
\* covers an entry that some node does not have.
CommittedEverywhere ==
    \A n, s, l \in Node : status[l] = "leader" =>
        \A i \in DOMAIN entries[l].inner :
            entries[l].inner[i].index <= commit_index[n] =>
                Holds(s, entries[l].inner[i])

Held(n) == {entries[n].inner[i] : i \in DOMAIN entries[n].inner}

\* Across changes of leader an entry that every node has got is never dropped
\* again: truncation (remove_uncommitted_entries_from) takes what a deposed
\* leader or its followers have alone, whichever log won the election.
EverywhereIsForever ==
    [][\A e \in UNION {Held(n) : n \in Node} :
          (\A n \in Node : e \in Held(n)) => \A n \in Node : e \in Held(n)']_vars

-----------------------------------------------------------------------------
(***************************************************************************)
(* Liveness under a stable leader.                                         *)
(***************************************************************************)

\* Every call accepted by the leader is answered, if the nodes that stop are
\* started again for good (on_tick, on_append_entries_resp).
CallsAreAnswered ==
    (<>[](\A n \in Node : alive[n])) =>
        \A r \in Request :
            answers[r].state = "waiting" ~> answers[r].state = "confirmed"

\* A follower that starts again with an empty log gets the leader's back, one
\* refused point of reference at a time.
FollowersCatchUp ==
    (<>[](\A n \in Node : alive[n])) =>
        \A l, n \in Node :
            status[l] = "leader" ~> entries[n].inner = entries[l].inner

-----------------------------------------------------------------------------
(***************************************************************************)
(* Not kept: what the repository says and the code does not do.            *)
(***************************************************************************)

\* README.md:2 calls the program Raft: a term has one leader.
ElectionSafety ==
    \A n, s \in Node :
        status[n] = "leader" /\ status[s] = "leader" /\ term[n] = term[s]
            => n = s

\* The nodes that have the last event of call r where its client was told.
Holders(r) ==
    {n \in Node : \E i \in DOMAIN entries[n].inner :
        /\ entries[n].inner[i].index = answers[r].position
        /\ entries[n].inner[i].payload.req = r}

\* on_append_stream: "We need at least 2/n + 1 nodes that have replicated that
\* write to confirm it to the client".
ConfirmedByMajority ==
    [][\A r \in Request :
          answers[r].state = "waiting" /\ answers'[r].state = "confirmed" =>
              2 * Cardinality(Holders(r)') > Cardinality(Node)]_vars

=============================================================================
