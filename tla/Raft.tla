-------------------------------- MODULE Raft --------------------------------
(***************************************************************************)
(* A cluster of raft-server nodes: the state machine thread of every node  *)
(* (raft-server/src/machine.rs), its view of its peers (seed.rs) and the   *)
(* remote calls in flight between them (seed.rs, grpc.rs).                 *)
(*                                                                         *)
(* The thread of a node takes one message at a time from its mailbox and   *)
(* runs the handler to its end, so a handler is one action.  Every remote  *)
(* call runs in a task of its own, so calls and answers overtake one       *)
(* another freely: msgs is a bag, from which any message may be next.      *)
(* A message is handled at most once, but a leader sends the same request  *)
(* again on every tick, and the bag counts the copies.                     *)
(*                                                                         *)
(* Time is abstracted: an election timeout may fire at any moment.         *)
(***************************************************************************)
EXTENDS RaftLog, Bags

CONSTANTS
    Node,           \* the members of the cluster, each configured with all
    None,           \* Option::None
    DefaultId,      \* NodeId::default(), the persistent.id of every node
    BatchSizes,     \* how many events a client call may carry
    MaxBatch        \* entries per append request: 500 in seed.rs

\* What follows restricts the runs, not the code.
CONSTANTS
    CanTimeout,     \* the nodes whose election timeout may fire
    CanStop,        \* the nodes that may be stopped and started again
    Lossy,          \* whether a message may be lost between two live nodes
    MaxTerm,        \* no election starts at this term
    MaxLogLen,      \* no log grows beyond this length
    MaxBacklog,     \* no tick acts while more messages are in flight
    MaxRestarts     \* how many times each of them may be stopped

ASSUME NodeAssumption ==
    /\ IsFiniteSet(Node) /\ Cardinality(Node) % 2 = 1
    /\ None \notin Node /\ DefaultId \notin Node /\ None # DefaultId

ASSUME BoundsAssumption ==
    /\ BatchSizes \subseteq Nat
    /\ MaxBatch \in Nat \ {0}
    /\ CanTimeout \subseteq Node /\ CanStop \subseteq Node
    /\ Lossy \in BOOLEAN
    /\ MaxTerm \in Nat /\ MaxLogLen \in Nat
    /\ MaxBacklog \in Nat /\ MaxRestarts \in Nat

VARIABLES
    term, entries,                          \* struct Persistent
    status, leader, voted_for, tally,       \* struct Volatile: election
    next_index, match_index,                \* struct Seed, per peer
    commit_index, inflights,                \* struct Volatile: replication
    alive, boots,                           \* the thread of the node
    msgs,                                   \* the remote calls in flight
    answers,                                \* what each client was told
    granted, led                            \* history: votes and leaders

persistent  == <<term, entries>>
election    == <<status, leader, voted_for, tally>>
replication == <<next_index, match_index, commit_index, inflights>>
process     == <<alive, boots>>
history     == <<granted, led>>
vars == <<persistent, election, replication, process, msgs, answers, history>>

Seeds(n) == Node \ {n}

(***************************************************************************)
(* Messages.  boot tells the runs of the calling node apart: an answer to  *)
(* a call made by a thread that has ended finds no mailbox.  Of an append  *)
(* answer batch_end is not sent: it is what the calling task remembers of  *)
(* its request, 0 standing for None.                                       *)
(***************************************************************************)
VoteReq ==
    [type : {"VoteReq"}, src : Node, dst : Node, boot : Nat, term : Nat,
     last_log_index : Nat, last_log_term : Nat]

VoteResp ==
    [type : {"VoteResp"}, src : Node, dst : Node, boot : Nat, term : Nat,
     vote_granted : BOOLEAN]

EntriesReq ==
    [type : {"EntriesReq"}, src : Node, dst : Node, boot : Nat, term : Nat,
     prev_log_index : Nat, prev_log_term : Nat, leader_commit : Nat,
     entries : Seq(Entry)]

EntriesResp ==
    [type : {"EntriesResp"}, src : Node, dst : Node, boot : Nat, term : Nat,
     success : BOOLEAN, batch_end : Nat]

Message == VoteReq \cup VoteResp \cup EntriesReq \cup EntriesResp

IsRequest(m) == m.type \in {"VoteReq", "EntriesReq"}

Send(S)       == msgs (+) SetToBag(S)
Without(m)    == msgs (-) SetToBag({m})
Reply(m, r)   == Without(m) (+) SetToBag({r})

\* m has reached the mailbox of a running thread that still waits for it.
Received(m, type) ==
    /\ m.type = type
    /\ alive[m.dst]
    /\ ~IsRequest(m) => m.boot = boots[m.dst]

(***************************************************************************)
(* Faults somebody could make in the definitions of the same name.  They   *)
(* are not part of the model: substituted one at a time, each breaks the   *)
(* property that PROJECT.json pairs it with.                               *)
(***************************************************************************)
\* One term ahead of the candidate's own.
FaultyVoteRequest(n, s, t) ==
    [type |-> "VoteReq", src |-> n, dst |-> s, boot |-> boots[n],
     term |-> t + 1,
     last_log_index |-> entries[n].last_index,
     last_log_term  |-> entries[n].last_term]

\* Acknowledges the end of the leader's log instead of the end of the batch.
FaultyAppendAnswer(m, t, accepting) ==
    [type |-> "EntriesResp", src |-> m.dst, dst |-> m.src, boot |-> m.boot,
     term |-> t, success |-> accepting,
     batch_end |-> IF m.entries = << >> THEN 0
                   ELSE entries[m.src].last_index]

\* Tells the position as it is counted from 0.
ZeroBasedAnswered(S, state) ==
    [r \in Request |->
        IF \E f \in S : f.req = r
        THEN [state    |-> state,
              position |-> (CHOOSE f \in S : f.req = r).index - 1]
        ELSE answers[r]]

\* Leaves the clients of a node that stops waiting.
SilentAnswered(S, state) ==
    [r \in Request |->
        IF state # "lost" /\ \E f \in S : f.req = r
        THEN [state |-> state, position |-> (CHOOSE f \in S : f.req = r).index]
        ELSE answers[r]]

\* Drops the shared point with what follows it.
FaultyTruncated(log, m) ==
    IF log.last_index >= m.prev_log_index /\ log.last_term # m.term
    THEN [log EXCEPT !.inner = SubSeqAt(@,
              {i \in DOMAIN @ : @[i].index < m.prev_log_index})]
    ELSE log

\* Forgets whom the vote went to.
FaultyGrantsAgain(n, m) ==
    /\ entries[n].last_index <= m.last_log_index
    /\ entries[n].last_term <= m.last_log_term

\* Counts refusals.
FaultyCounts(m) == term[m.dst] = m.term /\ status[m.dst] # "leader"

\* Half of the cluster is enough.
FaultyHaveWeReachedQuorum(votes) ==
    1 + Cardinality(votes) >= Cardinality(Node) \div 2

\* Keeps the older term.
FaultyFollow(m) ==
    /\ term[m.dst] <= m.term
    /\ status'    = [status EXCEPT ![m.dst] = "follower"]
    /\ leader'    = [leader EXCEPT ![m.dst] = m.src]
    /\ voted_for' = [voted_for EXCEPT ![m.dst] = m.src]
    /\ UNCHANGED <<term, tally, next_index, match_index, inflights, process,
                   answers, history>>

\* Commits the whole batch as soon as the leader has committed anything new.
FaultyFollowerCommit(current, m) ==
    IF m.leader_commit > current THEN m.entries[Len(m.entries)].index
    ELSE current

\* The highest one.
FaultyLowestReplicated(match) ==
    LET indices == {match[s] : s \in DOMAIN match}
    IN  CHOOSE i \in indices : \A j \in indices : j <= i

\* Does not saturate.
FaultySteppedBack(next) == next - 1

\* Tries the same reference point again.
StubbornSteppedBack(next) == next

\* Starts at the last index instead of after it.
FaultyNewEntries(n, r, size) ==
    [i \in 1..size |-> [index   |-> entries[n].last_index + i - 1,
                        term    |-> term[n],
                        payload |-> [req |-> r, event |-> i]]]

(***************************************************************************)
(* The messages a node sends.                                              *)
(***************************************************************************)
VoteRequest(n, s, t) ==
    [type |-> "VoteReq", src |-> n, dst |-> s, boot |-> boots[n], term |-> t,
     last_log_index |-> entries[n].last_index,
     last_log_term  |-> entries[n].last_term]

VoteAnswer(m, t, granting) ==
    [type |-> "VoteResp", src |-> m.dst, dst |-> m.src, boot |-> m.boot,
     term |-> t, vote_granted |-> granting]

AppendRequest(n, s, next, commit) ==
    LET prev == GetPreviousEntry(entries[n], next)
    IN  [type |-> "EntriesReq", src |-> n, dst |-> s, boot |-> boots[n],
         term |-> term[n],
         prev_log_index |-> prev.index, prev_log_term |-> prev.term,
         leader_commit |-> commit,
         entries |-> ReadEntriesFrom(entries[n], prev.index, MaxBatch)]

AppendAnswer(m, t, accepting) ==
    [type |-> "EntriesResp", src |-> m.dst, dst |-> m.src, boot |-> m.boot,
     term |-> t, success |-> accepting,
     batch_end |-> IF m.entries = << >> THEN 0
                   ELSE m.entries[Len(m.entries)].index]

(***************************************************************************)
(* Clients.  A call is answered through a oneshot channel; "lost" is what  *)
(* the client sees when the channel is dropped.                            *)
(***************************************************************************)
Answer == [state : {"unsent", "waiting", "refused", "lost", "confirmed"},
           position : Nat]

NoAnswer == [state |-> "unsent", position |-> 0]

\* The calls of S, records [index, req], all get the same kind of answer.
Answered(S, state) ==
    [r \in Request |->
        IF \E f \in S : f.req = r
        THEN [state |-> state, position |-> (CHOOSE f \in S : f.req = r).index]
        ELSE answers[r]]

-----------------------------------------------------------------------------
(***************************************************************************)
(* Volatile::new and Persistent::load: a node starts with nothing.         *)
(***************************************************************************)
InitialStatus == IF Cardinality(Node) = 1 THEN "leader" ELSE "follower"

Init ==
    /\ term         = [n \in Node |-> 0]
    /\ entries      = [n \in Node |-> EmptyLog]
    /\ status       = [n \in Node |-> InitialStatus]
    /\ leader       = [n \in Node |-> None]
    /\ voted_for    = [n \in Node |-> None]
    /\ tally        = [n \in Node |-> {}]
    /\ next_index   = [n \in Node |-> [s \in Seeds(n) |-> 0]]
    /\ match_index  = [n \in Node |-> [s \in Seeds(n) |-> 0]]
    /\ commit_index = [n \in Node |-> 0]
    /\ inflights    = [n \in Node |-> {}]
    /\ alive        = [n \in Node |-> TRUE]
    /\ boots        = [n \in Node |-> 0]
    /\ msgs         = EmptyBag
    /\ answers      = [r \in Request |-> NoAnswer]
    /\ granted      = {}
    /\ led          = IF InitialStatus = "leader" THEN Node \X {0} ELSE {}

-----------------------------------------------------------------------------
(***************************************************************************)
(* The tick: machine.rs, on_tick, a round of calls to every peer.          *)
(***************************************************************************)

\* Bounds the runs: a round of calls starts when few others are in flight.
Room == BagCardinality(msgs) <= MaxBacklog

\* A leader sends every peer what follows its next index, or a heartbeat.
SendAppendEntries(n) ==
    /\ alive[n] /\ Seeds(n) # {}
    /\ status[n] = "leader"
    /\ Room
    /\ msgs' = Send({AppendRequest(n, s, next_index[n][s], commit_index[n]) :
                        s \in Seeds(n)})
    /\ UNCHANGED <<persistent, election, replication, process, answers,
                   history>>

\* switch_to_candidate.  The tally of earlier elections is kept, and the node
\* votes for the default id of its persistent state, which is no member's.
SwitchToCandidate(n) ==
    /\ alive[n] /\ Seeds(n) # {}
    /\ status[n] # "leader"
    /\ n \in CanTimeout /\ term[n] < MaxTerm /\ Room
    /\ status'    = [status EXCEPT ![n] = "candidate"]
    /\ leader'    = [leader EXCEPT ![n] = None]
    /\ term'      = [term EXCEPT ![n] = @ + 1]
    /\ voted_for' = [voted_for EXCEPT ![n] = DefaultId]
    /\ msgs'      = Send({VoteRequest(n, s, term[n] + 1) : s \in Seeds(n)})
    /\ granted'   = granted \cup
                      {[voter |-> n, candidate |-> n, term |-> term[n] + 1]}
    /\ UNCHANGED <<entries, tally, replication, process, answers, led>>

\* on_tick.  A single node does nothing, which both guards say.
Tick(n) == SendAppendEntries(n) \/ SwitchToCandidate(n)

(***************************************************************************)
(* A request for a vote: on_request_vote.  A node that refuses because its *)
(* log is ahead still takes the term, and nothing else: not a new status,  *)
(* not a cleared vote.                                                     *)
(***************************************************************************)
UpToDate(n, m) ==
    /\ entries[n].last_index <= m.last_log_index
    /\ entries[n].last_term <= m.last_log_term

RequestVoteStale(m) ==
    /\ Received(m, "VoteReq")
    /\ term[m.dst] > m.term
    /\ msgs' = Reply(m, VoteAnswer(m, term[m.dst], FALSE))
    /\ UNCHANGED <<persistent, election, replication, process, answers,
                   history>>

\* The first request of a new term, or of a term without a vote.
RequestVoteFresh(m) ==
    LET n == m.dst
        granting == UpToDate(n, m)
    IN  /\ Received(m, "VoteReq")
        /\ term[n] < m.term \/ (term[n] = m.term /\ voted_for[n] = None)
        /\ term' = [term EXCEPT ![n] = m.term]
        /\ voted_for' = IF granting THEN [voted_for EXCEPT ![n] = m.src]
                        ELSE voted_for
        /\ status' = IF granting THEN [status EXCEPT ![n] = "follower"]
                     ELSE status
        /\ msgs' = Reply(m, VoteAnswer(m, m.term, granting))
        /\ granted' = IF granting
                      THEN granted \cup {[voter |-> n, candidate |-> m.src,
                                          term |-> m.term]}
                      ELSE granted
        /\ led' = IF status'[n] = "leader" THEN led \cup {<<n, m.term>>}
                  ELSE led
        /\ UNCHANGED <<entries, leader, tally, replication, process, answers>>

GrantsAgain(n, m) == voted_for[n] = m.src /\ UpToDate(n, m)

\* A request in a term this node has already voted in.
RequestVoteAgain(m) ==
    LET n == m.dst
        granting == GrantsAgain(n, m)
    IN  /\ Received(m, "VoteReq")
        /\ term[n] = m.term /\ voted_for[n] # None
        /\ msgs' = Reply(m, VoteAnswer(m, m.term, granting))
        /\ granted' = IF granting
                      THEN granted \cup {[voter |-> n, candidate |-> m.src,
                                          term |-> m.term]}
                      ELSE granted
        /\ UNCHANGED <<persistent, election, replication, process, answers,
                       led>>

(***************************************************************************)
(* An answer to a request for a vote: on_vote_received.  It is counted     *)
(* whatever the status of the node, unless it leads.                       *)
(***************************************************************************)
HaveWeReachedQuorum(votes) == 1 + Cardinality(votes) > Cardinality(Node) \div 2

VoteIgnored(m) ==
    /\ Received(m, "VoteResp")
    /\ \/ term[m.dst] > m.term
       \/ status[m.dst] = "leader"
       \/ term[m.dst] = m.term /\ ~m.vote_granted
    /\ msgs' = Without(m)
    /\ UNCHANGED <<persistent, election, replication, process, answers,
                   history>>

\* The node takes the term, and the voter for the leader.
VoteFromNewerTerm(m) ==
    LET n == m.dst
    IN  /\ Received(m, "VoteResp")
        /\ term[n] < m.term /\ status[n] # "leader"
        /\ term'      = [term EXCEPT ![n] = m.term]
        /\ status'    = [status EXCEPT ![n] = "follower"]
        /\ leader'    = [leader EXCEPT ![n] = m.src]
        /\ voted_for' = [voted_for EXCEPT ![n] = None]
        /\ msgs'      = Without(m)
        /\ UNCHANGED <<entries, tally, replication, process, answers, history>>

Counts(m) ==
    term[m.dst] = m.term /\ status[m.dst] # "leader" /\ m.vote_granted

VoteCounted(m) ==
    LET n == m.dst
    IN  /\ Received(m, "VoteResp")
        /\ Counts(m)
        /\ ~HaveWeReachedQuorum(tally[n] \cup {m.src})
        /\ tally' = [tally EXCEPT ![n] = @ \cup {m.src}]
        /\ msgs'  = Without(m)
        /\ UNCHANGED <<persistent, status, leader, voted_for, replication,
                       process, answers, history>>

\* switch_to_leader: Volatile::reset, then a first round of append requests.
\* The vote of the term is forgotten, and the calls accepted by an earlier
\* leadership are told that this node is not the leader.
ElectionWon(m) ==
    LET n     == m.dst
        after == entries[n].last_index + 1
    IN  /\ Received(m, "VoteResp")
        /\ Counts(m)
        /\ HaveWeReachedQuorum(tally[n] \cup {m.src})
        /\ status'       = [status EXCEPT ![n] = "leader"]
        /\ leader'       = [leader EXCEPT ![n] = n]
        /\ voted_for'    = [voted_for EXCEPT ![n] = None]
        /\ tally'        = [tally EXCEPT ![n] = {}]
        /\ commit_index' = [commit_index EXCEPT ![n] = 0]
        /\ next_index'   = [next_index EXCEPT ![n] = [s \in Seeds(n) |-> after]]
        /\ match_index'  = [match_index EXCEPT ![n] = [s \in Seeds(n) |-> 0]]
        /\ inflights'    = [inflights EXCEPT ![n] = {}]
        /\ answers'      = Answered(inflights[n], "refused")
        /\ msgs' = Without(m) (+)
                   SetToBag({AppendRequest(n, s, after, 0) : s \in Seeds(n)})
        /\ led' = led \cup {<<n, term[n]>>}
        /\ UNCHANGED <<persistent, process, granted>>

(***************************************************************************)
(* A request to append: on_append_entries.                                 *)
(***************************************************************************)
AppendEntriesStale(m) ==
    /\ Received(m, "EntriesReq")
    /\ term[m.dst] > m.term
    /\ msgs' = Reply(m, AppendAnswer(m, term[m.dst], FALSE))
    /\ UNCHANGED <<persistent, election, replication, process, answers,
                   history>>

\* Whatever else the request asks for, its sender leads the term.  Calls the
\* node accepted as a leader stay unanswered.
Follow(m) ==
    /\ term[m.dst] <= m.term
    /\ term'      = [term EXCEPT ![m.dst] = m.term]
    /\ status'    = [status EXCEPT ![m.dst] = "follower"]
    /\ leader'    = [leader EXCEPT ![m.dst] = m.src]
    /\ voted_for' = [voted_for EXCEPT ![m.dst] = m.src]
    /\ UNCHANGED <<tally, next_index, match_index, inflights, process,
                   answers, history>>

SharesPoint(m) ==
    ContainsLog(entries[m.dst], m.prev_log_index, m.prev_log_term)

AppendEntriesUnmatched(m) ==
    /\ Received(m, "EntriesReq")
    /\ Follow(m)
    /\ ~SharesPoint(m)
    /\ msgs' = Reply(m, AppendAnswer(m, m.term, FALSE))
    /\ UNCHANGED <<entries, commit_index>>

\* A heartbeat carries no entries, and its commit index is not looked at.
AppendEntriesHeartbeat(m) ==
    /\ Received(m, "EntriesReq")
    /\ Follow(m)
    /\ SharesPoint(m) /\ m.entries = << >>
    /\ msgs' = Reply(m, AppendAnswer(m, m.term, TRUE))
    /\ UNCHANGED <<entries, commit_index>>

\* The log that remains before the batch is appended.
Truncated(log, m) ==
    IF log.last_index > m.prev_log_index /\ log.last_term # m.term
    THEN RemoveUncommittedEntriesFrom(log, m.prev_log_index, m.prev_log_term)
    ELSE log

FollowerCommit(current, m) ==
    LET last == m.entries[Len(m.entries)].index
    IN  IF m.leader_commit > current
        THEN IF m.leader_commit < last THEN m.leader_commit ELSE last
        ELSE current

AppendEntriesBatch(m) ==
    LET n == m.dst
    IN  /\ Received(m, "EntriesReq")
        /\ Follow(m)
        /\ SharesPoint(m) /\ m.entries # << >>
        /\ Len(entries[n].inner) + Len(m.entries) <= MaxLogLen
        /\ entries' = [entries EXCEPT
                          ![n] = AppendBatch(Truncated(entries[n], m), m.entries)]
        /\ commit_index' = [commit_index EXCEPT ![n] = FollowerCommit(@, m)]
        /\ msgs' = Reply(m, AppendAnswer(m, m.term, TRUE))

(***************************************************************************)
(* An answer to a request to append: on_append_entries_resp.  Its term is  *)
(* not looked at, so a leader is not deposed by it.                        *)
(***************************************************************************)
AppendRespIgnored(m) ==
    /\ Received(m, "EntriesResp")
    /\ status[m.dst] # "leader" \/ (m.success /\ m.batch_end = 0)
    /\ msgs' = Without(m)
    /\ UNCHANGED <<persistent, election, replication, process, answers,
                   history>>

\* Seeds::compute_lowest_replicated_index, for a cluster that has peers.
LowestReplicated(match) ==
    LET indices == {match[s] : s \in DOMAIN match}
    IN  CHOOSE i \in indices : \A j \in indices : i <= j

\* The writes that every peer has are confirmed, whatever a majority has.
AppendRespReplicated(m) ==
    LET n      == m.dst
        match  == [match_index[n] EXCEPT ![m.src] = m.batch_end]
        lowest == LowestReplicated(match)
        acked  == {f \in inflights[n] : f.index <= lowest}
    IN  /\ Received(m, "EntriesResp")
        /\ status[n] = "leader"
        /\ m.success /\ m.batch_end # 0
        /\ match_index'  = [match_index EXCEPT ![n] = match]
        /\ next_index'   = [next_index EXCEPT ![n][m.src] = m.batch_end + 1]
        /\ inflights'    = [inflights EXCEPT ![n] = @ \ acked]
        /\ commit_index' = [commit_index EXCEPT ![n] = lowest]
        /\ answers'      = Answered(acked, "confirmed")
        /\ msgs'         = Without(m)
        /\ UNCHANGED <<persistent, election, process, history>>

\* saturating_sub: the next index may go down to 0.
SteppedBack(next) == IF next = 0 THEN 0 ELSE next - 1

AppendRespRefused(m) ==
    LET n == m.dst
    IN  /\ Received(m, "EntriesResp")
        /\ status[n] = "leader" /\ ~m.success
        /\ next_index' = [next_index EXCEPT ![n][m.src] = SteppedBack(@)]
        /\ msgs'       = Without(m)
        /\ UNCHANGED <<persistent, election, match_index, commit_index,
                       inflights, process, answers, history>>

(***************************************************************************)
(* A client call: on_append_stream.                                        *)
(***************************************************************************)
NewEntries(n, r, size) ==
    [i \in 1..size |-> [index   |-> entries[n].last_index + i,
                        term    |-> term[n],
                        payload |-> [req |-> r, event |-> i]]]

AppendStreamRefused(n, r) ==
    /\ alive[n] /\ answers[r] = NoAnswer
    /\ status[n] # "leader"
    /\ answers' = [answers EXCEPT ![r].state = "refused"]
    /\ UNCHANGED <<persistent, election, replication, process, msgs, history>>

\* A single node confirms at once; in a cluster the call joins the inflights.
AppendStreamAccepted(n, r, size) ==
    LET index == entries[n].last_index + size
    IN  /\ alive[n] /\ answers[r] = NoAnswer
        /\ status[n] = "leader"
        /\ Len(entries[n].inner) + size <= MaxLogLen
        /\ entries' = [entries EXCEPT ![n] = AddEach(@, NewEntries(n, r, size))]
        /\ \/ /\ Seeds(n) = {}
              /\ answers' = [answers EXCEPT ![r] = [state    |-> "confirmed",
                                                   position |-> index]]
              /\ UNCHANGED inflights
           \/ /\ Seeds(n) # {}
              /\ inflights' = [inflights EXCEPT
                                  ![n] = @ \cup {[index |-> index, req |-> r]}]
              /\ answers' = [answers EXCEPT ![r].state = "waiting"]
        /\ UNCHANGED <<term, election, next_index, match_index, commit_index,
                       process, msgs, history>>

(***************************************************************************)
(* Node::shutdown ends the thread: the calls it owes are dropped, and so   *)
(* are the answers on their way to it.  Nothing is written anywhere, so    *)
(* the next thread starts from Persistent::load like the first one; the    *)
(* variables of a stopped node hold what that will be.                     *)
(***************************************************************************)
Stop(n) ==
    LET dropped == {m \in DOMAIN msgs : ~IsRequest(m) /\ m.dst = n}
    IN  /\ alive[n] /\ n \in CanStop /\ boots[n] < MaxRestarts
        /\ alive'        = [alive EXCEPT ![n] = FALSE]
        /\ boots'        = [boots EXCEPT ![n] = @ + 1]
        /\ term'         = [term EXCEPT ![n] = 0]
        /\ entries'      = [entries EXCEPT ![n] = EmptyLog]
        /\ status'       = [status EXCEPT ![n] = InitialStatus]
        /\ leader'       = [leader EXCEPT ![n] = None]
        /\ voted_for'    = [voted_for EXCEPT ![n] = None]
        /\ tally'        = [tally EXCEPT ![n] = {}]
        /\ next_index'   = [next_index EXCEPT ![n] = [s \in Seeds(n) |-> 0]]
        /\ match_index'  = [match_index EXCEPT ![n] = [s \in Seeds(n) |-> 0]]
        /\ commit_index' = [commit_index EXCEPT ![n] = 0]
        /\ inflights'    = [inflights EXCEPT ![n] = {}]
        /\ answers'      = Answered(inflights[n], "lost")
        /\ msgs'         = [m \in DOMAIN msgs \ dropped |-> msgs[m]]
        /\ UNCHANGED history

Start(n) ==
    /\ ~alive[n]
    /\ alive' = [alive EXCEPT ![n] = TRUE]
    /\ UNCHANGED <<persistent, election, replication, boots, msgs, answers,
                   history>>

(***************************************************************************)
(* A call that fails leaves both nodes as they are: the task of a vote     *)
(* request ends, and an append answer that is an error is not acted upon.  *)
(***************************************************************************)
Discard(m) ==
    /\ msgs' = Without(m)
    /\ UNCHANGED <<persistent, election, replication, process, answers,
                   history>>

Lose(m) == Lossy /\ Discard(m)

Undeliverable(m) ==
    /\ IF IsRequest(m) THEN ~alive[m.dst] ELSE m.boot # boots[m.dst]
    /\ Discard(m)

-----------------------------------------------------------------------------
Handle(m) ==
    \/ RequestVoteStale(m) \/ RequestVoteFresh(m) \/ RequestVoteAgain(m)
    \/ VoteIgnored(m) \/ VoteFromNewerTerm(m)
    \/ VoteCounted(m) \/ ElectionWon(m)
    \/ AppendEntriesStale(m) \/ AppendEntriesUnmatched(m)
    \/ AppendEntriesHeartbeat(m) \/ AppendEntriesBatch(m)
    \/ AppendRespIgnored(m) \/ AppendRespReplicated(m) \/ AppendRespRefused(m)
    \/ Undeliverable(m)

Next ==
    \/ \E n \in Node : Tick(n) \/ Stop(n) \/ Start(n)
    \/ \E n \in Node, r \in Request :
          \/ AppendStreamRefused(n, r)
          \/ \E size \in BatchSizes : AppendStreamAccepted(n, r, size)
    \/ \E m \in DOMAIN msgs : Handle(m) \/ Lose(m)

Spec == Init /\ [][Next]_vars

(***************************************************************************)
(* The thread of a node ticks at least once per HEARTBEAT_DELAY, and every *)
(* call is delivered, fails, or gets its answer delivered: a message is    *)
(* not held back for ever while others of another content overtake it.     *)
(* That a node times out, stops or starts again is nobody's obligation.    *)
(***************************************************************************)
\* Tells apart the messages of one type that do different things.
Content(m) ==
    CASE m.type = "EntriesReq"                -> m.prev_log_index
      [] m.type = "EntriesResp" /\ m.success -> m.batch_end
      [] OTHER                                -> MaxLogLen + 1

Deliver(s, n, type, content) ==
    \E m \in DOMAIN msgs :
        /\ m.src = s /\ m.dst = n /\ m.type = type /\ Content(m) = content
        /\ Handle(m)

Fairness ==
    \A n \in Node :
        /\ WF_vars(SendAppendEntries(n))
        /\ \A s \in Seeds(n) :
              /\ \A type \in {"VoteReq", "VoteResp"} :
                    WF_vars(Deliver(s, n, type, MaxLogLen + 1))
              /\ \A type \in {"EntriesReq", "EntriesResp"} :
                    \A content \in 0..(MaxLogLen + 1) :
                        WF_vars(Deliver(s, n, type, content))

FairSpec == Spec /\ Fairness

=============================================================================
