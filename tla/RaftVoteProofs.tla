--------------------------- MODULE RaftVoteProofs ---------------------------
(***************************************************************************)
(* Proofs about elections: what is behind a tally, what a majority is made *)
(* of, and that a vote is given once.                                      *)
(***************************************************************************)
EXTENDS RaftProofs

(***************************************************************************)
(* Votes on their way to a candidate.                                      *)
(***************************************************************************)
SelfVote(n, t) == [voter |-> n, candidate |-> n, term |-> t]

\* What is behind the messages of an election, and behind a tally.
VotesAreRecorded ==
    /\ \A m \in DOMAIN msgs : m.type = "VoteReq" =>
          SelfVote(m.src, m.term) \in granted
    /\ \A m \in DOMAIN msgs : m.type = "VoteResp" /\ m.vote_granted =>
          /\ SelfVote(m.dst, m.term) \in granted
          /\ [voter |-> m.src, candidate |-> m.dst, term |-> m.term] \in granted

LEMMA RecordedInit == Init => VotesAreRecorded
BY DEF Init, VotesAreRecorded, EmptyBag, SetToBag

LEMMA RecordedKept ==
    ASSUME VotesAreRecorded, granted \subseteq granted',
           \A x \in DOMAIN msgs' :
              \/ x \in DOMAIN msgs
              \/ x.type = "VoteReq" /\ SelfVote(x.src, x.term) \in granted'
              \/ /\ x.type = "VoteResp"
                 /\ x.vote_granted =>
                       /\ SelfVote(x.dst, x.term) \in granted'
                       /\ [voter |-> x.src, candidate |-> x.dst,
                           term |-> x.term] \in granted'
              \/ x.type \in {"EntriesReq", "EntriesResp"}
    PROVE  VotesAreRecorded'
<1>1. ASSUME NEW x \in DOMAIN msgs', x.type = "VoteReq"
      PROVE  SelfVote(x.src, x.term) \in granted'
  BY <1>1 DEF VotesAreRecorded
<1>2. ASSUME NEW x \in DOMAIN msgs', x.type = "VoteResp", x.vote_granted
      PROVE  /\ SelfVote(x.dst, x.term) \in granted'
             /\ [voter |-> x.src, candidate |-> x.dst, term |-> x.term] \in granted'
  BY <1>2 DEF VotesAreRecorded
<1> QED
  BY <1>1, <1>2 DEF VotesAreRecorded, SelfVote

\* The three handlers that answer a request for a vote.
RequestVote(m) == RequestVoteStale(m) \/ RequestVoteFresh(m) \/ RequestVoteAgain(m)

LEMMA RecordedStep == TypeOK /\ VotesAreRecorded /\ [Next]_vars => VotesAreRecorded'
<1> SUFFICES ASSUME TypeOK, VotesAreRecorded, [Next]_vars
             PROVE  VotesAreRecorded'
  OBVIOUS
<1>1. ASSUME NEW n \in Node, SendAppendEntries(n)
      PROVE  VotesAreRecorded'
  <2> DEFINE S == {AppendRequest(n, s, next_index[n][s], commit_index[n]) :
                      s \in Seeds(n)}
  <2>1. \A x \in S : x.type = "EntriesReq"
    BY DEF AppendRequest
  <2>2. msgs' = Send(S) /\ UNCHANGED granted
    BY <1>1 DEF SendAppendEntries, history
  <2> HIDE DEF S
  <2>3. \A x \in DOMAIN msgs' : x \in DOMAIN msgs \/ x \in S
    BY <2>2, InFlightAfterRound
  <2> QED
    BY <2>1, <2>2, <2>3, RecordedKept
<1>2. ASSUME NEW n \in Node, SwitchToCandidate(n)
      PROVE  VotesAreRecorded'
  <2> DEFINE S == {VoteRequest(n, s, term[n] + 1) : s \in Seeds(n)}
  <2>1. \A x \in S : x.type = "VoteReq" /\ x.src = n /\ x.term = term[n] + 1
    BY DEF VoteRequest
  <2>2. msgs' = Send(S) /\ granted' = granted \cup {SelfVote(n, term[n] + 1)}
    BY <1>2 DEF SwitchToCandidate, SelfVote
  <2> HIDE DEF S
  <2>3. \A x \in DOMAIN msgs' : x \in DOMAIN msgs \/ x \in S
    BY <2>2, InFlightAfterRound
  <2>4. \A x \in S : SelfVote(x.src, x.term) \in granted'
    BY <2>1, <2>2
  <2> QED
    BY <2>1, <2>2, <2>3, <2>4, RecordedKept
<1>3. ASSUME NEW m \in DOMAIN msgs, ElectionWon(m)
      PROVE  VotesAreRecorded'
  <2> DEFINE n == m.dst
             after == entries[n].last_index + 1
             S == {AppendRequest(n, s, after, 0) : s \in Seeds(n)}
  <2>1. \A x \in S : x.type = "EntriesReq"
    BY DEF AppendRequest
  <2>2. UNCHANGED granted /\ msgs' = Without(m) (+) SetToBag(S)
    BY <1>3 DEF ElectionWon
  <2> HIDE DEF S
  <2>3. \A x \in DOMAIN msgs' : x \in DOMAIN msgs \/ x \in S
    BY <2>2, InFlightAfterRound
  <2> QED
    BY <2>1, <2>2, <2>3, RecordedKept
<1>4. ASSUME NEW m \in DOMAIN msgs, RequestVote(m)
      PROVE  VotesAreRecorded'
  <2>1. m.type = "VoteReq" /\ SelfVote(m.src, m.term) \in granted
    BY <1>4 DEF RequestVote, RequestVoteStale, RequestVoteFresh, RequestVoteAgain,
                Received, VotesAreRecorded
  <2> DEFINE vote == [voter |-> m.dst, candidate |-> m.src, term |-> m.term]
  <2>2. /\ granted \subseteq granted'
        /\ \E t, b : /\ msgs' = Reply(m, VoteAnswer(m, t, b))
                     /\ b => t = m.term /\ vote \in granted'
    <3>1. CASE RequestVoteStale(m)
      BY <3>1 DEF RequestVoteStale, history
    <3>2. CASE RequestVoteFresh(m)
      BY <3>2 DEF RequestVoteFresh
    <3>3. CASE RequestVoteAgain(m)
      BY <3>3 DEF RequestVoteAgain
    <3> QED
      BY <1>4, <3>1, <3>2, <3>3 DEF RequestVote
  <2>3. PICK t, b : /\ msgs' = Reply(m, VoteAnswer(m, t, b))
                    /\ b => t = m.term /\ vote \in granted'
    BY <2>2
  <2> DEFINE r == VoteAnswer(m, t, b)
  <2>4. /\ r.type = "VoteResp" /\ r.src = m.dst /\ r.dst = m.src
        /\ r.term = t /\ r.vote_granted = b
    BY DEF VoteAnswer
  <2> HIDE DEF r
  <2>5. \A x \in DOMAIN msgs' : x \in DOMAIN msgs \/ x = r
    BY <2>3, InFlightAfter DEF r
  <2>6. r.vote_granted => /\ SelfVote(r.dst, r.term) \in granted'
                          /\ [voter |-> r.src, candidate |-> r.dst,
                              term |-> r.term] \in granted'
    BY <2>1, <2>2, <2>3, <2>4
  <2> QED
    BY <2>2, <2>4, <2>5, <2>6, RecordedKept
<1>5. ASSUME NEW m \in DOMAIN msgs, Answering(m), ~RequestVote(m)
      PROVE  VotesAreRecorded'
  <2>1. \/ msgs' = Without(m)
        \/ \E t, b : msgs' = Reply(m, AppendAnswer(m, t, b))
    BY <1>5 DEF Answering, RequestVote, VoteIgnored, VoteFromNewerTerm, VoteCounted,
         AppendEntriesStale, AppendEntriesUnmatched, AppendEntriesHeartbeat,
         AppendEntriesBatch, AppendRespIgnored, AppendRespReplicated,
         AppendRespRefused, Undeliverable, Lose, Discard
  <2>2. UNCHANGED granted
    BY <1>5 DEF Answering, RequestVote, VoteIgnored, VoteFromNewerTerm, VoteCounted,
         AppendEntriesStale, AppendEntriesUnmatched, AppendEntriesHeartbeat,
         AppendEntriesBatch, Follow, AppendRespIgnored, AppendRespReplicated,
         AppendRespRefused, Undeliverable, Lose, Discard, history
  <2>3. \A x \in DOMAIN msgs' : x \in DOMAIN msgs \/ x.type = "EntriesResp"
    <3>1. CASE msgs' = Without(m)
      BY <3>1, InFlightAfter
    <3>2. ASSUME NEW t, NEW b, msgs' = Reply(m, AppendAnswer(m, t, b))
          PROVE  \A x \in DOMAIN msgs' : x \in DOMAIN msgs \/ x.type = "EntriesResp"
      <4>1. AppendAnswer(m, t, b).type = "EntriesResp"
        BY DEF AppendAnswer
      <4> QED
        BY <3>2, <4>1, InFlightAfter
    <3> QED
      BY <2>1, <3>1, <3>2
  <2> QED
    BY <2>2, <2>3, RecordedKept
<1>6. ASSUME NEW n \in Node, Stop(n)
      PROVE  VotesAreRecorded'
  BY <1>6, RecordedKept DEF Stop, history
<1>7. ASSUME \/ \E n \in Node : Start(n)
             \/ \E n \in Node, r \in Request : AppendStreamRefused(n, r)
             \/ \E n \in Node, r \in Request, size \in BatchSizes :
                   AppendStreamAccepted(n, r, size)
             \/ UNCHANGED vars
      PROVE  VotesAreRecorded'
  <2>1. UNCHANGED <<msgs, granted>>
    BY <1>7 DEF Start, AppendStreamRefused, AppendStreamAccepted, vars, history
  <2> QED
    BY <2>1 DEF VotesAreRecorded
<1> QED
  BY <1>1, <1>2, <1>3, <1>4, <1>5, <1>6, <1>7 DEF Next, Tick, Handle, Answering

(***************************************************************************)
(* Tallies.                                                                *)
(***************************************************************************)
LEMMA TallyStep ==
    TypeOK /\ VotesAreRecorded /\ TallyWasGranted /\ [Next]_vars => TallyWasGranted'
<1> SUFFICES ASSUME TypeOK, VotesAreRecorded, TallyWasGranted, [Next]_vars
             PROVE  TallyWasGranted'
  OBVIOUS
<1> DEFINE Vote(g, n, v, t) == g.voter = v /\ g.candidate = n /\ g.term <= t
<1>1. /\ term \in [Node -> Nat] /\ tally \in [Node -> SUBSET Node]
      /\ \A g \in granted : g.term \in Nat
  BY DEF TypeOK, NodesOK, RecordsOK
<1>2. ASSUME granted \subseteq granted', \A n \in Node : tally'[n] \subseteq tally[n],
             \A n \in Node : term[n] <= term'[n] /\ term'[n] \in Nat
      PROVE  TallyWasGranted'
  <2>1. ASSUME NEW n \in Node, NEW v \in tally'[n]
        PROVE  \E g \in granted' : Vote(g, n, v, term'[n])
    <3>1. PICK g \in granted : Vote(g, n, v, term[n])
      BY <1>2 DEF TallyWasGranted
    <3>2. g.term <= term'[n]
      BY <1>1, <1>2, <3>1
    <3> QED
      BY <1>2, <3>1, <3>2
  <2> QED
    BY <2>1 DEF TallyWasGranted
<1>3. ASSUME NEW n \in Node, SendAppendEntries(n) \/ SwitchToCandidate(n) \/ Start(n)
      PROVE  TallyWasGranted'
  <2>1. granted \subseteq granted' /\ UNCHANGED tally
    BY <1>3 DEF SendAppendEntries, SwitchToCandidate, Start, election, history
  <2> QED
    BY <1>2, <1>3, <2>1, TermsGrow
<1>4. ASSUME NEW m \in DOMAIN msgs, ElectionWon(m)
      PROVE  TallyWasGranted'
  <2>1. UNCHANGED granted /\ tally' = [tally EXCEPT ![m.dst] = {}]
    BY <1>4 DEF ElectionWon
  <2>2. \A n \in Node : tally'[n] \subseteq tally[n]
    BY <1>1, <2>1
  <2> QED
    BY <1>2, <1>4, <2>1, <2>2, TermsGrow
<1>5. ASSUME NEW m \in DOMAIN msgs, Answering(m), ~VoteCounted(m)
      PROVE  TallyWasGranted'
  <2>1. granted \subseteq granted' /\ UNCHANGED tally
    BY <1>5 DEF Answering, RequestVoteStale, RequestVoteFresh, RequestVoteAgain,
         VoteIgnored, VoteFromNewerTerm, AppendEntriesStale, AppendEntriesUnmatched,
         AppendEntriesHeartbeat, AppendEntriesBatch, Follow, AppendRespIgnored,
         AppendRespReplicated, AppendRespRefused, Undeliverable, Lose, Discard,
         election, history
  <2> QED
    BY <1>2, <1>5, <2>1, TermsGrow
<1>6. ASSUME NEW m \in DOMAIN msgs, VoteCounted(m)
      PROVE  TallyWasGranted'
  <2> DEFINE vote == [voter |-> m.src, candidate |-> m.dst, term |-> m.term]
  <2>1. /\ m.dst \in Node /\ m.term = term[m.dst]
        /\ UNCHANGED <<term, granted>>
        /\ tally' = [tally EXCEPT ![m.dst] = @ \cup {m.src}]
    BY <1>6, Delivered DEF VoteCounted, Counts, persistent, history
  <2>2. vote \in granted
    BY <1>6 DEF VoteCounted, Counts, Received, VotesAreRecorded
  <2>3. ASSUME NEW n \in Node, NEW v \in tally'[n]
        PROVE  \E g \in granted : Vote(g, n, v, term[n])
    <3>1. CASE v \in tally[n]
      BY <3>1 DEF TallyWasGranted
    <3>2. CASE v \notin tally[n]
      <4>1. n = m.dst /\ v = m.src
        BY <1>1, <2>1, <3>2
      <4>2. vote.term <= term[n]
        BY <1>1, <2>1, <4>1
      <4> QED
        BY <2>2, <4>1, <4>2
    <3> QED
      BY <3>1, <3>2
  <2> QED
    BY <2>1, <2>3 DEF TallyWasGranted
<1>7. ASSUME NEW n \in Node, Stop(n)
      PROVE  TallyWasGranted'
  <2>1. /\ UNCHANGED granted /\ tally' = [tally EXCEPT ![n] = {}]
        /\ term' = [term EXCEPT ![n] = 0]
    BY <1>7 DEF Stop, history
  <2> QED
    BY <1>1, <2>1 DEF TallyWasGranted
<1>8. ASSUME \/ \E n \in Node, r \in Request : AppendStreamRefused(n, r)
             \/ \E n \in Node, r \in Request, size \in BatchSizes :
                   AppendStreamAccepted(n, r, size)
             \/ UNCHANGED vars
      PROVE  TallyWasGranted'
  <2>1. UNCHANGED <<term, tally, granted>>
    BY <1>8 DEF AppendStreamRefused, AppendStreamAccepted, vars, persistent,
                election, history
  <2> QED
    BY <2>1 DEF TallyWasGranted
<1> QED
  BY <1>3, <1>4, <1>5, <1>6, <1>7, <1>8 DEF Next, Tick, Handle, Answering

\* Whatever answers are late, lost, ignored or crossed, whoever a node has in
\* its tally gave it a vote, in its present term or in an earlier one.
THEOREM TalliesAreGranted == Spec => []TallyWasGranted
<1>1. Spec => []TypeOK
  BY TypeCorrect
<1>2. Init => TallyWasGranted
  BY DEF Init, TallyWasGranted
<1> QED
  BY <1>1, <1>2, RecordedInit, RecordedStep, TallyStep, PTL DEF Spec

(***************************************************************************)
(* Majorities.  Whatever its size, a cluster elects by a majority of its   *)
(* nodes, but of their votes in any term up to that of the victory, for a  *)
(* tally keeps the votes of earlier terms.  Those do not matter where one  *)
(* answer of the present term is enough, which is so in a cluster of       *)
(* three, nor where there is no earlier term with a vote for the winner.   *)
(***************************************************************************)
Elected(n) == status[n] # "leader" /\ status'[n] = "leader"

\* The steps that neither stand for election nor answer a message.
Quiet == UNCHANGED <<status, term, tally, granted, led, boots>>

\* Every other step is a candidacy, a stop, a victory or an answer.
LEMMA ElectionSteps ==
    ASSUME [Next]_vars
    PROVE  \/ \E n \in Node : SwitchToCandidate(n) \/ Stop(n)
           \/ \E m \in DOMAIN msgs : ElectionWon(m) \/ Answering(m)
           \/ Quiet
<1>1. CASE UNCHANGED vars
  BY <1>1 DEF vars, election, persistent, process, history, Quiet
<1>2. CASE \E n \in Node : Tick(n) \/ Stop(n) \/ Start(n)
  <2>1. ASSUME NEW n \in Node, SendAppendEntries(n) \/ Start(n)
        PROVE  Quiet
    BY <2>1 DEF SendAppendEntries, Start, election, persistent, process, history,
               Quiet
  <2> QED
    BY <1>2, <2>1, Zenon DEF Tick
<1>3. CASE \E n \in Node, r \in Request :
              \/ AppendStreamRefused(n, r)
              \/ \E size \in BatchSizes : AppendStreamAccepted(n, r, size)
  BY <1>3 DEF AppendStreamRefused, AppendStreamAccepted, election, persistent,
              process, history, Quiet
<1>4. CASE \E m \in DOMAIN msgs : Handle(m) \/ Lose(m)
  BY <1>4, Zenon DEF Handle, Answering
<1> QED
  BY <1>1, <1>2, <1>3, <1>4, Zenon DEF Next

\* No node counts itself, for have_we_reached_quorum does that; a node that is
\* alone leads from the start; the votes are of terms that the bound allows.
TalliesAreOfOthers ==
    /\ \A n \in Node : n \notin tally[n]
    /\ Cardinality(Node) = 1 => \A n \in Node : status[n] = "leader"
    /\ \A g \in granted : g.term \in 1..MaxTerm

LEMMA OthersInit == Init => TalliesAreOfOthers
BY DEF Init, InitialStatus, TalliesAreOfOthers

LEMMA NobodyAlone ==
    ASSUME Cardinality(Node) = 1, NEW n \in Node
    PROVE  Seeds(n) = {}
<1>1. PICK x : Node = {x}
  BY NodeAssumption, FS_Singleton
<1> QED
  BY <1>1 DEF Seeds

LEMMA OthersStep ==
    TypeOK /\ VotesAreRecorded /\ TalliesAreOfOthers /\ [Next]_vars
        => TalliesAreOfOthers'
<1> SUFFICES ASSUME TypeOK, VotesAreRecorded, TalliesAreOfOthers, [Next]_vars
             PROVE  TalliesAreOfOthers'
  OBVIOUS
<1>1. /\ term \in [Node -> Nat] /\ tally \in [Node -> SUBSET Node]
      /\ status \in [Node -> {"follower", "candidate", "leader"}]
      /\ \A g \in granted : g.term \in Nat
  BY DEF TypeOK, NodesOK, RecordsOK
<1>2. MaxTerm \in Nat
  BY BoundsAssumption
<1>3. ASSUME NEW n \in Node, SwitchToCandidate(n)
      PROVE  TalliesAreOfOthers'
  <2>1. /\ Seeds(n) # {} /\ term[n] < MaxTerm /\ UNCHANGED tally
        /\ granted' = granted \cup {SelfVote(n, term[n] + 1)}
    BY <1>3 DEF SwitchToCandidate, SelfVote
  <2>2. term[n] + 1 \in 1..MaxTerm /\ SelfVote(n, term[n] + 1).term = term[n] + 1
    BY <1>1, <1>2, <2>1 DEF SelfVote
  <2>3. Cardinality(Node) # 1
    BY <2>1, NobodyAlone
  <2> QED
    BY <2>1, <2>2, <2>3 DEF TalliesAreOfOthers
<1>4. ASSUME NEW n \in Node, Stop(n)
      PROVE  TalliesAreOfOthers'
  <2>1. /\ UNCHANGED granted /\ tally' = [tally EXCEPT ![n] = {}]
        /\ status' = [status EXCEPT ![n] = InitialStatus]
    BY <1>4 DEF Stop, history
  <2>2. \A s \in Node : tally'[s] \subseteq tally[s]
    BY <1>1, <2>1
  <2>3. ASSUME Cardinality(Node) = 1, NEW s \in Node
        PROVE  status'[s] = "leader"
    <3>1. InitialStatus = "leader" /\ status[s] = "leader"
      BY <2>3 DEF InitialStatus, TalliesAreOfOthers
    <3> QED
      BY <1>1, <2>1, <3>1
  <2> QED
    BY <2>1, <2>2, <2>3 DEF TalliesAreOfOthers
<1>5. ASSUME NEW m \in DOMAIN msgs
      PROVE  Cardinality(Node) # 1
  BY Delivered, NobodyAlone
<1>6. ASSUME NEW m \in DOMAIN msgs, ElectionWon(m)
      PROVE  TalliesAreOfOthers'
  <2>1. UNCHANGED granted /\ tally' = [tally EXCEPT ![m.dst] = {}]
    BY <1>6 DEF ElectionWon
  <2>2. \A s \in Node : tally'[s] \subseteq tally[s]
    BY <1>1, <2>1
  <2> QED
    BY <1>5, <2>1, <2>2 DEF TalliesAreOfOthers
<1>7. ASSUME NEW m \in DOMAIN msgs, VoteCounted(m)
      PROVE  TalliesAreOfOthers'
  <2>1. UNCHANGED granted /\ tally' = [tally EXCEPT ![m.dst] = @ \cup {m.src}]
    BY <1>7 DEF VoteCounted, history
  <2>2. m.src # m.dst
    BY Delivered
  <2>3. \A s \in Node : s \notin tally'[s]
    BY <1>1, <2>1, <2>2 DEF TalliesAreOfOthers
  <2> QED
    BY <1>5, <2>1, <2>3 DEF TalliesAreOfOthers
<1>8. ASSUME NEW m \in DOMAIN msgs, Answering(m), ~VoteCounted(m)
      PROVE  TalliesAreOfOthers'
  <2> DEFINE vote == [voter |-> m.dst, candidate |-> m.src, term |-> m.term]
  <2>1. UNCHANGED tally
    BY <1>8 DEF Answering, RequestVoteStale, RequestVoteFresh, RequestVoteAgain,
         VoteIgnored, VoteFromNewerTerm, AppendEntriesStale, AppendEntriesUnmatched,
         AppendEntriesHeartbeat, AppendEntriesBatch, Follow, AppendRespIgnored,
         AppendRespReplicated, AppendRespRefused, Undeliverable, Lose, Discard,
         election
  <2>2. ASSUME RequestVote(m)
        PROVE  SelfVote(m.src, m.term) \in granted
    BY <2>2 DEF RequestVote, RequestVoteStale, RequestVoteFresh, RequestVoteAgain,
                Received, VotesAreRecorded
  <2>3. RequestVote(m) => m.term \in 1..MaxTerm
    BY <2>2 DEF TalliesAreOfOthers, SelfVote
  <2>4. granted' = granted \/ (RequestVote(m) /\ granted' = granted \cup {vote})
    BY <1>8, Zenon DEF Answering, RequestVote, RequestVoteStale, RequestVoteFresh,
         RequestVoteAgain, VoteIgnored, VoteFromNewerTerm, AppendEntriesStale,
         AppendEntriesUnmatched, AppendEntriesHeartbeat, AppendEntriesBatch, Follow,
         AppendRespIgnored, AppendRespReplicated, AppendRespRefused, Undeliverable,
         Lose, Discard, history
  <2>5. \A g \in granted' : g.term \in 1..MaxTerm
    BY <2>3, <2>4 DEF TalliesAreOfOthers
  <2> QED
    BY <1>5, <2>1, <2>5 DEF TalliesAreOfOthers
<1>9. ASSUME Quiet
      PROVE  TalliesAreOfOthers'
  BY <1>9 DEF Quiet, TalliesAreOfOthers
<1> QED
  BY <1>3, <1>4, <1>6, <1>7, <1>8, <1>9, ElectionSteps

LEMMA OnlyElected ==
    ASSUME TypeOK, Cardinality(Node) # 1, [Next]_vars, NEW n \in Node, Elected(n)
    PROVE  \E m \in DOMAIN msgs : m.dst = n /\ ElectionWon(m)
<1>1. status \in [Node -> {"follower", "candidate", "leader"}]
  BY DEF TypeOK, NodesOK
<1>2. ASSUME NEW s \in Node, SwitchToCandidate(s) \/ Stop(s)
      PROVE  FALSE
  BY <1>1, <1>2 DEF SwitchToCandidate, Stop, InitialStatus, Elected
<1>3. ASSUME UNCHANGED status
      PROVE  FALSE
  BY <1>3 DEF Elected
<1>4. ASSUME NEW m \in DOMAIN msgs, ElectionWon(m)
      PROVE  m.dst = n
  BY <1>1, <1>4, Delivered DEF ElectionWon, Elected
<1>5. ASSUME NEW m \in DOMAIN msgs, Answering(m)
      PROVE  FALSE
  <2>1. UNCHANGED status \/ status' = [status EXCEPT ![m.dst] = "follower"]
    BY <1>5 DEF Answering, RequestVoteStale, RequestVoteFresh, RequestVoteAgain,
         VoteIgnored, VoteFromNewerTerm, VoteCounted, AppendEntriesStale,
         AppendEntriesUnmatched, AppendEntriesHeartbeat, AppendEntriesBatch, Follow,
         AppendRespIgnored, AppendRespReplicated, AppendRespRefused, Undeliverable,
         Lose, Discard, election
  <2> QED
    BY <1>1, <2>1 DEF Elected
<1>6. \/ \E s \in Node : SwitchToCandidate(s) \/ Stop(s)
      \/ UNCHANGED status
      \/ \E m \in DOMAIN msgs : ElectionWon(m) \/ Answering(m)
  BY DEF Next, Tick, Handle, Answering, SendAppendEntries, Start, AppendStreamRefused,
         AppendStreamAccepted, vars, election
<1> QED
  BY <1>2, <1>3, <1>4, <1>5, <1>6


\* What a victory rests on: the votes that were counted, the vote of the answer
\* and the winner's own, all of them given.
LEMMA VictoryVotes ==
    ASSUME TypeOK, VotesAreRecorded, TallyWasGranted, TalliesAreOfOthers,
           NEW m \in DOMAIN msgs, ElectionWon(m)
    PROVE  /\ UNCHANGED <<term, granted>>
           /\ m.dst \in Node /\ m.src \in Node /\ m.src # m.dst /\ term[m.dst] \in Nat
           /\ SelfVote(m.dst, term[m.dst]) \in granted
           /\ [voter |-> m.src, candidate |-> m.dst, term |-> term[m.dst]] \in granted
           /\ tally[m.dst] \cup {m.src} \cup {m.dst} \subseteq VotersUpTo(m.dst, term[m.dst])
           /\ m.dst \notin tally[m.dst]
           /\ HaveWeReachedQuorum(tally[m.dst] \cup {m.src})
<1> DEFINE n == m.dst
           given == [voter |-> m.src, candidate |-> n, term |-> term[n]]
           own == SelfVote(n, term[n])
<1>1. /\ m.src \in Node /\ n \in Node /\ m.src # n /\ term[n] \in Nat
      /\ tally \in [Node -> SUBSET Node]
  BY Delivered DEF TypeOK, NodesOK
<1>2. /\ m.term = term[n] /\ m.type = "VoteResp" /\ m.vote_granted
      /\ HaveWeReachedQuorum(tally[n] \cup {m.src})
      /\ UNCHANGED <<term, granted>>
  BY DEF ElectionWon, Counts, Received, persistent
<1>3. own \in granted /\ given \in granted
  BY <1>2 DEF VotesAreRecorded
<1>4. /\ own.voter = n /\ own.candidate = n /\ own.term <= term[n]
      /\ given.voter = m.src /\ given.candidate = n /\ given.term <= term[n]
  BY <1>1 DEF SelfVote
<1> HIDE DEF own, given
<1>5. n \in VotersUpTo(n, term[n]) /\ m.src \in VotersUpTo(n, term[n])
  BY <1>1, <1>3, <1>4 DEF VotersUpTo
<1>6. tally[n] \subseteq VotersUpTo(n, term[n])
  BY <1>1 DEF TallyWasGranted, VotersUpTo
<1>7. n \notin tally[n]
  BY <1>1 DEF TalliesAreOfOthers
<1> QED
  BY <1>1, <1>2, <1>3, <1>5, <1>6, <1>7 DEF own, given

LEMMA MajorityUpToStep ==
    ASSUME TypeOK, VotesAreRecorded, TallyWasGranted, TalliesAreOfOthers, [Next]_vars,
           NEW n \in Node, Elected(n)
    PROVE  2 * Cardinality(VotersUpTo(n, term[n])') > Cardinality(Node)
<1>1. Cardinality(Node) # 1
  BY DEF TalliesAreOfOthers, Elected
<1>2. PICK m \in DOMAIN msgs : m.dst = n /\ ElectionWon(m)
  BY <1>1, OnlyElected
<1> DEFINE others == tally[n] \cup {m.src}
           V == VotersUpTo(n, term[n])
<1>3. /\ UNCHANGED <<term, granted>>
      /\ others \cup {n} \subseteq V /\ n \notin others
      /\ HaveWeReachedQuorum(others)
  BY <1>2, VictoryVotes
<1>4. V' = V /\ V \subseteq Node
  BY <1>3 DEF VotersUpTo
<1> HIDE DEF others, V
<1>5. IsFiniteSet(V) /\ IsFiniteSet(others)
  BY <1>3, <1>4, NodeAssumption, FS_Subset
<1>6. Cardinality(others \cup {n}) = Cardinality(others) + 1
  BY <1>3, <1>5, FS_AddElement
<1>7. Cardinality(others \cup {n}) <= Cardinality(V)
  BY <1>3, <1>5, FS_Subset
<1>8. Cardinality(V) \in Nat /\ Cardinality(others) \in Nat /\ Cardinality(Node) \in Nat
  BY <1>5, NodeAssumption, FS_CardinalityType
<1>9. 1 + Cardinality(others) > Cardinality(Node) \div 2
  BY <1>3 DEF HaveWeReachedQuorum
<1>10. 2 * Cardinality(V) > Cardinality(Node)
  <2>1. Cardinality(V) >= Cardinality(Node) \div 2 + 1
    BY <1>6, <1>7, <1>8, <1>9
  <2> QED
    BY <1>8, <2>1, NodeAssumption
<1> QED
  BY <1>4, <1>10 DEF V

\* The clusters, or the runs, in which the votes of earlier terms do no harm.
SmallOrFirstTerm == Cardinality(Node) <= 3 \/ MaxTerm <= 1

LEMMA MajorityStep ==
    ASSUME SmallOrFirstTerm, TypeOK, VotesAreRecorded, TallyWasGranted,
           TalliesAreOfOthers, [Next]_vars, NEW n \in Node, Elected(n)
    PROVE  2 * Cardinality(Voters(n, term[n])') > Cardinality(Node)
<1>1. Cardinality(Node) # 1
  BY DEF TalliesAreOfOthers, Elected
<1>2. PICK m \in DOMAIN msgs : m.dst = n /\ ElectionWon(m)
  BY <1>1, OnlyElected
<1>3. /\ m.src \in Node /\ m.src # n /\ term[n] \in Nat
      /\ UNCHANGED <<term, granted>>
      /\ [voter |-> n, candidate |-> n, term |-> term[n]] \in granted
      /\ [voter |-> m.src, candidate |-> n, term |-> term[n]] \in granted
  BY <1>2, VictoryVotes DEF SelfVote
<1>4. Voters(n, term[n])' = Voters(n, term[n])
  BY <1>3 DEF Voters
<1>5. Cardinality(Node) \in Nat
  BY NodeAssumption, FS_CardinalityType
<1>6. CASE Cardinality(Node) <= 3
  <2> DEFINE V == Voters(n, term[n])
  <2>1. Cardinality(Node) <= 3
    BY <1>6
  <2>2. {n} \cup {m.src} \subseteq V /\ V \subseteq Node
    <3>1. n \in V /\ m.src \in V
      BY <1>3 DEF Voters
    <3>2. V \subseteq Node
      BY DEF Voters
    <3> QED
      BY <3>1, <3>2
  <2>3. IsFiniteSet({n}) /\ Cardinality({n}) = 1 /\ m.src \notin {n}
    BY <1>3, FS_Singleton
  <2>4. Cardinality({n} \cup {m.src}) = 2
    <3>1. Cardinality({n} \cup {m.src}) = Cardinality({n}) + 1
      BY <2>3, FS_AddElement
    <3> QED
      BY <2>3, <3>1
  <2> HIDE DEF V
  <2>5. IsFiniteSet(V)
    BY <2>2, NodeAssumption, FS_Subset
  <2>6. Cardinality(V) \in Nat /\ 2 <= Cardinality(V)
    BY <2>2, <2>4, <2>5, FS_Subset, FS_CardinalityType
  <2>7. 2 * Cardinality(V) > Cardinality(Node)
    BY <1>5, <2>1, <2>6
  <2> QED
    BY <1>4, <2>7 DEF V
<1>7. CASE MaxTerm <= 1
  <2>1. \A g \in granted : g.term = 1
    BY <1>7, BoundsAssumption DEF TalliesAreOfOthers
  <2>2. term[n] = 1
    BY <1>3, <2>1
  <2>3. granted \subseteq [voter : Node, candidate : Node, term : Nat]
    BY DEF TypeOK, RecordsOK
  <2>4. VotersUpTo(n, term[n]) \subseteq Voters(n, term[n])
    BY <2>1, <2>2, <2>3 DEF VotersUpTo, Voters
  <2>5. Voters(n, term[n]) \subseteq VotersUpTo(n, term[n])
    BY <1>3 DEF VotersUpTo, Voters
  <2>6. VotersUpTo(n, term[n])' = VotersUpTo(n, term[n])
    BY <1>3 DEF VotersUpTo
  <2>7. Voters(n, term[n])' = VotersUpTo(n, term[n])'
    <3>1. Voters(n, term[n]) = VotersUpTo(n, term[n])
      BY <2>4, <2>5
    <3> QED
      BY <1>4, <2>6, <3>1
  <2>8. 2 * Cardinality(VotersUpTo(n, term[n])') > Cardinality(Node)
    BY MajorityUpToStep
  <2> QED
    BY <2>7, <2>8
<1> QED
  BY <1>6, <1>7 DEF SmallOrFirstTerm

\* In a cluster of any size a node becomes leader only after a majority of the
\* nodes voted for it, in the term of its victory or in an earlier one
\* (have_we_reached_quorum), whatever is lost, late, stopped or started again.
THEOREM MajorityUpToTerm == Spec => ElectedUpToTerm
<1>1. Spec => []TypeOK
  BY TypeCorrect
<1>2. Spec => []TallyWasGranted
  BY TalliesAreGranted
<1>3. TypeOK /\ VotesAreRecorded /\ TallyWasGranted /\ TalliesAreOfOthers
        /\ [Next]_vars =>
        [\A n \in Node :
            status[n] # "leader" /\ status'[n] = "leader" =>
                2 * Cardinality(VotersUpTo(n, term[n])') > Cardinality(Node)]_vars
  BY MajorityUpToStep DEF Elected
<1> QED
  BY <1>1, <1>2, <1>3, RecordedInit, RecordedStep, OthersInit, OthersStep, PTL
     DEF Spec, ElectedUpToTerm

\* A node becomes leader only in a term in which a majority of the nodes voted
\* for it, in a cluster of three, restarts and lost messages included, and in
\* the first term of a cluster of any size.
THEOREM MajorityOfTheTerm ==
    ASSUME SmallOrFirstTerm
    PROVE  Spec => ElectedByMajority
<1>1. Spec => []TypeOK
  BY TypeCorrect
<1>2. Spec => []TallyWasGranted
  BY TalliesAreGranted
<1>3. TypeOK /\ VotesAreRecorded /\ TallyWasGranted /\ TalliesAreOfOthers
        /\ [Next]_vars =>
        [\A n \in Node :
            status[n] # "leader" /\ status'[n] = "leader" =>
                2 * Cardinality(Voters(n, term[n])') > Cardinality(Node)]_vars
  BY MajorityStep DEF Elected
<1> QED
  BY <1>1, <1>2, <1>3, RecordedInit, RecordedStep, OthersInit, OthersStep, PTL
     DEF Spec, ElectedByMajority

(***************************************************************************)
(* A vote is given once.                                                   *)
(***************************************************************************)
Led(t) == \E l \in led : l[2] = t

\* voted_for as the candidate it stands for.
VotedFor(n) == IF voted_for[n] = DefaultId THEN n ELSE voted_for[n]

\* Leaders, and those who send append requests, know that their term is led.  A
\* vote is of a term its voter has reached; while the voter is still in that
\* term, and nobody leads it, voted_for remembers it.  A restart forgets it.
VotesAreRemembered ==
    /\ InitialStatus = "leader" => \A n \in Node : <<n, 0>> \in led
    /\ \A n \in Node : status[n] = "leader" => Led(term[n])
    /\ \A m \in DOMAIN msgs : m.type = "EntriesReq" => Led(m.term)
    /\ \A g \in granted : boots[g.voter] = 0 =>
          /\ g.term <= term[g.voter]
          /\ g.term = term[g.voter] => Led(g.term) \/ VotedFor(g.voter) = g.candidate

VotesHeld == TypeOK /\ VotesAreRemembered /\ VotesOnceUntilLed

LEMMA RememberedInit == Init => VotesAreRemembered /\ VotesOnceUntilLed
<1> SUFFICES ASSUME Init PROVE VotesAreRemembered /\ VotesOnceUntilLed
  OBVIOUS
<1>1. ASSUME NEW n \in Node, status[n] = "leader"
      PROVE  Led(term[n])
  <2>1. InitialStatus = "leader" /\ term[n] = 0
    BY <1>1 DEF Init
  <2>2. <<n, 0>> \in led
    BY <2>1 DEF Init
  <2> QED
    BY <2>1, <2>2 DEF Led
<1> QED
  BY <1>1 DEF Init, VotesAreRemembered, VotesOnceUntilLed, EmptyBag, SetToBag

\* What a step has to show that gives no vote: whoever is in a new term, or has
\* forgotten its vote, has none to remember.
LEMMA RememberedKept ==
    ASSUME VotesHeld, granted' = granted, led \subseteq led',
           \A n \in Node : status'[n] = "leader" => Led(term[n])',
           \A x \in DOMAIN msgs' : x.type = "EntriesReq" =>
              x \in DOMAIN msgs \/ Led(x.term)',
           \A n \in Node : boots'[n] = 0 =>
              /\ boots[n] = 0 /\ term[n] <= term'[n] /\ term'[n] \in Nat
              /\ term'[n] = term[n] => Led(term[n])' \/ VotedFor(n)' = VotedFor(n)
    PROVE  VotesAreRemembered' /\ VotesOnceUntilLed'
<1>1. ASSUME NEW t, Led(t)
      PROVE  Led(t)'
  BY <1>1 DEF Led
<1>2. ASSUME NEW x \in DOMAIN msgs', x.type = "EntriesReq"
      PROVE  Led(x.term)'
  <2>1. x \in DOMAIN msgs => Led(x.term)
    BY <1>2 DEF VotesHeld, VotesAreRemembered
  <2> QED
    BY <1>1, <1>2, <2>1
<1>3. ASSUME NEW g \in granted, boots'[g.voter] = 0
      PROVE  /\ g.term <= term'[g.voter]
             /\ g.term = term'[g.voter] => Led(g.term)' \/ VotedFor(g.voter)' = g.candidate
  <2>1. /\ g.voter \in Node /\ g.term \in Nat /\ term[g.voter] \in Nat
        /\ g.term <= term[g.voter]
        /\ g.term = term[g.voter] => Led(g.term) \/ VotedFor(g.voter) = g.candidate
    BY <1>3 DEF VotesHeld, VotesAreRemembered, TypeOK, NodesOK, RecordsOK
  <2>2. term[g.voter] <= term'[g.voter] /\ term'[g.voter] \in Nat
    BY <1>3, <2>1
  <2>3. g.term <= term'[g.voter]
    BY <2>1, <2>2
  <2>4. CASE g.term = term'[g.voter]
    <3>1. term'[g.voter] = term[g.voter] /\ g.term = term[g.voter]
      BY <2>1, <2>2, <2>4
    <3>2. Led(g.term) => Led(g.term)'
      BY <1>1
    <3>3. Led(term[g.voter])' => Led(g.term)'
      BY <2>4 DEF Led
    <3> QED
      BY <1>3, <2>1, <2>3, <3>1, <3>2, <3>3
  <2> QED
    BY <2>3, <2>4
<1>4. InitialStatus = "leader" => \A n \in Node : <<n, 0>> \in led'
  BY DEF VotesHeld, VotesAreRemembered
<1>5. VotesAreRemembered'
  BY <1>2, <1>3, <1>4 DEF VotesAreRemembered, InitialStatus
<1>6. VotesOnceUntilLed'
  <2>1. \A g \in granted : boots'[g.voter] = 0 => boots[g.voter] = 0
    BY DEF VotesHeld, TypeOK, RecordsOK
  <2> QED
    BY <2>1 DEF VotesHeld, VotesOnceUntilLed
<1> QED
  BY <1>5, <1>6

\* What a step has to show that gives a vote: it is the first of its term by
\* this voter, or for the candidate of the first, or the term has a leader.
LEMMA RememberedGrant ==
    ASSUME VotesHeld, NEW n \in Node, NEW c \in Node, NEW t \in Nat,
           granted' = granted \cup {[voter |-> n, candidate |-> c, term |-> t]},
           led \subseteq led', term' = [term EXCEPT ![n] = t], UNCHANGED boots,
           \/ term[n] < t
           \/ /\ term[n] = t
              /\ \/ voted_for[n] = None
                 \/ voted_for[n] = c,
           VotedFor(n)' = c, \A s \in Node \ {n} : voted_for'[s] = voted_for[s],
           \A s \in Node : status'[s] = "leader" => Led(term[s])',
           \A x \in DOMAIN msgs' : x.type = "EntriesReq" => x \in DOMAIN msgs
    PROVE  VotesAreRemembered' /\ VotesOnceUntilLed'
<1> DEFINE vote == [voter |-> n, candidate |-> c, term |-> t]
<1>1. ASSUME NEW u, Led(u)
      PROVE  Led(u)'
  BY <1>1 DEF Led
<1>2. /\ term \in [Node -> Nat] /\ None \notin Node /\ DefaultId \notin Node
      /\ None # DefaultId
      /\ \A g \in granted : /\ g.voter \in Node /\ g.candidate \in Node
                            /\ g.term \in Nat
      /\ vote.voter = n /\ vote.candidate = c /\ vote.term = t
  BY NodeAssumption DEF VotesHeld, TypeOK, NodesOK, RecordsOK
<1> HIDE DEF vote
\* An earlier vote of this voter in this term is for the same candidate, or the
\* term is led.
<1>3. ASSUME NEW g \in granted, g.voter = n, g.term = t, boots[n] = 0
      PROVE  g.candidate = c \/ Led(t)
  <2>1. /\ g.term <= term[n]
        /\ g.term = term[n] => Led(t) \/ VotedFor(n) = g.candidate
    BY <1>3 DEF VotesHeld, VotesAreRemembered
  <2>2. term[n] = t
    BY <1>2, <1>3, <2>1
  <2>3. VotedFor(n) = voted_for[n]
    BY <1>2, <2>2 DEF VotedFor
  <2> QED
    BY <1>2, <1>3, <2>1, <2>2, <2>3
<1>4. \A x \in DOMAIN msgs' : x.type = "EntriesReq" => Led(x.term)'
  BY <1>1 DEF VotesHeld, VotesAreRemembered
<1>5. ASSUME NEW g \in granted', boots[g.voter] = 0
      PROVE  /\ g.term <= term'[g.voter]
             /\ g.term = term'[g.voter] => Led(g.term)' \/ VotedFor(g.voter)' = g.candidate
  <2>1. CASE g = vote
    BY <1>2, <2>1
  <2>2. CASE g \in granted /\ g.voter # n
    <3>1. /\ term'[g.voter] = term[g.voter] /\ VotedFor(g.voter)' = VotedFor(g.voter)
          /\ g.voter \in Node
      BY <1>2, <2>2 DEF VotedFor
    <3>2. /\ g.term <= term[g.voter]
          /\ g.term = term[g.voter] => Led(g.term) \/ VotedFor(g.voter) = g.candidate
      BY <1>5, <2>2 DEF VotesHeld, VotesAreRemembered
    <3> QED
      BY <1>1, <3>1, <3>2
  <2>3. CASE g \in granted /\ g.voter = n
    <3>1. g.term <= term[n] /\ term'[n] = t /\ term[n] \in Nat /\ g.term \in Nat
      BY <1>2, <1>5, <2>3 DEF VotesHeld, VotesAreRemembered
    <3>2. term[n] <= t
      BY <3>1
    <3>3. g.term = t => Led(t)' \/ g.candidate = c
      BY <1>1, <1>3, <1>5, <2>3
    <3> QED
      BY <2>3, <3>1, <3>2, <3>3
  <2> QED
    BY <2>1, <2>2, <2>3 DEF vote
<1>6. VotesAreRemembered'
  <2>1. InitialStatus = "leader" => \A s \in Node : <<s, 0>> \in led'
    BY DEF VotesHeld, VotesAreRemembered
  <2> QED
    BY <1>4, <1>5, <2>1 DEF VotesAreRemembered, InitialStatus
<1>7. VotesOnceUntilLed'
  <2>1. ASSUME NEW g \in granted', NEW h \in granted', g.voter = h.voter,
               boots[g.voter] = 0, g.term = h.term, g.candidate # h.candidate
        PROVE  Led(g.term)'
    <3>1. CASE g \in granted /\ h \in granted
      <4>1. Led(g.term)
        BY <2>1, <3>1 DEF VotesHeld, VotesOnceUntilLed, Led
      <4> QED
        BY <1>1, <4>1
    <3>2. CASE g = vote /\ h \in granted
      BY <1>1, <1>2, <1>3, <2>1, <3>2
    <3>3. CASE h = vote /\ g \in granted
      BY <1>1, <1>2, <1>3, <2>1, <3>3
    <3>4. CASE g = vote /\ h = vote
      BY <2>1, <3>4
    <3> QED
      BY <3>1, <3>2, <3>3, <3>4 DEF vote
  <2> QED
    BY <2>1 DEF VotesOnceUntilLed, Led
<1> QED
  BY <1>6, <1>7

LEMMA RememberedStep ==
    ASSUME VotesHeld, [Next]_vars
    PROVE  VotesAreRemembered' /\ VotesOnceUntilLed'
<1>1. /\ term \in [Node -> Nat]
      /\ status \in [Node -> {"follower", "candidate", "leader"}]
      /\ voted_for \in [Node -> Node \cup {None, DefaultId}]
      /\ \A n \in Node : status[n] = "leader" => Led(term[n])
      /\ None \notin Node /\ DefaultId \notin Node /\ None # DefaultId
  BY NodeAssumption DEF VotesHeld, TypeOK, NodesOK, VotesAreRemembered
<1>2. ASSUME led \subseteq led', NEW t, Led(t)
      PROVE  Led(t)'
  BY <1>2 DEF Led
<1>3. ASSUME NEW n \in Node, SendAppendEntries(n)
      PROVE  VotesAreRemembered' /\ VotesOnceUntilLed'
  <2> DEFINE S == {AppendRequest(n, s, next_index[n][s], commit_index[n]) :
                      s \in Seeds(n)}
  <2>1. /\ msgs' = Send(S) /\ status[n] = "leader"
        /\ UNCHANGED <<term, status, voted_for, boots, granted, led>>
    BY <1>3 DEF SendAppendEntries, persistent, election, process, history
  <2>2. \A x \in S : x.term = term[n]
    BY DEF AppendRequest
  <2> HIDE DEF S
  <2>3. \A x \in DOMAIN msgs' : x \in DOMAIN msgs \/ x \in S
    BY <2>1, InFlightAfterRound DEF VotesHeld
  <2>4. \A x \in S : Led(x.term)'
    BY <1>1, <1>2, <2>1, <2>2
  <2>5. \A s \in Node : /\ status'[s] = "leader" => Led(term[s])'
                        /\ term[s] <= term'[s] /\ term'[s] \in Nat
                        /\ VotedFor(s)' = VotedFor(s)
    BY <1>1, <1>2, <2>1 DEF Led, VotedFor
  <2> QED
    BY <2>1, <2>3, <2>4, <2>5, RememberedKept
<1>4. ASSUME NEW n \in Node, SwitchToCandidate(n)
      PROVE  VotesAreRemembered' /\ VotesOnceUntilLed'
  <2> DEFINE S == {VoteRequest(n, s, term[n] + 1) : s \in Seeds(n)}
  <2>1. /\ msgs' = Send(S) /\ UNCHANGED <<boots, led>>
        /\ status' = [status EXCEPT ![n] = "candidate"]
        /\ term' = [term EXCEPT ![n] = term[n] + 1]
        /\ voted_for' = [voted_for EXCEPT ![n] = DefaultId]
        /\ granted' = granted \cup
              {[voter |-> n, candidate |-> n, term |-> term[n] + 1]}
    BY <1>4 DEF SwitchToCandidate, process
  <2>2. \A x \in S : x.type # "EntriesReq"
    BY DEF VoteRequest
  <2> HIDE DEF S
  <2>3. \A x \in DOMAIN msgs' : x.type = "EntriesReq" => x \in DOMAIN msgs
    BY <2>1, <2>2, InFlightAfterRound DEF VotesHeld
  <2>4. /\ term[n] + 1 \in Nat /\ term[n] < term[n] + 1 /\ VotedFor(n)' = n
        /\ \A s \in Node \ {n} : voted_for'[s] = voted_for[s]
    BY <1>1, <2>1 DEF VotedFor
  <2>5. \A s \in Node : status'[s] = "leader" => Led(term[s])'
    BY <1>1, <1>2, <2>1 DEF Led
  <2> QED
    BY <2>1, <2>3, <2>4, <2>5, RememberedGrant
<1>5. ASSUME NEW m \in DOMAIN msgs, ElectionWon(m)
      PROVE  VotesAreRemembered' /\ VotesOnceUntilLed'
  <2> DEFINE n == m.dst
             after == entries[n].last_index + 1
             S == {AppendRequest(n, s, after, 0) : s \in Seeds(n)}
  <2>1. /\ n \in Node /\ msgs' = Without(m) (+) SetToBag(S)
        /\ UNCHANGED <<term, boots, granted>>
        /\ status' = [status EXCEPT ![n] = "leader"]
        /\ voted_for' = [voted_for EXCEPT ![n] = None]
        /\ led' = led \cup {<<n, term[n]>>}
    BY <1>5, Delivered DEF ElectionWon, persistent, process, VotesHeld
  <2>2. \A x \in S : x.term = term[n]
    BY DEF AppendRequest
  <2> HIDE DEF S
  <2>3. \A x \in DOMAIN msgs' : x \in DOMAIN msgs \/ x \in S
    BY <2>1, InFlightAfterRound DEF VotesHeld
  <2>4. Led(term[n])'
    <3>1. <<n, term[n]>> \in led' /\ term'[n] = term[n]
      BY <2>1
    <3> HIDE DEF n
    <3> QED
      BY <3>1 DEF Led
  <2>5. \A x \in S : Led(x.term)'
    BY <2>1, <2>2, <2>4
  <2>6. \A s \in Node : /\ status'[s] = "leader" => Led(term[s])'
                        /\ term[s] <= term'[s] /\ term'[s] \in Nat
                        /\ Led(term[s])' \/ VotedFor(s)' = VotedFor(s)
    <3>1. ASSUME NEW s \in Node, s # n
          PROVE  /\ status'[s] = status[s] /\ term'[s] = term[s]
                 /\ VotedFor(s)' = VotedFor(s)
      BY <1>1, <2>1, <3>1 DEF VotedFor
    <3>2. ASSUME NEW s \in Node, s # n, status'[s] = "leader"
          PROVE  Led(term[s])'
      <4>1. Led(term[s])
        BY <1>1, <3>1, <3>2
      <4> QED
        BY <2>1, <4>1 DEF Led
    <3> QED
      BY <1>1, <2>1, <2>4, <3>1, <3>2
  <2> QED
    BY <2>1, <2>3, <2>5, <2>6, RememberedKept
\* Every other handler of a message: the message it handles, when it carries
\* entries, comes from a term that is led.
<1>6. ASSUME NEW m \in DOMAIN msgs, Answering(m)
      PROVE  VotesAreRemembered' /\ VotesOnceUntilLed'
  <2>0. UNCHANGED boots
    BY <1>6 DEF Answering, RequestVoteStale, RequestVoteFresh, RequestVoteAgain,
         VoteIgnored, VoteFromNewerTerm, VoteCounted, AppendEntriesStale, Follow,
         AppendEntriesUnmatched, AppendEntriesHeartbeat, AppendEntriesBatch,
         AppendRespIgnored, AppendRespReplicated, AppendRespRefused,
         Undeliverable, Lose, Discard, process
  <2>1. /\ m.dst \in Node /\ m.src \in Node /\ m.term \in Nat
        /\ term[m.dst] \in Nat
    BY <1>6, Delivered DEF VotesHeld
  <2>2. \A x \in DOMAIN msgs' : x.type = "EntriesReq" => x \in DOMAIN msgs
    BY <1>6, RequestsInFlight DEF IsRequest, VotesHeld
  <2>3. \A s \in Node : term[s] <= term'[s] /\ term'[s] \in Nat
    BY <1>6, TermsGrow DEF VotesHeld
  <2>4. CASE RequestVoteFresh(m)
    <3>1. /\ term[m.dst] < m.term \/ (term[m.dst] = m.term /\ voted_for[m.dst] = None)
          /\ term' = [term EXCEPT ![m.dst] = m.term]
          /\ led' = IF status'[m.dst] = "leader" THEN led \cup {<<m.dst, m.term>>}
                    ELSE led
      BY <2>4 DEF RequestVoteFresh
    <3>2. led \subseteq led'
      BY <3>1
    <3>3. \A s \in Node \ {m.dst} : status'[s] = status[s] /\ term'[s] = term[s]
                                    /\ voted_for'[s] = voted_for[s]
      BY <1>1, <2>4 DEF RequestVoteFresh
    <3>4. \A s \in Node : status'[s] = "leader" => Led(term[s])'
      <4>1. ASSUME NEW s \in Node \ {m.dst}, status'[s] = "leader"
            PROVE  Led(term[s])'
        <5>1. Led(term[s]) /\ term'[s] = term[s]
          BY <1>1, <3>3, <4>1
        <5> QED
          BY <3>2, <5>1 DEF Led
      <4>2. ASSUME status'[m.dst] = "leader"
            PROVE  Led(term[m.dst])'
        <5>1. term'[m.dst] = m.term /\ <<m.dst, m.term>> \in led'
          BY <1>1, <2>1, <3>1, <4>2
        <5> QED
          BY <5>1 DEF Led
      <4> QED
        BY <4>1, <4>2
    <3>5. CASE UpToDate(m.dst, m)
      <4>1. /\ voted_for' = [voted_for EXCEPT ![m.dst] = m.src]
            /\ granted' = granted \cup {[voter |-> m.dst, candidate |-> m.src,
                                         term |-> m.term]}
        BY <2>4, <3>5 DEF RequestVoteFresh
      <4>2. VotedFor(m.dst)' = m.src
        BY <1>1, <2>1, <4>1 DEF VotedFor
      <4> QED
        BY <2>0, <2>1, <2>2, <3>1, <3>2, <3>3, <3>4, <4>1, <4>2, RememberedGrant
    <3>6. CASE ~UpToDate(m.dst, m)
      <4>1. UNCHANGED <<voted_for, granted>>
        BY <2>4, <3>6 DEF RequestVoteFresh
      <4>2. \A s \in Node : VotedFor(s)' = VotedFor(s)
        BY <4>1 DEF VotedFor
      <4> QED
        BY <2>0, <2>2, <2>3, <3>2, <3>4, <4>1, <4>2, RememberedKept
    <3> QED
      BY <3>5, <3>6
  <2>5. CASE RequestVoteAgain(m) /\ GrantsAgain(m.dst, m)
    <3>1. /\ term[m.dst] = m.term /\ voted_for[m.dst] = m.src
          /\ UNCHANGED <<term, status, voted_for, led>>
          /\ granted' = granted \cup {[voter |-> m.dst, candidate |-> m.src,
                                       term |-> m.term]}
      BY <2>5 DEF RequestVoteAgain, GrantsAgain, persistent, election
    <3>2. term' = [term EXCEPT ![m.dst] = m.term]
      BY <1>1, <3>1
    <3>3. VotedFor(m.dst)' = m.src
      BY <1>1, <2>1, <3>1 DEF VotedFor
    <3>4. \A s \in Node : status'[s] = "leader" => Led(term[s])'
      BY <1>1, <3>1 DEF Led
    <3> QED
      BY <2>0, <2>1, <2>2, <3>1, <3>2, <3>3, <3>4, RememberedGrant
  <2>6. CASE VoteFromNewerTerm(m)
    <3>1. /\ term[m.dst] < m.term /\ term' = [term EXCEPT ![m.dst] = m.term]
          /\ status' = [status EXCEPT ![m.dst] = "follower"]
          /\ voted_for' = [voted_for EXCEPT ![m.dst] = None]
          /\ UNCHANGED <<granted, led>>
      BY <2>6 DEF VoteFromNewerTerm, history
    <3>2. \A s \in Node : status'[s] = "leader" => Led(term[s])'
      BY <1>1, <2>1, <3>1 DEF Led
    <3>3. \A s \in Node : term'[s] = term[s] => VotedFor(s)' = VotedFor(s)
      BY <1>1, <2>1, <3>1 DEF VotedFor
    <3> QED
      BY <2>0, <2>2, <2>3, <3>1, <3>2, <3>3, RememberedKept
  <2>7. CASE \/ AppendEntriesUnmatched(m) \/ AppendEntriesHeartbeat(m)
             \/ AppendEntriesBatch(m)
    <3>1. /\ Led(m.term)
          /\ term' = [term EXCEPT ![m.dst] = m.term]
          /\ status' = [status EXCEPT ![m.dst] = "follower"]
          /\ voted_for' = [voted_for EXCEPT ![m.dst] = m.src]
          /\ UNCHANGED <<granted, led>>
      BY <2>7 DEF AppendEntriesUnmatched, AppendEntriesHeartbeat,
              AppendEntriesBatch, Received, Follow, history, VotesHeld,
              VotesAreRemembered
    <3>2. \A s \in Node : status'[s] = "leader" => Led(term[s])'
      BY <1>1, <2>1, <3>1 DEF Led
    <3>3. \A s \in Node : Led(term[s])' \/ VotedFor(s)' = VotedFor(s)
      BY <1>1, <2>1, <3>1 DEF VotedFor, Led
    <3> QED
      BY <2>0, <2>2, <2>3, <3>1, <3>2, <3>3, RememberedKept
  <2>8. CASE UNCHANGED <<term, status, voted_for, granted, led>>
    <3>1. \A s \in Node : /\ status'[s] = "leader" => Led(term[s])'
                          /\ VotedFor(s)' = VotedFor(s)
      BY <1>1, <2>8 DEF Led, VotedFor
    <3> QED
      BY <2>0, <2>2, <2>3, <2>8, <3>1, RememberedKept
  <2>9. ASSUME ~RequestVoteFresh(m), ~VoteFromNewerTerm(m),
               ~AppendEntriesUnmatched(m), ~AppendEntriesHeartbeat(m),
               ~AppendEntriesBatch(m),
               ~(RequestVoteAgain(m) /\ GrantsAgain(m.dst, m))
        PROVE  UNCHANGED <<term, status, voted_for, granted, led>>
    BY <1>6, <2>9 DEF Answering, RequestVoteStale, RequestVoteAgain, VoteIgnored,
         VoteCounted, AppendEntriesStale, AppendRespIgnored, AppendRespReplicated,
         AppendRespRefused, Undeliverable, Lose, Discard, persistent, election,
         history
  <2> QED
    BY <2>4, <2>5, <2>6, <2>7, <2>8, <2>9
<1>7. ASSUME NEW n \in Node, Stop(n)
      PROVE  VotesAreRemembered' /\ VotesOnceUntilLed'
  <2>1. /\ DOMAIN msgs' \subseteq DOMAIN msgs /\ UNCHANGED <<granted, led>>
        /\ term' = [term EXCEPT ![n] = 0]
        /\ status' = [status EXCEPT ![n] = InitialStatus]
        /\ voted_for' = [voted_for EXCEPT ![n] = None]
        /\ boots' = [boots EXCEPT ![n] = boots[n] + 1] /\ boots \in [Node -> Nat]
    BY <1>7 DEF Stop, history, VotesHeld, TypeOK, NodesOK
  <2>2. \A s \in Node : boots'[s] = 0 => s # n /\ boots[s] = 0
    BY <2>1
  <2>3. \A s \in Node : boots'[s] = 0 =>
              /\ boots[s] = 0 /\ term[s] <= term'[s] /\ term'[s] \in Nat
              /\ VotedFor(s)' = VotedFor(s)
    BY <1>1, <2>1, <2>2 DEF VotedFor
  <2>4. ASSUME NEW s \in Node, status'[s] = "leader"
        PROVE  Led(term[s])'
    <3>1. CASE s = n
      <4>1. InitialStatus = "leader" /\ term'[s] = 0
        BY <1>1, <2>1, <2>4, <3>1
      <4>2. <<s, 0>> \in led'
        BY <2>1, <4>1 DEF VotesHeld, VotesAreRemembered
      <4> QED
        BY <4>1, <4>2 DEF Led
    <3>2. CASE s # n
      <4>1. Led(term[s]) /\ term'[s] = term[s]
        BY <1>1, <2>1, <2>4, <3>2
      <4> QED
        BY <2>1, <4>1 DEF Led
    <3> QED
      BY <3>1, <3>2
  <2> QED
    BY <2>1, <2>3, <2>4, RememberedKept
<1>8. ASSUME \/ \E n \in Node : Start(n)
             \/ \E n \in Node, r \in Request : AppendStreamRefused(n, r)
             \/ \E n \in Node, r \in Request, size \in BatchSizes :
                   AppendStreamAccepted(n, r, size)
             \/ UNCHANGED vars
      PROVE  VotesAreRemembered' /\ VotesOnceUntilLed'
  <2>1. UNCHANGED <<term, status, voted_for, boots, msgs, granted, led>>
    BY <1>8 DEF Start, AppendStreamRefused, AppendStreamAccepted, vars, persistent,
                election, process, history
  <2> QED
    BY <2>1 DEF VotesHeld, VotesAreRemembered, VotesOnceUntilLed, Led, VotedFor,
                InitialStatus
<1> QED
  BY <1>3, <1>4, <1>5, <1>6, <1>7, <1>8 DEF Next, Tick, Handle, Answering

\* A node that has not restarted gives its vote in a term that nobody leads to
\* one candidate only: to itself, under the default id, or to the one voted_for
\* names, through refusals that leave an older vote in place.
THEOREM VotesGivenOnce == Spec => []VotesOnceUntilLed
<1>1. Spec => []TypeOK
  BY TypeCorrect
<1>2. TypeOK /\ VotesAreRemembered /\ VotesOnceUntilLed /\ [Next]_vars
        => VotesAreRemembered' /\ VotesOnceUntilLed'
  BY RememberedStep DEF VotesHeld
<1> QED
  BY <1>1, <1>2, RememberedInit, PTL DEF Spec

(***************************************************************************)
(* The elections of a cluster of three, and those of a first term, are     *)
(* elections of Elections.tla.                                             *)
(***************************************************************************)
LeadersAreRecorded ==
    \A n \in Node : status[n] = "leader" => <<n, term[n]>> \in led

LEMMA LeadersInit == Init => LeadersAreRecorded
BY DEF Init, LeadersAreRecorded

LEMMA LeadersStep ==
    ASSUME TypeOK, VotesAreRemembered, LeadersAreRecorded, [Next]_vars
    PROVE  LeadersAreRecorded'
<1>1. /\ term \in [Node -> Nat]
      /\ status \in [Node -> {"follower", "candidate", "leader"}]
  BY DEF TypeOK, NodesOK
<1>2. ASSUME NEW n \in Node, status' = [status EXCEPT ![n] = "follower"],
             led \subseteq led', \A s \in Node \ {n} : term'[s] = term[s]
      PROVE  LeadersAreRecorded'
  BY <1>1, <1>2 DEF LeadersAreRecorded
<1>3. ASSUME UNCHANGED <<status, term, led>>
      PROVE  LeadersAreRecorded'
  BY <1>3 DEF LeadersAreRecorded
<1>4. ASSUME NEW n \in Node, SwitchToCandidate(n) \/ Stop(n)
      PROVE  LeadersAreRecorded'
  <2>1. /\ UNCHANGED led /\ \A s \in Node \ {n} : term'[s] = term[s]
        /\ \A s \in Node \ {n} : status'[s] = status[s]
    BY <1>1, <1>4 DEF SwitchToCandidate, Stop, history
  <2>2. status'[n] = "leader" => InitialStatus = "leader" /\ term'[n] = 0
    BY <1>1, <1>4 DEF SwitchToCandidate, Stop
  <2>3. status'[n] = "leader" => <<n, term'[n]>> \in led'
    BY <2>1, <2>2 DEF VotesAreRemembered
  <2> QED
    BY <2>1, <2>3 DEF LeadersAreRecorded
<1>5. ASSUME NEW m \in DOMAIN msgs, ElectionWon(m)
      PROVE  LeadersAreRecorded'
  <2>1. /\ status' = [status EXCEPT ![m.dst] = "leader"] /\ UNCHANGED term
        /\ led' = led \cup {<<m.dst, term[m.dst]>>}
    BY <1>5 DEF ElectionWon, persistent
  <2> QED
    BY <1>1, <2>1 DEF LeadersAreRecorded
<1>6. ASSUME NEW m \in DOMAIN msgs, Answering(m)
      PROVE  LeadersAreRecorded'
  <2>1. m.dst \in Node
    BY <1>6, Delivered
  <2>2. CASE RequestVoteFresh(m)
    <3>1. /\ led' = IF status'[m.dst] = "leader"
                    THEN led \cup {<<m.dst, m.term>>} ELSE led
          /\ term' = [term EXCEPT ![m.dst] = m.term]
          /\ UNCHANGED status \/ status' = [status EXCEPT ![m.dst] = "follower"]
      BY <2>2 DEF RequestVoteFresh
    <3>2. ASSUME NEW s \in Node, status'[s] = "leader", s # m.dst
          PROVE  <<s, term'[s]>> \in led'
      BY <1>1, <2>1, <3>1, <3>2 DEF LeadersAreRecorded
    <3>3. ASSUME status'[m.dst] = "leader"
          PROVE  <<m.dst, term'[m.dst]>> \in led'
      BY <1>1, <2>1, <3>1, <3>3
    <3> QED
      BY <3>2, <3>3 DEF LeadersAreRecorded
  <2>3. CASE ~RequestVoteFresh(m)
    <3>1. \/ UNCHANGED <<status, term, led>>
          \/ /\ status' = [status EXCEPT ![m.dst] = "follower"]
             /\ term' = [term EXCEPT ![m.dst] = m.term]
             /\ UNCHANGED led
      BY <1>6, <2>3 DEF Answering, RequestVoteStale, RequestVoteAgain, VoteIgnored,
         VoteFromNewerTerm, VoteCounted, AppendEntriesStale, Follow,
         AppendEntriesUnmatched, AppendEntriesHeartbeat, AppendEntriesBatch,
         AppendRespIgnored, AppendRespReplicated, AppendRespRefused, Undeliverable,
         Lose, Discard, persistent, election, history
    <3> QED
      BY <1>1, <1>2, <1>3, <2>1, <3>1
  <2> QED
    BY <2>2, <2>3
<1>7. \/ \E n \in Node : SwitchToCandidate(n) \/ Stop(n)
      \/ UNCHANGED <<status, term, led>>
      \/ \E m \in DOMAIN msgs : ElectionWon(m) \/ Answering(m)
  <2>1. Quiet => UNCHANGED <<status, term, led>>
    BY DEF Quiet
  <2> QED
    BY <2>1, ElectionSteps
<1> QED
  BY <1>3, <1>4, <1>5, <1>6, <1>7

ElectionsHeld ==
    /\ VotesHeld /\ VotesAreRecorded /\ TermsAreOpened /\ LeadersAreRecorded
    /\ TallyWasGranted /\ TalliesAreOfOthers

\* Whoever votes in a term it has not voted in, or again as voted_for says, may.
LEMMA GrantAllowed ==
    ASSUME ElectionsHeld, NEW n \in Node, NEW c \in Node, NEW t \in Nat,
           \/ term[n] < t
           \/ term[n] = t /\ (voted_for[n] = None \/ voted_for[n] = c)
    PROVE  E!MayVote(n, c, t)
<1> SUFFICES ASSUME n \notin Forgetful, ~Led(t)
             PROVE  \A g \in granted : g.voter = n /\ g.term = t => g.candidate = c
  BY DEF E!MayVote, Led
<1>1. boots[n] = 0 /\ term[n] \in Nat
  BY DEF Forgetful, ElectionsHeld, VotesHeld, TypeOK, NodesOK
<1>2. TAKE g \in granted
<1>3. SUFFICES ASSUME g.voter = n, g.term = t PROVE g.candidate = c
  OBVIOUS
<1>4. t <= term[n] /\ (t = term[n] => VotedFor(n) = g.candidate)
  BY <1>1, <1>3 DEF ElectionsHeld, VotesHeld, VotesAreRemembered
<1>5. term[n] = t /\ VotedFor(n) = g.candidate
  BY <1>1, <1>4
<1>6. g.candidate \in Node /\ None \notin Node /\ DefaultId \notin Node
      /\ None # DefaultId
  BY NodeAssumption DEF ElectionsHeld, VotesHeld, TypeOK, RecordsOK
<1> QED
  BY <1>1, <1>5, <1>6 DEF VotedFor

LEMMA CandidacyAllowed ==
    ASSUME ElectionsHeld, NEW n \in Node, SwitchToCandidate(n)
    PROVE  E!Candidacy(n)
<1> DEFINE t == term[n] + 1
<1>1. /\ term[n] \in Nat /\ Opened(term[n])
      /\ granted \subseteq [voter : Node, candidate : Node, term : Nat]
  BY DEF ElectionsHeld, VotesHeld, TypeOK, NodesOK, RecordsOK, TermsAreOpened
<1>2. t \in Nat /\ term[n] < t
  BY <1>1
<1>3. t \in {1} \cup {g.term + 1 : g \in granted}
  BY <1>1 DEF Opened
<1>4. /\ granted' = granted \cup {E!Ballot(n, n, t)}
      /\ UNCHANGED <<led, Forgetful>>
  BY DEF SwitchToCandidate, E!Ballot, process, Forgetful
<1> HIDE DEF t
<1>5. E!MayVote(n, n, t)
  BY <1>2, GrantAllowed
<1>6. E!Cast(n, n, t)
  BY <1>4, <1>5 DEF E!Cast
<1> QED
  BY <1>3, <1>6 DEF E!Candidacy

LEMMA VoteAllowed ==
    ASSUME ElectionsHeld, NEW m \in DOMAIN msgs, RequestVoteFresh(m) \/ RequestVoteAgain(m)
    PROVE  E!Vote(m.dst) \/ E!CarryOn(m.dst) \/ UNCHANGED <<granted, led, Forgetful>>
<1> DEFINE n == m.dst
           g == SelfVote(m.src, m.term)
<1>1. /\ n \in Node /\ m.src \in Node /\ m.term \in Nat /\ term[n] \in Nat
      /\ TypeOK
  BY Delivered DEF ElectionsHeld, VotesHeld
<1>2. m.type = "VoteReq"
  BY DEF RequestVoteFresh, RequestVoteAgain, Received
<1>3. g \in granted /\ g.voter = g.candidate /\ g.candidate = m.src /\ g.term = m.term
  BY <1>2 DEF ElectionsHeld, VotesAreRecorded, SelfVote
<1>4. UNCHANGED Forgetful
  BY DEF RequestVoteFresh, RequestVoteAgain, process, Forgetful
<1>5. ASSUME granted' = granted \cup {E!Ballot(n, m.src, m.term)}, UNCHANGED led,
             \/ term[n] < m.term
             \/ term[n] = m.term /\ (voted_for[n] = None \/ voted_for[n] = m.src)
      PROVE  E!Vote(n)
  <2>1. E!MayVote(n, m.src, m.term)
    BY <1>1, <1>5, GrantAllowed
  <2>2. E!Cast(n, g.candidate, g.term)
    BY <1>3, <1>4, <1>5, <2>1 DEF E!Cast
  <2> QED
    BY <1>3, <2>2 DEF E!Vote
<1>6. CASE RequestVoteFresh(m) /\ UpToDate(n, m)
  <2>1. /\ granted' = granted \cup {E!Ballot(n, m.src, m.term)}
        /\ term[n] < m.term \/ (term[n] = m.term /\ voted_for[n] = None)
        /\ status' = [status EXCEPT ![n] = "follower"]
        /\ led' = IF status'[n] = "leader" THEN led \cup {<<n, m.term>>} ELSE led
    BY <1>6 DEF RequestVoteFresh, E!Ballot
  <2>2. UNCHANGED led
    BY <1>1, <2>1 DEF TypeOK, NodesOK
  <2> QED
    BY <1>5, <2>1, <2>2
<1>7. CASE RequestVoteFresh(m) /\ ~UpToDate(n, m)
  <2>1. /\ UNCHANGED <<granted, status>>
        /\ term[n] < m.term \/ term[n] = m.term
        /\ led' = IF status[n] = "leader" THEN led \cup {<<n, m.term>>} ELSE led
    BY <1>7 DEF RequestVoteFresh
  <2>2. CASE status[n] # "leader"
    BY <1>4, <2>1, <2>2
  <2>3. CASE status[n] = "leader"
    <3>1. <<n, term[n]>> \in led
      BY <1>1, <2>3 DEF ElectionsHeld, LeadersAreRecorded
    <3>2. CASE term[n] = m.term
      BY <1>4, <2>1, <2>3, <3>1, <3>2
    <3>3. CASE term[n] < m.term
      <4> DEFINE l == <<n, term[n]>>
      <4>1. l \in led /\ l[1] = n /\ l[2] < g.term /\ led' = led \cup {<<n, g.term>>}
        BY <1>3, <2>1, <2>3, <3>1, <3>3
      <4> HIDE DEF l, g
      <4> QED
        BY <1>3, <1>4, <2>1, <4>1 DEF E!CarryOn
    <3> QED
      BY <2>1, <3>2, <3>3
  <2> QED
    BY <2>2, <2>3
<1>8. CASE RequestVoteAgain(m)
  <2>1. CASE GrantsAgain(n, m)
    <3>1. /\ granted' = granted \cup {E!Ballot(n, m.src, m.term)}
          /\ UNCHANGED led /\ term[n] = m.term /\ voted_for[n] = m.src
      BY <1>8, <2>1 DEF RequestVoteAgain, GrantsAgain, E!Ballot
    <3> QED
      BY <1>5, <3>1
  <2>2. CASE ~GrantsAgain(n, m)
    BY <1>4, <1>8, <2>2 DEF RequestVoteAgain
  <2> QED
    BY <2>1, <2>2
<1> QED
  BY <1>6, <1>7, <1>8

LEMMA WinAllowed ==
    ASSUME SmallOrFirstTerm, ElectionsHeld, NEW m \in DOMAIN msgs, ElectionWon(m)
    PROVE  E!Win(m.dst)
<1> DEFINE n == m.dst
           g == SelfVote(n, term[n])
<1>1. n \in Node /\ TypeOK /\ [Next]_vars
  BY Delivered DEF ElectionsHeld, VotesHeld, Next, Handle
<1>2. /\ m.type = "VoteResp" /\ m.vote_granted /\ m.term = term[n]
      /\ status[n] # "leader" /\ status' = [status EXCEPT ![n] = "leader"]
      /\ led' = led \cup {<<n, term[n]>>}
      /\ UNCHANGED <<granted, Forgetful>>
  BY DEF ElectionWon, Counts, Received, process, Forgetful
<1>3. g \in granted /\ g.term = term[n]
  BY <1>2 DEF ElectionsHeld, VotesAreRecorded, SelfVote
<1>4. Elected(n)
  BY <1>1, <1>2 DEF Elected, TypeOK, NodesOK
<1>5. 2 * Cardinality(Voters(n, term[n])') > Cardinality(Node)
  BY <1>1, <1>4, MajorityStep DEF ElectionsHeld
<1>6. UNCHANGED term
  BY DEF ElectionWon, persistent
<1>7. E!VotersOf(n, g.term) \in Majority
  <2>1. Voters(n, term[n])' = E!VotersOf(n, g.term)
    BY <1>2, <1>3, <1>6 DEF Voters, E!VotersOf, E!Ballot
  <2>2. E!VotersOf(n, g.term) \subseteq Node
    BY DEF E!VotersOf
  <2> QED
    BY <1>5, <2>1, <2>2 DEF Majority
<1> HIDE DEF n, g
<1>8. E!Win(n)
  BY <1>2, <1>3, <1>7 DEF E!Win
<1> QED
  BY <1>8 DEF n

LEMMA ElectionsStep ==
    ASSUME SmallOrFirstTerm, ElectionsHeld, [Next]_vars
    PROVE  [E!Next]_<<granted, led, Forgetful>>
<1>1. ASSUME NEW n \in Node, SwitchToCandidate(n)
      PROVE  E!Next
  BY <1>1, CandidacyAllowed DEF E!Next
<1>2. ASSUME NEW n \in Node, Stop(n)
      PROVE  E!Next
  <2>1. boots' = [boots EXCEPT ![n] = boots[n] + 1] /\ boots \in [Node -> Nat]
        /\ UNCHANGED <<granted, led>>
    BY <1>2 DEF Stop, history, ElectionsHeld, VotesHeld, TypeOK, NodesOK
  <2>2. Forgetful' = Forgetful \cup {n}
    BY <2>1 DEF Forgetful
  <2> QED
    BY <2>1, <2>2 DEF E!Next, E!Forget
<1>3. ASSUME NEW m \in DOMAIN msgs, ElectionWon(m)
      PROVE  E!Next
  BY <1>3, WinAllowed, Delivered DEF E!Next, ElectionsHeld, VotesHeld
<1>4. ASSUME NEW m \in DOMAIN msgs, RequestVoteFresh(m) \/ RequestVoteAgain(m)
      PROVE  [E!Next]_<<granted, led, Forgetful>>
  BY <1>4, VoteAllowed, Delivered DEF E!Next, ElectionsHeld, VotesHeld
<1>5. ASSUME NEW m \in DOMAIN msgs, Answering(m), ~RequestVoteFresh(m),
             ~RequestVoteAgain(m)
      PROVE  UNCHANGED <<granted, led, boots>>
  BY <1>5 DEF Answering, RequestVoteStale, VoteIgnored, VoteFromNewerTerm, VoteCounted,
         AppendEntriesStale, Follow, AppendEntriesUnmatched, AppendEntriesHeartbeat,
         AppendEntriesBatch, AppendRespIgnored, AppendRespReplicated,
         AppendRespRefused, Undeliverable, Lose, Discard, process, history
<1>6. ASSUME UNCHANGED <<granted, led, boots>>
      PROVE  UNCHANGED <<granted, led, Forgetful>>
  BY <1>6 DEF Forgetful
<1>7. \/ \E n \in Node : SwitchToCandidate(n) \/ Stop(n)
      \/ UNCHANGED <<granted, led, boots>>
      \/ \E m \in DOMAIN msgs : ElectionWon(m) \/ Answering(m)
  <2>1. Quiet => UNCHANGED <<granted, led, boots>>
    BY DEF Quiet
  <2> QED
    BY <2>1, ElectionSteps
<1> QED
  BY <1>1, <1>2, <1>3, <1>4, <1>5, <1>6, <1>7

\* The election handlers implement Elections.tla in a cluster of one or three
\* nodes, and in the first term of a cluster of any size: the votes, leaders and restarts of every behaviour are one of its behaviours.
THEOREM ElectionsImplemented ==
    ASSUME SmallOrFirstTerm
    PROVE  Spec => ElectionsAsPromised
<1>1. Init => E!Init
  <2> SUFFICES ASSUME Init PROVE E!Init
    OBVIOUS
  <2>1. granted = {} /\ Forgetful = {}
    BY DEF Init, Forgetful
  <2>2. (\E n \in Node : Node = {n}) <=> Cardinality(Node) = 1
    BY NodeAssumption, FS_Singleton
  <2>3. led = IF Cardinality(Node) = 1 THEN Node \X {0} ELSE {}
    BY DEF Init, InitialStatus
  <2> QED
    BY <2>1, <2>2, <2>3 DEF E!Init
<1>2. Spec => []TypeOK /\ []TermsAreOpened /\ []TallyWasGranted
  BY TypeCorrect, TermsOpened, TalliesAreGranted
<1>3. TypeOK /\ VotesAreRemembered /\ VotesOnceUntilLed /\ [Next]_vars
        => VotesAreRemembered' /\ VotesOnceUntilLed'
  BY RememberedStep DEF VotesHeld
<1>4. TypeOK /\ VotesAreRemembered /\ VotesOnceUntilLed /\ VotesAreRecorded
        /\ TermsAreOpened /\ LeadersAreRecorded /\ TallyWasGranted
        /\ TalliesAreOfOthers /\ [Next]_vars
        => [E!Next]_<<granted, led, Forgetful>>
  BY ElectionsStep DEF ElectionsHeld, VotesHeld
<1>5. TypeOK /\ VotesAreRemembered /\ LeadersAreRecorded /\ [Next]_vars
        => LeadersAreRecorded'
  BY LeadersStep
<1> QED
  BY <1>1, <1>2, <1>3, <1>4, <1>5, RememberedInit, RecordedInit, RecordedStep,
     LeadersInit, OthersInit, OthersStep, PTL DEF Spec, ElectionsAsPromised, E!Spec, E!electionVars

=============================================================================
