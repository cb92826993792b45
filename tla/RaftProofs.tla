----------------------------- MODULE RaftProofs -----------------------------
(***************************************************************************)
(* Proofs about a cluster of raft-server nodes, for any number of nodes,   *)
(* terms, entries, messages, losses and restarts.                          *)
(***************************************************************************)
EXTENDS RaftProperties, PositionsProofs

(***************************************************************************)
(* The operations of a log keep it a log.                                  *)
(***************************************************************************)
LEMMA LastOfBatch ==
    ASSUME NEW batch \in Seq(Entry), batch # << >>
    PROVE  /\ Len(batch) \in Nat \ {0} /\ Len(batch) \in DOMAIN batch
           /\ batch[Len(batch)] \in Entry
BY EmptySeq, LenProperties, ElementOfSeq

LEMMA AppendBatchType ==
    ASSUME NEW log \in Log, NEW batch \in Seq(Entry), batch # << >>
    PROVE  AppendBatch(log, batch) \in Log
<1>1. log.inner \o batch \in Seq(Entry)
  BY ConcatProperties DEF Log
<1>2. batch[Len(batch)].index \in Nat /\ batch[Len(batch)].term \in Nat
  BY LastOfBatch DEF Entry
<1> QED
  BY <1>1, <1>2 DEF AppendBatch, Log

LEMMA AddEachType ==
    ASSUME NEW log \in Log, NEW batch \in Seq(Entry)
    PROVE  AddEach(log, batch) \in Log
BY AppendBatchType DEF AddEach

LEMMA RemoveType ==
    ASSUME NEW log \in Log, NEW index, NEW t
    PROVE  /\ RemoveUncommittedEntriesFrom(log, index, t) \in Log
           /\ \A n \in DOMAIN RemoveUncommittedEntriesFrom(log, index, t).inner :
                 \E i \in DOMAIN log.inner :
                    RemoveUncommittedEntriesFrom(log, index, t).inner[n]
                        = log.inner[i]
<1> DEFINE K == {i \in DOMAIN log.inner :
                    \/ log.inner[i].index < index
                    \/ log.inner[i].term = t}
<1>1. log.inner \in Seq(Entry)
  BY DEF Log
<1>2. K \in SUBSET DOMAIN log.inner
  OBVIOUS
<1>3. /\ SubSeqAt(log.inner, K) \in Seq(Entry)
      /\ \A n \in DOMAIN SubSeqAt(log.inner, K) :
            \E i \in K : SubSeqAt(log.inner, K)[n] = log.inner[i]
  BY <1>1, <1>2, SubSeqAtType
<1>4. RemoveUncommittedEntriesFrom(log, index, t)
        = [log EXCEPT !.inner = SubSeqAt(log.inner, K)]
  BY DEF RemoveUncommittedEntriesFrom
<1>5. RemoveUncommittedEntriesFrom(log, index, t).inner = SubSeqAt(log.inner, K)
  BY <1>4 DEF Log
<1>6. RemoveUncommittedEntriesFrom(log, index, t) \in Log
  BY <1>3, <1>4 DEF Log
<1> QED
  BY <1>2, <1>3, <1>5, <1>6

LEMMA GetPreviousEntryType ==
    ASSUME NEW log \in Log, NEW ref \in Nat
    PROVE  /\ GetPreviousEntry(log, ref).index \in Nat
           /\ GetPreviousEntry(log, ref).term \in Nat
<1> DEFINE hits == {i \in DOMAIN log.inner : log.inner[i].index = ref}
           stop == IF hits = {} THEN Len(log.inner) + 1
                   ELSE CHOOSE i \in hits : \A j \in hits : i <= j
<1>1. /\ DOMAIN log.inner = 1..Len(log.inner) /\ Len(log.inner) \in Nat
      /\ \A i \in DOMAIN log.inner : log.inner[i] \in Entry
  BY ElementOfSeq, LenProperties DEF Log
<1>2. hits # {} => stop \in hits
  <2>1. ASSUME hits # {}
        PROVE  \E i \in hits : \A j \in hits : i <= j
    <3>1. hits \in SUBSET Nat
      BY <1>1
    <3>2. IsFiniteSet(DOMAIN log.inner)
      BY <1>1, FS_Interval
    <3>3. IsFiniteSet(hits)
      BY <3>2, FS_Subset
    <3> QED
      BY <2>1, <3>1, <3>3, SmallestExists
  <2> QED
    BY <2>1, Zenon
<1>3. stop \in 1..(Len(log.inner) + 1)
  BY <1>1, <1>2
<1>4. CASE stop = 1
  BY <1>4 DEF GetPreviousEntry
<1>5. CASE stop # 1
  <2>1. stop - 1 \in DOMAIN log.inner
    <3> HIDE DEF stop
    <3> QED
      BY <1>1, <1>3, <1>5
  <2>2. log.inner[stop - 1].index \in Nat /\ log.inner[stop - 1].term \in Nat
    BY <1>1, <2>1 DEF Entry
  <2>3. GetPreviousEntry(log, ref) = [index |-> log.inner[stop - 1].index,
                                      term  |-> log.inner[stop - 1].term]
    BY <1>5 DEF GetPreviousEntry
  <2> HIDE DEF stop
  <2> QED
    BY <2>2, <2>3
<1> QED
  BY <1>4, <1>5

LEMMA ReadEntriesType ==
    ASSUME NEW log \in Log, NEW index, NEW max \in Nat
    PROVE  /\ ReadEntriesFrom(log, index, max) \in Seq(Entry)
           /\ \A n \in DOMAIN ReadEntriesFrom(log, index, max) :
                 \E i \in DOMAIN log.inner :
                    ReadEntriesFrom(log, index, max)[n] = log.inner[i]
<1> DEFINE K == {i \in DOMAIN log.inner : log.inner[i].index > index}
           found == SubSeqAt(log.inner, K)
           len == IF Len(found) < max THEN Len(found) ELSE max
           read == SubSeq(found, 1, len)
<1>1. log.inner \in Seq(Entry)
  BY DEF Log
<1>2. K \in SUBSET DOMAIN log.inner
  OBVIOUS
<1>3. /\ found \in Seq(Entry)
      /\ \A n \in DOMAIN found : \E i \in K : found[n] = log.inner[i]
  BY <1>1, <1>2, SubSeqAtType
<1> HIDE DEF found
<1>4. /\ DOMAIN found = 1..Len(found) /\ Len(found) \in Nat
      /\ \A n \in DOMAIN found : found[n] \in Entry
  BY <1>3, ElementOfSeq, LenProperties
<1>5. len \in Nat /\ len <= Len(found)
  BY <1>4
<1> HIDE DEF len
<1>6. \A i \in 1..len : i \in DOMAIN found /\ found[i] \in Entry
  BY <1>4, <1>5
<1>7. /\ read \in Seq(Entry)
      /\ Len(read) = IF 1 <= len THEN len - 1 + 1 ELSE 0
      /\ \A i \in 1..(len - 1 + 1) : read[i] = found[1 + i - 1]
  <2>1. len \in Int /\ 1 \in Int
    BY <1>5
  <2>2. \A i \in 1..len : found[i] \in Entry
    BY <1>6
  <2> QED
    BY <2>1, <2>2, SubSeqProperties
<1> HIDE DEF read
<1>8. DOMAIN read = 1..len
  BY <1>5, <1>7, LenProperties
<1>9. \A i \in DOMAIN read : \E j \in DOMAIN log.inner : read[i] = log.inner[j]
  BY <1>2, <1>3, <1>5, <1>6, <1>7, <1>8
<1>10. ReadEntriesFrom(log, index, max) = read
  BY DEF ReadEntriesFrom, read, len, found
<1> QED
  BY <1>7, <1>9, <1>10

(***************************************************************************)
(* The bag of messages: what it holds after a message is taken out of it   *)
(* and others are put in.                                                  *)
(***************************************************************************)
LEMMA BagsOfMessages ==
    ASSUME IsABag(msgs), NEW m, NEW r, NEW S
    PROVE  /\ IsABag(Without(m)) /\ DOMAIN Without(m) \subseteq DOMAIN msgs
           /\ IsABag(Reply(m, r))
           /\ DOMAIN Reply(m, r) \subseteq DOMAIN msgs \cup {r}
           /\ IsABag(Send(S)) /\ DOMAIN Send(S) = DOMAIN msgs \cup S
           /\ IsABag(Without(m) (+) SetToBag(S))
           /\ DOMAIN (Without(m) (+) SetToBag(S)) \subseteq DOMAIN msgs \cup S
<1>1. ASSUME NEW B, NEW T, IsABag(B)
      PROVE  IsABag(B (+) SetToBag(T)) /\ DOMAIN (B (+) SetToBag(T)) = DOMAIN B \cup T
  BY <1>1 DEF IsABag, (+), SetToBag
<1>2. IsABag(Without(m)) /\ DOMAIN Without(m) \subseteq DOMAIN msgs
  BY DEF IsABag, Without, (-), SetToBag
<1> QED
  BY <1>1, <1>2 DEF Reply, Send

LEMMA MessageKinds ==
    ASSUME NEW m \in Message
    PROVE  /\ m.src \in Node /\ m.dst \in Node /\ m.boot \in Nat /\ m.term \in Nat
           /\ m.type = "VoteReq" => m \in VoteReq
           /\ m.type = "VoteResp" => m \in VoteResp
           /\ m.type = "EntriesReq" => m \in EntriesReq
           /\ m.type = "EntriesResp" => m \in EntriesResp
BY DEF Message, VoteReq, VoteResp, EntriesReq, EntriesResp

LEMMA AnswerTypes ==
    ASSUME NEW m \in Message, m.src # m.dst, NEW t \in Nat, NEW b \in BOOLEAN
    PROVE  /\ VoteAnswer(m, t, b) \in Message
           /\ VoteAnswer(m, t, b).src # VoteAnswer(m, t, b).dst
           /\ m.type = "EntriesReq" =>
                /\ AppendAnswer(m, t, b) \in Message
                /\ AppendAnswer(m, t, b).src # AppendAnswer(m, t, b).dst
<1>1. VoteAnswer(m, t, b) \in VoteResp
  BY MessageKinds DEF VoteAnswer, VoteResp
<1>2. ASSUME m.type = "EntriesReq"
      PROVE  AppendAnswer(m, t, b) \in EntriesResp
  <2>1. m \in EntriesReq
    BY <1>2, MessageKinds
  <2>2. m.entries \in Seq(Entry)
    BY <2>1 DEF EntriesReq
  <2>3. m.entries # << >> => m.entries[Len(m.entries)].index \in Nat
    BY <2>2, LastOfBatch DEF Entry
  <2> QED
    BY <2>1, <2>3, MessageKinds DEF AppendAnswer, EntriesResp
<1> QED
  BY <1>1, <1>2 DEF Message, VoteAnswer, AppendAnswer

LEMMA RequestTypes ==
    ASSUME TypeOK, NEW n \in Node, NEW s \in Seeds(n), NEW t \in Nat,
           NEW next \in Nat, NEW commit \in Nat
    PROVE  /\ VoteRequest(n, s, t) \in Message
           /\ VoteRequest(n, s, t).src # VoteRequest(n, s, t).dst
           /\ AppendRequest(n, s, next, commit) \in Message
           /\ AppendRequest(n, s, next, commit).src
                # AppendRequest(n, s, next, commit).dst
<1>1. /\ s \in Node /\ s # n /\ entries[n] \in Log /\ boots[n] \in Nat
      /\ term[n] \in Nat
  BY DEF TypeOK, NodesOK, Seeds
<1>2. VoteRequest(n, s, t) \in VoteReq
  BY <1>1 DEF VoteRequest, VoteReq, Log
<1> DEFINE prev == GetPreviousEntry(entries[n], next)
           batch == ReadEntriesFrom(entries[n], prev.index, MaxBatch)
<1>3. prev.index \in Nat /\ prev.term \in Nat
  BY <1>1, GetPreviousEntryType
<1>4. batch \in Seq(Entry)
  BY <1>1, ReadEntriesType, BoundsAssumption
<1>5. AppendRequest(n, s, next, commit)
        = [type |-> "EntriesReq", src |-> n, dst |-> s, boot |-> boots[n],
           term |-> term[n],
           prev_log_index |-> prev.index, prev_log_term |-> prev.term,
           leader_commit |-> commit, entries |-> batch]
  BY DEF AppendRequest
<1> HIDE DEF prev, batch
<1>6. AppendRequest(n, s, next, commit) \in EntriesReq
  BY <1>1, <1>3, <1>4, <1>5 DEF EntriesReq
<1> QED
  BY <1>1, <1>2, <1>5, <1>6 DEF Message, VoteRequest

LEMMA AnsweredType ==
    ASSUME TypeOK, NEW S \in SUBSET [index : Nat, req : Request],
           NEW state \in {"unsent", "waiting", "refused", "lost", "confirmed"}
    PROVE  Answered(S, state) \in [Request -> Answer]
BY DEF TypeOK, RecordsOK, Answered, Answer

LEMMA LowestReplicatedType ==
    ASSUME NEW n \in Node, Seeds(n) # {}, NEW match \in [Seeds(n) -> Nat]
    PROVE  /\ LowestReplicated(match) \in Nat
           /\ \A s \in Seeds(n) : LowestReplicated(match) <= match[s]
<1> DEFINE indices == {match[s] : s \in Seeds(n)}
<1>1. IsFiniteSet(Seeds(n))
  BY FS_Subset, NodeAssumption DEF Seeds
<1>2. match \in Surjection(Seeds(n), indices)
  BY DEF Surjection
<1>3. IsFiniteSet(indices)
  BY <1>1, <1>2, FS_Surjection
<1>4. indices \in SUBSET Nat /\ indices # {}
  OBVIOUS
<1>5. \E i \in indices : \A j \in indices : i <= j
  BY <1>3, <1>4, SmallestExists
<1>6. LowestReplicated(match) = CHOOSE i \in indices : \A j \in indices : i <= j
  BY DEF LowestReplicated
<1>7. /\ LowestReplicated(match) \in indices
      /\ \A j \in indices : LowestReplicated(match) <= j
  BY <1>5, <1>6, Zenon
<1> QED
  BY <1>4, <1>7

(***************************************************************************)
(* Types.                                                                  *)
(***************************************************************************)
LEMMA TypeInit == Init => TypeOK
<1> SUFFICES ASSUME Init PROVE TypeOK
  OBVIOUS
<1>1. EmptyLog \in Log
  BY EmptySeq DEF EmptyLog, Log
<1>2. NodesOK
  BY <1>1 DEF Init, NodesOK, InitialStatus
<1>3. SeedsOK(next_index) /\ SeedsOK(match_index)
  BY DEF Init, SeedsOK
<1>4. MessagesOK
  BY DEF Init, MessagesOK, IsABag, EmptyBag, SetToBag
<1>5. RecordsOK
  BY DEF Init, RecordsOK, NoAnswer, Answer
<1> QED
  BY <1>2, <1>3, <1>4, <1>5 DEF TypeOK

\* What every handler of a message starts from.
LEMMA Delivered ==
    ASSUME TypeOK, NEW m \in DOMAIN msgs
    PROVE  /\ m \in Message /\ m.src \in Node /\ m.dst \in Node /\ m.src # m.dst
           /\ m.src \in Seeds(m.dst) /\ m.term \in Nat /\ m.boot \in Nat
           /\ entries[m.dst] \in Log /\ term[m.dst] \in Nat
BY MessageKinds DEF TypeOK, MessagesOK, NodesOK, Seeds

\* A reply, or none, keeps the messages well formed.
LEMMA MessagesAfter ==
    ASSUME TypeOK, NEW m \in DOMAIN msgs, NEW r,
           \/ msgs' = Without(m)
           \/ msgs' = Reply(m, r) /\ r \in Message /\ r.src # r.dst
    PROVE  MessagesOK'
<1>1. IsABag(msgs)
  BY DEF TypeOK, MessagesOK
<1>2. CASE msgs' = Without(m)
  <2>1. IsABag(Without(m)) /\ DOMAIN Without(m) \subseteq DOMAIN msgs
    BY <1>1, BagsOfMessages, Zenon
  <2> QED
    BY <1>2, <2>1 DEF TypeOK, MessagesOK
<1>3. CASE msgs' = Reply(m, r) /\ r \in Message /\ r.src # r.dst
  <2>1. IsABag(Reply(m, r)) /\ DOMAIN Reply(m, r) \subseteq DOMAIN msgs \cup {r}
    BY <1>1, BagsOfMessages, Zenon
  <2> QED
    BY <1>3, <2>1 DEF TypeOK, MessagesOK
<1> QED
  BY <1>2, <1>3

LEMMA MessagesAfterRound ==
    ASSUME TypeOK, NEW m, NEW S \in SUBSET Message, \A r \in S : r.src # r.dst,
           msgs' = Send(S) \/ msgs' = Without(m) (+) SetToBag(S)
    PROVE  MessagesOK'
<1>1. IsABag(msgs)
  BY DEF TypeOK, MessagesOK
<1>2. CASE msgs' = Send(S)
  <2>1. IsABag(Send(S)) /\ DOMAIN Send(S) = DOMAIN msgs \cup S
    BY <1>1, BagsOfMessages, Zenon
  <2> QED
    BY <1>2, <2>1 DEF TypeOK, MessagesOK
<1>3. CASE msgs' = Without(m) (+) SetToBag(S)
  <2>1. /\ IsABag(Without(m) (+) SetToBag(S))
        /\ DOMAIN (Without(m) (+) SetToBag(S)) \subseteq DOMAIN msgs \cup S
    BY <1>1, BagsOfMessages, Zenon
  <2> QED
    BY <1>3, <2>1 DEF TypeOK, MessagesOK
<1> QED
  BY <1>2, <1>3

LEMMA SeedsUpdated ==
    ASSUME NEW index, SeedsOK(index), NEW n \in Node, NEW s \in Seeds(n),
           NEW i \in Nat
    PROVE  /\ SeedsOK([index EXCEPT ![n] = [@ EXCEPT ![s] = i]])
           /\ SeedsOK([index EXCEPT ![n][s] = i])
<1>1. [index[n] EXCEPT ![s] = i] \in [Seeds(n) -> Nat]
  BY DEF SeedsOK
<1>2. SeedsOK([index EXCEPT ![n] = [index[n] EXCEPT ![s] = i]])
  BY <1>1 DEF SeedsOK
<1> QED
  BY <1>2

LEMMA TypeStep == TypeOK /\ [Next]_vars => TypeOK'
<1> SUFFICES ASSUME TypeOK, [Next]_vars PROVE TypeOK'
  OBVIOUS
<1> USE DEF TypeOK
<1>1. ASSUME NEW n \in Node, SendAppendEntries(n) PROVE TypeOK'
  <2> DEFINE S == {AppendRequest(n, s, next_index[n][s], commit_index[n]) :
                      s \in Seeds(n)}
  <2>1. /\ S \in SUBSET Message /\ \A r \in S : r.src # r.dst
        /\ msgs' = Send(S)
    BY <1>1, RequestTypes DEF SendAppendEntries, NodesOK, SeedsOK
  <2>2. MessagesOK'
    BY <2>1, MessagesAfterRound
  <2>3. UNCHANGED <<persistent, election, replication, process, answers, history>>
    BY <1>1 DEF SendAppendEntries
  <2> QED
    BY <2>2, <2>3 DEF NodesOK, SeedsOK, RecordsOK, persistent, election,
                      replication, process, history
<1>2. ASSUME NEW n \in Node, SwitchToCandidate(n) PROVE TypeOK'
  <2> DEFINE S == {VoteRequest(n, s, term[n] + 1) : s \in Seeds(n)}
  <2>1. /\ S \in SUBSET Message /\ \A r \in S : r.src # r.dst
        /\ msgs' = Send(S)
    <3>1. term[n] + 1 \in Nat /\ 0 \in Nat
      BY DEF NodesOK
    <3> QED
      BY <1>2, <3>1, RequestTypes DEF SwitchToCandidate
  <2>2. MessagesOK'
    BY <2>1, MessagesAfterRound
  <2>3. NodesOK'
    BY <1>2 DEF SwitchToCandidate, NodesOK, replication, process
  <2>4. SeedsOK(next_index)' /\ SeedsOK(match_index)' /\ RecordsOK'
    BY <1>2 DEF SwitchToCandidate, NodesOK, SeedsOK, RecordsOK, replication
  <2> QED
    BY <2>2, <2>3, <2>4
<1>3. ASSUME NEW m \in DOMAIN msgs, RequestVoteStale(m) PROVE TypeOK'
  <2>1. MessagesOK'
    BY <1>3, Delivered, AnswerTypes, MessagesAfter DEF RequestVoteStale
  <2> QED
    BY <1>3, <2>1 DEF RequestVoteStale, NodesOK, SeedsOK, RecordsOK, persistent,
                      election, replication, process, history
<1>4. ASSUME NEW m \in DOMAIN msgs, RequestVoteFresh(m) PROVE TypeOK'
  <2>1. UpToDate(m.dst, m) \in BOOLEAN
    BY DEF UpToDate
  <2>2. MessagesOK'
    BY <1>4, <2>1, Delivered, AnswerTypes, MessagesAfter DEF RequestVoteFresh
  <2>3. NodesOK'
    BY <1>4, Delivered DEF RequestVoteFresh, NodesOK, replication, process
  <2>4. SeedsOK(next_index)' /\ SeedsOK(match_index)' /\ RecordsOK'
    BY <1>4, Delivered DEF RequestVoteFresh, SeedsOK, RecordsOK, replication
  <2> QED
    BY <2>2, <2>3, <2>4
<1>5. ASSUME NEW m \in DOMAIN msgs, RequestVoteAgain(m) PROVE TypeOK'
  <2>1. GrantsAgain(m.dst, m) \in BOOLEAN
    BY DEF GrantsAgain, UpToDate
  <2>2. MessagesOK'
    BY <1>5, <2>1, Delivered, AnswerTypes, MessagesAfter DEF RequestVoteAgain
  <2>3. RecordsOK'
    BY <1>5, Delivered DEF RequestVoteAgain, RecordsOK
  <2> QED
    BY <1>5, <2>2, <2>3 DEF RequestVoteAgain, NodesOK, SeedsOK, persistent,
                            election, replication, process
<1>6. ASSUME NEW m \in DOMAIN msgs, VoteIgnored(m) PROVE TypeOK'
  <2>1. MessagesOK'
    BY <1>6, MessagesAfter DEF VoteIgnored
  <2> QED
    BY <1>6, <2>1 DEF VoteIgnored, NodesOK, SeedsOK, RecordsOK, persistent,
                      election, replication, process, history
<1>7. ASSUME NEW m \in DOMAIN msgs, VoteFromNewerTerm(m) PROVE TypeOK'
  <2>1. MessagesOK'
    BY <1>7, MessagesAfter DEF VoteFromNewerTerm
  <2>2. NodesOK'
    BY <1>7, Delivered DEF VoteFromNewerTerm, NodesOK, replication, process
  <2> QED
    BY <1>7, <2>1, <2>2 DEF VoteFromNewerTerm, SeedsOK, RecordsOK, replication,
                            history
<1>8. ASSUME NEW m \in DOMAIN msgs, VoteCounted(m) PROVE TypeOK'
  <2>1. MessagesOK'
    BY <1>8, MessagesAfter DEF VoteCounted
  <2>2. NodesOK'
    BY <1>8, Delivered DEF VoteCounted, NodesOK, persistent, replication, process
  <2> QED
    BY <1>8, <2>1, <2>2 DEF VoteCounted, SeedsOK, RecordsOK, replication, history
<1>9. ASSUME NEW m \in DOMAIN msgs, ElectionWon(m) PROVE TypeOK'
  <2> DEFINE n == m.dst
             after == entries[n].last_index + 1
             S == {AppendRequest(n, s, after, 0) : s \in Seeds(n)}
  <2>1. n \in Node /\ after \in Nat /\ inflights[n] \in SUBSET [index : Nat, req : Request]
    BY Delivered DEF Log, NodesOK
  <2>2. S \in SUBSET Message /\ \A r \in S : r.src # r.dst
    BY <2>1, RequestTypes
  <2>3. MessagesOK'
    BY <1>9, <2>2, MessagesAfterRound DEF ElectionWon
  <2>4. NodesOK'
    BY <1>9, <2>1 DEF ElectionWon, NodesOK, persistent, process
  <2>5. SeedsOK(next_index)' /\ SeedsOK(match_index)'
    BY <1>9, <2>1 DEF ElectionWon, SeedsOK
  <2>6. RecordsOK'
    BY <1>9, <2>1, AnsweredType DEF ElectionWon, RecordsOK, NodesOK
  <2> QED
    BY <2>3, <2>4, <2>5, <2>6
<1>10. ASSUME NEW m \in DOMAIN msgs, AppendEntriesStale(m) PROVE TypeOK'
  <2>1. MessagesOK'
    BY <1>10, Delivered, AnswerTypes, MessagesAfter DEF AppendEntriesStale, Received
  <2> QED
    BY <1>10, <2>1 DEF AppendEntriesStale, NodesOK, SeedsOK, RecordsOK,
                       persistent, election, replication, process, history
<1>11. ASSUME NEW m \in DOMAIN msgs,
              AppendEntriesUnmatched(m) \/ AppendEntriesHeartbeat(m)
       PROVE  TypeOK'
  <2>1. MessagesOK'
    BY <1>11, Delivered, AnswerTypes, MessagesAfter
    DEF AppendEntriesUnmatched, AppendEntriesHeartbeat, Received
  <2>2. Follow(m) /\ UNCHANGED <<entries, commit_index>>
    BY <1>11 DEF AppendEntriesUnmatched, AppendEntriesHeartbeat
  <2>3. NodesOK'
    BY <2>2, Delivered DEF Follow, NodesOK, process
  <2> QED
    BY <2>1, <2>2, <2>3 DEF Follow, SeedsOK, RecordsOK, history
<1>12. ASSUME NEW m \in DOMAIN msgs, AppendEntriesBatch(m) PROVE TypeOK'
  <2> DEFINE n == m.dst
  <2>1. /\ m \in EntriesReq /\ m.entries \in Seq(Entry) /\ m.entries # << >>
        /\ m.leader_commit \in Nat
    BY <1>12, Delivered, MessageKinds DEF AppendEntriesBatch, Received, EntriesReq
  <2>2. Truncated(entries[n], m) \in Log
    BY Delivered, RemoveType DEF Truncated
  <2>3. AppendBatch(Truncated(entries[n], m), m.entries) \in Log
    BY <2>1, <2>2, AppendBatchType
  <2>4. FollowerCommit(commit_index[n], m) \in Nat
    BY <2>1, Delivered, LastOfBatch DEF FollowerCommit, Entry, NodesOK
  <2>5. MessagesOK'
    BY <1>12, Delivered, AnswerTypes, MessagesAfter DEF AppendEntriesBatch, Received
  <2>6. NodesOK'
    BY <1>12, <2>3, <2>4, Delivered DEF AppendEntriesBatch, Follow, NodesOK, process
  <2> QED
    BY <1>12, <2>5, <2>6 DEF AppendEntriesBatch, Follow, SeedsOK, RecordsOK, history
<1>13. ASSUME NEW m \in DOMAIN msgs, AppendRespIgnored(m) PROVE TypeOK'
  <2>1. MessagesOK'
    BY <1>13, MessagesAfter DEF AppendRespIgnored
  <2> QED
    BY <1>13, <2>1 DEF AppendRespIgnored, NodesOK, SeedsOK, RecordsOK,
                       persistent, election, replication, process, history
<1>14. ASSUME NEW m \in DOMAIN msgs, AppendRespReplicated(m) PROVE TypeOK'
  <2> DEFINE n == m.dst
             match == [match_index[n] EXCEPT ![m.src] = m.batch_end]
             lowest == LowestReplicated(match)
             acked == {f \in inflights[n] : f.index <= lowest}
  <2>1. n \in Node /\ m.src \in Seeds(n) /\ m.batch_end \in Nat
    BY <1>14, Delivered, MessageKinds DEF AppendRespReplicated, Received, EntriesResp
  <2>2. match \in [Seeds(n) -> Nat]
    BY <2>1 DEF SeedsOK
  <2>3. lowest \in Nat
    BY <2>1, <2>2, LowestReplicatedType
  <2>4. acked \in SUBSET [index : Nat, req : Request]
    BY <2>1 DEF NodesOK
  <2>5. MessagesOK'
    BY <1>14, MessagesAfter DEF AppendRespReplicated
  <2>6. NodesOK'
    <3> HIDE DEF lowest
    <3>1. /\ inflights' = [inflights EXCEPT ![n] = @ \ acked]
          /\ commit_index' = [commit_index EXCEPT ![n] = lowest]
          /\ UNCHANGED <<persistent, election, process>>
      BY <1>14 DEF AppendRespReplicated, lowest
    <3> QED
      BY <2>1, <2>3, <3>1 DEF NodesOK, persistent, election, process
  <2>7. SeedsOK(next_index)' /\ SeedsOK(match_index)'
    <3>1. /\ next_index' = [next_index EXCEPT ![n][m.src] = m.batch_end + 1]
          /\ match_index' = [match_index EXCEPT
                                ![n] = [@ EXCEPT ![m.src] = m.batch_end]]
      BY <1>14 DEF AppendRespReplicated
    <3>2. m.batch_end + 1 \in Nat
      BY <2>1
    <3>3. SeedsOK([next_index EXCEPT ![n][m.src] = m.batch_end + 1])
      BY <2>1, <3>2, SeedsUpdated, Zenon
    <3>4. SeedsOK([match_index EXCEPT ![n] = [@ EXCEPT ![m.src] = m.batch_end]])
      BY <2>1, SeedsUpdated, Zenon
    <3> QED
      BY <3>1, <3>3, <3>4 DEF SeedsOK
  <2>8. RecordsOK'
    <3>1. answers' = Answered(acked, "confirmed") /\ UNCHANGED history
      BY <1>14 DEF AppendRespReplicated
    <3> HIDE DEF acked
    <3> QED
      BY <2>4, <3>1, AnsweredType DEF RecordsOK, history
  <2> QED
    BY <2>5, <2>6, <2>7, <2>8
<1>15. ASSUME NEW m \in DOMAIN msgs, AppendRespRefused(m) PROVE TypeOK'
  <2>1. MessagesOK'
    BY <1>15, MessagesAfter DEF AppendRespRefused
  <2>2. SeedsOK(next_index)'
    <3> DEFINE n == m.dst
               i == SteppedBack(next_index[n][m.src])
    <3>1. n \in Node /\ m.src \in Seeds(n)
      BY Delivered
    <3>2. i \in Nat
      BY <3>1 DEF SteppedBack, SeedsOK
    <3>3. next_index' = [next_index EXCEPT ![n][m.src] = i]
      BY <1>15 DEF AppendRespRefused
    <3> QED
      BY <3>1, <3>2, <3>3, SeedsUpdated
  <2> QED
    BY <1>15, <2>1, <2>2 DEF AppendRespRefused, NodesOK, SeedsOK, RecordsOK,
                             persistent, election, process, history
<1>16. ASSUME NEW n \in Node, NEW r \in Request, AppendStreamRefused(n, r)
       PROVE  TypeOK'
  <2>1. RecordsOK'
    BY <1>16 DEF AppendStreamRefused, RecordsOK, Answer, history
  <2> QED
    BY <1>16, <2>1 DEF AppendStreamRefused, NodesOK, SeedsOK, MessagesOK,
                       persistent, election, replication, process
<1>17. ASSUME NEW n \in Node, NEW r \in Request, NEW size \in BatchSizes,
              AppendStreamAccepted(n, r, size)
       PROVE  TypeOK'
  <2> DEFINE index == entries[n].last_index + size
  <2>1. size \in Nat /\ entries[n] \in Log /\ index \in Nat
    BY BoundsAssumption DEF NodesOK, Log
  <2>2. NewEntries(n, r, size) \in Seq(Entry)
    <3>1. \A i \in 1..size : NewEntries(n, r, size)[i] \in Entry
      BY <2>1 DEF NewEntries, Entry, Payload, NodesOK, Log
    <3>2. NewEntries(n, r, size) = [i \in 1..size |-> NewEntries(n, r, size)[i]]
      BY DEF NewEntries
    <3> QED
      BY <2>1, <3>1, <3>2
  <2>3. AddEach(entries[n], NewEntries(n, r, size)) \in Log
    BY <2>1, <2>2, AddEachType
  <2>4. NodesOK'
    <3>1. entries' \in [Node -> Log]
      BY <1>17, <2>3 DEF AppendStreamAccepted, NodesOK
    <3>2. inflights' \in [Node -> SUBSET [index : Nat, req : Request]]
      <4>1. \/ UNCHANGED inflights
            \/ inflights' = [inflights EXCEPT
                               ![n] = @ \cup {[index |-> index, req |-> r]}]
        BY <1>17 DEF AppendStreamAccepted
      <4>2. [index |-> index, req |-> r] \in [index : Nat, req : Request]
        BY <2>1
      <4> QED
        BY <4>1, <4>2 DEF NodesOK
    <3> QED
      BY <1>17, <3>1, <3>2 DEF AppendStreamAccepted, NodesOK, election, process
  <2>5. RecordsOK'
    <3> DEFINE confirmed == [state |-> "confirmed", position |-> index]
               waiting   == [state |-> "waiting", position |-> answers[r].position]
    <3>1. answers \in [Request -> Answer] /\ answers[r] \in Answer
      BY DEF RecordsOK
    <3>2. confirmed \in Answer /\ waiting \in Answer
      BY <2>1, <3>1 DEF Answer
    <3>3. [answers[r] EXCEPT !.state = "waiting"] = waiting
      BY <3>1 DEF Answer
    <3>4. /\ UNCHANGED <<granted, led>>
          /\ \/ answers' = [answers EXCEPT ![r] = confirmed]
             \/ answers' = [answers EXCEPT ![r] = waiting]
      BY <1>17, <3>3 DEF AppendStreamAccepted, history
    <3> HIDE DEF confirmed, waiting
    <3> QED
      BY <3>1, <3>2, <3>4 DEF RecordsOK
  <2> QED
    BY <1>17, <2>4, <2>5 DEF AppendStreamAccepted, SeedsOK, MessagesOK
<1>18. ASSUME NEW n \in Node, Stop(n) PROVE TypeOK'
  <2>1. MessagesOK'
    BY <1>18 DEF Stop, MessagesOK, IsABag
  <2>2. EmptyLog \in Log
    BY EmptySeq DEF EmptyLog, Log
  <2>3. NodesOK'
    BY <1>18, <2>2 DEF Stop, NodesOK, InitialStatus
  <2>4. SeedsOK(next_index)' /\ SeedsOK(match_index)'
    BY <1>18 DEF Stop, SeedsOK
  <2>5. inflights[n] \in SUBSET [index : Nat, req : Request]
    BY DEF NodesOK
  <2>6. RecordsOK'
    BY <1>18, <2>5, AnsweredType DEF Stop, RecordsOK, history
  <2> QED
    BY <2>1, <2>3, <2>4, <2>6
<1>19. ASSUME NEW n \in Node, Start(n) PROVE TypeOK'
  BY <1>19 DEF Start, NodesOK, SeedsOK, MessagesOK, RecordsOK, persistent,
               election, replication, history
<1>20. ASSUME NEW m \in DOMAIN msgs, Lose(m) \/ Undeliverable(m) PROVE TypeOK'
  <2>1. Discard(m)
    BY <1>20 DEF Lose, Undeliverable
  <2>2. MessagesOK'
    BY <2>1, MessagesAfter DEF Discard
  <2> QED
    BY <2>1, <2>2 DEF Discard, NodesOK, SeedsOK, RecordsOK, persistent,
                      election, replication, process, history
<1>21. CASE UNCHANGED vars
  BY <1>21 DEF vars, NodesOK, SeedsOK, MessagesOK, RecordsOK, persistent,
               election, replication, process, history
<1> QED
  BY <1>1, <1>2, <1>3, <1>4, <1>5, <1>6, <1>7, <1>8, <1>9, <1>10, <1>11, <1>12,
     <1>13, <1>14, <1>15, <1>16, <1>17, <1>18, <1>19, <1>20, <1>21
  DEF Next, Tick, Handle

\* The type invariant holds in every regime: no handler, whatever message it
\* is given and in whatever order, builds a state outside the types of the
\* code.
THEOREM TypeCorrect == Spec => []TypeOK
<1> QED
  BY TypeInit, TypeStep, PTL DEF Spec

-----------------------------------------------------------------------------
(***************************************************************************)
(* Which messages a step puts in flight.                                   *)
(***************************************************************************)

\* The messages in flight after a step that removes m and replies r, if it
\* replies.
LEMMA InFlightAfter ==
    ASSUME TypeOK, NEW m, NEW r, NEW x \in DOMAIN msgs'
    PROVE  /\ msgs' = Without(m) => x \in DOMAIN msgs
           /\ msgs' = Reply(m, r) => x \in DOMAIN msgs \/ x = r
<1>1. IsABag(msgs)
  BY DEF TypeOK, MessagesOK
<1>2. DOMAIN Without(m) \subseteq DOMAIN msgs
  BY <1>1, BagsOfMessages, Zenon
<1>3. DOMAIN Reply(m, r) \subseteq DOMAIN msgs \cup {r}
  BY <1>1, BagsOfMessages, Zenon
<1> QED
  BY <1>2, <1>3

LEMMA InFlightAfterRound ==
    ASSUME TypeOK, NEW m, NEW S, NEW x \in DOMAIN msgs'
    PROVE  /\ msgs' = Send(S) => x \in DOMAIN msgs \/ x \in S
           /\ msgs' = Without(m) (+) SetToBag(S) => x \in DOMAIN msgs \/ x \in S
<1>1. IsABag(msgs)
  BY DEF TypeOK, MessagesOK
<1>2. DOMAIN Send(S) = DOMAIN msgs \cup S
  BY <1>1, BagsOfMessages, Zenon
<1>3. DOMAIN (Without(m) (+) SetToBag(S)) \subseteq DOMAIN msgs \cup S
  BY <1>1, BagsOfMessages, Zenon
<1> QED
  BY <1>2, <1>3

\* The handlers that take a message out and put at most an answer in.
Answering(m) ==
    \/ RequestVoteStale(m) \/ RequestVoteFresh(m) \/ RequestVoteAgain(m)
    \/ VoteIgnored(m) \/ VoteFromNewerTerm(m) \/ VoteCounted(m)
    \/ AppendEntriesStale(m) \/ AppendEntriesUnmatched(m)
    \/ AppendEntriesHeartbeat(m) \/ AppendEntriesBatch(m)
    \/ AppendRespIgnored(m) \/ AppendRespReplicated(m) \/ AppendRespRefused(m)
    \/ Undeliverable(m) \/ Lose(m)

\* No handler of a message sends a request, but the election of a leader; a
\* stopping node sends nothing.
LEMMA RequestsInFlight ==
    ASSUME TypeOK, NEW x \in DOMAIN msgs', IsRequest(x),
           \/ \E m \in DOMAIN msgs : Answering(m)
           \/ \E n \in Node : Stop(n) \/ Start(n)
           \/ \E n \in Node, r \in Request : AppendStreamRefused(n, r)
           \/ \E n \in Node, r \in Request, size \in BatchSizes :
                 AppendStreamAccepted(n, r, size)
           \/ UNCHANGED vars
    PROVE  x \in DOMAIN msgs
<1>1. ASSUME NEW m \in DOMAIN msgs, Answering(m)
      PROVE  x \in DOMAIN msgs
  <2>1. \/ msgs' = Without(m)
        \/ \E t, b : msgs' = Reply(m, VoteAnswer(m, t, b))
        \/ \E t, b : msgs' = Reply(m, AppendAnswer(m, t, b))
    BY <1>1 DEF Answering, RequestVoteStale, RequestVoteFresh, RequestVoteAgain,
         VoteIgnored, VoteFromNewerTerm, VoteCounted, AppendEntriesStale,
         AppendEntriesUnmatched, AppendEntriesHeartbeat, AppendEntriesBatch,
         AppendRespIgnored, AppendRespReplicated, AppendRespRefused,
         Undeliverable, Lose, Discard
  <2>2. CASE msgs' = Without(m)
    BY <2>2, InFlightAfter
  <2>3. ASSUME NEW t, NEW b, msgs' = Reply(m, VoteAnswer(m, t, b))
        PROVE  x \in DOMAIN msgs
    <3>1. x \in DOMAIN msgs \/ x = VoteAnswer(m, t, b)
      BY <2>3, InFlightAfter
    <3> QED
      BY <3>1 DEF VoteAnswer, IsRequest
  <2>4. ASSUME NEW t, NEW b, msgs' = Reply(m, AppendAnswer(m, t, b))
        PROVE  x \in DOMAIN msgs
    <3>1. x \in DOMAIN msgs \/ x = AppendAnswer(m, t, b)
      BY <2>4, InFlightAfter
    <3> QED
      BY <3>1 DEF AppendAnswer, IsRequest
  <2> QED
    BY <2>1, <2>2, <2>3, <2>4
<1>2. ASSUME NEW n \in Node, Stop(n) PROVE x \in DOMAIN msgs
  BY <1>2 DEF Stop
<1>3. ASSUME UNCHANGED msgs PROVE x \in DOMAIN msgs
  BY <1>3
<1> QED
  BY <1>1, <1>2, <1>3 DEF Start, AppendStreamRefused, AppendStreamAccepted, vars

(***************************************************************************)
(* Entries and the terms of those who hold them.                           *)
(***************************************************************************)
Within(seq, t) == \A i \in DOMAIN seq : seq[i].term <= t

LEMMA AppendWithin ==
    ASSUME NEW log \in Log, NEW batch \in Seq(Entry), batch # << >>, NEW t \in Nat,
           Within(log.inner, t), Within(batch, t)
    PROVE  Within(AppendBatch(log, batch).inner, t)
<1>1. /\ log.inner \in Seq(Entry)
      /\ AppendBatch(log, batch).inner = log.inner \o batch
  BY DEF Log, AppendBatch
<1>2. /\ Len(log.inner) \in Nat /\ DOMAIN log.inner = 1..Len(log.inner)
      /\ Len(batch) \in Nat /\ DOMAIN batch = 1..Len(batch)
  BY <1>1, LenProperties
<1>3. /\ log.inner \o batch \in Seq(Entry)
      /\ Len(log.inner \o batch) = Len(log.inner) + Len(batch)
      /\ \A i \in 1..(Len(log.inner) + Len(batch)) : (log.inner \o batch)[i] =
            IF i <= Len(log.inner) THEN log.inner[i] ELSE batch[i - Len(log.inner)]
  BY <1>1, ConcatProperties
<1>4. DOMAIN (log.inner \o batch) = 1..(Len(log.inner) + Len(batch))
  BY <1>3, LenProperties
<1>5. ASSUME NEW i \in 1..(Len(log.inner) + Len(batch))
      PROVE  (log.inner \o batch)[i].term <= t
  <2>1. CASE i <= Len(log.inner)
    <3>1. i \in DOMAIN log.inner
      BY <1>2, <2>1
    <3> QED
      BY <1>3, <2>1, <3>1 DEF Within
  <2>2. CASE ~(i <= Len(log.inner))
    <3>1. i - Len(log.inner) \in DOMAIN batch
      BY <1>2, <2>2
    <3> QED
      BY <1>3, <2>2, <3>1 DEF Within
  <2> QED
    BY <2>1, <2>2
<1> QED
  BY <1>1, <1>4, <1>5 DEF Within

LEMMA TermBoundInit == Init => EntryTermBound
BY DEF Init, EntryTermBound, EmptyLog, EmptyBag, SetToBag

\* A leader copies entries of its own log into the requests of its own term.
LEMMA RequestWithin ==
    ASSUME TypeOK, EntryTermBound, NEW n \in Node, NEW s \in Seeds(n),
           NEW next \in Nat, NEW commit \in Nat
    PROVE  Within(AppendRequest(n, s, next, commit).entries,
                  AppendRequest(n, s, next, commit).term)
<1> DEFINE prev == GetPreviousEntry(entries[n], next)
           batch == ReadEntriesFrom(entries[n], prev.index, MaxBatch)
<1>1. entries[n] \in Log /\ MaxBatch \in Nat
  BY BoundsAssumption DEF TypeOK, NodesOK
<1>2. \A i \in DOMAIN batch : \E j \in DOMAIN entries[n].inner :
          batch[i] = entries[n].inner[j]
  BY <1>1, ReadEntriesType
<1>3. /\ AppendRequest(n, s, next, commit).entries = batch
      /\ AppendRequest(n, s, next, commit).term = term[n]
  BY DEF AppendRequest
<1> HIDE DEF batch
<1> QED
  BY <1>2, <1>3 DEF EntryTermBound, Within

\* What a step that raises no entry has to show.
LEMMA TermBoundKept ==
    ASSUME TypeOK, EntryTermBound, UNCHANGED entries,
           \A n \in Node : term[n] <= term'[n] /\ term'[n] \in Nat,
           \A x \in DOMAIN msgs' :
              \/ x \in DOMAIN msgs
              \/ x.type = "EntriesReq" => Within(x.entries, x.term)
    PROVE  EntryTermBound'
<1>1. ASSUME NEW n \in Node, NEW i \in DOMAIN entries[n].inner
      PROVE  entries[n].inner[i].term <= term'[n]
  <2>1. entries[n].inner[i] \in Entry
    BY ElementOfSeq, LenProperties DEF TypeOK, NodesOK, Log
  <2>2. entries[n].inner[i].term \in Nat /\ term[n] \in Nat
    BY <2>1 DEF Entry, TypeOK, NodesOK
  <2>3. entries[n].inner[i].term <= term[n] /\ term[n] <= term'[n] /\ term'[n] \in Nat
    BY DEF EntryTermBound
  <2> QED
    BY <2>2, <2>3
<1>2. ASSUME NEW x \in DOMAIN msgs', x.type = "EntriesReq"
      PROVE  \A i \in DOMAIN x.entries : x.entries[i].term <= x.term
  BY <1>2 DEF EntryTermBound, Within
<1> QED
  BY <1>1, <1>2 DEF EntryTermBound

\* What a step that changes the log of one node, and sends no request, has to
\* show.
LEMMA TermBoundWithLog ==
    ASSUME TypeOK, EntryTermBound, NEW n \in Node, NEW log \in Log,
           entries' = [entries EXCEPT ![n] = log], Within(log.inner, term'[n]),
           \A s \in Node \ {n} : term'[s] = term[s],
           \A x \in DOMAIN msgs' : IsRequest(x) => x \in DOMAIN msgs
    PROVE  EntryTermBound'
<1>1. ASSUME NEW s \in Node
      PROVE  \A i \in DOMAIN entries'[s].inner : entries'[s].inner[i].term <= term'[s]
  BY DEF EntryTermBound, Within, TypeOK, NodesOK
<1>2. ASSUME NEW x \in DOMAIN msgs', x.type = "EntriesReq"
      PROVE  \A i \in DOMAIN x.entries : x.entries[i].term <= x.term
  BY <1>2 DEF EntryTermBound, IsRequest
<1> QED
  BY <1>1, <1>2 DEF EntryTermBound

\* No handler takes a term back.
LEMMA TermsGrow ==
    ASSUME TypeOK,
           \/ \E n \in Node : SendAppendEntries(n) \/ SwitchToCandidate(n) \/ Start(n)
           \/ \E m \in DOMAIN msgs : Answering(m) \/ ElectionWon(m)
           \/ \E n \in Node, r \in Request : AppendStreamRefused(n, r)
           \/ UNCHANGED vars
    PROVE  \A n \in Node : term[n] <= term'[n] /\ term'[n] \in Nat
<1>1. \A n \in Node : term[n] \in Nat
  BY DEF TypeOK, NodesOK
<1>2. term \in [Node -> Nat]
  BY DEF TypeOK, NodesOK
<1>3. ASSUME NEW n \in Node, SwitchToCandidate(n)
      PROVE  \A s \in Node : term[s] <= term'[s] /\ term'[s] \in Nat
  BY <1>2, <1>3 DEF SwitchToCandidate
<1>4. ASSUME NEW m \in DOMAIN msgs,
             RequestVoteFresh(m) \/ VoteFromNewerTerm(m) \/ Follow(m)
      PROVE  \A s \in Node : term[s] <= term'[s] /\ term'[s] \in Nat
  <2>1. m.term \in Nat /\ m.dst \in Node /\ term[m.dst] <= m.term
    BY <1>1, <1>4, Delivered DEF RequestVoteFresh, VoteFromNewerTerm, Follow
  <2>2. term' = [term EXCEPT ![m.dst] = m.term]
    BY <1>4 DEF RequestVoteFresh, VoteFromNewerTerm, Follow
  <2> QED
    BY <1>2, <2>1, <2>2
<1>5. ASSUME UNCHANGED term
      PROVE  \A s \in Node : term[s] <= term'[s] /\ term'[s] \in Nat
  BY <1>1, <1>5
<1>6. ASSUME NEW m \in DOMAIN msgs, Answering(m) \/ ElectionWon(m)
      PROVE  RequestVoteFresh(m) \/ VoteFromNewerTerm(m) \/ Follow(m) \/ UNCHANGED term
  BY <1>6 DEF Answering, RequestVoteStale, RequestVoteAgain, VoteIgnored,
       VoteCounted, ElectionWon, AppendEntriesStale, AppendEntriesUnmatched,
       AppendEntriesHeartbeat, AppendEntriesBatch, AppendRespIgnored,
       AppendRespReplicated, AppendRespRefused, Undeliverable, Lose, Discard,
       persistent
<1> QED
  BY <1>3, <1>4, <1>5, <1>6
  DEF SendAppendEntries, Start, AppendStreamRefused, vars, persistent

LEMMA TermBoundStep == TypeOK /\ EntryTermBound /\ [Next]_vars => EntryTermBound'
<1> SUFFICES ASSUME TypeOK, EntryTermBound, [Next]_vars
             PROVE  EntryTermBound'
  OBVIOUS
<1>1. ASSUME NEW n \in Node, SendAppendEntries(n)
      PROVE  EntryTermBound'
  <2> DEFINE S == {AppendRequest(n, s, next_index[n][s], commit_index[n]) :
                      s \in Seeds(n)}
  <2>1. \A x \in S : Within(x.entries, x.term)
    BY RequestWithin DEF TypeOK, NodesOK, SeedsOK
  <2>2. msgs' = Send(S) /\ UNCHANGED entries
    BY <1>1 DEF SendAppendEntries, persistent
  <2> HIDE DEF S
  <2>3. \A x \in DOMAIN msgs' : x \in DOMAIN msgs \/ x \in S
    BY <2>2, InFlightAfterRound
  <2> QED
    BY <1>1, <2>1, <2>2, <2>3, TermsGrow, TermBoundKept
<1>2. ASSUME NEW n \in Node, SwitchToCandidate(n)
      PROVE  EntryTermBound'
  <2> DEFINE S == {VoteRequest(n, s, term[n] + 1) : s \in Seeds(n)}
  <2>1. \A x \in S : x.type # "EntriesReq"
    BY DEF VoteRequest
  <2>2. msgs' = Send(S) /\ UNCHANGED entries
    BY <1>2 DEF SwitchToCandidate
  <2> HIDE DEF S
  <2>3. \A x \in DOMAIN msgs' : x \in DOMAIN msgs \/ x \in S
    BY <2>2, InFlightAfterRound
  <2> QED
    BY <1>2, <2>1, <2>2, <2>3, TermsGrow, TermBoundKept
<1>3. ASSUME NEW m \in DOMAIN msgs, ElectionWon(m)
      PROVE  EntryTermBound'
  <2> DEFINE n == m.dst
             after == entries[n].last_index + 1
             S == {AppendRequest(n, s, after, 0) : s \in Seeds(n)}
  <2>1. n \in Node /\ after \in Nat
    BY Delivered DEF Log
  <2>2. \A x \in S : Within(x.entries, x.term)
    BY <2>1, RequestWithin
  <2>3. msgs' = Without(m) (+) SetToBag(S) /\ UNCHANGED entries
    BY <1>3 DEF ElectionWon, persistent
  <2> HIDE DEF S
  <2>4. \A x \in DOMAIN msgs' : x \in DOMAIN msgs \/ x \in S
    BY <2>3, InFlightAfterRound
  <2> QED
    BY <1>3, <2>2, <2>3, <2>4, TermsGrow, TermBoundKept
<1>4. ASSUME NEW m \in DOMAIN msgs, Answering(m), ~AppendEntriesBatch(m)
      PROVE  EntryTermBound'
  <2>1. UNCHANGED entries
    BY <1>4 DEF Answering, RequestVoteStale, RequestVoteFresh, RequestVoteAgain,
         VoteIgnored, VoteFromNewerTerm, VoteCounted, AppendEntriesStale,
         AppendEntriesUnmatched, AppendEntriesHeartbeat, AppendRespIgnored,
         AppendRespReplicated, AppendRespRefused, Undeliverable, Lose, Discard,
         persistent
  <2>2. \A x \in DOMAIN msgs' : x.type = "EntriesReq" => x \in DOMAIN msgs
    BY <1>4, RequestsInFlight DEF IsRequest
  <2> QED
    BY <1>4, <2>1, <2>2, TermsGrow, TermBoundKept
<1>5. ASSUME NEW m \in DOMAIN msgs, AppendEntriesBatch(m)
      PROVE  EntryTermBound'
  <2> DEFINE n == m.dst
             log == Truncated(entries[n], m)
  <2>1. /\ n \in Node /\ m.term \in Nat /\ entries[n] \in Log
        /\ m.type = "EntriesReq" /\ m.entries \in Seq(Entry) /\ m.entries # << >>
        /\ term[n] <= m.term /\ term' = [term EXCEPT ![n] = m.term]
        /\ entries' = [entries EXCEPT ![n] = AppendBatch(log, m.entries)]
    BY <1>5, Delivered, MessageKinds
    DEF AppendEntriesBatch, Received, EntriesReq, Follow
  <2>2. /\ log \in Log
        /\ \A i \in DOMAIN log.inner : \E j \in DOMAIN entries[n].inner :
              log.inner[i] = entries[n].inner[j]
    <3>1. CASE log = entries[n]
      BY <2>1, <3>1
    <3>2. CASE log = RemoveUncommittedEntriesFrom(entries[n], m.prev_log_index,
                                                  m.prev_log_term)
      BY <2>1, <3>2, RemoveType
    <3> QED
      BY <3>1, <3>2 DEF Truncated
  <2>3. \A j \in DOMAIN entries[n].inner : entries[n].inner[j].term <= m.term
    <3>1. ASSUME NEW j \in DOMAIN entries[n].inner
          PROVE  entries[n].inner[j].term <= m.term
      <4>1. entries[n].inner[j] \in Entry
        BY <2>1, ElementOfSeq, LenProperties DEF Log
      <4>2. entries[n].inner[j].term <= term[n] /\ term[n] \in Nat
        BY <2>1 DEF EntryTermBound, TypeOK, NodesOK
      <4> QED
        BY <2>1, <4>1, <4>2 DEF Entry
    <3> QED
      BY <3>1
  <2>4. Within(log.inner, m.term)
    <3> HIDE DEF log
    <3> QED
      BY <2>2, <2>3 DEF Within
  <2>5. Within(m.entries, m.term)
    BY <2>1 DEF EntryTermBound, Within
  <2> HIDE DEF log
  <2>6. /\ AppendBatch(log, m.entries) \in Log
        /\ Within(AppendBatch(log, m.entries).inner, m.term)
    BY <2>1, <2>2, <2>4, <2>5, AppendWithin, AppendBatchType
  <2>7. term'[n] = m.term /\ \A s \in Node \ {n} : term'[s] = term[s]
    BY <2>1 DEF TypeOK, NodesOK
  <2>8. \A x \in DOMAIN msgs' : IsRequest(x) => x \in DOMAIN msgs
    BY <1>5, RequestsInFlight DEF Answering
  <2> QED
    BY <2>1, <2>6, <2>7, <2>8, TermBoundWithLog
<1>6. ASSUME NEW n \in Node, NEW r \in Request, NEW size \in BatchSizes,
             AppendStreamAccepted(n, r, size)
      PROVE  EntryTermBound'
  <2> DEFINE batch == NewEntries(n, r, size)
             log == AddEach(entries[n], batch)
  <2>1. /\ size \in Nat /\ entries[n] \in Log /\ term[n] \in Nat
        /\ entries[n].last_index \in Nat
    BY BoundsAssumption DEF TypeOK, NodesOK, Log
  <2>2. batch \in Seq(Entry) /\ Within(batch, term[n])
    <3>1. \A i \in 1..size : batch[i] \in Entry /\ batch[i].term <= term[n]
      BY <2>1 DEF NewEntries, Entry, Payload
    <3>2. batch = [i \in 1..size |-> batch[i]]
      BY DEF NewEntries
    <3> HIDE DEF batch
    <3> QED
      BY <2>1, <3>1, <3>2 DEF Within
  <2> HIDE DEF batch
  <2>3. Within(entries[n].inner, term[n])
    BY DEF EntryTermBound, Within
  <2>4. log \in Log /\ Within(log.inner, term[n])
    <3>1. log \in Log
      BY <2>1, <2>2, AddEachType
    <3>2. log = IF batch = << >> THEN entries[n]
                ELSE AppendBatch(entries[n], batch)
      BY DEF AddEach
    <3>3. batch # << >> => Within(AppendBatch(entries[n], batch).inner, term[n])
      BY <2>1, <2>2, <2>3, AppendWithin
    <3> HIDE DEF log
    <3> QED
      BY <2>3, <3>1, <3>2, <3>3
  <2>5. entries' = [entries EXCEPT ![n] = log] /\ UNCHANGED term
    BY <1>6 DEF AppendStreamAccepted, batch
  <2>6. \A x \in DOMAIN msgs' : IsRequest(x) => x \in DOMAIN msgs
    BY <1>6, RequestsInFlight
  <2> HIDE DEF log
  <2> QED
    BY <2>4, <2>5, <2>6, TermBoundWithLog
<1>7. ASSUME NEW n \in Node, Stop(n)
      PROVE  EntryTermBound'
  <2>1. EmptyLog \in Log /\ Within(EmptyLog.inner, term'[n])
    BY EmptySeq DEF EmptyLog, Log, Within
  <2>2. /\ entries' = [entries EXCEPT ![n] = EmptyLog]
        /\ \A s \in Node \ {n} : term'[s] = term[s]
    BY <1>7 DEF Stop, TypeOK, NodesOK
  <2>3. \A x \in DOMAIN msgs' : IsRequest(x) => x \in DOMAIN msgs
    BY <1>7, RequestsInFlight
  <2> QED
    BY <2>1, <2>2, <2>3, TermBoundWithLog
<1>8. ASSUME NEW n \in Node, Start(n)
      PROVE  EntryTermBound'
  BY <1>8 DEF Start, EntryTermBound, persistent
<1>9. ASSUME NEW n \in Node, NEW r \in Request, AppendStreamRefused(n, r)
      PROVE  EntryTermBound'
  BY <1>9 DEF AppendStreamRefused, EntryTermBound, persistent
<1>10. CASE UNCHANGED vars
  BY <1>10 DEF vars, EntryTermBound, persistent
<1> QED
  BY <1>1, <1>2, <1>3, <1>4, <1>5, <1>6, <1>7, <1>8, <1>9, <1>10
  DEF Next, Tick, Handle, Answering

\* No entry is ahead of the term of the node that holds it or of the request
\* that carries it, in every regime: what makes the last term of a log a bound
\* on what is in it, which on_request_vote compares.
THEOREM TermsBoundEntries == Spec => []EntryTermBound
<1>1. Spec => []TypeOK
  BY TypeCorrect
<1> QED
  BY <1>1, TermBoundInit, TermBoundStep, PTL DEF Spec

(***************************************************************************)
(* Terms and the candidates who opened them.                               *)
(***************************************************************************)
LEMMA OpenedInit == Init => TermsAreOpened
BY DEF Init, TermsAreOpened, Opened, EmptyBag, SetToBag

\* What a step has to show: a term that is new to its holder was opened.
LEMMA OpenedKept ==
    ASSUME TermsAreOpened, granted \subseteq granted',
           \A n \in Node : term'[n] = term[n] \/ Opened(term[n])',
           \A x \in DOMAIN msgs' : x \in DOMAIN msgs \/ Opened(x.term)',
           \A l \in led' : l \in led \/ Opened(l[2])'
    PROVE  TermsAreOpened'
<1>1. ASSUME NEW t, Opened(t)
      PROVE  Opened(t)'
  BY <1>1 DEF Opened
<1>2. ASSUME NEW n \in Node
      PROVE  Opened(term[n])'
  <2>1. CASE term'[n] = term[n]
    BY <2>1 DEF TermsAreOpened, Opened
  <2> QED
    BY <2>1
<1>3. ASSUME NEW x \in DOMAIN msgs'
      PROVE  Opened(x.term)'
  <2>1. x \in DOMAIN msgs => Opened(x.term)
    BY DEF TermsAreOpened
  <2> QED
    BY <1>1, <2>1
<1>4. ASSUME NEW l \in led'
      PROVE  Opened(l[2])'
  <2>1. l \in led => Opened(l[2])
    BY DEF TermsAreOpened
  <2> QED
    BY <1>1, <2>1
<1> QED
  BY <1>2, <1>3, <1>4 DEF TermsAreOpened

LEMMA OpenedStep == TypeOK /\ TermsAreOpened /\ [Next]_vars => TermsAreOpened'
<1> SUFFICES ASSUME TypeOK, TermsAreOpened, [Next]_vars
             PROVE  TermsAreOpened'
  OBVIOUS
<1>0. ASSUME granted \subseteq granted', NEW t, Opened(t)
      PROVE  Opened(t)'
  BY <1>0 DEF Opened
<1>1. ASSUME NEW n \in Node, SendAppendEntries(n)
      PROVE  TermsAreOpened'
  <2> DEFINE S == {AppendRequest(n, s, next_index[n][s], commit_index[n]) :
                      s \in Seeds(n)}
  <2>1. \A x \in S : x.term = term[n]
    BY DEF AppendRequest
  <2>2. msgs' = Send(S) /\ UNCHANGED <<term, granted, led>>
    BY <1>1 DEF SendAppendEntries, persistent, history
  <2> HIDE DEF S
  <2>3. \A x \in DOMAIN msgs' : x \in DOMAIN msgs \/ x \in S
    BY <2>2, InFlightAfterRound
  <2>4. \A x \in S : Opened(x.term)'
    BY <1>0, <2>1, <2>2 DEF TermsAreOpened
  <2> QED
    BY <2>2, <2>3, <2>4, OpenedKept
<1>2. ASSUME NEW n \in Node, SwitchToCandidate(n)
      PROVE  TermsAreOpened'
  <2> DEFINE S == {VoteRequest(n, s, term[n] + 1) : s \in Seeds(n)}
  <2>1. \A x \in S : x.term = term[n] + 1
    BY DEF VoteRequest
  <2>2. /\ msgs' = Send(S) /\ term' = [term EXCEPT ![n] = @ + 1] /\ UNCHANGED led
        /\ granted' = granted \cup
              {[voter |-> n, candidate |-> n, term |-> term[n] + 1]}
    BY <1>2 DEF SwitchToCandidate
  <2> HIDE DEF S
  <2>3. \A x \in DOMAIN msgs' : x \in DOMAIN msgs \/ x \in S
    BY <2>2, InFlightAfterRound
  <2>4. ASSUME NEW t, t = term[n] + 1
        PROVE  Opened(t)'
    <3> DEFINE g == [voter |-> n, candidate |-> n, term |-> term[n] + 1]
    <3>1. g \in granted' /\ g.candidate = g.voter /\ g.term = t
      BY <2>2, <2>4
    <3> HIDE DEF g
    <3> QED
      BY <3>1 DEF Opened
  <2>5. \A s \in Node : term'[s] = term[s] \/ Opened(term[s])'
    BY <2>2, <2>4 DEF TypeOK, NodesOK
  <2>6. \A x \in S : Opened(x.term)'
    BY <2>1, <2>4
  <2> QED
    BY <2>2, <2>3, <2>5, <2>6, OpenedKept
<1>3. ASSUME NEW m \in DOMAIN msgs, ElectionWon(m)
      PROVE  TermsAreOpened'
  <2> DEFINE n == m.dst
             after == entries[n].last_index + 1
             S == {AppendRequest(n, s, after, 0) : s \in Seeds(n)}
  <2>1. \A x \in S : x.term = term[n]
    BY DEF AppendRequest
  <2>2. /\ n \in Node /\ UNCHANGED <<term, granted>>
        /\ msgs' = Without(m) (+) SetToBag(S)
        /\ led' = led \cup {<<n, term[n]>>}
    BY <1>3, Delivered DEF ElectionWon, persistent
  <2> HIDE DEF S
  <2>3. \A x \in DOMAIN msgs' : x \in DOMAIN msgs \/ x \in S
    BY <2>2, InFlightAfterRound
  <2>4. Opened(term[n])'
    BY <2>2 DEF TermsAreOpened, Opened
  <2>5. \A x \in S : Opened(x.term)'
    BY <2>1, <2>2, <2>4
  <2>6. \A l \in led' : l \in led \/ Opened(l[2])'
    BY <2>2, <2>4
  <2> QED
    BY <2>2, <2>3, <2>5, <2>6, OpenedKept
<1>4. ASSUME NEW m \in DOMAIN msgs, Answering(m)
      PROVE  TermsAreOpened'
  <2>1. /\ Opened(m.term) /\ Opened(term[m.dst])
        /\ m.dst \in Node /\ term \in [Node -> Nat]
    BY Delivered DEF TermsAreOpened, TypeOK, NodesOK
  <2>2. \/ msgs' = Without(m)
        \/ \E t \in {m.term, term[m.dst]} : \E b :
              \/ msgs' = Reply(m, VoteAnswer(m, t, b))
              \/ msgs' = Reply(m, AppendAnswer(m, t, b))
    BY <1>4 DEF Answering, RequestVoteStale, RequestVoteFresh, RequestVoteAgain,
         VoteIgnored, VoteFromNewerTerm, VoteCounted, AppendEntriesStale,
         AppendEntriesUnmatched, AppendEntriesHeartbeat, AppendEntriesBatch,
         AppendRespIgnored, AppendRespReplicated, AppendRespRefused,
         Undeliverable, Lose, Discard
  <2>3. UNCHANGED term \/ term' = [term EXCEPT ![m.dst] = m.term]
    BY <1>4 DEF Answering, RequestVoteStale, RequestVoteFresh, RequestVoteAgain,
         VoteIgnored, VoteFromNewerTerm, VoteCounted, AppendEntriesStale,
         AppendEntriesUnmatched, AppendEntriesHeartbeat, AppendEntriesBatch,
         AppendRespIgnored, AppendRespReplicated, AppendRespRefused,
         Undeliverable, Lose, Discard, Follow, persistent
  <2>4. /\ granted \subseteq granted'
        /\ UNCHANGED led \/ led' = led \cup {<<m.dst, m.term>>}
    BY <1>4 DEF Answering, RequestVoteStale, RequestVoteFresh, RequestVoteAgain,
         VoteIgnored, VoteFromNewerTerm, VoteCounted, AppendEntriesStale,
         AppendEntriesUnmatched, AppendEntriesHeartbeat, AppendEntriesBatch,
         AppendRespIgnored, AppendRespReplicated, AppendRespRefused,
         Undeliverable, Lose, Discard, Follow, history
  <2>5. /\ Opened(m.term)'
        /\ \A t \in {m.term, term[m.dst]} : Opened(t)'
    BY <1>0, <2>1, <2>4
  <2>6. \A n \in Node : term'[n] = term[n] \/ Opened(term[n])'
    <3>1. \A n \in Node : term'[n] = term[n] \/ term'[n] = m.term
      BY <2>1, <2>3
    <3> QED
      BY <2>5, <3>1 DEF Opened
  <2>7. \A x \in DOMAIN msgs' : x \in DOMAIN msgs \/ Opened(x.term)'
    <3>1. CASE msgs' = Without(m)
      BY <3>1, InFlightAfter
    <3>2. ASSUME NEW t \in {m.term, term[m.dst]}, NEW b,
                 \/ msgs' = Reply(m, VoteAnswer(m, t, b))
                 \/ msgs' = Reply(m, AppendAnswer(m, t, b))
          PROVE  \A x \in DOMAIN msgs' : x \in DOMAIN msgs \/ Opened(x.term)'
      <4>1. \A x \in DOMAIN msgs' : \/ x \in DOMAIN msgs
                                    \/ x \in {VoteAnswer(m, t, b),
                                             AppendAnswer(m, t, b)}
        BY <3>2, InFlightAfter
      <4>2. VoteAnswer(m, t, b).term = t /\ AppendAnswer(m, t, b).term = t
        BY DEF VoteAnswer, AppendAnswer
      <4> QED
        BY <2>5, <4>1, <4>2
    <3> QED
      BY <2>2, <3>1, <3>2
  <2>8. \A l \in led' : l \in led \/ Opened(l[2])'
    BY <2>4, <2>5
  <2> QED
    BY <2>4, <2>6, <2>7, <2>8, OpenedKept
<1>5. ASSUME NEW n \in Node, Stop(n)
      PROVE  TermsAreOpened'
  <2>1. /\ term' = [term EXCEPT ![n] = 0] /\ UNCHANGED <<granted, led>>
        /\ DOMAIN msgs' \subseteq DOMAIN msgs
    BY <1>5 DEF Stop, history
  <2>2. \A s \in Node : term'[s] = term[s] \/ Opened(term[s])'
    BY <2>1 DEF TypeOK, NodesOK, Opened
  <2> QED
    BY <2>1, <2>2, OpenedKept
<1>6. ASSUME UNCHANGED <<term, msgs, granted, led>>
      PROVE  TermsAreOpened'
  BY <1>6 DEF TermsAreOpened, Opened
<1>7. ASSUME \/ \E n \in Node : Start(n)
             \/ \E n \in Node, r \in Request : AppendStreamRefused(n, r)
             \/ \E n \in Node, r \in Request, size \in BatchSizes :
                   AppendStreamAccepted(n, r, size)
             \/ UNCHANGED vars
      PROVE  UNCHANGED <<term, msgs, granted, led>>
  BY <1>7 DEF Start, AppendStreamRefused, AppendStreamAccepted, vars, persistent,
              history
<1> QED
  BY <1>1, <1>2, <1>3, <1>4, <1>5, <1>6, <1>7 DEF Next, Tick, Handle, Answering

\* The term of every node, message and leadership is one that some candidate
\* opened by its own increment, in every regime: taking over terms from
\* messages, refusals and heartbeats included, never invents one.
THEOREM TermsOpened == Spec => []TermsAreOpened
<1>1. Spec => []TypeOK
  BY TypeCorrect
<1> QED
  BY <1>1, OpenedInit, OpenedStep, PTL DEF Spec

=============================================================================
