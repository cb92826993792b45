------------------------ MODULE RaftReplicationProofs ------------------------
(***************************************************************************)
(* Proofs about replication under a stable leader: a cluster in which one  *)
(* node l may time out and nobody is stopped, whatever the network loses,  *)
(* delays and reorders and however often a tick repeats a request.         *)
(*                                                                         *)
(* All there is to know is the log of l.  It is 1, 2, ..., Len in a single *)
(* term; a request carries a stretch of it; and the log of a follower,     *)
(* repetitions apart, is a beginning of it: Upto says that a node has it   *)
(* up to an index.  Every index the code computes (match_index,            *)
(* commit_index, the end of a batch in an answer, the commit index in a    *)
(* request) is one that some node, or every node, has the log up to.       *)
(***************************************************************************)
EXTENDS RaftEntryProofs

LogOf(l) == entries[l].inner

\* s has what is in the log of l up to index k, and l has as much.
Upto(l, s, k) ==
    /\ k \in 0..Len(LogOf(l))
    /\ \A j \in 1..k : Holds(s, LogOf(l)[j])

OnlyLeader(l) ==
    /\ \A n \in Node \ {l} : status[n] # "leader"
    /\ status[l] # "leader" => LogOf(l) = << >>

Numbered(l) ==
    \A i \in DOMAIN LogOf(l) : LogOf(l)[i].index = i /\ LogOf(l)[i].term = term[l]

\* A request carries what follows its point of reference.
Copies(l, m) ==
    /\ status[l] = "leader" /\ m.term = term[l]
    /\ \A j \in DOMAIN m.entries :
          /\ m.prev_log_index + j \in DOMAIN LogOf(l)
          /\ m.entries[j] = LogOf(l)[m.prev_log_index + j]
    /\ \A s \in Node : Upto(l, s, m.leader_commit)

MessageOK(l, m) ==
    /\ IF IsRequest(m) THEN m.src = l ELSE m.dst = l
    /\ m.type = "EntriesReq" => Copies(l, m)
    /\ m.type = "EntriesResp" /\ m.success => Upto(l, m.src, m.batch_end)

\* s has the entry e of the log of l, and all that comes before it.
Follows(l, s, e) ==
    /\ Upto(l, s, e.index)
    /\ e.index \in DOMAIN LogOf(l) /\ e = LogOf(l)[e.index]

LogsCopy(l) == \A s \in Node : \A e \in Held(s) : Follows(l, s, e)

Matches(l) == \A s \in Seeds(l) : Upto(l, s, match_index[l][s])

Commits(l) == \A n, s \in Node : Upto(l, s, commit_index[n])

Messages(l) == \A m \in DOMAIN msgs : MessageOK(l, m)

Replicating(l) ==
    /\ OnlyLeader(l) /\ Numbered(l) /\ LogsCopy(l)
    /\ Matches(l) /\ Commits(l) /\ Messages(l)

(***************************************************************************)
(* Reading a log whose indices are 1, 2, ..., Len.                         *)
(***************************************************************************)
LEMMA ReadsStretch ==
    ASSUME NEW log \in Log, \A i \in DOMAIN log.inner : log.inner[i].index = i,
           NEW index \in Nat, NEW max \in Nat
    PROVE  \A j \in DOMAIN ReadEntriesFrom(log, index, max) :
               /\ index + j \in DOMAIN log.inner
               /\ ReadEntriesFrom(log, index, max)[j] = log.inner[index + j]
<1> DEFINE K == {i \in DOMAIN log.inner : log.inner[i].index > index}
           found == SubSeqAt(log.inner, K)
           len == IF Len(found) < max THEN Len(found) ELSE max
           read == SubSeq(found, 1, len)
<1>1. /\ log.inner \in Seq(Entry)
      /\ DOMAIN log.inner = 1..Len(log.inner) /\ Len(log.inner) \in Nat
  BY LenProperties DEF Log
<1>2. K = (index + 1)..Len(log.inner)
  BY <1>1
<1>3. Cardinality(K) \in Nat
  <2>1. index + 1 \in Int /\ Len(log.inner) \in Int
    BY <1>1
  <2>2. IsFiniteSet((index + 1)..Len(log.inner))
    BY <2>1, FS_Interval
  <2> HIDE DEF K
  <2> QED
    BY <1>2, <2>2, FS_CardinalityType
<1>4. found \in Seq(Entry)
  <2>1. K \in SUBSET DOMAIN log.inner
    OBVIOUS
  <2> QED
    BY <1>1, <2>1, SubSeqAtType
<1>5. DOMAIN found = 1..Cardinality(K)
  BY DEF SubSeqAt
<1>6. \A n \in 1..Cardinality(K) :
          index + n \in K /\ found[n] = log.inner[index + n]
  <2> SUFFICES ASSUME NEW n \in 1..Cardinality(K)
               PROVE  index + n \in K /\ found[n] = log.inner[index + n]
    OBVIOUS
  <2>1. found[n] = log.inner[Nth(K, n)]
    BY DEF SubSeqAt
  <2> HIDE DEF K, found
  <2>2. Nth(K, n) = index + n /\ index + n \in K
    BY <1>1, <1>2, NthOfStretch
  <2> QED
    BY <2>1, <2>2
<1>7. \A n \in 1..Cardinality(K) : index + n \in DOMAIN log.inner
  BY <1>6
<1> HIDE DEF found, K
<1>8. Len(found) \in Nat /\ DOMAIN found = 1..Len(found)
      /\ \A n \in DOMAIN found : found[n] \in Entry
  BY <1>4, ElementOfSeq, LenProperties
<1>9. len \in Nat /\ len <= Len(found)
  BY <1>8
<1> HIDE DEF len
<1>10. \A i \in 1..len : i \in DOMAIN found /\ found[i] \in Entry
  BY <1>8, <1>9
<1>11. /\ read \in Seq(Entry)
       /\ Len(read) = IF 1 <= len THEN len - 1 + 1 ELSE 0
       /\ \A i \in 1..(len - 1 + 1) : read[i] = found[1 + i - 1]
  <2>1. len \in Int /\ 1 \in Int
    BY <1>9
  <2>2. \A i \in 1..len : found[i] \in Entry
    BY <1>10
  <2> QED
    BY <2>1, <2>2, SubSeqProperties
<1> HIDE DEF read
<1>12. DOMAIN read = 1..len
  BY <1>9, <1>11, LenProperties
<1>13. \A j \in DOMAIN read : read[j] = found[j]
  BY <1>9, <1>11, <1>12
<1>14. ReadEntriesFrom(log, index, max) = read
  BY DEF ReadEntriesFrom, read, len, found, K
<1> QED
  BY <1>5, <1>6, <1>7, <1>10, <1>12, <1>13, <1>14

LEMMA ConcatParts ==
    ASSUME NEW S, NEW a \in Seq(S), NEW b \in Seq(S)
    PROVE  /\ DOMAIN (a \o b) = 1..(Len(a) + Len(b))
           /\ \A i \in 1..Len(a) : (a \o b)[i] = a[i]
           /\ \A j \in 1..Len(b) : (a \o b)[Len(a) + j] = b[j]
<1>1. Len(a) \in Nat /\ Len(b) \in Nat
  BY LenProperties
<1>2. /\ a \o b \in Seq(S) /\ Len(a \o b) = Len(a) + Len(b)
      /\ \A i \in 1..(Len(a) + Len(b)) :
            (a \o b)[i] = IF i <= Len(a) THEN a[i] ELSE b[i - Len(a)]
  BY ConcatProperties
<1>3. DOMAIN (a \o b) = 1..(Len(a) + Len(b))
  BY <1>2, LenProperties
<1>4. ASSUME NEW i \in 1..Len(a)
      PROVE  (a \o b)[i] = a[i]
  <2>1. i \in 1..(Len(a) + Len(b)) /\ i <= Len(a)
    BY <1>1
  <2> QED
    BY <1>2, <2>1
<1>5. ASSUME NEW j \in 1..Len(b)
      PROVE  (a \o b)[Len(a) + j] = b[j]
  <2>1. PICK i : i = Len(a) + j
    OBVIOUS
  <2>2. i \in 1..(Len(a) + Len(b)) /\ ~(i <= Len(a)) /\ i - Len(a) = j
    BY <1>1, <2>1
  <2> QED
    BY <1>2, <2>1, <2>2
<1> QED
  BY <1>3, <1>4, <1>5

(***************************************************************************)
(* What a step must not take back: l goes on leading in its term, its log  *)
(* grows at the end, and no node drops an entry.                           *)
(***************************************************************************)
Grows(l) ==
    /\ status[l] = "leader" => status'[l] = "leader" /\ term'[l] = term[l]
    /\ Len(LogOf(l)) <= Len(LogOf(l)')
    /\ \A j \in DOMAIN LogOf(l) : LogOf(l)'[j] = LogOf(l)[j]
    /\ \A s \in Node : Held(s) \subseteq Held(s)'

LEMMA LogTypes ==
    ASSUME TypeOK, NEW s \in Node
    PROVE  /\ entries[s] \in Log /\ entries[s].inner \in Seq(Entry)
           /\ Len(entries[s].inner) \in Nat
           /\ DOMAIN entries[s].inner = 1..Len(entries[s].inner)
           /\ \A i \in DOMAIN entries[s].inner :
                 /\ entries[s].inner[i] \in Entry
                 /\ entries[s].inner[i].index \in Nat
<1>1. entries[s] \in Log /\ entries[s].inner \in Seq(Entry)
  BY DEF TypeOK, NodesOK, Log
<1>2. /\ Len(entries[s].inner) \in Nat
      /\ DOMAIN entries[s].inner = 1..Len(entries[s].inner)
  BY <1>1, LenProperties
<1>3. \A i \in DOMAIN entries[s].inner : entries[s].inner[i] \in Entry
  BY <1>1, <1>2, ElementOfSeq
<1> QED
  BY <1>1, <1>2, <1>3 DEF Entry

LEMMA LogTypesNext ==
    ASSUME TypeOK', NEW s \in Node
    PROVE  /\ entries'[s] \in Log /\ entries'[s].inner \in Seq(Entry)
           /\ Len(entries'[s].inner) \in Nat
           /\ DOMAIN entries'[s].inner = 1..Len(entries'[s].inner)
           /\ \A i \in DOMAIN entries'[s].inner :
                 /\ entries'[s].inner[i] \in Entry
                 /\ entries'[s].inner[i].index \in Nat
<1>1. entries'[s] \in Log /\ entries'[s].inner \in Seq(Entry)
  BY DEF TypeOK, NodesOK, Log
<1>2. /\ Len(entries'[s].inner) \in Nat
      /\ DOMAIN entries'[s].inner = 1..Len(entries'[s].inner)
  BY <1>1, LenProperties
<1>3. \A i \in DOMAIN entries'[s].inner : entries'[s].inner[i] \in Entry
  BY <1>1, <1>2, ElementOfSeq
<1> QED
  BY <1>1, <1>2, <1>3 DEF Entry

LEMMA UptoKept ==
    ASSUME TypeOK, TypeOK', NEW l \in Node, Grows(l), NEW s \in Node, NEW k,
           Upto(l, s, k)
    PROVE  Upto(l, s, k)'
<1>1. /\ Len(LogOf(l)) \in Nat /\ DOMAIN LogOf(l) = 1..Len(LogOf(l))
      /\ Len(LogOf(l)') \in Nat /\ k \in 0..Len(LogOf(l))
  BY LogTypes, LogTypesNext DEF LogOf, Upto
<1>2. k \in 0..Len(LogOf(l)')
  BY <1>1 DEF Grows
<1>3. ASSUME NEW j \in 1..k
      PROVE  Holds(s, LogOf(l)[j])'
  <2>1. j \in DOMAIN LogOf(l)
    BY <1>1
  <2>2. Holds(s, LogOf(l)[j])
    BY DEF Upto
  <2>3. PICK i \in DOMAIN entries[s].inner : entries[s].inner[i] = LogOf(l)[j]
    BY <2>2 DEF Holds
  <2>4. LogOf(l)[j] \in Held(s)'
    BY <2>3 DEF Grows, Held
  <2>5. LogOf(l)'[j] = LogOf(l)[j]
    BY <2>1 DEF Grows
  <2> QED
    BY <2>4, <2>5 DEF Holds, Held
<1> QED
  BY <1>2, <1>3 DEF Upto

\* Nodes have the log up to whatever is below an index they have it up to.
LEMMA UptoBelow ==
    ASSUME TypeOK, NEW l \in Node, NEW s \in Node, NEW k, Upto(l, s, k),
           NEW j \in 0..k
    PROVE  Upto(l, s, j)
<1>1. Len(LogOf(l)) \in Nat
  BY LogTypes DEF LogOf
<1> QED
  BY <1>1 DEF Upto

LEMMA UptoNothing ==
    ASSUME TypeOK, NEW l \in Node, NEW s \in Node
    PROVE  Upto(l, s, 0)
<1>1. Len(LogOf(l)) \in Nat
  BY LogTypes DEF LogOf
<1> QED
  BY <1>1 DEF Upto

LEMMA UptoNothingNext ==
    ASSUME TypeOK', NEW l \in Node, NEW s \in Node
    PROVE  Upto(l, s, 0)'
<1>1. Len(LogOf(l)') \in Nat
  BY LogTypesNext DEF LogOf
<1> QED
  BY <1>1 DEF Upto

\* l has all of its own log.
LEMMA UptoOwn ==
    ASSUME TypeOK, NEW l \in Node, NEW k \in 0..Len(LogOf(l))
    PROVE  Upto(l, l, k)
<1>1. Len(LogOf(l)) \in Nat /\ DOMAIN LogOf(l) = 1..Len(LogOf(l))
  BY LogTypes DEF LogOf
<1>2. \A j \in 1..k : j \in DOMAIN LogOf(l)
  BY <1>1
<1> QED
  BY <1>2 DEF Upto, Holds, LogOf

LEMMA MessageKept ==
    ASSUME TypeOK, TypeOK', NEW l \in Node, Grows(l), NEW m \in DOMAIN msgs,
           MessageOK(l, m)
    PROVE  MessageOK(l, m)'
<1>1. m \in Message /\ m.src \in Node
  BY Delivered
<1>2. ASSUME m.type = "EntriesReq"
      PROVE  Copies(l, m)'
  <2>1. Copies(l, m)
    BY <1>2 DEF MessageOK
  <2>2. status'[l] = "leader" /\ m.term = term'[l]
    BY <2>1 DEF Copies, Grows
  <2>3. ASSUME NEW j \in DOMAIN m.entries
        PROVE  /\ m.prev_log_index + j \in DOMAIN LogOf(l)'
               /\ m.entries[j] = LogOf(l)'[m.prev_log_index + j]
    <3> DEFINE p == m.prev_log_index + j
    <3>1. p \in DOMAIN LogOf(l) /\ m.entries[j] = LogOf(l)[p]
      BY <2>1 DEF Copies
    <3> HIDE DEF p
    <3>2. p \in DOMAIN LogOf(l)'
      BY <3>1, LogTypes, LogTypesNext DEF Grows, LogOf
    <3> QED
      BY <3>1, <3>2 DEF Grows, p
  <2>4. \A s \in Node : Upto(l, s, m.leader_commit)'
    BY <2>1, UptoKept DEF Copies
  <2> QED
    BY <2>2, <2>3, <2>4 DEF Copies
<1>3. m.type = "EntriesResp" /\ m.success => Upto(l, m.src, m.batch_end)'
  BY <1>1, UptoKept DEF MessageOK
<1> QED
  BY <1>2, <1>3 DEF MessageOK, IsRequest

LEMMA MessagesKept ==
    ASSUME TypeOK, TypeOK', NEW l \in Node, Grows(l), Messages(l),
           \A m \in DOMAIN msgs' : m \in DOMAIN msgs \/ MessageOK(l, m)'
    PROVE  Messages(l)'
BY MessageKept DEF Messages

(***************************************************************************)
(* A step that leaves the logs alone; and one that leaves alone, or resets *)
(* to 0, the indices too.                                                  *)
(***************************************************************************)
LEMMA SameLogs ==
    ASSUME TypeOK, TypeOK', NEW l \in Node, Replicating(l),
           UNCHANGED entries,
           \A n \in Node \ {l} : status'[n] # "leader",
           status[l] = "leader" => status'[l] = "leader" /\ term'[l] = term[l],
           \A s \in Seeds(l) : \A k : k = match_index'[l][s] => Upto(l, s, k),
           \A n, s \in Node : \A k : k = commit_index'[n] => Upto(l, s, k),
           \A m \in DOMAIN msgs' : m \in DOMAIN msgs \/ MessageOK(l, m)'
    PROVE  Replicating(l)'
<1>1. Grows(l)
  <2>1. \A s \in Node : Held(s) \subseteq Held(s)'
    BY DEF Held
  <2>2. Len(LogOf(l)) <= Len(LogOf(l)')
    BY LogTypes DEF LogOf
  <2> QED
    BY <2>1, <2>2 DEF Grows, LogOf
<1>2. \A s \in Node : \A k : Upto(l, s, k)' <=> Upto(l, s, k)
  BY DEF Upto, LogOf, Holds
<1>3. OnlyLeader(l)'
  BY DEF OnlyLeader, Replicating, LogOf
<1>4. Numbered(l)'
  BY LogTypes DEF OnlyLeader, Numbered, Replicating, LogOf
<1>5. LogsCopy(l)'
  BY <1>2 DEF LogsCopy, Follows, Held, Replicating, LogOf
<1>6. Matches(l)'
  BY <1>2 DEF Matches, Seeds
<1>7. Commits(l)'
  BY <1>2 DEF Commits
<1>8. Messages(l)'
  BY <1>1, MessagesKept DEF Replicating
<1> QED
  BY <1>3, <1>4, <1>5, <1>6, <1>7, <1>8 DEF Replicating

LEMMA QuietStep ==
    ASSUME TypeOK, TypeOK', NEW l \in Node, Replicating(l),
           UNCHANGED entries,
           \A n \in Node \ {l} : status'[n] # "leader",
           status[l] = "leader" => status'[l] = "leader" /\ term'[l] = term[l],
           \A s \in Seeds(l) : match_index'[l][s] \in {0, match_index[l][s]},
           \A n \in Node : commit_index'[n] \in {0, commit_index[n]},
           \A m \in DOMAIN msgs' : m \in DOMAIN msgs \/ MessageOK(l, m)'
    PROVE  Replicating(l)'
<1>1. \A s \in Seeds(l) : \A k : k = match_index'[l][s] => Upto(l, s, k)
  BY UptoNothing DEF Replicating, Matches, Seeds
<1>2. \A n, s \in Node : \A k : k = commit_index'[n] => Upto(l, s, k)
  BY UptoNothing DEF Replicating, Commits
<1> QED
  BY <1>1, <1>2, SameLogs

LEMMA RequestCopies ==
    ASSUME TypeOK, NEW l \in Node, Numbered(l), NEW s, NEW next \in Nat,
           NEW commit, \A n \in Node : Upto(l, n, commit),
           NEW r, r = AppendRequest(l, s, next, commit),
           UNCHANGED entries, term'[l] = term[l], status'[l] = "leader"
    PROVE  MessageOK(l, r)'
<1> DEFINE prev  == GetPreviousEntry(entries[l], next).index
           batch == ReadEntriesFrom(entries[l], prev, MaxBatch)
<1>1. /\ r.type = "EntriesReq" /\ r.src = l /\ r.term = term[l]
      /\ r.prev_log_index = prev /\ r.entries = batch
      /\ r.leader_commit = commit
  BY DEF AppendRequest
<1>2. prev \in Nat
  BY LogTypes, GetPreviousEntryType
<1> HIDE DEF prev
<1>3. \A j \in DOMAIN batch : /\ prev + j \in DOMAIN LogOf(l)
                              /\ batch[j] = LogOf(l)[prev + j]
  <2>1. \A j \in DOMAIN LogOf(l) : LogOf(l)[j].index = j
    BY DEF Numbered
  <2> QED
    BY <1>2, <2>1, LogTypes, ReadsStretch, BoundsAssumption DEF LogOf
<1> HIDE DEF batch
<1>4. \A n \in Node : Upto(l, n, commit)'
  BY DEF Upto, LogOf, Holds
<1>5. Copies(l, r)'
  BY <1>1, <1>3, <1>4 DEF Copies, LogOf
<1> QED
  BY <1>1, <1>5 DEF MessageOK, IsRequest

(***************************************************************************)
(* A follower takes a batch: nothing is truncated, as its log has entries  *)
(* of one term only, and what it has grows to the end of the batch.        *)
(***************************************************************************)
LEMMA NothingTruncated ==
    ASSUME TypeOK, CacheMatchesLog, NEW l \in Node, Replicating(l),
           NEW m \in DOMAIN msgs, m.type = "EntriesReq"
    PROVE  Truncated(entries[m.dst], m) = entries[m.dst]
<1> DEFINE n == m.dst
           inner == entries[n].inner
<1>1. /\ n \in Node /\ m \in EntriesReq /\ m.term = term[l]
  BY Delivered, MessageKinds DEF Replicating, Messages, MessageOK, Copies
<1>2. CASE inner = << >>
  <2>1. entries[n].last_index = 0
    BY <1>1, <1>2 DEF CacheMatchesLog, LastOf
  <2>2. m.prev_log_index \in Nat
    BY <1>1 DEF EntriesReq
  <2> QED
    BY <2>1, <2>2 DEF Truncated
<1>3. CASE inner # << >>
  <2>1. Len(inner) \in DOMAIN inner
    BY <1>1, <1>3, LogTypes, EmptySeq
  <2>2. entries[n].last_term = inner[Len(inner)].term
    BY <1>1, <1>3 DEF CacheMatchesLog, LastOf
  <2>3. inner[Len(inner)].term = term[l]
    BY <1>1, <2>1 DEF Replicating, LogsCopy, Follows, Held, Numbered
  <2> QED
    BY <1>1, <2>2, <2>3 DEF Truncated
<1> QED
  BY <1>2, <1>3

LEMMA PointIsHeld ==
    ASSUME TypeOK, NEW l \in Node, Replicating(l), NEW m \in DOMAIN msgs,
           m.type = "EntriesReq", SharesPoint(m)
    PROVE  Upto(l, m.dst, m.prev_log_index)
<1>1. m.dst \in Node
  BY Delivered
<1>2. CASE m.prev_log_index = 0
  BY <1>1, <1>2, UptoNothing
<1>3. CASE m.prev_log_index # 0
  <2>1. PICK i \in DOMAIN entries[m.dst].inner :
            entries[m.dst].inner[i].index = m.prev_log_index
    BY <1>3 DEF SharesPoint, ContainsLog
  <2> QED
    BY <1>1, <2>1 DEF Replicating, LogsCopy, Follows, Held
<1> QED
  BY <1>2, <1>3

LEMMA BatchStep ==
    ASSUME TypeOK, TypeOK', CacheMatchesLog, NEW l \in Node, Replicating(l),
           NEW m \in DOMAIN msgs, AppendEntriesBatch(m)
    PROVE  Replicating(l)' /\ Grows(l)
<1>0. PICK n, p, before, size :
          /\ n = m.dst /\ p = m.prev_log_index
          /\ before = Len(entries[n].inner) /\ size = Len(m.entries)
  OBVIOUS
<1>1. /\ m.type = "EntriesReq" /\ SharesPoint(m) /\ m.entries # << >>
      /\ entries' = [entries EXCEPT
                       ![n] = AppendBatch(Truncated(entries[n], m), m.entries)]
      /\ commit_index' = [commit_index EXCEPT ![n] = FollowerCommit(@, m)]
      /\ msgs' = Reply(m, AppendAnswer(m, m.term, TRUE))
      /\ Follow(m)
  BY <1>0 DEF AppendEntriesBatch, Received
<1>2. /\ m.src = l /\ Copies(l, m)
  BY <1>1 DEF Replicating, Messages, MessageOK, IsRequest
<1>3. /\ n \in Node /\ n # l /\ m \in EntriesReq /\ p \in Nat
      /\ m.entries \in Seq(Entry) /\ m.leader_commit \in Nat
  BY <1>0, <1>1, <1>2, Delivered, MessageKinds DEF EntriesReq
<1>4. /\ size \in Nat \ {0} /\ DOMAIN m.entries = 1..size
      /\ before \in Nat /\ DOMAIN entries[n].inner = 1..before
  BY <1>0, <1>1, <1>3, LastOfBatch, LenProperties, LogTypes
<1>5. /\ entries'[n].inner = entries[n].inner \o m.entries
      /\ \A s \in Node \ {n} : entries'[s] = entries[s]
  <2>1. Truncated(entries[n], m) = entries[n]
    BY <1>0, <1>1, NothingTruncated
  <2> QED
    BY <1>1, <1>3, <2>1 DEF AppendBatch, TypeOK, NodesOK
<1>6. /\ DOMAIN entries'[n].inner = 1..(before + size)
      /\ \A i \in 1..before : entries'[n].inner[i] = entries[n].inner[i]
      /\ \A j \in 1..size : entries'[n].inner[before + j] = m.entries[j]
  <2>1. PICK a \in Seq(Entry), b \in Seq(Entry) :
            a = entries[n].inner /\ b = m.entries
    BY <1>3, LogTypes
  <2>2. Len(a) = before /\ Len(b) = size /\ entries'[n].inner = a \o b
    BY <1>0, <1>5, <2>1
  <2>3. /\ DOMAIN (a \o b) = 1..(Len(a) + Len(b))
        /\ \A i \in 1..Len(a) : (a \o b)[i] = a[i]
        /\ \A j \in 1..Len(b) : (a \o b)[Len(a) + j] = b[j]
    BY ConcatParts
  <2>4. DOMAIN entries'[n].inner = 1..(before + size)
    BY <2>2, <2>3
  <2>5. \A i \in 1..before : entries'[n].inner[i] = entries[n].inner[i]
    BY <2>1, <2>2, <2>3
  <2>6. \A j \in 1..size : entries'[n].inner[before + j] = m.entries[j]
    BY <2>1, <2>2, <2>3
  <2> QED
    BY <2>4, <2>5, <2>6
<1>7. LogOf(l)' = LogOf(l) /\ Len(LogOf(l)) \in Nat
      /\ DOMAIN LogOf(l) = 1..Len(LogOf(l))
  BY <1>3, <1>5, LogTypes DEF LogOf
<1>8. /\ UNCHANGED match_index /\ term'[l] = term[l] /\ status[l] = "leader"
      /\ status' = [status EXCEPT ![n] = "follower"]
  BY <1>0, <1>1, <1>2, <1>3 DEF Follow, TypeOK, NodesOK, Copies
<1>9. /\ Held(n) \subseteq Held(n)'
      /\ \A j \in 1..size : m.entries[j] \in Held(n)'
  <2>1. ASSUME NEW i \in 1..before
        PROVE  entries[n].inner[i] \in Held(n)'
    <3>1. i \in DOMAIN entries'[n].inner
      BY <1>4, <1>6
    <3> QED
      BY <1>6, <3>1 DEF Held
  <2>2. ASSUME NEW j \in 1..size
        PROVE  m.entries[j] \in Held(n)'
    <3>1. before + j \in DOMAIN entries'[n].inner
      BY <1>4, <1>6
    <3> QED
      BY <1>6, <3>1 DEF Held
  <2> QED
    BY <1>4, <2>1, <2>2 DEF Held
<1>10. Grows(l)
  <2>1. ASSUME NEW s \in Node
        PROVE  Held(s) \subseteq Held(s)'
    <3>1. CASE s = n
      BY <1>9, <3>1
    <3>2. CASE s # n
      <4>1. entries'[s] = entries[s]
        BY <1>5, <3>2
      <4> QED
        BY <4>1 DEF Held
    <3> QED
      BY <3>1, <3>2
  <2> QED
    BY <1>3, <1>7, <1>8, <2>1 DEF Grows, TypeOK, NodesOK
<1>11. ASSUME NEW j \in 1..size
       PROVE  p + j \in DOMAIN LogOf(l) /\ m.entries[j] = LogOf(l)[p + j]
  BY <1>0, <1>2, <1>4 DEF Copies
<1>12. Upto(l, n, p)
  BY <1>0, <1>1, PointIsHeld
<1>13. ASSUME NEW j \in 1..size
       PROVE  Upto(l, n, p + j)'
  <2>1. p + j \in 0..Len(LogOf(l)')
    BY <1>3, <1>4, <1>7, <1>11
  <2>2. ASSUME NEW q \in 1..(p + j)
        PROVE  LogOf(l)'[q] \in Held(n)'
    <3>1. CASE q <= p
      <4>1. q \in 1..p
        BY <1>3, <3>1
      <4>2. LogOf(l)[q] \in Held(n)
        BY <1>12, <4>1 DEF Upto, Holds, Held
      <4> QED
        BY <1>7, <1>9, <4>2
    <3>2. CASE q > p
      <4> DEFINE i == q - p
      <4>1. i \in 1..size /\ p + i = q
        BY <1>3, <1>4, <3>2
      <4> HIDE DEF i
      <4>2. m.entries[i] = LogOf(l)[q]
        BY <1>11, <4>1
      <4> QED
        BY <1>7, <1>9, <4>1, <4>2
    <3> QED
      BY <1>3, <3>1, <3>2
  <2> QED
    BY <2>1, <2>2 DEF Upto, Holds, Held
<1>14. OnlyLeader(l)'
  BY <1>3, <1>8 DEF OnlyLeader, Replicating, TypeOK, NodesOK, LogOf
<1>15. Numbered(l)'
  BY <1>7, <1>8 DEF Numbered, Replicating
<1>16. LogsCopy(l)'
  <2> SUFFICES ASSUME NEW s \in Node, NEW e \in Held(s)'
               PROVE  Follows(l, s, e)'
    BY DEF LogsCopy
  <2>1. CASE e \in Held(s)
    <3>1. Follows(l, s, e)
      BY <2>1 DEF Replicating, LogsCopy
    <3>2. Upto(l, s, e.index)'
      BY <1>10, <3>1, UptoKept DEF Follows
    <3> QED
      BY <1>7, <3>1, <3>2 DEF Follows
  <2>2. CASE e \notin Held(s)
    <3>1. s = n
      BY <1>5, <2>2 DEF Held
    <3>2. PICK i \in 1..(before + size) : e = entries'[n].inner[i]
      BY <1>6, <3>1 DEF Held
    <3>3. i \notin 1..before
      BY <1>4, <1>6, <2>2, <3>1, <3>2 DEF Held
    <3>4. PICK j \in 1..size : i = before + j
      <4>1. i - before \in 1..size /\ i = before + (i - before)
        BY <1>4, <3>2, <3>3
      <4> QED
        BY <4>1
    <3>5. e = m.entries[j] /\ e.index = p + j
      BY <1>6, <1>11, <3>2, <3>4 DEF Numbered, Replicating
    <3>6. Upto(l, s, e.index)'
      BY <1>13, <3>1, <3>5
    <3> QED
      BY <1>7, <1>11, <3>5, <3>6 DEF Follows
  <2> QED
    BY <2>1, <2>2
<1>17. Matches(l)'
  BY <1>8, <1>10, UptoKept DEF Matches, Replicating, Seeds
<1>18. Commits(l)'
  <2> SUFFICES ASSUME NEW r \in Node, NEW s \in Node, NEW c,
                      c = commit_index'[r]
               PROVE  Upto(l, s, c)'
    BY DEF Commits
  <2>1. Upto(l, s, commit_index[r]) /\ Upto(l, s, m.leader_commit)
    BY <1>2 DEF Replicating, Commits, Copies
  <2>2. Upto(l, s, c)
    <3>1. CASE r # n \/ c = commit_index[r]
      BY <1>1, <2>1, <3>1 DEF TypeOK, NodesOK
    <3>2. CASE r = n /\ c # commit_index[r]
      <4>1. c = FollowerCommit(commit_index[n], m)
        BY <1>1, <1>3, <3>2 DEF TypeOK, NodesOK
      <4>2. PICK last \in Nat : last = m.entries[size].index
        BY <1>0, <1>1, <1>3, LastOfBatch DEF Entry
      <4>3. \/ c = m.leader_commit
            \/ c = last /\ ~(m.leader_commit < last)
        BY <1>0, <3>2, <4>1, <4>2 DEF FollowerCommit
      <4>4. c \in 0..m.leader_commit
        BY <1>3, <4>2, <4>3
      <4> QED
        BY <2>1, <4>4, UptoBelow
    <3> QED
      BY <3>1, <3>2
  <2> QED
    BY <1>10, <2>2, UptoKept
<1>19. Messages(l)'
  <2> SUFFICES ASSUME NEW r \in DOMAIN msgs', r \notin DOMAIN msgs
               PROVE  MessageOK(l, r)'
    BY <1>10, MessagesKept DEF Replicating
  <2>1. r = AppendAnswer(m, m.term, TRUE)
    BY <1>1, InFlightAfter
  <2>2. /\ r.type = "EntriesResp" /\ r.dst = l /\ r.src = n
        /\ r.batch_end = m.entries[size].index
    BY <1>0, <1>1, <1>2, <2>1 DEF AppendAnswer
  <2>3. r.batch_end = p + size /\ size \in 1..size
    BY <1>4, <1>11, <2>2 DEF Replicating, Numbered
  <2>4. Upto(l, n, p + size)'
    BY <1>13, <2>3
  <2> QED
    BY <2>2, <2>3, <2>4 DEF MessageOK, IsRequest
<1> QED
  BY <1>10, <1>14, <1>15, <1>16, <1>17, <1>18, <1>19 DEF Replicating

(***************************************************************************)
(* l takes a client call: its log grows at the end.                        *)
(***************************************************************************)
LEMMA LastIndexIsLen ==
    ASSUME TypeOK, CacheMatchesLog, NEW l \in Node, Numbered(l)
    PROVE  entries[l].last_index = Len(LogOf(l))
<1>1. Len(LogOf(l)) \in Nat /\ DOMAIN LogOf(l) = 1..Len(LogOf(l))
      /\ LogOf(l) \in Seq(Entry)
  BY LogTypes DEF LogOf
<1>2. CASE LogOf(l) = << >>
  BY <1>2 DEF CacheMatchesLog, LastOf, LogOf
<1>3. CASE LogOf(l) # << >>
  <2>1. Len(LogOf(l)) \in DOMAIN LogOf(l)
    BY <1>1, <1>3, EmptySeq
  <2>2. entries[l].last_index = LogOf(l)[Len(LogOf(l))].index
    BY <1>3 DEF CacheMatchesLog, LastOf, LogOf
  <2> QED
    BY <2>1, <2>2 DEF Numbered
<1> QED
  BY <1>2, <1>3

LEMMA AcceptedEntries ==
    ASSUME TypeOK, CacheMatchesLog, NEW l \in Node, Replicating(l), NEW n \in Node,
           NEW r \in Request, NEW size \in BatchSizes, AppendStreamAccepted(n, r, size)
    PROVE  /\ n = l /\ status[l] = "leader"
           /\ \A s \in Node \ {l} : entries'[s] = entries[s]
           /\ DOMAIN LogOf(l)' = 1..(Len(LogOf(l)) + size)
           /\ \A i \in 1..Len(LogOf(l)) : LogOf(l)'[i] = LogOf(l)[i]
           /\ \A j \in 1..size :
                 LogOf(l)'[Len(LogOf(l)) + j]
                    = [index   |-> Len(LogOf(l)) + j, term |-> term[l],
                       payload |-> [req |-> r, event |-> j]]
<1>1. n = l /\ status[l] = "leader"
  BY DEF AppendStreamAccepted, Replicating, OnlyLeader
<1>2. PICK batch : batch = NewEntries(l, r, size)
  OBVIOUS
<1>3. size \in Nat /\ batch \in Seq(Entry) /\ Len(batch) = size
  <2>1. size \in Nat
    BY BoundsAssumption
  <2>2. entries[l].last_index \in Nat /\ term[l] \in Nat
    BY DEF TypeOK, NodesOK, Log
  <2>3. ASSUME NEW i \in 1..size
        PROVE  [index |-> entries[l].last_index + i, term |-> term[l],
                payload |-> [req |-> r, event |-> i]] \in Entry
    BY <2>1, <2>2 DEF Entry, Payload
  <2>4. batch \in [1..size -> Entry]
    BY <1>2, <2>3 DEF NewEntries
  <2> QED
    BY <2>1, <2>4
<1>4. /\ entries' = [entries EXCEPT ![l] = AddEach(@, batch)]
      /\ entries \in [Node -> Log]
  BY <1>1, <1>2 DEF AppendStreamAccepted, TypeOK, NodesOK
<1>5. LogOf(l) \in Seq(Entry)
  BY LogTypes DEF LogOf
<1>6. LogOf(l)' = LogOf(l) \o batch
  <2>1. CASE batch = << >>
    BY <1>4, <1>5, <2>1, ConcatEmptySeq DEF AddEach, LogOf
  <2>2. CASE batch # << >>
    BY <1>4, <2>2 DEF AddEach, AppendBatch, LogOf
  <2> QED
    BY <2>1, <2>2
<1>7. \A j \in 1..size :
          batch[j] = [index   |-> Len(LogOf(l)) + j, term |-> term[l],
                      payload |-> [req |-> r, event |-> j]]
  BY <1>2, LastIndexIsLen DEF NewEntries, Replicating
<1>8. /\ DOMAIN (LogOf(l) \o batch) = 1..(Len(LogOf(l)) + size)
      /\ \A i \in 1..Len(LogOf(l)) : (LogOf(l) \o batch)[i] = LogOf(l)[i]
      /\ \A j \in 1..size : (LogOf(l) \o batch)[Len(LogOf(l)) + j] = batch[j]
  <2>1. PICK a \in Seq(Entry), b \in Seq(Entry) : a = LogOf(l) /\ b = batch
    BY <1>3, <1>5
  <2>2. /\ DOMAIN (a \o b) = 1..(Len(a) + Len(b))
        /\ \A i \in 1..Len(a) : (a \o b)[i] = a[i]
        /\ \A j \in 1..Len(b) : (a \o b)[Len(a) + j] = b[j]
    BY ConcatParts
  <2> QED
    BY <1>3, <2>1, <2>2
<1> QED
  BY <1>1, <1>4, <1>6, <1>7, <1>8

LEMMA AcceptStep ==
    ASSUME TypeOK, TypeOK', CacheMatchesLog, NEW l \in Node, Replicating(l),
           NEW n \in Node, NEW r \in Request, NEW size \in BatchSizes,
           AppendStreamAccepted(n, r, size)
    PROVE  Replicating(l)' /\ Grows(l)
<1>1. PICK before \in Nat : before = Len(LogOf(l)) /\ DOMAIN LogOf(l) = 1..before
  BY LogTypes DEF LogOf
<1>2. /\ n = l /\ status[l] = "leader" /\ size \in Nat
      /\ \A s \in Node \ {l} : entries'[s] = entries[s]
      /\ DOMAIN LogOf(l)' = 1..(before + size)
      /\ \A i \in 1..before : LogOf(l)'[i] = LogOf(l)[i]
      /\ \A j \in 1..size : LogOf(l)'[before + j].index = before + j
                           /\ LogOf(l)'[before + j].term = term[l]
  <2>1. /\ n = l /\ status[l] = "leader"
        /\ \A s \in Node \ {l} : entries'[s] = entries[s]
        /\ DOMAIN LogOf(l)' = 1..(Len(LogOf(l)) + size)
        /\ \A i \in 1..Len(LogOf(l)) : LogOf(l)'[i] = LogOf(l)[i]
        /\ \A j \in 1..size :
              LogOf(l)'[Len(LogOf(l)) + j]
                 = [index   |-> Len(LogOf(l)) + j, term |-> term[l],
                    payload |-> [req |-> r, event |-> j]]
    BY AcceptedEntries
  <2>2. \A j \in 1..size :
            LogOf(l)'[before + j] = [index   |-> before + j, term |-> term[l],
                                     payload |-> [req |-> r, event |-> j]]
    BY <1>1, <2>1
  <2>3. DOMAIN LogOf(l)' = 1..(before + size)
        /\ \A i \in 1..before : LogOf(l)'[i] = LogOf(l)[i]
    BY <1>1, <2>1
  <2>4. ASSUME NEW j \in 1..size
        PROVE  /\ LogOf(l)'[before + j].index = before + j
               /\ LogOf(l)'[before + j].term = term[l]
    <3>1. PICK e : e = LogOf(l)'[before + j]
      OBVIOUS
    <3>2. e = [index   |-> before + j, term |-> term[l],
               payload |-> [req |-> r, event |-> j]]
      BY <2>2, <3>1
    <3>3. e.index = before + j /\ e.term = term[l]
      BY <3>2
    <3> QED
      BY <3>1, <3>3
  <2>5. size \in Nat
    BY BoundsAssumption
  <2> QED
    BY <2>1, <2>3, <2>4, <2>5
<1>3. UNCHANGED <<term, status, match_index, commit_index, msgs>>
  BY DEF AppendStreamAccepted, election
<1>4. Len(LogOf(l)') = before + size
  <2>1. PICK after \in Nat : after = Len(LogOf(l)') /\ DOMAIN LogOf(l)' = 1..after
    BY LogTypesNext DEF LogOf
  <2>2. 1..after = 1..(before + size)
    BY <1>2, <2>1
  <2>3. after = before + size
    BY <1>2, <2>2
  <2> QED
    BY <2>1, <2>3
<1>5. Grows(l)
  <2>1. ASSUME NEW s \in Node
        PROVE  Held(s) \subseteq Held(s)'
    <3>1. CASE s = l
      BY <1>1, <1>2, <3>1 DEF Held, LogOf
    <3>2. CASE s # l
      BY <1>2, <3>2 DEF Held
    <3> QED
      BY <3>1, <3>2
  <2> QED
    BY <1>1, <1>2, <1>3, <1>4, <2>1 DEF Grows
<1>6. OnlyLeader(l)'
  BY <1>2, <1>3 DEF OnlyLeader, Replicating
<1>7. Numbered(l)'
  <2> SUFFICES ASSUME NEW i \in 1..(before + size)
               PROVE  LogOf(l)'[i].index = i /\ LogOf(l)'[i].term = term[l]
    BY <1>2, <1>3 DEF Numbered
  <2>1. CASE i \in 1..before
    BY <1>1, <1>2, <2>1 DEF Numbered, Replicating
  <2>2. CASE i \notin 1..before
    <3>1. PICK j \in 1..size : i = before + j
      <4>1. i - before \in 1..size /\ i = before + (i - before)
        BY <1>2, <2>2
      <4> QED
        BY <4>1
    <3> QED
      BY <1>2, <3>1
  <2> QED
    BY <2>1, <2>2
<1>8. ASSUME NEW i \in 1..(before + size)
      PROVE  Upto(l, l, i)'
  <2>1. i \in 0..Len(LogOf(l)')
    BY <1>2, <1>4, <1>8
  <2>2. ASSUME NEW j \in 1..i
        PROVE  Holds(l, LogOf(l)[j])'
    <3>1. j \in DOMAIN LogOf(l)'
      BY <1>2, <1>8, <2>2
    <3> QED
      BY <3>1 DEF Holds, LogOf
  <2> QED
    BY <2>1, <2>2 DEF Upto
<1>9. LogsCopy(l)'
  <2> SUFFICES ASSUME NEW s \in Node, NEW e \in Held(s)'
               PROVE  Follows(l, s, e)'
    BY DEF LogsCopy
  <2>1. CASE s = l
    <3>1. PICK i \in 1..(before + size) : e = LogOf(l)'[i]
      BY <1>2, <2>1 DEF Held, LogOf
    <3>2. e.index = i
      BY <1>2, <1>7, <3>1 DEF Numbered
    <3>3. Upto(l, l, i)'
      BY <1>8
    <3> QED
      BY <1>2, <2>1, <3>1, <3>2, <3>3 DEF Follows
  <2>2. CASE s # l
    <3>1. e \in Held(s)
      BY <1>2, <2>2 DEF Held
    <3>2. Follows(l, s, e)
      BY <3>1 DEF Replicating, LogsCopy
    <3>3. Upto(l, s, e.index)'
      BY <1>5, <3>2, UptoKept DEF Follows
    <3>4. e.index \in 1..before /\ e.index \in 1..(before + size)
      BY <1>1, <1>2, <3>2 DEF Follows
    <3> QED
      BY <1>2, <3>2, <3>3, <3>4 DEF Follows
  <2> QED
    BY <2>1, <2>2
<1>10. Matches(l)'
  BY <1>3, <1>5, UptoKept DEF Matches, Replicating, Seeds
<1>11. Commits(l)'
  BY <1>3, <1>5, UptoKept DEF Commits, Replicating
<1>12. Messages(l)'
  BY <1>3, <1>5, MessagesKept DEF Replicating
<1> QED
  BY <1>5, <1>6, <1>7, <1>9, <1>10, <1>11, <1>12 DEF Replicating

(***************************************************************************)
(* l hears that a follower has a batch: what every follower has, l has.    *)
(***************************************************************************)
LEMMA LowestIsEverywhere ==
    ASSUME TypeOK, NEW l \in Node, Matches(l), Seeds(l) # {},
           NEW match \in [Seeds(l) -> Nat],
           \A s \in Seeds(l) : Upto(l, s, match[s]),
           NEW lowest, lowest = LowestReplicated(match)
    PROVE  lowest \in Nat /\ \A s \in Node : Upto(l, s, lowest)
<1>1. lowest \in Nat /\ \A s \in Seeds(l) : lowest <= match[s]
  BY LowestReplicatedType
<1>2. ASSUME NEW s \in Seeds(l)
      PROVE  Upto(l, s, lowest)
  <2>1. s \in Node /\ match[s] \in Nat /\ lowest \in 0..match[s]
    BY <1>1, <1>2 DEF Seeds
  <2> QED
    BY <2>1, UptoBelow
<1>3. Upto(l, l, lowest)
  <2>1. PICK s \in Seeds(l) : TRUE
    OBVIOUS
  <2>2. lowest \in 0..Len(LogOf(l))
    BY <1>2, <2>1 DEF Upto
  <2> QED
    BY <2>2, UptoOwn
<1> QED
  BY <1>1, <1>2, <1>3 DEF Seeds

LEMMA ReplicatedStep ==
    ASSUME TypeOK, TypeOK', NEW l \in Node, Replicating(l),
           NEW m \in DOMAIN msgs, AppendRespReplicated(m)
    PROVE  Replicating(l)'
<1>1. m.src \in Seeds(m.dst) /\ m.dst = l /\ Upto(l, m.src, m.batch_end)
  BY Delivered DEF AppendRespReplicated, Received, Replicating, Messages,
                   MessageOK, IsRequest
<1>2. PICK match, lowest :
          /\ match = [match_index[l] EXCEPT ![m.src] = m.batch_end]
          /\ lowest = LowestReplicated(match)
  OBVIOUS
<1>3. /\ match_index'  = [match_index EXCEPT ![l] = match]
      /\ commit_index' = [commit_index EXCEPT ![l] = lowest]
      /\ msgs' = Without(m)
      /\ UNCHANGED <<entries, term, status>>
  BY <1>1, <1>2 DEF AppendRespReplicated, persistent, election
<1>4. /\ match \in [Seeds(l) -> Nat]
      /\ \A s \in Seeds(l) : Upto(l, s, match[s])
  <2>1. match_index[l] \in [Seeds(l) -> Nat]
    BY DEF TypeOK, SeedsOK
  <2>2. m.batch_end \in Nat
    BY <1>1, LogTypes DEF Upto, LogOf
  <2> QED
    BY <1>1, <1>2, <2>1, <2>2 DEF Replicating, Matches
<1>5. \A s \in Node : Upto(l, s, lowest)
  BY <1>1, <1>2, <1>4, LowestIsEverywhere DEF Replicating
<1>6. match_index'[l] = match /\ commit_index'[l] = lowest
      /\ \A n \in Node \ {l} : commit_index'[n] = commit_index[n]
  <2>1. match_index = [n \in Node |-> match_index[n]]
    BY DEF TypeOK, SeedsOK
  <2> QED
    BY <1>3, <2>1 DEF TypeOK, NodesOK
<1>7. \A s \in Seeds(l) : \A k : k = match_index'[l][s] => Upto(l, s, k)
  BY <1>4, <1>6
<1>8. \A n, s \in Node : \A k : k = commit_index'[n] => Upto(l, s, k)
  BY <1>5, <1>6 DEF Replicating, Commits
<1>9. \A x \in DOMAIN msgs' : x \in DOMAIN msgs
  BY <1>3, InFlightAfter
<1> QED
  BY <1>3, <1>7, <1>8, <1>9, SameLogs DEF Replicating, OnlyLeader

(***************************************************************************)
(* The steps of the stable leader that send requests.                      *)
(***************************************************************************)
LEMMA SendStep ==
    ASSUME TypeOK, TypeOK', NEW l \in Node, Replicating(l),
           NEW n \in Node, SendAppendEntries(n)
    PROVE  Replicating(l)'
<1>1. n = l /\ status[l] = "leader"
  BY DEF SendAppendEntries, Replicating, OnlyLeader
<1>2. /\ UNCHANGED <<entries, term, status, match_index, commit_index>>
      /\ msgs' = Send({AppendRequest(l, s, next_index[l][s], commit_index[l]) :
                           s \in Seeds(l)})
  BY <1>1 DEF SendAppendEntries, persistent, election, replication
<1>3. ASSUME NEW x \in DOMAIN msgs', x \notin DOMAIN msgs
      PROVE  MessageOK(l, x)'
  <2> DEFINE S == {AppendRequest(l, s, next_index[l][s], commit_index[l]) :
                      s \in Seeds(l)}
  <2>0. x \in S
    <3> HIDE DEF S
    <3>1. msgs' = Send(S)
      BY <1>2 DEF S
    <3> QED
      BY <1>3, <3>1, InFlightAfterRound
  <2>1. PICK s \in Seeds(l) :
            x = AppendRequest(l, s, next_index[l][s], commit_index[l])
    BY <2>0
  <2>2. PICK next, commit : next = next_index[l][s] /\ commit = commit_index[l]
    OBVIOUS
  <2>3. next \in Nat /\ \A q \in Node : Upto(l, q, commit)
    BY <2>2 DEF TypeOK, SeedsOK, Replicating, Commits
  <2>4. x = AppendRequest(l, s, next, commit)
    BY <2>1, <2>2
  <2> QED
    BY <1>1, <1>2, <2>3, <2>4, RequestCopies DEF Replicating
<1> QED
  BY <1>2, <1>3, QuietStep DEF Replicating, OnlyLeader

LEMMA ElectionStep ==
    ASSUME TypeOK, TypeOK', CacheMatchesLog, NEW l \in Node, Replicating(l),
           NEW m \in DOMAIN msgs, ElectionWon(m)
    PROVE  Replicating(l)'
<1>1. m.dst = l
  BY DEF ElectionWon, Received, Replicating, Messages, MessageOK, IsRequest
<1>2. PICK after : after = entries[l].last_index + 1
  OBVIOUS
<1>3. after \in Nat
  BY <1>2, LogTypes DEF Log
<1>4. /\ UNCHANGED <<entries, term>>
      /\ status' = [status EXCEPT ![l] = "leader"]
      /\ commit_index' = [commit_index EXCEPT ![l] = 0]
      /\ match_index'  = [match_index EXCEPT ![l] = [s \in Seeds(l) |-> 0]]
      /\ msgs' = Without(m) (+)
                 SetToBag({AppendRequest(l, s, after, 0) : s \in Seeds(l)})
  BY <1>1, <1>2 DEF ElectionWon, persistent
<1>5. status'[l] = "leader" /\ \A n \in Node \ {l} : status'[n] = status[n]
  BY <1>4 DEF TypeOK, NodesOK
<1>6. \A s \in Seeds(l) : match_index'[l][s] = 0
  BY <1>4 DEF TypeOK, SeedsOK
<1>7. \A n \in Node : commit_index'[n] \in {0, commit_index[n]}
  BY <1>4 DEF TypeOK, NodesOK
<1>8. ASSUME NEW x \in DOMAIN msgs', x \notin DOMAIN msgs
      PROVE  MessageOK(l, x)'
  <2> DEFINE S == {AppendRequest(l, s, after, 0) : s \in Seeds(l)}
  <2>0. x \in S
    <3> HIDE DEF S
    <3>1. msgs' = Without(m) (+) SetToBag(S)
      BY <1>4 DEF S
    <3> QED
      BY <1>8, <3>1, InFlightAfterRound
  <2>1. PICK s \in Seeds(l) : x = AppendRequest(l, s, after, 0)
    BY <2>0
  <2>2. \A q \in Node : Upto(l, q, 0)
    BY UptoNothing
  <2> QED
    BY <1>3, <1>4, <1>5, <2>1, <2>2, RequestCopies DEF Replicating
<1> QED
  BY <1>4, <1>5, <1>6, <1>7, <1>8, QuietStep DEF Replicating, OnlyLeader

LEMMA CandidateStep ==
    ASSUME TypeOK, TypeOK', NEW l \in Node, CanTimeout \subseteq {l},
           Replicating(l), NEW n \in Node, SwitchToCandidate(n)
    PROVE  Replicating(l)'
<1>1. n = l /\ status[l] # "leader"
  BY DEF SwitchToCandidate
<1>2. /\ UNCHANGED <<entries, match_index, commit_index>>
      /\ status' = [status EXCEPT ![l] = "candidate"]
      /\ msgs' = Send({VoteRequest(l, s, term[l] + 1) : s \in Seeds(l)})
  BY <1>1 DEF SwitchToCandidate, replication
<1>3. ASSUME NEW x \in DOMAIN msgs', x \notin DOMAIN msgs
      PROVE  MessageOK(l, x)'
  <2>1. PICK s \in Seeds(l) : x = VoteRequest(l, s, term[l] + 1)
    BY <1>2, <1>3, InFlightAfterRound
  <2> QED
    BY <2>1 DEF VoteRequest, MessageOK, IsRequest
<1>4. \A q \in Node \ {l} : status'[q] # "leader"
  BY <1>2 DEF Replicating, OnlyLeader
<1> QED
  BY <1>1, <1>2, <1>3, <1>4, QuietStep

(***************************************************************************)
(* The other handlers.  A request is handled by a follower of l, an answer *)
(* by l itself.                                                            *)
(***************************************************************************)
LEMMA RequestStep ==
    ASSUME TypeOK, TypeOK', NEW l \in Node, Replicating(l), NEW m \in DOMAIN msgs,
           \/ RequestVoteStale(m) \/ RequestVoteFresh(m) \/ RequestVoteAgain(m)
           \/ AppendEntriesStale(m) \/ AppendEntriesUnmatched(m)
           \/ AppendEntriesHeartbeat(m)
    PROVE  Replicating(l)'
<1>1. IsRequest(m) /\ m.dst \in Node
  BY Delivered DEF RequestVoteStale, RequestVoteFresh, RequestVoteAgain,
     AppendEntriesStale, AppendEntriesUnmatched, AppendEntriesHeartbeat,
     Received, IsRequest
<1>2. m.src = l /\ m.dst # l
  BY <1>1, Delivered DEF Replicating, Messages, MessageOK
<1>3. UNCHANGED <<entries, match_index, commit_index>>
  BY DEF RequestVoteStale, RequestVoteFresh, RequestVoteAgain, Follow,
     AppendEntriesStale, AppendEntriesUnmatched, AppendEntriesHeartbeat,
     persistent, replication
<1>4. /\ term'[l] = term[l] /\ status'[l] = status[l]
      /\ \A n \in Node : status'[n] \in {status[n], "follower"}
  BY <1>1, <1>2 DEF RequestVoteStale, RequestVoteFresh, RequestVoteAgain, Follow,
     AppendEntriesStale, AppendEntriesUnmatched, AppendEntriesHeartbeat,
     persistent, election, TypeOK, NodesOK
<1>5. \E t, b : \/ msgs' = Reply(m, VoteAnswer(m, t, b))
               \/ /\ msgs' = Reply(m, AppendAnswer(m, t, b))
                  /\ b => m.entries = << >>
  <2>1. CASE RequestVoteStale(m)
    BY <2>1 DEF RequestVoteStale
  <2>2. CASE RequestVoteFresh(m)
    BY <2>2 DEF RequestVoteFresh
  <2>3. CASE RequestVoteAgain(m)
    BY <2>3 DEF RequestVoteAgain
  <2>4. CASE AppendEntriesStale(m)
    BY <2>4 DEF AppendEntriesStale
  <2>5. CASE AppendEntriesUnmatched(m)
    BY <2>5 DEF AppendEntriesUnmatched
  <2>6. CASE AppendEntriesHeartbeat(m)
    BY <2>6 DEF AppendEntriesHeartbeat
  <2> QED
    BY <2>1, <2>2, <2>3, <2>4, <2>5, <2>6
<1>6. ASSUME NEW x \in DOMAIN msgs', x \notin DOMAIN msgs
      PROVE  MessageOK(l, x)'
  <2>1. PICK t, b : \/ x = VoteAnswer(m, t, b)
                    \/ x = AppendAnswer(m, t, b) /\ (b => m.entries = << >>)
    BY <1>5, <1>6, InFlightAfter
  <2>2. CASE x = VoteAnswer(m, t, b)
    BY <1>2, <2>2 DEF VoteAnswer, MessageOK, IsRequest
  <2>3. CASE x = AppendAnswer(m, t, b) /\ (b => m.entries = << >>)
    <3>1. /\ x.type = "EntriesResp" /\ x.dst = l /\ x.src = m.dst /\ x.success = b
          /\ b => x.batch_end = 0
      BY <1>2, <2>3 DEF AppendAnswer
    <3>2. Upto(l, m.dst, 0)'
      BY <1>1, UptoNothingNext
    <3> QED
      BY <3>1, <3>2 DEF MessageOK, IsRequest
  <2> QED
    BY <2>1, <2>2, <2>3
<1>7. \A n \in Node \ {l} : status'[n] # "leader"
  BY <1>4 DEF Replicating, OnlyLeader
<1> QED
  BY <1>3, <1>4, <1>6, <1>7, QuietStep

LEMMA ResponseStep ==
    ASSUME TypeOK, TypeOK', NEW l \in Node, Replicating(l), NEW m \in DOMAIN msgs,
           \/ VoteIgnored(m) \/ VoteFromNewerTerm(m) \/ VoteCounted(m)
           \/ AppendRespIgnored(m) \/ AppendRespRefused(m)
           \/ Lose(m) \/ Undeliverable(m)
    PROVE  Replicating(l)'
<1>1. msgs' = Without(m) /\ UNCHANGED <<entries, match_index, commit_index>>
  BY DEF VoteIgnored, VoteFromNewerTerm, VoteCounted, AppendRespIgnored,
     AppendRespRefused, Lose, Undeliverable, Discard, persistent, replication
<1>2. \/ UNCHANGED <<term, status>>
      \/ /\ m.type = "VoteResp" /\ status[m.dst] # "leader"
         /\ status' = [status EXCEPT ![m.dst] = "follower"]
  BY DEF VoteIgnored, VoteFromNewerTerm, VoteCounted, AppendRespIgnored, Received,
     AppendRespRefused, Lose, Undeliverable, Discard, persistent, election
<1>3. m.type = "VoteResp" => m.dst = l
  BY DEF Replicating, Messages, MessageOK, IsRequest
<1>4. \A n \in Node \ {l} : status'[n] # "leader"
  BY <1>2, <1>3 DEF Replicating, OnlyLeader, TypeOK, NodesOK
<1>5. status[l] = "leader" => status'[l] = "leader" /\ term'[l] = term[l]
  BY <1>2, <1>3
<1>6. \A x \in DOMAIN msgs' : x \in DOMAIN msgs
  BY <1>1, InFlightAfter
<1> QED
  BY <1>1, <1>4, <1>5, <1>6, QuietStep

LEMMA ReplicatingStep ==
    ASSUME TypeOK, TypeOK', CacheMatchesLog, NEW l \in Node,
           CanTimeout \subseteq {l}, CanStop = {}, Replicating(l), [Next]_vars
    PROVE  Replicating(l)'
<1>1. ASSUME NEW n \in Node, Tick(n)
      PROVE  Replicating(l)'
  BY <1>1, SendStep, CandidateStep DEF Tick
<1>2. ASSUME \/ \E n \in Node : Start(n)
             \/ \E n \in Node, r \in Request : AppendStreamRefused(n, r)
             \/ UNCHANGED vars
      PROVE  Replicating(l)'
  <2>1. UNCHANGED <<entries, term, status, match_index, commit_index, msgs>>
    BY <1>2 DEF Start, AppendStreamRefused, vars, persistent, election, replication
  <2> QED
    BY <2>1, QuietStep DEF Replicating, OnlyLeader
<1>3. ASSUME NEW n \in Node, Stop(n)
      PROVE  FALSE
  BY <1>3 DEF Stop
<1>4. ASSUME NEW m \in DOMAIN msgs, Handle(m) \/ Lose(m)
      PROVE  Replicating(l)'
  BY <1>4, RequestStep, ResponseStep, ElectionStep, BatchStep, ReplicatedStep
     DEF Handle
<1>5. ASSUME NEW n \in Node, NEW r \in Request, NEW size \in BatchSizes,
             AppendStreamAccepted(n, r, size)
      PROVE  Replicating(l)'
  BY <1>5, AcceptStep
<1> QED
  BY <1>1, <1>2, <1>3, <1>4, <1>5 DEF Next

LEMMA ReplicatingInit ==
    ASSUME Init, NEW l \in Node
    PROVE  Replicating(l)
<1>1. \A n \in Node : LogOf(n) = << >>
  BY DEF Init, LogOf, EmptyLog
<1>2. DOMAIN LogOf(l) = {} /\ Len(LogOf(l)) = 0
  BY <1>1
<1>3. \A s \in Node : Upto(l, s, 0)
  BY <1>2 DEF Upto
<1>4. OnlyLeader(l)
  <2>1. ASSUME NEW n \in Node \ {l}, status[n] = "leader"
        PROVE  FALSE
    <3>1. Cardinality(Node) = 1
      BY <2>1 DEF Init, InitialStatus
    <3>2. PICK x : Node = {x}
      BY <3>1, FS_Singleton, NodeAssumption
    <3> QED
      BY <2>1, <3>2
  <2> QED
    BY <1>1, <2>1 DEF OnlyLeader
<1>5. Matches(l) /\ Commits(l)
  BY <1>3 DEF Init, Matches, Commits, Seeds
<1>6. Numbered(l) /\ LogsCopy(l) /\ Messages(l)
  BY <1>1, <1>2 DEF Numbered, LogsCopy, Held, LogOf, Messages, Init, EmptyBag,
                    SetToBag
<1> QED
  BY <1>4, <1>5, <1>6 DEF Replicating

LEMMA ReplicatingHolds ==
    ASSUME NEW l \in Node, CanTimeout \subseteq {l}, CanStop = {}
    PROVE  Spec => []Replicating(l)
<1>1. Spec => []TypeOK
  BY TypeCorrect
<1>2. Spec => []CacheMatchesLog
  BY CachesAreRight
<1>3. Init => Replicating(l)
  BY ReplicatingInit
<1>4. TypeOK /\ TypeOK' /\ CacheMatchesLog /\ [Next]_vars /\ Replicating(l)
        => Replicating(l)'
  BY ReplicatingStep
<1> QED
  BY <1>1, <1>2, <1>3, <1>4, PTL DEF Spec

(***************************************************************************)
(* What the invariant says of the leader, whoever it is: it is l.          *)
(***************************************************************************)
\* Under a stable leader a match index is never ahead of the log of the peer
\* (next_index, match_index in on_append_entries_resp), in a cluster of any
\* size and with messages lost, repeated and reordered.
THEOREM MatchesAreReplicated ==
    ASSUME NEW l \in Node, CanTimeout \subseteq {l}, CanStop = {}
    PROVE  Spec => []MatchIsReplicated
<1>1. ASSUME TypeOK, Replicating(l)
      PROVE  MatchIsReplicated
  <2> SUFFICES ASSUME NEW n \in Node, status[n] = "leader", NEW s \in Seeds(n),
                      NEW i \in DOMAIN entries[n].inner,
                      entries[n].inner[i].index <= match_index[n][s]
               PROVE  Holds(s, entries[n].inner[i])
    BY DEF MatchIsReplicated
  <2>1. n = l /\ entries[n].inner[i].index = i
    BY <1>1 DEF Replicating, OnlyLeader, Numbered, LogOf
  <2>2. PICK k : k = match_index[n][s]
    OBVIOUS
  <2>3. Upto(l, s, k) /\ k \in Nat /\ i \in 1..k
    BY <1>1, <2>1, <2>2, LogTypes DEF Replicating, Matches, TypeOK, SeedsOK
  <2> QED
    BY <2>1, <2>3 DEF Upto, LogOf
<1>2. Spec => []TypeOK
  BY TypeCorrect
<1>3. Spec => []Replicating(l)
  BY ReplicatingHolds
<1>4. TypeOK /\ Replicating(l) => MatchIsReplicated
  BY <1>1
<1> QED
  BY <1>2, <1>3, <1>4, PTL

\* Under a stable leader no commit index covers an entry that some node lacks,
\* although a follower takes it from a request of any age (leader_commit in
\* on_append_entries).
THEOREM CommitsAreEverywhere ==
    ASSUME NEW l \in Node, CanTimeout \subseteq {l}, CanStop = {}
    PROVE  Spec => []CommittedEverywhere
<1>1. ASSUME TypeOK, Replicating(l)
      PROVE  CommittedEverywhere
  <2> SUFFICES ASSUME NEW n \in Node, NEW s \in Node, NEW q \in Node,
                      status[q] = "leader", NEW i \in DOMAIN entries[q].inner,
                      entries[q].inner[i].index <= commit_index[n]
               PROVE  Holds(s, entries[q].inner[i])
    BY DEF CommittedEverywhere
  <2>1. q = l /\ entries[q].inner[i].index = i
    BY <1>1 DEF Replicating, OnlyLeader, Numbered, LogOf
  <2>2. PICK k : k = commit_index[n]
    OBVIOUS
  <2>3. Upto(l, s, k)
    BY <1>1, <2>2 DEF Replicating, Commits
  <2>4. k \in Nat
    BY <1>1, <2>2 DEF TypeOK, NodesOK
  <2>5. i \in Nat /\ 1 <= i
    BY <1>1, LogTypes
  <2>6. i \in 1..k
    BY <2>1, <2>2, <2>4, <2>5
  <2> QED
    BY <2>1, <2>3, <2>6 DEF Upto, LogOf
<1>2. Spec => []TypeOK
  BY TypeCorrect
<1>3. Spec => []Replicating(l)
  BY ReplicatingHolds
<1>4. TypeOK /\ Replicating(l) => CommittedEverywhere
  BY <1>1
<1> QED
  BY <1>2, <1>3, <1>4, PTL

(***************************************************************************)
(* The calls that were confirmed.                                          *)
(***************************************************************************)
\* The call r is in the log of l at p, and every node has that log up to p.
ConfirmedAt(l, r, p) ==
    /\ p \in DOMAIN LogOf(l) /\ LogOf(l)[p].payload.req = r
    /\ \A s \in Node : Upto(l, s, p)

Confirmations(l) ==
    \A r \in Request : answers[r].state = "confirmed" =>
        ConfirmedAt(l, r, answers[r].position)

LEMMA ConfirmedAtKept ==
    ASSUME TypeOK, TypeOK', NEW l \in Node, UNCHANGED entries \/ Grows(l),
           NEW r, NEW p, ConfirmedAt(l, r, p)
    PROVE  ConfirmedAt(l, r, p)'
<1>1. CASE UNCHANGED entries
  BY <1>1 DEF ConfirmedAt, Upto, LogOf, Holds
<1>2. CASE Grows(l)
  <2>1. p \in DOMAIN LogOf(l)' /\ LogOf(l)'[p] = LogOf(l)[p]
    <3>1. /\ Len(LogOf(l)) \in Nat /\ DOMAIN LogOf(l) = 1..Len(LogOf(l))
          /\ Len(LogOf(l)') \in Nat /\ DOMAIN LogOf(l)' = 1..Len(LogOf(l)')
      BY LogTypes, LogTypesNext DEF LogOf
    <3> QED
      BY <1>2, <3>1 DEF ConfirmedAt, Grows
  <2>2. \A s \in Node : Upto(l, s, p)'
    BY <1>2, UptoKept DEF ConfirmedAt
  <2> QED
    BY <2>1, <2>2 DEF ConfirmedAt
<1> QED
  BY <1>1, <1>2

LEMMA ConfirmationsKept ==
    ASSUME TypeOK, TypeOK', NEW l \in Node, UNCHANGED entries \/ Grows(l),
           Confirmations(l),
           \A r \in Request : answers'[r].state = "confirmed" =>
              \/ answers'[r] = answers[r]
              \/ \A p : p = answers'[r].position => ConfirmedAt(l, r, p)'
    PROVE  Confirmations(l)'
<1> SUFFICES ASSUME NEW r \in Request, answers'[r].state = "confirmed",
                    NEW p, p = answers'[r].position
             PROVE  ConfirmedAt(l, r, p)'
  BY DEF Confirmations
<1>1. CASE answers'[r] = answers[r]
  BY <1>1, ConfirmedAtKept DEF Confirmations
<1>2. CASE \A q : q = answers'[r].position => ConfirmedAt(l, r, q)'
  BY <1>2
<1> QED
  BY <1>1, <1>2

LEMMA ConfirmStep ==
    ASSUME TypeOK, TypeOK', LeaderHoldsInflights, NEW l \in Node, Replicating(l),
           Confirmations(l), NEW m \in DOMAIN msgs, AppendRespReplicated(m)
    PROVE  Confirmations(l)'
<1>1. m.src \in Seeds(m.dst) /\ m.dst = l /\ Upto(l, m.src, m.batch_end)
      /\ status[l] = "leader"
  BY Delivered DEF AppendRespReplicated, Received, Replicating, Messages,
                   MessageOK, IsRequest
<1>2. PICK match, lowest, acked :
          /\ match = [match_index[l] EXCEPT ![m.src] = m.batch_end]
          /\ lowest = LowestReplicated(match)
          /\ acked = {f \in inflights[l] : f.index <= lowest}
  OBVIOUS
<1>3. answers' = Answered(acked, "confirmed") /\ UNCHANGED entries
  BY <1>1, <1>2 DEF AppendRespReplicated, persistent
<1>4. /\ match \in [Seeds(l) -> Nat]
      /\ \A s \in Seeds(l) : Upto(l, s, match[s])
  <2>1. match_index[l] \in [Seeds(l) -> Nat]
    BY DEF TypeOK, SeedsOK
  <2>2. m.batch_end \in Nat
    BY <1>1, LogTypes DEF Upto, LogOf
  <2> QED
    BY <1>1, <1>2, <2>1, <2>2 DEF Replicating, Matches
<1>5. lowest \in Nat /\ \A s \in Node : Upto(l, s, lowest)
  BY <1>1, <1>2, <1>4, LowestIsEverywhere DEF Replicating
<1>6. ASSUME NEW f \in acked
      PROVE  ConfirmedAt(l, f.req, f.index)
  <2>1. f \in inflights[l] /\ f.index \in Nat /\ f.index <= lowest
    BY <1>2 DEF TypeOK, NodesOK
  <2>2. PICK i \in DOMAIN LogOf(l) : /\ LogOf(l)[i].index = f.index
                                    /\ LogOf(l)[i].payload.req = f.req
    BY <1>1, <2>1 DEF LeaderHoldsInflights, LogOf
  <2>3. i = f.index
    BY <2>2 DEF Replicating, Numbered
  <2>4. \A s \in Node : Upto(l, s, f.index)
    BY <1>5, <2>1, UptoBelow
  <2> QED
    BY <2>2, <2>3, <2>4 DEF ConfirmedAt
<1>7. ASSUME NEW r \in Request, answers'[r] # answers[r],
             NEW p, p = answers'[r].position
      PROVE  ConfirmedAt(l, r, p)'
  <2> DEFINE f == CHOOSE g \in acked : g.req = r
  <2>1. /\ answers'[r] = [state |-> "confirmed", position |-> f.index]
        /\ f \in acked /\ f.req = r
    BY <1>3, <1>7 DEF Answered
  <2> HIDE DEF f
  <2>2. p = f.index
    BY <1>7, <2>1
  <2>3. ConfirmedAt(l, r, p)
    BY <1>6, <2>1, <2>2
  <2> QED
    BY <1>3, <2>3, ConfirmedAtKept
<1> QED
  BY <1>3, <1>7, ConfirmationsKept

LEMMA AcceptConfirms ==
    ASSUME 0 \notin BatchSizes, TypeOK, TypeOK', CacheMatchesLog, NEW l \in Node,
           Replicating(l), Confirmations(l), NEW n \in Node, NEW r \in Request,
           NEW size \in BatchSizes, AppendStreamAccepted(n, r, size)
    PROVE  Confirmations(l)'
<1>1. Grows(l) /\ n = l
  BY AcceptStep, AcceptedEntries
<1>2. answers \in [Request -> Answer]
  BY DEF TypeOK, RecordsOK
<1>3. CASE Seeds(l) # {}
  <2>1. answers' = [answers EXCEPT ![r].state = "waiting"]
    BY <1>1, <1>3 DEF AppendStreamAccepted
  <2>2. \A q \in Request : answers'[q].state = "confirmed" => answers'[q] = answers[q]
    BY <1>2, <2>1 DEF Answer
  <2> QED
    BY <1>1, <2>2, ConfirmationsKept
<1>4. CASE Seeds(l) = {}
  <2>1. PICK before \in Nat : before = Len(LogOf(l))
    BY LogTypes DEF LogOf
  <2>2. size \in Nat \ {0}
    BY BoundsAssumption
  <2>3. PICK p \in Nat : p = before + size
    BY <2>2
  <2>4. answers' = [answers EXCEPT ![r] = [state |-> "confirmed", position |-> p]]
    BY <1>1, <1>4, <2>1, <2>3, LastIndexIsLen
       DEF AppendStreamAccepted, Replicating
  <2>5. /\ DOMAIN LogOf(l)' = 1..p
        /\ LogOf(l)'[p] = [index |-> p, term |-> term[l],
                           payload |-> [req |-> r, event |-> size]]
    <3>1. size \in 1..size
      BY <2>2
    <3>2. /\ DOMAIN LogOf(l)' = 1..(Len(LogOf(l)) + size)
          /\ \A j \in 1..size :
                LogOf(l)'[Len(LogOf(l)) + j]
                   = [index   |-> Len(LogOf(l)) + j, term |-> term[l],
                      payload |-> [req |-> r, event |-> j]]
      BY AcceptedEntries
    <3> QED
      BY <2>1, <2>3, <3>1, <3>2
  <2>6. p \in 1..p /\ Len(LogOf(l)') = p
    BY <2>1, <2>2, <2>3, <2>5, LogTypesNext DEF LogOf
  <2>7. Upto(l, l, p)'
    BY <2>5, <2>6 DEF Upto, Holds, LogOf
  <2>8. ConfirmedAt(l, r, p)'
    <3>1. Node = {l}
      BY <1>4 DEF Seeds
    <3>2. PICK e : e = LogOf(l)'[p]
      OBVIOUS
    <3>3. e.payload.req = r
      BY <2>5, <3>2
    <3> QED
      BY <2>5, <2>6, <2>7, <3>1, <3>2, <3>3 DEF ConfirmedAt
  <2>9. \A q \in Request : \/ q = r /\ answers'[q].position = p
                          \/ answers'[q] = answers[q]
    BY <1>2, <2>4
  <2> QED
    BY <1>1, <2>8, <2>9, ConfirmationsKept
<1> QED
  BY <1>3, <1>4

LEMMA ConfirmationsStep ==
    ASSUME 0 \notin BatchSizes, TypeOK, TypeOK', CacheMatchesLog,
           LeaderHoldsInflights, NEW l \in Node, CanStop = {}, Replicating(l),
           Confirmations(l), [Next]_vars
    PROVE  Confirmations(l)'
<1>1. ASSUME NEW m \in DOMAIN msgs, ElectionWon(m)
      PROVE  Confirmations(l)'
  <2>1. UNCHANGED entries /\ answers' = Answered(inflights[m.dst], "refused")
    BY <1>1 DEF ElectionWon, persistent
  <2>2. \A r \in Request : answers'[r].state = "confirmed" => answers'[r] = answers[r]
    BY <2>1 DEF Answered
  <2> QED
    BY <2>1, <2>2, ConfirmationsKept
<1>2. ASSUME NEW m \in DOMAIN msgs, AppendEntriesBatch(m)
      PROVE  Confirmations(l)'
  <2>1. Grows(l)
    BY <1>2, BatchStep
  <2>2. UNCHANGED answers
    BY <1>2 DEF AppendEntriesBatch, Follow
  <2> QED
    BY <2>1, <2>2, ConfirmationsKept
<1>3. ASSUME NEW n \in Node, NEW r \in Request, AppendStreamRefused(n, r)
      PROVE  Confirmations(l)'
  <2>1. UNCHANGED entries /\ answers' = [answers EXCEPT ![r].state = "refused"]
    BY <1>3 DEF AppendStreamRefused, persistent
  <2>2. \A q \in Request : answers'[q].state = "confirmed" => answers'[q] = answers[q]
    BY <2>1 DEF TypeOK, RecordsOK, Answer
  <2> QED
    BY <2>1, <2>2, ConfirmationsKept
<1>4. ASSUME NEW n \in Node, Stop(n)
      PROVE  FALSE
  BY <1>4 DEF Stop
<1>5. ASSUME UNCHANGED <<entries, answers>>
      PROVE  Confirmations(l)'
  BY <1>5, ConfirmationsKept
<1>6. ASSUME NEW m \in DOMAIN msgs, Handle(m) \/ Lose(m), ~ElectionWon(m),
             ~AppendEntriesBatch(m), ~AppendRespReplicated(m)
      PROVE  UNCHANGED <<entries, answers>>
  BY <1>6 DEF Handle, RequestVoteStale, RequestVoteFresh, RequestVoteAgain,
       VoteIgnored, VoteFromNewerTerm, VoteCounted, AppendEntriesStale, Follow,
       AppendEntriesUnmatched, AppendEntriesHeartbeat, AppendRespIgnored,
       AppendRespRefused, Undeliverable, Lose, Discard, persistent
<1>7. ASSUME \/ \E n \in Node : Tick(n) \/ Start(n)
             \/ UNCHANGED vars
      PROVE  UNCHANGED <<entries, answers>>
  BY <1>7 DEF Tick, SendAppendEntries, SwitchToCandidate, Start, vars, persistent
<1> QED
  BY <1>1, <1>2, <1>3, <1>4, <1>5, <1>6, <1>7, ConfirmStep, AcceptConfirms DEF Next

\* Under a stable leader what a client was told is confirmed is, and stays, in
\* the log of every node at the position the client was told (inflights and
\* compute_lowest_replicated_index), whatever the network loses, repeats or
\* reorders.  A call without events has no position of its own.
THEOREM ConfirmationsAreEverywhere ==
    ASSUME NEW l \in Node, CanTimeout \subseteq {l}, CanStop = {},
           0 \notin BatchSizes
    PROVE  Spec => []ConfirmedEverywhere
<1>1. ASSUME TypeOK, Replicating(l), Confirmations(l)
      PROVE  ConfirmedEverywhere
  <2> SUFFICES ASSUME NEW r \in Request, answers[r].state = "confirmed",
                      NEW n \in Node
               PROVE  \E i \in DOMAIN entries[n].inner :
                         /\ entries[n].inner[i].index = answers[r].position
                         /\ entries[n].inner[i].payload.req = r
    BY DEF ConfirmedEverywhere
  <2>1. PICK p : p = answers[r].position
    OBVIOUS
  <2>2. /\ p \in DOMAIN LogOf(l) /\ LogOf(l)[p].payload.req = r
        /\ LogOf(l)[p].index = p /\ Upto(l, n, p)
    BY <1>1, <2>1 DEF Confirmations, ConfirmedAt, Replicating, Numbered
  <2>3. p \in 1..p
    BY <2>2, LogTypes, <1>1 DEF LogOf
  <2>4. Holds(n, LogOf(l)[p])
    BY <2>2, <2>3 DEF Upto
  <2> QED
    BY <2>1, <2>2, <2>4 DEF Holds
<1>2. Spec => []TypeOK
  BY TypeCorrect
<1>3. Spec => []CacheMatchesLog
  BY CachesAreRight
<1>4. Spec => []LeaderHoldsInflights
  BY OwedCallsAreHeld
<1>5. Spec => []Replicating(l)
  BY ReplicatingHolds
<1>6. Init => Confirmations(l)
  BY DEF Init, Confirmations, NoAnswer
<1>7. TypeOK /\ TypeOK' /\ CacheMatchesLog /\ LeaderHoldsInflights /\ [Next]_vars
        /\ Replicating(l) /\ Confirmations(l) => Confirmations(l)'
  BY ConfirmationsStep
<1>8. TypeOK /\ Replicating(l) /\ Confirmations(l) => ConfirmedEverywhere
  BY <1>1
<1> QED
  BY <1>2, <1>3, <1>4, <1>5, <1>6, <1>7, <1>8, PTL DEF Spec

=============================================================================
