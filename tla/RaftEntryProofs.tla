-------------------------- MODULE RaftEntryProofs --------------------------
(***************************************************************************)
(* Proofs about what a log says of itself, and about the calls that wait   *)
(* for an answer.                                                          *)
(***************************************************************************)
EXTENDS RaftProofs

\* The cached fields of a log agree with its vector.
Cached(log) ==
    /\ log.last_index = LastOf(log).index
    /\ log.last_term  = LastOf(log).term

\* Appending repairs the cache whatever it held before: what
\* remove_uncommitted_entries_from leaves stale lasts until the end of the
\* handler at most.
LEMMA AppendRepairs ==
    ASSUME NEW log \in Log, NEW batch \in Seq(Entry), batch # << >>
    PROVE  Cached(AppendBatch(log, batch))
<1> DEFINE after == AppendBatch(log, batch)
           last  == Len(log.inner) + Len(batch)
<1>1. log.inner \in Seq(Entry)
  BY DEF Log
<1>2. /\ Len(log.inner) \in Nat /\ Len(batch) \in Nat \ {0}
      /\ Len(log.inner \o batch) = last
      /\ (log.inner \o batch)[last] = batch[Len(batch)]
  BY <1>1, LastOfBatch, ConcatProperties, LenProperties
<1>3. log.inner \o batch # << >>
  BY <1>2
<1> QED
  BY <1>2, <1>3 DEF Cached, LastOf, AppendBatch

LEMMA AddEachCached ==
    ASSUME NEW log \in Log, NEW batch \in Seq(Entry), Cached(log)
    PROVE  Cached(AddEach(log, batch))
BY AppendRepairs DEF AddEach

LEMMA CacheInit == Init => CacheMatchesLog
BY DEF Init, CacheMatchesLog, EmptyLog, LastOf

\* What a step has to show: the log it changes has its cache repaired.
LEMMA CacheKept ==
    ASSUME CacheMatchesLog, NEW n \in Node, NEW log, Cached(log),
           entries \in [Node -> Log],
           entries' = entries \/ entries' = [entries EXCEPT ![n] = log]
    PROVE  CacheMatchesLog'
<1>1. ASSUME NEW s \in Node
      PROVE  entries'[s] = entries[s] \/ entries'[s] = log
  OBVIOUS
<1> QED
  BY <1>1 DEF CacheMatchesLog, Cached, LastOf

LEMMA CacheStep == TypeOK /\ CacheMatchesLog /\ [Next]_vars => CacheMatchesLog'
<1> SUFFICES ASSUME TypeOK, CacheMatchesLog, [Next]_vars
             PROVE  CacheMatchesLog'
  OBVIOUS
<1>1. entries \in [Node -> Log] /\ \A n \in Node : Cached(entries[n])
  BY DEF TypeOK, NodesOK, CacheMatchesLog, Cached
<1>2. ASSUME NEW m \in DOMAIN msgs, AppendEntriesBatch(m)
      PROVE  CacheMatchesLog'
  <2>1. m \in Message /\ m.dst \in Node /\ entries[m.dst] \in Log
    BY Delivered
  <2>2. m.entries \in Seq(Entry) /\ m.entries # << >>
    BY <1>2, <2>1, MessageKinds DEF AppendEntriesBatch, Received, EntriesReq
  <2>3. Truncated(entries[m.dst], m) \in Log
    BY <2>1, RemoveType DEF Truncated
  <2>4. Cached(AppendBatch(Truncated(entries[m.dst], m), m.entries))
    BY <2>2, <2>3, AppendRepairs
  <2>5. entries' = [entries EXCEPT
                      ![m.dst] = AppendBatch(Truncated(entries[m.dst], m), m.entries)]
    BY <1>2 DEF AppendEntriesBatch
  <2> QED
    BY <1>1, <2>1, <2>4, <2>5, CacheKept
<1>3. ASSUME NEW n \in Node, NEW r \in Request, NEW size \in BatchSizes,
             AppendStreamAccepted(n, r, size)
      PROVE  CacheMatchesLog'
  <2>1. NewEntries(n, r, size) \in Seq(Entry)
    BY BoundsAssumption DEF TypeOK, NodesOK, NewEntries, Entry, Payload, Log
  <2>2. Cached(AddEach(entries[n], NewEntries(n, r, size)))
    BY <1>1, <2>1, AddEachCached
  <2>3. entries' = [entries EXCEPT ![n] = AddEach(@, NewEntries(n, r, size))]
    BY <1>3 DEF AppendStreamAccepted
  <2> QED
    BY <1>1, <2>2, <2>3, CacheKept
<1>4. ASSUME NEW n \in Node, Stop(n)
      PROVE  CacheMatchesLog'
  <2>1. Cached(EmptyLog)
    BY DEF Cached, LastOf, EmptyLog
  <2> QED
    BY <1>1, <1>4, <2>1, CacheKept DEF Stop
<1>5. ASSUME UNCHANGED entries
      PROVE  CacheMatchesLog'
  BY <1>5 DEF CacheMatchesLog, LastOf
<1>6. ASSUME NEW m \in DOMAIN msgs, Handle(m) \/ Lose(m), ~AppendEntriesBatch(m)
      PROVE  UNCHANGED entries
  BY <1>6 DEF Handle, RequestVoteStale, RequestVoteFresh, RequestVoteAgain,
       VoteIgnored, VoteFromNewerTerm, VoteCounted, ElectionWon,
       AppendEntriesStale, AppendEntriesUnmatched, AppendEntriesHeartbeat,
       AppendRespIgnored, AppendRespReplicated, AppendRespRefused,
       Undeliverable, Lose, Discard, persistent
<1>7. ASSUME NEW n \in Node,
             \/ SendAppendEntries(n) \/ SwitchToCandidate(n) \/ Start(n)
             \/ \E r \in Request : AppendStreamRefused(n, r)
      PROVE  UNCHANGED entries
  BY <1>7 DEF SendAppendEntries, SwitchToCandidate, Start, AppendStreamRefused,
       persistent
<1>8. UNCHANGED vars => UNCHANGED entries
  BY DEF vars, persistent
<1> QED
  BY <1>2, <1>3, <1>4, <1>5, <1>6, <1>7, <1>8 DEF Next, Tick

\* Whatever handler has returned, the last index and term that votes are
\* compared by (Entries::last_index, last_term) are those of the last entry.
THEOREM CachesAreRight == Spec => []CacheMatchesLog
<1>1. Spec => []TypeOK
  BY TypeCorrect
<1> QED
  BY <1>1, CacheInit, CacheStep, PTL DEF Spec

(***************************************************************************)
(* Calls that wait, and the nodes that owe them an answer.                 *)
(***************************************************************************)
Owed(r) == \E n \in Node : \E f \in inflights[n] : f.req = r

\* A call is owed once: by one node, at one index.
OwedOnce ==
    \A n, s \in Node : \A f \in inflights[n], g \in inflights[s] :
        f.req = g.req => n = s /\ f = g

Owing == OwedOnce /\ WaitingIsOwed

LEMMA OwingInit == Init => Owing
BY DEF Init, Owing, OwedOnce, WaitingIsOwed, NoAnswer

LEMMA OwingUnchanged ==
    ASSUME Owing, UNCHANGED <<inflights, answers>>
    PROVE  Owing'
BY DEF Owing, OwedOnce, WaitingIsOwed

\* A node that answers some of the calls it owes, and forgets just those, is
\* the only one that could owe them.
LEMMA OwingAnswered ==
    ASSUME TypeOK, Owing, NEW n \in Node, NEW S \in SUBSET inflights[n],
           NEW state, state # "waiting",
           answers' = Answered(S, state),
           inflights' = [inflights EXCEPT ![n] = inflights[n] \ S]
    PROVE  Owing'
<1>1. /\ inflights \in [Node -> SUBSET [index : Nat, req : Request]]
      /\ inflights'[n] = inflights[n] \ S
      /\ \A s \in Node \ {n} : inflights'[s] = inflights[s]
  BY DEF TypeOK, NodesOK
<1>2. \A s \in Node : inflights'[s] \subseteq inflights[s]
  BY <1>1
<1>3. OwedOnce'
  BY <1>2 DEF Owing, OwedOnce
<1>4. ASSUME NEW r \in Request, \E f \in S : f.req = r
      PROVE  answers'[r].state # "waiting" /\ ~Owed(r)'
  <2>1. answers'[r].state = state
    BY <1>4 DEF Answered
  <2>2. PICK f \in S : f.req = r
    BY <1>4
  <2>3. ASSUME NEW s \in Node, NEW g \in inflights'[s], g.req = r
        PROVE  FALSE
    <3>1. g \in inflights[s] /\ f \in inflights[n]
      BY <1>2, <2>3
    <3>2. n = s /\ f = g
      BY <2>2, <2>3, <3>1 DEF Owing, OwedOnce
    <3> QED
      BY <1>1, <2>3, <3>2
  <2> QED
    BY <2>1, <2>3 DEF Owed
<1>5. ASSUME NEW r \in Request, ~\E f \in S : f.req = r
      PROVE  answers'[r] = answers[r] /\ (Owed(r)' <=> Owed(r))
  <2>1. answers'[r] = answers[r]
    BY <1>5 DEF Answered
  <2>2. ASSUME NEW s \in Node, NEW f \in inflights[s], f.req = r
        PROVE  f \in inflights'[s]
    BY <1>1, <1>5, <2>2
  <2> QED
    BY <1>2, <2>1, <2>2 DEF Owed
<1>6. WaitingIsOwed'
  BY <1>4, <1>5 DEF Owing, WaitingIsOwed, Owed
<1> QED
  BY <1>3, <1>6 DEF Owing

\* A call that nobody has answered yet joins those a node owes.
LEMMA OwingAccepted ==
    ASSUME TypeOK, Owing, NEW n \in Node, NEW r \in Request, NEW index,
           answers[r].state # "waiting",
           answers' = [answers EXCEPT ![r].state = "waiting"],
           inflights' = [inflights EXCEPT
                            ![n] = inflights[n] \cup {[index |-> index, req |-> r]}]
    PROVE  Owing'
<1> DEFINE call == [index |-> index, req |-> r]
<1>1. /\ inflights'[n] = inflights[n] \cup {call} /\ call.req = r
      /\ \A s \in Node \ {n} : inflights'[s] = inflights[s]
      /\ answers'[r].state = "waiting"
      /\ \A q \in Request \ {r} : answers'[q] = answers[q]
  BY DEF TypeOK, NodesOK, RecordsOK, Answer
<1> HIDE DEF call
<1>2. ~Owed(r)
  BY DEF Owing, WaitingIsOwed, Owed
<1>3. ASSUME NEW s \in Node, NEW f \in inflights'[s]
      PROVE  \/ f \in inflights[s] /\ f.req # r
             \/ s = n /\ f = call
  BY <1>1, <1>2 DEF Owed
<1>4. OwedOnce'
  BY <1>1, <1>3 DEF Owing, OwedOnce
<1>5. ASSUME NEW q \in Request
      PROVE  answers'[q].state = "waiting" <=> Owed(q)'
  <2>1. CASE q = r
    BY <1>1, <2>1 DEF Owed
  <2>2. CASE q # r
    <3>1. Owed(q)' <=> Owed(q)
      BY <1>1, <1>3, <2>2 DEF Owed
    <3> QED
      BY <1>1, <2>2, <3>1 DEF Owing, WaitingIsOwed, Owed
  <2> QED
    BY <2>1, <2>2
<1> QED
  BY <1>4, <1>5 DEF Owing, WaitingIsOwed, Owed

LEMMA OwingStep == TypeOK /\ Owing /\ [Next]_vars => Owing'
<1> SUFFICES ASSUME TypeOK, Owing, [Next]_vars
             PROVE  Owing'
  OBVIOUS
<1>1. /\ inflights \in [Node -> SUBSET [index : Nat, req : Request]]
      /\ answers \in [Request -> Answer]
  BY DEF TypeOK, NodesOK, RecordsOK
<1>2. ASSUME NEW m \in DOMAIN msgs, ElectionWon(m)
      PROVE  Owing'
  <2>1. m.dst \in Node
    BY Delivered
  <2>2. /\ answers' = Answered(inflights[m.dst], "refused")
        /\ inflights' = [inflights EXCEPT ![m.dst] = {}]
    BY <1>2 DEF ElectionWon
  <2>3. inflights[m.dst] \ inflights[m.dst] = {}
    OBVIOUS
  <2> QED
    BY <2>1, <2>2, <2>3, OwingAnswered
<1>3. ASSUME NEW n \in Node, Stop(n)
      PROVE  Owing'
  <2>1. /\ answers' = Answered(inflights[n], "lost")
        /\ inflights' = [inflights EXCEPT ![n] = {}]
    BY <1>3 DEF Stop
  <2>2. inflights[n] \ inflights[n] = {}
    OBVIOUS
  <2> QED
    BY <2>1, <2>2, OwingAnswered
<1>4. ASSUME NEW m \in DOMAIN msgs, AppendRespReplicated(m)
      PROVE  Owing'
  <2>1. PICK acked \in SUBSET inflights[m.dst] :
            /\ answers' = Answered(acked, "confirmed")
            /\ inflights' = [inflights EXCEPT ![m.dst] = @ \ acked]
    BY <1>4 DEF AppendRespReplicated
  <2>2. m.dst \in Node
    BY Delivered
  <2> QED
    BY <2>1, <2>2, OwingAnswered
<1>5. ASSUME NEW n \in Node, NEW r \in Request, AppendStreamRefused(n, r)
      PROVE  Owing'
  <2>1. /\ answers[r].state = "unsent" /\ UNCHANGED inflights
        /\ answers' = [answers EXCEPT ![r].state = "refused"]
    BY <1>5 DEF AppendStreamRefused, NoAnswer, replication
  <2>2. answers'[r].state = "refused" /\ \A q \in Request \ {r} : answers'[q] = answers[q]
    BY <1>1, <2>1 DEF Answer
  <2> QED
    BY <2>1, <2>2 DEF Owing, OwedOnce, WaitingIsOwed
<1>6. ASSUME NEW n \in Node, NEW r \in Request, NEW size \in BatchSizes,
             AppendStreamAccepted(n, r, size)
      PROVE  Owing'
  <2> DEFINE index == entries[n].last_index + size
  <2>1. answers[r].state = "unsent"
    BY <1>6 DEF AppendStreamAccepted, NoAnswer
  <2>2. CASE Seeds(n) = {}
    <3>1. /\ UNCHANGED inflights
          /\ answers' = [answers EXCEPT ![r] = [state |-> "confirmed",
                                                position |-> index]]
      BY <1>6, <2>2 DEF AppendStreamAccepted
    <3>2. answers'[r].state = "confirmed" /\ \A q \in Request \ {r} : answers'[q] = answers[q]
      BY <1>1, <3>1
    <3> QED
      BY <2>1, <3>1, <3>2 DEF Owing, OwedOnce, WaitingIsOwed
  <2>3. CASE Seeds(n) # {}
    <3>1. /\ inflights' = [inflights EXCEPT
                              ![n] = inflights[n] \cup {[index |-> index, req |-> r]}]
          /\ answers' = [answers EXCEPT ![r].state = "waiting"]
      BY <1>6, <2>3 DEF AppendStreamAccepted
    <3> HIDE DEF index
    <3> QED
      BY <2>1, <3>1, OwingAccepted
  <2> QED
    BY <2>2, <2>3
<1>7. ASSUME NEW m \in DOMAIN msgs, Handle(m) \/ Lose(m),
             ~ElectionWon(m), ~AppendRespReplicated(m)
      PROVE  Owing'
  <2>1. UNCHANGED <<inflights, answers>>
    BY <1>7 DEF Handle, RequestVoteStale, RequestVoteFresh, RequestVoteAgain,
         VoteIgnored, VoteFromNewerTerm, VoteCounted, AppendEntriesStale, Follow,
         AppendEntriesUnmatched, AppendEntriesHeartbeat, AppendEntriesBatch,
         AppendRespIgnored, AppendRespRefused, Undeliverable, Lose, Discard,
         replication
  <2> QED
    BY <2>1, OwingUnchanged
<1>8. ASSUME \/ \E n \in Node : SendAppendEntries(n) \/ SwitchToCandidate(n) \/ Start(n)
             \/ UNCHANGED vars
      PROVE  Owing'
  <2>1. UNCHANGED <<inflights, answers>>
    BY <1>8 DEF SendAppendEntries, SwitchToCandidate, Start, vars, replication
  <2> QED
    BY <2>1, OwingUnchanged
<1> QED
  BY <1>2, <1>3, <1>4, <1>5, <1>6, <1>7, <1>8 DEF Next, Tick

\* Through changes of leader and restarts a call is neither forgotten, waiting
\* for nobody, nor answered twice: some node still owes it an answer exactly as
\* long as it waits (inflights in on_append_stream, on_append_entries_resp,
\* Volatile::reset).
THEOREM CallsAreOwed == Spec => []WaitingIsOwed
<1>1. Spec => []TypeOK
  BY TypeCorrect
<1>2. Owing => WaitingIsOwed
  BY DEF Owing
<1> QED
  BY <1>1, <1>2, OwingInit, OwingStep, PTL DEF Spec

(***************************************************************************)
(* The calls of the clients are served as AppendService.tla says.          *)
(***************************************************************************)
\* The place of a call that waits is the one its leader remembers.
PlacesAreOwed ==
    \A n \in Node : \A f \in inflights[n] :
        answers[f.req].state = "waiting" /\ Place(f.req) = f.index

LEMMA OwedPlaces == TypeOK /\ Owing => PlacesAreOwed
<1> SUFFICES ASSUME TypeOK, Owing, NEW n \in Node, NEW f \in inflights[n]
             PROVE  answers[f.req].state = "waiting" /\ Place(f.req) = f.index
  BY DEF PlacesAreOwed
<1>1. f.req \in Request
  BY DEF TypeOK, NodesOK
<1>2. answers[f.req].state = "waiting"
  BY <1>1 DEF Owing, WaitingIsOwed
<1>3. f \in OwedCalls(f.req) /\ \A g \in OwedCalls(f.req) : g = f
  BY DEF OwedCalls, Owing, OwedOnce
<1>4. (CHOOSE g \in OwedCalls(f.req) : TRUE) = f
  BY <1>3
<1> QED
  BY <1>2, <1>4 DEF Place

LEMMA OwedPlacesNext == TypeOK' /\ Owing' => PlacesAreOwed'
BY OwedPlaces, PTL

\* A call that does not wait is at the place it was told.
LEMMA ToldPlaces ==
    ASSUME NEW r \in Request
    PROVE  /\ answers[r].state # "waiting" => Place(r) = answers[r].position
           /\ answers'[r].state # "waiting" => Place(r)' = answers'[r].position
BY DEF Place

LEMMA PlaceTypes == TypeOK /\ Owing => \A r \in Request : Place(r) \in Nat
<1> SUFFICES ASSUME TypeOK, Owing, NEW r \in Request
             PROVE  Place(r) \in Nat
  OBVIOUS
<1>1. CASE answers[r].state # "waiting"
  BY <1>1 DEF Place, TypeOK, RecordsOK, Answer
<1>2. CASE answers[r].state = "waiting"
  <2>0. PICK n \in Node : \E f \in inflights[n] : f.req = r
    BY <1>2 DEF Owing, WaitingIsOwed
  <2>1. PICK f \in inflights[n] : f.req = r
    BY <2>0
  <2>2. Place(r) = f.index
    BY <2>1, OwedPlaces DEF PlacesAreOwed
  <2> QED
    BY <2>1, <2>2 DEF TypeOK, NodesOK
<1> QED
  BY <1>1, <1>2

LEMMA PlaceTypesNext == TypeOK' /\ Owing' => \A r \in Request : Place(r)' \in Nat
<1> DEFINE P == \A r \in Request : Place(r) \in Nat
<1>1. TypeOK /\ Owing => P
  BY PlaceTypes
<1> HIDE DEF P
<1>2. TypeOK' /\ Owing' => P'
  BY <1>1, PTL
<1> QED
  BY <1>2 DEF P

CallsHeld == TypeOK /\ Owing

States == [r \in Request |-> answers[r].state]
Places == [r \in Request |-> Place(r)]

\* A call whose answer does not change keeps its place.
LEMMA PlaceKept ==
    ASSUME CallsHeld, CallsHeld', NEW r \in Request, answers'[r] = answers[r],
           \A n \in Node : \A f \in inflights[n] :
              f.req = r => \E s \in Node : f \in inflights'[s]
    PROVE  Place(r)' = Place(r)
<1>1. CASE answers[r].state # "waiting"
  BY <1>1, ToldPlaces
<1>2. CASE answers[r].state = "waiting"
  <2>0. PICK n \in Node : \E f \in inflights[n] : f.req = r
    BY <1>2 DEF CallsHeld, Owing, WaitingIsOwed
  <2>1. PICK f \in inflights[n] : f.req = r
    BY <2>0
  <2>2. PICK s \in Node : f \in inflights'[s]
    BY <2>1
  <2>3. Place(r) = f.index
    BY <2>1, OwedPlaces DEF PlacesAreOwed, CallsHeld
  <2>4. Place(r)' = f.index
    BY <2>1, <2>2, OwedPlacesNext DEF PlacesAreOwed, CallsHeld
  <2> QED
    BY <2>3, <2>4
<1> QED
  BY <1>1, <1>2

LEMMA PlacesUnchanged ==
    ASSUME CallsHeld, CallsHeld', UNCHANGED <<inflights, answers>>
    PROVE  UNCHANGED <<States, Places>>
BY PlaceKept DEF States, Places

\* Calls that are told their place, and were waiting.
LEMMA SettleAllowed ==
    ASSUME CallsHeld, CallsHeld', NEW n \in Node, NEW S \in SUBSET inflights[n],
           NEW answer \in {"confirmed", "refused", "lost"},
           answers' = Answered(S, answer),
           inflights' = [inflights EXCEPT ![n] = inflights[n] \ S]
    PROVE  A!Settle(answer)
<1> DEFINE R == {r \in Request : \E f \in S : f.req = r}
<1>1. ASSUME NEW r \in R
      PROVE  /\ answers[r].state = "waiting"
             /\ answers'[r].state = answer
             /\ Place(r)' = Place(r)
  <2> DEFINE f == CHOOSE g \in S : g.req = r
  <2>1. f \in S /\ f.req = r /\ f \in inflights[n]
    BY <1>1
  <2>2. answers'[r] = [state |-> answer, position |-> f.index]
    BY <1>1 DEF Answered
  <2> HIDE DEF f
  <2>3. answers[r].state = "waiting" /\ Place(r) = f.index
    BY <2>1, OwedPlaces DEF PlacesAreOwed, CallsHeld
  <2> QED
    BY <2>2, <2>3, ToldPlaces
<1>2. ASSUME NEW r \in Request \ R
      PROVE  answers'[r] = answers[r] /\ Place(r)' = Place(r)
  <2>1. answers'[r] = answers[r]
    BY <1>2 DEF Answered
  <2>2. ASSUME NEW s \in Node, NEW f \in inflights[s], f.req = r
        PROVE  f \in inflights'[s]
    BY <1>2, <2>2 DEF CallsHeld, TypeOK, NodesOK
  <2> QED
    BY <2>1, <2>2, PlaceKept
<1> HIDE DEF R
<1>3. R \in SUBSET {r \in Request : States[r] = "waiting"}
  BY <1>1 DEF R, States
<1>4. States' = [r \in Request |-> IF r \in R THEN answer ELSE States[r]]
  BY <1>1, <1>2 DEF States
<1>5. Places' = Places
  BY <1>1, <1>2 DEF Places
<1> QED
  BY <1>3, <1>4, <1>5 DEF A!Settle, States, Places

LEMMA AcceptAllowed ==
    ASSUME CallsHeld, CallsHeld', NEW n \in Node, NEW r \in Request,
           NEW size \in BatchSizes, AppendStreamAccepted(n, r, size)
    PROVE  A!Accept(r)
<1>1. /\ answers \in [Request -> Answer]
      /\ inflights \in [Node -> SUBSET [index : Nat, req : Request]]
      /\ answers[r].state = "unsent"
  BY DEF CallsHeld, TypeOK, NodesOK, RecordsOK, AppendStreamAccepted, NoAnswer
<1>2. /\ \A q \in Request \ {r} : answers'[q] = answers[q]
      /\ answers'[r].state \in {"waiting", "confirmed"}
      /\ \A s \in Node : inflights[s] \subseteq inflights'[s]
  <2>1. CASE Seeds(n) = {}
    BY <1>1, <2>1 DEF AppendStreamAccepted
  <2>2. CASE Seeds(n) # {}
    BY <1>1, <2>2 DEF AppendStreamAccepted, Answer
  <2> QED
    BY <2>1, <2>2
<1>3. \A q \in Request \ {r} : Place(q)' = Place(q)
  BY <1>2, PlaceKept
<1>4. Places' \in [Request -> Nat] /\ \A q \in Request \ {r} : Places'[q] = Places[q]
  BY <1>3, PlaceTypesNext DEF Places, CallsHeld
<1>5. /\ States[r] = "unsent"
      /\ \E s \in {"waiting", "confirmed"} : States' = [States EXCEPT ![r] = s]
  BY <1>1, <1>2 DEF States
<1> QED
  BY <1>4, <1>5 DEF A!Accept, States, Places

LEMMA CallsStep ==
    ASSUME CallsHeld, CallsHeld', [Next]_vars
    PROVE  [A!Next]_<<States, Places>>
<1>1. ASSUME NEW m \in DOMAIN msgs, ElectionWon(m)
      PROVE  A!Next
  <2>1. /\ answers' = Answered(inflights[m.dst], "refused")
        /\ inflights' = [inflights EXCEPT ![m.dst] = {}]
        /\ inflights[m.dst] \ inflights[m.dst] = {} /\ m.dst \in Node
    BY <1>1, Delivered DEF ElectionWon, CallsHeld
  <2>2. A!Settle("refused")
    BY <2>1, SettleAllowed
  <2> QED
    BY <2>2 DEF A!Next
<1>2. ASSUME NEW n \in Node, Stop(n)
      PROVE  A!Next
  <2>1. /\ answers' = Answered(inflights[n], "lost")
        /\ inflights' = [inflights EXCEPT ![n] = {}]
        /\ inflights[n] \ inflights[n] = {}
    BY <1>2 DEF Stop
  <2>2. A!Settle("lost")
    BY <2>1, SettleAllowed
  <2> QED
    BY <2>2 DEF A!Next
<1>3. ASSUME NEW m \in DOMAIN msgs, AppendRespReplicated(m)
      PROVE  A!Next
  <2>1. PICK acked \in SUBSET inflights[m.dst] :
            /\ answers' = Answered(acked, "confirmed")
            /\ inflights' = [inflights EXCEPT ![m.dst] = @ \ acked]
    BY <1>3 DEF AppendRespReplicated
  <2>2. m.dst \in Node
    BY Delivered DEF CallsHeld
  <2>3. A!Settle("confirmed")
    BY <2>1, <2>2, SettleAllowed
  <2> QED
    BY <2>3 DEF A!Next
<1>4. ASSUME NEW n \in Node, NEW r \in Request, AppendStreamRefused(n, r)
      PROVE  A!Next
  <2>1. /\ answers \in [Request -> Answer] /\ answers[r].state = "unsent"
        /\ answers' = [answers EXCEPT ![r].state = "refused"]
        /\ UNCHANGED inflights
    BY <1>4 DEF CallsHeld, TypeOK, RecordsOK, AppendStreamRefused, NoAnswer,
                replication
  <2>2. /\ answers'[r].state = "refused" /\ answers'[r].position = answers[r].position
        /\ \A q \in Request \ {r} : answers'[q] = answers[q]
    BY <2>1 DEF Answer
  <2>3. \A q \in Request : Place(q)' = Place(q)
    <3>1. Place(r)' = Place(r)
      BY <2>1, <2>2, ToldPlaces
    <3>2. \A q \in Request \ {r} : Place(q)' = Place(q)
      BY <2>1, <2>2, PlaceKept
    <3> QED
      BY <3>1, <3>2
  <2>4. UNCHANGED Places /\ States[r] = "unsent"
        /\ States' = [States EXCEPT ![r] = "refused"]
    BY <2>1, <2>2, <2>3 DEF Places, States
  <2> QED
    BY <2>4 DEF A!Next, A!Refuse, Places, States
<1>5. ASSUME NEW n \in Node, NEW r \in Request, NEW size \in BatchSizes,
             AppendStreamAccepted(n, r, size)
      PROVE  A!Next
  BY <1>5, AcceptAllowed DEF A!Next
<1>6. ASSUME NEW m \in DOMAIN msgs, Handle(m) \/ Lose(m),
             ~ElectionWon(m), ~AppendRespReplicated(m)
      PROVE  UNCHANGED <<inflights, answers>>
  BY <1>6 DEF Handle, RequestVoteStale, RequestVoteFresh, RequestVoteAgain,
         VoteIgnored, VoteFromNewerTerm, VoteCounted, AppendEntriesStale, Follow,
         AppendEntriesUnmatched, AppendEntriesHeartbeat, AppendEntriesBatch,
         AppendRespIgnored, AppendRespRefused, Undeliverable, Lose, Discard,
         replication
<1>7. ASSUME \/ \E n \in Node : SendAppendEntries(n) \/ SwitchToCandidate(n) \/ Start(n)
             \/ UNCHANGED vars
      PROVE  UNCHANGED <<inflights, answers>>
  BY <1>7 DEF SendAppendEntries, SwitchToCandidate, Start, vars, replication
<1>8. UNCHANGED <<inflights, answers>> => UNCHANGED <<States, Places>>
  BY PlacesUnchanged
<1> QED
  BY <1>1, <1>2, <1>3, <1>4, <1>5, <1>6, <1>7, <1>8 DEF Next, Tick

\* Whatever the cluster goes through, its clients see AppendService.tla: a call
\* gets its place when it is accepted, is answered at most once, and is told
\* that place (on_append_stream, on_append_entries_resp, Volatile::reset).
THEOREM CallsImplemented == Spec => CallsAsPromised
<1>1. Init => A!Init
  BY DEF Init, A!Init, Place, NoAnswer
<1>2. Spec => []TypeOK
  BY TypeCorrect
<1>3. TypeOK /\ Owing /\ TypeOK' /\ Owing' /\ [Next]_vars
        => [A!Next]_<<States, Places>>
  BY CallsStep DEF CallsHeld
<1>4. [A!Next]_<<States, Places>> => [A!Next]_(A!callVars)
  BY DEF A!callVars, States, Places
<1> QED
  BY <1>1, <1>2, <1>3, <1>4, OwingInit, OwingStep, PTL
     DEF Spec, CallsAsPromised, A!Spec

(***************************************************************************)
(* A leader holds the entries of the calls it owes.                        *)
(***************************************************************************)
HoldsCall(log, f) ==
    \E i \in DOMAIN log.inner :
        log.inner[i].index = f.index /\ log.inner[i].payload.req = f.req

LEMMA HoldingInit == Init => LeaderHoldsInflights
BY DEF Init, LeaderHoldsInflights

\* What a step has to show: a node that leads after it led before it with the
\* same log and owes no other call, or it owes none.
LEMMA HoldingKept ==
    ASSUME LeaderHoldsInflights,
           \A n \in Node : status'[n] = "leader" =>
              \/ inflights'[n] = {}
              \/ /\ status[n] = "leader" /\ entries'[n] = entries[n]
                 /\ inflights'[n] \subseteq inflights[n]
    PROVE  LeaderHoldsInflights'
BY DEF LeaderHoldsInflights

\* The entries of a new call end the log, the last of them at its index.
LEMMA NewCallHeld ==
    ASSUME TypeOK, NEW n \in Node, NEW r \in Request, NEW size \in Nat \ {0}
    PROVE  LET after == AddEach(entries[n], NewEntries(n, r, size))
               call  == [index |-> entries[n].last_index + size, req |-> r]
           IN  /\ HoldsCall(after, call)
               /\ \A f : HoldsCall(entries[n], f) => HoldsCall(after, f)
<1> DEFINE new   == NewEntries(n, r, size)
           inner == entries[n].inner
           last  == Len(inner) + size
<1>1. /\ inner \in Seq(Entry) /\ entries[n].last_index \in Nat
      /\ term[n] \in Nat
  BY DEF TypeOK, NodesOK, Log
<1>2. /\ new \in Seq(Entry) /\ Len(new) = size
      /\ new[size].index = entries[n].last_index + size
      /\ new[size].payload.req = r
  BY <1>1 DEF NewEntries, Entry, Payload
<1> HIDE DEF new
<1>3. new # << >>
  BY <1>2
<1>4. AddEach(entries[n], new).inner = inner \o new
  BY <1>3 DEF AddEach, AppendBatch
<1>5. /\ last \in DOMAIN (inner \o new) /\ (inner \o new)[last] = new[size]
      /\ \A i \in DOMAIN inner : /\ i \in DOMAIN (inner \o new)
                                 /\ (inner \o new)[i] = inner[i]
  BY <1>1, <1>2, ConcatProperties, LenProperties
<1> QED
  BY <1>2, <1>4, <1>5 DEF HoldsCall, new

LEMMA HoldingStep ==
    ASSUME 0 \notin BatchSizes, TypeOK, LeaderHoldsInflights, [Next]_vars
    PROVE  LeaderHoldsInflights'
<1>1. /\ inflights \in [Node -> SUBSET [index : Nat, req : Request]]
      /\ entries \in [Node -> Log]
      /\ status \in [Node -> {"follower", "candidate", "leader"}]
  BY DEF TypeOK, NodesOK
<1>2. ASSUME NEW n \in Node, NEW r \in Request, NEW size \in BatchSizes,
             AppendStreamAccepted(n, r, size)
      PROVE  LeaderHoldsInflights'
  <2> DEFINE call == [index |-> entries[n].last_index + size, req |-> r]
             after == AddEach(entries[n], NewEntries(n, r, size))
  <2>1. size \in Nat \ {0}
    BY BoundsAssumption
  <2>2. /\ HoldsCall(after, call)
        /\ \A f : HoldsCall(entries[n], f) => HoldsCall(after, f)
    BY <2>1, NewCallHeld
  <2>3. /\ entries' = [entries EXCEPT ![n] = after]
        /\ UNCHANGED status
        /\ \/ UNCHANGED inflights
           \/ inflights' = [inflights EXCEPT ![n] = inflights[n] \cup {call}]
    BY <1>2 DEF AppendStreamAccepted, election
  <2> HIDE DEF call, after
  <2>4. ASSUME NEW s \in Node, status'[s] = "leader", NEW f \in inflights'[s]
        PROVE  HoldsCall(entries'[s], f)
    <3>1. f \in inflights[s] => HoldsCall(entries[s], f)
      BY <2>3, <2>4 DEF LeaderHoldsInflights, HoldsCall
    <3>2. s # n => entries'[s] = entries[s] /\ f \in inflights[s]
      BY <1>1, <2>3, <2>4
    <3>3. s = n => entries'[s] = after /\ (f \in inflights[s] \/ f = call)
      BY <1>1, <2>3, <2>4
    <3> QED
      BY <2>2, <3>1, <3>2, <3>3
  <2> QED
    BY <2>4 DEF LeaderHoldsInflights, HoldsCall
<1>3. ASSUME NEW n \in Node, Stop(n)
      PROVE  LeaderHoldsInflights'
  <2>1. /\ inflights' = [inflights EXCEPT ![n] = {}]
        /\ entries' = [entries EXCEPT ![n] = EmptyLog]
        /\ status' = [status EXCEPT ![n] = InitialStatus]
    BY <1>3 DEF Stop
  <2> QED
    BY <1>1, <2>1, HoldingKept
<1>4. ASSUME NEW m \in DOMAIN msgs, Handle(m) \/ Lose(m)
      PROVE  LeaderHoldsInflights'
  <2>1. m.dst \in Node
    BY Delivered
  <2>2. CASE ElectionWon(m)
    <3>1. /\ inflights' = [inflights EXCEPT ![m.dst] = {}] /\ UNCHANGED entries
          /\ status' = [status EXCEPT ![m.dst] = "leader"]
      BY <2>2 DEF ElectionWon, persistent
    <3> QED
      BY <1>1, <2>1, <3>1, HoldingKept
  <2>3. CASE AppendEntriesBatch(m)
    <3>1. /\ UNCHANGED inflights
          /\ status' = [status EXCEPT ![m.dst] = "follower"]
          /\ \A n \in Node \ {m.dst} : entries'[n] = entries[n]
      BY <1>1, <2>1, <2>3 DEF AppendEntriesBatch, Follow
    <3> QED
      BY <1>1, <2>1, <3>1, HoldingKept
  <2>4. CASE AppendRespReplicated(m)
    <3>1. /\ UNCHANGED <<entries, status>>
          /\ \E acked : inflights' = [inflights EXCEPT ![m.dst] = @ \ acked]
      BY <2>4 DEF AppendRespReplicated, persistent, election
    <3> QED
      BY <1>1, <2>1, <3>1, HoldingKept
  <2>5. ASSUME ~ElectionWon(m), ~AppendEntriesBatch(m), ~AppendRespReplicated(m)
        PROVE  UNCHANGED <<entries, inflights>>
    BY <1>4, <2>5 DEF Handle, RequestVoteStale, RequestVoteFresh, RequestVoteAgain,
         VoteIgnored, VoteFromNewerTerm, VoteCounted, AppendEntriesStale, Follow,
         AppendEntriesUnmatched, AppendEntriesHeartbeat, AppendRespIgnored,
         AppendRespRefused, Undeliverable, Lose, Discard, persistent, replication
  <2>6. ASSUME ~ElectionWon(m), NEW n \in Node, status'[n] = "leader"
        PROVE  status[n] = "leader"
    BY <1>1, <1>4, <2>1, <2>6 DEF Handle, RequestVoteStale, RequestVoteFresh,
         RequestVoteAgain, VoteIgnored, VoteFromNewerTerm, VoteCounted,
         AppendEntriesStale, Follow, AppendEntriesUnmatched,
         AppendEntriesHeartbeat, AppendEntriesBatch, AppendRespIgnored,
         AppendRespReplicated, AppendRespRefused, Undeliverable, Lose, Discard,
         election
  <2> QED
    BY <2>2, <2>3, <2>4, <2>5, <2>6, HoldingKept
<1>5. ASSUME NEW n \in Node, SwitchToCandidate(n)
      PROVE  LeaderHoldsInflights'
  <2>1. /\ status' = [status EXCEPT ![n] = "candidate"]
        /\ UNCHANGED <<entries, inflights>>
    BY <1>5 DEF SwitchToCandidate, replication
  <2> QED
    BY <1>1, <2>1, HoldingKept
<1>6. ASSUME \/ \E n \in Node : SendAppendEntries(n) \/ Start(n)
             \/ \E n \in Node, r \in Request : AppendStreamRefused(n, r)
             \/ UNCHANGED vars
      PROVE  LeaderHoldsInflights'
  <2>1. UNCHANGED <<entries, inflights, status>>
    BY <1>6 DEF SendAppendEntries, Start, AppendStreamRefused, vars, persistent,
         election, replication
  <2> QED
    BY <2>1, HoldingKept
<1> QED
  BY <1>2, <1>3, <1>4, <1>5, <1>6 DEF Next, Tick

\* A leader never owes a call whose entries it does not hold: a leadership
\* begins with no calls (reset), and a log is only truncated by a node that
\* stops leading in the same handler.  A call without events has no entry.
THEOREM OwedCallsAreHeld ==
    ASSUME 0 \notin BatchSizes
    PROVE  Spec => []LeaderHoldsInflights
<1>1. Spec => []TypeOK
  BY TypeCorrect
<1>2. TypeOK /\ LeaderHoldsInflights /\ [Next]_vars => LeaderHoldsInflights'
  BY HoldingStep
<1> QED
  BY <1>1, <1>2, HoldingInit, PTL DEF Spec

=============================================================================
