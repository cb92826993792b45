---------------------------- MODULE LogOpsProofs ----------------------------
(***************************************************************************)
(* Proofs that the operators of RaftLog return what the loops of entry.rs  *)
(* return, for every log, in whatever order its indices and terms are.     *)
(*                                                                         *)
(* A loop is a recursive function, of which the provers only know that it  *)
(* is some function that satisfies its equation, if there is one.  So each *)
(* proof gives a closed form, shows that it satisfies the equation, and    *)
(* that a function that does agrees with it from one end to the other.     *)
(***************************************************************************)
EXTENDS LogOps, PositionsProofs

LEMMA InnerTypes ==
    ASSUME NEW inner \in Seq(Entry)
    PROVE  /\ Len(inner) \in Nat /\ DOMAIN inner = 1..Len(inner)
           /\ \A i \in 1..Len(inner) :
                 inner[i] \in Entry /\ inner[i].index \in Nat /\ inner[i].term \in Nat
<1>1. /\ Len(inner) \in Nat /\ DOMAIN inner = 1..Len(inner)
      /\ \A i \in 1..Len(inner) : inner[i] \in Entry
  BY LenProperties, ElementOfSeq
<1> QED
  BY <1>1 DEF Entry

(***************************************************************************)
(* contains_log.                                                           *)
(***************************************************************************)
LEMMA ContainsIsLoop ==
    ASSUME NEW inner \in Seq(Entry), NEW index \in Nat, NEW term
    PROVE  ContainsLoop(inner, index, term) <=>
              \E i \in 1..Len(inner) :
                 /\ inner[i].index = index /\ inner[i].term = term
                 /\ \A j \in 1..(i - 1) : inner[j].index <= index
<1> DEFINE n == Len(inner)
           Hit(i) == inner[i].index = index /\ inner[i].term = term
           Finds(i) == \E j \in i..n : /\ Hit(j)
                                       /\ \A k \in i..(j - 1) : inner[k].index <= index
           Body(g) == [i \in 1..(n + 1) |->
                          /\ i <= n
                          /\ \/ inner[i].index = index /\ inner[i].term = term
                             \/ ~(inner[i].index > index) /\ g[i + 1]]
           h == [i \in 1..(n + 1) |-> Finds(i)]
           f == CHOOSE g : g = Body(g)
<1>1. n \in Nat /\ \A i \in 1..n : inner[i].index \in Nat
  BY InnerTypes
<1>2. ASSUME NEW i \in 1..n
      PROVE  Finds(i) <=> Hit(i) \/ (~(inner[i].index > index) /\ Finds(i + 1))
  <2>1. ASSUME Finds(i)
        PROVE  Hit(i) \/ (~(inner[i].index > index) /\ Finds(i + 1))
    <3>1. PICK j \in i..n : Hit(j) /\ \A k \in i..(j - 1) : inner[k].index <= index
      BY <2>1
    <3>2. CASE j = i
      BY <3>1, <3>2
    <3>3. CASE j # i
      <4>1. j \in (i + 1)..n /\ i \in i..(j - 1)
        BY <1>1, <3>3
      <4>2. inner[i].index <= index
        BY <3>1, <4>1
      <4>3. \A k \in (i + 1)..(j - 1) : inner[k].index <= index
        BY <1>1, <3>1
      <4> QED
        BY <1>1, <3>1, <4>1, <4>2, <4>3
    <3> QED
      BY <3>2, <3>3
  <2>2. ASSUME Hit(i)
        PROVE  Finds(i)
    <3>1. i \in i..n /\ \A k \in i..(i - 1) : FALSE
      BY <1>1
    <3> QED
      BY <2>2, <3>1
  <2>3. ASSUME ~(inner[i].index > index), Finds(i + 1)
        PROVE  Finds(i)
    <3>1. PICK j \in (i + 1)..n :
                  Hit(j) /\ \A k \in (i + 1)..(j - 1) : inner[k].index <= index
      BY <2>3
    <3>2. j \in i..n
      BY <1>1
    <3>3. \A k \in i..(j - 1) : k = i \/ k \in (i + 1)..(j - 1)
      BY <1>1
    <3>4. \A k \in i..(j - 1) : inner[k].index <= index
      BY <1>1, <2>3, <3>1, <3>3
    <3> QED
      BY <3>1, <3>2, <3>4
  <2> QED
    BY <2>1, <2>2, <2>3
<1>3. ~Finds(n + 1)
  BY <1>1
<1>4. h = Body(h)
  <2>1. ASSUME NEW i \in 1..(n + 1)
        PROVE  h[i] = Body(h)[i]
    <3>1. CASE i = n + 1
      BY <1>1, <1>3, <3>1
    <3>2. CASE i \in 1..n
      <4>1. i <= n /\ i + 1 \in 1..(n + 1)
        BY <1>1, <3>2
      <4>2. h[i] = Finds(i) /\ h[i + 1] = Finds(i + 1)
        <5> HIDE DEF Finds
        <5> QED
          BY <4>1
      <4>3. Body(h)[i] = (Hit(i) \/ (~(inner[i].index > index) /\ h[i + 1]))
        <5> HIDE DEF h
        <5> QED
          BY <4>1
      <4>4. Finds(i) = (Hit(i) \/ (~(inner[i].index > index) /\ Finds(i + 1)))
        BY <1>2, <3>2, Zenon
      <4> HIDE DEF Finds, Hit, Body, h
      <4> QED
        BY <4>2, <4>3, <4>4
    <3> QED
      BY <1>1, <3>1, <3>2
  <2> QED
    BY <2>1
<1>5. f = Body(f)
  <2> HIDE DEF h, Body
  <2> QED
    BY <1>4
<1>6. f[1] = h[1]
  <2> HIDE DEF f
  <2>1. f[n + 1] = FALSE /\ h[n + 1] = FALSE
    BY <1>1, <1>3, <1>5
  <2>2. ASSUME NEW i \in 1..(n + 1), i < n + 1, f[i + 1] = h[i + 1]
        PROVE  f[i] = h[i]
    <3>1. f[i] = Body(f)[i] /\ h[i] = Body(h)[i]
      BY <1>4, <1>5
    <3>2. Body(f)[i] = Body(h)[i]
      <4> HIDE DEF h
      <4> QED
        BY <2>2
    <3> HIDE DEF h, Body
    <3> QED
      BY <3>1, <3>2
  <2> HIDE DEF h, Body
  <2>3. n + 1 \in Nat \ {0}
    BY <1>1
  <2>4. f[n + 1] = h[n + 1]
    BY <2>1
  <2> HIDE DEF n
  <2> QED
    BY <2>2, <2>3, <2>4, AgreeDownwards
<1>7. ContainsLoop(inner, index, term) = f[1]
  BY DEF ContainsLoop
<1>8. f[1] = Finds(1)
  <2> HIDE DEF f, Finds
  <2> QED
    BY <1>1, <1>6
<1> QED
  BY <1>7, <1>8

(***************************************************************************)
(* Vec::retain, and the loop of read_entries_from: what they have kept of  *)
(* the first i entries is what is at the chosen positions up to i.         *)
(***************************************************************************)
Upto(K, i) == {k \in K : k <= i}

LEMMA UptoGrows ==
    ASSUME NEW inner \in Seq(Entry), NEW K \in SUBSET (1..Len(inner)),
           NEW i \in 1..Len(inner)
    PROVE  /\ i \in K => SubSeqAt(inner, Upto(K, i))
                            = Append(SubSeqAt(inner, Upto(K, i - 1)), inner[i])
           /\ i \notin K => Upto(K, i) = Upto(K, i - 1)
           /\ SubSeqAt(inner, Upto(K, i)) \in Seq(Entry)
<1>1. Len(inner) \in Nat /\ DOMAIN inner = 1..Len(inner)
  BY InnerTypes
<1>2. /\ Upto(K, i) \in SUBSET DOMAIN inner
      /\ Upto(K, i - 1) \in SUBSET DOMAIN inner
      /\ \A k \in Upto(K, i - 1) : k < i
  <2>1. Upto(K, i) \subseteq K /\ Upto(K, i - 1) \subseteq K /\ K \subseteq DOMAIN inner
    BY <1>1 DEF Upto
  <2>2. \A k \in Upto(K, i - 1) : k <= i - 1 /\ k \in Nat
    BY <2>1, <1>1 DEF Upto
  <2>3. \A k \in Upto(K, i - 1) : k < i
    BY <2>2
  <2> QED
    BY <2>1, <2>3
<1>3. \A k \in K : k <= i <=> k <= i - 1 \/ k = i
  BY <1>1
<1>4. i \notin K => Upto(K, i) = Upto(K, i - 1)
  BY <1>3 DEF Upto
<1>5. i \in K => Upto(K, i) = Upto(K, i - 1) \cup {i}
  BY <1>3 DEF Upto
<1>6. SubSeqAt(inner, Upto(K, i - 1) \cup {i})
        = Append(SubSeqAt(inner, Upto(K, i - 1)), inner[i])
  BY <1>1, <1>2, SubSeqAtWithLast
<1>7. SubSeqAt(inner, Upto(K, i)) \in Seq(Entry)
  BY <1>2, SubSeqAtType
<1> QED
  BY <1>4, <1>5, <1>6, <1>7

LEMMA UptoNone ==
    ASSUME NEW inner \in Seq(Entry), NEW K \in SUBSET (1..Len(inner))
    PROVE  SubSeqAt(inner, Upto(K, 0)) = << >> /\ Upto(K, Len(inner)) = K
<1>1. Len(inner) \in Nat
  BY InnerTypes
<1>2. \A k \in K : ~(k <= 0) /\ k <= Len(inner)
  BY <1>1
<1>3. Upto(K, 0) = {} /\ Upto(K, Len(inner)) = K
  BY <1>2 DEF Upto
<1> QED
  BY <1>3, SubSeqAtNothing

LEMMA RetainIsLoop ==
    ASSUME NEW inner \in Seq(Entry), NEW index \in Nat, NEW term
    PROVE  RetainLoop(inner, index, term)
              = SubSeqAt(inner, {i \in 1..Len(inner) :
                                    \/ inner[i].index < index
                                    \/ inner[i].term = term})
<1> DEFINE n == Len(inner)
           K == {i \in 1..n : inner[i].index < index \/ inner[i].term = term}
           Body(g) == [i \in 0..n |->
                          IF i = 0 THEN << >>
                          ELSE IF \/ inner[i].index < index
                                  \/ inner[i].index >= index /\ inner[i].term = term
                          THEN Append(g[i - 1], inner[i]) ELSE g[i - 1]]
           h == [i \in 0..n |-> SubSeqAt(inner, Upto(K, i))]
           f == CHOOSE g : g = Body(g)
<1>1. n \in Nat /\ \A i \in 1..n : inner[i].index \in Nat
  BY InnerTypes
<1>2. K \in SUBSET (1..Len(inner))
  OBVIOUS
<1>3. h[0] = << >> /\ h[n] = SubSeqAt(inner, K)
  BY <1>1, <1>2, UptoNone
<1>4. ASSUME NEW i \in 1..n
      PROVE  i \in K <=> \/ inner[i].index < index
                         \/ inner[i].index >= index /\ inner[i].term = term
  BY <1>1
<1>5. h = Body(h)
  <2>1. ASSUME NEW i \in 1..n
        PROVE  h[i] = Body(h)[i]
    <3> HIDE DEF K
    <3>1. i - 1 \in 0..n /\ i \in 0..n /\ i # 0
      BY <1>1
    <3>2. /\ h[i] = SubSeqAt(inner, Upto(K, i))
          /\ h[i - 1] = SubSeqAt(inner, Upto(K, i - 1))
      BY <3>1
    <3>3. h[i] = IF i \in K THEN Append(h[i - 1], inner[i]) ELSE h[i - 1]
      BY <1>2, <3>2, UptoGrows
    <3>4. Body(h)[i] = IF \/ inner[i].index < index
                          \/ inner[i].index >= index /\ inner[i].term = term
                       THEN Append(h[i - 1], inner[i]) ELSE h[i - 1]
      <4> HIDE DEF h
      <4> QED
        BY <3>1
    <3> HIDE DEF h, Body
    <3> QED
      BY <1>4, <3>3, <3>4
  <2>2. h[0] = Body(h)[0]
    <3> HIDE DEF h
    <3> QED
      BY <1>1, <1>3
  <2>3. \A i \in 0..n : h[i] = Body(h)[i]
    <3> HIDE DEF h, Body
    <3> QED
      BY <1>1, <2>1, <2>2
  <2> QED
    BY <2>3
<1>6. f = Body(f)
  <2> HIDE DEF h, Body
  <2> QED
    BY <1>5
<1>7. f[n] = h[n]
  <2> HIDE DEF f
  <2>1. f[0] = << >>
    BY <1>1, <1>6
  <2>2. ASSUME NEW i \in 1..n, f[i - 1] = h[i - 1]
        PROVE  f[i] = h[i]
    <3>1. f[i] = Body(f)[i] /\ h[i] = Body(h)[i]
      BY <1>5, <1>6
    <3>2. Body(f)[i] = Body(h)[i]
      <4> HIDE DEF h
      <4> QED
        BY <2>2
    <3> HIDE DEF h, Body
    <3> QED
      BY <3>1, <3>2
  <2> HIDE DEF h, Body
  <2>3. f[0] = h[0]
    BY <1>3, <2>1
  <2>4. n \in Nat
    BY <1>1
  <2> HIDE DEF n
  <2> QED
    BY <2>2, <2>3, <2>4, AgreeUpwards
<1>8. RetainLoop(inner, index, term) = f[n]
  BY DEF RetainLoop
<1> HIDE DEF f, h, K
<1>9. RetainLoop(inner, index, term) = SubSeqAt(inner, K)
  BY <1>1, <1>3, <1>7, <1>8
<1> QED
  BY <1>9 DEF K

(***************************************************************************)
(* get_previous_entry.  From any entry on, the loop stops at the first one *)
(* at ref, or behind the last one.                                         *)
(***************************************************************************)
Stops(inner, ref, i) ==
    {j \in i..Len(inner) : inner[j].index = ref} \cup {Len(inner) + 1}

StopFrom(inner, ref, i) ==
    CHOOSE j \in Stops(inner, ref, i) : \A k \in Stops(inner, ref, i) : j <= k

LEMMA StopAtHit ==
    ASSUME NEW inner \in Seq(Entry), NEW ref, NEW i \in 1..(Len(inner) + 1)
    PROVE  IF i > Len(inner) \/ inner[i].index = ref
           THEN StopFrom(inner, ref, i) = i
           ELSE StopFrom(inner, ref, i) = StopFrom(inner, ref, i + 1)
<1>1. Len(inner) \in Nat
  BY InnerTypes
<1>2. /\ Stops(inner, ref, i) \in SUBSET Nat
      /\ \A j \in Stops(inner, ref, i) : i <= j
  BY <1>1 DEF Stops
<1>3. CASE i > Len(inner) \/ inner[i].index = ref
  <2>1. i \in Stops(inner, ref, i)
    BY <1>1, <1>3 DEF Stops
  <2>2. StopFrom(inner, ref, i) = i
    BY <1>2, <2>1, SmallestChosen DEF StopFrom
  <2> QED
    BY <1>3, <2>2
<1>4. CASE ~(i > Len(inner) \/ inner[i].index = ref)
  <2>1. \A j \in i..Len(inner) : inner[j].index = ref => j \in (i + 1)..Len(inner)
    BY <1>1, <1>4
  <2>2. \A j \in (i + 1)..Len(inner) : j \in i..Len(inner)
    BY <1>1
  <2>3. Stops(inner, ref, i) = Stops(inner, ref, i + 1)
    BY <2>1, <2>2 DEF Stops
  <2>4. StopFrom(inner, ref, i) = StopFrom(inner, ref, i + 1)
    BY <2>3 DEF StopFrom
  <2> QED
    BY <1>4, <2>4
<1> QED
  BY <1>3, <1>4

LEMMA StopIsFirstHit ==
    ASSUME NEW inner \in Seq(Entry), NEW ref
    PROVE  LET hits == {i \in 1..Len(inner) : inner[i].index = ref}
           IN  StopFrom(inner, ref, 1)
                  = IF hits = {} THEN Len(inner) + 1
                    ELSE CHOOSE i \in hits : \A j \in hits : i <= j
<1> DEFINE hits == {i \in 1..Len(inner) : inner[i].index = ref}
<1>1. Len(inner) \in Nat
  BY InnerTypes
<1>2. Stops(inner, ref, 1) = hits \cup {Len(inner) + 1}
  BY DEF Stops
<1>3. /\ hits \in SUBSET Nat /\ Stops(inner, ref, 1) \in SUBSET Nat
      /\ \A j \in hits : j <= Len(inner) + 1
  BY <1>1, <1>2
<1> HIDE DEF hits
<1>4. CASE hits = {}
  <2>1. Stops(inner, ref, 1) = {Len(inner) + 1}
    BY <1>2, <1>4
  <2>2. \A j \in Stops(inner, ref, 1) : Len(inner) + 1 <= j
    BY <1>1, <2>1
  <2>3. StopFrom(inner, ref, 1) = Len(inner) + 1
    BY <1>3, <2>1, <2>2, SmallestChosen DEF StopFrom
  <2> QED
    BY <1>4, <2>3 DEF hits
<1>5. CASE hits # {}
  <2>1. PICK i \in hits : \A j \in hits : i <= j
    BY <1>3, <1>5, SmallestExists
  <2>2. (CHOOSE k \in hits : \A j \in hits : k <= j) = i
    BY <1>3, <2>1, SmallestChosen
  <2>3. i \in Stops(inner, ref, 1) /\ \A j \in Stops(inner, ref, 1) : i <= j
    BY <1>2, <1>3, <2>1
  <2>4. StopFrom(inner, ref, 1) = i
    BY <1>3, <2>3, SmallestChosen DEF StopFrom
  <2> QED
    BY <1>5, <2>2, <2>4 DEF hits
<1> QED
  BY <1>4, <1>5

LEMMA PreviousIsLoop ==
    ASSUME NEW lg, lg.inner \in Seq(Entry), NEW ref
    PROVE  GetPreviousEntry(lg, ref) = PreviousLoop(lg.inner, ref)
<1> DEFINE inner == lg.inner
           n == Len(inner)
           Seen(i) == IF i = 1 THEN [index |-> 0, term |-> 1]
                      ELSE [index |-> inner[i - 1].index, term |-> inner[i - 1].term]
           Body(g) == [i \in 1..(n + 1) |->
                          IF i > n THEN Seen(i)
                          ELSE IF inner[i].index = ref THEN Seen(i) ELSE g[i + 1]]
           h == [i \in 1..(n + 1) |-> Seen(StopFrom(inner, ref, i))]
           f == CHOOSE g : g = Body(g)
<1>1. n \in Nat /\ n + 1 \in Nat \ {0}
  BY InnerTypes
<1>2. ASSUME NEW i \in 1..(n + 1)
      PROVE  h[i] = Body(h)[i]
  <2>1. h[i] = Seen(StopFrom(inner, ref, i))
    BY Zenon
  <2>2. CASE i > n \/ inner[i].index = ref
    <3>1. StopFrom(inner, ref, i) = i
      BY <2>2, StopAtHit
    <3>2. Body(h)[i] = Seen(i)
      <4> HIDE DEF h, Seen
      <4> QED
        BY <2>2
    <3> HIDE DEF h, Body, Seen
    <3> QED
      BY <2>1, <3>1, <3>2
  <2>3. CASE ~(i > n \/ inner[i].index = ref)
    <3>1. StopFrom(inner, ref, i) = StopFrom(inner, ref, i + 1)
      BY <2>3, StopAtHit
    <3>2. i + 1 \in 1..(n + 1)
      BY <1>1, <2>3
    <3>3. h[i + 1] = Seen(StopFrom(inner, ref, i + 1))
      BY <3>2, Zenon
    <3>4. Body(h)[i] = h[i + 1]
      <4> HIDE DEF h, Seen
      <4> QED
        BY <2>3
    <3> HIDE DEF h, Body, Seen
    <3> QED
      BY <2>1, <3>1, <3>3, <3>4
  <2> QED
    BY <2>2, <2>3
<1>3. h = Body(h)
  <2>1. \A i \in 1..(n + 1) : h[i] = Body(h)[i]
    BY <1>2
  <2> HIDE DEF Seen
  <2> QED
    BY <2>1
<1>4. f = Body(f)
  <2> HIDE DEF h, Body
  <2> QED
    BY <1>3
<1>5. f[1] = h[1]
  <2> HIDE DEF f
  <2>1. ASSUME NEW i \in 1..(n + 1), i > n \/ f[i + 1] = h[i + 1]
        PROVE  f[i] = h[i]
    <3>1. f[i] = Body(f)[i] /\ h[i] = Body(h)[i]
      <4> HIDE DEF h, Body
      <4> QED
        BY <1>3, <1>4
    <3>2. Body(f)[i] = Body(h)[i]
      <4> HIDE DEF h, Seen
      <4> QED
        BY <2>1
    <3> HIDE DEF h, Body
    <3> QED
      BY <3>1, <3>2
  <2> HIDE DEF h, Body
  <2>2. f[n + 1] = h[n + 1]
    <3>1. n + 1 \in 1..(n + 1) /\ n + 1 > n
      BY <1>1
    <3> QED
      BY <2>1, <3>1
  <2> DEFINE m == n + 1
  <2>3. \A i \in 1..m : i < m /\ f[i + 1] = h[i + 1] => f[i] = h[i]
    BY <2>1
  <2>4. m \in Nat \ {0} /\ f[m] = h[m]
    BY <1>1, <2>2
  <2> HIDE DEF m, f
  <2> QED
    BY <2>3, <2>4, AgreeDownwards
<1>6. PreviousLoop(inner, ref) = f[1]
  BY DEF PreviousLoop
<1>7. h[1] = Seen(StopFrom(inner, ref, 1))
  BY <1>1
<1>8. GetPreviousEntry(lg, ref) = Seen(StopFrom(inner, ref, 1))
  <2>1. DOMAIN inner = 1..n
    BY InnerTypes
  <2> DEFINE hits == {i \in 1..n : inner[i].index = ref}
             stop == IF hits = {} THEN n + 1
                     ELSE CHOOSE i \in hits : \A j \in hits : i <= j
  <2>2. GetPreviousEntry(lg, ref) = Seen(stop)
    BY <2>1 DEF GetPreviousEntry
  <2>3. stop = StopFrom(inner, ref, 1)
    BY StopIsFirstHit
  <2> HIDE DEF stop, Seen
  <2> QED
    BY <2>2, <2>3
<1> HIDE DEF f, h, Seen
<1> QED
  BY <1>5, <1>6, <1>7, <1>8

(***************************************************************************)
(* read_entries_from: the entries found up to i, cut at max.               *)
(***************************************************************************)
Cut(s, max) == SubSeq(s, 1, IF Len(s) < max THEN Len(s) ELSE max)

LEMMA CutGrows ==
    ASSUME NEW s \in Seq(Entry), NEW e \in Entry, NEW max \in Nat \ {0}
    PROVE  Cut(Append(s, e), max)
              = IF Cut(s, max) # << >> /\ Len(Cut(s, max)) >= max
                THEN Cut(s, max) ELSE Append(Cut(s, max), e)
<1> DEFINE t == Append(s, e)
<1>1. /\ Len(s) \in Nat /\ t \in Seq(Entry) /\ Len(t) = Len(s) + 1
      /\ \A i \in 1..Len(s) : t[i] = s[i] /\ s[i] \in Entry
  BY LenProperties, AppendProperties, ElementOfSeq
<1> HIDE DEF t
<1>2. CASE Len(s) < max
  <2>1. Cut(s, max) = s
    BY <1>2, SubSeqFull DEF Cut
  <2>2. (IF Len(t) < max THEN Len(t) ELSE max) = Len(t)
    BY <1>1, <1>2
  <2>3. Cut(t, max) = t
    BY <1>1, <2>2, SubSeqFull DEF Cut
  <2>4. ~(Len(s) >= max)
    BY <1>1, <1>2
  <2> QED
    BY <2>1, <2>3, <2>4 DEF t
<1>3. CASE ~(Len(s) < max)
  <2>1. Cut(s, max) = SubSeq(s, 1, max) /\ Cut(t, max) = SubSeq(t, 1, max)
    BY <1>1, <1>3 DEF Cut
  <2>2. \A i \in 1..max : s[i] \in Entry /\ t[i] = s[i] /\ t[i] \in Entry
    BY <1>1, <1>3
  <2>3. 1 \in Int /\ max \in Int /\ 1 <= max /\ max - 1 + 1 = max
    OBVIOUS
  <2>4. /\ SubSeq(s, 1, max) \in Seq(Entry) /\ Len(SubSeq(s, 1, max)) = max
        /\ \A i \in 1..max : SubSeq(s, 1, max)[i] = s[1 + i - 1]
    BY <2>2, <2>3, SubSeqProperties
  <2>5. /\ SubSeq(t, 1, max) \in Seq(Entry) /\ Len(SubSeq(t, 1, max)) = max
        /\ \A i \in 1..max : SubSeq(t, 1, max)[i] = t[1 + i - 1]
    BY <2>2, <2>3, SubSeqProperties
  <2>6. \A i \in 1..max : 1 + i - 1 = i
    OBVIOUS
  <2>7. \A i \in 1..max : SubSeq(t, 1, max)[i] = SubSeq(s, 1, max)[i]
    BY <2>2, <2>4, <2>5, <2>6
  <2>8. SubSeq(t, 1, max) = SubSeq(s, 1, max)
    BY <2>4, <2>5, <2>7, SeqEqual
  <2>9. SubSeq(s, 1, max) # << >>
    BY <2>3, <2>4, EmptySeq
  <2>10. Cut(t, max) = Cut(s, max) /\ Cut(s, max) # << >> /\ Len(Cut(s, max)) >= max
    BY <2>1, <2>4, <2>8, <2>9
  <2> QED
    BY <2>10 DEF t
<1> QED
  BY <1>2, <1>3

LEMMA ReadIsLoop ==
    ASSUME NEW lg, lg.inner \in Seq(Entry), NEW index \in Nat, NEW max \in Nat \ {0}
    PROVE  ReadEntriesFrom(lg, index, max) = ReadLoop(lg.inner, index, max)
<1> DEFINE inner == lg.inner
           n == Len(inner)
           K == {i \in 1..n : inner[i].index > index}
           Body(g) == [i \in 0..n |->
                          IF i = 0 THEN << >>
                          ELSE IF \/ inner[i].index <= index
                                  \/ g[i - 1] # << >> /\ Len(g[i - 1]) >= max
                          THEN g[i - 1] ELSE Append(g[i - 1], inner[i])]
           h == [i \in 0..n |-> Cut(SubSeqAt(inner, Upto(K, i)), max)]
           f == CHOOSE g : g = Body(g)
<1>1. n \in Nat /\ \A i \in 1..n : inner[i] \in Entry /\ inner[i].index \in Nat
  BY InnerTypes
<1>2. K \in SUBSET (1..Len(inner))
  OBVIOUS
<1>3. h[0] = << >> /\ h[n] = Cut(SubSeqAt(inner, K), max)
  <2>1. SubSeqAt(inner, Upto(K, 0)) = << >> /\ Upto(K, n) = K
    BY <1>2, UptoNone
  <2>2. Cut(<< >>, max) = << >>
    BY DEF Cut
  <2>3. 0 \in 0..n /\ n \in 0..n
    BY <1>1
  <2> HIDE DEF K
  <2> QED
    BY <2>1, <2>2, <2>3
<1>4. ASSUME NEW i \in 1..n
      PROVE  i \in K <=> ~(inner[i].index <= index)
  BY <1>1
<1>5. h = Body(h)
  <2>1. ASSUME NEW i \in 1..n
        PROVE  h[i] = Body(h)[i]
    <3> HIDE DEF K
    <3>1. i - 1 \in 0..n /\ i \in 0..n /\ i # 0
      BY <1>1
    <3>2. /\ h[i] = Cut(SubSeqAt(inner, Upto(K, i)), max)
          /\ h[i - 1] = Cut(SubSeqAt(inner, Upto(K, i - 1)), max)
      BY <3>1
    <3>3. Body(h)[i] = IF \/ inner[i].index <= index
                          \/ h[i - 1] # << >> /\ Len(h[i - 1]) >= max
                       THEN h[i - 1] ELSE Append(h[i - 1], inner[i])
      <4> HIDE DEF h
      <4> QED
        BY <3>1
    <3>4. CASE i \notin K
      <4>1. h[i] = h[i - 1]
        BY <1>2, <3>2, <3>4, UptoGrows
      <4> HIDE DEF h, Body
      <4> QED
        BY <1>4, <3>3, <3>4, <4>1
    <3>5. CASE i \in K
      <4> DEFINE s == SubSeqAt(inner, Upto(K, i - 1))
      <4>1. s \in Seq(Entry)
        <5>1. Upto(K, i - 1) \in SUBSET DOMAIN inner
          BY <1>2, InnerTypes DEF Upto
        <5> QED
          BY <5>1, SubSeqAtType
      <4>2. SubSeqAt(inner, Upto(K, i)) = Append(s, inner[i])
        BY <1>2, <3>5, UptoGrows
      <4> HIDE DEF s
      <4>3. inner[i] \in Entry
        BY <1>1
      <4>4. h[i - 1] = Cut(s, max) /\ h[i] = Cut(Append(s, inner[i]), max)
        BY <3>2, <4>2 DEF s
      <4> HIDE DEF h, Body
      <4>5. h[i] = IF h[i - 1] # << >> /\ Len(h[i - 1]) >= max
                   THEN h[i - 1] ELSE Append(h[i - 1], inner[i])
        <5>1. Cut(Append(s, inner[i]), max)
                = IF Cut(s, max) # << >> /\ Len(Cut(s, max)) >= max
                  THEN Cut(s, max) ELSE Append(Cut(s, max), inner[i])
          <6> HIDE DEF inner
          <6> QED
            BY <4>1, <4>3, CutGrows
        <5> QED
          BY <4>4, <5>1
      <4> QED
        BY <1>4, <3>3, <3>5, <4>5
    <3> QED
      BY <3>4, <3>5
  <2>2. h[0] = Body(h)[0]
    <3> HIDE DEF h
    <3> QED
      BY <1>1, <1>3
  <2>3. \A i \in 0..n : h[i] = Body(h)[i]
    <3> HIDE DEF h, Body
    <3> QED
      BY <1>1, <2>1, <2>2
  <2> QED
    BY <2>3
<1>6. f = Body(f)
  <2> HIDE DEF h, Body
  <2> QED
    BY <1>5
<1>7. f[n] = h[n]
  <2> HIDE DEF f
  <2>1. f[0] = << >>
    BY <1>1, <1>6
  <2>2. ASSUME NEW i \in 1..n, f[i - 1] = h[i - 1]
        PROVE  f[i] = h[i]
    <3>1. f[i] = Body(f)[i] /\ h[i] = Body(h)[i]
      <4> HIDE DEF h, Body
      <4> QED
        BY <1>5, <1>6
    <3>2. Body(f)[i] = Body(h)[i]
      <4> HIDE DEF h
      <4> QED
        BY <2>2
    <3> HIDE DEF h, Body
    <3> QED
      BY <3>1, <3>2
  <2> HIDE DEF h, Body
  <2>3. f[0] = h[0]
    BY <1>3, <2>1
  <2>4. n \in Nat
    BY <1>1
  <2> HIDE DEF n
  <2> QED
    BY <2>2, <2>3, <2>4, AgreeUpwards
<1>8. ReadLoop(inner, index, max) = f[n]
  BY DEF ReadLoop
<1>9. ReadEntriesFrom(lg, index, max) = Cut(SubSeqAt(inner, K), max)
  <2>1. DOMAIN inner = 1..n
    BY InnerTypes
  <2> QED
    BY <2>1 DEF ReadEntriesFrom, Cut
<1> HIDE DEF f, h, K
<1> QED
  BY <1>3, <1>7, <1>8, <1>9

(***************************************************************************)
(* The logs of the specification.                                          *)
(***************************************************************************)
Fitting == log \in Log /\ Len(log.inner) <= MaxLen

LEMMA FittingHolds == Spec => []Fitting
<1>1. Init => Fitting
  BY LogOpsAssumption DEF Init, EmptyLog, Fitting, Log
<1>2. Fitting /\ [Next]_log => Fitting'
  <2> SUFFICES ASSUME Fitting, [Next]_log
               PROVE  Fitting'
    OBVIOUS
  <2>1. Entries \subseteq Entry /\ log.inner \in Seq(Entry)
    BY LogOpsAssumption DEF Entries, Entry, Payload, Fitting, Log
  <2>2. ASSUME NEW batch \in Seq(Entry), batch # << >>, Fits(Len(batch)),
               log' = AppendBatch(log, batch)
        PROVE  Fitting'
    <3>1. log.inner \o batch \in Seq(Entry)
          /\ Len(log.inner \o batch) = Len(log.inner) + Len(batch)
      BY <2>1, ConcatProperties
    <3>2. batch[Len(batch)] \in Entry
      BY <2>2, EmptySeq, LenProperties, ElementOfSeq
    <3>3. batch[Len(batch)].index \in Nat /\ batch[Len(batch)].term \in Nat
      BY <3>2 DEF Entry
    <3> QED
      BY <2>2, <3>1, <3>3 DEF AppendBatch, Fitting, Fits, Log
  <2>3. CASE AddOne
    <3>1. PICK e \in Entries : log' = AddEach(log, <<e>>)
      BY <2>3 DEF AddOne
    <3>2. <<e>> \in Seq(Entry) /\ <<e>> # << >> /\ Len(<<e>>) = 1
      BY <2>1
    <3> QED
      BY <2>2, <2>3, <3>1, <3>2 DEF AddOne, AddEach
  <2>4. CASE AppendTwo
    <3>1. PICK d \in Entries, e \in Entries : log' = AppendBatch(log, <<d, e>>)
      BY <2>4 DEF AppendTwo
    <3>2. <<d, e>> \in Seq(Entry) /\ <<d, e>> # << >> /\ Len(<<d, e>>) = 2
      BY <2>1
    <3> QED
      BY <2>2, <2>4, <3>1, <3>2 DEF AppendTwo
  <2>5. CASE Remove
    <3>1. PICK i \in Indices, t \in Terms :
                  log' = RemoveUncommittedEntriesFrom(log, i, t)
      BY <2>5 DEF Remove
    <3> DEFINE K == {k \in DOMAIN log.inner : \/ log.inner[k].index < i
                                              \/ log.inner[k].term = t}
    <3>2. log' = [log EXCEPT !.inner = SubSeqAt(log.inner, K)]
      BY <3>1 DEF RemoveUncommittedEntriesFrom
    <3>3. K \in SUBSET DOMAIN log.inner
      OBVIOUS
    <3> HIDE DEF K
    <3>4. SubSeqAt(log.inner, K) \in Seq(Entry)
          /\ Len(SubSeqAt(log.inner, K)) <= Len(log.inner)
      BY <2>1, <3>3, SubSeqAtShorter
    <3>5. log' \in Log /\ log'.inner = SubSeqAt(log.inner, K)
      BY <3>2, <3>4 DEF Fitting, Log
    <3>6. Len(log.inner) \in Nat /\ Len(SubSeqAt(log.inner, K)) \in Nat
      BY <2>1, <3>4, LenProperties
    <3> QED
      BY <3>4, <3>5, <3>6, LogOpsAssumption DEF Fitting
  <2>6. CASE UNCHANGED log
    BY <2>6 DEF Fitting
  <2> QED
    BY <2>3, <2>4, <2>5, <2>6 DEF Next
<1> QED
  BY <1>1, <1>2, PTL DEF Spec

\* Entries::contains_log finds what its loop finds, in every log.
THEOREM ContainsFindsAsLoop == Spec => []ContainsAsLoop
<1>1. Fitting => ContainsAsLoop
  <2> SUFFICES ASSUME Fitting, NEW i \in Indices \cup {0}, NEW t \in Terms
               PROVE  ContainsLog(log, i, t) <=>
                         (i = 0 /\ log.inner = << >>) \/ ContainsLoop(log.inner, i, t)
    BY DEF ContainsAsLoop
  <2>1. i \in Nat /\ log.inner \in Seq(Entry)
    BY LogOpsAssumption DEF Fitting, Log
  <2>2. DOMAIN log.inner = 1..Len(log.inner)
    BY <2>1, InnerTypes
  <2> QED
    BY <2>1, <2>2, ContainsIsLoop, SMTT(30) DEF ContainsLog
<1> QED
  BY <1>1, FittingHolds, PTL

\* Entries::remove_uncommitted_entries_from keeps what its closure retains.
THEOREM RemoveRetainsAsLoop == Spec => []RemoveAsLoop
<1>1. Fitting => RemoveAsLoop
  <2> SUFFICES ASSUME Fitting, NEW i \in Indices, NEW t \in Terms
               PROVE  RemoveUncommittedEntriesFrom(log, i, t).inner
                         = RetainLoop(log.inner, i, t)
    BY DEF RemoveAsLoop
  <2>1. i \in Nat /\ log.inner \in Seq(Entry)
    BY LogOpsAssumption DEF Fitting, Log
  <2>2. DOMAIN log.inner = 1..Len(log.inner)
    BY <2>1, InnerTypes
  <2> QED
    BY <2>1, <2>2, RetainIsLoop DEF RemoveUncommittedEntriesFrom, Fitting, Log
<1> QED
  BY <1>1, FittingHolds, PTL

\* Entries::get_previous_entry returns what its loop saw last.
THEOREM PreviousSeenAsLoop == Spec => []PreviousAsLoop
<1>1. Fitting => PreviousAsLoop
  BY PreviousIsLoop DEF Fitting, Log, PreviousAsLoop
<1> QED
  BY <1>1, FittingHolds, PTL

\* Entries::read_entries_from returns the batch of its loop.
THEOREM ReadCollectsAsLoop == Spec => []ReadAsLoop
<1>1. Fitting => ReadAsLoop
  <2> SUFFICES ASSUME Fitting, NEW i \in Indices \cup {0}, NEW max \in 1..MaxLen
               PROVE  ReadEntriesFrom(log, i, max) = ReadLoop(log.inner, i, max)
    BY DEF ReadAsLoop
  <2>1. i \in Nat /\ max \in Nat \ {0} /\ log.inner \in Seq(Entry)
    BY LogOpsAssumption DEF Fitting, Log
  <2> QED
    BY <2>1, ReadIsLoop
<1> QED
  BY <1>1, FittingHolds, PTL

\* Seeds::send_append_entries: the batch starts at next, and the reference
\* point is one that the log of the leader contains.
THEOREM BatchStartsRight == Spec => []BatchStartsAtNext
<1>1. Fitting => BatchStartsAtNext
  <2> DEFINE inner == log.inner
             n == Len(inner)
  <2> SUFFICES ASSUME Fitting, \A i \in DOMAIN inner : inner[i].index = i,
                      NEW next \in 1..(n + 1)
               PROVE  LET prev == GetPreviousEntry(log, next)
                      IN  /\ prev.index = next - 1
                          /\ next > 1 => ContainsLog(log, prev.index, prev.term)
                          /\ ReadEntriesFrom(log, prev.index, MaxLen)
                                = SubSeq(inner, next, n)
    BY DEF BatchStartsAtNext
  <2>1. inner \in Seq(Entry) /\ n <= MaxLen
    BY DEF Fitting, Log
  <2>2. n \in Nat /\ DOMAIN inner = 1..n
    BY <2>1, InnerTypes
  <2> DEFINE hits == {i \in DOMAIN inner : inner[i].index = next}
             stop == IF hits = {} THEN n + 1
                     ELSE CHOOSE i \in hits : \A j \in hits : i <= j
             prev == GetPreviousEntry(log, next)
  <2>3. stop = next
    <3>1. hits = {i \in 1..n : i = next}
      BY <2>2
    <3> HIDE DEF hits
    <3>2. CASE next = n + 1
      <4>1. hits = {}
        BY <2>2, <3>1, <3>2
      <4> QED
        BY <3>2, <4>1
    <3>3. CASE next # n + 1
      <4>1. hits = {next}
        BY <2>2, <3>1, <3>3
      <4>2. stop = CHOOSE i \in hits : \A j \in hits : i <= j
        BY <4>1
      <4>3. next \in Nat /\ hits \in SUBSET Nat /\ next \in hits
            /\ \A j \in hits : next <= j
        BY <2>2, <4>1
      <4> QED
        BY <4>2, <4>3, SmallestChosen
    <3> QED
      BY <3>2, <3>3
  <2>4. prev = IF stop = 1 THEN [index |-> 0, term |-> 1]
               ELSE [index |-> inner[stop - 1].index, term |-> inner[stop - 1].term]
    BY DEF GetPreviousEntry
  <2> HIDE DEF stop, prev
  <2>5. prev.index = next - 1
    <3>1. next # 1 => next - 1 \in DOMAIN inner
      BY <2>2
    <3> QED
      BY <2>2, <2>3, <2>4, <3>1
  <2>6. ASSUME next > 1
        PROVE  ContainsLog(log, prev.index, prev.term)
    <3>1. next - 1 \in 1..n /\ next # 1
      BY <2>2, <2>6
    <3>2. inner[next - 1].index = prev.index /\ inner[next - 1].term = prev.term
      BY <2>2, <2>3, <2>4, <2>5, <3>1
    <3>3. \A j \in 1..(next - 1 - 1) : inner[j].index <= prev.index
      <4>1. \A j \in 1..(next - 1 - 1) : j \in 1..n /\ j <= next - 1
        BY <2>2
      <4> QED
        BY <2>2, <2>5, <4>1
    <3> QED
      BY <2>2, <3>1, <3>2, <3>3 DEF ContainsLog
  <2>7. ReadEntriesFrom(log, prev.index, MaxLen) = SubSeq(inner, next, n)
    <3> DEFINE K == {i \in DOMAIN inner : inner[i].index > prev.index}
               found == SubSeqAt(inner, K)
    <3>1. K = ((next - 1) + 1)..n
      BY <2>2, <2>5
    <3>2. next - 1 \in 0..n /\ (next - 1) + 1 = next
      BY <2>2
    <3>3. SubSeqAt(inner, ((next - 1) + 1)..n) = SubSeq(inner, (next - 1) + 1, n)
      <4> DEFINE a == next - 1
      <4>1. a \in 0..Len(inner)
        BY <3>2
      <4> HIDE DEF a
      <4>2. SubSeqAt(inner, (a + 1)..Len(inner)) = SubSeq(inner, a + 1, Len(inner))
        BY <2>1, <4>1, SubSeqAtStretch
      <4> QED
        BY <4>2 DEF a
    <3>4. found = SubSeq(inner, next, n)
      BY <3>1, <3>2, <3>3
    <3>5. found \in Seq(Entry) /\ Len(found) <= n
      <4>1. K \in SUBSET DOMAIN inner
        OBVIOUS
      <4> HIDE DEF K
      <4> QED
        BY <2>1, <4>1, SubSeqAtShorter
    <3> HIDE DEF found
    <3>6. (IF Len(found) < MaxLen THEN Len(found) ELSE MaxLen) = Len(found)
      BY <2>1, <2>2, <3>5, LenProperties, LogOpsAssumption
    <3>7. ReadEntriesFrom(log, prev.index, MaxLen) = SubSeq(found, 1, Len(found))
      BY <3>6 DEF ReadEntriesFrom, found
    <3> QED
      BY <3>4, <3>5, <3>7, SubSeqFull
  <2> QED
    BY <2>5, <2>6, <2>7 DEF prev
<1> QED
  BY <1>1, FittingHolds, PTL

=============================================================================
