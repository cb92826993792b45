--------------------------- MODULE TerminalProofs ---------------------------
(***************************************************************************)
(* Proofs about the prompt, the history file, the popup and the streams,   *)
(* for any lines, any number of entries, commands, events and restarts.    *)
(***************************************************************************)
EXTENDS TerminalProperties, PositionsProofs

(***************************************************************************)
(* Flattening a sequence of sequences.  FlattenSeq is a recursive          *)
(* function, of which a first part is one for the first sequences.         *)
(***************************************************************************)
FlattensTo(q, n, f) == f = [i \in 1..n |-> IF i = 1 THEN q[i] ELSE f[i - 1] \o q[i]]

LEMMA FlattenExists ==
    ASSUME NEW S, NEW q \in Seq(Seq(S)), NEW n \in 1..Len(q)
    PROVE  \E f : FlattensTo(q, n, f) /\ f[n] \in Seq(S)
<1> DEFINE K == {k \in Nat : k + 1 <= Len(q) =>
                    \E f : FlattensTo(q, k + 1, f) /\ f[k + 1] \in Seq(S)}
<1>1. Len(q) \in Nat /\ \A i \in 1..Len(q) : q[i] \in Seq(S)
  BY LenProperties, ElementOfSeq
<1>2. 0 \in K
  <2>1. FlattensTo(q, 0 + 1, [i \in 1..1 |-> q[i]])
    BY DEF FlattensTo
  <2>2. 0 + 1 <= Len(q) => [i \in 1..1 |-> q[i]][0 + 1] \in Seq(S)
    BY <1>1
  <2> QED
    BY <2>1, <2>2
<1>3. ASSUME NEW k \in Nat, k \in K
      PROVE  k + 1 \in K
  <2> SUFFICES ASSUME k + 2 <= Len(q)
               PROVE  \E f : FlattensTo(q, k + 2, f) /\ f[k + 2] \in Seq(S)
    <3>1. (k + 1) + 1 = k + 2
      OBVIOUS
    <3> QED
      BY <3>1
  <2>1. PICK f : FlattensTo(q, k + 1, f) /\ f[k + 1] \in Seq(S)
    BY <1>1, <1>3
  <2> DEFINE g == [i \in 1..(k + 2) |-> IF i = k + 2 THEN f[k + 1] \o q[i] ELSE f[i]]
  <2>2. ASSUME NEW i \in 1..(k + 2)
        PROVE  g[i] = IF i = 1 THEN q[i] ELSE g[i - 1] \o q[i]
    <3>1. CASE i = k + 2
      <4>1. i # 1 /\ i - 1 = k + 1 /\ i - 1 \in 1..(k + 2) /\ i - 1 # k + 2
        BY <3>1
      <4> QED
        BY <3>1, <4>1
    <3>2. CASE i # k + 2
      <4>1. i \in 1..(k + 1) /\ (i # 1 => i - 1 \in 1..(k + 2) /\ i - 1 # k + 2)
        BY <3>2
      <4>2. f[i] = IF i = 1 THEN q[i] ELSE f[i - 1] \o q[i]
        BY <2>1, <4>1 DEF FlattensTo
      <4> QED
        BY <3>2, <4>1, <4>2
    <3> QED
      BY <3>1, <3>2
  <2>3. FlattensTo(q, k + 2, g)
    <3>1. g = [i \in 1..(k + 2) |-> g[i]]
      OBVIOUS
    <3> HIDE DEF g
    <3>2. g = [i \in 1..(k + 2) |-> IF i = 1 THEN q[i] ELSE g[i - 1] \o q[i]]
      BY <2>2, <3>1
    <3> QED
      BY <3>2 DEF FlattensTo
  <2>4. g[k + 2] = f[k + 1] \o q[k + 2] /\ q[k + 2] \in Seq(S)
    <3>1. k + 2 \in 1..Len(q) /\ k + 2 \in 1..(k + 2)
      BY <1>1
    <3> QED
      BY <1>1, <3>1
  <2>5. g[k + 2] \in Seq(S)
    BY <2>1, <2>4, ConcatProperties
  <2> HIDE DEF g
  <2> QED
    BY <2>3, <2>5
<1>4. Nat \subseteq K
  <2> HIDE DEF K
  <2> QED
    BY <1>2, <1>3, SetInduction
<1>5. n - 1 \in Nat /\ (n - 1) + 1 = n /\ n <= Len(q)
  BY <1>1
<1>6. n - 1 \in K
  BY <1>4, <1>5
<1> QED
  BY <1>5, <1>6

LEMMA FlattenUnique ==
    ASSUME NEW q, NEW r, NEW n \in Nat \ {0}, NEW m \in Nat, NEW f, NEW g,
           n <= m, FlattensTo(q, n, f), FlattensTo(r, m, g),
           \A i \in 1..n : r[i] = q[i]
    PROVE  f[n] = g[n]
<1> DEFINE k == n - 1
           ff == [i \in 0..k |-> f[i + 1]]
           gg == [i \in 0..k |-> g[i + 1]]
<1>1. ff[0] = gg[0]
  BY DEF FlattensTo
<1>2. ASSUME NEW i \in 1..k, ff[i - 1] = gg[i - 1]
      PROVE  ff[i] = gg[i]
  <2>1. i + 1 \in 1..n /\ i + 1 \in 1..m /\ i + 1 # 1 /\ (i + 1) - 1 = i
        /\ i - 1 \in 0..k /\ (i - 1) + 1 = i /\ i \in 0..k
    OBVIOUS
  <2>2. f[i + 1] = f[i] \o q[i + 1] /\ g[i + 1] = g[i] \o r[i + 1]
    <3>1. /\ \A j \in 1..n : f[j] = IF j = 1 THEN q[j] ELSE f[j - 1] \o q[j]
          /\ \A j \in 1..m : g[j] = IF j = 1 THEN r[j] ELSE g[j - 1] \o r[j]
      BY Zenon DEF FlattensTo
    <3>2. /\ f[i + 1] = f[(i + 1) - 1] \o q[i + 1]
          /\ g[i + 1] = g[(i + 1) - 1] \o r[i + 1]
      BY <2>1, <3>1, Zenon
    <3> QED
      BY <2>1, <3>2, Zenon
  <2>3. f[i] = g[i]
    BY <1>2, <2>1
  <2> QED
    BY <2>1, <2>2, <2>3
<1>3. ff[k] = gg[k]
  <2>1. k \in Nat
    OBVIOUS
  <2> HIDE DEF k, ff, gg
  <2> QED
    BY <1>1, <1>2, <2>1, AgreeUpwards
<1>4. k \in 0..k /\ k + 1 = n
  OBVIOUS
<1> QED
  BY <1>3, <1>4

LEMMA FlattenIs ==
    ASSUME NEW S, NEW q \in Seq(Seq(S)), q # << >>
    PROVE  \E f : FlattensTo(q, Len(q), f) /\ FlattenSeq(q) = f[Len(q)]
<1> DEFINE n == Len(q)
           g == CHOOSE f : f = [i \in 1..n |-> IF i = 1 THEN q[i] ELSE f[i - 1] \o q[i]]
<1>1. n \in Nat \ {0}
  BY EmptySeq
<1>2. \E f : FlattensTo(q, n, f)
  BY <1>1, FlattenExists
<1>3. FlattensTo(q, n, g)
  <2>1. \E f : f = [i \in 1..n |-> IF i = 1 THEN q[i] ELSE f[i - 1] \o q[i]]
    BY <1>2 DEF FlattensTo
  <2>2. g = [i \in 1..n |-> IF i = 1 THEN q[i] ELSE g[i - 1] \o q[i]]
    BY <2>1
  <2> HIDE DEF g
  <2> QED
    BY <2>2 DEF FlattensTo
<1>4. FlattenSeq(q) = g[n]
  BY <1>1 DEF FlattenSeq
<1> HIDE DEF g
<1> QED
  BY <1>3, <1>4

LEMMA FlattenNothing == FlattenSeq(<< >>) = << >>
BY DEF FlattenSeq

LEMMA FlattenType ==
    ASSUME NEW S, NEW q \in Seq(Seq(S))
    PROVE  FlattenSeq(q) \in Seq(S)
<1>1. CASE q = << >>
  BY <1>1, FlattenNothing, EmptySeq
<1>2. CASE q # << >>
  <2>1. Len(q) \in Nat \ {0}
    BY <1>2, EmptySeq
  <2>2. PICK f : FlattensTo(q, Len(q), f) /\ FlattenSeq(q) = f[Len(q)]
    BY <1>2, FlattenIs
  <2>3. PICK g : FlattensTo(q, Len(q), g) /\ g[Len(q)] \in Seq(S)
    BY <2>1, FlattenExists
  <2>4. f[Len(q)] = g[Len(q)]
    BY <2>1, <2>2, <2>3, FlattenUnique
  <2> QED
    BY <2>2, <2>3, <2>4
<1> QED
  BY <1>1, <1>2

LEMMA FlattenAppend ==
    ASSUME NEW S, NEW q \in Seq(Seq(S)), NEW s \in Seq(S)
    PROVE  FlattenSeq(Append(q, s)) = FlattenSeq(q) \o s
<1> DEFINE r == Append(q, s)
           n == Len(q)
<1>1. /\ r \in Seq(Seq(S)) /\ r # << >> /\ Len(r) = n + 1 /\ r[n + 1] = s
      /\ \A i \in 1..n : r[i] = q[i]
  BY AppendProperties
<1>2. n \in Nat
  BY LenProperties
<1>3. PICK g : FlattensTo(r, n + 1, g) /\ FlattenSeq(r) = g[n + 1]
  BY <1>1, FlattenIs
<1> HIDE DEF r
<1>4. g[n + 1] = IF n + 1 = 1 THEN r[n + 1] ELSE g[n] \o r[n + 1]
  <2>1. n + 1 \in 1..(n + 1) /\ (n + 1) - 1 = n
    BY <1>2
  <2> QED
    BY <1>3, <2>1 DEF FlattensTo
<1>5. CASE q = << >>
  <2>1. n = 0
    BY <1>5
  <2>2. FlattenSeq(r) = s
    BY <1>1, <1>3, <1>4, <2>1
  <2>3. FlattenSeq(q) \o s = s
    BY <1>5, FlattenNothing, ConcatEmptySeq
  <2> QED
    BY <2>2, <2>3 DEF r
<1>6. CASE q # << >>
  <2>1. n \in Nat \ {0} /\ n + 1 \in Nat /\ n <= n + 1
    BY <1>6, EmptySeq
  <2>2. PICK f : FlattensTo(q, n, f) /\ FlattenSeq(q) = f[n]
    BY <1>6, FlattenIs
  <2>3. f[n] = g[n]
    <3>1. \A i \in 1..n : r[i] = q[i]
      BY <1>1
    <3>2. FlattensTo(q, n, f) /\ FlattensTo(r, n + 1, g)
      BY <1>3, <2>2
    <3> DEFINE m == n + 1
    <3> HIDE DEF n, m
    <3>3. FlattensTo(r, m, g) /\ n <= m /\ m \in Nat
      BY <2>1, <3>2 DEF m
    <3> QED
      BY <2>1, <3>1, <3>2, <3>3, FlattenUnique
  <2>4. n + 1 # 1
    BY <2>1
  <2> QED
    BY <1>1, <1>3, <1>4, <2>2, <2>3, <2>4 DEF r
<1> QED
  BY <1>5, <1>6

(***************************************************************************)
(* Encoding.                                                               *)
(***************************************************************************)
LEMMA BytesOfType ==
    ASSUME NEW C, NEW c \in C
    PROVE  /\ BytesOf(c) \in Seq(C \X {1, 2})
           /\ Len(BytesOf(c)) = IF c \in Wide THEN 2 ELSE 1
           /\ BytesOf(c)[1] = <<c, 1>>
<1>1. <<c, 1>> \in C \X {1, 2} /\ <<c, 2>> \in C \X {1, 2}
  OBVIOUS
<1>2. CASE c \in Wide
  <2>1. BytesOf(c) = <<<<c, 1>>, <<c, 2>>>>
    BY <1>2 DEF BytesOf
  <2> QED
    BY <1>1, <1>2, <2>1
<1>3. CASE c \notin Wide
  <2>1. BytesOf(c) = <<<<c, 1>>>>
    BY <1>3 DEF BytesOf
  <2> QED
    BY <1>1, <1>3, <2>1
<1> QED
  BY <1>2, <1>3

LEMMA Utf8Nothing == Utf8(<< >>) = << >>
<1>1. [i \in DOMAIN << >> |-> BytesOf(<< >>[i])] = << >>
  OBVIOUS
<1> QED
  BY <1>1, FlattenNothing DEF Utf8

LEMMA Utf8Append ==
    ASSUME NEW C, NEW t \in Seq(C), NEW c \in C
    PROVE  /\ Utf8(t) \in Seq(C \X {1, 2})
           /\ Utf8(Append(t, c)) = Utf8(t) \o BytesOf(c)
<1> DEFINE B == Seq(C \X {1, 2})
           each == [i \in DOMAIN t |-> BytesOf(t[i])]
           u == Append(t, c)
           each2 == [i \in DOMAIN u |-> BytesOf(u[i])]
<1>1. Len(t) \in Nat /\ DOMAIN t = 1..Len(t) /\ \A i \in 1..Len(t) : t[i] \in C
  BY LenProperties, ElementOfSeq
<1>2. /\ u \in Seq(C) /\ Len(u) = Len(t) + 1 /\ u[Len(t) + 1] = c
      /\ \A i \in 1..Len(t) : u[i] = t[i]
  BY AppendProperties
<1>3. DOMAIN u = 1..(Len(t) + 1)
  BY <1>2, LenProperties
<1> HIDE DEF u
<1>4. \A i \in 1..Len(t) : BytesOf(t[i]) \in B
  BY <1>1, BytesOfType
<1>5. each \in Seq(B) /\ Len(each) = Len(t)
  <2>1. each = [i \in 1..Len(t) |-> BytesOf(t[i])]
    BY <1>1
  <2> HIDE DEF B
  <2> QED
    BY <1>1, <1>4, <2>1
<1>6. BytesOf(c) \in B
  BY BytesOfType
<1>7. each2 = Append(each, BytesOf(c))
  <2>1. /\ Append(each, BytesOf(c)) \in Seq(B)
        /\ Len(Append(each, BytesOf(c))) = Len(t) + 1
        /\ \A i \in 1..Len(t) : Append(each, BytesOf(c))[i] = each[i]
        /\ Append(each, BytesOf(c))[Len(t) + 1] = BytesOf(c)
    <3> HIDE DEF B, each
    <3> QED
      BY <1>5, <1>6, AppendProperties
  <2>2. \A i \in 1..(Len(t) + 1) : i \in 1..Len(t) \/ i = Len(t) + 1
    BY <1>1
  <2>3. \A i \in 1..(Len(t) + 1) : each2[i] = Append(each, BytesOf(c))[i]
    BY <1>1, <1>2, <1>3, <2>1, <2>2
  <2>4. each2 \in Seq(B) /\ Len(each2) = Len(t) + 1
    <3>1. each2 = [i \in 1..(Len(t) + 1) |-> BytesOf(u[i])]
      BY <1>3
    <3>2. \A i \in 1..(Len(t) + 1) : BytesOf(u[i]) \in B
      BY <1>1, <1>2, <1>4, <1>6, <2>2
    <3> HIDE DEF B
    <3> QED
      BY <1>1, <3>1, <3>2
  <2> HIDE DEF each, each2, B
  <2> QED
    BY <2>1, <2>3, <2>4, SeqEqual
<1>8. Utf8(t) = FlattenSeq(each) /\ Utf8(u) = FlattenSeq(each2)
  BY DEF Utf8
<1> HIDE DEF each, each2
<1>9. FlattenSeq(each) \in Seq(C \X {1, 2})
  BY <1>5, FlattenType
<1>10. FlattenSeq(Append(each, BytesOf(c))) = FlattenSeq(each) \o BytesOf(c)
  BY <1>5, <1>6, FlattenAppend
<1> QED
  BY <1>7, <1>8, <1>9, <1>10 DEF u

LEMMA Utf8Type ==
    ASSUME NEW C, NEW t \in Seq(C)
    PROVE  Utf8(t) \in Seq(C \X {1, 2})
<1>1. CASE t = << >>
  BY <1>1, Utf8Nothing, EmptySeq
<1>2. CASE t # << >>
  <2>1. PICK s \in Seq(C), c \in C : t = Append(s, c)
    BY <1>2, SequenceEmptyOrAppend
  <2>2. Utf8(s) \in Seq(C \X {1, 2}) /\ Utf8(t) = Utf8(s) \o BytesOf(c)
    BY <2>1, Utf8Append
  <2>3. BytesOf(c) \in Seq(C \X {1, 2})
    BY BytesOfType
  <2> QED
    BY <2>2, <2>3, ConcatProperties
<1> QED
  BY <1>1, <1>2

LEMMA ConcatAppend ==
    ASSUME NEW S, NEW s \in Seq(S), NEW t \in Seq(S), NEW e \in S
    PROVE  s \o Append(t, e) = Append(s \o t, e)
<1>1. <<e>> \in Seq(S) /\ s \o t \in Seq(S)
  BY ConcatProperties
<1>2. Append(t, e) = t \o <<e>> /\ Append(s \o t, e) = (s \o t) \o <<e>>
  BY <1>1, AppendIsConcat
<1> QED
  BY <1>1, <1>2, ConcatAssociative

LEMMA Utf8Concat ==
    ASSUME NEW C, NEW s \in Seq(C), NEW t \in Seq(C)
    PROVE  Utf8(s \o t) = Utf8(s) \o Utf8(t)
<1> DEFINE K == {x \in Seq(C) : Utf8(s \o x) = Utf8(s) \o Utf8(x)}
<1>1. << >> \in K
  <2>1. s \o << >> = s
    BY ConcatEmptySeq
  <2>2. Utf8(s) \o << >> = Utf8(s)
    BY Utf8Type, ConcatEmptySeq
  <2> QED
    BY <2>1, <2>2, Utf8Nothing, EmptySeq
<1>2. ASSUME NEW x \in Seq(C), NEW e \in C, x \in K
      PROVE  Append(x, e) \in K
  <2>1. s \o x \in Seq(C) /\ Append(x, e) \in Seq(C)
    BY ConcatProperties, AppendProperties
  <2>2. Utf8(s \o Append(x, e)) = Utf8(s \o x) \o BytesOf(e)
    <3>1. s \o Append(x, e) = Append(s \o x, e)
      BY ConcatAppend
    <3>2. Utf8(Append(s \o x, e)) = Utf8(s \o x) \o BytesOf(e)
      BY <2>1, Utf8Append
    <3> QED
      BY <3>1, <3>2
  <2>3. Utf8(Append(x, e)) = Utf8(x) \o BytesOf(e)
    BY Utf8Append
  <2>4. Utf8(s \o x) = Utf8(s) \o Utf8(x)
    BY <1>2
  <2>5. (Utf8(s) \o Utf8(x)) \o BytesOf(e) = Utf8(s) \o (Utf8(x) \o BytesOf(e))
    <3>1. /\ Utf8(s) \in Seq(C \X {1, 2}) /\ Utf8(x) \in Seq(C \X {1, 2})
          /\ BytesOf(e) \in Seq(C \X {1, 2})
      BY Utf8Type, BytesOfType
    <3> QED
      BY <3>1, ConcatAssociative, SMTT(30)
  <2> QED
    BY <2>1, <2>2, <2>3, <2>4, <2>5
<1>3. Seq(C) \subseteq K
  <2> HIDE DEF K
  <2> QED
    BY <1>1, <1>2, SeqInduction
<1> QED
  BY <1>3

\* A text has no more characters than bytes, and as many when none is wide.
LEMMA Utf8Length ==
    ASSUME NEW C, NEW t \in Seq(C)
    PROVE  /\ Len(Utf8(t)) >= Len(t)
           /\ (\A i \in 1..Len(t) : t[i] \notin Wide) =>
                 /\ Len(Utf8(t)) = Len(t)
                 /\ \A i \in 1..Len(t) : Utf8(t)[i] = <<t[i], 1>>
<1> DEFINE Narrow(x) == \A i \in 1..Len(x) : x[i] \notin Wide
           Plain(x) == /\ Len(Utf8(x)) = Len(x)
                       /\ \A i \in 1..Len(x) : Utf8(x)[i] = <<x[i], 1>>
           K == {x \in Seq(C) : Len(Utf8(x)) >= Len(x) /\ (Narrow(x) => Plain(x))}
<1>1. << >> \in K
  BY Utf8Nothing, EmptySeq
<1>2. ASSUME NEW x \in Seq(C), NEW e \in C, x \in K
      PROVE  Append(x, e) \in K
  <2> DEFINE y == Append(x, e)
             bytes == BytesOf(e)
  <2>1. /\ y \in Seq(C) /\ Len(y) = Len(x) + 1 /\ y[Len(x) + 1] = e
        /\ \A i \in 1..Len(x) : y[i] = x[i]
    BY AppendProperties
  <2> HIDE DEF y
  <2>2. Utf8(y) = Utf8(x) \o bytes
    BY Utf8Append DEF y
  <2>3. /\ Utf8(x) \in Seq(C \X {1, 2}) /\ bytes \in Seq(C \X {1, 2})
        /\ Len(bytes) = IF e \in Wide THEN 2 ELSE 1
        /\ bytes[1] = <<e, 1>>
    BY Utf8Type, BytesOfType
  <2> HIDE DEF bytes
  <2>4. /\ Len(Utf8(y)) = Len(Utf8(x)) + Len(bytes)
        /\ \A i \in 1..(Len(Utf8(x)) + Len(bytes)) : Utf8(y)[i] =
              IF i <= Len(Utf8(x)) THEN Utf8(x)[i] ELSE bytes[i - Len(Utf8(x))]
    <3> DEFINE u == Utf8(x)
    <3> HIDE DEF u
    <3>1. u \in Seq(C \X {1, 2}) /\ bytes \in Seq(C \X {1, 2})
      BY <2>3 DEF u
    <3>2. /\ Len(u \o bytes) = Len(u) + Len(bytes)
          /\ \A i \in 1..(Len(u) + Len(bytes)) :
                (u \o bytes)[i] = IF i <= Len(u) THEN u[i] ELSE bytes[i - Len(u)]
      BY <3>1, ConcatProperties
    <3> QED
      BY <2>2, <3>2 DEF u
  <2>5. Len(x) \in Nat /\ Len(Utf8(x)) \in Nat /\ Len(Utf8(x)) >= Len(x)
    BY <1>2, <2>3, LenProperties
  <2>6. Len(Utf8(y)) >= Len(y)
    BY <2>1, <2>3, <2>4, <2>5
  <2>7. ASSUME Narrow(y)
        PROVE  Plain(y)
    <3>1. Len(x) + 1 \in 1..(Len(x) + 1) /\ \A i \in 1..Len(x) : i \in 1..(Len(x) + 1)
      BY <2>5
    <3>2. e \notin Wide
      BY <2>1, <2>7, <3>1
    <3>3. Narrow(x)
      BY <2>1, <2>7, <3>1
    <3>4. Plain(x)
      BY <1>2, <3>3
    <3>5. Len(bytes) = 1 /\ Len(Utf8(x)) = Len(x)
      BY <2>3, <3>2, <3>4
    <3>6. ASSUME NEW i \in 1..(Len(x) + 1)
          PROVE  Utf8(y)[i] = <<y[i], 1>>
      <4>1. CASE i \in 1..Len(x)
        BY <2>1, <2>4, <2>5, <3>4, <3>5, <4>1
      <4>2. CASE i = Len(x) + 1
        <5>1. i - Len(x) = 1 /\ ~(i <= Len(x))
          BY <2>5, <4>2
        <5> QED
          BY <2>1, <2>3, <2>4, <3>5, <4>2, <5>1
      <4> QED
        BY <2>5, <4>1, <4>2
    <3> QED
      BY <2>1, <2>4, <3>5, <3>6
  <2> QED
    BY <2>1, <2>6, <2>7 DEF y
<1>3. Seq(C) \subseteq K
  <2> HIDE DEF K
  <2> QED
    BY <1>1, <1>2, SeqInduction
<1> QED
  BY <1>3

(***************************************************************************)
(* Beginnings.                                                             *)
(***************************************************************************)
LEMMA PrefixType ==
    ASSUME NEW S, NEW s \in Seq(S), NEW n \in 0..Len(s)
    PROVE  /\ SubSeq(s, 1, n) \in Seq(S) /\ Len(SubSeq(s, 1, n)) = n
           /\ \A i \in 1..n : SubSeq(s, 1, n)[i] = s[i]
<1>1. Len(s) \in Nat /\ n \in Nat /\ \A i \in 1..n : s[i] \in S
  BY LenProperties, ElementOfSeq
<1>2. 1 \in Int /\ n \in Int
  BY <1>1
<1>3. /\ SubSeq(s, 1, n) \in Seq(S)
      /\ Len(SubSeq(s, 1, n)) = IF 1 <= n THEN n - 1 + 1 ELSE 0
      /\ \A i \in 1..(n - 1 + 1) : SubSeq(s, 1, n)[i] = s[1 + i - 1]
  BY <1>1, <1>2, SubSeqProperties
<1>4. n - 1 + 1 = n /\ (~(1 <= n) => n = 0) /\ \A i \in 1..n : 1 + i - 1 = i
  BY <1>1
<1> QED
  BY <1>3, <1>4

LEMMA PrefixesType ==
    ASSUME NEW S, NEW s \in Seq(S)
    PROVE  /\ Prefixes(s) \subseteq Seq(S)
           /\ \A p \in Prefixes(s) : Len(p) <= Len(s) /\ p = SubSeq(s, 1, Len(p))
           /\ s \in Prefixes(s) /\ << >> \in Prefixes(s)
<1>1. Len(s) \in Nat
  BY LenProperties
<1>2. ASSUME NEW p \in Prefixes(s)
      PROVE  p \in Seq(S) /\ Len(p) <= Len(s) /\ p = SubSeq(s, 1, Len(p))
  <2>1. PICK n \in 0..Len(s) : p = SubSeq(s, 1, n)
    BY DEF Prefixes
  <2>2. p \in Seq(S) /\ Len(p) = n
    BY <2>1, PrefixType
  <2> QED
    BY <1>1, <2>1, <2>2
<1>3. s \in Prefixes(s)
  <2>1. Len(s) \in 0..Len(s) /\ SubSeq(s, 1, Len(s)) = s
    BY <1>1, SubSeqFull
  <2> QED
    BY <2>1 DEF Prefixes
<1>4. << >> \in Prefixes(s)
  <2>1. 0 \in 0..Len(s) /\ SubSeq(s, 1, 0) = << >>
    BY <1>1, SubSeqEmpty
  <2> QED
    BY <2>1 DEF Prefixes
<1> QED
  BY <1>2, <1>3, <1>4

LEMMA PrefixesNothing == Prefixes(<< >>) = {<< >>}
<1>1. \A n \in 0..Len(<< >>) : SubSeq(<< >>, 1, n) = << >>
  OBVIOUS
<1>2. 0 \in 0..Len(<< >>)
  OBVIOUS
<1> QED
  BY <1>1, <1>2 DEF Prefixes

LEMMA PrefixOfConcat ==
    ASSUME NEW S, NEW s \in Seq(S), NEW t \in Seq(S), NEW n \in 0..Len(s)
    PROVE  SubSeq(s \o t, 1, n) = SubSeq(s, 1, n)
<1>1. /\ s \o t \in Seq(S) /\ Len(s \o t) = Len(s) + Len(t)
      /\ \A i \in 1..(Len(s) + Len(t)) :
            (s \o t)[i] = IF i <= Len(s) THEN s[i] ELSE t[i - Len(s)]
  BY ConcatProperties
<1>2. Len(s) \in Nat /\ Len(t) \in Nat
  BY LenProperties
<1>3. n \in 0..Len(s \o t) /\ \A i \in 1..n : (s \o t)[i] = s[i]
  BY <1>1, <1>2
<1>4. /\ SubSeq(s \o t, 1, n) \in Seq(S) /\ Len(SubSeq(s \o t, 1, n)) = n
      /\ \A i \in 1..n : SubSeq(s \o t, 1, n)[i] = (s \o t)[i]
  BY <1>1, <1>3, PrefixType
<1>5. /\ SubSeq(s, 1, n) \in Seq(S) /\ Len(SubSeq(s, 1, n)) = n
      /\ \A i \in 1..n : SubSeq(s, 1, n)[i] = s[i]
  BY PrefixType
<1>6. \A i \in 1..n : SubSeq(s \o t, 1, n)[i] = SubSeq(s, 1, n)[i]
  BY <1>3, <1>4, <1>5
<1> QED
  BY <1>4, <1>5, <1>6, SeqEqual

LEMMA PrefixesOfAppend ==
    ASSUME NEW S, NEW s \in Seq(S), NEW e \in S
    PROVE  Prefixes(Append(s, e)) = Prefixes(s) \cup {Append(s, e)}
<1> DEFINE u == Append(s, e)
<1>1. u \in Seq(S) /\ Len(u) = Len(s) + 1 /\ Len(s) \in Nat
  BY AppendProperties, LenProperties
<1>2. u = s \o <<e>> /\ <<e>> \in Seq(S)
  BY AppendIsConcat
<1> HIDE DEF u
<1>3. \A n \in 0..Len(s) : SubSeq(u, 1, n) = SubSeq(s, 1, n)
  BY <1>2, PrefixOfConcat
<1>4. \A n \in 0..Len(u) : n \in 0..Len(s) \/ n = Len(u)
  BY <1>1
<1>5. \A n \in 0..Len(s) : n \in 0..Len(u)
  BY <1>1
<1>6. SubSeq(u, 1, Len(u)) = u /\ u \in Prefixes(u)
  BY <1>1, SubSeqFull, PrefixesType
<1>7. Prefixes(u) \subseteq Prefixes(s) \cup {u}
  BY <1>3, <1>4, <1>6 DEF Prefixes
<1>8. Prefixes(s) \subseteq Prefixes(u)
  BY <1>3, <1>5 DEF Prefixes
<1> QED
  BY <1>6, <1>7, <1>8 DEF u

LEMMA PrefixesOfConcat ==
    ASSUME NEW S, NEW s \in Seq(S), NEW t \in Seq(S)
    PROVE  Prefixes(s \o t) = Prefixes(s) \cup {s \o p : p \in Prefixes(t)}
<1> DEFINE K == {x \in Seq(S) :
                    Prefixes(s \o x) = Prefixes(s) \cup {s \o p : p \in Prefixes(x)}}
<1>1. << >> \in K
  <2>1. s \o << >> = s
    BY ConcatEmptySeq
  <2>2. {s \o p : p \in Prefixes(<< >>)} = {s}
    <3>1. \A p \in Prefixes(<< >>) : p = << >>
      BY PrefixesNothing, Zenon
    <3>2. << >> \in Prefixes(<< >>)
      BY PrefixesNothing, Zenon
    <3>3. \A p \in Prefixes(<< >>) : s \o p = s
      BY <2>1, <3>1
    <3> QED
      BY <3>2, <3>3
  <2>3. s \in Prefixes(s)
    BY PrefixesType
  <2> QED
    BY <2>1, <2>2, <2>3, EmptySeq
<1>2. ASSUME NEW x \in Seq(S), NEW e \in S, x \in K
      PROVE  Append(x, e) \in K
  <2>1. s \o x \in Seq(S) /\ Append(x, e) \in Seq(S)
    BY ConcatProperties, AppendProperties
  <2>2. s \o Append(x, e) = Append(s \o x, e)
    BY ConcatAppend
  <2>3. Prefixes(Append(s \o x, e)) = Prefixes(s \o x) \cup {Append(s \o x, e)}
    BY <2>1, PrefixesOfAppend
  <2>4. Prefixes(Append(x, e)) = Prefixes(x) \cup {Append(x, e)}
    BY PrefixesOfAppend
  <2>5. {s \o p : p \in Prefixes(Append(x, e))}
           = {s \o p : p \in Prefixes(x)} \cup {s \o Append(x, e)}
    BY <2>4
  <2>6. Prefixes(s \o x) = Prefixes(s) \cup {s \o p : p \in Prefixes(x)}
    BY <1>2
  <2> QED
    BY <2>1, <2>2, <2>3, <2>5, <2>6
<1>3. Seq(S) \subseteq K
  <2> HIDE DEF K
  <2> QED
    BY <1>1, <1>2, SeqInduction
<1> QED
  BY <1>3

(***************************************************************************)
(* Decoding: a beginning of an encoded text that ends at the end of a      *)
(* character is a beginning of the text, encoded.                          *)
(***************************************************************************)
LEMMA DecodesPrefix ==
    ASSUME NEW C, NEW t \in Seq(C), NEW b \in Prefixes(Utf8(t)), IsUtf8(b)
    PROVE  \E p \in Prefixes(t) : b = Utf8(p)
<1> DEFINE K == {x \in Seq(C) : \A y \in Prefixes(Utf8(x)) :
                    IsUtf8(y) => \E p \in Prefixes(x) : y = Utf8(p)}
           B == C \X {1, 2}
<1>1. << >> \in K
  <2>1. Prefixes(Utf8(<< >>)) = {<< >>} /\ << >> \in Prefixes(<< >>)
    BY Utf8Nothing, PrefixesNothing
  <2> QED
    BY <2>1, Utf8Nothing, EmptySeq
<1>2. ASSUME NEW x \in Seq(C), NEW e \in C, x \in K
      PROVE  Append(x, e) \in K
  <2> DEFINE u == Append(x, e)
             first == <<e, 1>>
             second == <<e, 2>>
             one == Append(Utf8(x), first)
             two == Append(one, second)
  <2>1. u \in Seq(C) /\ Prefixes(u) = Prefixes(x) \cup {u}
    BY AppendProperties, PrefixesOfAppend
  <2>2. Utf8(u) = Utf8(x) \o BytesOf(e) /\ Utf8(x) \in Seq(B)
    BY Utf8Append
  <2>3. first \in B /\ second \in B
    OBVIOUS
  <2>4. one \in Seq(B) /\ Len(one) \in Nat \ {0} /\ one[Len(one)] = first
    <3> HIDE DEF B, first
    <3> QED
      BY <2>2, <2>3, AppendProperties, LenProperties
  <2>5. Prefixes(one) = Prefixes(Utf8(x)) \cup {one}
    <3> HIDE DEF B, first
    <3> QED
      BY <2>2, <2>3, PrefixesOfAppend
  <2>6. ASSUME NEW y \in Prefixes(Utf8(u)), IsUtf8(y)
        PROVE  \E p \in Prefixes(u) : y = Utf8(p)
    <3>1. CASE y \in Prefixes(Utf8(x))
      BY <1>2, <2>1, <2>6, <3>1
    <3>2. CASE y = Utf8(u)
      BY <2>1, <3>2
    <3>3. CASE e \notin Wide
      <4>1. BytesOf(e) = <<first>>
        BY <3>3 DEF BytesOf
      <4>2. Utf8(u) = one
        <5> HIDE DEF B, first
        <5> QED
          BY <2>2, <2>3, <4>1, AppendIsConcat
      <4>3. y \in Prefixes(Utf8(x)) \cup {Utf8(u)}
        BY <2>5, <4>2
      <4> QED
        BY <3>1, <3>2, <4>3
    <3>4. CASE e \in Wide
      <4>1. BytesOf(e) = Append(<<first>>, second)
        BY <3>4, SMTT(30) DEF BytesOf
      <4>2. Utf8(u) = two
        <5> HIDE DEF B, first, second
        <5>1. <<first>> \in Seq(B) /\ Utf8(x) \o <<first>> = one
          BY <2>2, <2>3, AppendIsConcat
        <5>2. Utf8(x) \o Append(<<first>>, second) = Append(Utf8(x) \o <<first>>, second)
          BY <2>2, <2>3, <5>1, ConcatAppend
        <5> QED
          BY <2>2, <4>1, <5>1, <5>2
      <4>3. Prefixes(two) = Prefixes(one) \cup {two}
        <5> HIDE DEF B, one, second
        <5> QED
          BY <2>3, <2>4, PrefixesOfAppend
      <4>4. y # one
        <5>1. one # << >>
          <6> HIDE DEF one
          <6> QED
            BY <2>4
        <5>2. Last(one)[1] \in Wide /\ Last(one)[2] = 1
          <6> HIDE DEF one
          <6> QED
            BY <2>4, <3>4 DEF Last
        <5> HIDE DEF one
        <5> QED
          BY <2>6, <5>1, <5>2 DEF IsUtf8
      <4>5. y \in Prefixes(Utf8(x)) \cup {Utf8(u)}
        <5> HIDE DEF one, two
        <5> QED
          BY <2>5, <4>2, <4>3, <4>4
      <4> QED
        BY <3>1, <3>2, <4>5
    <3> QED
      BY <3>3, <3>4
  <2> HIDE DEF u
  <2> QED
    BY <2>1, <2>6 DEF u
<1>3. Seq(C) \subseteq K
  <2> HIDE DEF K
  <2> QED
    BY <1>1, <1>2, SeqInduction
<1> QED
  BY <1>3

(***************************************************************************)
(* Reading the characters of an encoded text gives the text back.          *)
(***************************************************************************)
FirstBytes(bytes) == {i \in DOMAIN bytes : bytes[i][2] = 1}

LEMMA CharactersOfAppend ==
    ASSUME NEW C, NEW s \in Seq(C \X {1, 2}), NEW x \in C \X {1, 2}
    PROVE  /\ Characters(s) \in Seq(C)
           /\ x[2] = 1 => Characters(Append(s, x)) = Append(Characters(s), x[1])
           /\ x[2] # 1 => Characters(Append(s, x)) = Characters(s)
<1> DEFINE B == C \X {1, 2}
           n == Len(s)
           u == Append(s, x)
           K == FirstBytes(s)
           own == SubSeqAt(s, K)
           chars == [i \in DOMAIN own |-> own[i][1]]
<1>1. /\ n \in Nat /\ DOMAIN s = 1..n
      /\ u \in Seq(B) /\ DOMAIN u = 1..(n + 1)
      /\ u[n + 1] = x /\ \A i \in 1..n : u[i] = s[i]
  BY LenProperties, AppendProperties
<1>2. \A e \in B : e[1] \in C
  OBVIOUS
<1>3. K \in SUBSET DOMAIN s /\ K \in SUBSET DOMAIN u /\ \A k \in K : k < n + 1
  BY <1>1 DEF FirstBytes
<1>4. IsFiniteSet(K) /\ K \in SUBSET Nat
  <2>1. IsFiniteSet(1..n)
    BY <1>1, FS_Interval
  <2>2. K \subseteq 1..n
    BY <1>1, <1>3
  <2> QED
    BY <1>1, <2>1, <2>2, FS_Subset
<1>5. own \in Seq(B) /\ SubSeqAt(u, K) = own
  <2>1. \A k \in K : u[k] = s[k]
    BY <1>1, <1>3
  <2> QED
    BY <1>3, <1>4, <2>1, SubSeqAtAgrees, SubSeqAtType
<1>6. Characters(s) = chars
  BY DEF Characters, FirstBytes
<1>7. chars \in Seq(C) /\ Len(chars) = Len(own)
  <2> HIDE DEF B, own
  <2>1. Len(own) \in Nat /\ DOMAIN own = 1..Len(own) /\ \A i \in 1..Len(own) : own[i] \in B
    BY <1>5, LenProperties, ElementOfSeq
  <2> QED
    BY <1>2, <2>1, LenFromDomain
<1>8. ASSUME x[2] = 1
      PROVE  Characters(u) = Append(Characters(s), x[1])
  <2>1. FirstBytes(u) = K \cup {n + 1}
    <3> HIDE DEF u
    <3> QED
      BY <1>1, <1>8 DEF FirstBytes
  <2>2. SubSeqAt(u, K \cup {n + 1}) = Append(own, x)
    <3> HIDE DEF u, K, own, B
    <3> DEFINE m == n + 1
    <3>1. m \in DOMAIN u /\ \A k \in K : k < m
      BY <1>1, <1>3
    <3> HIDE DEF m
    <3>2. SubSeqAt(u, K \cup {m}) = Append(SubSeqAt(u, K), u[m])
      BY <1>1, <1>3, <3>1, SubSeqAtWithLast
    <3> QED
      BY <1>1, <1>5, <3>2 DEF m
  <2>3. Characters(u) = [i \in DOMAIN Append(own, x) |-> Append(own, x)[i][1]]
    <3> HIDE DEF u, K, own
    <3> QED
      BY <2>1, <2>2 DEF Characters, FirstBytes
  <2>4. [i \in DOMAIN Append(own, x) |-> Append(own, x)[i][1]] = Append(chars, x[1])
    <3> HIDE DEF own, B
    <3>1. /\ Len(own) \in Nat /\ DOMAIN own = 1..Len(own)
          /\ DOMAIN Append(own, x) = 1..(Len(own) + 1)
          /\ Append(own, x)[Len(own) + 1] = x
          /\ \A i \in 1..Len(own) : Append(own, x)[i] = own[i]
      <4>1. x \in B
        BY DEF B
      <4> QED
        BY <1>5, <4>1, LenProperties, AppendProperties
    <3> DEFINE v == [i \in DOMAIN Append(own, x) |-> Append(own, x)[i][1]]
    <3>2. x[1] \in C
      OBVIOUS
    <3>3. \A i \in 1..Len(own) : v[i] = chars[i] /\ chars[i] \in C
      BY <1>7, <3>1, LenProperties, ElementOfSeq
    <3>4. v[Len(own) + 1] = x[1]
      BY <3>1
    <3>5. v \in Seq(C) /\ Len(v) = Len(own) + 1
      <4>1. \A i \in 1..(Len(own) + 1) : v[i] \in C
        <5> HIDE DEF v, chars
        <5>1. \A i \in 1..(Len(own) + 1) : i \in 1..Len(own) \/ i = Len(own) + 1
          BY <3>1
        <5> QED
          BY <3>2, <3>3, <3>4, <5>1
      <4>2. v = [i \in 1..(Len(own) + 1) |-> v[i]]
        BY <3>1
      <4> HIDE DEF v
      <4>3. v \in Seq(C)
        BY <3>1, <4>1, <4>2
      <4>4. DOMAIN v = 1..(Len(own) + 1)
        BY <3>1 DEF v
      <4> QED
        BY <3>1, <4>3, <4>4, LenFromDomain
    <3> HIDE DEF v, chars
    <3>6. v = Append(chars, x[1])
      BY <1>7, <3>2, <3>3, <3>4, <3>5, AppendByParts
    <3> QED
      BY <3>6 DEF v
  <2> QED
    BY <1>6, <2>3, <2>4
<1>9. ASSUME x[2] # 1
      PROVE  Characters(u) = Characters(s)
  <2>1. FirstBytes(u) = K
    <3> HIDE DEF u
    <3> QED
      BY <1>1, <1>9 DEF FirstBytes
  <2> HIDE DEF u, K
  <2> QED
    BY <1>5, <1>6, <2>1 DEF Characters, FirstBytes
<1> QED
  BY <1>6, <1>7, <1>8, <1>9

LEMMA CharactersOfUtf8 ==
    ASSUME NEW C, NEW t \in Seq(C)
    PROVE  Characters(Utf8(t)) = t
<1> DEFINE K == {x \in Seq(C) : Characters(Utf8(x)) = x}
           B == C \X {1, 2}
<1>1. << >> \in K
  <2>1. Characters(<< >>) = << >>
    <3>1. {i \in DOMAIN << >> : << >>[i][2] = 1} = {}
      OBVIOUS
    <3>2. SubSeqAt(<< >>, {}) = << >>
      BY SubSeqAtNothing
    <3> QED
      BY <3>1, <3>2 DEF Characters
  <2> QED
    BY <2>1, Utf8Nothing, EmptySeq
<1>2. ASSUME NEW x \in Seq(C), NEW e \in C, x \in K
      PROVE  Append(x, e) \in K
  <2> DEFINE first == <<e, 1>>
             second == <<e, 2>>
             one == Append(Utf8(x), first)
             two == Append(one, second)
  <2>1. Append(x, e) \in Seq(C)
    BY AppendProperties
  <2>2. Utf8(Append(x, e)) = Utf8(x) \o BytesOf(e) /\ Utf8(x) \in Seq(B)
    BY Utf8Append
  <2>3. /\ first \in B /\ first[2] = 1 /\ first[1] = e
        /\ second \in B /\ second[2] # 1
    OBVIOUS
  <2>4. Characters(one) = Append(x, e) /\ one \in Seq(B)
    <3> HIDE DEF first
    <3>1. one \in Seq(B)
      <4> HIDE DEF B
      <4> QED
        BY <2>2, <2>3, AppendProperties
    <3>2. Characters(one) = Append(Characters(Utf8(x)), first[1])
      BY <2>2, <2>3, CharactersOfAppend, SMTT(30)
    <3> QED
      BY <1>2, <2>3, <3>1, <3>2
  <2>5. CASE e \notin Wide
    <3>1. BytesOf(e) = <<first>>
      BY <2>5 DEF BytesOf
    <3>2. Utf8(x) \o <<first>> = one
      <4> HIDE DEF B, first
      <4> QED
        BY <2>2, <2>3, AppendIsConcat
    <3> HIDE DEF one, first
    <3> QED
      BY <2>1, <2>2, <2>4, <3>1, <3>2
  <2>6. CASE e \in Wide
    <3>1. BytesOf(e) = Append(<<first>>, second)
      BY <2>6 DEF BytesOf
    <3>2. Utf8(Append(x, e)) = two
      <4> HIDE DEF B, first, second
      <4>1. <<first>> \in Seq(B) /\ Utf8(x) \o <<first>> = one
        BY <2>2, <2>3, AppendIsConcat
      <4>2. Utf8(x) \o Append(<<first>>, second) = Append(Utf8(x) \o <<first>>, second)
        BY <2>2, <2>3, <4>1, ConcatAppend
      <4> QED
        BY <2>2, <3>1, <4>1, <4>2
    <3>3. Characters(two) = Characters(one)
      <4> HIDE DEF one, second
      <4> QED
        BY <2>3, <2>4, CharactersOfAppend, SMTT(30)
    <3> HIDE DEF two, one
    <3> QED
      BY <2>1, <2>4, <3>2, <3>3
  <2> QED
    BY <2>5, <2>6
<1>3. Seq(C) \subseteq K
  <2> HIDE DEF K
  <2> QED
    BY <1>1, <1>2, SeqInduction
<1> QED
  BY <1>3

(***************************************************************************)
(* The text of the history, every line with its newline, and the file as   *)
(* its encoding.                                                           *)
(***************************************************************************)
Joined(lines) == FlattenSeq([i \in DOMAIN lines |-> Append(lines[i], Newline)])

LEMMA JoinedAppend ==
    ASSUME NEW C, NEW lines \in Seq(Seq(C)), NEW l \in Seq(C), Newline \in C
    PROVE  /\ Joined(lines) \in Seq(C)
           /\ Joined(Append(lines, l)) = Joined(lines) \o Append(l, Newline)
<1> DEFINE n == Len(lines)
           each == [i \in DOMAIN lines |-> Append(lines[i], Newline)]
           u == Append(lines, l)
           each2 == [i \in DOMAIN u |-> Append(u[i], Newline)]
<1>1. /\ n \in Nat /\ DOMAIN lines = 1..n /\ DOMAIN u = 1..(n + 1)
      /\ u[n + 1] = l /\ \A i \in 1..n : u[i] = lines[i] /\ lines[i] \in Seq(C)
  <2>1. u \in Seq(Seq(C)) /\ Len(u) = n + 1
    BY AppendProperties
  <2>2. DOMAIN u = 1..(n + 1)
    <3> HIDE DEF u
    <3> QED
      BY <2>1, LenProperties
  <2> QED
    BY <2>2, LenProperties, AppendProperties, ElementOfSeq
<1>2. Append(l, Newline) \in Seq(C) /\ \A i \in 1..n : Append(lines[i], Newline) \in Seq(C)
  BY <1>1, AppendProperties
<1>3. each \in Seq(Seq(C)) /\ Len(each) = n
  BY <1>1, <1>2, LenFromDomain
<1>4. each2 \in Seq(Seq(C)) /\ Len(each2) = n + 1
  <2> HIDE DEF u
  <2>1. \A i \in 1..(n + 1) : i \in 1..n \/ i = n + 1
    BY <1>1
  <2>2. \A i \in 1..(n + 1) : Append(u[i], Newline) \in Seq(C)
    BY <1>1, <1>2, <2>1
  <2>3. each2 \in Seq(Seq(C)) /\ DOMAIN each2 = 1..(n + 1)
    BY <1>1, <2>2
  <2> HIDE DEF each2
  <2> QED
    BY <1>1, <2>3, LenFromDomain
<1>5. each2 = Append(each, Append(l, Newline))
  <2>1. each2[n + 1] = Append(l, Newline) /\ \A i \in 1..n : each2[i] = each[i]
    <3> HIDE DEF u
    <3> QED
      BY <1>1, SMTT(30)
  <2> HIDE DEF each2, each
  <2> QED
    BY <1>2, <1>3, <1>4, <2>1, AppendByParts
<1>6. FlattenSeq(Append(each, Append(l, Newline))) = FlattenSeq(each) \o Append(l, Newline)
  <2> HIDE DEF each
  <2> QED
    BY <1>2, <1>3, FlattenAppend
<1>7. FlattenSeq(each) \in Seq(C)
  <2> HIDE DEF each
  <2> QED
    BY <1>3, FlattenType
<1> QED
  BY <1>5, <1>6, <1>7 DEF Joined

LEMMA FileTextAppend ==
    ASSUME NEW C, NEW lines \in Seq(Seq(C)), NEW l \in Seq(C), Newline \in C
    PROVE  /\ FileText(lines) \in Seq(C \X {1, 2})
           /\ FileText(Append(lines, l)) = FileText(lines) \o Utf8(Append(l, Newline))
<1> DEFINE n == Len(lines)
           B == C \X {1, 2}
           each == [i \in DOMAIN lines |-> Utf8(Append(lines[i], Newline))]
           u == Append(lines, l)
           each2 == [i \in DOMAIN u |-> Utf8(Append(u[i], Newline))]
<1>1. /\ n \in Nat /\ DOMAIN lines = 1..n /\ DOMAIN u = 1..(n + 1)
      /\ u[n + 1] = l /\ \A i \in 1..n : u[i] = lines[i] /\ lines[i] \in Seq(C)
  <2>1. u \in Seq(Seq(C)) /\ Len(u) = n + 1
    BY AppendProperties
  <2>2. DOMAIN u = 1..(n + 1)
    <3> HIDE DEF u
    <3> QED
      BY <2>1, LenProperties
  <2> QED
    BY <2>2, LenProperties, AppendProperties, ElementOfSeq
<1>2. /\ Utf8(Append(l, Newline)) \in Seq(B)
      /\ \A i \in 1..n : Utf8(Append(lines[i], Newline)) \in Seq(B)
  BY <1>1, AppendProperties, Utf8Type
<1> HIDE DEF B
<1>3. each \in Seq(Seq(B)) /\ Len(each) = n
  BY <1>1, <1>2, LenFromDomain
<1>4. each2 \in Seq(Seq(B)) /\ Len(each2) = n + 1
  <2> HIDE DEF u
  <2>1. \A i \in 1..(n + 1) : i \in 1..n \/ i = n + 1
    BY <1>1
  <2>2. \A i \in 1..(n + 1) : Utf8(Append(u[i], Newline)) \in Seq(B)
    BY <1>1, <1>2, <2>1
  <2>3. each2 \in Seq(Seq(B)) /\ DOMAIN each2 = 1..(n + 1)
    BY <1>1, <2>2
  <2> HIDE DEF each2
  <2> QED
    BY <1>1, <2>3, LenFromDomain
<1>5. each2 = Append(each, Utf8(Append(l, Newline)))
  <2>1. each2[n + 1] = Utf8(Append(l, Newline)) /\ \A i \in 1..n : each2[i] = each[i]
    <3> HIDE DEF u
    <3> QED
      BY <1>1
  <2> HIDE DEF each2, each
  <2> QED
    BY <1>2, <1>3, <1>4, <2>1, AppendByParts
<1>6. FlattenSeq(Append(each, Utf8(Append(l, Newline))))
         = FlattenSeq(each) \o Utf8(Append(l, Newline))
  <2> HIDE DEF each
  <2> QED
    BY <1>2, <1>3, FlattenAppend
<1>7. FlattenSeq(each) \in Seq(B)
  <2> HIDE DEF each
  <2> QED
    BY <1>3, FlattenType
<1> QED
  BY <1>5, <1>6, <1>7 DEF FileText, B

LEMMA FileTextIsUtf8 ==
    ASSUME NEW C, NEW lines \in Seq(Seq(C)), Newline \in C
    PROVE  FileText(lines) = Utf8(Joined(lines))
<1> DEFINE K == {x \in Seq(Seq(C)) : FileText(x) = Utf8(Joined(x))}
<1>1. << >> \in K
  <2>1. /\ [i \in DOMAIN << >> |-> Append(<< >>[i], Newline)] = << >>
        /\ [i \in DOMAIN << >> |-> Utf8(Append(<< >>[i], Newline))] = << >>
    OBVIOUS
  <2>2. FileText(<< >>) = << >> /\ Joined(<< >>) = << >>
    BY <2>1, FlattenNothing DEF FileText, Joined
  <2> QED
    BY <2>2, Utf8Nothing, EmptySeq
<1>2. ASSUME NEW x \in Seq(Seq(C)), NEW e \in Seq(C), x \in K
      PROVE  Append(x, e) \in K
  <2>1. Append(x, e) \in Seq(Seq(C)) /\ Append(e, Newline) \in Seq(C)
    BY AppendProperties
  <2>2. FileText(Append(x, e)) = FileText(x) \o Utf8(Append(e, Newline))
    BY FileTextAppend
  <2>3. Joined(x) \in Seq(C) /\ Joined(Append(x, e)) = Joined(x) \o Append(e, Newline)
    BY JoinedAppend
  <2>4. Utf8(Joined(x) \o Append(e, Newline)) = Utf8(Joined(x)) \o Utf8(Append(e, Newline))
    BY <2>1, <2>3, Utf8Concat
  <2> QED
    BY <1>2, <2>1, <2>2, <2>3, <2>4
<1>3. Seq(Seq(C)) \subseteq K
  <2> HIDE DEF K
  <2> QED
    BY <1>1, <1>2, SeqInduction
<1> QED
  BY <1>3

(***************************************************************************)
(* A beginning of the text of the history ends at the end of a line or     *)
(* within one.                                                             *)
(***************************************************************************)
CutAfter(lines, n, x) ==
    \/ x = Joined(SubSeq(lines, 1, n))
    \/ /\ n < Len(lines)
       /\ \E p \in Prefixes(lines[n + 1]) :
             p # << >> /\ x = Joined(SubSeq(lines, 1, n)) \o p

LEMMA CutLines ==
    ASSUME NEW C, NEW lines \in Seq(Seq(C)), NEW x \in Prefixes(Joined(lines)), Newline \in C
    PROVE  \E n \in 0..Len(lines) : CutAfter(lines, n, x)
<1> DEFINE K == {y \in Seq(Seq(C)) :
                    \A z \in Prefixes(Joined(y)) : \E n \in 0..Len(y) : CutAfter(y, n, z)}
<1>1. << >> \in K
  <2>1. [i \in DOMAIN << >> |-> Append(<< >>[i], Newline)] = << >>
    OBVIOUS
  <2>2. Joined(<< >>) = << >> /\ Prefixes(<< >>) = {<< >>}
    BY <2>1, FlattenNothing, PrefixesNothing DEF Joined
  <2>3. << >> \in Seq(Seq(C)) /\ Len(<< >>) = 0 /\ SubSeq(<< >>, 1, 0) = << >>
    BY EmptySeq, SubSeqEmpty
  <2>4. CutAfter(<< >>, 0, << >>)
    BY <2>2, <2>3 DEF CutAfter
  <2> QED
    BY <2>2, <2>3, <2>4
<1>2. ASSUME NEW y \in Seq(Seq(C)), NEW e \in Seq(C), y \in K
      PROVE  Append(y, e) \in K
  <2> DEFINE u == Append(y, e)
             k == Len(y)
             J == Joined(y)
             last == Append(e, Newline)
  <2>1. u \in Seq(Seq(C)) /\ Len(u) = k + 1 /\ u[k + 1] = e /\ k \in Nat
        /\ \A i \in 1..k : u[i] = y[i]
    BY LenProperties, AppendProperties
  <2>2. J \in Seq(C) /\ last \in Seq(C) /\ Joined(u) = J \o last
    BY JoinedAppend, AppendProperties
  <2>3. \A n \in 0..k : SubSeq(u, 1, n) = SubSeq(y, 1, n)
    <3>1. u = y \o <<e>> /\ <<e>> \in Seq(Seq(C))
      BY AppendIsConcat
    <3> HIDE DEF u
    <3> QED
      BY <3>1, PrefixOfConcat
  <2>4. SubSeq(y, 1, k) = y /\ SubSeq(u, 1, k + 1) = u
    <3> HIDE DEF u
    <3> QED
      BY <2>1, SubSeqFull
  <2>5. k \in 0..Len(u) /\ k < Len(u) /\ k + 1 \in 0..Len(u) /\ k \in 0..k
    <3> HIDE DEF u
    <3> QED
      BY <2>1
  <2>6. Joined(SubSeq(u, 1, k)) = J /\ Joined(SubSeq(u, 1, k + 1)) = J \o last
    <3>1. SubSeq(u, 1, k) = y
      <4> HIDE DEF u
      <4> QED
        BY <2>3, <2>4, <2>5
    <3> HIDE DEF last
    <3> QED
      BY <2>2, <2>4, <3>1
  <2>7. ASSUME NEW z \in Prefixes(Joined(u))
        PROVE  \E n \in 0..Len(u) : CutAfter(u, n, z)
    <3>1. z \in Prefixes(J) \/ (\E p \in Prefixes(last) : z = J \o p)
      <4> HIDE DEF J, last, u
      <4>1. Prefixes(J \o last) = Prefixes(J) \cup {J \o p : p \in Prefixes(last)}
        BY <2>2, PrefixesOfConcat
      <4>2. z \in Prefixes(J \o last)
        BY <2>2, <2>7
      <4> QED
        BY <4>1, <4>2
    <3>2. CASE z \in Prefixes(J)
      <4>1. PICK n \in 0..k : CutAfter(y, n, z)
        BY <1>2, <3>2
      <4>2. n \in 0..Len(u) /\ (n < k => n < Len(u) /\ n + 1 \in 1..k)
        BY <2>1, <4>1
      <4>3. SubSeq(u, 1, n) = SubSeq(y, 1, n) /\ (n < k => u[n + 1] = y[n + 1])
        BY <2>1, <2>3, <4>2
      <4> HIDE DEF u
      <4>4. CutAfter(u, n, z)
        BY <4>1, <4>2, <4>3 DEF CutAfter
      <4> QED
        BY <4>2, <4>4
    <3>3. ASSUME NEW p \in Prefixes(last), z = J \o p
          PROVE  \E n \in 0..Len(u) : CutAfter(u, n, z)
      <4>1. Prefixes(last) = Prefixes(e) \cup {last}
        BY PrefixesOfAppend
      <4>2. CASE p = last
        <5> HIDE DEF J, last, u, k
        <5>1. CutAfter(u, k + 1, z)
          BY <2>6, <3>3, <4>2 DEF CutAfter
        <5> QED
          BY <2>5, <5>1
      <4>3. CASE p = << >>
        <5>1. z = J
          <6> HIDE DEF J
          <6> QED
            BY <2>2, <3>3, <4>3, ConcatEmptySeq
        <5> HIDE DEF J, last, u, k
        <5>2. CutAfter(u, k, z)
          BY <2>6, <5>1 DEF CutAfter
        <5> QED
          BY <2>5, <5>2
      <4>4. CASE p \in Prefixes(e) /\ p # << >>
        <5>1. p \in Prefixes(u[k + 1])
          BY <2>1, <4>4
        <5> HIDE DEF J, last, u, k
        <5>2. CutAfter(u, k, z)
          BY <2>5, <2>6, <3>3, <4>4, <5>1 DEF CutAfter
        <5> QED
          BY <2>5, <5>2
      <4> QED
        BY <3>3, <4>1, <4>2, <4>3, <4>4
    <3> QED
      BY <3>1, <3>2, <3>3
  <2> QED
    BY <2>1, <2>7
<1>3. Seq(Seq(C)) \subseteq K
  <2> HIDE DEF K
  <2> QED
    BY <1>1, <1>2, SeqInduction
<1> QED
  BY <1>3

(***************************************************************************)
(* Splitting a text into lines, one line at a time.                        *)
(***************************************************************************)
Newlines(text) == {i \in DOMAIN text : text[i] = Newline}

\* The pieces of a text that end before each of the positions.
Pieces(text, ends) ==
    [k \in 1..Cardinality(ends) |->
        SubSeq(text, IF k = 1 THEN 1 ELSE Nth(ends, k - 1) + 1, Nth(ends, k) - 1)]

\* The text u begins with t, of which a line ends at each position of N and
\* one at the end, and goes on with p, which ends before m.
Continues(C, u, t, p, N, m) ==
    /\ t \in Seq(C) /\ p \in Seq(C) /\ u \in Seq(C)
    /\ N \in SUBSET DOMAIN t /\ (t = << >> \/ Len(t) \in N)
    /\ m = Len(t) + Len(p) + 1
    /\ Len(u) >= Len(t) + Len(p)
    /\ \A i \in 1..Len(t) : u[i] = t[i]
    /\ \A i \in 1..Len(p) : u[Len(t) + i] = p[i]

LEMMA PiecesNext ==
    ASSUME NEW C, NEW u, NEW t, NEW p, NEW N, NEW m, Continues(C, u, t, p, N, m)
    PROVE  /\ Pieces(t, N) \in Seq(Seq(C))
           /\ Pieces(u, N \cup {m}) = Append(Pieces(t, N), p)
<1> DEFINE n == Len(t)
           c == Cardinality(N)
           M == N \cup {m}
<1> USE DEF Continues
<1>1. n \in Nat /\ Len(p) \in Nat /\ Len(u) \in Nat /\ DOMAIN t = 1..n /\ m \in Nat
  BY LenProperties
<1>2. N \in SUBSET Nat /\ IsFiniteSet(N) /\ c \in Nat
  <2>1. IsFiniteSet(1..n)
    BY <1>1, FS_Interval
  <2>2. N \subseteq 1..n /\ N \in SUBSET Nat
    BY <1>1
  <2> QED
    BY <2>1, <2>2, FS_Subset, FS_CardinalityType
<1>3. \A k \in 1..c : Nth(N, k) \in 1..n
  <2>1. \A k \in 1..c : Nth(N, k) \in N
    BY <1>2, NthExists
  <2> QED
    BY <1>1, <2>1
<1>4. /\ Cardinality(M) = c + 1 /\ Nth(M, c + 1) = m
      /\ \A k \in 1..c : Nth(M, k) = Nth(N, k)
  <2>1. \A k \in N : k < m
    BY <1>1
  <2> QED
    BY <1>1, <1>2, <2>1, NthWithLast
<1>5. /\ c = 0 => n = 0
      /\ c # 0 => Nth(N, c) = n
  <2>1. CASE t = << >>
    <3>1. n = 0 /\ N = {}
      BY <1>1, <2>1, EmptySeq
    <3> QED
      BY <3>1, FS_EmptySet
  <2>2. CASE n \in N
    <3>1. {j \in N : j <= n} = N
      BY <1>1
    <3>2. Rank(N, n) = c
      BY <3>1 DEF Rank
    <3>3. Nth(N, c) = n /\ c \in 1..c
      BY <1>2, <2>2, <3>2, NthOfRank, RankRange, SMTT(30)
    <3> QED
      BY <1>2, <3>3
  <2> QED
    BY <2>1, <2>2
<1> DEFINE From(K, k) == IF k = 1 THEN 1 ELSE Nth(K, k - 1) + 1
           pieces == Pieces(t, N)
           more == Pieces(u, M)
<1>6. \A k \in 1..c : /\ From(N, k) \in Nat \ {0} /\ Nth(N, k) - 1 \in 0..n
                      /\ From(M, k) = From(N, k)
  <2> SUFFICES ASSUME NEW k \in 1..c
               PROVE  /\ From(N, k) \in Nat \ {0} /\ Nth(N, k) - 1 \in 0..n
                      /\ From(M, k) = From(N, k)
    OBVIOUS
  <2>1. Nth(N, k) - 1 \in 0..n
    BY <1>1, <1>3
  <2>2. CASE k = 1
    BY <2>1, <2>2
  <2>3. CASE k # 1
    <3>1. k - 1 \in 1..c
      BY <1>2, <2>3
    <3> DEFINE j == k - 1
    <3>2. j \in 1..c
      BY <3>1
    <3> HIDE DEF j, M
    <3>3. Nth(N, j) \in 1..n /\ Nth(M, j) = Nth(N, j)
      BY <1>3, <1>4, <3>2
    <3> USE DEF j
    <3>4. Nth(N, j) + 1 \in Nat \ {0}
      BY <1>1, <3>3
    <3> QED
      BY <2>1, <2>3, <3>3, <3>4
  <2> QED
    BY <2>2, <2>3
<1> HIDE DEF M, c, n, From
<1>7. \A k \in 1..c : /\ SubSeq(t, From(N, k), Nth(N, k) - 1) \in Seq(C)
                      /\ SubSeq(u, From(N, k), Nth(N, k) - 1)
                            = SubSeq(t, From(N, k), Nth(N, k) - 1)
  <2> SUFFICES ASSUME NEW k \in 1..c
               PROVE  /\ SubSeq(t, From(N, k), Nth(N, k) - 1) \in Seq(C)
                      /\ SubSeq(u, From(N, k), Nth(N, k) - 1)
                            = SubSeq(t, From(N, k), Nth(N, k) - 1)
    OBVIOUS
  <2> DEFINE a == From(N, k)
             b == Nth(N, k) - 1
  <2>1. a \in Nat \ {0} /\ b \in 0..n
    BY <1>6
  <2> HIDE DEF a, b
  <2>2. \A i \in a..b : t[i] \in C /\ u[i] = t[i]
    BY <1>1, <2>1, ElementOfSeq DEF n
  <2>3. a \in Int /\ b \in Int
    BY <1>1, <2>1
  <2>4. SubSeq(t, a, b) \in Seq(C)
    BY <2>2, <2>3, SubSeqProperties
  <2>5. SubSeq(u, a, b) = SubSeq(t, a, b)
    BY <2>2, <2>3, SubSeqAgrees
  <2> QED
    BY <2>4, <2>5 DEF a, b
<1>8. /\ pieces = [k \in 1..c |-> SubSeq(t, From(N, k), Nth(N, k) - 1)]
      /\ more = [k \in 1..(c + 1) |-> SubSeq(u, From(M, k), Nth(M, k) - 1)]
  BY <1>4 DEF Pieces, From, c
<1> HIDE DEF pieces, more
<1>9. pieces \in Seq(Seq(C)) /\ Len(pieces) = c
  <2>1. pieces = [k \in 1..c |-> pieces[k]] /\ \A k \in 1..c : pieces[k] \in Seq(C)
    BY <1>7, <1>8
  <2> QED
    BY <1>2, <2>1, SeqByParts
<1>10. SubSeq(u, From(M, c + 1), Nth(M, c + 1) - 1) = p
  <2>1. From(M, c + 1) = n + 1
    <3>1. CASE c = 0
      BY <1>5, <3>1 DEF From
    <3>2. CASE c # 0
      <4>1. c + 1 # 1 /\ (c + 1) - 1 = c /\ c \in 1..c
        BY <1>2, <3>2
      <4>2. Nth(M, c) = n
        BY <1>4, <1>5, <3>2, <4>1
      <4> QED
        BY <4>1, <4>2 DEF From
    <3> QED
      BY <3>1, <3>2
  <2>2. Nth(M, c + 1) - 1 = n + Len(p)
    BY <1>1, <1>4 DEF n
  <2> DEFINE a == n + 1
             b == n + Len(p)
             w == SubSeq(u, a, b)
  <2>3. a \in Int /\ b \in Int /\ b - a + 1 = Len(p)
        /\ (a <= b <=> Len(p) # 0) /\ b <= Len(u) /\ a >= 1
    BY <1>1 DEF n
  <2>4. \A i \in a..b : u[i] \in C
    <3> HIDE DEF a, b
    <3>1. \A i \in a..b : i \in 1..Len(u)
      BY <1>1, <2>3
    <3> QED
      BY <3>1, ElementOfSeq
  <2>5. \A i \in 1..Len(p) : u[a + i - 1] = p[i]
    <3> SUFFICES ASSUME NEW i \in 1..Len(p) PROVE u[a + i - 1] = p[i]
      OBVIOUS
    <3>1. a + i - 1 = Len(t) + i
      BY <1>1 DEF n
    <3> QED
      BY <3>1
  <2> HIDE DEF a, b
  <2>6. w \in Seq(C) /\ Len(w) = Len(p) /\ \A i \in 1..Len(p) : w[i] = u[a + i - 1]
    <3>1. /\ w \in Seq(C) /\ Len(w) = IF a <= b THEN b - a + 1 ELSE 0
          /\ \A i \in 1..(b - a + 1) : w[i] = u[a + i - 1]
      BY <2>3, <2>4, SubSeqProperties
    <3> HIDE DEF w
    <3> QED
      BY <1>1, <2>3, <3>1
  <2> HIDE DEF w
  <2>7. w = p
    BY <2>5, <2>6, SeqEqual
  <2> QED
    BY <2>1, <2>2, <2>7 DEF w, a, b
<1>11. \A i \in 1..c : more[i] = pieces[i]
  <2>1. \A i \in 1..c : i \in 1..(c + 1)
    BY <1>2
  <2> QED
    BY <1>4, <1>6, <1>7, <1>8, <2>1
<1>12. more[c + 1] = p
  <2>1. c + 1 \in 1..(c + 1)
    BY <1>2
  <2> QED
    BY <1>8, <1>10, <2>1
<1>13. more \in Seq(Seq(C)) /\ Len(more) = c + 1
  <2>1. \A i \in 1..(c + 1) : i \in 1..c \/ i = c + 1
    BY <1>2
  <2>2. \A i \in 1..c : pieces[i] \in Seq(C)
    BY <1>9, ElementOfSeq
  <2>3. \A i \in 1..(c + 1) : more[i] \in Seq(C)
    BY <1>11, <1>12, <2>1, <2>2
  <2>4. c + 1 \in Nat
    BY <1>2
  <2>5. more = [i \in 1..(c + 1) |-> more[i]]
    BY <1>8
  <2> QED
    BY <2>3, <2>4, <2>5, SeqByParts
<1>14. more = Append(pieces, p)
  BY <1>9, <1>11, <1>12, <1>13, AppendByParts
<1> QED
  BY <1>9, <1>14 DEF more, pieces, M

LEMMA LinesOfNext ==
    ASSUME NEW L, NEW t \in Seq(L \cup {Newline}), NEW p \in Seq(L), Newline \notin L,
           t = << >> \/ t[Len(t)] = Newline
    PROVE  /\ LinesOf(t) \in Seq(Seq(L \cup {Newline}))
           /\ LinesOf(t \o Append(p, Newline)) = Append(LinesOf(t), p)
           /\ p # << >> => LinesOf(t \o p) = Append(LinesOf(t), p)
<1> DEFINE C == L \cup {Newline}
           n == Len(t)
           k == Len(p)
           N == Newlines(t)
           all == Append(p, Newline)
           u == t \o all
           v == t \o p
<1>1. p \in Seq(C) /\ all \in Seq(C) /\ Len(all) = k + 1 /\ all[k + 1] = Newline
      /\ t \in Seq(C)
      /\ (\A i \in 1..k : all[i] = p[i] /\ p[i] # Newline)
      /\ n \in Nat /\ k \in Nat
  <2>1. p \in Seq(C)
    BY SeqMonotonic
  <2>2. \A i \in 1..k : p[i] \in L
    BY ElementOfSeq
  <2> QED
    BY <2>1, <2>2, LenProperties, AppendProperties
<1> HIDE DEF all, C
<1>2. /\ u \in Seq(C) /\ Len(u) = n + (k + 1)
      /\ \A i \in 1..(n + (k + 1)) : u[i] = IF i <= n THEN t[i] ELSE all[i - n]
  <2>1. /\ u \in Seq(C) /\ Len(u) = Len(t) + Len(all)
        /\ \A i \in 1..(Len(t) + Len(all)) :
              u[i] = IF i <= Len(t) THEN t[i] ELSE all[i - Len(t)]
    <3>1. t \in Seq(C) /\ all \in Seq(C)
      BY <1>1
    <3> QED
      BY <3>1, ConcatProperties
  <2>2. Len(all) = k + 1
    BY <1>1
  <2> HIDE DEF u, k
  <2> QED
    BY <2>1, <2>2
<1>3. /\ v \in Seq(C) /\ Len(v) = n + k
      /\ \A i \in 1..(n + k) : v[i] = IF i <= n THEN t[i] ELSE p[i - n]
  BY <1>1, ConcatProperties
<1>4. DOMAIN t = 1..n /\ DOMAIN u = 1..(n + (k + 1)) /\ DOMAIN v = 1..(n + k)
  <2> HIDE DEF u, v
  <2>1. DOMAIN t = 1..n
    BY <1>1, LenProperties
  <2>2. DOMAIN u = 1..(n + (k + 1)) /\ DOMAIN v = 1..(n + k)
    BY <1>2, <1>3, LenProperties
  <2> QED
    BY <2>1, <2>2
<1>5. N \in SUBSET DOMAIN t /\ (t = << >> \/ n \in N)
  <2>1. t # << >> => n \in 1..n
    BY <1>1, EmptySeq
  <2> QED
    BY <1>4, <2>1 DEF Newlines
<1> HIDE DEF u, v, k, n
<1>6. /\ \A i \in 1..n : u[i] = t[i] /\ v[i] = t[i]
      /\ \A i \in 1..k : u[n + i] = p[i] /\ v[n + i] = p[i]
      /\ u[n + k + 1] = Newline
  <2>1. \A i \in 1..n : i \in 1..(n + (k + 1)) /\ i \in 1..(n + k) /\ i <= n
    BY <1>1
  <2>2. \A i \in 1..k : /\ n + i \in 1..(n + (k + 1)) /\ n + i \in 1..(n + k)
                        /\ ~(n + i <= n) /\ (n + i) - n = i
    BY <1>1
  <2>3. n + k + 1 \in 1..(n + (k + 1)) /\ ~(n + k + 1 <= n) /\ (n + k + 1) - n = k + 1
    BY <1>1
  <2>4. \A i \in 1..n : u[i] = t[i] /\ v[i] = t[i]
    BY <1>2, <1>3, <2>1
  <2>5. \A i \in 1..k : u[n + i] = p[i] /\ v[n + i] = p[i]
    BY <1>1, <1>2, <1>3, <2>2
  <2>6. u[n + k + 1] = Newline
    BY <1>1, <1>2, <2>3
  <2> QED
    BY <2>4, <2>5, <2>6
<1>7. Newlines(u) = N \cup {n + k + 1} /\ Newlines(v) = N
  <2>1. \A i \in 1..(n + (k + 1)) : i \in 1..n \/ (i - n \in 1..k /\ i = n + (i - n))
                                        \/ i = n + k + 1
    BY <1>1
  <2>2. \A i \in 1..(n + k) : i \in 1..n \/ (i - n \in 1..k /\ i = n + (i - n))
    BY <1>1
  <2>3. \A i \in 1..n : i \in 1..(n + (k + 1)) /\ i \in 1..(n + k)
    BY <1>1
  <2>4. n + k + 1 \in 1..(n + (k + 1))
    BY <1>1
  <2>5. \A i \in 1..k : u[n + i] # Newline /\ v[n + i] # Newline
    BY <1>1, <1>6
  <2>6. Newlines(u) = N \cup {n + k + 1}
    <3>1. \A i \in 1..(n + (k + 1)) : u[i] = Newline <=> i \in N \/ i = n + k + 1
      <4> SUFFICES ASSUME NEW i \in 1..(n + (k + 1))
                   PROVE  u[i] = Newline <=> i \in N \/ i = n + k + 1
        OBVIOUS
      <4>1. CASE i \in 1..n
        BY <1>1, <1>4, <1>6, <4>1 DEF Newlines
      <4>2. CASE i - n \in 1..k /\ i = n + (i - n)
        <5>1. u[i] # Newline
          BY <2>5, <4>2
        <5>2. i \notin 1..n /\ i # n + k + 1
          BY <1>1, <4>2
        <5> QED
          BY <1>4, <1>5, <5>1, <5>2
      <4>3. CASE i = n + k + 1
        BY <1>6, <4>3
      <4> QED
        BY <2>1, <4>1, <4>2, <4>3
    <3>2. \A i \in N : i \in 1..(n + (k + 1))
      BY <1>4, <1>5, <2>3
    <3> QED
      BY <1>4, <2>4, <3>1, <3>2 DEF Newlines
  <2>7. Newlines(v) = N
    <3>1. \A i \in 1..(n + k) : v[i] = Newline <=> i \in N
      <4> SUFFICES ASSUME NEW i \in 1..(n + k) PROVE v[i] = Newline <=> i \in N
        OBVIOUS
      <4>1. CASE i \in 1..n
        BY <1>1, <1>4, <1>6, <4>1 DEF Newlines
      <4>2. CASE i - n \in 1..k /\ i = n + (i - n)
        <5>1. v[i] # Newline
          BY <2>5, <4>2
        <5>2. i \notin 1..n
          BY <1>1, <4>2
        <5> QED
          BY <1>4, <1>5, <5>1, <5>2
      <4> QED
        BY <2>2, <4>1, <4>2
    <3>2. \A i \in N : i \in 1..(n + k)
      BY <1>4, <1>5, <2>3
    <3> QED
      BY <1>4, <3>1, <3>2 DEF Newlines
  <2> QED
    BY <2>6, <2>7
<1>8. LinesOf(t) = Pieces(t, N)
  <2>1. ~(t # << >> /\ n \notin N)
    BY <1>5
  <2> QED
    BY <2>1 DEF LinesOf, Pieces, Newlines, n
<1>9. LinesOf(u) = Pieces(u, N \cup {n + k + 1})
  <2>1. Len(u) = n + k + 1
    BY <1>1, <1>2
  <2>2. ~(u # << >> /\ Len(u) \notin Newlines(u))
    BY <1>7, <2>1
  <2>3. LinesOf(u) = Pieces(u, Newlines(u))
    BY <2>2 DEF LinesOf, Pieces, Newlines
  <2> QED
    BY <1>7, <2>3
<1>10. p # << >> => LinesOf(v) = Pieces(v, N \cup {n + k + 1})
  <2> SUFFICES ASSUME p # << >>
               PROVE  LinesOf(v) = Pieces(v, N \cup {n + k + 1})
    OBVIOUS
  <2>1. k # 0
    BY EmptySeq DEF k
  <2>2. Len(v) = n + k /\ v # << >> /\ Len(v) \notin Newlines(v) /\ Len(v) + 1 = n + k + 1
    <3>1. n + k \notin 1..n /\ n + k # 0
      BY <1>1, <2>1
    <3> QED
      BY <1>1, <1>3, <1>4, <1>5, <1>7, <3>1, EmptySeq
  <2>3. LinesOf(v) = Pieces(v, Newlines(v) \cup {Len(v) + 1})
    BY <2>2 DEF LinesOf, Pieces, Newlines
  <2> QED
    BY <1>7, <2>2, <2>3
<1>11. /\ Pieces(t, N) \in Seq(Seq(C))
       /\ Pieces(u, N \cup {n + k + 1}) = Append(Pieces(t, N), p)
       /\ Pieces(v, N \cup {n + k + 1}) = Append(Pieces(t, N), p)
  <2>1. /\ Len(u) >= Len(t) + Len(p) /\ Len(v) >= Len(t) + Len(p)
        /\ \A i \in 1..Len(t) : u[i] = t[i]
        /\ \A i \in 1..Len(t) : v[i] = t[i]
        /\ \A i \in 1..Len(p) : u[Len(t) + i] = p[i]
        /\ \A i \in 1..Len(p) : v[Len(t) + i] = p[i]
    <3>1. Len(u) >= n + k /\ Len(v) >= n + k
      BY <1>1, <1>2, <1>3
    <3> QED
      BY <1>6, <3>1 DEF n, k
  <2> DEFINE m == Len(t) + Len(p) + 1
  <2>2. Continues(C, u, t, p, N, m) /\ Continues(C, v, t, p, N, m)
    <3>1. /\ p \in Seq(C) /\ t \in Seq(C) /\ u \in Seq(C) /\ v \in Seq(C)
          /\ N \in SUBSET DOMAIN t /\ (t = << >> \/ Len(t) \in N)
      BY <1>1, <1>2, <1>3, <1>5 DEF n
    <3> HIDE DEF N
    <3> QED
      BY <2>1, <3>1 DEF Continues
  <2> HIDE DEF N, m
  <2>3. /\ Pieces(t, N) \in Seq(Seq(C))
        /\ Pieces(u, N \cup {m}) = Append(Pieces(t, N), p)
        /\ Pieces(v, N \cup {m}) = Append(Pieces(t, N), p)
    BY <2>2, PiecesNext
  <2> QED
    BY <2>3 DEF n, k, m
<1> QED
  BY <1>8, <1>9, <1>10, <1>11 DEF C, u, v, all

(***************************************************************************)
(* The lines of the history are read back from their text, and so are      *)
(* those of a text that ends within a line.                                *)
(***************************************************************************)
LEMMA LinesOfJoined ==
    ASSUME NEW L, NEW lines \in Seq(Seq(L)), Newline \notin L
    PROVE  /\ LinesOf(Joined(lines)) = lines
           /\ Joined(lines) \in Seq(L \cup {Newline})
           /\ Joined(lines) = << >> \/ Joined(lines)[Len(Joined(lines))] = Newline
<1> DEFINE C == L \cup {Newline}
           Split(x) == /\ LinesOf(Joined(x)) = x
                       /\ Joined(x) \in Seq(C)
                       /\ Joined(x) = << >> \/ Joined(x)[Len(Joined(x))] = Newline
           K == {x \in Seq(Seq(L)) : Split(x)}
<1>1. << >> \in K
  <2>1. [i \in DOMAIN << >> |-> Append(<< >>[i], Newline)] = << >>
    OBVIOUS
  <2>2. Joined(<< >>) = << >>
    BY <2>1, FlattenNothing DEF Joined
  <2>3. LinesOf(<< >>) = << >>
    <3>1. {i \in DOMAIN << >> : << >>[i] = Newline} = {}
      OBVIOUS
    <3>2. Cardinality({}) = 0 /\ 1..0 = {}
      BY FS_EmptySet
    <3> QED
      BY <3>1, <3>2 DEF LinesOf
  <2> QED
    BY <2>2, <2>3, EmptySeq
<1>2. ASSUME NEW x \in Seq(Seq(L)), NEW e \in Seq(L), x \in K
      PROVE  Append(x, e) \in K
  <2> DEFINE J == Joined(x)
             last == Append(e, Newline)
             next == Joined(Append(x, e))
  <2>1. /\ Append(x, e) \in Seq(Seq(L))
        /\ x \in Seq(Seq(C)) /\ e \in Seq(C) /\ Newline \in C /\ last \in Seq(C)
        /\ Len(last) \in Nat \ {0} /\ last[Len(last)] = Newline
    <3>1. x \in Seq(Seq(C)) /\ e \in Seq(C) /\ Newline \in C
      <4>1. Seq(L) \subseteq Seq(C)
        BY SeqMonotonic
      <4> HIDE DEF C
      <4> QED
        BY <4>1, SeqMonotonic DEF C
    <3> HIDE DEF C
    <3> QED
      BY <3>1, AppendProperties, LenProperties
  <2>2. Split(x) /\ x = LinesOf(J)
    BY <1>2
  <2>3. next = J \o last /\ J \in Seq(C)
    <3> HIDE DEF C
    <3> QED
      BY <2>1, JoinedAppend
  <2>4. LinesOf(J \o last) = Append(x, e)
    <3> HIDE DEF J
    <3> QED
      BY <2>2, <2>3, LinesOfNext DEF J
  <2>5. next \in Seq(C) /\ next[Len(next)] = Newline
    <3> HIDE DEF next, J, last, C
    <3>1. /\ next \in Seq(C) /\ Len(next) = Len(J) + Len(last)
          /\ \A i \in 1..(Len(J) + Len(last)) :
                next[i] = IF i <= Len(J) THEN J[i] ELSE last[i - Len(J)]
      BY <2>1, <2>3, ConcatProperties
    <3>2. Len(J) \in Nat /\ Len(last) \in Nat \ {0}
      BY <2>1, <2>3, LenProperties
    <3>3. /\ Len(next) \in 1..(Len(J) + Len(last)) /\ ~(Len(next) <= Len(J))
          /\ Len(next) - Len(J) = Len(last)
      BY <3>1, <3>2
    <3> QED
      BY <2>1, <3>1, <3>3
  <2>6. Split(Append(x, e))
    <3> HIDE DEF C, J, last
    <3> QED
      BY <2>3, <2>4, <2>5
  <2> QED
    BY <2>1, <2>6
<1>3. Seq(Seq(L)) \subseteq K
  <2> HIDE DEF K
  <2> QED
    BY <1>1, <1>2, SeqInduction
<1> QED
  BY <1>3

(***************************************************************************)
(* What a program finds in a file that holds a beginning of the history.   *)
(***************************************************************************)
LEMMA FileIsReadBack ==
    ASSUME NEW L, NEW lines \in Seq(Seq(L)), Newline \notin L,
           NEW x \in Prefixes(FileText(lines)), IsUtf8(x)
    PROVE  LET found == LinesOf(Characters(x))
           IN  /\ found \in Seq(Seq(L))
               /\ Len(found) <= Len(lines)
               /\ \A i \in DOMAIN found :
                     IF i < Len(found) THEN found[i] = lines[i]
                     ELSE IsPrefix(found[i], lines[i])
               /\ FileText(found) = x \/ FileText(found) = x \o BytesOf(Newline)
<1> DEFINE C == L \cup {Newline}
<1>1. lines \in Seq(Seq(C)) /\ Newline \in C
  <2>1. Seq(L) \subseteq Seq(C)
    BY SeqMonotonic
  <2> HIDE DEF C
  <2> QED
    BY <2>1, SeqMonotonic DEF C
<1>2. FileText(lines) = Utf8(Joined(lines)) /\ Joined(lines) \in Seq(C)
  <2> HIDE DEF C
  <2> QED
    BY <1>1, FileTextIsUtf8, LinesOfJoined DEF C
<1>3. PICK y \in Prefixes(Joined(lines)) : x = Utf8(y)
  <2> HIDE DEF C
  <2> QED
    BY <1>2, DecodesPrefix
<1>4. y \in Seq(C)
  <2> HIDE DEF C
  <2> QED
    BY <1>2, PrefixesType
<1>5. Characters(x) = y
  <2> HIDE DEF C
  <2> QED
    BY <1>3, <1>4, CharactersOfUtf8
<1>6. PICK n \in 0..Len(lines) : CutAfter(lines, n, y)
  <2> HIDE DEF C
  <2> QED
    BY <1>1, CutLines
<1> DEFINE m == SubSeq(lines, 1, n)
<1>7. /\ m \in Seq(Seq(L)) /\ Len(m) = n /\ n \in Nat /\ Len(lines) \in Nat
      /\ \A i \in 1..n : m[i] = lines[i]
  BY PrefixType, LenProperties
<1>8. m \in Seq(Seq(C))
  <2>1. Seq(L) \subseteq Seq(C)
    BY SeqMonotonic
  <2> HIDE DEF C, m
  <2> QED
    BY <1>7, <2>1, SeqMonotonic
<1>9. /\ LinesOf(Joined(m)) = m /\ Joined(m) \in Seq(C)
      /\ Joined(m) = << >> \/ Joined(m)[Len(Joined(m))] = Newline
      /\ FileText(m) = Utf8(Joined(m))
  <2> HIDE DEF m
  <2>1. /\ LinesOf(Joined(m)) = m /\ Joined(m) \in Seq(C)
        /\ Joined(m) = << >> \/ Joined(m)[Len(Joined(m))] = Newline
    BY <1>7, LinesOfJoined
  <2> HIDE DEF C
  <2> QED
    BY <1>1, <1>8, <2>1, FileTextIsUtf8
<1>10. CASE y = Joined(m)
  <2>1. LinesOf(Characters(x)) = m /\ FileText(m) = x
    <3> HIDE DEF m, C
    <3> QED
      BY <1>3, <1>5, <1>9, <1>10
  <2>2. DOMAIN m = 1..n /\ \A i \in 1..n : m[i] \in Seq(L) /\ i <= n
    <3> HIDE DEF m
    <3> QED
      BY <1>7, LenProperties, ElementOfSeq
  <2>3. \A i \in 1..n : IsPrefix(m[i], lines[i])
    <3> HIDE DEF m
    <3> QED
      BY <1>7, <2>2, LenProperties DEF IsPrefix
  <2> HIDE DEF m
  <2> QED
    BY <1>7, <2>1, <2>2, <2>3
<1>11. ASSUME n < Len(lines), NEW p \in Prefixes(lines[n + 1]), p # << >>, y = Joined(m) \o p
       PROVE  LET found == LinesOf(Characters(x))
              IN  /\ found \in Seq(Seq(L))
                  /\ Len(found) <= Len(lines)
                  /\ \A i \in DOMAIN found :
                        IF i < Len(found) THEN found[i] = lines[i]
                        ELSE IsPrefix(found[i], lines[i])
                  /\ FileText(found) = x \/ FileText(found) = x \o BytesOf(Newline)
  <2> DEFINE found == Append(m, p)
  <2>1. n + 1 \in 1..Len(lines) /\ lines[n + 1] \in Seq(L)
    <3>1. n + 1 \in 1..Len(lines)
      BY <1>7, <1>11
    <3> QED
      BY <3>1, ElementOfSeq
  <2>2. p \in Seq(L) /\ p \in Seq(C) /\ IsPrefix(p, lines[n + 1])
    <3>1. p \in Seq(L) /\ Len(p) <= Len(lines[n + 1]) /\ p = SubSeq(lines[n + 1], 1, Len(p))
      BY <1>11, <2>1, PrefixesType
    <3>2. SubSeq(p, 1, Len(p)) = p /\ p \in Seq(C)
      BY <3>1, SubSeqFull, SeqMonotonic
    <3> QED
      BY <3>1, <3>2 DEF IsPrefix
  <2> HIDE DEF m
  <2>3. LinesOf(Characters(x)) = found
    <3>1. LinesOf(Joined(m) \o p) = Append(LinesOf(Joined(m)), p)
      BY <1>9, <1>11, <2>2, LinesOfNext
    <3> HIDE DEF C
    <3> QED
      BY <1>5, <1>9, <1>11, <3>1
  <2>4. /\ found \in Seq(Seq(L)) /\ Len(found) = n + 1
        /\ found[n + 1] = p /\ \A i \in 1..n : found[i] = m[i]
    BY <1>7, <2>2, AppendProperties
  <2>5. FileText(found) = x \o BytesOf(Newline)
    <3> HIDE DEF C
    <3>1. FileText(found) = Utf8(Joined(m)) \o Utf8(Append(p, Newline))
      BY <1>1, <1>8, <1>9, <2>2, FileTextAppend
    <3>2. Utf8(Append(p, Newline)) = Utf8(p) \o BytesOf(Newline)
      BY <1>1, <2>2, Utf8Append
    <3>3. x = Utf8(Joined(m)) \o Utf8(p)
      BY <1>3, <1>9, <1>11, <2>2, Utf8Concat
    <3>4. /\ Utf8(Joined(m)) \in Seq(C \X {1, 2}) /\ Utf8(p) \in Seq(C \X {1, 2})
          /\ BytesOf(Newline) \in Seq(C \X {1, 2})
      BY <1>1, <1>9, <2>2, Utf8Type, BytesOfType
    <3> DEFINE a == Utf8(Joined(m))
               b == Utf8(p)
               c == BytesOf(Newline)
    <3>5. (a \o b) \o c = a \o (b \o c)
      <4> HIDE DEF a, b, c
      <4> QED
        BY <3>4, ConcatAssociative, SMTT(30) DEF a, b, c
    <3> QED
      BY <3>1, <3>2, <3>3, <3>5
  <2> HIDE DEF found
  <2>6. DOMAIN found = 1..(n + 1)
    BY <2>4, LenProperties
  <2>7. ASSUME NEW i \in 1..(n + 1)
        PROVE  IF i < n + 1 THEN found[i] = lines[i] ELSE IsPrefix(found[i], lines[i])
    <3>1. CASE i \in 1..n
      BY <1>7, <2>4, <3>1, SMTT(30)
    <3>2. CASE i = n + 1
      BY <1>7, <2>2, <2>4, <3>2
    <3> QED
      BY <1>7, <3>1, <3>2
  <2>8. n + 1 <= Len(lines)
    BY <1>7, <1>11
  <2> QED
    BY <2>3, <2>4, <2>5, <2>6, <2>7, <2>8
<1> QED
  BY <1>6, <1>10, <1>11 DEF CutAfter

(***************************************************************************)
(* Overwriting one beginning of a text by another leaves the longer one.   *)
(***************************************************************************)
LEMMA OverwrittenPrefix ==
    ASSUME NEW S, NEW s \in Seq(S), NEW a \in 0..Len(s), NEW b \in 0..Len(s)
    PROVE  Overwritten(SubSeq(s, 1, a), SubSeq(s, 1, b))
              = SubSeq(s, 1, IF a <= b THEN b ELSE a)
<1> DEFINE old == SubSeq(s, 1, a)
           new == SubSeq(s, 1, b)
<1>1. /\ old \in Seq(S) /\ Len(old) = a /\ new \in Seq(S) /\ Len(new) = b
      /\ Len(s) \in Nat
      /\ \A i \in 1..a : old[i] = s[i]
  BY PrefixType, LenProperties
<1>2. CASE a <= b
  <2>1. SubSeq(old, b + 1, a) = << >>
    BY <1>1, <1>2, SubSeqEmpty
  <2>2. new \o << >> = new
    <3> HIDE DEF new
    <3> QED
      BY <1>1, ConcatEmptySeq
  <2> HIDE DEF old, new
  <2> QED
    BY <1>1, <1>2, <2>1, <2>2 DEF Overwritten, old, new
<1>3. CASE ~(a <= b)
  <2>1. SubSeq(old, b + 1, a) = SubSeq(s, b + 1, a)
    <3>1. b + 1 \in Int /\ a \in Int /\ \A i \in (b + 1)..a : i \in 1..a
      BY <1>1
    <3> HIDE DEF old
    <3> QED
      BY <1>1, <3>1, SubSeqAgrees
  <2>2. SubSeq(s, 1, b) \o SubSeq(s, b + 1, a) = SubSeq(s, 1, a)
    <3>1. 1 \in 1..(Len(s) + 1) /\ b \in (1 - 1)..Len(s) /\ a \in b..Len(s)
      BY <1>1, <1>3
    <3> QED
      BY <3>1, ConcatAdjacentSubSeq
  <2>3. Overwritten(old, new) = new \o SubSeq(old, b + 1, a)
    <3> HIDE DEF old, new
    <3> QED
      BY <1>1 DEF Overwritten
  <2> QED
    BY <1>3, <2>1, <2>2, <2>3
<1> QED
  BY <1>2, <1>3

-----------------------------------------------------------------------------
(***************************************************************************)
(* The prompt, the history and its file.  The program is left with a file  *)
(* that holds a beginning of the history, since it is written from its     *)
(* start and a longer beginning was there before; while it runs the file   *)
(* lacks at most the last newline.                                         *)
(***************************************************************************)
LineChar == UNION {{line[i] : i \in DOMAIN line} : line \in Lines}

HistoryInv ==
    /\ up \in BOOLEAN
    /\ prompt \in Seq(LineChar) /\ temp_prompt \in Seq(LineChar)
    /\ temp_prompt = draft
    /\ entries \in Seq(Seq(LineChar)) /\ offset \in 0..Len(entries)
    /\ file \in Prefixes(FileText(entries))
    /\ FileHoldsHistory

LEMMA LineFacts ==
    /\ Newline \notin LineChar
    /\ Char = LineChar \cup {Newline}
    /\ \A line \in Lines : line \in Seq(LineChar) /\ line # << >>
<1>1. Newline \notin LineChar
  BY TerminalAssumption DEF LineChar
<1>2. Char = LineChar \cup {Newline}
  BY DEF Char, LineChar
<1>3. ASSUME NEW line \in Lines
      PROVE  line \in Seq(LineChar) /\ line # << >>
  <2>1. line \in Seq({line[i] : i \in DOMAIN line}) /\ line # << >>
    BY TerminalAssumption
  <2>2. {line[i] : i \in DOMAIN line} \subseteq LineChar
    BY DEF LineChar
  <2> DEFINE own == {line[i] : i \in DOMAIN line}
  <2> HIDE DEF own
  <2>3. line \in Seq(own) /\ own \subseteq LineChar
    BY <2>1, <2>2 DEF own
  <2> QED
    BY <2>1, <2>3, SeqMonotonic
<1> QED
  BY <1>1, <1>2, <1>3

LEMMA FileTextType ==
    ASSUME NEW lines \in Seq(Seq(LineChar))
    PROVE  /\ lines \in Seq(Seq(Char))
           /\ FileText(lines) \in Seq(Char \X {1, 2})
           /\ \A l \in Seq(LineChar) :
                 /\ l \in Seq(Char)
                 /\ FileText(lines) \in Prefixes(FileText(Append(lines, l)))
                 /\ Prefixes(FileText(lines)) \subseteq Prefixes(FileText(Append(lines, l)))
<1>1. Seq(LineChar) \subseteq Seq(Char) /\ Newline \in Char
  BY LineFacts, SeqMonotonic
<1>2. lines \in Seq(Seq(Char))
  BY <1>1, SeqMonotonic
<1>3. FileText(lines) \in Seq(Char \X {1, 2})
  <2>1. << >> \in Seq(Char)
    BY EmptySeq
  <2> QED
    BY <1>1, <1>2, <2>1, FileTextAppend
<1>4. ASSUME NEW l \in Seq(LineChar)
      PROVE  /\ l \in Seq(Char)
             /\ FileText(lines) \in Prefixes(FileText(Append(lines, l)))
             /\ Prefixes(FileText(lines)) \subseteq Prefixes(FileText(Append(lines, l)))
  <2> DEFINE text == FileText(lines)
             more == Utf8(Append(l, Newline))
             B == Char \X {1, 2}
  <2>1. l \in Seq(Char)
    BY <1>1
  <2>2. FileText(Append(lines, l)) = text \o more
    BY <1>1, <1>2, <2>1, FileTextAppend
  <2>3. more \in Seq(B)
    BY <1>1, <2>1, AppendProperties, Utf8Type
  <2>4. text \in Seq(B)
    BY <1>3
  <2> HIDE DEF text, more, B
  <2>5. Prefixes(text \o more) = Prefixes(text) \cup {text \o p : p \in Prefixes(more)}
    BY <2>3, <2>4, PrefixesOfConcat
  <2>6. text \in Prefixes(text)
    BY <2>4, PrefixesType
  <2> QED
    BY <2>1, <2>2, <2>5, <2>6 DEF text
<1> QED
  BY <1>2, <1>3, <1>4

LEMMA PushedType ==
    ASSUME NEW lines \in Seq(Seq(LineChar)), NEW line \in Seq(LineChar)
    PROVE  /\ Pushed(lines, line) \in Seq(Seq(LineChar))
           /\ Pushed(lines, line) = lines \/ Pushed(lines, line) = Append(lines, line)
           /\ Len(lines) <= Len(Pushed(lines, line))
BY LenProperties, AppendProperties DEF Pushed

\* A write of the history that stops after k bytes.
LEMMA WritePrefix ==
    ASSUME NEW lines \in Seq(Seq(LineChar)), NEW line \in Seq(LineChar),
           NEW old \in Prefixes(FileText(lines)),
           NEW k \in 0..Len(FileText(Append(lines, line)))
    PROVE  LET text == FileText(Append(lines, line))
               new  == Overwritten(old, SubSeq(text, 1, k))
           IN  /\ new \in Prefixes(text)
               /\ k = Len(text) => new = text /\ Overwritten(old, text) = text
<1> DEFINE text == FileText(Append(lines, line))
           B == Char \X {1, 2}
<1>1. text \in Seq(B)
  BY AppendProperties, FileTextType
<1>2. old \in Prefixes(text)
  BY FileTextType
<1> HIDE DEF text, B
<1>3. Len(text) \in Nat /\ SubSeq(text, 1, Len(text)) = text
  BY <1>1, LenProperties, SubSeqFull
<1>4. PICK a \in 0..Len(text) : old = SubSeq(text, 1, a)
  BY <1>2 DEF Prefixes
<1>5. k \in 0..Len(text)
  BY DEF text
<1>6. Overwritten(SubSeq(text, 1, a), SubSeq(text, 1, k))
         = SubSeq(text, 1, IF a <= k THEN k ELSE a)
  BY <1>1, <1>4, <1>5, OverwrittenPrefix
<1>7. (IF a <= k THEN k ELSE a) \in 0..Len(text)
  BY <1>5
<1>8. Overwritten(old, SubSeq(text, 1, k)) \in Prefixes(text)
  BY <1>4, <1>6, <1>7 DEF Prefixes
<1>9. ASSUME k = Len(text)
      PROVE  Overwritten(old, SubSeq(text, 1, k)) = text /\ Overwritten(old, text) = text
  <2>1. a <= k
    BY <1>3, <1>9
  <2>2. Overwritten(old, SubSeq(text, 1, k)) = SubSeq(text, 1, k)
    BY <1>4, <1>6, <2>1
  <2> QED
    BY <1>3, <1>9, <2>2
<1> QED
  BY <1>8, <1>9 DEF text

LEMMA HistoryInit == Init => HistoryInv
<1> SUFFICES ASSUME Init PROVE HistoryInv
  OBVIOUS
<1>1. << >> \in Seq(LineChar) /\ << >> \in Seq(Seq(LineChar)) /\ Len(<< >>) = 0
  BY EmptySeq
<1>2. FileText(<< >>) = << >>
  <2>1. [i \in DOMAIN << >> |-> Utf8(Append(<< >>[i], Newline))] = << >>
    OBVIOUS
  <2> QED
    BY <2>1, FlattenNothing DEF FileText
<1>3. << >> \in Prefixes(<< >>)
  BY PrefixesNothing
<1>4. FileText(entries) = file /\ file \in Prefixes(FileText(entries))
  BY <1>2, <1>3 DEF Init
<1> QED
  BY <1>1, <1>4 DEF Init, HistoryInv, FileHoldsHistory, NoText

\* The program starts and finds what the file holds.
LEMMA StartFinds ==
    ASSUME HistoryInv, Start
    PROVE  /\ HistoryInv'
           /\ Len(entries') <= Len(entries)
           /\ \A i \in DOMAIN entries' :
                 IF i < Len(entries') THEN entries'[i] = entries[i]
                 ELSE IsPrefix(entries'[i], entries[i])
<1>1. /\ entries \in Seq(Seq(LineChar)) /\ file \in Prefixes(FileText(entries))
      /\ IsUtf8(file) /\ Newline \notin LineChar
      /\ entries' = LinesOf(Characters(file)) /\ file' = file
  BY LineFacts DEF HistoryInv, Start
<1>2. /\ entries' \in Seq(Seq(LineChar))
      /\ Len(entries') <= Len(entries)
      /\ \A i \in DOMAIN entries' :
            IF i < Len(entries') THEN entries'[i] = entries[i]
            ELSE IsPrefix(entries'[i], entries[i])
      /\ FileText(entries') = file \/ FileText(entries') = file \o BytesOf(Newline)
  BY <1>1, FileIsReadBack
<1>3. file' \in Prefixes(FileText(entries'))
  <2>1. file \in Seq(Char \X {1, 2})
    BY <1>1, FileTextType, PrefixesType
  <2>2. BytesOf(Newline) \in Seq(Char \X {1, 2})
    BY LineFacts, BytesOfType
  <2>3. file \in Prefixes(file) /\ file \in Prefixes(file \o BytesOf(Newline))
    <3> DEFINE B == Char \X {1, 2}
    <3> HIDE DEF B
    <3>1. file \in Seq(B) /\ BytesOf(Newline) \in Seq(B)
      BY <2>1, <2>2 DEF B
    <3> QED
      BY <3>1, PrefixesType, PrefixesOfConcat
  <2> QED
    BY <1>1, <1>2, <2>3
<1>4. FileHoldsHistory'
  BY <1>1, <1>2 DEF FileHoldsHistory
<1>5. offset' \in 0..Len(entries')
  BY <1>2, LenProperties DEF Start
<1>6. /\ up' \in BOOLEAN /\ prompt' \in Seq(LineChar) /\ temp_prompt' \in Seq(LineChar)
      /\ temp_prompt' = draft'
  BY EmptySeq DEF Start, NoText
<1> QED
  BY <1>2, <1>3, <1>4, <1>5, <1>6 DEF HistoryInv

\* Enter, and a quit: the history that is written whole.
LEMMA HistoryWritten ==
    ASSUME HistoryInv,
           prompt # NoText,
           entries' = Pushed(entries, prompt),
           up,
           file' = IF entries' = entries THEN file
                   ELSE Overwritten(file, FileText(entries'))
    PROVE  /\ entries' \in Seq(Seq(LineChar)) /\ Len(entries) <= Len(entries')
           /\ file' \in Prefixes(FileText(entries'))
           /\ FileText(entries') \in {file', file' \o BytesOf(Newline)}
<1>1. /\ entries \in Seq(Seq(LineChar)) /\ prompt \in Seq(LineChar)
      /\ file \in Prefixes(FileText(entries))
      /\ FileText(entries) \in {file, file \o BytesOf(Newline)}
  BY DEF HistoryInv, FileHoldsHistory
<1>2. /\ entries' \in Seq(Seq(LineChar)) /\ Len(entries) <= Len(entries')
      /\ entries' = entries \/ entries' = Append(entries, prompt)
  BY <1>1, PushedType
<1>3. CASE entries' = entries
  BY <1>1, <1>2, <1>3
<1>4. CASE entries' # entries
  <2> DEFINE text == FileText(Append(entries, prompt))
             k == Len(text)
  <2>1. text \in Seq(Char \X {1, 2})
    <3>1. Append(entries, prompt) \in Seq(Seq(LineChar))
      BY <1>2, <1>4
    <3> QED
      BY <3>1, FileTextType
  <2>2. k \in 0..k
    <3> HIDE DEF text
    <3> QED
      BY <2>1, LenProperties
  <2>3. Overwritten(file, text) = text
    BY <1>1, <2>2, WritePrefix
  <2>4. text \in Prefixes(text)
    <3> HIDE DEF text
    <3> QED
      BY <2>1, PrefixesType
  <2>5. file' = text /\ FileText(entries') = text
    BY <1>2, <1>4, <2>3
  <2> HIDE DEF text
  <2> QED
    BY <1>2, <2>4, <2>5
<1> QED
  BY <1>3, <1>4

LEMMA PrevEntryType ==
    ASSUME HistoryInv, PrevEntry
    PROVE  /\ prompt' \in Seq(LineChar) /\ offset' \in 0..Len(entries)
           /\ offset < Len(entries) => offset' < Len(entries)
<1>1. /\ entries \in Seq(Seq(LineChar)) /\ prompt \in Seq(LineChar)
      /\ offset \in 0..Len(entries) /\ Len(entries) \in Nat
      /\ \A i \in 1..Len(entries) : entries[i] \in Seq(LineChar)
      /\ entries # << >> => Len(entries) # 0
  BY LenProperties, ElementOfSeq, EmptySeq DEF HistoryInv
<1>2. CASE entries = << >> /\ UNCHANGED <<prompt, offset>>
  BY <1>1, <1>2
<1>3. CASE /\ Len(entries) = 1 /\ offset = 1
           /\ prompt' = entries[1]
           /\ UNCHANGED offset
  BY <1>1, <1>3
<1>4. CASE /\ entries # << >> /\ ~(Len(entries) = 1 /\ offset = 1)
           /\ offset' = IF offset >= 1 THEN offset - 1 ELSE offset
           /\ prompt' = entries[offset' + 1]
  <2>1. offset' \in 0..Len(entries) /\ offset' + 1 \in 1..Len(entries)
    BY <1>1, <1>4
  <2>2. prompt' \in Seq(LineChar)
    BY <1>1, <1>4, <2>1
  <2> QED
    BY <1>1, <1>4, <2>1, <2>2
<1> QED
  BY <1>2, <1>3, <1>4 DEF PrevEntry

LEMMA NextEntryType ==
    ASSUME HistoryInv, NextEntry
    PROVE  /\ prompt' \in Seq(LineChar) /\ offset' \in 0..Len(entries)
           /\ (offset < Len(entries) /\ offset' = Len(entries) /\ temp_prompt # NoText)
                 => prompt' = temp_prompt
<1>1. /\ entries \in Seq(Seq(LineChar)) /\ prompt \in Seq(LineChar)
      /\ temp_prompt \in Seq(LineChar)
      /\ offset \in 0..Len(entries) /\ Len(entries) \in Nat
      /\ \A i \in 1..Len(entries) : entries[i] \in Seq(LineChar)
  BY LenProperties, ElementOfSeq DEF HistoryInv
<1>2. offset' \in 0..Len(entries)
  BY <1>1 DEF NextEntry, AtHead
<1>3. CASE offset' < Len(entries)
  <2>1. offset' + 1 \in 1..Len(entries)
    <3> DEFINE n == Len(entries)
               k == offset'
    <3>1. n \in Nat /\ k \in 0..n /\ k < n
      BY <1>1, <1>2, <1>3
    <3> HIDE DEF n, k
    <3>2. k + 1 \in 1..n
      BY <3>1
    <3> QED
      BY <3>2 DEF n, k
  <2>2. prompt' = entries[offset' + 1]
    BY <1>3 DEF NextEntry
  <2> QED
    BY <1>1, <1>2, <1>3, <2>1, <2>2
<1>4. CASE ~(offset' < Len(entries))
  <2>1. prompt' = IF temp_prompt # NoText THEN temp_prompt ELSE prompt
    BY <1>4 DEF NextEntry
  <2> QED
    BY <1>1, <1>2, <2>1
<1> QED
  BY <1>3, <1>4

LEMMA HistoryStep == HistoryInv /\ [Next]_vars => HistoryInv'
<1> SUFFICES ASSUME HistoryInv, [Next]_vars PROVE HistoryInv'
  OBVIOUS
<1> USE DEF HistoryInv, FileHoldsHistory
<1>1. ASSUME UNCHANGED <<up, shell, history, draft>>
      PROVE  HistoryInv'
  BY <1>1 DEF shell, history
<1>2. ASSUME NEW key, PopupKey(key) PROVE HistoryInv'
  BY <1>1, <1>2 DEF PopupKey
<1>3. ASSUME NEW line \in Lines \cup {NoText}, Type(line) PROVE HistoryInv'
  <2>1. line \in Seq(LineChar)
    BY LineFacts, EmptySeq DEF NoText
  <2> QED
    BY <1>3, <2>1 DEF Type, history
<1>4. CASE KeyUp
  <2>1. prompt' \in Seq(LineChar) /\ offset' \in 0..Len(entries)
    <3> HIDE DEF HistoryInv, FileHoldsHistory
    <3> QED
      BY <1>4, PrevEntryType DEF KeyUp
  <2> QED
    BY <1>4, <2>1 DEF KeyUp
<1>5. CASE KeyDown
  <2>1. prompt' \in Seq(LineChar) /\ offset' \in 0..Len(entries)
    <3> HIDE DEF HistoryInv, FileHoldsHistory
    <3> QED
      BY <1>5, NextEntryType DEF KeyDown
  <2> QED
    BY <1>5, <2>1 DEF KeyDown
<1>6. CASE Enter
  <2> HIDE DEF HistoryInv, FileHoldsHistory
  <2>1. /\ entries' \in Seq(Seq(LineChar))
        /\ file' \in Prefixes(FileText(entries'))
        /\ FileText(entries') \in {file', file' \o BytesOf(Newline)}
    BY <1>6, HistoryWritten DEF Enter
  <2>2. offset' \in 0..Len(entries')
    BY <1>6, <2>1, LenProperties DEF Enter
  <2>3. prompt' \in Seq(LineChar)
    BY <1>6, EmptySeq DEF Enter, NoText
  <2>4. UNCHANGED <<up, temp_prompt, draft>>
    BY <1>6 DEF Enter
  <2> QED
    BY <2>1, <2>2, <2>3, <2>4 DEF HistoryInv, FileHoldsHistory
<1>7. CASE Quit
  <2> HIDE DEF HistoryInv, FileHoldsHistory
  <2>1. prompt # NoText
    BY <1>7 DEF Quit, NoText
  <2>2. /\ entries' \in Seq(Seq(LineChar)) /\ Len(entries) <= Len(entries')
        /\ file' \in Prefixes(FileText(entries'))
    BY <1>7, <2>1, HistoryWritten DEF Quit
  <2>3. offset' \in 0..Len(entries')
    BY <1>7, <2>2, LenProperties DEF Quit, Leaves, HistoryInv
  <2>4. UNCHANGED <<prompt, temp_prompt, draft>> /\ ~up' /\ up' \in BOOLEAN
    BY <1>7 DEF Quit, Leaves, shell
  <2> QED
    BY <2>2, <2>3, <2>4 DEF HistoryInv, FileHoldsHistory
<1>8. CASE WriteFails
  <2> HIDE DEF HistoryInv, FileHoldsHistory
  <2>1. entries' = Append(entries, prompt) /\ entries' \in Seq(Seq(LineChar))
        /\ Len(entries) <= Len(entries')
    BY <1>8, PushedType DEF WriteFails, HistoryInv
  <2>2. FileText(entries') \in Seq(Char \X {1, 2})
    BY <2>1, FileTextType
  <2>3. Len(FileText(entries')) \in Nat
    <3> DEFINE text == FileText(entries')
    <3> HIDE DEF text
    <3>1. text \in Seq(Char \X {1, 2})
      BY <2>2 DEF text
    <3> QED
      BY <3>1, LenProperties DEF text
  <2>4. PICK k \in 0..(Len(FileText(entries')) - 1) :
             file' = Overwritten(file, SubSeq(FileText(entries'), 1, k))
    BY <1>8 DEF WriteFails
  <2>5. k \in 0..Len(FileText(Append(entries, prompt)))
    BY <2>1, <2>3
  <2>6. file' \in Prefixes(FileText(entries'))
    BY <2>1, <2>4, <2>5, WritePrefix DEF HistoryInv
  <2>7. offset' \in 0..Len(entries')
    BY <1>8, <2>1, LenProperties DEF WriteFails, Leaves, HistoryInv
  <2>8. UNCHANGED <<prompt, temp_prompt, draft>> /\ ~up' /\ up' \in BOOLEAN
    BY <1>8 DEF WriteFails, Leaves, shell
  <2> QED
    BY <2>1, <2>6, <2>7, <2>8 DEF HistoryInv, FileHoldsHistory
<1>9. CASE Start
  <2> HIDE DEF HistoryInv, FileHoldsHistory
  <2> QED
    BY <1>9, StartFinds
<1>10. CASE TaskAppend \/ TaskRead \/ TaskStatus \/ StatusShown \/ StreamShown
  <2>1. UNCHANGED <<up, shell, history, draft>>
    BY <1>10 DEF TaskAppend, TaskRead, TaskStatus, StatusShown, StreamShown, Shows
  <2> QED
    BY <1>1, <2>1
<1>11. CASE StreamPanics
  <2>1. UNCHANGED <<prompt, temp_prompt, entries, offset, file, draft>> /\ ~up' /\ up' \in BOOLEAN
    BY <1>11 DEF StreamPanics, Leaves, shell
  <2> QED
    BY <2>1
<1>12. CASE UNCHANGED vars
  BY <1>1, <1>12 DEF vars
<1> HIDE DEF HistoryInv, FileHoldsHistory
<1> QED
  BY <1>2, <1>3, <1>4, <1>5, <1>6, <1>7, <1>8, <1>9, <1>10, <1>11, <1>12 DEF Next

LEMMA HistoryAlways == Spec => []HistoryInv
BY HistoryInit, HistoryStep, PTL DEF Spec

\* OffsetInHistory: the offset of the history stays within it, through
\* commands, walks, failed writes and restarts.
THEOREM OffsetStaysInHistory == Spec => []OffsetInHistory
<1>1. HistoryInv => OffsetInHistory
  BY DEF HistoryInv, OffsetInHistory
<1> QED
  BY <1>1, HistoryAlways, PTL

\* FileHoldsHistory: as long as the program runs its file has the lines of the
\* history, although it is overwritten in place after any failed writes.
THEOREM FileIsTheHistory == Spec => []FileHoldsHistory
<1>1. HistoryInv => FileHoldsHistory
  BY DEF HistoryInv
<1> QED
  BY <1>1, HistoryAlways, PTL

\* RestartLosesOnlyTheEnd: what State::new reads from the file is the history
\* of the last program, cut off at the end.
THEOREM RestartReadsABeginning == Spec => RestartLosesOnlyTheEnd
<1>1. HistoryInv /\ [Next]_vars =>
        [~up /\ up' =>
            /\ Len(entries') <= Len(entries)
            /\ \A i \in DOMAIN entries' :
                  IF i < Len(entries') THEN entries'[i] = entries[i]
                  ELSE IsPrefix(entries'[i], entries[i])]_vars
  <2> SUFFICES ASSUME HistoryInv, Next, ~up, up'
               PROVE  /\ Len(entries') <= Len(entries)
                      /\ \A i \in DOMAIN entries' :
                            IF i < Len(entries') THEN entries'[i] = entries[i]
                            ELSE IsPrefix(entries'[i], entries[i])
    OBVIOUS
  <2>1. Start
    BY DEF Next, PopupKey, Type, KeyUp, KeyDown, Enter, Quit, WriteFails, Leaves,
           TaskAppend, TaskRead, TaskStatus, StatusShown, StreamShown, StreamPanics
  <2> QED
    BY <2>1, StartFinds
<1> QED
  BY <1>1, HistoryAlways, PTL DEF Spec, RestartLosesOnlyTheEnd

\* DraftComesBack: walking back to the end of the history brings back the text
\* the prompt had when the walk began.
THEOREM DraftIsBroughtBack == Spec => DraftComesBack
<1>1. HistoryInv /\ [Next]_vars =>
        [offset < Len(entries) /\ offset' = Len(entries) /\ up' /\ prompt' # NoText
            /\ draft # NoText => prompt' = draft]_vars
  <2> SUFFICES ASSUME HistoryInv, Next, offset < Len(entries), offset' = Len(entries),
                      up', prompt' # NoText, draft # NoText
               PROVE  prompt' = draft
    OBVIOUS
  <2>1. offset' # offset /\ temp_prompt = draft
    BY LenProperties DEF HistoryInv
  <2>2. CASE KeyUp
    <3>1. offset' < Len(entries)
      BY <2>2, PrevEntryType DEF KeyUp
    <3> QED
      BY <3>1, LenProperties DEF HistoryInv
  <2>3. CASE KeyDown
    BY <2>1, <2>3, NextEntryType DEF KeyDown
  <2>4. KeyUp \/ KeyDown
    BY <2>1 DEF Next, PopupKey, Type, Enter, Quit, WriteFails, Start, Leaves,
           TaskAppend, TaskRead, TaskStatus, StatusShown, StreamShown, StreamPanics,
           Shows, history
  <2> QED
    BY <2>2, <2>3, <2>4
<1> QED
  BY <1>1, HistoryAlways, PTL DEF Spec, DraftComesBack

-----------------------------------------------------------------------------
(***************************************************************************)
(* The log of the node: what is stored is what was written, event by       *)
(* event, and a command that waits is the line of a command.               *)
(***************************************************************************)
Names == Seq(LineChar)

Payload(name, n) == Utf8(name) \o Json(n)

Reply == [type : {"status", "stream"},
          records : Seq([revision : Nat, payload : Seq(Byte)])]

TaskInv ==
    /\ calls \in Seq(Names) /\ \A i \in DOMAIN calls : calls[i] # << >>
    /\ replies \in Seq(Reply)
    /\ written \in Seq([name : Names, event : 1..MaxAppends])
    /\ stored \in Seq([length : Nat, bytes : Seq(Byte)])
    /\ Len(stored) = Len(written)
    /\ \A i \in 1..Len(written) :
          stored[i] = [length |-> Len(written[i].name),
                       bytes  |-> Payload(written[i].name, written[i].event)]

LEMMA PayloadType ==
    ASSUME NEW name \in Names, NEW n \in 1..MaxAppends
    PROVE  /\ Utf8(name) \in Seq(Byte)
           /\ Payload(name, n) \in Seq(Byte)
           /\ Json(n) = <<<<"json", n>>>>
           /\ Len(Payload(name, n)) = Len(Utf8(name)) + 1
           /\ Len(name) \in Nat /\ Len(Utf8(name)) \in Nat
           /\ Len(name) <= Len(Utf8(name))
           /\ \A i \in 1..Len(Utf8(name)) : Payload(name, n)[i] = Utf8(name)[i]
           /\ Payload(name, n)[Len(Utf8(name)) + 1] = <<"json", n>>
<1>1. Utf8(name) \in Seq(LineChar \X {1, 2}) /\ Len(name) <= Len(Utf8(name))
  BY Utf8Type, Utf8Length DEF Names
<1>2. LineChar \X {1, 2} \subseteq Byte
  BY LineFacts DEF Byte
<1>3. Utf8(name) \in Seq(Byte)
  <2> DEFINE B == LineChar \X {1, 2}
  <2>1. Utf8(name) \in Seq(B) /\ B \subseteq Byte
    BY <1>1, <1>2
  <2> HIDE DEF B
  <2> QED
    BY <2>1, SeqMonotonic
<1>4. <<"json", n>> \in Byte
  BY DEF Byte
<1> DEFINE s == Utf8(name)
           e == <<"json", n>>
<1>5. Json(n) = <<e>>
  BY DEF Json
<1>6. Payload(name, n) = s \o <<e>>
  BY <1>5 DEF Payload
<1>7. Len(name) \in Nat
  BY LenProperties DEF Names
<1> HIDE DEF s, e
<1>8. /\ Append(s, e) = s \o <<e>> /\ Append(s, e) \in Seq(Byte)
      /\ Len(Append(s, e)) = Len(s) + 1 /\ Len(s) \in Nat
      /\ Append(s, e)[Len(s) + 1] = e
      /\ \A i \in 1..Len(s) : Append(s, e)[i] = s[i]
  <2>1. s \in Seq(Byte) /\ e \in Byte
    BY <1>3, <1>4 DEF s, e
  <2> QED
    BY <2>1, AppendIsConcat, AppendProperties, LenProperties
<1>9. /\ Payload(name, n) \in Seq(Byte)
      /\ Len(Payload(name, n)) = Len(s) + 1
      /\ \A i \in 1..Len(s) : Payload(name, n)[i] = s[i]
      /\ Payload(name, n)[Len(s) + 1] = e
  BY <1>6, <1>8
<1> QED
  BY <1>1, <1>3, <1>5, <1>7, <1>8, <1>9 DEF s, e

\* What a read answers, whatever was stored.
LEMMA OnReadStreamType ==
    ASSUME NEW log \in Seq([length : Nat, bytes : Seq(Byte)]), NEW name
    PROVE  OnReadStream(log, name) \in Seq([revision : Nat, payload : Seq(Byte)])
<1> DEFINE E == [length : Nat, bytes : Seq(Byte)]
           R == [revision : Nat, payload : Seq(Byte)]
           K == {i \in DOMAIN log : SubSeq(log[i].bytes, 1, log[i].length) = Utf8(name)}
           own == SubSeqAt(log, K)
           f == [i \in DOMAIN own |->
                   [revision |-> i - 1,
                    payload  |-> SubSeq(own[i].bytes, own[i].length + 1, Len(own[i].bytes))]]
<1>1. own \in Seq(E)
  <2>1. K \in SUBSET DOMAIN log
    OBVIOUS
  <2> HIDE DEF K, E
  <2>2. log \in Seq(E)
    BY DEF E
  <2> QED
    BY <2>1, <2>2, SubSeqAtType
<1> HIDE DEF own
<1>2. Len(own) \in Nat /\ DOMAIN own = 1..Len(own) /\ \A i \in 1..Len(own) : own[i] \in E
  <2> HIDE DEF E
  <2> QED
    BY <1>1, LenProperties, ElementOfSeq
<1>3. ASSUME NEW i \in 1..Len(own)
      PROVE  f[i] \in R
  <2> DEFINE b == own[i].bytes
             a == own[i].length + 1
             z == Len(own[i].bytes)
  <2>1. own[i].bytes \in Seq(Byte) /\ own[i].length \in Nat /\ i - 1 \in Nat
    BY <1>2
  <2>2. a \in Nat \ {0}
    BY <2>1
  <2>3. b \in Seq(Byte)
    BY <2>1
  <2> HIDE DEF a
  <2>4. SubSeq(b, a, Len(b)) \in Seq(Byte)
    <3> HIDE DEF b
    <3>1. Len(b) \in Nat /\ \A j \in 1..Len(b) : b[j] \in Byte
      BY <2>3, LenProperties, ElementOfSeq
    <3>2. \A j \in a..Len(b) : b[j] \in Byte
      BY <2>2, <3>1
    <3>3. a \in Int /\ Len(b) \in Int
      BY <2>2, <3>1
    <3> QED
      BY <3>2, <3>3, SubSeqProperties
  <2>5. f[i] = [revision |-> i - 1, payload |-> SubSeq(b, a, Len(b))]
    BY <1>2 DEF a
  <2> HIDE DEF f, b
  <2> QED
    BY <2>1, <2>4, <2>5
<1>4. f \in Seq(R)
  <2>1. f = [i \in 1..Len(own) |-> f[i]]
    BY <1>2
  <2> HIDE DEF f, R
  <2> QED
    BY <1>2, <1>3, <2>1, SeqByParts
<1>5. OnReadStream(log, name) = f
  BY DEF OnReadStream, own
<1> QED
  BY <1>4, <1>5

LEMMA TaskInit == Init => TaskInv
<1> SUFFICES ASSUME Init PROVE TaskInv
  OBVIOUS
<1>1. \A S : << >> \in Seq(S)
  BY EmptySeq
<1>2. Len(<< >>) = 0 /\ 1..0 = {} /\ DOMAIN << >> = {}
  BY EmptySeq
<1> QED
  BY <1>1, <1>2 DEF Init, TaskInv

\* Taking a call from the mailbox.
LEMMA CallTaken ==
    ASSUME NEW S, NEW q \in Seq(S), q # << >>, \A i \in DOMAIN q : q[i] # << >>
    PROVE  /\ Head(q) \in S /\ Head(q) # << >>
           /\ Tail(q) \in Seq(S) /\ \A i \in DOMAIN Tail(q) : Tail(q)[i] # << >>
<1>1. Len(q) \in Nat \ {0} /\ DOMAIN q = 1..Len(q)
  BY EmptySeq, LenProperties
<1>2. /\ Head(q) \in S /\ Tail(q) \in Seq(S) /\ Len(Tail(q)) = Len(q) - 1
      /\ \A i \in 1..Len(Tail(q)) : Tail(q)[i] = q[i + 1]
  BY HeadTailProperties
<1>3. DOMAIN Tail(q) = 1..Len(Tail(q))
  BY <1>2, LenProperties
<1>4. Head(q) = q[1] /\ 1 \in DOMAIN q
  BY <1>1
<1>5. \A i \in 1..Len(Tail(q)) : i + 1 \in DOMAIN q
  BY <1>1, <1>2
<1> QED
  BY <1>2, <1>3, <1>4, <1>5

LEMMA StoredAppend ==
    ASSUME TaskInv, NEW name \in Names, Len(written) < MaxAppends,
           stored' = OnAppendStream(stored, name, Json(Len(written) + 1)),
           written' = Append(written, [name |-> name, event |-> Len(written) + 1])
    PROVE  /\ written' \in Seq([name : Names, event : 1..MaxAppends])
           /\ stored' \in Seq([length : Nat, bytes : Seq(Byte)])
           /\ Len(stored') = Len(written')
           /\ \A i \in 1..Len(written') :
                 stored'[i] = [length |-> Len(written'[i].name),
                               bytes  |-> Payload(written'[i].name, written'[i].event)]
<1> DEFINE W == [name : Names, event : 1..MaxAppends]
           E == [length : Nat, bytes : Seq(Byte)]
           n == Len(written)
           m == n + 1
           w == [name |-> name, event |-> m]
           e == [length |-> Len(name), bytes |-> Payload(name, m)]
<1>1. /\ written \in Seq(W) /\ stored \in Seq(E) /\ Len(stored) = n /\ n \in Nat
      /\ \A i \in 1..n : stored[i] = [length |-> Len(written[i].name),
                                      bytes  |-> Payload(written[i].name, written[i].event)]
  BY LenProperties DEF TaskInv
<1>2. m \in 1..MaxAppends
  <2>1. MaxAppends \in Nat
    BY TerminalAssumption
  <2> QED
    BY <1>1, <2>1
<1>3. stored' = Append(stored, e) /\ written' = Append(written, w)
  BY DEF OnAppendStream, Payload
<1>4. w \in W /\ e \in E /\ w.name = name /\ w.event = m
  <2> HIDE DEF m
  <2> QED
    BY <1>2, PayloadType
<1>5. e = [length |-> Len(w.name), bytes |-> Payload(w.name, w.event)]
  BY <1>4
<1> HIDE DEF w, e, W, E
<1>6. /\ written' \in Seq(W) /\ Len(written') = m /\ written'[m] = w
      /\ \A i \in 1..n : written'[i] = written[i]
  BY <1>1, <1>3, <1>4, AppendProperties
<1>7. /\ stored' \in Seq(E) /\ Len(stored') = m /\ stored'[m] = e
      /\ \A i \in 1..n : stored'[i] = stored[i]
  <2>1. /\ stored' \in Seq(E) /\ Len(stored') = Len(stored) + 1
        /\ stored'[Len(stored) + 1] = e
        /\ \A i \in 1..Len(stored) : stored'[i] = stored[i]
    <3>1. stored \in Seq(E) /\ e \in E
      BY <1>1, <1>4
    <3>2. /\ Append(stored, e) \in Seq(E) /\ Len(Append(stored, e)) = Len(stored) + 1
          /\ Append(stored, e)[Len(stored) + 1] = e
          /\ \A i \in 1..Len(stored) : Append(stored, e)[i] = stored[i]
      BY <3>1, AppendProperties
    <3>3. stored' = Append(stored, e)
      BY <1>3
    <3> QED
      BY <3>2, <3>3
  <2>2. Len(stored) = n
    BY <1>1
  <2> HIDE DEF n
  <2> QED
    BY <2>1, <2>2
<1>8. \A i \in 1..m : i \in 1..n \/ i = m
  BY <1>1
<1>9. \A i \in 1..m : stored'[i] = [length |-> Len(written'[i].name),
                                    bytes  |-> Payload(written'[i].name, written'[i].event)]
  <2> HIDE DEF m, n
  <2> QED
    BY <1>1, <1>5, <1>6, <1>7, <1>8
<1> QED
  BY <1>6, <1>7, <1>9 DEF W, E

LEMMA TaskStep == HistoryInv /\ TaskInv /\ [Next]_vars => TaskInv'
<1> SUFFICES ASSUME HistoryInv, TaskInv, [Next]_vars PROVE TaskInv'
  OBVIOUS
<1>1. ASSUME UNCHANGED task
      PROVE  TaskInv'
  BY <1>1 DEF TaskInv, task
<1>2. ASSUME Leaves
      PROVE  TaskInv'
  <2>1. calls' = << >> /\ replies' = << >>
        /\ ((stored' = << >> /\ written' = << >>) \/ UNCHANGED <<stored, written>>)
    BY <1>2 DEF Leaves
  <2>2. (\A S : << >> \in Seq(S)) /\ Len(<< >>) = 0 /\ 1..0 = {} /\ DOMAIN << >> = {}
    BY EmptySeq
  <2> QED
    BY <2>1, <2>2 DEF TaskInv
<1>3. CASE Enter
  <2>1. prompt \in Names /\ prompt # << >>
    BY <1>3 DEF Enter, HistoryInv, Names, NoText
  <2>2. CASE calls' = calls
    <3>1. UNCHANGED task
      BY <1>3, <2>2 DEF Enter, task
    <3> QED
      BY <1>1, <3>1
  <2>3. CASE calls' = Append(calls, prompt)
    <3>1. calls \in Seq(Names) /\ \A i \in DOMAIN calls : calls[i] # << >>
      BY DEF TaskInv
    <3>2. calls' \in Seq(Names) /\ \A i \in DOMAIN calls' : calls'[i] # << >>
      <4>1. /\ calls' \in Seq(Names) /\ Len(calls') = Len(calls) + 1
            /\ calls'[Len(calls) + 1] = prompt
            /\ \A i \in 1..Len(calls) : calls'[i] = calls[i]
        BY <2>1, <2>3, <3>1, AppendProperties
      <4>2. Len(calls) \in Nat /\ DOMAIN calls = 1..Len(calls)
        BY <3>1, LenProperties
      <4>3. DOMAIN calls' = 1..(Len(calls) + 1)
        BY <4>1, LenProperties
      <4>4. \A i \in 1..(Len(calls) + 1) : i \in 1..Len(calls) \/ i = Len(calls) + 1
        BY <4>2
      <4> QED
        BY <2>1, <3>1, <4>1, <4>2, <4>3, <4>4
    <3>3. UNCHANGED <<replies, stored, written>>
      BY <1>3 DEF Enter
    <3> QED
      BY <3>2, <3>3 DEF TaskInv
  <2> QED
    BY <1>3, <2>2, <2>3 DEF Enter
<1>4. ASSUME calls # << >>
      PROVE  /\ Head(calls) \in Names /\ Head(calls) # << >>
             /\ Tail(calls) \in Seq(Names) /\ \A i \in DOMAIN Tail(calls) : Tail(calls)[i] # << >>
  BY <1>4, CallTaken DEF TaskInv
<1>5. CASE TaskAppend
  <2>1. /\ Head(calls) \in Names /\ Head(calls) # << >>
        /\ calls' \in Seq(Names) /\ \A i \in DOMAIN calls' : calls'[i] # << >>
        /\ replies' = replies
    BY <1>4, <1>5 DEF TaskAppend
  <2>2. CASE UNCHANGED <<stored, written>>
    BY <2>1, <2>2 DEF TaskInv
  <2>3. CASE ~UNCHANGED <<stored, written>>
    <3> DEFINE name == Tail(Head(calls))
    <3>1. name \in Names
      BY <2>1, HeadTailProperties DEF Names
    <3>2. /\ Len(written) < MaxAppends
          /\ stored' = OnAppendStream(stored, name, Json(Len(written) + 1))
          /\ written' = Append(written, [name |-> name, event |-> Len(written) + 1])
      BY <1>5, <2>3 DEF TaskAppend
    <3> HIDE DEF name
    <3>3. /\ written' \in Seq([name : Names, event : 1..MaxAppends])
          /\ stored' \in Seq([length : Nat, bytes : Seq(Byte)])
          /\ Len(stored') = Len(written')
          /\ \A i \in 1..Len(written') :
                stored'[i] = [length |-> Len(written'[i].name),
                              bytes  |-> Payload(written'[i].name, written'[i].event)]
      BY <3>1, <3>2, StoredAppend
    <3>4. replies' \in Seq(Reply)
      BY <2>1 DEF TaskInv
    <3> QED
      BY <2>1, <3>3, <3>4 DEF TaskInv
  <2> QED
    BY <2>2, <2>3
<1>6. CASE TaskRead
  <2>1. /\ calls' \in Seq(Names) /\ \A i \in DOMAIN calls' : calls'[i] # << >>
        /\ UNCHANGED <<stored, written>>
    BY <1>4, <1>6 DEF TaskRead
  <2> DEFINE records == OnReadStream(stored, Tail(Head(calls)))
             reply == [type |-> "stream", records |-> records]
  <2>2. reply \in Reply
    <3>1. records \in Seq([revision : Nat, payload : Seq(Byte)])
      BY OnReadStreamType DEF TaskInv
    <3> HIDE DEF records
    <3> QED
      BY <3>1 DEF Reply
  <2>3. replies' = replies \/ replies' = Append(replies, reply)
    BY <1>6 DEF TaskRead
  <2> HIDE DEF reply
  <2>4. replies \in Seq(Reply)
    BY DEF TaskInv
  <2>5. replies' \in Seq(Reply)
    BY <2>2, <2>3, <2>4, AppendProperties
  <2> QED
    BY <2>1, <2>5 DEF TaskInv
<1>7. CASE TaskStatus
  <2>1. /\ calls' \in Seq(Names) /\ \A i \in DOMAIN calls' : calls'[i] # << >>
        /\ UNCHANGED <<stored, written>>
    BY <1>4, <1>7 DEF TaskStatus
  <2> DEFINE reply == [type |-> "status", records |-> << >>]
  <2>2. reply \in Reply
    BY EmptySeq DEF Reply
  <2>3. replies' = Append(replies, reply)
    BY <1>7 DEF TaskStatus
  <2> HIDE DEF reply
  <2>4. replies \in Seq(Reply)
    BY DEF TaskInv
  <2>5. replies' \in Seq(Reply)
    BY <2>2, <2>3, <2>4, AppendProperties
  <2> QED
    BY <2>1, <2>5 DEF TaskInv
<1>8. CASE StatusShown \/ StreamShown
  <2>1. replies # << >> /\ replies' = Tail(replies) /\ UNCHANGED <<calls, stored, written>>
    BY <1>8 DEF StatusShown, StreamShown, Shows
  <2>2. replies' \in Seq(Reply)
    BY <2>1, HeadTailProperties DEF TaskInv
  <2> QED
    BY <2>1, <2>2 DEF TaskInv
<1>9. CASE Quit \/ WriteFails \/ StreamPanics
  BY <1>2, <1>9 DEF Quit, WriteFails, StreamPanics
<1>10. CASE Start \/ KeyUp \/ KeyDown \/ (\E key : PopupKey(key)) \/ (\E line : Type(line))
             \/ UNCHANGED vars
  <2>1. UNCHANGED task
    BY <1>10 DEF Start, KeyUp, KeyDown, PopupKey, Type, vars
  <2> QED
    BY <1>1, <2>1
<1> QED
  BY <1>3, <1>5, <1>6, <1>7, <1>8, <1>9, <1>10 DEF Next

LEMMA TaskAlways == Spec => []TaskInv
<1>1. Spec => [](HistoryInv /\ TaskInv)
  <2>1. Init => HistoryInv /\ TaskInv
    BY HistoryInit, TaskInit
  <2>2. (HistoryInv /\ TaskInv) /\ [Next]_vars => (HistoryInv /\ TaskInv)'
    BY HistoryStep, TaskStep
  <2> QED
    BY <2>1, <2>2, PTL DEF Spec
<1> QED
  BY <1>1, PTL

(***************************************************************************)
(* Streams.  Up to the first character of two bytes the bytes of a text    *)
(* are its characters, so an id with such a character is taken for no id   *)
(* that has none, although the reader counts its bytes wrongly.            *)
(***************************************************************************)
Narrow(text) == \A i \in 1..Len(text) : text[i] \notin Wide

LEMMA Utf8Start ==
    ASSUME NEW C, NEW t \in Seq(C), NEW i \in 1..Len(t),
           \A j \in 1..Len(t) : j < i => t[j] \notin Wide
    PROVE  Utf8(t)[i] = <<t[i], 1>>
<1> DEFINE Starts(x) == \A k \in 1..Len(x) :
                           (\A j \in 1..Len(x) : j < k => x[j] \notin Wide)
                              => Utf8(x)[k] = <<x[k], 1>>
           K == {x \in Seq(C) : Starts(x)}
<1>1. << >> \in K
  BY EmptySeq
<1>2. ASSUME NEW x \in Seq(C), NEW e \in C, x \in K
      PROVE  Append(x, e) \in K
  <2> DEFINE u == Append(x, e)
             n == Len(x)
             b == Utf8(x)
  <2>1. /\ u \in Seq(C) /\ Len(u) = n + 1 /\ n \in Nat /\ u[n + 1] = e
        /\ \A k \in 1..n : u[k] = x[k]
    BY AppendProperties, LenProperties
  <2>2. Utf8(u) = b \o BytesOf(e) /\ b \in Seq(C \X {1, 2})
    BY Utf8Append
  <2>3. /\ Len(b) >= n /\ Len(b) \in Nat
        /\ (\A k \in 1..n : x[k] \notin Wide) => Len(b) = n
    <3>1. /\ Len(b) >= n /\ ((\A k \in 1..n : x[k] \notin Wide) => Len(b) = n)
      BY Utf8Length
    <3> HIDE DEF b
    <3> QED
      BY <2>2, <3>1, LenProperties
  <2>4. /\ BytesOf(e) \in Seq(C \X {1, 2}) /\ BytesOf(e)[1] = <<e, 1>>
        /\ Len(BytesOf(e)) \in Nat \ {0}
    <3>1. /\ BytesOf(e) \in Seq(C \X {1, 2}) /\ BytesOf(e)[1] = <<e, 1>>
          /\ Len(BytesOf(e)) = IF e \in Wide THEN 2 ELSE 1
      BY BytesOfType
    <3>2. Len(BytesOf(e)) \in Nat \ {0}
      BY <3>1
    <3> QED
      BY <3>1, <3>2
  <2>5. \A k \in 1..(Len(b) + Len(BytesOf(e))) :
           Utf8(u)[k] = IF k <= Len(b) THEN b[k] ELSE BytesOf(e)[k - Len(b)]
    <3> DEFINE B == C \X {1, 2}
               c == BytesOf(e)
    <3> HIDE DEF b, c, B
    <3>1. b \in Seq(B) /\ c \in Seq(B) /\ Utf8(u) = b \o c
      BY <2>2, <2>4 DEF B, c
    <3>2. \A k \in 1..(Len(b) + Len(c)) :
             (b \o c)[k] = IF k <= Len(b) THEN b[k] ELSE c[k - Len(b)]
      BY <3>1, ConcatProperties
    <3> QED
      BY <3>1, <3>2 DEF c
  <2> HIDE DEF u, b, n
  <2>6. ASSUME NEW k \in 1..(n + 1), \A j \in 1..(n + 1) : j < k => u[j] \notin Wide
        PROVE  Utf8(u)[k] = <<u[k], 1>>
    <3>1. CASE k \in 1..n
      <4>1. k \in 1..(Len(b) + Len(BytesOf(e))) /\ k <= Len(b)
        BY <2>1, <2>3, <2>4, <3>1
      <4>2. \A j \in 1..n : j < k => x[j] \notin Wide
        <5>1. \A j \in 1..n : j \in 1..(n + 1)
          BY <2>1
        <5> QED
          BY <2>1, <2>6, <5>1
      <4>3. b[k] = <<x[k], 1>>
        BY <1>2, <3>1, <4>2 DEF b, n
      <4> QED
        BY <2>1, <2>5, <3>1, <4>1, <4>3
    <3>2. CASE k = n + 1
      <4>1. \A j \in 1..n : j \in 1..(n + 1) /\ j < k
        BY <2>1, <3>2
      <4>2. \A j \in 1..n : x[j] \notin Wide
        BY <2>1, <2>6, <4>1
      <4>3. Len(b) = n
        BY <2>3, <4>2
      <4>4. k \in 1..(Len(b) + Len(BytesOf(e))) /\ ~(k <= Len(b)) /\ k - Len(b) = 1
        BY <2>1, <2>4, <3>2, <4>3
      <4> QED
        BY <2>1, <2>4, <2>5, <3>2, <4>4
    <3> QED
      BY <2>1, <3>1, <3>2
  <2>7. Starts(u)
    BY <2>1, <2>6
  <2> QED
    BY <2>1, <2>7 DEF u
<1>3. Seq(C) \subseteq K
  <2> HIDE DEF K
  <2> QED
    BY <1>1, <1>2, SeqInduction
<1>4. Starts(t)
  BY <1>3
<1> QED
  BY <1>4

\* What the reader takes for the id of an event is the id that is asked for only
\* when the event was written under it.
LEMMA TakenForName ==
    ASSUME NEW name \in Names, NEW other \in Names, NEW n \in 1..MaxAppends, Narrow(name)
    PROVE  SubSeq(Payload(other, n), 1, Len(other)) = Utf8(name) <=> other = name
<1> DEFINE k == Len(other)
           bytes == Utf8(other)
           taken == SubSeq(Payload(other, n), 1, k)
<1>1. /\ Payload(other, n) \in Seq(Byte) /\ k \in Nat /\ Len(bytes) \in Nat /\ k <= Len(bytes)
      /\ Len(Payload(other, n)) = Len(bytes) + 1
      /\ \A i \in 1..Len(bytes) : Payload(other, n)[i] = bytes[i]
  BY PayloadType
<1>2. Len(taken) = k /\ taken \in Seq(Byte) /\ \A i \in 1..k : taken[i] = bytes[i]
  <2> HIDE DEF bytes, k
  <2>1. k \in 0..Len(Payload(other, n)) /\ \A i \in 1..k : i \in 1..Len(bytes)
    BY <1>1
  <2> QED
    BY <1>1, <2>1, PrefixType
<1>3. /\ Len(Utf8(name)) = Len(name) /\ Utf8(name) \in Seq(Byte)
      /\ \A i \in 1..Len(name) : Utf8(name)[i] = <<name[i], 1>>
  BY Utf8Length, PayloadType DEF Narrow, Names
<1>4. ASSUME taken = Utf8(name)
      PROVE  other = name
  <2>1. k = Len(name)
    <3> HIDE DEF taken
    <3> QED
      BY <1>2, <1>3, <1>4
  <2>2. \A i \in 1..k : bytes[i] = <<name[i], 1>>
    <3> HIDE DEF taken, bytes, k
    <3> QED
      BY <1>2, <1>3, <1>4, <2>1
  <2>3. ASSUME NEW i \in 1..k, \A j \in 1..k : j < i => other[j] \notin Wide
        PROVE  other[i] = name[i]
    <3>1. bytes[i] = <<other[i], 1>>
      BY <2>3, Utf8Start DEF Names
    <3> HIDE DEF bytes
    <3>2. <<other[i], 1>> = <<name[i], 1>>
      BY <2>2, <3>1
    <3> QED
      BY <3>2
  <2> DEFINE W == {i \in 1..k : other[i] \in Wide}
  <2>4. W = {}
    <3> SUFFICES ASSUME W # {} PROVE FALSE
      OBVIOUS
    <3>1. PICK i \in W : \A j \in W : i <= j
      <4>1. W \in SUBSET Nat
        BY <1>1
      <4> HIDE DEF W
      <4> QED
        BY <4>1, SmallestExists
    <3>2. \A j \in 1..k : j < i => other[j] \notin Wide
      <4>1. \A j \in 1..k : j < i => ~(i <= j)
        BY <1>1
      <4> QED
        BY <3>1, <4>1
    <3>3. other[i] = name[i] /\ i \in 1..Len(name)
      BY <2>1, <2>3, <3>2
    <3> QED
      BY <3>3 DEF Narrow
  <2>5. \A i \in 1..k : other[i] = name[i]
    BY <2>3, <2>4
  <2> QED
    BY <2>1, <2>5, SeqEqual DEF Names
<1>5. ASSUME other = name
      PROVE  taken = Utf8(name)
  <2>1. Len(taken) = Len(Utf8(name)) /\ \A i \in 1..Len(taken) : taken[i] = Utf8(name)[i]
    <3> HIDE DEF taken
    <3> QED
      BY <1>2, <1>3, <1>5
  <2> HIDE DEF taken
  <2> QED
    BY <1>2, <1>3, <2>1, SeqEqual
<1> QED
  BY <1>4, <1>5

LEMMA PayloadBehind ==
    ASSUME NEW name \in Names, NEW n \in 1..MaxAppends, Narrow(name)
    PROVE  SubSeq(Payload(name, n), Len(name) + 1, Len(Payload(name, n))) = Json(n)
<1> DEFINE p == Payload(name, n)
           k == Len(name)
           m == k + 1
           s == SubSeq(p, m, Len(p))
<1>1. /\ p \in Seq(Byte) /\ k \in Nat /\ Len(p) = Len(Utf8(name)) + 1
      /\ p[Len(Utf8(name)) + 1] = <<"json", n>> /\ Json(n) = <<<<"json", n>>>>
  BY PayloadType
<1>2. Len(Utf8(name)) = k
  BY Utf8Length DEF Narrow, Names
<1>3. Len(p) = m /\ p[m] = <<"json", n>> /\ m \in Nat \ {0}
  BY <1>1, <1>2
<1>4. s = <<p[m]>>
  <2> HIDE DEF p, m
  <2>1. m \in 1..Len(p) /\ Len(p) \in m..Len(p) /\ m + 1 \in Int /\ Len(p) \in Int
        /\ Len(p) < m + 1
    BY <1>3
  <2>2. s = <<p[m]>> \o SubSeq(p, m + 1, Len(p))
    BY <1>1, <2>1, SubSeqRecursiveFirst
  <2>3. SubSeq(p, m + 1, Len(p)) = << >>
    BY <2>1, SubSeqEmpty
  <2>4. <<p[m]>> \in Seq(Byte)
    BY <1>1, <2>1, ElementOfSeq
  <2> QED
    BY <2>2, <2>3, <2>4, ConcatEmptySeq
<1> QED
  BY <1>1, <1>3, <1>4

\* StreamsReadBack: a stream whose id has one-byte characters only is read back
\* as it was written, whatever the other ids are.
THEOREM StreamsAreReadBack == Spec => []StreamsReadBack
<1>1. TaskInv => StreamsReadBack
  <2> SUFFICES ASSUME TaskInv, NEW name \in {Tail(line) : line \in Lines},
                      \A i \in DOMAIN name : name[i] \notin Wide
               PROVE  LET own == SubSeqAt(written, {i \in DOMAIN written :
                                                       written[i].name = name})
                      IN  OnReadStream(stored, name) =
                             [i \in DOMAIN own |-> [revision |-> i - 1,
                                                    payload  |-> Json(own[i].event)]]
    BY DEF StreamsReadBack
  <2>1. name \in Names /\ Narrow(name)
    <3>1. PICK line \in Lines : name = Tail(line)
      OBVIOUS
    <3>2. name \in Names
      BY <3>1, LineFacts, HeadTailProperties DEF Names
    <3> QED
      BY <3>2, LenProperties DEF Narrow, Names
  <2> DEFINE n == Len(written)
             K == {i \in DOMAIN written : written[i].name = name}
             L == {i \in DOMAIN stored :
                      SubSeq(stored[i].bytes, 1, stored[i].length) = Utf8(name)}
             own == SubSeqAt(written, K)
             kept == SubSeqAt(stored, L)
  <2>2. /\ n \in Nat /\ DOMAIN written = 1..n /\ DOMAIN stored = 1..n
        /\ \A i \in 1..n : /\ written[i].name \in Names /\ written[i].event \in 1..MaxAppends
                           /\ stored[i].length = Len(written[i].name)
                           /\ stored[i].bytes = Payload(written[i].name, written[i].event)
    <3>1. /\ written \in Seq([name : Names, event : 1..MaxAppends])
          /\ stored \in Seq([length : Nat, bytes : Seq(Byte)]) /\ Len(stored) = n
          /\ \A i \in 1..n :
                stored[i] = [length |-> Len(written[i].name),
                             bytes  |-> Payload(written[i].name, written[i].event)]
      BY DEF TaskInv
    <3>2. n \in Nat /\ DOMAIN written = 1..n /\ DOMAIN stored = 1..n
      BY <3>1, LenProperties
    <3>3. \A i \in 1..n : written[i] \in [name : Names, event : 1..MaxAppends]
      BY <3>1, ElementOfSeq
    <3> QED
      BY <3>1, <3>2, <3>3
  <2>3. L = K
    <3>1. ASSUME NEW i \in 1..n
          PROVE  SubSeq(stored[i].bytes, 1, stored[i].length) = Utf8(name)
                    <=> written[i].name = name
      <4> DEFINE other == written[i].name
                 e == written[i].event
      <4>1. other \in Names /\ e \in 1..MaxAppends
            /\ stored[i].length = Len(other) /\ stored[i].bytes = Payload(other, e)
        BY <2>2
      <4> HIDE DEF other, e
      <4>2. SubSeq(Payload(other, e), 1, Len(other)) = Utf8(name) <=> other = name
        BY <2>1, <4>1, TakenForName
      <4> QED
        BY <4>1, <4>2 DEF other
    <3> QED
      BY <2>2, <3>1
  <2>4. K \in SUBSET Nat /\ IsFiniteSet(K)
    <3>1. K \subseteq 1..n /\ IsFiniteSet(1..n)
      BY <2>2, FS_Interval
    <3> QED
      BY <2>2, <3>1, FS_Subset
  <2>5. \A j \in 1..Cardinality(K) : Nth(K, j) \in 1..n /\ written[Nth(K, j)].name = name
    <3>1. \A j \in 1..Cardinality(K) : Nth(K, j) \in K
      <4> HIDE DEF K
      <4> QED
        BY <2>4, NthExists
    <3> QED
      BY <2>2, <3>1
  <2>6. /\ DOMAIN own = 1..Cardinality(K) /\ DOMAIN kept = 1..Cardinality(K)
        /\ \A j \in 1..Cardinality(K) : own[j] = written[Nth(K, j)] /\ kept[j] = stored[Nth(K, j)]
    <3> HIDE DEF K, L
    <3> QED
      BY <2>3 DEF SubSeqAt
  <2>7. ASSUME NEW j \in 1..Cardinality(K)
        PROVE  SubSeq(kept[j].bytes, kept[j].length + 1, Len(kept[j].bytes)) = Json(own[j].event)
    <3> DEFINE i == Nth(K, j)
    <3>1. i \in 1..n /\ written[i].name = name /\ own[j] = written[i] /\ kept[j] = stored[i]
      BY <2>5, <2>6
    <3> HIDE DEF i, own, kept
    <3>2. /\ kept[j].bytes = Payload(name, own[j].event) /\ kept[j].length = Len(name)
          /\ own[j].event \in 1..MaxAppends
      BY <2>2, <3>1
    <3> QED
      BY <2>1, <3>2, PayloadBehind
  <2>8. OnReadStream(stored, name) =
           [j \in DOMAIN kept |->
              [revision |-> j - 1,
               payload  |-> SubSeq(kept[j].bytes, kept[j].length + 1, Len(kept[j].bytes))]]
    BY DEF OnReadStream
  <2> HIDE DEF own, kept, K
  <2> QED
    BY <2>6, <2>7, <2>8 DEF own, K
<1> QED
  BY <1>1, TaskAlways, PTL

-----------------------------------------------------------------------------
(***************************************************************************)
(* The popup, wherever its text was scrolled.                              *)
(***************************************************************************)
Popups == [shown : BOOLEAN, size : [Axis -> Nat], scroll : [Axis -> Nat]]

Fits(p) ==
    /\ p \in Popups
    /\ p.shown => \A a \in Axis : p.scroll[a] <= End(p, a)

PopupInv == Fits(popup)

LEMMA EndType ==
    ASSUME NEW p \in Popups, NEW a \in Axis
    PROVE  End(p, a) \in Nat /\ p.size[a] \in Nat /\ p.scroll[a] \in Nat
BY DEF Popups, End

LEMMA DrawnFits ==
    ASSUME NEW p, Fits(p)
    PROVE  Fits(Drawn(p))
<1> DEFINE s == [a \in Axis |-> IF p.shown /\ p.size[a] <= Screen[a] THEN 0 ELSE p.scroll[a]]
           q == Drawn(p)
<1>1. p \in Popups
  BY DEF Fits
<1>2. s \in [Axis -> Nat] /\ \A a \in Axis : s[a] = 0 \/ s[a] = p.scroll[a]
  BY <1>1, EndType
<1> HIDE DEF s
<1>3. q \in Popups /\ q.shown = p.shown /\ q.size = p.size /\ q.scroll = s
  <2>1. q = [p EXCEPT !.scroll = s]
    BY DEF Drawn, s
  <2> HIDE DEF q
  <2> QED
    BY <1>1, <1>2, <2>1 DEF Popups
<1> HIDE DEF q
<1>4. ASSUME q.shown, NEW a \in Axis
      PROVE  q.scroll[a] <= End(q, a)
  <2>1. End(q, a) = End(p, a) /\ End(p, a) \in Nat
    BY <1>1, <1>3, EndType DEF End
  <2>2. p.scroll[a] <= End(p, a)
    BY <1>3, <1>4 DEF Fits
  <2> QED
    BY <1>2, <1>3, <2>1, <2>2
<1> QED
  BY <1>3, <1>4 DEF Fits, q

LEMMA ScrollFits ==
    ASSUME NEW p, Fits(p), NEW a \in Axis, NEW n \in Nat, n <= End(p, a)
    PROVE  Fits([p EXCEPT !.scroll[a] = n])
<1> DEFINE q == [p EXCEPT !.scroll[a] = n]
<1>1. p \in Popups
  BY DEF Fits
<1>2. /\ q \in Popups /\ q.shown = p.shown /\ q.size = p.size
      /\ \A b \in Axis : q.scroll[b] = IF b = a THEN n ELSE p.scroll[b]
  BY <1>1 DEF Popups
<1> HIDE DEF q
<1>3. \A b \in Axis : End(q, b) = End(p, b)
  BY <1>2 DEF End
<1> QED
  BY <1>2, <1>3 DEF Fits, q

LEMMA ScrolledFits ==
    ASSUME NEW p, Fits(p), p.shown,
           NEW key \in {"up", "down", "pageup", "pagedown", "left", "right", "enter"}
    PROVE  Fits(Scrolled(p, key))
<1>1. p \in Popups /\ "vert" \in Axis /\ "horiz" \in Axis
  BY DEF Fits, Axis
<1>2. \A a \in Axis : /\ End(p, a) \in Nat /\ p.scroll[a] \in Nat /\ p.scroll[a] <= End(p, a)
  BY <1>1, EndType DEF Fits
<1>3. \A a \in Axis : /\ Back(p, a) \in Nat /\ Back(p, a) <= End(p, a)
                      /\ Further(p, a) \in Nat /\ Further(p, a) <= End(p, a)
                      /\ 0 \in Nat /\ 0 <= End(p, a) /\ End(p, a) <= End(p, a)
  BY <1>2 DEF Back, Further
<1>4. CASE key = "enter"
  <2> DEFINE q == [p EXCEPT !.shown = FALSE]
  <2>1. q \in Popups /\ ~q.shown
    BY <1>1 DEF Popups
  <2>2. Scrolled(p, key) = q
    BY <1>4 DEF Scrolled
  <2> HIDE DEF q
  <2> QED
    BY <2>1, <2>2 DEF Fits
<1>5. CASE key # "enter"
  <2>1. \/ Scrolled(p, key) = [p EXCEPT !.scroll["vert"] = Back(p, "vert")]
        \/ Scrolled(p, key) = [p EXCEPT !.scroll["vert"] = Further(p, "vert")]
        \/ Scrolled(p, key) = [p EXCEPT !.scroll["vert"] = 0]
        \/ Scrolled(p, key) = [p EXCEPT !.scroll["vert"] = End(p, "vert")]
        \/ Scrolled(p, key) = [p EXCEPT !.scroll["horiz"] = Back(p, "horiz")]
        \/ Scrolled(p, key) = [p EXCEPT !.scroll["horiz"] = Further(p, "horiz")]
    BY <1>5 DEF Scrolled
  <2> QED
    BY <1>1, <1>2, <1>3, <2>1, ScrollFits
<1> QED
  BY <1>4, <1>5

LEMMA OpenedFits ==
    ASSUME Fits(popup), NEW size \in [Axis -> Nat]
    PROVE  Fits(Opened(size))
<1> DEFINE q == [popup EXCEPT !.shown = TRUE, !.size = size, !.scroll = Fresh]
<1>1. Fresh \in [Axis -> Nat] /\ \A a \in Axis : Fresh[a] = 0
  BY DEF Fresh
<1>2. q \in Popups /\ q.scroll = Fresh
  <2>1. popup \in Popups
    BY DEF Fits
  <2> QED
    BY <1>1, <2>1 DEF Popups
<1> HIDE DEF q
<1>3. Fits(q)
  BY <1>1, <1>2, EndType DEF Fits
<1>4. Opened(size) = Drawn(q)
  BY DEF Opened, q
<1> QED
  BY <1>3, <1>4, DrawnFits

LEMMA PopupInit == Init => PopupInv
BY DEF Init, PopupInv, Fits, Popups, Fresh

LEMMA SizeTypes ==
    /\ ErrorSize \in [Axis -> Nat] /\ StatusSize \in [Axis -> Nat]
    /\ \A records : Len(records) \in Nat => RecordsSize(records) \in [Axis -> Nat]
BY DEF ErrorSize, StatusSize, RecordsSize, Axis

LEMMA PopupStep == PopupInv /\ TaskInv /\ [Next]_vars => PopupInv'
<1> SUFFICES ASSUME PopupInv, TaskInv, [Next]_vars PROVE PopupInv'
  OBVIOUS
<1>1. ASSUME popup' = popup
      PROVE  PopupInv'
  BY <1>1 DEF PopupInv, Fits, End, Popups
<1>2. ASSUME NEW size \in [Axis -> Nat], popup' = Opened(size)
      PROVE  PopupInv'
  <2>1. Fits(Opened(size))
    BY OpenedFits DEF PopupInv
  <2> QED
    BY <1>2, <2>1 DEF PopupInv, Fits, End
<1>3. ASSUME NEW key \in {"up", "down", "pageup", "pagedown", "left", "right", "enter"},
             PopupKey(key)
      PROVE  PopupInv'
  <2>1. Fits(Drawn(Scrolled(popup, key))) /\ popup' = Drawn(Scrolled(popup, key))
    BY <1>3, ScrolledFits, DrawnFits DEF PopupKey, PopupInv
  <2> QED
    BY <2>1 DEF PopupInv, Fits, End
<1>4. CASE Enter
  <2>1. popup' = popup \/ popup' = Opened(ErrorSize)
    BY <1>4 DEF Enter
  <2> QED
    BY <1>1, <1>2, <2>1, SizeTypes
<1>5. CASE StatusShown
  <2>1. popup' = Opened(StatusSize)
    BY <1>5 DEF StatusShown, Shows
  <2> QED
    BY <1>2, <2>1, SizeTypes
<1>6. CASE StreamShown
  <2>1. replies # << >> /\ popup' = Opened(RecordsSize(Head(replies).records))
    BY <1>6 DEF StreamShown, Shows
  <2>2. Head(replies) \in Reply
    BY <2>1, HeadTailProperties DEF TaskInv
  <2>3. Head(replies).records \in Seq([revision : Nat, payload : Seq(Byte)])
    BY <2>2 DEF Reply
  <2>4. Len(Head(replies).records) \in Nat
    BY <2>3, LenProperties
  <2> QED
    BY <1>2, <2>1, <2>4, SizeTypes
<1>7. CASE Start
  <2>1. Fresh \in [Axis -> Nat]
    BY DEF Fresh
  <2>2. popup' \in Popups /\ ~popup'.shown
    BY <1>7, <2>1 DEF Start, Popups
  <2> QED
    BY <2>2 DEF PopupInv, Fits
<1>8. CASE KeyUp \/ KeyDown \/ Quit \/ WriteFails \/ TaskAppend \/ TaskRead \/ TaskStatus
           \/ StreamPanics \/ (\E line : Type(line)) \/ UNCHANGED vars
  BY <1>1, <1>8 DEF KeyUp, KeyDown, Quit, WriteFails, Leaves, TaskAppend, TaskRead,
                    TaskStatus, StreamPanics, Type, vars
<1> QED
  BY <1>3, <1>4, <1>5, <1>6, <1>7, <1>8 DEF Next

\* ScrollWithinText: the popup never shows what lies beyond its text, whatever
\* text it was scrolled in before.
THEOREM ScrollStaysWithinText == Spec => []ScrollWithinText
<1>1. PopupInv => ScrollWithinText
  BY DEF PopupInv, Fits, ScrollWithinText
<1> QED
  BY <1>1, PopupInit, PopupStep, TaskAlways, PTL DEF Spec

\* TypeOK: every variable holds what its Rust type may hold.
THEOREM TerminalTypes == Spec => []TypeOK
<1>1. HistoryInv /\ TaskInv /\ PopupInv => TypeOK
  <2> SUFFICES ASSUME HistoryInv, TaskInv, PopupInv PROVE TypeOK
    OBVIOUS
  <2>1. Names \subseteq Text
    BY LineFacts, SeqMonotonic DEF Names, Text
  <2>2. {prompt, temp_prompt, draft} \subseteq Text
    BY <2>1 DEF HistoryInv, Names
  <2>3. entries \in Seq(Text) /\ offset \in Nat
    BY FileTextType, LenProperties DEF HistoryInv, Text
  <2>4. file \in Seq(Byte)
    <3> DEFINE B == Char \X {1, 2}
    <3>1. FileText(entries) \in Seq(B) /\ B \subseteq Byte
      BY FileTextType DEF HistoryInv, Byte
    <3> HIDE DEF B
    <3>2. file \in Seq(B)
      BY <3>1, PrefixesType DEF HistoryInv
    <3> QED
      BY <3>1, <3>2, SeqMonotonic
  <2>5. popup \in [shown : BOOLEAN, size : [Axis -> Nat], scroll : [Axis -> Nat]]
    BY DEF PopupInv, Fits, Popups
  <2>6. calls \in Seq(Text)
    BY <2>1, SeqMonotonic DEF TaskInv
  <2>7. \A i \in DOMAIN replies : replies[i].type \in {"status", "stream"}
    <3>1. \A i \in DOMAIN replies : replies[i] \in Reply
      BY LenProperties, ElementOfSeq DEF TaskInv
    <3> QED
      BY <3>1 DEF Reply
  <2>8. \A i \in DOMAIN stored : /\ stored[i].bytes \in Seq(Byte)
                                 /\ stored[i].length \in 0..Len(stored[i].bytes)
    <3> SUFFICES ASSUME NEW i \in DOMAIN stored
                 PROVE  /\ stored[i].bytes \in Seq(Byte)
                        /\ stored[i].length \in 0..Len(stored[i].bytes)
      OBVIOUS
    <3>1. i \in 1..Len(written) /\ written[i] \in [name : Names, event : 1..MaxAppends]
      BY LenProperties, ElementOfSeq DEF TaskInv
    <3> DEFINE name == written[i].name
               n == written[i].event
    <3>2. name \in Names /\ n \in 1..MaxAppends
      BY <3>1
    <3>3. stored[i].length = Len(name) /\ stored[i].bytes = Payload(name, n)
      <4>1. stored[i] = [length |-> Len(written[i].name),
                         bytes  |-> Payload(written[i].name, written[i].event)]
        BY <3>1 DEF TaskInv
      <4> QED
        BY <4>1
    <3> HIDE DEF name, n
    <3>4. /\ Payload(name, n) \in Seq(Byte) /\ Len(Payload(name, n)) = Len(Utf8(name)) + 1
          /\ Len(name) \in Nat /\ Len(Utf8(name)) \in Nat /\ Len(name) <= Len(Utf8(name))
      BY <3>2, PayloadType
    <3> QED
      BY <3>3, <3>4
  <2>9. written \in Seq([name : Text, event : Nat])
    <3>1. [name : Names, event : 1..MaxAppends] \subseteq [name : Text, event : Nat]
      BY <2>1
    <3>2. written \in Seq([name : Names, event : 1..MaxAppends])
      BY DEF TaskInv
    <3> DEFINE W == [name : Names, event : 1..MaxAppends]
               V == [name : Text, event : Nat]
    <3> HIDE DEF W, V
    <3>3. written \in Seq(W) /\ W \subseteq V
      BY <3>1, <3>2 DEF W, V
    <3>4. written \in Seq(V)
      BY <3>3, SeqMonotonic
    <3> QED
      BY <3>4 DEF V
  <2>10. up \in BOOLEAN
    BY DEF HistoryInv
  <2> QED
    BY <2>2, <2>3, <2>4, <2>5, <2>6, <2>7, <2>8, <2>9, <2>10 DEF TypeOK
<1> QED
  BY <1>1, HistoryAlways, TaskAlways, PopupInit, PopupStep, PTL DEF Spec

=============================================================================
