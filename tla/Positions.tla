----------------------------- MODULE Positions -----------------------------
(***************************************************************************)
(* What a loop that skips some elements of a vector leaves of it, without  *)
(* a recursion: the elements at a set of positions.  The log of a node     *)
(* (RaftLog.tla), the streams (Streams.tla) and the lines of the history   *)
(* file (Terminal.tla) are all read this way.                              *)
(***************************************************************************)
EXTENDS Naturals, Sequences, FiniteSets

\* How many of the positions of K there are up to k.
Rank(K, k) == Cardinality({j \in K : j <= k})

\* The n-th position of K.
Nth(K, n) == CHOOSE k \in K : Rank(K, k) = n

\* The subsequence of s at the positions of K, in order.
SubSeqAt(s, K) == [n \in 1..Cardinality(K) |-> s[Nth(K, n)]]

=============================================================================
