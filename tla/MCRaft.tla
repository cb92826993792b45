------------------------------- MODULE MCRaft -------------------------------
(***************************************************************************)
(* Small clusters for TLC.  The nodes whose timeout may not fire and that  *)
(* may not be stopped are interchangeable, the others are among            *)
(* themselves when they may do the same, and client calls always are.      *)
(***************************************************************************)
EXTENDS RaftProperties, TLC

Bystanders == Node \ (CanTimeout \cup CanStop)

Symmetry == Permutations(Bystanders) \cup Permutations(CanTimeout \ CanStop)
                \cup Permutations(CanTimeout \cap CanStop)
                \cup Permutations(CanStop \ CanTimeout) \cup Permutations(Request)

\* Restricts a run to the histories in which truncation has left no entry of
\* a follower where a batch brings another: every log is numbered upwards.
IndicesAscend ==
    \A n \in Node : \A i, j \in DOMAIN entries[n].inner :
        i < j => entries[n].inner[i].index < entries[n].inner[j].index

=============================================================================
