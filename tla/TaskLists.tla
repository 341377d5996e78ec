------------------------------ MODULE TaskLists ------------------------------
(***************************************************************************)
(* Duplicate-free lists of tasks, the shape of Agent.bundle (the order of  *)
(* the bids) and Agent.path (the order of the visits), and what the        *)
(* allocator and the executor do to them: insert anywhere, remove, and     *)
(* take the part of a bundle that stands behind an affected task.          *)
(***************************************************************************)
EXTENDS SequencesExt

\* The duplicate-free lists of some of the elements of S.
Lists(S) == SetToAllKPermutations(S)

Precedes(p, x, y) == \E i, j \in DOMAIN p : i < j /\ p[i] = x /\ p[j] = y

\* The duplicate-free lists of exactly the elements of S that keep the order
\* in which p has them; elements p does not have may stand anywhere.
Keeping(p, S) ==
  {q \in SetToSeqs(S) : \A x, y \in S : Precedes(p, x, y) => Precedes(q, x, y)}

\* list.insert, for each element of W, at whatever index was best.
Inserted(p, W) == Keeping(p, ToSet(p) \cup W)

\* list.remove, for each element of S that p has.
Without(p, S) == CHOOSE q \in Keeping(p, ToSet(p) \ S) : TRUE

\* agent.bundle[min(positions):], the elements from the first of S on.
Suffix(p, S) ==
  {p[j] : j \in {k \in DOMAIN p : \E i \in DOMAIN p : i <= k /\ p[i] \in S}}

\* The functions that pick one element of each set of the family F.
Picks(F) ==
  {f \in [DOMAIN F -> UNION {F[a] : a \in DOMAIN F}] :
     \A a \in DOMAIN F : f[a] \in F[a]}

=============================================================================
