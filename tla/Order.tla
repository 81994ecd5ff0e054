------------------------------- MODULE Order -------------------------------
(***************************************************************************)
(* Finite sets as sequences: the order in which a pass over indices visits *)
(* those it keeps, and the one in which a sort leaves its items.           *)
(***************************************************************************)
EXTENDS Naturals, Sequences, FiniteSets

\* The members of S, each at the place it is given.
Ordered(S, place) ==
  LET upTo[k \in 0 .. Cardinality(S)] ==
        IF k = 0 THEN <<>> ELSE Append(upTo[k - 1], CHOOSE x \in S : place[x] = k)
  IN  upTo[Cardinality(S)]

\* The place of each number of a set in ascending order, and the numbers in
\* that order: how a pass over indices renumbers and collects those it keeps.
Rank(S) == [x \in S |-> Cardinality({y \in S : y <= x})]
Ascending(S) == Ordered(S, Rank(S))
=============================================================================
