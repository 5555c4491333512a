----------------------------- MODULE Sequencing -----------------------------
(***************************************************************************)
(* Prefix sums, and the members of a set of numbers in order: written as   *)
(* functions and choices, which the proofs can reason about.               *)
(***************************************************************************)
EXTENDS Integers, Sequences, FiniteSets

\* u[1] + ... + u[n].
Sum(u, n) ==
  LET upTo[i \in 0..n] == IF i = 0 THEN 0 ELSE upTo[i - 1] + u[i]
  IN  upTo[n]

\* Each member is above the ones before it.
Increasing(s) == \A i, j \in 1..Len(s) : i < j => s[i] < s[j]

\* All of one sequence before all of another.
Below(s, t) == \A i \in 1..Len(s), j \in 1..Len(t) : s[i] < t[j]

Members(s) == {s[i] : i \in DOMAIN s}

\* The sequence of the members of a finite set of numbers, in order.
InOrder(S) == CHOOSE s \in [1..Cardinality(S) -> S] : Increasing(s) /\ Members(s) = S
=============================================================================
