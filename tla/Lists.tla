--------------------------------- MODULE Lists ---------------------------------
(***************************************************************************)
(* Two operators on lists, in the form in which they can be proved about:  *)
(* the elements of a list that are in a set, in their order (SelectSeq     *)
(* with a set in place of a test), and a set as a list, sorted by numbers  *)
(* given to its elements (SetToSortSeq with a function in place of a       *)
(* comparison).                                                            *)
(***************************************************************************)
EXTENDS Integers, Sequences, SequencesExt, FiniteSets

Only(list, S) ==
  FlattenSeq([i \in DOMAIN list |-> IF list[i] \in S THEN <<list[i]>> ELSE << >>])

(* The n-th element is the one that n - 1 others go before.                *)
SortedBy(S, code) ==
  [n \in 1..Cardinality(S) |->
     CHOOSE x \in S : Cardinality({y \in S : code[y] < code[x]}) = n - 1]
=============================================================================
