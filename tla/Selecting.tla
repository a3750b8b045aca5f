----------------------------- MODULE Selecting -----------------------------
(***************************************************************************)
(* What standard containers and algorithms do for this code, of sets and   *)
(* functions: a filter (SelectSeq), an insertion into a map (:> and @@)    *)
(* and a sort (SortSeq), in forms that take no operator.                   *)
(***************************************************************************)
EXTENDS Integers, SequencesExt

(* What of s is in S, in the order of s.                                   *)
Kept(s, S) == FoldLeft(LAMBDA r, x : IF x \in S THEN Append(r, x) ELSE r, <<>>, s)

(* std::map::emplace: f with x mapped to v, unless it is mapped already.   *)
Inserted(f, x, v) == [y \in DOMAIN f \cup {x} |-> IF y \in DOMAIN f THEN f[y] ELSE v]

(* The elements of a finite set, sorted; before is a set of pairs.         *)
InOrderOf(S, before) ==
  [k \in 1 .. Cardinality(S) |->
     CHOOSE x \in S : Cardinality({y \in S : <<y, x>> \in before}) = k - 1]

Ascending(S) == InOrderOf(S, {p \in S \X S : p[1] < p[2]})
=============================================================================
