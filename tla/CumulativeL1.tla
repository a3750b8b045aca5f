---------------------------- MODULE CumulativeL1 ----------------------------
(***************************************************************************)
(* The penalty of CumulativeL1SGDLearner.cpp on one weight.  Every pass    *)
(* raises what each weight owes; a weight pays when it is updated, as far  *)
(* as it can without changing its sign, and remembers what it has paid: a  *)
(* positive weight pays downwards, a negative one upwards.  Units are      *)
(* integers.                                                               *)
(***************************************************************************)
EXTENDS Integers

Larger(a, b) == IF a > b THEN a ELSE b
Smaller(a, b) == IF a < b THEN a ELSE b

(* Mutant: what has been paid already is paid once more.                   *)
ApplyPenaltyAgain(weight, paid, owed) ==
  LET clipped == IF weight > 0 THEN Larger(0, weight - owed)
                 ELSE Smaller(0, weight + owed)
  IN  [weight |-> clipped, paid |-> paid + (clipped - weight)]

(* ApplyPenalty: owed is u, paid is penalty[fid].                          *)
ApplyPenalty(weight, paid, owed) ==
  LET clipped == IF weight > 0 THEN Larger(0, weight - (owed + paid))
                 ELSE Smaller(0, weight + (owed - paid))
  IN  [weight |-> clipped, paid |-> paid + (clipped - weight)]

(* What was paid is at most what is owed, and a weight that is not zero    *)
(* has paid it all.                                                        *)
PaidUp(weight, paid, owed) ==
  /\ paid \in -owed .. owed
  /\ weight > 0 => paid = -owed
  /\ weight < 0 => paid = owed
=============================================================================
