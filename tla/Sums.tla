--------------------------------- MODULE Sums ---------------------------------
(***************************************************************************)
(* The sum of the values a function has on a finite set.                   *)
(***************************************************************************)
EXTENDS Integers, FiniteSets, FiniteSetsExt

Sum(f, S) == MapThenSumSet(LAMBDA x : f[x], S)
===============================================================================
