----------------------------- MODULE MCEbayClient -----------------------------
(***************************************************************************)
(* EbayClient for TLC.  In MCEbayClient.cfg one unit of time is 30 s: the  *)
(* leeway of 60 s is 2 units, and a request takes at most 30 s.            *)
(***************************************************************************)
EXTENDS SearchTimes, TLC

\* The calls run the same code, so any permutation of them is a symmetry of the
\* runs that check invariants only; the run with liveness does without.
CallSymmetry == Permutations(Calls)
===============================================================================
