-------------------------- MODULE MCSkynetDispatch --------------------------
(***************************************************************************)
(* Small instances of SkynetDispatch for TLC.                              *)
(***************************************************************************)
EXTENDS SkynetDispatch, TLC

CONSTANTS w1, w2

\* One worker of weight -1 (a message per round), one of weight 0.
MixedDivisor == w1 :> 0 @@ w2 :> 1

\* A single worker of weight 0: half of the workers' share is never used.
WeightZero == w2 :> 1

\* Safety runs only: services and messages are interchangeable.
Symmetry == Permutations(Handle) \cup Permutations(Msg)
=============================================================================
