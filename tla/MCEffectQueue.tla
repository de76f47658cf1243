---------------------------- MODULE MCEffectQueue ----------------------------
(* The queue for TLC: two workers that may claim one job each, both jobs, or
   the first of them. *)
EXTENDS EffectQueue, TLC

CONSTANTS w1, w2

EachItsOwn == w1 :> {1} @@ w2 :> {2}
EachEither == w1 :> {1, 2} @@ w2 :> {1, 2}
EachFirst  == w1 :> {1} @@ w2 :> {1}
=============================================================================
