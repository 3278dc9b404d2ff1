----------------------------- MODULE MCLimiter ------------------------------
(***************************************************************************)
(* A small instance of Limiter for TLC: a handful of ticks and requests,   *)
(* by the readers or by the writer of a run.                               *)
(***************************************************************************)
EXTENDS Limiter

ReadersOrWriter == {Callers \ Writers, Writers}

OneEachOrFour == [c \in Callers |-> IF c \in Writers THEN 4 ELSE 1]
=============================================================================
