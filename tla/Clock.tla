------------------------------- MODULE Clock --------------------------------
(* The clock the caches, the limiter and their callers read (time.time and   *)
(* time.monotonic), in ticks.                                                *)
EXTENDS Integers

CONSTANT MaxTime    \* bound: ticks

ASSUME ClockAssumption == MaxTime \in Nat

VARIABLE now

Tick == now < MaxTime /\ now' = now + 1
=============================================================================
