-------------------------- MODULE MCServerLifecycle --------------------------
(***************************************************************************)
(* ServerLifecycle for TLC and for the proofs.                             *)
(*                                                                         *)
(* The names of its specification and properties are those of one process  *)
(* among others here, so that ProcessProofs can speak of the start of l1   *)
(* (DeviceFinder) as well.  Both modules look at the main thread; where it *)
(* is after detection has a name of its own.                               *)
(***************************************************************************)
EXTENDS Naturals

CONSTANT MaxCalls   \* bound on the calls under way at a time

ASSUME MaxCallsAssumption == MaxCalls \in Nat

VARIABLES mainThread, thread, signalled, model, server, calls, undefined

Life == INSTANCE ServerLifecycle WITH main <- mainThread

LifeSpec == Life!Spec

\* Every variable of the start and the end of l1 has its type.
LifeTypeOK == Life!TypeOK

\* No call is in the service or in the chassis model when they are destroyed,
\* whenever the signal comes, and server_thread finds the model it was started
\* for.
ModelOutlivesCalls == Life!ModelOutlivesCalls

\* A signal that finds the server waiting ends the process, but for the race
\* of reset() with Wait().
SignalEnds == Life!SignalEnds
=============================================================================
