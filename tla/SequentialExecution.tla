------------------------- MODULE SequentialExecution -------------------------
(***************************************************************************)
(* What l1's SequentialCommandExecutor promises: "executing Commands in    *)
(* order" (commands/sequentialcommandexecutor.h), "all registered commands *)
(* shall be launched one by one".  Commands are numbered in the order they *)
(* were registered.  At most one is being launched, it is the oldest that  *)
(* has not been done, and a launch that is aborted by an exception leaves  *)
(* its command to be launched again before any younger one.                *)
(***************************************************************************)
EXTENDS Naturals

CONSTANT MaxCommands        \* bound on the number of registered commands

NoCommand == 0

VARIABLES
    accepted,   \* the number of commands registered so far
    done,       \* commands 1..done have been launched to completion
    running     \* the command being launched, or NoCommand

vars == <<accepted, done, running>>

Init == accepted = 0 /\ done = 0 /\ running = NoCommand

Accept ==
    /\ accepted < MaxCommands
    /\ accepted' = accepted + 1
    /\ UNCHANGED <<done, running>>

Launch ==
    /\ running = NoCommand
    /\ done < accepted
    /\ running' = done + 1
    /\ UNCHANGED <<accepted, done>>

Finish ==
    /\ running # NoCommand
    /\ done' = running
    /\ running' = NoCommand
    /\ UNCHANGED accepted

Abort ==
    /\ running # NoCommand
    /\ running' = NoCommand
    /\ UNCHANGED <<accepted, done>>

Next == Accept \/ Launch \/ Finish \/ Abort

Spec == Init /\ [][Next]_vars
=============================================================================
