-------------------------- MODULE MultipleUcChassis --------------------------
(***************************************************************************)
(* l1 with one microcontroller per wheel (multipleucchassismodel.cpp): the *)
(* executor's callback is Chassis::notify, which walks the wheels and has  *)
(* each write its message to its own serial port (model/chassis.h,         *)
(* model/wheel.cpp, serial/serialport.cpp).                                *)
(*                                                                         *)
(* Composes CommandExecutor, whose callback step is refined into the walk, *)
(* and SerialPort, whose io_service thread may close a port between the    *)
(* test that it is open and the write.                                     *)
(***************************************************************************)
EXTENDS Integers, Sequences

CONSTANTS Handlers, MayOverlap, MaxCommands, MaxUnread,
          WheelCount    \* MultipleUcChassisModel::WHEEL_COUNT

ASSUME OverlapAssumption == MayOverlap \in BOOLEAN
ASSUME ChassisAssumption ==
    MaxCommands \in Nat /\ MaxUnread \in Nat /\ WheelCount \in Nat

Wheels == 0..(WheelCount - 1)

VARIABLES commands, accepted, pc, cmd, own, status, delivered, undefined, alone
VARIABLES plugged, open, reading, unread, health
VARIABLES
    cursor,     \* cursor[h]: the wheel notify() has come to
    at,         \* at[h]: "check" before the test of the port, "write" after
    wire        \* wire[w]: the last message written to wheel w's port

Exec == INSTANCE CommandExecutor
Serial == INSTANCE SerialPort WITH Ports <- Wheels

execVars == <<commands, accepted, pc, cmd, own, status, delivered, undefined, alone>>
portVars == <<plugged, open, reading, unread, health>>
walkVars == <<cursor, at, wire>>
vars == <<execVars, portVars, walkVars>>

\* What drivePwm sent: a speed for the left wheels and one for the right.
Message(c, s) == [command |-> c, side |-> s]

\* PwmDriveCommand::execute: the first half of the wheels is the left side.
Values(c) ==
    [w \in Wheels |-> Message(c, IF w < WheelCount \div 2 THEN "left" ELSE "right")]

Nothing == Message(0, "none")

Init ==
    /\ Exec!Init
    /\ Serial!Init
    /\ cursor = [h \in Handlers |-> 0]
    /\ at = [h \in Handlers |-> "check"]
    /\ wire = [w \in Wheels |-> Nothing]

-----------------------------------------------------------------------------
(* Chassis::notify, run by handler h while exec() is in the callback.      *)

Walking(h) == Exec!At(h, "callback") /\ cursor[h] < WheelCount

NextWheel(h) ==
    /\ cursor' = [cursor EXCEPT ![h] = @ + 1]
    /\ at' = [at EXCEPT ![h] = "check"]

\* Faults of the definitions below: a closed port ends the walk, a failed
\* write ends it as if it had succeeded, a failed write never comes back.
StopAtClosed(h) ==
    /\ Walking(h)
    /\ at[h] = "check"
    /\ ~open[cursor[h]]
    /\ cursor' = [cursor EXCEPT ![h] = WheelCount]
    /\ UNCHANGED <<execVars, portVars, at, wire>>
WriteHangs(h) == Walking(h) /\ FALSE
IgnoreFailure(h) ==
    /\ Walking(h)
    /\ at[h] = "write"
    /\ ~Serial!Writable(cursor[h])
    /\ cursor' = [cursor EXCEPT ![h] = WheelCount]
    /\ at' = [at EXCEPT ![h] = "check"]
    /\ UNCHANGED <<execVars, portVars, wire>>

\* sendMessage finds the port open: if (*sh_sink)
SeeOpen(h) ==
    /\ Walking(h)
    /\ at[h] = "check"
    /\ open[cursor[h]]
    /\ at' = [at EXCEPT ![h] = "write"]
    /\ UNCHANGED <<execVars, portVars, cursor, wire>>

\* ... or closed, and only logs an error
SkipClosed(h) ==
    /\ Walking(h)
    /\ at[h] = "check"
    /\ ~open[cursor[h]]
    /\ NextWheel(h)
    /\ UNCHANGED <<execVars, portVars, wire>>

\* serial->write_some takes the message
WriteSome(h) ==
    /\ Walking(h)
    /\ at[h] = "write"
    /\ Serial!Writable(cursor[h])
    /\ wire' = [wire EXCEPT ![cursor[h]] = Values(cmd[h])[cursor[h]]]
    /\ NextWheel(h)
    /\ UNCHANGED <<execVars, portVars>>

\* write_some throws: the device is gone, or its port was closed meanwhile
WriteFails(h) ==
    /\ Walking(h)
    /\ at[h] = "write"
    /\ ~Serial!Writable(cursor[h])
    /\ Exec!CallbackThrows(h)
    /\ cursor' = [cursor EXCEPT ![h] = 0]
    /\ at' = [at EXCEPT ![h] = "check"]
    /\ UNCHANGED <<portVars, wire>>

NotifyReturns(h) ==
    /\ cursor[h] = WheelCount
    /\ Exec!CallbackReturns(h)
    /\ cursor' = [cursor EXCEPT ![h] = 0]
    /\ UNCHANGED <<portVars, at, wire>>

Notify(h) == SeeOpen(h) \/ SkipClosed(h) \/ WriteSome(h) \/ WriteFails(h) \/ NotifyReturns(h)

-----------------------------------------------------------------------------
Call(h) == Exec!CallStep(h) /\ UNCHANGED <<portVars, walkVars>>

ExecLoop(h) == Exec!ExecStep(h) /\ UNCHANGED <<portVars, walkVars>>

PortStep == ~undefined /\ Serial!Next /\ UNCHANGED <<execVars, walkVars>>

Next ==
    \/ \E h \in Handlers : Call(h) \/ ExecLoop(h) \/ Notify(h)
    \/ PortStep

\* Handler threads run on, the io_service thread serves its ports.
Fairness ==
    /\ \A h \in Handlers : WF_vars(ExecLoop(h) \/ Notify(h))
    /\ \A w \in Wheels : WF_vars(Serial!ReadFails(w) /\ PortStep)
    /\ WF_vars(Serial!CheckHealth /\ PortStep)

Spec == Init /\ [][Next]_vars /\ Fairness

-----------------------------------------------------------------------------
(* Properties.                                                             *)

\* Every variable has its type.
TypeOK ==
    /\ Exec!TypeOK
    /\ Serial!TypeOK
    /\ cursor \in [Handlers -> 0..WheelCount]
    /\ at \in [Handlers -> {"check", "write"}]
    /\ wire \in [Wheels -> [command : 0..MaxCommands, side : {"none", "left", "right"}]]

Quiet == commands = <<>> /\ \A h \in Handlers : ~Exec!Busy(h)

\* As long as calls do not overlap: once the queue is empty and every call
\* answered, each wheel whose port is still open has been sent the latest
\* command, its own side of it, whatever failed on the way to the others.
HealthyWheelsFollow ==
    Quiet /\ alone /\ accepted > 0 =>
        \A w \in Wheels : open[w] => wire[w] = Values(accepted)[w]

\* ... a drive call answered OK has reached every wheel whose port is open,
OkMeansApplied ==
    alone => \A h \in Handlers, w \in Wheels :
        status[h] = "OK" /\ open[w] => wire[w].command >= own[h]

\* ... and no wheel is ever sent an older command after a newer one, although
\* a command whose write failed is launched again by the next call.
NeverGoesBack ==
    [][alone' => \A w \in Wheels : wire'[w].command >= wire[w].command]_vars

\* However calls overlap and fail, a microcontroller that is lost is reported
\* by the health check from some time on and for good.
LossesReported == []~undefined => Serial!LossReported

\* The walk is a callback as the executor expects one: it comes back or
\* throws, and touches the queue in no other way.
IsExecutor == Exec!Spec

-----------------------------------------------------------------------------
(* The inductive invariant behind the safety properties.                   *)

\* A handler that is not in the callback will begin its walk at wheel 0.
AtRest == \A h \in Handlers : pc[h] # "callback" => cursor[h] = 0

\* What wheel w was sent when it has followed the first n commands.
Latest(n, w) == IF n = 0 THEN Nothing ELSE Values(n)[w]

\* A wheel that can be reached has followed the commands that have left the
\* queue, and perhaps the next one: its launch is under way, or has failed.
InStep ==
    \A w \in Wheels : open[w] =>
        \/ wire[w] = Latest(Exec!Done, w)
        \/ (Exec!Done < accepted /\ wire[w] = Latest(Exec!Done + 1, w))

\* The walk leaves no wheel that can be reached behind it without the command.
Informed ==
    \A h \in Handlers, w \in Wheels :
        open[w] /\ (pc[h] = "pop" \/ (pc[h] = "callback" /\ w < cursor[h]))
            => wire[w] = Values(cmd[h])[w]

Inv ==
    /\ TypeOK
    /\ Exec!Inv
    /\ AtRest
    /\ alone => InStep /\ Informed
==============================================================================
