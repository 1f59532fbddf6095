--------------------------- MODULE SingleUcChassis ---------------------------
(***************************************************************************)
(* l1 with one microcontroller for all wheels (singleucchassismodel.cpp):  *)
(* Chassis::notify collects the messages of the wheels in one JsonSink     *)
(* (utils/jsonsink.h), whose content is then taken as one packet and       *)
(* written to the only serial port.                                        *)
(*                                                                         *)
(* The sink is shared by the handler threads and has no lock.  One write   *)
(* to it, and each of the two statements of toString(), which writes out   *)
(* its content and then clears it, are assumed to be atomic.               *)
(***************************************************************************)
EXTENDS Integers, Sequences, FiniteSets

CONSTANTS Handlers, MayOverlap, MaxCommands, MaxUnread,
          WheelCount    \* SingleUcChassisModel::WHEEL_COUNT

ASSUME OverlapAssumption == MayOverlap \in BOOLEAN
ASSUME ChassisAssumption ==
    MaxCommands \in Nat /\ MaxUnread \in Nat /\ WheelCount \in Nat
ASSUME HandlersAssumption == IsFiniteSet(Handlers)     \* a pool of threads

Wheels == 0..(WheelCount - 1)
Port == 0

VARIABLES commands, accepted, pc, cmd, own, status, delivered, undefined, alone
VARIABLES plugged, open, reading, unread, health
VARIABLES
    sink,       \* JsonSink::json, a list: add_child never replaces a child
    cursor,     \* cursor[h]: the wheel notify() has come to
    at,         \* at[h]: "collect" in notify(), then "clear", "test", "write"
    packet,     \* packet[h]: what h's call of sink->toString() has written out
    wire        \* the last packet written to the port

Exec == INSTANCE CommandExecutor
Serial == INSTANCE SerialPort WITH Ports <- {Port}

execVars == <<commands, accepted, pc, cmd, own, status, delivered, undefined, alone>>
portVars == <<plugged, open, reading, unread, health>>
walkVars == <<sink, cursor, at, packet, wire>>
vars == <<execVars, portVars, walkVars>>

Entry(w, c, s) == [wheel |-> w, command |-> c, side |-> s]

\* PwmDriveCommand::execute: the first half of the wheels is the left side.
Value(w, c) == Entry(w, c, IF w < WheelCount \div 2 THEN "left" ELSE "right")

Init ==
    /\ Exec!Init
    /\ Serial!Init
    /\ sink = <<>>
    /\ cursor = [h \in Handlers |-> 0]
    /\ at = [h \in Handlers |-> "collect"]
    /\ packet = [h \in Handlers |-> <<>>]
    /\ wire = <<>>

-----------------------------------------------------------------------------
(* on_message_received, run by handler h as exec()'s callback.             *)

Doing(h, what) == Exec!At(h, "callback") /\ at[h] = what

\* Faults of the definitions below: a sink that is not cleared, a walk that
\* misses the last wheel, a failed write taken for a success.
KeepSink == UNCHANGED sink
MissLast(h) == cursor[h] >= WheelCount - 1
IgnoreFailure(h) == Exec!CallbackReturns(h)

\* sendMessage of the next wheel: a JsonSink is always ready
Collect(h) ==
    /\ Doing(h, "collect")
    /\ cursor[h] < WheelCount
    /\ sink' = Append(sink, Value(cursor[h], cmd[h]))
    /\ cursor' = [cursor EXCEPT ![h] = @ + 1]
    /\ UNCHANGED <<execVars, portVars, at, packet, wire>>

AllCollected(h) == cursor[h] = WheelCount

\* sink->toString(): write_json(ss, json)
WriteJson(h) ==
    /\ Doing(h, "collect")
    /\ AllCollected(h)
    /\ packet' = [packet EXCEPT ![h] = sink]
    /\ at' = [at EXCEPT ![h] = "clear"]
    /\ UNCHANGED <<execVars, portVars, sink, cursor, wire>>

ClearSink == sink' = <<>>

\* ... and json.clear(), which also drops what others have added since
Clear(h) ==
    /\ Doing(h, "clear")
    /\ ClearSink
    /\ at' = [at EXCEPT ![h] = "test"]
    /\ UNCHANGED <<execVars, portVars, cursor, packet, wire>>

\* SerialPort::write finds the port open: if (*this)
SeeOpen(h) ==
    /\ Doing(h, "test")
    /\ open[Port]
    /\ at' = [at EXCEPT ![h] = "write"]
    /\ UNCHANGED <<execVars, portVars, sink, cursor, packet, wire>>

LeaveCallback(h) ==
    /\ at' = [at EXCEPT ![h] = "collect"]
    /\ cursor' = [cursor EXCEPT ![h] = 0]
    /\ packet' = [packet EXCEPT ![h] = <<>>]
    /\ UNCHANGED <<portVars, sink>>

\* ... or closed, and drops the packet without a word
DropPacket(h) ==
    /\ Doing(h, "test")
    /\ ~open[Port]
    /\ Exec!CallbackReturns(h)
    /\ LeaveCallback(h)
    /\ UNCHANGED wire

\* serial->write_some takes the packet
WriteSome(h) ==
    /\ Doing(h, "write")
    /\ Serial!Writable(Port)
    /\ wire' = packet[h]
    /\ Exec!CallbackReturns(h)
    /\ LeaveCallback(h)

Failed(h) == Exec!CallbackThrows(h)

\* write_some throws: the device is gone, or the port was closed meanwhile
WriteFails(h) ==
    /\ Doing(h, "write")
    /\ ~Serial!Writable(Port)
    /\ Failed(h)
    /\ LeaveCallback(h)
    /\ UNCHANGED wire

OnMessage(h) ==
    \/ Collect(h) \/ WriteJson(h) \/ Clear(h)
    \/ SeeOpen(h) \/ DropPacket(h) \/ WriteSome(h) \/ WriteFails(h)

-----------------------------------------------------------------------------
Call(h) == Exec!CallStep(h) /\ UNCHANGED <<portVars, walkVars>>

ExecLoop(h) == Exec!ExecStep(h) /\ UNCHANGED <<portVars, walkVars>>

PortStep == ~undefined /\ Serial!Next /\ UNCHANGED <<execVars, walkVars>>

Next ==
    \/ \E h \in Handlers : Call(h) \/ ExecLoop(h) \/ OnMessage(h)
    \/ PortStep

\* Handler threads run on, the io_service thread serves its port.
Fairness ==
    /\ \A h \in Handlers : WF_vars(ExecLoop(h) \/ OnMessage(h))
    /\ WF_vars(Serial!ReadFails(Port) /\ PortStep)
    /\ WF_vars(Serial!CheckHealth /\ PortStep)

Spec == Init /\ [][Next]_vars /\ Fairness

-----------------------------------------------------------------------------
(* Properties.                                                             *)

Entries == [wheel : Wheels, command : 0..MaxCommands, side : {"left", "right"}]

\* Every variable has its type.
TypeOK ==
    /\ Exec!TypeOK
    /\ Serial!TypeOK
    /\ sink \in Seq(Entries)
    /\ cursor \in [Handlers -> 0..WheelCount]
    /\ at \in [Handlers -> {"collect", "clear", "test", "write"}]
    /\ packet \in [Handlers -> Seq(Entries)]
    /\ wire \in Seq(Entries)

\* The packet of command c when nobody interferes.
Packet(c) == [i \in 1..WheelCount |-> Value(i - 1, c)]

\* As long as calls do not overlap a packet is exactly the entries of the
\* command being launched, one per wheel: nothing an earlier call left behind,
\* whether it ended well or by an exception, is mixed in.
PacketWhole ==
    alone => \A h \in Handlers : pc[h] = "callback" /\ at[h] # "collect" => packet[h] = Packet(cmd[h])

\* Entries do not pile up in the sink, however many calls overlap or fail: it
\* holds no more than the handlers that have not cleared it yet have put there,
\* and nothing when there is none.
Collecting == {h \in Handlers : pc[h] = "callback" /\ at[h] \in {"collect", "clear"}}
Collected == {slot \in Collecting \X Wheels : slot[2] < cursor[slot[1]]}
SinkBounded == Len(sink) <= Cardinality(Collected)

\* ... and once the queue is empty and every call answered, the
\* microcontroller, if its port is still open, has been sent the whole of the
\* latest command.
RoverFollows ==
    /\ alone
    /\ commands = <<>>
    /\ \A h \in Handlers : ~Exec!Busy(h)
    /\ accepted > 0
    /\ open[Port]
    => wire = Packet(accepted)

-----------------------------------------------------------------------------
(* The inductive invariant behind these properties.                        *)

\* A handler that is not in the callback will begin to collect at wheel 0.
AtRest == \A h \in Handlers : pc[h] # "callback" => cursor[h] = 0 /\ at[h] = "collect"

\* As long as calls do not overlap the sink holds what the handler that has yet
\* to clear it has put there, and nothing if there is none.
SinkIsOwn ==
    /\ \A h \in Collecting : sink = [i \in 1..cursor[h] |-> Value(i - 1, cmd[h])]
    /\ Collecting = {} => sink = <<>>

\* What the microcontroller was sent when it has followed the first n commands.
Latest(n) == IF n = 0 THEN <<>> ELSE Packet(n)

\* A microcontroller that can be reached has followed the commands that have
\* left the queue, all but the last of them if pop() is still to come.
InStep ==
    open[Port] =>
        wire = Latest(IF \E h \in Handlers : pc[h] = "pop" THEN Exec!Done + 1 ELSE Exec!Done)

Inv ==
    /\ TypeOK
    /\ Exec!Inv
    /\ AtRest
    /\ SinkBounded
    /\ alone => SinkIsOwn /\ PacketWhole /\ InStep

-----------------------------------------------------------------------------
(* What the code does not keep when two stations call.                     *)

\* Every packet has an entry for every wheel: when it is written out the sink
\* "has all data that must be sent into a single microcontroller"
\* (singleucchassismodel.cpp:58-59).
PacketComplete ==
    \A h \in Handlers : pc[h] = "callback" /\ at[h] # "collect" =>
        \A w \in Wheels : \E i \in DOMAIN packet[h] : packet[h][i].wheel = w
=============================================================================
