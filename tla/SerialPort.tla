----------------------------- MODULE SerialPort -----------------------------
(***************************************************************************)
(* The life of l1's serial ports (serial/serialport.cpp) and App's         *)
(* periodic health check (main.cpp).  One io_service thread completes the  *)
(* asynchronous reads and the timer, so each of its handlers is one step.  *)
(*                                                                         *)
(* The bytes of a chunk are not modelled here, only that it is read.       *)
(***************************************************************************)
EXTENDS Naturals

CONSTANTS
    Ports,      \* the ports the chassis opened at start
    MaxUnread   \* bound on the chunks waiting in a port's tty buffer

VARIABLES
    plugged,    \* plugged[p]: the microcontroller is still attached
    open,       \* open[p]: serial->is_open()
    reading,    \* reading[p]: an async_read_some is pending
    unread,     \* unread[p]: chunks received and not yet read
    health      \* what check_health logged last

portVars == <<plugged, open, reading, unread, health>>

\* The constructor opens the port and arms the first read.
Init ==
    /\ plugged = [p \in Ports |-> TRUE]
    /\ open = [p \in Ports |-> TRUE]
    /\ reading = [p \in Ports |-> TRUE]
    /\ unread = [p \in Ports |-> 0]
    /\ health = "none"

\* The microcontroller prints a line of telemetry.
Arrive(p) ==
    /\ plugged[p]
    /\ unread[p] < MaxUnread
    /\ unread' = [unread EXCEPT ![p] = @ + 1]
    /\ UNCHANGED <<plugged, open, reading, health>>

\* The cable is pulled; what the tty had buffered is lost.
Unplug(p) ==
    /\ plugged[p]
    /\ plugged' = [plugged EXCEPT ![p] = FALSE]
    /\ unread' = [unread EXCEPT ![p] = 0]
    /\ UNCHANGED <<open, reading, health>>

\* Fault of the definition below: the next read is not armed.
ForgetToArm(p) == reading' = [reading EXCEPT ![p] = FALSE]

\* connect_message_read, from the completion handler of the previous read
ArmRead(p) == reading' = [reading EXCEPT ![p] = open[p]]

\* on_message_received with data
ReadChunk(p) ==
    /\ reading[p]
    /\ unread[p] > 0
    /\ unread' = [unread EXCEPT ![p] = @ - 1]
    /\ ArmRead(p)
    /\ UNCHANGED <<plugged, open, health>>

\* on_error: cancel and close, if not closed already
CloseOnError(p) == open' = [open EXCEPT ![p] = FALSE]

\* on_message_received with an error or no bytes; nothing is armed again
ReadFails(p) ==
    /\ reading[p]
    /\ ~plugged[p]
    /\ CloseOnError(p)
    /\ reading' = [reading EXCEPT ![p] = FALSE]
    /\ UNCHANGED <<plugged, unread, health>>

\* checkSerialHealth
AllOpen == \A p \in Ports : open[p]

\* check_health, which then sets its timer again
CheckHealth ==
    /\ health' = IF AllOpen THEN "OK" ELSE "NOT OK"
    /\ UNCHANGED <<plugged, open, reading, unread>>

\* write_some: the descriptor is valid and the device there.
Writable(p) == open[p] /\ plugged[p]

Device(p) == Arrive(p) \/ Unplug(p)

IoThread(p) == ReadChunk(p) \/ ReadFails(p)

Next == (\E p \in Ports : Device(p) \/ IoThread(p)) \/ CheckHealth

\* A completed read is handled and the timer expires, again and again.
Fairness ==
    /\ \A p \in Ports : WF_portVars(ReadChunk(p)) /\ WF_portVars(ReadFails(p))
    /\ WF_portVars(CheckHealth)

Spec == Init /\ [][Next]_portVars /\ Fairness

-----------------------------------------------------------------------------
(* Properties.                                                             *)

\* Every variable has its type.
TypeOK ==
    /\ plugged \in [Ports -> BOOLEAN]
    /\ open \in [Ports -> BOOLEAN]
    /\ reading \in [Ports -> BOOLEAN]
    /\ unread \in [Ports -> 0..MaxUnread]
    /\ health \in {"none", "OK", "NOT OK"}

\* A device that is lost is reported at the next health check after its read
\* fails, and the report stays: nothing reopens a port.
LossReported == \A p \in Ports : ~plugged[p] ~> [](health = "NOT OK")
=============================================================================
