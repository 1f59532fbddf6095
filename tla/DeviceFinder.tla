---------------------------- MODULE DeviceFinder ----------------------------
(***************************************************************************)
(* How l1 finds the microcontrollers (serial/serialportinfo.cpp and        *)
(* serialdevicefinder.cpp) and binds them to the chassis (the models'      *)
(* constructors): the serial ports are listed, a thread for each of them   *)
(* reads lines until one parses as JSON, whose first key is the ID of the  *)
(* device, and the main thread collects the results and opens the ports    *)
(* again.  A device may be unplugged at any moment of this.                *)
(*                                                                         *)
(* A line is its first key, or "garbage", or "empty" (JSON without a key). *)
(* A read has no timeout.                                                  *)
(***************************************************************************)
EXTENDS Naturals, Sequences, FiniteSets, TLC

CONSTANTS
    PortCount,      \* entries of /sys/class/tty
    WheelCount,     \* WHEEL_COUNT of the chassis
    MaxFaults       \* devices that complain, and that are unplugged (a bound of the model)

ASSUME FinderAssumption ==
    PortCount \in Nat /\ WheelCount \in Nat \ {0} /\ MaxFaults \in Nat

MAX_ATTEMPTS == 5

Ports == 1..PortCount
Wheels == 0..(WheelCount - 1)
Id(w) == ToString(w)
Ids == {Id(w) : w \in Wheels}
NoPort == 0     \* a default PortInfo

\* The text of a number is no other number's, and none of the other keys.
ASSUME IdAssumption ==
    /\ \A v, w \in Wheels : Id(v) = Id(w) => v = w
    /\ \A w \in Wheels : Id(w) \notin {"", "ERR", "noise", "silent", "irrelevant"}

VARIABLES
    single_uc,  \* l1 was built with SINGLE_UC; fixed from the start
    device,     \* device[p]: an ID, "noise", "silent", or "irrelevant"
    complains,  \* the microcontrollers that were sent what they cannot parse
    gone,       \* the ports whose device was unplugged
    finder,     \* finder[p]: "open", "first", "next", "done" or "failed"
    attempt,    \* attempt[p]: unparsable lines read from p
    found,      \* found[p]: the ID read from p
    list,       \* the (ID, port) pairs collected so far
    main,       \* "scan", "list", "built", "aborted" or "terminated"
    bound       \* bound[w]: the port of wheel w (of all wheels if single_uc)

threads == <<finder, attempt, found>>
vars == <<single_uc, device, complains, gone, threads, list, main, bound>>

Init ==
    /\ single_uc \in BOOLEAN
    /\ device \in [Ports -> Ids \cup {"noise", "silent", "irrelevant"}]
    /\ complains \in SUBSET {p \in Ports : device[p] \in Ids}
    /\ Cardinality(complains) <= MaxFaults
    /\ gone = {}
    /\ finder = [p \in Ports |-> "open"]
    /\ attempt = [p \in Ports |-> 0]
    /\ found = [p \in Ports |-> ""]
    /\ list = <<>>
    /\ main = "scan"
    /\ bound = [w \in Wheels |-> NoPort]

\* A relevant device is unplugged before l1 has bound it.
Vanish(p) ==
    /\ main \in {"scan", "list"}
    /\ device[p] # "irrelevant"
    /\ Cardinality(gone) < MaxFaults
    /\ gone' = gone \cup {p}
    /\ UNCHANGED <<single_uc, device, complains, threads, list, main, bound>>

-----------------------------------------------------------------------------
\* listSerials, after the directory was read: the name and the driver of an
\* entry decide, and the path to the driver of one that is gone throws
Filter ==
    /\ main = "scan"
    /\ main' = IF gone = {} THEN "list" ELSE "aborted"
    /\ UNCHANGED <<single_uc, device, complains, gone, threads, list, bound>>

relevant == {p \in Ports : device[p] # "irrelevant"}

\* How many are listed before p
Place(p) == Cardinality({q \in relevant : q < p})

-----------------------------------------------------------------------------
(* retrieve_id, on a thread of its own for each port that is listed.       *)

\* The serial_port's constructor throws if the device is not there.
Open(p) ==
    /\ main = "list"
    /\ device[p] # "irrelevant"
    /\ finder[p] = "open"
    /\ finder' = [finder EXCEPT ![p] = IF p \in gone THEN "failed" ELSE "first"]
    /\ UNCHANGED <<single_uc, device, complains, gone, attempt, found, list, main, bound>>

\* The lines p may send next: the first may have lost its head, and l0 says
\* {"ERR":"CMD NOT PARSED"} when it was sent something it cannot parse.
Lines(p) ==
    CASE device[p] = "silent" -> {}
      [] device[p] = "noise" -> {"garbage", "empty"}
      [] OTHER -> {device[p]}
            \cup (IF finder[p] = "first" THEN {"garbage"} ELSE {})
            \cup (IF p \in complains THEN {"ERR"} ELSE {})

\* Faults of the definition below: one attempt only, and no limit to them.
OneAttempt(p) ==
    /\ attempt' = [attempt EXCEPT ![p] = @ + 1]
    /\ finder' = [finder EXCEPT ![p] = "failed"]
Endless(p) == attempt' = [attempt EXCEPT ![p] = @ + 1] /\ finder' = [finder EXCEPT ![p] = "next"]

\* !is_valid_json(...) && ++attempt < MAX_ATTEMPTS
NotValid(p) ==
    /\ attempt' = [attempt EXCEPT ![p] = @ + 1]
    /\ finder' = [finder EXCEPT ![p] = IF attempt'[p] < MAX_ATTEMPTS THEN "next" ELSE "failed"]

\* What was read before the device went may hold further lines.
ReadLine(p) ==
    /\ finder[p] \in IF p \in gone THEN {"next"} ELSE {"first", "next"}
    /\ \E line \in Lines(p) :
        CASE line = "garbage" -> NotValid(p) /\ UNCHANGED found
          [] line = "empty" -> /\ finder' = [finder EXCEPT ![p] = "failed"]
                               /\ UNCHANGED <<attempt, found>>
          [] OTHER -> /\ finder' = [finder EXCEPT ![p] = "done"]
                      /\ found' = [found EXCEPT ![p] = line]
                      /\ UNCHANGED attempt
    /\ UNCHANGED <<single_uc, device, complains, gone, list, main, bound>>

\* Fault of the definition below: a read that fails is tried again.
ReadAgain(p) ==
    /\ finder[p] \in {"first", "next"}
    /\ p \in gone
    /\ finder' = [finder EXCEPT ![p] = "next"]
    /\ UNCHANGED <<single_uc, device, complains, gone, attempt, found, list, main, bound>>

\* read_until throws
ReadFails(p) ==
    /\ finder[p] \in {"first", "next"}
    /\ p \in gone
    /\ finder' = [finder EXCEPT ![p] = "failed"]
    /\ UNCHANGED <<single_uc, device, complains, gone, attempt, found, list, main, bound>>

-----------------------------------------------------------------------------
(* The main thread.                                                        *)

\* What future.get() gives for port p; an exception leaves a default pair
Result(p) == IF finder[p] = "done" THEN <<found[p], p>> ELSE <<"", NoPort>>

\* list(): the futures in the order of the ports
Collect ==
    /\ main = "list"
    /\ \E p \in relevant :
        /\ Place(p) = Len(list)
        /\ finder[p] \in {"done", "failed"}
        /\ list' = Append(list, Result(p))
    /\ UNCHANGED <<single_uc, device, complains, gone, threads, main, bound>>

\* map(): insert() keeps the first pair of an ID
First(id) == CHOOSE i \in DOMAIN list : list[i][1] = id /\ \A j \in 1..(i - 1) : list[j][1] # id
mapping == [id \in {list[i][1] : i \in DOMAIN list} |-> list[First(id)][2]]

Collected == main = "list" /\ Len(list) = Cardinality(relevant)

\* Fault of the definition below: the wheels take the ports as they come.
InOrderOfPorts(w) == IF w + 1 \in Ports THEN w + 1 ELSE NoPort

\* port_mapping.at(std::to_string(w))
At(w) == mapping[Id(w)]

PortsNeeded == IF single_uc THEN 1 ELSE WheelCount

\* Fault of the definition below: one port more is asked for than is needed.
NoSpare == Cardinality(DOMAIN mapping) <= PortsNeeded

\* port_mapping.size() < WHEEL_COUNT
NotEnough == Cardinality(DOMAIN mapping) < PortsNeeded

\* An invalid_argument, which main() does not catch
TooFew ==
    /\ Collected
    /\ NotEnough
    /\ main' = "terminated"
    /\ UNCHANGED <<single_uc, device, complains, gone, threads, list, bound>>

\* A SerialPort is opened for wheels ws; the constructor's system_error is a
\* runtime_error, which main() does catch
Bind(ws, port) ==
    IF port = NoPort \/ port \in gone
    THEN main' = "aborted" /\ UNCHANGED bound
    ELSE /\ bound' = [w \in Wheels |-> IF w \in ws THEN port ELSE bound[w]]
         /\ main' = IF \E w \in Wheels : bound'[w] = NoPort THEN "list" ELSE "built"

\* The loop over the wheels of MultipleUcChassisModel's constructor; at()
\* throws an out_of_range, which main() does not catch
BindWheel ==
    /\ Collected
    /\ ~single_uc
    /\ ~NotEnough
    /\ LET w == Cardinality({v \in Wheels : bound[v] # NoPort})
       IN  IF Id(w) \in DOMAIN mapping
           THEN Bind({w}, At(w))
           ELSE main' = "terminated" /\ UNCHANGED bound
    /\ UNCHANGED <<single_uc, device, complains, gone, threads, list>>

\* SingleUcChassisModel's constructor takes what an unordered_map has first
BindAll ==
    /\ Collected
    /\ single_uc
    /\ ~NotEnough
    /\ \E id \in DOMAIN mapping : Bind(Wheels, mapping[id])
    /\ UNCHANGED <<single_uc, device, complains, gone, threads, list>>

-----------------------------------------------------------------------------
Finder(p) == Open(p) \/ ReadLine(p) \/ ReadFails(p)

Main == Filter \/ Collect \/ TooFew \/ BindWheel \/ BindAll

Next == (\E p \in Ports : Finder(p) \/ Vanish(p)) \/ Main

\* Threads run, and a device that is not silent keeps sending lines; nobody
\* has to unplug one.
Fairness == (\A p \in Ports : WF_vars(Finder(p))) /\ WF_vars(Main)

Spec == Init /\ [][Next]_vars /\ Fairness

-----------------------------------------------------------------------------
(* Properties.                                                             *)

\* Every variable has its type; no port is tried more than MAX_ATTEMPTS times.
TypeOK ==
    /\ single_uc \in BOOLEAN
    /\ device \in [Ports -> Ids \cup {"noise", "silent", "irrelevant"}]
    /\ complains \subseteq Ports
    /\ gone \subseteq Ports
    /\ finder \in [Ports -> {"open", "first", "next", "done", "failed"}]
    /\ attempt \in [Ports -> 0..MAX_ATTEMPTS]
    /\ found \in [Ports -> Ids \cup {"", "ERR"}]
    /\ list \in Seq((Ids \cup {"", "ERR"}) \X (Ports \cup {NoPort}))
    /\ main \in {"scan", "list", "built", "aborted", "terminated"}
    /\ bound \in [Wheels -> Ports \cup {NoPort}]

\* In whatever order the ports answer, devices vanish and lines are lost, a
\* rover that starts has each wheel bound to the port of the microcontroller
\* that carries its ID; a single one is a device that answered.
RightWheel ==
    main = "built" => \A w \in Wheels :
        /\ bound[w] \in Ports
        /\ finder[bound[w]] = "done"
        /\ ~single_uc => device[bound[w]] = Id(w)

\* The process dies of an exception nobody catches only if a microcontroller is
\* missing: there is a wheel (with a single one, any) whose ID no port gave,
\* and that a device was unplugged after it had answered is not enough.
DiesOnlyIfMissing ==
    main = "terminated" =>
        IF single_uc THEN relevant = {}
        ELSE \E w \in Wheels : \A p \in Ports : finder[p] = "done" => found[p] # Id(w)

\* Detection comes to an end, one way or the other, unless a device stays
\* silent; one that is unplugged does not hold it up.
DetectionEnds ==
    (\A p \in Ports : device[p] = "silent" => p \in gone) ~> main \notin {"scan", "list"}

\* l1 starts if there is a microcontroller for each wheel (or several) and no
\* other device among those listed, none complains and none is unplugged; that
\* it opened a port in the middle of a line does no harm.
Healthy ==
    /\ {device[p] : p \in Ports} \ {"irrelevant"} = Ids
    /\ complains = {}
    /\ gone = {}
StartsUp == []Healthy => <>(main = "built")

-----------------------------------------------------------------------------
(* Why they hold: the invariant that is inductive.                         *)

Answered(p) == finder[p] \in {"done", "failed"}

\* A thread that still reads has attempts left; one that was never started
\* belongs to an entry that is not listed; and what a device answered is its
\* own ID, or its complaint.
AnswersOwn ==
    \A p \in Ports :
        /\ ~Answered(p) => attempt[p] < MAX_ATTEMPTS
        /\ device[p] = "irrelevant" => finder[p] = "open"
        /\ finder[p] = "done" => device[p] \in Ids /\ found[p] \in {device[p], "ERR"}

\* Before the ports are listed nothing is gathered, and a process that dies or
\* starts has gathered all; the list holds the results of the ports in front,
\* and no other pair.
Gathered ==
    /\ main = "scan" => list = <<>>
    /\ main \in {"built", "terminated"} => Len(list) = Cardinality(relevant)
    /\ Len(list) <= Cardinality(relevant)
    /\ \A p \in relevant :
        Place(p) < Len(list) => Answered(p) /\ list[Place(p) + 1] = Result(p)
    /\ \A i \in DOMAIN list : list[i][2] # NoPort =>
        finder[list[i][2]] = "done" /\ found[list[i][2]] = list[i][1]

\* A wheel is bound to a port whose device gave its ID, or is not bound; and
\* binding goes on until none is left.
BoundRight ==
    /\ \A w \in Wheels : bound[w] # NoPort =>
        finder[bound[w]] = "done" /\ (single_uc \/ found[bound[w]] = Id(w))
    /\ main \in {"scan", "list"} => \E w \in Wheels : bound[w] = NoPort
    /\ main = "built" => \A w \in Wheels : bound[w] # NoPort

Inv == TypeOK /\ AnswersOwn /\ Gathered /\ BoundRight /\ DiesOnlyIfMissing

-----------------------------------------------------------------------------
(* What the documentation says and the code does not keep.                 *)

\* list() "allows establishing a valid connection to the devices": each of
\* its pairs names a device and the port it is at.
Connectable ==
    \A i \in DOMAIN list : list[i][2] \in Ports /\ device[list[i][2]] = list[i][1]
=============================================================================
