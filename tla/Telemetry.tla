------------------------------ MODULE Telemetry ------------------------------
(***************************************************************************)
(* Telemetry in l1: the io_service thread parses a line of a               *)
(* microcontroller and stores its part with every wheel it names           *)
(* (multipleucchassismodel.cpp, utils/dispatcher.h, model/chassis.h),      *)
(* while gRPC handler threads copy the wheels' latest feedback into their  *)
(* responses, field by field (grpcserver.cpp, model/wheel.cpp).            *)
(*                                                                         *)
(* Wheel::state() returns a pointer from under the wheel's mutex, so a     *)
(* field is read without it.  A message is the number of the line it came  *)
(* in and the text of its "ERR"; the other values are not told apart.      *)
(***************************************************************************)
EXTENDS Integers, Sequences

CONSTANTS
    WheelCount,     \* wheels of the chassis
    Readers,        \* handler threads that serve getWheelFeedback
    MaxReports      \* bound on the lines received

ASSUME TelemetryAssumption == WheelCount \in Nat \ {0} /\ MaxReports \in Nat

Wheels == 0..(WheelCount - 1)

\* The order fillTelemetry copies the fields of a wheel in.
Fields == <<"milliamps", "pwm", "error_code", "angular_velocity", "celsius">>

\* l0 prints its driver's state as a JSON boolean.
ErrTexts == {"true", "false"}
Message(n, err) == [report |-> n, err |-> err]
Empty == Message(0, "absent")       \* a default WheelRecvMessage

VARIABLES
    reports,    \* number of lines received
    message,    \* the line being dispatched
    pending,    \* the wheels it is still to be stored with
    storing,    \* {w} while setFeedback holds the mutex of wheel w
    feedback,   \* feedback[w]: the message stored with wheel w
    reader,     \* reader[h]: "idle", "state" or "read"
    response,   \* response[h]: what h has copied, wheel by wheel
    newest,     \* history: newest[w]: the latest line stored with wheel w
    before,     \* history: before[h]: newest when h was called
    undefined   \* a message was read while it was being replaced

ioVars == <<reports, message, pending, storing, feedback, newest>>
readVars == <<reader, response, before>>
vars == <<ioVars, readVars, undefined>>

Init ==
    /\ reports = 0
    /\ message = Empty
    /\ pending = {}
    /\ storing = {}
    /\ feedback = [w \in Wheels |-> Empty]
    /\ reader = [h \in Readers |-> "idle"]
    /\ response = [h \in Readers |-> <<>>]
    /\ newest = [w \in Wheels |-> 0]
    /\ before = [h \in Readers |-> [w \in Wheels |-> 0]]
    /\ undefined = FALSE

-----------------------------------------------------------------------------
(* The io_service thread.                                                  *)

\* Fault of a definition below: what is stored has been moved from already.
MovedFrom(w) == [feedback EXCEPT ![w] = Empty]

\* on_feedback_received: a line that parses is kept by the dispatcher, whose
\* notify() will visit the wheels it has a child for; l0's complaint about a
\* command names none.  A line that does not parse ends in the handler's catch.
ReceiveLine(named, err) ==
    /\ ~undefined
    /\ pending = {} /\ storing = {}
    /\ reports < MaxReports
    /\ reports' = reports + 1
    /\ message' = Message(reports + 1, err)
    /\ pending' = named
    /\ UNCHANGED <<storing, feedback, newest, readVars, undefined>>

\* processFeedback: setFeedback takes the wheel's mutex ...
BeginStore(w) ==
    /\ ~undefined
    /\ storing = {}
    /\ w \in pending
    /\ storing' = {w}
    /\ pending' = pending \ {w}
    /\ UNCHANGED <<reports, message, feedback, newest, readVars, undefined>>

Stored(w) == [feedback EXCEPT ![w] = message]

\* ... and gives it back when the message has been moved in
EndStore(w) ==
    /\ ~undefined
    /\ storing = {w}
    /\ feedback' = Stored(w)
    /\ newest' = [newest EXCEPT ![w] = message.report]
    /\ storing' = {}
    /\ UNCHANGED <<reports, message, pending, readVars, undefined>>

-----------------------------------------------------------------------------
(* getWheelFeedback on a handler thread.                                   *)

\* Fault of the definition below: text that is no integer read as -1.
MinusOne(text, default) ==
    CASE text = "0" -> 0
      [] text = "1" -> 1
      [] OTHER -> -1

\* ptree::get<int>(key, default): the default if the text is no integer.
GetInt(text, default) ==
    CASE text = "0" -> 0
      [] text = "1" -> 1
      [] OTHER -> default

\* What is copied for a field of a message.
Copy(m, f) ==
    [report |-> m.report, err |-> m.err,
     value |-> IF f = "error_code" THEN GetInt(m.err, 0) ELSE 0]

NextWheel(h) == Len(response[h]) \div Len(Fields)
NextField(h) == Fields[(Len(response[h]) % Len(Fields)) + 1]

GetWheelFeedback(h) ==
    /\ ~undefined
    /\ reader[h] = "idle"
    /\ reader' = [reader EXCEPT ![h] = "state"]
    /\ response' = [response EXCEPT ![h] = <<>>]
    /\ before' = [before EXCEPT ![h] = newest]
    /\ UNCHANGED <<ioVars, undefined>>

\* wheel->state(): waits for the mutex, gives it back, returns the pointer
State(h) ==
    /\ ~undefined
    /\ reader[h] = "state"
    /\ NextWheel(h) \in Wheels \ storing
    /\ reader' = [reader EXCEPT ![h] = "read"]
    /\ UNCHANGED <<ioVars, response, before, undefined>>

\* ->getPwm() and its like, on what the pointer shows now
ReadField(h) ==
    /\ ~undefined
    /\ reader[h] = "read"
    /\ NextWheel(h) \notin storing
    /\ response' = [response EXCEPT ![h] = Append(@, Copy(feedback[NextWheel(h)], NextField(h)))]
    /\ reader' = [reader EXCEPT ![h] = "state"]
    /\ UNCHANGED <<ioVars, before, undefined>>

\* ... while setFeedback is replacing it
ReadTorn(h) ==
    /\ ~undefined
    /\ reader[h] = "read"
    /\ NextWheel(h) \in storing
    /\ undefined' = TRUE
    /\ UNCHANGED <<ioVars, readVars>>

Reply(h) ==
    /\ ~undefined
    /\ reader[h] = "state"
    /\ NextWheel(h) \notin Wheels
    /\ reader' = [reader EXCEPT ![h] = "idle"]
    /\ UNCHANGED <<ioVars, response, before, undefined>>

-----------------------------------------------------------------------------
Next ==
    \/ \E named \in SUBSET Wheels, err \in ErrTexts : ReceiveLine(named, err)
    \/ \E w \in Wheels : BeginStore(w) \/ EndStore(w)
    \/ \E h \in Readers :
        GetWheelFeedback(h) \/ State(h) \/ ReadField(h) \/ ReadTorn(h) \/ Reply(h)

Spec == Init /\ [][Next]_vars

-----------------------------------------------------------------------------
(* Properties.                                                             *)

Messages == [report : 0..MaxReports, err : ErrTexts \cup {"absent"}]
Copies == [report : 0..MaxReports, err : ErrTexts \cup {"absent"}, value : Nat]

\* Every variable has its type.
TypeOK ==
    /\ reports \in 0..MaxReports
    /\ message \in Messages
    /\ pending \subseteq Wheels
    /\ storing = {} \/ \E w \in Wheels : storing = {w}
    /\ feedback \in [Wheels -> Messages]
    /\ reader \in [Readers -> {"idle", "state", "read"}]
    /\ response \in [Readers -> Seq(Copies)]
    /\ newest \in [Wheels -> 0..MaxReports]
    /\ before \in [Readers -> [Wheels -> 0..MaxReports]]
    /\ undefined \in BOOLEAN

WheelOf(i) == (i - 1) \div Len(Fields)

\* The five reads of a wheel may mix lines, but only so far: each shows a line
\* at least as new as the latest one stored when the call began, none is newer
\* than the latest one now, and they never go back from a field to the next.
Fresh ==
    \A h \in Readers : \A i \in DOMAIN response[h] :
        /\ response[h][i].report \in before[h][WheelOf(i)]..newest[WheelOf(i)]
        /\ \A j \in 1..i : WheelOf(j) = WheelOf(i) =>
               response[h][j].report <= response[h][i].report

-----------------------------------------------------------------------------
(* The inductive invariant behind Fresh.                                   *)

\* What is stored with a wheel is the latest line stored there, and no later
\* line than the one being dispatched.
StoredIsNewest ==
    /\ message.report = reports
    /\ \A w \in Wheels : feedback[w].report = newest[w] /\ newest[w] <= reports

\* Lines stored since a call began only replace older ones.
BeginsBefore == \A h \in Readers : \A w \in Wheels : before[h][w] <= newest[w]

\* A response never outgrows the wheels of the chassis.
InsideChassis ==
    \A h \in Readers :
        /\ \A i \in DOMAIN response[h] : WheelOf(i) \in Wheels
        /\ reader[h] = "read" => NextWheel(h) \in Wheels

Inv == TypeOK /\ StoredIsNewest /\ BeginsBefore /\ InsideChassis /\ Fresh

-----------------------------------------------------------------------------
(* What the documentation says and the code does not keep.                 *)

\* Wheel::state() is thread safe: what it publishes is never read while the
\* io_service thread replaces it.
StateThreadSafe == ~undefined

\* An error code of 0 means that the driver had no error.
ErrorCodeHonest ==
    \A h \in Readers : \A i \in DOMAIN response[h] :
        Fields[((i - 1) % Len(Fields)) + 1] = "error_code" /\ response[h][i].value = 0
            => response[h][i].err # "true"
=============================================================================
