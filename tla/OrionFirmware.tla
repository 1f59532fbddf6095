---------------------------- MODULE OrionFirmware ----------------------------
(***************************************************************************)
(* The microcontroller l0 (include/Orion.h, Motor.h, MC33926.h): one loop  *)
(* that reads a command line, sets the motor's two registers, and now and  *)
(* then prints its feedback with interrupts disabled.                      *)
(*                                                                         *)
(* A command line is sent in three pieces: a head and a tail, which hold   *)
(* the JSON text, and its delimiter.  write_some of l1 may send only the   *)
(* first of them, and a piece that arrives while the receive buffer is     *)
(* full, or interrupts are disabled, may be lost; what is left runs into   *)
(* the next command, can fill parse_cmd's buffer, and can parse as a       *)
(* number nobody sent.  There is no checksum.                              *)
(***************************************************************************)
EXTENDS Integers, Sequences

CONSTANTS
    Magnitudes,     \* of the values of "PWM" l1 sends, of either sign
    MaxCommands,    \* bound on the command lines sent
    MaxRx,          \* pieces the receive buffer holds
    MaxLine         \* pieces parse_cmd's buffer of 256 bytes holds

ASSUME FirmwareAssumption ==
    /\ Magnitudes \subseteq Nat
    /\ MaxCommands \in Nat
    /\ MaxRx \in Nat \ {0}
    /\ MaxLine \in Nat /\ MaxLine > 2

VARIABLES
    sent,       \* the command lines sent so far, in order
    wire,       \* pieces of them that have not arrived yet
    rx,         \* the receive buffer of Serial
    lost,       \* history: the commands a piece of which has been lost
    line,       \* parse_cmd's buffer
    loop,       \* where the loop is
    speed,      \* apply_cmd's int16_t: the command it is about to apply
    applied,    \* history: number of the command applied last
    pwm,        \* the register OCR0A
    direction,  \* the direction pin
    room,       \* what is left of jsonBuffer, in documents
    feedback    \* the PWM that was last printed

hostVars == <<sent, wire>>
motorVars == <<speed, applied, pwm, direction>>
vars == <<hostVars, rx, lost, line, loop, motorVars, room, feedback>>

Speeds == Magnitudes \cup {-m : m \in Magnitudes}

Room == 2       \* documents jsonBuffer has room for, at least

Piece(part, n) == [part |-> part, of |-> n]
CommandLine(n) == <<Piece("head", n), Piece("tail", n), Piece("end", n)>>

Init ==
    /\ sent = <<>>
    /\ wire = <<>>
    /\ rx = <<>>
    /\ lost = {}
    /\ line = <<>>
    /\ loop = "available"
    /\ speed = 0
    /\ applied = 0
    /\ pwm = 0
    /\ direction = 1
    /\ room = Room
    /\ feedback = 0

-----------------------------------------------------------------------------
(* The serial line.                                                        *)

\* l1 writes a command ...
Send(s) ==
    /\ Len(sent) < MaxCommands
    /\ sent' = Append(sent, s)
    /\ wire' = wire \o CommandLine(Len(sent'))
    /\ UNCHANGED <<rx, lost, line, loop, motorVars, room, feedback>>

\* ... or a part of it: nobody looks at the result of write_some
SendPart(s) ==
    /\ Len(sent) < MaxCommands
    /\ sent' = Append(sent, s)
    /\ \E k \in 1..2 : wire' = wire \o SubSeq(CommandLine(Len(sent')), 1, k)
    /\ lost' = lost \cup {Len(sent')}
    /\ UNCHANGED <<rx, line, loop, motorVars, room, feedback>>

\* A piece arrives, and is received ...
Receive ==
    /\ wire # <<>>
    /\ Len(rx) < MaxRx
    /\ rx' = Append(rx, Head(wire))
    /\ wire' = Tail(wire)
    /\ UNCHANGED <<sent, lost, line, loop, motorVars, room, feedback>>

\* ... or is lost
Lose ==
    /\ wire # <<>>
    /\ Len(rx) = MaxRx \/ loop = "print"
    /\ wire' = Tail(wire)
    /\ lost' = lost \cup {Head(wire).of}
    /\ UNCHANGED <<sent, rx, line, loop, motorVars, room, feedback>>

-----------------------------------------------------------------------------
(* Orion::run.                                                             *)

\* Serial.available(), and parse_cmd begins with an empty buffer
Available ==
    /\ loop = "available"
    /\ IF rx # <<>> THEN loop' = "read" ELSE loop' = "timer"
    /\ line' = <<>>
    /\ UNCHANGED <<hostVars, rx, lost, motorVars, room, feedback>>

\* readBytesUntil('\n') takes a piece from the receive buffer, until it is the
\* delimiter or parse_cmd's buffer is full
ReadPiece ==
    /\ loop = "read"
    /\ rx # <<>>
    /\ rx' = Tail(rx)
    /\ IF Head(rx).part = "end"
       THEN loop' = "parse" /\ UNCHANGED line
       ELSE /\ line' = Append(line, Head(rx))
            /\ loop' = IF Len(line') = MaxLine THEN "parse" ELSE "read"
    /\ UNCHANGED <<hostVars, lost, motorVars, room, feedback>>

\* ... and gives up when nothing arrives for a second; l1 writes a line at a
\* time, so that happens only if its end was lost
ReadTimesOut ==
    /\ loop = "read"
    /\ rx = <<>> /\ wire = <<>>
    /\ loop' = "parse"
    /\ UNCHANGED <<hostVars, rx, lost, line, motorVars, room, feedback>>

\* parseObject succeeds on a line that begins with an object, whatever
\* follows, if there is room for it; that a full buffer has no terminating NUL
\* does no harm, for it stops before the third piece
Parses(l) == Len(l) > 1 /\ l[1].part = "head" /\ l[2].part = "tail"

\* root["0"]["PWM"] as an int16_t; two pieces that do not belong together
\* give another number, or a key that is missing
INT16_MIN == -32768
INT16_MAX == 32767
Wrap16(i) == ((i - INT16_MIN) % 65536) + INT16_MIN
Garbled == {0, 99}
Values(l) == IF l[1].of = l[2].of THEN {Wrap16(sent[l[1].of])} ELSE Garbled

\* Fault of the definition below: a buffer that is not cleared.
NotCleared == room

\* jsonBuffer.clear()
Cleared == Room

Parse ==
    /\ loop = "parse"
    /\ IF Parses(line) /\ Cleared > 0
       THEN /\ room' = Cleared - 1
            /\ speed' \in Values(line)
            /\ applied' = line[1].of
            /\ loop' = "setPwm"
       ELSE /\ room' = Cleared
            /\ loop' = "timer"      \* "CMD NOT PARSED"
            /\ UNCHANGED <<speed, applied>>
    /\ UNCHANGED <<hostVars, rx, lost, line, pwm, direction, feedback>>

Abs16(s) == IF s = INT16_MIN THEN s ELSE IF s < 0 THEN -s ELSE s

\* Faults of the definition below: the sign kept in the duty cycle, and a duty
\* cycle that is not cut to 8 bits.
SignedPwm(s) == s % 256
WidePwm(s) == Abs16(s)

\* static_cast<uint8_t>(abs(speed)); abs() of -32768 is itself
ToPwm(s) == Abs16(s) % 256

\* setPwm(pwm): the motor still turns in the old direction ...
SetPwm ==
    /\ loop = "setPwm"
    /\ pwm' = ToPwm(speed)
    /\ loop' = "setDirection"
    /\ UNCHANGED <<hostVars, rx, lost, line, speed, applied, direction, room, feedback>>

ComputeDirection(s) == IF s >= 0 THEN 1 ELSE 0

\* ... until setDirection(sign)
SetDirection ==
    /\ loop = "setDirection"
    /\ direction' = ComputeDirection(speed)
    /\ loop' = "timer"
    /\ UNCHANGED <<hostVars, rx, lost, line, speed, applied, pwm, room, feedback>>

\* MC33926::getSpeed
GetSpeed == IF direction = 1 THEN pwm ELSE -pwm

\* SregLock, and the feedback is due or not
CheckTimer ==
    /\ loop = "timer"
    /\ \/ loop' = "print" /\ feedback' = GetSpeed
       \/ loop' = "available" /\ UNCHANGED feedback
    /\ UNCHANGED <<hostVars, rx, lost, line, motorVars, room>>

\* print_feedback ends, and interrupts are enabled again
Printed ==
    /\ loop = "print"
    /\ room' = Room - 1
    /\ loop' = "available"
    /\ UNCHANGED <<hostVars, rx, lost, line, motorVars, feedback>>

-----------------------------------------------------------------------------
Loop ==
    \/ Available \/ ReadPiece \/ ReadTimesOut \/ Parse
    \/ SetPwm \/ SetDirection \/ CheckTimer \/ Printed

Next == (\E s \in Speeds : Send(s) \/ SendPart(s)) \/ Receive \/ Lose \/ Loop

\* The loop runs, and what is on the wire arrives.
Fairness == WF_vars(Loop) /\ WF_vars(Receive \/ Lose)

Spec == Init /\ [][Next]_vars /\ Fairness

-----------------------------------------------------------------------------
(* Properties.                                                             *)

Pieces == [part : {"head", "tail", "end"}, of : 1..MaxCommands]

\* Every variable has its type; registers keep their width.
TypeOK ==
    /\ sent \in Seq(Speeds) /\ Len(sent) <= MaxCommands
    /\ wire \in Seq(Pieces)
    /\ rx \in Seq(Pieces) /\ Len(rx) <= MaxRx
    /\ lost \subseteq 1..MaxCommands
    /\ line \in Seq(Pieces) /\ Len(line) <= MaxLine
    /\ loop \in {"available", "read", "parse", "setPwm", "setDirection", "timer", "print"}
    /\ speed \in INT16_MIN..INT16_MAX
    /\ applied \in 0..MaxCommands
    /\ pwm \in 0..255
    /\ direction \in {0, 1}
    /\ room \in 0..Room
    /\ feedback \in -255..255

\* The two registers agree with a command that has been applied.
Settled == applied > 0 /\ loop \notin {"setPwm", "setDirection"}

\* While no piece is lost the motor turns as it was told: the two registers,
\* written one after the other, are together the PWM of the latest command
\* applied, of either sign, and that is what the feedback will say.
MotorObeys ==
    lost = {} /\ Settled /\ sent[applied] \in -255..255 => GetSpeed = sent[applied]

\* The firmware recovers from losses, partial writes and lines that overflow
\* its buffer: they may cost the command that follows as well, but of two that
\* arrive whole the second is applied.
Whole(n) == n \notin lost
Recovers ==
    ([](Whole(MaxCommands - 1) /\ Whole(MaxCommands)) /\ <>(Len(sent) = MaxCommands))
        => <>[](applied = MaxCommands /\ Settled /\ speed = Wrap16(sent[MaxCommands]))

-----------------------------------------------------------------------------
(* The inductive invariant behind MotorObeys.                              *)

\* What is under way, and what was applied, is of a command that was sent; and
\* reading stops when the buffer is full.
PieceOf(n) == [part : {"head", "tail", "end"}, of : 1..n]
OfSent ==
    /\ wire \in Seq(PieceOf(Len(sent)))
    /\ rx \in Seq(PieceOf(Len(sent)))
    /\ line \in Seq(PieceOf(Len(sent)))
    /\ applied <= Len(sent)
    /\ loop = "read" => Len(line) < MaxLine

\* A head and a tail that follow each other are of one command.
Paired(s) ==
    \A i \in 1..Len(s), j \in 1..Len(s) :
        j = i + 1 /\ s[i].part = "head" /\ s[j].part = "tail" => s[i].of = s[j].of

\* While nothing is lost that is so of all that is under way, and what is read
\* goes on where the line stopped.
PairsMatch ==
    lost = {} =>
        /\ Paired(line)
        /\ Paired(rx \o wire)
        /\ loop = "read" => Paired(line \o (rx \o wire))

\* So the command to apply is one that l1 sent, cut to 16 bits ...
SpeedTold ==
    /\ lost = {} /\ applied > 0 => speed = Wrap16(sent[applied])
    /\ loop \in {"setPwm", "setDirection"} => applied > 0

\* ... and the registers follow it, one after the other.
RegistersFollow ==
    applied > 0 =>
        /\ loop # "setPwm" => pwm = ToPwm(speed)
        /\ loop \notin {"setPwm", "setDirection"} => direction = ComputeDirection(speed)

Inv == TypeOK /\ OfSent /\ PairsMatch /\ SpeedTold /\ RegistersFollow

-----------------------------------------------------------------------------
(* What the documentation says and the code does not keep.                 *)

\* A positive PWM drives the rover forward (service.proto).
ForwardMoves == lost = {} /\ Settled /\ sent[applied] > 0 => GetSpeed > 0
=============================================================================
