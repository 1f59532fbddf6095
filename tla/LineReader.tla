----------------------------- MODULE LineReader -----------------------------
(***************************************************************************)
(* ReadLineAlgorithm (serial/serialport.h), which turns the chunks of      *)
(* bytes that asynchronous reads of a port return into lines for the       *)
(* chassis, fed by a microcontroller that prints lines of telemetry.       *)
(*                                                                         *)
(* A byte is the number of the line it belongs to, or NewLine.  A read     *)
(* returns any number of the bytes the tty holds.  The port may be opened  *)
(* while the first line is being received.                                 *)
(***************************************************************************)
EXTENDS Integers, Sequences, SequencesExt

CONSTANTS
    MaxLines,   \* bound on the lines the microcontroller prints
    BodySize,   \* bytes of a line before its delimiter
    MaxTty      \* bound on the bytes waiting in the tty

ASSUME LineAssumption ==
    /\ MaxLines \in Nat \ {0}
    /\ BodySize \in Nat \ {0}
    /\ MaxTty \in Nat /\ MaxTty > BodySize

NewLine == 0

VARIABLES
    sent,       \* lines printed so far
    tty,        \* bytes received and not read yet
    ss,         \* what ReadLineAlgorithm::ss still holds
    delivered   \* the lines passed to the callback

vars == <<sent, tty, ss, delivered>>

Body(n) == [i \in 1..BodySize |-> n]
Line(n) == Append(Body(n), NewLine)

\* The port is opened while line 1 is under way.
Init ==
    /\ sent = 1
    /\ \E skipped \in 0..BodySize : tty = SubSeq(Line(1), skipped + 1, BodySize + 1)
    /\ ss = <<>>
    /\ delivered = <<>>

\* Serial.println of print_feedback
PrintLine ==
    /\ sent < MaxLines
    /\ Len(tty) + BodySize + 1 <= MaxTty
    /\ sent' = sent + 1
    /\ tty' = tty \o Line(sent + 1)
    /\ UNCHANGED <<ss, delivered>>

IsNewLine(b) == b = NewLine
EndOfLine(s) == SelectInSeq(s, IsNewLine)

\* Faults of the definitions below: getline() without looking for the
\* delimiter, a stream cleared with what follows the line, a stream rewound to
\* its start, and one byte more of data[] than was received: what an array that
\* nobody initialised holds there, no byte of any line.
AlwaysReady(chunk) == TRUE
RestLost(s) == <<>>
Rewound(s) == s
OneMore(n) == Append(SubSeq(tty, 1, n), -1)

\* data[], filled with the first n bytes of the tty
Chunk(n) == SubSeq(tty, 1, n)

\* data[bytes_received - 1] == '\n': is it worth calling getline()?
Ready(chunk) == chunk[Len(chunk)] = NewLine

\* std::getline: what it extracts, and what it leaves in the stream
Extracted(s) == IF EndOfLine(s) = 0 THEN s ELSE SubSeq(s, 1, EndOfLine(s) - 1)
Rest(s) == IF EndOfLine(s) = 0 THEN <<>> ELSE SubSeq(s, EndOfLine(s) + 1, Len(s))

\* operator() with the first n bytes of the tty: one line at the most, and
\* none if the chunk does not end with a delimiter
Read(n) ==
    LET chunk == Chunk(n)
        stream == ss \o chunk
    IN  /\ n <= Len(tty)
        /\ tty' = SubSeq(tty, n + 1, Len(tty))
        /\ IF Ready(chunk)
           THEN ss' = Rest(stream) /\ delivered' = Append(delivered, Extracted(stream))
           ELSE ss' = stream /\ UNCHANGED delivered
        /\ UNCHANGED sent

Next == PrintLine \/ \E n \in 1..MaxTty : Read(n)

Spec == Init /\ [][Next]_vars /\ WF_vars(\E n \in 1..MaxTty : Read(n))

-----------------------------------------------------------------------------
(* Properties.                                                             *)

Bytes == 0..MaxLines

\* Every variable has its type.
TypeOK ==
    /\ sent \in 1..MaxLines
    /\ tty \in Seq(Bytes)
    /\ ss \in Seq(Bytes)
    /\ delivered \in Seq(Seq(Bytes))

\* However the bytes are cut into chunks, the callback gets each line whole,
\* after the line before it; only the first may lack its head.
WholeLines ==
    \A n \in DOMAIN delivered :
        /\ IsSuffix(delivered[n], Body(n))
        /\ n > 1 => delivered[n] = Body(n)

\* The chassis is handed the very lines the microcontroller printed, in the
\* order of printing, each once: the n-th call of the callback carries the text
\* of the n-th line, the first perhaps without its head.
Stream == INSTANCE LineStream WITH
    Texts <- {Body(n) : n \in 1..MaxLines},
    printed <- [n \in 1..sent |-> Body(n)],
    handed <- delivered
LinesInOrder == Stream!Spec

\* The reader neither drops, duplicates nor reorders a byte: its stream and the
\* tty together are exactly the lines after those it has delivered, byte for
\* byte, less what had been printed of the first when the port was opened.
LineSize == BodySize + 1
SizeOf(lines) == lines * LineSize

AreLines(bytes, done, count, skipped) ==
    /\ Len(bytes) + skipped = SizeOf(count)
    /\ \A k \in 0..(count - 1), j \in 1..LineSize :
        SizeOf(k) + j > skipped =>
            bytes[SizeOf(k) + j - skipped] = Line(done + k + 1)[j]

NothingLost ==
    \E skipped \in 0..BodySize :
        /\ delivered # <<>> => skipped = 0
        /\ AreLines(ss \o tty, Len(delivered), sent - Len(delivered), skipped)

-----------------------------------------------------------------------------
(* What the documentation says and the code does not keep.                 *)

\* The callback runs "once a full line of data is received": no complete line
\* is left waiting for a later chunk.
NoLineWaits == EndOfLine(ss) = 0
=============================================================================
