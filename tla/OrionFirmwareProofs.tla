------------------------- MODULE OrionFirmwareProofs -------------------------
(***************************************************************************)
(* Proofs about the firmware for any number of commands and any size of    *)
(* its buffers: registers keep their width, and as long as no piece of a   *)
(* command is lost the motor turns as it was told.                         *)
(***************************************************************************)
EXTENDS OrionFirmware, SequenceTheorems, TLAPS

-----------------------------------------------------------------------------
(* Numbers.                                                                *)

\* The conversions give values of their width.
LEMMA Wrap16Width ==
    ASSUME NEW i \in Int
    PROVE  /\ Wrap16(i) \in INT16_MIN..INT16_MAX
           /\ i \in -255..255 => Wrap16(i) = i
<1>1. \A a \in Int : a % 65536 >= 0 /\ a % 65536 < 65536 /\ a % 65536 \in Int
    OBVIOUS
<1>2. \A a \in Int : 0 <= a /\ a < 65536 => a % 65536 = a
    OBVIOUS
<1>0. INT16_MIN = -32768 /\ INT16_MAX = 32767
    BY DEF INT16_MIN, INT16_MAX
<1>3. Wrap16(i) \in INT16_MIN..INT16_MAX
  <2> DEFINE r == (i - INT16_MIN) % 65536
  <2>1. r \in Int /\ r >= 0 /\ r < 65536
    BY <1>0, <1>1
  <2>2. Wrap16(i) = r + INT16_MIN
    BY DEF Wrap16
  <2> HIDE DEF r
  <2>3. /\ r + INT16_MIN \in Int /\ INT16_MIN \in Int /\ INT16_MAX \in Int
        /\ INT16_MIN <= r + INT16_MIN /\ r + INT16_MIN <= INT16_MAX
    BY <1>0, <2>1
  <2> QED
    BY <2>2, <2>3
<1>4. ASSUME i \in -255..255
      PROVE  Wrap16(i) = i
    BY <1>0, <1>2, <1>4 DEF Wrap16
<1> QED
    BY <1>3, <1>4

LEMMA ToPwmWidth ==
    ASSUME NEW i \in Int
    PROVE  /\ ToPwm(i) \in 0..255
           /\ i \in 0..255 => ToPwm(i) = i
           /\ i \in -255..-1 => ToPwm(i) = -i
<1>1. Abs16(i) \in Int
    BY DEF Abs16, INT16_MIN
<1>2. \A a \in Int : a % 256 >= 0 /\ a % 256 < 256 /\ a % 256 \in Int
    OBVIOUS
<1>3. \A a \in Int : 0 <= a /\ a < 256 => a % 256 = a
    OBVIOUS
<1>4. ToPwm(i) \in 0..255
    BY <1>1, <1>2 DEF ToPwm
<1>5. ASSUME i \in 0..255
      PROVE  ToPwm(i) = i
  <2>1. Abs16(i) = i
    BY <1>5 DEF Abs16, INT16_MIN
  <2> QED
    BY <1>3, <1>5, <2>1 DEF ToPwm
<1>6. ASSUME i \in -255..-1
      PROVE  ToPwm(i) = -i
  <2>1. Abs16(i) = -i
    BY <1>6 DEF Abs16, INT16_MIN
  <2> QED
    BY <1>3, <1>6, <2>1 DEF ToPwm
<1> QED
    BY <1>4, <1>5, <1>6

\* Speeds are integers.
LEMMA SpeedsAreInt == Speeds \subseteq Int
<1> SUFFICES ASSUME NEW s \in Speeds
             PROVE  s \in Int
    OBVIOUS
<1>1. CASE s \in Magnitudes
    BY <1>1, FirmwareAssumption
<1>2. CASE \E m \in Magnitudes : s = -m
  <2>1. PICK m \in Magnitudes : s = -m
    BY <1>2
  <2>2. m \in Nat
    BY FirmwareAssumption
  <2> QED
    BY <2>1, <2>2
<1> QED
    BY <1>1, <1>2 DEF Speeds

-----------------------------------------------------------------------------
(* Sequences of pieces.                                                    *)

\* Parts of a paired sequence are paired.
LEMMA PairedParts ==
    ASSUME NEW S, NEW s \in Seq(S), NEW t \in Seq(S), Paired(s \o t)
    PROVE  Paired(s) /\ Paired(t)
<1>0. Len(s) \in Nat /\ Len(t) \in Nat
    OBVIOUS
<1>1. /\ Len(s \o t) = Len(s) + Len(t)
      /\ \A i \in 1..Len(s) : (s \o t)[i] = s[i] /\ i \in 1..Len(s \o t)
      /\ \A i \in 1..Len(t) : (s \o t)[i + Len(s)] = t[i] /\ i + Len(s) \in 1..Len(s \o t)
  <2>1. Len(s \o t) = Len(s) + Len(t)
    BY ConcatProperties
  <2>2. ASSUME NEW i \in 1..Len(s)
        PROVE  (s \o t)[i] = s[i] /\ i \in 1..Len(s \o t)
    BY <1>0, <2>1, ConcatProperties
  <2>3. ASSUME NEW i \in 1..Len(t)
        PROVE  (s \o t)[i + Len(s)] = t[i] /\ i + Len(s) \in 1..Len(s \o t)
    <3>1. i + Len(s) \in 1..(Len(s) + Len(t)) /\ ~(i + Len(s) <= Len(s))
            /\ (i + Len(s)) - Len(s) = i
      BY <1>0
    <3>2. (s \o t)[i + Len(s)] = t[(i + Len(s)) - Len(s)]
      BY <3>1, ConcatProperties
    <3> QED
      BY <2>1, <3>1, <3>2
  <2> QED
    BY <2>1, <2>2, <2>3
<1>2. Paired(s)
  <2> SUFFICES ASSUME NEW i \in 1..Len(s), NEW j \in 1..Len(s),
                      j = i + 1, s[i].part = "head", s[j].part = "tail"
               PROVE  s[i].of = s[j].of
    BY DEF Paired
  <2>1. /\ i \in 1..Len(s \o t) /\ j \in 1..Len(s \o t)
        /\ (s \o t)[i] = s[i] /\ (s \o t)[j] = s[j]
    BY <1>1
  <2> HIDE DEF Paired
  <2> QED
    BY <2>1 DEF Paired
<1>3. Paired(t)
  <2> SUFFICES ASSUME NEW i \in 1..Len(t), NEW j \in 1..Len(t),
                      j = i + 1, t[i].part = "head", t[j].part = "tail"
               PROVE  t[i].of = t[j].of
    BY DEF Paired
  <2> DEFINE m == i + Len(s)
             n == j + Len(s)
  <2>1. /\ m \in 1..Len(s \o t) /\ n \in 1..Len(s \o t)
        /\ (s \o t)[m] = t[i] /\ (s \o t)[n] = t[j]
    BY <1>1
  <2>2. n = m + 1
    BY <1>0
  <2> HIDE DEF m, n
  <2> QED
    BY <2>1, <2>2 DEF Paired
<1> QED
    BY <1>2, <1>3

\* Paired sequences make a paired one if the second begins with a head.
LEMMA PairedConcat ==
    ASSUME NEW S, NEW s \in Seq(S), NEW t \in Seq(S), Paired(s), Paired(t),
           Len(t) > 0, t[1].part = "head"
    PROVE  Paired(s \o t)
<1> DEFINE u == s \o t
<1>0. /\ Len(s) \in Nat /\ Len(t) \in Nat /\ Len(u) = Len(s) + Len(t)
      /\ \A i \in 1..(Len(s) + Len(t)) : u[i] = IF i <= Len(s) THEN s[i] ELSE t[i - Len(s)]
    BY ConcatProperties
<1> SUFFICES ASSUME NEW i \in 1..Len(u), NEW j \in 1..Len(u),
                    j = i + 1, u[i].part = "head", u[j].part = "tail"
             PROVE  u[i].of = u[j].of
    BY DEF Paired
<1> HIDE DEF u
<1>1. CASE j <= Len(s)
  <2>1. i \in 1..Len(s) /\ j \in 1..Len(s) /\ u[i] = s[i] /\ u[j] = s[j]
    BY <1>0, <1>1
  <2> QED
    BY <2>1 DEF Paired
<1>2. CASE i = Len(s)
  <2>1. j - Len(s) = 1 /\ ~(j <= Len(s))
    BY <1>0, <1>2
  <2>2. u[j] = t[1]
    BY <1>0, <2>1
  <2> QED
    BY <2>2
<1>3. CASE i > Len(s)
  <2> DEFINE m == i - Len(s)
             n == j - Len(s)
  <2>1. m \in 1..Len(t) /\ n \in 1..Len(t) /\ n = m + 1 /\ u[i] = t[m] /\ u[j] = t[n]
    BY <1>0, <1>3, SMTT(30)
  <2> HIDE DEF m, n
  <2> QED
    BY <2>1 DEF Paired
<1> QED
    BY <1>0, <1>1, <1>2, <1>3

\* A command line is paired, and so is what l1 sends of it.
LEMMA CommandPaired ==
    ASSUME NEW n \in Nat \ {0}
    PROVE  /\ CommandLine(n) \in Seq(PieceOf(n)) /\ Paired(CommandLine(n))
           /\ Len(CommandLine(n)) = 3 /\ CommandLine(n)[1].part = "head"
           /\ \A k \in 1..2 : SubSeq(CommandLine(n), 1, k) \in Seq(PieceOf(n))
<1>1. CommandLine(n) = <<Piece("head", n), Piece("tail", n), Piece("end", n)>>
    BY DEF CommandLine
<1>2. /\ Piece("head", n) \in PieceOf(n) /\ Piece("tail", n) \in PieceOf(n)
      /\ Piece("end", n) \in PieceOf(n)
    BY DEF Piece, PieceOf
<1>3. CommandLine(n) \in Seq(PieceOf(n)) /\ Len(CommandLine(n)) = 3
    BY <1>1, <1>2
<1>4. CommandLine(n)[1].part = "head" /\ \A i \in 1..3 : CommandLine(n)[i].of = n
    BY <1>1 DEF Piece
<1>5. Paired(CommandLine(n))
    BY <1>3, <1>4 DEF Paired
<1>6. ASSUME NEW k \in 1..2
      PROVE  SubSeq(CommandLine(n), 1, k) \in Seq(PieceOf(n))
  <2>1. \A i \in 1..k : CommandLine(n)[i] \in PieceOf(n)
    BY <1>3, ElementOfSeq
  <2> QED
    BY <2>1, SubSeqProperties
<1> QED
    BY <1>3, <1>4, <1>5, <1>6

\* A piece that moves from one sequence to the one in front changes nothing.
LEMMA MovePiece ==
    ASSUME NEW S, NEW s \in Seq(S), NEW t \in Seq(S), t # <<>>
    PROVE  /\ Append(s, Head(t)) \in Seq(S) /\ Tail(t) \in Seq(S) /\ Head(t) \in S
           /\ Append(s, Head(t)) \o Tail(t) = s \o t
<1>1. /\ Head(t) \in S /\ Tail(t) \in Seq(S) /\ Len(Tail(t)) = Len(t) - 1
      /\ \A i \in 1..Len(Tail(t)) : Tail(t)[i] = t[i + 1]
      /\ Head(t) = t[1] /\ Len(t) \in Nat \ {0} /\ Len(s) \in Nat
    BY HeadTailProperties, EmptySeq, LenProperties
<1> DEFINE a == Append(s, Head(t))
           b == Tail(t)
<1>2. /\ a \in Seq(S) /\ Len(a) = Len(s) + 1
      /\ \A i \in 1..Len(s) : a[i] = s[i]
      /\ a[Len(s) + 1] = t[1]
    BY <1>1, AppendProperties
<1>3. /\ a \o b \in Seq(S) /\ Len(a \o b) = Len(a) + Len(b)
      /\ \A i \in 1..(Len(a) + Len(b)) :
            (a \o b)[i] = IF i <= Len(a) THEN a[i] ELSE b[i - Len(a)]
  <2> HIDE DEF a, b
  <2> QED
    BY <1>1, <1>2, ConcatProperties DEF b
<1>4. /\ s \o t \in Seq(S) /\ Len(s \o t) = Len(s) + Len(t)
      /\ \A i \in 1..(Len(s) + Len(t)) :
            (s \o t)[i] = IF i <= Len(s) THEN s[i] ELSE t[i - Len(s)]
    BY ConcatProperties
<1>5. /\ Len(b) = Len(t) - 1
      /\ \A i \in 1..(Len(t) - 1) : b[i] = t[i + 1]
    BY <1>1
<1> HIDE DEF a, b
<1>6. Len(a \o b) = Len(s \o t)
    BY <1>1, <1>2, <1>3, <1>4, <1>5
<1>7. ASSUME NEW i \in 1..Len(a \o b)
      PROVE  (a \o b)[i] = (s \o t)[i]
  <2>0. i \in 1..(Len(s) + Len(t)) /\ i \in 1..(Len(a) + Len(b)) /\ i \in Nat
    BY <1>1, <1>3, <1>4, <1>6
  <2>1. CASE i <= Len(s)
    BY <1>1, <1>2, <1>3, <1>4, <2>0, <2>1
  <2>2. CASE i = Len(s) + 1
    <3>1. (a \o b)[i] = a[i] /\ (s \o t)[i] = t[1]
      BY <1>1, <1>2, <1>3, <1>4, <2>0, <2>2
    <3> QED
      BY <1>2, <2>2, <3>1
  <2>3. CASE i > Len(s) + 1
    <3> DEFINE k == i - (Len(s) + 1)
    <3>1. k \in 1..(Len(t) - 1) /\ i - Len(a) = k /\ i - Len(s) = k + 1
      BY <1>1, <1>2, <2>0, <2>3
    <3>2. (a \o b)[i] = b[i - Len(a)] /\ (s \o t)[i] = t[i - Len(s)]
      BY <1>1, <1>2, <1>3, <1>4, <2>0, <2>3
    <3> HIDE DEF k
    <3> QED
      BY <1>5, <3>1, <3>2
  <2> QED
    BY <1>1, <2>0, <2>1, <2>2, <2>3
<1>8. a \o b = s \o t
    BY <1>3, <1>4, <1>6, <1>7, SeqEqual
<1> QED
    BY <1>1, <1>2, <1>8 DEF a, b

-----------------------------------------------------------------------------
(* The serial line.                                                        *)

\* The pieces that can be told apart grow with the commands sent.
LEMMA MorePieces ==
    ASSUME NEW m \in Nat, NEW n \in Nat, m <= n
    PROVE  PieceOf(m) \subseteq PieceOf(n) /\ Seq(PieceOf(m)) \subseteq Seq(PieceOf(n))
<1>1. PieceOf(m) \subseteq PieceOf(n)
    BY DEF PieceOf
<1> QED
    BY <1>1, SeqMonotonic

\* The types of what is under way follow from its being of commands sent.
Buffers ==
    /\ sent \in Seq(Speeds) /\ Len(sent) <= MaxCommands
    /\ Len(rx) <= MaxRx /\ Len(line) <= MaxLine
    /\ lost \subseteq 1..MaxCommands

Registers ==
    /\ loop \in {"available", "read", "parse", "setPwm", "setDirection", "timer", "print"}
    /\ speed \in INT16_MIN..INT16_MAX
    /\ applied \in Nat
    /\ pwm \in 0..255 /\ direction \in {0, 1}
    /\ room \in 0..Room /\ feedback \in -255..255

LEMMA TypesSplit == TypeOK /\ OfSent <=> Buffers /\ OfSent /\ Registers
<1>1. ASSUME Buffers, OfSent, Registers
      PROVE  TypeOK
  <2>1. Len(sent) \in Nat /\ Len(sent) <= MaxCommands /\ MaxCommands \in Nat
    BY <1>1, FirmwareAssumption DEF Buffers
  <2>2. Seq(PieceOf(Len(sent))) \subseteq Seq(PieceOf(MaxCommands))
    BY <2>1, MorePieces
  <2>3. wire \in Seq(Pieces) /\ rx \in Seq(Pieces) /\ line \in Seq(Pieces)
    BY <1>1, <2>2 DEF OfSent, Pieces, PieceOf
  <2>4. applied \in 0..MaxCommands
    BY <1>1, <2>1 DEF OfSent, Registers
  <2> QED
    BY <1>1, <2>3, <2>4 DEF Buffers, Registers, TypeOK
<1>2. ASSUME TypeOK
      PROVE  Buffers /\ Registers
  <2>1. applied \in Nat
    BY <1>2, FirmwareAssumption DEF TypeOK
  <2> QED
    BY <1>2, <2>1 DEF Buffers, Registers, TypeOK
<1> QED
    BY <1>1, <1>2

\* What the sequences are made of.
LEMMA Sequences ==
    ASSUME Inv
    PROVE  /\ Len(sent) \in Nat /\ sent \in Seq(Speeds)
           /\ wire \in Seq(PieceOf(Len(sent)))
           /\ rx \in Seq(PieceOf(Len(sent)))
           /\ line \in Seq(PieceOf(Len(sent)))
           /\ applied \in 0..Len(sent)
<1>1. Buffers /\ Registers /\ OfSent
    BY TypesSplit DEF Inv
<1> QED
    BY <1>1 DEF Buffers, Registers, OfSent

\* A command more leaves those before it as they were.
LEMMA OneMoreSent ==
    ASSUME Inv, NEW s \in Speeds, Len(sent) < MaxCommands, sent' = Append(sent, s)
    PROVE  /\ sent' \in Seq(Speeds) /\ Len(sent') = Len(sent) + 1
           /\ Len(sent') <= MaxCommands /\ Len(sent') \in 1..MaxCommands
           /\ Len(sent') \in Nat \ {0}
           /\ applied > 0 => sent'[applied] = sent[applied]
           /\ applied <= Len(sent')
           /\ Seq(PieceOf(Len(sent))) \subseteq Seq(PieceOf(Len(sent')))
<1>1. Len(sent) \in Nat /\ sent \in Seq(Speeds) /\ applied \in 0..Len(sent)
    BY Sequences
<1>2. /\ sent' \in Seq(Speeds) /\ Len(sent') = Len(sent) + 1
      /\ \A i \in 1..Len(sent) : sent'[i] = sent[i]
    BY <1>1, AppendProperties
<1>3. MaxCommands \in Nat
    BY FirmwareAssumption
<1>4. Seq(PieceOf(Len(sent))) \subseteq Seq(PieceOf(Len(sent')))
    BY <1>1, <1>2, MorePieces
<1> QED
    BY <1>1, <1>2, <1>3, <1>4

\* A whole command keeps the invariant: it begins with a head.
LEMMA SendInv ==
    ASSUME Inv, NEW s \in Speeds, Send(s)
    PROVE  Inv'
<1> DEFINE S == PieceOf(Len(sent'))
           new == CommandLine(Len(sent'))
<1>1. /\ Len(sent) < MaxCommands /\ sent' = Append(sent, s) /\ wire' = wire \o new
      /\ UNCHANGED <<rx, lost, line, loop, motorVars, room, feedback>>
    BY DEF Send
<1>2. /\ sent' \in Seq(Speeds) /\ Len(sent') <= MaxCommands
      /\ Len(sent') \in Nat \ {0}
      /\ applied > 0 => sent'[applied] = sent[applied]
      /\ applied <= Len(sent')
      /\ Seq(PieceOf(Len(sent))) \subseteq Seq(PieceOf(Len(sent')))
    BY <1>1, OneMoreSent
<1>3. wire \in Seq(S) /\ rx \in Seq(S) /\ line \in Seq(S)
    BY <1>2, Sequences
<1>4. new \in Seq(S) /\ Paired(new) /\ Len(new) = 3 /\ new[1].part = "head"
    BY <1>2, CommandPaired
<1> HIDE DEF S, new
<1>5. wire' \in Seq(S) /\ rx \o wire \in Seq(S) /\ line \o (rx \o wire) \in Seq(S)
    BY <1>1, <1>3, <1>4, ConcatProperties
<1>6. /\ Paired(rx \o wire) => Paired(rx \o wire')
      /\ Paired(line \o (rx \o wire)) => Paired(line \o (rx \o wire'))
  <2>0. \A s1, s2, s3 \in Seq(S) : (s1 \o s2) \o s3 = s1 \o (s2 \o s3)
    BY ConcatAssociative
  <2>1. rx \o wire' = (rx \o wire) \o new
    BY <1>1, <1>3, <1>4, <2>0, Zenon
  <2>2. line \o (rx \o wire') = (line \o (rx \o wire)) \o new
    <3> DEFINE m == rx \o wire
    <3>1. m \in Seq(S) /\ rx \o wire' = m \o new
      BY <1>5, <2>1
    <3> HIDE DEF m
    <3>2. line \o (m \o new) = (line \o m) \o new
      BY <1>3, <1>4, <2>0, <3>1, Zenon
    <3> QED
      BY <3>1, <3>2, Zenon DEF m
  <2>3. \A s1 \in Seq(S) : Paired(s1) => Paired(s1 \o new)
    BY <1>4, PairedConcat
  <2> QED
    BY <1>5, <2>1, <2>2, <2>3
<1>8. OfSent'
    BY <1>1, <1>2, <1>3, <1>5 DEF Inv, OfSent, S, motorVars
<1>9. TypeOK'
  <2>1. Buffers' /\ Registers'
    BY <1>1, <1>2, <1>8, TypesSplit DEF Inv, Buffers, Registers, motorVars
  <2> QED
    BY <1>8, <2>1, TypesSplit, PTL
<1>10. PairsMatch'
    BY <1>1, <1>6 DEF Inv, PairsMatch
<1>11. SpeedTold' /\ RegistersFollow'
    BY <1>1, <1>2 DEF Inv, SpeedTold, RegistersFollow, motorVars
<1> QED
    BY <1>8, <1>9, <1>10, <1>11 DEF Inv

\* Of a command written in part, something is lost.
LEMMA SendPartInv ==
    ASSUME Inv, NEW s \in Speeds, SendPart(s)
    PROVE  Inv'
<1> DEFINE S == PieceOf(Len(sent'))
           new == CommandLine(Len(sent'))
<1>1. /\ Len(sent) < MaxCommands /\ sent' = Append(sent, s)
      /\ \E k \in 1..2 : wire' = wire \o SubSeq(new, 1, k)
      /\ lost' = lost \cup {Len(sent')}
      /\ UNCHANGED <<rx, line, loop, motorVars, room, feedback>>
    BY DEF SendPart
<1>2. /\ sent' \in Seq(Speeds) /\ Len(sent') <= MaxCommands
      /\ Len(sent') \in 1..MaxCommands /\ Len(sent') \in Nat \ {0}
      /\ applied > 0 => sent'[applied] = sent[applied]
      /\ applied <= Len(sent')
      /\ Seq(PieceOf(Len(sent))) \subseteq Seq(PieceOf(Len(sent')))
    BY <1>1, OneMoreSent
<1>3. wire \in Seq(S) /\ rx \in Seq(S) /\ line \in Seq(S)
    BY <1>2, Sequences
<1>4. \A k \in 1..2 : SubSeq(new, 1, k) \in Seq(S)
    BY <1>2, CommandPaired
<1> HIDE DEF S, new
<1>5. wire' \in Seq(S)
    BY <1>1, <1>3, <1>4, ConcatProperties
<1>6. lost' # {} /\ (lost \subseteq 1..MaxCommands => lost' \subseteq 1..MaxCommands)
    BY <1>1, <1>2
<1>7. OfSent'
    BY <1>1, <1>2, <1>3, <1>5 DEF Inv, OfSent, S, motorVars
<1>8. TypeOK'
  <2>1. Buffers' /\ Registers'
    BY <1>1, <1>2, <1>6, <1>7, TypesSplit DEF Inv, Buffers, Registers, motorVars
  <2> QED
    BY <1>7, <2>1, TypesSplit, PTL
<1>9. PairsMatch'
    BY <1>6 DEF PairsMatch
<1>10. SpeedTold' /\ RegistersFollow'
    BY <1>1, <1>2, <1>6 DEF Inv, SpeedTold, RegistersFollow, motorVars
<1> QED
    BY <1>7, <1>8, <1>9, <1>10 DEF Inv

\* A piece that is received stays in its order.
LEMMA ReceiveInv ==
    ASSUME Inv, Receive
    PROVE  Inv'
<1> DEFINE S == PieceOf(Len(sent))
<1>1. /\ wire # <<>> /\ Len(rx) < MaxRx
      /\ rx' = Append(rx, Head(wire)) /\ wire' = Tail(wire)
      /\ UNCHANGED <<sent, lost, line, loop, motorVars, room, feedback>>
    BY DEF Receive
<1>2. wire \in Seq(S) /\ rx \in Seq(S)
    BY Sequences
<1> HIDE DEF S
<1>3. rx' \in Seq(S) /\ wire' \in Seq(S) /\ rx' \o wire' = rx \o wire
    BY <1>1, <1>2, MovePiece
<1>4. Len(rx') <= MaxRx
  <2>1. Len(rx') = Len(rx) + 1 /\ Len(rx) \in Nat
    BY <1>1, <1>2, MovePiece, AppendProperties
  <2> QED
    BY <1>1, <2>1, FirmwareAssumption
<1>5. OfSent'
    BY <1>1, <1>3 DEF Inv, OfSent, S, motorVars
<1>6. TypeOK'
  <2>1. Buffers' /\ Registers'
    BY <1>1, <1>4, <1>5, TypesSplit DEF Inv, Buffers, Registers, motorVars
  <2> QED
    BY <1>5, <2>1, TypesSplit, PTL
<1>7. PairsMatch'
    BY <1>1, <1>3 DEF Inv, PairsMatch
<1>8. SpeedTold' /\ RegistersFollow'
    BY <1>1 DEF Inv, SpeedTold, RegistersFollow, motorVars
<1> QED
    BY <1>5, <1>6, <1>7, <1>8 DEF Inv

\* Once a piece is lost nothing is claimed of pairs.
LEMMA LoseInv ==
    ASSUME Inv, Lose
    PROVE  Inv'
<1> DEFINE S == PieceOf(Len(sent))
<1>1. /\ wire # <<>> /\ wire' = Tail(wire) /\ lost' = lost \cup {Head(wire).of}
      /\ UNCHANGED <<sent, rx, line, loop, motorVars, room, feedback>>
    BY DEF Lose
<1>2. wire \in Seq(S)
    BY Sequences
<1>3. Head(wire) \in S /\ wire' \in Seq(S)
    BY <1>1, <1>2, HeadTailProperties
<1>4. Head(wire).of \in 1..MaxCommands
  <2>1. Head(wire).of \in 1..Len(sent)
    BY <1>3 DEF PieceOf
  <2> QED
    BY <2>1, FirmwareAssumption, Sequences DEF Inv, TypeOK
<1> HIDE DEF S
<1>5. lost' # {} /\ (lost \subseteq 1..MaxCommands => lost' \subseteq 1..MaxCommands)
    BY <1>1, <1>4
<1>6. OfSent'
    BY <1>1, <1>3 DEF Inv, OfSent, S, motorVars
<1>7. TypeOK'
  <2>1. Buffers' /\ Registers'
    BY <1>1, <1>5, <1>6, TypesSplit DEF Inv, Buffers, Registers, motorVars
  <2> QED
    BY <1>6, <2>1, TypesSplit, PTL
<1>8. PairsMatch'
    BY <1>5 DEF PairsMatch
<1>9. SpeedTold' /\ RegistersFollow'
    BY <1>1, <1>5 DEF Inv, SpeedTold, RegistersFollow, motorVars
<1> QED
    BY <1>6, <1>7, <1>8, <1>9 DEF Inv

-----------------------------------------------------------------------------
(* The loop.                                                               *)

\* A step that leaves what is under way alone keeps what is said of it, unless
\* it begins to read.
LEMMA UnderWayKept ==
    ASSUME Inv, UNCHANGED <<sent, wire, rx, lost, line>>, applied' <= Len(sent),
           loop' # "read"
    PROVE  Buffers' /\ OfSent' /\ PairsMatch'
<1>1. Buffers'
    BY TypesSplit DEF Inv, Buffers
<1>2. OfSent'
    BY DEF Inv, OfSent
<1>3. PairsMatch'
    BY DEF Inv, PairsMatch
<1> QED
    BY <1>1, <1>2, <1>3

\* An empty line precedes whatever is there.
LEMMA AvailableInv ==
    ASSUME Inv, Available
    PROVE  Inv'
<1> DEFINE S == PieceOf(Len(sent))
<1>1. /\ loop = "available" /\ loop' \in {"read", "timer"} /\ line' = <<>>
      /\ UNCHANGED <<sent, wire, rx, lost, motorVars, room, feedback>>
    BY DEF Available, hostVars
<1>2. wire \in Seq(S) /\ rx \in Seq(S)
    BY Sequences
<1> HIDE DEF S
<1>3. line' \in Seq(S) /\ Len(line') = 0 /\ line' \o (rx \o wire) = rx \o wire
    BY <1>1, <1>2, ConcatProperties, ConcatEmptySeq
<1>4. Paired(line')
    BY <1>3 DEF Paired
<1>5. OfSent'
    BY <1>1, <1>3, FirmwareAssumption DEF Inv, OfSent, S, motorVars
<1>6. TypeOK'
  <2>1. Buffers' /\ Registers'
    BY <1>1, <1>3, FirmwareAssumption, TypesSplit DEF Inv, Buffers, Registers, motorVars
  <2> QED
    BY <1>5, <2>1, TypesSplit, PTL
<1>7. PairsMatch'
    BY <1>1, <1>3, <1>4 DEF Inv, PairsMatch
<1>8. SpeedTold' /\ RegistersFollow'
    BY <1>1 DEF Inv, SpeedTold, RegistersFollow, motorVars
<1> QED
    BY <1>5, <1>6, <1>7, <1>8 DEF Inv

\* A piece that is read stays in its order, or is the end of the line.
LEMMA ReadPieceInv ==
    ASSUME Inv, ReadPiece
    PROVE  Inv'
<1> DEFINE S == PieceOf(Len(sent))
<1>1. /\ loop = "read" /\ rx # <<>> /\ rx' = Tail(rx)
      /\ UNCHANGED <<sent, wire, lost, motorVars, room, feedback>>
    BY DEF ReadPiece, hostVars
<1>2. \/ loop' = "parse" /\ line' = line
      \/ /\ line' = Append(line, Head(rx))
         /\ loop' = IF Len(line') = MaxLine THEN "parse" ELSE "read"
    BY DEF ReadPiece
<1>3. wire \in Seq(S) /\ rx \in Seq(S) /\ line \in Seq(S)
    BY Sequences
<1> HIDE DEF S
<1>4. /\ Append(line, Head(rx)) \in Seq(S) /\ rx' \in Seq(S) /\ Head(rx) \in S
      /\ Append(line, Head(rx)) \o rx' = line \o rx
    BY <1>1, <1>3, MovePiece
<1>5. line' \in Seq(S) /\ Len(rx') = Len(rx) - 1 /\ Len(rx) \in Nat
    BY <1>1, <1>2, <1>3, <1>4, HeadTailProperties, LenProperties
<1>6. Len(line') <= MaxLine
  <2>1. CASE line' = line
    BY <2>1 DEF Inv, TypeOK
  <2>2. CASE line' = Append(line, Head(rx))
    <3>1. Len(line') = Len(line) + 1 /\ Len(line) \in Nat
      BY <1>3, <1>4, <2>2, AppendProperties
    <3>2. Len(line) < MaxLine
      BY <1>1, <1>3 DEF Inv, OfSent
    <3> QED
      BY <3>1, <3>2, FirmwareAssumption
  <2> QED
    BY <1>2, <2>1, <2>2
<1>7. loop' \in {"parse", "read"} /\ (loop' = "read" => Len(line') < MaxLine)
  <2>1. Len(line') \in Nat /\ MaxLine \in Nat
    BY <1>5, FirmwareAssumption
  <2> QED
    BY <1>2, <1>6, <2>1
<1>8. OfSent'
    BY <1>1, <1>4, <1>5, <1>7 DEF Inv, OfSent, S, motorVars
<1>9. TypeOK'
  <2>1. Buffers' /\ Registers'
    BY <1>1, <1>5, <1>6, <1>7, FirmwareAssumption, TypesSplit
    DEF Inv, Buffers, Registers, motorVars
  <2> QED
    BY <1>8, <2>1, TypesSplit, PTL
<1>10. PairsMatch'
  <2> SUFFICES ASSUME lost = {}
               PROVE  /\ Paired(line')
                      /\ Paired(rx' \o wire)
                      /\ loop' = "read" => Paired(line' \o (rx' \o wire))
    BY <1>1 DEF PairsMatch
  <2>1. Paired(line) /\ Paired(line \o (rx \o wire)) /\ Paired(rx \o wire)
    BY <1>1 DEF Inv, PairsMatch
  <2>2. \A s1, s2, s3 \in Seq(S) : (s1 \o s2) \o s3 = s1 \o (s2 \o s3)
    BY ConcatAssociative
  <2>3. rx' \o wire \in Seq(S)
    BY <1>3, <1>4, ConcatProperties
  <2> DEFINE longer == Append(line, Head(rx))
  <2>4. longer \o (rx' \o wire) = line \o (rx \o wire)
    <3>1. (longer \o rx') \o wire = longer \o (rx' \o wire)
      BY <1>3, <1>4, <2>2, Zenon
    <3>2. (line \o rx) \o wire = line \o (rx \o wire)
      BY <1>3, <2>2, Zenon
    <3> QED
      BY <1>4, <3>1, <3>2, Zenon
  <2>5. Paired(longer \o (rx' \o wire))
    BY <2>1, <2>4, Zenon
  <2>6. Paired(longer) /\ Paired(rx' \o wire)
    BY <1>4, <2>5, <2>3, PairedParts
  <2>7. CASE loop' = "parse" /\ line' = line
    BY <2>1, <2>6, <2>7
  <2>8. CASE line' = Append(line, Head(rx))
    BY <2>5, <2>6, <2>8
  <2> QED
    BY <1>2, <2>7, <2>8
<1>11. SpeedTold' /\ RegistersFollow'
    BY <1>1, <1>7 DEF Inv, SpeedTold, RegistersFollow, motorVars
<1> QED
    BY <1>8, <1>9, <1>10, <1>11 DEF Inv

LEMMA ReadTimesOutInv ==
    ASSUME Inv, ReadTimesOut
    PROVE  Inv'
<1>1. /\ loop' = "parse" /\ loop = "read"
      /\ UNCHANGED <<sent, wire, rx, lost, line, motorVars, room, feedback>>
    BY DEF ReadTimesOut, hostVars
<1>2. Buffers' /\ OfSent' /\ PairsMatch'
    BY <1>1, UnderWayKept DEF Inv, OfSent, motorVars
<1>3. Registers'
    BY <1>1, TypesSplit DEF Inv, Registers, motorVars
<1>4. SpeedTold' /\ RegistersFollow'
    BY <1>1 DEF Inv, SpeedTold, RegistersFollow, motorVars
<1> QED
    BY <1>2, <1>3, <1>4, TypesSplit, PTL DEF Inv

\* While nothing is lost, what is parsed is the command its head is of.
LEMMA ParseInv ==
    ASSUME Inv, Parse
    PROVE  Inv'
<1>1. /\ loop = "parse"
      /\ UNCHANGED <<sent, wire, rx, lost, line, pwm, direction, feedback>>
    BY DEF Parse, hostVars
<1>2. CASE Parses(line) /\ Cleared > 0
  <2>1. /\ room' = Cleared - 1 /\ speed' \in Values(line)
        /\ applied' = line[1].of /\ loop' = "setPwm"
    BY <1>2 DEF Parse
  <2>2. /\ Len(line) > 1 /\ line[1].part = "head" /\ line[2].part = "tail"
        /\ line \in Seq(PieceOf(Len(sent))) /\ Len(sent) \in Nat /\ Len(line) \in Nat
    BY <1>2, Sequences, LenProperties DEF Parses
  <2>3. line[1].of \in 1..Len(sent)
    <3>1. 1 \in 1..Len(line)
      BY <2>2
    <3>2. line[1] \in PieceOf(Len(sent))
      BY <2>2, <3>1, ElementOfSeq
    <3> QED
      BY <3>2 DEF PieceOf
  <2>4. sent[line[1].of] \in Int
    <3>1. sent[line[1].of] \in Speeds
      BY <2>3, Sequences, ElementOfSeq
    <3> QED
      BY <3>1, SpeedsAreInt
  <2>5. speed' \in INT16_MIN..INT16_MAX
    <3>1. Wrap16(sent[line[1].of]) \in INT16_MIN..INT16_MAX
      BY <2>4, Wrap16Width
    <3>2. Garbled \subseteq INT16_MIN..INT16_MAX
      <4>1. INT16_MIN = -32768 /\ INT16_MAX = 32767
        BY DEF INT16_MIN, INT16_MAX
      <4> QED
        BY <4>1 DEF Garbled
    <3> QED
      BY <2>1, <3>1, <3>2 DEF Values
  <2>6. Buffers' /\ OfSent' /\ PairsMatch'
    BY <1>1, <2>1, <2>3, UnderWayKept
  <2>7. Registers'
    <3>1. room' \in 0..Room /\ applied' \in Nat
      BY <2>1, <2>3 DEF Cleared, Room
    <3> QED
      BY <1>1, <2>1, <2>5, <3>1, TypesSplit DEF Inv, Registers
  <2>8. ASSUME lost = {}
        PROVE  speed' = Wrap16(sent[applied'])
    <3>1. line[1].of = line[2].of
      BY <2>2, <2>8 DEF Inv, PairsMatch, Paired
    <3> QED
      BY <2>1, <3>1 DEF Values
  <2>9. SpeedTold' /\ RegistersFollow'
    BY <1>1, <2>1, <2>3, <2>8 DEF SpeedTold, RegistersFollow
  <2> QED
    BY <2>6, <2>7, <2>9, TypesSplit, PTL DEF Inv
<1>3. CASE ~(Parses(line) /\ Cleared > 0)
  <2>1. room' = Cleared /\ loop' = "timer" /\ UNCHANGED <<speed, applied>>
    BY <1>3 DEF Parse
  <2>2. Buffers' /\ OfSent' /\ PairsMatch'
    BY <1>1, <2>1, UnderWayKept DEF Inv, OfSent
  <2>3. Registers'
    <3>1. room' \in 0..Room
      BY <2>1 DEF Cleared, Room
    <3> QED
      BY <1>1, <2>1, <3>1, TypesSplit DEF Inv, Registers
  <2>4. SpeedTold' /\ RegistersFollow'
    BY <1>1, <2>1 DEF Inv, SpeedTold, RegistersFollow
  <2> QED
    BY <2>2, <2>3, <2>4, TypesSplit, PTL DEF Inv
<1> QED
    BY <1>2, <1>3

LEMMA SpeedIsInt ==
    ASSUME Inv
    PROVE  speed \in Int
<1>1. INT16_MIN \in Int /\ INT16_MAX \in Int
    BY DEF INT16_MIN, INT16_MAX
<1> QED
    BY <1>1 DEF Inv, TypeOK

\* The first register ...
LEMMA SetPwmInv ==
    ASSUME Inv, SetPwm
    PROVE  Inv'
<1>1. /\ loop = "setPwm" /\ pwm' = ToPwm(speed) /\ loop' = "setDirection"
      /\ UNCHANGED <<sent, wire, rx, lost, line, speed, applied, direction, room, feedback>>
    BY DEF SetPwm, hostVars
<1>2. Buffers' /\ OfSent' /\ PairsMatch'
    BY <1>1, UnderWayKept DEF Inv, OfSent
<1>3. pwm' \in 0..255
    BY <1>1, SpeedIsInt, ToPwmWidth
<1>4. Registers'
    BY <1>1, <1>3, TypesSplit DEF Inv, Registers
<1>5. SpeedTold' /\ RegistersFollow'
    BY <1>1 DEF Inv, SpeedTold, RegistersFollow
<1> QED
    BY <1>2, <1>4, <1>5, TypesSplit, PTL DEF Inv

\* ... and the second.
LEMMA SetDirectionInv ==
    ASSUME Inv, SetDirection
    PROVE  Inv'
<1>1. /\ loop = "setDirection" /\ direction' = ComputeDirection(speed) /\ loop' = "timer"
      /\ UNCHANGED <<sent, wire, rx, lost, line, speed, applied, pwm, room, feedback>>
    BY DEF SetDirection, hostVars
<1>2. Buffers' /\ OfSent' /\ PairsMatch'
    BY <1>1, UnderWayKept DEF Inv, OfSent
<1>3. direction' \in {0, 1}
    BY <1>1 DEF ComputeDirection
<1>4. Registers'
    BY <1>1, <1>3, TypesSplit DEF Inv, Registers
<1>5. SpeedTold' /\ RegistersFollow'
    BY <1>1 DEF Inv, SpeedTold, RegistersFollow
<1> QED
    BY <1>2, <1>4, <1>5, TypesSplit, PTL DEF Inv

\* Printing does not touch the motor.
LEMMA PrintingInv ==
    ASSUME Inv, CheckTimer \/ Printed
    PROVE  Inv'
<1>1. /\ loop \in {"timer", "print"} /\ loop' \in {"print", "available"}
      /\ UNCHANGED <<sent, wire, rx, lost, line, motorVars>>
    BY DEF CheckTimer, Printed, hostVars
<1>2. Buffers' /\ OfSent' /\ PairsMatch'
    BY <1>1, UnderWayKept DEF Inv, OfSent, motorVars
<1>3. Registers
    BY TypesSplit DEF Inv
<1>4. room' \in 0..Room
    BY <1>3 DEF CheckTimer, Printed, Registers, Room
<1>5. feedback' \in -255..255
  <2>1. GetSpeed \in -255..255
    BY <1>3 DEF Registers, GetSpeed
  <2> QED
    BY <1>3, <2>1 DEF CheckTimer, Printed, Registers
<1>6. Registers'
    BY <1>1, <1>3, <1>4, <1>5 DEF Registers, motorVars
<1>7. SpeedTold' /\ RegistersFollow'
    BY <1>1 DEF Inv, SpeedTold, RegistersFollow, motorVars
<1> QED
    BY <1>2, <1>6, <1>7, TypesSplit, PTL DEF Inv

-----------------------------------------------------------------------------
(* The theorems.                                                           *)

LEMMA InitInv == Init => Inv
<1> SUFFICES ASSUME Init
             PROVE  Inv
    OBVIOUS
<1>1. /\ sent = <<>> /\ wire = <<>> /\ rx = <<>> /\ line = <<>> /\ lost = {}
      /\ loop = "available" /\ speed = 0 /\ applied = 0 /\ pwm = 0 /\ direction = 1
      /\ room = Room /\ feedback = 0
    BY DEF Init
<1>2. \A S : <<>> \in Seq(S) /\ Len(<<>>) = 0
    BY EmptySeq
<1>3. OfSent
    BY <1>1, <1>2 DEF OfSent
<1>4. Buffers
    BY <1>1, <1>2, FirmwareAssumption DEF Buffers
<1>5. Registers
  <2>1. INT16_MIN = -32768 /\ INT16_MAX = 32767 /\ Room = 2
    BY DEF INT16_MIN, INT16_MAX, Room
  <2>2. 0 \in INT16_MIN..INT16_MAX
    BY <2>1
  <2> QED
    BY <1>1, <2>1, <2>2 DEF Registers
<1>6. PairsMatch
  <2>1. rx \o wire = <<>>
    BY <1>1
  <2> QED
    BY <1>1, <1>2, <2>1 DEF PairsMatch, Paired
<1>7. SpeedTold /\ RegistersFollow
    BY <1>1 DEF SpeedTold, RegistersFollow
<1> QED
    BY <1>3, <1>4, <1>5, <1>6, <1>7, TypesSplit DEF Inv

\* Every step keeps the invariant.
LEMMA NextInv == Inv /\ [Next]_vars => Inv'
<1> SUFFICES ASSUME Inv, [Next]_vars
             PROVE  Inv'
    OBVIOUS
<1>1. ASSUME NEW s \in Speeds, Send(s) \/ SendPart(s)
      PROVE  Inv'
    BY <1>1, SendInv, SendPartInv
<1>2. CASE Receive \/ Lose
    BY <1>2, ReceiveInv, LoseInv
<1>3. CASE Loop
    BY <1>3, AvailableInv, ReadPieceInv, ReadTimesOutInv, ParseInv, SetPwmInv,
       SetDirectionInv, PrintingInv DEF Loop
<1>4. CASE UNCHANGED vars
  <2>1. UNCHANGED <<sent, wire, rx, lost, line, loop, motorVars, room, feedback>>
    BY <1>4 DEF vars, hostVars
  <2>2. OfSent'
    BY <2>1 DEF Inv, OfSent, motorVars
  <2>3. Buffers' /\ Registers'
    BY <2>1, TypesSplit DEF Inv, Buffers, Registers, motorVars
  <2>4. PairsMatch' /\ SpeedTold' /\ RegistersFollow'
    BY <2>1 DEF Inv, PairsMatch, SpeedTold, RegistersFollow, motorVars
  <2> QED
    BY <2>2, <2>3, <2>4, TypesSplit, PTL DEF Inv
<1> QED
    BY <1>1, <1>2, <1>3, <1>4 DEF Next

\* The inductive invariant holds in every reachable state.
THEOREM FirmwareInvariance == Spec => []Inv
BY InitInv, NextInv, PTL DEF Spec

\* Type correctness of the firmware: whatever garbles a line, registers keep
\* their width and buffers their size.
THEOREM FirmwareTypeCorrect == Spec => []TypeOK
<1>1. Inv => TypeOK
    BY DEF Inv
<1> QED
    BY <1>1, FirmwareInvariance, PTL

\* As long as no piece of a command is lost, the two registers together are the
\* PWM of the latest command applied, however many there are and however small
\* the buffers.
THEOREM MotorObedient == Spec => []MotorObeys
<1>1. Inv => MotorObeys
  <2> SUFFICES ASSUME Inv, lost = {}, Settled, sent[applied] \in -255..255
               PROVE  GetSpeed = sent[applied]
    BY DEF MotorObeys
  <2> DEFINE x == sent[applied]
  <2>1. applied > 0 /\ loop \notin {"setPwm", "setDirection"}
    BY DEF Settled
  <2>2. speed = Wrap16(x) /\ pwm = ToPwm(speed) /\ direction = ComputeDirection(speed)
    BY <2>1 DEF Inv, SpeedTold, RegistersFollow
  <2> HIDE DEF x
  <2>3. x \in -255..255 /\ x \in Int
    BY DEF x
  <2>4. speed = x
    BY <2>2, <2>3, Wrap16Width
  <2>5. CASE x >= 0
    <3>1. x \in 0..255
      BY <2>3, <2>5
    <3>2. pwm = x /\ direction = 1
      BY <2>2, <2>3, <2>4, <2>5, <3>1, ToPwmWidth DEF ComputeDirection
    <3> QED
      BY <3>2 DEF GetSpeed, x
  <2>6. CASE ~(x >= 0)
    <3>1. x \in -255..-1
      BY <2>3, <2>6
    <3>2. pwm = -x /\ direction = 0
      BY <2>2, <2>3, <2>4, <2>6, <3>1, ToPwmWidth DEF ComputeDirection
    <3>3. GetSpeed = -(-x)
      BY <3>2 DEF GetSpeed
    <3> QED
      BY <2>3, <3>3 DEF x
  <2> QED
    BY <2>5, <2>6
<1> QED
    BY <1>1, FirmwareInvariance, PTL
=============================================================================
