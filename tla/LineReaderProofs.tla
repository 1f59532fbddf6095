-------------------------- MODULE LineReaderProofs --------------------------
(***************************************************************************)
(* Proofs about LineReader for lines of any length, any number of them and *)
(* any size of the tty: however the bytes are cut into chunks, lines are   *)
(* delivered whole and in order and no byte is lost.                       *)
(***************************************************************************)
EXTENDS LineReader, SequenceTheorems, TLAPS

USE DEF NewLine, Chunk

-----------------------------------------------------------------------------
(* Lines, and bytes that are made of lines.                                *)

\* The size of a line is a positive number.
LEMMA SizeType == LineSize \in Nat \ {0} /\ BodySize \in Nat \ {0} /\ LineSize = BodySize + 1
    BY LineAssumption DEF LineSize

\* A line is its number, BodySize times, and a delimiter.
LEMMA LineBytes ==
    ASSUME NEW n \in Nat
    PROVE  /\ Line(n) \in Seq(0..n) /\ Line(n) \in Seq(Nat)
           /\ Len(Line(n)) = LineSize
           /\ \A j \in 1..LineSize : Line(n)[j] = IF j = LineSize THEN 0 ELSE n
<1>1. Body(n) \in Seq(0..n) /\ Body(n) \in Seq(Nat) /\ Len(Body(n)) = BodySize
      /\ \A j \in 1..BodySize : Body(n)[j] = n
    BY SizeType DEF Body
<1> QED
    BY <1>1, SizeType DEF Line

\* The size of a number of lines grows with the number, by LineSize for one.
LEMMA SizeOfLines ==
    ASSUME NEW m \in Nat
    PROVE  /\ SizeOf(m) \in Nat
           /\ SizeOf(m + 1) = SizeOf(m) + LineSize
           /\ SizeOf(0) = 0
           /\ \A k \in 0..m : SizeOf(k) <= SizeOf(m)
<1>1. ASSUME NEW l \in Nat \ {0}
      PROVE  /\ m * l \in Nat
             /\ (m + 1) * l = m * l + l
             /\ 0 * l = 0
             /\ \A k \in 0..m : k * l <= m * l
    BY <1>1, SMTT(30)
<1> QED
    BY <1>1, SizeType DEF SizeOf

\* Printing: lines followed by the next line are lines.
LEMMA MoreLines ==
    ASSUME NEW bytes \in Seq(Nat), NEW done \in Nat, NEW count \in Nat,
           NEW skipped \in 0..BodySize, AreLines(bytes, done, count, skipped)
    PROVE  AreLines(bytes \o Line(done + count + 1), done, count + 1, skipped)
<1> DEFINE next == Line(done + count + 1)
           longer == bytes \o next
           size == Len(bytes)
<1>0. /\ LineSize \in Nat \ {0} /\ size \in Nat /\ skipped \in Nat
      /\ skipped < LineSize
    BY SizeType
<1>1. next \in Seq(Nat) /\ Len(next) = LineSize
  <2>1. done + count + 1 \in Nat
    OBVIOUS
  <2> QED
    BY <2>1, LineBytes
<1>2. /\ longer \in Seq(Nat) /\ Len(longer) = size + LineSize
      /\ \A i \in 1..(size + LineSize) :
             longer[i] = IF i <= size THEN bytes[i] ELSE next[i - size]
  <2> HIDE DEF next
  <2> QED
    BY <1>0, <1>1, ConcatProperties
<1>3. size + skipped = SizeOf(count) /\ SizeOf(count + 1) = SizeOf(count) + LineSize
    BY SizeOfLines DEF AreLines
<1>4. Len(longer) + skipped = SizeOf(count + 1)
  <2> HIDE DEF longer, size
  <2> QED
    BY <1>0, <1>2, <1>3
<1>5. ASSUME NEW k \in 0..count, NEW j \in 1..LineSize, SizeOf(k) + j > skipped
      PROVE  longer[SizeOf(k) + j - skipped] = Line(done + k + 1)[j]
  <2>1. CASE k = count
    <3> HIDE DEF longer, size, next
    <3>0. SizeOf(k) = size + skipped
      BY <1>3, <2>1
    <3>1. SizeOf(k) + j - skipped = size + j /\ size + j - size = j
      BY <1>0, <3>0
    <3>2. longer[size + j] = next[j]
      BY <1>0, <1>2, <3>1, SMTT(30)
    <3> QED
      BY <2>1, <3>1, <3>2 DEF next
  <2>2. CASE k # count
    <3>1. k \in 0..(count - 1) /\ k + 1 \in 0..count /\ k \in Nat
      BY <2>2
    <3>2. bytes[SizeOf(k) + j - skipped] = Line(done + k + 1)[j]
      BY <1>5, <3>1 DEF AreLines
    <3>3. SizeOf(k) \in Nat /\ SizeOf(k) + LineSize <= SizeOf(count)
      BY <3>1, SizeOfLines
    <3> HIDE DEF longer, size, next
    <3> DEFINE i == SizeOf(k) + j - skipped
    <3>4. i \in 1..size
      BY <1>0, <1>3, <1>5, <3>3, SMTT(30)
    <3> HIDE DEF i
    <3>5. longer[i] = bytes[i]
      BY <1>0, <1>2, <3>4
    <3> QED
      BY <3>2, <3>5 DEF i
  <2> QED
    BY <2>1, <2>2
<1>6. (count + 1) - 1 = count
    OBVIOUS
<1> QED
    BY <1>4, <1>5, <1>6 DEF AreLines

\* Lines that hold a delimiter begin with a line that is complete, and the
\* first delimiter is its last byte.
LEMMA FirstLine ==
    ASSUME NEW bytes \in Seq(Nat), NEW done \in Nat, NEW count \in Nat,
           NEW skipped \in 0..BodySize, AreLines(bytes, done, count, skipped),
           NEW p \in 1..Len(bytes), bytes[p] = NewLine
    PROVE  /\ count > 0
           /\ LineSize - skipped \in 1..p
           /\ bytes[LineSize - skipped] = NewLine
           /\ \A i \in 1..(LineSize - skipped - 1) : bytes[i] = done + 1
<1>1. /\ Len(bytes) + skipped = SizeOf(count) /\ Len(bytes) \in Nat
      /\ LineSize \in Nat \ {0} /\ LineSize = BodySize + 1 /\ skipped \in Nat
      /\ BodySize \in Nat
    BY SizeType DEF AreLines
<1>2. SizeOf(0) = 0
    BY SizeOfLines
<1>3. count > 0
    BY <1>1, <1>2
<1>4. ASSUME NEW i \in 1..(LineSize - skipped)
      PROVE  bytes[i] = IF i = LineSize - skipped THEN 0 ELSE done + 1
  <2>1. 0 \in 0..(count - 1) /\ i + skipped \in 1..LineSize
    BY <1>1, <1>3
  <2>2. SizeOf(0) + (i + skipped) > skipped /\ SizeOf(0) + (i + skipped) - skipped = i
        /\ done + 0 + 1 = done + 1
    BY <1>1, <1>2
  <2>3. bytes[i] = Line(done + 1)[i + skipped]
    BY <2>1, <2>2 DEF AreLines
  <2>4. bytes[i] = IF i + skipped = LineSize THEN 0 ELSE done + 1
    BY <2>1, <2>3, LineBytes
  <2> QED
    BY <1>1, <2>4
<1>5. LineSize - skipped \in 1..p
  <2>1. ASSUME p < LineSize - skipped
        PROVE  FALSE
    BY <1>1, <1>4, <2>1
  <2> QED
    BY <1>1, <2>1
<1> QED
    BY <1>1, <1>3, <1>4, <1>5

\* Delivering: without the first of them lines are lines.
LEMMA FewerLines ==
    ASSUME NEW bytes \in Seq(Nat), NEW done \in Nat, NEW count \in Nat, count > 0,
           NEW skipped \in 0..BodySize, AreLines(bytes, done, count, skipped)
    PROVE  AreLines(SubSeq(bytes, LineSize - skipped + 1, Len(bytes)),
                    done + 1, count - 1, 0)
<1> DEFINE e == LineSize - skipped
           size == Len(bytes)
           rest == SubSeq(bytes, e + 1, size)
<1>1. /\ size + skipped = SizeOf(count) /\ size \in Nat
      /\ LineSize \in Nat \ {0} /\ LineSize = BodySize + 1 /\ skipped \in Nat
      /\ BodySize \in Nat
    BY SizeType DEF AreLines
<1>2. /\ SizeOf(count) = SizeOf(count - 1) + LineSize /\ SizeOf(count - 1) \in Nat
      /\ count - 1 \in Nat
  <2>1. count - 1 \in Nat /\ (count - 1) + 1 = count
    OBVIOUS
  <2> QED
    BY <2>1, SizeOfLines
<1>3. e \in 1..size
    BY <1>1, <1>2
<1>4. Len(rest) = size - e /\ \A i \in 1..(size - e) : rest[i] = bytes[e + i]
  <2>1. \A i \in (e + 1)..size : bytes[i] \in Nat
    BY <1>1, <1>3
  <2> HIDE DEF e, size
  <2>2. e + 1 \in Int /\ size \in Int /\ size - (e + 1) + 1 = size - e
        /\ \A i \in 1..(size - e) : (e + 1) + i - 1 = e + i
    BY <1>1, <1>3
  <2>3. Len(rest) = IF e + 1 <= size THEN size - (e + 1) + 1 ELSE 0
    BY <2>1, <2>2, SubSeqProperties
  <2>4. \A i \in 1..(size - (e + 1) + 1) : rest[i] = bytes[(e + 1) + i - 1]
    BY <2>1, <2>2, SubSeqProperties
  <2> QED
    BY <1>1, <1>3, <2>2, <2>3, <2>4
<1>5. Len(rest) + 0 = SizeOf(count - 1)
    BY <1>1, <1>2, <1>4
<1>6. ASSUME NEW k \in 0..(count - 1 - 1), NEW j \in 1..LineSize
      PROVE  rest[SizeOf(k) + j - 0] = Line(done + 1 + k + 1)[j]
  <2>1. /\ k + 1 \in 0..(count - 1) /\ k \in Nat /\ done + (k + 1) + 1 = done + 1 + k + 1
    OBVIOUS
  <2>2. /\ SizeOf(k + 1) = SizeOf(k) + LineSize /\ SizeOf(k) \in Nat
        /\ SizeOf(k + 1) <= SizeOf(count - 1)
    BY <1>2, <2>1, SizeOfLines
  <2>3. SizeOf(k + 1) + j > skipped
    BY <1>1, <2>2
  <2>4. bytes[SizeOf(k + 1) + j - skipped] = Line(done + 1 + k + 1)[j]
    BY <2>1, <2>3 DEF AreLines
  <2> HIDE DEF size, rest
  <2>5. SizeOf(k + 1) + j - skipped = e + (SizeOf(k) + j - 0)
    BY <1>1, <2>2
  <2>6. SizeOf(k) + j - 0 \in 1..(size - e)
    BY <1>1, <1>2, <2>2, SMTT(30)
  <2> QED
    BY <1>4, <2>4, <2>5, <2>6
<1> QED
    BY <1>5, <1>6 DEF AreLines

-----------------------------------------------------------------------------
(* getline().                                                              *)

\* The delimiter getline() finds is the first one.
LEMMA FirstDelimiter ==
    ASSUME NEW s \in Seq(Nat), NEW e \in 1..Len(s), s[e] = NewLine,
           \A i \in 1..(e - 1) : s[i] # NewLine
    PROVE  EndOfLine(s) = e
<1> DEFINE I == {i \in 1..Len(s) : s[i] = 0}
<1>1. e \in I /\ \A i \in I : e <= i
    OBVIOUS
<1>2. Min(I) = e
  <2>1. \A x \in I : (\A y \in I : x <= y) => x = e
    BY <1>1
  <2> QED
    BY <1>1, <2>1 DEF Min
<1>3. {i \in 1..Len(s) : IsNewLine(s[i])} = I
    BY DEF IsNewLine
<1> QED
    BY <1>1, <1>2, <1>3 DEF EndOfLine, SelectInSeq

\* A sequence without its first e elements.
LEMMA Without ==
    ASSUME NEW s \in Seq(Nat), NEW e \in 0..Len(s)
    PROVE  /\ SubSeq(s, e + 1, Len(s)) \in Seq(Nat)
           /\ Len(SubSeq(s, e + 1, Len(s))) = Len(s) - e
           /\ \A i \in 1..(Len(s) - e) : SubSeq(s, e + 1, Len(s))[i] = s[e + i]
<1>1. /\ e + 1 \in Int /\ Len(s) \in Int /\ Len(s) - (e + 1) + 1 = Len(s) - e
      /\ \A i \in (e + 1)..Len(s) : s[i] \in Nat
      /\ \A i \in 1..(Len(s) - e) : e + 1 + i - 1 = e + i
    OBVIOUS
<1>2. /\ SubSeq(s, e + 1, Len(s)) \in Seq(Nat)
      /\ Len(SubSeq(s, e + 1, Len(s))) = IF e + 1 <= Len(s) THEN Len(s) - (e + 1) + 1 ELSE 0
      /\ \A i \in 1..(Len(s) - (e + 1) + 1) : SubSeq(s, e + 1, Len(s))[i] = s[e + 1 + i - 1]
    BY <1>1, SubSeqProperties
<1> DEFINE rest == SubSeq(s, e + 1, Len(s))
<1>3. Len(rest) = Len(s) - e
  <2> HIDE DEF rest
  <2> QED
    BY <1>2 DEF rest
<1>4. ASSUME NEW i \in 1..(Len(s) - e)
      PROVE  rest[i] = s[e + i]
  <2>1. i \in 1..(Len(s) - (e + 1) + 1) /\ e + 1 + i - 1 = e + i
    OBVIOUS
  <2>2. rest[i] = s[e + 1 + i - 1]
    BY <1>2, <2>1
  <2> HIDE DEF rest
  <2> QED
    BY <2>1, <2>2
<1> QED
    BY <1>2, <1>3, <1>4

\* What a stream t gets of a chunk of n bytes of the tty u, and what remains of
\* both when e bytes of the stream have been taken.
LEMMA Cut ==
    ASSUME NEW t \in Seq(Nat), NEW u \in Seq(Nat), NEW n \in 1..Len(u),
           NEW e \in 0..(Len(t) + n)
    PROVE  LET stream == t \o SubSeq(u, 1, n)
           IN  /\ stream \in Seq(Nat) /\ Len(stream) = Len(t) + n
               /\ \A i \in 1..(Len(t) + n) : stream[i] = (t \o u)[i]
               /\ SubSeq(stream, e + 1, Len(stream)) \o SubSeq(u, n + 1, Len(u))
                      = SubSeq(t \o u, e + 1, Len(t \o u))
<1> DEFINE chunk == SubSeq(u, 1, n)
           stream == t \o chunk
           rest == SubSeq(u, n + 1, Len(u))
           all == t \o u
           kept == SubSeq(stream, e + 1, Len(stream))
           tail == SubSeq(all, e + 1, Len(all))
<1>1. chunk \in Seq(Nat) /\ Len(chunk) = n /\ \A i \in 1..n : chunk[i] = u[i]
    OBVIOUS
<1>2. /\ rest \in Seq(Nat) /\ Len(rest) = Len(u) - n
      /\ \A i \in 1..(Len(u) - n) : rest[i] = u[n + i]
    OBVIOUS
<1>3. /\ all \in Seq(Nat) /\ Len(all) = Len(t) + Len(u)
      /\ \A i \in 1..(Len(t) + Len(u)) : all[i] = IF i <= Len(t) THEN t[i] ELSE u[i - Len(t)]
    BY ConcatProperties
<1>4. /\ stream \in Seq(Nat) /\ Len(stream) = Len(t) + n
      /\ \A i \in 1..(Len(t) + n) : stream[i] = all[i]
  <2> HIDE DEF chunk, all
  <2>1. /\ stream \in Seq(Nat) /\ Len(stream) = Len(t) + n
        /\ \A i \in 1..(Len(t) + n) :
               stream[i] = IF i <= Len(t) THEN t[i] ELSE chunk[i - Len(t)]
    BY <1>1, ConcatProperties
  <2> HIDE DEF stream
  <2>2. ASSUME NEW i \in 1..(Len(t) + n)
        PROVE  stream[i] = all[i]
    <3>0. Len(t) \in Nat /\ n \in Nat /\ Len(u) \in Nat /\ n <= Len(u)
      OBVIOUS
    <3>1. i \in 1..(Len(t) + Len(u))
      BY <3>0
    <3>2. CASE i <= Len(t)
      BY <1>3, <2>1, <3>1, <3>2
    <3>3. CASE i > Len(t)
      <4>1. i - Len(t) \in 1..n
        BY <3>0, <3>3
      <4>2. all[i] = u[i - Len(t)] /\ stream[i] = chunk[i - Len(t)]
        BY <1>3, <2>1, <3>0, <3>1, <3>3
      <4> QED
        BY <1>1, <4>1, <4>2
    <3> QED
      BY <3>0, <3>2, <3>3
  <2> QED
    BY <2>1, <2>2
<1>5. /\ tail \in Seq(Nat) /\ Len(tail) = Len(t) + Len(u) - e
      /\ \A i \in 1..(Len(t) + Len(u) - e) : tail[i] = all[e + i]
  <2> HIDE DEF all
  <2>1. all \in Seq(Nat) /\ e \in 0..Len(all)
    BY <1>3
  <2>2. /\ tail \in Seq(Nat) /\ Len(tail) = Len(all) - e
        /\ \A i \in 1..(Len(all) - e) : tail[i] = all[e + i]
    BY <2>1, Without
  <2> HIDE DEF tail
  <2> QED
    BY <1>3, <2>2
<1>6. /\ kept \in Seq(Nat) /\ Len(kept) = Len(t) + n - e
      /\ \A i \in 1..(Len(t) + n - e) : kept[i] = stream[e + i]
  <2> HIDE DEF stream
  <2>1. stream \in Seq(Nat) /\ e \in 0..Len(stream)
    BY <1>4
  <2>2. /\ kept \in Seq(Nat) /\ Len(kept) = Len(stream) - e
        /\ \A i \in 1..(Len(stream) - e) : kept[i] = stream[e + i]
    BY <2>1, Without
  <2> HIDE DEF kept
  <2> QED
    BY <1>4, <2>2
<1>7. kept \o rest = tail
  <2> HIDE DEF kept, rest, tail, stream, all, chunk
  <2>0. /\ Len(t) \in Nat /\ n \in Nat /\ Len(u) \in Nat /\ n <= Len(u) /\ e \in Nat
        /\ e <= Len(t) + n
    OBVIOUS
  <2>4. Len(kept) = Len(t) + n - e /\ Len(kept) \in Nat
    BY <1>6, <2>0
  <2>1. /\ kept \o rest \in Seq(Nat) /\ Len(kept \o rest) = Len(kept) + Len(rest)
        /\ \A i \in 1..(Len(kept) + Len(rest)) :
               (kept \o rest)[i] = IF i <= Len(kept) THEN kept[i] ELSE rest[i - Len(kept)]
    BY <1>2, <1>6, ConcatProperties
  <2>2. Len(kept) + Len(rest) = Len(tail)
    BY <1>2, <1>5, <1>6
  <2>3. ASSUME NEW i \in 1..Len(tail)
        PROVE  (kept \o rest)[i] = tail[i]
    <3> DEFINE k == Len(kept)
               c == Len(t)
               d == Len(u)
    <3>1. i \in 1..(c + d - e) /\ tail[i] = all[e + i]
      BY <1>5
    <3>2. (kept \o rest)[i] = IF i <= k THEN kept[i] ELSE rest[i - k]
      BY <2>1, <2>2
    <3>3. c \in Nat /\ d \in Nat /\ k \in Nat /\ k = c + n - e
      BY <2>4
    <3>4. /\ \A x \in 1..(d - n) : rest[x] = u[n + x]
          /\ \A x \in 1..(c + d) : all[x] = IF x <= c THEN t[x] ELSE u[x - c]
          /\ \A x \in 1..(c + n) : stream[x] = all[x]
          /\ \A x \in 1..(c + n - e) : kept[x] = stream[e + x]
      BY <1>2, <1>3, <1>4, <1>6
    <3>5. n \in 1..d /\ e \in 0..(c + n)
      OBVIOUS
    <3> HIDE DEF k, c, d
    <3>6. CASE i <= k
      <4>1. i \in 1..(c + n - e) /\ e + i \in 1..(c + n)
        BY <3>1, <3>3, <3>5, <3>6
      <4> QED
        BY <3>1, <3>2, <3>4, <3>6, <4>1
    <3>7. CASE ~(i <= k)
      <4>1. i - k \in 1..(d - n) /\ n + (i - k) = e + i - c
        BY <3>1, <3>3, <3>5, <3>7
      <4>2. e + i \in 1..(c + d) /\ ~(e + i <= c) /\ i \in 1..(c + d - e)
        BY <3>1, <3>3, <3>5, <3>7
      <4>3. (kept \o rest)[i] = rest[i - k]
        BY <3>2, <3>7
      <4>4. rest[i - k] = u[e + i - c]
        <5> DEFINE x == i - k
                   y == e + i - c
        <5>1. x \in 1..(d - n) /\ n + x = y
          BY <4>1
        <5> HIDE DEF x, y
        <5>2. rest[x] = u[y]
          BY <3>4, <5>1
        <5> QED
          BY <5>2 DEF x, y
      <4>5. all[e + i] = u[e + i - c]
        <5> DEFINE x == e + i
                   y == e + i - c
        <5>1. x \in 1..(c + d) /\ ~(x <= c) /\ x - c = y
          BY <3>3, <3>5, <4>2
        <5> HIDE DEF x, y
        <5>2. all[x] = u[x - c]
          BY <3>4, <5>1
        <5>3. all[x] = u[y]
          BY <5>1, <5>2
        <5> QED
          BY <5>3 DEF x, y
      <4> QED
        BY <3>1, <4>3, <4>4, <4>5
    <3> QED
      BY <3>6, <3>7
  <2> QED
    BY <1>5, <2>1, <2>2, <2>3, SeqEqual
<1> QED
    BY <1>4, <1>7

\* The end of a body is a number of times its line's number.
LEMMA EndOfBody ==
    ASSUME NEW m \in Nat, NEW k \in 0..BodySize, NEW x \in Seq(Nat),
           Len(x) = BodySize - k, \A i \in 1..Len(x) : x[i] = m
    PROVE  IsSuffix(x, Body(m)) /\ (k = 0 => x = Body(m))
<1>1. /\ Body(m) \in Seq(Nat) /\ Len(Body(m)) = BodySize
      /\ \A i \in 1..BodySize : Body(m)[i] = m
    BY SizeType DEF Body
<1>2. k = 0 => x = Body(m)
    BY <1>1, SeqEqual
<1> DEFINE rx == Reverse(x)
           rb == Reverse(Body(m))
<1>3. rx \in Seq(Nat) /\ Len(rx) = BodySize - k /\ \A i \in 1..(BodySize - k) : rx[i] = m
    BY SizeType DEF Reverse
<1>4. rb \in Seq(Nat) /\ Len(rb) = BodySize /\ \A i \in 1..BodySize : rb[i] = m
    BY <1>1, SizeType DEF Reverse
<1>5. IsPrefix(rx, rb)
  <2> HIDE DEF rx, rb
  <2>1. Len(rx) <= Len(rb) /\ Len(rx) \in Nat
    BY <1>3, <1>4, SizeType
  <2>2. SubSeq(rx, 1, Len(rx)) \in Seq(Nat) /\ Len(SubSeq(rx, 1, Len(rx))) = Len(rx)
        /\ \A i \in 1..Len(rx) : SubSeq(rx, 1, Len(rx))[i] = m
    BY <1>3
  <2>3. SubSeq(rb, 1, Len(rx)) \in Seq(Nat) /\ Len(SubSeq(rb, 1, Len(rx))) = Len(rx)
        /\ \A i \in 1..Len(rx) : SubSeq(rb, 1, Len(rx))[i] = m
    BY <1>3, <1>4, <2>1, SizeType
  <2>4. SubSeq(rx, 1, Len(rx)) = SubSeq(rb, 1, Len(rx))
    BY <2>2, <2>3, SeqEqual
  <2> QED
    BY <2>1, <2>4 DEF IsPrefix
<1> QED
    BY <1>2, <1>5 DEF IsSuffix

\* A body without its first k bytes: the same.
BodyFrom(m, k) == SubSeq(Body(m), k + 1, Len(Body(m)))

LEMMA EndIsRest ==
    ASSUME NEW m \in Nat, NEW k \in 0..BodySize, NEW x \in Seq(Nat),
           Len(x) = BodySize - k, \A i \in 1..Len(x) : x[i] = m
    PROVE  x = BodyFrom(m, k)
<1> DEFINE body == Body(m)
           rest == BodyFrom(m, k)
<1>1. /\ body \in Seq(Nat) /\ Len(body) = BodySize /\ BodySize \in Nat
      /\ \A i \in 1..BodySize : body[i] = m
    BY SizeType DEF Body
<1>2. rest = SubSeq(body, k + 1, Len(body))
    BY DEF BodyFrom
<1> HIDE DEF body, rest
<1>3. /\ rest \in Seq(Nat) /\ Len(rest) = BodySize - k
      /\ \A i \in 1..(BodySize - k) : rest[i] = body[k + i]
    BY <1>1, <1>2, Without
<1>4. \A i \in 1..(BodySize - k) : rest[i] = m
    BY <1>1, <1>3
<1>5. x = rest
    BY <1>1, <1>3, <1>4, SeqEqual
<1> QED
    BY <1>5 DEF rest

-----------------------------------------------------------------------------
(* The steps of the specification.                                         *)

\* The three invariants are inductive together.
Inv == TypeOK /\ WholeLines /\ NothingLost

\* Bytes are numbers.
LEMMA BytesAreNumbers ==
    ASSUME TypeOK
    PROVE  /\ ss \in Seq(Nat) /\ tty \in Seq(Nat) /\ ss \o tty \in Seq(Nat)
           /\ sent \in Nat /\ Len(delivered) \in Nat
<1>1. ss \in Seq(Nat) /\ tty \in Seq(Nat)
    BY LineAssumption DEF TypeOK, Bytes
<1>2. ss \o tty \in Seq(Nat)
    BY <1>1
<1>3. sent \in Nat /\ Len(delivered) \in Nat
    BY LineAssumption DEF TypeOK
<1> QED
    BY <1>1, <1>2, <1>3

\* Three pieces of the stream in a row.
LEMMA Glued ==
    \A u, v, w \in Seq(Nat) : (u \o v) \o w = u \o (v \o w)
<1> SUFFICES ASSUME NEW u \in Seq(Nat), NEW v \in Seq(Nat), NEW w \in Seq(Nat)
             PROVE  (u \o v) \o w = u \o (v \o w)
    OBVIOUS
<1> QED
    BY ConcatAssociative, SMTT(30)

\* What is read of the tty and what remains in it are bytes.
LEMMA PartType ==
    ASSUME NEW u \in Seq(Bytes), NEW n \in 1..Len(u)
    PROVE  SubSeq(u, 1, n) \in Seq(Bytes) /\ SubSeq(u, n + 1, Len(u)) \in Seq(Bytes)
<1>1. \A i \in 1..Len(u) : u[i] \in Bytes
    OBVIOUS
<1>2. Len(u) \in Int /\ n \in Int /\ n + 1 \in Int /\ 1 \in Int
    OBVIOUS
<1>3. (\A i \in 1..n : u[i] \in Bytes) /\ \A i \in (n + 1)..Len(u) : u[i] \in Bytes
    BY <1>1
<1> QED
    BY <1>2, <1>3, SubSeqProperties

\* No more lines are delivered than were printed.
LEMMA CountType ==
    ASSUME TypeOK, NEW skipped \in 0..BodySize,
           AreLines(ss \o tty, Len(delivered), sent - Len(delivered), skipped)
    PROVE  sent - Len(delivered) \in Nat
<1> DEFINE count == sent - Len(delivered)
<1>1. count \in Int /\ Len(ss \o tty) \in Nat /\ skipped \in Nat
    BY BytesAreNumbers, SizeType
<1>2. SizeOf(count) >= 0
    BY <1>1 DEF AreLines
<1>3. ASSUME NEW m \in Int, NEW l \in Nat \ {0}, m * l >= 0
      PROVE  m >= 0
    BY <1>3, SMTT(30)
<1> HIDE DEF count
<1>4. count >= 0
    BY <1>1, <1>2, <1>3, SizeType DEF SizeOf
<1> QED
    BY <1>1, <1>4 DEF count

\* What is in front of a byte of a sequence, the first included, are bytes.
LEMMA FrontType ==
    ASSUME NEW u \in Seq(Bytes), NEW n \in 1..Len(u)
    PROVE  SubSeq(u, 1, n - 1) \in Seq(Bytes)
<1>1. \A i \in 1..Len(u) : u[i] \in Bytes
    OBVIOUS
<1>2. Len(u) \in Nat /\ n \in Nat /\ n - 1 \in Int /\ 1 \in Int
    OBVIOUS
<1>3. \A i \in 1..(n - 1) : u[i] \in Bytes
    BY <1>1, <1>2
<1> QED
    BY <1>2, <1>3, SubSeqProperties

\* The port opens on the end of line 1.
LEMMA InitInv == Init => Inv
<1> SUFFICES ASSUME Init PROVE Inv
    OBVIOUS
<1>1. PICK skipped \in 0..BodySize : tty = SubSeq(Line(1), skipped + 1, BodySize + 1)
    BY DEF Init
<1>2. /\ Line(1) \in Seq(0..1) /\ Line(1) \in Seq(Nat) /\ Len(Line(1)) = LineSize
      /\ skipped \in 0..LineSize /\ skipped \in Nat /\ LineSize \in Nat
  <2>1. skipped \in 0..LineSize /\ skipped \in Nat /\ LineSize \in Nat
    BY SizeType
  <2>2. 1 \in Nat
    OBVIOUS
  <2> QED
    BY <2>1, <2>2, LineBytes
<1>3. tty = SubSeq(Line(1), skipped + 1, Len(Line(1)))
    BY <1>1, <1>2, SizeType
<1>4. /\ tty \in Seq(Nat) /\ Len(tty) = LineSize - skipped
      /\ \A i \in 1..(LineSize - skipped) : tty[i] = Line(1)[skipped + i]
    BY <1>2, <1>3, Without
<1>5. TypeOK
  <2>1. tty \in Seq(0..1)
    BY <1>2, <1>3
  <2>2. tty \in Seq(Bytes)
    BY <2>1, LineAssumption DEF Bytes
  <2> QED
    BY <2>2, LineAssumption DEF Init, TypeOK
<1>6. WholeLines
    BY DEF Init, WholeLines
<1>7. ss = <<>> /\ delivered = <<>> /\ sent = 1 /\ Len(delivered) = 0
    BY DEF Init
<1>8. ss \o tty = tty
    BY <1>4, <1>7, ConcatEmptySeq
<1>9. SizeOf(0) = 0 /\ SizeOf(1) = LineSize
  <2>1. SizeOf(0) = 0 /\ SizeOf(0 + 1) = SizeOf(0) + LineSize
    BY SizeOfLines
  <2> QED
    BY <1>2, <2>1
<1>10. AreLines(tty, 0, 1, skipped)
  <2>1. Len(tty) + skipped = SizeOf(1)
    BY <1>2, <1>4, <1>9
  <2>2. ASSUME NEW j \in 1..LineSize, j > skipped
        PROVE  tty[j - skipped] = Line(1)[j]
    <3> DEFINE i == j - skipped
    <3>1. i \in 1..(LineSize - skipped) /\ skipped + i = j
      BY <1>2, <2>2
    <3> HIDE DEF i
    <3>2. tty[i] = Line(1)[j]
      BY <1>4, <3>1
    <3> QED
      BY <3>2 DEF i
  <2>3. ASSUME NEW k \in 0..(1 - 1), NEW j \in 1..LineSize, SizeOf(k) + j > skipped
        PROVE  tty[SizeOf(k) + j - skipped] = Line(0 + k + 1)[j]
    <3>1. k = 0 /\ 0 + k + 1 = 1
      OBVIOUS
    <3>2. SizeOf(k) = 0 /\ SizeOf(k) + j = j
      BY <1>9, <3>1
    <3>3. tty[j - skipped] = Line(1)[j]
      BY <2>2, <2>3, <3>2
    <3>4. Line(0 + k + 1) = Line(1)
      BY <3>1
    <3>5. SizeOf(k) + j - skipped = j - skipped
      BY <1>2, <3>2
    <3> QED
      BY <3>3, <3>4, <3>5
  <2> QED
    BY <2>1, <2>3 DEF AreLines
<1>11. NothingLost
    BY <1>7, <1>8, <1>10 DEF NothingLost
<1> QED
    BY <1>5, <1>6, <1>11 DEF Inv

\* Printing a line keeps the invariant.
LEMMA PrintKeepsInv == Inv /\ PrintLine => Inv'
<1> SUFFICES ASSUME Inv, PrintLine
             PROVE  Inv'
    OBVIOUS
<1>1. /\ sent < MaxLines /\ sent' = sent + 1 /\ tty' = tty \o Line(sent + 1)
      /\ ss' = ss /\ delivered' = delivered
    BY DEF PrintLine
<1>2. /\ TypeOK /\ ss \in Seq(Nat) /\ tty \in Seq(Nat) /\ ss \o tty \in Seq(Nat)
      /\ sent \in Nat /\ Len(delivered) \in Nat
    BY BytesAreNumbers DEF Inv
<1>3. Line(sent + 1) \in Seq(0..(sent + 1)) /\ Line(sent + 1) \in Seq(Nat)
    BY <1>2, LineBytes
<1>4. TypeOK'
  <2>1. sent' \in 1..MaxLines
    BY <1>1, <1>2, LineAssumption
  <2>2. Line(sent + 1) \in Seq(Bytes)
    BY <1>1, <1>2, <1>3, LineAssumption DEF Bytes
  <2>3. tty' \in Seq(Bytes)
    BY <1>1, <1>2, <2>2 DEF TypeOK
  <2> QED
    BY <1>1, <1>2, <2>1, <2>3 DEF TypeOK, Bytes
<1>5. WholeLines'
    BY <1>1 DEF Inv, WholeLines, Body
<1>6. NothingLost'
  <2>1. PICK skipped \in 0..BodySize :
            /\ delivered # <<>> => skipped = 0
            /\ AreLines(ss \o tty, Len(delivered), sent - Len(delivered), skipped)
    BY DEF Inv, NothingLost
  <2> DEFINE count == sent - Len(delivered)
  <2>2. count \in Nat
    BY <1>2, <2>1, CountType
  <2>3. AreLines((ss \o tty) \o Line(Len(delivered) + count + 1),
                 Len(delivered), count + 1, skipped)
    <3> HIDE DEF count
    <3> QED
      BY <1>2, <2>1, <2>2, MoreLines DEF count
  <2>4. Len(delivered) + count + 1 = sent + 1 /\ count + 1 = sent' - Len(delivered')
    BY <1>1, <1>2
  <2>5. ss' \o tty' = (ss \o tty) \o Line(sent + 1)
    <3> DEFINE next == Line(sent + 1)
    <3>1. tty' = tty \o next /\ ss' = ss
      BY <1>1
    <3>2. ss \in Seq(Nat) /\ tty \in Seq(Nat) /\ next \in Seq(Nat)
      BY <1>2, <1>3
    <3> HIDE DEF next
    <3>3. (ss \o tty) \o next = ss \o (tty \o next)
      BY <3>2, Glued
    <3> QED
      BY <3>1, <3>3 DEF next
  <2>6. AreLines(ss' \o tty', Len(delivered'), sent' - Len(delivered'), skipped)
    BY <1>1, <2>3, <2>4, <2>5
  <2> QED
    BY <1>1, <2>1, <2>6 DEF NothingLost, AreLines, Line, Body
<1> QED
    BY <1>4, <1>5, <1>6 DEF Inv

\* A step that prints and delivers nothing and leaves the bytes in their order
\* loses nothing.
LEMMA SameBytes ==
    ASSUME NothingLost, sent' = sent, delivered' = delivered, ss' \o tty' = ss \o tty
    PROVE  NothingLost'
<1>1. PICK skipped \in 0..BodySize :
          /\ delivered # <<>> => skipped = 0
          /\ AreLines(ss \o tty, Len(delivered), sent - Len(delivered), skipped)
    BY DEF NothingLost
<1>2. AreLines(ss' \o tty', Len(delivered'), sent' - Len(delivered'), skipped)
    BY <1>1
<1> QED
    BY <1>1, <1>2 DEF NothingLost, AreLines, Line, Body

\* A chunk that does not end with a delimiter joins the stream.
LEMMA KeepBytes ==
    ASSUME Inv, NEW n \in 1..MaxTty, Read(n), ~Ready(SubSeq(tty, 1, n))
    PROVE  Inv'
<1>1. /\ TypeOK /\ ss \in Seq(Nat) /\ tty \in Seq(Nat) /\ ss \o tty \in Seq(Nat)
    BY BytesAreNumbers DEF Inv
<1>2. /\ n \in 1..Len(tty) /\ tty' = SubSeq(tty, n + 1, Len(tty))
      /\ ss' = ss \o SubSeq(tty, 1, n) /\ delivered' = delivered /\ sent' = sent
    BY <1>1 DEF Read
<1>3. ss' \o tty' = ss \o tty
  <2> DEFINE stream == ss \o SubSeq(tty, 1, n)
  <2>1. 0 \in 0..(Len(ss) + n)
    BY <1>1, <1>2
  <2>2. /\ stream \in Seq(Nat)
        /\ SubSeq(stream, 0 + 1, Len(stream)) \o SubSeq(tty, n + 1, Len(tty))
               = SubSeq(ss \o tty, 0 + 1, Len(ss \o tty))
    BY <1>1, <1>2, <2>1, Cut
  <2> DEFINE rest == SubSeq(tty, n + 1, Len(tty))
             all == ss \o tty
  <2>3. stream \in Seq(Nat) /\ all \in Seq(Nat)
    BY <1>1, <2>2
  <2>4. SubSeq(stream, 0 + 1, Len(stream)) \o rest = SubSeq(all, 0 + 1, Len(all))
    BY <2>2
  <2>5. ss' = stream /\ tty' = rest
    BY <1>2
  <2> HIDE DEF stream, all, rest
  <2>6. SubSeq(stream, 1, Len(stream)) = stream /\ SubSeq(all, 1, Len(all)) = all
    BY <2>3, SubSeqFull
  <2>7. 0 + 1 = 1
    OBVIOUS
  <2>8. stream \o rest = all
    BY <2>4, <2>6, <2>7, Zenon
  <2> QED
    BY <2>5, <2>8, Zenon DEF all
<1>4. TypeOK'
  <2>1. SubSeq(tty, 1, n) \in Seq(Bytes) /\ tty' \in Seq(Bytes)
    BY <1>1, <1>2, PartType DEF TypeOK
  <2>2. ss' \in Seq(Bytes)
    BY <1>1, <1>2, <2>1 DEF TypeOK
  <2> QED
    BY <1>1, <1>2, <2>1, <2>2 DEF TypeOK, Bytes
<1>5. WholeLines'
    BY <1>2 DEF Inv, WholeLines, Body
<1>6. NothingLost'
    BY <1>2, <1>3, SameBytes DEF Inv
<1> QED
    BY <1>4, <1>5, <1>6 DEF Inv

\* A chunk that ends with a delimiter lets getline() deliver exactly the next
\* line, whole unless it is the first one.
LEMMA DeliverLine ==
    ASSUME Inv, NEW n \in 1..MaxTty, Read(n), Ready(SubSeq(tty, 1, n))
    PROVE  /\ Inv' /\ Len(delivered) < sent
           /\ \E skipped \in 0..BodySize :
                 /\ delivered # <<>> => skipped = 0
                 /\ delivered' = Append(delivered, BodyFrom(Len(delivered) + 1, skipped))
<1> DEFINE stream == ss \o SubSeq(tty, 1, n)
           all == ss \o tty
           d == Len(delivered)
           count == sent - d
           e == EndOfLine(stream)
<1>1. /\ TypeOK /\ ss \in Seq(Nat) /\ tty \in Seq(Nat) /\ all \in Seq(Nat)
      /\ sent \in Nat /\ d \in Nat
    BY BytesAreNumbers DEF Inv
<1>2. /\ n \in 1..Len(tty) /\ tty' = SubSeq(tty, n + 1, Len(tty))
      /\ ss' = Rest(stream) /\ delivered' = Append(delivered, Extracted(stream))
      /\ sent' = sent
    BY <1>1 DEF Read
<1>3. PICK skipped \in 0..BodySize :
          (delivered # <<>> => skipped = 0) /\ AreLines(all, d, count, skipped)
    BY DEF Inv, NothingLost
<1>4. count \in Nat
    BY <1>1, <1>3, CountType
<1>5. /\ stream \in Seq(Nat) /\ Len(stream) = Len(ss) + n
      /\ \A i \in 1..Len(stream) : stream[i] = all[i]
      /\ Len(stream) \in 1..Len(all)
  <2>1. 0 \in 0..(Len(ss) + n)
    BY <1>1, <1>2
  <2>2. /\ stream \in Seq(Nat) /\ Len(stream) = Len(ss) + n
        /\ \A i \in 1..(Len(ss) + n) : stream[i] = all[i]
    BY <1>1, <1>2, <2>1, Cut
  <2>3. Len(all) = Len(ss) + Len(tty)
    BY <1>1
  <2> HIDE DEF stream, all
  <2> QED
    BY <1>1, <1>2, <2>2, <2>3
<1>6. all[Len(stream)] = NewLine
  <2>1. SubSeq(tty, 1, n)[n] = NewLine /\ Len(SubSeq(tty, 1, n)) = n
    BY <1>1, <1>2 DEF Ready
  <2>2. stream[Len(ss) + n] = SubSeq(tty, 1, n)[n]
    <3> DEFINE chunk == SubSeq(tty, 1, n)
    <3>1. chunk \in Seq(Nat) /\ Len(chunk) = n
      BY <1>1, <1>2
    <3> HIDE DEF chunk
    <3>2. (ss \o chunk)[Len(ss) + n] = chunk[n]
      BY <1>1, <1>2, <3>1
    <3> QED
      BY <3>2 DEF chunk
  <2>3. Len(stream) \in 1..Len(stream)
    BY <1>5
  <2> QED
    BY <1>5, <2>1, <2>2, <2>3
<1>7. /\ count > 0 /\ LineSize - skipped \in 1..Len(stream)
      /\ all[LineSize - skipped] = NewLine
      /\ \A i \in 1..(LineSize - skipped - 1) : all[i] = d + 1
  <2> DEFINE p == Len(stream)
  <2>1. all \in Seq(Nat) /\ d \in Nat /\ count \in Nat /\ p \in 1..Len(all)
    BY <1>1, <1>4, <1>5
  <2>2. AreLines(all, d, count, skipped) /\ all[p] = NewLine
    BY <1>3, <1>6
  <2> HIDE DEF p, all, count, d
  <2>3. /\ count > 0 /\ LineSize - skipped \in 1..p
        /\ all[LineSize - skipped] = NewLine
        /\ \A i \in 1..(LineSize - skipped - 1) : all[i] = d + 1
    BY <2>1, <2>2, FirstLine
  <2> QED
    BY <2>3 DEF p
<1>8. e = LineSize - skipped
  <2> DEFINE b == LineSize - skipped
  <2>0. d + 1 # NewLine
    BY <1>1
  <2>1. /\ b \in 1..Len(stream) /\ all[b] = NewLine
        /\ \A i \in 1..(b - 1) : all[i] = d + 1
    BY <1>7
  <2> HIDE DEF stream, b, all, d
  <2>2. Len(stream) \in Nat /\ stream \in Seq(Nat)
    BY <1>5
  <2>3. \A i \in 1..(b - 1) : i \in 1..Len(stream)
    BY <2>1, <2>2
  <2>4. stream[b] = NewLine /\ \A i \in 1..(b - 1) : stream[i] # NewLine
    BY <1>5, <2>0, <2>1, <2>3
  <2>5. EndOfLine(stream) = b
    BY <2>1, <2>2, <2>4, FirstDelimiter
  <2> QED
    BY <2>5 DEF b
<1>9. e \in 1..Len(stream) /\ e # 0 /\ e = BodySize + 1 - skipped /\ e \in Nat
    BY <1>7, <1>8, SizeType
<1>10. AreLines(ss' \o tty', d + 1, count - 1, 0)
  <2>1. ss' = SubSeq(stream, e + 1, Len(stream))
    BY <1>2, <1>9 DEF Rest
  <2>2. e \in 0..(Len(ss) + n)
    BY <1>5, <1>9
  <2>3. ss' \o tty' = SubSeq(all, e + 1, Len(all))
    <3> HIDE DEF e
    <3>1. SubSeq(stream, e + 1, Len(stream)) \o SubSeq(tty, n + 1, Len(tty))
              = SubSeq(ss \o tty, e + 1, Len(ss \o tty))
      BY <1>1, <1>2, <2>2, Cut
    <3>2. tty' = SubSeq(tty, n + 1, Len(tty))
      BY <1>2
    <3> HIDE DEF stream
    <3> QED
      BY <2>1, <3>1, <3>2
  <2>4. AreLines(SubSeq(all, LineSize - skipped + 1, Len(all)), d + 1, count - 1, 0)
    <3> HIDE DEF all, d, count
    <3> QED
      BY <1>1, <1>3, <1>4, <1>7, FewerLines
  <2> QED
    BY <1>8, <2>3, <2>4
<1> DEFINE x == Extracted(stream)
<1>11. /\ x \in Seq(Nat) /\ Len(x) = BodySize - skipped
       /\ \A i \in 1..Len(x) : x[i] = d + 1
  <2>1. x = SubSeq(stream, 1, e - 1)
    BY <1>9 DEF Extracted
  <2>2. /\ stream \in Seq(Nat) /\ e \in 1..Len(stream) /\ Len(stream) \in Nat
        /\ e - 1 = BodySize - skipped
    BY <1>5, <1>9, SizeType
  <2>3. \A i \in 1..Len(stream) : stream[i] = all[i]
    BY <1>5
  <2>4. \A i \in 1..(e - 1) : all[i] = d + 1
    BY <1>7, <1>8
  <2> HIDE DEF stream, e, x, all, d
  <2>5. /\ x \in Seq(Nat) /\ Len(x) = e - 1
        /\ \A i \in 1..(e - 1) : x[i] = stream[i]
    BY <2>1, <2>2
  <2>6. \A i \in 1..(e - 1) : i \in 1..Len(stream)
    BY <2>2
  <2> QED
    BY <2>2, <2>3, <2>4, <2>5, <2>6
<1>12. IsSuffix(x, Body(d + 1)) /\ (skipped = 0 => x = Body(d + 1))
  <2> HIDE DEF x, d
  <2> QED
    BY <1>1, <1>11, EndOfBody
<1>13. /\ Len(delivered') = d + 1 /\ delivered'[d + 1] = x
       /\ \A i \in 1..d : delivered'[i] = delivered[i]
  <2> HIDE DEF x
  <2> QED
    BY <1>1, <1>2 DEF TypeOK, x
<1>14. WholeLines'
  <2>1. ASSUME NEW i \in 1..(d + 1)
        PROVE  IsSuffix(delivered'[i], Body(i)) /\ (i > 1 => delivered'[i] = Body(i))
    <3>1. CASE i = d + 1
      <4>1. i > 1 => skipped = 0
        BY <1>1, <1>3, <3>1
      <4> QED
        BY <1>12, <1>13, <3>1, <4>1
    <3>2. CASE i # d + 1
      <4>0. i \in 1..d
        BY <1>1, <3>2
      <4>1. i \in DOMAIN delivered /\ i \in 1..d
        BY <1>1, <4>0 DEF TypeOK
      <4>2. IsSuffix(delivered[i], Body(i)) /\ (i > 1 => delivered[i] = Body(i))
        BY <4>1 DEF Inv, WholeLines
      <4>3. delivered'[i] = delivered[i]
        BY <1>13, <4>1
      <4> QED
        BY <4>2, <4>3
    <3> QED
      BY <3>1, <3>2
  <2>2. DOMAIN delivered' = 1..(d + 1)
    BY <1>1, <1>2 DEF TypeOK
  <2> QED
    BY <2>1, <2>2 DEF WholeLines, Body, IsSuffix
<1>15. TypeOK'
  <2>1. SubSeq(tty, 1, n) \in Seq(Bytes) /\ tty' \in Seq(Bytes)
    BY <1>1, <1>2, PartType DEF TypeOK
  <2>2. stream \in Seq(Bytes)
    BY <1>1, <2>1 DEF TypeOK
  <2>3. ss' \in Seq(Bytes) /\ Extracted(stream) \in Seq(Bytes)
    <3>1. /\ ss' = SubSeq(stream, e + 1, Len(stream))
          /\ Extracted(stream) = SubSeq(stream, 1, e - 1)
      BY <1>2, <1>9 DEF Rest, Extracted
    <3>2. e \in 1..Len(stream)
      BY <1>9
    <3> HIDE DEF stream, e
    <3>3. SubSeq(stream, e + 1, Len(stream)) \in Seq(Bytes)
      BY <2>2, <3>2, PartType
    <3>4. SubSeq(stream, 1, e - 1) \in Seq(Bytes)
      BY <2>2, <3>2, FrontType
    <3> QED
      BY <3>1, <3>3, <3>4
  <2>4. delivered' \in Seq(Seq(Bytes))
    BY <1>1, <1>2, <2>3 DEF TypeOK
  <2> QED
    BY <1>1, <1>2, <2>1, <2>3, <2>4 DEF TypeOK, Bytes
<1>16. NothingLost'
  <2>1. sent' - Len(delivered') = count - 1 /\ 0 \in 0..BodySize
    BY <1>1, <1>2, <1>13, SizeType
  <2>2. AreLines(ss' \o tty', Len(delivered'), sent' - Len(delivered'), 0)
    BY <1>10, <1>13, <2>1
  <2> QED
    BY <2>1, <2>2 DEF NothingLost, AreLines, Line, Body
<1>17. x = BodyFrom(d + 1, skipped)
  <2> HIDE DEF x, d
  <2> QED
    BY <1>1, <1>11, EndIsRest
<1>18. Inv'
    BY <1>14, <1>15, <1>16 DEF Inv
<1>19. d < sent
    BY <1>1, <1>7
<1>20. delivered' = Append(delivered, BodyFrom(d + 1, skipped))
    BY <1>2, <1>17
<1> QED
  <2> HIDE DEF x
  <2> QED
    BY <1>3, <1>18, <1>19, <1>20

\* Every step keeps the invariant.
LEMMA NextInv == Inv /\ [Next]_vars => Inv'
<1> SUFFICES ASSUME Inv, [Next]_vars
             PROVE  Inv'
    OBVIOUS
<1>1. CASE PrintLine
    BY <1>1, PrintKeepsInv
<1>2. ASSUME NEW n \in 1..MaxTty, Read(n)
      PROVE  Inv'
    BY <1>2, KeepBytes, DeliverLine
<1>3. CASE UNCHANGED vars
  <2>1. /\ sent' = sent /\ delivered' = delivered /\ ss' = ss /\ tty' = tty
        /\ ss' \o tty' = ss \o tty
    BY <1>3 DEF vars
  <2>2. TypeOK'
    BY <2>1 DEF Inv, TypeOK, Bytes
  <2>3. WholeLines'
    BY <2>1 DEF Inv, WholeLines, Body
  <2> QED
    BY <2>1, <2>2, <2>3, SameBytes DEF Inv
<1> QED
    BY <1>1, <1>2, <1>3 DEF Next

-----------------------------------------------------------------------------
(* The theorems.                                                           *)

\* The inductive invariant holds in every reachable state.
THEOREM ReaderInvariance == Spec => []Inv
    BY InitInv, NextInv, PTL DEF Spec

\* Type correctness of the reader and of what feeds it.
THEOREM ReaderTypeCorrect == Spec => []TypeOK
<1>1. Inv => TypeOK
    BY DEF Inv
<1> QED
    BY <1>1, ReaderInvariance, PTL

\* However the bytes are cut into chunks, ReadLineAlgorithm passes whole lines
\* to its callback, the n-th line as the n-th, but for the head of the first.
THEOREM LinesAreWhole == Spec => []WholeLines
<1>1. Inv => WholeLines
    BY DEF Inv
<1> QED
    BY <1>1, ReaderInvariance, PTL

\* ReadLineAlgorithm::ss and the tty together hold exactly the lines that were
\* not delivered yet: no byte is dropped, duplicated or moved.
THEOREM NoByteLost == Spec => []NothingLost
<1>1. Inv => NothingLost
    BY DEF Inv
<1> QED
    BY <1>1, ReaderInvariance, PTL

\* One more line printed is one more text.
LEMMA MoreTexts ==
    ASSUME NEW count \in Nat
    PROVE  [n \in 1..(count + 1) |-> Body(n)]
               = Append([n \in 1..count |-> Body(n)], Body(count + 1))
<1> DEFINE S == Seq(Nat)
           texts == [n \in 1..count |-> Body(n)]
           more == [n \in 1..(count + 1) |-> Body(n)]
           last == Body(count + 1)
<1>0. \A n \in Nat : Body(n) \in S
    BY SizeType DEF Body
<1>1. texts \in Seq(S) /\ Len(texts) = count /\ \A i \in 1..count : texts[i] = Body(i)
    BY <1>0
<1>2. more \in Seq(S) /\ Len(more) = count + 1 /\ \A i \in 1..(count + 1) : more[i] = Body(i)
    BY <1>0
<1>3. last \in S
    BY <1>0
<1> HIDE DEF S, texts, more
<1>4. /\ Append(texts, last) \in Seq(S) /\ Len(Append(texts, last)) = count + 1
      /\ \A i \in 1..(count + 1) : Append(texts, last)[i] = Body(i)
  <2> HIDE DEF last
  <2>1. /\ Append(texts, last) \in Seq(S) /\ Len(Append(texts, last)) = count + 1
        /\ \A i \in 1..count : Append(texts, last)[i] = texts[i]
        /\ Append(texts, last)[count + 1] = last
    BY <1>1, <1>3
  <2> QED
    BY <1>1, <2>1 DEF last
<1>5. more = Append(texts, last)
  <2> HIDE DEF last
  <2> QED
    BY <1>2, <1>4, SeqEqual
<1> QED
    BY <1>5 DEF texts, more

\* The reader implements the stream of lines its consumers are promised: the
\* text handed over n-th is that of the line printed n-th.
THEOREM StreamsLines == Spec => LinesInOrder
<1> DEFINE printed == [n \in 1..sent |-> Body(n)]
           texts == {Body(n) : n \in 1..MaxLines}
<1>1. Init => Stream!Init
  <2> SUFFICES ASSUME Init
               PROVE  Stream!Init
    OBVIOUS
  <2>1. sent = 1 /\ delivered = <<>>
    BY DEF Init
  <2>2. Body(1) \in texts
    BY LineAssumption
  <2>3. printed = <<Body(1)>>
    <3> DEFINE body == Body(1)
    <3>1. printed = [n \in 1..1 |-> body]
      BY <2>1
    <3> HIDE DEF body
    <3>2. [n \in 1..1 |-> body] = <<body>>
      BY SeqEqual, 1 \in Nat
    <3> QED
      BY <3>1, <3>2 DEF body
  <2> QED
    BY <2>1, <2>2, <2>3 DEF Stream!Init
<1>2. ASSUME Inv, [Next]_vars
      PROVE  [Stream!Next]_(Stream!lineVars)
  <2>0. sent \in 1..MaxLines /\ MaxLines \in Nat /\ delivered \in Seq(Seq(Bytes))
    BY <1>2, LineAssumption DEF Inv, TypeOK
  <2>1. CASE PrintLine
    <3> DEFINE body == Body(sent + 1)
    <3>1. sent' = sent + 1 /\ delivered' = delivered /\ sent + 1 \in 1..MaxLines
      BY <2>0, <2>1 DEF PrintLine
    <3>2. body \in texts
      BY <3>1
    <3>3. printed' = [n \in 1..(sent + 1) |-> Body(n)]
      BY <3>1 DEF Body
    <3>4. printed' = Append(printed, body)
      <4>1. sent \in Nat
        BY <2>0
      <4>2. [n \in 1..(sent + 1) |-> Body(n)] = Append(printed, body)
        BY <4>1, MoreTexts, Zenon
      <4> QED
        BY <3>3, <4>2, Zenon
    <3> QED
      BY <3>1, <3>2, <3>4 DEF Stream!Next, Stream!Send
  <2>2. ASSUME NEW n \in 1..MaxTty, Read(n), Ready(SubSeq(tty, 1, n))
        PROVE  Stream!HandOver
    <3>1. PICK skipped \in 0..BodySize :
              /\ delivered # <<>> => skipped = 0
              /\ delivered' = Append(delivered, BodyFrom(Len(delivered) + 1, skipped))
      BY <1>2, <2>2, DeliverLine
    <3>2. Len(delivered) < sent
      BY <1>2, <2>2, DeliverLine
    <3>3. sent' = sent /\ printed' = printed
      BY <2>2 DEF Read, Body
    <3>4. Len(printed) = sent /\ printed[Len(delivered) + 1] = Body(Len(delivered) + 1)
      BY <2>0, <3>2
    <3>5. Len(Body(Len(delivered) + 1)) = BodySize
      BY SizeType DEF Body
    <3>6. BodyFrom(Len(delivered) + 1, skipped)
              = Stream!WithoutHead(printed[Len(delivered) + 1], skipped)
      BY <3>4 DEF BodyFrom, Stream!WithoutHead
    <3> QED
      BY <3>1, <3>2, <3>3, <3>4, <3>5, <3>6 DEF Stream!HandOver
  <2>3. ASSUME NEW n \in 1..MaxTty, Read(n), ~Ready(SubSeq(tty, 1, n))
        PROVE  UNCHANGED Stream!lineVars
    BY <2>3 DEF Read, Stream!lineVars, Body
  <2>4. CASE UNCHANGED vars
    BY <2>4 DEF vars, Stream!lineVars, Body
  <2> QED
    BY <1>2, <2>1, <2>2, <2>3, <2>4 DEF Next, Stream!Next
<1> QED
    BY <1>1, <1>2, ReaderInvariance, PTL DEF Spec, LinesInOrder, Stream!Spec

=============================================================================
