--------------------------- MODULE TelemetryProofs ---------------------------
(***************************************************************************)
(* Proofs about Telemetry for any number of wheels and of handler threads  *)
(* and any number of lines: what is stored with the wheels is of the right *)
(* type, and a response mixes lines only as far as Fresh allows.           *)
(***************************************************************************)
EXTENDS Telemetry, TLAPS

-----------------------------------------------------------------------------
(* Messages, copies and the wheels that responses have come to.            *)

\* A line that parses is a message.
LEMMA MessageType ==
    ASSUME NEW n \in 0..MaxReports, NEW err \in ErrTexts
    PROVE  Message(n, err) \in Messages /\ Message(n, err).report = n
    BY DEF Message, Messages

\* A field copied from a message is of the message's line.
LEMMA CopyType ==
    ASSUME NEW m \in Messages, NEW f
    PROVE  Copy(m, f) \in Copies /\ Copy(m, f).report = m.report
<1>1. GetInt(m.err, 0) \in Nat
    BY DEF GetInt
<1>2. (IF f = "error_code" THEN GetInt(m.err, 0) ELSE 0) \in Nat
    BY <1>1
<1>3. m.report \in 0..MaxReports /\ m.err \in ErrTexts \cup {"absent"}
    BY DEF Messages
<1> QED
    BY <1>2, <1>3 DEF Copy, Copies

\* The field appended to n others belongs to the wheel that n fields lead to.
LEMMA WheelAfter ==
    ASSUME NEW n \in Nat
    PROVE  WheelOf(n + 1) = n \div Len(Fields)
<1>1. n + 1 - 1 = n
    OBVIOUS
<1> QED
    BY <1>1 DEF WheelOf

-----------------------------------------------------------------------------
(* The invariant.                                                          *)

\* Nothing was received, nothing is stored and nobody reads.
LEMMA InitInv == Init => Inv
<1> SUFFICES ASSUME Init PROVE Inv
    OBVIOUS
<1> USE TelemetryAssumption
<1>1. Empty \in Messages /\ Empty.report = 0
    BY DEF Empty, Message, Messages
<1>2. TypeOK
  <2>1. /\ reports \in 0..MaxReports /\ message \in Messages /\ pending \subseteq Wheels
        /\ storing = {} /\ feedback \in [Wheels -> Messages]
    BY <1>1 DEF Init
  <2>2. reader \in [Readers -> {"idle", "state", "read"}] /\ undefined \in BOOLEAN
    BY DEF Init
  <2>3. response \in [Readers -> Seq(Copies)]
    BY DEF Init
  <2>4. newest \in [Wheels -> 0..MaxReports]
    BY DEF Init
  <2>5. [w \in Wheels |-> 0] \in [Wheels -> 0..MaxReports]
    OBVIOUS
  <2>6. before \in [Readers -> [Wheels -> 0..MaxReports]]
    BY <2>5 DEF Init
  <2> QED
    BY <2>1, <2>2, <2>3, <2>4, <2>6 DEF TypeOK
<1>3. StoredIsNewest /\ BeginsBefore
    BY <1>1 DEF Init, StoredIsNewest, BeginsBefore
<1>4. InsideChassis /\ Fresh
    BY DEF Init, InsideChassis, Fresh
<1> QED
    BY <1>2, <1>3, <1>4 DEF Inv

\* A step that leaves the responses, what was there before them and what is
\* stored alone keeps what is said of them.
LEMMA Untouched ==
    ASSUME StoredIsNewest, BeginsBefore, Fresh,
           UNCHANGED <<reports, message, feedback, newest, response, before>>
    PROVE  StoredIsNewest' /\ BeginsBefore' /\ Fresh'
    BY DEF StoredIsNewest, BeginsBefore, Fresh, WheelOf, Fields

\* ReceiveLine: the next line is newer than any that is stored.
LEMMA ReceiveKeepsInv ==
    ASSUME Inv, NEW named \in SUBSET Wheels, NEW err \in ErrTexts, ReceiveLine(named, err)
    PROVE  Inv'
<1>1. /\ reports < MaxReports /\ reports' = reports + 1 /\ pending' = named
      /\ message' = Message(reports + 1, err)
      /\ UNCHANGED <<storing, feedback, newest, reader, response, before, undefined>>
    BY DEF ReceiveLine, readVars
<1>2. reports' \in 0..MaxReports /\ reports \in 0..MaxReports
    BY <1>1, TelemetryAssumption DEF Inv, TypeOK
<1>3. message' \in Messages /\ message'.report = reports'
    BY <1>1, <1>2, MessageType
<1>4. TypeOK'
    BY <1>1, <1>2, <1>3 DEF Inv, TypeOK, Messages, Copies
<1>5. StoredIsNewest'
  <2>1. ASSUME NEW w \in Wheels
        PROVE  newest[w] <= reports'
    BY <1>1, <1>2, <2>1, TelemetryAssumption DEF Inv, StoredIsNewest, TypeOK
  <2> QED
    BY <1>1, <1>3, <2>1 DEF Inv, StoredIsNewest
<1>6. BeginsBefore' /\ InsideChassis' /\ Fresh'
    BY <1>1 DEF Inv, BeginsBefore, InsideChassis, Fresh, WheelOf, NextWheel, Fields
<1> QED
    BY <1>4, <1>5, <1>6 DEF Inv

\* BeginStore only takes the mutex.
LEMMA BeginKeepsInv ==
    ASSUME Inv, NEW w \in Wheels, BeginStore(w)
    PROVE  Inv'
<1>1. /\ storing' = {w} /\ pending' = pending \ {w}
      /\ UNCHANGED <<reports, message, feedback, newest, reader, response, before, undefined>>
    BY DEF BeginStore, readVars
<1>2. TypeOK'
    BY <1>1 DEF Inv, TypeOK, Messages, Copies
<1>3. InsideChassis'
    BY <1>1 DEF Inv, InsideChassis, WheelOf, NextWheel, Fields
<1> QED
    BY <1>1, <1>2, <1>3, Untouched DEF Inv

\* EndStore replaces what is stored by a line at least as new.
LEMMA EndKeepsInv ==
    ASSUME Inv, NEW w \in Wheels, EndStore(w)
    PROVE  Inv'
<1>1. /\ feedback' = [feedback EXCEPT ![w] = message]
      /\ newest' = [newest EXCEPT ![w] = message.report] /\ storing' = {}
      /\ UNCHANGED <<reports, message, pending, reader, response, before, undefined>>
    BY DEF EndStore, Stored, readVars
<1>2. /\ TypeOK /\ message \in Messages /\ message.report \in 0..MaxReports
      /\ message.report = reports
      /\ feedback \in [Wheels -> Messages] /\ newest \in [Wheels -> 0..MaxReports]
      /\ before \in [Readers -> [Wheels -> 0..MaxReports]]
      /\ response \in [Readers -> Seq(Copies)]
    BY DEF Inv, TypeOK, Messages, StoredIsNewest
<1>3. feedback' \in [Wheels -> Messages] /\ newest' \in [Wheels -> 0..MaxReports]
    BY <1>1, <1>2
<1>4. \A v \in Wheels : newest[v] <= newest'[v] /\ newest'[v] <= reports
    BY <1>1, <1>2, TelemetryAssumption DEF Inv, StoredIsNewest
<1>5. TypeOK'
    BY <1>1, <1>2, <1>3 DEF TypeOK, Messages, Copies
<1>6. StoredIsNewest'
  <2>1. \A v \in Wheels : feedback'[v].report = newest'[v]
    BY <1>1, <1>2 DEF Inv, StoredIsNewest
  <2> QED
    BY <1>1, <1>2, <1>4, <2>1 DEF StoredIsNewest
<1>7. BeginsBefore'
  <2>1. ASSUME NEW h \in Readers, NEW v \in Wheels
        PROVE  before[h][v] <= newest'[v]
    BY <1>2, <1>3, <1>4, TelemetryAssumption DEF Inv, BeginsBefore
  <2> QED
    BY <1>1, <2>1 DEF BeginsBefore
<1>8. InsideChassis'
    BY <1>1 DEF Inv, InsideChassis, WheelOf, NextWheel, Fields
<1>9. Fresh'
  <2>1. ASSUME NEW h \in Readers, NEW i \in DOMAIN response[h]
        PROVE  response[h][i].report \in before[h][WheelOf(i)]..newest'[WheelOf(i)]
    <3>1. WheelOf(i) \in Wheels
      BY DEF Inv, InsideChassis
    <3>2. response[h][i].report \in before[h][WheelOf(i)]..newest[WheelOf(i)]
      BY DEF Inv, Fresh
    <3>3. newest[WheelOf(i)] <= newest'[WheelOf(i)] /\ newest[WheelOf(i)] \in Int
          /\ newest'[WheelOf(i)] \in Int /\ before[h][WheelOf(i)] \in Int
      BY <1>2, <1>3, <1>4, <3>1, TelemetryAssumption
    <3> QED
      BY <3>2, <3>3
  <2> QED
    BY <1>1, <2>1 DEF Inv, Fresh, WheelOf, Fields
<1> QED
    BY <1>5, <1>6, <1>7, <1>8, <1>9 DEF Inv

\* getWheelFeedback begins with an empty response and notes what is stored.
LEMMA CallKeepsInv ==
    ASSUME Inv, NEW h \in Readers, GetWheelFeedback(h)
    PROVE  Inv'
<1>1. /\ reader' = [reader EXCEPT ![h] = "state"]
      /\ response' = [response EXCEPT ![h] = <<>>]
      /\ before' = [before EXCEPT ![h] = newest]
      /\ UNCHANGED <<reports, message, pending, storing, feedback, newest, undefined>>
    BY DEF GetWheelFeedback, ioVars
<1>2. /\ reader \in [Readers -> {"idle", "state", "read"}]
      /\ response \in [Readers -> Seq(Copies)]
      /\ newest \in [Wheels -> 0..MaxReports]
      /\ before \in [Readers -> [Wheels -> 0..MaxReports]]
    BY DEF Inv, TypeOK
<1>3. TypeOK'
  <2>1. reader' \in [Readers -> {"idle", "state", "read"}]
    BY <1>1, <1>2
  <2>2. response' \in [Readers -> Seq(Copies)]
    BY <1>1, <1>2
  <2>3. before' \in [Readers -> [Wheels -> 0..MaxReports]]
    BY <1>1, <1>2
  <2> QED
    BY <1>1, <2>1, <2>2, <2>3 DEF Inv, TypeOK, Messages, Copies
<1>4. /\ response'[h] = <<>> /\ reader'[h] = "state" /\ before'[h] = newest
      /\ \A g \in Readers : g # h =>
             response'[g] = response[g] /\ reader'[g] = reader[g] /\ before'[g] = before[g]
    BY <1>1, <1>2
<1>5. StoredIsNewest'
    BY <1>1 DEF Inv, StoredIsNewest
<1>6. BeginsBefore'
  <2>1. \A w \in Wheels : newest[w] <= newest[w]
    BY <1>2, TelemetryAssumption
  <2> QED
    BY <1>1, <1>4, <2>1 DEF Inv, BeginsBefore
<1>7. InsideChassis'
  <2>1. \A g \in Readers : g # h =>
            /\ \A i \in DOMAIN response'[g] : WheelOf(i) \in Wheels
            /\ reader'[g] = "read" => Len(response'[g]) \div Len(Fields) \in Wheels
    BY <1>4 DEF Inv, InsideChassis, NextWheel
  <2>2. DOMAIN response'[h] = {} /\ reader'[h] # "read"
    BY <1>4
  <2> QED
    BY <2>1, <2>2 DEF InsideChassis, NextWheel, WheelOf, Fields
<1>8. Fresh'
    BY <1>1, <1>4 DEF Inv, Fresh, WheelOf, Fields
<1> QED
    BY <1>3, <1>5, <1>6, <1>7, <1>8 DEF Inv

\* state() and the reply only move the reader on; state() is asked for a wheel
\* of the chassis.
LEMMA MoveKeepsInv ==
    ASSUME Inv, NEW h \in Readers, State(h) \/ Reply(h)
    PROVE  Inv'
<1>1. /\ \/ reader' = [reader EXCEPT ![h] = "read"] /\ NextWheel(h) \in Wheels
         \/ reader' = [reader EXCEPT ![h] = "idle"]
      /\ UNCHANGED <<reports, message, pending, storing, feedback, newest, response, before,
                     undefined>>
    BY DEF State, Reply, ioVars
<1>2. reader \in [Readers -> {"idle", "state", "read"}]
    BY DEF Inv, TypeOK
<1>3. TypeOK'
  <2>1. reader' \in [Readers -> {"idle", "state", "read"}]
    BY <1>1, <1>2
  <2> QED
    BY <1>1, <2>1 DEF Inv, TypeOK, Messages, Copies
<1>4. InsideChassis'
  <2>1. \A g \in Readers : reader'[g] = "read" => NextWheel(g) \in Wheels
    BY <1>1, <1>2 DEF Inv, InsideChassis
  <2> QED
    BY <1>1, <2>1 DEF Inv, InsideChassis, NextWheel, WheelOf, Fields
<1> QED
    BY <1>1, <1>3, <1>4, Untouched DEF Inv

\* Reading a field appends what is stored now, which is as new as anything the
\* response shows of the wheel.
LEMMA ReadKeepsInv ==
    ASSUME Inv, NEW h \in Readers, ReadField(h)
    PROVE  Inv'
<1> DEFINE n == Len(response[h])
           w == NextWheel(h)
           c == Copy(feedback[w], NextField(h))
<1>1. /\ reader[h] = "read" /\ reader' = [reader EXCEPT ![h] = "state"]
      /\ response' = [response EXCEPT ![h] = Append(@, c)]
      /\ UNCHANGED <<reports, message, pending, storing, feedback, newest, before, undefined>>
    BY DEF ReadField, ioVars
<1>2. /\ reader \in [Readers -> {"idle", "state", "read"}]
      /\ response \in [Readers -> Seq(Copies)]
      /\ feedback \in [Wheels -> Messages]
      /\ newest \in [Wheels -> 0..MaxReports]
      /\ before \in [Readers -> [Wheels -> 0..MaxReports]]
    BY DEF Inv, TypeOK
<1>3. n \in Nat /\ w \in Wheels /\ WheelOf(n + 1) = w
  <2>1. n \in Nat /\ w \in Wheels
    BY <1>1, <1>2 DEF Inv, InsideChassis
  <2> QED
    BY <2>1, WheelAfter DEF NextWheel
<1>4. c \in Copies /\ c.report = newest[w]
  <2>1. feedback[w] \in Messages /\ feedback[w].report = newest[w]
    BY <1>2, <1>3 DEF Inv, StoredIsNewest
  <2> QED
    BY <2>1, CopyType
<1> HIDE DEF c, w
<1>5. /\ response'[h] \in Seq(Copies) /\ DOMAIN response'[h] = 1..(n + 1)
      /\ response'[h][n + 1] = c
      /\ \A i \in 1..n : i \in DOMAIN response[h] /\ response'[h][i] = response[h][i]
      /\ \A g \in Readers : g # h => response'[g] = response[g] /\ reader'[g] = reader[g]
      /\ reader'[h] = "state"
    BY <1>1, <1>2, <1>4
<1>6. TypeOK'
  <2>1. reader' \in [Readers -> {"idle", "state", "read"}]
    BY <1>1, <1>2
  <2>2. response' \in [Readers -> Seq(Copies)]
    BY <1>1, <1>2, <1>4
  <2> QED
    BY <1>1, <2>1, <2>2 DEF Inv, TypeOK, Messages, Copies
<1>7. StoredIsNewest' /\ BeginsBefore'
    BY <1>1 DEF Inv, StoredIsNewest, BeginsBefore
<1>8. ASSUME NEW i \in 1..(n + 1)
      PROVE  i = n + 1 \/ i \in 1..n
    BY <1>3
<1>9. InsideChassis'
  <2>1. \A i \in DOMAIN response'[h] : WheelOf(i) \in Wheels
    BY <1>3, <1>5, <1>8 DEF Inv, InsideChassis
  <2>2. \A g \in Readers : g # h =>
            /\ \A i \in DOMAIN response'[g] : WheelOf(i) \in Wheels
            /\ reader'[g] = "read" => Len(response'[g]) \div Len(Fields) \in Wheels
    BY <1>5 DEF Inv, InsideChassis, NextWheel
  <2> QED
    BY <1>5, <2>1, <2>2 DEF InsideChassis, NextWheel, WheelOf, Fields
<1>10. Fresh'
  <2>1. ASSUME NEW i \in 1..n
        PROVE  /\ response[h][i].report \in before[h][WheelOf(i)]..newest[WheelOf(i)]
               /\ response[h][i].report \in Int
               /\ \A j \in 1..i : WheelOf(j) = WheelOf(i) =>
                      response[h][j].report <= response[h][i].report
    BY <1>5 DEF Inv, Fresh
  <2>2. newest[w] \in Int /\ before[h][w] \in Int /\ before[h][w] <= newest[w]
    BY <1>2, <1>3, TelemetryAssumption DEF Inv, BeginsBefore
  <2>3. ASSUME NEW i \in 1..(n + 1)
        PROVE  /\ response'[h][i].report \in before[h][WheelOf(i)]..newest[WheelOf(i)]
               /\ \A j \in 1..i : WheelOf(j) = WheelOf(i) =>
                      response'[h][j].report <= response'[h][i].report
    <3>1. CASE i = n + 1
      <4>1. response'[h][i].report = newest[w] /\ WheelOf(i) = w
        BY <1>3, <1>4, <1>5, <3>1
      <4>2. ASSUME NEW j \in 1..i, WheelOf(j) = w
            PROVE  response'[h][j].report <= newest[w]
        <5>1. CASE j = n + 1
          BY <2>2, <3>1, <4>1, <5>1
        <5>2. CASE j # n + 1
          <6>1. j \in 1..n
            BY <1>3, <3>1, <5>2
          <6>2. response[h][j].report \in before[h][w]..newest[w]
            BY <2>1, <4>2, <6>1
          <6> QED
            BY <1>5, <2>2, <6>1, <6>2, SMTT(30)
        <5> QED
          BY <5>1, <5>2
      <4> QED
        BY <2>2, <4>1, <4>2
    <3>2. CASE i \in 1..n
      <4>1. \A j \in 1..i : j \in 1..n
        BY <1>3, <3>2
      <4> QED
        BY <1>5, <2>1, <3>2, <4>1
    <3> QED
      BY <1>8, <3>1, <3>2
  <2>4. ASSUME NEW g \in Readers, g # h, NEW i \in DOMAIN response'[g]
        PROVE  /\ response'[g][i].report \in before[g][WheelOf(i)]..newest[WheelOf(i)]
               /\ \A j \in 1..i : WheelOf(j) = WheelOf(i) =>
                      response'[g][j].report <= response'[g][i].report
    BY <1>5, <2>4 DEF Inv, Fresh
  <2>5. before' = before /\ newest' = newest
    BY <1>1
  <2> QED
    BY <1>5, <2>3, <2>4, <2>5 DEF Fresh, WheelOf, Fields
<1> QED
    BY <1>6, <1>7, <1>9, <1>10 DEF Inv

\* A torn read ends what the model says, and changes nothing else.
LEMMA TornKeepsInv ==
    ASSUME Inv, NEW h \in Readers, ReadTorn(h)
    PROVE  Inv'
<1>1. /\ undefined' = TRUE
      /\ UNCHANGED <<reports, message, pending, storing, feedback, newest, reader, response,
                     before>>
    BY DEF ReadTorn, ioVars, readVars
<1>2. TypeOK' /\ InsideChassis'
    BY <1>1 DEF Inv, TypeOK, Messages, Copies, InsideChassis, NextWheel, WheelOf, Fields
<1> QED
    BY <1>1, <1>2, Untouched DEF Inv

\* Every step keeps the invariant.
LEMMA NextInv == Inv /\ [Next]_vars => Inv'
<1> SUFFICES ASSUME Inv, [Next]_vars
             PROVE  Inv'
    OBVIOUS
<1>1. CASE UNCHANGED vars
  <2>1. UNCHANGED <<reports, message, pending, storing, feedback, newest, reader, response,
                    before, undefined>>
    BY <1>1 DEF vars, ioVars, readVars
  <2>2. TypeOK' /\ InsideChassis'
    BY <2>1 DEF Inv, TypeOK, Messages, Copies, InsideChassis, NextWheel, WheelOf, Fields
  <2> QED
    BY <2>1, <2>2, Untouched DEF Inv
<1> QED
    BY <1>1, ReceiveKeepsInv, BeginKeepsInv, EndKeepsInv, CallKeepsInv, MoveKeepsInv,
       ReadKeepsInv, TornKeepsInv
    DEF Next

-----------------------------------------------------------------------------
(* The theorems.                                                           *)

\* The inductive invariant holds in every reachable state.
THEOREM TelemetryInvariance == Spec => []Inv
    BY InitInv, NextInv, PTL DEF Spec

\* Type correctness of what the io_service thread stores and the handlers copy.
THEOREM TelemetryTypeCorrect == Spec => []TypeOK
<1>1. Inv => TypeOK
    BY DEF Inv
<1> QED
    BY <1>1, TelemetryInvariance, PTL

\* However handler threads read while lines come in, each field shows a line at
\* least as new as the latest stored when the call began, and the fields of a
\* wheel never go back to an older line.
THEOREM ResponsesFresh == Spec => []Fresh
<1>1. Inv => Fresh
    BY DEF Inv
<1> QED
    BY <1>1, TelemetryInvariance, PTL

=============================================================================
