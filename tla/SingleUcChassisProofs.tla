------------------------ MODULE SingleUcChassisProofs ------------------------
(***************************************************************************)
(* Proofs of the safety properties of SingleUcChassis, for any number of   *)
(* commands and of wheels and any finite pool of handler threads.  Like    *)
(* those of MultipleUcChassis they build on the proofs of the executor.    *)
(***************************************************************************)
EXTENDS SingleUcChassis, TLAPS, FiniteSetTheorems

EP == INSTANCE CommandExecutorProofs

-----------------------------------------------------------------------------
(* The executor inside the composition.                                    *)

\* What the chassis knows as Exec is what the executor's proofs are about: its
\* type invariant,
LEMMA SameTypes == Exec!TypeOK <=> EP!TypeOK
    BY DEF Exec!TypeOK, EP!TypeOK, Exec!Commands, EP!Commands, Exec!Lines, EP!Lines

\* ... its inductive invariant,
LEMMA SameInv == Exec!Inv <=> EP!Inv
    BY SameTypes
    DEF Exec!Inv, EP!Inv, Exec!QueueIsRecent, EP!QueueIsRecent, Exec!OwnRegistered,
        EP!OwnRegistered, Exec!OkMeansGone, EP!OkMeansGone, Exec!Gone, EP!Gone,
        Exec!Alone, EP!Alone, Exec!Busy, EP!Busy, Exec!AtFront, EP!AtFront

\* ... its initial states,
LEMMA SameInit == Exec!Init <=> EP!Init
    BY DEF Exec!Init, EP!Init, Exec!NoCommand, EP!NoCommand

\* ... its calls,
LEMMA SameCall ==
    ASSUME NEW h \in Handlers
    PROVE  Exec!CallStep(h) <=> EP!CallStep(h)
    BY DEF Exec!CallStep, EP!CallStep, Exec!DrivePwm, EP!DrivePwm, Exec!At, EP!At,
           Exec!Return, EP!Return, Exec!DriveDifferential, EP!DriveDifferential,
           Exec!StationReady, EP!StationReady, Exec!NobodyBusy, EP!NobodyBusy,
           Exec!Busy, EP!Busy, Exec!AddCommand, EP!AddCommand, Exec!NoCommand, EP!NoCommand

\* ... the statements of exec(),
LEMMA SameExecStep ==
    ASSUME NEW h \in Handlers
    PROVE  Exec!ExecStep(h) <=> EP!ExecStep(h)
    BY DEF Exec!ExecStep, EP!ExecStep, Exec!Test, EP!Test, Exec!At, EP!At,
           Exec!TestSize, EP!TestSize, Exec!Return, EP!Return, Exec!Front, EP!Front,
           Exec!Execute, EP!Execute, Exec!Queued, EP!Queued, Exec!Pop, EP!Pop,
           Exec!RemoveFront, EP!RemoveFront, Exec!Misuse, EP!Misuse,
           Exec!NoCommand, EP!NoCommand

\* ... the ends of the callback,
LEMMA SameCallback ==
    ASSUME NEW h \in Handlers
    PROVE  Exec!CallbackStep(h) <=> EP!CallbackStep(h)
    BY DEF Exec!CallbackStep, EP!CallbackStep, Exec!CallbackReturns, EP!CallbackReturns,
           Exec!CallbackThrows, EP!CallbackThrows, Exec!At, EP!At, Exec!Return, EP!Return,
           Exec!NoCommand, EP!NoCommand

\* ... and its steps.
LEMMA SameNext == Exec!Next <=> EP!Next
    BY SameCall, SameExecStep, SameCallback DEF Exec!Next, EP!Next

\* Every step of the chassis is one of the executor's or leaves it alone.
LEMMA StepOfExecutor == [Next]_vars => [Exec!Next]_execVars
<1> SUFFICES ASSUME [Next]_vars
             PROVE  [Exec!Next]_execVars
    OBVIOUS
<1>1. ASSUME NEW h \in Handlers, Call(h) \/ ExecLoop(h)
      PROVE  Exec!Next
    BY <1>1 DEF Call, ExecLoop, Exec!Next
<1>2. ASSUME NEW h \in Handlers, Collect(h) \/ WriteJson(h) \/ Clear(h) \/ SeeOpen(h)
      PROVE  UNCHANGED execVars
    BY <1>2 DEF Collect, WriteJson, Clear, SeeOpen
<1>3. ASSUME NEW h \in Handlers, DropPacket(h) \/ WriteSome(h) \/ WriteFails(h)
      PROVE  Exec!Next
    BY <1>3 DEF DropPacket, WriteSome, WriteFails, Failed, Exec!Next, Exec!CallbackStep
<1>4. CASE PortStep
    BY <1>4 DEF PortStep
<1>5. CASE UNCHANGED vars
    BY <1>5 DEF vars
<1> QED
    BY <1>1, <1>2, <1>3, <1>4, <1>5 DEF Next, OnMessage

\* So the executor's inductive invariant is kept by the whole chassis.
LEMMA KeepsExecInv == Exec!Inv /\ [Next]_vars => Exec!Inv'
<1> SUFFICES ASSUME Exec!Inv, [Next]_vars
             PROVE  Exec!Inv'
    OBVIOUS
<1>1. EP!Inv
    BY SameInv
<1>2. [EP!Next]_EP!execVars
    BY StepOfExecutor, SameNext DEF execVars, EP!execVars
<1>3. EP!Inv'
    BY <1>1, <1>2, EP!NextInv, ChassisAssumption, OverlapAssumption DEF EP!NextInv
<1> QED
    BY <1>3, SameInv, PTL

\* What the executor guarantees a callback as long as calls do not overlap:
\* it runs the command after those that have left the queue, in one thread.
LEMMA Guaranteed ==
    ASSUME Exec!Inv, alone
    PROVE  /\ accepted \in Nat /\ Exec!Done \in 0..accepted
           /\ commands = <<>> => Exec!Done = accepted
           /\ \A h \in Handlers : pc[h] \in {"execute", "callback", "pop"} =>
                  cmd[h] = Exec!Done + 1 /\ Exec!Done < accepted
           /\ \A g, h \in Handlers : pc[g] # "idle" /\ pc[h] # "idle" => g = h
    BY SameInv, EP!Guaranteed, ChassisAssumption, OverlapAssumption
    DEF EP!Guaranteed, Exec!Done, EP!Done

\* What a call does to the queue and to its thread.
LEMMA CallEffect ==
    ASSUME Exec!Inv, NEW h \in Handlers, Call(h)
    PROVE  /\ pc'[h] \in {"idle", "test"} /\ pc[h] = "idle"
           /\ \A g \in Handlers : g # h => pc'[g] = pc[g] /\ cmd'[g] = cmd[g]
           /\ Exec!Done' = Exec!Done
           /\ UNCHANGED <<portVars, walkVars>>
<1>1. EP!Inv /\ EP!CallStep(h)
    BY SameInv, SameCall DEF Call
<1>2. pc[h] = "idle" /\ UNCHANGED <<portVars, walkVars>>
    BY DEF Call, Exec!CallStep, Exec!DrivePwm, Exec!DriveDifferential, Exec!At
<1> QED
    BY <1>1, <1>2, EP!CallEffect, ChassisAssumption, OverlapAssumption
    DEF EP!CallEffect, Exec!Done, EP!Done

\* What a statement of exec() does: it only goes on in its own thread, into the
\* callback from execute() alone, and pop() removes the command it has run.
LEMMA ExecEffect ==
    ASSUME Exec!Inv, NEW h \in Handlers, ExecLoop(h), alone'
    PROVE  /\ pc'[h] # "pop" /\ (pc'[h] = "callback" => pc[h] = "execute")
           /\ pc[h] \notin {"idle", "callback"}
           /\ \A g \in Handlers : g # h => pc'[g] = pc[g] /\ cmd'[g] = cmd[g]
           /\ pc[h] # "pop" => Exec!Done' = Exec!Done
           /\ pc[h] = "pop" => Exec!Done' = Exec!Done + 1
           /\ UNCHANGED <<portVars, walkVars>>
<1>1. EP!Inv /\ EP!ExecStep(h)
    BY SameInv, SameExecStep DEF ExecLoop
<1>2. pc[h] \notin {"idle", "callback"} /\ UNCHANGED <<portVars, walkVars>>
    BY DEF ExecLoop, Exec!ExecStep, Exec!Test, Exec!Front, Exec!Execute, Exec!Pop,
           Exec!Misuse, Exec!At
<1> QED
    BY <1>1, <1>2, EP!ExecEffect, ChassisAssumption, OverlapAssumption
    DEF EP!ExecEffect, Exec!Done, EP!Done

-----------------------------------------------------------------------------
(* The port and the types.                                                 *)

\* The io_service thread and the devices keep the types of the port, and
\* nothing reopens it.
LEMMA PortSteps ==
    ASSUME Serial!TypeOK, [Serial!Next]_portVars
    PROVE  Serial!TypeOK' /\ \A w \in {Port} : open'[w] => open[w]
<1>1. /\ plugged \in [{Port} -> BOOLEAN]
      /\ open \in [{Port} -> BOOLEAN]
      /\ reading \in [{Port} -> BOOLEAN]
      /\ unread \in [{Port} -> 0..MaxUnread]
      /\ health \in {"none", "OK", "NOT OK"}
    BY DEF Serial!TypeOK
<1>0. unread \in [{Port} -> 0..MaxUnread] /\ MaxUnread \in Nat
    BY <1>1, ChassisAssumption
<1>2. ASSUME NEW w \in {Port}, Serial!Arrive(w)
      PROVE  Serial!TypeOK' /\ open' = open
  <2>1. /\ plugged' = plugged /\ open' = open /\ reading' = reading /\ health' = health
        /\ unread[w] < MaxUnread /\ unread' = [unread EXCEPT ![w] = @ + 1]
    BY <1>2 DEF Serial!Arrive
  <2>2. unread' \in [{Port} -> 0..MaxUnread]
    <3>1. unread[w] < MaxUnread /\ unread' = [unread EXCEPT ![w] = @ + 1]
      BY <2>1
    <3> QED
      BY <1>0, <3>1
  <2> QED
    BY <1>1, <2>1, <2>2 DEF Serial!TypeOK
<1>3. ASSUME NEW w \in {Port}, Serial!Unplug(w)
      PROVE  Serial!TypeOK' /\ open' = open
  <2>1. /\ plugged' = [plugged EXCEPT ![w] = FALSE] /\ open' = open
        /\ reading' = reading /\ health' = health /\ unread' = [unread EXCEPT ![w] = 0]
    BY <1>3 DEF Serial!Unplug
  <2>2. unread' \in [{Port} -> 0..MaxUnread]
    <3>1. unread' = [unread EXCEPT ![w] = 0]
      BY <2>1
    <3> QED
      BY <1>0, <3>1
  <2>3. plugged' \in [{Port} -> BOOLEAN]
    BY <1>1, <2>1
  <2> QED
    BY <1>1, <2>1, <2>2, <2>3 DEF Serial!TypeOK
<1>4. ASSUME NEW w \in {Port}, Serial!ReadChunk(w)
      PROVE  Serial!TypeOK' /\ open' = open
  <2>1. /\ plugged' = plugged /\ open' = open /\ health' = health
        /\ unread[w] > 0 /\ unread' = [unread EXCEPT ![w] = @ - 1]
        /\ reading' = [reading EXCEPT ![w] = open[w]]
    BY <1>4 DEF Serial!ReadChunk, Serial!ArmRead
  <2>2. unread' \in [{Port} -> 0..MaxUnread]
    <3>1. unread[w] > 0 /\ unread' = [unread EXCEPT ![w] = @ - 1]
      BY <2>1
    <3> QED
      BY <1>0, <3>1
  <2>3. reading' \in [{Port} -> BOOLEAN]
    BY <1>1, <2>1
  <2> QED
    BY <1>1, <2>1, <2>2, <2>3 DEF Serial!TypeOK
<1>5. ASSUME NEW w \in {Port}, Serial!ReadFails(w)
      PROVE  Serial!TypeOK' /\ open' = [open EXCEPT ![w] = FALSE]
  <2>1. /\ plugged' = plugged /\ open' = [open EXCEPT ![w] = FALSE]
        /\ reading' = [reading EXCEPT ![w] = FALSE] /\ unread' = unread /\ health' = health
    BY <1>5 DEF Serial!ReadFails, Serial!CloseOnError
  <2>2. open' \in [{Port} -> BOOLEAN] /\ reading' \in [{Port} -> BOOLEAN]
    BY <1>1, <2>1
  <2> QED
    BY <1>1, <2>1, <2>2 DEF Serial!TypeOK
<1>6. ASSUME Serial!CheckHealth
      PROVE  Serial!TypeOK' /\ open' = open
    BY <1>1, <1>6 DEF Serial!CheckHealth, Serial!TypeOK
<1>7. CASE UNCHANGED portVars
    BY <1>1, <1>7 DEF portVars, Serial!TypeOK
<1>8. ASSUME NEW w \in {Port}, open' = [open EXCEPT ![w] = FALSE]
      PROVE  \A v \in {Port} : open'[v] => open[v]
    BY <1>1, <1>8
<1> QED
    BY <1>2, <1>3, <1>4, <1>5, <1>6, <1>7, <1>8
    DEF Serial!Next, Serial!Device, Serial!IoThread

\* Every step of the chassis is one of the port's or leaves it alone.
LEMMA StepOfPorts == [Next]_vars => [Serial!Next]_portVars
<1> SUFFICES ASSUME [Next]_vars
             PROVE  [Serial!Next]_portVars
    OBVIOUS
<1>1. ASSUME NEW h \in Handlers, Call(h) \/ ExecLoop(h) \/ OnMessage(h)
      PROVE  UNCHANGED portVars
    BY <1>1 DEF Call, ExecLoop, OnMessage, Collect, WriteJson, Clear, SeeOpen, DropPacket,
       WriteSome, WriteFails, LeaveCallback
<1>2. CASE PortStep
    BY <1>2 DEF PortStep
<1>3. CASE UNCHANGED vars
    BY <1>3 DEF vars
<1> QED
    BY <1>1, <1>2, <1>3 DEF Next

\* What a wheel puts into the sink is an entry.
LEMMA ValueType ==
    ASSUME NEW w \in Wheels, NEW c \in 0..MaxCommands
    PROVE  Value(w, c) \in Entries
    BY DEF Value, Entry, Entries

\* The types of the sink, of the walks and of what they send.
WalkTypes ==
    /\ sink \in Seq(Entries)
    /\ cursor \in [Handlers -> 0..WheelCount]
    /\ at \in [Handlers -> {"collect", "clear", "test", "write"}]
    /\ packet \in [Handlers -> Seq(Entries)]
    /\ wire \in Seq(Entries)

\* The initial state is well typed.
LEMMA InitTypeOK == Init => TypeOK
<1> SUFFICES ASSUME Init PROVE TypeOK
    OBVIOUS
<1> USE ChassisAssumption
<1>1. Exec!TypeOK
    BY SameInit, SameTypes, EP!InitTypeOK, OverlapAssumption DEF EP!InitTypeOK, Init
<1>2. Serial!TypeOK
    BY DEF Init, Serial!Init, Serial!TypeOK
<1>3. WalkTypes
    BY DEF Init, WalkTypes
<1> QED
    BY <1>1, <1>2, <1>3 DEF TypeOK, WalkTypes

\* Leaving the callback keeps the types of the walks.
LEMMA LeaveTypes ==
    ASSUME WalkTypes, NEW h \in Handlers, LeaveCallback(h), wire' \in Seq(Entries)
    PROVE  WalkTypes'
<1>1. /\ at' = [at EXCEPT ![h] = "collect"]
      /\ cursor' = [cursor EXCEPT ![h] = 0]
      /\ packet' = [packet EXCEPT ![h] = <<>>]
      /\ sink' = sink
    BY DEF LeaveCallback
<1>2. cursor' \in [Handlers -> 0..WheelCount]
    BY <1>1, ChassisAssumption DEF WalkTypes
<1>3. packet' \in [Handlers -> Seq(Entries)]
  <2>1. <<>> \in Seq(Entries)
    OBVIOUS
  <2> QED
    BY <1>1, <2>1 DEF WalkTypes
<1>4. at' \in [Handlers -> {"collect", "clear", "test", "write"}]
    BY <1>1 DEF WalkTypes
<1> QED
    BY <1>1, <1>2, <1>3, <1>4 DEF WalkTypes

\* Every step keeps the types.
LEMMA NextTypeOK == TypeOK /\ Exec!Inv /\ [Next]_vars => TypeOK'
<1> SUFFICES ASSUME TypeOK, Exec!Inv, [Next]_vars
             PROVE  TypeOK'
    OBVIOUS
<1>1. Exec!TypeOK'
    BY KeepsExecInv DEF Exec!Inv
<1>2. Serial!TypeOK'
    BY StepOfPorts, PortSteps DEF TypeOK
<1>3. WalkTypes
    BY DEF TypeOK, WalkTypes
<1>4. ASSUME NEW h \in Handlers, Call(h) \/ ExecLoop(h)
      PROVE  WalkTypes'
    BY <1>3, <1>4 DEF Call, ExecLoop, walkVars, WalkTypes
<1>5. ASSUME NEW h \in Handlers, Collect(h)
      PROVE  WalkTypes'
  <2>1. /\ cursor[h] < WheelCount /\ sink' = Append(sink, Value(cursor[h], cmd[h]))
        /\ cursor' = [cursor EXCEPT ![h] = @ + 1]
        /\ at' = at /\ packet' = packet /\ wire' = wire
    BY <1>5 DEF Collect
  <2>2. cursor[h] \in Wheels /\ cursor' \in [Handlers -> 0..WheelCount]
    BY <1>3, <2>1, ChassisAssumption DEF Wheels, WalkTypes
  <2>3. Value(cursor[h], cmd[h]) \in Entries
    BY <2>2, ValueType DEF TypeOK, Exec!TypeOK
  <2>4. sink' \in Seq(Entries)
    BY <1>3, <2>1, <2>3 DEF WalkTypes
  <2> QED
    BY <1>3, <2>1, <2>2, <2>4 DEF WalkTypes
<1>6. ASSUME NEW h \in Handlers, WriteJson(h)
      PROVE  WalkTypes'
  <2>1. /\ packet' = [packet EXCEPT ![h] = sink] /\ sink' = sink
        /\ at' = [at EXCEPT ![h] = "clear"] /\ cursor' = cursor /\ wire' = wire
    BY <1>6 DEF WriteJson
  <2>2. packet' \in [Handlers -> Seq(Entries)]
    BY <1>3, <2>1 DEF WalkTypes
  <2>3. at' \in [Handlers -> {"collect", "clear", "test", "write"}]
    BY <1>3, <2>1 DEF WalkTypes
  <2> QED
    BY <1>3, <2>1, <2>2, <2>3 DEF WalkTypes
<1>7. ASSUME NEW h \in Handlers, Clear(h) \/ SeeOpen(h)
      PROVE  WalkTypes'
  <2>1. CASE Clear(h)
    <3>1. sink' = <<>> /\ sink' \in Seq(Entries)
      BY <2>1 DEF Clear, ClearSink
    <3> QED
      BY <1>3, <2>1, <3>1 DEF Clear, WalkTypes
  <2>2. CASE SeeOpen(h)
    BY <1>3, <2>2 DEF SeeOpen, WalkTypes
  <2> QED
    BY <1>7, <2>1, <2>2
<1>8. ASSUME NEW h \in Handlers, DropPacket(h) \/ WriteFails(h)
      PROVE  WalkTypes'
  <2>1. LeaveCallback(h) /\ wire' \in Seq(Entries)
    BY <1>3, <1>8 DEF DropPacket, WriteFails, WalkTypes
  <2> QED
    BY <1>3, <2>1, LeaveTypes
<1>9. ASSUME NEW h \in Handlers, WriteSome(h)
      PROVE  WalkTypes'
  <2>1. LeaveCallback(h) /\ wire' \in Seq(Entries)
    BY <1>3, <1>9 DEF WriteSome, WalkTypes
  <2> QED
    BY <1>3, <2>1, LeaveTypes
<1>10. ASSUME PortStep \/ UNCHANGED vars
       PROVE  WalkTypes'
    BY <1>3, <1>10 DEF PortStep, walkVars, vars, WalkTypes
<1>11. WalkTypes'
    BY <1>4, <1>5, <1>6, <1>7, <1>8, <1>9, <1>10 DEF Next, OnMessage
<1> QED
    BY <1>1, <1>2, <1>11 DEF TypeOK, WalkTypes

\* Handlers that are not in the callback stay ready to collect.
LEMMA NextAtRest == TypeOK /\ AtRest /\ [Next]_vars => AtRest'
<1> SUFFICES ASSUME TypeOK, AtRest, [Next]_vars
             PROVE  AtRest'
    OBVIOUS
<1>0. /\ pc \in [Handlers -> Exec!Lines] /\ cursor \in [Handlers -> 0..WheelCount]
      /\ at \in [Handlers -> {"collect", "clear", "test", "write"}]
    BY DEF TypeOK, Exec!TypeOK
<1>1. ASSUME NEW h \in Handlers, Call(h) \/ ExecLoop(h)
      PROVE  AtRest'
  <2>1. cursor' = cursor /\ at' = at /\ pc[h] # "callback"
    BY <1>1 DEF Call, ExecLoop, walkVars, Exec!CallStep, Exec!DrivePwm, Exec!DriveDifferential,
       Exec!ExecStep, Exec!Test, Exec!Front, Exec!Execute, Exec!Pop, Exec!Misuse, Exec!At
  <2>2. \A g \in Handlers : g # h => pc'[g] = pc[g]
    BY <1>0, <1>1 DEF Call, ExecLoop, Exec!CallStep, Exec!DrivePwm, Exec!DriveDifferential,
       Exec!ExecStep, Exec!Test, Exec!TestSize, Exec!Return, Exec!Front, Exec!Execute,
       Exec!Pop, Exec!Misuse
  <2> QED
    BY <2>1, <2>2 DEF AtRest
<1>2. ASSUME NEW h \in Handlers, Collect(h) \/ WriteJson(h) \/ Clear(h) \/ SeeOpen(h)
      PROVE  AtRest'
  <2>1. pc' = pc /\ pc[h] = "callback"
    BY <1>2 DEF Collect, WriteJson, Clear, SeeOpen, execVars, Doing, Exec!At
  <2>2. \A g \in Handlers : g # h => cursor'[g] = cursor[g] /\ at'[g] = at[g]
    BY <1>0, <1>2 DEF Collect, WriteJson, Clear, SeeOpen
  <2> QED
    BY <2>1, <2>2 DEF AtRest
<1>3. ASSUME NEW h \in Handlers, DropPacket(h) \/ WriteSome(h) \/ WriteFails(h)
      PROVE  AtRest'
  <2>1. cursor' = [cursor EXCEPT ![h] = 0] /\ at' = [at EXCEPT ![h] = "collect"]
    BY <1>3 DEF DropPacket, WriteSome, WriteFails, LeaveCallback
  <2>2. \A g \in Handlers : g # h => pc'[g] = pc[g]
    BY <1>0, <1>3 DEF DropPacket, WriteSome, WriteFails, Failed, Exec!CallbackThrows,
       Exec!CallbackReturns, Exec!Return
  <2> QED
    BY <1>0, <2>1, <2>2 DEF AtRest
<1>4. CASE PortStep \/ UNCHANGED vars
    BY <1>4 DEF PortStep, vars, execVars, walkVars, AtRest
<1> QED
    BY <1>1, <1>2, <1>3, <1>4 DEF Next, OnMessage

-----------------------------------------------------------------------------
(* The size of the sink, however calls overlap.                            *)

\* The entries the collecting handlers answer for can be counted.
LEMMA CollectedFinite == IsFiniteSet(Collected) /\ Cardinality(Collected) \in Nat
<1>1. IsFiniteSet(Collecting)
    BY HandlersAssumption, FS_Subset DEF Collecting
<1>2. IsFiniteSet(Wheels)
    BY FS_Interval, ChassisAssumption DEF Wheels
<1>3. IsFiniteSet(Collecting \X Wheels)
    BY <1>1, <1>2, FS_Product
<1>4. Collected \in SUBSET (Collecting \X Wheels)
    BY DEF Collected
<1>5. IsFiniteSet(Collected)
    BY <1>3, <1>4, FS_Subset
<1> QED
    BY <1>5, FS_CardinalityType

\* A step that leaves the sink alone and takes no collecting handler away keeps
\* the bound.
LEMMA StillBounded ==
    ASSUME SinkBounded, sink \in Seq(Entries), sink' = sink,
           \A h \in Collecting : h \in Collecting' /\ cursor'[h] = cursor[h]
    PROVE  SinkBounded'
<1>1. Collected \in SUBSET (Collected')
    BY DEF Collected
<1>2. (IsFiniteSet(Collected) /\ Cardinality(Collected) \in Nat)'
    BY CollectedFinite, PTL
<1>3. Cardinality(Collected) <= Cardinality(Collected') /\ Cardinality(Collected) \in Nat
    BY <1>1, <1>2, FS_Subset, CollectedFinite
<1>4. Len(sink) <= Cardinality(Collected) /\ Len(sink) \in Nat
    BY DEF SinkBounded
<1>5. Len(sink) <= Cardinality(Collected')
    BY <1>2, <1>3, <1>4
<1> QED
    BY <1>5 DEF SinkBounded

\* Every step keeps the bound on the sink.
LEMMA NextSinkBounded ==
    ASSUME TypeOK, AtRest, SinkBounded, [Next]_vars
    PROVE  SinkBounded'
<1>0. /\ pc \in [Handlers -> Exec!Lines] /\ cursor \in [Handlers -> 0..WheelCount]
      /\ at \in [Handlers -> {"collect", "clear", "test", "write"}] /\ sink \in Seq(Entries)
    BY DEF TypeOK, Exec!TypeOK
<1>1. ASSUME NEW h \in Handlers, Call(h) \/ ExecLoop(h)
      PROVE  SinkBounded'
  <2>1. cursor' = cursor /\ at' = at /\ sink' = sink /\ pc[h] # "callback"
    BY <1>1 DEF Call, ExecLoop, walkVars, Exec!CallStep, Exec!DrivePwm, Exec!DriveDifferential,
       Exec!ExecStep, Exec!Test, Exec!Front, Exec!Execute, Exec!Pop, Exec!Misuse, Exec!At
  <2>2. \A g \in Handlers : g # h => pc'[g] = pc[g]
    BY <1>0, <1>1 DEF Call, ExecLoop, Exec!CallStep, Exec!DrivePwm, Exec!DriveDifferential,
       Exec!ExecStep, Exec!Test, Exec!TestSize, Exec!Return, Exec!Front, Exec!Execute,
       Exec!Pop, Exec!Misuse
  <2>3. \A g \in Collecting : g \in Collecting' /\ cursor'[g] = cursor[g]
    BY <2>1, <2>2 DEF Collecting
  <2> QED
    BY <1>0, <2>1, <2>3, StillBounded
<1>2. ASSUME NEW h \in Handlers, Collect(h)
      PROVE  SinkBounded'
  <2>1. /\ pc' = pc /\ at' = at /\ h \in Collecting /\ cursor[h] < WheelCount
        /\ sink' = Append(sink, Value(cursor[h], cmd[h]))
        /\ cursor' = [cursor EXCEPT ![h] = @ + 1]
    BY <1>2 DEF Collect, execVars, Doing, Exec!At, Collecting
  <2>2. cursor[h] \in Wheels /\ cursor'[h] = cursor[h] + 1
    BY <1>0, <2>1, ChassisAssumption DEF Wheels
  <2>3. \A g \in Handlers : g # h => cursor'[g] = cursor[g]
    BY <1>0, <2>1
  <2>4. Collecting' = Collecting
    BY <2>1 DEF Collecting
  <2>5. <<h, cursor[h]>> \notin Collected
    BY <1>0 DEF Collected
  <2>6. Collected' = Collected \cup {<<h, cursor[h]>>}
    <3>1. ASSUME NEW g \in Collecting, NEW w \in Wheels
          PROVE  w < cursor'[g] <=> w < cursor[g] \/ (g = h /\ w = cursor[h])
      <4>1. CASE g = h
        BY <1>0, <2>2, <4>1, ChassisAssumption DEF Wheels
      <4>2. CASE g # h
        BY <2>3, <4>2 DEF Collecting
      <4> QED
        BY <4>1, <4>2
    <3>2. Collected' = {slot \in Collecting \X Wheels : slot[2] < cursor'[slot[1]]}
      BY <2>4 DEF Collected
    <3>3. Collected = {slot \in Collecting \X Wheels : slot[2] < cursor[slot[1]]}
      BY DEF Collected
    <3>4. <<h, cursor[h]>> \in Collecting \X Wheels
      BY <2>1, <2>2
    <3>5. ASSUME NEW slot \in Collecting \X Wheels
          PROVE  slot[2] < cursor'[slot[1]] <=>
                     slot[2] < cursor[slot[1]] \/ slot = <<h, cursor[h]>>
      BY <3>1
    <3> QED
      BY <3>2, <3>3, <3>4, <3>5
  <2>7. Cardinality(Collected') = Cardinality(Collected) + 1
    BY <2>5, <2>6, CollectedFinite, FS_AddElement
  <2>8. Len(sink') = Len(sink) + 1 /\ Len(sink) \in Nat
    BY <1>0, <2>1
  <2> QED
    BY <2>7, <2>8, CollectedFinite DEF SinkBounded
<1>3. ASSUME NEW h \in Handlers, Clear(h)
      PROVE  SinkBounded'
  <2>1. Len(sink') = 0
    BY <1>3 DEF Clear, ClearSink
  <2>2. (IsFiniteSet(Collected) /\ Cardinality(Collected) \in Nat)'
    BY CollectedFinite, PTL
  <2> QED
    BY <2>1, <2>2 DEF SinkBounded
<1>4. ASSUME NEW h \in Handlers, WriteJson(h) \/ SeeOpen(h)
      PROVE  SinkBounded'
  <2>1. /\ pc' = pc /\ sink' = sink /\ cursor' = cursor
        /\ \/ at[h] = "collect" /\ at' = [at EXCEPT ![h] = "clear"]
           \/ at[h] = "test" /\ at' = [at EXCEPT ![h] = "write"]
    BY <1>4 DEF WriteJson, SeeOpen, execVars, Doing
  <2>2. \A g \in Collecting : g \in Collecting'
    BY <1>0, <2>1 DEF Collecting
  <2> QED
    BY <1>0, <2>1, <2>2, StillBounded
<1>5. ASSUME NEW h \in Handlers, DropPacket(h) \/ WriteSome(h) \/ WriteFails(h)
      PROVE  SinkBounded'
  <2>1. /\ cursor' = [cursor EXCEPT ![h] = 0] /\ at' = [at EXCEPT ![h] = "collect"]
        /\ sink' = sink /\ at[h] \in {"test", "write"}
    BY <1>5 DEF DropPacket, WriteSome, WriteFails, LeaveCallback, Doing
  <2>2. \A g \in Handlers : g # h => pc'[g] = pc[g]
    BY <1>0, <1>5 DEF DropPacket, WriteSome, WriteFails, Failed, Exec!CallbackThrows,
       Exec!CallbackReturns, Exec!Return
  <2>3. \A g \in Collecting : g # h
    BY <2>1 DEF Collecting
  <2>4. \A g \in Collecting : g \in Collecting' /\ cursor'[g] = cursor[g]
    BY <1>0, <2>1, <2>2, <2>3 DEF Collecting
  <2> QED
    BY <1>0, <2>1, <2>4, StillBounded
<1>6. CASE PortStep \/ UNCHANGED vars
  <2>1. pc' = pc /\ at' = at /\ cursor' = cursor /\ sink' = sink
    BY <1>6 DEF PortStep, vars, execVars, walkVars
  <2>2. \A g \in Collecting : g \in Collecting' /\ cursor'[g] = cursor[g]
    BY <2>1 DEF Collecting
  <2> QED
    BY <1>0, <2>1, <2>2, StillBounded
<1> QED
    BY <1>1, <1>2, <1>3, <1>4, <1>5, <1>6 DEF Next, OnMessage

-----------------------------------------------------------------------------
(* The invariant that holds as long as calls do not overlap.               *)

\* A step that leaves the sink alone and keeps the collecting handlers as they
\* are, but for one that begins with an empty sink, keeps the sink its own.
LEMMA StillOwn ==
    ASSUME SinkIsOwn, sink' = sink,
           \A h \in Collecting' :
               \/ h \in Collecting /\ cursor'[h] = cursor[h] /\ cmd'[h] = cmd[h]
               \/ cursor'[h] = 0 /\ Collecting = {},
           Collecting' = {} => Collecting = {}
    PROVE  SinkIsOwn'
<1>1. ASSUME NEW h \in Collecting'
      PROVE  sink' = [i \in 1..cursor'[h] |-> Value(i - 1, cmd'[h])]
  <2>1. CASE h \in Collecting /\ cursor'[h] = cursor[h] /\ cmd'[h] = cmd[h]
    BY <2>1 DEF SinkIsOwn
  <2>2. CASE cursor'[h] = 0 /\ Collecting = {}
    BY <2>2 DEF SinkIsOwn
  <2> QED
    BY <1>1, <2>1, <2>2
<1> QED
    BY <1>1 DEF SinkIsOwn, Value, Entry

\* A step that leaves the sink and the collecting handlers alone keeps the sink
\* its own.
LEMMA UntouchedOwn ==
    ASSUME SinkIsOwn, sink' = sink, Collecting' = Collecting,
           \A h \in Collecting : cursor'[h] = cursor[h] /\ cmd'[h] = cmd[h]
    PROVE  SinkIsOwn'
<1>1. ASSUME NEW h \in Collecting'
      PROVE  sink' = [i \in 1..cursor'[h] |-> Value(i - 1, cmd'[h])]
    BY DEF SinkIsOwn
<1> QED
    BY <1>1 DEF SinkIsOwn, Value, Entry

\* A step that writes nothing keeps the microcontroller in step if it moves the
\* queue and the handler's line together.
LEMMA StillInStep ==
    ASSUME InStep, wire' = wire, open'[Port] => open[Port],
           (IF \E h \in Handlers : pc'[h] = "pop" THEN Exec!Done' + 1 ELSE Exec!Done')
               = (IF \E h \in Handlers : pc[h] = "pop" THEN Exec!Done + 1 ELSE Exec!Done)
    PROVE  InStep'
    BY DEF InStep, Latest, Packet, Value, Entry

\* A step that keeps packets and lines keeps the packets whole.
LEMMA StillWhole ==
    ASSUME PacketWhole, alone,
           \A h \in Handlers : pc'[h] = "callback" /\ at'[h] # "collect" =>
               /\ pc[h] = "callback" /\ at[h] # "collect"
               /\ packet'[h] = packet[h] /\ cmd'[h] = cmd[h]
    PROVE  PacketWhole'
    BY DEF PacketWhole, Packet, Value, Entry

\* As long as calls do not overlap every step keeps sink, packets and wire.
LEMMA NextInStep ==
    ASSUME Inv, [Next]_vars, alone'
    PROVE  alone /\ SinkIsOwn' /\ PacketWhole' /\ InStep'
<1>0. alone
  <2>1. [EP!Next]_EP!execVars
    BY StepOfExecutor, SameNext DEF execVars, EP!execVars
  <2> QED
    BY <2>1, EP!AloneIsHistory, ChassisAssumption, OverlapAssumption DEF EP!AloneIsHistory
<1>1. SinkIsOwn /\ PacketWhole /\ InStep /\ AtRest /\ Exec!Inv
    BY <1>0 DEF Inv
<1>2. /\ accepted \in Nat /\ Exec!Done \in Nat
      /\ \A h \in Handlers : pc[h] \in {"execute", "callback", "pop"} =>
             cmd[h] = Exec!Done + 1 /\ Exec!Done < accepted
      /\ \A g, h \in Handlers : pc[g] # "idle" /\ pc[h] # "idle" => g = h
    BY <1>0, <1>1, Guaranteed
<1>3. /\ pc \in [Handlers -> Exec!Lines] /\ cmd \in [Handlers -> 0..MaxCommands]
      /\ cursor \in [Handlers -> 0..WheelCount]
      /\ at \in [Handlers -> {"collect", "clear", "test", "write"}]
      /\ packet \in [Handlers -> Seq(Entries)] /\ sink \in Seq(Entries)
    BY DEF Inv, TypeOK, Exec!TypeOK
<1> DEFINE Goal == SinkIsOwn' /\ PacketWhole' /\ InStep'
<1>4. ASSUME NEW h \in Handlers, Call(h)
      PROVE  Goal
  <2>1. /\ pc'[h] \in {"idle", "test"} /\ pc[h] = "idle" /\ Exec!Done' = Exec!Done
        /\ \A g \in Handlers : g # h => pc'[g] = pc[g] /\ cmd'[g] = cmd[g]
        /\ open' = open /\ sink' = sink /\ cursor' = cursor /\ at' = at
        /\ packet' = packet /\ wire' = wire
    BY <1>1, <1>4, CallEffect DEF portVars, walkVars
  <2>2. Collecting' = Collecting /\ h \notin Collecting
    BY <2>1 DEF Collecting
  <2>3. SinkIsOwn'
    <3>1. SinkIsOwn
      BY <1>1
    <3>2. sink' = sink /\ Collecting' = Collecting
      BY <2>1, <2>2
    <3>3. \A g \in Collecting : cursor'[g] = cursor[g] /\ cmd'[g] = cmd[g]
      BY <2>1, <2>2 DEF Collecting
    <3> QED
      BY <3>1, <3>2, <3>3, UntouchedOwn
  <2>4. PacketWhole'
    BY <1>0, <1>1, <2>1, StillWhole
  <2>5. InStep'
    BY <1>1, <2>1, StillInStep
  <2> QED
    BY <2>3, <2>4, <2>5
<1>5. ASSUME NEW h \in Handlers, ExecLoop(h)
      PROVE  Goal
  <2>1. /\ pc'[h] # "pop" /\ (pc'[h] = "callback" => pc[h] = "execute")
        /\ pc[h] \notin {"idle", "callback"}
        /\ \A g \in Handlers : g # h => pc'[g] = pc[g] /\ cmd'[g] = cmd[g]
        /\ pc[h] # "pop" => Exec!Done' = Exec!Done
        /\ pc[h] = "pop" => Exec!Done' = Exec!Done + 1
        /\ open' = open /\ sink' = sink /\ cursor' = cursor /\ at' = at
        /\ packet' = packet /\ wire' = wire
    BY <1>1, <1>5, ExecEffect DEF portVars, walkVars
  <2>2. \A g \in Handlers : g # h => pc[g] = "idle" /\ pc'[g] = "idle"
    BY <1>2, <2>1
  <2>3. cursor[h] = 0 /\ at[h] = "collect"
    BY <1>1, <2>1 DEF AtRest
  <2>4. SinkIsOwn'
    <3>1. Collecting = {}
      BY <2>1, <2>2 DEF Collecting
    <3>2. \A g \in Collecting' : g = h
      BY <2>2 DEF Collecting
    <3> QED
      BY <1>1, <2>1, <2>3, <3>1, <3>2, StillOwn
  <2>5. PacketWhole'
    BY <1>0, <1>1, <2>1, <2>2, <2>3, StillWhole
  <2>6. InStep'
    BY <1>1, <2>1, <2>2, StillInStep
  <2> QED
    BY <2>4, <2>5, <2>6
<1>6. ASSUME NEW h \in Handlers, pc[h] = "callback"
      PROVE  \A g \in Handlers : g # h => pc[g] = "idle"
    BY <1>2, <1>6
<1>7. ASSUME NEW h \in Handlers, Collect(h)
      PROVE  Goal
  <2>1. /\ pc' = pc /\ cmd' = cmd /\ commands' = commands /\ accepted' = accepted
        /\ open' = open /\ at' = at /\ packet' = packet /\ wire' = wire
        /\ pc[h] = "callback" /\ at[h] = "collect"
        /\ sink' = Append(sink, Value(cursor[h], cmd[h]))
        /\ cursor' = [cursor EXCEPT ![h] = @ + 1]
    BY <1>7 DEF Collect, execVars, portVars, Doing, Exec!At
  <2>2. Collecting = {h} /\ Collecting' = {h}
    BY <1>6, <2>1 DEF Collecting
  <2>3. sink = [i \in 1..cursor[h] |-> Value(i - 1, cmd[h])] /\ cursor[h] \in Nat
    BY <1>1, <1>3, <2>2, ChassisAssumption DEF SinkIsOwn
  <2>4. sink' = [i \in 1..(cursor[h] + 1) |-> Value(i - 1, cmd[h])]
    BY <2>1, <2>3
  <2>5. SinkIsOwn'
    BY <1>3, <2>1, <2>2, <2>4 DEF SinkIsOwn, Value, Entry
  <2>6. PacketWhole'
    BY <1>0, <1>1, <2>1, StillWhole
  <2>7. InStep'
    BY <1>1, <2>1, StillInStep DEF Exec!Done
  <2> QED
    BY <2>5, <2>6, <2>7
<1>8. ASSUME NEW h \in Handlers, WriteJson(h)
      PROVE  Goal
  <2>1. /\ pc' = pc /\ cmd' = cmd /\ commands' = commands /\ accepted' = accepted
        /\ open' = open /\ wire' = wire /\ cursor' = cursor /\ sink' = sink
        /\ pc[h] = "callback" /\ at[h] = "collect" /\ cursor[h] = WheelCount
        /\ packet' = [packet EXCEPT ![h] = sink] /\ at' = [at EXCEPT ![h] = "clear"]
    BY <1>8 DEF WriteJson, AllCollected, execVars, portVars, Doing, Exec!At
  <2>2. Collecting = {h} /\ Collecting' = {h}
    BY <1>3, <1>6, <2>1 DEF Collecting
  <2>3. sink = Packet(cmd[h])
    BY <1>1, <2>1, <2>2 DEF SinkIsOwn, Packet
  <2>4. SinkIsOwn'
    <3>1. SinkIsOwn
      BY <1>1
    <3>2. sink' = sink /\ Collecting' = Collecting
      BY <2>1, <2>2
    <3>3. \A g \in Collecting : cursor'[g] = cursor[g] /\ cmd'[g] = cmd[g]
      BY <2>1
    <3> QED
      BY <3>1, <3>2, <3>3, UntouchedOwn
  <2>5. PacketWhole'
    <3>1. \A g \in Handlers : pc'[g] = "callback" => g = h
      BY <1>6, <2>1
    <3>2. packet'[h] = Packet(cmd'[h])
      BY <1>3, <2>1, <2>3
    <3> QED
      BY <3>1, <3>2 DEF PacketWhole, Packet, Value, Entry
  <2>6. InStep'
    BY <1>1, <2>1, StillInStep DEF Exec!Done
  <2> QED
    BY <2>4, <2>5, <2>6
<1>9. ASSUME NEW h \in Handlers, Clear(h)
      PROVE  Goal
  <2>1. /\ pc' = pc /\ cmd' = cmd /\ commands' = commands /\ accepted' = accepted
        /\ open' = open /\ wire' = wire /\ cursor' = cursor /\ packet' = packet
        /\ pc[h] = "callback" /\ at[h] = "clear" /\ sink' = <<>>
        /\ at' = [at EXCEPT ![h] = "test"]
    BY <1>9 DEF Clear, ClearSink, execVars, portVars, Doing, Exec!At
  <2>2. Collecting' = {}
    BY <1>3, <1>6, <2>1 DEF Collecting
  <2>3. SinkIsOwn'
    BY <2>1, <2>2 DEF SinkIsOwn
  <2>4. PacketWhole'
    BY <1>0, <1>1, <1>3, <2>1, StillWhole
  <2>5. InStep'
    BY <1>1, <2>1, StillInStep DEF Exec!Done
  <2> QED
    BY <2>3, <2>4, <2>5
<1>10. ASSUME NEW h \in Handlers, SeeOpen(h)
       PROVE  Goal
  <2>1. /\ pc' = pc /\ cmd' = cmd /\ commands' = commands /\ accepted' = accepted
        /\ open' = open /\ wire' = wire /\ cursor' = cursor /\ sink' = sink
        /\ packet' = packet /\ at[h] = "test" /\ at' = [at EXCEPT ![h] = "write"]
    BY <1>10 DEF SeeOpen, execVars, portVars, Doing
  <2>2. Collecting' = Collecting
    BY <1>3, <2>1 DEF Collecting
  <2>3. SinkIsOwn'
    <3>1. SinkIsOwn
      BY <1>1
    <3>2. sink' = sink /\ Collecting' = Collecting
      BY <2>1, <2>2
    <3>3. \A g \in Collecting : cursor'[g] = cursor[g] /\ cmd'[g] = cmd[g]
      BY <2>1, <2>2 DEF Collecting
    <3> QED
      BY <3>1, <3>2, <3>3, UntouchedOwn
  <2>4. PacketWhole'
    BY <1>0, <1>1, <1>3, <2>1, StillWhole
  <2>5. InStep'
    BY <1>1, <2>1, StillInStep DEF Exec!Done
  <2> QED
    BY <2>3, <2>4, <2>5
<1>11. ASSUME NEW h \in Handlers, DropPacket(h) \/ WriteSome(h) \/ WriteFails(h)
       PROVE  SinkIsOwn' /\ PacketWhole'
  <2>1. /\ sink' = sink /\ pc[h] = "callback" /\ at[h] \in {"test", "write"}
    BY <1>11 DEF DropPacket, WriteSome, WriteFails, LeaveCallback, Doing, Exec!At
  <2>2. pc'[h] # "callback" /\ \A g \in Handlers : g # h => pc'[g] = pc[g]
    BY <1>3, <1>11 DEF DropPacket, WriteSome, WriteFails, Failed, Exec!CallbackThrows,
       Exec!CallbackReturns, Exec!Return
  <2>3. Collecting = {} /\ Collecting' = {}
    BY <1>6, <2>1, <2>2 DEF Collecting
  <2>4. SinkIsOwn'
    BY <1>1, <2>1, <2>3, StillOwn
  <2>5. PacketWhole'
    BY <1>0, <1>1, <1>6, <2>1, <2>2, StillWhole
  <2> QED
    BY <2>4, <2>5
<1>12. ASSUME NEW h \in Handlers, DropPacket(h)
       PROVE  InStep'
  <2>1. open' = open /\ ~open[Port]
    BY <1>12 DEF DropPacket, LeaveCallback, portVars
  <2> QED
    BY <2>1 DEF InStep
<1>13. ASSUME NEW h \in Handlers, WriteSome(h)
       PROVE  InStep'
  <2>1. /\ wire' = packet[h] /\ pc[h] = "callback" /\ at[h] # "collect"
        /\ pc' = [pc EXCEPT ![h] = "pop"] /\ commands' = commands /\ accepted' = accepted
    BY <1>13 DEF WriteSome, Doing, Exec!CallbackReturns, Exec!At
  <2>2. wire' = Packet(cmd[h]) /\ cmd[h] = Exec!Done + 1
    BY <1>0, <1>1, <1>2, <2>1 DEF PacketWhole
  <2>3. pc'[h] = "pop" /\ Exec!Done' = Exec!Done
    BY <1>3, <2>1 DEF Exec!Done
  <2>4. wire' = Latest(Exec!Done + 1)
    BY <1>2, <2>2 DEF Latest
  <2> QED
    BY <2>3, <2>4 DEF InStep, Latest, Packet, Value, Entry
<1>14. ASSUME NEW h \in Handlers, WriteFails(h)
       PROVE  InStep'
  <2>1. /\ wire' = wire /\ open' = open /\ pc[h] = "callback"
        /\ pc' = [pc EXCEPT ![h] = "idle"] /\ commands' = commands /\ accepted' = accepted
    BY <1>14 DEF WriteFails, Failed, LeaveCallback, portVars, Doing, Exec!CallbackThrows,
       Exec!Return, Exec!At
  <2>2. \A g \in Handlers : pc[g] = "pop" <=> pc'[g] = "pop"
    BY <1>3, <2>1
  <2> QED
    BY <1>1, <2>1, <2>2, StillInStep DEF Exec!Done
<1>15. ASSUME PortStep \/ UNCHANGED vars
       PROVE  Goal
  <2>1. /\ pc' = pc /\ cmd' = cmd /\ commands' = commands /\ accepted' = accepted
        /\ cursor' = cursor /\ wire' = wire /\ sink' = sink /\ at' = at /\ packet' = packet
    BY <1>15 DEF PortStep, vars, execVars, walkVars
  <2>2. open'[Port] => open[Port]
    BY StepOfPorts, PortSteps DEF Inv, TypeOK
  <2>3. Collecting' = Collecting
    BY <2>1 DEF Collecting
  <2>4. SinkIsOwn'
    <3>1. SinkIsOwn
      BY <1>1
    <3>2. sink' = sink /\ Collecting' = Collecting
      BY <2>1, <2>3
    <3>3. \A g \in Collecting : cursor'[g] = cursor[g] /\ cmd'[g] = cmd[g]
      BY <2>1, <2>3 DEF Collecting
    <3> QED
      BY <3>1, <3>2, <3>3, UntouchedOwn
  <2>5. PacketWhole'
    BY <1>0, <1>1, <2>1, StillWhole
  <2>6. InStep'
    BY <1>1, <2>1, <2>2, StillInStep DEF Exec!Done
  <2> QED
    BY <2>4, <2>5, <2>6
<1> QED
  <2> HIDE DEF Goal
  <2>1. ASSUME NEW h \in Handlers, DropPacket(h) \/ WriteSome(h) \/ WriteFails(h)
        PROVE  Goal
    BY <2>1, <1>11, <1>12, <1>13, <1>14 DEF Goal
  <2>2. Goal
    BY <1>4, <1>5, <1>7, <1>8, <1>9, <1>10, <1>15, <2>1 DEF Next, OnMessage
  <2> QED
    BY <1>0, <2>2 DEF Goal

-----------------------------------------------------------------------------
(* The theorems.                                                           *)

\* The invariant holds initially, with an empty sink and no call.
LEMMA InitInv == Init => Inv
<1> SUFFICES ASSUME Init PROVE Inv
    OBVIOUS
<1>1. TypeOK
    BY InitTypeOK
<1>2. Exec!Inv
    BY SameInit, SameInv, EP!InitInv, ChassisAssumption, OverlapAssumption DEF EP!InitInv, Init
<1>3. /\ pc = [h \in Handlers |-> "idle"] /\ cursor = [h \in Handlers |-> 0]
      /\ at = [h \in Handlers |-> "collect"] /\ commands = <<>> /\ accepted = 0
      /\ sink = <<>> /\ wire = <<>>
    BY DEF Init, Exec!Init
<1>4. AtRest /\ PacketWhole /\ Collecting = {}
    BY <1>3 DEF AtRest, PacketWhole, Collecting
<1>5. SinkBounded
  <2>1. Len(sink) = 0
    BY <1>3
  <2> QED
    BY <2>1, CollectedFinite DEF SinkBounded
<1>6. SinkIsOwn
    BY <1>3, <1>4 DEF SinkIsOwn
<1>7. InStep
  <2>1. Exec!Done = 0
    <3>1. accepted = 0
      BY <1>3
    <3>2. Len(commands) = 0
      BY <1>3
    <3> QED
      BY <3>1, <3>2 DEF Exec!Done
  <2>2. \A h \in Handlers : pc[h] # "pop"
    BY <1>3
  <2> QED
    BY <1>3, <2>1, <2>2 DEF InStep, Latest
<1> QED
    BY <1>1, <1>2, <1>4, <1>5, <1>6, <1>7 DEF Inv

\* Every step keeps the invariant.
LEMMA NextInv == Inv /\ [Next]_vars => Inv'
<1> SUFFICES ASSUME Inv, [Next]_vars
             PROVE  Inv'
    OBVIOUS
<1>1. TypeOK' /\ Exec!Inv' /\ AtRest' /\ SinkBounded'
    BY NextTypeOK, KeepsExecInv, NextAtRest, NextSinkBounded DEF Inv
<1>2. alone' => SinkIsOwn' /\ PacketWhole' /\ InStep'
    BY NextInStep
<1> QED
    BY <1>1, <1>2 DEF Inv

\* The inductive invariant holds in every reachable state.
THEOREM ChassisInvariance == Spec => []Inv
    BY InitInv, NextInv, PTL DEF Spec

\* As long as calls do not overlap a packet is exactly the entries of the
\* command being launched, one per wheel, also after a call that failed.
THEOREM PacketsWhole == Spec => []PacketWhole
<1>1. Inv => PacketWhole
    BY DEF Inv, PacketWhole
<1> QED
    BY <1>1, ChassisInvariance, PTL

\* However many calls overlap or fail, the sink that handler threads share
\* holds no more than those now collecting have put there.
THEOREM SinkStaysBounded == Spec => []SinkBounded
<1>1. Inv => SinkBounded
    BY DEF Inv
<1> QED
    BY <1>1, ChassisInvariance, PTL

\* As long as calls do not overlap, when the queue is empty and every call
\* answered a microcontroller whose port is open has been sent the whole of
\* the latest command.
THEOREM RoverInStep == Spec => []RoverFollows
<1>1. ASSUME Inv, alone, commands = <<>>, \A h \in Handlers : ~Exec!Busy(h),
             accepted > 0, open[Port]
      PROVE  wire = Packet(accepted)
  <2>1. Exec!Done = accepted /\ accepted \in Nat
    BY <1>1, Guaranteed DEF Inv
  <2>2. \A h \in Handlers : pc[h] # "pop"
    BY <1>1 DEF Exec!Busy
  <2>3. wire = Latest(accepted)
    BY <1>1, <2>1, <2>2 DEF Inv, InStep
  <2> QED
    BY <1>1, <2>1, <2>3 DEF Latest
<1>2. Inv => RoverFollows
    BY <1>1 DEF RoverFollows
<1> QED
    BY <1>2, ChassisInvariance, PTL

\* However calls overlap, collecting and writing a packet does to the executor
\* only what a callback may do.
THEOREM WalkIsCallback == Spec => Exec!Init /\ [][Exec!Next]_execVars
<1>1. Init => Exec!Init
    BY DEF Init
<1> QED
    BY <1>1, StepOfExecutor, PTL DEF Spec

=============================================================================
