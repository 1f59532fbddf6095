----------------------- MODULE MultipleUcChassisProofs -----------------------
(***************************************************************************)
(* Proofs of the safety properties of MultipleUcChassis, for any number of *)
(* handler threads, of commands and of wheels.  They build on the proofs   *)
(* about the executor, which are instantiated here: the walk along the     *)
(* wheels is shown to be one of the callbacks they quantify over.          *)
(***************************************************************************)
EXTENDS MultipleUcChassis, TLAPS

EP == INSTANCE CommandExecutorProofs

-----------------------------------------------------------------------------
(* The executor inside the composition.                                    *)

\* What the chassis knows as Exec is what the executor's proofs are about: its
\* type invariant,
LEMMA SameTypes == Exec!TypeOK <=> EP!TypeOK
    BY DEF Exec!TypeOK, EP!TypeOK, Exec!Commands, EP!Commands, Exec!Lines, EP!Lines

\* ... its inductive invariant,
LEMMA SameInv == Exec!Inv <=> EP!Inv
    BY SameTypes
    DEF Exec!Inv, EP!Inv, Exec!QueueIsRecent, EP!QueueIsRecent, Exec!OwnRegistered,
        EP!OwnRegistered, Exec!OkMeansGone, EP!OkMeansGone, Exec!Gone, EP!Gone,
        Exec!Alone, EP!Alone, Exec!Busy, EP!Busy, Exec!AtFront, EP!AtFront

\* ... its initial states,
LEMMA SameInit == Exec!Init <=> EP!Init
    BY DEF Exec!Init, EP!Init, Exec!NoCommand, EP!NoCommand

\* ... its calls,
LEMMA SameCall ==
    ASSUME NEW h \in Handlers
    PROVE  Exec!CallStep(h) <=> EP!CallStep(h)
    BY DEF Exec!CallStep, EP!CallStep, Exec!DrivePwm, EP!DrivePwm, Exec!At, EP!At,
           Exec!Return, EP!Return, Exec!DriveDifferential, EP!DriveDifferential,
           Exec!StationReady, EP!StationReady, Exec!NobodyBusy, EP!NobodyBusy,
           Exec!Busy, EP!Busy, Exec!AddCommand, EP!AddCommand, Exec!NoCommand, EP!NoCommand

\* ... the statements of exec(),
LEMMA SameExecStep ==
    ASSUME NEW h \in Handlers
    PROVE  Exec!ExecStep(h) <=> EP!ExecStep(h)
    BY DEF Exec!ExecStep, EP!ExecStep, Exec!Test, EP!Test, Exec!At, EP!At,
           Exec!TestSize, EP!TestSize, Exec!Return, EP!Return, Exec!Front, EP!Front,
           Exec!Execute, EP!Execute, Exec!Queued, EP!Queued, Exec!Pop, EP!Pop,
           Exec!RemoveFront, EP!RemoveFront, Exec!Misuse, EP!Misuse,
           Exec!NoCommand, EP!NoCommand

\* ... the ends of the callback,
LEMMA SameCallback ==
    ASSUME NEW h \in Handlers
    PROVE  Exec!CallbackStep(h) <=> EP!CallbackStep(h)
    BY DEF Exec!CallbackStep, EP!CallbackStep, Exec!CallbackReturns, EP!CallbackReturns,
           Exec!CallbackThrows, EP!CallbackThrows, Exec!At, EP!At, Exec!Return, EP!Return,
           Exec!NoCommand, EP!NoCommand

\* ... and its steps.
LEMMA SameNext == Exec!Next <=> EP!Next
    BY SameCall, SameExecStep, SameCallback DEF Exec!Next, EP!Next

\* Every step of the chassis is one of the executor's or leaves it alone.
LEMMA StepOfExecutor == [Next]_vars => [Exec!Next]_execVars
<1> SUFFICES ASSUME [Next]_vars
             PROVE  [Exec!Next]_execVars
    OBVIOUS
<1>1. ASSUME NEW h \in Handlers, Call(h) \/ ExecLoop(h)
      PROVE  Exec!Next
    BY <1>1 DEF Call, ExecLoop, Exec!Next
<1>2. ASSUME NEW h \in Handlers, SeeOpen(h) \/ SkipClosed(h) \/ WriteSome(h)
      PROVE  UNCHANGED execVars
    BY <1>2 DEF SeeOpen, SkipClosed, WriteSome
<1>3. ASSUME NEW h \in Handlers, WriteFails(h) \/ NotifyReturns(h)
      PROVE  Exec!Next
    BY <1>3 DEF WriteFails, NotifyReturns, Exec!Next, Exec!CallbackStep
<1>4. CASE PortStep
    BY <1>4 DEF PortStep
<1>5. CASE UNCHANGED vars
    BY <1>5 DEF vars
<1> QED
    BY <1>1, <1>2, <1>3, <1>4, <1>5 DEF Next, Notify

\* So the executor's inductive invariant is kept by the whole chassis.
LEMMA KeepsExecInv == Exec!Inv /\ [Next]_vars => Exec!Inv'
<1> SUFFICES ASSUME Exec!Inv, [Next]_vars
             PROVE  Exec!Inv'
    OBVIOUS
<1>1. EP!Inv
    BY SameInv
<1>2. [EP!Next]_EP!execVars
    BY StepOfExecutor, SameNext DEF execVars, EP!execVars
<1>3. EP!Inv'
    BY <1>1, <1>2, EP!NextInv, ChassisAssumption, OverlapAssumption DEF EP!NextInv
<1> QED
    BY <1>3, SameInv, PTL

-----------------------------------------------------------------------------
(* The ports and the types.                                                *)

\* The io_service thread and the devices keep the types of the ports, and
\* nothing reopens a port.
LEMMA PortSteps ==
    ASSUME Serial!TypeOK, [Serial!Next]_portVars
    PROVE  Serial!TypeOK' /\ \A w \in Wheels : open'[w] => open[w]
<1>1. /\ plugged \in [Wheels -> BOOLEAN]
      /\ open \in [Wheels -> BOOLEAN]
      /\ reading \in [Wheels -> BOOLEAN]
      /\ unread \in [Wheels -> 0..MaxUnread]
      /\ health \in {"none", "OK", "NOT OK"}
    BY DEF Serial!TypeOK
<1>0. unread \in [Wheels -> 0..MaxUnread] /\ MaxUnread \in Nat
    BY <1>1, ChassisAssumption
<1>2. ASSUME NEW w \in Wheels, Serial!Arrive(w)
      PROVE  Serial!TypeOK' /\ open' = open
  <2>1. /\ plugged' = plugged /\ open' = open /\ reading' = reading /\ health' = health
        /\ unread[w] < MaxUnread /\ unread' = [unread EXCEPT ![w] = @ + 1]
    BY <1>2 DEF Serial!Arrive
  <2>2. unread' \in [Wheels -> 0..MaxUnread]
    <3>1. unread[w] < MaxUnread /\ unread' = [unread EXCEPT ![w] = @ + 1]
      BY <2>1
    <3> QED
      BY <1>0, <3>1
  <2> QED
    BY <1>1, <2>1, <2>2 DEF Serial!TypeOK
<1>3. ASSUME NEW w \in Wheels, Serial!Unplug(w)
      PROVE  Serial!TypeOK' /\ open' = open
  <2>1. /\ plugged' = [plugged EXCEPT ![w] = FALSE] /\ open' = open
        /\ reading' = reading /\ health' = health /\ unread' = [unread EXCEPT ![w] = 0]
    BY <1>3 DEF Serial!Unplug
  <2>2. unread' \in [Wheels -> 0..MaxUnread]
    <3>1. unread' = [unread EXCEPT ![w] = 0]
      BY <2>1
    <3> QED
      BY <1>0, <3>1
  <2>3. plugged' \in [Wheels -> BOOLEAN]
    BY <1>1, <2>1
  <2> QED
    BY <1>1, <2>1, <2>2, <2>3 DEF Serial!TypeOK
<1>4. ASSUME NEW w \in Wheels, Serial!ReadChunk(w)
      PROVE  Serial!TypeOK' /\ open' = open
  <2>1. /\ plugged' = plugged /\ open' = open /\ health' = health
        /\ unread[w] > 0 /\ unread' = [unread EXCEPT ![w] = @ - 1]
        /\ reading' = [reading EXCEPT ![w] = open[w]]
    BY <1>4 DEF Serial!ReadChunk, Serial!ArmRead
  <2>2. unread' \in [Wheels -> 0..MaxUnread]
    <3>1. unread[w] > 0 /\ unread' = [unread EXCEPT ![w] = @ - 1]
      BY <2>1
    <3> QED
      BY <1>0, <3>1
  <2>3. reading' \in [Wheels -> BOOLEAN]
    BY <1>1, <2>1
  <2> QED
    BY <1>1, <2>1, <2>2, <2>3 DEF Serial!TypeOK
<1>5. ASSUME NEW w \in Wheels, Serial!ReadFails(w)
      PROVE  Serial!TypeOK' /\ open' = [open EXCEPT ![w] = FALSE]
  <2>1. /\ plugged' = plugged /\ open' = [open EXCEPT ![w] = FALSE]
        /\ reading' = [reading EXCEPT ![w] = FALSE] /\ unread' = unread /\ health' = health
    BY <1>5 DEF Serial!ReadFails, Serial!CloseOnError
  <2>2. open' \in [Wheels -> BOOLEAN] /\ reading' \in [Wheels -> BOOLEAN]
    BY <1>1, <2>1
  <2> QED
    BY <1>1, <2>1, <2>2 DEF Serial!TypeOK
<1>6. ASSUME Serial!CheckHealth
      PROVE  Serial!TypeOK' /\ open' = open
    BY <1>1, <1>6 DEF Serial!CheckHealth, Serial!TypeOK
<1>7. CASE UNCHANGED portVars
    BY <1>1, <1>7 DEF portVars, Serial!TypeOK
<1>8. ASSUME NEW w \in Wheels, open' = [open EXCEPT ![w] = FALSE]
      PROVE  \A v \in Wheels : open'[v] => open[v]
    BY <1>1, <1>8
<1> QED
    BY <1>2, <1>3, <1>4, <1>5, <1>6, <1>7, <1>8
    DEF Serial!Next, Serial!Device, Serial!IoThread

\* Every step of the chassis is one of the ports' or leaves them alone.
LEMMA StepOfPorts == [Next]_vars => [Serial!Next]_portVars
<1> SUFFICES ASSUME [Next]_vars
             PROVE  [Serial!Next]_portVars
    OBVIOUS
<1>1. ASSUME NEW h \in Handlers, Call(h) \/ ExecLoop(h) \/ Notify(h)
      PROVE  UNCHANGED portVars
    BY <1>1 DEF Call, ExecLoop, Notify, SeeOpen, SkipClosed, WriteSome, WriteFails, NotifyReturns
<1>2. CASE PortStep
    BY <1>2 DEF PortStep
<1>3. CASE UNCHANGED vars
    BY <1>3 DEF vars
<1> QED
    BY <1>1, <1>2, <1>3 DEF Next

\* What a wheel may be sent, and what drivePwm puts on the queue, is a message.
LEMMA ValuesType ==
    ASSUME NEW c \in 0..MaxCommands, NEW w \in Wheels
    PROVE  /\ Values(c)[w] \in [command : 0..MaxCommands, side : {"none", "left", "right"}]
           /\ Values(c)[w].command = c
    BY DEF Values, Message

\* The initial state is well typed.
LEMMA InitTypeOK == Init => TypeOK
<1> SUFFICES ASSUME Init PROVE TypeOK
    OBVIOUS
<1> USE ChassisAssumption
<1>1. Exec!TypeOK
    BY SameInit, SameTypes, EP!InitTypeOK, OverlapAssumption DEF EP!InitTypeOK, Init
<1>2. Serial!TypeOK
    BY DEF Init, Serial!Init, Serial!TypeOK
<1>3. /\ cursor \in [Handlers -> 0..WheelCount]
      /\ at \in [Handlers -> {"check", "write"}]
      /\ wire \in [Wheels -> [command : 0..MaxCommands, side : {"none", "left", "right"}]]
    BY DEF Init, Nothing, Message
<1> QED
    BY <1>1, <1>2, <1>3 DEF TypeOK

\* Every step keeps the types.
LEMMA NextTypeOK == TypeOK /\ Exec!Inv /\ [Next]_vars => TypeOK'
<1> SUFFICES ASSUME TypeOK, Exec!Inv, [Next]_vars
             PROVE  TypeOK'
    OBVIOUS
<1> USE ChassisAssumption
<1> DEFINE Walks == /\ cursor \in [Handlers -> 0..WheelCount]
                    /\ at \in [Handlers -> {"check", "write"}]
                    /\ wire \in [Wheels -> [command : 0..MaxCommands,
                                            side : {"none", "left", "right"}]]
<1>1. Exec!TypeOK'
    BY KeepsExecInv DEF Exec!Inv
<1>2. Serial!TypeOK'
    BY StepOfPorts, PortSteps DEF TypeOK
<1>3. Walks
    BY DEF TypeOK
<1>4. ASSUME NEW h \in Handlers, Call(h) \/ ExecLoop(h)
      PROVE  Walks'
    BY <1>3, <1>4 DEF Call, ExecLoop, walkVars
<1>5. ASSUME NEW h \in Handlers, SeeOpen(h)
      PROVE  Walks'
    BY <1>3, <1>5 DEF SeeOpen
<1>6. ASSUME NEW h \in Handlers, SkipClosed(h)
      PROVE  Walks'
    BY <1>3, <1>6 DEF SkipClosed, NextWheel, Walking
<1>7. ASSUME NEW h \in Handlers, WriteSome(h)
      PROVE  Walks'
  <2>1. cmd[h] \in 0..MaxCommands /\ cursor[h] \in Wheels
    BY <1>3, <1>7 DEF WriteSome, Walking, Wheels, TypeOK, Exec!TypeOK
  <2>2. Values(cmd[h])[cursor[h]] \in [command : 0..MaxCommands, side : {"none", "left", "right"}]
    BY <2>1, ValuesType
  <2> QED
    BY <1>3, <1>7, <2>1, <2>2, SMTT(30) DEF WriteSome, NextWheel, Walking, Wheels
<1>8. ASSUME NEW h \in Handlers, WriteFails(h)
      PROVE  Walks'
    BY <1>3, <1>8 DEF WriteFails
<1>9. ASSUME NEW h \in Handlers, NotifyReturns(h)
      PROVE  Walks'
    BY <1>3, <1>9 DEF NotifyReturns
<1>10. ASSUME PortStep \/ UNCHANGED vars
       PROVE  Walks'
    BY <1>3, <1>10 DEF PortStep, walkVars, vars
<1>11. Walks'
  <2> HIDE DEF Walks
  <2> QED
    BY <1>4, <1>5, <1>6, <1>7, <1>8, <1>9, <1>10 DEF Next, Notify
<1> QED
    BY <1>1, <1>2, <1>11 DEF TypeOK

-----------------------------------------------------------------------------
(* The inductive invariant.                                                *)

\* What the executor guarantees a callback as long as calls do not overlap:
\* it runs the command after those that have left the queue, in one thread.
LEMMA Guaranteed ==
    ASSUME Exec!Inv, alone
    PROVE  /\ accepted \in Nat /\ Exec!Done \in 0..accepted
           /\ commands = <<>> => Exec!Done = accepted
           /\ \A h \in Handlers : pc[h] \in {"execute", "callback", "pop"} =>
                  cmd[h] = Exec!Done + 1 /\ Exec!Done < accepted
           /\ \A g, h \in Handlers : pc[g] # "idle" /\ pc[h] # "idle" => g = h
    BY SameInv, EP!Guaranteed, ChassisAssumption, OverlapAssumption
    DEF EP!Guaranteed, Exec!Done, EP!Done

\* What a call does to the queue and to its thread.
LEMMA CallEffect ==
    ASSUME Exec!Inv, NEW h \in Handlers, Call(h)
    PROVE  /\ pc'[h] \in {"idle", "test"}
           /\ \A g \in Handlers : g # h => pc'[g] = pc[g] /\ cmd'[g] = cmd[g]
           /\ accepted' \in {accepted, accepted + 1} /\ Exec!Done' = Exec!Done
           /\ open' = open /\ cursor' = cursor /\ wire' = wire
<1>1. EP!Inv /\ EP!CallStep(h)
    BY SameInv, SameCall DEF Call
<1>2. open' = open /\ cursor' = cursor /\ wire' = wire
    BY DEF Call, portVars, walkVars
<1> QED
    BY <1>1, <1>2, EP!CallEffect, ChassisAssumption, OverlapAssumption
    DEF EP!CallEffect, Exec!Done, EP!Done

\* What a statement of exec() does: it only goes on in its own thread, into the
\* callback from execute() alone, and pop() removes the command it has run.
LEMMA ExecEffect ==
    ASSUME Exec!Inv, NEW h \in Handlers, ExecLoop(h), alone'
    PROVE  /\ accepted' = accepted
           /\ pc'[h] # "pop" /\ (pc'[h] = "callback" => pc[h] = "execute")
           /\ \A g \in Handlers : g # h => pc'[g] = pc[g] /\ cmd'[g] = cmd[g]
           /\ pc[h] # "pop" => Exec!Done' = Exec!Done
           /\ pc[h] = "pop" => Exec!Done' = Exec!Done + 1
           /\ open' = open /\ cursor' = cursor /\ wire' = wire
<1>1. EP!Inv /\ EP!ExecStep(h)
    BY SameInv, SameExecStep DEF ExecLoop
<1>2. open' = open /\ cursor' = cursor /\ wire' = wire
    BY DEF ExecLoop, portVars, walkVars
<1> QED
    BY <1>1, <1>2, EP!ExecEffect, ChassisAssumption, OverlapAssumption
    DEF EP!ExecEffect, Exec!Done, EP!Done

\* Nothing has been sent and no handler walks.
LEMMA InitInv == Init => Inv
<1> SUFFICES ASSUME Init PROVE Inv
    OBVIOUS
<1>1. TypeOK
    BY InitTypeOK
<1>2. Exec!Inv
    BY SameInit, SameInv, EP!InitInv, ChassisAssumption, OverlapAssumption
    DEF EP!InitInv, Init
<1>3. /\ commands = <<>> /\ accepted = 0
      /\ \A h \in Handlers : pc[h] = "idle" /\ cursor[h] = 0
      /\ \A w \in Wheels : wire[w] = Nothing
    BY DEF Init, Exec!Init
<1>4. AtRest /\ Informed
    BY <1>3 DEF AtRest, Informed
<1>5. Exec!Done = 0
  <2>1. accepted = 0
    BY <1>3
  <2>2. Len(commands) = 0
    BY <1>3
  <2> QED
    BY <2>1, <2>2 DEF Exec!Done
<1>6. InStep
    BY <1>3, <1>5 DEF InStep, Latest
<1> QED
    BY <1>1, <1>2, <1>4, <1>6 DEF Inv

\* A step that leaves the queue and the wire alone, and closes ports at most,
\* keeps the wheels in step and informed if no walk is cut short or skipped.
LEMMA StandingStill ==
    ASSUME InStep, Informed,
           accepted \in Nat, accepted' \in {accepted, accepted + 1}, Exec!Done' = Exec!Done,
           wire' = wire, \A w \in Wheels : open'[w] => open[w],
           \A h \in Handlers, w \in Wheels :
               open'[w] /\ (pc'[h] = "pop" \/ (pc'[h] = "callback" /\ w < cursor'[h])) =>
                   /\ cmd'[h] = cmd[h]
                   /\ pc[h] = "pop" \/ (pc[h] = "callback" /\ w < cursor[h])
    PROVE  InStep' /\ Informed'
<1>1. ASSUME NEW h \in Handlers, NEW w \in Wheels, open'[w],
             pc'[h] = "pop" \/ (pc'[h] = "callback" /\ w < cursor'[h])
      PROVE  wire'[w] = Values(cmd'[h])[w]
    BY <1>1 DEF Informed
<1>2. ASSUME NEW w \in Wheels, open'[w]
      PROVE  \/ wire'[w] = Latest(Exec!Done', w)
             \/ (Exec!Done' < accepted' /\ wire'[w] = Latest(Exec!Done' + 1, w))
  <2>1. CASE wire[w] = Latest(Exec!Done, w)
    BY <2>1
  <2>2. CASE Exec!Done < accepted /\ wire[w] = Latest(Exec!Done + 1, w)
    <3>1. Exec!Done' < accepted'
      BY <2>2 DEF Exec!Done
    <3> QED
      BY <2>2, <3>1
  <2> QED
    BY <1>2, <2>1, <2>2 DEF InStep
<1> QED
    BY <1>1, <1>2 DEF InStep, Informed, Latest, Values, Message, Nothing

\* Handlers that are not in the callback stay ready to begin a walk.
LEMMA NextAtRest == TypeOK /\ AtRest /\ [Next]_vars => AtRest'
<1> SUFFICES ASSUME TypeOK, AtRest, [Next]_vars
             PROVE  AtRest'
    OBVIOUS
<1>0. pc \in [Handlers -> Exec!Lines] /\ cursor \in [Handlers -> 0..WheelCount]
    BY DEF TypeOK, Exec!TypeOK
<1>1. ASSUME NEW h \in Handlers, Call(h) \/ ExecLoop(h)
      PROVE  AtRest'
  <2>1. cursor' = cursor /\ pc[h] # "callback"
    BY <1>1 DEF Call, ExecLoop, walkVars, Exec!CallStep, Exec!DrivePwm, Exec!DriveDifferential,
       Exec!ExecStep, Exec!Test, Exec!Front, Exec!Execute, Exec!Pop, Exec!Misuse, Exec!At
  <2>2. \A g \in Handlers : g # h => pc'[g] = pc[g]
    BY <1>0, <1>1 DEF Call, ExecLoop, Exec!CallStep, Exec!DrivePwm, Exec!DriveDifferential,
       Exec!ExecStep, Exec!Test, Exec!TestSize, Exec!Return, Exec!Front, Exec!Execute,
       Exec!Pop, Exec!Misuse
  <2> QED
    BY <2>1, <2>2 DEF AtRest
<1>2. ASSUME NEW h \in Handlers, SeeOpen(h) \/ SkipClosed(h) \/ WriteSome(h)
      PROVE  AtRest'
  <2>1. pc' = pc /\ pc[h] = "callback"
    BY <1>2 DEF SeeOpen, SkipClosed, WriteSome, execVars, Walking, Exec!At
  <2>2. \A g \in Handlers : g # h => cursor'[g] = cursor[g]
    BY <1>0, <1>2 DEF SeeOpen, SkipClosed, WriteSome, NextWheel
  <2> QED
    BY <2>1, <2>2 DEF AtRest
<1>3. ASSUME NEW h \in Handlers, WriteFails(h) \/ NotifyReturns(h)
      PROVE  AtRest'
  <2>1. cursor' = [cursor EXCEPT ![h] = 0]
    BY <1>3 DEF WriteFails, NotifyReturns
  <2>2. \A g \in Handlers : g # h => pc'[g] = pc[g]
    BY <1>0, <1>3 DEF WriteFails, NotifyReturns, Exec!CallbackThrows, Exec!CallbackReturns,
       Exec!Return
  <2> QED
    BY <1>0, <2>1, <2>2 DEF AtRest
<1>4. CASE PortStep \/ UNCHANGED vars
    BY <1>4 DEF PortStep, vars, execVars, walkVars, AtRest
<1> QED
    BY <1>1, <1>2, <1>3, <1>4 DEF Next, Notify

\* As long as calls do not overlap every step keeps the wheels in step.
LEMMA NextInStep ==
    ASSUME Inv, [Next]_vars, alone'
    PROVE  alone /\ InStep' /\ Informed'
<1>0. alone
  <2>1. [EP!Next]_EP!execVars
    BY StepOfExecutor, SameNext DEF execVars, EP!execVars
  <2> QED
    BY <2>1, EP!AloneIsHistory, ChassisAssumption, OverlapAssumption DEF EP!AloneIsHistory
<1>1. InStep /\ Informed /\ AtRest /\ Exec!Inv
    BY <1>0 DEF Inv
<1>2. /\ accepted \in Nat /\ Exec!Done \in Nat
      /\ \A h \in Handlers : pc[h] \in {"execute", "callback", "pop"} =>
             cmd[h] = Exec!Done + 1 /\ Exec!Done < accepted
      /\ \A g, h \in Handlers : pc[g] # "idle" /\ pc[h] # "idle" => g = h
    BY <1>0, <1>1, Guaranteed
<1>3. /\ pc \in [Handlers -> Exec!Lines]
      /\ cmd \in [Handlers -> 0..MaxCommands]
      /\ cursor \in [Handlers -> 0..WheelCount]
      /\ wire \in [Wheels -> [command : 0..MaxCommands, side : {"none", "left", "right"}]]
    BY DEF Inv, TypeOK, Exec!TypeOK
<1>4. ASSUME NEW h \in Handlers, Call(h)
      PROVE  InStep' /\ Informed'
  <2>1. /\ pc'[h] \in {"idle", "test"} /\ Exec!Done' = Exec!Done
        /\ accepted' \in {accepted, accepted + 1}
        /\ \A g \in Handlers : g # h => pc'[g] = pc[g] /\ cmd'[g] = cmd[g]
        /\ open' = open /\ cursor' = cursor /\ wire' = wire
    BY <1>1, <1>4, CallEffect
  <2> QED
    BY <1>1, <1>2, <2>1, StandingStill
<1>5. ASSUME NEW h \in Handlers, ExecLoop(h)
      PROVE  InStep' /\ Informed'
  <2>1. /\ accepted' = accepted
        /\ pc'[h] # "pop" /\ (pc'[h] = "callback" => pc[h] = "execute")
        /\ \A g \in Handlers : g # h => pc'[g] = pc[g] /\ cmd'[g] = cmd[g]
        /\ pc[h] # "pop" => Exec!Done' = Exec!Done
        /\ pc[h] = "pop" => Exec!Done' = Exec!Done + 1
        /\ open' = open /\ cursor' = cursor /\ wire' = wire
    BY <1>1, <1>5, ExecEffect
  <2>2. CASE pc[h] # "pop"
    <3>1. cursor'[h] = 0 \/ pc'[h] # "callback"
      BY <1>1, <2>1 DEF AtRest
    <3>2. ASSUME NEW g \in Handlers, NEW w \in Wheels,
                 pc'[g] = "pop" \/ (pc'[g] = "callback" /\ w < cursor'[g])
          PROVE  g # h
      BY <2>1, <3>1, <3>2 DEF Wheels
    <3> QED
      BY <1>1, <1>2, <2>1, <2>2, <3>2, StandingStill
  <2>3. CASE pc[h] = "pop"
    <3>1. cmd[h] = Exec!Done + 1 /\ Exec!Done' = cmd[h]
      BY <1>2, <2>1, <2>3
    <3>2. \A w \in Wheels : open[w] => wire[w] = Values(cmd[h])[w]
      BY <1>1, <2>3 DEF Informed
    <3>3. InStep'
      BY <1>2, <2>1, <3>1, <3>2 DEF InStep, Latest, Values, Message
    <3>4. \A g \in Handlers : pc'[g] \notin {"callback", "pop"}
      BY <1>2, <2>1, <2>3
    <3> QED
      BY <3>3, <3>4 DEF Informed
  <2> QED
    BY <2>2, <2>3
<1>6. ASSUME NEW h \in Handlers, SeeOpen(h)
      PROVE  InStep' /\ Informed'
  <2>1. /\ pc' = pc /\ cmd' = cmd /\ commands' = commands /\ accepted' = accepted
        /\ open' = open /\ cursor' = cursor /\ wire' = wire
    BY <1>6 DEF SeeOpen, execVars, portVars
  <2> QED
    BY <1>1, <1>2, <2>1, StandingStill DEF Exec!Done
<1>7. ASSUME NEW h \in Handlers, SkipClosed(h)
      PROVE  InStep' /\ Informed'
  <2>1. /\ pc' = pc /\ cmd' = cmd /\ commands' = commands /\ accepted' = accepted
        /\ open' = open /\ wire' = wire /\ ~open[cursor[h]]
        /\ cursor' = [cursor EXCEPT ![h] = @ + 1] /\ pc[h] = "callback"
    BY <1>7 DEF SkipClosed, NextWheel, execVars, portVars, Walking, Exec!At
  <2>2. ASSUME NEW g \in Handlers, NEW w \in Wheels, open'[w], w < cursor'[g]
        PROVE  w < cursor[g]
    BY <1>3, <2>1, <2>2, ChassisAssumption DEF Wheels
  <2> QED
    BY <1>1, <1>2, <2>1, <2>2, StandingStill DEF Exec!Done
<1>8. ASSUME NEW h \in Handlers, WriteSome(h)
      PROVE  InStep' /\ Informed'
  <2>1. /\ pc' = pc /\ cmd' = cmd /\ commands' = commands /\ accepted' = accepted
        /\ open' = open /\ pc[h] = "callback" /\ cursor[h] < WheelCount
        /\ wire' = [wire EXCEPT ![cursor[h]] = Values(cmd[h])[cursor[h]]]
        /\ cursor' = [cursor EXCEPT ![h] = @ + 1]
    BY <1>8 DEF WriteSome, NextWheel, execVars, portVars, Walking, Exec!At
  <2>2. cursor[h] \in Wheels
    BY <1>3, <2>1, ChassisAssumption DEF Wheels
  <2>3. Exec!Done' = Exec!Done /\ cmd[h] = Exec!Done + 1 /\ Exec!Done < accepted
    BY <1>2, <2>1 DEF Exec!Done
  <2>4. wire'[cursor[h]] = Latest(Exec!Done + 1, cursor[h])
    BY <1>2, <1>3, <2>1, <2>2, <2>3 DEF Latest
  <2>5. \A w \in Wheels : w # cursor[h] => wire'[w] = wire[w]
    BY <1>3, <2>1
  <2>6. InStep'
    <3> SUFFICES ASSUME NEW w \in Wheels, open[w]
                 PROVE  \/ wire'[w] = Latest(Exec!Done, w)
                        \/ (Exec!Done < accepted /\ wire'[w] = Latest(Exec!Done + 1, w))
      BY <2>1, <2>3 DEF InStep, Latest, Values, Message, Nothing
    <3>1. CASE w = cursor[h]
      BY <2>3, <2>4, <3>1
    <3>2. CASE w # cursor[h]
      BY <1>1, <2>5, <3>2 DEF InStep
    <3> QED
      BY <3>1, <3>2
  <2>7. \A g \in Handlers : pc[g] \in {"callback", "pop"} => g = h
    BY <1>2, <2>1
  <2>8. ASSUME NEW w \in Wheels, open[w], w < cursor'[h]
        PROVE  wire'[w] = Values(cmd[h])[w]
    <3>1. CASE w = cursor[h]
      BY <1>3, <2>1, <3>1
    <3>2. CASE w # cursor[h]
      <4>1. w < cursor[h]
        BY <1>3, <2>1, <2>2, <2>8, <3>2, ChassisAssumption DEF Wheels
      <4> QED
        BY <1>1, <2>1, <2>5, <2>8, <3>2, <4>1 DEF Informed
    <3> QED
      BY <3>1, <3>2
  <2>9. Informed'
    BY <2>1, <2>7, <2>8 DEF Informed, Values, Message
  <2> QED
    BY <2>6, <2>9
<1>9. ASSUME NEW h \in Handlers, WriteFails(h)
      PROVE  InStep' /\ Informed'
  <2>1. /\ pc' = [pc EXCEPT ![h] = "idle"] /\ cmd' = [cmd EXCEPT ![h] = Exec!NoCommand]
        /\ commands' = commands /\ accepted' = accepted
        /\ open' = open /\ wire' = wire /\ cursor' = [cursor EXCEPT ![h] = 0]
    BY <1>9 DEF WriteFails, Exec!CallbackThrows, Exec!Return, portVars
  <2>2. pc'[h] = "idle" /\ Exec!Done' = Exec!Done
    BY <1>3, <2>1 DEF Exec!Done
  <2>3. \A g \in Handlers : g # h => pc'[g] = pc[g] /\ cmd'[g] = cmd[g] /\ cursor'[g] = cursor[g]
    BY <1>3, <2>1
  <2> QED
    BY <1>1, <1>2, <2>1, <2>2, <2>3, StandingStill
<1>10. ASSUME NEW h \in Handlers, NotifyReturns(h)
       PROVE  InStep' /\ Informed'
  <2>1. /\ pc' = [pc EXCEPT ![h] = "pop"] /\ cmd' = cmd /\ commands' = commands
        /\ accepted' = accepted /\ open' = open /\ wire' = wire
        /\ cursor' = [cursor EXCEPT ![h] = 0] /\ pc[h] = "callback" /\ cursor[h] = WheelCount
    BY <1>10 DEF NotifyReturns, Exec!CallbackReturns, Exec!At, portVars
  <2>2. Exec!Done' = Exec!Done
    BY <2>1 DEF Exec!Done
  <2>3. \A g \in Handlers : g # h => pc'[g] = pc[g] /\ cursor'[g] = cursor[g]
    BY <1>3, <2>1
  <2>4. \A w \in Wheels : w < cursor[h]
    BY <2>1, ChassisAssumption DEF Wheels
  <2> QED
    BY <1>1, <1>2, <2>1, <2>2, <2>3, <2>4, StandingStill
<1>11. CASE PortStep \/ UNCHANGED vars
  <2>1. /\ pc' = pc /\ cmd' = cmd /\ commands' = commands /\ accepted' = accepted
        /\ cursor' = cursor /\ wire' = wire
    BY <1>11 DEF PortStep, vars, execVars, walkVars
  <2>2. \A w \in Wheels : open'[w] => open[w]
    BY StepOfPorts, PortSteps DEF Inv, TypeOK
  <2> QED
    BY <1>0, <1>1, <1>2, <2>1, <2>2, StandingStill DEF Exec!Done
<1> QED
    BY <1>0, <1>4, <1>5, <1>6, <1>7, <1>8, <1>9, <1>10, <1>11 DEF Next, Notify

\* Every step keeps the invariant.
LEMMA NextInv == Inv /\ [Next]_vars => Inv'
<1> SUFFICES ASSUME Inv, [Next]_vars
             PROVE  Inv'
    OBVIOUS
<1>1. TypeOK'
    BY NextTypeOK DEF Inv
<1>2. Exec!Inv'
    BY KeepsExecInv DEF Inv
<1>3. AtRest'
    BY NextAtRest DEF Inv
<1>4. ASSUME alone'
      PROVE  InStep' /\ Informed'
    BY <1>4, NextInStep
<1> QED
    BY <1>1, <1>2, <1>3, <1>4 DEF Inv

-----------------------------------------------------------------------------
(* The theorems.                                                           *)

\* Inv holds in every reachable state.
THEOREM ChassisInvariance == Spec => []Inv
<1>1. Init => Inv
    BY InitInv
<1>2. Inv /\ [Next]_vars => Inv'
    BY NextInv
<1> QED
    BY <1>1, <1>2, PTL DEF Spec

\* Type correctness of the executor, the ports and the walks together.
THEOREM ChassisTypeCorrect == Spec => []TypeOK
<1>1. Inv => TypeOK
    BY DEF Inv
<1> QED
    BY <1>1, ChassisInvariance, PTL

\* A message carries the number of its command.
LEMMA LatestCommand ==
    ASSUME NEW n \in Nat, NEW w \in Wheels
    PROVE  Latest(n, w).command = n
    BY DEF Latest, Values, Nothing, Message

\* As long as calls do not overlap, when Chassis::notify and exec() have come
\* to rest every wheel with an open port has been sent its part of the latest
\* command, although notify() was left by an exception at some other wheel.
THEOREM HealthyFollow == Spec => []HealthyWheelsFollow
<1>1. ASSUME Inv, Quiet, alone, accepted > 0, NEW w \in Wheels, open[w]
      PROVE  wire[w] = Values(accepted)[w]
  <2>1. Exec!Done = accepted /\ accepted \in Nat
    BY <1>1, Guaranteed DEF Quiet, Inv
  <2>2. wire[w] = Latest(accepted, w)
    BY <1>1, <2>1 DEF Inv, InStep
  <2> QED
    BY <1>1, <2>1, <2>2 DEF Latest
<1>2. Inv => HealthyWheelsFollow
    BY <1>1 DEF HealthyWheelsFollow
<1> QED
    BY <1>2, ChassisInvariance, PTL

\* As long as calls do not overlap an OK of drive() means that the command, or
\* a later one, was written to every port that is still open.
THEOREM OkApplied == Spec => []OkMeansApplied
<1>1. ASSUME Inv, alone, NEW h \in Handlers, NEW w \in Wheels, status[h] = "OK", open[w]
      PROVE  wire[w].command >= own[h]
  <2>1. own[h] \in 1..Exec!Done
    BY <1>1 DEF Inv, Exec!Inv, Exec!OkMeansGone, Exec!Gone, Exec!Done
  <2>2. Exec!Done \in Nat
    BY <1>1, Guaranteed DEF Inv
  <2>3. wire[w].command \in {Exec!Done, Exec!Done + 1}
    BY <1>1, <2>2, LatestCommand DEF Inv, InStep
  <2> QED
    BY <2>1, <2>2, <2>3
<1>2. Inv => OkMeansApplied
    BY <1>1 DEF OkMeansApplied
<1> QED
    BY <1>2, ChassisInvariance, PTL

\* As long as calls do not overlap no step writes an older command to a wheel
\* than the one it has, although exec() launches failed commands again.
THEOREM NoneGoesBack == Spec => NeverGoesBack
<1>1. ASSUME Inv, [Next]_vars, alone', NEW w \in Wheels
      PROVE  wire'[w].command >= wire[w].command
  <2>0. /\ wire \in [Wheels -> [command : 0..MaxCommands, side : {"none", "left", "right"}]]
        /\ cmd \in [Handlers -> 0..MaxCommands] /\ cursor \in [Handlers -> 0..WheelCount]
    BY <1>1 DEF Inv, TypeOK, Exec!TypeOK
  <2>1. ASSUME wire'[w] = wire[w]
        PROVE  wire'[w].command >= wire[w].command
    BY <2>0, <2>1, ChassisAssumption
  <2>2. ASSUME NEW h \in Handlers, WriteSome(h)
        PROVE  wire'[w].command >= wire[w].command
    <3>1. CASE w # cursor[h]
      BY <2>0, <2>1, <2>2, <3>1 DEF WriteSome
    <3>2. CASE w = cursor[h]
      <4>1. open[w] /\ pc[h] = "callback" /\ wire'[w] = Values(cmd[h])[w]
        BY <2>0, <2>2, <3>2 DEF WriteSome, Serial!Writable, Walking, Exec!At
      <4>2. alone /\ InStep
        BY <1>1, NextInStep DEF Inv
      <4>3. cmd[h] = Exec!Done + 1 /\ Exec!Done \in Nat
        BY <1>1, <4>1, <4>2, Guaranteed DEF Inv
      <4>4. wire[w].command \in {Exec!Done, Exec!Done + 1}
        BY <4>1, <4>2, <4>3, LatestCommand DEF InStep
      <4>5. wire'[w].command = cmd[h]
        BY <2>0, <4>1, ValuesType
      <4> QED
        BY <4>3, <4>4, <4>5
    <3> QED
      BY <3>1, <3>2
  <2>3. ASSUME NEW h \in Handlers, Call(h) \/ ExecLoop(h) \/ SeeOpen(h) \/ SkipClosed(h)
                                    \/ WriteFails(h) \/ NotifyReturns(h)
        PROVE  wire' = wire
    BY <2>3 DEF Call, ExecLoop, walkVars, SeeOpen, SkipClosed, WriteFails, NotifyReturns
  <2>4. ASSUME PortStep \/ UNCHANGED vars
        PROVE  wire' = wire
    BY <2>4 DEF PortStep, vars, walkVars
  <2> QED
    BY <1>1, <2>1, <2>2, <2>3, <2>4 DEF Next, Notify
<1>2. ASSUME Inv, [Next]_vars
      PROVE  [alone' => \A w \in Wheels : wire'[w].command >= wire[w].command]_vars
    BY <1>1, <1>2
<1> QED
    BY <1>2, ChassisInvariance, PTL DEF Spec, NeverGoesBack

\* The safety part of IsExecutor: however calls overlap, the walk along the
\* wheels does to the executor only what a callback may do.
THEOREM WalkIsCallback == Spec => Exec!Init /\ [][Exec!Next]_execVars
<1>1. Init => Exec!Init
    BY DEF Init
<1> QED
    BY <1>1, StepOfExecutor, PTL DEF Spec

=============================================================================
