------------------------ MODULE CommandExecutorProofs ------------------------
(***************************************************************************)
(* Proofs of the safety properties of CommandExecutor, for any number of   *)
(* handler threads and of commands.                                        *)
(***************************************************************************)
EXTENDS CommandExecutor, TLAPS

USE DEF NoCommand, At

-----------------------------------------------------------------------------
(* Types.                                                                  *)

\* The initial state is well typed.
LEMMA InitTypeOK == Init => TypeOK
<1> SUFFICES ASSUME Init PROVE TypeOK
    OBVIOUS
<1>1. commands \in Seq(Commands) /\ accepted \in 0..MaxCommands
    BY MaxCommandsAssumption DEF Init
<1>2. /\ pc \in [Handlers -> Lines]
      /\ status \in [Handlers -> {"none", "OK", "UNKNOWN"}]
    BY DEF Init, Lines
<1>3. cmd \in [Handlers -> 0..MaxCommands] /\ own \in [Handlers -> 0..MaxCommands]
    BY MaxCommandsAssumption DEF Init
<1>4. delivered \subseteq 0..MaxCommands /\ undefined \in BOOLEAN /\ alone \in BOOLEAN
    BY DEF Init
<1> QED
    BY <1>1, <1>2, <1>3, <1>4 DEF TypeOK

\* Every step keeps the types.
LEMMA NextTypeOK == TypeOK /\ [Next]_execVars => TypeOK'
<1> SUFFICES ASSUME TypeOK, [Next]_execVars
             PROVE  TypeOK'
    OBVIOUS
<1> USE MaxCommandsAssumption DEF TypeOK, Lines, Commands
<1>1. ASSUME NEW h \in Handlers, DrivePwm(h)
      PROVE  TypeOK'
    BY <1>1 DEF DrivePwm, AddCommand
<1>2. ASSUME NEW h \in Handlers, DriveDifferential(h)
      PROVE  TypeOK'
    BY <1>2 DEF DriveDifferential, Return
<1>3. ASSUME NEW h \in Handlers, Test(h)
      PROVE  TypeOK'
  <2>1. ASSUME Return(h, "OK")
        PROVE  TypeOK'
    BY <1>3, <2>1 DEF Test, Return
  <2>2. ASSUME pc' = [pc EXCEPT ![h] = "front"], UNCHANGED <<cmd, status>>
        PROVE  TypeOK'
    BY <1>3, <2>2 DEF Test
  <2> QED
    BY <1>3, <2>1, <2>2 DEF Test, TestSize
<1>4. ASSUME NEW h \in Handlers, Front(h)
      PROVE  TypeOK'
    BY <1>4 DEF Front
<1>5. ASSUME NEW h \in Handlers, Execute(h)
      PROVE  TypeOK'
    BY <1>5 DEF Execute
<1>6. ASSUME NEW h \in Handlers, CallbackReturns(h)
      PROVE  TypeOK'
    BY <1>6 DEF CallbackReturns
<1>7. ASSUME NEW h \in Handlers, CallbackThrows(h)
      PROVE  TypeOK'
    BY <1>7 DEF CallbackThrows, Return
<1>8. ASSUME NEW h \in Handlers, Pop(h)
      PROVE  TypeOK'
    BY <1>8 DEF Pop, RemoveFront
<1>9. ASSUME NEW h \in Handlers, Misuse(h)
      PROVE  TypeOK'
    BY <1>9 DEF Misuse
<1>10. CASE UNCHANGED execVars
    BY <1>10 DEF execVars
<1> QED
    BY <1>1, <1>2, <1>3, <1>4, <1>5, <1>6, <1>7, <1>8, <1>9, <1>10
    DEF Next, CallStep, ExecStep, CallbackStep

-----------------------------------------------------------------------------
(* The inductive invariant.                                                *)

\* The queue is empty and no call has been made.
LEMMA InitInv == Init => Inv
<1> SUFFICES ASSUME Init PROVE Inv
    OBVIOUS
<1>1. TypeOK
    BY InitTypeOK
<1>2. commands = <<>> /\ accepted = 0 /\ Len(commands) = 0
    BY DEF Init
<1>3. QueueIsRecent
    BY <1>2 DEF QueueIsRecent
<1>4. \A h \in Handlers : pc[h] = "idle" /\ status[h] = "none"
    BY DEF Init
<1>5. OwnRegistered /\ OkMeansGone
    BY <1>4 DEF OwnRegistered, OkMeansGone, Busy
<1>6. Alone
    BY <1>2, <1>4 DEF Init, Alone, Busy, AtFront, Gone
<1> QED
    BY <1>1, <1>3, <1>5, <1>6 DEF Inv

\* Registering a command, with the queue's mutations below, keeps the queue a
\* run of consecutive numbers that ends with the latest.
LEMMA AppendKeepsQueue ==
    ASSUME TypeOK, QueueIsRecent, accepted < MaxCommands,
           commands' = Append(commands, accepted + 1), accepted' = accepted + 1
    PROVE  /\ QueueIsRecent'
           /\ Gone' = Gone
           /\ commands' # <<>>
           /\ commands # <<>> => Head(commands') = Head(commands)
<1> USE MaxCommandsAssumption DEF TypeOK
<1>1. commands \in Seq(Nat) /\ accepted \in Nat
    BY DEF Commands
<1>2. Len(commands') = Len(commands) + 1
    BY <1>1
<1>3. \A i \in 1..Len(commands) : commands'[i] = commands[i]
    BY <1>1
<1>4. commands'[Len(commands) + 1] = accepted + 1
    BY <1>1
<1>5. ASSUME NEW i \in 1..Len(commands')
      PROVE  commands'[i] = accepted' - Len(commands') + i
  <2>1. Len(commands) \in Nat
    BY <1>1
  <2>2. CASE i \in 1..Len(commands)
    <3>1. commands'[i] = accepted - Len(commands) + i
      BY <1>3, <2>2 DEF QueueIsRecent
    <3>2. accepted' - Len(commands') = accepted - Len(commands)
      BY <1>1, <1>2, <2>1
    <3> QED
      BY <3>1, <3>2
  <2>3. CASE i = Len(commands) + 1
    BY <1>1, <1>2, <1>4, <2>1, <2>3
  <2> QED
    BY <1>2, <2>1, <2>2, <2>3
<1>6. QueueIsRecent'
    BY <1>1, <1>2, <1>5 DEF QueueIsRecent
<1>7. Gone' = Gone
    BY <1>1, <1>2 DEF Gone
<1>8. commands' # <<>> /\ (commands # <<>> => Head(commands') = Head(commands))
    BY <1>1
<1> QED
    BY <1>6, <1>7, <1>8

\* pop() takes away the oldest command in the queue and that one only.
LEMMA PopKeepsQueue ==
    ASSUME TypeOK, QueueIsRecent, commands # <<>>,
           commands' = Tail(commands), accepted' = accepted
    PROVE  /\ QueueIsRecent'
           /\ Gone' = Gone \cup {Head(commands)}
           /\ Head(commands) = accepted - Len(commands) + 1
           /\ Len(commands') = Len(commands) - 1
<1> USE MaxCommandsAssumption DEF TypeOK
<1>1. commands \in Seq(Nat) /\ accepted \in Nat /\ Len(commands) \in Nat \ {0}
    BY DEF Commands
<1>2. Len(commands') = Len(commands) - 1
    BY <1>1
<1>3. \A i \in 1..Len(commands') : commands'[i] = commands[i + 1]
    BY <1>1
<1>4. Head(commands) = accepted - Len(commands) + 1
    BY <1>1 DEF QueueIsRecent
<1>5. QueueIsRecent'
    BY <1>1, <1>2, <1>3 DEF QueueIsRecent
<1>6. Gone' = Gone \cup {Head(commands)}
    BY <1>1, <1>2, <1>4 DEF Gone, QueueIsRecent
<1> QED
    BY <1>2, <1>4, <1>5, <1>6

\* Every step keeps the invariant: one case per action, and under it the
\* conjuncts the action can disturb.
LEMMA NextInv == Inv /\ [Next]_execVars => Inv'
<1> SUFFICES ASSUME Inv, [Next]_execVars
             PROVE  Inv'
    OBVIOUS
<1>0. TypeOK /\ TypeOK'
    BY NextTypeOK DEF Inv
<1>a. pc \in [Handlers -> Lines] /\ status \in [Handlers -> {"none", "OK", "UNKNOWN"}]
    BY <1>0 DEF TypeOK
<1>b. cmd \in [Handlers -> 0..MaxCommands] /\ own \in [Handlers -> 0..MaxCommands]
    BY <1>0 DEF TypeOK
<1>c. accepted \in Nat /\ Len(commands) \in Nat /\ commands \in Seq(Nat)
    BY <1>0, MaxCommandsAssumption DEF TypeOK, Commands
<1>1. ASSUME NEW h \in Handlers, DrivePwm(h)
      PROVE  Inv'
  <2>1. /\ accepted < MaxCommands
        /\ commands' = Append(commands, accepted + 1) /\ accepted' = accepted + 1
        /\ own' = [own EXCEPT ![h] = accepted + 1]
        /\ status' = [status EXCEPT ![h] = "none"]
        /\ pc' = [pc EXCEPT ![h] = "test"]
        /\ cmd' = cmd /\ delivered' = delivered /\ undefined' = undefined
        /\ alone' => alone /\ NobodyBusy
    BY <1>1 DEF DrivePwm, AddCommand
  <2>2. /\ QueueIsRecent' /\ Gone' = Gone /\ commands' # <<>>
        /\ commands # <<>> => Head(commands') = Head(commands)
    BY <2>1, <1>0, AppendKeepsQueue DEF Inv
  <2>3. OwnRegistered'
    BY <2>1, <1>a, <1>b, <1>c DEF Inv, OwnRegistered, Busy
  <2>4. OkMeansGone'
    BY <2>1, <2>2, <1>a, <1>b DEF Inv, OkMeansGone
  <2>5. alone' => Alone'
    BY <2>1, <2>2, <1>a, <1>b DEF Inv, Alone, NobodyBusy, Busy, AtFront
  <2> QED
    BY <1>0, <2>2, <2>3, <2>4, <2>5 DEF Inv
<1>2. ASSUME NEW h \in Handlers, DriveDifferential(h)
      PROVE  Inv'
  <2>1. /\ commands' = commands /\ accepted' = accepted
        /\ own' = [own EXCEPT ![h] = NoCommand]
        /\ status' = [status EXCEPT ![h] = "UNKNOWN"]
        /\ pc' = [pc EXCEPT ![h] = "idle"] /\ cmd' = [cmd EXCEPT ![h] = NoCommand]
        /\ delivered' = delivered /\ undefined' = undefined /\ alone' = alone
    BY <1>2 DEF DriveDifferential, Return
  <2>2. QueueIsRecent' /\ Gone' = Gone
    BY <2>1 DEF Inv, QueueIsRecent, Gone
  <2>3. OwnRegistered' /\ OkMeansGone'
    BY <2>1, <2>2, <1>a, <1>b DEF Inv, OwnRegistered, OkMeansGone, Busy
  <2>4. alone' => Alone'
    BY <2>1, <2>2, <1>a, <1>b DEF Inv, Alone, Busy, AtFront
  <2> QED
    BY <1>0, <2>2, <2>3, <2>4 DEF Inv
<1>3. ASSUME NEW h \in Handlers, Test(h)
      PROVE  Inv'
  <2>1. /\ commands' = commands /\ accepted' = accepted /\ own' = own
        /\ delivered' = delivered /\ undefined' = undefined /\ alone' = alone /\ pc[h] = "test"
    BY <1>3 DEF Test
  <2>2. QueueIsRecent' /\ Gone' = Gone
    BY <2>1 DEF Inv, QueueIsRecent, Gone
  <2>3. CASE commands = <<>>
    <3>1. /\ pc' = [pc EXCEPT ![h] = "idle"] /\ cmd' = [cmd EXCEPT ![h] = NoCommand]
          /\ status' = [status EXCEPT ![h] = "OK"]
      BY <1>3, <2>3 DEF Test, TestSize, Return
    <3>2. Gone = 1..accepted /\ own[h] \in 1..accepted
      BY <2>1, <2>3, <1>c DEF Gone, Inv, OwnRegistered, Busy
    <3>3. OwnRegistered' /\ OkMeansGone'
      BY <2>1, <2>2, <3>1, <3>2, <1>a, <1>b DEF Inv, OwnRegistered, OkMeansGone, Busy
    <3>4. alone' => Alone'
      BY <2>1, <2>2, <3>1, <1>a, <1>b DEF Inv, Alone, Busy, AtFront
    <3> QED
      BY <1>0, <2>2, <3>3, <3>4 DEF Inv
  <2>4. CASE commands # <<>>
    <3>1. pc' = [pc EXCEPT ![h] = "front"] /\ cmd' = cmd /\ status' = status
      BY <1>3, <2>4 DEF Test, TestSize
    <3>2. OwnRegistered' /\ OkMeansGone'
      BY <2>1, <2>2, <3>1, <1>a, <1>b DEF Inv, OwnRegistered, OkMeansGone, Busy
    <3>3. alone' => Alone'
      BY <2>1, <2>2, <2>4, <3>1, <1>a, <1>b
      DEF Inv, Alone, Busy, AtFront
    <3> QED
      BY <1>0, <2>2, <3>2, <3>3 DEF Inv
  <2> QED
    BY <2>3, <2>4
<1>4. ASSUME NEW h \in Handlers, Front(h)
      PROVE  Inv'
  <2>1. /\ commands' = commands /\ accepted' = accepted /\ own' = own /\ status' = status
        /\ delivered' = delivered /\ undefined' = undefined /\ alone' = alone /\ pc[h] = "front"
        /\ cmd' = [cmd EXCEPT ![h] = Head(commands)] /\ pc' = [pc EXCEPT ![h] = "execute"]
    BY <1>4 DEF Front
  <2>2. QueueIsRecent' /\ Gone' = Gone
    BY <2>1 DEF Inv, QueueIsRecent, Gone
  <2>3. OwnRegistered' /\ OkMeansGone'
    BY <2>1, <2>2, <1>a, <1>b DEF Inv, OwnRegistered, OkMeansGone, Busy
  <2>4. alone' => Alone'
    BY <2>1, <2>2, <1>a, <1>b DEF Inv, Alone, Busy, AtFront
  <2> QED
    BY <1>0, <2>2, <2>3, <2>4 DEF Inv
<1>5. ASSUME NEW h \in Handlers, Execute(h)
      PROVE  Inv'
  <2>1. /\ commands' = commands /\ accepted' = accepted /\ own' = own /\ status' = status
        /\ delivered' = delivered /\ undefined' = undefined /\ alone' = alone /\ pc[h] = "execute"
        /\ cmd' = cmd /\ pc' = [pc EXCEPT ![h] = "callback"]
    BY <1>5 DEF Execute
  <2>2. QueueIsRecent' /\ Gone' = Gone
    BY <2>1 DEF Inv, QueueIsRecent, Gone
  <2>3. OwnRegistered' /\ OkMeansGone'
    BY <2>1, <2>2, <1>a, <1>b DEF Inv, OwnRegistered, OkMeansGone, Busy
  <2>4. alone' => Alone'
    BY <2>1, <2>2, <1>a, <1>b DEF Inv, Alone, Busy, AtFront
  <2> QED
    BY <1>0, <2>2, <2>3, <2>4 DEF Inv
<1>6. ASSUME NEW h \in Handlers, CallbackReturns(h)
      PROVE  Inv'
  <2>1. /\ commands' = commands /\ accepted' = accepted /\ own' = own /\ status' = status
        /\ undefined' = undefined /\ alone' = alone /\ pc[h] = "callback" /\ cmd' = cmd
        /\ delivered' = delivered \cup {cmd[h]} /\ pc' = [pc EXCEPT ![h] = "pop"]
    BY <1>6 DEF CallbackReturns
  <2>2. QueueIsRecent' /\ Gone' = Gone
    BY <2>1 DEF Inv, QueueIsRecent, Gone
  <2>3. OwnRegistered' /\ OkMeansGone'
    BY <2>1, <2>2, <1>a, <1>b DEF Inv, OwnRegistered, OkMeansGone, Busy
  <2>4. alone' => Alone'
    BY <2>1, <2>2, <1>a, <1>b DEF Inv, Alone, Busy, AtFront
  <2> QED
    BY <1>0, <2>2, <2>3, <2>4 DEF Inv
<1>7. ASSUME NEW h \in Handlers, CallbackThrows(h)
      PROVE  Inv'
  <2>1. /\ commands' = commands /\ accepted' = accepted /\ own' = own
        /\ undefined' = undefined /\ delivered' = delivered /\ alone' = alone /\ pc[h] = "callback"
        /\ pc' = [pc EXCEPT ![h] = "idle"] /\ cmd' = [cmd EXCEPT ![h] = NoCommand]
        /\ status' = [status EXCEPT ![h] = "UNKNOWN"]
    BY <1>7 DEF CallbackThrows, Return
  <2>2. QueueIsRecent' /\ Gone' = Gone
    BY <2>1 DEF Inv, QueueIsRecent, Gone
  <2>3. OwnRegistered' /\ OkMeansGone'
    BY <2>1, <2>2, <1>a, <1>b DEF Inv, OwnRegistered, OkMeansGone, Busy
  <2>4. alone' => Alone'
    BY <2>1, <2>2, <1>a, <1>b DEF Inv, Alone, Busy, AtFront
  <2> QED
    BY <1>0, <2>2, <2>3, <2>4 DEF Inv
<1>8. ASSUME NEW h \in Handlers, Pop(h)
      PROVE  Inv'
  <2>1. /\ commands # <<>> /\ commands' = Tail(commands) /\ accepted' = accepted
        /\ own' = own /\ status' = status /\ pc[h] = "pop"
        /\ undefined' = undefined /\ delivered' = delivered /\ alone' = alone
        /\ pc' = [pc EXCEPT ![h] = "test"] /\ cmd' = [cmd EXCEPT ![h] = NoCommand]
    BY <1>8 DEF Pop, RemoveFront
  <2>2. QueueIsRecent' /\ Gone' = Gone \cup {Head(commands)}
    BY <2>1, <1>0, PopKeepsQueue DEF Inv
  <2>3. OwnRegistered' /\ OkMeansGone'
    BY <2>1, <2>2, <1>a, <1>b DEF Inv, OwnRegistered, OkMeansGone, Busy
  <2>4. alone' => Alone'
    <3> SUFFICES ASSUME alone' PROVE Alone'
      OBVIOUS
    <3>1. Alone /\ cmd[h] = Head(commands) /\ cmd[h] \in delivered
      BY <2>1 DEF Inv, Alone, AtFront
    <3>2. \A g \in Handlers : g # h => pc[g] = "idle"
      BY <2>1, <3>1 DEF Alone, Busy
    <3>3. \A g \in Handlers : AtFront(g)'
      BY <2>1, <3>2, <1>a, <1>b DEF AtFront
    <3>4. Gone' \subseteq delivered'
      BY <2>1, <2>2, <3>1 DEF Alone
    <3> QED
      BY <2>1, <3>1, <3>2, <3>3, <3>4, <1>a DEF Alone, Busy
  <2> QED
    BY <1>0, <2>2, <2>3, <2>4 DEF Inv
<1>9. ASSUME NEW h \in Handlers, Misuse(h)
      PROVE  Inv'
  <2>1. /\ commands' = commands /\ accepted' = accepted /\ own' = own /\ status' = status
        /\ pc' = pc /\ cmd' = cmd /\ delivered' = delivered /\ alone' = alone
    BY <1>9 DEF Misuse
  <2>2. QueueIsRecent' /\ OwnRegistered' /\ OkMeansGone'
    BY <2>1 DEF Inv, QueueIsRecent, Gone, OwnRegistered, OkMeansGone, Busy
  <2>3. ASSUME alone'
        PROVE  FALSE
    <3>1. Alone
      BY <2>1, <2>3 DEF Inv
    <3>2. pc[h] = "execute" /\ cmd[h] \notin Queued /\ commands # <<>> /\ cmd[h] = Head(commands)
      BY <1>9, <3>1 DEF Misuse, Alone, AtFront
    <3>3. Head(commands) = commands[1] /\ 1 \in 1..Len(commands)
      BY <3>2, <1>c
    <3> QED
      BY <3>2, <3>3 DEF Queued
  <2> QED
    BY <1>0, <2>2, <2>3 DEF Inv
<1>10. CASE UNCHANGED execVars
  <2>1. /\ commands' = commands /\ accepted' = accepted /\ own' = own /\ status' = status
        /\ pc' = pc /\ cmd' = cmd /\ delivered' = delivered /\ undefined' = undefined /\ alone' = alone
    BY <1>10 DEF execVars
  <2> QED
    BY <1>0, <2>1 DEF Inv, QueueIsRecent, Gone, OwnRegistered, OkMeansGone, Busy, Alone,
       AtFront
<1> QED
    BY <1>1, <1>2, <1>3, <1>4, <1>5, <1>6, <1>7, <1>8, <1>9, <1>10
    DEF Next, CallStep, ExecStep, CallbackStep

-----------------------------------------------------------------------------
(* The theorems.                                                           *)

\* Inv holds in every reachable state.
THEOREM Invariance == Spec => []Inv
<1>1. Init => Inv
    BY InitInv
<1>2. Inv /\ [Next]_execVars => Inv'
    BY NextInv
<1> QED
    BY <1>1, <1>2, PTL DEF Spec

\* Type correctness of the drive path's state.
THEOREM TypeCorrect == Spec => []TypeOK
<1>1. Inv => TypeOK
    BY DEF Inv
<1> QED
    BY <1>1, Invariance, PTL

\* However many stations call at once, a drive call that resolve() answers
\* with OK has seen its own command leave the executor's queue.
THEOREM OkGone == Spec => []OkMeansGone
<1>1. Inv => OkMeansGone
    BY DEF Inv
<1> QED
    BY <1>1, Invariance, PTL

\* As long as calls do not overlap exec() drops no command that was not
\* launched to completion: pop() always removes the one it executed.
THEOREM NoneAreSkipped == Spec => []NoneSkipped
<1>1. Inv => NoneSkipped
    BY DEF Inv, Alone, NoneSkipped
<1> QED
    BY <1>1, Invariance, PTL

\* As long as calls do not overlap no statement of exec() reads or removes an
\* element the queue does not hold.
THEOREM NothingMisused == Spec => []NoMisuse
<1>1. Inv => NoMisuse
    BY DEF Inv, Alone, NoMisuse
<1> QED
    BY <1>1, Invariance, PTL

\* As long as calls do not overlap an OK means that the caller's own command
\* was launched and its callback came back.
THEOREM OkDelivered == Spec => []OkMeansDelivered
<1>1. Inv => OkMeansDelivered
    BY DEF Inv, Alone, OkMeansGone, OkMeansDelivered
<1> QED
    BY <1>1, Invariance, PTL

-----------------------------------------------------------------------------
(* Until calls overlap the executor implements SequentialExecution.        *)

\* What the refinement mapping shows of a state: with no launch under way it
\* runs nothing, and otherwise the handler that launches runs the oldest
\* command that is not done.
Mapped ==
    /\ Launching = {} => Running = 0
    /\ \A h \in Launching : Launching = {h} /\ Running = Done + 1 /\ Running # 0
    /\ Done \in 0..accepted
    /\ commands # <<>> => Head(commands) = Done + 1 /\ Done < accepted

\* The mapping is as described as long as calls do not overlap.
LEMMA Mapping == Inv /\ alone => Mapped
<1> SUFFICES ASSUME Inv, alone
             PROVE  Mapped
    OBVIOUS
<1>1. Launching = {} => Running = 0
    BY DEF Running
<1>2. accepted \in Nat /\ Len(commands) \in Nat /\ commands \in Seq(Nat) /\ Len(commands) <= accepted
    BY MaxCommandsAssumption DEF Inv, TypeOK, Commands, QueueIsRecent
<1>3. Done \in 0..accepted
    BY <1>2 DEF Done
<1>4. commands # <<>> => Head(commands) = Done + 1 /\ Done < accepted
  <2> SUFFICES ASSUME commands # <<>>
               PROVE  Head(commands) = Done + 1 /\ Done < accepted
    OBVIOUS
  <2>1. Len(commands) >= 1 /\ Head(commands) = commands[1]
    BY <1>2
  <2> QED
    BY <1>2, <2>1 DEF Inv, QueueIsRecent, Done
<1>5. ASSUME NEW h \in Launching
      PROVE  Launching = {h} /\ Running = Done + 1 /\ Running # 0
  <2>1. Launching = {h}
    BY DEF Launching, Inv, Alone, Busy
  <2>2. Running = cmd[h]
    BY <2>1 DEF Running
  <2>3. commands # <<>> /\ cmd[h] = Head(commands)
    BY DEF Launching, Inv, Alone, AtFront
  <2> QED
    BY <1>3, <1>4, <2>1, <2>2, <2>3
<1> QED
    BY <1>1, <1>3, <1>4, <1>5 DEF Mapped

\* Once calls have overlapped `alone' stays false.
LEMMA AloneIsHistory ==
    ASSUME [Next]_execVars, alone'
    PROVE  alone
    BY DEF Next, CallStep, ExecStep, CallbackStep, DrivePwm, DriveDifferential, Test,
       Front, Execute, CallbackReturns, CallbackThrows, Pop, Misuse, execVars

\* Every step of the executor before calls overlap is a step of the promise
\* or a stutter.
LEMMA StepRefines ==
    ASSUME Inv, Inv', [Next]_execVars, alone'
    PROVE  [Promise!Next]_Promise!vars
<1> USE DEF Promise!vars, Promise!NoCommand, Mapped
<1>0. alone
    BY AloneIsHistory
<1>a. Mapped /\ Alone
    BY <1>0, Mapping DEF Inv
<1>b. Mapped'
    BY Mapping, PTL
<1>c. pc \in [Handlers -> Lines] /\ accepted \in Nat /\ commands \in Seq(Nat) /\ Len(commands) \in Nat
    BY MaxCommandsAssumption DEF Inv, TypeOK, Commands
<1>d. ASSUME NEW h \in Handlers, Busy(h)
      PROVE  \A g \in Handlers : g # h => pc[g] = "idle"
    BY <1>a, <1>d DEF Alone, Busy
<1>1. ASSUME NEW h \in Handlers, DrivePwm(h)
      PROVE  Promise!Accept
  <2>1. accepted < MaxCommands /\ accepted' = accepted + 1 /\ commands' = Append(commands, accepted + 1)
    BY <1>1 DEF DrivePwm, AddCommand
  <2>2. Done' = Done
    BY <2>1, <1>c DEF Done
  <2>3. Launching = {} /\ Launching' = {}
    BY <1>1, <1>c DEF DrivePwm, NobodyBusy, Busy, Launching
  <2> QED
    BY <1>a, <1>b, <2>1, <2>2, <2>3 DEF Promise!Accept
<1>2. ASSUME NEW h \in Handlers, DriveDifferential(h) \/ Test(h) \/ Front(h)
      PROVE  UNCHANGED <<accepted, Done, Running>>
  <2>1. accepted' = accepted /\ Done' = Done
    BY <1>2 DEF DriveDifferential, Test, Front, Done
  <2>2. CASE DriveDifferential(h)
    <3>1. Launching' = Launching
      BY <1>c, <2>2 DEF DriveDifferential, Return, Launching
    <3>2. CASE Launching = {}
      BY <1>a, <1>b, <2>1, <3>1, <3>2
    <3>3. CASE Launching # {}
      BY <1>a, <1>b, <2>1, <3>1, <3>3
    <3> QED
      BY <3>2, <3>3
  <2>3. CASE Test(h) \/ Front(h)
    <3>1. \A g \in Handlers : g # h => pc[g] = "idle"
      BY <1>d, <2>3 DEF Test, Front, Busy
    <3>2. pc[h] \notin {"callback", "pop"} /\ pc'[h] \notin {"callback", "pop"}
      BY <1>c, <2>3 DEF Test, TestSize, Return, Front
    <3>3. \A g \in Handlers : g # h => pc'[g] = pc[g]
      BY <1>c, <2>3 DEF Test, TestSize, Return, Front
    <3>4. Launching = {} /\ Launching' = {}
      BY <3>1, <3>2, <3>3 DEF Launching
    <3> QED
      BY <1>a, <1>b, <2>1, <3>4
  <2> QED
    BY <1>2, <2>2, <2>3
<1>3. ASSUME NEW h \in Handlers, Execute(h)
      PROVE  Promise!Launch
  <2>1. accepted' = accepted /\ Done' = Done /\ commands # <<>>
    BY <1>3, <1>a DEF Execute, Done, Alone, AtFront
  <2>2. \A g \in Handlers : g # h => pc[g] = "idle"
    BY <1>3, <1>d DEF Execute, Busy
  <2>3. Launching = {} /\ h \in Launching'
    BY <1>3, <1>c, <2>2 DEF Execute, Launching
  <2> QED
    BY <1>a, <1>b, <2>1, <2>3 DEF Promise!Launch
<1>4. ASSUME NEW h \in Handlers, CallbackReturns(h)
      PROVE  UNCHANGED <<accepted, Done, Running>>
  <2>1. accepted' = accepted /\ Done' = Done
    BY <1>4 DEF CallbackReturns, Done
  <2>2. h \in Launching /\ h \in Launching'
    BY <1>4, <1>c DEF CallbackReturns, Launching
  <2> QED
    BY <1>a, <1>b, <2>1, <2>2
<1>5. ASSUME NEW h \in Handlers, CallbackThrows(h)
      PROVE  Promise!Abort
  <2>1. accepted' = accepted /\ Done' = Done
    BY <1>5 DEF CallbackThrows, Done
  <2>2. \A g \in Handlers : g # h => pc[g] = "idle"
    BY <1>5, <1>d DEF CallbackThrows, Busy
  <2>3. h \in Launching /\ Launching' = {}
    BY <1>5, <1>c, <2>2 DEF CallbackThrows, Return, Launching
  <2> QED
    BY <1>a, <1>b, <2>1, <2>3 DEF Promise!Abort
<1>6. ASSUME NEW h \in Handlers, Pop(h)
      PROVE  Promise!Finish
  <2>1. accepted' = accepted /\ commands # <<>> /\ commands' = Tail(commands)
    BY <1>6 DEF Pop, RemoveFront
  <2>2. Done' = Done + 1
    <3>1. Len(commands') = Len(commands) - 1
      BY <1>c, <2>1
    <3> QED
      BY <1>c, <2>1, <3>1 DEF Done
  <2>3. \A g \in Handlers : g # h => pc[g] = "idle"
    BY <1>6, <1>d DEF Pop, Busy
  <2>4. h \in Launching /\ Launching' = {}
    BY <1>6, <1>c, <2>3 DEF Pop, Launching
  <2> QED
    BY <1>a, <1>b, <2>1, <2>2, <2>4 DEF Promise!Finish
<1>7. ASSUME NEW h \in Handlers, Misuse(h)
      PROVE  FALSE
    BY <1>7, <1>0 DEF Misuse, Inv, Alone
<1>8. CASE UNCHANGED execVars
    BY <1>8 DEF execVars, Done, Running, Launching
<1> QED
    BY <1>1, <1>2, <1>3, <1>4, <1>5, <1>6, <1>7, <1>8
    DEF Next, CallStep, ExecStep, CallbackStep, Promise!Next

\* As long as calls do not overlap the executor keeps the promise its header
\* makes: commands are launched in order, one at a time, each to completion
\* before the next, and one whose launch failed is launched again first.
THEOREM Refinement == Spec => InOrder
<1>1. Init => Promise!Init
  <2> SUFFICES ASSUME Init PROVE Promise!Init
    OBVIOUS
  <2>1. Launching = {} /\ accepted = 0 /\ Len(commands) = 0
    BY DEF Init, Launching
  <2> QED
    BY <2>1 DEF Promise!Init, Promise!NoCommand, Done, Running
<1>2. ASSUME Inv, Inv', [Next]_execVars
      PROVE  [alone' => [Promise!Next]_Promise!vars]_execVars
    BY <1>2, StepRefines
<1> QED
    BY <1>1, <1>2, Invariance, PTL DEF Spec, InOrder
-----------------------------------------------------------------------------
(* What the modules that compose the executor with a chassis rely on.      *)

\* What a callback may rely on as long as calls do not overlap: it runs the
\* command after those that have left the queue, in one thread at a time.
LEMMA Guaranteed ==
    ASSUME Inv, alone
    PROVE  /\ accepted \in Nat /\ Done \in 0..accepted
           /\ commands = <<>> => Done = accepted
           /\ \A h \in Handlers : pc[h] \in {"execute", "callback", "pop"} =>
                  cmd[h] = Done + 1 /\ Done < accepted
           /\ \A g, h \in Handlers : pc[g] # "idle" /\ pc[h] # "idle" => g = h
<1>1. Mapped /\ Alone /\ accepted \in Nat
    BY Mapping, MaxCommandsAssumption DEF Inv, TypeOK
<1>2. ASSUME commands = <<>>
      PROVE  Done = accepted
    BY <1>1, <1>2 DEF Done
<1>3. ASSUME NEW h \in Handlers, pc[h] \in {"execute", "callback", "pop"}
      PROVE  cmd[h] = Done + 1 /\ Done < accepted
  <2>1. commands # <<>> /\ cmd[h] = Head(commands)
    BY <1>1, <1>3 DEF Alone, AtFront
  <2> QED
    BY <1>1, <2>1 DEF Mapped
<1>4. \A g, h \in Handlers : pc[g] # "idle" /\ pc[h] # "idle" => g = h
    BY <1>1 DEF Alone, Busy
<1>5. Done \in 0..accepted
    BY <1>1 DEF Mapped
<1> QED
    BY <1>1, <1>2, <1>3, <1>4, <1>5

\* What a call does to the queue and to its thread.
LEMMA CallEffect ==
    ASSUME Inv, NEW h \in Handlers, CallStep(h)
    PROVE  /\ pc'[h] \in {"idle", "test"}
           /\ \A g \in Handlers : g # h => pc'[g] = pc[g] /\ cmd'[g] = cmd[g]
           /\ accepted' \in {accepted, accepted + 1} /\ Done' = Done
<1>1. /\ pc \in [Handlers -> Lines] /\ cmd \in [Handlers -> 0..MaxCommands]
      /\ accepted \in Nat /\ commands \in Seq(Commands)
    BY MaxCommandsAssumption DEF Inv, TypeOK
<1>2. CASE DrivePwm(h)
  <2>1. /\ pc' = [pc EXCEPT ![h] = "test"] /\ cmd' = cmd
        /\ accepted' = accepted + 1 /\ commands' = Append(commands, accepted + 1)
    BY <1>2 DEF DrivePwm, AddCommand
  <2>2. Done' = Done
    <3>1. Len(commands') = Len(commands) + 1 /\ Len(commands) \in Nat
      BY <1>1, <2>1
    <3> QED
      BY <1>1, <2>1, <3>1 DEF Done
  <2> QED
    BY <1>1, <2>1, <2>2
<1>3. CASE DriveDifferential(h)
  <2>1. /\ pc' = [pc EXCEPT ![h] = "idle"] /\ cmd' = [cmd EXCEPT ![h] = NoCommand]
        /\ accepted' = accepted /\ commands' = commands
    BY <1>3 DEF DriveDifferential, Return
  <2> QED
    BY <1>1, <2>1 DEF Done
<1> QED
    BY <1>2, <1>3 DEF CallStep

\* What a statement of exec() does: it only goes on in its own thread, into the
\* callback from execute() alone, and pop() removes the command it has run.
LEMMA ExecEffect ==
    ASSUME Inv, NEW h \in Handlers, ExecStep(h), alone'
    PROVE  /\ accepted' = accepted
           /\ pc'[h] # "pop" /\ (pc'[h] = "callback" => pc[h] = "execute")
           /\ \A g \in Handlers : g # h => pc'[g] = pc[g] /\ cmd'[g] = cmd[g]
           /\ pc[h] # "pop" => Done' = Done
           /\ pc[h] = "pop" => Done' = Done + 1
<1>1. /\ pc \in [Handlers -> Lines] /\ cmd \in [Handlers -> 0..MaxCommands]
      /\ accepted \in Nat /\ commands \in Seq(Commands)
    BY MaxCommandsAssumption DEF Inv, TypeOK
<1>2. CASE Test(h)
  <2>1. /\ pc' \in {[pc EXCEPT ![h] = "idle"], [pc EXCEPT ![h] = "front"]} /\ pc[h] = "test"
        /\ cmd' \in {[cmd EXCEPT ![h] = NoCommand], cmd}
        /\ accepted' = accepted /\ commands' = commands
    BY <1>2 DEF Test, TestSize, Return
  <2> QED
    BY <1>1, <2>1 DEF Done
<1>3. CASE Front(h)
  <2>1. /\ pc' = [pc EXCEPT ![h] = "execute"] /\ cmd' = [cmd EXCEPT ![h] = Head(commands)]
        /\ accepted' = accepted /\ commands' = commands /\ pc[h] = "front"
    BY <1>3 DEF Front
  <2> QED
    BY <1>1, <2>1 DEF Done
<1>4. CASE Execute(h)
  <2>1. /\ pc' = [pc EXCEPT ![h] = "callback"] /\ cmd' = cmd
        /\ accepted' = accepted /\ commands' = commands /\ pc[h] = "execute"
    BY <1>4 DEF Execute
  <2> QED
    BY <1>1, <2>1 DEF Done
<1>5. CASE Pop(h)
  <2>1. /\ pc' = [pc EXCEPT ![h] = "test"] /\ cmd' = [cmd EXCEPT ![h] = NoCommand]
        /\ accepted' = accepted /\ commands # <<>> /\ commands' = Tail(commands)
        /\ pc[h] = "pop"
    BY <1>5 DEF Pop, RemoveFront
  <2>2. Done' = Done + 1
    <3>1. Len(commands') = Len(commands) - 1 /\ Len(commands) \in Nat
      BY <1>1, <2>1
    <3> QED
      BY <1>1, <2>1, <3>1 DEF Done
  <2> QED
    BY <1>1, <2>1, <2>2
<1>6. CASE Misuse(h)
  <2>1. [Next]_execVars /\ undefined'
    BY <1>6 DEF Next, Misuse, ExecStep
  <2>2. Inv'
    BY <2>1, NextInv
  <2> QED
    BY <2>1, <2>2 DEF Inv, Alone
<1> QED
    BY <1>2, <1>3, <1>4, <1>5, <1>6 DEF ExecStep
=============================================================================
