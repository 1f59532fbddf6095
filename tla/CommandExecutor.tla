--------------------------- MODULE CommandExecutor ---------------------------
(***************************************************************************)
(* The drive path of l1: gRPC handler threads register commands with the   *)
(* SequentialCommandExecutor and run its exec() loop                       *)
(* (rpc/chassisserviceimpl.cpp, rpc/grpcchassiscontroller.cpp,             *)
(* commands/sequentialcommandexecutor.cpp).                                *)
(*                                                                         *)
(* The synchronous gRPC server calls a handler on any thread of its pool,  *)
(* and the executor's std::queue has no lock, so every statement of exec() *)
(* that touches the queue is a step of its own.  One queue operation is    *)
(* taken to be atomic, which is the kindest reading of that data race.     *)
(*                                                                         *)
(* A command is the number it got when it was registered: the queue copies *)
(* the payload and never looks at it.  Reading an element the queue does   *)
(* not hold is undefined behaviour; it leads to `undefined', after which   *)
(* nothing is claimed.                                                     *)
(***************************************************************************)
EXTENDS Naturals, Sequences

CONSTANTS
    Handlers,       \* threads of the gRPC server's pool
    MayOverlap,     \* FALSE: every call comes from one l2 station, which makes
                    \* one call at a time (a mutex), and a handler is done
                    \* before its caller calls again; TRUE: a second station
                    \* may call, or one whose connection broke meanwhile
    MaxCommands     \* bound on the number of commands registered

ASSUME MayOverlapAssumption == MayOverlap \in BOOLEAN
ASSUME MaxCommandsAssumption == MaxCommands \in Nat

NoCommand == 0

VARIABLES
    commands,   \* the std::queue, oldest first
    accepted,   \* number of commands registered so far
    pc,         \* pc[h]: where handler h is in exec(), or "idle"
    cmd,        \* cmd[h]: the command exec()'s reference `cmd' denotes
    own,        \* own[h]: the command h's latest call registered
    status,     \* status[h]: the grpc::Status h's latest call ended with
    delivered,  \* history: the commands the callback has accepted
    undefined,  \* the process has executed undefined behaviour
    alone       \* history: no drive call has begun while another was handled

execVars == <<commands, accepted, pc, cmd, own, status, delivered, undefined, alone>>

Commands == 1..MaxCommands
Queued == {commands[i] : i \in 1..Len(commands)}
Lines == {"idle", "test", "front", "execute", "callback", "pop"}

Init ==
    /\ commands = <<>>
    /\ accepted = 0
    /\ pc = [h \in Handlers |-> "idle"]
    /\ cmd = [h \in Handlers |-> NoCommand]
    /\ own = [h \in Handlers |-> NoCommand]
    /\ status = [h \in Handlers |-> "none"]
    /\ delivered = {}
    /\ undefined = FALSE
    /\ alone = TRUE

-----------------------------------------------------------------------------
(* Calls.                                                                  *)

Busy(h) == pc[h] # "idle"

\* Handler h is at a line of exec(), in a process that is still well defined.
At(h, line) == ~undefined /\ pc[h] = line

NobodyBusy == \A g \in Handlers : ~Busy(g)
StationReady == NobodyBusy \/ MayOverlap

\* Faults of the two definitions below: the queue used as a stack, and a
\* moved-from pointer pushed in place of the command.
AddCommandInFront(c) == commands' = <<c>> \o commands
AddNothing(c) == commands' = Append(commands, NoCommand)

AddCommand(c) == commands' = Append(commands, c)

\* The handler thread leaves the call; an exception that escapes from the
\* handler is turned into UNKNOWN by gRPC.
Return(h, s) ==
    /\ pc' = [pc EXCEPT ![h] = "idle"]
    /\ cmd' = [cmd EXCEPT ![h] = NoCommand]
    /\ status' = [status EXCEPT ![h] = s]

DrivePwm(h) ==
    /\ At(h, "idle")
    /\ StationReady
    /\ accepted < MaxCommands
    /\ AddCommand(accepted + 1)
    /\ accepted' = accepted + 1
    /\ own' = [own EXCEPT ![h] = accepted + 1]
    /\ status' = [status EXCEPT ![h] = "none"]
    /\ pc' = [pc EXCEPT ![h] = "test"]
    /\ alone' = (alone /\ NobodyBusy)
    /\ UNCHANGED <<cmd, delivered, undefined>>

\* The visitor throws "Not implemented" before anything is registered.
DriveDifferential(h) ==
    /\ At(h, "idle")
    /\ StationReady
    /\ Return(h, "UNKNOWN")
    /\ own' = [own EXCEPT ![h] = NoCommand]
    /\ UNCHANGED <<commands, accepted, delivered, undefined, alone>>

-----------------------------------------------------------------------------
(* The statements of exec().                                               *)

\* Faults of the definitions below: a do-while loop, an answer without notify(),
\* a pop() that is missing, one that also runs when the callback throws, and an
\* exception that is swallowed.
DoWhile(h) == pc' = [pc EXCEPT ![h] = "front"] /\ UNCHANGED <<cmd, status>>
ReplyAtOnce(h) == Return(h, "OK")
RemoveNothing == commands' = commands
ThrowAndPop(h) ==
    /\ At(h, "callback")
    /\ commands' = Tail(commands)
    /\ Return(h, "UNKNOWN")
    /\ UNCHANGED <<accepted, own, delivered, undefined, alone>>
SwallowException(h) ==
    /\ At(h, "callback")
    /\ Return(h, "OK")
    /\ UNCHANGED <<commands, accepted, own, delivered, undefined, alone>>

\* while (commands.size()): the call is over once the queue is empty.
TestSize(h) ==
    IF commands = <<>>
    THEN Return(h, "OK")
    ELSE pc' = [pc EXCEPT ![h] = "front"] /\ UNCHANGED <<cmd, status>>

Test(h) ==
    /\ At(h, "test")
    /\ TestSize(h)
    /\ UNCHANGED <<commands, accepted, own, delivered, undefined, alone>>

\* auto &cmd = commands.front()
Front(h) ==
    /\ At(h, "front")
    /\ commands # <<>>
    /\ cmd' = [cmd EXCEPT ![h] = Head(commands)]
    /\ pc' = [pc EXCEPT ![h] = "execute"]
    /\ UNCHANGED <<commands, accepted, own, status, delivered, undefined, alone>>

\* auto result = cmd->execute(), while the queue still owns the command
Execute(h) ==
    /\ At(h, "execute")
    /\ cmd[h] \in Queued
    /\ pc' = [pc EXCEPT ![h] = "callback"]
    /\ UNCHANGED <<commands, accepted, cmd, own, status, delivered, undefined, alone>>

\* callback(std::move(result)) comes back
CallbackReturns(h) ==
    /\ At(h, "callback")
    /\ delivered' = delivered \cup {cmd[h]}
    /\ pc' = [pc EXCEPT ![h] = "pop"]
    /\ UNCHANGED <<commands, accepted, cmd, own, status, undefined, alone>>

\* The callback throws (a serial write failed): the loop is left without
\* commands.pop(), so the command stays for the next exec() to launch again.
CallbackThrows(h) ==
    /\ At(h, "callback")
    /\ Return(h, "UNKNOWN")
    /\ UNCHANGED <<commands, accepted, own, delivered, undefined, alone>>

RemoveFront == commands' = Tail(commands)

\* commands.pop()
Pop(h) ==
    /\ At(h, "pop")
    /\ commands # <<>>
    /\ RemoveFront
    /\ pc' = [pc EXCEPT ![h] = "test"]
    /\ cmd' = [cmd EXCEPT ![h] = NoCommand]
    /\ UNCHANGED <<accepted, own, status, delivered, undefined, alone>>

\* front() or pop() on an empty queue, or execute() on a command another
\* handler has popped and so freed
Misuse(h) ==
    /\ \/ (At(h, "front") \/ At(h, "pop")) /\ commands = <<>>
       \/ At(h, "execute") /\ cmd[h] \notin Queued
    /\ undefined' = TRUE
    /\ UNCHANGED <<commands, accepted, pc, cmd, own, status, delivered, alone>>

-----------------------------------------------------------------------------
\* The steps of exec() outside the callback.
ExecStep(h) == Test(h) \/ Front(h) \/ Execute(h) \/ Pop(h) \/ Misuse(h)

CallStep(h) == DrivePwm(h) \/ DriveDifferential(h)

CallbackStep(h) == CallbackReturns(h) \/ CallbackThrows(h)

Next == \E h \in Handlers : CallStep(h) \/ ExecStep(h) \/ CallbackStep(h)

\* A handler thread runs until its call is over: the serial write inside the
\* callback is synchronous and needs nothing from any other thread.
Fairness == \A h \in Handlers : WF_execVars(ExecStep(h) \/ CallbackStep(h))

Spec == Init /\ [][Next]_execVars /\ Fairness

-----------------------------------------------------------------------------
(* Properties.                                                             *)

\* Every variable has its type.
TypeOK ==
    /\ commands \in Seq(Commands)
    /\ accepted \in 0..MaxCommands
    /\ pc \in [Handlers -> Lines]
    /\ cmd \in [Handlers -> 0..MaxCommands]
    /\ own \in [Handlers -> 0..MaxCommands]
    /\ status \in [Handlers -> {"none", "OK", "UNKNOWN"}]
    /\ delivered \subseteq 0..MaxCommands
    /\ undefined \in BOOLEAN
    /\ alone \in BOOLEAN

\* The commands that have left the queue.
Gone == 1..(accepted - Len(commands))

\* As long as calls do not overlap no command is dropped without having been
\* launched to completion, failed ones included: pop() removes the element the
\* same iteration executed, although it names no element.
NoneSkipped == alone => Gone \subseteq delivered

\* ... no statement of exec() touches an element the queue no longer holds,
NoMisuse == alone => ~undefined

\* ... and a drive call answered OK has delivered its own command to the wheels.
OkMeansDelivered ==
    alone => \A h \in Handlers : status[h] = "OK" => own[h] \in delivered

\* However calls overlap, a drive call answered OK has seen its own command
\* leave the queue, even when another handler launched it.
OkMeansGone == \A h \in Handlers : status[h] = "OK" => own[h] \in Gone

\* The refinement mapping to SequentialExecution.
Launching == {h \in Handlers : pc[h] \in {"callback", "pop"}}
Done == accepted - Len(commands)
Running == IF Launching = {} THEN NoCommand ELSE cmd[CHOOSE h \in Launching : TRUE]

Promise == INSTANCE SequentialExecution WITH done <- Done, running <- Running

\* As long as calls do not overlap commands are launched in the order they
\* were registered, one at a time, and never again once done; a failed one
\* before any younger one.
InOrder == Promise!Init /\ [][alone' => [Promise!Next]_(Promise!vars)]_execVars

\* As long as calls do not overlap every call is answered: exec() drains the
\* queue or is left by an exception.
CallsReturn == \A h \in Handlers : Busy(h) ~> ~Busy(h) \/ ~alone

\* What l1/src/commands/sequentialcommandexecutor.h says whoever calls: "all
\* registered commands shall be launched one by one".
AllLaunched == Gone \subseteq delivered

-----------------------------------------------------------------------------
(* The inductive invariant behind these properties.                        *)

\* The queue holds the latest registered commands, oldest first.
QueueIsRecent ==
    /\ Len(commands) <= accepted
    /\ \A i \in 1..Len(commands) : commands[i] = accepted - Len(commands) + i

\* A call under way has registered its command.
OwnRegistered == \A h \in Handlers : Busy(h) => own[h] \in 1..accepted

\* A handler past the loop's test still has an element in front of it, and
\* past front() it is the one its reference denotes.
AtFront(h) ==
    /\ pc[h] \in {"front", "execute", "callback", "pop"} => commands # <<>>
    /\ pc[h] \in {"execute", "callback", "pop"} => cmd[h] = Head(commands)
    /\ pc[h] = "pop" => cmd[h] \in delivered

\* At most one handler is in exec(), and so nothing goes wrong.
Alone ==
    /\ \A g, h \in Handlers : Busy(g) /\ Busy(h) => g = h
    /\ \A h \in Handlers : AtFront(h)
    /\ Gone \subseteq delivered
    /\ ~undefined

Inv ==
    /\ TypeOK
    /\ QueueIsRecent
    /\ OwnRegistered
    /\ OkMeansGone
    /\ alone => Alone
=============================================================================
