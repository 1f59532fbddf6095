------------------------------- MODULE Camera -------------------------------
(***************************************************************************)
(* The camera switch: the station's button (l2 appengine.cpp,              *)
(* grpcclient.h) and the child process of l1 that streams the picture      *)
(* (rpc/chassisserviceimpl.cpp).                                           *)
(*                                                                         *)
(* The button always asks for ENABLED; l1 toggles.  The process may exit   *)
(* by itself.  A connection may break: the station takes that for          *)
(* DISABLED and may call again while the handler of the broken call still  *)
(* runs, as a second station may.  rpiCam is a unique_ptr that the handler *)
(* threads share.  The callback runs after the station's mutex is free, so *)
(* that the pool's threads may apply their replies in any order, and at    *)
(* the same time: the flag they compare and assign has no lock.  The       *)
(* signal they emit is left out: all that receives it is a log             *)
(* (RoverAction.qml).                                                      *)
(***************************************************************************)
EXTENDS Naturals, FiniteSets

CONSTANTS
    Handlers,   \* threads of l1 that serve startPeripheralDevice
    Threads,    \* the pool of the station's GrpcClient, not empty
    NoHandler   \* none of Handlers

VARIABLES
    rpiCam,     \* what the unique_ptr owns: "null", "running" or "exited"
    spare,      \* processes launched and not yet owned by rpiCam
    pc,         \* pc[h]: where handler h is
    reply,      \* reply[h]: the status it answers with
    waiting,    \* the handler whose reply the station waits for, mutex held
    held,       \* held[t]: the reply that pool thread t has yet to apply
    compared,   \* threads whose callback has found m_cameraEnabled different
                \* from their reply, and has yet to assign it
    latest,     \* the thread that got the latest reply
    enabled,    \* m_cameraEnabled of the station
    known,      \* history: the reply applied last is the latest, and was not
                \* lost
    quiet,      \* history: no camera has exited since a handler decided on its
                \* answer
    undefined,
    alone       \* history: no call has begun while another was handled

serverVars == <<rpiCam, spare, pc, reply, quiet, undefined>>
stationVars == <<waiting, held, compared, latest, enabled, known, alone>>
vars == <<serverVars, stationVars>>

Init ==
    /\ rpiCam = "null"
    /\ spare = {}
    /\ pc = [h \in Handlers |-> "idle"]
    /\ reply = [h \in Handlers |-> "UNDEFINED"]
    /\ waiting = NoHandler
    /\ held = [t \in Threads |-> "none"]
    /\ compared = {}
    /\ latest \in Threads
    /\ enabled \in BOOLEAN      \* m_cameraEnabled is not initialised
    /\ known = FALSE
    /\ quiet = TRUE
    /\ undefined = FALSE
    /\ alone = TRUE

At(h, line) == ~undefined /\ pc[h] = line
Goto(h, line) == pc' = [pc EXCEPT ![h] = line]

NobodyBusy == \A h \in Handlers : pc[h] = "idle"

\* The script ends, or fails, by itself.
CameraExits ==
    /\ rpiCam = "running"
    /\ rpiCam' = "exited"
    /\ quiet' = FALSE
    /\ UNCHANGED <<spare, pc, reply, undefined, stationVars>>

-----------------------------------------------------------------------------
(* startPeripheralDevice.                                                  *)

\* Faults of the definitions below: no test, and a process that is killed and
\* never reaped.
NoTest == TRUE
Zombie == rpiCam' = "zombie"

\* !rpiCam || !rpiCam->running()
Off == rpiCam # "running"

Test(h) ==
    /\ At(h, "test")
    /\ Goto(h, IF Off THEN "launch" ELSE "kill")
    /\ UNCHANGED <<rpiCam, spare, reply, quiet, undefined>>

\* make_unique<child>: the process is started ...
Launch(h) ==
    /\ At(h, "launch")
    /\ spare' = spare \cup {h}
    /\ Goto(h, "own")
    /\ UNCHANGED <<rpiCam, reply, quiet, undefined>>

\* ... and owned by rpiCam; a process it owned before is terminated
Own(h) ==
    /\ At(h, "own")
    /\ spare' = spare \ {h}
    /\ rpiCam' = "running"
    /\ Goto(h, "status")
    /\ UNCHANGED <<reply, quiet, undefined>>

\* rpiCam->running(), for the reply; undefined if another handler has reset
\* rpiCam meanwhile
Status(h) ==
    /\ At(h, "status")
    /\ reply' = [reply EXCEPT ![h] = IF rpiCam = "running" THEN "ENABLED" ELSE "DISABLED"]
    /\ undefined' = (rpiCam = "null")
    /\ quiet' = TRUE
    /\ Goto(h, "reply")
    /\ UNCHANGED <<rpiCam, spare>>

Terminate == rpiCam' = "null"

\* Fault of the definition below: the answer of the other branch.
KillSaysEnabled(h) ==
    /\ At(h, "kill")
    /\ Terminate
    /\ reply' = [reply EXCEPT ![h] = "ENABLED"]
    /\ quiet' = TRUE
    /\ Goto(h, "reply")
    /\ UNCHANGED <<spare, undefined>>

\* rpiCam.reset()
Kill(h) ==
    /\ At(h, "kill")
    /\ Terminate
    /\ reply' = [reply EXCEPT ![h] = "DISABLED"]
    /\ quiet' = TRUE
    /\ Goto(h, "reply")
    /\ UNCHANGED <<spare, undefined>>

\* Nobody waits for the reply any more.
ReplyDropped(h) ==
    /\ At(h, "reply")
    /\ waiting # h
    /\ Goto(h, "idle")
    /\ UNCHANGED <<rpiCam, spare, reply, quiet, undefined>>

-----------------------------------------------------------------------------
(* The station.                                                            *)

\* A click, taken by a pool thread: enableCamera() calls the rover.
EnableCamera(h) ==
    /\ At(h, "idle")
    /\ waiting = NoHandler
    /\ \E t \in Threads : held[t] = "none"
    /\ waiting' = h
    /\ Goto(h, "test")
    /\ reply' = [reply EXCEPT ![h] = "UNDEFINED"]
    /\ alone' = (alone /\ NobodyBusy)
    /\ UNCHANGED <<rpiCam, spare, quiet, undefined, held, compared, latest, enabled, known>>

\* The call is over and its mutex free; the callback is still to come.
CallReturns(t, status) ==
    /\ held[t] = "none"
    /\ held' = [held EXCEPT ![t] = status]
    /\ latest' = t
    /\ known' = FALSE
    /\ waiting' = NoHandler
    /\ UNCHANGED <<compared, enabled, alone>>

ReplyArrives(h, t) ==
    /\ At(h, "reply")
    /\ waiting = h
    /\ CallReturns(t, reply[h])
    /\ Goto(h, "idle")
    /\ UNCHANGED <<rpiCam, spare, reply, quiet, undefined>>

\* The connection breaks, before the request arrives or at any time later; the
\* response is a default one, whose status is UNDEFINED.
CallFails(h, t) ==
    /\ ~undefined
    /\ waiting = h
    /\ CallReturns(t, "UNDEFINED")
    /\ \/ UNCHANGED pc
       \/ At(h, "test") /\ Goto(h, "idle")
    /\ UNCHANGED <<rpiCam, spare, reply, quiet, undefined>>

\* The reply of thread t has been applied to the flag.
Applied(t) ==
    /\ held' = [held EXCEPT ![t] = "none"]
    /\ known' = (t = latest /\ held[t] # "UNDEFINED")

\* The callback: setCameraEnabled(status == ENABLED) returns early if that is
\* what m_cameraEnabled already says ...
Compare(t) ==
    /\ ~undefined
    /\ held[t] # "none" /\ t \notin compared
    /\ IF enabled = (held[t] = "ENABLED")
       THEN Applied(t) /\ UNCHANGED compared
       ELSE compared' = compared \cup {t} /\ UNCHANGED <<held, known>>
    /\ UNCHANGED <<serverVars, waiting, latest, enabled, alone>>

\* ... and assigns it otherwise.  What follows, the sleep and the player, only
\* keeps the thread busy for a while.
Assign(t) ==
    /\ ~undefined
    /\ t \in compared
    /\ enabled' = (held[t] = "ENABLED")
    /\ compared' = compared \ {t}
    /\ Applied(t)
    /\ UNCHANGED <<serverVars, waiting, latest, alone>>

-----------------------------------------------------------------------------
Handler(h) ==
    /\ Test(h) \/ Launch(h) \/ Own(h) \/ Status(h) \/ Kill(h) \/ ReplyDropped(h)
    /\ UNCHANGED stationVars

Next ==
    \/ CameraExits
    \/ \E h \in Handlers : Handler(h) \/ EnableCamera(h)
    \/ \E t \in Threads :
        \/ \E h \in Handlers : ReplyArrives(h, t) \/ CallFails(h, t)
        \/ Compare(t) \/ Assign(t)

Spec == Init /\ [][Next]_vars

-----------------------------------------------------------------------------
(* Properties.                                                             *)

\* Every variable has its type.
TypeOK ==
    /\ rpiCam \in {"null", "running", "exited"}
    /\ spare \subseteq Handlers
    /\ pc \in [Handlers -> {"idle", "test", "launch", "own", "status", "kill", "reply"}]
    /\ reply \in [Handlers -> {"UNDEFINED", "ENABLED", "DISABLED"}]
    /\ waiting \in Handlers \cup {NoHandler}
    /\ held \in [Threads -> {"none", "UNDEFINED", "ENABLED", "DISABLED"}]
    /\ compared \subseteq Threads
    /\ latest \in Threads
    /\ enabled \in BOOLEAN
    /\ known \in BOOLEAN
    /\ quiet \in BOOLEAN
    /\ undefined \in BOOLEAN
    /\ alone \in BOOLEAN

\* As long as calls do not overlap: a station that was answered, and applied
\* that answer last, knows whether the camera is running, unless it has exited
\* since the rover answered, so that the next click does what it expects.  What
\* m_cameraEnabled held at first, the replies lost before and the order in which
\* earlier callbacks ran do not matter.
StationKnows ==
    NobodyBusy /\ alone /\ known /\ quiet => (enabled <=> rpiCam = "running")

\* As long as calls do not overlap no second process is started on the camera
\* while one is running, and no handler uses a child process that another has
\* destroyed.
OneCamera ==
    alone =>
        /\ Cardinality(spare) + (IF rpiCam = "running" THEN 1 ELSE 0) <= 1
        /\ ~undefined

-----------------------------------------------------------------------------
(* The inductive invariant behind these properties.                        *)

\* The call the station waits for is being handled.
WaitingBusy == \A h \in Handlers : waiting = h => pc[h] # "idle"

\* One call at a time is handled.
OneCaller ==
    \A g, h \in Handlers : pc[g] # "idle" /\ pc[h] # "idle" => g = h

\* A process that rpiCam does not own yet belongs to the call that started it.
SpareOwner == \A h \in Handlers : h \in spare <=> pc[h] = "own"

\* What a call knows of rpiCam at each of its lines: no other call changes it,
\* and by itself a camera can only exit.
CallKnows ==
    \A h \in Handlers :
        /\ pc[h] \in {"launch", "own"} => rpiCam # "running"
        /\ pc[h] = "status" => rpiCam # "null"
        /\ pc[h] = "reply" /\ reply[h] # "ENABLED" => rpiCam # "running"
        /\ pc[h] = "reply" /\ reply[h] = "ENABLED" /\ quiet => rpiCam = "running"

CallsInv == OneCaller /\ SpareOwner /\ CallKnows /\ ~undefined

\* The latest reply, as long as it is not applied, tells the truth unless the
\* camera has exited since.  While the handler of a broken call still runs, the
\* latest reply is the default one, which lets the station know nothing.
ReplyKnows ==
    /\ NobodyBusy /\ quiet /\ held[latest] \in {"ENABLED", "DISABLED"} =>
        (held[latest] = "ENABLED" <=> rpiCam = "running")
    /\ ~NobodyBusy /\ waiting = NoHandler =>
        ~known /\ held[latest] \in {"UNDEFINED", "none"}

\* A callback that has compared still has its reply, and it is the latest one,
\* not yet applied, that waits in its thread.
CallbackHolds ==
    /\ \A t \in compared : held[t] # "none"
    /\ known => held[latest] = "none"

Inv ==
    /\ TypeOK /\ WaitingBusy /\ CallbackHolds /\ StationKnows
    /\ alone => CallsInv /\ ReplyKnows

-----------------------------------------------------------------------------
(* What the documentation says and the code does not keep.                 *)

\* Receipt of the command to share the camera starts the stream: when the
\* call is answered there is a process, even if it has exited since.
EnableStarts == \A h \in Handlers : pc[h] = "reply" => rpiCam # "null"
=============================================================================
