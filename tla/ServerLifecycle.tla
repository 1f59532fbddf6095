--------------------------- MODULE ServerLifecycle ---------------------------
(***************************************************************************)
(* Start and end of l1 (main.cpp, grpcserver.cpp): the main thread builds  *)
(* App, runs the io_service until SIGINT or SIGTERM, and destroys App; the *)
(* thread of GrpcServer builds the gRPC server and waits in it.            *)
(*                                                                         *)
(* The two share the pointer GrpcServer::server, without a lock.  A read   *)
(* that races its assignment sees the old value or the new one.  Using the *)
(* server when it is not there, or no longer, is undefined behaviour.      *)
(***************************************************************************)
EXTENDS Naturals

CONSTANT MaxCalls   \* bound on the calls under way at a time, a natural number

VARIABLES
    main,       \* where the main thread is
    thread,     \* where server_thread is
    signalled,  \* a signal has arrived and App has not served it
    model,      \* App::model: "none" before, "owned" while and "released" after
                \* it holds the chassis model
    server,     \* GrpcServer::server: "null", "serving", "stopping", "stopped"
                \* or "gone", once it has been reset
    calls,      \* calls the handler threads are in
    undefined

vars == <<main, thread, signalled, model, server, calls, undefined>>

MainLines == {"detect", "start", "run", "kill", "shutdown", "reset", "join", "exited"}
ThreadLines == {"none", "lock", "build", "wait", "waiting", "ended", "terminated"}

Init ==
    /\ main = "detect"
    /\ thread = "none"
    /\ signalled = FALSE
    /\ model = "none"
    /\ server = "null"
    /\ calls = 0
    /\ undefined = FALSE

MainAt(line) == ~undefined /\ thread # "terminated" /\ main = line
ThreadAt(line) == ~undefined /\ main # "exited" /\ thread = line

\* The signal_set exists from the first line on, and keeps what it catches.
Signal ==
    /\ main # "exited" /\ ~undefined
    /\ signalled' = TRUE
    /\ UNCHANGED <<main, thread, model, server, calls, undefined>>

-----------------------------------------------------------------------------
(* The main thread.                                                        *)

\* detect_serials() and the model's constructor return, or throw
Detect ==
    /\ MainAt("detect")
    /\ \/ main' = "start" /\ model' = "owned"
       \/ main' = "exited" /\ UNCHANGED model
    /\ UNCHANGED <<thread, signalled, server, calls, undefined>>

\* make_unique<GrpcServer>(model), whose constructor starts the thread
StartServer ==
    /\ MainAt("start")
    /\ main' = "run"
    /\ thread' = "lock"
    /\ UNCHANGED <<signalled, model, server, calls, undefined>>

\* Faults of the definitions below: the model released before the server, a
\* destructor that joins without kill(), and release() for reset(): a server
\* that is never destroyed.
ModelFirst == model' = "released"
SkipKill ==
    /\ MainAt("kill")
    /\ main' = "join"
    /\ UNCHANGED <<thread, signalled, model, server, calls, undefined>>

ResetLeaks ==
    /\ MainAt("reset")
    /\ server' = "leaked"
    /\ main' = "join"
    /\ UNCHANGED <<thread, signalled, model, calls, undefined>>

\* What the destruction of App has released when ~GrpcServer is called
BeforeServer == UNCHANGED model

\* handle_signal stops the io_service, run() returns and ~App begins
ServeSignal ==
    /\ MainAt("run")
    /\ signalled
    /\ signalled' = FALSE
    /\ main' = "kill"
    /\ BeforeServer
    /\ UNCHANGED <<thread, server, calls, undefined>>

\* kill(): if (server), the test
TestServer ==
    /\ MainAt("kill")
    /\ main' = IF server = "null" THEN "join" ELSE "shutdown"
    /\ UNCHANGED <<thread, signalled, model, server, calls, undefined>>

\* server->Shutdown(): no more calls are taken ...
Shutdown ==
    /\ MainAt("shutdown")
    /\ server = "serving"
    /\ server' = "stopping"
    /\ UNCHANGED <<main, thread, signalled, model, calls, undefined>>

\* ... and those under way are waited for
ShutdownEnds ==
    /\ MainAt("shutdown")
    /\ server = "stopping"
    /\ calls = 0
    /\ server' = "stopped"
    /\ main' = "reset"
    /\ UNCHANGED <<thread, signalled, model, calls, undefined>>

\* server.reset() destroys the server
Reset ==
    /\ MainAt("reset")
    /\ server' = "gone"
    /\ main' = "join"
    /\ UNCHANGED <<thread, signalled, model, calls, undefined>>

\* server_thread.join(), and the rest of App is destroyed
Join ==
    /\ MainAt("join")
    /\ thread = "ended"
    /\ main' = "exited"
    /\ model' = "released"
    /\ UNCHANGED <<thread, signalled, server, calls, undefined>>

-----------------------------------------------------------------------------
(* server_thread: GrpcServer::run.                                         *)

\* What run() holds from model.lock() until it returns: sh_model, which keeps
\* the chassis model alive whatever App has released, and the service.
InRun == thread \in {"build", "wait", "waiting"}

ModelAlive == model = "owned" \/ InRun

\* model.lock() of the weak pointer; an exception would terminate the process
LockModel ==
    /\ ThreadAt("lock")
    /\ thread' = IF ModelAlive THEN "build" ELSE "terminated"
    /\ UNCHANGED <<main, signalled, model, server, calls, undefined>>

\* BuildAndStart(), which returns null if the port is taken, and the
\* assignment to server
Build ==
    /\ ThreadAt("build")
    /\ server' \in {"serving", "null"}
    /\ thread' = "wait"
    /\ UNCHANGED <<main, signalled, model, calls, undefined>>

\* server->Wait() begins ...
Wait ==
    /\ ThreadAt("wait")
    /\ server \notin {"null", "gone"}
    /\ thread' = "waiting"
    /\ UNCHANGED <<main, signalled, model, server, calls, undefined>>

\* ... and returns when the shutdown is complete; the service is destroyed
WaitReturns ==
    /\ ThreadAt("waiting")
    /\ server = "stopped"
    /\ thread' = "ended"
    /\ UNCHANGED <<main, signalled, model, server, calls, undefined>>

\* Wait() of a server that is null, or that reset() has destroyed
WaitOnNothing ==
    /\ \/ ThreadAt("wait") /\ server \in {"null", "gone"}
       \/ ThreadAt("waiting") /\ server = "gone"
    /\ undefined' = TRUE
    /\ UNCHANGED <<main, thread, signalled, model, server, calls>>

-----------------------------------------------------------------------------
(* The handler threads of the gRPC server.                                 *)

CallBegins ==
    /\ ~undefined
    /\ server = "serving"
    /\ calls < MaxCalls
    /\ calls' = calls + 1
    /\ UNCHANGED <<main, thread, signalled, model, server, undefined>>

CallEnds ==
    /\ ~undefined
    /\ calls > 0
    /\ calls' = calls - 1
    /\ UNCHANGED <<main, thread, signalled, model, server, undefined>>

-----------------------------------------------------------------------------
MainStep ==
    \/ Detect \/ StartServer \/ ServeSignal
    \/ TestServer \/ Shutdown \/ ShutdownEnds \/ Reset \/ Join
ThreadStep == LockModel \/ Build \/ Wait \/ WaitReturns \/ WaitOnNothing

Next == Signal \/ MainStep \/ ThreadStep \/ CallBegins \/ CallEnds

\* Threads run, and calls come to their end.
Fairness == WF_vars(MainStep) /\ WF_vars(ThreadStep) /\ WF_vars(CallEnds)

Spec == Init /\ [][Next]_vars /\ Fairness

-----------------------------------------------------------------------------
(* Properties.                                                             *)

\* Every variable has its type.
TypeOK ==
    /\ main \in MainLines
    /\ thread \in ThreadLines
    /\ signalled \in BOOLEAN
    /\ model \in {"none", "owned", "released"}
    /\ server \in {"null", "serving", "stopping", "stopped", "gone"}
    /\ calls \in 0..MaxCalls
    /\ undefined \in BOOLEAN

\* Whenever the signal comes, the thread finds the model it was started for,
\* and a call that is under way finds the service it is in, and with it the
\* chassis model, which run() holds until it returns: ~GrpcServer comes before
\* the rest of App and ends the calls before the thread.
ModelOutlivesCalls ==
    /\ thread # "terminated"
    /\ calls > 0 => InRun /\ ModelAlive

\* A signal that finds the server waiting ends the process, unless the reset
\* of the server races the thread that waits in it.
SignalEnds ==
    (main = "kill" /\ thread = "waiting") ~> (main = "exited" \/ undefined)

-----------------------------------------------------------------------------
(* The inductive invariant behind ModelOutlivesCalls.                      *)

\* App owns the model from its construction until it is destroyed.
AppOwns ==
    main \in {"start", "run", "kill", "shutdown", "reset", "join"} => model = "owned"

\* The thread starts with the server object, and the process is left before
\* it has started or after it has ended.
ThreadLife ==
    /\ main \in {"detect", "start"} => thread = "none"
    /\ main = "exited" => thread \in {"none", "ended"}
    /\ thread # "terminated"

\* The server is null until the thread has built it; it is kill() alone that
\* stops and then resets it.
ServerLife ==
    /\ thread \in {"none", "lock", "build"} => server = "null"
    /\ thread = "ended" => server \in {"stopped", "gone"}
    /\ main \in {"detect", "start", "run", "kill"} => server \in {"null", "serving"}
    /\ main = "shutdown" => server \in {"serving", "stopping"}
    /\ main = "reset" => server = "stopped"

\* A server that has not started, or has stopped, is in no call.
NoCalls == server \in {"null", "stopped", "gone"} => calls = 0

Inv == TypeOK /\ AppOwns /\ ThreadLife /\ ServerLife /\ NoCalls

-----------------------------------------------------------------------------
(* What the documentation says and the code does not keep.                 *)

\* kill() stops the gRPC server: from then on it serves nobody, so that the
\* thread can be joined.
KillStops == main = "join" => server # "serving"
=============================================================================
