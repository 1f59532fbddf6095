---------------------------- MODULE RemoteStation ----------------------------
(***************************************************************************)
(* The base station l2 (appengine.cpp, grpcclient.h): timers of the Qt     *)
(* thread post calls to a pool of threads, which make them one at a time   *)
(* under a mutex.  Closing it joins the pool.                              *)
(*                                                                         *)
(* No call has a deadline or is retried: a failed one is forgotten, and    *)
(* the next tick sends the position of the stick again.  The rover is      *)
(* here the PWM one of its wheels was last told, and the commands l1 keeps *)
(* to launch again because a serial write failed (CommandExecutor).        *)
(*                                                                         *)
(* A call whose connection is lost ends at once or hangs, and the mutex    *)
(* with it; l1's handler of it may still run, later than other calls and   *)
(* beside them.                                                            *)
(***************************************************************************)
EXTENDS Integers, Sequences, FiniteSets

CONSTANTS
    Threads,    \* the threads of th_pool
    Positions,  \* positions of the stick, in percent of its way
    MaxJobs,    \* bound on the jobs waiting for a thread
    MaxLeft,    \* bound on the commands l1 keeps
    MaxLate,    \* bound on the handlers of l1 whose call is lost
    MaxTicks    \* ticks are numbered up to here; all later ones share it

ASSUME StationAssumption ==
    /\ IsFiniteSet(Threads) /\ Threads # {}
    /\ Positions \subseteq -100..100 /\ 0 \in Positions
    /\ MaxJobs \in Nat /\ MaxTicks \in Nat
    /\ MaxLeft \in Nat /\ MaxLate \in Nat

VARIABLES
    stick,      \* where the operator holds the stick
    ticks,      \* number of gamepad ticks
    jobs,       \* the queue of th_pool, oldest first
    worker,     \* worker[t]: "idle", "lock", "call", "hung" or "callback"
    job,        \* job[t]: what thread t is working on
    left,       \* the PWMs in l1's queue between calls, oldest first
    late,       \* the PWMs of the drive calls that are lost and whose handler in
                \* l1 runs on
    rover,      \* the PWM the wheel was told last
    latest,     \* the youngest tick l1 has heard of
    app         \* "running", "closing" (~AppEngine) or "closed"

roverVars == <<left, late, rover, latest>>
poolVars == <<jobs, worker, job>>
vars == <<stick, ticks, poolVars, roverVars, app>>

NoJob == [kind |-> "none", tick |-> 0, pwm |-> 0]
Query == [NoJob EXCEPT !.kind = "query"]    \* telemetry or the camera button
Drive(n, pwm) == [kind |-> "drive", tick |-> n, pwm |-> pwm]

Init ==
    /\ stick = 0
    /\ ticks = 0
    /\ jobs = <<>>
    /\ worker = [t \in Threads |-> "idle"]
    /\ job = [t \in Threads |-> NoJob]
    /\ left = <<>>
    /\ late = <<>>
    /\ rover = 0
    /\ latest = 0
    /\ app = "running"

-----------------------------------------------------------------------------
(* The Qt thread.                                                          *)

DeadZone == 10

\* Fault of the definition below: 256 steps taken for the largest of them.
Pwm256(x) ==
    IF x \in -DeadZone..DeadZone THEN 0
    ELSE IF x > 0 THEN -((256 * x) \div 100) ELSE (256 * (-x)) \div 100

\* process_input: apply_dead_zone, REVERT_AXIS * 255, and the cast to int,
\* which truncates towards zero
Pwm(x) ==
    IF x \in -DeadZone..DeadZone THEN 0
    ELSE IF x > 0 THEN -((255 * x) \div 100) ELSE (255 * (-x)) \div 100

MoveStick ==
    /\ stick' \in Positions
    /\ UNCHANGED <<ticks, poolVars, roverVars, app>>

\* Fault of the definition below: timers that outlive the pool.
PostAlways(j) == Len(jobs) < MaxJobs /\ jobs' = Append(jobs, j)

Post(j) ==
    /\ app = "running"
    /\ Len(jobs) < MaxJobs
    /\ jobs' = Append(jobs, j)

\* Fault of the definition below: a stick in the dead zone sends nothing.
SilentTick ==
    /\ stick \notin -DeadZone..DeadZone
    /\ ticks' = IF ticks < MaxTicks THEN ticks + 1 ELSE ticks
    /\ Post(Drive(ticks', Pwm(stick)))
    /\ UNCHANGED <<stick, worker, job, roverVars, app>>

\* onGamepadTimeout
GamepadTick ==
    /\ ticks' = IF ticks < MaxTicks THEN ticks + 1 ELSE ticks
    /\ Post(Drive(ticks', Pwm(stick)))
    /\ UNCHANGED <<stick, worker, job, roverVars, app>>

\* onTelemetryTimeout, and a click on the camera button
PostQuery ==
    /\ Post(Query)
    /\ UNCHANGED <<stick, ticks, worker, job, roverVars, app>>

\* The window is closed: the timers go, and ~GrpcClient joins the pool, ...
Close ==
    /\ app = "running"
    /\ app' = "closing"
    /\ UNCHANGED <<stick, ticks, poolVars, roverVars>>

\* ... which waits for all its jobs
Join ==
    /\ app = "closing"
    /\ jobs = <<>>
    /\ \A t \in Threads : worker[t] = "idle"
    /\ app' = "closed"
    /\ UNCHANGED <<stick, ticks, poolVars, roverVars>>

-----------------------------------------------------------------------------
(* The threads of the pool.                                                *)

\* Fault of the definition below: the youngest job first.
TakeLast(t) ==
    /\ job' = [job EXCEPT ![t] = jobs[Len(jobs)]]
    /\ jobs' = SubSeq(jobs, 1, Len(jobs) - 1)

TakeFirst(t) ==
    /\ job' = [job EXCEPT ![t] = Head(jobs)]
    /\ jobs' = Tail(jobs)

Take(t) ==
    /\ worker[t] = "idle"
    /\ jobs # <<>>
    /\ TakeFirst(t)
    /\ worker' = [worker EXCEPT ![t] = "lock"]
    /\ UNCHANGED <<stick, ticks, roverVars, app>>

MutexFree == \A t \in Threads : worker[t] \notin {"call", "hung"}

\* lock_guard, and the call begins; the mutex prefers no thread
Lock(t) ==
    /\ worker[t] = "lock"
    /\ MutexFree
    /\ worker' = [worker EXCEPT ![t] = "call"]
    /\ UNCHANGED <<stick, ticks, jobs, job, roverVars, app>>

\* The call is over for thread t, which goes on or hangs.
Leave(t, where) ==
    /\ worker' = [worker EXCEPT ![t] = where]
    /\ job' = [job EXCEPT ![t] = NoJob]

Hear(j) == latest' = IF j.tick > latest THEN j.tick ELSE latest

\* l1 launches the commands `queue' in order, the oldest to completion.  A
\* launch that throws keeps its command, but may have told the wheel already.
Launch(queue) ==
    \E n \in 0..Len(queue) :
        /\ \E m \in {n, n + 1} :
               m <= Len(queue) /\ rover' = IF m = 0 THEN rover ELSE queue[m]
        /\ left' = SubSeq(queue, n + 1, Len(queue))
        /\ Len(left') <= MaxLeft

\* Two handlers in exec() at a time: whichever launches last has told the wheel
\* any of the commands, and pops may have removed some that nobody launched.
LaunchRaced(queue) ==
    /\ rover' = rover \/ \E i \in DOMAIN queue : rover' = queue[i]
    /\ \E n \in 0..Len(queue) : left' = SubSeq(queue, n + 1, Len(queue))
    /\ Len(left') <= MaxLeft

\* The rover executed the call, and its reply comes back.
CallReaches(t) ==
    /\ worker[t] = "call"
    /\ job[t].kind = "drive"
    /\ IF late = <<>> THEN Launch(Append(left, job[t].pwm))
                   ELSE LaunchRaced(Append(left, job[t].pwm))
    /\ Hear(job[t])
    /\ Leave(t, "callback")
    /\ UNCHANGED <<stick, ticks, jobs, late, app>>

\* Thread t gets no reply: the rover did not get the call, or its handler runs
\* on, or the call was a query, which moves nothing.
LoseCall(t, where) ==
    /\ worker[t] = "call"
    /\ \/ UNCHANGED roverVars
       \/ /\ job[t].kind = "drive"
          /\ Len(late) < MaxLate
          /\ late' = Append(late, job[t].pwm)
          /\ Hear(job[t])
          /\ UNCHANGED <<left, rover>>
    /\ Leave(t, where)
    /\ UNCHANGED <<stick, ticks, jobs, app>>

\* The connection fails (a query may also be answered): the thread goes on.
CallFails(t) == LoseCall(t, "callback")

\* The link is dead, and nobody notices: there is no deadline.
CallHangs(t) == LoseCall(t, "hung")

HangEnds(t) ==
    /\ worker[t] = "hung"
    /\ worker' = [worker EXCEPT ![t] = "callback"]
    /\ UNCHANGED <<stick, ticks, jobs, job, roverVars, app>>

\* The handler of a lost call: push and exec(), perhaps beside another's
LateRuns(k) ==
    /\ k \in DOMAIN late
    /\ late' = [i \in 1..(Len(late) - 1) |-> late[IF i < k THEN i ELSE i + 1]]
    /\ LaunchRaced(Append(left, late[k]))
    /\ UNCHANGED <<stick, ticks, poolVars, latest, app>>

\* The callback ends; that of the camera sleeps first.
CallbackEnds(t) ==
    /\ worker[t] = "callback"
    /\ worker' = [worker EXCEPT ![t] = "idle"]
    /\ UNCHANGED <<stick, ticks, jobs, job, roverVars, app>>

-----------------------------------------------------------------------------
CallEnds(t) == CallReaches(t) \/ CallFails(t) \/ CallHangs(t)

Next ==
    \/ MoveStick \/ GamepadTick \/ PostQuery \/ Close \/ Join
    \/ \E t \in Threads :
           Take(t) \/ Lock(t) \/ CallEnds(t) \/ HangEnds(t) \/ CallbackEnds(t)
    \/ \E k \in DOMAIN late : LateRuns(k)

\* A call gets through, and l1 launches all it has, this command last.
CallSucceeds(t) == CallReaches(t) /\ left' = <<>> /\ rover' = job[t].pwm

\* The Qt timer keeps firing (strongly, for only MaxJobs ever stops it), pool
\* threads and l1's handlers run, and some drive call succeeds again and again.
\* A call ends or hangs; that a hang ends is not assumed.  The mutex need not be
\* fair to a thread.
Fairness ==
    /\ SF_vars(GamepadTick)
    /\ WF_vars(\E t \in Threads : Lock(t))
    /\ \A t \in Threads : WF_vars(Take(t)) /\ WF_vars(CallEnds(t)) /\ WF_vars(CallbackEnds(t))
    /\ WF_vars(\E k \in DOMAIN late : LateRuns(k))
    /\ SF_vars(\E t \in Threads : CallSucceeds(t))
    /\ WF_vars(Join)

Spec == Init /\ [][Next]_vars /\ Fairness

-----------------------------------------------------------------------------
(* Properties.                                                             *)

Jobs == [kind : {"none", "query", "drive"}, tick : 0..MaxTicks, pwm : -255..255]

\* Every variable has its type; what is sent fits the 8 bits of l0's PWM.
TypeOK ==
    /\ stick \in Positions
    /\ ticks \in 0..MaxTicks
    /\ jobs \in Seq(Jobs)
    /\ worker \in [Threads -> {"idle", "lock", "call", "hung", "callback"}]
    /\ job \in [Threads -> Jobs]
    /\ left \in Seq(-255..255)
    /\ late \in Seq(-255..255)
    /\ rover \in -255..255
    /\ latest \in 0..MaxTicks
    /\ app \in {"running", "closing", "closed"}

\* A drive command can be overtaken by younger ones, while its thread waits
\* for the mutex, but all threads but one at most hold such a command: a
\* younger one never overtakes a whole queue.  (A lost call, whose handler in l1
\* no thread waits for, is overtaken without limit.)
Overtaken ==
    {t \in Threads : job[t].kind = "drive" /\ job[t].tick < latest}
FewOvertaken ==
    /\ Cardinality(Overtaken) < Cardinality(Threads)
    /\ \A i \in DOMAIN jobs : jobs[i].kind = "drive" => jobs[i].tick >= latest

NoneHangs == \A t \in Threads : worker[t] # "hung"

\* Once the operator holds the stick still, the rover ends up doing what it
\* says and stays there, although calls are lost, hang for a while and overtake
\* each other, handlers of lost calls run late and beside others, and l1
\* launches commands again whose write failed.
RoverSettles ==
    []<>NoneHangs =>
        \A x \in Positions :
            <>[](stick = x /\ app = "running") => <>[](rover = Pwm(x))

\* Closing the station ends unless a call hangs for ever: the backlog of jobs is
\* made, whether its calls succeed or fail, and the pool joined.
ExitEnds == []<>NoneHangs => (app = "closing" ~> app = "closed")

-----------------------------------------------------------------------------
(* What the documentation says and the code does not keep.                 *)

\* A stick in the dead zone causes nothing to be sent.
DeadZoneSilent ==
    [][Len(jobs') > Len(jobs) /\ jobs'[Len(jobs')].kind = "drive"
           => stick \notin -DeadZone..DeadZone]_vars
=============================================================================
