---------------------------- MODULE StationProofs ----------------------------
(***************************************************************************)
(* Proofs about the two things an operator does at the base station.       *)
(*                                                                         *)
(* Driving (RemoteStation), for any number of threads, any positions of    *)
(* the stick and any length of the queue: what is sent fits l0, and a      *)
(* younger command never overtakes a whole queue.                          *)
(*                                                                         *)
(* Switching the camera (Camera), for any pool of threads and any handlers *)
(* on the rover: it is safe until calls overlap.                           *)
(* There is one process at a time, none is used after it is destroyed, and *)
(* a station that was answered knows whether the camera runs.              *)
(***************************************************************************)
EXTENDS RemoteStation, MCCamera, FiniteSetTheorems, TLAPS

-----------------------------------------------------------------------------
(*                       Driving: RemoteStation                            *)

-----------------------------------------------------------------------------
(* Types.                                                                  *)

\* What is sent fits 8 bits and a sign, wherever the stick is.
LEMMA PwmFits == \A x \in Positions : Pwm(x) \in -255..255
<1> SUFFICES ASSUME NEW x \in Positions PROVE Pwm(x) \in -255..255
    OBVIOUS
<1>0. x \in -100..100
    BY StationAssumption
<1>1. CASE x \in -DeadZone..DeadZone
    BY <1>1 DEF Pwm
<1>2. CASE x \notin -DeadZone..DeadZone /\ x > 0
  <2>1. (255 * x) \div 100 \in 0..255
    BY <1>0, <1>2
  <2> QED
    BY <1>0, <1>2, <2>1 DEF Pwm
<1>3. CASE x \notin -DeadZone..DeadZone /\ ~(x > 0)
  <2>1. -x \in 0..100
    BY <1>0, <1>3
  <2>2. (255 * (-x)) \div 100 \in 0..255
    BY <2>1
  <2> QED
    BY <1>0, <1>3, <2>2 DEF Pwm
<1> QED
    BY <1>1, <1>2, <1>3

\* The jobs that are made are jobs.
LEMMA JobTypes ==
    /\ NoJob \in Jobs /\ Query \in Jobs
    /\ \A n \in 0..MaxTicks, p \in -255..255 : Drive(n, p) \in Jobs
<1>0. 0 \in 0..MaxTicks /\ 0 \in -255..255
    BY StationAssumption
<1>1. NoJob \in Jobs
    BY <1>0 DEF NoJob, Jobs
<1>2. Query = [kind |-> "query", tick |-> 0, pwm |-> 0]
    BY DEF Query, NoJob
<1>3. Query \in Jobs
    BY <1>0, <1>2 DEF Jobs
<1>4. ASSUME NEW n \in 0..MaxTicks, NEW p \in -255..255 PROVE Drive(n, p) \in Jobs
    BY <1>4 DEF Drive, NoJob, Jobs
<1> QED
    BY <1>1, <1>3, <1>4

\* The station starts well typed.
LEMMA InitTypeOK == Init => TypeOK
<1> SUFFICES ASSUME Init PROVE TypeOK
    OBVIOUS
<1>1. stick \in Positions /\ ticks \in 0..MaxTicks /\ latest \in 0..MaxTicks
    BY StationAssumption DEF Init
<1>2. jobs \in Seq(Jobs) /\ rover \in -255..255 /\ left \in Seq(-255..255) /\ app = "running"
      /\ late \in Seq(-255..255)
    BY DEF Init
<1>3. worker \in [Threads -> {"idle", "lock", "call", "hung", "callback"}]
    BY DEF Init
<1>4. job \in [Threads -> Jobs]
    BY JobTypes DEF Init
<1> QED
    BY <1>1, <1>2, <1>3, <1>4 DEF TypeOK

\* A sequence of PWMs with one more is a sequence of PWMs, ...
LEMMA AppendTypes ==
    ASSUME NEW s \in Seq(-255..255), NEW pwm \in -255..255
    PROVE  Append(s, pwm) \in Seq(-255..255)
OBVIOUS

\* ... whose elements are PWMs.
LEMMA ElementTypes ==
    ASSUME NEW s \in Seq(-255..255), NEW k \in DOMAIN s
    PROVE  s[k] \in -255..255
<1> DEFINE Pwms == -255..255
<1>1. s \in Seq(Pwms)
    OBVIOUS
<1> HIDE DEF Pwms
<1>2. s[k] \in Pwms
    BY <1>1
<1> QED
    BY <1>2 DEF Pwms

\* A sequence of PWMs that loses an element is a sequence of PWMs.
LEMMA WithoutTypes ==
    ASSUME NEW s \in Seq(-255..255), NEW k \in DOMAIN s
    PROVE  [i \in 1..(Len(s) - 1) |-> s[IF i < k THEN i ELSE i + 1]] \in Seq(-255..255)
<1> DEFINE Pwms == -255..255
           At(i) == IF i < k THEN i ELSE i + 1
           t == [i \in 1..(Len(s) - 1) |-> s[At(i)]]
<1>1. s \in Seq(Pwms)
    OBVIOUS
<1> HIDE DEF Pwms
<1>2. Len(s) \in Nat \ {0} /\ DOMAIN s = 1..Len(s) /\ k \in 1..Len(s)
    BY <1>1
<1>3. \A i \in 1..(Len(s) - 1) : At(i) \in 1..Len(s)
    BY <1>2
<1>4. \A i \in 1..(Len(s) - 1) : s[At(i)] \in Pwms
    BY <1>1, <1>2, <1>3
<1> HIDE DEF At
<1>5. Len(s) - 1 \in Nat /\ t \in [1..(Len(s) - 1) -> Pwms]
    BY <1>2, <1>4
<1> HIDE DEF t
<1>6. t \in Seq(Pwms)
    BY <1>5
<1> QED
    BY <1>6 DEF t, At, Pwms

\* A launch tells the wheel a PWM of the queue, and keeps a part of the queue.
LEMMA LaunchTypes ==
    ASSUME rover \in -255..255, NEW queue \in Seq(-255..255),
           Launch(queue) \/ LaunchRaced(queue)
    PROVE  rover' \in -255..255 /\ left' \in Seq(-255..255)
<1>1. /\ Len(queue) \in Nat /\ DOMAIN queue = 1..Len(queue)
      /\ \A i \in 1..Len(queue) : queue[i] \in -255..255
  <2> DEFINE Pwms == -255..255
  <2>1. queue \in Seq(Pwms)
    OBVIOUS
  <2> HIDE DEF Pwms
  <2>2. /\ Len(queue) \in Nat /\ DOMAIN queue = 1..Len(queue)
        /\ \A i \in 1..Len(queue) : queue[i] \in Pwms
    BY <2>1
  <2> QED
    BY <2>2 DEF Pwms
<1>2. CASE Launch(queue)
  <2>1. PICK n \in 0..Len(queue) :
            /\ \E m \in {n, n + 1} :
                   m <= Len(queue) /\ rover' = IF m = 0 THEN rover ELSE queue[m]
            /\ left' = SubSeq(queue, n + 1, Len(queue))
    BY <1>2 DEF Launch
  <2>2. PICK m \in {n, n + 1} :
            m <= Len(queue) /\ rover' = IF m = 0 THEN rover ELSE queue[m]
    BY <2>1
  <2>3. m \in 0..Len(queue)
    BY <1>1, <2>2
  <2>4. rover' \in -255..255
    BY <1>1, <2>2, <2>3
  <2>5. n + 1 \in 1..(Len(queue) + 1)
    BY <1>1
  <2>6. left' \in Seq(-255..255)
    BY <1>1, <2>1, <2>5
  <2> QED
    BY <2>4, <2>6
<1>3. CASE LaunchRaced(queue)
  <2>1. PICK n \in 0..Len(queue) : left' = SubSeq(queue, n + 1, Len(queue))
    BY <1>3 DEF LaunchRaced
  <2>2. n + 1 \in 1..(Len(queue) + 1)
    BY <1>1
  <2>3. left' \in Seq(-255..255)
    BY <1>1, <2>1, <2>2
  <2>4. rover' = rover \/ \E i \in 1..Len(queue) : rover' = queue[i]
    BY <1>1, <1>3, Zenon DEF LaunchRaced
  <2>5. rover' \in -255..255
    <3>1. CASE rover' = rover
      BY <3>1
    <3>2. ASSUME NEW i \in 1..Len(queue), rover' = queue[i] PROVE rover' \in -255..255
      BY <1>1, <3>2
    <3> QED
      BY <2>4, <3>1, <3>2
  <2> QED
    BY <2>3, <2>5
<1> QED
    BY <1>2, <1>3

\* So do l1's handlers with the command of a job.
LEMMA JobLaunchTypes ==
    ASSUME rover \in -255..255, left \in Seq(-255..255), NEW pwm \in -255..255,
           Launch(Append(left, pwm)) \/ LaunchRaced(Append(left, pwm))
    PROVE  rover' \in -255..255 /\ left' \in Seq(-255..255)
<1> DEFINE queue == Append(left, pwm)
<1>2. Launch(queue) \/ LaunchRaced(queue)
    OBVIOUS
<1>3. queue \in Seq(-255..255)
    OBVIOUS
<1> HIDE DEF queue
<1> QED
    BY <1>2, <1>3, LaunchTypes

\* Every step keeps the types.
LEMMA NextTypeOK == TypeOK /\ [Next]_vars => TypeOK'
<1> SUFFICES ASSUME TypeOK, [Next]_vars PROVE TypeOK'
    OBVIOUS
<1> USE DEF TypeOK
<1>1. CASE MoveStick
    BY <1>1 DEF MoveStick, poolVars, roverVars
<1>2. CASE GamepadTick
  <2>1. ticks' \in 0..MaxTicks
    BY <1>2, StationAssumption DEF GamepadTick
  <2>2. Drive(ticks', Pwm(stick)) \in Jobs
    BY <2>1, PwmFits, JobTypes
  <2>3. jobs' \in Seq(Jobs)
    BY <1>2, <2>2 DEF GamepadTick, Post
  <2> QED
    BY <1>2, <2>1, <2>3 DEF GamepadTick, roverVars
<1>3. CASE PostQuery
  <2>1. jobs' \in Seq(Jobs)
    BY <1>3, JobTypes DEF PostQuery, Post
  <2> QED
    BY <1>3, <2>1 DEF PostQuery, roverVars
<1>4. ASSUME NEW t \in Threads, Take(t) PROVE TypeOK'
  <2>1. jobs \in Seq(Jobs) /\ jobs # <<>>
    BY <1>4 DEF Take
  <2>2. Head(jobs) \in Jobs /\ Tail(jobs) \in Seq(Jobs)
    BY <2>1
  <2> QED
    BY <1>4, <2>2 DEF Take, TakeFirst, roverVars
<1>5. ASSUME NEW t \in Threads, Lock(t) PROVE TypeOK'
    BY <1>5 DEF Lock, roverVars
<1>6. ASSUME NEW t \in Threads, CallReaches(t) PROVE TypeOK'
  <2>1. job[t] \in Jobs /\ job[t].tick \in 0..MaxTicks /\ job[t].pwm \in -255..255
    BY DEF Jobs
  <2>2. rover' \in -255..255 /\ left' \in Seq(-255..255)
    BY <1>6, <2>1, JobLaunchTypes DEF CallReaches
  <2>3. latest' \in 0..MaxTicks
    BY <1>6, <2>1 DEF CallReaches, Hear
  <2> QED
    BY <1>6, <2>2, <2>3, JobTypes DEF CallReaches, Leave
<1>7. ASSUME NEW t \in Threads, NEW where \in {"callback", "hung"}, LoseCall(t, where)
      PROVE  TypeOK'
  <2>1. job[t] \in Jobs /\ job[t].tick \in 0..MaxTicks /\ job[t].pwm \in -255..255
    BY DEF Jobs
  <2>2. rover' \in -255..255 /\ left' \in Seq(-255..255) /\ latest' \in 0..MaxTicks
    BY <1>7, <2>1 DEF LoseCall, Hear, roverVars
  <2>3. late' = late \/ late' = Append(late, job[t].pwm)
    BY <1>7 DEF LoseCall, roverVars
  <2>4. late' \in Seq(-255..255)
    <3> DEFINE pwm == job[t].pwm
    <3>1. pwm \in -255..255 /\ (late' = late \/ late' = Append(late, pwm))
      BY <2>1, <2>3
    <3> HIDE DEF pwm
    <3>2. Append(late, pwm) \in Seq(-255..255)
      BY <3>1, AppendTypes
    <3> QED
      BY <3>1, <3>2
  <2> QED
    BY <1>7, <2>2, <2>4, JobTypes DEF LoseCall, Leave
<1>8. ASSUME NEW t \in Threads, HangEnds(t) \/ CallbackEnds(t) PROVE TypeOK'
    BY <1>8 DEF HangEnds, CallbackEnds, roverVars
<1>9. ASSUME NEW k \in DOMAIN late, LateRuns(k) PROVE TypeOK'
  <2>1. late[k] \in -255..255
    BY ElementTypes
  <2>2. rover' \in -255..255 /\ left' \in Seq(-255..255)
    BY <1>9, <2>1, JobLaunchTypes DEF LateRuns
  <2>3. late' = [i \in 1..(Len(late) - 1) |-> late[IF i < k THEN i ELSE i + 1]]
    BY <1>9 DEF LateRuns
  <2>4. late' \in Seq(-255..255)
    BY <2>3, WithoutTypes
  <2> QED
    BY <1>9, <2>2, <2>4 DEF LateRuns, poolVars
<1>10. CASE Close \/ Join
    BY <1>10 DEF Close, Join, poolVars, roverVars
<1>11. CASE UNCHANGED vars
    BY <1>11 DEF vars, poolVars, roverVars
<1> QED
    BY <1>1, <1>2, <1>3, <1>4, <1>5, <1>6, <1>7, <1>8, <1>9, <1>10, <1>11
    DEF Next, CallEnds, CallFails, CallHangs

-----------------------------------------------------------------------------
(* The inductive invariant.                                                *)

\* The drive commands of the queue are in the order of their ticks, ...
Sorted ==
    \A i, j \in DOMAIN jobs :
        i < j /\ jobs[i].kind = "drive" /\ jobs[j].kind = "drive"
            => jobs[i].tick <= jobs[j].tick

\* ... and none is older than what left the queue before.
Younger(n) == \A i \in DOMAIN jobs : jobs[i].kind = "drive" => n <= jobs[i].tick
QueueYounger ==
    /\ Younger(latest)
    /\ \A t \in Threads : job[t].kind = "drive" => Younger(job[t].tick)

\* No command is younger than the last tick.
Past ==
    /\ latest <= ticks
    /\ \A t \in Threads : job[t].kind = "drive" => job[t].tick <= ticks
    /\ \A i \in DOMAIN jobs : jobs[i].kind = "drive" => jobs[i].tick <= ticks

\* Some thread does not hold an overtaken command.
OneAhead == \E t \in Threads : t \notin Overtaken

Inv == TypeOK /\ Sorted /\ QueueYounger /\ Past /\ OneAhead

\* The station starts with nothing to do.
LEMMA InitInv == Init => Inv
<1> SUFFICES ASSUME Init PROVE Inv
    OBVIOUS
<1>1. Sorted /\ QueueYounger /\ Past
    BY DEF Init, Sorted, QueueYounger, Younger, Past, NoJob
<1>2. OneAhead
    BY StationAssumption DEF Init, OneAhead, Overtaken, NoJob
<1> QED
    BY InitTypeOK, <1>1, <1>2 DEF Inv

\* Appending a job that is no older than any other keeps the order.
LEMMA PostKeepsOrder ==
    ASSUME Inv, TypeOK',
           NEW j \in Jobs, jobs' = Append(jobs, j),
           ticks' \in Nat, ticks <= ticks', j.kind = "drive" => j.tick = ticks',
           UNCHANGED <<job, latest>>
    PROVE  Sorted' /\ QueueYounger' /\ Past'
<1> USE DEF Inv, TypeOK
<1>1. /\ DOMAIN jobs = 1..Len(jobs) /\ DOMAIN jobs' = 1..(Len(jobs) + 1)
      /\ \A i \in DOMAIN jobs : jobs'[i] = jobs[i]
      /\ jobs'[Len(jobs) + 1] = j
    OBVIOUS
<1>2. \A i \in DOMAIN jobs' : i \in DOMAIN jobs \/ i = Len(jobs) + 1
    BY <1>1
<1>3. \A i \in DOMAIN jobs : jobs[i].tick \in Nat
  <2>1. \A i \in DOMAIN jobs : jobs[i] \in Jobs
    OBVIOUS
  <2> QED
    BY <2>1 DEF Jobs
<1>4. \A t \in Threads : job[t].tick \in Nat
    BY DEF Jobs
<1>5. ticks \in Nat /\ latest \in Nat
    BY StationAssumption
<1>6. Past'
  <2>1. \A i \in DOMAIN jobs' : jobs'[i].kind = "drive" => jobs'[i].tick <= ticks'
    BY <1>1, <1>2, <1>3, <1>5 DEF Past
  <2>2. \A t \in Threads : job'[t].kind = "drive" => job'[t].tick <= ticks'
    BY <1>4, <1>5 DEF Past
  <2> QED
    BY <2>1, <2>2, <1>5 DEF Past
<1>7. Sorted'
    BY <1>1, <1>2, <1>3, <1>5 DEF Sorted, Past
<1>8. QueueYounger'
  <2>1. Younger(latest)'
    BY <1>1, <1>2, <1>3, <1>5 DEF QueueYounger, Younger, Past
  <2>2. \A t \in Threads : job'[t].kind = "drive" => Younger(job[t].tick)'
    BY <1>1, <1>2, <1>3, <1>4, <1>5 DEF QueueYounger, Younger, Past
  <2> QED
    BY <2>1, <2>2 DEF QueueYounger
<1> QED
    BY <1>6, <1>7, <1>8

\* Taking the oldest job keeps the order, and the job taken is no younger than
\* those it leaves behind.
LEMMA TakeKeepsOrder ==
    ASSUME Inv, NEW t \in Threads, Take(t)
    PROVE  /\ Sorted' /\ QueueYounger' /\ Past'
           /\ job'[t].kind = "drive" => latest <= job'[t].tick
<1> USE DEF Inv, TypeOK
<1>1. jobs \in Seq(Jobs) /\ jobs # <<>>
    BY DEF Take
<1>2. /\ DOMAIN jobs = 1..Len(jobs) /\ DOMAIN jobs' = 1..(Len(jobs) - 1)
      /\ \A i \in DOMAIN jobs' : i + 1 \in DOMAIN jobs /\ jobs'[i] = jobs[i + 1]
      /\ 1 \in DOMAIN jobs
    BY <1>1 DEF Take, TakeFirst
<1>3. job'[t] = jobs[1] /\ \A u \in Threads : u # t => job'[u] = job[u]
    BY <1>1 DEF Take, TakeFirst
<1>4. UNCHANGED <<ticks, latest>>
    BY DEF Take, roverVars
<1>5. \A i \in DOMAIN jobs : jobs[i].tick \in Nat
  <2>1. \A i \in DOMAIN jobs : jobs[i] \in Jobs
    OBVIOUS
  <2> QED
    BY <2>1 DEF Jobs
<1>6. \A i \in DOMAIN jobs' : i \in Nat /\ 1 < i + 1
    BY <1>2
<1>7. Sorted'
  <2> SUFFICES ASSUME NEW i \in DOMAIN jobs', NEW j \in DOMAIN jobs', i < j,
                      jobs'[i].kind = "drive", jobs'[j].kind = "drive"
               PROVE  jobs'[i].tick <= jobs'[j].tick
    BY DEF Sorted
  <2>1. i + 1 \in DOMAIN jobs /\ j + 1 \in DOMAIN jobs /\ i + 1 < j + 1
    BY <1>2
  <2>2. jobs'[i] = jobs[i + 1] /\ jobs'[j] = jobs[j + 1]
    BY <1>2
  <2> HIDE DEF TypeOK
  <2> QED
    BY <2>1, <2>2 DEF Sorted
<1>8. Past'
    BY <1>2, <1>3, <1>4 DEF Past
<1>9. QueueYounger'
  <2>1. Younger(latest)'
    BY <1>2, <1>4 DEF QueueYounger, Younger
  <2>2. ASSUME NEW u \in Threads, job'[u].kind = "drive"
        PROVE  Younger(job[u].tick)'
    <3>1. CASE u = t
      BY <1>2, <1>3, <1>6, <2>2, <3>1 DEF Sorted, Younger
    <3>2. CASE u # t
      BY <1>2, <1>3, <2>2, <3>2 DEF QueueYounger, Younger
    <3> QED
      BY <3>1, <3>2
  <2> QED
    BY <2>1, <2>2 DEF QueueYounger
<1>10. job'[t].kind = "drive" => latest <= job'[t].tick
    BY <1>2, <1>3 DEF QueueYounger, Younger
<1> QED
    BY <1>7, <1>8, <1>9, <1>10

\* A command that has reached the rover, or may reach it late, is not younger
\* than the queue.
LEMMA CallKeepsOrder ==
    ASSUME Inv, NEW t \in Threads, CallEnds(t)
    PROVE  Sorted' /\ QueueYounger' /\ Past'
<1> USE DEF Inv
<1>1. /\ UNCHANGED <<jobs, ticks>>
      /\ job'[t] = NoJob /\ \A u \in Threads : u # t => job'[u] = job[u]
    BY DEF CallEnds, CallReaches, CallFails, CallHangs, LoseCall, Leave, TypeOK
<1>2. latest' = latest \/ (job[t].kind = "drive" /\ latest' = job[t].tick)
    BY DEF CallEnds, CallReaches, CallFails, CallHangs, LoseCall, Hear, roverVars
<1>3. \A u \in Threads : job'[u].kind = "drive" => u # t
    BY <1>1 DEF NoJob
<1>4. Sorted'
    BY <1>1 DEF Sorted
<1>5. Past'
    BY <1>1, <1>2, <1>3 DEF Past
<1>6. QueueYounger'
  <2>1. Younger(latest)'
    BY <1>1, <1>2 DEF QueueYounger, Younger
  <2>2. \A u \in Threads : job'[u].kind = "drive" => Younger(job[u].tick)'
    BY <1>1, <1>3 DEF QueueYounger, Younger
  <2> QED
    BY <2>1, <2>2 DEF QueueYounger
<1> QED
    BY <1>4, <1>5, <1>6

\* Every step keeps the invariant.
LEMMA NextInv == Inv /\ [Next]_vars => Inv'
<1> SUFFICES ASSUME Inv, [Next]_vars PROVE Inv'
    OBVIOUS
<1>0. TypeOK /\ TypeOK'
    BY NextTypeOK DEF Inv
<1>1. CASE MoveStick
  <2>1. UNCHANGED <<ticks, jobs, worker, job, latest>>
    BY <1>1 DEF MoveStick, poolVars, roverVars
  <2>2. Sorted' /\ QueueYounger' /\ Past'
    BY <2>1 DEF Inv, Sorted, QueueYounger, Younger, Past
  <2>3. OneAhead'
    BY <2>1 DEF Inv, OneAhead, Overtaken
  <2> QED
    BY <1>0, <2>2, <2>3 DEF Inv
<1>2. CASE GamepadTick
  <2>1. ticks' \in 0..MaxTicks /\ ticks \in 0..MaxTicks
    BY <1>0 DEF TypeOK
  <2>2. ticks' \in Nat /\ ticks <= ticks'
    BY <1>2, <2>1, StationAssumption DEF GamepadTick
  <2>3. Drive(ticks', Pwm(stick)) \in Jobs
    BY <1>0, <2>1, PwmFits, JobTypes DEF TypeOK
  <2>4. /\ jobs' = Append(jobs, Drive(ticks', Pwm(stick)))
        /\ UNCHANGED <<worker, job, latest>>
    BY <1>2 DEF GamepadTick, Post, roverVars
  <2>5. Drive(ticks', Pwm(stick)).tick = ticks'
    BY DEF Drive
  <2>6. Sorted' /\ QueueYounger' /\ Past'
    BY <1>0, <2>2, <2>3, <2>4, <2>5, PostKeepsOrder
  <2>7. OneAhead'
    BY <2>4 DEF Inv, OneAhead, Overtaken
  <2> QED
    BY <1>0, <2>6, <2>7 DEF Inv
<1>3. CASE PostQuery
  <2>1. jobs' = Append(jobs, Query) /\ UNCHANGED <<ticks, worker, job, latest>>
    BY <1>3 DEF PostQuery, Post, roverVars
  <2>2. ticks \in Nat
    BY <1>0, StationAssumption DEF TypeOK
  <2>3. ticks' \in Nat /\ ticks <= ticks'
    BY <2>1, <2>2
  <2>4. Query.kind = "query"
    BY DEF Query, NoJob
  <2>5. Sorted' /\ QueueYounger' /\ Past'
    BY <1>0, <2>1, <2>3, <2>4, JobTypes, PostKeepsOrder
  <2>6. OneAhead'
    BY <2>1 DEF Inv, OneAhead, Overtaken
  <2> QED
    BY <1>0, <2>5, <2>6 DEF Inv
<1>4. ASSUME NEW t \in Threads, Take(t) PROVE Inv'
  <2>1. /\ worker[t] = "idle" /\ worker' = [worker EXCEPT ![t] = "lock"]
        /\ latest' = latest /\ jobs \in Seq(Jobs) /\ jobs # <<>>
        /\ job' = [job EXCEPT ![t] = Head(jobs)]
    BY <1>0, <1>4 DEF Take, TakeFirst, TypeOK, roverVars
  <2>2. /\ Sorted' /\ QueueYounger' /\ Past'
        /\ job'[t].kind = "drive" => latest <= job'[t].tick
    BY <1>4, TakeKeepsOrder
  <2>4. job'[t].tick \in Nat /\ latest \in Nat
    BY <1>0, <2>1 DEF TypeOK, Jobs
  <2>5. t \notin Overtaken'
    BY <2>1, <2>2, <2>4 DEF Overtaken
  <2>6. OneAhead'
    BY <2>5 DEF OneAhead
  <2> QED
    BY <1>0, <2>2, <2>6 DEF Inv
<1>5. ASSUME NEW t \in Threads, Lock(t) PROVE Inv'
  <2>1. UNCHANGED <<ticks, jobs, job, latest>>
    BY <1>5 DEF Lock, roverVars
  <2>2. Sorted' /\ QueueYounger' /\ Past' /\ OneAhead'
    BY <2>1 DEF Inv, Sorted, QueueYounger, Younger, Past, OneAhead, Overtaken
  <2> QED
    BY <1>0, <2>2 DEF Inv
<1>6. ASSUME NEW t \in Threads, CallEnds(t) PROVE Inv'
  <2>1. job' = [job EXCEPT ![t] = NoJob]
    BY <1>6 DEF CallEnds, CallReaches, CallFails, CallHangs, LoseCall, Leave
  <2>2. Sorted' /\ QueueYounger' /\ Past'
    BY <1>6, CallKeepsOrder
  <2>4. job'[t].kind = "none"
    BY <1>0, <2>1 DEF TypeOK, NoJob
  <2>5. OneAhead'
    BY <2>4 DEF OneAhead, Overtaken
  <2> QED
    BY <1>0, <2>2, <2>5 DEF Inv
<1>7. ASSUME NEW t \in Threads, HangEnds(t) \/ CallbackEnds(t) PROVE Inv'
  <2>1. UNCHANGED <<ticks, jobs, job, latest>>
    BY <1>7 DEF HangEnds, CallbackEnds, roverVars
  <2>2. Sorted' /\ QueueYounger' /\ Past' /\ OneAhead'
    BY <2>1 DEF Inv, Sorted, QueueYounger, Younger, Past, OneAhead, Overtaken
  <2> QED
    BY <1>0, <2>2 DEF Inv
<1>8. CASE (\E k \in DOMAIN late : LateRuns(k)) \/ Close \/ Join \/ UNCHANGED vars
  <2>1. UNCHANGED <<ticks, jobs, worker, job, latest>>
    BY <1>8 DEF LateRuns, Close, Join, vars, poolVars, roverVars
  <2>2. Sorted' /\ QueueYounger' /\ Past'
    BY <2>1 DEF Inv, Sorted, QueueYounger, Younger, Past
  <2>3. OneAhead'
    BY <2>1 DEF Inv, OneAhead, Overtaken
  <2> QED
    BY <1>0, <2>2, <2>3 DEF Inv
<1> QED
    BY <1>1, <1>2, <1>3, <1>4, <1>5, <1>6, <1>7, <1>8 DEF Next

-----------------------------------------------------------------------------
(* The theorems.                                                           *)

\* The inductive invariant holds in every reachable state.
THEOREM StationInvariance == Spec => []Inv
<1>1. Init => Inv
    BY InitInv
<1>2. Inv /\ [Next]_vars => Inv'
    BY NextInv
<1> QED
    BY <1>1, <1>2, PTL DEF Spec

\* Type correctness; in particular every PWM sent fits 8 bits and a sign.
THEOREM StationTypeCorrect == Spec => []TypeOK
<1>1. Inv => TypeOK
    BY DEF Inv
<1> QED
    BY <1>1, StationInvariance, PTL

\* However many threads the pool has, one of them at least does not hold an
\* overtaken drive command, and no command still queued is overtaken.
THEOREM FewOvertakenSafe == Spec => []FewOvertaken
<1>1. ASSUME Inv PROVE FewOvertaken
  <2>1. Overtaken \subseteq Threads /\ Overtaken # Threads
    BY <1>1 DEF Inv, OneAhead, Overtaken
  <2>2. /\ Cardinality(Overtaken) <= Cardinality(Threads)
        /\ Cardinality(Overtaken) = Cardinality(Threads) => Overtaken = Threads
    BY <2>1, StationAssumption, FS_Subset
  <2>3. Cardinality(Overtaken) \in Nat /\ Cardinality(Threads) \in Nat
    BY <2>1, StationAssumption, FS_Subset, FS_CardinalityType
  <2>4. Cardinality(Overtaken) < Cardinality(Threads)
    BY <2>1, <2>2, <2>3
  <2>5. \A i \in DOMAIN jobs : jobs[i] \in Jobs
    BY <1>1 DEF Inv, TypeOK
  <2>6. latest \in Nat /\ \A i \in DOMAIN jobs : jobs[i].tick \in Nat
    BY <1>1, <2>5, StationAssumption DEF Inv, TypeOK, Jobs
  <2>7. \A i \in DOMAIN jobs : jobs[i].kind = "drive" => jobs[i].tick >= latest
    BY <1>1, <2>6 DEF Inv, QueueYounger, Younger
  <2> QED
    BY <2>4, <2>7 DEF FewOvertaken
<1> QED
    BY <1>1, StationInvariance, PTL

-----------------------------------------------------------------------------
(*                     The camera switch: Camera                           *)

USE DEF Cam!At, Cam!Goto

\* No call is under way at the start.
LEMMA CamInitInv ==
    ASSUME Cam!Init
    PROVE  Cam!Inv
<1> USE DEF Cam!Init
<1>1. rpiCam \in {"null", "running", "exited"} /\ spare \subseteq Handlers
    OBVIOUS
<1>2. /\ pc \in [Handlers -> {"idle", "test", "launch", "own", "status", "kill", "reply"}]
      /\ reply \in [Handlers -> {"UNDEFINED", "ENABLED", "DISABLED"}]
      /\ held \in [Pool -> {"none", "UNDEFINED", "ENABLED", "DISABLED"}]
    OBVIOUS
<1>3. enabled \in BOOLEAN /\ known \in BOOLEAN /\ quiet \in BOOLEAN /\ undefined \in BOOLEAN /\ alone \in BOOLEAN
    OBVIOUS
<1>4. Cam!TypeOK
    BY <1>1, <1>2, <1>3 DEF Cam!TypeOK
<1>5. Cam!OneCaller /\ Cam!SpareOwner /\ Cam!CallKnows /\ Cam!WaitingBusy
    BY NoHandlerAssumption DEF Cam!OneCaller, Cam!SpareOwner, Cam!CallKnows, Cam!WaitingBusy
<1>6. Cam!StationKnows /\ ~undefined /\ Cam!ReplyKnows /\ Cam!CallbackHolds
    BY DEF Cam!StationKnows, Cam!ReplyKnows, Cam!CallbackHolds, Cam!NobodyBusy
<1> QED
    BY <1>4, <1>5, <1>6 DEF Cam!Inv, Cam!CallsInv

\* Every step keeps the types.
LEMMA CamNextTypeOK ==
    ASSUME Cam!TypeOK, [Cam!Next]_Cam!vars
    PROVE  Cam!TypeOK'
<1> USE DEF Cam!TypeOK
<1>1. CASE Cam!CameraExits
    BY <1>1 DEF Cam!CameraExits, Cam!stationVars
<1>2. ASSUME NEW h \in Handlers, Cam!EnableCamera(h) PROVE Cam!TypeOK'
    BY <1>2 DEF Cam!EnableCamera
<1>3. ASSUME NEW h \in Handlers, Cam!Handler(h) PROVE Cam!TypeOK'
  <2> USE DEF Cam!stationVars
  <2>1. CASE Cam!Test(h)
    BY <1>3, <2>1 DEF Cam!Handler, Cam!Test
  <2>2. CASE Cam!Launch(h)
    BY <1>3, <2>2 DEF Cam!Handler, Cam!Launch
  <2>3. CASE Cam!Own(h)
    BY <1>3, <2>3 DEF Cam!Handler, Cam!Own
  <2>4. CASE Cam!Status(h)
    BY <1>3, <2>4 DEF Cam!Handler, Cam!Status
  <2>5. CASE Cam!Kill(h)
    BY <1>3, <2>5 DEF Cam!Handler, Cam!Kill, Cam!Terminate
  <2>6. CASE Cam!ReplyDropped(h)
    BY <1>3, <2>6 DEF Cam!Handler, Cam!ReplyDropped
  <2> QED
    BY <1>3, <2>1, <2>2, <2>3, <2>4, <2>5, <2>6 DEF Cam!Handler
<1>4. ASSUME NEW h \in Handlers, NEW t \in Pool, Cam!ReplyArrives(h, t) PROVE Cam!TypeOK'
    BY <1>4 DEF Cam!ReplyArrives, Cam!CallReturns
<1>5. ASSUME NEW h \in Handlers, NEW t \in Pool, Cam!CallFails(h, t) PROVE Cam!TypeOK'
    BY <1>5 DEF Cam!CallFails, Cam!CallReturns
<1>6. ASSUME NEW t \in Pool, Cam!Compare(t) \/ Cam!Assign(t) PROVE Cam!TypeOK'
  <2>1. enabled' \in BOOLEAN /\ known' \in BOOLEAN
    <3>1. known \in BOOLEAN /\ enabled \in BOOLEAN
      BY DEF Cam!TypeOK
    <3>2. /\ known' = known \/ known' = (t = latestReply /\ held[t] # "UNDEFINED")
          /\ enabled' = enabled \/ enabled' = (held[t] = "ENABLED")
      BY <1>6 DEF Cam!Compare, Cam!Assign, Cam!Applied
    <3> QED
      BY <3>1, <3>2
  <2>2. held' = held \/ held' = [held EXCEPT ![t] = "none"]
    BY <1>6 DEF Cam!Compare, Cam!Assign, Cam!Applied
  <2>3. compared' \subseteq Pool
    BY <1>6 DEF Cam!Compare, Cam!Assign
  <2>4. UNCHANGED <<Cam!serverVars, waiting, latestReply, alone>>
    BY <1>6 DEF Cam!Compare, Cam!Assign
  <2> QED
    BY <2>1, <2>2, <2>3, <2>4 DEF Cam!serverVars
<1>7. CASE UNCHANGED Cam!vars
    BY <1>7 DEF Cam!vars, Cam!serverVars, Cam!stationVars
<1> QED
    BY <1>1, <1>2, <1>3, <1>4, <1>5, <1>6, <1>7 DEF Cam!Next

\* Every step keeps what concerns the calls and the processes.
LEMMA CamNextCalls ==
    ASSUME Cam!Inv, [Cam!Next]_Cam!vars
    PROVE  Cam!WaitingBusy' /\ (alone' => alone /\ Cam!CallsInv')
<1> DEFINE Goal == Cam!WaitingBusy' /\ (alone' => alone /\ Cam!CallsInv')
<1> USE NoHandlerAssumption
        DEF Cam!Inv, Cam!TypeOK, Cam!WaitingBusy, Cam!CallsInv, Cam!OneCaller,
            Cam!SpareOwner, Cam!CallKnows, Cam!NobodyBusy
<1>1. CASE Cam!CameraExits
    BY <1>1 DEF Cam!CameraExits, Cam!stationVars
<1>2. ASSUME NEW h \in Handlers, Cam!EnableCamera(h) PROVE Goal
    BY <1>2 DEF Cam!EnableCamera
<1>3. ASSUME NEW h \in Handlers, Cam!Handler(h) PROVE Goal
  <2> USE DEF Cam!stationVars
  <2>1. CASE Cam!Test(h)
    BY <1>3, <2>1 DEF Cam!Handler, Cam!Test, Cam!Off
  <2>2. CASE Cam!Launch(h)
    BY <1>3, <2>2 DEF Cam!Handler, Cam!Launch
  <2>3. CASE Cam!Own(h)
    BY <1>3, <2>3 DEF Cam!Handler, Cam!Own
  <2>4. CASE Cam!Status(h)
    BY <1>3, <2>4 DEF Cam!Handler, Cam!Status
  <2>5. CASE Cam!Kill(h)
    BY <1>3, <2>5 DEF Cam!Handler, Cam!Kill, Cam!Terminate
  <2>6. CASE Cam!ReplyDropped(h)
    BY <1>3, <2>6 DEF Cam!Handler, Cam!ReplyDropped
  <2> QED
    BY <1>3, <2>1, <2>2, <2>3, <2>4, <2>5, <2>6 DEF Cam!Handler
<1>4. ASSUME NEW h \in Handlers, NEW t \in Pool, Cam!ReplyArrives(h, t) PROVE Goal
    BY <1>4 DEF Cam!ReplyArrives, Cam!CallReturns
<1>5. ASSUME NEW h \in Handlers, NEW t \in Pool, Cam!CallFails(h, t) PROVE Goal
    BY <1>5 DEF Cam!CallFails, Cam!CallReturns
<1>6. ASSUME NEW t \in Pool, Cam!Compare(t) \/ Cam!Assign(t) PROVE Goal
    BY <1>6 DEF Cam!Compare, Cam!Assign, Cam!serverVars
<1>7. CASE UNCHANGED Cam!vars
    BY <1>7 DEF Cam!vars, Cam!serverVars, Cam!stationVars
<1> QED
    BY <1>1, <1>2, <1>3, <1>4, <1>5, <1>6, <1>7 DEF Cam!Next

\* Every step keeps what concerns the callbacks.
LEMMA CamNextCallbacks ==
    ASSUME Cam!Inv, [Cam!Next]_Cam!vars
    PROVE  Cam!CallbackHolds'
<1> USE DEF Cam!Inv, Cam!TypeOK, Cam!CallbackHolds
<1>1. CASE Cam!CameraExits
    BY <1>1 DEF Cam!CameraExits, Cam!stationVars
<1>2. ASSUME NEW h \in Handlers, Cam!EnableCamera(h) PROVE Cam!CallbackHolds'
    BY <1>2 DEF Cam!EnableCamera
<1>3. ASSUME NEW h \in Handlers, Cam!Handler(h) PROVE Cam!CallbackHolds'
    BY <1>3 DEF Cam!Handler, Cam!stationVars
<1>4. ASSUME NEW h \in Handlers, NEW t \in Pool, Cam!ReplyArrives(h, t) PROVE Cam!CallbackHolds'
    BY <1>4 DEF Cam!ReplyArrives, Cam!CallReturns
<1>5. ASSUME NEW h \in Handlers, NEW t \in Pool, Cam!CallFails(h, t) PROVE Cam!CallbackHolds'
    BY <1>5 DEF Cam!CallFails, Cam!CallReturns
<1>6. ASSUME NEW t \in Pool, Cam!Compare(t) \/ Cam!Assign(t) PROVE Cam!CallbackHolds'
  <2>1. CASE Cam!Compare(t) /\ enabled # (held[t] = "ENABLED")
    BY <2>1 DEF Cam!Compare
  <2>2. CASE Cam!Compare(t) /\ enabled = (held[t] = "ENABLED")
    BY <2>2 DEF Cam!Compare, Cam!Applied
  <2>3. CASE Cam!Assign(t)
    BY <2>3 DEF Cam!Assign, Cam!Applied
  <2> QED
    BY <1>6, <2>1, <2>2, <2>3
<1>7. CASE UNCHANGED Cam!vars
    BY <1>7 DEF Cam!vars, Cam!stationVars
<1> QED
    BY <1>1, <1>2, <1>3, <1>4, <1>5, <1>6, <1>7 DEF Cam!Next

\* Every step keeps what the station knows.
LEMMA CamNextKnows ==
    ASSUME Cam!Inv, [Cam!Next]_Cam!vars
    PROVE  Cam!StationKnows' /\ (alone' => Cam!ReplyKnows')
<1> DEFINE Goal == Cam!StationKnows' /\ (alone' => Cam!ReplyKnows')
<1> SUFFICES ASSUME alone' PROVE Goal
    BY DEF Cam!StationKnows
<1>0. /\ alone /\ Cam!CallsInv /\ Cam!ReplyKnows /\ Cam!StationKnows
      /\ Cam!WaitingBusy /\ Cam!CallbackHolds /\ Cam!TypeOK
    BY CamNextCalls DEF Cam!Inv
<1> USE NoHandlerAssumption DEF Cam!ReplyKnows, Cam!StationKnows, Cam!NobodyBusy
<1>1. CASE Cam!CameraExits
    BY <1>0, <1>1 DEF Cam!CameraExits, Cam!stationVars
<1>2. ASSUME NEW h \in Handlers, Cam!EnableCamera(h) PROVE Goal
    \* a call is under way, and waited for
    BY <1>0, <1>2 DEF Cam!EnableCamera, Cam!TypeOK
<1>3. ASSUME NEW h \in Handlers, Cam!Handler(h) PROVE Goal
  <2>1. UNCHANGED Cam!stationVars
    BY <1>3 DEF Cam!Handler
  <2>2. CASE Cam!ReplyDropped(h)
    <3>1. pc[h] = "reply" /\ waiting # h
      BY <2>2 DEF Cam!ReplyDropped
    <3>2. waiting = NoHandler
      BY <1>0, <3>1 DEF Cam!TypeOK, Cam!WaitingBusy, Cam!CallsInv, Cam!OneCaller
    <3>3. ~known /\ held[latestReply] \in {"UNDEFINED", "none"}
      BY <1>0, <3>1, <3>2
    <3>4. ~known' /\ held'[latestReply'] \in {"UNDEFINED", "none"}
      BY <2>1, <3>3 DEF Cam!stationVars
    <3> QED
      BY <3>4
  <2>3. CASE ~Cam!ReplyDropped(h)
    <3>1. ~Cam!NobodyBusy /\ ~Cam!NobodyBusy'
      BY <1>0, <1>3, <2>3 DEF Cam!Handler, Cam!Test, Cam!Launch, Cam!Own, Cam!Status, Cam!Kill, Cam!TypeOK
    <3> QED
      BY <1>0, <2>1, <3>1 DEF Cam!stationVars
  <2> QED
    BY <2>2, <2>3
<1>4. ASSUME NEW h \in Handlers, NEW t \in Pool, Cam!ReplyArrives(h, t) PROVE Goal
  <2>1. /\ latestReply' = t /\ held'[t] = reply[h] /\ ~known'
        /\ rpiCam' = rpiCam /\ quiet' = quiet /\ pc' = [pc EXCEPT ![h] = "idle"]
    BY <1>0, <1>4 DEF Cam!ReplyArrives, Cam!CallReturns, Cam!TypeOK
  <2>2. pc[h] = "reply" /\ Cam!NobodyBusy'
    BY <1>0, <1>4, <2>1 DEF Cam!ReplyArrives, Cam!CallsInv, Cam!OneCaller, Cam!TypeOK
  <2>3. /\ reply[h] # "ENABLED" => rpiCam # "running"
        /\ reply[h] = "ENABLED" /\ quiet => rpiCam = "running"
    BY <1>0, <2>2 DEF Cam!CallsInv, Cam!CallKnows
  <2> QED
    BY <2>1, <2>2, <2>3
<1>5. ASSUME NEW h \in Handlers, NEW t \in Pool, Cam!CallFails(h, t) PROVE Goal
  <2>1. held'[latestReply'] = "UNDEFINED" /\ ~known'
    BY <1>0, <1>5 DEF Cam!CallFails, Cam!CallReturns, Cam!TypeOK
  <2> QED
    BY <2>1
<1>6. ASSUME NEW t \in Pool, Cam!Compare(t) \/ Cam!Assign(t) PROVE Goal
  <2>1. UNCHANGED <<pc, rpiCam, quiet, waiting, latestReply>>
    BY <1>6 DEF Cam!Compare, Cam!Assign, Cam!serverVars
  <2>2. CASE Cam!Compare(t) /\ enabled # (held[t] = "ENABLED")
    <3>1. UNCHANGED <<held, known, enabled>>
      BY <2>2 DEF Cam!Compare
    <3> QED
      BY <1>0, <2>1, <3>1
  <2>3. CASE Cam!Assign(t) \/ (Cam!Compare(t) /\ enabled = (held[t] = "ENABLED"))
    <3>1. /\ held' = [held EXCEPT ![t] = "none"] /\ enabled' = (held[t] = "ENABLED")
          /\ known' = (t = latestReply /\ held[t] # "UNDEFINED") /\ held[t] # "none"
      BY <1>0, <2>3 DEF Cam!Compare, Cam!Assign, Cam!Applied, Cam!CallbackHolds
    <3>2. known' => held[latestReply] \in {"ENABLED", "DISABLED"} /\ t = latestReply
      BY <1>0, <3>1 DEF Cam!TypeOK
    <3>3. held'[latestReply] \in {held[latestReply], "none"}
      BY <1>0, <3>1 DEF Cam!TypeOK
    <3>4. Cam!StationKnows'
      BY <1>0, <2>1, <3>1, <3>2
    <3>5. Cam!ReplyKnows'
      BY <1>0, <2>1, <3>2, <3>3
    <3> QED
      BY <3>4, <3>5
  <2> QED
    BY <1>6, <2>2, <2>3
<1>7. CASE UNCHANGED Cam!vars
    BY <1>0, <1>7 DEF Cam!vars, Cam!serverVars, Cam!stationVars
<1> QED
    BY <1>1, <1>2, <1>3, <1>4, <1>5, <1>6, <1>7 DEF Cam!Next

\* The invariant holds in every reachable state, for any sets of handlers and
\* of pool threads.
THEOREM CameraInvariance == CameraSpec => []Cam!Inv
<1>1. Cam!Init => Cam!Inv
    BY CamInitInv
<1>2. Cam!Inv /\ [Cam!Next]_Cam!vars => Cam!Inv'
    BY CamNextTypeOK, CamNextCalls, CamNextCallbacks, CamNextKnows DEF Cam!Inv
<1> QED
    BY <1>1, <1>2, PTL DEF CameraSpec, Cam!Spec

\* Type correctness of the camera switch.
THEOREM CameraTypeCorrect == CameraSpec => []CameraTypeOK
<1>1. Cam!Inv => CameraTypeOK
    BY DEF Cam!Inv, CameraTypeOK
<1> QED
    BY <1>1, CameraInvariance, PTL

\* A station that was answered, and applied that answer last, knows whether the
\* camera is running unless it has exited since, although its own flag starts
\* uninitialised, connections break and callbacks run in any order and at the
\* same time.
THEOREM KnowsTrue == CameraSpec => []StationKnows
<1>1. Cam!Inv => StationKnows
    BY DEF Cam!Inv, StationKnows
<1> QED
    BY <1>1, CameraInvariance, PTL

\* Until calls overlap at most one camera process has an owner, or is about to
\* have one, and no handler uses a process that has been destroyed.
THEOREM OneProcess == CameraSpec => []OneCamera
<1>1. Cam!Inv => OneCamera
  <2> SUFFICES ASSUME Cam!Inv, alone
               PROVE  /\ Cardinality(spare) + (IF rpiCam = "running" THEN 1 ELSE 0) <= 1
                      /\ ~undefined
    <3>1. Cam!Cardinality(spare) = Cardinality(spare)
      BY DEF Cam!Cardinality, Cardinality
    <3> QED
      BY <3>1 DEF OneCamera, Cam!OneCamera
  <2> USE DEF Cam!Inv, Cam!TypeOK, Cam!CallsInv, Cam!SpareOwner
  <2>1. CASE spare = {}
    BY <2>1, FS_EmptySet
  <2>2. CASE spare # {}
    <3>1. PICK h \in Handlers : h \in spare
      BY <2>2
    <3>2. pc[h] = "own" /\ rpiCam # "running"
      BY <3>1 DEF Cam!CallKnows
    <3>3. spare = {h}
      BY <3>1, <3>2 DEF Cam!OneCaller
    <3>4. Cardinality(spare) = 1
      BY <3>3, FS_Singleton
    <3> QED
      BY <3>2, <3>4
  <2> QED
    BY <2>1, <2>2
<1> QED
    BY <1>1, CameraInvariance, PTL
=============================================================================
