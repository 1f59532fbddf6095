# QBot: TLA+ models, model checks and proofs

QBot is a remotely driven rover in three layers. **l2** (Qt, the operator's
station) reads a gamepad and calls the gRPC service of **l1** (C++, on the
rover's single-board computer), which turns a drive call into one message per
wheel and writes it to one or several microcontrollers that run **l0** (Arduino
firmware), which set the motors and print telemetry. This directory models the
three layers in TLA+, checks the models with TLC and proves the most important
safety properties with TLAPS.

    tlc -workers 2 -config MultipleUcChassis.cfg MultipleUcChassis
    tlapm CommandExecutorProofs.tla

`PROJECT.json` lists the components, the runs, a mutant for every checked
property, the lines every definition models, the hazards of the code and the
theorems.

## 1. The system

    l2 station                     l1 on the rover                         l0
    ----------                     ---------------                         --
    gamepad timer  -post->         gRPC handler threads
    telemetry timer -post-> pool --calls--> drivePwm -> command executor
    camera button  -post-> threads          |              | callback
                           1 mutex          |              v
                                            |        Chassis::notify -> wheels
                                            |              |  (JSON sink)
                                            |              v
                                            |         serial port --line--> loop
                                            v              ^                 |
                            getWheelFeedback, camera       +----telemetry----+
                                            ^                 io_service thread
                                            +--- Wheel::state

| component | state it keeps | operations | who runs them |
|---|---|---|---|
| command executor (`sequentialcommandexecutor`) | a `std::queue` of commands, without a lock | `addCommand`, `exec` | every gRPC handler thread |
| chassis and wheels (`model/`, `*ucchassismodel`) | wheels in order; each wheel's last feedback, with a mutex | `notify`, `processFeedback`, `sendMessage`, `setFeedback`, `state` | handler threads (out), io_service thread (in) |
| JSON sink (`utils/jsonsink`) | the entries collected so far, without a lock | `write`, `toString` | handler threads |
| serial port (`serial/serialport`) | descriptor, pending read | `write`, `connect_message_read`, `on_message_received`, `on_error` | handler threads write, io_service thread reads and closes |
| line reader (`ReadLineAlgorithm`) | a `stringstream` | `operator()` per chunk | io_service thread |
| dispatcher and messages | the tree being dispatched | `onRead`, `notify`; the getters of `WheelRecvMessage` | io_service thread; handler threads |
| camera service (`chassisserviceimpl`) | the child process `rpiCam` | `startPeripheralDevice` | handler threads |
| application, gRPC server (`main`, `grpcserver`) | the model, `server`, `server_thread`, signals, health timer | constructor, `run`, `kill`, destructor, `check_health` | main thread and `server_thread` |
| device detection (`serialportinfo`, `serialdevicefinder`) | the list of (ID, port) | `listSerials`, `list`, `map`, `retrieve_id`; then the models' constructors | one thread per port, main thread |
| station (`l2/appengine`, `grpcclient`) | timers, a pool of two threads with its queue, one mutex, `m_cameraEnabled` | `onGamepadTimeout`, `onTelemetryTimeout`, `enableCamera`, the jobs, the destructors | Qt thread, pool threads |
| firmware (`l0`) | receive buffer, JSON buffer, duty cycle and direction | `run`, `parse_cmd`, `apply_cmd`, `print_feedback` | one loop, with interrupts off while it prints |

Interactions: l2 to l1 by synchronous gRPC calls without a deadline or a retry;
inside l1 by direct calls, two shared unlocked containers (the queue, the sink)
and a weak pointer for the server; l1 to l0 and back by lines of text on a
serial line.

What makes correctness hard, component by component:

* **executor**: handler threads interleave inside `exec()`; a callback that
  throws leaves its command queued. Correct if commands are launched in order,
  one at a time, each to completion, and an answer OK means what it says.
* **chassis, sink, port**: a write fails in the middle of a walk over the
  wheels, and a port is closed between the test and the write. Correct if the
  wheels that can be reached end up with the newest command, and never go back.
* **line reader**: chunks have nothing to do with lines. Correct if lines are
  delivered whole, in order, and no byte is lost.
* **telemetry**: the pointer `state()` returns is read outside the mutex.
  Correct if a reply is never older than what was known when the call began.
* **camera**: the request toggles, the connection may break while the handler
  runs on, replies are applied in any order, the process may exit.
  Correct if the station that has heard knows, and there is one process at most.
* **lifecycle**: a signal may come at any line; the model, the server and the
  thread must be released in an order that suits the handlers.
* **detection**: devices answer in any order, from the middle of a line, or not
  at all, and may be unplugged at any moment. Correct if each wheel gets its own
  microcontroller, and the process starts or ends.
* **station**: two threads race for one mutex, calls are lost, and l1 launches
  again what it could not write. Correct if the rover ends up doing what the
  stick says, and if the window can be closed.
* **firmware**: lines are written in part, pieces of them are lost, and the rest
  runs together until it fills a buffer; two registers are written one after the
  other. Correct if the motor obeys what it got whole, and recovers.

The hazards in detail, each at its line, are in `PROJECT.json`.

## 2. The modules

In the order they were planned and written: the drive path first, for it is what
the rover is for.

| module | models | instantiates |
|---|---|---|
| `SequentialExecution` | abstract: what the executor promises | |
| `CommandExecutor` | queue and `exec()`, statement by statement | `SequentialExecution` (refinement) |
| `SerialPort` | life of the ports, health check | |
| `MultipleUcChassis` | one microcontroller per wheel | `CommandExecutor`, `SerialPort` |
| `SingleUcChassis` | one microcontroller, shared sink | `CommandExecutor`, `SerialPort` |
| `LineStream` | abstract: what a reader of lines promises | |
| `LineReader` | `ReadLineAlgorithm` | `LineStream` (refinement) |
| `Telemetry` | from a line to the reply | |
| `RemoteStation` | the station's drive path | |
| `ServerLifecycle` | start, signal and end of l1 | |
| `DeviceFinder` | detection and binding | |
| `Camera` | the camera switch, both sides | |
| `OrionFirmware` | the loop of l0 | |
| `MCServerLifecycle`, `MCCamera` | their runs and proofs start here: the same module under names that can stand beside another component's | `ServerLifecycle`, `Camera` |

The theorems stand in modules of their own:

| module | theorems about |
|---|---|
| `CommandExecutorProofs` | `CommandExecutor` |
| `MultipleUcChassisProofs`, `SingleUcChassisProofs` | the two chassis; both use the theorems of the executor |
| `LineReaderProofs`, `TelemetryProofs`, `OrionFirmwareProofs` | the module of that name |
| `ProcessProofs` | the process l1: its start (`DeviceFinder`) and its end (`ServerLifecycle`, through `MCServerLifecycle`) |
| `StationProofs` | the operator's station: driving (`RemoteStation`) and the camera (`Camera`, through `MCCamera`) |

### CommandExecutor
`commands` is the `std::queue`; a command is the number it was registered with,
for the queue never looks into one. `pc[h]` is handler h's place in `exec()`, and
each statement that touches the queue is an action: `Test` (`while
(commands.size())`), `Front`, `Execute`, `CallbackReturns` or `CallbackThrows`,
`Pop`. `DrivePwm` is `addCommand` and the entry into `exec()`;
`DriveDifferential` throws before anything is queued. `Misuse` stands for
`front()` or `pop()` on an empty queue and `execute()` on a freed command: it
sets `undefined`, after which nothing moves and nothing is claimed. One queue
operation is atomic, which is the kindest reading of the data race on it; every
disagreement found is therefore there under any reading.

Whether calls overlap is up to the callers. `GrpcClient` holds a mutex for the
whole of a call, so that one station makes one call at a time; but a second
station may call, and when a connection breaks the mutex is free although the
handler may still run in l1. `MayOverlap` allows both. The history variable
`alone` is TRUE until a call has begun while another was handled, and what
needs calls one at a time is stated as "as long as `alone`": the properties say
when they cease to hold, in one model, instead of excluding the case.

`Promise == INSTANCE SequentialExecution` maps `done` to the number of commands
that have left the queue and `running` to the command in the callback. A callback
that throws maps to `Abort`: the command stays in front and is launched again
first.

### SerialPort, MultipleUcChassis, SingleUcChassis
`SerialPort` has, for each port, whether the device is there (`plugged`), the
descriptor (`open`), the pending read (`reading`) and unread chunks. The
completion handlers of the io_service thread are one step each: `ReadChunk` reads
and arms the next read, `ReadFails` closes. Nothing opens a port again: hot-plug
is commented out in `main.cpp`.

The two chassis modules refine the executor's callback into what it really is,
`Chassis::notify`. In `MultipleUcChassis` a handler goes from wheel to wheel
(`cursor`); the test `if (*sh_sink)` (`SeeOpen`, `SkipClosed`) and the write
(`WriteSome`, `WriteFails`) are separate steps, between which the io_service
thread may close the port. In `SingleUcChassis` the walk fills the sink
(`Collect`), the two statements of `toString()` write out its content (`WriteJson`)
and clear it (`Clear`), each atomic, and then the packet is written. What another handler
adds between the two is cleared unsent.
`IsExecutor` checks that the walk is a callback as the executor's model assumes
one. What is checked and proved of `CommandExecutor` therefore holds in the
composition.

### LineReader
A byte is the number of its line, or the delimiter. `Read(n)` is `operator()` on
the first n bytes of the tty, with `getline` modelled by what it extracts and what
it leaves. The port may be opened in the middle of the first line. `LineStream`, which it
implements, is about the texts themselves: what the consumer was handed is the next line
that was printed, byte for byte, but for the head of the first.

### Telemetry
The io_service thread stores the message it is dispatching with each wheel it
names: `BeginStore` takes the wheel's mutex and `EndStore` gives it back. A
handler calls `state()` for each of the five fields (`State`, which waits for the
mutex) and reads the field afterwards (`ReadField`), outside the mutex.
`ReadTorn` is that read during a store: undefined behaviour.

### RemoteStation
`GamepadTick` and `PostQuery` post jobs; a pool thread takes one (`Take`), gets the
mutex (`Lock`), makes the call, which is answered (`CallReaches`), fails (`CallFails`) or
hangs with the mutex held (`CallHangs`, `HangEnds`), for calls have no deadline, and runs
the callback (`CallbackEnds`). `Pwm` is `process_input` with the dead zone, the reversed
axis and the truncation to int. `Close` and `Join` are the end of the application:
the timers stop, and `~GrpcClient` waits for the jobs that are left.

The rover is the last PWM its wheel was told, with the queue `left` that l1 keeps
between calls: a launch whose serial write throws leaves its command and those
behind it (`CommandExecutor`), and the next call launches them first. `Launch` says
how far a call gets; the wheel may have been told of a launch that threw.

A lost call may have reached l1 all the same. Its handler then runs on (`late`) while the
station's mutex is free, and does its work at any later time (`LateRuns`), beside the
handlers of younger calls. What handlers that run at the same time leave behind is
`LaunchRaced`: the wheel was told any of the commands last, and any number of them has
been popped, launched or not. `CommandExecutor` shows how that comes about statement by
statement; here it is enough that every outcome is allowed.

### ServerLifecycle
One place for the main thread, one for `server_thread`, and the pointer `server`
that they share. The chassis model is alive while `App` owns it or `run()` holds
`sh_model` (`ModelAlive`, `InRun`), which it does until it returns. `WaitOnNothing` is `Wait()` on a null or destroyed server, as
undefined behaviour. It is reached when the port was taken, and when `reset()`
overtakes the return from `Wait()`.

### DeviceFinder
What is at each entry of `/sys/class/tty` is chosen freely at the start: the
microcontroller of a wheel, another device that makes noise or is silent, or one
that `listSerials` filters out by its name or driver. `Vanish` unplugs a device at
any moment until the chassis is built: `Filter` then throws, or `Open`, or the
read (`ReadFails`), or the constructor that opens the port again (`Bind`).
`ReadLine` counts failed attempts; `Collect` takes the futures in port order (`Place` is
a port's place among the `relevant` ones, `Result` what its future gives);
`mapping` is `map()`, where the first entry of an ID wins. `TooFew`, `BindWheel` (one
step per wheel) and `BindAll` are the models' constructors; "aborted" is an
exception that `main` catches, "terminated" one that it does not. `single_uc` is the
build option, and the run covers both builds.

### Camera
The button's call, `startPeripheralDevice` line by line with the unowned child
between `make_unique` and the assignment, and the callback at the station, which
runs after the mutex was given back: pool threads hold the replies they have yet to
apply (`held`) and may apply them in the wrong order. `setCameraEnabled` is two steps, the
comparison with its early return (`Compare`) and the assignment (`Assign`), between which
another callback may run. `CallFails` is a connection
that breaks before the request arrives or while the handler runs; the handler's
reply is then dropped (`ReplyDropped`), and its next lines may overlap another call
(`alone`, as in `CommandExecutor`).

Two history variables say when the station can know. `known` looks at the station alone:
the reply applied last is the latest, and was not lost. `quiet` looks at the process
alone: none has exited since a handler decided on its answer. Neither looks at what was
answered, so that a handler that answers the wrong status, or a callback that sets the
wrong flag, violates `StationKnows`.

### OrionFirmware
A command line is three pieces on the wire. `SendPart` is a `write_some` of l1 that
takes only the first of them, and any may be lost while the receive buffer is full or
interrupts are off. Without their delimiters lines run together, until
`readBytesUntil` has filled the buffer of `parse_cmd` (`MaxLine`). What is left is parsed as the code
would parse it: two pieces that do not belong together give a number nobody sent.
`speed` is an `int16_t`, `pwm` 8 bits wide, and `abs(-32768)` is itself.

## 3. What is checked

All passing runs finish with the whole state space explored.

| run | instance | shows |
|---|---|---|
| `executor` | 3 handlers, 3 commands, calls overlap or not | until calls overlap: no undefined queue access, nothing dropped, OK means delivered, `SequentialExecution` is refined, every call returns; ever after: OK means that the command has left the queue |
| `executor_skip` (violation) | 2 handlers, 3 commands | when calls overlap a command is popped that nobody launched (section 6) |
| `multiple` | 2 handlers, 2 commands, 2 wheels (as `WHEEL_COUNT`), calls overlap or not | until calls overlap: reachable wheels follow the newest command and never go back, OK reaches every open wheel; always: a lost device is reported for good, and the walk implements the executor's callback |
| `single` | 2 handlers, 3 commands, 2 wheels, calls overlap or not | until calls overlap: packets are whole even after failed writes, and the rover follows; always: entries never pile up in the sink |
| `line_reader` | 6 lines of 2 bytes, 9 bytes of tty | whole lines in order, no byte lost, refines `LineStream`: the texts handed over are those printed |
| `telemetry` | 2 wheels, 1 reader, 2 lines | what a reply shows of a wheel is never older than the call, nor goes back |
| `telemetry_error` (violation) | the same | an error of the driver is reported as none (section 6) |
| `station` | 2 threads, stick at 0 and 100 %, 3 ticks, one command kept by l1, one late handler | few commands overtaken; unless a call hangs for ever the rover settles, and the window can be closed |
| `lifecycle` | 3 calls under way | the model outlives the calls; a signal ends a waiting server |
| `finder` | 3 entries, 2 wheels, every kind of device, one unplugged, both builds | right wheel, dies only if a microcontroller is missing, detection ends, a healthy rover starts |
| `camera` | 3 handlers, 2 pool threads | until calls overlap: the station knows; one process, none misused |
| `firmware` | magnitudes 255 and 300, 3 commands, buffers of 4 and 3 pieces | the motor obeys, and of two whole commands the second gets through |

**Bounds.** `MaxCommands` 3 lets a failed command be launched again with a
younger one behind it, and one more registered while that goes on; in `multiple`, whose
handlers take a step per wheel, 2 commands still give a failed one and a younger one.
With two handlers every race in `exec()` is between one that tests and one that
pops; the third in `executor` shows that idle threads do no harm. Two
wheels are the real number of the multiple build, and are one left and one right;
the single build has four, of which two, one of each side, are checked. One unread chunk per port (`MaxUnread`) is
enough to tell a port with a read armed from one without; none is needed where
reading plays no part. A line of two bytes has a beginning, a middle and an end to
be cut at; nine bytes of tty hold three lines, so that a chunk can hold several
and part of another. Three entries for two wheels allow a missing, a doubled and a
superfluous device; `MaxFaults` 1 lets one microcontroller complain and one device
be unplugged, which may be two different ones; `MAX_ATTEMPTS` is the real 5. The
positions 0 and 100 are rest, which is inside the dead zone, and the end of the axis. `MaxLeft` 1
is a command whose write failed, with the next call behind it; a second one would
only be launched in front of the same call. `MaxLate` 1 is a handler left behind
by a lost call, which races the handler of the next; a second one would add to a race
whose every outcome `LaunchRaced` already allows. 255 and 300 are the
largest value l1 sends for a full stick and one that does not fit the register. Four
pieces of receive buffer hold one line and the head of the next, which is what can run
together; three in `parse_cmd`'s let it be filled by them. `MaxTicks` only numbers the
ticks: those after it share its number. Three tell two commands from a younger one that
overtakes them both, which is what `FewOvertaken` forbids.

`CHECK_DEADLOCK FALSE` is said where the system may stop: after undefined
behaviour, when the process has ended or hangs, and where a model stops at its
bound with nothing left to do.

**Fairness**, and why the code justifies it:

* handler threads (`CommandExecutor`, the chassis modules): weak, on the disjunction
  of a thread's steps. The serial write is synchronous and waits for no other
  thread; whether it succeeds or throws is left open. `MaxCommands` hides one
  thing: with calls arriving for ever a handler could serve others' commands
  without end; `CallsReturn` says that it is otherwise answered, as long as calls do
  not overlap.
* io_service thread: weak on completed reads and on the timer, which it serves in turn.
* station: strong on `GamepadTick`, for a Qt timer fires whatever happens and only
  the bound `MaxJobs` ever stops it; weak on each pool thread's own steps and on
  "somebody gets the mutex", but not on a particular thread, since `std::mutex` is not
  fair; weak on the handler of a lost call, which runs in l1; strong on "some call reaches
  the rover and launches all that is queued", which says that neither the network nor the
  serial line fails for ever. A call ends or hangs, and nothing is assumed of the end of a
  hang: calls have no deadline. `RoverSettles` and `ExitEnds` say so themselves: they hold
  if again and again no call hangs (`[]<>NoneHangs`), and with one that hangs for ever
  neither does, for it holds the mutex. `ExitEnds` does not need the strong one on calls.
* lifecycle: threads run and calls end, by `CallsReturn`.
* detection: threads run, and a device that is not silent keeps sending lines, as l0
  does. A device that is silent and stays is excepted in `DetectionEnds`, for a read
  has no timeout; nothing is assumed of unplugging.
* firmware: the loop runs, and what is on the wire arrives or is lost.
* line reader: weak on reading; no property depends on it.

**Mutants.** For every property of a passing run there is a fault of the mapped
code that breaks it under the same configuration: a do-while loop, a pop that also
runs when the callback throws, a sink that is not cleared, a read that is not armed
again, the model released before the server, a dead zone that is silent, timers that
outlive the pool, a byte too many written to the stream, a camera that is killed and
answered ENABLED, a server released and not destroyed, a size check that is off by one.
They stand before the definition they would replace, marked as
faults.

## 4. What is proved

Every safety property that a passing run checks is proved, action properties and the
safety part of the refinements included, for all values of the constants.

| theorem | of | says |
|---|---|---|
| `Invariance`, `TypeCorrect` | `CommandExecutor` | `Inv` and `TypeOK` always hold |
| `OkGone` | | an answer OK means the command has left the queue, however calls overlap |
| `NoneAreSkipped`, `NothingMisused`, `OkDelivered` | | until calls overlap: nothing dropped, no undefined access, OK means delivered |
| `Refinement` | | until calls overlap every step is one of `Promise` or a stutter |
| `ChassisInvariance`, `ChassisTypeCorrect` | `MultipleUcChassis` | `Inv` (the executor's is a part of it) and `TypeOK` |
| `HealthyFollow`, `OkApplied`, `NoneGoesBack` | | until calls overlap: reachable wheels follow, OK reached them, none goes back |
| `WalkIsCallback` | both chassis | every step is one of the executor or a stutter, however calls overlap |
| `ChassisInvariance`, `SinkStaysBounded` | `SingleUcChassis` | `Inv` (with its `TypeOK`); entries never pile up, however calls overlap |
| `PacketsWhole`, `RoverInStep` | | until calls overlap: packets are whole, the rover follows |
| `ReaderInvariance`, `ReaderTypeCorrect`, `LinesAreWhole`, `NoByteLost` | `LineReader` | whole lines, in order, no byte lost |
| `StreamsLines` | | it implements `LineStream`: the text handed over n-th is that of the line printed n-th |
| `TelemetryInvariance`, `TelemetryTypeCorrect`, `ResponsesFresh` | `Telemetry` | replies are fresh and never go back |
| `FinderInvariance`, `FinderTypeCorrect`, `WheelsRight`, `DiesForMissing` | `DeviceFinder` | right wheels; dies only if a microcontroller is missing |
| `LifeInvariance`, `LifeTypeCorrect`, `ModelSafe` | `ServerLifecycle` | the model outlives the calls |
| `StationInvariance`, `StationTypeCorrect`, `FewOvertakenSafe` | `RemoteStation` | PWM fits, few overtaken |
| `CameraInvariance`, `CameraTypeCorrect`, `KnowsTrue`, `OneProcess` | `Camera` | until calls overlap: a station that applied the latest reply last knows, unless the camera has exited since; one process, no misuse |
| `FirmwareInvariance`, `FirmwareTypeCorrect`, `MotorObedient` | `OrionFirmware` | while nothing is lost the motor does what it was told |

**Assumptions.** Only those that the modules name, which TLC evaluates in every
run. Bounds are naturals (`ChassisAssumption` and the like); a line and the room on the
tty are not empty (`LineAssumption`); a rover has a wheel (`TelemetryAssumption`,
`FinderAssumption`); `parse_cmd`'s buffer holds a whole line, as its 100 bytes do
(`FirmwareAssumption`); thread pools are finite (`HandlersAssumption`,
`StationAssumption`) and stick positions are percentages. `IdAssumption` says that the
texts of different wheel numbers differ and are none of the words a port may give
instead; TLAPS knows nothing of `ToString`. The name for no handler is not a handler's
(`NoHandlerAssumption`).

How the arguments go:

* **executor.** `NoneSkipped` is not inductive: it says nothing about where the
  handlers are. `QueueIsRecent` says that the queue always holds the latest
  registered commands as consecutive numbers, so what has left it is `1..done`. With it
  and `OwnRegistered`, OK (returned when the queue is empty) implies that the
  command has gone; that needs no assumption on calls. `Alone` adds, as long as
  `alone`, that one handler at most is busy, and that past the loop's test it still has
  an element in front, which past `front()` is the one its reference denotes, and
  before `pop()` has been delivered. Then `pop()` removes what was delivered. The
  refinement follows from the invariant action by action: `Front` and the tests
  stutter, `Execute` is `Launch`, `Pop` is `Finish`, `CallbackThrows` is `Abort`.
* **chassis.** Every step of a chassis module is one of the executor's or leaves its
  variables alone (`WalkIsCallback`), which carries the executor's invariant over; the
  lemmas `Guaranteed`, `CallEffect` and `ExecEffect` of `CommandExecutorProofs` say what
  the chassis needs to know of it. On top of it, as long as `alone`, `InStep` relates
  a wheel that can be reached to the queue: it was told the last command that left it, or
  the one in front, whose launch is under way or has failed. `Informed` says the same of
  the walk: no reachable wheel behind the cursor lacks the command. A launch that is
  repeated tells a wheel the same command again, never an older one, which is
  `NeverGoesBack`. In the single build `SinkIsOwn` says that the sink holds just what the
  walk under way has collected, until it clears it: a failed write does not disturb it, for
  the sink was cleared before. `SinkBounded` needs no `alone`. It is inductive by counting the
  pairs in `Collected`: a `write()` adds one to both sides, a handler that has written the
  sink out still counts until it clears it, and clearing empties the sink.
* **line reader.** `NothingLost` is stated in closed form, so that it can be proved
  without induction: position by position, the stream followed by the tty is the lines
  after those delivered (`AreLines`), less what was missed of the first. A chunk moves
  bytes from one to the other; and the first delimiter in such a sequence is the end of its
  first line, which is therefore what `getline` extracts. `WholeLines` follows, and the
  refinement of `LineStream`, whose `printed` are the texts of the lines sent so far: a chunk
  that delivers appends the next of them, less the head that was missed.
* **telemetry.** `StoredIsNewest` ties what is stored to the line being dispatched,
  `BeginsBefore` makes what a call knew at its beginning a lower bound for ever after, and
  `InsideChassis` keeps the reader within the wheels, so that each field it adds lies
  between what it had before and the newest line.
* **detection.** `AnswersOwn`: a thread that is done has an answer its device can give,
  of its own port. `Gathered`: entry n of the list is the answer of the port with n before it;
  since `Place` grows with the port it gives every port one entry. `BoundRight`: each
  wheel bound so far has the port that `mapping` gives for its ID. `DiesOnlyIfMissing` needs
  the pigeonhole principle: if all IDs were in the mapping it would have as many keys
  as there are wheels, and `NotEnough` would not hold.
* **lifecycle.** The invariant ties `server` to the places of both threads (`ServerLife`):
  only `kill()` stops it, and it is "stopped" only when no call is under way (`NoCalls`).
  `App` owns the model until the join (`AppOwns`), which needs an ended thread, which needs a
  stopped or reset server; so that a call finds `run()` still there, with its `sh_model`, and
  the weak pointer that `run()` locks has not expired.
* **camera.** As long as `alone`, `OneCaller` makes `CallKnows` inductive: what a
  handler found at its test still holds at each later line, for by itself a camera
  can only exit; its answer is therefore true as long as `quiet`. `SpareOwner` says that a
  process not owned yet belongs to the one caller, which found the camera off.
  `ReplyKnows` carries the truth of the latest reply from the handler to the callback, which
  may be applied after callbacks of earlier calls, and after a broken call has left its
  handler behind; `CallbackHolds` says that a callback between its two steps still has its
  reply, and that `known` means that no later one waits. A flag that is not assigned had the
  reply's value already: that is the early return.
* **station.** `Sorted` and `QueueYounger` say that queued commands are in the order
  of their ticks and none is older than what has left the queue. A thread that has
  just taken a job is then not overtaken, nor is one whose call just ended. So
  `OneAhead` (some thread holds no overtaken command) survives every step, and gives
  `FewOvertaken` by the cardinality of a proper subset. A call that is lost leaves its thread
  without a job, whatever its handler does later.
* **firmware.** While nothing is lost, a head and a tail that follow each other on their way
  from the wire to the line are of one command (`PairsMatch`), even if lines run together and
  the buffer fills up in the middle of one; what is parsed is thus a number that was sent
  (`SpeedTold`). `RegistersFollow` says which of the two registers has been written. That
  `GetSpeed` gives back what they were set from, for either sign, is a lemma about
  16-bit and 8-bit arithmetic.

Each inductive invariant was checked by TLC in the instance of the module's run. Two of
their shapes say something of the code: `InStep` of the multiple build allows the front
command at any time, not only during a launch, for a launch that fails leaves some
wheels told; and `PairsMatch` speaks of the wire and the receive buffer together, since
the pieces of a line may be apart.

Only model-checked, being out of the prover's reach: all that is liveness under fairness
(`CallsReturn`, `LossesReported`, `SignalEnds`, `RoverSettles`, `ExitEnds`, `DetectionEnds`,
`StartsUp`, `Recovers`), and with it the fairness that `IsExecutor` asks of the
chassis. The runs that expect a violation are TLC's as well.

## 5. What is not modelled, and other limits

* l2's user interface and mplayer, protobuf and gRPC themselves, build files, the
  netcat script: layout, external code, or no behaviour. gRPC is what its callers
  see: handlers on any thread, a call that may fail on either way.
* Names, drivers and links of `/sys/class/tty`: an entry is one that the filters keep
  or one that they drop, and the path to the driver of a device that has gone throws.
* In the chassis modules a write succeeds or fails; one that takes a part of its data
  looks like success to l1, and what it does to l0 is in `OrionFirmware`.
* ArduinoJson may point into the local buffer of `parse_cmd`, which is gone when
  `apply_cmd` reads the number (`Orion.h:57-61`, 73). The library is not in the
  repository; the value read is taken to be the one that was parsed.
* The end of the members of `AppEngine`: the camera's callback may read `address`
  while `~GrpcClient` joins, after it was destroyed (`appengine.h:55-59`).
* Calls of the station that overlap are taken in the kindest way, as in `CommandExecutor`: a
  queue operation is atomic, and what the race leaves is a queue of commands that were
  sent. m_cameraEnabled, which callbacks of two threads may assign at a time, is read and
  written whole.
* The signal of `setCameraEnabled`: all that receives it is a log (`RoverAction.qml:13`).
* The length of a backlog. The queue of the station is cut at `MaxJobs`, where the timer
  waits; in the code it grows without a bound while a call hangs.
* Branches that cannot be reached once start-up is over are left out: a null
  callback in the executor, an expired weak pointer to the port, a number of
  values that is not that of the wheels.
* Peripherals other than the camera are answered UNIMPLEMENTED and change nothing.
* A message is its line and the text of `ERR`; other values are not told apart.
* The properties of l0 about lost pieces do not bound what a garbled line may
  say: there is no checksum, and any number is possible.

## 6. Where the code and its documentation differ

Found while modelling; each is stated as a property in the module's last
section and was seen to be violated by TLC in a small instance. Two, which touch every
call and every reply, are kept as runs.

* **Commands of calls that overlap** (`CommandExecutor!AllLaunched`, run
  `executor_skip`). `exec()` pops what is in front (`sequentialcommandexecutor.cpp:35`),
  not what it executed. When two handlers overlap, both launch one command, both
  pop, and a command goes that nobody launched, while its call is answered OK.
  `sequentialcommandexecutor.h:36`: "all registered commands shall be launched one by
  one".
* **Packets of calls that overlap** (`SingleUcChassis!PacketComplete`).
  With the same cause, `toString()` (`singleucchassismodel.cpp:61`) writes out and clears
  what another handler is still collecting; lines 58-59: the sink "has all data that must be
  sent into a single microcontroller".
* **Telemetry lags** (`LineReader!NoLineWaits`). `serialport.h:84` delivers one line
  per chunk at the most, and none if the chunk does not end with a delimiter; lines 55-57: the callback is triggered
  "once a full line of data is received". The comment in lines 69-82 knows that the
  test is too weak, but not what it does to later lines. Since a chunk that ends with a delimiter
  removes one line and may have brought several, the stream never shrinks again.
* **state() is not thread safe** (`Telemetry!StateThreadSafe`). `wheel.cpp:27` returns a
  pointer from under the mutex; `wheel.h:58`: "The method is thread safe."
* **Errors read as none** (`Telemetry!ErrorCodeHonest`, run `telemetry_error`). l0 prints `ERR` as a JSON
  boolean (`Orion.h:87`), `wheelrecvmessage.cpp:43` asks for an integer and gets the
  default 0; `wheelrecvmessage.h:56`: "Error code '0' must mean 'no errors'."
* **kill() may stop nothing** (`ServerLifecycle!KillStops`). A signal served before
  `server` is assigned finds null (`grpcserver.cpp:30`), and the join never ends;
  `grpcserver.h:37`: "Stop gRPC server".
* **An ID without a port** (`DeviceFinder!Connectable`). A failed detection leaves a
  default pair in the list (`serialdevicefinder.cpp:38`);
  `serialdevicefinder.h:33-34`: "allows establishing a valid connection to the devices".
* **The camera toggles** (`Camera!EnableStarts`). `chassisserviceimpl.cpp:72` ends a
  running camera although ENABLED was asked for;
  `wymagania_zalozenia.rst:112-113`: the command to share the camera starts the stream.
* **A large PWM** (`OrionFirmware!ForwardMoves`). `Motor.h:17` cuts to 8 bits, so 256
  stops the motor; `service.proto:30-32`: a positive value moves the rover forward.
* **The dead zone sends** (`RemoteStation!DeadZoneSilent`). `appengine.cpp:87` posts
  zeros; `compliance_matrix.rst:159-162`: a stick there causes no sending. It is
  the code that is right: `RoverSettles` fails if nothing is sent (mutant `SilentTick`).

## 7. Plan

Done: every component of section 1, in the order of section 2; overlapping and
broken calls in the executor, the chassis, the station and the camera; partial writes,
commands that are launched again, unplugged devices, the end of the station; and proofs
of all safety properties. Next:

1. Prove: that what was true of the executor is so of both chassis by name
   (`NoneSkipped`, `OkMeansDelivered`, `InOrder` from `WalkIsCallback`); action properties of
   the modules that have only invariants so far (a binding never changes, `server`
   only moves forward); and that each wheel's telemetry never goes back between replies.
2. Compose `RemoteStation`, `MultipleUcChassis` and `OrionFirmware` end to end, with an
   abstract "the wheels turn as the stick says, in the end". The interfaces agree
   already: `Launch` is what the executor may do with a call, `SendPart` and `Send` what
   a write may do. The product is beyond TLC with the bounds above, but its safety
   need not be beyond the prover.
3. Compose `LineReader` with `Telemetry`, so that a reply is related to what l0 printed.
