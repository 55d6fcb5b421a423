# RocketFight, verified

TLA+ models of RocketFight V2 (`src/`): the game's two threads and what they
share, the benchmark that scores a fly-by-wire, and the server that compiles,
runs and ranks submitted ones.  TLC checks the models on small instances; TLAPS
proves every safety property the passing runs check for every value of the
constants, in the `*Proofs` modules.  What is left to TLC is liveness, and the runs
that show where code and comments part.

Paths below are relative to `src/src/`.

## The system

Two programs share most of the code.

*The game* runs a **simulation thread** (`sim/SimulationLoop.cpp`, 1 kHz) and a
**render thread** (`app/main.cpp`, once a frame).  They share two objects and
nothing else but a few atomics: a triple buffer that carries snapshots to the
renderer, and a single-producer single-consumer queue that carries commands to
the simulation.  The simulation holds the controllers: a pilot (stick, intent,
fly-by-wire), a direct pilot, and a benchmark with a script in the pilot's seat.
A fly-by-wire is built in or comes out of a shared library through a C ABI that
has no instance handle.

*The server* (`server/`) accepts submissions over HTTP on a pool of threads,
queues them, and has one worker that compiles and evaluates them in sandboxed
child processes.  Records live in memory and in one directory per submission.

| Component | State | Operations | Hard because of |
|---|---|---|---|
| Triple buffer `sync/TripleBuffer.hpp` | three slots, two private indices, one atomic word | `writeSlot`, `publish`, `acquire`, `read` | two threads, payload not atomic |
| SPSC queue `sync/SpscQueue.hpp` | ring, `head_`, `tail_`, `dropped_` | `push`, `pop` | two threads, payload not atomic, a bound |
| Input `render/InputTranslator.cpp`, `control/HumanInput.cpp` | the last value told per control; the simulation's copy | `poll`, `handleCommand`, `apply` | changes during a poll, hot-plugging, dropped commands |
| Simulation loop `sim/SimulationLoop.cpp` | rosters, switches, three controllers, the control held | `run`, `handleCommand`, `refitControllers`, `tickOnce`, `publish`, `stop` | commands inside a control period, loads that fail half way, shutdown |
| Submission library `control/AbiFlyByWire.cpp` | one per library, in the library | `load`, `reset`, `resolve`, destructor | a C ABI that is a singleton |
| Benchmark `control/Benchmark.cpp`, `eval/BenchmarkRunner.cpp` | script position, step accounting, last intent | `intent`, `sample`, `finish`, `setMode`, `reset` | two clocks that must agree; restarts at any tick |
| Server `server/server_main.cpp`, `server/Leaderboard.cpp` | records in memory and on disk, index counter, queue | POST, worker, `create`, `update`, `load` | threads, crashes, failing writes, exceptions in handlers of exceptions |
| Sandbox `server/Sandbox.cpp` | child, pipes, flags | `runSandboxed` | a child that does what it likes, a deadline |
| Evaluator `server/Evaluator.cpp` | the job matrix, results, the aggregate | `evaluateSubmission`, `runJob`, `weightFor` | partial failure, outcome against report, repeated runs |
| Catalogues `data/`, programs `eval/bench_main.cpp`, `eval/runner_main.cpp`, `app/main.cpp` | vehicles of a directory; a fleet, its reports | `load`, `find`, options, one run after another | hand-edited files, names that are cut short, state from run to run |
| Actuators `core/Rocket.cpp` | thrust, ignition timer, lit | `demandFor`, `stepActuators` | modes meeting at boundaries |
| Batch runner `eval/BatchRunner.cpp`, `eval/EpisodeRunner.cpp` | shared counter, results, an episode per thread | `runBatch`, `runEpisode` | threads |

What is left out is under *Not modelled*.

What makes each component correct is stated by its properties (below);
`PROJECT.json` lists the hazards, each at its line, with the properties that
catch it or the reason why none does.

## The modules

| Module | Models | Uses |
|---|---|---|
| `Mailbox` | what a triple buffer promises: a mailbox with the newest value | |
| `TripleBuffer` | `publish`, `acquire` and the reading frame, one action per memory access | refines `Mailbox` |
| `RunLoop` | `SimulationLoop::run`: draining, batches against the clock, giving up, publishing, the rate window | extends `TripleBuffer` |
| `RunLoopProofs` | the theorems about the buffer and about the loop round it | `RunLoop` |
| `BoundedFifo` | what the SPSC queue promises: a bounded queue that counts what it refuses | |
| `SpscQueue` | `push` and `pop`, one action per memory access | refines `BoundedFifo` |
| `SpscQueueProofs` | the theorems about it | `SpscQueue` |
| `InputPath` | device, translator, command queue, `InputState` | takes its queue from `BoundedFifo` |
| `Pilots` | the deadzone and what the two pilots make of the left stick | extends `InputPath` |
| `InputPathProofs` | the theorems about both | `Pilots` |
| `AbiFlyByWire` | what a submission library is called with | |
| `SimulationLoop` | the simulation thread, its controllers, `stop` | `AbiFlyByWire` |
| `SimulationLoopProofs` | the theorems about it | `SimulationLoop` |
| `Benchmark` | script, meter, harness, headless and in the game | |
| `RocketCatalogue` | vehicles out of JSON files, as operators: `parseRocketJson`, `load`, `find` | |
| `BenchPrograms` | bench, runner and the start of the game round the benchmark | extends `Benchmark`, `RocketCatalogue` |
| `BenchmarkProofs` | the theorems about the benchmark, and about the programs round it | `BenchPrograms` |
| `SubmissionServer` | request threads, forms, queue, worker, records and artifacts, restarts; which directories the game lists | |
| `SubmissionServerProofs` | the theorems about it | `SubmissionServer` |
| `Sandbox` | `runSandboxed` against its child | |
| `Evaluator` | `evaluateSubmission`: the matrix, `runJob`, scoring, the determinism check | extends `Sandbox` |
| `EvaluatorProofs` | the theorems about `Sandbox` and `Evaluator` | `Evaluator` |
| `Actuator` | `Rocket::demandFor`, `slew` and `stepActuators` as operators | |
| `Allocator` | `ThrustAllocator`'s clamping and `snapToThrustFloor`, for one thruster | extends `Actuator` |
| `Batch` | `runBatch`'s threads, `runEpisode`, the world | extends `Allocator` |
| `BatchProofs` | the theorems about the pool and about the engine in it | `Batch` |

`MC*.tla` give the constants of each for TLC.

**Memory orders** (`TripleBuffer`, `SpscQueue`).  A thread's `dirty` set is what
it touched since its last release, its `released` set what it has released and
the other has not yet acquired.  A release operation moves the first into the
second, an acquire operation of the other thread empties it.  Touching a slot
the other thread still has in either set is a data race; `RaceFree` says there
is none.  The relaxed accesses of the code are accesses of a thread to its own
index.  An acquire load is taken to synchronise with the last release, that is,
the atomic word itself is sequentially consistent; for one word, and two words
written by one thread each, C++ coherence allows nothing else that matters here,
except a load that returns an older value, which is the load made earlier.

**RunLoop** puts the publisher of `TripleBuffer` into the loop it runs in.  An
iteration is `Drain`, a batch of `TickOnce` that `EndBatch` closes, `FillSlot`
and `PublishSlot` if it stepped, and `Window`.  `late` counts the ticks owed, so
that `now >= nextTick` is `late >= 1`; `Elapse` adds one at any point, also
inside a batch, which is how a tick that takes longer than its period looks.
`age` counts the periods since the rate window was opened, up to the `WindowAge`
that make its 250 ms; with that many the window ends at the next `Window`.
Giving up leaves one tick due at once: the code moves the deadline to now.
Sleeping and yielding let time pass, which `Elapse` does anyway.  `tick` is
`World::tick()` modulo `Ticks`, `2^TickBits`; `Drain` may set it back to 0, for Reset and
a change of vehicle.  What commands and ticks do besides is in `SimulationLoop`.

**InputPath** has one control of each kind: an axis (changes below
`kAxisEpsilon` are not told), a button held, and a toggle that `handleCommand`
executes on its down edge.  The device may change in the middle of a poll, and
be replaced by another between two polls.  The order in which the two poll
functions visit the controls is one order here, axes first, as in both.
`Pilots` reads what arrives there: one axis of the left stick, in steps of the
device, through `applyDeadzone` to the fly-by-wire's pilot and without it to the
direct one.  The deadzone of the code is a circle in both axes of the stick
(`control/HumanInput.cpp:32-36`); the other axis is at rest here, so that of the
residues a stick can leave only one is there at a time.

**SimulationLoop.**  A refit (`refitControllers`) is a chain of steps
(`DropPilot`, `DropBench`, `LoadOpen` / `LoadInit` / `LoadReset` or
`LoadAbandon`, `Install`), because each calls into a library while the render
thread goes on pushing commands and may call `stop()`.  A load may fail at
opening, at binding symbols or the version, and at `rf_init`.  A control is
known by who computed it and for which vehicle and mode; what it contains is
left out, and so is the clock (a batch has any number of ticks up to the bound),
which is in `RunLoop`.

**Benchmark.**  Time is counted in ticks; whether a tick ends within tolerance
is chosen freely.  The meter's sums of ticks are the code's sums of `dt`, exact
here.  The script's holds are chosen in `Init`, for every seed.

**RocketCatalogue, BenchPrograms.**  A file is a record whose fields are the keys
it has, or one of the two ways of having no text to parse; a path is a number,
and the directory is listed in any order.  A name is a sequence of parts of which
`InlineName` keeps `NameRoom`.  What a program does is its request: which program,
`--all`, `--rocket`, `--seconds`.  `Fly` is the benchmark itself, `Report` puts its
end into the document and starts the next vehicle.  The game takes the roster
from the same catalogue, and after that is `Benchmark` in the game.

**SubmissionServer.**  A request is split where another thread, or a crash, can
come in between: the directory, the record, the artifact, the queue.  A form is a
record of what the handler looks at.  `create`
and `update` hold the mutex, and only `create` spans two steps, so `mutex` is
kept for that.  A text is plain or garbled, the latter one that `dump()` throws
on.  A record write may fail silently in the two ways `writeRecord` lets it.  A
crash keeps the disk and nothing else.  What an evaluation does is an outcome;
a compiler has one too, a log that may be garbled, and what it leaves at its
output path when it fails: what was there, a part of its own, or nothing.
`artifact` is whose bytes are in `artifact.so`.  A crash between two steps leaves
it as it is, and a directory whose record was lost can be handed out again with
it inside.

**Sandbox.**  Output is counted in blocks.  A process may write, close its
pipes, fork, exit or die at any time, and the one that was forked may leave the
group with a `setsid()` of its own (`Leave`).  The kill reaches what is in the
group; a process that left it goes on and keeps the write ends it holds, so the
parent's last look at such a pipe is not its end (`ReadToItsEnd`).  After a clean
exit of the child nothing is killed, and a process of the group that has closed
both pipes lives on.  Both are followed until `runSandboxed` returns, not into the
next call.  What the processes write is finite (`MaxBlocks`), as `RLIMIT_CPU` ends
each of them.

**Evaluator.**  Each job of the matrix is a whole behaviour of `Sandbox`; `Call`
gives `runSandboxed` fresh locals and `Supervised` runs it.  What the process
printed is a choice among what stdout can parse as, given what is left of it.  A
state hash and the score reported with it are one value: equal hashes give equal
scores.  A report may have a field of another type than the code asks for:
then nlohmann throws, out of `runJob` and of `evaluateSubmission` (`Throw`).
Status texts, wall times and the per-vehicle tables are left out.

**Actuator, Batch.**  Thrust is in whole units and time in ticks.  The vehicle
has one thruster, the body is one number -- the thrust it has been given so far
-- and the nozzle, which only slews, is left out.  A controller is a script, chosen
in `Init`: for one with a fly-by-wire (`Layered`) it says what that wants of the
thruster at each evaluation, below nothing or beyond the limit too, and the
allocator makes the level of it; for the others it is one level for the whole
episode (`OpenLoop`).  The thruster pushes through the centre of mass, so the
allocator's pseudo-inverse is a division and its first pass is its last.  A step of a thread
between two shared accesses is one tick of its episode.

## What is checked

The type invariants are proved and, but for that of `SimulationLoop`, not repeated
in a run.

| Run | Shows |
|---|---|
| `triple_buffer` | `RaceFree` no data race on a payload; `NoTearing` a frame reads one publish; `MailboxSpec` it implements the mailbox; `ScreenKeepsUp` a loop that is always behind still gets out of its batches, and the newest state it publishes to the renderer; `RateIsMeasured` the rate shown is the ticks stepped in the window, unless the world was restarted in it |
| `spsc_queue` | `RaceFree`; `FifoSpec` it implements the bounded queue: order kept, nothing lost or repeated, refusals only when full and counted |
| `input_path` | `Rebuilt` the simulation's positions plus the commands on the way are what was told; `TogglesAreEdges` a toggle never becomes a level; `RestingPosition` a device at rest comes to be believed where it rests; `LettingGoIsRest` the residue of a stick that was let go asks neither pilot for anything |
| `simulation_loop` | `AtMostOneLive` one submission library at a time, one holder; `HoldersReady` no controller holds a library that is not initialised, reset and fitted to this vehicle; `HonestView` what the snapshot names is what flew; `HeldIsCurrent` the control held was computed by the controller now active, for this vehicle and mode; `ModesAgree`; `StopIsJoined` the thread ends |
| `benchmark` | `FleetIsSound` whatever the files say, what flies is a vehicle the physics is defined for, in the order of the paths; `AnswersTheRequest` the document has the vehicles that were asked for, and all of them flew the same run; `EveryCommandCharged` one command, one step, one charge; `NeverSettlingPaysAll`; `HoldIsWhole` the two clocks agree |
| `submission_server` | `InProgressIsOwned` whatever claims to be in progress is with somebody, and with one only; `VerdictIsFinal` a verdict is not taken back while the server runs, while fewer than two record writes have failed; `NeverReplaced` no record of one submission replaces another's; `ExitedMeansDone` a server that exits owes nothing; `BoardCanBeShown` no entry keeps the board from being written out; `ScoresOwnCode` what is evaluated, and what has a rank, is the library that was submitted under that id; `AcceptedGetsVerdict` |
| `evaluation` | `KillIsNotACrash` the parent's kill is never taken for a crash; `KillReachesTheGroup` a run the parent ended leaves no process of its group, any other at most one that has let go of both pipes; `NothingDropped` output up to the cap is kept and a cut is marked, unless a process outside the group still writes; `CrashingNeverPays` the aggregate is a mean over the whole matrix, failures at the full penalty; `OnlyWholeRunsScore` a score comes from a process that ended well, with its report complete; `RankedReproduces` what is ranked gave the same hash twice; `EvaluationEnds` it returns with one run for each job, or throws over a report, whatever the children do |
| `batch` | `SameAsAlone` each job is flown once and gives what it gives by itself; `ActuatorLimits` no thrust before the ignition time was demanded in one piece, none below the floor while lit, none beyond the ramps; `RestsAsAsked` an engine at rest is where the fly-by-wire asked, so allocator and engine round alike |

Each property has a mutant of the code in its module (marked `Mutant:`) under
which TLC finds it violated.

### Where the code and its comments part

Four runs expect a violation; the property states what a comment says.

- `shutdown_unasked`: a library that was refused, or declined the vehicle, is
  told `rf_shutdown` (`control/AbiFlyByWire.cpp:172-175`).  The symbol is bound
  before version and `rf_init` are looked at.
- `worker_dies`: the catch block that lets the worker outlive a bad submission
  writes the record that could not be written (`server/server_main.cpp:390-398`):
  if a text in it is not UTF-8, the second throw has no handler.
- `fifth_digit`: from the ten-thousandth submission on, a restart recovers the
  counter from the first four of five digits (`server/Leaderboard.cpp:171-174`)
  and may overwrite a record.  The run has two binary digits instead of four
  decimal ones (`Radix` and `Limit`).
- `metered_as_commanded`: for up to one control period after a mode toggle or a
  refit, the meter measures against the previous intent, or an empty one, and
  charges the new command (`control/Benchmark.hpp:275-276`,
  `control/Benchmark.cpp:250-254`).

Met while modelling, and without a run of its own:

*Processes and their reports.*
"A submission that forks and then exits does not leave orphans running"
(`SUBMISSIONS.md:777-778` of the repository; so do the comment at
`server/Sandbox.cpp:221-223` and `tests/test_submission.cpp:199`, "what is not
correct is returning while the grandchild lives").  But the group is killed only
if the child was not reaped (`:339`), and a child that exits by itself, with both
pipes closed, is reaped in the loop (`:294-302`): a process it forked that has
closed both pipes lives on when `runSandboxed` returns.  The grandchild of the
test keeps a pipe open, which is the other case.
`KillReachesTheGroup` says who can survive.

`evaluateSubmission` "never throws" (`server/Evaluator.hpp:103-105`), but a report
with a field of the wrong type throws at `server/Evaluator.cpp:171` or `181-182`.
The worker catches it and rejects the submission as a host error; the runs that
were flown are lost.  `EvaluationEnds` has it.

Nothing "forked before it hung" escapes the kill (`server/Sandbox.cpp:341-342`), but
for a process that has called `setsid()` itself: `kill(-pid)` does not reach it.
`KillReachesTheGroup` and `NothingDropped` except it.

The deadline "the child cannot influence" (`server/Sandbox.hpp:22`) is looked at
between two calls of `drain`, which returns when there is nothing to read
(`server/Sandbox.cpp:100-119`) and looks at neither deadline nor cap: output that
comes as fast as it is read puts it off, for as long as the processes' CPU limits
allow.  `EvaluationEnds` has finite output.

*Simulation.*  The snapshot's command is the active controller's, which right
after a toggle is shown while nothing is held (`sim/SimulationLoop.cpp:246`); the
tick rate of a window with a Reset or a change of vehicle in it is a wrapped
difference (`:322`); the benchmark's HUD numbers are atomics one by one and can
be read half updated (`:255-280`); the direct pilot has no deadzone; a thruster
throttled down while lit ramps at `rampUpRate` (`core/Rocket.cpp:74`).

*Server.*  The weights file says that changing it "re-ranks the board without
re-running a single episode" (`server/Evaluator.cpp:82-84`, and `README.md:803` of
the repository), but `load()` takes the aggregates as they were stored and
nothing re-reads the runs: after a change the board mixes entries judged under
different weights and publishes the newest ones for all of them.  The operator's
`ScoreWeights` do not reach the runner, which scores with the defaults
(`eval/runner_main.cpp:151`).  The fleet is read again for each submission, the
list of rockets on the board once.  After `load()` a submission in progress is
rejected in memory only; entries without rank are listed by their ids as strings,
which is not "submission order" past 9999; a failed compile in a directory that
is used again leaves an older library in it, which the game lists under the new
name; a name that is not UTF-8 gets onto the board if the record's temporary
could not be opened, and then costs every `GET /api/leaderboard`; `writeFile`
looks at the stream before it is flushed, so an upload cut short by a full disk
is accepted (`server/server_main.cpp:91-96`).

*Evaluation.*  The determinism note speaks of two different hashes also when the
second run failed or met its deadline (`server/Evaluator.cpp:236`, `245-249`), and
a vehicle whose first-seed run failed is never verified though its other seeds
are scored; a bad path gives `NonZeroExit` rather than `SpawnFailed`
(`server/Sandbox.hpp:66`).

*Catalogue and programs.*  "Nothing downstream cares" about a name that is cut
short (`core/Name.hpp:15-18`), but `find` compares with the full one: a vehicle
with a long name cannot be asked for by it.  Two vehicles with one name, written
or cut so, are listed twice and found once, so an evaluation flies the first of
them twice.  A negative ignition time, ramp or gimbal is taken; `--seconds=nan`
passes both range checks; the determinism check of `eval/main.cpp:100` compares
jobs by name and seed, of which no two are alike unless two vehicles share a
name, and then they are not the same job.

## Bounds

| Run | Bounds | Why they are enough |
|---|---|---|
| `triple_buffer` | 2 words, 4 publishes, a batch of 2, at most 2 ticks owed, a window of 2 periods, ticks of 3 bits | two words can tear; four publishes go round the three slots between a load and an exchange; batches are met in time, just filled, and given up; a window takes one batch or several; the tick wraps; the buffer's theorems have no bound |
| `spsc_queue` | capacity 4, two items, two refusals counted | the indices wrap without bound; lengths 0 to 3 have an empty, a full and two other states |
| `input_path` | one control of each kind, positions 0, 1 and 3, epsilon 2, deadzone 2, 3 device changes, room for 2 | a change below epsilon, a stick let go in two moves of which the second is not told, and an overflow all fit |
| `simulation_loop` | 2 vehicles, 2 submissions, control period 3, batch of 2, one command waiting | submission follows submission; commands fall on every tick of a period; more waiting commands are the same one after another |
| `benchmark` | period 2, holds of 1 and 2 periods, 7 ticks; up to 2 files of 9 kinds, one thruster, names of one part | two to four commands and an end inside a period; a fleet of two, of one and of none, a name that is cut, and a file for each reason to refuse one |
| `submission_server` | 2 request threads, 2 indices, 2 restarts, 1 failed write, 5 forms of which 2 are taken | a submission after one that was stored and one that was lost, twice |
| `evaluation` | cap 1, pipe 2, 2 blocks written per pipe; one vehicle or none, one mode, two seeds, two hashes | a read that takes part of what is there, or is cut by the cap in the middle; a report that is whole, cut or missing; a job that is repeated and one that is not, first and last of the matrix |
| `batch` | 2 threads, 4 jobs, ignition 3, control period 2, 8 ticks, wants of nothing, below the floor, within and beyond the limit | more jobs than threads; the demand can be taken back while lighting and taken up again while thrust decays; the bound is crossed by some scripts |

`MaxVersion`, `MaxLate`, `MaxDropped`, `MaxMoves`, `MaxPending`, `MaxCommands`, `MaxTicks`,
`MaxIndex`, `MaxRestarts`, `MaxFaults` and `MaxBlocks` bound the models and are
not in the code (except `maxTicks`, headless).  `CHECK_DEADLOCK FALSE` is set
where the system stops: after `run()` has returned, when the server exited and
may not be restarted again, after `evaluateSubmission` returned or threw,
when the threads of the batch have left, after `finish()`.

## Fairness

- `RunLoop`: time passes, the simulation thread runs, and the render loop comes to
  its next `acquire()`; neither thread waits for the other.  Nothing is asked of
  how fast the loop is against the clock.
- `InputPath`: the render loop polls each frame, the simulation drains.
- `SimulationLoop`: the thread is scheduled.  This includes that calls into a
  submission library return, which in the game nothing enforces.
- `SubmissionServer`: request threads past `create` and the worker run.
  Compilations and runs are under the sandbox's deadline.  Nothing is asked of
  clients, of the operator or of the crash.
- `Evaluator`: the clock and the worker thread run, in `runSandboxed` and out of
  it.  Nothing is asked of the child, but that its output is finite (above).

## What is proved

Each theorem holds for every value of the constants that the module's assumptions
allow; TLC evaluates these in the runs.  Each rests on an inductive invariant,
named in its module (`IInv` and those beside it).  The properties are those of the
runs.

**`RunLoopProofs`.**  The buffer, for every non-empty set of words and every number
of publishes (`WordsAssumption`, `MaxVersionAssumption`): `TypeCorrect`,
`Ownership` (`SlotsDistinct`: the producer's, the consumer's and the middle slot
are three), `NoDataRace` (`RaceFree`), `Whole` (`NoTearing`), and `Refinement`: it
implements `Mailbox`.
`SlotsDistinct` is nearly inductive by itself; the others are not.  `IInv` adds
`Edges` -- who may still have an unordered access to which slot: each thread to
its own, and the thread that gave the middle slot away to that one -- and
`Contents` -- the middle slot, while fresh, holds the newest version whole, the
consumer's an older one; while it is not fresh the consumer's holds the newest;
and the producer's holds the next version in the words already filled.  The
refinement follows step by step: `HeldVersion` changes in `AcquireExchange`
only, and there to the number of publishes.  What the mailbox's steps need of
it is in `HeldWord` and `ExchangeTakesNewest`.

The loop, for every cap, backlog, length of the window and width of `Tick` such
that `MaxLate + WindowAge + Cap` is below the range of `Tick` (`PaceAssumption`,
`TickAssumption`): `RateIsRight`
(`RateIsMeasured`); `LoopUsesBuffer` and `ScreenIsMailbox`: the loop and the frames
step the buffer as its specification says, so the buffer's theorems hold in them
(`LoopSpec => Spec`, and with it `MailboxSpec` and `NoTearing`, as the run checks
them).  An unsigned difference is right when less than a whole range lies between
its two ends.  `PaceInv` says why that is so: `TickIsAhead`, `Tick` has wrapped at
most once since the window was opened, and `WindowIsShort`, which bounds a window
by the ticks that were owed when it was opened, the periods that passed until it
was old, and one batch more, since an old window ends with its iteration.  (The code's
`Tick` has 64 bits and a window is 250 ms and an iteration.)

**`SpscQueueProofs`**, for every capacity of at least two, every payload and
every bound on what is refused: `TypeCorrect`, `NoDataRace` (`RaceFree`), and
`Refinement`: the ring implements `BoundedFifo`.
`RaceFree` is not inductive: what a thread's acquire load established must last
until its own store, while the other thread goes on.  `IInv` says what it may
rely on meanwhile: the other's index may move on but not onto the cell in use,
and nothing the other releases is that cell (`Windows`); only a thread between
its access and its store has one it has not released (`Edges`); and the item
copied is what the cell holds (`Copies`).  The refinement is about a queue read
off the ring with indices that wrap; `CountIs` and `CellIs` replace the mask by a
case split on whether the window wraps, so that only linear arithmetic is left.

**`InputPathProofs`**, for every finite set of controls of the three kinds, room in
the queue and epsilon (`ControlsAssumption` and the others): `TypeCorrect`,
`NothingLost` (`Rebuilt`), `NoToggleHeld` (`TogglesAreEdges`), and, with an epsilon
no larger than the deadzone (`PilotAssumption`; 0.004 and 0.15 in the code),
`RestAsksNothing` (`LettingGoIsRest`).  `Rebuilt` is a fold over the queue, which
both ends change: `FoldIs` makes it a chain of intermediate states, a push adds
one at the end (`FoldAppend`) and a drain starts it one later (`FoldTail`).

**`SimulationLoopProofs`**, for every roster, control period, batch and number of
waiting commands (`RosterAssumption`, `RateAssumption`, `BacklogAssumption`):
`TypeCorrect` (`TypeOK`), `OneLibrary` (`AtMostOneLive`), `ReadyWhenFlown`
(`HoldersReady`), `ViewIsHonest` (`HonestView`), `NothingStaleFlown`
(`HeldIsCurrent`), `OneMode` (`ModesAgree`).
A refit leaves each of them open on its way.  `Libraries` says, for each step of
the chain, which library is in which phase and who has it: before `dropPilot`
the one of pilot and benchmark that is not built in has the only live one, from
`select` on nobody has, at `install` what was loaded is there and ready.  `Fit`
says what a refit has left for the vehicle and the switches as they are, so that
any command that changes one of these must start a refit to keep it; `HeldFits`
is `HeldIsCurrent` between two commands.

**`BenchmarkProofs`.**  The benchmark, for every control period, script and length
of run that the script is long enough for (`BenchmarkBounds`): `TypeCorrect`,
`StepsAreCommands` (`EveryCommandCharged`), `NeverSettledIsCharged`
(`NeverSettlingPaysAll`), `HeldAsDrawn` (`HoldIsWhole`).  The two clocks are tied
together by `MeterClock`: what the meter has counted since the command came are
the whole periods the source has held it and the ticks of the one that runs.
`SourceClock` bounds the commands drawn by the ticks there have been, so that the
script is never left.  `Edges` are a run that has not begun and one that was
closed; `AllCharged` is `NeverSettlingPaysAll` with the open step.

The programs, for every set of rocket directories, each with finitely many files
whose paths can be compared and whose values have the types that are asked for
(`DirectoryAssumption`; another type is refused as a missing key is), every order a directory is
listed in and every request: `FleetSound` (`FleetIsSound`) and `RequestAnswered`
(`AnswersTheRequest`).  `ParseIsSound` is that a file `parseRocketJson` does not
refuse is a vehicle the physics is defined for; `SortedIs` and `LoadIs`, that
whatever the listing, the catalogue has the vehicles in the order of their paths.
`Documented` says that the reports so far and what is left of the fleet make up
what was wanted, and `OnCourse` that a headless run is, at each tick, where its
script alone puts it (`Course`): with that all reports of a document have the same
number of commands.

**`SubmissionServerProofs`**, for any number of request threads, indices, restarts
and failed writes (`ServerBounds`): `TypeCorrect`, `NothingForgotten`
(`InProgressIsOwned`), `DrainedAtExit` (`ExitedMeansDone`), `BoardIsShown`
(`BoardCanBeShown`).  Under the hypothesis `FourDigits`, that no index has a fifth
digit: `OwnCodeScored` (`ScoresOwnCode`), `VerdictStands` (`VerdictIsFinal`),
`DirectoryIsOneSubmission` (`NeverReplaced`).  The hypothesis is what
`server/Leaderboard.cpp:171-174` takes for granted; `fifth_digit` shows a record replaced without it, and
`submission_server` has it.
Everything turns on who owns a submission.  `Apart`: nothing waits, is with a
thread and is with the worker twice; `Entered`: what each of them holds is what
the board shows; `Owned`: what the board shows as in progress one of them holds.
`Garbled` follows a text `dump()` throws on through the two ways a write can fail;
`Once`, under the hypothesis, says that an index is handed out once: what is stored
is of the submission the board shows.
The attempt to prove `VerdictIsFinal` showed that it did not hold as it was stated:
if the record file cannot be opened, a record `dump()` would throw on becomes a
verdict on the board without being tried; at the next write of it the throw comes,
and if the catch block's file cannot be opened either, its verdict replaces the
first.  The property is now about fewer than two failed writes; TLC confirmed the
rest with two faults where the run allows one.

**`EvaluatorProofs`**, for every cap, pipe size and amount of output
(`SandboxBounds`), every catalogue, matrix and table of weights
(`MatrixAssumption`, `WeightsAssumption`): `TypeCorrect`, `NothingKilledRunsOn`
(`KillReachesTheGroup`), `KillIsKnown` (`KillIsNotACrash`), `OutputIsWhole`
(`NothingDropped`), `RankedOnlyIfReproduced` (`RankedReproduces`), `CrashesCount`
(`CrashingNeverPays`), `WholeRunsScore` (`OnlyWholeRunsScore`).  The three about
`runSandboxed` hold of it by itself and in an evaluation.
Of the sandbox, `Processes` and `AtEnd` say that an end of a pipe is held by a
process that is alive and that a pipe that was closed stays empty; `Counted`, that
each block written is in its pipe or was read, and kept up to the cap; `PastLoop`
and `Reasons`, what must be over and why when the loop is left (`Doomed`: the parent
kills or is about to); of a pipe left open by a kill `PastLoop` says that only a
process outside the group can still have its other end.  Of the evaluation,
`InOrder`: the second runs come in the order of the first, so that nothing that
counts before the last of them was left out; `Totals`: the sums so far are the
weights and penalties of the runs so far.

**`BatchProofs`**, for every thruster (`ThrusterAssumption`), job list and pool
(`PoolAssumption`), control period and script (`EpisodeAssumption`):
`Deterministic` (`SameAsAlone`), `Limited` (`ActuatorLimits`), `Rests`
(`RestsAsAsked`).
`Dealt` is what the shared counter is for: a job below it is with one thread or has
its result, and an episode in flight is on the course that its job flies alone,
whatever the other threads do.
The property about ignition speaks of a step and of how long thrust has been
asked for; what must be known before the step is that the clock of an engine
that is lighting and that time add up to the ignition time at least (`Sound`),
which includes that an engine that burns has its clock at zero.  `IInv` says
this of every engine in flight, and, for `RestsAsAsked`, that what is held is
what `demandFor` leaves as it is; `AllocatedIsHonest` shows that of whatever the
allocator answers.  A script has an entry for every control tick because the
evaluations so far are those of the periods begun (`OnClock`, `ClockTicks`,
`Scheduled`).

**Recursion.**  What a recursive function, a fold or a sum computes is needed in
five places: the queue of commands, the weights, a flight, the course of a script,
a directory.  The library's induction takes an operator as parameter and cannot be
used.  Instead, a set of numbers that is not empty has a least member (`Least`,
from the library's well-founded order), so the least length for which a statement
would fail leads to a contradiction.  Invariants speak of such a function as of
every function that satisfies its equations, so that no `CHOOSE` is primed, and its
existence is a lemma (`FlightExists`, `CourseExists`, `FoldExists`).

Only model-checked: liveness (`RestingPosition`, `ScreenKeepsUp`, `StopIsJoined`,
`AcceptedGetsVerdict`, `EvaluationEnds`), since fairness and `ENABLED` are out of
the prover's reach, and the four runs that expect a violation.

## Not modelled

Floating-point arithmetic in a fixed order, out of the reach of these tools:
rigid-body dynamics and gravity (`core/World.cpp`, `core/Body.hpp`), the control
laws of the built-in fly-by-wire (`control/RocketFlyByWire.cpp`) and the
least-squares part of its allocator, the meter's error, impulse, wander and score,
the figures `core/RocketSpec.hpp` derives from a vehicle.  Of the world the models
keep the order of a step, the bound and what the hash covers (`Batch`).

Input and output without decisions of its own: drawing, camera and fonts
(`render/Renderer.cpp`, `Camera.cpp`, `FontLoader.cpp`), the window, the HTML page,
the JSON of reports and weights, the conversion between the host's structures and
the ABI's, `eval/main.cpp`'s table.

Left for later: the start of the server (options, the refusal to run as root, the
weights file), the order of the ranking, the benchmark HUD's atomics, the gimbal.

## Plan

1. Done: the shared objects and the loop that publishes, the simulation loop, the
   input path with its pilots, the benchmark and the programs round it, the
   catalogue, the server with its artifacts, the sandbox and the evaluator over it,
   actuators and batch; the proofs of all their safety properties.
2. To prove next: that the server implements a board of its own -- a submission is
   accepted, in progress and judged once -- and the evaluation the mean it promises;
   that `run()` and `handleCommand` are one thread (the two modules of the
   simulation loop share no state yet).
3. To model next, in this order: the weights a stored aggregate was made under,
   through a change of the file and a restart; the board as it is listed
   (`ranking()`); the start of the server.
