----------------------------- MODULE BatchProofs -----------------------------
(***************************************************************************)
(* Batch for every thruster, job list, number of threads and script: the   *)
(* engine never leaves its limits, and rests where the fly-by-wire asked.  *)
(***************************************************************************)
EXTENDS Batch, WellFoundedInduction, TLAPS

Levels == 0 .. MaxThrust

\* What an engine for which thrust has been demanded n ticks running can be.
Sound(a, n) ==
  /\ a \in Engines
  /\ a.lit => a.timer = 0 /\ a.thrust > 0 /\ a.thrust >= MinThrust
  /\ a.timer > 0 => a.thrust = 0 /\ a.timer + n >= IgnitionTicks

Demanded(asked, n) == IF DemandFor(asked) > 0 THEN n + 1 ELSE 0

-------------------------------------------------------------------------------
\* The demand is nothing or within the envelope.
LEMMA DemandRange ==
  \A x \in Levels : /\ DemandFor(x) \in Levels
                    /\ DemandFor(x) > 0 => DemandFor(x) >= MinThrust
BY ThrusterAssumption DEF Levels, DemandFor, Lower, Higher

\* The allocator answers with what the engine does not round.
LEMMA AllocatedIsHonest ==
  \A x \in Int : /\ Allocated(x) \in Levels
                 /\ DemandFor(Allocated(x)) = Allocated(x)
BY ThrusterAssumption DEF Levels, Allocated, Snap, Clamped, DemandFor, Lower,
   Higher

\* The rate limit, in both directions.
LEMMA SlewRange ==
  \A v, g \in Levels, rate \in Nat :
    /\ Slew(v, g, rate) \in Levels
    /\ rate > 0 => /\ Slew(v, g, rate) <= v + rate
                   /\ Slew(v, g, rate) >= v - rate
    /\ g > 0 => Slew(v, g, rate) > 0
BY ThrusterAssumption DEF Levels, Slew, Lower, Higher

\* What a lit engine at thrust v produces when d is demanded.
Fired(v, d) == Higher(Slew(v, d, RampUp), Lower(MinThrust, d))

\* A burning engine that is asked for a thrust gives one between its floor and the
\* ceiling, and goes no further up in a step than its ramp allows.
LEMMA FiredRange ==
  \A v, d \in Levels :
    d > 0 /\ d >= MinThrust =>
      /\ Fired(v, d) \in Levels
      /\ Fired(v, d) > 0 /\ Fired(v, d) >= MinThrust
      /\ RampUp > 0 => Fired(v, d) <= Higher(v, MinThrust) + RampUp
<1> SUFFICES ASSUME NEW v \in Levels, NEW d \in Levels, d > 0, d >= MinThrust
             PROVE  /\ Fired(v, d) \in Levels
                    /\ Fired(v, d) > 0 /\ Fired(v, d) >= MinThrust
                    /\ RampUp > 0 => Fired(v, d) <= Higher(v, MinThrust) + RampUp
  OBVIOUS
<1>1. /\ Slew(v, d, RampUp) \in Levels
      /\ Slew(v, d, RampUp) > 0
      /\ RampUp > 0 => Slew(v, d, RampUp) <= v + RampUp
  BY SlewRange, ThrusterAssumption
<1> QED
  BY <1>1, ThrusterAssumption DEF Levels, Fired, Lower, Higher

\* stepActuators by cases.
Left(a) == (IF a.timer = 0 /\ a.thrust = 0 THEN IgnitionTicks ELSE a.timer) - 1

\* The three ways of stepActuators: out, burning, and lighting up.
LEMMA StepCases ==
  ASSUME NEW a \in Engines, NEW x
  PROVE  LET b == StepActuator(a, x)
             d == DemandFor(x)
         IN  /\ d = 0 => b = [thrust |-> Slew(a.thrust, 0, RampDown),
                              timer |-> 0, lit |-> FALSE]
             /\ d # 0 /\ a.lit => b = [thrust |-> Fired(a.thrust, d),
                                       timer |-> a.timer, lit |-> TRUE]
             /\ d # 0 /\ ~a.lit /\ Left(a) <= 0 =>
                  b = [thrust |-> Fired(Higher(a.thrust, MinThrust), d),
                       timer |-> 0, lit |-> TRUE]
             /\ d # 0 /\ ~a.lit /\ ~(Left(a) <= 0) =>
                  b = [thrust |-> a.thrust, timer |-> Left(a), lit |-> FALSE]
<1> DEFINE b == StepActuator(a, x)
           d == DemandFor(x)
<1>0. /\ a = [thrust |-> a.thrust, timer |-> a.timer, lit |-> a.lit]
      /\ a.lit \in BOOLEAN
  BY DEF Engines
<1>1. d = 0 => b = [thrust |-> Slew(a.thrust, 0, RampDown), timer |-> 0, lit |-> FALSE]
  BY DEF StepActuator, ShutDown
<1>2. d # 0 /\ a.lit => b = [thrust |-> Fired(a.thrust, d), timer |-> a.timer, lit |-> TRUE]
  BY <1>0 DEF StepActuator, Burning, Fired
<1>3. d # 0 /\ ~a.lit /\ Left(a) <= 0 =>
        b = [thrust |-> Fired(Higher(a.thrust, MinThrust), d), timer |-> 0, lit |-> TRUE]
  BY <1>0 DEF StepActuator, Igniting, Burning, Fired, Left
<1>4. d # 0 /\ ~a.lit /\ ~(Left(a) <= 0) =>
        b = [thrust |-> a.thrust, timer |-> Left(a), lit |-> FALSE]
  BY <1>0 DEF StepActuator, Igniting, Left
<1> QED
  BY <1>1, <1>2, <1>3, <1>4

\* One tick of stepActuators keeps an engine sound, and within its limits.
WithinLimits(a, b, n) ==
  /\ a.thrust = 0 /\ b.thrust > 0 => n >= IgnitionTicks
  /\ b.lit => b.thrust \in MinThrust .. MaxThrust
  /\ RampUp > 0 => b.thrust <= Higher(a.thrust, MinThrust) + RampUp
  /\ RampDown > 0 /\ ~b.lit => b.thrust >= a.thrust - RampDown

\* One step of an engine: it stays one that its history allows, and within the
\* limits of its thruster.
LEMMA StepSound ==
  ASSUME NEW a, NEW n \in Nat, NEW x \in Levels, Sound(a, n)
  PROVE  /\ Sound(StepActuator(a, x), Demanded(x, n))
         /\ WithinLimits(a, StepActuator(a, x), Demanded(x, n))
<1> DEFINE b == StepActuator(a, x)
           d == DemandFor(x)
           m == Demanded(x, n)
<1> USE ThrusterAssumption DEF Levels
<1>0. /\ a.thrust \in Levels /\ a.timer \in 0 .. IgnitionTicks
      /\ a.lit \in BOOLEAN
      /\ a \in Engines
  BY DEF Sound, Engines
<1>1. d \in Levels /\ (d # 0 => d > 0 /\ d >= MinThrust /\ m = n + 1)
  BY DemandRange DEF Demanded
<1> HIDE DEF b, m, d
<1>2. CASE d = 0
  <2>1. b = [thrust |-> Slew(a.thrust, 0, RampDown), timer |-> 0, lit |-> FALSE]
    BY <1>0, <1>2, StepCases DEF b, d
  <2>2. /\ Slew(a.thrust, 0, RampDown) \in Levels
        /\ Slew(a.thrust, 0, RampDown) <= a.thrust
        /\ RampDown > 0 => Slew(a.thrust, 0, RampDown) >= a.thrust - RampDown
    BY <1>0, SlewRange DEF Slew, Higher
  <2> QED
    BY <1>0, <2>1, <2>2 DEF Sound, WithinLimits, Engines, Higher, b, m
<1>3. CASE d # 0 /\ a.lit
  <2>1. b = [thrust |-> Fired(a.thrust, d), timer |-> a.timer, lit |-> TRUE]
    BY <1>0, <1>3, StepCases DEF b, d
  <2>2. /\ Fired(a.thrust, d) \in Levels
        /\ Fired(a.thrust, d) > 0 /\ Fired(a.thrust, d) >= MinThrust
        /\ RampUp > 0 => Fired(a.thrust, d) <= Higher(a.thrust, MinThrust) + RampUp
    BY <1>0, <1>1, <1>3, FiredRange
  <2> QED
    BY <1>0, <1>3, <2>1, <2>2 DEF Sound, WithinLimits, Engines, b, m
<1>4. CASE d # 0 /\ ~a.lit /\ Left(a) <= 0
  <2> DEFINE h == Higher(a.thrust, MinThrust)
  <2>1. b = [thrust |-> Fired(h, d), timer |-> 0, lit |-> TRUE]
    BY <1>0, <1>4, StepCases DEF b, d
  <2>2. h \in Levels /\ Higher(h, MinThrust) = h
    BY <1>0 DEF Higher
  <2>3. /\ Fired(h, d) \in Levels
        /\ Fired(h, d) > 0 /\ Fired(h, d) >= MinThrust
        /\ RampUp > 0 => Fired(h, d) <= h + RampUp
    BY <1>1, <1>4, <2>2, FiredRange
  <2>4. a.thrust = 0 => m >= IgnitionTicks
    BY <1>0, <1>1, <1>4 DEF Sound, Left
  <2>5. Sound(b, m)
    BY <2>1, <2>3 DEF Sound, Engines
  <2> HIDE DEF h
  <2>6. WithinLimits(a, b, m)
    BY <2>1, <2>3, <2>4 DEF WithinLimits, h
  <2> QED
    BY <2>5, <2>6 DEF b, m
<1>5. CASE d # 0 /\ ~a.lit /\ ~(Left(a) <= 0)
  <2>1. b = [thrust |-> a.thrust, timer |-> Left(a), lit |-> FALSE]
    BY <1>0, <1>5, StepCases DEF b, d
  <2>2. Left(a) \in 1 .. IgnitionTicks /\ a.thrust = 0
        /\ Left(a) + m >= IgnitionTicks
    BY <1>0, <1>1, <1>5 DEF Sound, Left
  <2> QED
    BY <1>0, <2>1, <2>2 DEF Sound, WithinLimits, Engines, Higher, b, m
<1> QED
  BY <1>2, <1>3, <1>4, <1>5 DEF b, m

\* An engine that no longer changes is where the demand is.
LEMMA RestIsDemand ==
  ASSUME NEW a, NEW n \in Nat, NEW x \in Levels, Sound(a, n), StepActuator(a, x) = a
  PROVE  a.thrust = DemandFor(x)
<1> USE ThrusterAssumption DEF Levels
<1> DEFINE d == DemandFor(x)
<1>0. a \in Engines /\ a.thrust \in Levels /\ a.timer \in Nat
      /\ a.lit \in BOOLEAN
  BY DEF Sound, Engines
<1>1. d \in Levels /\ (d # 0 => d > 0 /\ d >= MinThrust)
  BY DemandRange
<1>2. CASE d = 0
  <2>1. a.thrust = Slew(a.thrust, 0, RampDown)
    BY <1>0, <1>2, StepCases
  <2> QED
    BY <1>0, <1>2, <2>1 DEF Slew, Higher
<1>3. CASE d # 0 /\ a.lit
  <2>1. a.thrust = Fired(a.thrust, d)
    BY <1>0, <1>3, StepCases
  <2> QED
    BY <1>0, <1>1, <1>3, <2>1 DEF Fired, Slew, Higher, Lower, Sound
<1>4. CASE d # 0 /\ ~a.lit /\ Left(a) <= 0
  <2>1. a.lit
    BY <1>0, <1>4, StepCases
  <2> QED
    BY <1>4, <2>1
<1>5. CASE d # 0 /\ ~a.lit /\ ~(Left(a) <= 0)
  <2>1. a.timer = Left(a)
    BY <1>0, <1>5, StepCases
  <2>2. Left(a) < a.timer \/ (a.timer = 0 /\ Left(a) > 0)
    BY <1>0, <1>5 DEF Left
  <2> QED
    BY <1>0, <2>1, <2>2 DEF Left
<1> QED
  BY <1>2, <1>3, <1>4, <1>5

-------------------------------------------------------------------------------
\* A control tick is one whose number is a multiple of the control period: the
\* evaluations so far are those of the periods begun.
OnClock(e) == e.tick <= e.age * ControlEvery
/\ e.age * ControlEvery < e.tick + ControlEvery

\* A tick lies in one control period.
LEMMA DivMod == \A n \in Nat : \E k \in Nat :
                  /\ k * ControlEvery <= n /\ n < (k + 1) * ControlEvery
                  /\ n % ControlEvery = 0 => n = k * ControlEvery
                  /\ n % ControlEvery # 0 => n # k * ControlEvery
<1> TAKE n \in Nat
<1> DEFINE k == n \div ControlEvery
<1>1. k \in Nat /\ n = k * ControlEvery + (n % ControlEvery)
      /\ n % ControlEvery \in 0 .. ControlEvery - 1
  BY EpisodeAssumption
<1>2. (k + 1) * ControlEvery = k * ControlEvery + ControlEvery
  BY <1>1, EpisodeAssumption
<1> HIDE DEF k
<1>3. /\ k * ControlEvery <= n /\ n < (k + 1) * ControlEvery
      /\ n % ControlEvery = 0 => n = k * ControlEvery
      /\ n % ControlEvery # 0 => n # k * ControlEvery
  <2> DEFINE p == k * ControlEvery
  <2>1. p \in Nat
    BY <1>1, EpisodeAssumption
  <2> HIDE DEF p
  <2> QED
    BY <1>1, <1>2, <2>1, EpisodeAssumption DEF p
<1> QED
  BY <1>1, <1>3

\* A script has been asked once for every control period that has begun.
LEMMA ClockTicks ==
  ASSUME NEW e, e.tick \in Nat, e.age \in Nat, OnClock(e)
  PROVE  /\ e.tick % ControlEvery = 0 => e.age * ControlEvery = e.tick
         /\ e.tick % ControlEvery # 0 => e.age * ControlEvery > e.tick
         /\ (e.age + 1) * ControlEvery = e.age * ControlEvery + ControlEvery
<1>1. PICK k \in Nat : /\ k * ControlEvery <= e.tick
                       /\ e.tick < (k + 1) * ControlEvery
                       /\ e.tick % ControlEvery = 0 => e.tick = k * ControlEvery
                       /\ e.tick % ControlEvery # 0 => e.tick # k * ControlEvery
  BY DivMod
<1>2. (e.age + 1) * ControlEvery = e.age * ControlEvery + ControlEvery
  BY EpisodeAssumption
<1>3. \A i, j \in Nat : i < j => (i + 1) * ControlEvery <= j * ControlEvery
  BY EpisodeAssumption
<1>4. e.age = k \/ e.age = k + 1
  <2> DEFINE p == e.age * ControlEvery
             q == k * ControlEvery
             r == (k + 1) * ControlEvery
  <2>1. p \in Nat /\ q \in Nat /\ r = q + ControlEvery /\ ControlEvery \in Nat
    BY <1>1, EpisodeAssumption
  <2>2. /\ q <= e.tick /\ e.tick < r
        /\ e.tick <= p /\ p < e.tick + ControlEvery
    BY <1>1 DEF OnClock
  <2>3. e.age < k => p + ControlEvery <= q
    BY <1>2, <1>3
  <2>4. k + 1 < e.age => r + ControlEvery <= p
    <3>1. k + 1 < e.age => (k + 2) * ControlEvery <= p
      BY <1>3
    <3>2. (k + 2) * ControlEvery = r + ControlEvery
      BY EpisodeAssumption
    <3> QED
      BY <3>1, <3>2
  <2> HIDE DEF p, q, r
  <2>5. ~(e.age < k) /\ ~(k + 1 < e.age)
    BY <2>1, <2>2, <2>3, <2>4
  <2> QED
    BY <2>5
<1> QED
  BY <1>1, <1>2, <1>4, EpisodeAssumption DEF OnClock

\* There is an evaluation for every control tick of the episode.
LEMMA Scheduled ==
  ASSUME NEW e, e.tick \in Nat, e.age \in Nat, OnClock(e),
         e.tick < MaxTicks, e.tick % ControlEvery = 0
  PROVE  e.age + 1 \in Evaluations
<1> DEFINE top == MaxTicks + ControlEvery - 1
           k   == top \div ControlEvery
<1>1. (e.age + 1) * ControlEvery <= top
  <2>1. e.age * ControlEvery = e.tick
        /\ (e.age + 1) * ControlEvery = e.tick + ControlEvery
    BY ClockTicks
  <2> QED
    BY <2>1, EpisodeAssumption
<1>2. k \in Nat /\ top < (k + 1) * ControlEvery
  <2>1. k \in Nat /\ top = k * ControlEvery + (top % ControlEvery)
        /\ top % ControlEvery < ControlEvery
    BY EpisodeAssumption
  <2>2. (k + 1) * ControlEvery = k * ControlEvery + ControlEvery
    BY <2>1, EpisodeAssumption
  <2> QED
    BY <2>1, <2>2, EpisodeAssumption
<1>3. top \in Nat
  BY EpisodeAssumption
<1> HIDE DEF top, k
<1>4. \A i, j \in Nat : j < i => (j + 1) * ControlEvery <= i * ControlEvery
  BY EpisodeAssumption
<1>5. ~(k < e.age + 1)
  <2> SUFFICES ASSUME k < e.age + 1 PROVE FALSE
    OBVIOUS
  <2>1. (k + 1) * ControlEvery <= (e.age + 1) * ControlEvery
    BY <1>2, <1>4
  <2>2. (k + 1) * ControlEvery \in Nat /\ (e.age + 1) * ControlEvery \in Nat
    BY <1>2, EpisodeAssumption
  <2> HIDE DEF top
  <2> QED
    BY <1>1, <1>2, <1>3, <2>1, <2>2
<1> QED
  BY <1>2, <1>5 DEF Evaluations, k, top

-------------------------------------------------------------------------------
Episodes == [tick : Nat, held : Levels, age : Nat, engine : Engines, body : Nat]

Scripts == /\ script \in [Controllers -> [Evaluations -> Asks]]
           /\ \A c \in Controllers \ Layered : script[c] \in OpenLoop

Types == /\ Scripts
         /\ next \in Nat
         /\ job \in [Threads -> Nat]
         /\ pc \in [Threads -> {"claim", "fly", "gone"}]
         /\ episode \in [Threads -> Episodes]
         /\ asking \in [Threads -> Nat]

\* A thread that flies has a controller to ask and is on its clock; its engine
\* is sound, and what it holds for a layered controller is what the engine obeys.
Airworthy(t) ==
  /\ Jobs[job[t]] \in Controllers
  /\ OnClock(episode[t]) /\ episode[t].tick <= MaxTicks
  /\ Sound(episode[t].engine, asking[t])
  /\ Jobs[job[t]] \in Layered => DemandFor(episode[t].held) = episode[t].held

IInv == Types /\ \A t \in Threads : pc[t] = "fly" => Airworthy(t)

\* A new world.
LEMMA StartSound ==
  /\ Start \in Episodes /\ OnClock(Start) /\ Start.tick <= MaxTicks
                    /\ Sound(Start.engine, 0)
                    /\ DemandFor(Start.held) = Start.held
<1> USE ThrusterAssumption, EpisodeAssumption DEF Start, Cold
<1>1. Start \in Episodes
  BY DEF Episodes, Engines, Levels
<1>2. OnClock(Start)
  BY DEF OnClock
<1>3. Sound(Start.engine, 0)
  BY DEF Sound, Engines
<1>4. DemandFor(Start.held) = Start.held
  BY DEF DemandFor, Lower, Higher
<1>5. Start.tick <= MaxTicks
  OBVIOUS
<1> QED
  BY <1>1, <1>2, <1>3, <1>4, <1>5

\* No episode is in flight.
LEMMA InitInv == Init => IInv
<1> SUFFICES ASSUME Init PROVE IInv
  OBVIOUS
<1>1. Types
  BY StartSound DEF Init, Types, Scripts
<1> QED
  BY <1>1 DEF Init, IInv

\* A tick of an episode: the engine advances soundly under the control held.
LEMMA FlownSound ==
  ASSUME Scripts,
         NEW c \in Controllers, NEW n \in Nat, NEW e \in Episodes,
         OnClock(e), Sound(e.engine, n), e.tick < MaxTicks,
         c \in Layered => DemandFor(e.held) = e.held
  PROVE  LET f == Flown(c, e)
             m == Demanded(f.held, n)
         IN  /\ f \in Episodes /\ OnClock(f) /\ f.tick <= MaxTicks
             /\ Sound(f.engine, m) /\ WithinLimits(e.engine, f.engine, m)
             /\ c \in Layered => DemandFor(f.held) = f.held
<1> DEFINE due  == e.tick % ControlEvery = 0
           held == IF due THEN Evaluated(c, e.age + 1) ELSE e.held
           b    == StepActuator(e.engine, held)
           f    == Flown(c, e)
<1>0. e.tick \in Nat /\ e.age \in Nat /\ e.held \in Levels
      /\ e.engine \in Engines /\ e.body \in Nat
  BY DEF Episodes
<1>1. held \in Levels /\ (c \in Layered => DemandFor(held) = held)
  <2>1. CASE due
    <3>1. e.age + 1 \in Evaluations
      BY <1>0, <2>1, Scheduled
    <3> DEFINE want == script[c][e.age + 1]
    <3>2. script[c] \in [Evaluations -> Asks]
      BY DEF Scripts
    <3>3. want \in Asks
      BY <3>1, <3>2
    <3>4. c \notin Layered => want \in Levels
      BY <3>1 DEF Scripts, OpenLoop, Levels
    <3>5. want \in Int
      BY <3>3, EpisodeAssumption
    <3> HIDE DEF want
    <3>6. Evaluated(c, e.age + 1) = IF c \in Layered THEN Allocated(want) ELSE want
      BY DEF Evaluated, want
    <3> QED
      BY <2>1, <3>4, <3>5, <3>6, AllocatedIsHonest
  <2>2. CASE ~due
    BY <1>0, <2>2
  <2> QED
    BY <2>1, <2>2
<1>2. f = [tick |-> e.tick + 1, held |-> held,
           age |-> IF due THEN e.age + 1 ELSE e.age,
           engine |-> b, body |-> Pushed(e.body, b)]
  BY DEF Flown
<1> HIDE DEF held, b, f
<1>3. Sound(b, Demanded(held, n))
      /\ WithinLimits(e.engine, b, Demanded(held, n))
  BY <1>1, StepSound DEF b
<1>4. b \in Engines /\ b.thrust \in Nat
  BY <1>3, ThrusterAssumption DEF Sound, Engines
<1>5. f \in Episodes
  BY <1>0, <1>1, <1>2, <1>4 DEF Episodes, Pushed
<1>6. OnClock(f)
  <2>1. /\ due => e.age * ControlEvery = e.tick
        /\ ~due => e.age * ControlEvery > e.tick
        /\ (e.age + 1) * ControlEvery = e.age * ControlEvery + ControlEvery
    BY <1>0, ClockTicks
  <2>2. e.age * ControlEvery < e.tick + ControlEvery
    BY DEF OnClock
  <2>3. e.age * ControlEvery \in Nat
    BY <1>0, EpisodeAssumption
  <2>4. CASE due
    BY <1>0, <1>2, <2>1, <2>4, EpisodeAssumption DEF OnClock
  <2>5. CASE ~due
    BY <1>0, <1>2, <2>1, <2>2, <2>3, <2>5, EpisodeAssumption DEF OnClock
  <2> QED
    BY <2>4, <2>5
<1>7. f.tick <= MaxTicks
  BY <1>0, <1>2, EpisodeAssumption
<1> QED
  BY <1>1, <1>2, <1>3, <1>5, <1>6, <1>7 DEF f

-------------------------------------------------------------------------------
\* Every action keeps the invariant.
LEMMA ClaimKeeps == \A t \in Threads : IInv /\ ClaimJob(t) => IInv'
<1> SUFFICES ASSUME NEW t \in Threads, IInv, ClaimJob(t) PROVE IInv'
  OBVIOUS
<1>1. Types'
  BY StartSound DEF IInv, Types, Scripts, ClaimJob
<1>2. ASSUME NEW u \in Threads, pc'[u] = "fly" PROVE Airworthy(u)'
  <2>1. CASE u = t
    <3>1. job'[u] = next /\ episode'[u] = Start /\ asking'[u] = 0
          /\ Jobs[next] \in Controllers
      BY <2>1 DEF IInv, Types, ClaimJob
    <3> QED
      BY <3>1, StartSound DEF Airworthy, OnClock
  <2>2. CASE u # t
    <3>1. /\ job'[u] = job[u] /\ episode'[u] = episode[u]
          /\ asking'[u] = asking[u] /\ pc[u] = "fly"
      BY <1>2, <2>2 DEF IInv, Types, ClaimJob
    <3> QED
      BY <3>1 DEF IInv, Airworthy, OnClock
  <2> QED
    BY <2>1, <2>2
<1> QED
  BY <1>1, <1>2 DEF IInv

\* These leave every episode in flight as it is.
LEMMA OthersKeep ==
  \A t \in Threads :
    IInv /\ (ClaimUnknown(t) \/ Leave(t) \/ Record(t)) => IInv'
<1> SUFFICES ASSUME NEW t \in Threads, IInv, ClaimUnknown(t) \/ Leave(t) \/ Record(t)
             PROVE  IInv'
  OBVIOUS
<1>1. Types'
  <2>1. UNCHANGED <<script, job, episode, asking>>
    BY DEF ClaimUnknown, Leave, Record
  <2>2. next' = next \/ next' = next + 1
    BY DEF ClaimUnknown, Leave, Record
  <2>3. \/ pc' = pc
        \/ pc' = [pc EXCEPT ![t] = "gone"]
        \/ pc' = [pc EXCEPT ![t] = "claim"]
    BY DEF ClaimUnknown, Leave, Record
  <2>4. next' \in Nat
    BY <2>2 DEF IInv, Types
  <2>5. pc' \in [Threads -> {"claim", "fly", "gone"}]
    BY <2>3 DEF IInv, Types
  <2> QED
    BY <2>1, <2>4, <2>5 DEF IInv, Types, Scripts
<1>2. ASSUME NEW u \in Threads, pc'[u] = "fly" PROVE Airworthy(u)'
  <2>1. /\ job'[u] = job[u] /\ episode'[u] = episode[u]
        /\ asking'[u] = asking[u] /\ pc[u] = "fly"
    BY <1>2 DEF IInv, Types, ClaimUnknown, Leave, Record
  <2> QED
    BY <2>1 DEF IInv, Airworthy, OnClock
<1> QED
  BY <1>1, <1>2 DEF IInv

\* A tick flown: its own episode by FlownSound, the others untouched.
LEMMA FlyKeeps ==
  \A t \in Threads :
    IInv /\ Fly(t) =>
      /\ IInv'
      /\ WithinLimits(episode[t].engine, episode'[t].engine, asking'[t])
<1> SUFFICES ASSUME NEW t \in Threads, IInv, Fly(t)
             PROVE  /\ IInv'
                    /\ WithinLimits(episode[t].engine, episode'[t].engine, asking'[t])
  OBVIOUS
<1> DEFINE c == Jobs[job[t]]
           e == episode[t]
           f == Flown(c, e)
           m == Demanded(f.held, asking[t])
<1>1. /\ c \in Controllers /\ e \in Episodes /\ asking[t] \in Nat
      /\ OnClock(e) /\ Sound(e.engine, asking[t])
      /\ c \in Layered => DemandFor(e.held) = e.held
  BY DEF IInv, Types, Airworthy, Fly
<1>2. e.tick < MaxTicks
  <2>1. e.tick <= MaxTicks /\ e.tick # MaxTicks /\ e.tick \in Nat
    BY DEF IInv, Types, Airworthy, Fly, Over, Episodes
  <2> QED
    BY <2>1, EpisodeAssumption
<1>3. Scripts
  BY DEF IInv, Types
<1> HIDE DEF c, e, f, m
<1>4. /\ f \in Episodes /\ OnClock(f) /\ f.tick <= MaxTicks
      /\ Sound(f.engine, m) /\ WithinLimits(e.engine, f.engine, m)
      /\ c \in Layered => DemandFor(f.held) = f.held
  BY <1>1, <1>2, <1>3, FlownSound DEF f, m
<1>5. /\ episode' = [episode EXCEPT ![t] = f]
      /\ asking' = [asking EXCEPT ![t] = m]
      /\ script' = script /\ next' = next /\ pc' = pc /\ job' = job
  BY DEF Fly, f, c, e, m, Demanded
<1>6. m \in Nat
  BY <1>1 DEF m, Demanded
<1>7. Types'
  BY <1>4, <1>5, <1>6 DEF IInv, Types, Scripts
<1>8. episode'[t] = f /\ asking'[t] = m
  BY <1>5 DEF IInv, Types
<1>9. ASSUME NEW u \in Threads, pc'[u] = "fly" PROVE Airworthy(u)'
  <2>1. CASE u = t
    BY <1>1, <1>4, <1>5, <1>8, <2>1 DEF Airworthy, OnClock, c
  <2>2. CASE u # t
    <3>1. episode'[u] = episode[u] /\ asking'[u] = asking[u]
      BY <1>5, <2>2 DEF IInv, Types
    <3> QED
      BY <1>5, <1>9, <3>1 DEF IInv, Airworthy, OnClock
  <2> QED
    BY <2>1, <2>2
<1> QED
  BY <1>4, <1>7, <1>8, <1>9 DEF IInv, e

\* Every step of the pool keeps the invariant.
LEMMA StepInv == IInv /\ [Next]_vars => IInv'
<1> SUFFICES ASSUME IInv, [Next]_vars PROVE IInv'
  OBVIOUS
<1>1. CASE Next
  BY <1>1, ClaimKeeps, OthersKeep, FlyKeeps DEF Next
<1>2. CASE UNCHANGED vars
  BY <1>2 DEF vars, IInv, Types, Scripts, Airworthy, OnClock
<1> QED
  BY <1>1, <1>2

\* Every engine in flight is one that stepActuators can have made: past its
\* ignition time and at or above its floor if it burns, counting if it does not.
THEOREM EnginesSound == Spec => []IInv
<1> QED
  BY InitInv, StepInv, PTL DEF Spec

-------------------------------------------------------------------------------
\* What the theorems say of a state, and of a step.
LEMMA InvRests == IInv => RestsAsAsked
<1> SUFFICES ASSUME IInv, NEW t \in Threads, pc[t] = "fly",
                    Jobs[job[t]] \in Layered,
                    StepActuator(episode[t].engine, episode[t].held) = episode[t].engine
             PROVE  episode[t].engine.thrust = episode[t].held
  BY DEF RestsAsAsked
<1>1. /\ Sound(episode[t].engine, asking[t]) /\ asking[t] \in Nat
      /\ episode[t].held \in Levels
      /\ DemandFor(episode[t].held) = episode[t].held
  BY DEF IInv, Types, Airworthy, Episodes
<1> QED
  BY <1>1, RestIsDemand

\* An engine that does not move is within its limits.
LEMMA StillWithin ==
  \A a, n : Sound(a, n) => WithinLimits(a, a, n)
BY ThrusterAssumption DEF Sound, Engines, WithinLimits, Higher

Limits(t) == pc[t] = "fly" =>
               WithinLimits(episode[t].engine, episode'[t].engine, asking'[t])

\* An engine in flight moves within the limits of its thruster.
LEMMA StepLimits == IInv /\ [Next]_vars => \A t \in Threads : Limits(t)
<1> SUFFICES ASSUME IInv, [Next]_vars, NEW t \in Threads, pc[t] = "fly"
             PROVE  WithinLimits(episode[t].engine, episode'[t].engine, asking'[t])
  BY DEF Limits
<1>0. Sound(episode[t].engine, asking[t])
  BY DEF IInv, Airworthy
<1>1. CASE Fly(t)
  BY <1>1, FlyKeeps
<1>2. CASE ~Fly(t)
  <2>1. episode'[t] = episode[t] /\ asking'[t] = asking[t]
    BY <1>2 DEF IInv, Types, Next, vars, ClaimJob, ClaimUnknown, Leave, Fly,
       Record
  <2> QED
    BY <1>0, <2>1, StillWithin
<1> QED
  BY <1>1, <1>2

\* ThrustAllocator.cpp's comment, for every thruster and every history of
\* demands: an engine at rest is at the thrust it was asked for, because what
\* snapToThrustFloor answers is what demandFor leaves as it is.
THEOREM Rests == Spec => []RestsAsAsked
<1> QED
  BY EnginesSound, InvRests, PTL

\* core/Thruster.hpp's promise, for every thruster, any number of threads and
\* any script: no thrust before the ignition time has been asked for without a
\* break, none below the floor once lit, no jump beyond the ramps.
THEOREM Limited == Spec => ActuatorLimits
<1>1. IInv /\ [Next]_vars =>
        [\A t \in Threads :
           LET old == episode[t].engine
               new == episode'[t].engine
           IN  pc[t] = "fly" =>
             /\ old.thrust = 0 /\ new.thrust > 0 => asking'[t] >= IgnitionTicks
             /\ new.lit => new.thrust \in MinThrust .. MaxThrust
             /\ RampUp > 0 => new.thrust <= Higher(old.thrust, MinThrust) + RampUp
             /\ RampDown > 0 /\ ~new.lit => new.thrust >= old.thrust - RampDown
        ]_vars
  BY StepLimits DEF Limits, WithinLimits
<1> QED
  BY <1>1, EnginesSound, PTL DEF Spec, ActuatorLimits

-------------------------------------------------------------------------------
\* A set of natural numbers that is not empty has a least member.
LEMMA Least == \A T \in SUBSET Nat : T # {} => \E x \in T : \A y \in T : x <= y
<1> SUFFICES ASSUME NEW T \in SUBSET Nat, T # {}
             PROVE  \E x \in T : \A y \in T : x <= y
  OBVIOUS
<1>1. \E x \in T : \A y \in T : ~(<<y, x>> \in OpToRel(<, Nat))
  BY NatLessThanWellFounded, WFMin
<1>2. \A x, y \in Nat : <<y, x>> \in OpToRel(<, Nat) <=> y < x
  BY DEF OpToRel
<1>3. PICK x \in T : \A y \in T : ~(<<y, x>> \in OpToRel(<, Nat))
  BY <1>1
<1>4. ASSUME NEW y \in T PROVE x <= y
  <2>1. x \in Nat /\ y \in Nat
    OBVIOUS
  <2>2. ~(y < x)
    BY <1>2, <1>3, <2>1
  <2> QED
    BY <2>1, <2>2
<1> QED
  BY <1>4

\* An episode with nobody else about: where tick n leaves it, given the one before.
After(c, f, n) ==
  IF n = 0 THEN Start
  ELSE IF Over(f[n - 1]) THEN f[n - 1] ELSE Flown(c, f[n - 1])

Flies(c, f, k) == f = [n \in 0 .. k |-> After(c, f, n)]

\* Every number of ticks has its episode: the least that had none would have one,
\* a tick longer than that of the number before.
LEMMA FlightExists == \A c : \E f : Flies(c, f, MaxTicks)
<1> SUFFICES ASSUME NEW c PROVE \E f : Flies(c, f, MaxTicks)
  OBVIOUS
<1> DEFINE T == {k \in Nat : ~\E f : Flies(c, f, k)}
<1>1. CASE T = {}
  BY <1>1, EpisodeAssumption
<1>2. CASE T # {}
  <2>1. PICK k \in T : \A m \in T : k <= m
    BY <1>2, Least
  <2>2. k \in Nat /\ ~\E f : Flies(c, f, k)
    OBVIOUS
  <2>3. k # 0
    <3>1. Flies(c, [n \in 0 .. 0 |-> Start], 0)
      BY DEF Flies, After
    <3> QED
      BY <2>2, <3>1
  <2>4. PICK g : Flies(c, g, k - 1)
    <3>1. k - 1 \in Nat /\ k - 1 \notin T
      BY <2>1, <2>2, <2>3
    <3> QED
      BY <3>1
  <2> DEFINE f == [n \in 0 .. k |-> IF n = k THEN After(c, g, k) ELSE g[n]]
  <2>5. \A n \in 0 .. k - 1 : f[n] = g[n] /\ g[n] = After(c, g, n)
    BY <2>2, <2>4 DEF Flies
  <2>6. \A n \in 0 .. k : After(c, f, n) = After(c, g, n)
    BY <2>2, <2>5 DEF After
  <2>7. \A n \in 0 .. k : f[n] = After(c, f, n)
    BY <2>2, <2>3, <2>5, <2>6
  <2>8. f = [n \in 0 .. k |-> f[n]]
    OBVIOUS
  <2> HIDE DEF f
  <2>9. Flies(c, f, k)
    BY <2>7, <2>8 DEF Flies
  <2> QED
    BY <2>2, <2>9
<1> QED
  BY <1>1, <1>2

\* What a job flies alone is a flight.
LEMMA FlightIs == \A c : Flies(c, Flight(c), MaxTicks)
<1> SUFFICES ASSUME NEW c PROVE Flies(c, Flight(c), MaxTicks)
  OBVIOUS
<1>1. Flight(c) = CHOOSE f : Flies(c, f, MaxTicks)
  BY DEF Flight, Flies, After
<1> QED
  BY <1>1, FlightExists

\* An episode that is over stays as it is for the ticks that are left.
LEMMA Settled ==
  ASSUME NEW c, NEW f, Flies(c, f, MaxTicks),
         NEW n \in 0 .. MaxTicks, Over(f[n])
  PROVE  f[MaxTicks] = f[n]
<1> DEFINE T == {m \in Nat : n <= m /\ m <= MaxTicks /\ f[m] # f[n]}
<1>1. CASE T = {}
  BY <1>1, EpisodeAssumption
<1>2. CASE T # {}
  <2>1. PICK k \in T : \A m \in T : k <= m
    BY <1>2, Least
  <2>2. k \in Nat /\ n < k /\ k <= MaxTicks /\ f[k] # f[n]
    BY EpisodeAssumption
  <2>3. f[k - 1] = f[n]
    BY <2>1, <2>2, EpisodeAssumption
  <2>4. f[k] = f[k - 1]
    BY <2>2, <2>3, EpisodeAssumption DEF Flies, After
  <2> QED
    BY <2>2, <2>3, <2>4
<1> QED
  BY <1>1, <1>2

-------------------------------------------------------------------------------
\* Where an episode stands is where it stands when flown alone.
OnCourse(c, e) == \A f : Flies(c, f, MaxTicks) => f[e.tick] = e

\* What a job gives by itself.
Own(i, r) ==
  IF Jobs[i] \in Controllers
  THEN \A f : Flies(Jobs[i], f, MaxTicks) => r = Result(Jobs[i], f[MaxTicks])
  ELSE r = Unknown

\* A thread flies a job that it has claimed and no other thread has, and is where
\* that job is when flown alone; a job that has been claimed is being flown or has
\* its result; a thread leaves when every job has been claimed.
Dealt ==
  /\ next \in Nat \ {0}
  /\ DOMAIN results = 1 .. Len(Jobs)
  /\ \A t \in Threads : pc[t] = "fly" =>
       /\ job[t] \in 1 .. Len(Jobs) /\ job[t] < next
       /\ OnCourse(Jobs[job[t]], episode[t])
       /\ \A u \in Threads : pc[u] = "fly" /\ job[u] = job[t] => u = t
  /\ \A i \in 1 .. Len(Jobs) : i < next =>
       \/ \E t \in Threads : pc[t] = "fly" /\ job[t] = i
       \/ Own(i, results[i])
  /\ \A t \in Threads : pc[t] = "gone" => next > Len(Jobs)

\* No job has been dealt.
LEMMA InitDealt == Init => Dealt
BY PoolAssumption DEF Init, Dealt

\* An episode begins on its course.
LEMMA StartOnCourse == \A c : OnCourse(c, Start)
BY EpisodeAssumption DEF OnCourse, Flies, After, Start

\* A tick keeps it there.
LEMMA FlownOnCourse ==
  ASSUME NEW c, NEW e, OnCourse(c, e), ~Over(e), e.tick \in 0 .. MaxTicks
  PROVE  OnCourse(c, Flown(c, e))
<1> SUFFICES ASSUME NEW f, Flies(c, f, MaxTicks)
             PROVE  f[Flown(c, e).tick] = Flown(c, e)
  BY DEF OnCourse
<1>1. Flown(c, e).tick = e.tick + 1
  BY DEF Flown
<1>2. e.tick + 1 \in 1 .. MaxTicks
  BY EpisodeAssumption DEF Over
<1>3. f[e.tick] = e
  BY DEF OnCourse
<1>4. f[e.tick + 1] = After(c, f, e.tick + 1)
  BY <1>2, EpisodeAssumption DEF Flies
<1>5. After(c, f, e.tick + 1) = Flown(c, e)
  BY <1>2, <1>3, EpisodeAssumption DEF After
<1> QED
  BY <1>1, <1>4, <1>5

\* What is over is what the episode alone ends with.
LEMMA OverIsOwn ==
  ASSUME NEW i \in 1 .. Len(Jobs), NEW e, Jobs[i] \in Controllers,
         OnCourse(Jobs[i], e), Over(e), e.tick \in 0 .. MaxTicks
  PROVE  Own(i, Result(Jobs[i], e))
<1> SUFFICES ASSUME NEW f, Flies(Jobs[i], f, MaxTicks)
             PROVE  Result(Jobs[i], e) = Result(Jobs[i], f[MaxTicks])
  BY DEF Own
<1>1. f[e.tick] = e
  BY DEF OnCourse
<1>2. f[MaxTicks] = e
  BY <1>1, Settled
<1> QED
  BY <1>2

\* The scripts stay as they are, and with them every episode flown alone.
LEMMA SameCourse ==
  ASSUME script' = script
  PROVE  /\ \A c, f : Flies(c, f, MaxTicks)' <=> Flies(c, f, MaxTicks)
         /\ \A c, e : OnCourse(c, e)' <=> OnCourse(c, e)
         /\ \A i, r : Own(i, r)' <=> Own(i, r)
<1>1. \A c, e : Flown(c, e)' = Flown(c, e)
  BY DEF Flown, Evaluated
<1>2. \A c, f, n : After(c, f, n)' = After(c, f, n)
  BY <1>1 DEF After
<1>3. \A c, f : Flies(c, f, MaxTicks)' <=> Flies(c, f, MaxTicks)
  BY <1>2 DEF Flies
<1>4. \A c, e : OnCourse(c, e)' <=> OnCourse(c, e)
  BY <1>3 DEF OnCourse
<1>5. \A i, r : Own(i, r)' <=> Own(i, r)
  BY <1>3 DEF Own
<1> QED
  BY <1>3, <1>4, <1>5

\* A thread that claims a job is the only one to have it.
LEMMA ClaimDealt == \A t \in Threads : IInv /\ Dealt /\ ClaimJob(t) => Dealt'
<1> SUFFICES ASSUME NEW t \in Threads, IInv, Dealt, ClaimJob(t) PROVE Dealt'
  OBVIOUS
<1>0. /\ pc[t] = "claim" /\ next \in 1 .. Len(Jobs) /\ next' = next + 1
      /\ script' = script /\ results' = results
      /\ pc'[t] = "fly" /\ job'[t] = next /\ episode'[t] = Start
      /\ \A u \in Threads \ {t} :
           pc'[u] = pc[u] /\ job'[u] = job[u] /\ episode'[u] = episode[u]
  BY PoolAssumption DEF IInv, Types, Dealt, ClaimJob
<1>1. next' \in Nat \ {0} /\ DOMAIN results' = 1 .. Len(Jobs)
  BY <1>0 DEF Dealt
<1>2. ASSUME NEW u \in Threads, pc'[u] = "fly"
      PROVE  /\ job'[u] \in 1 .. Len(Jobs) /\ job'[u] < next'
             /\ OnCourse(Jobs[job'[u]], episode'[u])
             /\ \A w \in Threads : pc'[w] = "fly" /\ job'[w] = job'[u] => w = u
  <2>1. CASE u = t
    <3>1. \A w \in Threads \ {t} : pc'[w] = "fly" => job'[w] < next
      BY <1>0 DEF Dealt
    <3> QED
      BY <1>0, <2>1, <3>1, StartOnCourse
  <2>2. CASE u # t
    <3>1. pc[u] = "fly" /\ job[u] < next /\ job[u] \in 1 .. Len(Jobs)
      BY <1>0, <1>2, <2>2 DEF Dealt
    <3> QED
      BY <1>0, <2>2, <3>1, PoolAssumption DEF Dealt
  <2> QED
    BY <2>1, <2>2
<1>3. ASSUME NEW i \in 1 .. Len(Jobs), i < next'
      PROVE  \/ \E u \in Threads : pc'[u] = "fly" /\ job'[u] = i
             \/ Own(i, results'[i])
  <2>1. CASE i = next
    BY <1>0, <2>1
  <2>2. CASE i # next
    <3>1. i < next
      BY <1>0, <1>3, <2>2, PoolAssumption
    <3> QED
      BY <1>0, <3>1 DEF Dealt
  <2> QED
    BY <2>1, <2>2
<1>4. \A u \in Threads : pc'[u] = "gone" => next' > Len(Jobs)
  BY <1>0 DEF Dealt
<1> QED
  BY <1>0, <1>1, <1>2, <1>3, <1>4, SameCourse DEF Dealt

\* A job for an unknown controller has its result at once.
LEMMA UnknownDealt ==
  \A t \in Threads : IInv /\ Dealt /\ ClaimUnknown(t) => Dealt'
<1> SUFFICES ASSUME NEW t \in Threads, IInv, Dealt, ClaimUnknown(t) PROVE Dealt'
  OBVIOUS
<1>0. /\ next \in 1 .. Len(Jobs) /\ next' = next + 1
      /\ Jobs[next] \notin Controllers
      /\ results' = [results EXCEPT ![next] = Unknown]
      /\ script' = script /\ pc' = pc /\ job' = job /\ episode' = episode
  BY PoolAssumption DEF Dealt, ClaimUnknown
<1>1. next' \in Nat \ {0} /\ DOMAIN results' = 1 .. Len(Jobs)
  BY <1>0 DEF Dealt
<1>2. ASSUME NEW i \in 1 .. Len(Jobs), i < next'
      PROVE  \/ \E u \in Threads : pc[u] = "fly" /\ job[u] = i
             \/ Own(i, results'[i])
  <2>1. CASE i = next
    <3>1. results'[i] = Unknown
      BY <1>0, <2>1 DEF Dealt
    <3> QED
      BY <1>0, <2>1, <3>1 DEF Own
  <2>2. CASE i # next
    <3>1. i < next /\ results'[i] = results[i]
      BY <1>0, <1>2, <2>2, PoolAssumption DEF Dealt
    <3> QED
      BY <3>1 DEF Dealt
  <2> QED
    BY <2>1, <2>2
<1>3. \A u \in Threads : pc[u] = "fly" => job[u] < next'
  BY <1>0, PoolAssumption DEF Dealt
<1>4. \A u \in Threads : pc[u] = "gone" => next' > Len(Jobs)
  BY <1>0, PoolAssumption DEF Dealt
<1> QED
  BY <1>0, <1>1, <1>2, <1>3, <1>4, SameCourse DEF Dealt

\* Past the last job a thread leaves.
LEMMA LeaveDealt == \A t \in Threads : IInv /\ Dealt /\ Leave(t) => Dealt'
<1> SUFFICES ASSUME NEW t \in Threads, IInv, Dealt, Leave(t) PROVE Dealt'
  OBVIOUS
<1>0. /\ next > Len(Jobs) /\ next' = next + 1 /\ pc[t] = "claim"
      /\ UNCHANGED <<script, job, episode, results>>
      /\ pc'[t] = "gone" /\ \A u \in Threads \ {t} : pc'[u] = pc[u]
  BY DEF IInv, Types, Leave
<1>1. next' \in Nat \ {0} /\ next' > Len(Jobs) /\ next' > next
  BY <1>0, PoolAssumption DEF Dealt
<1>2. \A u \in Threads : pc'[u] = "fly" <=> pc[u] = "fly"
  BY <1>0
<1>3. ASSUME NEW u \in Threads, pc[u] = "fly" PROVE job[u] < next'
  BY <1>0, <1>1, <1>3, PoolAssumption DEF Dealt
<1>4. \A i \in 1 .. Len(Jobs) : i < next
  BY <1>0, PoolAssumption DEF Dealt
<1> QED
  BY <1>0, <1>1, <1>2, <1>3, <1>4, SameCourse DEF Dealt

\* A tick flown keeps the episode on its course, the others are untouched.
LEMMA FlyDealt == \A t \in Threads : IInv /\ Dealt /\ Fly(t) => Dealt'
<1> SUFFICES ASSUME NEW t \in Threads, IInv, Dealt, Fly(t) PROVE Dealt'
  OBVIOUS
<1>0. /\ pc[t] = "fly" /\ ~Over(episode[t])
      /\ UNCHANGED <<script, next, pc, job, results>>
      /\ episode'[t] = Flown(Jobs[job[t]], episode[t])
      /\ \A u \in Threads \ {t} : episode'[u] = episode[u]
  BY DEF IInv, Types, Fly
<1>1. episode[t].tick \in 0 .. MaxTicks
  BY <1>0, EpisodeAssumption DEF IInv, Types, Airworthy, Episodes
<1>2. OnCourse(Jobs[job[t]], episode'[t])
  BY <1>0, <1>1, FlownOnCourse DEF Dealt
<1>3. ASSUME NEW u \in Threads, pc[u] = "fly"
      PROVE  OnCourse(Jobs[job[u]], episode'[u])
  BY <1>0, <1>2, <1>3 DEF Dealt
<1> QED
  BY <1>0, <1>3, SameCourse DEF Dealt

\* A thread whose episode is over leaves what the job gives by itself.
LEMMA RecordDealt == \A t \in Threads : IInv /\ Dealt /\ Record(t) => Dealt'
<1> SUFFICES ASSUME NEW t \in Threads, IInv, Dealt, Record(t) PROVE Dealt'
  OBVIOUS
<1> DEFINE r == Result(Jobs[job[t]], episode[t])
<1>0. /\ pc[t] = "fly" /\ Over(episode[t])
      /\ results' = [results EXCEPT ![job[t]] = r]
      /\ UNCHANGED <<script, next, job, episode>>
      /\ pc'[t] = "claim" /\ \A u \in Threads \ {t} : pc'[u] = pc[u]
  BY DEF IInv, Types, Record
<1>1. /\ episode[t].tick \in 0 .. MaxTicks
      /\ Jobs[job[t]] \in Controllers
      /\ job[t] \in 1 .. Len(Jobs) /\ OnCourse(Jobs[job[t]], episode[t])
  BY <1>0, EpisodeAssumption DEF IInv, Types, Airworthy, Episodes, Dealt
<1>2. Own(job[t], r)
  BY <1>0, <1>1, OverIsOwn
<1> HIDE DEF r
<1>3. /\ DOMAIN results' = 1 .. Len(Jobs) /\ results'[job[t]] = r
      /\ \A i \in 1 .. Len(Jobs) : i # job[t] => results'[i] = results[i]
  BY <1>0, <1>1 DEF Dealt
<1>4. ASSUME NEW i \in 1 .. Len(Jobs), i < next
      PROVE  \/ \E u \in Threads : pc'[u] = "fly" /\ job[u] = i
             \/ Own(i, results'[i])
  <2>1. CASE i = job[t]
    BY <1>2, <1>3, <2>1
  <2>2. CASE i # job[t]
    BY <1>0, <1>3, <1>4, <2>2 DEF Dealt
  <2> QED
    BY <2>1, <2>2
<1>5. \A u \in Threads : pc'[u] = "fly" => pc[u] = "fly"
  BY <1>0
<1>6. \A u \in Threads : pc'[u] = "gone" => pc[u] = "gone"
  BY <1>0
<1> QED
  BY <1>0, <1>3, <1>4, <1>5, <1>6, SameCourse DEF Dealt

\* Every step deals a job once and keeps the episodes on the flights of their jobs.
LEMMA StepDealt == IInv /\ Dealt /\ [Next]_vars => Dealt'
<1> SUFFICES ASSUME IInv, Dealt, [Next]_vars PROVE Dealt'
  OBVIOUS
<1>1. CASE Next
  BY <1>1, ClaimDealt, UnknownDealt, LeaveDealt, FlyDealt, RecordDealt DEF Next
<1>2. CASE UNCHANGED vars
  BY <1>2, SameCourse DEF vars, Dealt
<1> QED
  BY <1>1, <1>2

\* When the threads are gone, all results are those of the jobs flown alone.
LEMMA InvSame == Dealt => SameAsAlone
<1> SUFFICES ASSUME Dealt PROVE SameAsAlone
  OBVIOUS
<1>1. \A t, u \in Threads :
        pc[t] = "fly" /\ pc[u] = "fly" /\ job[t] = job[u] => t = u
  BY DEF Dealt
<1>2. ASSUME \A t \in Threads : pc[t] = "gone", NEW i \in 1 .. Len(Jobs)
      PROVE  results[i] = IF Jobs[i] \in Controllers THEN Alone(Jobs[i]) ELSE Unknown
  <2>1. PICK t \in Threads : pc[t] = "gone"
    BY <1>2, PoolAssumption
  <2>2. i < next
    BY <2>1, PoolAssumption DEF Dealt
  <2>3. Own(i, results[i])
    BY <1>2, <2>2 DEF Dealt
  <2> QED
    BY <2>3, FlightIs DEF Own, Alone
<1> QED
  BY <1>1, <1>2 DEF SameAsAlone

\* test_determinism.cpp: "running in parallel gives the same answers as running
\* alone", for any jobs, any number of threads and any schedule: the counter deals
\* each job to one thread, and the episode it flies is a function of the job.
THEOREM Deterministic == Spec => []SameAsAlone
<1> QED
  BY EnginesSound, InitDealt, StepDealt, InvSame, PTL DEF Spec
===============================================================================
