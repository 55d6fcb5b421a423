---------------------------- MODULE BenchmarkProofs ----------------------------
(***************************************************************************)
(* The benchmark, headless and in the game, for every control rate, every  *)
(* script and length of run: what its clocks agree on and what its meter   *)
(* charges.  The programs round it, for every rocket directory, order it   *)
(* is listed in and request: what they fly and what they report.           *)
(***************************************************************************)
EXTENDS BenchPrograms, FiniteSetTheorems, WellFoundedInduction, TLAPS

\* Ticks of the control period the source was last asked in.
Gone == IF phase = 0 THEN ControlEvery ELSE phase

\* A run that has not been ticked, and one that has been closed.
Edges ==
  /\ ~meter.started /\ ~done => /\ meter = Cleared /\ source = Drawn(1)
                                /\ headless => ticks = 0 /\ phase = 0
  /\ done => headless /\ ~meter.started

\* The clock of the source: a command is drawn when the one before it has been
\* held, so that the ticks there have been bound the commands.
SourceClock ==
  /\ source.index > 1 => source.left < script[source.index]
  /\ source # Drawn(1) =>
       (source.index - 1) * ControlEvery + Gone <= meter.seconds
  /\ meter.seconds <= ticks

\* The clock of the meter agrees with it.
MeterClock ==
  headless /\ meter.started =>
    meter.elapsed = (script[source.index] - source.left - 1) * ControlEvery + Gone

\* What was never within tolerance is charged whole.
AllCharged ==
  ~everWithin => /\ ~meter.within /\ meter.settled = 0
                 /\ meter.settling + (IF meter.started THEN meter.elapsed ELSE 0)
                      = meter.seconds

IInv == TypeOK /\ Edges /\ SourceClock /\ MeterClock /\ EveryCommandCharged
        /\ AllCharged

-------------------------------------------------------------------------------
\* The constants are numbers, and not 0 where they divide.
LEMMA Bounds == /\ ControlEvery \in Nat /\ ControlEvery # 0
                /\ MaxTicks \in Nat /\ MaxTicks # 0
                /\ MaxCommands \in Nat /\ MaxCommands * ControlEvery > MaxTicks
                /\ \A h \in Holds : h \in Nat /\ h # 0
BY BenchmarkBounds

\* Products with the length of a control period.
LEMMA Periods == /\ \A a, c \in Int : (a + 1) * c = a * c + c /\ a * c \in Int
                 /\ \A a, b, c \in Nat : a * c < b * c => a < b
                 /\ \A c \in Nat : 0 * c = 0
<1>1. \A a, c \in Int : (a + 1) * c = a * c + c /\ a * c \in Int
  OBVIOUS
<1>2. ASSUME NEW a \in Nat, NEW b \in Nat, NEW c \in Nat, a * c < b * c
      PROVE  a < b
  <2> SUFFICES ASSUME b <= a
               PROVE  FALSE
    OBVIOUS
  <2>1. a - b \in Nat /\ (a - b) * c >= 0
    OBVIOUS
  <2>2. (a - b) * c = a * c - b * c
    OBVIOUS
  <2> QED
    BY <1>2, <2>1, <2>2
<1>3. \A c \in Nat : 0 * c = 0
  OBVIOUS
<1> QED
  BY <1>1, <1>2, <1>3

\* A control period is one of the phases after another.
LEMMA NextPhase ==
  ASSUME phase \in 0 .. ControlEvery - 1, phase' = (phase + 1) % ControlEvery
  PROVE  /\ phase' \in 0 .. ControlEvery - 1
         /\ Gone' = IF phase = 0 THEN 1 ELSE Gone + 1
<1>1. CASE phase + 1 = ControlEvery
  <2>1. phase' = 0
    BY <1>1, Bounds
  <2> QED
    BY <1>1, <2>1, Bounds DEF Gone
<1>2. CASE phase + 1 < ControlEvery
  <2>1. phase' = phase + 1
    BY <1>2, Bounds
  <2> QED
    BY <1>2, <2>1, Bounds DEF Gone
<1> QED
  BY <1>1, <1>2, Bounds

\* The larger of two.
LEMMA MaxOfTwo == \A a, b \in Nat : Max({a, b}) \in Nat
<1> SUFFICES ASSUME NEW a \in Nat, NEW b \in Nat
             PROVE  Max({a, b}) \in Nat
  OBVIOUS
<1>1. \E x \in {a, b} : \A y \in {a, b} : x >= y
  OBVIOUS
<1> QED
  BY <1>1 DEF Max

\* closeStep and the change of command.
LEMMA CloseStepIs ==
  ASSUME NEW m \in Meters
  PROVE  /\ CloseStep(m) \in Meters
         /\ CloseStep(m).steps = m.steps + 1
         /\ CloseStep(m).seconds = m.seconds
         /\ CloseStep(m).index = m.index
         /\ ~m.within => /\ CloseStep(m).settling = m.settling + m.elapsed
                         /\ CloseStep(m).settled = m.settled
                         /\ ~CloseStep(m).within
<1> DEFINE settling == IF m.within THEN m.excursion ELSE m.elapsed
<1>1. settling \in Nat
  BY DEF Meters
<1>2. Max({m.worst, settling}) \in Nat
  BY <1>1, MaxOfTwo DEF Meters
<1>3. CloseStep(m) = [m EXCEPT !.settling = @ + settling, !.steps = @ + 1,
                !.settled = @ + (IF m.within THEN 1 ELSE 0),
                !.worst = Max({m.worst, settling})]
  BY DEF CloseStep, Meters
<1>4. ~m.within => settling = m.elapsed
  OBVIOUS
<1> HIDE DEF settling
<1>5. CloseStep(m) \in Meters
  <2>1. m.settling + settling \in Nat /\ m.steps + 1 \in Nat
    BY <1>1 DEF Meters
  <2>2. m.settled + (IF m.within THEN 1 ELSE 0) \in Nat
    <3>1. m.settled \in Nat /\ m.settled + 1 \in Nat
      BY DEF Meters
    <3> QED
      BY <3>1
  <2> QED
    BY <1>2, <1>3, <2>1, <2>2 DEF Meters
<1>6. /\ CloseStep(m).steps = m.steps + 1 /\ CloseStep(m).seconds = m.seconds
      /\ CloseStep(m).index = m.index /\ CloseStep(m).within = m.within
  BY <1>3 DEF Meters
<1>7. CloseStep(m).settling = m.settling + settling
  BY <1>3 DEF Meters
<1>8. CloseStep(m).settled = m.settled + (IF m.within THEN 1 ELSE 0)
      /\ m.settled \in Nat
  BY <1>3 DEF Meters
<1> QED
  BY <1>4, <1>5, <1>6, <1>7, <1>8

\* What a sample does to the meters, of the same command and of the next.
LEMMA SampledIs ==
  ASSUME NEW m \in Meters, NEW k \in Nat, NEW within \in BOOLEAN,
         NEW n, n = Sampled(m, k, within)
  PROVE  /\ n \in Meters /\ n.started /\ n.index = k
         /\ n.seconds = m.seconds + 1 /\ n.within = within
         /\ m.started /\ k = m.index =>
              /\ n.elapsed = m.elapsed + 1 /\ n.steps = m.steps
              /\ n.settling = m.settling /\ n.settled = m.settled
         /\ m.started /\ k # m.index =>
              /\ n.elapsed = 1 /\ n.steps = m.steps + 1
              /\ ~m.within => /\ n.settling = m.settling + m.elapsed
                              /\ n.settled = m.settled
         /\ ~m.started => /\ n.elapsed = 1 /\ n.steps = m.steps
                          /\ n.settling = m.settling /\ n.settled = m.settled
<1> DEFINE closed == IF m.started /\ k # m.index THEN CloseStep(m) ELSE m
           at == IF m.started /\ k = m.index THEN m ELSE OpenStep(closed, k)
<1>1. closed \in Meters
  BY CloseStepIs
<1>2. at \in Meters
  BY <1>1 DEF OpenStep, Meters
<1>3. n =
        [at EXCEPT !.seconds = @ + 1, !.elapsed = @ + 1, !.within = within,
                   !.excursion = IF within THEN @ ELSE at.elapsed + 1]
  BY DEF Sampled
<1>4. at.started /\ at.index = k /\ at.seconds = closed.seconds
  BY <1>1 DEF OpenStep, Meters
<1>5. m.started /\ k = m.index => at = m
  OBVIOUS
<1>6. ~(m.started /\ k = m.index) =>
        /\ at.elapsed = 0 /\ at.steps = closed.steps
        /\ at.settling = closed.settling
        /\ at.settled = closed.settled
  BY <1>1 DEF OpenStep, Meters
<1>7. /\ closed.seconds = m.seconds
      /\ m.started /\ k # m.index =>
           /\ closed.steps = m.steps + 1
           /\ ~m.within => /\ closed.settling = m.settling + m.elapsed
                           /\ closed.settled = m.settled
      /\ ~m.started => closed = m
  BY CloseStepIs
<1> HIDE DEF at, closed
<1>8. /\ n \in Meters
      /\ n.started = at.started
      /\ n.index = at.index
      /\ n.seconds = at.seconds + 1
      /\ n.elapsed = at.elapsed + 1
      /\ n.within = within
      /\ n.steps = at.steps
      /\ n.settling = at.settling
      /\ n.settled = at.settled
  <2>1. n \in Meters
    <3>1. at.seconds + 1 \in Nat /\ at.elapsed + 1 \in Nat
      BY <1>2 DEF Meters
    <3>2. (IF within THEN at.excursion ELSE at.elapsed + 1) \in Nat
      BY <1>2, <3>1 DEF Meters
    <3> QED
      BY <1>2, <1>3, <3>1, <3>2 DEF Meters
  <2>2. /\ n.started = at.started /\ n.index = at.index /\ n.steps = at.steps
        /\ n.settling = at.settling /\ n.settled = at.settled
    BY <1>2, <1>3 DEF Meters
  <2>3. /\ n.seconds = at.seconds + 1 /\ n.elapsed = at.elapsed + 1
        /\ n.within = within
    BY <1>2, <1>3 DEF Meters
  <2> QED
    BY <2>1, <2>2, <2>3
<1> QED
  BY <1>4, <1>5, <1>6, <1>7, <1>8

-------------------------------------------------------------------------------
\* The first command, just drawn, with the meters at rest.
LEMMA FirstCommand ==
  ASSUME TypeOK
  PROVE  /\ 1 \in Commands /\ Drawn(1) \in [index : Commands, left : Nat]
         /\ Drawn(1).index = 1 /\ Drawn(1).left = script[1] /\ script[1] # 0
         /\ Cleared \in Meters
<1>1. MaxCommands # 0
  BY Bounds, Periods
<1>2. 1 \in Commands
  BY <1>1, Bounds DEF Commands
<1>3. script[1] \in Nat /\ script[1] # 0
  BY <1>2, Bounds DEF TypeOK
<1>4. Cleared \in Meters
  BY DEF Cleared, Meters
<1> QED
  BY <1>2, <1>3, <1>4 DEF Drawn

\* A run from its start, in which nothing has been metered.
LEMMA AnewInv ==
  ASSUME TypeOK, TypeOK', script' = script, source' = Drawn(1), meter' = Cleared,
         ~everWithin', ~done', headless' => ticks' = 0 /\ phase' = 0
  PROVE  IInv'
<1>1. Drawn(1)' = Drawn(1)
  BY DEF Drawn
<1>2. source'.index = 1
  BY FirstCommand
<1> QED
  BY <1>1, <1>2 DEF IInv, Edges, SourceClock, MeterClock, EveryCommandCharged,
     AllCharged, Cleared, TypeOK

\* The benchmark starts in the invariant.
LEMMA Start == Init => IInv
<1> SUFFICES ASSUME Init
             PROVE  IInv
  OBVIOUS
<1>1. 1 \in Commands
  <2>1. MaxCommands # 0
    BY Bounds, Periods
  <2> QED
    BY <2>1, Bounds DEF Commands
<1>2. script[1] \in Nat
  BY <1>1, Bounds DEF Init
<1>3. Drawn(1) \in [index : Commands, left : Nat] /\ Drawn(1).left = script[1]
      /\ Drawn(1).index = 1
  BY <1>1, <1>2 DEF Drawn
<1>4. Cleared \in Meters
  BY DEF Cleared, Meters
<1>5. phase \in 0 .. ControlEvery - 1 /\ ticks \in 0 .. MaxTicks
  BY Bounds DEF Init
<1>6. TypeOK
  <2>1. script \in [Commands -> Holds] /\ mode \in Modes /\ headless \in BOOLEAN
    BY DEF Init
  <2>2. /\ source \in [index : Commands, left : Nat] /\ meter \in Meters
        /\ source.left <= script[source.index]
    BY <1>2, <1>3, <1>4 DEF Init
  <2>3. asked = Default /\ ~everWithin /\ ~done
        /\ {everWithin, done} \subseteq BOOLEAN
    BY DEF Init
  <2> QED
    BY <1>5, <2>1, <2>2, <2>3 DEF TypeOK
<1> QED
  BY <1>3, <1>6 DEF Init, IInv, Edges, SourceClock, MeterClock,
     EveryCommandCharged,
     AllCharged, Cleared

\* One tick, whether or not it draws the next command.
LEMMA TickInv == IInv /\ Tick => IInv'
<1> SUFFICES ASSUME IInv, Tick
             PROVE  IInv'
  OBVIOUS
<1>1. PICK within \in BOOLEAN :
         /\ meter' = Sampled(meter, source'.index, within)
         /\ everWithin' = (everWithin \/ within)
  BY DEF Tick
<1>2. /\ ~done /\ ticks < MaxTicks /\ ticks' = ticks + 1
      /\ phase' = (phase + 1) % ControlEvery
      /\ source' = IF phase = 0 THEN Advanced(source) ELSE source
      /\ asked' = IF phase = 0 THEN [index |-> source'.index, mode |-> mode] ELSE asked
      /\ UNCHANGED <<headless, script, mode, done>>
  BY DEF Tick
<1> DEFINE i == source.index
<1>3. /\ source \in [index : Commands, left : Nat] /\ i \in Nat /\ i # 0
      /\ script[i] \in Nat /\ script[i] # 0 /\ source.left <= script[i]
      /\ ticks \in Nat /\ meter \in Meters /\ meter.seconds \in Nat
      /\ meter.elapsed \in Nat
      /\ phase \in 0 .. ControlEvery - 1
  BY Bounds DEF IInv, TypeOK, Commands, Meters
<1>4. /\ phase' \in 0 .. ControlEvery - 1
      /\ Gone' = IF phase = 0 THEN 1 ELSE Gone + 1
      /\ phase = 0 => Gone = ControlEvery
      /\ Gone \in Nat
  BY <1>2, <1>3, NextPhase, Bounds DEF Gone
<1>5. Drawn(1)' = Drawn(1) /\ Drawn(1).index = 1 /\ Drawn(1).left = script[1]
  BY <1>2 DEF Drawn
\* The command is the one it was ...
<1>6. phase # 0 => source' = source
  BY <1>2
<1>7. phase = 0 /\ source.left # 0 =>
        source' = [index |-> i, left |-> source.left - 1]
  BY <1>2, <1>3 DEF Advanced, Over
\* ... or the one after it, for which there is room.
<1>8. ASSUME phase = 0, source.left = 0
      PROVE  /\ i + 1 \in Commands
             /\ script[i + 1] \in Nat /\ script[i + 1] # 0
             /\ source' = [index |-> i + 1, left |-> script[i + 1] - 1]
             /\ i * ControlEvery <= meter.seconds
             /\ meter.started
  <2>1. source # Drawn(1)
    <3>1. source = Drawn(1) => i = 1 /\ source.left = script[1]
      BY <1>5
    <3> QED
      BY <1>3, <1>8, <3>1
  <2>2. (i - 1) * ControlEvery + ControlEvery <= meter.seconds
    BY <1>4, <1>8, <2>1 DEF IInv, SourceClock
  <2>3. i * ControlEvery = (i - 1) * ControlEvery + ControlEvery
    <3>1. i - 1 \in Int /\ ControlEvery \in Int /\ (i - 1) + 1 = i
      BY <1>3, Bounds
    <3> QED
      BY <3>1, Periods
  <2>4. i * ControlEvery < MaxCommands * ControlEvery
    <3>1. i * ControlEvery \in Int /\ MaxCommands * ControlEvery \in Int
      BY <1>3, Periods, Bounds
    <3>2. meter.seconds <= ticks
      BY DEF IInv, SourceClock
    <3> QED
      BY <1>2, <1>3, <2>2, <2>3, <3>1, <3>2, Bounds
  <2>5. i < MaxCommands
    BY <1>3, <2>4, Periods, Bounds
  <2>6. i + 1 \in Commands
    BY <1>3, <2>5, Bounds DEF Commands
  <2>7. script[i + 1] \in Nat /\ script[i + 1] # 0
    BY <2>6, Bounds DEF IInv, TypeOK
  <2>8. source' = [index |-> i + 1, left |-> script[i + 1] - 1]
    BY <1>2, <1>8 DEF Advanced, Over, Drawn
  <2>9. meter.started
    BY <1>2, <2>1 DEF IInv, Edges
  <2> QED
    BY <2>2, <2>3, <2>6, <2>7, <2>8, <2>9
<1>9. /\ source' \in [index : Commands, left : Nat]
      /\ source'.left <= script[source'.index]
      /\ source'.index \in {i, i + 1}
      /\ source'.index = i + 1 <=> phase = 0 /\ source.left = 0
      /\ source'.index > 1 => source'.left < script[source'.index]
  <2>1. i > 1 => source.left < script[i]
    BY DEF IInv, SourceClock
  <2>2. CASE phase # 0
    BY <1>3, <1>6, <2>1, <2>2
  <2>3. CASE phase = 0 /\ source.left # 0
    BY <1>3, <1>7, <2>3
  <2>4. CASE phase = 0 /\ source.left = 0
    BY <1>3, <1>8, <2>4
  <2> QED
    BY <2>2, <2>3, <2>4
<1> DEFINE k == source'.index
<1>10. /\ meter' \in Meters /\ meter'.started /\ meter'.index = k
       /\ meter'.seconds = meter.seconds + 1 /\ meter'.within = within
       /\ meter.started /\ k = meter.index =>
            /\ meter'.elapsed = meter.elapsed + 1 /\ meter'.steps = meter.steps
            /\ meter'.settling = meter.settling
            /\ meter'.settled = meter.settled
       /\ meter.started /\ k # meter.index =>
            /\ meter'.elapsed = 1 /\ meter'.steps = meter.steps + 1
            /\ ~meter.within => /\ meter'.settling = meter.settling + meter.elapsed
                                /\ meter'.settled = meter.settled
       /\ ~meter.started => /\ meter'.elapsed = 1 /\ meter'.steps = meter.steps
                            /\ meter'.settling = meter.settling
                            /\ meter'.settled = meter.settled
  <2>1. k \in Nat /\ meter' = Sampled(meter, k, within) /\ meter \in Meters
    BY <1>1, <1>3, <1>9
  <2> HIDE DEF k
  <2> QED
    BY <2>1, SampledIs
<1>11. meter.started => meter.index = i /\ meter.steps = i - 1
  BY DEF IInv, EveryCommandCharged
<1>12. ~meter.started => meter = Cleared /\ source = Drawn(1)
                         /\ (headless => ticks = 0 /\ phase = 0)
  BY <1>2 DEF IInv, Edges
<1>13. TypeOK'
  <2>1. asked' \in [index : Commands, mode : Modes] \cup {Default}
    BY <1>2, <1>9 DEF IInv, TypeOK
  <2>2. everWithin' \in BOOLEAN /\ ticks' \in 0 .. MaxTicks
    BY <1>1, <1>2, <1>3, Bounds DEF IInv, TypeOK
  <2> QED
    BY <1>2, <1>4, <1>9, <1>10, <2>1, <2>2 DEF IInv, TypeOK
<1>14. Edges'
  BY <1>2, <1>10 DEF IInv, Edges
<1>15. SourceClock'
  <2>1. meter'.seconds <= ticks'
    BY <1>2, <1>3, <1>10 DEF IInv, SourceClock
  <2>2. ASSUME source' # Drawn(1)
        PROVE  (source'.index - 1) * ControlEvery + Gone' <= meter'.seconds
    <3>1. CASE phase # 0
      <4>1. (i - 1) * ControlEvery + Gone <= meter.seconds
        BY <1>6, <2>2, <3>1 DEF IInv, SourceClock
      <4>2. (i - 1) * ControlEvery \in Int
        BY <1>3, Periods, Bounds
      <4> QED
        BY <1>3, <1>4, <1>6, <1>10, <3>1, <4>1, <4>2
    <3>2. CASE phase = 0 /\ source.left # 0
      <4>1. Gone' = 1 /\ source'.index = i /\ (i - 1) * ControlEvery \in Int
        BY <1>3, <1>4, <1>7, <3>2, Periods, Bounds
      <4>2. CASE source = Drawn(1)
        <5>1. i = 1 /\ (i - 1) * ControlEvery = 0
          BY <1>5, <4>2, Periods, Bounds
        <5> QED
          BY <1>3, <1>10, <4>1, <5>1
      <4>3. CASE source # Drawn(1)
        <5>1. (i - 1) * ControlEvery + ControlEvery <= meter.seconds
          BY <1>4, <3>2, <4>3 DEF IInv, SourceClock
        <5> QED
          BY <1>3, <1>10, <4>1, <5>1, Bounds
      <4> QED
        BY <4>2, <4>3
    <3>3. CASE phase = 0 /\ source.left = 0
      <4>1. Gone' = 1 /\ source'.index = i + 1 /\ i * ControlEvery \in Int
        BY <1>3, <1>4, <1>8, <3>3, Periods, Bounds
      <4>2. (source'.index - 1) * ControlEvery = i * ControlEvery
        BY <1>3, <4>1
      <4> QED
        BY <1>3, <1>8, <1>10, <3>3, <4>1, <4>2
    <3> QED
      BY <3>1, <3>2, <3>3
  <2> QED
    BY <1>2, <1>5, <1>9, <2>1, <2>2 DEF SourceClock
<1>16. MeterClock'
  <2> SUFFICES ASSUME headless
               PROVE  meter'.elapsed =
                        (script[k] - source'.left - 1) * ControlEvery + Gone'
    BY <1>2 DEF MeterClock
  <2>1. CASE ~meter.started
    <3>1. phase = 0 /\ i = 1 /\ source.left = script[1] /\ script[1] # 0
      BY <1>3, <1>5, <1>12, <2>1
    <3>2. k = 1 /\ source'.left = script[1] - 1
          /\ script[k] - source'.left - 1 = 0
      BY <1>3, <1>7, <3>1
    <3> QED
      BY <1>4, <1>10, <2>1, <3>1, <3>2, Periods, Bounds
  <2>2. CASE meter.started
    <3> DEFINE a == script[i] - source.left - 1
    <3>1. meter.elapsed = a * ControlEvery + Gone /\ a \in Int
          /\ a * ControlEvery \in Int
      BY <1>3, <2>2, Periods, Bounds DEF IInv, MeterClock
    <3>2. (a + 1) * ControlEvery = a * ControlEvery + ControlEvery
      BY <3>1, Periods, Bounds
    <3>3. CASE phase # 0
      BY <1>3, <1>4, <1>6, <1>10, <1>11, <2>2, <3>1, <3>3
    <3>4. CASE phase = 0 /\ source.left # 0
      <4>1. k = i /\ script[k] - source'.left - 1 = a + 1
        BY <1>3, <1>7, <3>4
      <4> HIDE DEF a
      <4> QED
        BY <1>4, <1>10, <1>11, <2>2, <3>1, <3>2, <3>4, <4>1, Bounds
    <3>5. CASE phase = 0 /\ source.left = 0
      <4>1. k = i + 1 /\ script[k] - source'.left - 1 = 0
        BY <1>3, <1>8, <3>5
      <4>2. (script[k] - source'.left - 1) * ControlEvery = 0
        BY <4>1, Periods, Bounds
      <4>3. k # meter.index /\ meter'.elapsed = 1 /\ Gone' = 1
        BY <1>3, <1>4, <1>10, <1>11, <2>2, <3>5, <4>1
      <4> QED
        BY <4>2, <4>3
    <3> QED
      BY <3>3, <3>4, <3>5
  <2> QED
    BY <2>1, <2>2
<1>17. EveryCommandCharged'
  <2>1. ~meter.started => i = 1 /\ k = 1 /\ meter.steps = 0
    BY <1>3, <1>5, <1>9, <1>12 DEF Cleared
  <2>2. meter'.steps = k - 1
    <3>1. CASE ~meter.started
      BY <1>10, <2>1, <3>1
    <3>2. CASE meter.started /\ k = i
      BY <1>10, <1>11, <3>2
    <3>3. CASE meter.started /\ k # i
      BY <1>3, <1>9, <1>10, <1>11, <3>3
    <3> QED
      BY <3>1, <3>2, <3>3
  <2> QED
    BY <1>2, <1>10, <2>2 DEF EveryCommandCharged
<1>18. AllCharged'
  <2> SUFFICES ASSUME ~everWithin, ~within
               PROVE  /\ ~meter'.within /\ meter'.settled = 0
                      /\ meter'.settling + meter'.elapsed = meter'.seconds
    BY <1>1, <1>10 DEF AllCharged
  <2>1. /\ ~meter.within /\ meter.settled = 0
        /\ meter.settling + (IF meter.started THEN meter.elapsed ELSE 0) = meter.seconds
    BY DEF IInv, AllCharged
  <2>2. meter.settling \in Nat
    BY <1>3 DEF Meters
  <2>3. CASE ~meter.started
    BY <1>3, <1>10, <1>12, <2>1, <2>2, <2>3 DEF Cleared
  <2>4. CASE meter.started /\ k = meter.index
    BY <1>3, <1>10, <2>1, <2>2, <2>4
  <2>5. CASE meter.started /\ k # meter.index
    BY <1>3, <1>10, <2>1, <2>2, <2>5
  <2> QED
    BY <2>3, <2>4, <2>5
<1> QED
  BY <1>13, <1>14, <1>15, <1>16, <1>17, <1>18 DEF IInv

\* So does the end of the run.
LEMMA FinishInv == IInv /\ Finish => IInv'
<1> SUFFICES ASSUME IInv, Finish
             PROVE  IInv'
  OBVIOUS
<1> DEFINE closed == CloseStep(meter)
<1>1. /\ headless /\ ~done /\ ticks = MaxTicks /\ done'
      /\ meter' = [closed EXCEPT !.started = FALSE]
      /\ UNCHANGED <<headless, script, ticks, phase, mode, source, asked,
                     everWithin>>
  BY DEF Finish
<1>2. meter.started
  BY <1>1, Bounds DEF IInv, Edges
<1>3. meter \in Meters
  BY DEF IInv, TypeOK
<1>4. /\ closed \in Meters /\ closed.steps = meter.steps + 1
      /\ closed.seconds = meter.seconds
      /\ ~meter.within => /\ closed.settling = meter.settling + meter.elapsed
                          /\ closed.settled = meter.settled /\ ~closed.within
  BY <1>3, CloseStepIs
<1> HIDE DEF closed
<1>5. /\ meter' \in Meters /\ ~meter'.started /\ meter'.steps = meter.steps + 1
      /\ meter'.seconds = meter.seconds
      /\ ~meter.within => /\ meter'.settling = meter.settling + meter.elapsed
                          /\ meter'.settled = meter.settled /\ ~meter'.within
  BY <1>1, <1>4 DEF Meters
<1>6. TypeOK'
  BY <1>1, <1>5 DEF IInv, TypeOK
<1>7. Edges'
  BY <1>1, <1>5 DEF Edges
<1>8. SourceClock'
  BY <1>1, <1>5 DEF IInv, SourceClock, Gone, Drawn
<1>9. MeterClock'
  BY <1>5 DEF MeterClock
<1>10. EveryCommandCharged'
  <2>1. meter.steps = source.index - 1 /\ source.index \in Nat
    BY <1>2 DEF IInv, EveryCommandCharged, TypeOK, Commands
  <2> QED
    BY <1>1, <1>5, <2>1 DEF EveryCommandCharged
<1>11. AllCharged'
  <2>1. meter'.settling \in Nat
    BY <1>5 DEF Meters
  <2> QED
    BY <1>1, <1>2, <1>5, <2>1 DEF IInv, AllCharged
<1> QED
  BY <1>6, <1>7, <1>8, <1>9, <1>10, <1>11 DEF IInv

\* setMode and a refit start the sequence again, on a clock that runs on.
LEMMA RestartInv == IInv /\ (SetMode \/ Refit) => IInv'
<1> SUFFICES ASSUME IInv, SetMode \/ Refit
             PROVE  IInv'
  OBVIOUS
<1>1. TypeOK
  BY DEF IInv
<1>2. /\ ~headless /\ script' = script /\ source' = Drawn(1) /\ meter' = Cleared
      /\ ~everWithin' /\ everWithin' \in BOOLEAN
      /\ UNCHANGED <<headless, ticks, done>>
      /\ phase' \in {0, phase} /\ mode' \in Modes /\ asked' \in {asked, Default}
  BY <1>1 DEF SetMode, Refit, Restarted, TypeOK
<1>3. ~done
  BY <1>2 DEF IInv, Edges
<1>4. phase' \in 0 .. ControlEvery - 1
  BY <1>1, <1>2, Bounds DEF TypeOK
<1>5. TypeOK'
  BY <1>1, <1>2, <1>4, FirstCommand DEF TypeOK
<1> QED
  BY <1>1, <1>2, <1>3, <1>5, AnewInv

\* The next vehicle of a fleet.
LEMMA ReportInv == IInv /\ Report => IInv'
<1> SUFFICES ASSUME IInv, Report
             PROVE  IInv'
  OBVIOUS
<1>1. TypeOK
  BY DEF IInv
<1>2. /\ script' = script /\ source' = Drawn(1) /\ meter' = Cleared
      /\ everWithin' = FALSE /\ done' = FALSE /\ ticks' = 0 /\ phase' = 0
      /\ asked' = Default /\ UNCHANGED <<headless, mode>>
  BY DEF Report, AnewForNext
<1>3. TypeOK'
  <2>1. ticks' \in 0 .. MaxTicks /\ phase' \in 0 .. ControlEvery - 1
    BY <1>2, Bounds
  <2>2. /\ source' \in [index : Commands, left : Nat] /\ meter' \in Meters
        /\ source'.left <= script'[source'.index]
    BY <1>1, <1>2, FirstCommand
  <2> QED
    BY <1>1, <1>2, <2>1, <2>2 DEF TypeOK
<1> QED
  BY <1>1, <1>2, <1>3, AnewInv

\* Every step keeps the invariant.
LEMMA Step == IInv /\ [ProgNext]_progVars => IInv'
<1> SUFFICES ASSUME IInv, [ProgNext]_progVars
             PROVE  IInv'
  OBVIOUS
<1>1. CASE Fly
  BY <1>1, TickInv, FinishInv, RestartInv DEF Fly, Next
<1>2. CASE Report
  BY <1>2, ReportInv
<1>3. CASE UNCHANGED vars
  BY <1>3 DEF vars, IInv, TypeOK, Edges, SourceClock, MeterClock,
     EveryCommandCharged,
              AllCharged, Gone, Drawn
<1> QED
  BY <1>1, <1>2, <1>3 DEF ProgNext, ParseOptions, LoadCatalogue, ChooseFleet,
                         SubmissionFails, progVars

\* The invariant, in the bench, the runner and the game.
THEOREM Invariance == ProgSpec => []IInv
<1>1. ProgInit => IInv
  BY Start DEF ProgInit
<1> QED
  BY <1>1, Step, PTL DEF ProgSpec

-------------------------------------------------------------------------------
\* The members of Benchmark keep their types; no run issues more commands than
\* its length has room for.
THEOREM TypeCorrect == ProgSpec => []TypeOK
BY Invariance, PTL DEF IInv

\* BenchmarkMonitor: each command issued is one step, charged once, the last one
\* with the run.
THEOREM StepsAreCommands == ProgSpec => []EveryCommandCharged
BY Invariance, PTL DEF IInv

\* closeStep: whoever never settles is charged every tick.
THEOREM NeverSettledIsCharged == ProgSpec => []NeverSettlingPaysAll
<1>1. IInv => NeverSettlingPaysAll
  <2> SUFFICES ASSUME IInv, ~everWithin
               PROVE  /\ Closing(meter).settling = Closing(meter).seconds
                      /\ Closing(meter).settled = 0
    BY DEF NeverSettlingPaysAll
  <2>1. meter \in Meters
    BY DEF IInv, TypeOK
  <2>2. /\ ~meter.within /\ meter.settled = 0
        /\ meter.settling + (IF meter.started THEN meter.elapsed ELSE 0) = meter.seconds
    BY DEF IInv, AllCharged
  <2>3. CASE meter.started
    BY <2>1, <2>2, <2>3, CloseStepIs DEF Closing
  <2>4. CASE ~meter.started
    <3>1. meter.settling \in Nat
      BY <2>1 DEF Meters
    <3> QED
      BY <2>2, <2>4, <3>1 DEF Closing
  <2> QED
    BY <2>3, <2>4
<1> QED
  BY <1>1, Invariance, PTL

\* intent(): the clocks of the source and of the meter agree on how long a command
\* was held.
THEOREM HeldAsDrawn == ProgSpec => HoldIsWhole
<1>1. IInv /\ [ProgNext]_progVars =>
        [headless /\ meter.started /\ meter'.started /\ meter'.index # meter.index =>
           meter.elapsed = ControlEvery * script[meter.index]]_vars
  <2> SUFFICES ASSUME IInv, [ProgNext]_progVars, headless, meter.started,
                      meter'.started, meter'.index # meter.index
               PROVE  meter.elapsed = ControlEvery * script[meter.index]
    OBVIOUS
  <2>1. meter' # meter
    OBVIOUS
  <2>2. Tick
    <3>1. ~SetMode /\ ~Refit
      BY DEF SetMode, Refit
    <3>2. ~Finish
      <4>1. CloseStep(meter) \in Meters
        BY CloseStepIs DEF IInv, TypeOK
      <4> QED
        BY <4>1 DEF Finish, Meters
    <3>3. ~Report
      <4>1. Report => meter' = Cleared
        BY DEF Report
      <4>2. ~Cleared.started
        BY DEF Cleared
      <4> QED
        BY <4>1, <4>2
    <3> QED
      BY <2>1, <3>1, <3>2, <3>3 DEF ProgNext, ParseOptions, LoadCatalogue,
         ChooseFleet,
                         SubmissionFails, progVars, Fly, Next, vars
  <2>3. meter'.index = source'.index
    <3>1. IInv'
      BY TickInv, <2>2
    <3> QED
      BY <3>1 DEF IInv, EveryCommandCharged
  <2>4. meter.index = source.index
    BY DEF IInv, EveryCommandCharged
  <2>5. phase = 0 /\ source.left = 0
    BY <2>2, <2>3, <2>4 DEF Tick, Advanced, Over, IInv, TypeOK
  <2>6. meter.elapsed = (script[source.index] - 1) * ControlEvery + ControlEvery
    <3>1. source.index \in Commands /\ script[source.index] \in Nat
      BY Bounds DEF IInv, TypeOK
    <3>2. script[source.index] - source.left - 1 = script[source.index] - 1
      BY <2>5, <3>1
    <3> QED
      BY <2>5, <3>2 DEF IInv, MeterClock, Gone
  <2>7. script[source.index] \in Int /\ ControlEvery \in Int
    BY Bounds DEF IInv, TypeOK
  <2>8. script[source.index] * ControlEvery =
          (script[source.index] - 1) * ControlEvery + ControlEvery
    <3>1. script[source.index] - 1 \in Int
          /\ (script[source.index] - 1) + 1 = script[source.index]
      BY <2>7
    <3> QED
      BY <2>7, <3>1, Periods
  <2>9. ControlEvery * script[source.index] = script[source.index] * ControlEvery
    BY <2>7
  <2> QED
    BY <2>4, <2>6, <2>8, <2>9
<1> QED
  BY <1>1, Invariance, PTL DEF ProgSpec, HoldIsWhole

-------------------------------------------------------------------------------
\* A set of natural numbers that is not empty has a least member.
LEMMA Least == \A T \in SUBSET Nat : T # {} => \E x \in T : \A y \in T : x <= y
<1> SUFFICES ASSUME NEW T \in SUBSET Nat, T # {}
             PROVE  \E x \in T : \A y \in T : x <= y
  OBVIOUS
<1>1. \E x \in T : \A y \in T : ~(<<y, x>> \in OpToRel(<, Nat))
  BY NatLessThanWellFounded, WFMin
<1>2. \A x, y \in Nat : <<y, x>> \in OpToRel(<, Nat) <=> y < x
  BY DEF OpToRel
<1>3. PICK x \in T : \A y \in T : ~(<<y, x>> \in OpToRel(<, Nat))
  BY <1>1
<1>4. ASSUME NEW y \in T PROVE x <= y
  <2>1. x \in Nat /\ y \in Nat
    OBVIOUS
  <2>2. ~(y < x)
    BY <1>2, <1>3, <2>1
  <2> QED
    BY <2>1, <2>2
<1> QED
  BY <1>4

\* The greatest number of an initial stretch.
LEMMA MaxIs ==
  ASSUME NEW n \in Nat, NEW s \in SUBSET (1 .. n), n \in s
  PROVE  Max(s) = n
<1>1. \A y \in s : n >= y
  OBVIOUS
<1>2. \A x \in s : (\A y \in s : x >= y) => x = n
  OBVIOUS
<1> QED
  BY <1>1, <1>2 DEF Max

\* Different numbers have different ranks, in their order: how many are as small.
LEMMA RankIs ==
  ASSUME NEW n \in Nat, NEW s \in [1 .. n -> Int],
         \A i, j \in 1 .. n : s[i] = s[j] => i = j
  PROVE  \E R \in [1 .. n -> 1 .. n] :
           \A i, j \in 1 .. n : s[i] < s[j] => R[i] < R[j]
<1> DEFINE B(i) == {j \in 1 .. n : s[j] <= s[i]}
           R == [i \in 1 .. n |-> Cardinality(B(i))]
<1>1. IsFiniteSet(1 .. n) /\ Cardinality(1 .. n) = n
  BY FS_Interval
<1>2. ASSUME NEW i \in 1 .. n
      PROVE  /\ B(i) \subseteq 1 .. n /\ IsFiniteSet(B(i))
             /\ Cardinality(B(i)) \in 1 .. n
  <2>1. B(i) \subseteq 1 .. n /\ i \in B(i)
    OBVIOUS
  <2> HIDE DEF B
  <2>2. IsFiniteSet(B(i)) /\ Cardinality(B(i)) <= n
    BY <1>1, <2>1, FS_Subset
  <2>3. Cardinality(B(i)) \in Nat /\ Cardinality(B(i)) # 0
    BY <2>1, <2>2, FS_CardinalityType, FS_EmptySet
  <2> QED
    BY <2>1, <2>2, <2>3
<1>3. ASSUME NEW i \in 1 .. n, NEW j \in 1 .. n, s[i] < s[j]
      PROVE  Cardinality(B(i)) < Cardinality(B(j))
  <2>1. B(i) \subseteq B(j) /\ j \in B(j) /\ j \notin B(i)
    BY <1>3
  <2> HIDE DEF B
  <2>2. /\ Cardinality(B(i)) <= Cardinality(B(j))
        /\ Cardinality(B(i)) # Cardinality(B(j))
    BY <1>2, <2>1, FS_Subset
  <2> QED
    BY <1>2, <2>2
<1> HIDE DEF B
<1>4. R \in [1 .. n -> 1 .. n]
  BY <1>2
<1>5. \A i, j \in 1 .. n : s[i] < s[j] => R[i] < R[j]
  BY <1>3
<1> HIDE DEF R
<1> QED
  BY <1>4, <1>5

\* std::sort of different paths: each of them once, in ascending order.
LEMMA SortedIs ==
  ASSUME NEW n \in Nat, NEW s \in [1 .. n -> Int],
         \A i, j \in 1 .. n : s[i] = s[j] => i = j
  PROVE  /\ Sorted(s) \in [1 .. n -> Int]
         /\ \A i, j \in 1 .. n : i < j => Sorted(s)[i] < Sorted(s)[j]
         /\ \A i \in 1 .. n : \E j \in 1 .. n : Sorted(s)[i] = s[j]
<1> DEFINE places == 1 .. n
           Fits(f) == \A i, j \in places : i < j => s[f[i]] <= s[f[j]]
<1>1. PICK R \in [places -> places] :
        \A i, j \in places : s[i] < s[j] => R[i] < R[j]
  BY RankIs
<1>2. \A i, j \in places : R[i] = R[j] => i = j
  <2>1. ASSUME NEW i \in places, NEW j \in places, R[i] = R[j], i # j
        PROVE  FALSE
    <3>1. s[i] < s[j] \/ s[j] < s[i]
      BY <2>1
    <3>2. R[i] \in Int /\ R[j] \in Int
      OBVIOUS
    <3> QED
      BY <1>1, <2>1, <3>1, <3>2
  <2> QED
    BY <2>1
<1>3. \A k \in places : \E i \in places : R[i] = k
  <2>1. IsFiniteSet(places)
    BY FS_Interval
  <2>i. R \in Injection(places, places)
    BY <1>2 DEF Injection, IsInjective
  <2>2. R \in Surjection(places, places)
    BY <2>1, <2>i, FS_Injection
  <2> QED
    BY <2>2 DEF Surjection
<1> DEFINE g == [k \in places |-> CHOOSE i \in places : R[i] = k]
<1>4. g \in [places -> places] /\ \A k \in places : R[g[k]] = k
  BY <1>3
<1> HIDE DEF g
<1>5. g \in Bijection(places, places)
  <2>1. \A i, j \in places : g[i] = g[j] => i = j
    BY <1>4
  <2>2. \A i \in places : g[R[i]] = i
    <3>1. \A i \in places : R[i] \in places /\ R[g[R[i]]] = R[i]
      BY <1>4
    <3> QED
      BY <1>2, <1>4, <3>1
  <2>3. \A i \in places : \E k \in places : g[k] = i
    BY <2>2
  <2> QED
    BY <1>4, <2>1, <2>3 DEF Bijection, Injection, Surjection, IsInjective
<1>6. Fits(g)
  <2>1. ASSUME NEW i \in places, NEW j \in places, i < j
        PROVE  s[g[i]] <= s[g[j]]
    <3>0. g[i] \in places /\ g[j] \in places /\ R[g[i]] = i /\ R[g[j]] = j
      BY <1>4
    <3>1. ~(s[g[j]] < s[g[i]])
      <4>1. s[g[j]] < s[g[i]] => R[g[j]] < R[g[i]]
        BY <1>1, <3>0
      <4>2. ~(j < i)
        BY <2>1
      <4> QED
        BY <3>0, <4>1, <4>2
    <3>2. s[g[i]] \in Int /\ s[g[j]] \in Int
      BY <3>0
    <3>3. \A a, b \in Int : ~(b < a) => a <= b
      OBVIOUS
    <3> QED
      BY <3>1, <3>2, <3>3, Zenon
  <2> QED
    BY <2>1
<1> DEFINE order == CHOOSE f \in Bijection(places, places) : Fits(f)
<1>7. order \in Bijection(places, places) /\ Fits(order)
  BY <1>5, <1>6
<1>8. Sorted(s) = [i \in places |-> s[order[i]]]
  <2>1. DOMAIN s = places
    OBVIOUS
  <2> QED
    BY <2>1 DEF Sorted
<1> HIDE DEF order
<1>9. /\ order \in [places -> places]
      /\ \A i, j \in places : order[i] = order[j] => i = j
  BY <1>7 DEF Bijection, Injection, IsInjective
<1>10. ASSUME NEW i \in places, NEW j \in places, i < j
       PROVE  Sorted(s)[i] < Sorted(s)[j]
  <2>0. order[i] \in places /\ order[j] \in places /\ order[i] # order[j]
    <3>1. i # j
      BY <1>10
    <3> QED
      BY <1>9, <3>1
  <2>1. s[order[i]] <= s[order[j]] /\ s[order[i]] # s[order[j]]
    BY <1>7, <1>10, <2>0
  <2>2. s[order[i]] \in Int /\ s[order[j]] \in Int
    BY <2>0
  <2>3. \A a, b \in Int : a <= b /\ a # b => a < b
    OBVIOUS
  <2>4. Sorted(s)[i] = s[order[i]] /\ Sorted(s)[j] = s[order[j]]
    BY <1>8
  <2> QED
    BY <2>1, <2>2, <2>3, <2>4, Zenon
<1>11. Sorted(s) \in [1 .. n -> Int]
  BY <1>8, <1>9
<1>12. \A i \in 1 .. n : \E j \in 1 .. n : Sorted(s)[i] = s[j]
  BY <1>8, <1>9
<1> QED
  BY <1>10, <1>11, <1>12

\* What FoldLeft computes on the way in Load: what has been read for every set of
\* files, the last of them taken first.
Folded(dir, q) == FoldLeft(LAMBDA loaded, p : LoadFile(dir, loaded, p), Empty, q)

ReadOn(dir, q, f, s) ==
  IF s = {} THEN Empty ELSE LoadFile(dir, f[s \ {Max(s)}], q[Max(s)])

Folds(dir, q, f, n) == f = [s \in SUBSET (1 .. n) |-> ReadOn(dir, q, f, s)]

\* There is such a record of the reading.
LEMMA FoldExists == \A dir, q : \A n \in Nat : \E f : Folds(dir, q, f, n)
<1> SUFFICES ASSUME NEW dir, NEW q
             PROVE  \A n \in Nat : \E f : Folds(dir, q, f, n)
  OBVIOUS
<1> DEFINE T == {k \in Nat : ~\E f : Folds(dir, q, f, k)}
<1>1. CASE T = {}
  BY <1>1
<1>2. CASE T # {}
  <2>1. PICK k \in T : \A m \in T : k <= m
    BY <1>2, Least
  <2>2. k \in Nat /\ ~\E f : Folds(dir, q, f, k)
    OBVIOUS
  <2>3. k # 0
    <3>1. \A s \in SUBSET (1 .. 0) : s = {}
      OBVIOUS
    <3>2. Folds(dir, q, [s \in SUBSET (1 .. 0) |-> Empty], 0)
      BY <3>1 DEF Folds, ReadOn
    <3> QED
      BY <2>2, <3>2
  <2>4. PICK g : Folds(dir, q, g, k - 1)
    <3>1. k - 1 \in Nat /\ k - 1 \notin T
      BY <2>1, <2>2, <2>3
    <3> QED
      BY <3>1
  <2> DEFINE f == [s \in SUBSET (1 .. k) |->
                     IF k \in s THEN LoadFile(dir, g[s \ {k}], q[k]) ELSE g[s]]
  <2>5. \A s \in SUBSET (1 .. k - 1) : k \notin s /\ s \in SUBSET (1 .. k)
    BY <2>2, <2>3
  <2>6. \A s \in SUBSET (1 .. k - 1) : f[s] = g[s] /\ g[s] = ReadOn(dir, q, g, s)
    BY <2>4, <2>5 DEF Folds
  <2>7. ASSUME NEW s \in SUBSET (1 .. k) PROVE f[s] = ReadOn(dir, q, f, s)
    <3>1. CASE k \in s
      <4>1. Max(s) = k
        BY <2>2, <3>1, MaxIs
      <4>2. s \ {k} \in SUBSET (1 .. k - 1)
        BY <2>2
      <4>3. f[s \ {k}] = g[s \ {k}]
        BY <2>6, <4>2
      <4>4. f[s] = LoadFile(dir, g[s \ {k}], q[k])
        BY <3>1
      <4> HIDE DEF f
      <4> QED
        BY <3>1, <4>1, <4>3, <4>4 DEF ReadOn
    <3>2. CASE k \notin s
      <4>1. s \in SUBSET (1 .. k - 1) /\ s \ {Max(s)} \in SUBSET (1 .. k - 1)
        <5>1. \A x \in s : x \in 1 .. k - 1
          BY <2>2, <3>2
        <5> QED
          BY <5>1
      <4>2. f[s] = g[s] /\ g[s] = ReadOn(dir, q, g, s)
        BY <2>6, <4>1
      <4>3. f[s \ {Max(s)}] = g[s \ {Max(s)}]
        BY <2>6, <4>1
      <4> HIDE DEF f
      <4> QED
        BY <4>2, <4>3 DEF ReadOn
    <3> QED
      BY <3>1, <3>2
  <2>8. f = [s \in SUBSET (1 .. k) |-> f[s]]
    OBVIOUS
  <2> HIDE DEF f
  <2>9. Folds(dir, q, f, k)
    BY <2>7, <2>8 DEF Folds
  <2> QED
    BY <2>2, <2>9
<1> QED
  BY <1>1, <1>2

\* Load, file by file.
After(dir, q, F, n) ==
  /\ F[0] = Empty
  /\ \A k \in 1 .. n : F[k] = LoadFile(dir, F[k - 1], q[k])

\* FoldLeft is the loop: the files are read in their order, from the first.
LEMMA FoldIs ==
  ASSUME NEW dir, NEW n \in Nat, NEW q, DOMAIN q = 1 .. n
  PROVE  \E F : After(dir, q, F, n) /\ Folded(dir, q) = F[n]
<1> DEFINE g == CHOOSE f : Folds(dir, q, f, n)
<1>1. Folded(dir, q) = g[1 .. n]
  BY DEF Folded, FoldLeft, MapThenFoldSet, Folds, ReadOn
<1>2. Folds(dir, q, g, n)
  BY FoldExists
<1> HIDE DEF g
<1> DEFINE F == [k \in 0 .. n |-> g[1 .. k]]
<1>3. F[0] = Empty
  <2>1. 1 .. 0 = {} /\ {} \in SUBSET (1 .. n)
    OBVIOUS
  <2>2. g[{}] = Empty
    BY <1>2, <2>1 DEF Folds, ReadOn
  <2> QED
    BY <2>1, <2>2
<1>4. ASSUME NEW k \in 1 .. n PROVE F[k] = LoadFile(dir, F[k - 1], q[k])
  <2>0. k \in Nat /\ 1 <= k /\ k <= n /\ k \in 1 .. k
    OBVIOUS
  <2>1. 1 .. k \in SUBSET (1 .. n) /\ 1 .. k # {} /\ k \in 1 .. k
    <3>1. \A x \in 1 .. k : x \in 1 .. n
      BY <2>0
    <3> QED
      BY <2>0, <3>1
  <2>2. Max(1 .. k) = k
    BY <2>1, MaxIs
  <2>3. (1 .. k) \ {k} = 1 .. k - 1
    OBVIOUS
  <2>4. g[1 .. k] = LoadFile(dir, g[1 .. k - 1], q[k])
    BY <1>2, <2>1, <2>2, <2>3 DEF Folds, ReadOn
  <2> QED
    BY <2>4
<1>5. F[n] = g[1 .. n]
  OBVIOUS
<1> HIDE DEF F
<1> QED
  BY <1>1, <1>3, <1>4, <1>5 DEF After

-------------------------------------------------------------------------------
\* The vehicles of the files that are not refused.
Flyable(dir) == {p \in DOMAIN dir : ~Fault(dir[p])}
Vehicles ==
  UNION {{[path |-> p, spec |-> Parse(dir[p])] : p \in Flyable(dir)} :
           dir \in Directories}

\* parseThruster: a throttle range that is one.
LEMMA ThrusterIsSound ==
  ASSUME NEW j, Quantity(j, "max_thrust"), Quantity(j, "min_thrust"),
         ~ThrusterFault(j)
  PROVE  LET t == ParseThruster(j)
         IN  t.maxThrust > 0 /\ 0 <= t.minThrust /\ t.minThrust <= t.maxThrust
<1>1. j.max_thrust \in Int /\ ~(j.max_thrust <= 0)
  BY DEF ThrusterFault, Quantity
<1> DEFINE least == Optional(j, "min_thrust", 0)
<1>2. least \in Int
  BY DEF Optional, Quantity
<1>3. /\ ParseThruster(j).minThrust = Clamp(least, 0, j.max_thrust)
      /\ ParseThruster(j).maxThrust = j.max_thrust
  BY DEF ParseThruster
<1> HIDE DEF least
<1>4. /\ 0 <= Clamp(least, 0, j.max_thrust)
      /\ Clamp(least, 0, j.max_thrust) <= j.max_thrust
  BY <1>1, <1>2 DEF Clamp
<1> QED
  BY <1>1, <1>3, <1>4

\* parseRocketJson: what is not refused is a vehicle the physics is defined for.
LEMMA ParseIsSound ==
  ASSUME NEW f, WellFormed(f), ~Fault(f)
  PROVE  Sound(Parse(f))
<1> DEFINE n == Len(f.thrusters)
           t == [i \in 1 .. n |-> ParseThruster(f.thrusters[i])]
<1>1. /\ n \in Nat /\ n \in 1 .. MaxThrusters
      /\ DOMAIN f.thrusters = 1 .. n
      /\ \A i \in 1 .. n : /\ Quantity(f.thrusters[i], "max_thrust")
                           /\ Quantity(f.thrusters[i], "min_thrust")
                           /\ ~ThrusterFault(f.thrusters[i])
  BY DEF Fault, WellFormed
<1>2. f.mass > 0 /\ f.length > 0 /\ f.width > 0
  <2>1. f.mass \in Int /\ f.length \in Int /\ f.width \in Int
    BY DEF Fault, WellFormed, Quantity
  <2>2. ~(f.mass <= 0) /\ ~(f.length <= 0) /\ ~(f.width <= 0)
    BY DEF Fault
  <2> QED
    BY <2>1, <2>2
<1>3. /\ Parse(f).mass = f.mass /\ Parse(f).length = f.length
      /\ Parse(f).width = f.width /\ Parse(f).thrusters = t
  BY <1>1 DEF Parse
<1> HIDE DEF n
<1>4. Len(t) = n /\ DOMAIN t = 1 .. n
  <2> DEFINE S == {ParseThruster(f.thrusters[i]) : i \in 1 .. n}
  <2>1. t \in [1 .. n -> S] /\ DOMAIN t = 1 .. n
    OBVIOUS
  <2> HIDE DEF t, S
  <2>2. t \in Seq(S)
    BY <1>1, <2>1
  <2>3. DOMAIN t = 1 .. n
    BY <2>1
  <2> QED
    BY <1>1, <2>2, <2>3
<1>5. \A i \in 1 .. n : t[i].maxThrust > 0 /\ 0 <= t[i].minThrust
                        /\ t[i].minThrust <= t[i].maxThrust
  BY <1>1, ThrusterIsSound
<1> HIDE DEF t
<1> QED
  BY <1>1, <1>2, <1>3, <1>4, <1>5 DEF Sound

\* So is every vehicle there is.
LEMMA VehiclesAreSound == \A v \in Vehicles : Sound(v.spec)
<1> SUFFICES ASSUME NEW dir \in Directories, NEW p \in Flyable(dir)
             PROVE  Sound(Parse(dir[p]))
  BY DEF Vehicles
<1> QED
  BY DirectoryAssumption, ParseIsSound DEF Flyable

\* A catalogue as load() leaves it: vehicles in the order of their paths.
Ascending(specs) ==
  \A i, j \in 1 .. Len(specs) : i < j => specs[i].path < specs[j].path
Shelf == [specs : Seq(Vehicles), errors : Seq(Int)]

\* Paths are compared as numbers.
LEMMA PathsAreNumbers == \A v \in Vehicles : v.path \in Int
BY DirectoryAssumption DEF Vehicles, Flyable

\* One more file, whose path is greater than those of the files before it.
LEMMA LoadFileIs ==
  ASSUME NEW dir \in Directories, NEW p \in DOMAIN dir, NEW loaded \in Shelf,
         Ascending(loaded.specs),
         \A i \in 1 .. Len(loaded.specs) : loaded.specs[i].path < p
  PROVE  LET now == LoadFile(dir, loaded, p)
         IN  /\ now \in Shelf
             /\ Ascending(now.specs)
             /\ \A i \in 1 .. Len(now.specs) : now.specs[i].path <= p
<1>0. p \in Int
  BY DirectoryAssumption
<1>1. CASE Fault(dir[p])
  <2>1. LoadFile(dir, loaded, p) =
          [loaded EXCEPT !.errors = Append(loaded.errors, p)]
    BY <1>1 DEF LoadFile
  <2>2. /\ LoadFile(dir, loaded, p) \in Shelf
        /\ LoadFile(dir, loaded, p).specs = loaded.specs
    <3>1. Append(loaded.errors, p) \in Seq(Int)
      BY <1>0 DEF Shelf
    <3> QED
      BY <2>1, <3>1 DEF Shelf
  <2>3. \A i \in 1 .. Len(loaded.specs) : loaded.specs[i].path <= p
    <3>1. \A i \in 1 .. Len(loaded.specs) : loaded.specs[i].path \in Int
      BY PathsAreNumbers DEF Shelf
    <3>2. \A a, b \in Int : a < b => a <= b
      OBVIOUS
    <3> QED
      BY <1>0, <3>1, <3>2, Zenon
  <2> QED
    BY <2>2, <2>3
<1>2. CASE ~Fault(dir[p])
  <2> DEFINE v == [path |-> p, spec |-> Parse(dir[p])]
             now == Append(loaded.specs, v)
             n == Len(loaded.specs)
  <2>1. v \in Vehicles /\ v.path = p
    BY <1>2 DEF Vehicles, Flyable
  <2>2. LoadFile(dir, loaded, p) = [loaded EXCEPT !.specs = now]
    BY <1>2 DEF LoadFile
  <2> HIDE DEF v
  <2>3. loaded.specs \in Seq(Vehicles) /\ n \in Nat
    BY DEF Shelf
  <2>4. /\ now \in Seq(Vehicles) /\ Len(now) = n + 1 /\ now[n + 1] = v
        /\ \A i \in 1 .. n : now[i] = loaded.specs[i]
    BY <2>1, <2>3
  <2> HIDE DEF now, n
  <2>5. LoadFile(dir, loaded, p) \in Shelf
        /\ LoadFile(dir, loaded, p).specs = now
    BY <2>2, <2>4 DEF Shelf
  <2>6. \A i \in 1 .. n : now[i].path < p
    BY <2>4 DEF n
  <2>7. \A i \in 1 .. n + 1 : i \in 1 .. n \/ i = n + 1
    BY <2>3
  <2>8. Ascending(now)
    <3>1. ASSUME NEW i \in 1 .. n + 1, NEW j \in 1 .. n + 1, i < j
          PROVE  now[i].path < now[j].path
      <4>1. i \in 1 .. n
        BY <2>3, <3>1
      <4>2. CASE j \in 1 .. n
        <5>1. loaded.specs[i].path < loaded.specs[j].path
          BY <3>1, <4>1, <4>2 DEF Ascending, n
        <5> QED
          BY <2>4, <4>1, <4>2, <5>1, Zenon
      <4>3. CASE j = n + 1
        BY <2>1, <2>4, <2>6, <4>1, <4>3
      <4> QED
        BY <2>7, <4>2, <4>3
    <3> QED
      BY <2>4, <3>1 DEF Ascending
  <2>9. \A i \in 1 .. n + 1 : now[i].path <= p
    <3>0. \A i \in 1 .. n : now[i] \in Vehicles
      BY <2>3, <2>4
    <3>1. \A i \in 1 .. n : now[i].path \in Int
      BY <3>0, PathsAreNumbers, Zenon
    <3>2. \A a, b \in Int : a < b => a <= b
      OBVIOUS
    <3>3. \A i \in 1 .. n : now[i].path <= p
      BY <1>0, <2>6, <3>1, <3>2, Zenon
    <3>4. now[n + 1].path <= p
      BY <1>0, <2>1, <2>4
    <3> QED
      BY <2>7, <3>3, <3>4, Zenon
  <2> QED
    BY <2>4, <2>5, <2>8, <2>9
<1> QED
  BY <1>1, <1>2

\* RocketCatalogue::load, however the directory was listed.
LEMMA LoadIs ==
  ASSUME NEW dir \in Directories, NEW listing \in SetToSeqs(DOMAIN dir)
  PROVE  Load(dir, listing) \in Shelf /\ Ascending(Load(dir, listing).specs)
<1> DEFINE n == Cardinality(DOMAIN dir)
           q == Sorted(listing)
<1>1. /\ n \in Nat /\ listing \in [1 .. n -> DOMAIN dir]
      /\ \A i, j \in 1 .. n : listing[i] = listing[j] => i = j
  BY DirectoryAssumption, FS_CardinalityType DEF SetToSeqs
<1>2. listing \in [1 .. n -> Int]
  BY <1>1, DirectoryAssumption
<1>3. Load(dir, listing) = Folded(dir, q)
  BY DEF Load, Folded
<1> HIDE DEF n, q
<1>4. /\ q \in [1 .. n -> Int]
      /\ \A i, j \in 1 .. n : i < j => q[i] < q[j]
      /\ \A i \in 1 .. n : \E j \in 1 .. n : q[i] = listing[j]
  BY <1>1, <1>2, SortedIs DEF q
<1>5. \A i \in 1 .. n : q[i] \in DOMAIN dir
  BY <1>1, <1>4
<1>6. PICK F : After(dir, q, F, n) /\ Folded(dir, q) = F[n]
  <2>1. DOMAIN q = 1 .. n
    BY <1>4
  <2> QED
    BY <1>1, <2>1, FoldIs
<1> DEFINE Fine(k) == /\ F[k] \in Shelf /\ Ascending(F[k].specs)
                      /\ \A i \in 1 .. Len(F[k].specs) : \E m \in 1 .. k :
                           F[k].specs[i].path <= q[m]
           T == {k \in Nat : k <= n /\ ~Fine(k)}
<1>7. T = {}
  <2> SUFFICES ASSUME T # {}
               PROVE  FALSE
    OBVIOUS
  <2>1. PICK k \in T : \A m \in T : k <= m
    BY Least
  <2>2. k \in Nat /\ k <= n /\ ~Fine(k)
    BY <2>1
  <2>3. k # 0
    <3>1. F[0] = Empty
      BY <1>6 DEF After
    <3>2. Empty \in Shelf /\ Len(Empty.specs) = 0
      BY DEF Empty, Shelf
    <3>3. Fine(0)
      BY <3>1, <3>2 DEF Ascending
    <3> QED
      BY <2>2, <3>3
  <2>4. k - 1 \in Nat /\ k - 1 <= n /\ k \in 1 .. n
    BY <1>1, <2>2, <2>3
  <2>5. Fine(k - 1)
    BY <2>1, <2>4
  <2> HIDE DEF T, Fine
  <2>6. F[k] = LoadFile(dir, F[k - 1], q[k])
    BY <1>6, <2>4 DEF After
  <2>7. F[k - 1] \in Shelf /\ Ascending(F[k - 1].specs)
    BY <2>5 DEF Fine
  <2>8. \A i \in 1 .. Len(F[k - 1].specs) : F[k - 1].specs[i].path < q[k]
    <3>1. ASSUME NEW i \in 1 .. Len(F[k - 1].specs)
          PROVE  F[k - 1].specs[i].path < q[k]
      <4>1. PICK m \in 1 .. k - 1 : F[k - 1].specs[i].path <= q[m]
        BY <2>5, <3>1 DEF Fine
      <4>2. m \in 1 .. n /\ m < k
        BY <1>1, <2>4
      <4>3. q[m] < q[k] /\ q[m] \in Int /\ q[k] \in Int
        BY <1>4, <2>4, <4>2
      <4>4. F[k - 1].specs[i].path \in Int
        BY <2>7, PathsAreNumbers DEF Shelf
      <4>5. \A a, b, c \in Int : a <= b /\ b < c => a < c
        OBVIOUS
      <4> QED
        BY <4>1, <4>3, <4>4, <4>5, Zenon
    <3> QED
      BY <3>1
  <2>9. /\ F[k] \in Shelf
        /\ Ascending(F[k].specs)
        /\ \A i \in 1 .. Len(F[k].specs) : F[k].specs[i].path <= q[k]
    BY <1>5, <2>4, <2>6, <2>7, <2>8, LoadFileIs
  <2>10. k \in 1 .. k
    BY <2>4
  <2>11. Fine(k)
    BY <2>9, <2>10 DEF Fine
  <2> QED
    BY <2>2, <2>11
<1>8. Fine(n)
  BY <1>1, <1>7
<1> QED
  BY <1>3, <1>6, <1>8

-------------------------------------------------------------------------------
\* What has been read, and what is still to fly.
Shelved ==
  /\ catalogue \in Shelf /\ Ascending(catalogue.specs)
  /\ fleet \in Seq(Vehicles)
  /\ stage \in {"fleet", "run", "ok"} => catalogue.specs # <<>>

\* A headless run from its first tick: the script says when a command is drawn.
Ticked(s) == [source |-> IF s.phase = 0 THEN Advanced(s.source) ELSE s.source,
              phase |-> (s.phase + 1) % ControlEvery]
Course(f) == /\ f[0] = [source |-> Drawn(1), phase |-> 0]
             /\ \A k \in 1 .. MaxTicks : f[k] = Ticked(f[k - 1])
OnCourse ==
  /\ headless =>
       \A f : Course(f) => f[ticks] = [source |-> source, phase |-> phase]
  /\ done => ticks = MaxTicks

\* The document so far, and what is left of the fleet, are the vehicles that were
\* wanted.
Chosen == Wanted(catalogue.specs, request)
Lines == [path : Int, rocket : {v.spec.name : v \in Vehicles}, ticks : Nat,
          steps : Nat]
Told(line, v) ==
  /\ line.path = v.path /\ line.rocket = v.spec.name /\ line.ticks = MaxTicks
  /\ \A f : Course(f) => line.steps = f[MaxTicks].source.index
Documented ==
  /\ reports \in Seq(Lines)
  /\ stage \in {"options", "load", "fleet"} => reports = <<>>
  /\ stage = "run" => fleet # <<>>
  /\ stage = "ok" => headless /\ fleet = <<>>
  /\ stage \in {"run", "ok"} /\ headless =>
       /\ Chosen # <<>>
       /\ Len(reports) + Len(fleet) = Len(Chosen)
       /\ \A i \in 1 .. Len(fleet) : fleet[i] = Chosen[Len(reports) + i]
       /\ \A i \in 1 .. Len(reports) : Told(reports[i], Chosen[i])

PInv == Shelved /\ OnCourse /\ Documented

\* find returns the first vehicle of a name.
LEMMA FirstNamed ==
  ASSUME NEW specs \in Seq(Vehicles), NEW name, Named(specs, name) # {}
  PROVE  /\ Min(Named(specs, name)) \in 1 .. Len(specs)
         /\ specs[Min(Named(specs, name))].spec.name = name
<1>1. Named(specs, name) \in SUBSET (1 .. Len(specs)) /\ Len(specs) \in Nat
  BY DEF Named
<1>2. PICK x \in Named(specs, name) : \A y \in Named(specs, name) : x <= y
  BY <1>1, Least
<1>3. Min(Named(specs, name)) \in Named(specs, name)
  BY <1>2 DEF Min
<1> QED
  BY <1>1, <1>3 DEF Named

\* What bench and runner fly.
LEMMA WantedIs ==
  ASSUME NEW specs \in Seq(Vehicles), specs # <<>>, NEW r
  PROVE  LET wanted == Wanted(specs, r)
         IN  /\ wanted \in Seq(Vehicles)
             /\ r.all => wanted = specs
             /\ ~r.all => Len(wanted) <= 1
             /\ ~r.all /\ r.rocket # <<>> =>
                  \A i \in 1 .. Len(wanted) : wanted[i].spec.name = r.rocket
<1>1. Head(specs) \in Vehicles
  OBVIOUS
<1>2. CASE r.all
  BY <1>2 DEF Wanted
<1>3. CASE ~r.all /\ r.rocket = <<>>
  <2>1. Wanted(specs, r) = <<Head(specs)>>
    BY <1>3 DEF Wanted
  <2> QED
    BY <1>1, <1>3, <2>1
<1>4. CASE ~r.all /\ r.rocket # <<>> /\ Named(specs, r.rocket) = {}
  <2>1. Wanted(specs, r) = <<>>
    BY <1>4 DEF Wanted
  <2> QED
    BY <1>4, <2>1
<1>5. CASE ~r.all /\ r.rocket # <<>> /\ Named(specs, r.rocket) # {}
  <2> DEFINE v == specs[Min(Named(specs, r.rocket))]
  <2>1. Wanted(specs, r) = <<v>>
    BY <1>5 DEF Wanted
  <2>2. v \in Vehicles /\ v.spec.name = r.rocket
    BY <1>5, FirstNamed
  <2> HIDE DEF v
  <2> QED
    BY <1>5, <2>1, <2>2
<1> QED
  BY <1>2, <1>3, <1>4, <1>5

\* The roster of the game.
LEMMA RosterIs ==
  ASSUME NEW specs \in Seq(Vehicles), specs # <<>>, NEW r
  PROVE  Roster(specs, r) \in Seq(Vehicles)
<1> DEFINE at == IF Named(specs, r.rocket) = {} THEN 1
                 ELSE Min(Named(specs, r.rocket))
<1>1. at \in 1 .. Len(specs) /\ Len(specs) \in Nat
  BY FirstNamed
<1>2. Roster(specs, r) = SubSeq(specs, at, Len(specs)) \o SubSeq(specs, 1, at - 1)
  BY DEF Roster
<1> HIDE DEF at
<1>3. SubSeq(specs, at, Len(specs)) \in Seq(Vehicles)
  BY <1>1
<1>4. SubSeq(specs, 1, at - 1) \in Seq(Vehicles)
  BY <1>1
<1> QED
  BY <1>2, <1>3, <1>4

\* A script has its course.
LEMMA CourseExists == \E f : Course(f)
<1> DEFINE To(f, n) == /\ f[0] = [source |-> Drawn(1), phase |-> 0]
                       /\ \A k \in 1 .. n : f[k] = Ticked(f[k - 1])
           T == {n \in Nat : ~\E f : To(f, n)}
<1>1. T = {}
  <2> SUFFICES ASSUME T # {}
               PROVE  FALSE
    OBVIOUS
  <2>1. PICK n \in T : \A m \in T : n <= m
    BY Least
  <2>2. n \in Nat /\ ~\E f : To(f, n)
    BY <2>1
  <2> HIDE DEF T
  <2>3. n # 0
    <3> DEFINE f == [k \in {0} |-> [source |-> Drawn(1), phase |-> 0]]
    <3>1. f[0] = [source |-> Drawn(1), phase |-> 0]
      OBVIOUS
    <3>2. \A k \in 1 .. 0 : FALSE
      OBVIOUS
    <3> HIDE DEF f
    <3>3. To(f, 0)
      BY <3>1, <3>2
    <3> HIDE DEF To
    <3> QED
      BY <2>2, <3>3
  <2>4. PICK g : To(g, n - 1)
    <3>1. n - 1 \in Nat /\ n - 1 \notin T
      BY <2>1, <2>2, <2>3
    <3> QED
      BY <3>1 DEF T
  <2> DEFINE f == [k \in 0 .. n |-> IF k = n THEN Ticked(g[n - 1]) ELSE g[k]]
  <2>5. f[0] = [source |-> Drawn(1), phase |-> 0]
    BY <2>2, <2>3, <2>4
  <2>6. ASSUME NEW k \in 1 .. n PROVE f[k] = Ticked(f[k - 1])
    <3>1. f[k - 1] = g[k - 1]
      BY <2>2
    <3>2. CASE k = n
      <4>1. f[k] = Ticked(g[n - 1])
        BY <2>2, <3>2
      <4> HIDE DEF f
      <4> QED
        BY <3>1, <3>2, <4>1
    <3>3. CASE k # n
      <4>1. f[k] = g[k] /\ k \in 1 .. n - 1
        BY <2>2, <3>3
      <4>2. g[k] = Ticked(g[k - 1])
        BY <2>4, <4>1
      <4> HIDE DEF f
      <4> QED
        BY <3>1, <4>1, <4>2
    <3> QED
      BY <3>2, <3>3
  <2> HIDE DEF f
  <2>7. To(f, n)
    BY <2>5, <2>6
  <2> HIDE DEF To
  <2> QED
    BY <2>2, <2>7
<1>2. \E f : To(f, MaxTicks)
  BY <1>1, Bounds
<1> QED
  BY <1>2 DEF Course

\* The script is drawn once.
LEMMA SameCourse ==
  ASSUME script' = script
  PROVE  \A f : Course(f)' <=> Course(f)
BY DEF Course, Ticked, Advanced, Over, Drawn

\* What is wanted does not change with the run.
LEMMA SameChosen ==
  ASSUME UNCHANGED <<request, catalogue>>
  PROVE  Chosen' = Chosen
BY DEF Chosen

\* The vehicles that were wanted, once the catalogue is there.
LEMMA ChosenIs ==
  ASSUME Shelved, catalogue.specs # <<>>
  PROVE  /\ Chosen \in Seq(Vehicles)
         /\ request.all => Chosen = catalogue.specs
         /\ ~request.all => Len(Chosen) <= 1
         /\ ~request.all /\ request.rocket # <<>> =>
              \A i \in 1 .. Len(Chosen) : Chosen[i].spec.name = request.rocket
<1>1. catalogue.specs \in Seq(Vehicles)
  BY DEF Shelved, Shelf
<1> QED
  BY <1>1, WantedIs DEF Chosen

\* The programs start with nothing read and nothing written.
LEMMA ProgStart == ProgInit => PInv
<1> SUFFICES ASSUME ProgInit
             PROVE  PInv
  OBVIOUS
<1>1. Shelved
  <2>1. catalogue.specs = <<>> /\ catalogue.errors = <<>>
        /\ catalogue = [specs |-> <<>>, errors |-> <<>>]
    BY DEF ProgInit, Empty
  <2>2. catalogue \in Shelf /\ Len(catalogue.specs) = 0
    BY <2>1 DEF Shelf
  <2> QED
    BY <2>2 DEF ProgInit, Shelved, Ascending
<1>2. OnCourse
  BY DEF ProgInit, Init, OnCourse, Course
<1>3. Documented
  BY DEF ProgInit, Documented
<1> QED
  BY <1>1, <1>2, <1>3 DEF PInv

\* A step of the run itself is a step of its course.
LEMMA FlyProg == IInv /\ PInv /\ Fly => PInv'
<1> SUFFICES ASSUME IInv, PInv, Fly
             PROVE  PInv'
  OBVIOUS
<1>1. UNCHANGED <<stage, request, catalogue, fleet, reports>>
  BY DEF Fly, progState
<1>2. script' = script /\ headless' = headless
  BY DEF Fly, Next, Tick, Finish, SetMode, Refit
<1>3. Shelved'
  BY <1>1 DEF PInv, Shelved
<1>4. \A f : Course(f)' <=> Course(f)
  BY <1>2, SameCourse
<1>5. Documented'
  <2>1. Chosen' = Chosen
    BY <1>1, SameChosen
  <2>2. \A line, v : Told(line, v)' <=> Told(line, v)
    BY <1>4 DEF Told
  <2> QED
    BY <1>1, <1>2, <2>1, <2>2 DEF PInv, Documented
<1>6. OnCourse'
  <2>1. CASE Tick
    <3>1. /\ ~done /\ ~done' /\ ticks' = ticks + 1 /\ ticks \in Nat
          /\ ticks + 1 \in 1 .. MaxTicks
          /\ source' = IF phase = 0 THEN Advanced(source) ELSE source
          /\ phase' = (phase + 1) % ControlEvery
      BY <2>1, Bounds DEF Tick, IInv, TypeOK
    <3>2. ASSUME headless, NEW f, Course(f)
          PROVE  f[ticks'] = [source |-> source', phase |-> phase']
      <4>1. f[ticks] = [source |-> source, phase |-> phase]
        BY <3>2 DEF PInv, OnCourse
      <4>2. f[ticks + 1] = Ticked(f[(ticks + 1) - 1]) /\ (ticks + 1) - 1 = ticks
        BY <3>1, <3>2 DEF Course
      <4> QED
        BY <3>1, <4>1, <4>2 DEF Ticked
    <3> QED
      BY <1>2, <1>4, <3>1, <3>2 DEF OnCourse
  <2>2. CASE Finish
    BY <1>2, <1>4, <2>2 DEF Finish, PInv, OnCourse
  <2>3. CASE SetMode \/ Refit
    <3>1. ~headless /\ UNCHANGED <<done, ticks>>
      BY <2>3 DEF SetMode, Refit
    <3> QED
      BY <1>2, <3>1 DEF PInv, OnCourse
  <2> QED
    BY <2>1, <2>2, <2>3 DEF Fly, Next
<1> QED
  BY <1>3, <1>5, <1>6 DEF PInv

\* The report of a vehicle, and the next one put on the same course.
LEMMA ReportProg == IInv /\ PInv /\ Report => PInv'
<1> SUFFICES ASSUME IInv, PInv, Report
             PROVE  PInv'
  OBVIOUS
<1> DEFINE line == [path |-> Head(fleet).path, rocket |-> Head(fleet).spec.name,
                    ticks |-> ticks, steps |-> meter.steps]
           n == Len(reports)
<1>1. /\ stage = "run" /\ headless /\ done /\ headless' = headless /\ ~done'
      /\ reports' = Append(reports, line) /\ fleet' = Tail(fleet)
      /\ stage' = IF fleet' = <<>> THEN "ok" ELSE "run"
      /\ UNCHANGED <<script, request, catalogue>>
      /\ source' = Drawn(1) /\ phase' = 0 /\ ticks' = 0
  BY DEF Report, AnewForNext
<1>2. /\ fleet \in Seq(Vehicles) /\ fleet # <<>> /\ reports \in Seq(Lines)
      /\ catalogue.specs # <<>> /\ Len(fleet) \in Nat /\ Len(fleet) # 0
      /\ n \in Nat
  BY <1>1 DEF PInv, Shelved, Documented
<1>3. /\ Head(fleet) \in Vehicles /\ Head(fleet) = fleet[1]
      /\ fleet' \in Seq(Vehicles) /\ Len(fleet') = Len(fleet) - 1
      /\ \A i \in 1 .. Len(fleet') : fleet'[i] = fleet[i + 1]
  BY <1>1, <1>2
<1>4. /\ n + Len(fleet) = Len(Chosen) /\ Chosen # <<>>
      /\ \A i \in 1 .. Len(fleet) : fleet[i] = Chosen[n + i]
      /\ \A i \in 1 .. n : Told(reports[i], Chosen[i])
  BY <1>1 DEF PInv, Documented
<1>5. Chosen' = Chosen /\ \A f : Course(f)' <=> Course(f)
  BY <1>1, SameChosen, SameCourse
<1>6. Shelved'
  BY <1>1, <1>2, <1>3 DEF PInv, Shelved
<1>7. OnCourse'
  <2>1. Drawn(1)' = Drawn(1)
    BY <1>1 DEF Drawn
  <2> QED
    BY <1>1, <1>5, <2>1 DEF OnCourse, Course
<1>8. line \in Lines
  <2>1. meter.steps \in Nat /\ ticks \in Nat
    <3>1. meter \in Meters /\ ticks \in 0 .. MaxTicks
      BY DEF IInv, TypeOK
    <3> QED
      BY <3>1, Bounds DEF Meters
  <2>2. Head(fleet).path \in Int
    <3>1. Head(fleet) \in Vehicles
      BY <1>3
    <3> QED
      BY <3>1, PathsAreNumbers, Zenon
  <2> QED
    BY <1>3, <2>1, <2>2 DEF Lines
<1>9. Told(line, Chosen[n + 1])
  <2>1. Chosen[n + 1] = Head(fleet)
    BY <1>2, <1>3, <1>4
  <2>2. ticks = MaxTicks
    BY <1>1 DEF PInv, OnCourse
  <2>3. ASSUME NEW f, Course(f)
        PROVE  meter.steps = f[MaxTicks].source.index
    <3>1. f[MaxTicks] = [source |-> source, phase |-> phase]
      BY <1>1, <2>2, <2>3 DEF PInv, OnCourse
    <3>2. meter.steps = source.index
      BY <1>1 DEF IInv, EveryCommandCharged
    <3> QED
      BY <3>1, <3>2
  <2> QED
    BY <2>1, <2>2, <2>3 DEF Told
<1> HIDE DEF line
<1>10. /\ reports' \in Seq(Lines) /\ Len(reports') = n + 1
       /\ reports'[n + 1] = line
       /\ \A i \in 1 .. n : reports'[i] = reports[i]
  BY <1>1, <1>2, <1>8
<1> HIDE DEF n
<1>11. Documented'
  <2>1. Len(reports') + Len(fleet') = Len(Chosen)
    <3>1. /\ Len(reports') = n + 1 /\ Len(fleet') = Len(fleet) - 1
          /\ n + Len(fleet) = Len(Chosen)
      BY <1>3, <1>4, <1>10
    <3>2. n \in Nat /\ Len(fleet) \in Nat
      BY <1>2
    <3> QED
      BY <3>1, <3>2
  <2>2. ASSUME NEW i \in 1 .. Len(fleet')
        PROVE  fleet'[i] = Chosen[Len(reports') + i]
    <3>1. i + 1 \in 1 .. Len(fleet) /\ n + (i + 1) = Len(reports') + i
      BY <1>2, <1>3, <1>10
    <3> QED
      BY <1>3, <1>4, <3>1
  <2>3. ASSUME NEW i \in 1 .. Len(reports')
        PROVE  Told(reports'[i], Chosen[i])
    <3>1. CASE i \in 1 .. n
      BY <1>4, <1>10, <3>1
    <3>2. CASE i = n + 1
      BY <1>9, <1>10, <3>2
    <3> QED
      BY <1>2, <1>10, <3>1, <3>2
  <2>4. (\A i \in 1 .. Len(reports) : Told(reports[i], Chosen[i]))'
    BY <1>5, <2>3 DEF Told
  <2>5. (\A i \in 1 .. Len(fleet) : fleet[i] = Chosen[Len(reports) + i])'
    BY <1>5, <2>2
  <2>6. stage' = "run" => fleet' # <<>>
    BY <1>1
  <2>7. stage' = "ok" => headless' /\ fleet' = <<>>
    BY <1>1
  <2>8. stage' \notin {"options", "load", "fleet"}
    BY <1>1
  <2> QED
    BY <1>4, <1>5, <1>10, <2>1, <2>4, <2>5, <2>6, <2>7, <2>8 DEF Documented
<1> QED
  BY <1>6, <1>7, <1>11 DEF PInv

\* The directory has been read, and the vehicles are chosen.
LEMMA LoadProg == PInv /\ LoadCatalogue => PInv'
<1> SUFFICES ASSUME PInv, LoadCatalogue
             PROVE  PInv'
  OBVIOUS
<1>0. PICK dir \in Directories : \E listing \in SetToSeqs(DOMAIN dir) :
        catalogue' = Load(dir, listing)
  BY DEF LoadCatalogue
<1>1. PICK listing \in SetToSeqs(DOMAIN dir) : catalogue' = Load(dir, listing)
  BY <1>0
<1>2. /\ stage = "load" /\ UNCHANGED <<vars, request, fleet, reports>>
      /\ stage' = IF catalogue'.specs = <<>> THEN "failed" ELSE "fleet"
  BY DEF LoadCatalogue
<1>3. catalogue' \in Shelf /\ Ascending(catalogue'.specs)
  BY <1>1, LoadIs
<1>4. Shelved'
  BY <1>2, <1>3 DEF PInv, Shelved, Ascending
<1>5. OnCourse'
  BY <1>2, SameCourse DEF PInv, OnCourse, vars
<1>6. Documented'
  BY <1>2 DEF PInv, Documented
<1> QED
  BY <1>4, <1>5, <1>6 DEF PInv

\* The fleet of bench and runner, or the roster of the game.
LEMMA ChooseProg == PInv /\ ChooseFleet => PInv'
<1> SUFFICES ASSUME PInv, ChooseFleet
             PROVE  PInv'
  OBVIOUS
<1>1. /\ stage = "fleet" /\ UNCHANGED <<vars, request, catalogue, reports>>
      /\ fleet' = IF headless THEN Chosen ELSE Roster(catalogue.specs, request)
      /\ stage' = IF fleet' = <<>> THEN "failed" ELSE "run"
  BY DEF ChooseFleet, Chosen
<1>2. catalogue.specs \in Seq(Vehicles) /\ catalogue.specs # <<>>
      /\ reports = <<>>
  BY <1>1 DEF PInv, Shelved, Shelf, Documented
<1>3. Chosen \in Seq(Vehicles)
      /\ Roster(catalogue.specs, request) \in Seq(Vehicles)
  BY <1>2, ChosenIs, RosterIs DEF PInv
<1>4. Shelved'
  BY <1>1, <1>2, <1>3 DEF PInv, Shelved, Ascending
<1>5. OnCourse'
  BY <1>1, SameCourse DEF PInv, OnCourse, vars
<1>6. Documented'
  <2>1. Chosen' = Chosen /\ headless' = headless /\ reports' = <<>>
    BY <1>1, <1>2, SameChosen DEF vars
  <2>2. headless => /\ Len(reports') + Len(fleet') = Len(Chosen)
                    /\ \A i \in 1 .. Len(fleet') :
                         fleet'[i] = Chosen[Len(reports') + i]
                    /\ \A i \in 1 .. Len(reports') : FALSE
    BY <1>1, <1>3, <2>1
  <2>3. reports' \in Seq(Lines)
    BY <2>1
  <2> QED
    BY <1>1, <2>1, <2>2, <2>3 DEF Documented
<1> QED
  BY <1>4, <1>5, <1>6 DEF PInv

\* Every step of the programs keeps it.
LEMMA ProgStep == IInv /\ PInv /\ [ProgNext]_progVars => PInv'
<1> SUFFICES ASSUME IInv, PInv, [ProgNext]_progVars
             PROVE  PInv'
  OBVIOUS
<1>1. CASE ParseOptions \/ SubmissionFails \/ UNCHANGED progVars
  <2>1. /\ UNCHANGED <<vars, request, catalogue, fleet, reports>>
        /\ \/ stage' \in {stage, "failed"}
           \/ stage = "options" /\ stage' = "load"
    BY <1>1 DEF ParseOptions, SubmissionFails, progVars, progState
  <2>2. Shelved'
    BY <2>1 DEF PInv, Shelved, Ascending
  <2>3. OnCourse'
    BY <2>1, SameCourse DEF PInv, OnCourse, vars
  <2>4. Documented'
    <3>1. Chosen' = Chosen /\ headless' = headless /\ script' = script
      BY <2>1, SameChosen DEF vars
    <3>2. \A l, v : Told(l, v)' <=> Told(l, v)
      BY <3>1, SameCourse DEF Told
    <3> QED
      BY <2>1, <3>1, <3>2 DEF PInv, Documented
  <2> QED
    BY <2>2, <2>3, <2>4 DEF PInv
<1> QED
  BY <1>1, FlyProg, ReportProg, LoadProg, ChooseProg DEF ProgNext

\* Both invariants, in the bench, the runner and the game.
LEMMA ProgInvariance == ProgSpec => [](IInv /\ PInv)
<1>1. ProgInit => IInv /\ PInv
  BY Start, ProgStart DEF ProgInit
<1>2. IInv /\ PInv /\ [ProgNext]_progVars => (IInv /\ PInv)'
  BY Step, ProgStep
<1> QED
  BY <1>1, <1>2, PTL DEF ProgSpec

\* RocketCatalogue.hpp: whatever the files say and however the directory is
\* listed, what takes off is a vehicle the physics is defined for, and the
\* catalogue has the vehicles in the order of their paths.
THEOREM FleetSound == ProgSpec => []FleetIsSound
<1>1. PInv => FleetIsSound
  <2> SUFFICES ASSUME PInv
               PROVE  FleetIsSound
    OBVIOUS
  <2>1. fleet \in Seq(Vehicles) /\ catalogue.specs \in Seq(Vehicles)
        /\ Ascending(catalogue.specs)
    BY DEF PInv, Shelved, Shelf
  <2>2. \A i \in DOMAIN fleet : fleet[i] \in Vehicles
    BY <2>1
  <2>3. DOMAIN catalogue.specs = 1 .. Len(catalogue.specs)
    BY <2>1
  <2> QED
    BY <2>1, <2>2, <2>3, VehiclesAreSound DEF FleetIsSound, Ascending
<1> QED
  BY <1>1, ProgInvariance, PTL

\* A document has the vehicles that were asked for, in order, all of them put
\* through the same run.
THEOREM RequestAnswered == ProgSpec => []AnswersTheRequest
<1>1. PInv => AnswersTheRequest
  <2> SUFFICES ASSUME PInv, stage = "ok"
               PROVE  AnswersTheRequest
    BY DEF AnswersTheRequest
  <2>1. /\ reports \in Seq(Lines) /\ fleet = <<>> /\ headless
        /\ catalogue.specs \in Seq(Vehicles) /\ catalogue.specs # <<>>
        /\ Len(reports) + Len(fleet) = Len(Chosen)
        /\ \A i \in 1 .. Len(reports) : Told(reports[i], Chosen[i])
    BY DEF PInv, Documented, Shelved, Shelf
  <2>2. /\ Chosen \in Seq(Vehicles)
        /\ request.all => Chosen = catalogue.specs
        /\ ~request.all => Len(Chosen) <= 1
        /\ ~request.all /\ request.rocket # <<>> =>
             \A i \in 1 .. Len(Chosen) : Chosen[i].spec.name = request.rocket
    BY <2>1, ChosenIs DEF PInv
  <2>3. /\ Len(reports) = Len(Chosen) /\ Len(reports) \in Nat
        /\ DOMAIN reports = 1 .. Len(reports)
    BY <2>1, <2>2
  <2>4. PICK f : Course(f)
    BY CourseExists
  <2>5. \A i \in 1 .. Len(reports) :
          /\ reports[i].path = Chosen[i].path
          /\ reports[i].rocket = Chosen[i].spec.name
          /\ reports[i].ticks = MaxTicks
          /\ reports[i].steps = f[MaxTicks].source.index
    BY <2>1, <2>4 DEF Told
  <2>6. \A i, j \in DOMAIN reports : /\ reports[i].ticks = reports[j].ticks
                                     /\ reports[i].steps = reports[j].steps
    BY <2>3, <2>5
  <2>7. ASSUME request.all
        PROVE  [i \in DOMAIN reports |-> reports[i].path]
                 = [i \in DOMAIN catalogue.specs |-> catalogue.specs[i].path]
    <3>1. Chosen = catalogue.specs /\ DOMAIN catalogue.specs = 1 .. Len(reports)
      BY <2>1, <2>2, <2>3, <2>7
    <3> QED
      BY <2>3, <2>5, <3>1
  <2>8. ~request.all => Len(reports) = 1
    <3>1. Len(Chosen) # 0
      <4>1. stage \in {"run", "ok"} /\ headless
        BY <2>1
      <4> QED
        BY <2>2, <4>1 DEF PInv, Documented
    <3> QED
      BY <2>2, <2>3, <3>1
  <2>9. ~request.all /\ request.rocket # <<>> =>
          reports[1].rocket = request.rocket
    BY <2>2, <2>3, <2>5, <2>8
  <2> QED
    BY <2>6, <2>7, <2>8, <2>9 DEF AnswersTheRequest
<1> QED
  BY <1>1, ProgInvariance, PTL
===============================================================================
