---------------------------- MODULE InputPathProofs ----------------------------
(***************************************************************************)
(* InputPath and Pilots for every set of controls, every room in the queue *)
(* and every interleaving of polling and draining: what the simulation has *)
(* and what is queued is what the translator told it.                      *)
(***************************************************************************)
EXTENDS Pilots, FiniteSetTheorems, SequenceTheorems, WellFoundedInduction, TLAPS

\* A set of natural numbers that is not empty has a least member.
LEMMA Least == \A T \in SUBSET Nat : T # {} => \E x \in T : \A y \in T : x <= y
<1> SUFFICES ASSUME NEW T \in SUBSET Nat, T # {}
             PROVE  \E x \in T : \A y \in T : x <= y
  OBVIOUS
<1>1. \E x \in T : \A y \in T : ~(<<y, x>> \in OpToRel(<, Nat))
  BY NatLessThanWellFounded, WFMin
<1>2. \A x, y \in Nat : <<y, x>> \in OpToRel(<, Nat) <=> y < x
  BY DEF OpToRel
<1>3. PICK x \in T : \A y \in T : ~(<<y, x>> \in OpToRel(<, Nat))
  BY <1>1
<1>4. ASSUME NEW y \in T PROVE x <= y
  <2>1. x \in Nat /\ y \in Nat
    OBVIOUS
  <2>2. ~(y < x)
    BY <1>2, <1>3, <2>1
  <2> QED
    BY <2>1, <2>2
<1> QED
  BY <1>4

\* The greatest number of an initial stretch.
LEMMA MaxIs ==
  ASSUME NEW n \in Nat, NEW s \in SUBSET (1 .. n), n \in s
  PROVE  Max(s) = n
<1>1. \A y \in s : n >= y
  OBVIOUS
<1>2. \A x \in s : (\A y \in s : x >= y) => x = n
  OBVIOUS
<1> QED
  BY <1>1, <1>2 DEF Max

\* What FoldLeft(Effect, base, q) computes on the way: a value for every set of
\* positions, the last of them taken first.
Step(base, q, f, s) ==
  IF s = {} THEN base ELSE Effect(f[s \ {Max(s)}], q[Max(s)])

Folds(base, q, f, n) == f = [s \in SUBSET (1 .. n) |-> Step(base, q, f, s)]

\* Such a function exists: otherwise there would be a least n without one.
LEMMA FoldExists == \A base, q : \A n \in Nat : \E f : Folds(base, q, f, n)
<1> SUFFICES ASSUME NEW base, NEW q
             PROVE  \A n \in Nat : \E f : Folds(base, q, f, n)
  OBVIOUS
<1> DEFINE T == {k \in Nat : ~\E f : Folds(base, q, f, k)}
<1>1. CASE T = {}
  BY <1>1
<1>2. CASE T # {}
  <2>1. PICK k \in T : \A m \in T : k <= m
    BY <1>2, Least
  <2>2. k \in Nat /\ ~\E f : Folds(base, q, f, k)
    OBVIOUS
  <2>3. k # 0
    <3>1. \A s \in SUBSET (1 .. 0) : s = {}
      OBVIOUS
    <3>2. Folds(base, q, [s \in SUBSET (1 .. 0) |-> base], 0)
      BY <3>1 DEF Folds, Step
    <3> QED
      BY <2>2, <3>2
  <2>4. PICK g : Folds(base, q, g, k - 1)
    <3>1. k - 1 \in Nat /\ k - 1 \notin T
      BY <2>1, <2>2, <2>3
    <3> QED
      BY <3>1
  <2> DEFINE f == [s \in SUBSET (1 .. k) |->
                     IF k \in s THEN Effect(g[s \ {k}], q[k]) ELSE g[s]]
  <2>5. \A s \in SUBSET (1 .. k - 1) : k \notin s /\ s \in SUBSET (1 .. k)
    BY <2>2, <2>3
  <2>6. \A s \in SUBSET (1 .. k - 1) : f[s] = g[s] /\ g[s] = Step(base, q, g, s)
    BY <2>4, <2>5 DEF Folds
  <2>7. ASSUME NEW s \in SUBSET (1 .. k) PROVE f[s] = Step(base, q, f, s)
    <3>1. CASE k \in s
      <4>1. Max(s) = k
        BY <2>2, <3>1, MaxIs
      <4>2. s \ {k} \in SUBSET (1 .. k - 1)
        BY <2>2
      <4>3. f[s \ {k}] = g[s \ {k}]
        BY <2>6, <4>2
      <4>4. f[s] = Effect(g[s \ {k}], q[k])
        BY <3>1
      <4> HIDE DEF f
      <4> QED
        BY <3>1, <4>1, <4>3, <4>4 DEF Step
    <3>2. CASE k \notin s
      <4>1. s \in SUBSET (1 .. k - 1) /\ s \ {Max(s)} \in SUBSET (1 .. k - 1)
        <5>1. \A x \in s : x \in 1 .. k - 1
          BY <2>2, <3>2
        <5> QED
          BY <5>1
      <4>2. f[s] = g[s] /\ g[s] = Step(base, q, g, s)
        BY <2>6, <4>1
      <4>3. f[s \ {Max(s)}] = g[s \ {Max(s)}]
        BY <2>6, <4>1
      <4> HIDE DEF f
      <4> QED
        BY <4>2, <4>3 DEF Step
    <3> QED
      BY <3>1, <3>2
  <2>8. f = [s \in SUBSET (1 .. k) |-> f[s]]
    OBVIOUS
  <2> HIDE DEF f
  <2>9. Folds(base, q, f, k)
    BY <2>7, <2>8 DEF Folds
  <2> QED
    BY <2>2, <2>9
<1> QED
  BY <1>1, <1>2

\* FoldLeft(Effect, base, q), position by position.
After(base, q, F, n) ==
  /\ F[0] = base
  /\ \A k \in 1 .. n : F[k] = Effect(F[k - 1], q[k])

\* FoldLeft is the loop: command after command, from the first.
LEMMA FoldIs ==
  ASSUME NEW base, NEW n \in Nat, NEW q, DOMAIN q = 1 .. n
  PROVE  \E F : After(base, q, F, n) /\ FoldLeft(Effect, base, q) = F[n]
<1> DEFINE g == CHOOSE f : Folds(base, q, f, n)
<1>1. FoldLeft(Effect, base, q) = g[1 .. n]
  BY DEF FoldLeft, MapThenFoldSet, Folds, Step
<1>2. Folds(base, q, g, n)
  BY FoldExists
<1> HIDE DEF g
<1> DEFINE F == [k \in 0 .. n |-> g[1 .. k]]
<1>3. F[0] = base
  <2>1. 1 .. 0 = {} /\ {} \in SUBSET (1 .. n)
    OBVIOUS
  <2>2. g[{}] = base
    BY <1>2, <2>1 DEF Folds, Step
  <2> QED
    BY <2>1, <2>2
<1>4. ASSUME NEW k \in 1 .. n PROVE F[k] = Effect(F[k - 1], q[k])
  <2>0. k \in Nat /\ 1 <= k /\ k <= n /\ k \in 1 .. k
    OBVIOUS
  <2>1. 1 .. k \in SUBSET (1 .. n) /\ 1 .. k # {} /\ k \in 1 .. k
    <3>1. \A x \in 1 .. k : x \in 1 .. n
      BY <2>0
    <3> QED
      BY <2>0, <3>1
  <2>2. Max(1 .. k) = k
    BY <2>1, MaxIs
  <2>3. (1 .. k) \ {k} = 1 .. k - 1
    OBVIOUS
  <2>4. g[1 .. k] = Effect(g[1 .. k - 1], q[k])
    BY <1>2, <2>1, <2>2, <2>3 DEF Folds, Step
  <2> QED
    BY <2>4
<1>5. F[n] = g[1 .. n]
  OBVIOUS
<1> HIDE DEF F
<1> QED
  BY <1>1, <1>3, <1>4, <1>5 DEF After

-------------------------------------------------------------------------------
\* The values by position are determined by the commands.
LEMMA AfterUnique ==
  ASSUME NEW base, NEW n \in Nat, NEW q, NEW r, NEW F, NEW G,
         After(base, q, F, n), After(base, r, G, n),
         \A k \in 1 .. n : q[k] = r[k]
  PROVE  F[n] = G[n]
<1> DEFINE T == {k \in Nat : k <= n /\ F[k] # G[k]}
<1>1. CASE T = {}
  BY <1>1
<1>2. CASE T # {}
  <2>1. PICK k \in T : \A m \in T : k <= m
    BY <1>2, Least
  <2>2. k \in Nat /\ k <= n /\ F[k] # G[k]
    OBVIOUS
  <2>3. k # 0
    BY <2>2 DEF After
  <2>4. F[k - 1] = G[k - 1]
    BY <2>1, <2>2, <2>3
  <2>5. F[k] = Effect(F[k - 1], q[k]) /\ G[k] = Effect(G[k - 1], r[k])
    BY <2>2, <2>3 DEF After
  <2> QED
    BY <2>2, <2>3, <2>4, <2>5
<1> QED
  BY <1>1, <1>2

\* Nothing queued.
LEMMA FoldEmpty == \A base : FoldLeft(Effect, base, <<>>) = base
<1> SUFFICES ASSUME NEW base PROVE FoldLeft(Effect, base, <<>>) = base
  OBVIOUS
<1>1. DOMAIN <<>> = 1 .. 0
  OBVIOUS
<1>2. PICK F : After(base, <<>>, F, 0) /\ FoldLeft(Effect, base, <<>>) = F[0]
  BY <1>1, FoldIs
<1> QED
  BY <1>2 DEF After

\* A command queued last takes effect last.
LEMMA FoldAppend ==
  ASSUME NEW base, NEW q \in Seq(Command), NEW cmd \in Command
  PROVE  FoldLeft(Effect, base, Append(q, cmd)) = Effect(FoldLeft(Effect, base, q), cmd)
<1> DEFINE n == Len(q)
           r == Append(q, cmd)
<1>1. n \in Nat /\ DOMAIN q = 1 .. n /\ DOMAIN r = 1 .. n + 1
  BY AppendProperties, LenProperties
<1>2. r[n + 1] = cmd /\ \A k \in 1 .. n : q[k] = r[k]
  BY AppendProperties
<1> HIDE DEF r, n
<1>3. PICK F : After(base, q, F, n) /\ FoldLeft(Effect, base, q) = F[n]
  BY <1>1, FoldIs
<1>4. PICK G : After(base, r, G, n + 1) /\ FoldLeft(Effect, base, r) = G[n + 1]
  BY <1>1, FoldIs
<1>5. After(base, r, G, n)
  BY <1>1, <1>4 DEF After
<1>6. F[n] = G[n]
  BY <1>1, <1>2, <1>3, <1>5, AfterUnique
<1>7. G[n + 1] = Effect(G[n], cmd)
  BY <1>1, <1>2, <1>4 DEF After
<1> QED
  BY <1>3, <1>4, <1>6, <1>7 DEF r

\* A command taken from the front has had its effect first.
LEMMA FoldTail ==
  ASSUME NEW base, NEW q \in Seq(Command), q # <<>>
  PROVE  FoldLeft(Effect, Effect(base, Head(q)), Tail(q)) = FoldLeft(Effect, base, q)
<1> DEFINE n == Len(q)
           r == Tail(q)
           b == Effect(base, Head(q))
<1>1. n \in Nat \ {0} /\ DOMAIN q = 1 .. n
  BY LenProperties, EmptySeq
<1>2. DOMAIN r = 1 .. n - 1 /\ \A k \in 1 .. n - 1 : r[k] = q[k + 1]
  BY HeadTailProperties, LenProperties
<1>3. Head(q) = q[1]
  OBVIOUS
<1>4. PICK F : After(base, q, F, n) /\ FoldLeft(Effect, base, q) = F[n]
  BY <1>1, FoldIs
<1> HIDE DEF n, r, b
<1>p. n - 1 \in Nat /\ DOMAIN r = 1 .. n - 1
  BY <1>1, <1>2
<1>5. PICK G : After(b, r, G, n - 1) /\ FoldLeft(Effect, b, r) = G[n - 1]
  BY <1>p, FoldIs
<1> DEFINE H == [k \in 0 .. n - 1 |-> F[k + 1]]
<1>6. After(b, r, H, n - 1)
  <2>1. F[1] = Effect(F[0], q[1]) /\ F[0] = base
    BY <1>1, <1>4 DEF After
  <2>2. H[0] = b
    BY <1>1, <1>3, <2>1 DEF b
  <2>3. ASSUME NEW k \in 1 .. n - 1 PROVE H[k] = Effect(H[k - 1], r[k])
    <3>1. F[k + 1] = Effect(F[k], q[k + 1])
      BY <1>1, <1>4 DEF After
    <3>2. H[k] = F[k + 1] /\ H[k - 1] = F[k]
      BY <1>1
    <3> QED
      BY <1>2, <3>1, <3>2
  <2> HIDE DEF H
  <2> QED
    BY <2>2, <2>3 DEF After
<1>7. H[n - 1] = F[n]
  BY <1>1
<1> HIDE DEF H
<1>8. G[n - 1] = H[n - 1]
  BY <1>p, <1>5, <1>6, AfterUnique
<1> QED
  BY <1>4, <1>5, <1>7, <1>8 DEF r, b

-------------------------------------------------------------------------------
\* What a value by position is.
States == [input : [Controls -> Int], toggled : [Toggles -> {0, 1}]]

Honest(cmd) == cmd \in Command /\ cmd.value \in Values(cmd.control)

\* A command of either kind leaves a state.
LEMMA EffectType == \A s \in States, cmd \in Command : Effect(s, cmd) \in States
<1> SUFFICES ASSUME NEW s \in States, NEW cmd \in Command
             PROVE  Effect(s, cmd) \in States
  OBVIOUS
<1>1. cmd.control \in Controls /\ cmd.value \in Int
  <2>1. cmd.control \in Controls /\ cmd.value \in Positions \cup {0, 1}
    BY DEF Command
  <2>2. Positions \cup {0, 1} \subseteq Int
    BY ControlsAssumption
  <2> QED
    BY <2>1, <2>2
<1>2. s.input \in [Controls -> Int] /\ s.toggled \in [Toggles -> {0, 1}]
  BY DEF States
<1>3. CASE cmd.control \in Toggles /\ cmd.value = 1
  BY <1>2, <1>3 DEF Effect, States
<1>4. CASE ~(cmd.control \in Toggles /\ cmd.value = 1)
  BY <1>1, <1>2, <1>4 DEF Effect, States, Applied
<1> QED
  BY <1>3, <1>4

\* So does any sequence of them.
LEMMA FoldType ==
  ASSUME NEW base \in States, NEW q \in Seq(Command)
  PROVE  FoldLeft(Effect, base, q) \in States
<1> DEFINE n == Len(q)
<1>1. n \in Nat /\ DOMAIN q = 1 .. n /\ \A k \in 1 .. n : q[k] \in Command
  BY LenProperties, ElementOfSeq
<1>2. PICK F : After(base, q, F, n) /\ FoldLeft(Effect, base, q) = F[n]
  BY <1>1, FoldIs
<1> HIDE DEF n
<1> DEFINE T == {k \in Nat : k <= n /\ F[k] \notin States}
<1>3. CASE T = {}
  BY <1>1, <1>2, <1>3
<1>4. CASE T # {}
  <2>1. PICK k \in T : \A m \in T : k <= m
    BY <1>4, Least
  <2>2. k \in Nat /\ k <= n /\ F[k] \notin States
    OBVIOUS
  <2>3. k # 0
    BY <1>2, <2>2 DEF After
  <2>4. F[k - 1] \in States
    BY <1>1, <2>1, <2>2, <2>3
  <2>5. F[k] = Effect(F[k - 1], q[k]) /\ q[k] \in Command
    BY <1>1, <1>2, <2>2, <2>3 DEF After
  <2> QED
    BY <2>2, <2>4, <2>5, EffectType
<1> QED
  BY <1>3, <1>4

-------------------------------------------------------------------------------
\* A poll goes through controls.
LEMMA Listed ==
  ASSUME NEW S, IsFiniteSet(S)
  PROVE  SetToSeq(S) \in Seq(S) /\ Len(SetToSeq(S)) = Cardinality(S)
<1> DEFINE n == Cardinality(S)
<1>1. n \in Nat /\ ExistsBijection(1 .. n, S)
  BY FS_CardinalityType
<1>2. \E f \in [1 .. n -> S] : IsInjective(f)
  BY <1>1 DEF ExistsBijection, Bijection, Injection, IsInjective
<1>3. SetToSeq(S) \in [1 .. n -> S]
  BY <1>2 DEF SetToSeq
<1>4. \A m \in Nat : \A f \in [1 .. m -> S] : f \in Seq(S) /\ Len(f) = m
  OBVIOUS
<1> HIDE DEF n
<1> QED
  BY <1>1, <1>3, <1>4 DEF n

\* A frame polls controls, and at least one.
LEMMA PollCovers ==
  /\ Len(PollOrder) \in Nat \ {0}
  /\ \A k \in 1 .. Len(PollOrder) : PollOrder[k] \in Controls
<1>1. IsFiniteSet(Axes) /\ IsFiniteSet(Buttons)
  BY ControlsAssumption, FS_Union DEF Buttons
<1>2. SetToSeq(Axes) \in Seq(Controls) /\ SetToSeq(Buttons) \in Seq(Controls)
  BY <1>1, Listed, SeqMonotonic DEF Controls
<1>3. PollOrder \in Seq(Controls)
  BY <1>2, ConcatProperties DEF PollOrder
<1>4. Len(SetToSeq(Axes)) \in Nat \ {0}
  <2>1. Axes # {}
    BY PilotAssumption
  <2>2. Cardinality(Axes) \in Nat /\ Cardinality(Axes) # 0
    BY <1>1, <2>1, FS_CardinalityType, FS_EmptySet
  <2> QED
    BY <1>1, <2>2, Listed
<1>5. Len(PollOrder) = Len(SetToSeq(Axes)) + Len(SetToSeq(Buttons))
  BY <1>2, ConcatProperties DEF PollOrder
<1>6. Len(SetToSeq(Buttons)) \in Nat
  BY <1>2, LenProperties
<1> QED
  BY <1>3, <1>4, <1>5, <1>6, ElementOfSeq

\* The values of the controls, of which 0 is one, are integers.
LEMMA ValueTypes ==
  /\ \A c \in Controls : Values(c) \subseteq Positions \cup {0, 1}
  /\ \A c \in Controls : 0 \in Values(c)
  /\ \A r \in Readings, c \in Controls : r[c] \in Values(c)
  /\ \A r \in Readings, c \in Controls : \A v \in Values(c) :
       [r EXCEPT ![c] = v] \in Readings
  /\ Readings \subseteq [Controls -> Int]
<1>1. \A c \in Controls : Values(c) \subseteq Positions \cup {0, 1} /\ 0 \in Values(c)
  BY ControlsAssumption DEF Values
<1>2. \A r \in Readings, c \in Controls : r[c] \in Values(c)
  BY DEF Readings
<1>3. \A r \in Readings, c \in Controls : \A v \in Values(c) :
        [r EXCEPT ![c] = v] \in Readings
  BY <1>1 DEF Readings
<1>4. Positions \cup {0, 1} \subseteq Int
  BY ControlsAssumption
<1>5. ASSUME NEW r \in Readings PROVE r \in [Controls -> Int]
  BY <1>4 DEF Readings
<1> QED
  BY <1>1, <1>2, <1>3, <1>5

\* The commands a queue may hold.
Commands(q) ==
  /\ q \in Seq(Command)
  /\ \A k \in DOMAIN q : q[k].value \in Values(q[k].control)

\* What the simulation will have once it has drained what is queued.
Shown == FoldLeft(Effect, [input |-> input, toggled |-> toggled], queue)

IInv == TypeOK /\ TogglesAreEdges /\ Rebuilt

\* Nothing is pressed and nothing is queued.
LEMMA InitInv == Init => IInv
<1> SUFFICES ASSUME Init PROVE IInv
  OBVIOUS
<1> DEFINE zero == [c \in Controls |-> 0]
<1>1. zero \in Readings
  BY ValueTypes DEF Readings
<1>2. queue = <<>> /\ dropped = 0
  BY DEF Init, Q!Init
<1>3. TypeOK
  BY <1>1, <1>2, PollCovers, RoomAssumption, ControlsAssumption DEF Init, TypeOK
<1>4. TogglesAreEdges
  BY DEF Init, TogglesAreEdges, Controls, Buttons
<1>5. Rebuilt
  <2>1. FoldLeft(Effect, [input |-> input, toggled |-> toggled], queue)
          = [input |-> input, toggled |-> toggled]
    BY <1>2, FoldEmpty
  <2> QED
    BY <2>1 DEF Rebuilt, Init
<1> QED
  BY <1>3, <1>4, <1>5 DEF IInv

\* The player moves, the devices change or a poll begins: nothing is told.
LEMMA DeviceInv ==
  ASSUME IInv, Move \/ HotPlug \/ BeginPoll
  PROVE  IInv'
<1>1. UNCHANGED <<stored, presses, queue, dropped, out, input, toggled>>
  BY DEF Move, HotPlug, BeginPoll
<1>2. reading' \in Readings
  <2>1. CASE Move
    <3>1. PICK c \in Controls :
            \E v \in Values(c) : reading' = [reading EXCEPT ![c] = v]
      BY <2>1 DEF Move
    <3>2. PICK v \in Values(c) : reading' = [reading EXCEPT ![c] = v]
      BY <3>1
    <3>3. reading \in Readings
      BY DEF IInv, TypeOK
    <3>4. [reading EXCEPT ![c] = v] \in Readings
      BY <3>3, ValueTypes
    <3> QED
      BY <3>2, <3>4
  <2>2. CASE HotPlug \/ BeginPoll
    BY <2>2 DEF HotPlug, BeginPoll, IInv, TypeOK, device
  <2> QED
    BY <2>1, <2>2
<1>3. moves' \in 0 .. MaxMoves
  BY ControlsAssumption DEF IInv, TypeOK, Move, HotPlug, BeginPoll, device
<1>4. at' \in 0 .. Len(PollOrder)
  <2>1. at' = at \/ at' = 1
    BY DEF Move, HotPlug, BeginPoll
  <2> QED
    BY <2>1, PollCovers DEF IInv, TypeOK
<1>5. TypeOK'
  BY <1>1, <1>2, <1>3, <1>4 DEF IInv, TypeOK
<1> QED
  BY <1>1, <1>5 DEF IInv, TogglesAreEdges, Rebuilt

\* emitAxis, emitButton: what is told is remembered, and is queued behind the rest
\* or counted as refused.
LEMMA EmitInv ==
  ASSUME IInv, EmitNext
  PROVE  IInv'
<1> DEFINE c == PollOrder[at]
           v == reading[c]
           cmd == [control |-> c, value |-> v]
<1>0. TypeOK /\ TogglesAreEdges /\ Rebuilt
  BY DEF IInv
<1>1. at \in 1 .. Len(PollOrder)
  BY <1>0 DEF TypeOK, EmitNext
<1>2. c \in Controls /\ v \in Values(c)
  BY <1>0, <1>1, PollCovers, ValueTypes DEF TypeOK
<1>3. cmd \in Command
  BY <1>2, ValueTypes DEF Command
<1>4. at' \in 0 .. Len(PollOrder)
  BY <1>1 DEF EmitNext, Following
<1>5. UNCHANGED <<reading, moves, input, toggled>>
  BY DEF EmitNext, device
<1>6. CASE ~Changed(c, v)
  <2>1. UNCHANGED <<stored, presses, queue, dropped, out>>
    BY <1>6 DEF EmitNext
  <2>2. TypeOK'
    BY <1>0, <1>4, <1>5, <2>1 DEF TypeOK
  <2> QED
    BY <1>0, <1>5, <2>1, <2>2 DEF IInv, TogglesAreEdges, Rebuilt
<1>7. CASE Changed(c, v)
  <2>1. /\ stored' = [stored EXCEPT ![c] = v]
        /\ presses' = IF c \in Toggles /\ v = 1
                      THEN [presses EXCEPT ![c] = 1 - @] ELSE presses
    BY <1>7 DEF EmitNext
  <2>2. \/ Len(queue) < Room /\ queue' = Append(queue, cmd)
           /\ dropped' = dropped
        \/ queue' = queue /\ dropped' = dropped + 1
    BY <1>7 DEF EmitNext, Q!Push, Q!Drop
  <2> HIDE DEF c, v
  <2>3. stored' \in Readings
    BY <1>0, <1>2, <2>1, ValueTypes DEF TypeOK
  <2>4. presses' \in [Toggles -> {0, 1}]
    BY <1>0, <2>1 DEF TypeOK
  <2>5. Len(queue') <= Room /\ Commands(queue')
    <3>1. CASE queue' = queue
      BY <1>0, <3>1 DEF TypeOK, Commands
    <3>2. CASE Len(queue) < Room /\ queue' = Append(queue, cmd)
      <4>1. queue \in Seq(Command) /\ Len(queue) \in Nat
        BY <1>0, LenProperties DEF TypeOK
      <4>2. queue' \in Seq(Command) /\ Len(queue') = Len(queue) + 1
        BY <1>3, <3>2, <4>1, AppendProperties
      <4>3. DOMAIN queue' = 1 .. Len(queue) + 1
            /\ DOMAIN queue = 1 .. Len(queue)
        BY <4>1, <4>2, LenProperties
      <4>4. ASSUME NEW k \in 1 .. Len(queue) + 1
            PROVE  queue'[k].value \in Values(queue'[k].control)
        <5>1. CASE k = Len(queue) + 1
          <6>1. queue'[k] = cmd
            BY <1>3, <3>2, <4>1, <5>1, AppendProperties
          <6> QED
            BY <1>2, <6>1
        <5>2. CASE k # Len(queue) + 1
          <6>1. k \in 1 .. Len(queue)
            BY <4>1, <5>2
          <6>2. queue'[k] = queue[k]
            BY <1>3, <3>2, <4>1, <6>1, AppendProperties
          <6> QED
            BY <1>0, <4>3, <6>1, <6>2 DEF TypeOK
        <5> QED
          BY <5>1, <5>2
      <4> QED
        BY <3>2, <4>1, <4>2, <4>3, <4>4, RoomAssumption DEF Commands
    <3> QED
      BY <2>2, <3>1, <3>2
  <2>6. dropped' \in Nat
    BY <1>0, <2>2 DEF TypeOK
  <2>7. TypeOK'
    BY <1>0, <1>4, <1>5, <2>3, <2>4, <2>5, <2>6 DEF TypeOK, Commands
  <2>8. TogglesAreEdges'
    BY <1>0, <1>5 DEF TogglesAreEdges
  <2>9. Rebuilt'
    <3> DEFINE base == [input |-> input, toggled |-> toggled]
               s == FoldLeft(Effect, base, queue)
               r == Effect(s, cmd)
    <3>1. SUFFICES ASSUME dropped' = 0
                   PROVE  /\ \A x \in Axes \cup Held : r.input[x] = stored'[x]
                          /\ r.toggled = presses'
      <4>1. ASSUME dropped' = 0 PROVE Shown' = r
        <5>1. queue' = Append(queue, cmd)
          BY <1>0, <2>2, <4>1 DEF TypeOK
        <5>2. queue \in Seq(Command)
          BY <1>0 DEF TypeOK
        <5>3. FoldLeft(Effect, base, queue') = r
          BY <1>3, <5>1, <5>2, FoldAppend
        <5>4. Shown' = FoldLeft(Effect, [input |-> input', toggled |-> toggled'], queue')
          BY DEF Shown
        <5> QED
          BY <1>5, <5>3, <5>4
      <4> HIDE DEF r
      <4> QED
        BY <4>1 DEF Rebuilt, Shown
    <3>2. dropped = 0
      BY <1>0, <2>2, <3>1 DEF TypeOK
    <3>3. s \in States
      <4>1. base \in States
        BY <1>0, ValueTypes DEF TypeOK, States
      <4> QED
        BY <1>0, <4>1, FoldType DEF TypeOK
    <3>4. s.input \in [Controls -> Int] /\ s.toggled \in [Toggles -> {0, 1}]
      BY <3>3 DEF States
    <3>5. (\A x \in Axes \cup Held : s.input[x] = stored[x]) /\ s.toggled = presses
      BY <1>0, <3>2 DEF Rebuilt
    <3>6. stored \in [Controls -> Int]
      BY <1>0, ValueTypes DEF TypeOK
    <3> HIDE DEF s, base
    <3>7. CASE c \in Toggles /\ v = 1
      <4>1. r = [s EXCEPT !.toggled[c] = 1 - @]
        BY <3>7 DEF Effect
      <4>2. r.input = s.input /\ r.toggled = [s.toggled EXCEPT ![c] = 1 - @]
        BY <3>3, <4>1 DEF States
      <4>3. c \notin Axes \cup Held
        BY <3>7, ControlsAssumption
      <4>4. \A x \in Axes \cup Held : stored'[x] = stored[x]
        BY <2>1, <3>6, <4>3 DEF Controls, Buttons
      <4>5. presses' = [presses EXCEPT ![c] = 1 - @]
        BY <2>1, <3>7
      <4> QED
        BY <3>5, <4>2, <4>4, <4>5
    <3>8. CASE ~(c \in Toggles /\ v = 1)
      <4>1. r = [s EXCEPT !.input = Applied(@, cmd)]
        BY <3>8 DEF Effect
      <4>2. r.input = [s.input EXCEPT ![c] = v] /\ r.toggled = s.toggled
        BY <3>3, <4>1 DEF States, Applied
      <4>3. \A x \in Axes \cup Held :
              [s.input EXCEPT ![c] = v][x] = [stored EXCEPT ![c] = v][x]
        BY <3>4, <3>5, <3>6 DEF Controls, Buttons
      <4>4. presses' = presses
        BY <2>1, <3>8
      <4> QED
        BY <2>1, <3>5, <4>2, <4>3, <4>4
    <3> QED
      BY <3>7, <3>8
  <2> QED
    BY <2>7, <2>8, <2>9 DEF IInv
<1> QED
  BY <1>6, <1>7

\* handleCommand: what was first in the queue has taken effect, so that what is
\* shown in the end is the same.
LEMMA DrainInv ==
  ASSUME IInv, Drain
  PROVE  IInv'
<1> DEFINE base == [input |-> input, toggled |-> toggled]
           cmd  == Head(queue)
           s    == Effect(base, cmd)
<1>0. TypeOK /\ TogglesAreEdges /\ Rebuilt
  BY DEF IInv
<1>1. /\ queue # <<>> /\ queue' = Tail(queue) /\ dropped' = dropped
      /\ UNCHANGED <<reading, moves, at, stored, presses>>
      /\ input' = s.input /\ toggled' = s.toggled
  BY DEF Drain, Q!Pop, device
<1>2. queue \in Seq(Command) /\ input \in Readings
      /\ toggled \in [Toggles -> {0, 1}]
  BY <1>0 DEF TypeOK
<1>3. cmd \in Command /\ cmd.value \in Values(cmd.control)
  <2>1. Len(queue) \in Nat \ {0} /\ DOMAIN queue = 1 .. Len(queue)
        /\ cmd = queue[1]
    BY <1>1, <1>2, EmptySeq, LenProperties
  <2> QED
    BY <1>0, <1>1, <1>2, <2>1, HeadTailProperties DEF TypeOK
<1>4. Len(queue') <= Room /\ Commands(queue')
  <2>1. queue' \in Seq(Command) /\ Len(queue') = Len(queue) - 1
    BY <1>1, <1>2, HeadTailProperties
  <2>2. /\ Len(queue) \in Nat
        /\ DOMAIN queue' = 1 .. Len(queue) - 1 /\ DOMAIN queue = 1 .. Len(queue)
    BY <1>2, <2>1, LenProperties
  <2>3. ASSUME NEW k \in 1 .. Len(queue) - 1
        PROVE  queue'[k].value \in Values(queue'[k].control)
    <3>1. queue'[k] = queue[k + 1] /\ k + 1 \in 1 .. Len(queue)
      BY <1>1, <1>2, <2>1, <2>2, HeadTailProperties
    <3> QED
      BY <1>0, <2>2, <3>1 DEF TypeOK
  <2> QED
    BY <1>0, <2>1, <2>2, <2>3, RoomAssumption DEF TypeOK, Commands
<1>5. /\ base \in States
      /\ base.input = input /\ base.toggled = toggled
  BY <1>2, ValueTypes DEF States
<1> HIDE DEF base, cmd
<1>6. ASSUME cmd.control \in Toggles, cmd.value = 1
      PROVE  TypeOK' /\ TogglesAreEdges'
  <2>1. s = [base EXCEPT !.toggled[cmd.control] = 1 - @]
    BY <1>6 DEF Effect
  <2>2. s.input = input /\ s.toggled = [toggled EXCEPT ![cmd.control] = 1 - @]
    BY <1>5, <2>1 DEF States
  <2> HIDE DEF s
  <2>3. s.toggled \in [Toggles -> {0, 1}]
    <3>1. 1 - toggled[cmd.control] \in {0, 1}
      BY <1>2, <1>6
    <3> QED
      BY <1>2, <2>2, <3>1
  <2>4. TypeOK'
    BY <1>0, <1>1, <1>4, <2>2, <2>3 DEF TypeOK, Commands
  <2>5. TogglesAreEdges'
    BY <1>0, <1>1, <2>2 DEF TogglesAreEdges
  <2> QED
    BY <2>4, <2>5
<1>7. ASSUME ~(cmd.control \in Toggles /\ cmd.value = 1)
      PROVE  TypeOK' /\ TogglesAreEdges'
  <2>1. s = [base EXCEPT !.input = Applied(@, cmd)]
    BY <1>7 DEF Effect
  <2>2. s.toggled = toggled
        /\ s.input = [input EXCEPT ![cmd.control] = cmd.value]
    BY <1>5, <2>1 DEF States, Applied
  <2>3. s.input \in Readings
    BY <1>2, <1>3, <2>2, ValueTypes DEF Command
  <2> HIDE DEF s
  <2>4. TypeOK'
    BY <1>0, <1>1, <1>4, <2>2, <2>3 DEF TypeOK, Commands
  <2>5. cmd.control \in Toggles => cmd.value = 0
    BY <1>3, <1>7, ControlsAssumption DEF Values, Controls, Buttons
  <2>6. input \in [Controls -> Int] /\ Toggles \subseteq Controls
    BY <1>2, ValueTypes DEF Controls, Buttons
  <2>7. TogglesAreEdges'
    BY <1>0, <1>1, <2>2, <2>5, <2>6 DEF TogglesAreEdges
  <2> QED
    BY <2>4, <2>7
<1>8. Rebuilt'
  <2>1. Shown' = Shown
    <3>1. s \in States
      BY <1>3, <1>5, EffectType
    <3>2. s = [input |-> input', toggled |-> toggled']
      BY <1>1, <3>1 DEF States
    <3>3. FoldLeft(Effect, s, queue') = FoldLeft(Effect, base, queue)
      BY <1>1, <1>2, FoldTail DEF cmd
    <3>4. Shown' = FoldLeft(Effect, [input |-> input', toggled |-> toggled'], queue')
      BY DEF Shown
    <3>5. Shown = FoldLeft(Effect, base, queue)
      BY DEF Shown, base
    <3> QED
      BY <3>2, <3>3, <3>4, <3>5
  <2>2. Rebuilt <=> (dropped = 0 => /\ \A c \in Axes \cup Held : Shown.input[c] = stored[c]
                                   /\ Shown.toggled = presses)
    BY DEF Rebuilt, Shown
  <2>3. Rebuilt' <=> (dropped' = 0 =>
                        /\ \A c \in Axes \cup Held : Shown'.input[c] = stored'[c]
                        /\ Shown'.toggled = presses')
    BY DEF Rebuilt, Shown
  <2> QED
    BY <1>0, <1>1, <2>1, <2>2, <2>3
<1> QED
  BY <1>6, <1>7, <1>8 DEF IInv

\* Every step of the player, the frames and the simulation keeps the invariant.
LEMMA StepInv == IInv /\ [Next]_vars => IInv'
<1> SUFFICES ASSUME IInv, [Next]_vars PROVE IInv'
  OBVIOUS
<1>1. CASE Move \/ HotPlug \/ BeginPoll
  BY <1>1, DeviceInv
<1>2. CASE EmitNext
  BY <1>2, EmitInv
<1>3. CASE Drain
  BY <1>3, DrainInv
<1>4. CASE UNCHANGED vars
  BY <1>4 DEF vars, IInv, TypeOK, TogglesAreEdges, Rebuilt
<1> QED
  BY <1>1, <1>2, <1>3, <1>4 DEF Next, Poll

\* The input path keeps its invariant under every interleaving of the player, the
\* frames and the simulation's passes, whatever fits in the queue.
THEOREM Invariance == Spec => []IInv
<1> QED
  BY InitInv, StepInv, PTL DEF Spec

\* The members of translator, queue and pilots keep their types.
THEOREM TypeCorrect == Spec => []TypeOK
BY Invariance, PTL DEF IInv

\* No level and no toggle is lost, repeated or reordered on the way while no push
\* is refused: what the simulation has, and what is queued for it, is what the
\* translator has told.
THEOREM NothingLost == Spec => []Rebuilt
<1>1. IInv => Rebuilt
  BY DEF IInv
<1> QED
  BY <1>1, Invariance, PTL

\* No toggle becomes a level, whichever presses and releases were refused.
THEOREM NoToggleHeld == Spec => []TogglesAreEdges
<1>1. IInv => TogglesAreEdges
  BY DEF IInv
<1> QED
  BY <1>1, Invariance, PTL

\* What the simulation believes of a stick that was let go is below the epsilon.
LEMMA InvRest == IInv => LettingGoIsRest
<1> SUFFICES ASSUME IInv, Settled, reading["MoveX"] = 0
             PROVE  /\ \A mode \in {"acceleration", "velocity"} :
                         Intent(input, mode).vector = 0
                    /\ \A arm \in Arms : Level(input, arm) < Epsilon
  BY DEF LettingGoIsRest
<1> DEFINE x == input["MoveX"]
<1>1. queue = <<>> /\ dropped = 0 /\ ~Changed("MoveX", 0) /\ "MoveX" \in Axes
  BY PilotAssumption DEF Settled
<1>2. x = stored["MoveX"]
  <2>1. FoldLeft(Effect, [input |-> input, toggled |-> toggled], queue)
          = [input |-> input, toggled |-> toggled]
    BY <1>1, FoldEmpty
  <2> QED
    BY <1>1, <2>1 DEF IInv, Rebuilt
<1>3. x \in Int
  BY <1>1, ValueTypes DEF IInv, TypeOK, Controls
<1> HIDE DEF x
<1>4. Magnitude(x) < Epsilon /\ Magnitude(x) \in Nat
  BY <1>1, <1>2, <1>3, EpsilonAssumption DEF Changed, Magnitude
<1>5. ApplyDeadzone(x) = 0
  BY <1>4, EpsilonAssumption, PilotAssumption DEF ApplyDeadzone
<1>6. ASSUME NEW mode PROVE Intent(input, mode).vector = 0
  BY <1>5 DEF Intent, x
<1>7. ASSUME NEW arm PROVE Level(input, arm) < Epsilon
  BY <1>4, EpsilonAssumption DEF Level, x
<1> QED
  BY <1>6, <1>7

\* A stick that was let go asks for nothing: the residue the translator keeps to
\* itself is within the pilot's deadzone.
THEOREM RestAsksNothing == Spec => []LettingGoIsRest
<1> QED
  BY Invariance, InvRest, PTL
===============================================================================
