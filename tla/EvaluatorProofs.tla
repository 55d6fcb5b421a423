---------------------------- MODULE EvaluatorProofs ----------------------------
(***************************************************************************)
(* Sandbox and Evaluator for every cap, pipe and amount of output, every   *)
(* catalogue, matrix and set of weights: what an ended run has left behind *)
(* and is called, what of its output was kept, and what may be ranked.     *)
(***************************************************************************)
EXTENDS Evaluator, FiniteSetTheorems, WellFoundedInduction, TLAPS

\* A write end is held by a process that is alive; a child that has not got to
\* execve has written nothing and forked nothing.
Processes ==
  /\ pc = "spawn" => child = "none" /\ open = Pipes
  /\ child = "none" => /\ pc \in {"spawn", "done"}
                       /\ forked = "none" /\ ~left /\ holders = Nowhere
                       /\ written = Zero /\ pipe = Zero
  /\ child = "setup" => /\ forked = "none" /\ ~left
                        /\ \A f \in Pipes : holders[f] = {"child"}
                        /\ written = Zero /\ pipe = Zero
  /\ \A f \in Pipes : /\ "child" \in holders[f] =>
                             child \in {"setup", "running"}
                      /\ "forked" \in holders[f] => forked = "running"

\* Every block written is in its pipe or was read, and what was read is kept up
\* to the cap.
Counted ==
  /\ \A f \in Pipes : /\ pipe[f] <= written[f]
                      /\ kept[f] = Appended(written[f] - pipe[f], Cap)
  /\ truncated <=> \E f \in Pipes : written[f] - pipe[f] > Cap

\* A pipe that was closed is empty and stays so: nobody can write to it, and
\* nobody inherits an end that nobody has.
AtEnd == \A f \in Pipes \ open : pipe[f] = 0 /\ holders[f] = {}

\* Why the parent has killed, or is about to.
Doomed == timedOut \/ floodKill \/ gaveUp

\* Past the loop the child is no more, and what is left to do is to drain the
\* pipes that a kill has left open; nobody can write to them but a process that
\* had left the group, and what it writes may be left behind.
PastLoop ==
  /\ pc \in {"drain", "done"} /\ child # "none" =>
       /\ child \notin {"setup", "running"}
       /\ \A f \in open : left \/ holders[f] = {}
       /\ \A f \in open \ todo : left \/ pipe[f] = 0
       /\ Doomed => left \/ forked # "running"
       /\ ~Doomed => open = {}
  /\ pc \in {"spawn", "done"} => todo = {}

\* The flags say why the parent kills; nothing else does.
Reasons ==
  /\ pc \in {"spawn", "loop", "read"} => ~Doomed /\ ~killed
  /\ pc = "kill" => ~killed
  /\ pc = "kill" \/ killed => Doomed
  /\ killed => child = "signal"
  /\ pc = "done" => IF child = "none" THEN outcome = "SpawnFailed" /\ ~killed
                                      ELSE outcome = Verdict

SandboxInv == TypeOK /\ Processes /\ Counted /\ AtEnd /\ PastLoop /\ Reasons

-------------------------------------------------------------------------------
\* The jobs whose runs the determinism check repeats.
Counts(j) == Verify /\ runs[j] # Failed /\ jobs[j].seed = Seeds[1]
Reproduced(j) == Counts(j) => [job |-> j, run |-> runs[j]] \in repeats

\* Up to the job in hand, one run for each job.
Progress ==
  /\ phase = "matrix" => /\ at = Len(runs) + 1
                         /\ repeats = {} /\ deterministic
                         /\ jobs # <<>> => at <= Len(jobs)
  /\ jobs = <<>> => pc = "spawn" /\ phase \in {"matrix", "returned"}
  /\ phase = "repeat" => at \in 1 .. Len(runs)

\* The second runs come in the order of the first: until one of them differs,
\* each run that counts, up to the last that was repeated, has been reproduced.
InOrder ==
  /\ \A r \in repeats : r.job \in 1 .. Len(runs)
  /\ deterministic => \A r \in repeats, j \in 1 .. Len(runs) :
                        j <= r.job => Reproduced(j)
  /\ phase \in {"scan", "repeat"} => deterministic
  /\ phase = "repeat" => \A j \in 1 .. at - 1 : Reproduced(j)
  /\ phase \in {"verdict", "returned"} /\ deterministic =>
       \A j \in 1 .. Len(runs) : Reproduced(j)
  /\ status = "ok" => phase = "returned" /\ deterministic

\* Every run so far counts, at the weight of its job, and a failed one at the full
\* penalty.
Totals ==
  /\ phase \notin {"matrix", "thrown"} => Len(runs) = Len(jobs)
  /\ weightSum = WeightOf(1 .. Len(runs))
  /\ weightedTotal >=
       Penalty * WeightOf({j \in 1 .. Len(runs) : runs[j] = Failed})

IInv == SandboxInv /\ EvalTypeOK /\ Progress /\ InOrder /\ Totals

-------------------------------------------------------------------------------
\* A non-empty set of numbers has a smallest one, and Min finds it.
LEMMA Least == \A T \in SUBSET Nat : T # {} => \E x \in T : \A y \in T : x <= y
<1> SUFFICES ASSUME NEW T \in SUBSET Nat, T # {}
             PROVE  \E x \in T : \A y \in T : x <= y
  OBVIOUS
<1>1. \E x \in T : \A y \in T : ~(<<y, x>> \in OpToRel(<, Nat))
  BY NatLessThanWellFounded, WFMin
<1>2. \A x, y \in Nat : <<y, x>> \in OpToRel(<, Nat) <=> y < x
  BY DEF OpToRel
<1>3. PICK x \in T : \A y \in T : ~(<<y, x>> \in OpToRel(<, Nat))
  BY <1>1
<1>4. ASSUME NEW y \in T PROVE x <= y
  <2>1. x \in Nat /\ y \in Nat
    OBVIOUS
  <2>2. ~(y < x)
    BY <1>2, <1>3, <2>1
  <2> QED BY <2>1, <2>2
<1> QED
  BY <1>4

\* Min of two numbers.
LEMMA MinIs == \A T \in SUBSET Nat : T # {} => /\ Min(T) \in T
                                               /\ \A y \in T : Min(T) <= y
BY Least DEF Min

\* The limits are natural numbers.
LEMMA Bounds == /\ Cap \in Nat /\ Cap # 0
                /\ Room \in Nat /\ Room # 0
                /\ MaxBlocks \in Nat /\ MaxBlocks # 0
BY SandboxBounds

\* Nothing has been called yet.
LEMMA InitInv == Init => SandboxInv
<1> SUFFICES ASSUME Init
             PROVE  SandboxInv
  OBVIOUS
<1>1. TypeOK
  <2>1. Nowhere \in [Pipes -> SUBSET {"child", "forked"}]
    BY DEF Nowhere
  <2>2. Zero \in [Pipes -> 0 .. MaxBlocks] /\ Zero \in [Pipes -> 0 .. Room]
    BY Bounds DEF Zero
  <2>3. Zero \in [Pipes -> 0 .. Cap]
    BY Bounds DEF Zero
  <2> QED
    BY <2>2, <2>3 DEF TypeOK, Init, Nowhere
<1>2. Processes
  BY DEF Processes, Nowhere, Init
<1>3. Counted
  BY Bounds DEF Counted, Appended, Zero, Init
<1>4. AtEnd
  BY DEF AtEnd, Init
<1>5. PastLoop
  BY DEF PastLoop, Doomed, Init
<1>6. Reasons
  BY DEF Reasons, Doomed, Init
<1> QED
  BY <1>1, <1>2, <1>3, <1>4, <1>5, <1>6 DEF SandboxInv

\* runSandboxed is called.
LEMMA CallInv == Call => SandboxInv'
<1> SUFFICES ASSUME Call
             PROVE  SandboxInv'
  OBVIOUS
<1>1. TypeOK'
  <2>1. Nowhere \in [Pipes -> SUBSET {"child", "forked"}]
    BY DEF Nowhere
  <2>2. Zero \in [Pipes -> 0 .. MaxBlocks] /\ Zero \in [Pipes -> 0 .. Room]
    BY Bounds DEF Zero
  <2>3. Zero \in [Pipes -> 0 .. Cap]
    BY Bounds DEF Zero
  <2> QED
    BY <2>2, <2>3 DEF TypeOK, Call, Nowhere
<1>2. Processes'
  BY DEF Processes, Nowhere, Call
<1>3. Counted'
  BY Bounds DEF Counted, Appended, Zero, Call
<1>4. AtEnd'
  BY DEF AtEnd, Call
<1>5. PastLoop'
  BY DEF PastLoop, Doomed, Call
<1>6. Reasons'
  BY DEF Reasons, Doomed, Call
<1> QED
  BY <1>1, <1>2, <1>3, <1>4, <1>5, <1>6 DEF SandboxInv

\* The child could not exec.
LEMMA ChildFailsInv == SandboxInv /\ ChildFails => SandboxInv'
<1> SUFFICES ASSUME SandboxInv, ChildFails
             PROVE  SandboxInv'
  OBVIOUS
<1>1. TypeOK'
  BY Bounds DEF TypeOK, Pipes, SandboxInv, ChildFails, Below, Without, sorted
<1>2. Processes'
  BY DEF Processes, SandboxInv, ChildFails, Below, Without
<1>3. Counted'
  BY DEF Counted, Processes, Zero, SandboxInv, ChildFails, Below
<1>4. AtEnd'
  BY DEF AtEnd, Processes, SandboxInv, ChildFails, Below
<1>5. PastLoop'
  BY DEF PastLoop, Doomed, SandboxInv, ChildFails, Below
<1>6. Reasons'
  BY DEF Reasons, PastLoop, Doomed, SandboxInv, ChildFails, Below, sorted
<1> QED
  BY <1>1, <1>2, <1>3, <1>4, <1>5, <1>6 DEF SandboxInv

\* The child execs.
LEMMA ExecInv == SandboxInv /\ Exec => SandboxInv'
<1> SUFFICES ASSUME SandboxInv, Exec
             PROVE  SandboxInv'
  OBVIOUS
<1>1. TypeOK'
  BY DEF TypeOK, SandboxInv, Exec, Below, sorted
<1>2. Processes'
  BY DEF Processes, SandboxInv, Exec, Below
<1>3. Counted'
  BY DEF Counted, SandboxInv, Exec, Below
<1>4. AtEnd'
  BY DEF AtEnd, SandboxInv, Exec, Below
<1>5. PastLoop'
  BY DEF PastLoop, Doomed, SandboxInv, Exec, Below
<1>6. Reasons'
  BY DEF Reasons, PastLoop, Doomed, SandboxInv, Exec, Below, sorted
<1> QED
  BY <1>1, <1>2, <1>3, <1>4, <1>5, <1>6 DEF SandboxInv

\* A process of the group forks.
LEMMA ForkInv == SandboxInv /\ Fork => SandboxInv'
<1> SUFFICES ASSUME SandboxInv, Fork
             PROVE  SandboxInv'
  OBVIOUS
<1>1. TypeOK'
  BY DEF TypeOK, SandboxInv, Fork, Below, sorted
<1>2. Processes'
  BY DEF Processes, SandboxInv, Fork, Below
<1>3. Counted'
  BY DEF Counted, SandboxInv, Fork, Below
<1>4. AtEnd'
  BY DEF AtEnd, SandboxInv, Fork, Below
<1>5. PastLoop'
  BY DEF PastLoop, Doomed, SandboxInv, Fork, Below
<1>6. Reasons'
  BY DEF Reasons, PastLoop, Doomed, SandboxInv, Fork, Below, sorted
<1> QED
  BY <1>1, <1>2, <1>3, <1>4, <1>5, <1>6 DEF SandboxInv

\* The process that was forked leaves the group.
LEMMA LeaveInv == SandboxInv /\ Leave => SandboxInv'
<1> SUFFICES ASSUME SandboxInv, Leave
             PROVE  SandboxInv'
  OBVIOUS
<1>1. TypeOK'
  BY DEF TypeOK, SandboxInv, Leave, Below, sorted
<1>2. Processes'
  BY DEF Processes, SandboxInv, Leave, Below
<1>3. Counted'
  BY DEF Counted, SandboxInv, Leave, Below
<1>4. AtEnd'
  BY DEF AtEnd, SandboxInv, Leave, Below
<1>5. PastLoop'
  BY DEF PastLoop, Doomed, SandboxInv, Leave, Below, sorted
<1>6. Reasons'
  BY DEF Reasons, Doomed, Verdict, SandboxInv, Leave, Below, sorted
<1> QED
  BY <1>1, <1>2, <1>3, <1>4, <1>5, <1>6 DEF SandboxInv

\* A process of the group writes.
LEMMA WriteInv == SandboxInv /\ Write => SandboxInv'
<1> SUFFICES ASSUME SandboxInv, Write
             PROVE  SandboxInv'
  OBVIOUS
<1>1. TypeOK'
  BY Bounds DEF TypeOK, SandboxInv, Write, Below, sorted
<1>2. Processes'
  BY DEF Processes, Alive, SandboxInv, Write, Below
<1>3. Counted'
  BY DEF TypeOK, Counted, Pipes, SandboxInv, Write, Below
<1>4. AtEnd'
  BY DEF AtEnd, SandboxInv, Write, Below
<1>5. PastLoop'
  <2>1. \A f \in Pipes : holders[f] = {} => pipe'[f] = pipe[f]
    BY DEF TypeOK, SandboxInv, Write, Below
  <2> QED
    BY <2>1 DEF TypeOK, PastLoop, Doomed, SandboxInv, Write, Below, sorted
<1>6. Reasons'
  BY DEF Reasons, Doomed, Verdict, SandboxInv, Write, Below, sorted
<1> QED
  BY <1>1, <1>2, <1>3, <1>4, <1>5, <1>6 DEF SandboxInv

\* A process of the group closes its end of a pipe.
LEMMA CloseInv == SandboxInv /\ Close => SandboxInv'
<1> SUFFICES ASSUME SandboxInv, Close
             PROVE  SandboxInv'
  OBVIOUS
<1>1. TypeOK'
  BY DEF TypeOK, SandboxInv, Close, Below, sorted
<1>2. Processes'
  BY DEF Processes, Alive, SandboxInv, Close, Below
<1>3. Counted'
  BY DEF Counted, SandboxInv, Close, Below
<1>4. AtEnd'
  BY DEF AtEnd, SandboxInv, Close, Below
<1>5. PastLoop'
  <2>1. \A f \in Pipes : holders[f] = {} => holders'[f] = {}
    BY DEF TypeOK, SandboxInv, Close, Below
  <2> QED
    BY <2>1 DEF TypeOK, PastLoop, Doomed, SandboxInv, Close, Below, sorted
<1>6. Reasons'
  BY DEF Reasons, Doomed, Verdict, SandboxInv, Close, Below, sorted
<1> QED
  BY <1>1, <1>2, <1>3, <1>4, <1>5, <1>6 DEF SandboxInv

\* A process of the group ends.
LEMMA EndInv == SandboxInv /\ End => SandboxInv'
<1> SUFFICES ASSUME SandboxInv, End
             PROVE  SandboxInv'
  OBVIOUS
<1>1. TypeOK'
  <2>1. holders' \in [Pipes -> SUBSET {"child", "forked"}]
    BY DEF TypeOK, SandboxInv, End, Below, Without
  <2>2. /\ child' \in {"none", "setup", "running", "0", "1", "126", "signal"}
        /\ forked' \in {"none", "running", "gone"}
    BY DEF TypeOK, SandboxInv, End, Below
  <2> QED
    BY DEF TypeOK, SandboxInv, End, Below, Without, sorted
<1>2. Processes'
  BY DEF Processes, SandboxInv, End, Below, Without
<1>3. Counted'
  BY DEF Counted, SandboxInv, End, Below
<1>4. AtEnd'
  BY DEF AtEnd, SandboxInv, End, Below, Without
<1>5. PastLoop'
  <2>1. CASE child = "running"
    BY <2>1 DEF PastLoop, Doomed, SandboxInv, End, Below
  <2>2. CASE child # "running"
    <3>1. \A f \in Pipes : holders[f] = {} => holders'[f] = {}
      BY DEF End, Below, Without
    <3> QED
      BY <2>2, <3>1 DEF TypeOK, PastLoop, Doomed, SandboxInv, End, Below, sorted
  <2> QED
    BY <2>1, <2>2
<1>6. Reasons'
  BY DEF Reasons, Verdict, PastLoop, Doomed, SandboxInv, End, Below, sorted
<1> QED
  BY <1>1, <1>2, <1>3, <1>4, <1>5, <1>6 DEF SandboxInv

\* The deadline passes.
LEMMA DeadlineInv == SandboxInv /\ Deadline => SandboxInv'
<1> SUFFICES ASSUME SandboxInv, Deadline
             PROVE  SandboxInv'
  OBVIOUS
<1>1. TypeOK'
  BY DEF TypeOK, SandboxInv, Deadline, below, sorted
<1>2. Processes'
  BY DEF Processes, SandboxInv, Deadline, below
<1>3. Counted'
  BY DEF Counted, SandboxInv, Deadline, below
<1>4. AtEnd'
  BY DEF AtEnd, SandboxInv, Deadline, below
<1>5. PastLoop'
  BY DEF PastLoop, Doomed, SandboxInv, Deadline, below, sorted
<1>6. Reasons'
  BY DEF Reasons, Doomed, Verdict, SandboxInv, Deadline, below, sorted
<1> QED
  BY <1>1, <1>2, <1>3, <1>4, <1>5, <1>6 DEF SandboxInv

\* fork() succeeds.
LEMMA SpawnInv == SandboxInv /\ Spawn => SandboxInv'
<1> SUFFICES ASSUME SandboxInv, Spawn
             PROVE  SandboxInv'
  OBVIOUS
<1>1. TypeOK'
  BY DEF TypeOK, SandboxInv, Spawn, sorted
<1>2. Processes'
  BY DEF Processes, SandboxInv, Spawn
<1>3. Counted'
  BY DEF Counted, SandboxInv, Spawn
<1>4. AtEnd'
  BY DEF AtEnd, Processes, SandboxInv, Spawn
<1>5. PastLoop'
  BY DEF PastLoop, Doomed, Spawn
<1>6. Reasons'
  BY DEF Reasons, Doomed, SandboxInv, Spawn, sorted
<1> QED
  BY <1>1, <1>2, <1>3, <1>4, <1>5, <1>6 DEF SandboxInv

\* pipe() or fork() fails.
LEMMA SpawnFailsInv == SandboxInv /\ SpawnFails => SandboxInv'
<1> SUFFICES ASSUME SandboxInv, SpawnFails
             PROVE  SandboxInv'
  OBVIOUS
<1>1. TypeOK'
  BY DEF TypeOK, Outcomes, SandboxInv, SpawnFails, below
<1>2. Processes'
  BY DEF Processes, SandboxInv, SpawnFails, below
<1>3. Counted'
  BY DEF Counted, SandboxInv, SpawnFails, below
<1>4. AtEnd'
  BY DEF AtEnd, Processes, SandboxInv, SpawnFails
<1>5. PastLoop'
  BY DEF PastLoop, Doomed, Processes, SandboxInv, SpawnFails, below
<1>6. Reasons'
  BY DEF Reasons, Doomed, Processes, SandboxInv, SpawnFails, below
<1> QED
  BY <1>1, <1>2, <1>3, <1>4, <1>5, <1>6 DEF SandboxInv

\* The loop finds the deadline passed, and kills the group.
LEMMA TimeOutInv == SandboxInv /\ TimeOut => SandboxInv'
<1> SUFFICES ASSUME SandboxInv, TimeOut
             PROVE  SandboxInv'
  OBVIOUS
<1>1. TypeOK'
  BY DEF TypeOK, SandboxInv, TimeOut, below
<1>2. Processes'
  BY DEF Processes, SandboxInv, TimeOut, below
<1>3. Counted'
  BY DEF Counted, SandboxInv, TimeOut, below
<1>4. AtEnd'
  BY DEF AtEnd, SandboxInv, TimeOut, below
<1>5. PastLoop'
  BY DEF PastLoop, Doomed, TimeOut
<1>6. Reasons'
  BY DEF Reasons, Doomed, SandboxInv, TimeOut
<1> QED
  BY <1>1, <1>2, <1>3, <1>4, <1>5, <1>6 DEF SandboxInv

\* waitpid(WNOHANG) once both pipes are at their end.
LEMMA ReapInv == SandboxInv /\ Reap => SandboxInv'
<1> SUFFICES ASSUME SandboxInv, Reap
             PROVE  SandboxInv'
  OBVIOUS
<1>1. TypeOK'
  BY DEF TypeOK, SandboxInv, Reap, below
<1>2. Processes'
  BY DEF Processes, SandboxInv, Reap, below
<1>3. Counted'
  BY DEF Counted, SandboxInv, Reap, below
<1>4. AtEnd'
  BY DEF AtEnd, SandboxInv, Reap, below
<1>5. PastLoop'
  BY DEF TypeOK, PastLoop, Doomed, AtEnd, Alive, Nowhere, Reasons, SandboxInv, Reap,
     below
<1>6. Reasons'
  BY DEF Reasons, Doomed, SandboxInv, Reap
<1> QED
  BY <1>1, <1>2, <1>3, <1>4, <1>5, <1>6 DEF SandboxInv

\* poll() returns.
LEMMA PollInv == SandboxInv /\ Poll => SandboxInv'
<1> SUFFICES ASSUME SandboxInv, Poll
             PROVE  SandboxInv'
  OBVIOUS
<1>1. TypeOK'
  BY DEF TypeOK, SandboxInv, Poll, below, sorted
<1>2. Processes'
  BY DEF Processes, SandboxInv, Poll, below
<1>3. Counted'
  BY DEF Counted, SandboxInv, Poll, below
<1>4. AtEnd'
  BY DEF AtEnd, SandboxInv, Poll, below
<1>5. PastLoop'
  BY DEF PastLoop, Doomed, Poll
<1>6. Reasons'
  BY DEF Reasons, Doomed, SandboxInv, Poll, sorted
<1> QED
  BY <1>1, <1>2, <1>3, <1>4, <1>5, <1>6 DEF SandboxInv

\* waitpid() or poll() fails.
LEMMA GiveUpInv == SandboxInv /\ GiveUp => SandboxInv'
<1> SUFFICES ASSUME SandboxInv, GiveUp
             PROVE  SandboxInv'
  OBVIOUS
<1>1. TypeOK'
  BY DEF TypeOK, SandboxInv, GiveUp, below
<1>2. Processes'
  BY DEF Processes, SandboxInv, GiveUp, below
<1>3. Counted'
  BY DEF Counted, SandboxInv, GiveUp, below
<1>4. AtEnd'
  BY DEF AtEnd, SandboxInv, GiveUp, below
<1>5. PastLoop'
  BY DEF PastLoop, Doomed, GiveUp
<1>6. Reasons'
  BY DEF Reasons, Doomed, SandboxInv, GiveUp
<1> QED
  BY <1>1, <1>2, <1>3, <1>4, <1>5, <1>6 DEF SandboxInv

\* drain() reads what there is, up to the buffer.
LEMMA ReadInv == SandboxInv /\ Read => SandboxInv'
<1> SUFFICES ASSUME SandboxInv, Read
             PROVE  SandboxInv'
  OBVIOUS
<1>1. TypeOK'
  BY Bounds DEF TypeOK, Appended, SandboxInv, Read, below, sorted
<1>2. Processes'
  BY DEF TypeOK, Processes, Zero, SandboxInv, Read, below
<1>3. Counted'
  <2>1. PICK f \in todo : \E n \in 1 .. pipe[f] :
           /\ pipe' = [pipe EXCEPT ![f] = @ - n]
           /\ kept' = [kept EXCEPT ![f] = @ + Appended(n, Cap - kept[f])]
           /\ truncated' = (truncated \/ n > Cap - kept[f])
    BY DEF Read
  <2>a. PICK n \in 1 .. pipe[f] :
           /\ pipe' = [pipe EXCEPT ![f] = @ - n]
           /\ kept' = [kept EXCEPT ![f] = @ + Appended(n, Cap - kept[f])]
           /\ truncated' = (truncated \/ n > Cap - kept[f])
    BY <2>1
  <2> DEFINE gone == written[f] - pipe[f]
  <2>2. f \in Pipes
    BY DEF TypeOK, SandboxInv
  <2>3. pipe[f] \in Nat /\ written[f] \in Nat /\ n \in Nat /\ n # 0
    BY DEF TypeOK, SandboxInv
  <2>4. kept[f] = Appended(gone, Cap) /\ gone \in Nat
    BY <2>2, <2>3 DEF Counted, SandboxInv
  <2>5. \A g \in Pipes : /\ g # f => pipe'[g] = pipe[g] /\ kept'[g] = kept[g]
                          /\ written'[g] = written[g]
    BY <2>a DEF Read, below
  <2>6. pipe'[f] = pipe[f] - n
        /\ kept'[f] = kept[f] + Appended(n, Cap - kept[f])
    BY <2>a DEF TypeOK, SandboxInv
  <2>7. written[f] - pipe'[f] = gone + n
    BY <2>3, <2>6
  <2>8. kept'[f] = Appended(gone + n, Cap)
    BY <2>4, <2>6, Bounds DEF Appended
  <2>9. n > Cap - kept[f] <=> gone + n > Cap
    BY <2>4, Bounds DEF Appended
  <2> HIDE DEF gone
  <2>10. \A g \in Pipes : pipe'[g] <= written'[g]
    BY <2>3, <2>5 DEF Counted, SandboxInv, Read, below
  <2>11. \A g \in Pipes : kept'[g] = Appended(written'[g] - pipe'[g], Cap)
    BY <2>5, <2>7, <2>8 DEF Counted, SandboxInv, Read, below
  <2>12. truncated' <=> \E g \in Pipes : written'[g] - pipe'[g] > Cap
    <3>1. gone > Cap => gone + n > Cap
      BY <2>4, Bounds
    <3> QED
      BY <3>1, <2>a, <2>2, <2>5, <2>7, <2>9 DEF Counted, gone, SandboxInv, Read,
         below
  <2> QED
    BY <2>10, <2>11, <2>12 DEF Counted
<1>4. AtEnd'
  BY DEF AtEnd, SandboxInv, Read, below
<1>5. PastLoop'
  BY DEF PastLoop, Doomed, SandboxInv, Read, below, sorted
<1>6. Reasons'
  BY DEF Reasons, Doomed, SandboxInv, Read, below, sorted
<1> QED
  BY <1>1, <1>2, <1>3, <1>4, <1>5, <1>6 DEF SandboxInv

\* drain() finds nothing, or the end.
LEMMA ReadNothingInv == SandboxInv /\ ReadNothing => SandboxInv'
<1> SUFFICES ASSUME SandboxInv, ReadNothing
             PROVE  SandboxInv'
  OBVIOUS
<1>1. TypeOK'
  BY DEF TypeOK, SandboxInv, ReadNothing, below, sorted
<1>2. Processes'
  BY DEF Processes, SandboxInv, ReadNothing, below
<1>3. Counted'
  BY DEF Counted, SandboxInv, ReadNothing, below
<1>4. AtEnd'
  BY DEF AtEnd, SandboxInv, ReadNothing, below
<1>5. PastLoop'
  BY DEF PastLoop, Doomed, SandboxInv, ReadNothing, below, sorted
<1>6. Reasons'
  BY DEF Reasons, Doomed, SandboxInv, ReadNothing, below, sorted
<1> QED
  BY <1>1, <1>2, <1>3, <1>4, <1>5, <1>6 DEF SandboxInv

\* The loop goes round, or ends.
LEMMA TurnInv == SandboxInv /\ Turn => SandboxInv'
<1> SUFFICES ASSUME SandboxInv, Turn
             PROVE  SandboxInv'
  OBVIOUS
<1>1. TypeOK'
  BY DEF TypeOK, SandboxInv, Turn, below
<1>2. Processes'
  BY DEF Processes, SandboxInv, Turn, below
<1>3. Counted'
  BY DEF Counted, SandboxInv, Turn, below
<1>4. AtEnd'
  BY DEF AtEnd, SandboxInv, Turn, below
<1>5. PastLoop'
  BY DEF PastLoop, Doomed, Turn
<1>6. Reasons'
  BY DEF Reasons, Doomed, SandboxInv, Turn
<1> QED
  BY <1>1, <1>2, <1>3, <1>4, <1>5, <1>6 DEF SandboxInv

\* The whole group is killed, and the child waited for.
LEMMA KillInv == SandboxInv /\ Kill => SandboxInv'
<1> SUFFICES ASSUME SandboxInv, Kill
             PROVE  SandboxInv'
  OBVIOUS
<1>1. TypeOK'
  BY DEF TypeOK, Nowhere, SandboxInv, Kill, LastDrain
<1>2. Processes'
  BY DEF Processes, Alive, Nowhere, SandboxInv, Kill
<1>3. Counted'
  BY DEF Counted, SandboxInv, Kill
<1>4. AtEnd'
  BY DEF AtEnd, Nowhere, SandboxInv, Kill
<1>5. PastLoop'
  <2>1. Doomed /\ Doomed'
    BY DEF Reasons, Doomed, SandboxInv, Kill
  <2>2. child' \notin {"setup", "running"}
    BY DEF Alive, Kill
  <2>3. /\ \A f \in open' : left' \/ holders'[f] = {}
        /\ left' \/ forked' # "running"
        /\ open' \ todo' = {}
    BY DEF TypeOK, SandboxInv, Kill, LastDrain
  <2> QED
    BY <2>1, <2>2, <2>3 DEF PastLoop, Kill
<1>6. Reasons'
  BY DEF Reasons, Doomed, SandboxInv, Kill
<1> QED
  BY <1>1, <1>2, <1>3, <1>4, <1>5, <1>6 DEF SandboxInv

\* The outcome is made of the status.
LEMMA ClassifyInv == SandboxInv /\ Classify => SandboxInv'
<1> SUFFICES ASSUME SandboxInv, Classify
             PROVE  SandboxInv'
  OBVIOUS
<1>1. TypeOK'
  BY DEF TypeOK, Outcomes, Verdict, SandboxInv, Classify, below
<1>2. Processes'
  BY DEF Processes, SandboxInv, Classify, below
<1>3. Counted'
  BY DEF Counted, SandboxInv, Classify, below
<1>4. AtEnd'
  BY DEF AtEnd, SandboxInv, Classify, below
<1>5. PastLoop'
  BY DEF PastLoop, Doomed, SandboxInv, Classify, below
<1>6. Reasons'
  BY DEF Reasons, Doomed, Processes, Verdict, SandboxInv, Classify, below
<1> QED
  BY <1>1, <1>2, <1>3, <1>4, <1>5, <1>6 DEF SandboxInv

\* Between two systems calls, and when nothing happens at all.
LEMMA SandboxKept == SandboxInv /\ UNCHANGED vars => SandboxInv'
BY DEF SandboxInv, TypeOK, Processes, Counted, AtEnd, PastLoop, Reasons,
   Doomed, Verdict, vars, below, sorted

\* Every step of the parent, of a process below it or of the clock.
LEMMA SandboxStep == SandboxInv /\ Next => SandboxInv'
BY ChildFailsInv, ExecInv, ForkInv, LeaveInv, WriteInv, CloseInv, EndInv, DeadlineInv,
   SpawnInv, SpawnFailsInv, TimeOutInv, ReapInv, PollInv, GiveUpInv, ReadInv,
   ReadNothingInv, TurnInv, KillInv, ClassifyInv DEF Next, Parent

\* What a run that ended has left alive.
LEMMA GroupGone == SandboxInv => KillReachesTheGroup
<1> SUFFICES ASSUME SandboxInv, pc = "done", outcome # "SpawnFailed"
             PROVE  /\ "child" \notin Alive
                    /\ "forked" \in Alive /\ ~left => ~Doomed /\ holders = Nowhere
  BY DEF KillReachesTheGroup, Doomed
<1>1. child # "none"
  BY DEF SandboxInv, Reasons
<1>2. "child" \notin Alive
  BY <1>1 DEF SandboxInv, PastLoop, Alive
<1>3. ASSUME "forked" \in Alive, ~left
      PROVE  ~Doomed /\ holders = Nowhere
  <2>1. ~Doomed
    BY <1>1, <1>3 DEF SandboxInv, PastLoop, Alive
  <2>2. \A f \in Pipes : holders[f] = {}
    BY <1>1, <2>1 DEF SandboxInv, PastLoop, AtEnd
  <2>3. holders \in [Pipes -> SUBSET {"child", "forked"}]
    BY DEF SandboxInv, TypeOK
  <2> QED
    BY <2>1, <2>2, <2>3 DEF Nowhere
<1> QED
  BY <1>2, <1>3

\* The invariant has it that a kill is not taken for a crash.
LEMMA KillKnown == SandboxInv => KillIsNotACrash
BY DEF SandboxInv, Reasons, Doomed, Verdict, KillIsNotACrash

\* The invariant has it that no output is dropped.
LEMMA AllKept == SandboxInv => NothingDropped
<1> SUFFICES ASSUME SandboxInv, pc = "done"
             PROVE  /\ \A f \in Pipes : ReadToItsEnd(f) =>
                         /\ kept[f] = Appended(written[f], Cap)
                         /\ written[f] > Cap => truncated
                    /\ truncated => \E f \in Pipes : written[f] > Cap
  BY DEF NothingDropped, Appended
<1>1. ASSUME NEW f \in Pipes, ReadToItsEnd(f)
      PROVE  pipe[f] = 0
  <2>1. CASE child = "none"
    BY <2>1 DEF SandboxInv, Processes, Zero
  <2>2. CASE child # "none" /\ f \in open
    BY <1>1, <2>2 DEF SandboxInv, PastLoop, ReadToItsEnd
  <2>3. CASE f \notin open
    BY <2>3 DEF SandboxInv, AtEnd
  <2> QED
    BY <2>1, <2>2, <2>3
<1>2. \A f \in Pipes : written[f] \in Nat /\ pipe[f] \in Nat /\ Cap \in Nat
  BY Bounds DEF SandboxInv, TypeOK
<1>3. ASSUME NEW f \in Pipes, ReadToItsEnd(f)
      PROVE  /\ kept[f] = Appended(written[f], Cap)
             /\ written[f] > Cap => truncated
  <2>1. written[f] - pipe[f] = written[f]
    BY <1>1, <1>2, <1>3
  <2> QED
    BY <2>1 DEF SandboxInv, Counted
<1>4. ASSUME truncated
      PROVE  \E f \in Pipes : written[f] > Cap
  <2>1. PICK f \in Pipes : written[f] - pipe[f] > Cap
    BY <1>4 DEF SandboxInv, Counted
  <2>2. written[f] > Cap
    BY <1>2, <2>1
  <2> QED
    BY <2>2
<1> QED
  BY <1>3, <1>4

-------------------------------------------------------------------------------
\* The matrix is a list.
LEMMA MatrixIsList == jobs \in {Matrix(c) : c \in Catalogues} =>
                        Len(jobs) \in Nat /\ (jobs = <<>> <=> Len(jobs) = 0)
<1> SUFFICES ASSUME NEW c \in Catalogues, jobs = Matrix(c)
             PROVE  Len(jobs) \in Nat /\ (jobs = <<>> <=> Len(jobs) = 0)
  OBVIOUS
<1> DEFINE n == Len(c) * Len(Modes) * Len(Seeds)
<1>1. n \in Nat
  <2>1. Len(c) \in Nat /\ Len(Modes) \in Nat /\ Len(Seeds) \in Nat
    BY MatrixAssumption
  <2>2. \A a, b \in Nat : a * b \in Nat
    OBVIOUS
  <2> QED
    OBVIOUS
<1>2. PICK job : jobs = [j \in 1 .. n |-> job[j]]
  <2>1. PICK job : jobs = job /\ job = [j \in 1 .. n |-> job[j]]
    BY DEF Matrix
  <2> QED
    BY <2>1
<1> HIDE DEF n
<1>3. Len(jobs) = n
  BY <1>1, <1>2
<1>4. jobs = <<>> <=> n = 0
  BY <1>1, <1>3
<1> QED
  OBVIOUS

\* Weights, scores and what a report is taken for.
LEMMA WeightsAreNat == \A job : WeightFor(job) \in Nat
<1>1. \A a, b \in Nat : a * b \in Nat
  OBVIOUS
<1>2. \A key : LookupWeight(RocketWeight, key) \in Nat /\ LookupWeight(ModeWeight, key) \in Nat
  BY WeightsAssumption DEF LookupWeight
<1> QED
  BY <1>2 DEF WeightFor

-------------------------------------------------------------------------------
\* The sum of the weights of some jobs, as the fold of the library takes it.
Sum(list, J) == MapThenSumSet(LAMBDA j : WeightFor(list[j]), J)
Pick(s) == CHOOSE x \in s : TRUE
\* What a sum over s adds to a sum over the rest.
SumsTo(list, g, s) ==
  g[s] = IF s = {} THEN 0 ELSE WeightFor(list[Pick(s)]) + g[s \ {Pick(s)}]

SumOver(list, J, g) == /\ g \in [SUBSET J -> Nat]
                       /\ \A s \in SUBSET J : SumsTo(list, g, s)

\* A set without one of its members has fewer.
LEMMA Smaller ==
  ASSUME NEW s, IsFiniteSet(s), NEW x \in s
  PROVE  /\ IsFiniteSet(s \ {x}) /\ Cardinality(s \ {x}) = Cardinality(s) - 1
         /\ Cardinality(s) \in Nat /\ Cardinality(s \ {x}) \in Nat
BY FS_RemoveElement, FS_CardinalityType

\* The sum a set's subsets are given, in whatever order they are taken apart.
LEMMA SumExists ==
  ASSUME NEW list, NEW J, IsFiniteSet(J)
  PROVE  \E g \in [SUBSET J -> Nat] : \A s \in SUBSET J : SumsTo(list, g, s)
<1> DEFINE UpTo(g, k) ==
             \A s \in SUBSET J : Cardinality(s) <= k => SumsTo(list, g, s)
           T == {k \in Nat : ~ \E g \in [SUBSET J -> Nat] : UpTo(g, k)}
<1>1. \A s \in SUBSET J : IsFiniteSet(s) /\ Cardinality(s) \in Nat /\ Cardinality(s) <= Cardinality(J)
  BY FS_Subset, FS_CardinalityType
<1>2. \A s \in SUBSET J : s # {} =>
        /\ Pick(s) \in s /\ s \ {Pick(s)} \in SUBSET J
                                    /\ Cardinality(s \ {Pick(s)}) = Cardinality(s) - 1
  BY <1>1, Smaller DEF Pick
<1>3. T = {}
  <2> SUFFICES ASSUME T # {}
               PROVE  FALSE
    OBVIOUS
  <2>1. PICK k \in T : \A m \in T : k <= m
    BY Least
  <2>2. k # 0
    <3> DEFINE none == [s \in SUBSET J |-> 0]
    <3>1. \A s \in SUBSET J : Cardinality(s) <= 0 => s = {}
      BY <1>1, FS_EmptySet
    <3>2. UpTo(none, 0) /\ none \in [SUBSET J -> Nat]
      BY <3>1 DEF SumsTo
    <3> QED
      BY <3>2
  <2>3. PICK g \in [SUBSET J -> Nat] : UpTo(g, k - 1)
    <3>1. k \in Nat /\ k - 1 \in Nat /\ ~(k <= k - 1)
      BY <2>2
    <3>2. k - 1 \notin T
      BY <2>1, <3>1
    <3> QED
      BY <3>1, <3>2
  <2> DEFINE h == [s \in SUBSET J |-> IF Cardinality(s) <= k - 1 THEN g[s]
                     ELSE WeightFor(list[Pick(s)]) + g[s \ {Pick(s)}]]
  <2>4. h \in [SUBSET J -> Nat]
    <3>1. ASSUME NEW s \in SUBSET J PROVE h[s] \in Nat
      <4>1. CASE Cardinality(s) <= k - 1
        BY <4>1
      <4>2. CASE ~(Cardinality(s) <= k - 1)
        <5>1. WeightFor(list[Pick(s)]) \in Nat
          BY WeightsAreNat
        <5>2. g[s \ {Pick(s)}] \in Nat
          OBVIOUS
        <5> QED
          BY <5>1
      <4> QED
        BY <4>2
    <3> QED
      BY <3>1
  <2>5. ASSUME NEW s \in SUBSET J, Cardinality(s) <= k
        PROVE  SumsTo(list, h, s)
    <3>1. CASE s = {}
      <4>1. Cardinality(s) <= k - 1
        BY <3>1, <2>2, FS_EmptySet
      <4> QED
        BY <2>3, <3>1, <4>1 DEF SumsTo
    <3>2. CASE s # {}
      <4>1. h[s \ {Pick(s)}] = g[s \ {Pick(s)}]
        BY <1>1, <1>2, <2>5, <3>2
      <4>2. h[s] = WeightFor(list[Pick(s)]) + g[s \ {Pick(s)}]
        BY <2>3, <3>2 DEF SumsTo
      <4> QED
        BY <3>2, <4>1, <4>2 DEF SumsTo
    <3> QED
      BY <3>1, <3>2
  <2>6. UpTo(h, k)
    BY <2>5
  <2> QED
    BY <2>4, <2>6
<1>4. Cardinality(J) \in Nat
  BY <1>1
<1>5. PICK g \in [SUBSET J -> Nat] : UpTo(g, Cardinality(J))
  BY <1>3, <1>4
<1> QED
  BY <1>1, <1>5

\* It is the same for every order, and for every set it is taken from.
LEMMA SumUnique ==
  ASSUME NEW list, NEW K, NEW J \in SUBSET K, IsFiniteSet(J),
         NEW g, SumOver(list, J, g), NEW h, SumOver(list, K, h)
  PROVE  g[J] = h[J] /\ \A y \in J : h[J] = WeightFor(list[y]) + h[J \ {y}]
<1> DEFINE Same(s) == /\ g[s] = h[s]
                      /\ \A y \in s : h[s] = WeightFor(list[y]) + h[s \ {y}]
           T == {Cardinality(s) : s \in {t \in SUBSET J : ~Same(t)}}
<1>1. \A s \in SUBSET J : IsFiniteSet(s) /\ Cardinality(s) \in Nat
  BY FS_Subset, FS_CardinalityType
<1> SUFFICES ASSUME T # {}
             PROVE  FALSE
  BY DEF SumOver
<1>2. PICK k \in T : \A m \in T : k <= m
  <2>1. T \in SUBSET Nat
    BY <1>1
  <2> QED
    BY <2>1, Least
<1>3. PICK s \in SUBSET J : k = Cardinality(s) /\ ~Same(s)
  OBVIOUS
<1>4. \A x \in s : Same(s \ {x})
  <2> SUFFICES ASSUME NEW x \in s, ~Same(s \ {x})
               PROVE  FALSE
    BY DEF SumOver
  <2>1. Cardinality(s \ {x}) \in T /\ s \ {x} \in SUBSET J
    BY DEF SumOver
  <2>2. Cardinality(s \ {x}) < Cardinality(s)
    BY <1>1, Smaller
  <2>3. k <= Cardinality(s \ {x})
    BY <1>2, <2>1
  <2>4. Cardinality(s \ {x}) \in Nat /\ Cardinality(s) \in Nat
    BY <1>1
  <2> QED
    BY <1>3, <2>2, <2>3, <2>4
<1>5. \A x : WeightFor(list[x]) \in Nat
  BY WeightsAreNat
<1>6. s # {}
  BY <1>3 DEF SumsTo, SumOver
<1> DEFINE x == Pick(s)
<1>7. x \in s
  BY <1>6 DEF Pick
<1>8. g[s] = WeightFor(list[x]) + g[s \ {x}]
      /\ h[s] = WeightFor(list[x]) + h[s \ {x}]
  BY <1>6 DEF SumsTo, SumOver
<1> HIDE DEF x
<1>9. g[s] = h[s]
  BY <1>4, <1>7, <1>8
<1>10. ASSUME NEW y \in s PROVE h[s] = WeightFor(list[y]) + h[s \ {y}]
  <2>1. CASE y = x
    BY <1>8, <2>1
  <2>2. CASE y # x
    <3>1. h[s \ {x}] = WeightFor(list[y]) + h[(s \ {x}) \ {y}]
      BY <1>4, <1>7, <2>2
    <3>2. h[s \ {y}] = WeightFor(list[x]) + h[(s \ {y}) \ {x}]
      BY <1>4, <1>7, <2>2
    <3>3. (s \ {x}) \ {y} = (s \ {y}) \ {x} /\ (s \ {y}) \ {x} \in SUBSET K
      BY DEF SumOver
    <3>4. h[(s \ {y}) \ {x}] \in Nat
      BY DEF SumOver
    <3> DEFINE rest == h[(s \ {y}) \ {x}]
    <3>5. h[s] = WeightFor(list[x]) + (WeightFor(list[y]) + rest)
      BY <1>8, <3>1
    <3>6. rest \in Nat /\ WeightFor(list[x]) \in Nat
          /\ WeightFor(list[y]) \in Nat
      BY <1>5 DEF SumOver
    <3>7. h[s \ {y}] = WeightFor(list[x]) + rest
      BY <3>2
    <3> HIDE DEF rest
    <3> QED
      BY <3>5, <3>6, <3>7
  <2> QED
    BY <2>1, <2>2
<1> QED
  BY <1>3, <1>9, <1>10

\* The library's fold over a finite set is that sum.
LEMMA SumIs ==
  ASSUME NEW list, NEW J, IsFiniteSet(J)
  PROVE  \E g : SumOver(list, J, g) /\ Sum(list, J) = g[J]
<1> DEFINE Body(g) == [s \in SUBSET J |->
                         IF s = {} THEN 0 ELSE WeightFor(list[Pick(s)]) + g[s \ {Pick(s)}]]
<1>1. Sum(list, J) = (CHOOSE g : g = Body(g))[J]
  BY DEF Sum, MapThenSumSet, MapThenFoldSet, Pick
<1>2. PICK h \in [SUBSET J -> Nat] : \A s \in SUBSET J : SumsTo(list, h, s)
  BY SumExists
<1>3. h = Body(h)
  BY <1>2 DEF SumsTo
<1> DEFINE g == CHOOSE f : f = Body(f)
<1>4. g = Body(g)
  BY <1>3
<1> HIDE DEF g
<1>5. \A s \in SUBSET J : SumsTo(list, g, s)
  BY <1>4 DEF SumsTo
<1> DEFINE T == {Cardinality(s) : s \in {t \in SUBSET J : g[t] \notin Nat}}
<1>6. T = {}
  <2>1. \A s \in SUBSET J : IsFiniteSet(s) /\ Cardinality(s) \in Nat
    BY FS_Subset, FS_CardinalityType
  <2> SUFFICES ASSUME T # {}
               PROVE  FALSE
    OBVIOUS
  <2>2. PICK k \in T : \A m \in T : k <= m
    <3>1. T \in SUBSET Nat
      BY <2>1
    <3> QED
      BY <3>1, Least
  <2>3. PICK s \in SUBSET J : k = Cardinality(s) /\ g[s] \notin Nat
    BY <2>2
  <2>4. s # {}
    <3>1. g[{}] = 0
      BY <1>5 DEF SumsTo
    <3>2. s = {} => g[s] = 0
      BY <3>1
    <3> QED
      BY <2>3, <3>2
  <2>5. Pick(s) \in s
    BY <2>4 DEF Pick
  <2>6. Cardinality(s \ {Pick(s)}) < k /\ s \ {Pick(s)} \in SUBSET J
    BY <2>1, <2>3, <2>5, Smaller
  <2>7. g[s \ {Pick(s)}] \in Nat
    BY <2>1, <2>2, <2>6
  <2>8. WeightFor(list[Pick(s)]) \in Nat
    BY WeightsAreNat
  <2>9. g[s] = WeightFor(list[Pick(s)]) + g[s \ {Pick(s)}]
    BY <1>5, <2>4 DEF SumsTo
  <2>10. g[s] \in Nat
    BY <2>7, <2>8, <2>9
  <2> QED
    BY <2>3, <2>10
<1>7. g \in [SUBSET J -> Nat]
  BY <1>4, <1>6
<1> QED
  BY <1>1, <1>5, <1>7 DEF g, SumOver

\* A sum over a set, one job more.
LEMMA SumOfOneMore ==
  ASSUME NEW list, NEW J, IsFiniteSet(J), NEW y, y \notin J
  PROVE  /\ Sum(list, J) \in Nat
         /\ Sum(list, J \cup {y}) = Sum(list, J) + WeightFor(list[y])
<1>1. IsFiniteSet(J \cup {y})
  BY FS_AddElement
<1> DEFINE K == J \cup {y}
<1>a. J \in SUBSET K /\ y \in K /\ K \ {y} = J /\ IsFiniteSet(K)
  BY <1>1
<1> HIDE DEF K
<1>2. PICK g : SumOver(list, J, g) /\ Sum(list, J) = g[J]
  BY SumIs
<1>3. PICK h : SumOver(list, K, h) /\ Sum(list, K) = h[K]
  BY <1>a, SumIs
<1>4. g[J] = h[J]
  BY <1>a, <1>2, <1>3, SumUnique
<1>5. h[K] = WeightFor(list[y]) + h[K \ {y}]
  <2>1. K \in SUBSET K
    OBVIOUS
  <2> QED
    BY <1>a, <1>3, SumUnique
<1>7. WeightFor(list[y]) \in Nat /\ g[J] \in Nat
  BY <1>2, WeightsAreNat DEF SumOver
<1>8. Sum(list, K) = Sum(list, J) + WeightFor(list[y]) /\ Sum(list, J) \in Nat
  <2>1. Sum(list, K) = WeightFor(list[y]) + g[J]
    BY <1>a, <1>3, <1>4, <1>5
  <2> QED
    BY <1>2, <1>7, <2>1
<1> QED
  BY <1>8 DEF K

\* Of the empty set it is 0.
LEMMA SumOfNone == \A list : Sum(list, {}) = 0
<1> SUFFICES ASSUME NEW list
             PROVE  Sum(list, {}) = 0
  OBVIOUS
<1>1. IsFiniteSet({})
  BY FS_EmptySet
<1>2. PICK g : SumOver(list, {}, g) /\ Sum(list, {}) = g[{}]
  BY <1>1, SumIs
<1> QED
  BY <1>2 DEF SumOver, SumsTo

\* The weight of a set of jobs is a sum over the list of jobs.
LEMMA WeightOfIs == /\ \A J : WeightOf(J) = Sum(jobs, J)
                    /\ (\A J : WeightOf(J) = Sum(jobs, J))'
BY DEF WeightOf, Sum

-------------------------------------------------------------------------------
\* What the runner reports is judged as one of the runs there can be.
LEMMA JudgedIs == \A report : Judged(report) \in Runs
BY DEF Judged, Runs

\* With the runs and the sums as they were, the loop over or as it was.
LEMMA TotalsKept ==
  /\ Totals /\ UNCHANGED <<jobs, runs, weightedTotal, weightSum>>
  /\ phase = "thrown" => phase' = "thrown"
  /\ phase = "matrix" /\ phase' \notin {"matrix", "thrown"} =>
       Len(runs) = Len(jobs)
  => Totals'
<1> SUFFICES ASSUME Totals, UNCHANGED <<jobs, runs, weightedTotal, weightSum>>,
                    phase = "thrown" => phase' = "thrown",
                    phase = "matrix" /\ phase' \notin {"matrix", "thrown"} =>
                      Len(runs) = Len(jobs)
             PROVE  Totals'
  OBVIOUS
<1>2. WeightOf(1 .. Len(runs))' = WeightOf(1 .. Len(runs))
  BY WeightOfIs
<1>3. WeightOf({j \in 1 .. Len(runs) : runs[j] = Failed})'
        = WeightOf({j \in 1 .. Len(runs) : runs[j] = Failed})
  BY WeightOfIs
<1> QED
  BY <1>2, <1>3 DEF Totals

\* The evaluation starts in the invariant.
LEMMA EvalStart == EvalInit => IInv
<1> SUFFICES ASSUME EvalInit
             PROVE  IInv
  OBVIOUS
<1>1. SandboxInv
  BY InitInv DEF EvalInit
<1>2. EvalTypeOK
  BY <1>1 DEF SandboxInv, EvalTypeOK, EvalInit
<1>3. Progress
  BY DEF Init, Progress, EvalInit
<1>4. InOrder
  BY DEF InOrder, EvalInit
<1>5. Totals
  <2>1. 1 .. Len(runs) = {} /\ {j \in 1 .. Len(runs) : runs[j] = Failed} = {}
    BY DEF EvalInit
  <2>2. WeightOf({}) = 0
    BY WeightOfIs, SumOfNone
  <2>3. Penalty * 0 = 0
    BY WeightsAssumption
  <2> QED
    BY <2>2, <2>3 DEF Totals, EvalInit
<1> QED
  BY <1>1, <1>2, <1>3, <1>4, <1>5 DEF IInv

\* runSandboxed changes nothing of the evaluation.
LEMMA SupervisedInv == IInv /\ Supervised(Next) => IInv'
<1> SUFFICES ASSUME IInv, Supervised(Next)
             PROVE  IInv'
  OBVIOUS
<1>1. SandboxInv'
  BY SandboxStep DEF IInv, Supervised
<1>2. EvalTypeOK'
  BY <1>1 DEF SandboxInv, EvalTypeOK, IInv, Supervised, evaluation, result
<1>3. Progress'
  BY DEF Progress, IInv, Supervised, evaluation, result
<1>4. InOrder'
  BY DEF InOrder, Reproduced, Counts, IInv, Supervised, evaluation, result
<1>5. Totals'
  BY TotalsKept DEF IInv, Supervised, evaluation, result
<1> QED
  BY <1>1, <1>2, <1>3, <1>4, <1>5 DEF IInv

\* The submission is invalid, and no run was made.
LEMMA InvalidInv == IInv /\ Invalid => IInv'
<1> SUFFICES ASSUME IInv, Invalid
             PROVE  IInv'
  OBVIOUS
<1>1. SandboxInv'
  BY SandboxKept DEF IInv, Invalid
<1>2. EvalTypeOK'
  BY <1>1 DEF SandboxInv, EvalTypeOK, IInv, Invalid
<1>3. Progress'
  BY DEF Progress, vars, IInv, Invalid
<1>4. InOrder'
  BY DEF InOrder, EvalTypeOK, IInv, Invalid
<1>5. Totals'
  <2>1. Len(runs) = Len(jobs)
    BY DEF EvalTypeOK, IInv, Invalid
  <2> QED
    BY <2>1, TotalsKept DEF IInv, Invalid
<1> QED
  BY <1>1, <1>2, <1>3, <1>4, <1>5 DEF IInv

\* One more run; the determinism check has not begun.
LEMMA RunJobInv == IInv /\ RunJob => IInv'
<1> SUFFICES ASSUME IInv, RunJob
             PROVE  IInv'
  OBVIOUS
<1>1. PICK report \in Reports :
         /\ runs' = Append(runs, Judged(report))
         /\ weightedTotal' = weightedTotal + WeightFor(jobs[at]) *
              (IF Judged(report) = Failed THEN Penalty ELSE Score[Judged(report)])
         /\ weightSum' = weightSum + WeightFor(jobs[at])
  BY DEF RunJob, Weighed
<1>2. /\ phase = "matrix" /\ pc = "done"
      /\ IF at < Len(jobs) THEN NextJob(at + 1) /\ UNCHANGED phase
                           ELSE NoMoreJobs /\ phase' = "scan"
      /\ UNCHANGED <<jobs, repeats, deterministic, status>>
  BY DEF RunJob
<1>3. /\ jobs # <<>> /\ at = Len(runs) + 1 /\ at <= Len(jobs)
      /\ repeats = {} /\ deterministic
  BY <1>2 DEF Progress, IInv
<1>4. /\ runs' \in Seq(Runs) /\ Len(runs') = Len(runs) + 1
      /\ Len(runs) \in Nat /\ Len(jobs) \in Nat
  BY <1>1, JudgedIs DEF EvalTypeOK, IInv
<1>5. SandboxInv'
  BY <1>2, CallInv, SandboxKept DEF NextJob, NoMoreJobs, IInv
<1>6. weightedTotal' \in Nat /\ weightSum' \in Nat
  <2>1. WeightFor(jobs[at]) \in Nat
    BY WeightsAreNat
  <2>2. (IF Judged(report) = Failed THEN Penalty ELSE Score[Judged(report)]) \in Nat
    BY JudgedIs, WeightsAssumption DEF Runs
  <2>3. \A a, b \in Nat : a * b \in Nat
    BY DEF IInv
  <2>4. weightedTotal \in Nat /\ weightSum \in Nat
    BY DEF EvalTypeOK, IInv
  <2>5. WeightFor(jobs[at]) * (IF Judged(report) = Failed THEN Penalty ELSE Score[Judged(report)]) \in Nat
    BY <2>1, <2>2
  <2> QED
    BY <1>1, <2>1, <2>4, <2>5 DEF IInv
<1>7. EvalTypeOK'
  <2>1. at' \in 1 .. Len(jobs) + 1
    BY <1>2, <1>3 DEF NextJob, NoMoreJobs
  <2>2. phase' \in {"matrix", "scan"}
    BY <1>2
  <2> QED
    BY <1>2, <1>3, <1>4, <1>5, <1>6, <2>1 DEF SandboxInv, EvalTypeOK, IInv
<1>8. Progress'
  BY <1>2, <1>3, <1>4 DEF Progress, NextJob
<1>9. InOrder'
  BY <1>2, <1>3 DEF InOrder, IInv
<1>10. Totals'
  <2> DEFINE n == Len(runs)
             run == Judged(report)
             w == WeightFor(jobs[at])
             lost == {j \in 1 .. n : runs[j] = Failed}
  <2>1. n \in Nat /\ at = n + 1 /\ Len(runs') = n + 1 /\ jobs' = jobs
    BY <1>2, <1>3, <1>4
  <2>2. /\ \A j \in 1 .. n : runs'[j] = runs[j]
        /\ runs'[n + 1] = run
    BY <1>1
  <2>3. /\ IsFiniteSet(1 .. n) /\ IsFiniteSet(lost)
        /\ n + 1 \notin 1 .. n /\ n + 1 \notin lost
    <3>1. IsFiniteSet(1 .. n)
      BY FS_Interval
    <3>2. IsFiniteSet(lost)
      BY <3>1, FS_Subset
    <3> QED
      BY <3>1, <3>2
  <2>4. 1 .. n + 1 = (1 .. n) \cup {n + 1}
    OBVIOUS
  <2>5. WeightOf(1 .. Len(runs))' = WeightOf(1 .. n) + w
    <3>1. WeightOf(1 .. Len(runs))' = Sum(jobs, (1 .. n) \cup {n + 1})
      BY <2>1, <2>4, WeightOfIs
    <3>2. Sum(jobs, (1 .. n) \cup {n + 1}) = Sum(jobs, 1 .. n) + WeightFor(jobs[n + 1])
      BY <2>3, SumOfOneMore
    <3> QED
      BY <2>1, <3>1, <3>2, WeightOfIs
  <2>6. weightSum' = WeightOf(1 .. Len(runs))'
    BY <1>1, <2>5 DEF Totals, IInv
  <2>7. w \in Nat /\ WeightOf(lost) \in Nat /\ Penalty \in Nat
        /\ weightedTotal \in Nat
    BY <2>3, WeightsAreNat, WeightOfIs, SumOfOneMore, WeightsAssumption DEF
       EvalTypeOK, IInv
  <2>8. \A a, b, c \in Nat : a * (b + c) = a * b + c * a /\ a * b \in Nat
    BY DEF IInv
  <2>9. weightedTotal >= Penalty * WeightOf(lost)
    BY DEF Totals, IInv
  <2>10. weightedTotal' >= Penalty * WeightOf({j \in 1 .. Len(runs) : runs[j] = Failed})'
    <3>1. CASE run = Failed
      <4>1. {j \in 1 .. Len(runs) : runs[j] = Failed}' = lost \cup {n + 1}
        BY <2>1, <2>2, <3>1
      <4>2. WeightOf({j \in 1 .. Len(runs) : runs[j] = Failed})' = WeightOf(lost) + w
        <5>1. WeightOf({j \in 1 .. Len(runs) : runs[j] = Failed})' = Sum(jobs, lost \cup {n + 1})
          BY <2>1, <4>1, WeightOfIs
        <5>2. Sum(jobs, lost \cup {n + 1}) = Sum(jobs, lost) + WeightFor(jobs[n + 1])
          BY <2>3, SumOfOneMore
        <5> QED
          BY <2>1, <5>1, <5>2, WeightOfIs
      <4>3. weightedTotal' = weightedTotal + w * Penalty
        BY <1>1, <3>1
      <4> HIDE DEF w, lost
      <4> QED
        BY <2>7, <2>9, <4>2, <4>3
    <3>2. CASE run # Failed
      <4>1. {j \in 1 .. Len(runs) : runs[j] = Failed}' = lost
        BY <2>1, <2>2, <3>2
      <4>2. WeightOf({j \in 1 .. Len(runs) : runs[j] = Failed})' = WeightOf(lost)
        BY <2>1, <4>1, WeightOfIs
      <4>3. weightedTotal' = weightedTotal + w * Score[run]
            /\ Score[run] \in Nat
        BY <1>1, <3>2, JudgedIs, WeightsAssumption DEF Runs
      <4>4. weightedTotal' >= weightedTotal
        BY <2>7, <4>3
      <4>5. weightedTotal' \in Nat /\ Penalty * WeightOf(lost) \in Nat
        BY <1>6, <2>7
      <4> QED
        BY <2>7, <2>9, <4>2, <4>4, <4>5
    <3> QED
      BY <3>1, <3>2
  <2>11. phase' \notin {"matrix", "thrown"} => Len(runs') = Len(jobs')
    BY <1>2, <1>3, <1>4
  <2> QED
    BY <2>6, <2>10, <2>11 DEF Totals
<1> QED
  BY <1>5, <1>7, <1>8, <1>9, <1>10 DEF IInv

\* The smallest of the runs still to come is next: those before it are done.
LEMMA ToRepeatIs ==
  ASSUME IInv, deterministic
  PROVE  /\ ToRepeat = {} => \A j \in 1 .. Len(runs) : Reproduced(j)
         /\ ToRepeat # {} => /\ Min(ToRepeat) \in 1 .. Len(runs)
                             /\ \A j \in 1 .. Min(ToRepeat) - 1 : Reproduced(j)
<1>1. Len(runs) \in Nat
  OBVIOUS
<1>2. ASSUME NEW j \in 1 .. Len(runs), j \notin ToRepeat
      PROVE  Reproduced(j)
  <2>1. SUFFICES ASSUME Counts(j)
                 PROVE  [job |-> j, run |-> runs[j]] \in repeats
    BY DEF Reproduced
  <2>2. PICK r \in repeats : ~(r.job < j)
    BY <1>2, <2>1 DEF ToRepeat, Counts
  <2>3. r.job \in Nat /\ j \in Nat
    BY DEF IInv, InOrder
  <2>4. j <= r.job
    BY <2>2, <2>3
  <2>5. Reproduced(j)
    BY <2>4 DEF IInv, InOrder
  <2> QED
    BY <2>1, <2>5 DEF Reproduced
<1>3. ASSUME ToRepeat # {}
      PROVE  /\ Min(ToRepeat) \in 1 .. Len(runs)
             /\ \A j \in 1 .. Min(ToRepeat) - 1 : Reproduced(j)
  <2>1. ToRepeat \in SUBSET Nat /\ ToRepeat \subseteq 1 .. Len(runs)
    BY DEF ToRepeat
  <2>2. Min(ToRepeat) \in ToRepeat /\ \A j \in ToRepeat : Min(ToRepeat) <= j
    BY <1>3, <2>1, MinIs
  <2>3. Min(ToRepeat) \in 1 .. Len(runs)
    BY <2>1, <2>2
  <2>4. ASSUME NEW j \in 1 .. Min(ToRepeat) - 1
        PROVE  Reproduced(j)
    <3>1. j \in 1 .. Len(runs) /\ ~(Min(ToRepeat) <= j)
      BY <2>3
    <3> QED
      BY <1>2, <2>2, <3>1
  <2> QED
    BY <2>3, <2>4
<1> QED
  BY <1>2, <1>3

\* The first run is repeated.
LEMMA RepeatInv == IInv /\ Repeat => IInv'
<1> SUFFICES ASSUME IInv, Repeat
             PROVE  IInv'
  OBVIOUS
<1>1. SandboxInv'
  BY CallInv, SandboxKept DEF NextJob, NoMoreJobs, IInv, Repeat
<1>2. Len(jobs) \in Nat /\ Len(runs) \in Nat /\ Len(runs) <= Len(jobs)
      /\ deterministic
  BY DEF EvalTypeOK, InOrder, IInv, Repeat
<1>5. Totals'
  BY TotalsKept DEF IInv, Repeat, result
<1>3. CASE ToRepeat = {}
  <2>1. EvalTypeOK'
    BY <1>1, <1>3 DEF NoMoreJobs, SandboxInv, EvalTypeOK, IInv, Repeat, result
  <2>2. Progress'
    BY <1>3 DEF Progress, IInv, Repeat
  <2>3. InOrder'
    BY <1>3, ToRepeatIs DEF InOrder, Reproduced, Counts, IInv, Repeat, result
  <2> QED
    BY <1>1, <1>5, <2>1, <2>2, <2>3 DEF IInv
<1>4. CASE ToRepeat # {}
  <2>1. /\ at' = Min(ToRepeat) /\ phase' = "repeat" /\ phase = "scan"
        /\ UNCHANGED <<jobs, runs, weightedTotal, weightSum, repeats,
                       deterministic, status>>
    BY <1>4 DEF NextJob, Repeat, result
  <2>2. at' \in 1 .. Len(runs) /\ \A j \in 1 .. at' - 1 : Reproduced(j)
    BY <1>2, <1>4, <2>1, ToRepeatIs
  <2>3. EvalTypeOK'
    BY <1>1, <2>2 DEF SandboxInv, EvalTypeOK, IInv, Repeat, result
  <2>4. Progress'
    BY <2>1, <2>2 DEF Progress, IInv
  <2>5. InOrder'
    BY <2>1, <2>2 DEF InOrder, Reproduced, Counts, IInv
  <2> QED
    BY <1>1, <1>5, <2>3, <2>4, <2>5 DEF IInv
<1> QED
  BY <1>3, <1>4

\* The repeated run is compared with the first.
LEMMA CheckRepeatInv == IInv /\ CheckRepeat => IInv'
<1> SUFFICES ASSUME IInv, CheckRepeat
             PROVE  IInv'
  OBVIOUS
<1>1. PICK report \in Reports :
         /\ repeats' = repeats \cup {[job |-> at, run |-> Judged(report)]}
         /\ IF Differs(runs[at], Judged(report))
            THEN deterministic' = FALSE /\ phase' = "verdict"
            ELSE UNCHANGED deterministic /\ phase' = "scan"
  BY DEF CheckRepeat
<1>2. /\ phase = "repeat" /\ pc = "done"
      /\ UNCHANGED <<vars, jobs, at, runs, weightedTotal, weightSum, status>>
  BY DEF CheckRepeat
<1>3. at \in 1 .. Len(runs) /\ Len(runs) \in Nat /\ Len(runs) <= Len(jobs)
      /\ Len(jobs) \in Nat
  BY <1>2 DEF Progress, EvalTypeOK, IInv
<1>4. SandboxInv'
  BY <1>2, SandboxKept DEF IInv
<1>5. EvalTypeOK'
  <2>1. repeats' \subseteq [job : 1 .. Len(jobs), run : Runs]
    BY <1>1, <1>3, JudgedIs DEF EvalTypeOK, IInv
  <2> QED
    BY <1>1, <1>2, <1>4, <2>1 DEF SandboxInv, EvalTypeOK, IInv
<1>6. Progress'
  BY <1>1, <1>2 DEF Progress, IInv
<1>7. InOrder'
  <2>1. \A r \in repeats' : r.job \in 1 .. Len(runs)
    BY <1>1, <1>3 DEF InOrder, IInv
  <2>2. deterministic /\ status # "ok" /\ \A j \in 1 .. at - 1 : Reproduced(j)
    BY <1>2 DEF InOrder, IInv
  <2>3. CASE Differs(runs[at], Judged(report))
    BY <1>1, <1>2, <2>1, <2>2, <2>3 DEF InOrder
  <2>4. CASE ~Differs(runs[at], Judged(report))
    <3>1. Judged(report) = runs[at] /\ phase' = "scan"
          /\ UNCHANGED deterministic
      BY <1>1, <2>4 DEF Differs
    <3>2. ASSUME NEW r \in repeats', NEW j \in 1 .. Len(runs), j <= r.job
          PROVE  Reproduced(j)'
      <4>1. Reproduced(j) => Reproduced(j)'
        BY <1>1, <1>2 DEF Reproduced, Counts
      <4>2. CASE r \in repeats
        BY <2>2, <3>2, <4>1, <4>2 DEF InOrder, IInv
      <4>3. CASE r.job = at
        <5>1. j \in 1 .. at - 1 \/ j = at
          BY <1>3, <3>2, <4>3
        <5>2. ASSUME j = at PROVE Reproduced(j)'
          BY <1>1, <1>2, <3>1, <5>2 DEF Reproduced
        <5> QED
          BY <2>2, <4>1, <5>1, <5>2
      <4> QED
        BY <1>1, <4>2, <4>3
    <3> QED
      BY <1>2, <2>1, <2>2, <3>1, <3>2 DEF InOrder
  <2> QED
    BY <2>3, <2>4
<1>8. Totals'
  BY <1>1, <1>2, TotalsKept DEF IInv
<1> QED
  BY <1>4, <1>5, <1>6, <1>7, <1>8 DEF IInv

\* The report has a field of the wrong type.
LEMMA ThrowInv == IInv /\ Throw => IInv'
<1> SUFFICES ASSUME IInv, Throw
             PROVE  IInv'
  OBVIOUS
<1>1. SandboxInv'
  BY SandboxKept DEF IInv, Throw
<1>2. EvalTypeOK'
  BY <1>1 DEF SandboxInv, EvalTypeOK, IInv, Throw, result
<1>3. Progress'
  BY DEF Progress, IInv, Throw
<1>4. InOrder'
  BY DEF InOrder, Reproduced, Counts, IInv, Throw, result
<1>5. Totals'
  BY TotalsKept DEF IInv, Throw, result
<1> QED
  BY <1>1, <1>2, <1>3, <1>4, <1>5 DEF IInv

\* The verdict.
LEMMA ConcludeInv == IInv /\ Conclude => IInv'
<1> SUFFICES ASSUME IInv, Conclude
             PROVE  IInv'
  OBVIOUS
<1>1. SandboxInv'
  BY SandboxKept DEF IInv, Conclude
<1>2. EvalTypeOK'
  BY <1>1 DEF SandboxInv, EvalTypeOK, IInv, Conclude
<1>3. Progress'
  BY DEF Progress, IInv, Conclude
<1>4. InOrder'
  BY DEF InOrder, Reproduced, Counts, IInv, Conclude
<1>5. Totals'
  BY TotalsKept DEF IInv, Conclude
<1> QED
  BY <1>1, <1>2, <1>3, <1>4, <1>5 DEF IInv

\* Every step keeps the invariant.
LEMMA EvalStep == IInv /\ [EvalNext]_<<vars, evaluation>> => IInv'
<1> SUFFICES ASSUME IInv, [EvalNext]_<<vars, evaluation>>
             PROVE  IInv'
  OBVIOUS
<1>1. CASE UNCHANGED <<vars, evaluation>>
  <2>1. SandboxInv'
    BY <1>1, SandboxKept DEF IInv
  <2>2. EvalTypeOK'
    BY <1>1, <2>1 DEF IInv, SandboxInv, EvalTypeOK, evaluation, result
  <2>3. Progress' /\ InOrder'
    BY <1>1 DEF IInv, Progress, InOrder, Reproduced, Counts, evaluation, result,
       vars
  <2>4. Totals'
    BY <1>1, TotalsKept DEF IInv, evaluation, result
  <2> QED
    BY <2>1, <2>2, <2>3, <2>4 DEF IInv
<1> QED
  BY <1>1, SupervisedInv, InvalidInv, RunJobInv, RepeatInv, CheckRepeatInv,
     ThrowInv, ConcludeInv DEF EvalNext, Evaluate

\* The invariant holds in every reachable state.
THEOREM Invariance == EvalSpec => []IInv
BY EvalStart, EvalStep, PTL DEF EvalSpec

-------------------------------------------------------------------------------
\* The members of Sandbox and Evaluator keep their types; with one run for a
\* job, there are never more runs than jobs.
THEOREM TypeCorrect == EvalSpec => []EvalTypeOK
BY Invariance, PTL DEF IInv

\* The invariant of runSandboxed alone.
LEMMA SandboxInvariance == Spec => []SandboxInv
<1>1. SandboxInv /\ [Next]_vars => SandboxInv'
  BY SandboxStep, SandboxKept
<1> QED
  BY <1>1, InitInv, PTL DEF Spec

\* runSandboxed, in an evaluation and by itself: the parent's kill leaves nothing
\* of the group alive, and what stays in the group and outlives a child that
\* ended by itself holds no pipe.
THEOREM NothingKilledRunsOn == /\ Spec => []KillReachesTheGroup
                               /\ EvalSpec => []KillReachesTheGroup
BY Invariance, SandboxInvariance, GroupGone, PTL DEF IInv

\* The classification: the parent's own SIGKILL is "TimedOut", however it races
\* with the child's end.
THEOREM KillIsKnown == /\ Spec => []KillIsNotACrash
                       /\ EvalSpec => []KillIsNotACrash
BY Invariance, SandboxInvariance, KillKnown, PTL DEF IInv

\* drain: what is parsed is everything that was written, up to the cap, unless a
\* process that left the group still writes.
THEOREM OutputIsWhole == /\ Spec => []NothingDropped
                         /\ EvalSpec => []NothingDropped
BY Invariance, SandboxInvariance, AllKept, PTL DEF IInv

\* The determinism check: a submission whose status is "ok" has given the same
\* hash twice on every job that counts.
THEOREM RankedOnlyIfReproduced == EvalSpec => []RankedReproduces
<1>1. IInv => RankedReproduces
  BY DEF IInv, InOrder, Reproduced, Counts, RankedReproduces
<1> QED
  BY <1>1, Invariance, PTL

\* EvalWeights: of no submission does a crash make a job weigh less.
THEOREM CrashesCount == EvalSpec => []CrashingNeverPays
<1>1. IInv => CrashingNeverPays
  BY DEF IInv, Totals, CrashingNeverPays
<1> QED
  BY <1>1, Invariance, PTL

\* runJob: what scores is the whole report of a process that ended by itself.
THEOREM WholeRunsScore == EvalSpec => OnlyWholeRunsScore
<1>1. IInv /\ [EvalNext]_<<vars, evaluation>> =>
        [\A run \in Hashes :
           runs' = Append(runs, run) => /\ child = "0" /\ ~killed /\ ~timedOut
                                        /\ written["out"] > 0
                                        /\ ReadToItsEnd("out") =>
                                             written["out"] <= Cap
        ]_<<vars, evaluation>>
  <2> SUFFICES ASSUME IInv, EvalNext, NEW run \in Hashes, runs' = Append(runs, run)
               PROVE  /\ child = "0" /\ ~killed /\ ~timedOut
                      /\ written["out"] > 0
                      /\ ReadToItsEnd("out") => written["out"] <= Cap
    OBVIOUS
  <2>1. runs \in Seq(Runs) /\ run \in Runs
    BY DEF IInv, EvalTypeOK, Runs
  <2>2. runs' # runs
    <3>1. Len(runs') = Len(runs) + 1 /\ Len(runs) \in Nat
      BY <2>1
    <3> QED
      BY <3>1
  <2>3. RunJob
    BY DEF EvalNext, Evaluate, Supervised, evaluation, result, Invalid, Repeat,
       CheckRepeat, Throw, Conclude
  <2>4. PICK report \in Reports : runs' = Append(runs, Judged(report))
    BY <2>3 DEF RunJob
  <2>5. Judged(report) = run
    <3>1. Append(runs, Judged(report))[Len(runs) + 1] = Judged(report)
      OBVIOUS
    <3>2. Append(runs, run)[Len(runs) + 1] = run
      BY <2>1
    <3> QED
      BY <2>4, <3>2
  <2>6. outcome = "Ok" /\ report \in Hashes
    BY <2>5, WeightsAssumption DEF Judged, Failed
  <2>7. kept["out"] # 0 /\ ~truncated
    BY <2>6, WeightsAssumption DEF Reports
  <2>8. pc = "done"
    BY <2>3 DEF RunJob
  <2>9. child = "0" /\ ~killed /\ ~timedOut
    BY <2>6, <2>8 DEF IInv, SandboxInv, Reasons, Doomed, Verdict
  <2>10. "out" \in Pipes /\ written["out"] \in Nat /\ pipe["out"] \in Nat
         /\ pipe["out"] <= written["out"]
    BY DEF Pipes, IInv, SandboxInv, TypeOK, Counted
  <2>11. written["out"] > 0
    <3>1. kept["out"] = Appended(written["out"] - pipe["out"], Cap)
      BY <2>10 DEF IInv, SandboxInv, Counted
    <3>2. written["out"] = 0 => kept["out"] = 0
      BY <2>10, <3>1, Bounds DEF Appended
    <3> QED
      BY <2>7, <2>10, <3>2
  <2>12. ReadToItsEnd("out") => ~(written["out"] > Cap)
    BY <2>7, <2>8, <2>10, AllKept DEF IInv, NothingDropped
  <2> QED
    BY <2>9, <2>10, <2>11, <2>12, Bounds
<1> QED
  BY <1>1, Invariance, PTL DEF EvalSpec, OnlyWholeRunsScore
===============================================================================
