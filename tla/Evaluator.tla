------------------------------- MODULE Evaluator -------------------------------
(***************************************************************************)
(* server/Evaluator.cpp, evaluateSubmission: the matrix of jobs, one       *)
(* supervised process each (module Sandbox), what runJob makes of how a    *)
(* process ended and of what it reported, the aggregate, and the second    *)
(* run of the jobs that must reproduce.  A state hash and the score that   *)
(* comes with it are one value; the wording of a status is left out.       *)
(***************************************************************************)
EXTENDS Sandbox, Sequences, FiniteSetsExt

CONSTANTS Catalogues, (* what the rocket directory may hold, in its order   *)
          Modes,      (* kModes                                             *)
          Seeds,      (* weights.seeds                                      *)
          RocketWeight, ModeWeight, (* weights.rocket and weights.mode      *)
          Hashes,     (* the state hashes a run may report                  *)
          Score,      (* the score reported with each                       *)
          Penalty,    (* weights.failurePenalty                             *)
          Verify      (* weights.verifyDeterminism                          *)

Mistyped == {"mistyped error", "mistyped report"}

ASSUME WeightsAssumption ==
  /\ Hashes \cap ({"failed", "nothing", "error"} \cup Mistyped) = {}
  /\ Verify \in BOOLEAN
  /\ Penalty \in Nat
  /\ Score \in [Hashes -> Nat]
  /\ \A table \in {RocketWeight, ModeWeight} : table \in [DOMAIN table -> Nat]

ASSUME MatrixAssumption == /\ Catalogues \subseteq Seq(STRING)
                           /\ Modes \in Seq(STRING)
                           /\ Seeds \in Seq(Nat)

VARIABLES jobs,      (* the matrix, in the order of the loops              *)
          phase,     (* the loop evaluateSubmission is in                  *)
          at,        (* the job in hand                                    *)
          runs,      (* result.runs, as far as they are used               *)
          weightedTotal, weightSum,
          repeats,   (* what the second runs gave, by job (history)        *)
          deterministic,
          status     (* result.status                                      *)

result == <<runs, weightedTotal, weightSum, repeats, deterministic, status>>
evaluation == <<jobs, phase, at, result>>

Failed == "failed"

\* rockets, then modes, then seeds.
Matrix(rockets) ==
  LET s == Len(Seeds)
      m == Len(Modes)
  IN  [j \in 1 .. Len(rockets) * m * s |->
         [rocket |-> rockets[((j - 1) \div (m * s)) + 1],
          mode   |-> Modes[(((j - 1) \div s) % m) + 1],
          seed   |-> Seeds[((j - 1) % s) + 1]]]

EvalInit == /\ Init
            /\ jobs \in {Matrix(c) : c \in Catalogues}
            /\ phase = "matrix" /\ at = 1
            /\ runs = <<>> /\ weightedTotal = 0 /\ weightSum = 0
            /\ repeats = {}
            /\ deterministic = TRUE
            /\ status = "none"

-------------------------------------------------------------------------------
\* What stdout may parse as: nothing if it is empty or was cut; otherwise an
\* "error" object, a report, either of them with a field of the wrong type, or
\* nothing that parses.
Reports == IF kept["out"] = 0 \/ truncated
           THEN {"nothing"}
           ELSE {"nothing", "error"} \cup Mistyped \cup Hashes

\* get<std::string>() of an "error" that is no string, or value() of a score or
\* a hash of another type: nlohmann's type_error, which nothing here catches.
Throws(report) == \/ report = "mistyped error" /\ outcome \in {"Ok", "NonZeroExit"}
                  \/ report = "mistyped report" /\ outcome = "Ok"

\* Mutant: the report is believed, however the process ended.
JudgedByReport(report) == IF report \in Hashes THEN report ELSE Failed

\* runJob: the outcome, then the report.
Judged(report) ==
  IF outcome = "Ok" /\ report \in Hashes THEN report ELSE Failed

\* Absent from its table, a vehicle or a mode weighs 1.
LookupWeight(table, key) == IF key \in DOMAIN table THEN table[key] ELSE 1

WeightFor(job) == LookupWeight(RocketWeight, job.rocket)
                  * LookupWeight(ModeWeight, job.mode)

\* The next runSandboxed, or the end of a loop.
NextJob(next) == at' = next /\ Call
NoMoreJobs    == UNCHANGED <<vars, at>>

\* Mutant: a job weighs only if it was flown.
WeighedIfFlown(run, w) == IF run = Failed THEN 0 ELSE w

\* weightSum += w, whatever became of the job.
Weighed(run, w) == w

\* No rockets or no seeds.
Invalid ==
  /\ phase = "matrix" /\ jobs = <<>>
  /\ status' = "invalid"
  /\ phase' = "returned"
  /\ UNCHANGED <<vars, jobs, at, runs, weightedTotal, weightSum, repeats,
                 deterministic>>

\* One turn of the three nested loops.
RunJob == \E report \in Reports :
  /\ phase = "matrix" /\ pc = "done"
  /\ ~Throws(report)
  /\ LET run == Judged(report)
         w   == WeightFor(jobs[at])
     IN  /\ runs' = Append(runs, run)
         /\ weightedTotal' =
              weightedTotal + w * (IF run = Failed THEN Penalty ELSE Score[run])
         /\ weightSum' = weightSum + Weighed(run, w)
  /\ IF at < Len(jobs) THEN NextJob(at + 1) /\ UNCHANGED phase
                       ELSE NoMoreJobs /\ phase' = "scan"
  /\ UNCHANGED <<jobs, repeats, deterministic, status>>

\* The runs of the determinism check that are still to come.
ToRepeat == {j \in 1 .. Len(runs) : /\ Verify
                                    /\ runs[j] # Failed
                                    /\ jobs[j].seed = Seeds[1]
                                    /\ \A r \in repeats : r.job < j}

Repeat ==
  /\ phase = "scan"
  /\ IF ToRepeat = {} THEN NoMoreJobs /\ phase' = "verdict"
                      ELSE NextJob(Min(ToRepeat)) /\ phase' = "repeat"
  /\ UNCHANGED <<jobs, result>>

\* Mutant: a second run that failed is not held against the first.
DiffersIfFlown(first, again) == again # Failed /\ again # first

Differs(first, again) == again = Failed \/ again # first

CheckRepeat == \E report \in Reports :
  /\ phase = "repeat" /\ pc = "done"
  /\ ~Throws(report)
  /\ LET again == Judged(report)
     IN  /\ repeats' = repeats \cup {[job |-> at, run |-> again]}
         /\ IF Differs(runs[at], again)
            THEN deterministic' = FALSE /\ phase' = "verdict"
            ELSE UNCHANGED deterministic /\ phase' = "scan"
  /\ UNCHANGED <<vars, jobs, at, runs, weightedTotal, weightSum, status>>

\* The exception leaves runJob and evaluateSubmission, in either loop; the
\* worker's catch block gets it in place of a result (SubmissionServer).
Throw == \E report \in Reports :
  /\ phase \in {"matrix", "repeat"} /\ pc = "done"
  /\ Throws(report)
  /\ phase' = "thrown"
  /\ UNCHANGED <<vars, jobs, at, result>>

Conclude ==
  /\ phase = "verdict"
  /\ status' = IF ~deterministic THEN "nondeterministic"
               ELSE IF \A j \in 1 .. Len(runs) : runs[j] = Failed THEN "crashed"
               ELSE "ok"
  /\ phase' = "returned"
  /\ UNCHANGED <<vars, jobs, at, runs, weightedTotal, weightSum, repeats,
                 deterministic>>

\* runSandboxed, for the job in hand.  Once it has returned, nobody looks at
\* what a process that outlived it does.
Supervised(Step) == /\ jobs # <<>>
                    /\ phase \in {"matrix", "repeat"} /\ pc # "done"
                    /\ Step
                    /\ UNCHANGED evaluation

Evaluate == Invalid \/ RunJob \/ Repeat \/ CheckRepeat \/ Throw \/ Conclude
EvalNext == Supervised(Next) \/ Evaluate
EvalSpec == EvalInit /\ [][EvalNext]_<<vars, evaluation>>

\* The worker thread is scheduled, in runSandboxed and out of it, and the
\* clock runs.  Nothing is asked of the child.
EvalFairSpec ==
  /\ EvalSpec
  /\ WF_<<vars, evaluation>>(Evaluate \/ Supervised(Parent))
  /\ WF_<<vars, evaluation>>(Supervised(Deadline))
-------------------------------------------------------------------------------
Runs == Hashes \cup {Failed}

EvalTypeOK ==
  /\ TypeOK
  /\ jobs \in {Matrix(c) : c \in Catalogues}
  /\ phase \in {"matrix", "scan", "repeat", "verdict", "returned", "thrown"}
  /\ at \in 1 .. Len(jobs) + 1
  /\ runs \in Seq(Runs) /\ Len(runs) <= Len(jobs)
  /\ {weightedTotal, weightSum} \subseteq Nat
  /\ repeats \subseteq [job : 1 .. Len(jobs), run : Runs]
  /\ deterministic \in BOOLEAN
  /\ status \in {"none", "ok", "crashed", "nondeterministic", "invalid"}

WeightOf(J) == MapThenSumSet(LAMBDA j : WeightFor(jobs[j]), J)

\* EvalWeights: a failed run has to be worse than any score, "or crash on the
\* hard vehicle becomes a strategy".  Every aggregate is a mean over the whole
\* matrix, the failed jobs at the full penalty: no way of ending a run makes
\* its job count less.
CrashingNeverPays ==
  phase \in {"scan", "repeat", "verdict"} =>
    LET all == 1 .. Len(jobs)
    IN  /\ weightSum = WeightOf(all)
        /\ weightedTotal >= Penalty * WeightOf({j \in all : runs[j] = Failed})

\* A score is taken from a process that came to its own end, in time, with
\* what it reported complete, and never from one that crashed or was killed.
\* (That it was complete nobody can say of a pipe which a process that left the
\* group still holds when a failed poll() or waitpid() ends the loop.)
OnlyWholeRunsScore ==
  [][\A run \in Hashes :
       runs' = Append(runs, run) => /\ child = "0" /\ ~killed /\ ~timedOut
                                    /\ written["out"] > 0
                                    /\ ReadToItsEnd("out") =>
                                         written["out"] <= Cap
    ]_<<vars, evaluation>>

\* EvalWeights::verifyDeterminism: what is ranked has reproduced -- each run
\* of the first seed that counts gave the same hash in a second process.
RankedReproduces ==
  status = "ok" /\ Verify =>
    \A j \in 1 .. Len(runs) :
      runs[j] # Failed /\ jobs[j].seed = Seeds[1] =>
        [job |-> j, run |-> runs[j]] \in repeats

\* evaluateSubmission comes to an end, whatever the processes below it hold open,
\* ignore or fail to do: it returns with one run for each job of the matrix, or
\* it throws (Evaluator.hpp says it never does), and that only over the report of
\* a process that exited by itself.  What the processes write is finite here, by
\* MaxBlocks: drain() does not return while there is something to read.
EvaluationEnds ==
  <>(\/ phase = "returned" /\ Len(runs) = Len(jobs)
     \/ phase = "thrown" /\ outcome \in {"Ok", "NonZeroExit"} /\ kept["out"] > 0)
===============================================================================
