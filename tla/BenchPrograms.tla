----------------------------- MODULE BenchPrograms -----------------------------
(***************************************************************************)
(* The programs round the benchmark.  eval/bench_main.cpp: options,        *)
(* catalogue, fleet, one run a vehicle, one document of reports.           *)
(* eval/runner_main.cpp: the same for one vehicle and a submission, which  *)
(* may refuse it or throw.  app/main.cpp: the catalogue becomes the roster *)
(* of worlds, --rocket= the place to start in it, and the game flies.      *)
(***************************************************************************)
EXTENDS Benchmark, RocketCatalogue

CONSTANTS Directories,  (* what the rocket directory may hold, by path      *)
          Requests      (* [program, all, rocket, seconds] of a command line;
                           a run of any length that is taken has MaxTicks    *)

ASSUME DirectoryAssumption ==
  \A dir \in Directories : /\ IsFiniteSet(DOMAIN dir) /\ DOMAIN dir \subseteq Int
                           /\ \A path \in DOMAIN dir : WellFormed(dir[path])

VARIABLES stage,      (* "options", "load", "fleet", "run", "ok", "failed"  *)
          request,    (* Options                                            *)
          catalogue,  (* RocketCatalogue::instance()                        *)
          fleet,      (* vehicles still to run; the game's roster           *)
          reports     (* the JSON array "runs"                              *)

progState == <<stage, request, catalogue, fleet, reports>>
progVars == <<vars, progState>>

ProgInit == /\ Init
            /\ stage = "options"
            /\ request \in Requests
            /\ headless = (request.program # "game")
            /\ catalogue = Empty
            /\ fleet = <<>>
            /\ reports = <<>>

-------------------------------------------------------------------------------
\* parseOptions: the length must be positive and at most the longest run, and
\* the runner wants a name; the game takes what it is given.
ParseOptions ==
  /\ stage = "options"
  /\ stage' = IF \/ headless /\ request.seconds \notin 1 .. MaxTicks
                 \/ request.program = "runner" /\ request.rocket = <<>>
              THEN "failed" ELSE "load"
  /\ UNCHANGED <<vars, request, catalogue, fleet, reports>>

\* The directory is listed in any order; without a vehicle both programs end.
LoadCatalogue == \E dir \in Directories : \E listing \in SetToSeqs(DOMAIN dir) :
  /\ stage = "load"
  /\ catalogue' = Load(dir, listing)
  /\ stage' = IF catalogue'.specs = <<>> THEN "failed" ELSE "fleet"
  /\ UNCHANGED <<vars, request, fleet, reports>>

\* What bench and runner fly: all of them, the first one, or the one asked for.
Wanted(specs, r) ==
  IF r.all THEN specs
  ELSE IF r.rocket = <<>> THEN <<Head(specs)>>
  ELSE IF Named(specs, r.rocket) = {} THEN <<>>
  ELSE <<specs[Min(Named(specs, r.rocket))]>>

\* buildRoster and rosterIndexOf: the roster, turned to where the game starts.
Roster(specs, r) ==
  LET at == IF Named(specs, r.rocket) = {} THEN 1 ELSE Min(Named(specs, r.rocket))
  IN  SubSeq(specs, at, Len(specs)) \o SubSeq(specs, 1, at - 1)

ChooseFleet ==
  /\ stage = "fleet"
  /\ fleet' = IF headless THEN Wanted(catalogue.specs, request)
                          ELSE Roster(catalogue.specs, request)
  /\ stage' = IF fleet' = <<>> THEN "failed" ELSE "run"
  /\ UNCHANGED <<vars, request, catalogue, reports>>

\* AbiFlyByWire::load refuses the library, or an exception escapes the run:
\* the error is the document.
SubmissionFails == /\ stage = "run"
                   /\ request.program = "runner"
                   /\ ~done
                   /\ stage' = "failed"
                   /\ UNCHANGED <<vars, request, catalogue, fleet, reports>>

Fly == /\ stage = "run"
       /\ Next
       /\ UNCHANGED progState

\* Mutant: the next vehicle's first command is held for what was left of the
\* last vehicle's last one as well: the clock is not wound back.
CarriesOn == source' = [Drawn(1) EXCEPT !.left = @ + source.left]

\* runBenchmark starts on a world, a harness and a meter of its own.
AnewForNext == source' = Drawn(1)

\* The run's report is appended and the next vehicle is put through the same
\* script; after the last one the document is written.
Report ==
  /\ stage = "run"
  /\ headless /\ done
  /\ reports' = Append(reports,
                [path |-> Head(fleet).path, rocket |-> Head(fleet).spec.name,
                 ticks |-> ticks, steps |-> meter.steps])
  /\ fleet' = Tail(fleet)
  /\ stage' = IF fleet' = <<>> THEN "ok" ELSE "run"
  /\ AnewForNext
  /\ ticks' = 0
  /\ phase' = 0
  /\ asked' = Default
  /\ meter' = Cleared
  /\ everWithin' = FALSE
  /\ done' = FALSE
  /\ UNCHANGED <<headless, script, mode, request, catalogue>>

ProgNext == ParseOptions \/ LoadCatalogue \/ ChooseFleet \/ SubmissionFails \/ Fly
            \/ Report
ProgSpec == ProgInit /\ [][ProgNext]_progVars

-------------------------------------------------------------------------------
\* RocketCatalogue.hpp: "a malformed vehicle should be a clear message, not a
\* silently wrong rocket": whatever the files say, what takes off is a vehicle
\* the physics is defined for, and whoever it is, it is the first by path that
\* a name or no name at all stands for, however the directory was listed.
FleetIsSound ==
  /\ \A i \in DOMAIN fleet : Sound(fleet[i].spec)
  /\ \A i, j \in DOMAIN catalogue.specs :
       i < j => catalogue.specs[i].path < catalogue.specs[j].path

\* A document answers the request it was written for.  With --all every vehicle
\* of the catalogue is in it, in order; otherwise the one that was named is; and
\* every vehicle in it was put through the same run: as many ticks, and as many
\* commands, as the one before it.
AnswersTheRequest ==
  stage = "ok" =>
    /\ request.all => [i \in DOMAIN reports |-> reports[i].path]
                        = [i \in DOMAIN catalogue.specs |-> catalogue.specs[i].path]
    /\ ~request.all => Len(reports) = 1
    /\ ~request.all /\ request.rocket # <<>> => reports[1].rocket = request.rocket
    /\ \A i, j \in DOMAIN reports : /\ reports[i].ticks = reports[j].ticks
                                    /\ reports[i].steps = reports[j].steps
===============================================================================
