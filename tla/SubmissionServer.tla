--------------------------- MODULE SubmissionServer ---------------------------
(***************************************************************************)
(* server/server_main.cpp and server/Leaderboard.cpp: the threads that     *)
(* answer POST /api/submissions, the queue behind them, the one worker     *)
(* that compiles and evaluates, and the records they keep in memory and on *)
(* disk -- through crashes at any step, failed writes and restarts.  What  *)
(* an evaluation computes is left out: a run has an outcome.               *)
(***************************************************************************)
EXTENDS Integers, Sequences, FiniteSetsExt, TLC

CONSTANTS Handlers,     (* the threads of httplib's pool                     *)
          Forms,        (* what may be posted                                *)
          Radix, Limit, (* an index below Limit has four digits: 10, 10 000  *)
          MaxIndex,     (* bound: indices handed out                         *)
          MaxRestarts,  (* bound: restarts of the server                     *)
          MaxFaults     (* bound: record writes that fail                    *)

ASSUME ServerBounds == /\ {Limit, MaxIndex, MaxRestarts, MaxFaults} \subseteq Nat
                       /\ Radix \in Nat \ {0, 1}
                       /\ MaxIndex < Limit * Radix
                       /\ "free" \notin Handlers

VARIABLES phase,      (* "up", "closing", "exited", "down", "terminated"     *)
          memory,     (* byId_                                               *)
          next,       (* nextIndex_                                          *)
          mutex,      (* mutex_ of the Leaderboard, across a create()        *)
          queue,      (* ids_ of the Queue                                   *)
          handler,    (* what each request thread is at                      *)
          worker,     (* what processSubmission is at, with its own record   *)
          disk,       (* each submission directory and its record.json       *)
          artifact,   (* whose bytes artifact.so in each directory has: the
                         serial of a submission, 0 for none (history)        *)
          created,    (* create() calls so far (history)                     *)
          restarts, faults

process == <<phase, memory, next, mutex, queue, handler, worker>>
storage == <<disk, artifact, created, restarts, faults>>
vars == <<process, storage>>

Ids == [index : 1 .. MaxIndex, slug : {f.slug : f \in Forms}]
InProgress == {"queued", "compiling", "evaluating"}
Verdicts   == {"ok", "nondeterministic", "crashed", "invalid", "rejected"}

\* What toJson gives dump() to write, of the submitter's words and of the
\* compiler's: garbled is not UTF-8, and dump() throws.
Texts == {"plain", "garbled"}
Writable(record) == record.text = "plain" /\ record.log = "plain"

\* serial tells the submissions apart, whatever their ids (history).
Records == [serial : Nat \ {0}, status : InProgress \cup Verdicts,
            ranked : BOOLEAN, text : Texts, log : Texts, binary : BOOLEAN]

Without(what) == [serial |-> 0, status |-> what]
Absent == Without("absent")   (* no such entry, no such directory             *)
Bare   == Without("bare")     (* the directory is there, without record.json  *)
Torn   == Without("torn")     (* record.json does not parse                   *)

\* fromJson finds the whole record again.
Stored(id) == disk[id].serial # 0
Entries == {id \in Ids : memory[id].serial # 0}

Running == phase \in {"up", "closing"}
Free == "free"
Idle == [pc |-> "idle"]

\* std::stoi(id.substr(0, 4)): of a longer index, the leading digits.
FirstFour(index) == IF index < Limit THEN index ELSE index \div Radix

Init == /\ phase = "up"
        /\ memory = [id \in Ids |-> Absent]
        /\ next = 1
        /\ mutex = Free
        /\ queue = <<>>
        /\ handler = [h \in Handlers |-> Idle]
        /\ worker = Idle
        /\ disk = [id \in Ids |-> Absent]
        /\ artifact = [id \in Ids |-> 0]
        /\ created = 0 /\ restarts = 0 /\ faults = 0

-------------------------------------------------------------------------------
\* writeRecord: written and renamed; nothing if the temporary cannot be opened
\* or renamed; cut short if the stream fails, which is not looked at.  Without
\* a directory of its own the record gets one.
WriteRecord(id, record) ==
  \/ /\ Writable(record)
     /\ disk' = [disk EXCEPT ![id] = record]
     /\ UNCHANGED faults
  \/ /\ Writable(record)
     /\ faults < MaxFaults
     /\ disk' = [disk EXCEPT ![id] = Torn]
     /\ faults' = faults + 1
  \/ /\ faults < MaxFaults
     /\ faults' = faults + 1
     /\ UNCHANGED disk

\* ... or dump() throws, with record.json as it was.
WriteThrows(record) == ~Writable(record) /\ UNCHANGED <<disk, faults>>

Enter(id, record) == memory' = [memory EXCEPT ![id] = record]

\* update: byId_ first, and it stays so if the write throws.
Update(id, record) ==
  mutex = Free /\ Enter(id, record) /\ WriteRecord(id, record)
UpdateThrows(id, record) ==
  mutex = Free /\ Enter(id, record) /\ WriteThrows(record)

-------------------------------------------------------------------------------
\* normaliseLanguage: as declared, under another spelling, or from the file.
Extension == ".so" :> "binary" @@ ".c" :> "c" @@ ".cpp" :> "cpp" @@
             ".cc" :> "cpp" @@ ".cxx" :> "cpp"
Spelling  == "c++" :> "cpp" @@ "cxx" :> "cpp" @@ "cc" :> "cpp"
Language(form) ==
  IF form.language \in {"c", "cpp", "binary"} THEN form.language
  ELSE IF form.language \in DOMAIN Spelling THEN Spelling[form.language]
  ELSE IF form.language = "" /\ form.extension \in DOMAIN Extension
       THEN Extension[form.extension]
  ELSE "unknown"

\* The handler's refusals, all of them before create(): an empty artifact, a
\* manifest of another ABI or none at all, no name, no description.
Acceptable(form) == /\ form.complete
                    /\ form.abi = 1
                    /\ Language(form) # "unknown"

\* POST /api/submissions with an acceptable form: create() up to the directory.
CreateDirectory(h) == \E form \in Forms, text \in Texts :
  LET id == [index |-> next, slug |-> form.slug]
  IN  /\ phase = "up"
      /\ handler[h] = Idle
      /\ Acceptable(form)
      /\ mutex = Free
      /\ next <= MaxIndex
      /\ mutex' = h
      /\ next' = next + 1
      /\ created' = created + 1
      /\ handler' = [handler EXCEPT ![h] =
           [pc |-> "create", id |-> id,
            record |-> [serial |-> created + 1, status |-> "queued",
                        ranked |-> FALSE, text |-> text, log |-> "plain",
                        binary |-> Language(form) = "binary"]]]
      /\ disk' = [disk EXCEPT ![id] = IF @ = Absent THEN Bare ELSE @]
      /\ UNCHANGED <<phase, memory, queue, worker, artifact, restarts, faults>>

\* Mutant: the entry first, as update() has it.
CreateEntersFirst(h) ==
  LET id == handler[h].id
      record == handler[h].record
  IN  /\ handler[h].pc = "create"
      /\ mutex' = Free
      /\ Enter(id, record)
      /\ \/ /\ WriteRecord(id, record)
            /\ handler' = [handler EXCEPT ![h].pc = "store"]
         \/ /\ WriteThrows(record)
            /\ handler' = [handler EXCEPT ![h] = Idle]
      /\ UNCHANGED <<phase, next, queue, worker, artifact, created, restarts>>

\* The rest of create(): if writeRecord throws, the answer is 500 and no entry.
CreateRecord(h) ==
  LET id == handler[h].id
      record == handler[h].record
  IN  /\ handler[h].pc = "create"
      /\ mutex' = Free
      /\ \/ /\ WriteRecord(id, record)
            /\ Enter(id, record)
            /\ handler' = [handler EXCEPT ![h].pc = "store"]
         \/ /\ WriteThrows(record)
            /\ handler' = [handler EXCEPT ![h] = Idle]
            /\ UNCHANGED memory
      /\ UNCHANGED <<phase, next, queue, worker, artifact, created, restarts>>

\* writeFile of the upload: under the library's name if that is what it is.
Uploaded(h) == IF handler[h].record.binary
               THEN [artifact EXCEPT ![handler[h].id] = handler[h].record.serial]
               ELSE artifact

\* The artifact could not be stored, or not all of it: rejected, answered 500.
StoreFails(h) ==
  LET record == [handler[h].record EXCEPT !.status = "rejected"]
  IN  /\ handler[h].pc = "store"
      /\ \/ Update(handler[h].id, record)
         \/ UpdateThrows(handler[h].id, record)
      /\ artifact' \in {artifact, Uploaded(h)}
      /\ handler' = [handler EXCEPT ![h] = Idle]
      /\ UNCHANGED <<phase, next, mutex, queue, worker, created, restarts>>

\* Stored, the manifest beside it: 202.  dump() of the manifest can throw too.
Accept(h) ==
  /\ handler[h].pc = "store"
  /\ artifact' = Uploaded(h)
  /\ queue' = IF handler[h].record.text = "plain"
              THEN Append(queue, handler[h].id) ELSE queue
  /\ handler' = [handler EXCEPT ![h] = Idle]
  /\ UNCHANGED <<phase, memory, next, mutex, worker, disk, created, restarts,
                 faults>>

Post(h) == CreateDirectory(h) \/ CreateRecord(h) \/ StoreFails(h) \/ Accept(h)

-------------------------------------------------------------------------------
\* Queue::pop and the get() that follows it.
Take ==
  /\ Running
  /\ worker = Idle
  /\ queue # <<>>
  /\ mutex = Free
  /\ queue' = Tail(queue)
  /\ worker' = LET record == memory[Head(queue)]
               IN  [pc |-> IF record.binary THEN "evaluate" ELSE "compile",
                    id |-> Head(queue), record |-> record]
  /\ UNCHANGED <<phase, memory, next, mutex, handler, storage>>

\* The worker updates the record and goes on, or lands in its catch block.
Report(record, then) ==
  /\ \/ Update(worker.id, record) /\ worker' = then
     \/ UpdateThrows(worker.id, record) /\ worker' = [worker EXCEPT !.pc = "catch"]
  /\ UNCHANGED <<phase, next, mutex, queue, handler, created, restarts>>

\* compileSubmission: the compiler under the sandbox, which succeeds, says no or
\* runs out of time.  It echoes source lines, with warnings too: the message is
\* whatever bytes they hold.
Compilations == [ok : BOOLEAN, message : Texts]

Compile == LET record == [worker.record EXCEPT !.status = "compiling"]
           IN  /\ worker.pc = "compile"
               /\ Report(record, [worker EXCEPT !.pc = "compiled", !.record = record])
               /\ UNCHANGED artifact

\* What a compiler that failed leaves at its -o: what was there before, a part
\* of its own output, or nothing.
Leftovers == {artifact, [artifact EXCEPT ![worker.id] = worker.record.serial],
              [artifact EXCEPT ![worker.id] = 0]}

\* Mutant: the return after the rejection is missing.
CompileFailsOn == \E compiled \in Compilations :
  /\ worker.pc = "compiled" /\ ~compiled.ok
  /\ Report([worker.record EXCEPT !.status = "rejected", !.log = compiled.message],
            [worker EXCEPT !.pc = "evaluate"])
  /\ artifact' \in Leftovers

CompileFails == \E compiled \in Compilations :
  /\ worker.pc = "compiled" /\ ~compiled.ok
  /\ Report([worker.record EXCEPT !.status = "rejected", !.log = compiled.message],
            Idle)
  /\ artifact' \in Leftovers

CompileSucceeds == \E compiled \in Compilations :
  /\ worker.pc = "compiled" /\ compiled.ok
  /\ artifact' = [artifact EXCEPT ![worker.id] = worker.record.serial]
  /\ worker' = [worker EXCEPT !.pc = "evaluate", !.record.log = compiled.message]
  /\ UNCHANGED <<phase, memory, next, mutex, queue, handler, disk, created,
                 restarts, faults>>

Evaluate == LET record == [worker.record EXCEPT !.status = "evaluating"]
            IN  /\ worker.pc = "evaluate"
                /\ Report(record, [worker EXCEPT !.pc = "evaluated", !.record = record])
                /\ UNCHANGED artifact

\* evaluateSubmission returned; its ok and deterministic make `ranked`.
Judge == \E status \in Verdicts \ {"rejected"} :
  /\ worker.pc = "evaluated"
  /\ Report([worker.record EXCEPT !.status = status, !.ranked = (status = "ok")],
            Idle)
  /\ UNCHANGED artifact

\* evaluateSubmission threw.
EvaluationThrows ==
  /\ worker.pc = "evaluated"
  /\ worker' = [worker EXCEPT !.pc = "catch"]
  /\ UNCHANGED <<phase, memory, next, mutex, queue, handler, storage>>

HostError(id) == [memory[id] EXCEPT !.status = "rejected", !.ranked = FALSE]

\* Mutant: the exception is swallowed.
CatchSilently == /\ worker.pc = "catch"
                 /\ worker' = Idle
                 /\ UNCHANGED <<phase, memory, next, mutex, queue, handler, storage>>

Catch ==
  /\ worker.pc = "catch"
  /\ Update(worker.id, HostError(worker.id))
  /\ worker' = Idle
  /\ UNCHANGED <<phase, next, mutex, queue, handler, artifact, created, restarts>>

Worker == Take \/ Compile \/ CompileFails \/ CompileSucceeds \/ Evaluate \/ Judge
          \/ EvaluationThrows \/ Catch

-------------------------------------------------------------------------------
\* The process is gone, and with it everything but the disk.
Die(how) == /\ phase' = how
            /\ memory' = [id \in Ids |-> Absent]
            /\ next' = 1
            /\ mutex' = Free
            /\ queue' = <<>>
            /\ handler' = [h \in Handlers |-> Idle]
            /\ worker' = Idle
            /\ UNCHANGED storage

Crash == Running /\ Die("down")

\* The catch block throws in its turn and nothing catches that.
Terminate == /\ worker.pc = "catch"
             /\ mutex = Free
             /\ WriteThrows(HostError(worker.id))
             /\ Die("terminated")

\* listen() returns once its threads are done; close(), and the worker is joined
\* when pop() finds the queue closed and empty.
ListenEnds == /\ phase = "up"
              /\ \A h \in Handlers : handler[h] = Idle
              /\ phase' = "closing"
              /\ UNCHANGED <<memory, next, mutex, queue, handler, worker, storage>>

\* Mutant: pop() looks at closed_ first.
ExitAtOnce == /\ phase = "closing"
              /\ worker = Idle
              /\ phase' = "exited"
              /\ UNCHANGED <<memory, next, mutex, queue, handler, worker, storage>>

Exit == /\ phase = "closing"
        /\ worker = Idle
        /\ queue = <<>>
        /\ phase' = "exited"
        /\ UNCHANGED <<memory, next, mutex, queue, handler, worker, storage>>

\* Mutant: the record as it was read.
RestoredAsRead(record) == record

\* load(): what was in progress is marked, in memory.
Restored(record) ==
  IF record.status \in InProgress
  THEN [record EXCEPT !.status = "rejected", !.ranked = FALSE] ELSE record

\* Mutant: the highest index again.
RecoveredHighest(ids) == Max({1} \cup {FirstFour(id.index) : id \in ids})

\* load(): the counter goes on behind the highest index that is stored.
Recovered(ids) == Max({1} \cup {FirstFour(id.index) + 1 : id \in ids})

Restart ==
  /\ ~Running
  /\ restarts < MaxRestarts
  /\ restarts' = restarts + 1
  /\ phase' = "up"
  /\ memory' = [id \in Ids |-> IF Stored(id) THEN Restored(disk[id]) ELSE Absent]
  /\ next' = Recovered({id \in Ids : Stored(id)})
  /\ UNCHANGED <<mutex, queue, handler, worker, disk, artifact, created, faults>>

Serve == Worker \/ Terminate \/ Exit
Next == (\E h \in Handlers : Post(h)) \/ Serve \/ ListenEnds \/ Crash \/ Restart
Spec == Init /\ [][Next]_vars

\* Request threads and the worker run; compiler and runner have deadlines.
FairSpec == Spec /\ WF_vars(Serve) /\ \A h \in Handlers :
                      WF_vars(CreateRecord(h) \/ StoreFails(h) \/ Accept(h))
-------------------------------------------------------------------------------
HandlerAt == [pc : {"create", "store"}, id : Ids, record : Records]
WorkerAt  == [pc : {"compile", "compiled", "evaluate", "evaluated", "catch"},
              id : Ids, record : Records]

TypeOK == /\ phase \in {"up", "closing", "exited", "down", "terminated"}
          /\ memory \in [Ids -> Records \cup {Absent}]
          /\ next \in 1 .. MaxIndex + 1
          /\ mutex \in Handlers \cup {Free}
          /\ queue \in Seq(Ids)
          /\ handler \in [Handlers -> HandlerAt \cup {Idle}]
          /\ worker \in WorkerAt \cup {Idle}
          /\ disk \in [Ids -> Records \cup {Absent, Bare, Torn}]
          /\ artifact \in [Ids -> Nat]
          /\ {created, restarts, faults} \subseteq Nat

Waiting(id) == \E k \in DOMAIN queue : queue[k] = id
Handled(id) == \E h \in Handlers : handler[h] # Idle /\ handler[h].id = id
Worked(id)  == worker # Idle /\ worker.id = id

\* load() and the worker's catch block: nothing is left claiming to be in
\* progress forever.  Whatever the board shows as in progress is with a request
\* thread, in the queue or with the worker -- with one of them only.
InProgressIsOwned ==
  \A id \in Entries :
    memory[id].status \in InProgress /\ memory[id].text = "plain" =>
      /\ Waiting(id) \/ Handled(id) \/ Worked(id)
      /\ Waiting(id) => ~Handled(id) /\ ~Worked(id)

\* A verdict the board has shown is not taken back while the server runs: the
\* request thread that rejected a submission, the worker and its catch block
\* never overwrite one another's.  Two record writes that fail are the
\* exception: a record dump() would not take gets past a file that cannot be opened
\* unnoticed, and past a second one the catch block takes its verdict back.
VerdictIsFinal ==
  [][Running /\ Running' /\ faults' < 2 =>
       \A id \in Entries : memory[id].status \in Verdicts =>
         memory'[id] = memory[id]]_vars

\* load(): recovering the counter from the highest id stops a restart from
\* reusing a directory.  Across crashes and restarts a stored record is only
\* ever replaced by a later record of the same submission -- as long as no
\* index has a fifth digit.
NeverReplaced ==
  [][\A id \in Ids : Stored(id) =>
       disk'[id] = Torn \/ disk'[id].serial = disk[id].serial]_vars

\* close() drains: a server that has exited owes nobody a verdict.
ExitedMeansDone ==
  phase = "exited" => \A id \in Entries : memory[id].text = "plain" =>
                                            memory[id].status \in Verdicts

\* GET /api/leaderboard dumps every entry's summary in one document, and one
\* that is not UTF-8 would cost the whole board.  The submitter's words are in
\* the summary: no entry is made of words that could not be written, unless the
\* file could not be opened and the attempt was never made.
BoardCanBeShown == faults = 0 => \A id \in Entries : memory[id].text = "plain"

\* SubmissionCatalogue::load: what the game offers to fly, by its directory.
Listed == {id \in Ids : artifact[id] # 0}

\* Through directories that are used again after a crash, uploads and builds
\* that leave half a library or an old one behind: what is evaluated is what
\* was submitted, and what has a rank is what the game flies under its name.
ScoresOwnCode ==
  /\ worker.pc = "evaluated" => artifact[worker.id] = worker.record.serial
  /\ \A id \in Ids : Stored(id) /\ disk[id].ranked =>
       id \in Listed /\ artifact[id] = disk[id].serial

\* Each submission answered with 202 gets its verdict, behind any number of
\* others and whatever they do to the worker, unless the process dies.
AcceptedGetsVerdict ==
  \A id \in Ids : Waiting(id) ~> (~Running \/ memory[id].status \in Verdicts)

-------------------------------------------------------------------------------
\* server_main.cpp, at the catch: the worker outlives one bad submission.
WorkerOutlivesSubmission == phase # "terminated"
===============================================================================
