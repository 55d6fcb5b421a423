------------------------ MODULE SubmissionServerProofs ------------------------
(***************************************************************************)
(* The submission server for any number of request threads, forms,         *)
(* submissions, crashes, restarts and failed writes: who owns a            *)
(* submission, what the board shows, what the disk keeps and whose code is *)
(* scored.                                                                 *)
(***************************************************************************)
EXTENDS SubmissionServer, WellFoundedInduction, TLAPS

\* No index has a fifth digit.
FourDigits == MaxIndex < Limit

InUse(id) == Waiting(id) \/ Handled(id) \/ Worked(id)

\* The threads there are in each phase, and the one that holds the mutex.
Threads ==
  /\ phase # "up" => \A h \in Handlers : handler[h] = Idle
  /\ ~Running => queue = <<>> /\ worker = Idle
  /\ phase \in {"down", "terminated"} => \A id \in Ids : memory[id] = Absent
  /\ \A h \in Handlers : handler[h].pc = "create" <=> mutex = h

\* Nothing is waiting, with a thread or with the worker twice.
Apart ==
  /\ \A j, k \in DOMAIN queue : queue[j] = queue[k] => j = k
  /\ \A id \in Ids : Waiting(id) => ~Handled(id) /\ ~Worked(id)
  /\ \A g, h \in Handlers : handler[g] # Idle /\ handler[h] # Idle
                            /\ handler[g].id = handler[h].id => g = h
  /\ \A id \in Ids : Handled(id) => ~Worked(id)
  /\ \A id \in Ids : InUse(id) => id.index < next

\* What the board shows as in progress.
Pending(id) == /\ memory[id].serial # 0 /\ memory[id].status \in InProgress
               /\ memory[id].text = "plain"

\* What a request thread, the queue and the worker hold is what the board shows.
Posted(h) ==
  /\ handler[h].record.status = "queued" /\ ~handler[h].record.ranked
  /\ handler[h].pc = "create" => ~Pending(handler[h].id)
  /\ handler[h].pc = "store" => memory[handler[h].id] = handler[h].record
Queued(id) ==
  /\ memory[id] \in Records
  /\ memory[id].status = "queued" /\ ~memory[id].ranked
  /\ memory[id].text = "plain"
  /\ memory[id].binary => artifact[id] = memory[id].serial
InHand ==
  /\ memory[worker.id] \in Records
  /\ memory[worker.id].serial = worker.record.serial
  /\ memory[worker.id].text = "plain" /\ worker.record.text = "plain"
  /\ ~worker.record.ranked
  /\ worker.pc # "catch" => memory[worker.id].status \in InProgress
  /\ worker.pc \in {"evaluate", "evaluated"} =>
       artifact[worker.id] = worker.record.serial

Entered == /\ \A h \in Handlers : handler[h] # Idle => Posted(h)
           /\ \A id \in Ids : Waiting(id) => Queued(id)
           /\ worker # Idle => InHand

\* What is in progress is in use.
Owned == \A id \in Ids : Pending(id) => InUse(id)

\* What cannot be written gets past an update only if the write was not tried.
Garbled ==
  /\ worker.pc = "evaluated" /\ ~Writable(worker.record) => faults > 0
  /\ worker.pc = "catch" /\ memory[worker.id].status \in Verdicts =>
       \/ memory[worker.id] = HostError(worker.id)
       \/ ~Writable(memory[worker.id]) /\ faults > 0
  /\ \A id \in Ids : Stored(id) => Writable(disk[id])

\* An index is handed out once: what is stored is of the submission the board
\* shows, and gets its rank at the end.
Once ==
  /\ \A id \in Ids : Running /\ Stored(id) => id.index < next
  /\ \A id \in Entries : id.index < next
  /\ \A id \in Entries : Stored(id) => disk[id].serial = memory[id].serial
  /\ \A h \in Handlers : handler[h].pc = "create" =>
       ~Stored(handler[h].id) /\ memory[handler[h].id] = Absent
  /\ \A id \in Ids : InUse(id) /\ Stored(id) => ~disk[id].ranked
  /\ \A id \in Ids : Stored(id) /\ disk[id].ranked =>
       artifact[id] = disk[id].serial

IInv == /\ TypeOK /\ Threads /\ Apart /\ Entered /\ Owned /\ Garbled
        /\ BoardCanBeShown
        /\ FourDigits => Once

-------------------------------------------------------------------------------
\* What the kinds of value are, and how they are told apart.
Kinds == /\ Idle \notin HandlerAt /\ Idle \notin WorkerAt
         /\ \A x \in HandlerAt : /\ x # Idle /\ x.pc \in {"create", "store"}
                                 /\ x.id \in Ids /\ x.record \in Records
         /\ \A x \in WorkerAt : /\ x # Idle /\ x.id \in Ids
                                /\ x.record \in Records
                                /\ x.pc \in {"compile", "compiled", "evaluate",
                                             "evaluated", "catch"}
         /\ Idle.pc = "idle"
         /\ {Absent, Bare, Torn} \cap Records = {}
         /\ Absent.serial = 0 /\ Bare.serial = 0 /\ Torn.serial = 0

\* These are facts about the values alone.
LEMMA KindsHold == Kinds
BY DEF Kinds, Idle, HandlerAt, WorkerAt, Records, Absent, Bare, Torn, Without

\* The parts of a record, and a record with another status.
LEMMA RecordIs ==
  ASSUME NEW r \in Records
  PROVE  /\ r.serial \in Nat \ {0} /\ r.status \in InProgress \cup Verdicts
         /\ r.ranked \in BOOLEAN /\ r.text \in Texts /\ r.log \in Texts
         /\ r.binary \in BOOLEAN
BY DEF Records

\* A record with a new status, rank or log is a record.
LEMMA StaysRecord ==
  ASSUME NEW r \in Records, NEW s \in InProgress \cup Verdicts
  PROVE  /\ [r EXCEPT !.status = s] \in Records
         /\ \A k \in BOOLEAN : [r EXCEPT !.status = s, !.ranked = k] \in Records
         /\ \A l \in Texts : [r EXCEPT !.status = s, !.log = l] \in Records
         /\ \A l \in Texts : [r EXCEPT !.log = l] \in Records
BY DEF Records

\* Another status leaves the rest of a record as it was.
LEMMA StatusOnly ==
  ASSUME NEW r \in Records, NEW s \in InProgress \cup Verdicts
  PROVE  LET t == [r EXCEPT !.status = s]
         IN  /\ t.status = s
             /\ t.serial = r.serial /\ t.ranked = r.ranked
             /\ t.text = r.text /\ t.log = r.log /\ t.binary = r.binary
BY DEF Records

\* So do another status and another rank.
LEMMA StatusAndRank ==
  ASSUME NEW r \in Records, NEW s \in InProgress \cup Verdicts,
         NEW k \in BOOLEAN
  PROVE  LET t == [r EXCEPT !.status = s, !.ranked = k]
         IN  /\ t.status = s
             /\ t.serial = r.serial /\ t.ranked = k
             /\ t.text = r.text /\ t.log = r.log /\ t.binary = r.binary
BY DEF Records

\* So do another status and another log.
LEMMA StatusAndLog ==
  ASSUME NEW r \in Records, NEW s \in InProgress \cup Verdicts, NEW l \in Texts
  PROVE  LET t == [r EXCEPT !.status = s, !.log = l]
         IN  /\ t.status = s
             /\ t.serial = r.serial /\ t.ranked = r.ranked
             /\ t.text = r.text /\ t.log = l /\ t.binary = r.binary
BY DEF Records

\* So does another log.
LEMMA LogOnly ==
  ASSUME NEW r \in Records, NEW l \in Texts
  PROVE  LET t == [r EXCEPT !.log = l]
         IN  /\ t.status = r.status
             /\ t.serial = r.serial /\ t.ranked = r.ranked
             /\ t.text = r.text /\ t.log = l /\ t.binary = r.binary
BY DEF Records

\* What the handlers and the worker hold.
Held == /\ \A h \in Handlers : handler[h] # Idle => handler[h] \in HandlerAt
        /\ worker # Idle => worker \in WorkerAt
        /\ \A h \in Handlers : handler[h] \in HandlerAt \cup {Idle}
        /\ worker \in WorkerAt \cup {Idle}
        /\ \A id \in Ids : memory[id] \in Records \cup {Absent}
        /\ \A id \in Ids : disk[id] \in Records \cup {Absent, Bare, Torn}
        /\ \A id \in Ids : memory[id].serial # 0 <=> memory[id] \in Records
        /\ \A id \in Ids : disk[id].serial # 0 <=> disk[id] \in Records

\* The types say what is held.
LEMMA HeldIs == TypeOK => Held
<1> SUFFICES ASSUME TypeOK PROVE Held
  OBVIOUS
<1>1. \A r \in Records : r.serial # 0
  BY RecordIs
<1>2. /\ \A id \in Ids : memory[id] \in Records \cup {Absent}
      /\ \A id \in Ids : disk[id] \in Records \cup {Absent, Bare, Torn}
      /\ \A h \in Handlers : handler[h] \in HandlerAt \cup {Idle}
      /\ worker \in WorkerAt \cup {Idle}
  BY DEF TypeOK
<1> QED
  BY <1>1, <1>2, KindsHold DEF Held, Kinds

\* An id is of an index and a slug.
LEMMA IdIs == \A id \in Ids : id.index \in Nat /\ id.index \in 1 .. MaxIndex
BY ServerBounds DEF Ids

\* What a write does to the disk, thrown out of or not.
Written(id, record) ==
  /\ disk' \in [Ids -> Records \cup {Absent, Bare, Torn}]
  /\ \A i \in Ids : i # id => disk'[i] = disk[i]
  /\ disk'[id] = disk[id] \/ (Writable(record) /\ disk'[id] \in {record, Torn})
  /\ faults' \in Nat /\ faults' >= faults

\* writeRecord changes one record.json at most; what dump() would not take gets
\* past it only if a file could not be opened.
LEMMA WriteDoes ==
  ASSUME TypeOK, NEW id \in Ids, NEW record \in Records,
         WriteRecord(id, record) \/ WriteThrows(record)
  PROVE  /\ Written(id, record)
         /\ WriteRecord(id, record) /\ ~Writable(record) => faults' > 0
<1>1. faults \in Nat /\ disk \in [Ids -> Records \cup {Absent, Bare, Torn}]
  BY DEF TypeOK
<1>2. \/ Writable(record) /\ disk' = [disk EXCEPT ![id] = record]
         /\ faults' = faults
      \/ /\ Writable(record) /\ disk' = [disk EXCEPT ![id] = Torn]
         /\ faults' = faults + 1
      \/ disk' = disk /\ faults' = faults + 1
      \/ ~Writable(record) /\ disk' = disk /\ faults' = faults
         /\ WriteThrows(record)
  BY DEF WriteRecord, WriteThrows
<1>3. WriteRecord(id, record) /\ ~Writable(record) => faults' = faults + 1
  BY DEF WriteRecord
<1>4. /\ disk' \in [Ids -> Records \cup {Absent, Bare, Torn}]
      /\ \A i \in Ids : i # id => disk'[i] = disk[i]
  BY <1>1, <1>2
<1>8. disk'[id] = disk[id] \/ (Writable(record) /\ disk'[id] \in {record, Torn})
  <2>1. disk' = [disk EXCEPT ![id] = record] => disk'[id] = record
    BY <1>1
  <2>2. disk' = [disk EXCEPT ![id] = Torn] => disk'[id] = Torn
    BY <1>1
  <2> QED
    BY <1>2, <2>1, <2>2
<1>6. faults' = faults \/ faults' = faults + 1
  BY <1>2
<1>7. faults' \in Nat /\ faults' >= faults
  BY <1>1, <1>6
<1>5. WriteRecord(id, record) /\ ~Writable(record) => faults' > 0
  BY <1>1, <1>3
<1> QED
  BY <1>4, <1>5, <1>7, <1>8 DEF Written

\* What an update does to the memory and the disk, thrown out of or not.
LEMMA UpdateDoes ==
  ASSUME TypeOK, NEW id \in Ids, NEW record \in Records,
         Update(id, record) \/ UpdateThrows(id, record)
  PROVE  /\ memory' = [memory EXCEPT ![id] = record] /\ mutex = Free
         /\ memory' \in [Ids -> Records \cup {Absent}]
         /\ Written(id, record)
         /\ Update(id, record) /\ ~Writable(record) => faults' > 0
<1>1. WriteRecord(id, record) \/ WriteThrows(record)
  BY DEF Update, UpdateThrows
<1>2. memory' = [memory EXCEPT ![id] = record] /\ mutex = Free
  BY DEF Update, UpdateThrows, Enter
<1>3. memory' \in [Ids -> Records \cup {Absent}]
  BY <1>2 DEF TypeOK
<1>4. Update(id, record) => WriteRecord(id, record)
  BY DEF Update
<1> QED
  BY <1>1, <1>2, <1>3, <1>4, WriteDoes

-------------------------------------------------------------------------------
\* The queue and the request threads alone decide on these two.
LEMMA SameOwners ==
  UNCHANGED <<queue, handler>> =>
    \A id : (Waiting(id)' <=> Waiting(id)) /\ (Handled(id)' <=> Handled(id))
BY DEF Waiting, Handled

\* A report updates the record of the worker's own submission.
LEMMA ReportDoes ==
  ASSUME TypeOK, worker # Idle, NEW record \in Records, NEW then,
         Report(record, then)
  PROVE  /\ worker.id \in Ids /\ worker \in WorkerAt
         /\ memory' = [memory EXCEPT ![worker.id] = record]
         /\ memory' \in [Ids -> Records \cup {Absent}]
         /\ Written(worker.id, record)
         /\ \/ worker' = then /\ (~Writable(record) => faults' > 0)
            \/ worker' = [worker EXCEPT !.pc = "catch"] /\ ~Writable(record)
         /\ UNCHANGED <<phase, next, mutex, queue, handler, created, restarts>>
<1>1. worker \in WorkerAt /\ worker.id \in Ids
  BY HeldIs, KindsHold DEF Held, Kinds
<1>2. \/ Update(worker.id, record) /\ worker' = then
      \/ /\ UpdateThrows(worker.id, record)
         /\ worker' = [worker EXCEPT !.pc = "catch"]
  BY DEF Report
<1>3. UNCHANGED <<phase, next, mutex, queue, handler, created, restarts>>
  BY DEF Report
<1>4. UpdateThrows(worker.id, record) => ~Writable(record)
  BY DEF UpdateThrows, WriteThrows
<1>5. /\ memory' = [memory EXCEPT ![worker.id] = record]
      /\ memory' \in [Ids -> Records \cup {Absent}]
      /\ Written(worker.id, record)
      /\ Update(worker.id, record) /\ ~Writable(record) => faults' > 0
  BY <1>1, <1>2, UpdateDoes
<1> QED
  BY <1>1, <1>2, <1>3, <1>4, <1>5

\* Where the worker goes next with its submission, if not to its catch block.
GoesOn(then, record) ==
  /\ then \in WorkerAt /\ then.id = worker.id
  /\ then.pc # "catch" /\ then.record.serial = worker.record.serial
  /\ then.record.text = "plain" /\ ~then.record.ranked
  /\ record.status \in InProgress /\ ~record.ranked
  /\ then.pc \in {"evaluate", "evaluated"} =>
       artifact'[worker.id] = worker.record.serial
  /\ then.pc = "evaluated" => Writable(then.record) \/ ~Writable(record)
GivesVerdict(then, record) ==
  /\ then = Idle /\ record.status \in Verdicts
  /\ record.ranked => artifact'[worker.id] = record.serial
  /\ \/ record = [record EXCEPT !.status = "rejected", !.ranked = FALSE]
     \/ Writable(record) \/ faults > 0

\* The worker reports on its submission.
LEMMA WorkerReports ==
  ASSUME IInv, worker # Idle, NEW id, id = worker.id,
         NEW record \in Records, NEW then, Report(record, then),
         record.serial = worker.record.serial, record.text = "plain",
         GoesOn(then, record) \/ GivesVerdict(then, record),
         artifact' \in [Ids -> Nat],
         \A i \in Ids : i # id => artifact'[i] = artifact[i]
  PROVE  IInv'
<1>a. TypeOK /\ Held
  BY HeldIs DEF IInv
<1>b. /\ id \in Ids /\ worker \in WorkerAt /\ worker.record \in Records
      /\ memory' = [memory EXCEPT ![id] = record]
      /\ memory' \in [Ids -> Records \cup {Absent}]
      /\ disk' \in [Ids -> Records \cup {Absent, Bare, Torn}]
      /\ \A i \in Ids : i # id => disk'[i] = disk[i]
      /\ \/ disk'[id] = disk[id]
         \/ Writable(record) /\ disk'[id] \in {record, Torn}
      /\ faults' \in Nat /\ faults' >= faults
      /\ \/ worker' = then /\ (~Writable(record) => faults' > 0)
         \/ worker' = [worker EXCEPT !.pc = "catch"] /\ ~Writable(record)
      /\ UNCHANGED <<phase, next, mutex, queue, handler, created, restarts>>
  BY <1>a, ReportDoes, KindsHold DEF Kinds, Written
<1>c. /\ memory'[id] = record
      /\ \A i \in Ids : i # id => memory'[i] = memory[i]
  BY <1>a, <1>b DEF TypeOK
<1>d. \/ worker' = then /\ (~Writable(record) => faults' > 0)
      \/ /\ worker' \in WorkerAt /\ worker'.id = id /\ worker'.pc = "catch"
         /\ worker'.record = worker.record /\ ~Writable(record)
  BY <1>b DEF WorkerAt
<1>e. \/ worker' \in WorkerAt /\ worker'.id = id /\ worker' # Idle
      \/ worker' = Idle /\ then = Idle
  BY <1>d, KindsHold DEF GoesOn, GivesVerdict, Kinds
<1>f. \A i : /\ Waiting(i)' <=> Waiting(i)
             /\ Handled(i)' <=> Handled(i)
             /\ Worked(i)' => i = id
             /\ Worked(i)' => Worked(i)
             /\ worker' # Idle => Worked(id)'
  BY <1>b, <1>e, SameOwners DEF Worked
<1>g. /\ Worked(id) /\ \A i \in Ids : Waiting(i) \/ Handled(i) => i # id
      /\ InHand
  BY <1>b DEF IInv, Apart, Worked, Entered
<1>h. \A i : InUse(i)' => InUse(i)
  BY <1>f DEF InUse
<1>1. TypeOK'
  <2>1. worker' \in WorkerAt \cup {Idle}
    BY <1>e
  <2> QED
    BY <1>a, <1>b, <2>1 DEF TypeOK
<1>2. Threads'
  BY <1>b, <1>g DEF IInv, Threads, Running, Worked
<1>3. Apart'
  <2>1. Apart
    BY DEF IInv
  <2> QED
    BY <2>1, <1>b, <1>f, <1>h DEF Apart
<1>4. Entered'
  <2>1. ASSUME NEW h \in Handlers, handler'[h] # Idle PROVE Posted(h)'
    <3>1. Posted(h) /\ handler' = handler
      BY <2>1, <1>b DEF IInv, Entered
    <3>2. handler[h].id \in Ids
      BY <2>1, <3>1, <1>a, KindsHold DEF Held, Kinds
    <3>3. handler[h].id # id
      BY <3>1, <3>2, <2>1, <1>g DEF Handled
    <3> QED
      BY <3>1, <3>2, <3>3, <1>c DEF Posted, Pending
  <2>2. ASSUME NEW i \in Ids, Waiting(i)' PROVE Queued(i)'
    <3>1. Queued(i) /\ i # id
      BY <2>2, <1>f, <1>g DEF IInv, Entered
    <3> QED
      BY <3>1, <1>c DEF Queued
  <2>3. ASSUME worker' # Idle PROVE InHand'
    <3>1. worker'.id = id /\ worker' \in WorkerAt
      BY <2>3, <1>e
    <3>2. CASE worker' = then
      <4>1. GoesOn(then, record)
        BY <2>3, <3>2 DEF GivesVerdict
      <4> QED
        BY <3>1, <3>2, <4>1, <1>c DEF GoesOn, InHand
    <3>3. CASE worker'.pc = "catch" /\ worker'.record = worker.record
      BY <3>1, <3>3, <1>c, <1>g DEF InHand
    <3> QED
      BY <3>2, <3>3, <1>d
  <2> QED
    BY <2>1, <2>2, <2>3 DEF Entered
<1>5. Owned'
  <2> SUFFICES ASSUME NEW i \in Ids, Pending(i)'
               PROVE  InUse(i)'
    BY DEF Owned
  <2>1. CASE i = id
    <3>1. worker' # Idle
      BY <2>1, <1>c, <1>d, <1>e, KindsHold
         DEF GoesOn, GivesVerdict, InProgress, Verdicts, Kinds, Pending
    <3> QED
      BY <2>1, <3>1, <1>f DEF InUse
  <2>2. CASE i # id
    BY <2>2, <1>c, <1>f DEF IInv, Owned, Pending, InUse, Worked
  <2> QED
    BY <2>1, <2>2
<1>6. Garbled'
  <2>1. ASSUME worker'.pc = "evaluated", ~Writable(worker'.record)
        PROVE  faults' > 0
    <3>1. worker' = then /\ GoesOn(then, record)
      BY <2>1, <1>d, KindsHold DEF GivesVerdict, Kinds
    <3> QED
      BY <3>1, <2>1, <1>d, KindsHold DEF GoesOn, Kinds
  <2>2. ASSUME worker'.pc = "catch", memory'[worker'.id].status \in Verdicts
        PROVE  \/ memory'[worker'.id] = HostError(worker.id)'
               \/ ~Writable(memory'[worker'.id]) /\ faults' > 0
    <3>1. worker' # then /\ ~Writable(record) /\ worker'.id = id
      BY <2>2, <1>d, KindsHold DEF GoesOn, GivesVerdict, Kinds
    <3>2. record.status \in Verdicts /\ memory'[worker'.id] = record
      BY <3>1, <2>2, <1>c
    <3>3. GivesVerdict(then, record)
      BY <3>2 DEF GoesOn, InProgress, Verdicts
    <3>4. \/ record = [record EXCEPT !.status = "rejected", !.ranked = FALSE]
          \/ faults > 0
      BY <3>3, <3>1 DEF GivesVerdict
    <3>5. faults > 0 => faults' > 0
      BY <1>a, <1>b DEF TypeOK
    <3> QED
      BY <3>1, <3>2, <3>4, <3>5 DEF HostError
  <2>3. ASSUME NEW i \in Ids, Stored(i)' PROVE Writable(disk'[i])
    <3>1. disk'[i].serial # 0
      BY <2>3 DEF Stored
    <3>2. CASE disk'[i] = disk[i]
      BY <3>1, <3>2 DEF IInv, Garbled, Stored
    <3>3. CASE disk'[i] # disk[i]
      <4>1. i = id /\ Writable(record) /\ disk'[i] \in {record, Torn}
        BY <3>3, <1>b
      <4> QED
        BY <4>1, <3>1, KindsHold DEF Kinds
    <3> QED
      BY <3>2, <3>3
  <2> QED
    BY <2>1, <2>2, <2>3 DEF Garbled, Writable
<1>7. BoardCanBeShown'
  <2> SUFFICES ASSUME faults' = 0, NEW i \in Ids, memory'[i].serial # 0
               PROVE  memory'[i].text = "plain"
    BY DEF BoardCanBeShown, Entries
  <2>1. faults = 0
    BY <1>a, <1>b DEF TypeOK
  <2> QED
    BY <2>1, <1>c DEF IInv, BoardCanBeShown, Entries
<1>8. FourDigits => Once'
  <2> SUFFICES ASSUME FourDigits PROVE Once'
    OBVIOUS
  <2>0. Once
    BY DEF IInv
  <2>1. ASSUME NEW i \in Ids, i # id
        PROVE  /\ memory'[i] = memory[i] /\ disk'[i] = disk[i]
               /\ artifact'[i] = artifact[i] /\ (Stored(i)' <=> Stored(i))
    BY <2>1, <1>b, <1>c DEF Stored
  <2>2. /\ memory[id].serial = record.serial /\ record.serial # 0
        /\ id.index < next
    BY <1>b, <1>g, RecordIs DEF InHand, IInv, Apart, InUse
  <2>3. Stored(id)' => \/ disk'[id] = record
                       \/ disk'[id] = disk[id] /\ Stored(id)
    BY <1>b, KindsHold DEF Stored, Kinds
  <2>4. Stored(id) => disk[id].serial = record.serial /\ ~disk[id].ranked
    BY <2>0, <2>2, <1>b, <1>g DEF Once, Entries, InUse
  <2>5. \A i \in Ids : Running' /\ Stored(i)' => i.index < next'
    BY <2>0, <2>1, <2>2, <1>b DEF Once, Running
  <2>6. \A i \in Entries' : i.index < next'
    BY <2>0, <2>1, <2>2, <1>b DEF Once, Entries
  <2>7. \A i \in Entries' : Stored(i)' => disk'[i].serial = memory'[i].serial
    BY <2>0, <2>1, <2>3, <2>4, <1>c DEF Once, Entries
  <2>8. ASSUME NEW h \in Handlers, handler'[h].pc = "create"
        PROVE  ~Stored(handler[h].id)' /\ memory'[handler'[h].id] = Absent
    <3>1. handler' = handler /\ handler[h] # Idle
      BY <2>8, <1>b, KindsHold DEF Kinds
    <3>2. handler[h].id \in Ids
      BY <3>1, <1>a, KindsHold DEF Held, Kinds
    <3>3. handler[h].id # id
      BY <3>1, <3>2, <1>g DEF Handled
    <3> QED
      BY <3>1, <3>2, <3>3, <2>0, <2>1, <2>8 DEF Once
  <2>9. ASSUME NEW i \in Ids, InUse(i)', Stored(i)' PROVE ~disk'[i].ranked
    <3>1. CASE i # id
      BY <3>1, <2>9, <2>0, <2>1, <1>h DEF Once
    <3>2. CASE i = id
      <4>1. Worked(id)'
        BY <3>2, <2>9, <1>f, <1>g DEF InUse
      <4>2. Writable(record) => GoesOn(then, record)
        BY <4>1, <1>d DEF GivesVerdict, Worked
      <4>3. disk'[id] # disk[id] => Writable(record)
        BY <1>b
      <4> QED
        BY <3>2, <2>9, <2>3, <2>4, <4>2, <4>3 DEF GoesOn, Stored
    <3> QED
      BY <3>1, <3>2
  <2>10. ASSUME NEW i \in Ids, Stored(i)', disk'[i].ranked
         PROVE  artifact'[i] = disk'[i].serial
    <3>1. CASE i # id
      BY <3>1, <2>10, <2>0, <2>1 DEF Once
    <3>2. CASE i = id
      <4>1. disk'[id] = record /\ record.ranked
        BY <3>2, <2>10, <2>3, <2>4
      <4> QED
        BY <3>2, <4>1 DEF GoesOn, GivesVerdict
    <3> QED
      BY <3>1, <3>2
  <2> QED
    BY <2>5, <2>6, <2>7, <2>8, <2>9, <2>10 DEF Once
<1> QED
  BY <1>1, <1>2, <1>3, <1>4, <1>5, <1>6, <1>7, <1>8 DEF IInv

\* compileSubmission begins.
LEMMA CompileInv == IInv /\ Compile => IInv'
<1> SUFFICES ASSUME IInv, Compile
             PROVE  IInv'
  OBVIOUS
<1>1. PICK id : id = worker.id
  OBVIOUS
<1>2. PICK record : record = [worker.record EXCEPT !.status = "compiling"]
  OBVIOUS
<1>3. PICK then : then = [worker EXCEPT !.pc = "compiled", !.record = record]
  OBVIOUS
<1>4. worker # Idle /\ worker.pc = "compile" /\ Report(record, then)
      /\ artifact' = artifact
  BY <1>2, <1>3, KindsHold DEF Compile, Kinds
<1>5. worker \in WorkerAt /\ worker.record \in Records /\ InHand
  BY <1>4, HeldIs, KindsHold DEF IInv, Held, Kinds, Entered
<1>6. record \in Records
  BY <1>2, <1>5, StaysRecord DEF InProgress
<1>7. /\ record.status = "compiling" /\ record.serial = worker.record.serial
      /\ record.ranked = worker.record.ranked
      /\ record.text = worker.record.text
  BY <1>2, <1>5, StatusOnly DEF InProgress
<1>8. /\ then \in WorkerAt /\ then.id = worker.id /\ then.pc = "compiled"
      /\ then.record = record
  BY <1>3, <1>5, <1>6 DEF WorkerAt
<1>9. GoesOn(then, record)
  BY <1>5, <1>7, <1>8 DEF GoesOn, InHand, InProgress
<1>10. record.text = "plain"
  BY <1>5, <1>7 DEF InHand
<1>11. artifact' \in [Ids -> Nat]
  BY <1>4 DEF IInv, TypeOK
<1> QED
  BY <1>1, <1>4, <1>6, <1>7, <1>9, <1>10, <1>11, WorkerReports

\* evaluateSubmission begins.
LEMMA EvaluateInv == IInv /\ Evaluate => IInv'
<1> SUFFICES ASSUME IInv, Evaluate
             PROVE  IInv'
  OBVIOUS
<1>1. PICK id : id = worker.id
  OBVIOUS
<1>2. PICK record : record = [worker.record EXCEPT !.status = "evaluating"]
  OBVIOUS
<1>3. PICK then : then = [worker EXCEPT !.pc = "evaluated", !.record = record]
  OBVIOUS
<1>4. worker # Idle /\ worker.pc = "evaluate" /\ Report(record, then)
      /\ artifact' = artifact
  BY <1>2, <1>3, KindsHold DEF Evaluate, Kinds
<1>5. worker \in WorkerAt /\ worker.record \in Records /\ InHand
  BY <1>4, HeldIs, KindsHold DEF IInv, Held, Kinds, Entered
<1>6. record \in Records
  BY <1>2, <1>5, StaysRecord DEF InProgress
<1>7. /\ record.status = "evaluating" /\ record.serial = worker.record.serial
      /\ record.ranked = worker.record.ranked
      /\ record.text = worker.record.text
  BY <1>2, <1>5, StatusOnly DEF InProgress
<1>8. /\ then \in WorkerAt /\ then.id = worker.id /\ then.pc = "evaluated"
      /\ then.record = record
  BY <1>3, <1>5, <1>6 DEF WorkerAt
<1>9. GoesOn(then, record)
  BY <1>4, <1>5, <1>7, <1>8 DEF GoesOn, InHand, InProgress
<1>10. record.text = "plain"
  BY <1>5, <1>7 DEF InHand
<1>11. artifact' \in [Ids -> Nat]
  BY <1>4 DEF IInv, TypeOK
<1> QED
  BY <1>1, <1>4, <1>6, <1>7, <1>9, <1>10, <1>11, WorkerReports

\* evaluateSubmission has returned: the verdict.
LEMMA JudgeInv == IInv /\ Judge => IInv'
<1> SUFFICES ASSUME IInv, Judge
             PROVE  IInv'
  OBVIOUS
<1>1. PICK id : id = worker.id
  OBVIOUS
<1>2. PICK status \in Verdicts \ {"rejected"} :
        /\ worker.pc = "evaluated"
        /\ Report([worker.record EXCEPT !.status = status,
                                        !.ranked = (status = "ok")], Idle)
        /\ UNCHANGED artifact
  BY DEF Judge
<1>r. PICK ranked \in BOOLEAN : ranked = (status = "ok")
  OBVIOUS
<1>3. PICK record : record = [worker.record EXCEPT !.status = status,
                                                   !.ranked = ranked]
  OBVIOUS
<1>4. worker # Idle /\ Report(record, Idle) /\ artifact' = artifact
  BY <1>2, <1>3, <1>r, KindsHold DEF Kinds
<1>5. worker \in WorkerAt /\ worker.record \in Records /\ InHand
  BY <1>4, HeldIs, KindsHold DEF IInv, Held, Kinds, Entered
<1>6. record \in Records
  BY <1>3, <1>5, StaysRecord
<1>7. /\ record.status = status /\ record.serial = worker.record.serial
      /\ record.log = worker.record.log /\ record.text = worker.record.text
  BY <1>3, <1>5, StatusAndRank
<1>8. Writable(record) \/ faults > 0
  BY <1>2, <1>7 DEF IInv, Garbled, Writable
<1>9. GivesVerdict(Idle, record)
  BY <1>2, <1>4, <1>5, <1>7, <1>8 DEF GivesVerdict, InHand
<1>10. record.text = "plain"
  BY <1>5, <1>7 DEF InHand
<1>11. artifact' \in [Ids -> Nat]
  BY <1>4 DEF IInv, TypeOK
<1> QED
  BY <1>1, <1>2, <1>4, <1>6, <1>7, <1>9, <1>10, <1>11, WorkerReports

\* The compiler has failed: the rejection.
LEMMA CompileFailsInv == IInv /\ CompileFails => IInv'
<1> SUFFICES ASSUME IInv, CompileFails
             PROVE  IInv'
  OBVIOUS
<1>1. PICK id : id = worker.id
  OBVIOUS
<1>2. PICK compiled \in Compilations :
        /\ worker.pc = "compiled"
        /\ Report([worker.record EXCEPT !.status = "rejected",
                                        !.log = compiled.message], Idle)
        /\ artifact' \in Leftovers
  BY DEF CompileFails
<1>3. PICK record : record = [worker.record EXCEPT !.status = "rejected",
                                                   !.log = compiled.message]
  OBVIOUS
<1>4. worker # Idle /\ Report(record, Idle) /\ compiled.message \in Texts
  BY <1>2, <1>3, KindsHold DEF Kinds, Compilations
<1>5. worker \in WorkerAt /\ worker.record \in Records /\ InHand
      /\ worker.id \in Ids
  BY <1>4, HeldIs, KindsHold DEF IInv, Held, Kinds, Entered
<1>v. "rejected" \in InProgress \cup Verdicts
  BY DEF Verdicts
<1>6. record \in Records
  BY <1>3, <1>4, <1>5, <1>v, StaysRecord
<1>7. /\ record.status = "rejected" /\ record.serial = worker.record.serial
      /\ record.ranked = worker.record.ranked
      /\ record.text = worker.record.text
  BY <1>3, <1>4, <1>5, <1>v, StatusAndLog
<1>8. record.ranked = FALSE
  BY <1>5, <1>6, <1>7, RecordIs DEF InHand
<1>9. record = [record EXCEPT !.status = "rejected", !.ranked = FALSE]
  BY <1>6, <1>7, <1>8 DEF Records
<1>10. GivesVerdict(Idle, record)
  BY <1>7, <1>8, <1>9 DEF GivesVerdict, Verdicts
<1>11. record.text = "plain"
  BY <1>5, <1>7 DEF InHand
<1>12. worker.record.serial \in Nat /\ artifact \in [Ids -> Nat]
  BY <1>5, RecordIs DEF IInv, TypeOK
<1>13. /\ artifact' \in [Ids -> Nat]
       /\ \A i \in Ids : i # id => artifact'[i] = artifact[i]
  BY <1>1, <1>2, <1>5, <1>12 DEF Leftovers
<1> QED
  BY <1>1, <1>2, <1>4, <1>6, <1>7, <1>10, <1>11, <1>13, WorkerReports

\* The worker goes on without telling anybody.
LEMMA WorkerMoves ==
  ASSUME IInv, worker # Idle, NEW id, id = worker.id,
         worker' \in WorkerAt, worker'.id = id,
         worker'.pc \in {"evaluate", "catch"},
         memory[id].status \in InProgress, InHand',
         UNCHANGED <<phase, memory, next, mutex, queue, handler, disk, created,
                     restarts, faults>>,
         artifact' \in [Ids -> Nat],
         \A i \in Ids : i # id => artifact'[i] = artifact[i]
  PROVE  IInv'
<1>a. TypeOK /\ Held
  BY HeldIs DEF IInv
<1>b. id \in Ids /\ worker' # Idle
  BY <1>a, KindsHold DEF Held, Kinds
<1>f. \A i : /\ Waiting(i)' <=> Waiting(i)
             /\ Handled(i)' <=> Handled(i)
             /\ Worked(i)' <=> i = id
             /\ Worked(i) <=> i = id
             /\ InUse(i)' <=> InUse(i)
  BY <1>b, SameOwners DEF Worked, InUse
<1>g. \A i \in Ids : Waiting(i) => i # id
  BY <1>f DEF IInv, Apart
<1>1. TypeOK'
  BY <1>a DEF TypeOK
<1>2. Threads'
  BY DEF IInv, Threads, Running
<1>3. Apart'
  <2>1. Apart
    BY DEF IInv
  <2> QED
    BY <2>1, <1>f DEF Apart
<1>4. Entered'
  <2>1. ASSUME NEW h \in Handlers, handler'[h] # Idle PROVE Posted(h)'
    BY <2>1 DEF IInv, Entered, Posted, Pending
  <2>2. ASSUME NEW i \in Ids, Waiting(i)' PROVE Queued(i)'
    BY <2>2, <1>f, <1>g DEF IInv, Entered, Queued
  <2> QED
    BY <2>1, <2>2 DEF Entered
<1>5. Owned'
  BY <1>f DEF IInv, Owned, Pending
<1>6. Garbled'
  <2>1. Garbled
    BY DEF IInv
  <2> QED
    BY <2>1 DEF Garbled, Stored, Writable, InProgress, Verdicts
<1>7. BoardCanBeShown'
  BY DEF IInv, BoardCanBeShown, Entries
<1>8. FourDigits => Once'
  <2> SUFFICES ASSUME FourDigits PROVE Once'
    OBVIOUS
  <2>0. Once
    BY DEF IInv
  <2>1. \A i \in Ids : Stored(i)' <=> Stored(i)
    BY DEF Stored
  <2>2. \A i \in Ids : InUse(i)' /\ Stored(i)' => ~disk'[i].ranked
    BY <2>0, <2>1, <1>f DEF Once
  <2>3. \A i \in Ids : Stored(i)' /\ disk'[i].ranked =>
          artifact'[i] = disk'[i].serial
    BY <2>0, <2>1, <1>b, <1>f DEF Once, InUse
  <2> QED
    BY <2>0, <2>1, <2>2, <2>3 DEF Once, Entries, Running, Stored
<1> QED
  BY <1>1, <1>2, <1>3, <1>4, <1>5, <1>6, <1>7, <1>8 DEF IInv

\* The compiler has succeeded: the library is the submission's own.
LEMMA CompileSucceedsInv == IInv /\ CompileSucceeds => IInv'
<1> SUFFICES ASSUME IInv, CompileSucceeds
             PROVE  IInv'
  OBVIOUS
<1>1. PICK id : id = worker.id
  OBVIOUS
<1>2. PICK compiled \in Compilations :
        /\ worker.pc = "compiled"
        /\ artifact' = [artifact EXCEPT ![worker.id] = worker.record.serial]
        /\ worker' = [worker EXCEPT !.pc = "evaluate",
                                    !.record.log = compiled.message]
  BY DEF CompileSucceeds
<1>3. UNCHANGED <<phase, memory, next, mutex, queue, handler, disk, created,
                  restarts, faults>>
  BY DEF CompileSucceeds
<1>4. worker # Idle /\ compiled.message \in Texts
  BY <1>2, KindsHold DEF Kinds, Compilations
<1>5. worker \in WorkerAt /\ worker.record \in Records /\ InHand
      /\ worker.id \in Ids
  BY <1>4, HeldIs, KindsHold DEF IInv, Held, Kinds, Entered
<1>6. PICK record : record = [worker.record EXCEPT !.log = compiled.message]
  OBVIOUS
<1>s. record \in Records
  BY <1>4, <1>5, <1>6, StaysRecord, RecordIs
<1>7. /\ record \in Records /\ record.serial = worker.record.serial
      /\ record.ranked = worker.record.ranked
      /\ record.text = worker.record.text
  BY <1>4, <1>5, <1>6, <1>s, LogOnly
<1>8. /\ worker' \in WorkerAt /\ worker'.id = id /\ worker'.pc = "evaluate"
      /\ worker'.record = record
  BY <1>1, <1>2, <1>5, <1>6, <1>7 DEF WorkerAt
<1>9. worker.record.serial \in Nat /\ artifact \in [Ids -> Nat]
  BY <1>5, RecordIs DEF IInv, TypeOK
<1>10. /\ artifact' \in [Ids -> Nat]
       /\ artifact'[id] = worker.record.serial
       /\ \A i \in Ids : i # id => artifact'[i] = artifact[i]
  BY <1>1, <1>2, <1>5, <1>9
<1>11. memory[id].status \in InProgress
  BY <1>1, <1>2, <1>5 DEF InHand
<1>12. InHand'
  BY <1>1, <1>3, <1>5, <1>7, <1>8, <1>10, <1>11 DEF InHand
<1> QED
  BY <1>1, <1>3, <1>4, <1>8, <1>10, <1>11, <1>12, WorkerMoves

\* evaluateSubmission has thrown.
LEMMA EvaluationThrowsInv == IInv /\ EvaluationThrows => IInv'
<1> SUFFICES ASSUME IInv, EvaluationThrows
             PROVE  IInv'
  OBVIOUS
<1>1. PICK id : id = worker.id
  OBVIOUS
<1>2. /\ worker.pc = "evaluated" /\ worker' = [worker EXCEPT !.pc = "catch"]
      /\ artifact' = artifact
      /\ UNCHANGED <<phase, memory, next, mutex, queue, handler, disk, created,
                     restarts, faults>>
  BY DEF EvaluationThrows, storage
<1>4. worker # Idle
  BY <1>2, KindsHold DEF Kinds
<1>5. worker \in WorkerAt /\ worker.record \in Records /\ InHand
      /\ worker.id \in Ids
  BY <1>4, HeldIs, KindsHold DEF IInv, Held, Kinds, Entered
<1>8. /\ worker' \in WorkerAt /\ worker'.id = id /\ worker'.pc = "catch"
      /\ worker'.record = worker.record
  BY <1>1, <1>2, <1>5 DEF WorkerAt
<1>9. artifact' \in [Ids -> Nat]
  BY <1>2 DEF IInv, TypeOK
<1>11. memory[id].status \in InProgress
  BY <1>1, <1>2, <1>5 DEF InHand
<1>12. InHand'
  BY <1>1, <1>2, <1>5, <1>8 DEF InHand
<1> QED
  BY <1>1, <1>2, <1>4, <1>8, <1>9, <1>11, <1>12, WorkerMoves

\* The catch block of the worker.
LEMMA CatchInv == IInv /\ Catch => IInv'
<1> SUFFICES ASSUME IInv, Catch
             PROVE  IInv'
  OBVIOUS
<1>1. PICK id : id = worker.id
  OBVIOUS
<1>3. PICK record : record = [memory[id] EXCEPT !.status = "rejected",
                                                !.ranked = FALSE]
  OBVIOUS
<1>4. worker # Idle /\ Report(record, Idle) /\ artifact' = artifact
  BY <1>1, <1>3, KindsHold DEF Kinds, Catch, Report, HostError
<1>5. worker.record \in Records /\ InHand /\ memory[id] \in Records
  BY <1>1, <1>4, HeldIs, KindsHold DEF IInv, Held, Kinds, Entered, InHand
<1>v. "rejected" \in InProgress \cup Verdicts /\ "rejected" \in Verdicts
  BY DEF Verdicts
<1>6. record \in Records
  BY <1>3, <1>5, <1>v, StaysRecord
<1>7. /\ record.status = "rejected" /\ record.serial = memory[id].serial
      /\ record.ranked = FALSE /\ record.text = memory[id].text
  BY <1>3, <1>5, <1>v, StatusAndRank
<1>9. record = [record EXCEPT !.status = "rejected", !.ranked = FALSE]
  BY <1>6, <1>7 DEF Records
<1>10. GivesVerdict(Idle, record)
  BY <1>7, <1>9, <1>v DEF GivesVerdict
<1>11. record.serial = worker.record.serial /\ record.text = "plain"
  BY <1>1, <1>5, <1>7 DEF InHand
<1>12. artifact' \in [Ids -> Nat]
  BY <1>4 DEF IInv, TypeOK
<1> QED
  BY <1>1, <1>4, <1>6, <1>10, <1>11, <1>12, WorkerReports

\* pop(): what waited is with the worker now, and waits no more.
LEMMA TakeInv == IInv /\ Take => IInv'
<1> SUFFICES ASSUME IInv, Take
             PROVE  IInv'
  OBVIOUS
<1>a. TypeOK /\ Held
  BY HeldIs DEF IInv
<1>b. /\ Running /\ worker = Idle /\ queue # <<>> /\ queue \in Seq(Ids)
      /\ queue' = Tail(queue)
      /\ UNCHANGED <<phase, memory, next, mutex, handler, disk, artifact,
                     created,
                     restarts, faults>>
  BY <1>a DEF Take, TypeOK, storage
<1>c. PICK id \in Ids : id = Head(queue)
  BY <1>b
<1>d. PICK record : record = memory[id]
  OBVIOUS
<1>e. worker' = [pc |-> IF record.binary THEN "evaluate" ELSE "compile",
                 id |-> id, record |-> record]
  BY <1>c, <1>d DEF Take
<1>f. /\ Waiting(id)
      /\ \A k \in DOMAIN queue' : k + 1 \in DOMAIN queue
                                   /\ queue'[k] = queue[k + 1]
      /\ \A k \in DOMAIN queue : k # 1 => k - 1 \in DOMAIN queue'
                                          /\ queue'[k - 1] = queue[k]
      /\ queue' \in Seq(Ids)
      /\ \A k \in DOMAIN queue : k \in Nat
      /\ queue[1] = id /\ 1 \in DOMAIN queue
      /\ \A k \in DOMAIN queue' : k \in Nat \ {0}
  BY <1>b, <1>c DEF Waiting
<1>g. Apart
  BY DEF IInv
<1>h. /\ \A j, k \in DOMAIN queue' : queue'[j] = queue'[k] => j = k
      /\ ~Waiting(id)'
  BY <1>f, <1>g DEF Apart, Waiting
<1>i. \A i : Waiting(i)' => Waiting(i)
  BY <1>f DEF Waiting
<1>j. \A i : Waiting(i) => i = id \/ Waiting(i)'
  BY <1>f DEF Waiting
<1>k. Queued(id)
  BY <1>f DEF IInv, Entered
<1>l. record \in Records /\ record.binary \in BOOLEAN
  BY <1>d, <1>k, RecordIs DEF Queued
<1>m. /\ worker' \in WorkerAt /\ worker' # Idle
      /\ worker'.id = id /\ worker'.record = record
      /\ worker'.pc = IF record.binary THEN "evaluate" ELSE "compile"
  BY <1>e, <1>l, KindsHold DEF WorkerAt, Kinds
<1>n. \A i : /\ Handled(i)' <=> Handled(i)
             /\ Worked(i)' <=> i = id
             /\ ~Worked(i)
  BY <1>b, <1>m DEF Handled, Worked
<1>o. \A i : InUse(i)' <=> InUse(i)
  BY <1>f, <1>i, <1>j, <1>n DEF InUse
<1>1. TypeOK'
  BY <1>a, <1>b, <1>f, <1>m DEF TypeOK
<1>2. Threads'
  BY <1>b DEF IInv, Threads, Running
<1>3. Apart'
  <2>1. \A i \in Ids : Waiting(i)' => ~Handled(i)' /\ ~Worked(i)'
    BY <1>g, <1>h, <1>i, <1>n DEF Apart
  <2>2. \A i \in Ids : Handled(i)' => ~Worked(i)'
    BY <1>f, <1>g, <1>n DEF Apart
  <2>3. \A i \in Ids : InUse(i)' => i.index < next'
    BY <1>b, <1>g, <1>o DEF Apart
  <2>4. \A g, h \in Handlers : handler'[g] # Idle /\ handler'[h] # Idle
                            /\ handler'[g].id = handler'[h].id => g = h
    BY <1>b, <1>g DEF Apart
  <2> QED
    BY <1>h, <2>1, <2>2, <2>3, <2>4 DEF Apart
<1>4. Entered'
  <2>1. ASSUME NEW h \in Handlers, handler'[h] # Idle PROVE Posted(h)'
    BY <2>1, <1>b DEF IInv, Entered, Posted, Pending
  <2>2. ASSUME NEW i \in Ids, Waiting(i)' PROVE Queued(i)'
    BY <2>2, <1>b, <1>i DEF IInv, Entered, Queued
  <2>3. InHand'
    BY <1>b, <1>d, <1>k, <1>l, <1>m DEF InHand, Queued, InProgress
  <2> QED
    BY <2>1, <2>2, <2>3 DEF Entered
<1>5. Owned'
  BY <1>b, <1>o DEF IInv, Owned, Pending
<1>6. Garbled'
  BY <1>b, <1>m DEF IInv, Garbled, Stored, Writable
<1>7. BoardCanBeShown'
  BY <1>b DEF IInv, BoardCanBeShown, Entries
<1>8. FourDigits => Once'
  BY <1>b, <1>o DEF IInv, Once, Entries, Running, Stored
<1> QED
  BY <1>1, <1>2, <1>3, <1>4, <1>5, <1>6, <1>7, <1>8 DEF IInv

\* The process is gone.
LEMMA DieInv ==
  ASSUME IInv, NEW how \in {"down", "terminated"}, Die(how)
  PROVE  IInv'
<1>a. TypeOK /\ Held
  BY HeldIs DEF IInv
<1>b. /\ phase' = how /\ next' = 1 /\ mutex' = Free /\ queue' = <<>>
      /\ worker' = Idle
      /\ memory' = [id \in Ids |-> Absent]
      /\ handler' = [h \in Handlers |-> Idle]
      /\ UNCHANGED <<disk, artifact, created, restarts, faults>>
  BY DEF Die, storage
<1>c. \A i : ~Waiting(i)' /\ ~Handled(i)' /\ ~Worked(i)' /\ ~InUse(i)'
  BY <1>b DEF Waiting, Handled, Worked, InUse
<1>d. \A i \in Ids : memory'[i].serial = 0 /\ memory'[i] = Absent
  BY <1>b, KindsHold DEF Kinds
<1>1. TypeOK'
  BY <1>a, <1>b, ServerBounds DEF TypeOK
<1>2. Threads'
  BY <1>b, <1>d, KindsHold, ServerBounds DEF Threads, Running, Free, Kinds
<1>3. Apart'
  BY <1>b, <1>c DEF Apart
<1>4. Entered'
  BY <1>b, <1>c DEF Entered
<1>5. Owned'
  BY <1>d DEF Owned, Pending
<1>6. Garbled'
  BY <1>b, KindsHold DEF IInv, Garbled, Stored, Writable, Kinds
<1>7. BoardCanBeShown'
  BY <1>d DEF BoardCanBeShown, Entries
<1>8. FourDigits => Once'
  BY <1>b, <1>c, <1>d, KindsHold DEF IInv, Once, Entries, Running, Stored, Kinds
<1> QED
  BY <1>1, <1>2, <1>3, <1>4, <1>5, <1>6, <1>7, <1>8 DEF IInv

\* The process dies.
LEMMA CrashInv == IInv /\ Crash => IInv'
BY DieInv DEF Crash

\* The catch block throws.
LEMMA TerminateInv == IInv /\ Terminate => IInv'
BY DieInv DEF Terminate

\* The server stops listening, or has drained its queue.
LEMMA PhaseInv ==
  ASSUME IInv, Running, phase' \in {"closing", "exited"},
         \A h \in Handlers : handler[h] = Idle,
         phase' = "exited" => queue = <<>> /\ worker = Idle,
         UNCHANGED <<memory, next, mutex, queue, handler, worker, storage>>
  PROVE  IInv'
<1>b. UNCHANGED <<disk, artifact, created, restarts, faults>>
  BY DEF storage
<1>o. \A i : /\ Waiting(i)' <=> Waiting(i)
             /\ Handled(i)' <=> Handled(i)
             /\ Worked(i)' <=> Worked(i)
             /\ InUse(i)' <=> InUse(i)
  BY DEF Waiting, Handled, Worked, InUse
<1>1. TypeOK'
  BY <1>b DEF IInv, TypeOK
<1>2. Threads'
  BY <1>b DEF IInv, Threads, Running
<1>3. Apart'
  BY <1>o DEF IInv, Apart
<1>4. Entered'
  BY <1>b, <1>o DEF IInv, Entered, Posted, Pending, Queued, InHand
<1>5. Owned'
  BY <1>b, <1>o DEF IInv, Owned, Pending
<1>6. Garbled'
  BY <1>b DEF IInv, Garbled, Stored, Writable, HostError
<1>7. BoardCanBeShown'
  BY <1>b DEF IInv, BoardCanBeShown, Entries
<1>8. FourDigits => Once'
  BY <1>b, <1>o DEF IInv, Once, Entries, Running, Stored
<1> QED
  BY <1>1, <1>2, <1>3, <1>4, <1>5, <1>6, <1>7, <1>8 DEF IInv

\* listen() returns.
LEMMA ListenEndsInv == IInv /\ ListenEnds => IInv'
BY PhaseInv DEF ListenEnds, Running

\* The worker is joined.
LEMMA ExitInv == IInv /\ Exit => IInv'
BY PhaseInv DEF IInv, Threads, Exit, Running

-------------------------------------------------------------------------------
\* What is in use is that of the thread, the queue or the worker, one of them.
LEMMA ThreadHas ==
  ASSUME IInv, NEW h \in Handlers, handler[h] # Idle
  PROVE  /\ handler[h] \in HandlerAt /\ handler[h].id \in Ids
         /\ handler[h].record \in Records
         /\ Handled(handler[h].id) /\ InUse(handler[h].id)
         /\ ~Waiting(handler[h].id) /\ ~Worked(handler[h].id)
         /\ \A g \in Handlers : g # h /\ handler[g] # Idle =>
              handler[g].id # handler[h].id
         /\ handler[h].id.index < next
         /\ Posted(h) /\ phase = "up" /\ Running
<1>1. Held
  BY HeldIs DEF IInv
<1>2. /\ handler[h] \in HandlerAt /\ handler[h].id \in Ids
      /\ handler[h].record \in Records
  BY <1>1, KindsHold DEF Held, Kinds
<1>3. Handled(handler[h].id) /\ InUse(handler[h].id)
  BY DEF Handled, InUse
<1>4. phase = "up"
  BY DEF IInv, Threads
<1>5. Posted(h)
  BY DEF IInv, Entered
<1> QED
  BY <1>2, <1>3, <1>4, <1>5 DEF IInv, Apart, Running

\* What the other threads, the queue and the worker have of their submissions
\* stays, if nothing of those changes.
LEMMA OthersKeep ==
  ASSUME IInv, NEW id \in Ids, NEW h \in Handlers,
         \A g \in Handlers : g # h => handler'[g] = handler[g],
         \A g \in Handlers : g # h /\ handler[g] # Idle => handler[g].id # id,
         \A i \in Ids : i # id => memory'[i] = memory[i],
         \A i \in Ids : i # id => artifact'[i] = artifact[i],
         ~Waiting(id), ~Worked(id), worker' = worker
  PROVE  /\ \A g \in Handlers : g # h /\ handler'[g] # Idle => Posted(g)'
         /\ \A i \in Ids : Waiting(i) => Queued(i)'
         /\ worker' # Idle => InHand'
         /\ worker # Idle =>
              worker.id # id /\ memory'[worker.id] = memory[worker.id]
<1>1. Held
  BY HeldIs DEF IInv
<1>2. ASSUME NEW g \in Handlers, g # h, handler'[g] # Idle PROVE Posted(g)'
  <2>1. Posted(g) /\ handler'[g] = handler[g]
    BY <1>2 DEF IInv, Entered
  <2>2. handler[g].id \in Ids /\ handler[g].id # id
    BY <1>1, <1>2, KindsHold DEF Held, Kinds
  <2> QED
    BY <2>1, <2>2 DEF Posted, Pending
<1>3. ASSUME NEW i \in Ids, Waiting(i) PROVE Queued(i)'
  <2>1. Queued(i) /\ i # id
    BY <1>3 DEF IInv, Entered
  <2> QED
    BY <2>1 DEF Queued
<1>4. ASSUME worker # Idle
      PROVE  /\ worker.id # id /\ memory'[worker.id] = memory[worker.id]
             /\ InHand'
  <2>1. worker.id \in Ids /\ worker.id # id /\ InHand
    BY <1>1, <1>4, KindsHold DEF Held, Kinds, Worked, IInv, Entered
  <2> QED
    BY <2>1 DEF InHand
<1> QED
  BY <1>2, <1>3, <1>4

\* create() takes an index nobody has.
LEMMA CreateDirectoryInv ==
  \A h \in Handlers : IInv /\ CreateDirectory(h) => IInv'
<1> SUFFICES ASSUME NEW h \in Handlers, IInv, CreateDirectory(h)
             PROVE  IInv'
  OBVIOUS
<1>a. TypeOK /\ Held
  BY HeldIs DEF IInv
<1>p. PICK form \in Forms, text \in Texts :
        handler' = [handler EXCEPT ![h] =
          [pc |-> "create", id |-> [index |-> next, slug |-> form.slug],
           record |-> [serial |-> created + 1, status |-> "queued",
                       ranked |-> FALSE, text |-> text, log |-> "plain",
                       binary |-> Language(form) = "binary"]]]
        /\ disk' = [disk EXCEPT ![[index |-> next, slug |-> form.slug]] =
                      IF @ = Absent THEN Bare ELSE @]
  BY DEF CreateDirectory
<1>b. /\ phase = "up" /\ handler[h] = Idle /\ mutex = Free /\ next <= MaxIndex
      /\ mutex' = h /\ next' = next + 1 /\ created' = created + 1
      /\ UNCHANGED <<phase, memory, queue, worker, artifact, restarts, faults>>
  BY DEF CreateDirectory
<1>t. next \in Nat \ {0} /\ created \in Nat /\ next <= MaxIndex
      /\ MaxIndex \in Nat
  BY <1>a, <1>b, ServerBounds DEF TypeOK
<1>c. PICK id : id = [index |-> next, slug |-> form.slug]
  OBVIOUS
<1>r. PICK record : record =
        [serial |-> created + 1, status |-> "queued", ranked |-> FALSE,
         text |-> text, log |-> "plain", binary |-> Language(form) = "binary"]
  OBVIOUS
<1>d. id \in Ids /\ id.index = next
  BY <1>c, <1>t DEF Ids
<1>e. /\ record \in Records /\ record.status = "queued" /\ record.ranked = FALSE
  BY <1>r, <1>t DEF Records, InProgress, Texts
<1>x. PICK at : at = [pc |-> "create", id |-> id, record |-> record]
  OBVIOUS
<1>f. /\ at \in HandlerAt /\ at.pc = "create" /\ at.id = id
      /\ at.record = record
      /\ at # Idle
  BY <1>d, <1>e, <1>x, KindsHold DEF HandlerAt, Kinds
<1>g. /\ handler' = [handler EXCEPT ![h] = at]
      /\ disk' = [disk EXCEPT ![id] = IF @ = Absent THEN Bare ELSE @]
  BY <1>c, <1>p, <1>r, <1>x
<1>h. /\ handler'[h] = at
      /\ \A g \in Handlers : g # h => handler'[g] = handler[g]
  BY <1>a, <1>g DEF TypeOK
<1>i. /\ \A i \in Ids : i # id => disk'[i] = disk[i]
      /\ disk'[id] = disk[id] \/ disk'[id] = Bare
      /\ disk' \in [Ids -> Records \cup {Absent, Bare, Torn}]
  BY <1>a, <1>d, <1>g DEF TypeOK
<1>j. \A i \in Ids : Stored(i)' => Stored(i) /\ disk'[i] = disk[i]
  BY <1>i, KindsHold DEF Stored, Kinds
<1>k. ~InUse(id) /\ ~Waiting(id) /\ ~Worked(id) /\ ~Handled(id)
  BY <1>d, <1>t DEF IInv, Apart, InUse
<1>l. \A g \in Handlers : g # h /\ handler[g] # Idle => handler[g].id # id
  BY <1>k DEF Handled
<1>m. \A i : /\ Waiting(i)' <=> Waiting(i)
             /\ Worked(i)' <=> Worked(i)
             /\ Handled(i)' <=> Handled(i) \/ i = id
             /\ InUse(i)' <=> InUse(i) \/ i = id
  <2>1. \A i : (Waiting(i)' <=> Waiting(i)) /\ (Worked(i)' <=> Worked(i))
    BY <1>b DEF Waiting, Worked
  <2>2. \A i : Handled(i)' <=> Handled(i) \/ i = id
    BY <1>b, <1>f, <1>h DEF Handled
  <2> QED
    BY <2>1, <2>2 DEF InUse
<1>n. ~Pending(id)
  BY <1>d, <1>k DEF IInv, Owned
<1>o. \A g \in Handlers : g # h => handler[g].pc # "create"
  BY <1>b, ServerBounds DEF IInv, Threads, Free
<1>1. TypeOK'
  <2>1. handler' \in [Handlers -> HandlerAt \cup {Idle}]
    BY <1>a, <1>f, <1>g DEF TypeOK
  <2>2. next' \in 1 .. MaxIndex + 1
        /\ {created', restarts', faults'} \subseteq Nat
    BY <1>a, <1>b, <1>t DEF TypeOK
  <2> QED
    BY <1>a, <1>b, <1>i, <2>1, <2>2 DEF TypeOK
<1>2. Threads'
  BY <1>b, <1>f, <1>h, <1>o DEF IInv, Threads, Running
<1>3. Apart'
  <2>1. \A j, k \in DOMAIN queue' : queue'[j] = queue'[k] => j = k
    BY <1>b DEF IInv, Apart
  <2>2. \A i \in Ids : Waiting(i)' => ~Handled(i)' /\ ~Worked(i)'
    BY <1>k, <1>m DEF IInv, Apart
  <2>3. \A i \in Ids : Handled(i)' => ~Worked(i)'
    BY <1>k, <1>m DEF IInv, Apart
  <2>4. ASSUME NEW i \in Ids, InUse(i)' PROVE i.index < next'
    <3>1. InUse(i) => i.index < next
      BY DEF IInv, Apart
    <3> QED
      BY <3>1, <2>4, <1>b, <1>d, <1>m, <1>t, IdIs
  <2>5. \A f, g \in Handlers : handler'[f] # Idle /\ handler'[g] # Idle
                            /\ handler'[f].id = handler'[g].id => f = g
    BY <1>f, <1>h, <1>l DEF IInv, Apart
  <2> QED
    BY <2>1, <2>2, <2>3, <2>4, <2>5 DEF Apart
<1>4. Entered'
  <2>1. /\ \A g \in Handlers : g # h /\ handler'[g] # Idle => Posted(g)'
        /\ \A i \in Ids : Waiting(i) => Queued(i)'
        /\ worker' # Idle => InHand'
    BY <1>b, <1>d, <1>h, <1>k, <1>l, OthersKeep
  <2>2. Posted(h)'
    BY <1>b, <1>e, <1>f, <1>h, <1>n DEF Posted, Pending
  <2> QED
    BY <2>1, <2>2, <1>m DEF Entered
<1>5. Owned'
  BY <1>b, <1>m DEF IInv, Owned, Pending
<1>6. Garbled'
  BY <1>b, <1>j DEF IInv, Garbled, HostError, Writable
<1>7. BoardCanBeShown'
  BY <1>b DEF IInv, BoardCanBeShown, Entries
<1>8. FourDigits => Once'
  <2> SUFFICES ASSUME FourDigits PROVE Once'
    OBVIOUS
  <2>0. Once
    BY DEF IInv
  <2>1. \A i \in Ids : i.index < next => i.index < next'
    BY <1>b, <1>t, IdIs
  <2>2. Running
    BY <1>b DEF Running
  <2>3. ~Stored(id) /\ memory[id].serial = 0 /\ memory[id] = Absent
    <3>1. ~(id.index < next)
      BY <1>d, <1>t
    <3>2. ~Stored(id) /\ memory[id].serial = 0
      BY <2>0, <2>2, <3>1, <1>d DEF Once, Entries
    <3> QED
      BY <3>2, <1>a, <1>d DEF Held
  <2>4. \A i \in Ids : Running' /\ Stored(i)' => i.index < next'
    BY <2>0, <2>1, <2>2, <1>j DEF Once
  <2>5. \A i \in Entries' : i.index < next'
    BY <2>0, <2>1, <1>b DEF Once, Entries
  <2>6. \A i \in Entries' : Stored(i)' => disk'[i].serial = memory'[i].serial
    BY <2>0, <1>b, <1>j DEF Once, Entries
  <2>7. ASSUME NEW g \in Handlers, handler'[g].pc = "create"
        PROVE  ~Stored(handler[g].id)' /\ memory'[handler'[g].id] = Absent
    <3>1. handler'[g].id = id
      BY <2>7, <1>f, <1>h, <1>o
    <3>2. ~Stored(id)' /\ memory'[id] = Absent
      BY <2>3, <1>b, <1>d, <1>j
    <3> QED
      BY <3>1, <3>2 DEF Stored
  <2>8. \A i \in Ids : InUse(i)' /\ Stored(i)' => ~disk'[i].ranked
    BY <2>0, <2>3, <1>j, <1>m DEF Once
  <2>9. \A i \in Ids : Stored(i)' /\ disk'[i].ranked =>
          artifact'[i] = disk'[i].serial
    BY <2>0, <1>b, <1>j DEF Once
  <2> QED
    BY <2>4, <2>5, <2>6, <2>7, <2>8, <2>9 DEF Once
<1> QED
  BY <1>1, <1>2, <1>3, <1>4, <1>5, <1>6, <1>7, <1>8 DEF IInv

\* A request thread writes the record of its submission, and has it in memory.
Writes(h, id, record, at) ==
  /\ handler[h] # Idle /\ id = handler[h].id
  /\ record.serial = handler[h].record.serial /\ ~record.ranked
  /\ faults' = 0 => record.text = "plain"
  /\ memory' = [memory EXCEPT ![id] = record]
  /\ Written(id, record)
  /\ artifact' \in [Ids -> Nat]
  /\ \A i \in Ids : i # id => artifact'[i] = artifact[i]
  /\ mutex \in {h, Free} /\ mutex' = Free
  /\ handler' = [handler EXCEPT ![h] = at]
  /\ \/ at = Idle /\ record.status \in Verdicts
     \/ /\ at \in HandlerAt /\ at.pc = "store" /\ at.id = id
        /\ at.record = record /\ record.status = "queued"
  /\ UNCHANGED <<phase, next, queue, worker, created, restarts>>

\* Such a write keeps the invariant.
LEMMA ThreadWrites ==
  ASSUME IInv, NEW h \in Handlers, NEW id, NEW record \in Records, NEW at,
         Writes(h, id, record, at)
  PROVE  IInv'
<1> USE DEF Writes, Written
<1>a. TypeOK /\ Held
  BY HeldIs DEF IInv
<1>b. /\ handler[h] \in HandlerAt /\ id \in Ids /\ handler[h].record \in Records
      /\ Handled(id) /\ InUse(id) /\ ~Waiting(id) /\ ~Worked(id)
      /\ \A g \in Handlers : g # h /\ handler[g] # Idle => handler[g].id # id
      /\ id.index < next /\ Posted(h) /\ phase = "up" /\ Running
  BY ThreadHas
<1>c. /\ memory'[id] = record
      /\ \A i \in Ids : i # id => memory'[i] = memory[i]
      /\ memory' \in [Ids -> Records \cup {Absent}]
  BY <1>a, <1>b DEF TypeOK
<1>d. /\ handler'[h] = at /\ at \in HandlerAt \cup {Idle} /\ at.pc # "create"
      /\ \A g \in Handlers : g # h => handler'[g] = handler[g]
      /\ handler' \in [Handlers -> HandlerAt \cup {Idle}]
  BY <1>a, KindsHold DEF TypeOK, Kinds
<1>e. at # Idle => /\ at.pc = "store" /\ at.id = id /\ at.record = record
                   /\ record.status = "queued"
  OBVIOUS
<1>m. \A i : /\ Waiting(i)' <=> Waiting(i)
             /\ Worked(i)' <=> Worked(i)
             /\ Handled(i)' => Handled(i)
             /\ Handled(i) /\ i # id => Handled(i)'
             /\ InUse(i)' => InUse(i)
             /\ InUse(i) /\ i # id => InUse(i)'
             /\ at # Idle => Handled(id)' /\ InUse(id)'
  <2>1. \A i : (Waiting(i)' <=> Waiting(i)) /\ (Worked(i)' <=> Worked(i))
    BY DEF Waiting, Worked
  <2>2. \A i : Handled(i)' => Handled(i)
    BY <1>b, <1>d, <1>e DEF Handled
  <2>3. \A i : Handled(i) /\ i # id => Handled(i)'
    BY <1>b, <1>d DEF Handled
  <2>4. at # Idle => Handled(id)'
    BY <1>d, <1>e DEF Handled
  <2> QED
    BY <2>1, <2>2, <2>3, <2>4 DEF InUse
<1>o. \A g \in Handlers : g # h => handler[g].pc # "create"
  BY ServerBounds DEF IInv, Threads, Free
<1>p. /\ \A g \in Handlers : g # h /\ handler'[g] # Idle => Posted(g)'
      /\ \A i \in Ids : Waiting(i) => Queued(i)'
      /\ worker' # Idle => InHand'
      /\ worker # Idle =>
           worker.id # id /\ memory'[worker.id] = memory[worker.id]
  BY <1>b, <1>c, <1>d, OthersKeep
<1>1. TypeOK'
  BY <1>a, <1>c, <1>d DEF TypeOK
<1>2. Threads'
  BY <1>b, <1>d, <1>o, ServerBounds DEF IInv, Threads, Running, Free
<1>3. Apart'
  <2>1. \A j, k \in DOMAIN queue' : queue'[j] = queue'[k] => j = k
    BY DEF IInv, Apart
  <2>2. \A i \in Ids : Waiting(i)' => ~Handled(i)' /\ ~Worked(i)'
    BY <1>m DEF IInv, Apart
  <2>3. \A i \in Ids : Handled(i)' => ~Worked(i)'
    BY <1>m DEF IInv, Apart
  <2>4. \A i \in Ids : InUse(i)' => i.index < next'
    BY <1>m DEF IInv, Apart
  <2>5. \A f, g \in Handlers : handler'[f] # Idle /\ handler'[g] # Idle
                            /\ handler'[f].id = handler'[g].id => f = g
    BY <1>b, <1>d, <1>e DEF IInv, Apart
  <2> QED
    BY <2>1, <2>2, <2>3, <2>4, <2>5 DEF Apart
<1>4. Entered'
  <2>1. handler'[h] # Idle => Posted(h)'
    BY <1>c, <1>d, <1>e DEF Posted
  <2> QED
    BY <1>m, <1>p, <2>1 DEF Entered
<1>5. Owned'
  <2> SUFFICES ASSUME NEW i \in Ids, Pending(i)'
               PROVE  InUse(i)'
    BY DEF Owned
  <2>1. CASE i = id
    <3>1. at # Idle
      BY <2>1, <1>c, KindsHold DEF Pending, InProgress, Verdicts, Kinds
    <3> QED
      BY <2>1, <3>1, <1>m
  <2>2. CASE i # id
    BY <2>2, <1>c, <1>m DEF IInv, Owned, Pending
  <2> QED
    BY <2>1, <2>2
<1>6. Garbled'
  <2>0. Garbled /\ (faults > 0 => faults' > 0)
    BY <1>a DEF IInv, TypeOK
  <2>1. worker'.pc = "evaluated" /\ ~Writable(worker.record)' => faults' > 0
    BY <2>0 DEF Garbled, Writable
  <2>2. worker'.pc = "catch" /\ memory'[worker'.id].status \in Verdicts =>
               \/ memory'[worker'.id] = HostError(worker.id)'
               \/ ~Writable(memory[worker.id])' /\ faults' > 0
    <3>1. worker'.pc = "catch" => worker # Idle
      BY KindsHold DEF Kinds
    <3> QED
      BY <2>0, <3>1, <1>p DEF Garbled, HostError, Writable
  <2>3. ASSUME NEW i \in Ids, Stored(i)' PROVE Writable(disk'[i])
    <3>1. disk'[i].serial # 0
      BY <2>3 DEF Stored
    <3>2. CASE disk'[i] = disk[i]
      BY <2>0, <3>1, <3>2 DEF Garbled, Stored
    <3>3. CASE disk'[i] # disk[i]
      <4>1. i = id /\ Writable(record) /\ disk'[i] \in {record, Torn}
        BY <3>3, <2>3
      <4> QED
        BY <4>1, <3>1, KindsHold DEF Kinds
    <3> QED
      BY <3>2, <3>3
  <2> QED
    BY <2>1, <2>2, <2>3 DEF Garbled, Writable
<1>7. BoardCanBeShown'
  <2> SUFFICES ASSUME faults' = 0, NEW i \in Ids, memory'[i].serial # 0
               PROVE  memory'[i].text = "plain"
    BY DEF BoardCanBeShown, Entries
  <2>1. faults = 0
    BY <1>a DEF TypeOK
  <2> QED
    BY <2>1, <1>c DEF IInv, BoardCanBeShown, Entries
<1>8. FourDigits => Once'
  <2> SUFFICES ASSUME FourDigits PROVE Once'
    OBVIOUS
  <2>0. Once
    BY DEF IInv
  <2>1. \A i \in Ids : i # id => (Stored(i)' <=> Stored(i))
    BY DEF Stored
  <2>2. Stored(id) => disk[id].serial = record.serial /\ ~disk[id].ranked
    <3>1. Stored(id) => handler[h].pc = "store" /\ ~disk[id].ranked
      BY <2>0, <1>b, KindsHold DEF Once, Kinds
    <3>2. handler[h].pc = "store" => id \in Entries
                                     /\ memory[id].serial = record.serial
      BY <1>b, RecordIs DEF Posted, Entries
    <3> QED
      BY <2>0, <3>1, <3>2 DEF Once
  <2>3. Stored(id)' => disk'[id].serial = record.serial /\ ~disk'[id].ranked
    <3>1. CASE disk'[id] = disk[id]
      BY <2>2, <3>1 DEF Stored
    <3>2. CASE disk'[id] \in {record, Torn}
      BY <3>2, KindsHold DEF Stored, Kinds
    <3> QED
      BY <3>1, <3>2
  <2>4. \A i \in Ids : Running' /\ Stored(i)' => i.index < next'
    BY <2>0, <2>1, <1>b DEF Once
  <2>5. \A i \in Entries' : i.index < next'
    BY <2>0, <1>b, <1>c DEF Once, Entries
  <2>6. \A i \in Entries' : Stored(i)' => disk'[i].serial = memory'[i].serial
    BY <2>0, <2>1, <2>3, <1>c DEF Once, Entries
  <2>7. \A g \in Handlers : handler'[g].pc # "create"
    BY <1>d, <1>o
  <2>8. \A i \in Ids : InUse(i)' /\ Stored(i)' => ~disk'[i].ranked
    BY <2>0, <2>1, <2>3, <1>m DEF Once
  <2>9. \A i \in Ids : Stored(i)' /\ disk'[i].ranked =>
          artifact'[i] = disk'[i].serial
    BY <2>0, <2>1, <2>3 DEF Once
  <2> QED
    BY <2>4, <2>5, <2>6, <2>7, <2>8, <2>9 DEF Once
<1> QED
  BY <1>1, <1>2, <1>3, <1>4, <1>5, <1>6, <1>7, <1>8 DEF IInv

\* A request thread is done with its submission, which is in the queue now or
\* has nothing to wait for.
LEMMA ThreadLeaves ==
  ASSUME IInv, NEW h \in Handlers, handler[h] # Idle,
         NEW id, id = handler[h].id,
         handler' = [handler EXCEPT ![h] = Idle],
         \/ queue' = queue /\ ~Pending(id)
         \/ queue' = Append(queue, id) /\ Queued(id)',
         artifact' \in [Ids -> Nat],
         \A i \in Ids : i # id => artifact'[i] = artifact[i],
         mutex' \in Handlers \cup {Free},
         \A g \in Handlers : handler'[g].pc = "create" <=> mutex' = g,
         UNCHANGED <<phase, memory, next, worker, disk, created, restarts,
                     faults>>
  PROVE  IInv'
<1>a. TypeOK /\ Held
  BY HeldIs DEF IInv
<1>b. /\ handler[h] \in HandlerAt /\ id \in Ids /\ handler[h].record \in Records
      /\ Handled(id) /\ InUse(id) /\ ~Waiting(id) /\ ~Worked(id)
      /\ \A g \in Handlers : g # h /\ handler[g] # Idle => handler[g].id # id
      /\ id.index < next /\ Posted(h) /\ phase = "up" /\ Running
  BY ThreadHas
<1>d. /\ handler'[h] = Idle
      /\ \A g \in Handlers : g # h => handler'[g] = handler[g]
      /\ handler' \in [Handlers -> HandlerAt \cup {Idle}]
  BY <1>a DEF TypeOK
<1>q. /\ queue \in Seq(Ids) /\ queue' \in Seq(Ids)
      /\ \A j, k \in DOMAIN queue' : queue'[j] = queue'[k] => j = k
      /\ \A i : Waiting(i)' => Waiting(i) \/ i = id
      /\ \A i : Waiting(i) => Waiting(i)'
      /\ Waiting(id)' => Queued(id)'
      /\ Pending(id) => Waiting(id)'
  <2>0. queue \in Seq(Ids) /\ \A j, k \in DOMAIN queue : queue[j] = queue[k] =>
          j = k
    BY <1>a DEF TypeOK, IInv, Apart
  <2>1. CASE queue' = queue /\ ~Pending(id)
    BY <2>0, <2>1, <1>b DEF Waiting
  <2>2. CASE queue' = Append(queue, id) /\ Queued(id)'
    <3>1. /\ queue' \in Seq(Ids) /\ Len(queue) \in Nat
          /\ DOMAIN queue = 1 .. Len(queue)
          /\ DOMAIN queue' = 1 .. Len(queue) + 1
          /\ \A k \in DOMAIN queue : queue'[k] = queue[k]
          /\ queue'[Len(queue) + 1] = id
      BY <2>0, <2>2, <1>b
    <3>2. \A k \in DOMAIN queue' : k \in DOMAIN queue \/ k = Len(queue) + 1
      BY <3>1
    <3>3. \A k \in DOMAIN queue : queue[k] # id
      BY <1>b DEF Waiting
    <3>4. \A j, k \in DOMAIN queue' : queue'[j] = queue'[k] => j = k
      BY <2>0, <3>1, <3>2, <3>3
    <3>5. \A i : Waiting(i)' => Waiting(i) \/ i = id
      BY <3>1, <3>2 DEF Waiting
    <3>6. \A i : Waiting(i) => Waiting(i)'
      BY <3>1 DEF Waiting
    <3>7. Waiting(id)'
      BY <3>1 DEF Waiting
    <3> QED
      BY <2>0, <2>2, <3>1, <3>4, <3>5, <3>6, <3>7
  <2> QED
    BY <2>1, <2>2
<1>m. \A i : /\ Worked(i)' <=> Worked(i)
             /\ Handled(i)' <=> Handled(i) /\ i # id
             /\ InUse(i)' => InUse(i)
             /\ InUse(i) /\ i # id => InUse(i)'
             /\ Waiting(i)' => InUse(i)'
  <2>1. \A i : Worked(i)' <=> Worked(i)
    BY DEF Worked
  <2>2. \A i : Handled(i)' <=> Handled(i) /\ i # id
    BY <1>b, <1>d DEF Handled
  <2> QED
    BY <2>1, <2>2, <1>b, <1>q DEF InUse
<1>p. /\ \A g \in Handlers : g # h /\ handler'[g] # Idle => Posted(g)'
      /\ \A i \in Ids : Waiting(i) => Queued(i)'
      /\ worker' # Idle => InHand'
  BY <1>b, <1>d, OthersKeep
<1>1. TypeOK'
  BY <1>a, <1>d, <1>q DEF TypeOK
<1>2. Threads'
  BY <1>b DEF IInv, Threads, Running
<1>3. Apart'
  <2>2. \A i \in Ids : Waiting(i)' => ~Handled(i)' /\ ~Worked(i)'
    BY <1>b, <1>m, <1>q DEF IInv, Apart
  <2>3. \A i \in Ids : Handled(i)' => ~Worked(i)'
    BY <1>m DEF IInv, Apart
  <2>4. \A i \in Ids : InUse(i)' => i.index < next'
    BY <1>m DEF IInv, Apart
  <2>5. \A f, g \in Handlers : handler'[f] # Idle /\ handler'[g] # Idle
                            /\ handler'[f].id = handler'[g].id => f = g
    BY <1>d DEF IInv, Apart
  <2> QED
    BY <1>q, <2>2, <2>3, <2>4, <2>5 DEF Apart
<1>4. Entered'
  BY <1>d, <1>p, <1>q DEF Entered
<1>5. Owned'
  BY <1>m, <1>q DEF IInv, Owned, Pending
<1>6. Garbled'
  BY DEF IInv, Garbled, HostError, Stored, Writable
<1>7. BoardCanBeShown'
  BY DEF IInv, BoardCanBeShown, Entries
<1>8. FourDigits => Once'
  <2> SUFFICES ASSUME FourDigits PROVE Once'
    OBVIOUS
  <2>0. Once
    BY DEF IInv
  <2>1. \A i : Stored(i)' <=> Stored(i)
    BY DEF Stored
  <2>6. \A i \in Entries' :
          i.index < next' /\ (Stored(i)' => disk'[i].serial = memory'[i].serial)
    BY <2>0, <2>1 DEF Once, Entries
  <2>7. ASSUME NEW g \in Handlers, handler'[g].pc = "create"
        PROVE  ~Stored(handler[g].id)' /\ memory'[handler'[g].id] = Absent
    <3>1. handler'[g] = handler[g]
      BY <2>7, <1>d, KindsHold DEF Kinds
    <3> QED
      BY <2>0, <2>7, <3>1 DEF Once, Stored
  <2>8. \A i \in Ids : InUse(i)' /\ Stored(i)' => ~disk'[i].ranked
    BY <2>0, <2>1, <1>m DEF Once
  <2>9. \A i \in Ids : Stored(i)' /\ disk'[i].ranked =>
          artifact'[i] = disk'[i].serial
    BY <2>0, <2>1, <1>b DEF Once
  <2> QED
    BY <2>0, <2>1, <2>6, <2>7, <2>8, <2>9 DEF Once, Running
<1> QED
  BY <1>1, <1>2, <1>3, <1>4, <1>5, <1>6, <1>7, <1>8 DEF IInv

\* create() writes the record and enters it, or throws.
LEMMA CreateRecordInv == \A h \in Handlers : IInv /\ CreateRecord(h) => IInv'
<1> SUFFICES ASSUME NEW h \in Handlers, IInv, CreateRecord(h)
             PROVE  IInv'
  OBVIOUS
<1>1. PICK id : id = handler[h].id
  OBVIOUS
<1>2. PICK record : record = handler[h].record
  OBVIOUS
<1>3. /\ handler[h].pc = "create" /\ mutex' = Free
      /\ \/ /\ WriteRecord(id, record) /\ Enter(id, record)
            /\ handler' = [handler EXCEPT ![h].pc = "store"]
         \/ /\ WriteThrows(record) /\ memory' = memory
            /\ handler' = [handler EXCEPT ![h] = Idle]
      /\ UNCHANGED <<phase, next, queue, worker, artifact, created, restarts>>
  BY <1>1, <1>2 DEF CreateRecord
<1>4. handler[h] # Idle
  BY <1>3, KindsHold DEF Kinds
<1>5. /\ handler[h] \in HandlerAt /\ id \in Ids /\ record \in Records
      /\ Posted(h) /\ mutex = h /\ TypeOK
  BY <1>1, <1>2, <1>3, <1>4, ThreadHas DEF IInv, Threads
<1>6. artifact' \in [Ids -> Nat]
  BY <1>3, <1>5 DEF TypeOK
<1>7. record.status = "queued" /\ ~record.ranked /\ record.text \in Texts
  BY <1>2, <1>5, RecordIs DEF Posted
<1>8. CASE /\ WriteRecord(id, record) /\ Enter(id, record)
           /\ handler' = [handler EXCEPT ![h].pc = "store"]
  <2>1. PICK at : at = [handler[h] EXCEPT !.pc = "store"]
    OBVIOUS
  <2>2. /\ at \in HandlerAt /\ at.pc = "store" /\ at.id = id
        /\ at.record = record
    BY <2>1, <1>1, <1>2, <1>5 DEF HandlerAt
  <2>3. handler' = [handler EXCEPT ![h] = at]
    BY <2>1, <1>8, <1>5 DEF TypeOK
  <2>0. memory' = [memory EXCEPT ![id] = record]
    BY <1>8 DEF Enter
  <2>r. (WriteRecord(id, record) \/ WriteThrows(record)) /\ TypeOK /\ id \in Ids
    BY <1>5, <1>8
  <2>4. /\ Written(id, record)
        /\ WriteRecord(id, record) /\ ~Writable(record) => faults' > 0
    BY <2>r, <1>5, WriteDoes
  <2>5. faults' = 0 => record.text = "plain"
    BY <2>4, <1>8 DEF Writable
  <2>6. Writes(h, id, record, at)
    BY <2>0, <2>2, <2>3, <2>4, <2>5, <1>1, <1>2, <1>3, <1>4, <1>5, <1>6,
       <1>7 DEF Writes
  <2> QED
    BY <2>6, <1>5, ThreadWrites
<1>9. CASE /\ WriteThrows(record) /\ memory' = memory
           /\ handler' = [handler EXCEPT ![h] = Idle]
  <2>1. disk' = disk /\ faults' = faults
    BY <1>9 DEF WriteThrows
  <2>2. ~Pending(id)
    BY <1>1, <1>3, <1>5 DEF Posted
  <2>3. \A g \in Handlers : handler'[g].pc = "create" <=> mutex' = g
    BY <1>3, <1>5, <1>9, KindsHold, ServerBounds
       DEF IInv, Threads, Free, Kinds, TypeOK
  <2> QED
    BY <2>1, <2>2, <2>3, <1>1, <1>3, <1>4, <1>6, <1>9, ThreadLeaves
<1> QED
  BY <1>3, <1>8, <1>9

\* The upload could not be stored: rejected by the request thread.
LEMMA StoreFailsInv == \A h \in Handlers : IInv /\ StoreFails(h) => IInv'
<1> SUFFICES ASSUME NEW h \in Handlers, IInv, StoreFails(h)
             PROVE  IInv'
  OBVIOUS
<1>1. PICK id : id = handler[h].id
  OBVIOUS
<1>2. PICK record : record = [handler[h].record EXCEPT !.status = "rejected"]
  OBVIOUS
<1>3. /\ handler[h].pc = "store"
      /\ Update(id, record) \/ UpdateThrows(id, record)
      /\ artifact' \in {artifact, Uploaded(h)}
      /\ handler' = [handler EXCEPT ![h] = Idle]
      /\ UNCHANGED <<phase, next, mutex, queue, worker, created, restarts>>
  BY <1>1, <1>2 DEF StoreFails
<1>4. handler[h] # Idle
  BY <1>3, KindsHold DEF Kinds
<1>5. /\ handler[h] \in HandlerAt /\ id \in Ids /\ handler[h].record \in Records
      /\ Posted(h) /\ TypeOK
  BY <1>1, <1>4, ThreadHas DEF IInv
<1>v. "rejected" \in InProgress \cup Verdicts /\ "rejected" \in Verdicts
  BY DEF Verdicts
<1>6. record \in Records
  BY <1>2, <1>5, <1>v, StaysRecord
<1>7. /\ record.status = "rejected" /\ record.serial = handler[h].record.serial
      /\ ~record.ranked /\ record.text = handler[h].record.text
  BY <1>2, <1>5, <1>v, StatusOnly DEF Posted
<1>8. /\ memory' = [memory EXCEPT ![id] = record] /\ mutex = Free
      /\ Written(id, record)
  BY <1>3, <1>5, <1>6, UpdateDoes
<1>9. handler[h].record.serial \in Nat /\ artifact \in [Ids -> Nat]
  BY <1>5, RecordIs DEF TypeOK
<1>10. artifact' \in [Ids -> Nat] /\ \A i \in Ids : i # id =>
         artifact'[i] = artifact[i]
  BY <1>1, <1>3, <1>5, <1>9 DEF Uploaded
<1>11. faults' = 0 => record.text = "plain"
  <2>1. memory[id] = handler[h].record /\ memory[id].serial # 0
    BY <1>1, <1>3, <1>5, RecordIs DEF Posted
  <2>2. faults' = 0 => faults = 0
    BY <1>5, <1>8 DEF TypeOK, Written
  <2> QED
    BY <2>1, <2>2, <1>5, <1>7 DEF IInv, BoardCanBeShown, Entries
<1>12. Writes(h, id, record, Idle)
  BY <1>1, <1>3, <1>4, <1>6, <1>7, <1>8, <1>10, <1>11, <1>v DEF Writes
<1> QED
  BY <1>6, <1>12, ThreadWrites

\* The upload is stored and queued.
LEMMA AcceptInv == \A h \in Handlers : IInv /\ Accept(h) => IInv'
<1> SUFFICES ASSUME NEW h \in Handlers, IInv, Accept(h)
             PROVE  IInv'
  OBVIOUS
<1>1. PICK id : id = handler[h].id
  OBVIOUS
<1>2. PICK record : record = handler[h].record
  OBVIOUS
<1>3. /\ handler[h].pc = "store" /\ artifact' = Uploaded(h)
      /\ handler' = [handler EXCEPT ![h] = Idle]
      /\ queue' = IF record.text = "plain" THEN Append(queue, id) ELSE queue
      /\ UNCHANGED <<phase, memory, next, mutex, worker, disk, created,
                     restarts,
                     faults>>
  BY <1>1, <1>2 DEF Accept
<1>4. handler[h] # Idle
  BY <1>3, KindsHold DEF Kinds
<1>5. /\ handler[h] \in HandlerAt /\ id \in Ids /\ record \in Records
      /\ Posted(h) /\ TypeOK
  BY <1>1, <1>2, <1>4, ThreadHas DEF IInv
<1>6. memory[id] = record /\ record.status = "queued" /\ ~record.ranked
  BY <1>1, <1>2, <1>3, <1>5 DEF Posted
<1>9. record.serial \in Nat /\ artifact \in [Ids -> Nat]
  BY <1>5, RecordIs DEF TypeOK
<1>10. /\ artifact' \in [Ids -> Nat]
       /\ \A i \in Ids : i # id => artifact'[i] = artifact[i]
       /\ record.binary => artifact'[id] = record.serial
  BY <1>1, <1>2, <1>3, <1>5, <1>9 DEF Uploaded
<1>11. \/ queue' = queue /\ ~Pending(id)
       \/ queue' = Append(queue, id) /\ Queued(id)'
  <2>1. CASE record.text = "plain"
    BY <2>1, <1>3, <1>5, <1>6, <1>10 DEF Queued
  <2>2. CASE record.text # "plain"
    BY <2>2, <1>3, <1>6 DEF Pending
  <2> QED
    BY <2>1, <2>2
<1>12. \A g \in Handlers : handler'[g].pc = "create" <=> mutex' = g
  BY <1>3, <1>5, KindsHold DEF IInv, Threads, Kinds, TypeOK
<1>13. mutex' \in Handlers \cup {Free}
  BY <1>3, <1>5 DEF TypeOK
<1> QED
  BY <1>1, <1>3, <1>4, <1>10, <1>11, <1>12, <1>13, ThreadLeaves

-------------------------------------------------------------------------------
\* A set of natural numbers that is not empty has a least member.
LEMMA Least == \A T \in SUBSET Nat : T # {} => \E x \in T : \A y \in T : x <= y
<1> SUFFICES ASSUME NEW T \in SUBSET Nat, T # {}
             PROVE  \E x \in T : \A y \in T : x <= y
  OBVIOUS
<1>1. \E x \in T : \A y \in T : ~(<<y, x>> \in OpToRel(<, Nat))
  BY NatLessThanWellFounded, WFMin
<1>2. \A x, y \in Nat : <<y, x>> \in OpToRel(<, Nat) <=> y < x
  BY DEF OpToRel
<1>3. PICK x \in T : \A y \in T : ~(<<y, x>> \in OpToRel(<, Nat))
  BY <1>1
<1>4. ASSUME NEW y \in T PROVE x <= y
  <2>1. x \in Nat /\ y \in Nat
    OBVIOUS
  <2>2. ~(y < x)
    BY <1>2, <1>3, <2>1
  <2> QED
    BY <2>1, <2>2
<1> QED
  BY <1>3, <1>4

\* Max of a set of natural numbers with a bound is its greatest.
LEMMA MaxIs ==
  ASSUME NEW n \in Nat, NEW S \in SUBSET (0 .. n), S # {}
  PROVE  Max(S) \in S /\ \A x \in S : x <= Max(S)
<1>1. PICK T : T = {n - x : x \in S}
  OBVIOUS
<1>t. \A x \in S : x \in 0 .. n
  OBVIOUS
<1>2. T \in SUBSET Nat /\ T # {}
  <2>1. \A u \in T : u \in Nat
    BY <1>1, <1>t
  <2> QED
    BY <2>1, <1>1
<1>3. PICK t \in T : \A u \in T : t <= u
  BY <1>2, Least
<1>4. PICK m \in S : t = n - m
  BY <1>1, <1>3
<1>5. ASSUME NEW x \in S PROVE m >= x
  <2>1. n - x \in T
    BY <1>1
  <2>2. n - m <= n - x
    BY <2>1, <1>3, <1>4
  <2> QED
    BY <2>2
<1>6. \E y \in S : \A x \in S : y >= x
  BY <1>5
<1>7. Max(S) \in S /\ \A x \in S : Max(S) >= x
  BY <1>6 DEF Max
<1>8. \A x \in S : x \in Int
  BY <1>t
<1> QED
  BY <1>7, <1>8

\* A quotient is not greater than what was divided.
LEMMA Quotient == \A i, r, n \in Nat : r > 1 /\ i <= n => i \div r \in 0 .. n
<1>1. \A i, r \in Nat : r > 1 => i \div r \in Int /\ i \div r >= 0
  OBVIOUS
<1>2. \A i, r \in Nat : r > 1 => i \div r <= i
  OBVIOUS
<1> QED
  BY <1>1, <1>2

\* The index that is read back is no greater, and the same without a fifth digit.
LEMMA FirstFourIs ==
  \A i \in 1 .. MaxIndex : /\ FirstFour(i) \in 0 .. MaxIndex
                           /\ FourDigits => FirstFour(i) = i
<1> SUFFICES ASSUME NEW i \in 1 .. MaxIndex
             PROVE  /\ FirstFour(i) \in 0 .. MaxIndex
                    /\ FourDigits => FirstFour(i) = i
  OBVIOUS
<1>1. /\ MaxIndex \in Nat /\ Limit \in Nat /\ Radix \in Nat /\ Radix > 1
      /\ i \in Nat /\ i <= MaxIndex
  BY ServerBounds
<1>2. i \div Radix \in 0 .. MaxIndex
  BY <1>1, Quotient
<1>3. FirstFour(i) = i \/ FirstFour(i) = i \div Radix
  BY DEF FirstFour
<1>4. FourDigits => FirstFour(i) = i
  BY <1>1 DEF FourDigits, FirstFour
<1> QED
  BY <1>1, <1>2, <1>3, <1>4

\* The counter is recovered beyond every index that was read.
LEMMA RecoveredIs ==
  ASSUME NEW ids \in SUBSET Ids
  PROVE  /\ Recovered(ids) \in 1 .. MaxIndex + 1
         /\ FourDigits => \A id \in ids : id.index < Recovered(ids)
<1>1. PICK S : S = {1} \cup {FirstFour(id.index) + 1 : id \in ids}
  OBVIOUS
<1>2. MaxIndex \in Nat /\ MaxIndex + 1 \in Nat
  BY ServerBounds
<1>3. \A id \in ids : id.index \in 1 .. MaxIndex
  BY IdIs
<1>4. \A id \in ids : FirstFour(id.index) \in 0 .. MaxIndex
  BY <1>3, FirstFourIs
<1>5. \A x \in S : x \in 1 .. MaxIndex + 1
  BY <1>1, <1>2, <1>4
<1>6. S \in SUBSET (0 .. MaxIndex + 1) /\ S # {}
  <2>1. \A x \in S : x \in 0 .. MaxIndex + 1
    BY <1>2, <1>5
  <2> QED
    BY <2>1, <1>1
<1>7. Max(S) \in S /\ \A x \in S : x <= Max(S)
  BY <1>2, <1>6, MaxIs
<1>8. Recovered(ids) = Max(S)
  BY <1>1 DEF Recovered
<1>9. ASSUME FourDigits, NEW id \in ids PROVE id.index < Recovered(ids)
  <2>1. id.index + 1 \in S
    BY <1>1, <1>3, <1>9, FirstFourIs
  <2>2. id.index + 1 <= Max(S) /\ id.index \in Int /\ Max(S) \in Int
    BY <2>1, <1>2, <1>3, <1>5, <1>7
  <2> QED
    BY <2>2, <1>8
<1> QED
  BY <1>5, <1>7, <1>8, <1>9

\* load() keeps whose record it is and its words, and ends what was in progress.
LEMMA RestoredIs ==
  ASSUME NEW r \in Records
  PROVE  /\ Restored(r) \in Records /\ Restored(r).serial = r.serial
         /\ Restored(r).status \notin InProgress /\ Restored(r).text = r.text
<1>1. "rejected" \in InProgress \cup Verdicts /\ "rejected" \notin InProgress
  BY DEF Verdicts, InProgress
<1>2. CASE r.status \in InProgress
  <2>1. PICK s : s = [r EXCEPT !.status = "rejected", !.ranked = FALSE]
    OBVIOUS
  <2>2. s \in Records
    BY <2>1, <1>1, StaysRecord
  <2>3. s.status = "rejected" /\ s.serial = r.serial /\ s.text = r.text
    BY <2>1, <1>1, StatusAndRank
  <2> QED
    BY <1>1, <1>2, <2>1, <2>2, <2>3 DEF Restored
<1>3. CASE r.status \notin InProgress
  BY <1>3 DEF Restored
<1> QED
  BY <1>2, <1>3

\* load(): the board is what the disk has, and nobody is at work yet.
LEMMA RestartInv == IInv /\ Restart => IInv'
<1> SUFFICES ASSUME IInv, Restart
             PROVE  IInv'
  OBVIOUS
<1>a. TypeOK /\ Held
  BY HeldIs DEF IInv
<1>b. /\ ~Running /\ phase' = "up" /\ restarts' = restarts + 1
      /\ memory' = [id \in Ids |-> IF Stored(id) THEN Restored(disk[id])
                                                 ELSE Absent]
      /\ next' = Recovered({id \in Ids : Stored(id)})
      /\ UNCHANGED <<mutex, queue, handler, worker, disk, artifact, created,
                     faults>>
  BY DEF Restart
<1>c. /\ queue = <<>> /\ worker = Idle /\ \A h \in Handlers : handler[h] = Idle
  BY <1>b DEF IInv, Threads, Running
<1>d. \A i : ~Waiting(i)' /\ ~Handled(i)' /\ ~Worked(i)' /\ ~InUse(i)'
  BY <1>b, <1>c DEF Waiting, Handled, Worked, InUse
<1>e. \A i \in Ids : Stored(i) => disk[i] \in Records
  BY <1>a DEF Held, Stored
<1>f. ASSUME NEW i \in Ids
      PROVE  /\ Stored(i) => /\ memory'[i] \in Records
                             /\ memory'[i].serial = disk[i].serial
                             /\ memory'[i].status \notin InProgress
                             /\ memory'[i].text = disk[i].text
             /\ ~Stored(i) => memory'[i] = Absent /\ memory'[i].serial = 0
  <2>1. CASE Stored(i)
    BY <2>1, <1>b, <1>e, RestoredIs
  <2>2. CASE ~Stored(i)
    BY <2>2, <1>b, KindsHold DEF Kinds
  <2> QED
    BY <2>1, <2>2
<1>g. memory' \in [Ids -> Records \cup {Absent}]
  <2>1. memory' = [i \in Ids |-> memory'[i]]
    BY <1>b
  <2>2. \A i \in Ids : memory'[i] \in Records \cup {Absent}
    BY <1>f
  <2> QED
    BY <2>1, <2>2
<1>h. /\ next' \in 1 .. MaxIndex + 1
      /\ FourDigits => \A i \in Ids : Stored(i) => i.index < next'
  BY <1>b, RecoveredIs
<1>i. \A i : Stored(i)' <=> Stored(i)
  BY <1>b DEF Stored
<1>1. TypeOK'
  BY <1>a, <1>b, <1>g, <1>h DEF TypeOK
<1>2. Threads'
  BY <1>b, <1>c DEF IInv, Threads, Running
<1>3. Apart'
  BY <1>b, <1>c, <1>d DEF Apart
<1>4. Entered'
  BY <1>b, <1>c, <1>d DEF Entered
<1>5. Owned'
  BY <1>f DEF Owned, Pending
<1>6. Garbled'
  BY <1>b, <1>c, <1>i, KindsHold DEF IInv, Garbled, Kinds, Writable
<1>7. BoardCanBeShown'
  BY <1>f DEF BoardCanBeShown, Entries, IInv, Garbled, Writable
<1>8. FourDigits => Once'
  <2> SUFFICES ASSUME FourDigits PROVE Once'
    OBVIOUS
  <2>0. Once
    BY DEF IInv
  <2>1. \A i \in Entries' :
          i.index < next' /\ disk'[i].serial = memory'[i].serial
    BY <1>b, <1>f, <1>h DEF Entries
  <2>2. \A h \in Handlers : handler'[h].pc # "create"
    BY <1>b, <1>c, KindsHold DEF Kinds
  <2>3. \A i \in Ids : Stored(i)' /\ disk'[i].ranked =>
          artifact'[i] = disk'[i].serial
    BY <2>0, <1>b, <1>i DEF Once
  <2> QED
    BY <2>1, <2>2, <2>3, <1>d, <1>h, <1>i DEF Once
<1> QED
  BY <1>1, <1>2, <1>3, <1>4, <1>5, <1>6, <1>7, <1>8 DEF IInv

-------------------------------------------------------------------------------
\* A server that starts on an empty disk.
LEMMA InitInv == Init => IInv
<1> SUFFICES ASSUME Init
             PROVE  IInv
  OBVIOUS
<1>a. /\ phase = "up" /\ next = 1 /\ mutex = Free /\ queue = <<>>
      /\ worker = Idle
      /\ memory = [id \in Ids |-> Absent] /\ handler = [h \in Handlers |-> Idle]
      /\ disk = [id \in Ids |-> Absent] /\ artifact = [id \in Ids |-> 0]
      /\ created = 0 /\ restarts = 0 /\ faults = 0
  BY DEF Init
<1>b. \A i : ~Waiting(i) /\ ~Handled(i) /\ ~Worked(i) /\ ~InUse(i)
  BY <1>a DEF Waiting, Handled, Worked, InUse
<1>c. \A i \in Ids : /\ memory[i].serial = 0 /\ memory[i] = Absent
                     /\ ~Stored(i)
  BY <1>a, KindsHold DEF Kinds, Stored
<1>1. TypeOK
  BY <1>a, ServerBounds DEF TypeOK
<1>2. Threads
  BY <1>a, KindsHold, ServerBounds DEF Threads, Running, Free, Kinds
<1>3. Apart
  BY <1>a, <1>b DEF Apart
<1>4. Entered
  BY <1>a, <1>b DEF Entered
<1>5. Owned
  BY <1>c DEF Owned, Pending
<1>6. Garbled
  BY <1>a, <1>c, KindsHold DEF Garbled, Kinds
<1>7. BoardCanBeShown
  BY <1>c DEF BoardCanBeShown, Entries
<1>8. FourDigits => Once
  BY <1>a, <1>b, <1>c, KindsHold DEF Once, Entries, Kinds
<1> QED
  BY <1>1, <1>2, <1>3, <1>4, <1>5, <1>6, <1>7, <1>8 DEF IInv

\* A step that changes nothing.
LEMMA StutterInv == IInv /\ UNCHANGED vars => IInv'
<1> SUFFICES ASSUME IInv, UNCHANGED vars
             PROVE  IInv'
  OBVIOUS
<1>b. UNCHANGED <<phase, memory, next, mutex, queue, handler, worker, disk,
                  artifact, created, restarts, faults>>
  BY DEF vars, process, storage
<1>o. \A i : /\ Waiting(i)' <=> Waiting(i)
             /\ Handled(i)' <=> Handled(i)
             /\ Worked(i)' <=> Worked(i)
             /\ InUse(i)' <=> InUse(i)
  BY <1>b DEF Waiting, Handled, Worked, InUse
<1>1. TypeOK'
  BY <1>b DEF IInv, TypeOK
<1>2. Threads'
  BY <1>b DEF IInv, Threads, Running
<1>3. Apart'
  BY <1>b, <1>o DEF IInv, Apart
<1>4. Entered'
  BY <1>b, <1>o DEF IInv, Entered, Posted, Pending, Queued, InHand
<1>5. Owned'
  BY <1>b, <1>o DEF IInv, Owned, Pending
<1>6. Garbled'
  BY <1>b DEF IInv, Garbled, Stored, Writable, HostError
<1>7. BoardCanBeShown'
  BY <1>b DEF IInv, BoardCanBeShown, Entries
<1>8. FourDigits => Once'
  BY <1>b, <1>o DEF IInv, Once, Entries, Running, Stored
<1> QED
  BY <1>1, <1>2, <1>3, <1>4, <1>5, <1>6, <1>7, <1>8 DEF IInv

\* IInv holds initially and every step keeps it.
THEOREM Invariance == Spec => []IInv
<1>1. IInv /\ [Next]_vars => IInv'
  <2> SUFFICES ASSUME IInv, Next
               PROVE  IInv'
    BY StutterInv
  <2>1. CASE \E h \in Handlers : Post(h)
    BY <2>1, CreateDirectoryInv, CreateRecordInv, StoreFailsInv, AcceptInv
       DEF Post
  <2>2. CASE Worker
    BY <2>2, TakeInv, CompileInv, CompileFailsInv, CompileSucceedsInv,
       EvaluateInv,
       JudgeInv, EvaluationThrowsInv, CatchInv DEF Worker
  <2>3. CASE Terminate \/ Exit \/ ListenEnds \/ Crash \/ Restart
    BY <2>3, TerminateInv, ExitInv, ListenEndsInv, CrashInv, RestartInv
  <2> QED
    BY <2>1, <2>2, <2>3 DEF Next, Serve
<1> QED
  BY InitInv, <1>1, PTL DEF Spec

\* The variables stay in their types.
THEOREM TypeCorrect == Spec => []TypeOK
<1>1. IInv => TypeOK
  BY DEF IInv
<1> QED
  BY Invariance, <1>1, PTL

\* load() and the worker's catch block leave nothing claiming to be in progress
\* forever: what the board shows as such is with exactly one owner.
THEOREM NothingForgotten == Spec => []InProgressIsOwned
<1>1. IInv => InProgressIsOwned
  BY DEF IInv, Owned, Pending, Entries, InUse, Apart, InProgressIsOwned
<1> QED
  BY Invariance, <1>1, PTL

\* close() drains: a server that has exited has given every verdict it owes.
THEOREM DrainedAtExit == Spec => []ExitedMeansDone
<1>1. IInv => ExitedMeansDone
  <2> SUFFICES ASSUME IInv, phase = "exited", NEW id \in Entries,
                      memory[id].text = "plain"
               PROVE  memory[id].status \in Verdicts
    BY DEF ExitedMeansDone
  <2>1. ~InUse(id)
    BY DEF IInv, Threads, Running, InUse, Waiting, Handled, Worked
  <2>2. memory[id] \in Records
    BY HeldIs DEF IInv, Held, Entries
  <2> QED
    BY <2>1, <2>2, RecordIs DEF IInv, Owned, Pending, Entries
<1> QED
  BY Invariance, <1>1, PTL

\* GET /api/leaderboard: one document, and no entry that dump() would not take
\* while no record write has failed.
THEOREM BoardIsShown == Spec => []BoardCanBeShown
<1>1. IInv => BoardCanBeShown
  BY DEF IInv
<1> QED
  BY Invariance, <1>1, PTL

\* What is evaluated is what was submitted, and what has a rank is what the
\* game flies under its name, as long as no index has a fifth digit.
THEOREM OwnCodeScored ==
  ASSUME FourDigits
  PROVE  Spec => []ScoresOwnCode
<1>1. IInv => ScoresOwnCode
  <2> SUFFICES ASSUME IInv
               PROVE  ScoresOwnCode
    OBVIOUS
  <2>1. worker.pc = "evaluated" => artifact[worker.id] = worker.record.serial
    BY KindsHold DEF IInv, Entered, InHand, Kinds
  <2>2. ASSUME NEW id \in Ids, Stored(id), disk[id].ranked
        PROVE  id \in Listed /\ artifact[id] = disk[id].serial
    BY <2>2, FourDigits DEF IInv, Once, Listed, Stored
  <2> QED
    BY <2>1, <2>2 DEF ScoresOwnCode
<1> QED
  BY Invariance, <1>1, PTL

\* What the worker reports is of the submission it holds.
LEMMA ReportKeeps ==
  ASSUME IInv, worker # Idle, NEW record \in Records, NEW then,
         Report(record, then), record.serial = worker.record.serial
  PROVE  /\ worker.id \in Ids /\ worker.id \in Entries /\ InHand
         /\ memory[worker.id].serial = record.serial
         /\ memory' = [memory EXCEPT ![worker.id] = record]
         /\ Written(worker.id, record)
<1>1. /\ worker.id \in Ids /\ worker \in WorkerAt
      /\ memory' = [memory EXCEPT ![worker.id] = record]
      /\ Written(worker.id, record)
  BY ReportDoes DEF IInv
<1>2. InHand
  BY DEF IInv, Entered
<1> QED
  BY <1>1, <1>2, RecordIs DEF InHand, Entries

\* The steps that report, and with what.
LEMMA Reports ==
  ASSUME IInv, Compile \/ CompileFails \/ Evaluate \/ Judge \/ Catch
  PROVE  \E record \in Records : \E then :
           /\ worker # Idle /\ Report(record, then)
           /\ record.serial = worker.record.serial
           /\ worker.pc = "catch" => record = HostError(worker.id)
           /\ worker.pc = "catch" <=> Catch
<1>1. CASE Compile
  <2>1. PICK record : record = [worker.record EXCEPT !.status = "compiling"]
    OBVIOUS
  <2>2. worker.pc = "compile" /\ worker # Idle
        /\ Report(record, [worker EXCEPT !.pc = "compiled", !.record = record])
    BY <1>1, <2>1, KindsHold DEF Compile, Kinds
  <2>3. worker.record \in Records
    BY <2>2, HeldIs, KindsHold DEF IInv, Held, Kinds
  <2>4. record \in Records
    BY <2>1, <2>3, StaysRecord DEF InProgress
  <2>5. record.serial = worker.record.serial
    BY <2>1, <2>3, StatusOnly DEF InProgress
  <2> QED
    BY <2>2, <2>4, <2>5 DEF Catch
<1>2. CASE Evaluate
  <2>1. PICK record : record = [worker.record EXCEPT !.status = "evaluating"]
    OBVIOUS
  <2>2. worker.pc = "evaluate" /\ worker # Idle
        /\ Report(record, [worker EXCEPT !.pc = "evaluated", !.record = record])
    BY <1>2, <2>1, KindsHold DEF Evaluate, Kinds
  <2>3. worker.record \in Records
    BY <2>2, HeldIs, KindsHold DEF IInv, Held, Kinds
  <2>4. record \in Records
    BY <2>1, <2>3, StaysRecord DEF InProgress
  <2>5. record.serial = worker.record.serial
    BY <2>1, <2>3, StatusOnly DEF InProgress
  <2> QED
    BY <2>2, <2>4, <2>5 DEF Catch
<1>3. CASE CompileFails
  <2>1. PICK compiled \in Compilations :
          /\ worker.pc = "compiled"
          /\ Report([worker.record EXCEPT !.status = "rejected",
                                          !.log = compiled.message], Idle)
    BY <1>3 DEF CompileFails
  <2>2. PICK record : record = [worker.record EXCEPT !.status = "rejected",
                                                     !.log = compiled.message]
    OBVIOUS
  <2>3. worker # Idle /\ Report(record, Idle) /\ compiled.message \in Texts
    BY <2>1, <2>2, KindsHold DEF Kinds, Compilations
  <2>4. worker.record \in Records
    BY <2>3, HeldIs, KindsHold DEF IInv, Held, Kinds
  <2>v. "rejected" \in InProgress \cup Verdicts
    BY DEF Verdicts
  <2>5. record \in Records
    BY <2>2, <2>3, <2>4, <2>v, StaysRecord
  <2>6. record.serial = worker.record.serial
    BY <2>2, <2>3, <2>4, <2>v, StatusAndLog
  <2> QED
    BY <2>1, <2>3, <2>5, <2>6 DEF Catch
<1>4. CASE Judge
  <2>1. PICK status \in Verdicts \ {"rejected"} :
          /\ worker.pc = "evaluated"
          /\ Report([worker.record EXCEPT !.status = status,
                                          !.ranked = (status = "ok")], Idle)
    BY <1>4 DEF Judge
  <2>r. PICK ranked \in BOOLEAN : ranked = (status = "ok")
    OBVIOUS
  <2>2. PICK record : record = [worker.record EXCEPT !.status = status,
                                                     !.ranked = ranked]
    OBVIOUS
  <2>3. worker # Idle /\ Report(record, Idle)
    BY <2>1, <2>2, <2>r, KindsHold DEF Kinds
  <2>4. worker.record \in Records
    BY <2>3, HeldIs, KindsHold DEF IInv, Held, Kinds
  <2>5. record \in Records
    BY <2>2, <2>4, StaysRecord
  <2>6. record.serial = worker.record.serial
    BY <2>2, <2>4, StatusAndRank
  <2> QED
    BY <2>1, <2>3, <2>5, <2>6 DEF Catch
<1>5. CASE Catch
  <2>2. PICK record : record = HostError(worker.id)
    OBVIOUS
  <2>3. worker.pc = "catch" /\ worker # Idle /\ Report(record, Idle)
    BY <1>5, <2>2, KindsHold DEF Kinds, Catch, Report
  <2>4. worker.record \in Records /\ InHand
    BY <2>3, HeldIs, KindsHold DEF IInv, Held, Kinds, Entered
  <2>v. "rejected" \in InProgress \cup Verdicts
    BY DEF Verdicts
  <2>5. record \in Records
    BY <2>2, <2>4, <2>v, StaysRecord DEF HostError, InHand
  <2>6. record.serial = worker.record.serial
    BY <2>2, <2>4, <2>v, StatusAndRank DEF HostError, InHand
  <2> QED
    BY <1>5, <2>2, <2>3, <2>5, <2>6
<1> QED
  BY <1>1, <1>2, <1>3, <1>4, <1>5

\* The steps that do not touch the board.
LEMMA MemoryStays ==
  Take \/ CompileSucceeds \/ EvaluationThrows \/ Exit \/ ListenEnds
    \/ (\E h \in Handlers : CreateDirectory(h) \/ Accept(h)) => memory' = memory
BY DEF Take, CompileSucceeds, EvaluationThrows, Exit, ListenEnds,
   CreateDirectory,
       Accept

\* The steps that do not touch the records on disk.
LEMMA DiskStays ==
  Take \/ CompileSucceeds \/ EvaluationThrows \/ Exit \/ ListenEnds \/ Terminate
    \/ Crash \/ Restart \/ (\E h \in Handlers : Accept(h)) => disk' = disk
BY DEF Take, CompileSucceeds, EvaluationThrows, Exit, ListenEnds, Accept,
   Terminate,
       Crash, Restart, Die, storage

\* A verdict the board has shown is not taken back while the server runs and fewer
\* than two record writes have failed.
THEOREM VerdictStands ==
  ASSUME FourDigits
  PROVE  Spec => VerdictIsFinal
<1>1. ASSUME IInv, Next, Running, Running', faults' < 2, NEW id \in Entries,
             memory[id].status \in Verdicts
      PROVE  memory'[id] = memory[id]
  <2>0. TypeOK /\ Once /\ id \in Ids
    BY <1>1, FourDigits DEF IInv, Entries
  <2>1. CASE memory' = memory
    BY <2>1
  <2>2. ASSUME NEW h \in Handlers, CreateRecord(h)
        PROVE  memory'[id] = memory[id]
    <3>1. handler[h].pc = "create" /\ handler[h] # Idle
      BY <2>2, KindsHold DEF CreateRecord, Kinds
    <3>2. memory[handler[h].id] = Absent /\ handler[h].id \in Ids
      BY <2>0, <3>1, <1>1, ThreadHas DEF Once
    <3>3. id # handler[h].id
      BY <3>2, <1>1, KindsHold DEF Entries, Kinds
    <3> QED
      BY <2>0, <2>2, <3>2, <3>3 DEF CreateRecord, Enter, TypeOK
  <2>3. ASSUME NEW h \in Handlers, StoreFails(h) PROVE memory'[id] = memory[id]
    <3>1. handler[h].pc = "store" /\ handler[h] # Idle
      BY <2>3, KindsHold DEF StoreFails, Kinds
    <3>2. memory[handler[h].id].status = "queued" /\ handler[h].id \in Ids
      BY <3>1, <1>1, ThreadHas DEF Posted
    <3>3. id # handler[h].id
      BY <3>2, <1>1 DEF Verdicts
    <3> QED
      BY <2>0, <2>3, <3>2, <3>3 DEF StoreFails, Update, UpdateThrows, Enter,
         TypeOK
  <2>4. ASSUME Compile \/ CompileFails \/ Evaluate \/ Judge \/ Catch
        PROVE  memory'[id] = memory[id]
    <3>0. PICK record \in Records : \E then :
            /\ worker # Idle /\ Report(record, then)
            /\ record.serial = worker.record.serial
            /\ worker.pc = "catch" => record = HostError(worker.id)
            /\ worker.pc = "catch" <=> Catch
      BY <1>1, <2>4, Reports
    <3>1. PICK then :
            /\ worker # Idle /\ Report(record, then)
            /\ record.serial = worker.record.serial
            /\ worker.pc = "catch" => record = HostError(worker.id)
            /\ worker.pc = "catch" <=> Catch
      BY <3>0
    <3>2. /\ worker.id \in Ids /\ InHand
          /\ memory' = [memory EXCEPT ![worker.id] = record]
      BY <1>1, <3>1, ReportKeeps
    <3>3. memory'[worker.id] = record
          /\ \A i \in Ids : i # worker.id => memory'[i] = memory[i]
      BY <2>0, <3>2 DEF TypeOK
    <3>4. CASE id # worker.id
      BY <2>0, <3>3, <3>4
    <3>5. CASE id = worker.id
      <4>1. worker.pc = "catch"
        BY <1>1, <3>2, <3>5 DEF InHand, InProgress, Verdicts
      <4>2. \/ memory[id] = HostError(id)
            \/ ~Writable(memory[id]) /\ faults > 0
        BY <1>1, <3>5, <4>1 DEF IInv, Garbled
      <4>3. CASE memory[id] = HostError(id)
        BY <3>1, <3>3, <3>5, <4>1, <4>3
      <4>4. CASE ~Writable(memory[id]) /\ faults > 0
        <5>1. memory[id] \in Records
          BY <3>2, <3>5 DEF InHand
        <5>v. "rejected" \in InProgress \cup Verdicts
          BY DEF Verdicts
        <5>2. HostError(id).text = memory[id].text
              /\ HostError(id).log = memory[id].log
          BY <5>1, <5>v, StatusAndRank DEF HostError
        <5>3. ~Writable(HostError(id))
          BY <4>4, <5>2 DEF Writable
        <5>4. WriteRecord(id, HostError(id))
          BY <3>1, <3>5, <4>1 DEF Catch, Update
        <5>5. faults' = faults + 1 /\ faults \in Nat
          BY <2>0, <5>3, <5>4 DEF WriteRecord, TypeOK
        <5> QED
          BY <1>1, <4>4, <5>5
      <4> QED
        BY <4>2, <4>3, <4>4
    <3> QED
      BY <3>4, <3>5
  <2>5. ~Terminate /\ ~Crash /\ ~Restart
    BY <1>1 DEF Terminate, Crash, Restart, Die, Running
  <2> QED
    BY <1>1, <2>1, <2>2, <2>3, <2>4, <2>5, MemoryStays DEF Next, Post, Serve,
       Worker
<1>2. IInv /\ [Next]_vars =>
        [Running /\ Running' /\ faults' < 2 =>
           \A id \in Entries : memory[id].status \in Verdicts =>
             memory'[id] = memory[id]]_vars
  BY <1>1
<1> QED
  BY Invariance, <1>2, PTL DEF Spec, VerdictIsFinal

\* Across crashes and restarts a stored record is only ever replaced by a later
\* record of the same submission, as long as no index has a fifth digit.
THEOREM DirectoryIsOneSubmission ==
  ASSUME FourDigits
  PROVE  Spec => NeverReplaced
<1>1. ASSUME IInv, Next, NEW id \in Ids, Stored(id)
      PROVE  disk'[id] = Torn \/ disk'[id].serial = disk[id].serial
  <2>0. TypeOK /\ Once
    BY <1>1, FourDigits DEF IInv
  <2>1. CASE disk' = disk
    BY <2>1
  <2>2. ASSUME NEW h \in Handlers, CreateDirectory(h)
        PROVE  disk'[id].serial = disk[id].serial
    <3>1. PICK at : disk' = [disk EXCEPT ![at] = IF @ = Absent THEN Bare ELSE @]
      BY <2>2 DEF CreateDirectory
    <3>2. disk[id] # Absent
      BY <1>1, KindsHold DEF Stored, Kinds
    <3>3. disk'[id] = disk[id]
      BY <2>0, <3>1, <3>2 DEF TypeOK
    <3> QED
      BY <3>3
  <2>3. ASSUME NEW h \in Handlers, CreateRecord(h)
        PROVE  disk'[id] = disk[id]
    <3>1. handler[h].pc = "create" /\ handler[h] # Idle
      BY <2>3, KindsHold DEF CreateRecord, Kinds
    <3>2. ~Stored(handler[h].id) /\ handler[h].id \in Ids
          /\ handler[h].record \in Records
      BY <2>0, <3>1, <1>1, ThreadHas DEF Once
    <3>3. id # handler[h].id
      BY <3>2, <1>1
    <3>4. WriteRecord(handler[h].id, handler[h].record)
          \/ WriteThrows(handler[h].record)
      BY <2>3 DEF CreateRecord
    <3>5. Written(handler[h].id, handler[h].record)
      BY <2>0, <3>2, <3>4, WriteDoes
    <3> QED
      BY <3>3, <3>5 DEF Written
  <2>4. ASSUME NEW h \in Handlers, StoreFails(h)
        PROVE  disk'[id] = Torn \/ disk'[id].serial = disk[id].serial
    <3>1. handler[h].pc = "store" /\ handler[h] # Idle
      BY <2>4, KindsHold DEF StoreFails, Kinds
    <3>2. /\ memory[handler[h].id] = handler[h].record
          /\ handler[h].id \in Ids /\ handler[h].record \in Records
      BY <3>1, <1>1, ThreadHas DEF Posted
    <3>3. PICK record :
            record = [handler[h].record EXCEPT !.status = "rejected"]
      OBVIOUS
    <3>v. "rejected" \in InProgress \cup Verdicts
      BY DEF Verdicts
    <3>4. record \in Records
      BY <3>2, <3>3, <3>v, StaysRecord
    <3>5. record.serial = memory[handler[h].id].serial
          /\ handler[h].id \in Entries
      BY <3>2, <3>3, <3>v, StatusOnly, RecordIs DEF Entries
    <3>6. Update(handler[h].id, record) \/ UpdateThrows(handler[h].id, record)
      BY <2>4, <3>3 DEF StoreFails
    <3>7. Written(handler[h].id, record)
      BY <2>0, <3>2, <3>4, <3>6, UpdateDoes
    <3>8. id = handler[h].id => disk[id].serial = record.serial
      BY <1>1, <2>0, <3>5 DEF Once
    <3> QED
      BY <3>7, <3>8 DEF Written
  <2>5. ASSUME Compile \/ CompileFails \/ Evaluate \/ Judge \/ Catch
        PROVE  disk'[id] = Torn \/ disk'[id].serial = disk[id].serial
    <3>0. PICK record \in Records : \E then :
            /\ worker # Idle /\ Report(record, then)
            /\ record.serial = worker.record.serial
      BY <1>1, <2>5, Reports
    <3>1. PICK then :
            /\ worker # Idle /\ Report(record, then)
            /\ record.serial = worker.record.serial
      BY <3>0
    <3>2. /\ worker.id \in Entries /\ memory[worker.id].serial = record.serial
          /\ Written(worker.id, record)
      BY <1>1, <3>1, ReportKeeps
    <3>3. id = worker.id => disk[id].serial = record.serial
      BY <1>1, <2>0, <3>2 DEF Once
    <3> QED
      BY <3>2, <3>3 DEF Written
  <2> QED
    BY <1>1, <2>1, <2>2, <2>3, <2>4, <2>5, DiskStays DEF Next, Post, Serve,
       Worker
<1>2. IInv /\ [Next]_vars =>
        [\A id \in Ids : Stored(id) =>
           disk'[id] = Torn \/ disk'[id].serial = disk[id].serial]_vars
  BY <1>1
<1> QED
  BY Invariance, <1>2, PTL DEF Spec, NeverReplaced
===============================================================================
