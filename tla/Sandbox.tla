-------------------------------- MODULE Sandbox --------------------------------
(***************************************************************************)
(* server/Sandbox.cpp, runSandboxed: one parent supervising one child, and *)
(* a process the child may fork, over two non-blocking pipes, a deadline   *)
(* and the exit status.  Each system call of the parent is a step; the     *)
(* processes below it and the clock move in between.  Output is counted in *)
(* blocks.                                                                 *)
(***************************************************************************)
EXTENDS Integers, FiniteSets

CONSTANTS Cap,       (* limits.maxOutputBytes                               *)
          Room,      (* what a pipe holds                                   *)
          MaxBlocks  (* the most a process writes before RLIMIT_CPU ends it *)

ASSUME SandboxBounds == {Cap, Room, MaxBlocks} \subseteq Nat \ {0}

VARIABLES child,     (* "none", "setup" (from fork to execve), "running", or
                        how it ended: its exit code or "signal"                 *)
          forked,    (* the process it forked: "none", "running" or "gone"  *)
          left,      (* that one has called setsid()                        *)
          holders,   (* who holds the write end of each pipe                *)
          written,   (* blocks written to each pipe so far (history)        *)
          pipe,      (* blocks in each pipe                                 *)
          kept,      (* result.out and result.err                           *)
          truncated, (* result.outputTruncated                              *)
          late,      (* the deadline has passed                             *)
          pc, todo,  (* the parent's next call; pipes still to drain        *)
          open,      (* outOpen and errOpen                                 *)
          timedOut, floodKill, reaped,
          gaveUp,    (* waitpid() or poll() failed (history)                *)
          killed,    (* the parent's SIGKILL ended the child (history)      *)
          outcome    (* result.outcome                                      *)

below  == <<child, forked, left, holders, written>>
sorted == <<timedOut, floodKill, reaped, gaveUp, killed, outcome>>
vars == <<below, pipe, kept, truncated, late, pc, todo, open, sorted>>

Pipes == {"out", "err"}
Alive == {p \in {"child", "forked"} :
            IF p = "child" THEN child \in {"setup", "running"}
                           ELSE forked = "running"}
Nowhere == [f \in Pipes |-> {}]
Zero    == [f \in Pipes |-> 0]
Outcomes == {"Ok", "NonZeroExit", "Signalled", "TimedOut", "SpawnFailed"}

Init == /\ child = "none" /\ forked = "none" /\ left = FALSE
        /\ holders = Nowhere
        /\ written = Zero /\ pipe = Zero /\ kept = Zero
        /\ truncated = FALSE
        /\ late = FALSE
        /\ pc = "spawn" /\ todo = {}
        /\ open = Pipes
        /\ timedOut = FALSE /\ floodKill = FALSE /\ reaped = FALSE
        /\ gaveUp = FALSE /\ killed = FALSE
        /\ outcome = "none"

\* The locals of another call of runSandboxed.
Call == /\ child' = "none" /\ forked' = "none" /\ left' = FALSE
        /\ holders' = Nowhere
        /\ written' = Zero /\ pipe' = Zero /\ kept' = Zero
        /\ truncated' = FALSE
        /\ late' = FALSE
        /\ pc' = "spawn" /\ todo' = {}
        /\ open' = Pipes
        /\ timedOut' = FALSE /\ floodKill' = FALSE /\ reaped' = FALSE
        /\ gaveUp' = FALSE /\ killed' = FALSE
        /\ outcome' = "none"

-------------------------------------------------------------------------------
\* The other side of the pipes, and the clock.
Below(P) == P /\ UNCHANGED <<kept, truncated, late, pc, todo, open, sorted>>

\* A process ends: the write ends it held are closed.
Without(p) == [f \in Pipes |-> holders[f] \ {p}]

\* execve fails, or a call before it: childFail says so and exits.
ChildFails == Below(/\ child = "setup"
                    /\ child' = "126"
                    /\ holders' = Without("child")
                    /\ written' = [written EXCEPT !["err"] = 1]
                    /\ pipe' = [pipe EXCEPT !["err"] = 1]
                    /\ UNCHANGED <<forked, left>>)

Exec == Below(/\ child = "setup"
              /\ child' = "running"
              /\ UNCHANGED <<forked, left, holders, written, pipe>>)

\* A fork inherits stdout and stderr.
Fork == Below(/\ child = "running"
              /\ forked = "none"
              /\ forked' = "running"
              /\ holders' = [f \in Pipes |->
                   IF "child" \in holders[f] THEN holders[f] \cup {"forked"}
                                             ELSE holders[f]]
              /\ UNCHANGED <<child, left, written, pipe>>)

\* It goes into a session of its own; the child, which leads its group, cannot.
Leave == Below(/\ forked = "running"
               /\ left' = TRUE
               /\ UNCHANGED <<child, forked, holders, written, pipe>>)

Write == \E f \in Pipes : \E p \in holders[f] \cap Alive :
  Below(/\ p = "child" => child = "running"
        /\ written[f] < MaxBlocks
        /\ pipe[f] < Room
        /\ pipe' = [pipe EXCEPT ![f] = @ + 1]
        /\ written' = [written EXCEPT ![f] = @ + 1]
        /\ UNCHANGED <<child, forked, left, holders>>)

Close == \E f \in Pipes : \E p \in holders[f] \cap Alive :
  Below(/\ p = "child" => child = "running"
        /\ holders' = [holders EXCEPT ![f] = @ \ {p}]
        /\ UNCHANGED <<child, forked, left, written, pipe>>)

\* Exit, or a signal that is not the parent's: a crash, or a limit.
End == \/ \E how \in {"0", "1", "signal"} :
            Below(/\ child = "running"
                  /\ child' = how
                  /\ holders' = Without("child")
                  /\ UNCHANGED <<forked, left, written, pipe>>)
       \/ Below(/\ forked = "running"
                /\ forked' = "gone"
                /\ holders' = Without("forked")
                /\ UNCHANGED <<child, left, written, pipe>>)

\* The deadline counts from the fork.
Deadline == /\ ~late
            /\ pc # "spawn"
            /\ late' = TRUE
            /\ UNCHANGED <<below, pipe, kept, truncated, pc, todo, open, sorted>>

-------------------------------------------------------------------------------
\* pipe2 and fork, the parent's copies of the write ends closed again ...
Spawn ==
  /\ pc = "spawn"
  /\ child' = "setup"
  /\ holders' = [f \in Pipes |-> {"child"}]
  /\ pc' = "loop"
  /\ UNCHANGED <<forked, left, written, pipe, kept, truncated, late, todo, open,
                 sorted>>

\* ... or one of them fails, and nothing was started.
SpawnFails ==
  /\ pc = "spawn"
  /\ outcome' = "SpawnFailed"
  /\ pc' = "done"
  /\ UNCHANGED <<below, pipe, kept, truncated, late, todo, open, timedOut,
                 floodKill, reaped, gaveUp, killed>>

\* Mutant: the deadline is looked at only while there is output to come.
TimeOutReading ==
  /\ pc = "loop"
  /\ late /\ open # {}
  /\ timedOut' = TRUE
  /\ pc' = "kill"
  /\ UNCHANGED <<below, pipe, kept, truncated, late, todo, open, floodKill,
                 reaped, gaveUp, killed, outcome>>

\* The top of the loop: the deadline first; then, with both pipes at their
\* end, waitpid(WNOHANG) or a nap; otherwise poll.
TimeOut ==
  /\ pc = "loop"
  /\ late
  /\ timedOut' = TRUE
  /\ pc' = "kill"
  /\ UNCHANGED <<below, pipe, kept, truncated, late, todo, open, floodKill,
                 reaped, gaveUp, killed, outcome>>

Reap ==
  /\ pc = "loop"
  /\ ~late
  /\ open = {}
  /\ "child" \notin Alive
  /\ reaped' = TRUE
  /\ pc' = "drain"
  /\ UNCHANGED <<below, pipe, kept, truncated, late, todo, open, timedOut,
                 floodKill, gaveUp, killed, outcome>>

\* poll() returns what is readable or hung up; with nothing, the loop again.
Poll ==
  /\ pc = "loop"
  /\ ~late
  /\ todo' = {f \in open : pipe[f] > 0 \/ holders[f] = {}}
  /\ todo' # {}
  /\ pc' = "read"
  /\ UNCHANGED <<below, pipe, kept, truncated, late, open, sorted>>

\* waitpid() or poll() fails, other than by EINTR.
GiveUp ==
  /\ pc = "loop"
  /\ ~late
  /\ gaveUp' = TRUE
  /\ pc' = "kill"
  /\ UNCHANGED <<below, pipe, kept, truncated, late, todo, open, timedOut,
                 floodKill, reaped, killed, outcome>>

\* What drain appends of n blocks.
Appended(n, room) == IF n < room THEN n ELSE room

\* drain, one read(): past the cap it reads on and throws away.
Read == \E f \in todo : \E n \in 1 .. pipe[f] :
  /\ pc \in {"read", "drain"}
  /\ pipe' = [pipe EXCEPT ![f] = @ - n]
  /\ LET room == Cap - kept[f]
     IN  /\ kept' = [kept EXCEPT ![f] = @ + Appended(n, room)]
         /\ truncated' = (truncated \/ n > room)
  /\ UNCHANGED <<below, late, pc, todo, open, sorted>>

\* drain, the read() that finds nothing: EOF if nobody can write any more.
ReadNothing == \E f \in todo :
  /\ pc \in {"read", "drain"}
  /\ pipe[f] = 0
  /\ todo' = todo \ {f}
  /\ open' = IF holders[f] = {} THEN open \ {f} ELSE open
  /\ UNCHANGED <<below, pipe, kept, truncated, late, pc, sorted>>

\* The end of a turn of the loop.
Turn ==
  /\ pc = "read"
  /\ todo = {}
  /\ floodKill' = truncated
  /\ pc' = IF truncated THEN "kill" ELSE "loop"
  /\ UNCHANGED <<below, pipe, kept, truncated, late, todo, open, timedOut,
                 reaped, gaveUp, killed, outcome>>

\* Mutant: nothing is drained after the kill.
NoLastDrain == {}

\* The pipes drained once more after the kill.
LastDrain == open

\* Mutant: kill() of the child alone.
KillChild ==
  /\ pc = "kill"
  /\ killed' = ("child" \in Alive)
  /\ child' = IF "child" \in Alive THEN "signal" ELSE child
  /\ holders' = Without("child")
  /\ reaped' = TRUE
  /\ pc' = "drain"
  /\ todo' = LastDrain
  /\ UNCHANGED <<forked, left, written, pipe, kept, truncated, late, open,
                 timedOut, floodKill, gaveUp, outcome>>

\* kill() of the group, which a process that left it survives with the write
\* ends it holds, and of the child; then the waitpid that blocks.
Kill ==
  /\ pc = "kill"
  /\ killed' = ("child" \in Alive)
  /\ child' = IF "child" \in Alive THEN "signal" ELSE child
  /\ forked' = IF forked = "running" /\ ~left THEN "gone" ELSE forked
  /\ holders' = [f \in Pipes |-> IF left THEN holders[f] \ {"child"} ELSE {}]
  /\ reaped' = TRUE
  /\ pc' = "drain"
  /\ todo' = LastDrain
  /\ UNCHANGED <<left, written, pipe, kept, truncated, late, open, timedOut,
                 floodKill, gaveUp, outcome>>

\* Mutant: the exit status is looked at first.
VerdictOfStatus == IF child = "signal" THEN "Signalled"
                   ELSE IF timedOut \/ floodKill THEN "TimedOut"
                   ELSE IF child = "0" THEN "Ok" ELSE "NonZeroExit"

\* What the flags and the exit status say, the parent's own kill first.
Verdict == IF timedOut \/ floodKill THEN "TimedOut"
           ELSE IF child = "signal" THEN "Signalled"
           ELSE IF child = "0" THEN "Ok" ELSE "NonZeroExit"

Classify ==
  /\ pc = "drain"
  /\ todo = {}
  /\ outcome' = Verdict
  /\ pc' = "done"
  /\ UNCHANGED <<below, pipe, kept, truncated, late, todo, open, timedOut,
                 floodKill, reaped, gaveUp, killed>>

Parent == \/ Spawn \/ SpawnFails \/ TimeOut \/ Reap \/ GiveUp \/ Poll
          \/ Read \/ ReadNothing \/ Turn \/ Kill \/ Classify
Next == \/ ChildFails \/ Exec \/ Fork \/ Leave \/ Write \/ Close \/ End
        \/ Deadline \/ Parent
Spec == Init /\ [][Next]_vars
-------------------------------------------------------------------------------
TypeOK == /\ child \in {"none", "setup", "running", "0", "1", "126", "signal"}
          /\ forked \in {"none", "running", "gone"}
          /\ holders \in [Pipes -> SUBSET {"child", "forked"}]
          /\ written \in [Pipes -> 0 .. MaxBlocks]
          /\ pipe \in [Pipes -> 0 .. Room]
          /\ kept \in [Pipes -> 0 .. Cap]
          /\ pc \in {"spawn", "loop", "read", "kill", "drain", "done"}
          /\ todo \subseteq open /\ open \subseteq Pipes
          /\ {left, truncated, late, timedOut, floodKill, reaped, gaveUp, killed}
               \subseteq BOOLEAN
          /\ outcome \in Outcomes \cup {"none"}

\* SandboxOutcome: "Signalled" is a crash of the child's own and "TimedOut" the
\* parent's doing.  However the deadline, the flood and the child's own end
\* race, the parent's SIGKILL is never taken for a crash, nor for an exit --
\* unless a system call of the parent failed, which no flag records.
KillIsNotACrash == pc = "done" /\ killed /\ ~gaveUp => outcome = "TimedOut"

\* What the kill is for: once the parent has ended a run, for its time, its
\* output or a call that failed, no process of the group runs on, and only one
\* that had left it can.  Of a run that ended by itself a process may live on,
\* in the group or out of it, once it has let go of both pipes: nothing is killed
\* then, although SUBMISSIONS.md says that there are no orphans.
KillReachesTheGroup ==
  pc = "done" /\ outcome # "SpawnFailed" =>
    /\ "child" \notin Alive
    /\ "forked" \in Alive /\ ~left =>
         ~timedOut /\ ~floodKill /\ ~gaveUp /\ holders = Nowhere

\* f was read until nobody could write to it, or nobody was left who could.
ReadToItsEnd(f) == ~(left /\ f \in open)

\* What is parsed as the runner's report is everything the run has written, up
\* to the cap, also of a run that is killed: no block is left behind in a pipe
\* when the child ends between a poll() and the next look at it, and a report
\* that was cut is marked as cut.  Only a process that left the group before
\* the kill can write to an open pipe when the parent has read it for the last
\* time.
NothingDropped ==
  pc = "done" =>
    /\ \A f \in Pipes : ReadToItsEnd(f) =>
         /\ kept[f] = (IF written[f] < Cap THEN written[f] ELSE Cap)
         /\ written[f] > Cap => truncated
    /\ truncated => \E f \in Pipes : written[f] > Cap
===============================================================================
