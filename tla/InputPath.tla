------------------------------ MODULE InputPath ------------------------------
(***************************************************************************)
(* A control's way from the device to the pilot's InputState: the render   *)
(* thread polls the devices and emits what changed (InputTranslator), the  *)
(* CommandQueue carries it, the simulation thread drains it between ticks  *)
(* and applies it (SimulationLoop::handleCommand, InputState::apply).  The *)
(* queue is the one SpscQueue implements.                                  *)
(***************************************************************************)
EXTENDS Integers, Sequences, SequencesExt

CONSTANTS Axes,      (* controls with a position                             *)
          Held,      (* buttons that mean something while down               *)
          Toggles,   (* buttons that handleCommand takes on their down edge  *)
          Positions, (* what an axis can read, in steps of the device        *)
          Epsilon,   (* kAxisEpsilon, in the same steps                      *)
          Room,      (* Capacity - 1 of the CommandQueue                     *)
          MaxMoves   (* bound: device changes                                *)

ASSUME EpsilonAssumption == Epsilon \in Nat \ {0}
ASSUME RoomAssumption == Room \in Nat \ {0}

\* A control is of one kind, and an axis can rest in the middle.
ASSUME ControlsAssumption ==
         /\ IsFiniteSet(Axes) /\ IsFiniteSet(Held) /\ IsFiniteSet(Toggles)
         /\ Axes \cap (Held \cup Toggles) = {} /\ Held \cap Toggles = {}
         /\ Positions \subseteq Int /\ 0 \in Positions
         /\ MaxMoves \in Nat

VARIABLES reading,   (* what the device in use reads                         *)
          moves,     (* device changes so far                                *)
          at,        (* next control of this poll; 0 outside poll()          *)
          stored,    (* axes_ and buttons_ of the translator                 *)
          presses,   (* down edges seen of each toggle, modulo 2 (history)   *)
          queue, dropped, out,   (* the CommandQueue                         *)
          input,     (* InputState                                           *)
          toggled    (* toggles executed, modulo 2: flyByWire_ and its like  *)

device == <<reading, moves>>
vars == <<reading, moves, at, stored, presses, queue, dropped, out,
          input, toggled>>

Buttons  == Held \cup Toggles
Controls == Axes \cup Buttons
Values(c) == IF c \in Axes THEN Positions ELSE {0, 1}
Readings == {r \in [Controls -> Positions \cup {0, 1}] :
               \A c \in Controls : r[c] \in Values(c)}
Command  == [control : Controls, value : Positions \cup {0, 1}]
None     == [control |-> "none", value |-> 0]

Q == INSTANCE BoundedFifo WITH Items <- Command, Blank <- None, q <- queue

\* The emits of pollGamepad and of pollKeyboard: each covers every control,
\* the axes first.
PollOrder == SetToSeq(Axes) \o SetToSeq(Buttons)

Init == /\ reading \in Readings
        /\ moves = 0
        /\ at = 0
        /\ stored = [c \in Controls |-> 0]
        /\ presses = [c \in Toggles |-> 0]
        /\ Q!Init
        /\ input = [c \in Controls |-> 0]
        /\ toggled = [c \in Toggles |-> 0]

-------------------------------------------------------------------------------
\* The player moves one control, at any time, also during a poll.
Move == \E c \in Controls : \E v \in Values(c) \ {reading[c]} :
  /\ moves < MaxMoves
  /\ moves' = moves + 1
  /\ reading' = [reading EXCEPT ![c] = v]
  /\ UNCHANGED <<at, stored, presses, queue, dropped, out, input, toggled>>

\* poll(): the gamepad was plugged in or pulled out between two frames, and the
\* other device reads as it lies.
HotPlug ==
  /\ at = 0
  /\ moves < MaxMoves
  /\ moves' = moves + 1
  /\ reading' \in Readings
  /\ UNCHANGED <<at, stored, presses, queue, dropped, out, input, toggled>>

BeginPoll ==
  /\ at = 0
  /\ at' = 1
  /\ UNCHANGED <<device, stored, presses, queue, dropped, out, input, toggled>>

\* Mutant: only what is down, or off centre, is told.
ChangedToActive(c, v) == v # 0 /\ stored[c] # v

\* emitAxis and emitButton: is there a change worth telling?
Changed(c, v) ==
  IF c \in Axes THEN stored[c] - v >= Epsilon \/ v - stored[c] >= Epsilon
                ELSE stored[c] # v

\* The control after this one; 0 ends the poll.
Following(k) == IF k = Len(PollOrder) THEN 0 ELSE k + 1

\* emitAxis and emitButton: the stored value moves on whether or not push()
\* finds room.
EmitNext ==
  LET c == PollOrder[at]
      v == reading[c]
  IN  /\ at > 0
      /\ at' = Following(at)
      /\ IF Changed(c, v)
         THEN /\ stored' = [stored EXCEPT ![c] = v]
              /\ presses' = IF c \in Toggles /\ v = 1
                            THEN [presses EXCEPT ![c] = 1 - @] ELSE presses
              /\ Q!Push([control |-> c, value |-> v]) \/ Q!Drop
         ELSE UNCHANGED <<stored, presses, queue, dropped, out>>
      /\ UNCHANGED <<device, input, toggled>>

Poll == BeginPoll \/ EmitNext

\* InputState::apply: an axis takes the value, a button is down or up.
Applied(positions, cmd) == [positions EXCEPT ![cmd.control] = cmd.value]

\* Mutants: a toggle acts on every change, and is recorded as a level too.
EffectOnChange(s, cmd) ==
  IF cmd.control \in Toggles
  THEN [s EXCEPT !.toggled[cmd.control] = 1 - @]
  ELSE [s EXCEPT !.input = Applied(@, cmd)]
EffectAndLevel(s, cmd) ==
  [s EXCEPT !.input = Applied(@, cmd),
            !.toggled = IF cmd.control \in Toggles /\ cmd.value = 1
                        THEN [@ EXCEPT ![cmd.control] = 1 - @] ELSE @]

\* handleCommand: a toggle acts on its down edge and is not recorded as a
\* level; everything else, its release included, goes to InputState::apply.
Effect(s, cmd) ==
  IF cmd.control \in Toggles /\ cmd.value = 1
  THEN [s EXCEPT !.toggled[cmd.control] = 1 - @]
  ELSE [s EXCEPT !.input = Applied(@, cmd)]

\* run(): while (commands_->pop(c)) handleCommand(c).
Drain ==
  /\ Q!Pop
  /\ LET s == Effect([input |-> input, toggled |-> toggled], Head(queue))
     IN  input' = s.input /\ toggled' = s.toggled
  /\ UNCHANGED <<device, at, stored, presses>>

Next == Move \/ HotPlug \/ Poll \/ Drain
Spec == Init /\ [][Next]_vars

\* The render loop polls every frame, the simulation drains every pass.
FairSpec == Spec /\ WF_vars(Poll) /\ WF_vars(Drain)

-------------------------------------------------------------------------------
TypeOK == /\ reading \in Readings /\ stored \in Readings /\ input \in Readings
          /\ moves \in 0 .. MaxMoves
          /\ at \in 0 .. Len(PollOrder)
          /\ {presses, toggled} \subseteq [Toggles -> {0, 1}]
          /\ queue \in Seq(Command) /\ Len(queue) <= Room
          /\ \A k \in DOMAIN queue : queue[k].value \in Values(queue[k].control)
          /\ dropped \in Nat

\* HumanInput.hpp, above InputState: the positions are rebuilt from the
\* command stream.  As long as no push was refused, what the simulation has
\* plus what is still queued is exactly what the translator has told it: no
\* level and no toggle is lost, repeated or reordered.
Rebuilt ==
  dropped = 0 =>
    LET s == FoldLeft(Effect, [input |-> input, toggled |-> toggled], queue)
    IN  /\ \A c \in Axes \cup Held : s.input[c] = stored[c]
        /\ s.toggled = presses

\* A toggle never becomes a level: no later reader of InputState can see one
\* held, whatever order presses and releases arrive in and whichever of them
\* were dropped.
TogglesAreEdges == \A c \in Toggles : input[c] = 0

Near(c) == IF c \in Axes
           THEN input[c] - reading[c] < Epsilon /\ reading[c] - input[c] < Epsilon
           ELSE c \in Held => input[c] = reading[c]

\* InputTranslator.hpp, above the class: polling gives the resting position of
\* every control and survives hot-plugging.  Once the devices rest, the pilot's
\* input comes to agree with them and stays so, if the queue never overflowed.
RestingPosition == <>[](dropped = 0 => \A c \in Controls : Near(c))
===============================================================================
