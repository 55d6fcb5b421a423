---------------------------- MODULE RocketCatalogue ----------------------------
(***************************************************************************)
(* data/RocketCatalogue.cpp and core/RocketSpec.hpp: vehicles out of JSON  *)
(* files.  A file is a record whose fields are its keys: a key it does not *)
(* have is not in its DOMAIN.  Quantities are integers in the units of the *)
(* file; a name is a sequence of parts of which InlineName keeps NameRoom. *)
(***************************************************************************)
EXTENDS Integers, SequencesExt

CONSTANTS MaxThrusters,  (* kMaxThrusters                                   *)
          NameRoom       (* what fits in RocketName                         *)

ASSUME RocketBounds == {MaxThrusters, NameRoom} \subseteq Nat \ {0}

\* What parseRocketJson gets from the JSON parser.  A value of another type makes
\* get() throw and the file is refused, as one that misses the key is: it is
\* among the files that miss it.
Quantity(obj, key) == key \in DOMAIN obj => obj[key] \in Int
WellFormed(f) ==
  /\ \A key \in {"mass", "length", "width"} : Quantity(f, key)
  /\ "thrusters" \in DOMAIN f =>
       /\ Len(f.thrusters) \in Nat
       /\ DOMAIN f.thrusters = 1 .. Len(f.thrusters)
       /\ \A i \in DOMAIN f.thrusters :
            /\ Quantity(f.thrusters[i], "max_thrust")
            /\ Quantity(f.thrusters[i], "min_thrust")

\* A file that cannot be opened, and one whose text is not JSON.
NoDefinition == {[error |-> "cannot open file"], [error |-> "parse error"]}

InlineName(text) == SubSeq(text, 1, Min({NameRoom, Len(text)}))

Clamp(v, lo, hi) == IF v < lo THEN lo ELSE IF v > hi THEN hi ELSE v

\* optional
Optional(obj, key, fallback) ==
  IF key \in DOMAIN obj THEN obj[key] ELSE fallback

-------------------------------------------------------------------------------
\* parseThruster: what makes it throw; a floor above the ceiling does not.
ThrusterFault(j) == \/ {"at", "max_thrust"} \ DOMAIN j # {}
                    \/ j.max_thrust <= 0

\* Mutant: the floor as the file has it.
FloorAsWritten(j) ==
  [minThrust |-> Optional(j, "min_thrust", 0), maxThrust |-> j.max_thrust,
   rampUp |-> Optional(j, "ramp_up", 0),
   rampDown |-> Optional(j, "ramp_down", Optional(j, "ramp_up", 0))]

ParseThruster(j) ==
  [minThrust |-> Clamp(Optional(j, "min_thrust", 0), 0, j.max_thrust),
   maxThrust |-> j.max_thrust,
   rampUp |-> Optional(j, "ramp_up", 0),
   rampDown |-> Optional(j, "ramp_down", Optional(j, "ramp_up", 0))]

\* parseRocketJson: a file is refused as a whole.
Fault(f) ==
  \/ f \in NoDefinition
  \/ {"mass", "length", "width", "thrusters"} \ DOMAIN f # {}
  \/ f.mass <= 0 \/ f.length <= 0 \/ f.width <= 0
  \/ Len(f.thrusters) \notin 1 .. MaxThrusters
  \/ \E i \in DOMAIN f.thrusters : ThrusterFault(f.thrusters[i])

Parse(f) ==
  [name |-> InlineName(Optional(f, "name", <<"unnamed">>)),
   mass |-> f.mass, length |-> f.length, width |-> f.width,
   thrusters |-> [i \in DOMAIN f.thrusters |-> ParseThruster(f.thrusters[i])]]

-------------------------------------------------------------------------------
\* std::sort of the paths: the listing with its places rearranged.
Sorted(listing) ==
  LET places == DOMAIN listing
      order  == CHOOSE f \in Bijection(places, places) :
                  \A i, j \in places : i < j => listing[f[i]] <= listing[f[j]]
  IN  [i \in places |-> listing[order[i]]]

Empty == [specs |-> <<>>, errors |-> <<>>]

\* The next file goes to the vehicles, with its path, or to the errors.
LoadFile(dir, loaded, p) ==
  IF Fault(dir[p])
  THEN [loaded EXCEPT !.errors = Append(@, p)]
  ELSE [loaded EXCEPT !.specs = Append(@, [path |-> p, spec |-> Parse(dir[p])])]

\* RocketCatalogue::load
Load(dir, listing) ==
  FoldLeft(LAMBDA loaded, p : LoadFile(dir, loaded, p), Empty, Sorted(listing))

\* find: the places of the vehicles with a name; the first one is returned.
Named(specs, name) == {i \in DOMAIN specs : specs[i].spec.name = name}

\* What the actuators, the allocator and the meter take for granted: a mass and
\* a size to divide by, an engine, and a throttle range that is one.
Sound(spec) ==
  /\ spec.mass > 0 /\ spec.length > 0 /\ spec.width > 0
  /\ Len(spec.thrusters) \in 1 .. MaxThrusters
  /\ \A i \in DOMAIN spec.thrusters :
       LET t == spec.thrusters[i]
       IN  t.maxThrust > 0 /\ 0 <= t.minThrust /\ t.minThrust <= t.maxThrust
===============================================================================
