----------------------------- MODULE AbiFlyByWire -----------------------------
(***************************************************************************)
(* control/AbiFlyByWire.cpp: the life of a submission library in the host. *)
(* The C ABI has no instance handle, so the state is the library's and not *)
(* an object's.  Each operator is the part of an action that makes one     *)
(* call into the library; what a submission computes is left out.          *)
(***************************************************************************)
CONSTANT Submissions

VARIABLES lib,   (* what each library has been through          *)
          call   (* the last call into a library: <<who, what>> *)

Phases == {"closed", "checked", "initialised", "ready", "declined"}
Calls  == {"rf_abi_version", "rf_init", "rf_reset", "rf_resolve", "rf_shutdown"}
NoCall == <<"none", "none">>

LibInit == lib = [l \in Submissions |-> "closed"] /\ call = NoCall

Moves(l, to, what) == /\ lib' = [lib EXCEPT ![l] = to]
                      /\ call' = <<l, what>>

\* load(): no such file, or a library without rf_shutdown.
OpenFails(l) == call' = NoCall /\ UNCHANGED lib

\* load(): another symbol is missing or the version differs; rf_shutdown is
\* bound by then, so ~AbiFlyByWire calls it before dlclose.
OpenRefused(l) == Moves(l, "closed", "rf_shutdown")

OpenChecked(l) == Moves(l, "checked", "rf_abi_version")

InitSucceeds(l) == lib[l] = "checked" /\ Moves(l, "initialised", "rf_init")
InitDeclines(l) == lib[l] = "checked" /\ Moves(l, "declined", "rf_init")

\* A reset readies what rf_init built; it does not stand in for rf_init.
Reset(l) == Moves(l, IF lib[l] \in {"initialised", "ready"} THEN "ready" ELSE lib[l],
                  "rf_reset")
Resolve(l) == call' = <<l, "rf_resolve">> /\ UNCHANGED lib

\* ~AbiFlyByWire, the unfinished object of a failed load() included.
Destroy(l) == Moves(l, "closed", "rf_shutdown")
===============================================================================
