------------------------------ MODULE CtOptions ------------------------------
(***************************************************************************)
(* extractRuntimeConfig of src/compilerlib/instrumentation/config.cpp: the *)
(* --ct options on a command line and the configuration they amount to.    *)
(* A configuration is the set of the features that are on.                 *)
(***************************************************************************)
EXTENDS SequencesExt

Modules == {"trace", "alloc", "bounds", "vtable"}
Features == Modules \cup {"vcall_trace", "vtable_diag", "autofree", "alloc_trace",
                          "shadow", "shadow_aggressive", "bounds_no_abort", "optnone"}
Defaults == {"trace", "alloc", "bounds", "alloc_trace"}

\* What an option turns off and then on.  An unknown value of --ct-shadow= and an
\* unknown name in the list of --ct-modules= do nothing.
Option(off, on) == [off |-> off, on |-> on]
On(f) == Option({}, {f})
Off(f) == Option({f}, {})
CtModules(list) == Option(Modules, list)
Aggressive == Option({}, {"shadow", "shadow_aggressive"})

\* "aggressive" has no option that turns it off, nor have "shadow" and "bounds_no_abort".
CtOptions ==
  {On(f) : f \in Features \ {"vtable", "shadow_aggressive"}}
  \cup {Off(f) : f \in Features \ {"vtable", "shadow", "shadow_aggressive", "bounds_no_abort"}}
  \cup {CtModules(list) : list \in SUBSET Modules}
  \cup {Aggressive, Option({}, {})}

\* (a faulty Apply: the modules that are not on the list stay on)
ApplyOn(config, o) == config \cup o.on

Apply(config, o) == (config \ o.off) \cup o.on
Extract(options) == FoldLeft(Apply, Defaults, options)

BoundsWithoutAlloc(config) == "bounds" \in config /\ "alloc" \notin config

\* What the last option that names the feature says, and otherwise the default.
LastSays(options, f) ==
  LET naming == {i \in DOMAIN options : f \in options[i].off \cup options[i].on}
  IN IF naming = {} THEN f \in Defaults
     ELSE f \in options[CHOOSE i \in naming : \A j \in naming : j <= i].on

\* emitRuntimeConfigGlobals: what the module tells the runtime of it.
Disabling == [alloc |-> "disable_alloc", autofree |-> "disable_autofree", alloc_trace |-> "disable_alloc_trace"]
Globals(config) ==
  (config \cap {"shadow", "shadow_aggressive", "bounds_no_abort", "vtable_diag"})
  \cup {Disabling[f] : f \in DOMAIN Disabling \ config}
=============================================================================
