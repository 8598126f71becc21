---------------------------- MODULE FeatureFlags ----------------------------
(***************************************************************************)
(* The features of the runtime: ct_runtime_state.cpp, and how they are set *)
(* from the globals of the instrumented module (CtOptions) and from the    *)
(* environment: ct_runtime_env.cpp, windows/ct_runtime_env.cpp.  All of it *)
(* is done twice, by a constructor and by the first call of the runtime,   *)
(* in any thread.                                                          *)
(***************************************************************************)
EXTENDS CtOptions, Naturals

CONSTANTS
  Threads, Main, None,
  Commands,      \* the --ct options the program may have been compiled with
  Environments,  \* the CT_ variables that may be set
  EarlyLimit,    \* early trace lines, 200 in the code
  EarlyThreads   \* may there be other threads before the constructor has run?

DefaultFlags == {"TRACE", "ALLOC", "BOUNDS", "AUTOFREE", "ALLOC_TRACE"}
Flags == DefaultFlags \cup {"SHADOW", "SHADOW_AGGR", "VTABLE_DIAG", "EARLY_TRACE"}

ASSUME FlagsAssumption ==
  /\ Main \in Threads /\ None \notin Threads \cup Nat /\ \A set \in SUBSET Flags : set # None
  /\ Commands \subseteq Seq(CtOptions) /\ EarlyLimit \in Nat /\ EarlyThreads \in BOOLEAN

VARIABLES
  command, env,  \* what the program was compiled with and is run with
  flags,         \* ct_feature_flags
  legacy,        \* the variables that repeat it, for old code
  constructed,   \* the constructor has begun
  initialized,   \* ct_env_initialized
  todo,          \* todo[t]: what t has still to set
  seen,          \* seen[t]: the value ct_sync_legacy_flags will write
  early,         \* the lines of early trace: counter, those written, and what t has read
  at             \* at[t]: the count t goes by, None if it does not trace

flagVars == <<command, env, flags, legacy, constructed, initialized, todo, seen>>
traceVars == <<early, at>>

FlagsInit ==
  /\ command \in Commands /\ env \in Environments
  /\ flags = DefaultFlags /\ legacy = DefaultFlags
  /\ constructed = FALSE /\ initialized = FALSE
  /\ todo = [t \in Threads |-> << >>] /\ seen = [t \in Threads |-> None]
  /\ early = [count |-> 0, written |-> 0] /\ at = [t \in Threads |-> None]

\* One ct_set_enabled after the other, of those that are called.
Enable(f, condition) == IF condition THEN <<Option({}, {f})>> ELSE << >>
Disable(f, condition) == IF condition THEN <<Option({f}, {})>> ELSE << >>

ApplyConfig ==
  LET globals == Globals(Extract(command))
  IN Enable("SHADOW", globals \cap {"shadow", "shadow_aggressive"} # {})
     \o Enable("SHADOW_AGGR", "shadow_aggressive" \in globals)
     \o Disable("ALLOC", "disable_alloc" \in globals)
     \o Disable("AUTOFREE", "disable_autofree" \in globals)
     \o Disable("ALLOC_TRACE", "disable_alloc_trace" \in globals)
     \o Enable("VTABLE_DIAG", "vtable_diag" \in globals)

ApplyEnv ==
  Disable("TRACE", "CT_DISABLE_TRACE" \in env)
  \o Disable("ALLOC", "CT_DISABLE_ALLOC" \in env)
  \o Enable("EARLY_TRACE", "CT_EARLY_TRACE" \in env)
  \o Disable("BOUNDS", "CT_DISABLE_BOUNDS" \in env)
  \o Enable("SHADOW", env \cap {"CT_SHADOW", "CT_SHADOW_AGGRESSIVE"} # {})
  \o Enable("SHADOW_AGGR", "CT_SHADOW_AGGRESSIVE" \in env)
  \o Disable("AUTOFREE", "CT_DISABLE_AUTOFREE" \in env)
  \o Disable("ALLOC_TRACE", "CT_DISABLE_ALLOC_TRACE" \in env)

\* (faulty Settings: all starts from the defaults)
SettingsReset == <<Option(Flags, DefaultFlags)>> \o ApplyConfig \o ApplyEnv

\* Nothing is ever set back to what it was before.
Settings == ApplyConfig \o ApplyEnv

Applied(t) == todo[t] = << >> /\ seen[t] = None

\* The constructor, in the thread that loads the program.
Construct ==
  /\ ~ constructed /\ Applied(Main)
  /\ constructed' = TRUE
  /\ todo' = [todo EXCEPT ![Main] = Settings]
  /\ UNCHANGED <<command, env, flags, legacy, initialized, seen, early, at>>

\* Before the constructor, the main thread may be in an earlier one, which calls too.
Runs(t) == EarlyThreads \/ t = Main \/ (constructed /\ Applied(Main))

\* ct_init_env_once: the first one sets all, the others go on at once.
InitEnvOnce(t) ==
  /\ Runs(t) /\ Applied(t)
  /\ initialized' = TRUE
  /\ todo' = IF initialized THEN todo ELSE [todo EXCEPT ![t] = Settings]

\* ct_set_enabled: the features change at once,
SetEnabled(t) ==
  /\ todo[t] # << >> /\ seen[t] = None
  /\ flags' = Apply(flags, Head(todo[t]))
  /\ seen' = [seen EXCEPT ![t] = flags']
  /\ UNCHANGED <<command, env, legacy, constructed, initialized, todo, early, at>>

\* and the variables that repeat them get the value that resulted.
SyncLegacyFlags(t) ==
  /\ seen[t] # None
  /\ legacy' = seen[t]
  /\ seen' = [seen EXCEPT ![t] = None]
  /\ todo' = [todo EXCEPT ![t] = Tail(@)]
  /\ UNCHANGED <<command, env, flags, constructed, initialized, early, at>>

\* ct_early_trace_should_log: the count is read, and taken if it is still the same;
\* otherwise, and sometimes anyway, it is read again.
ShouldLog(t) ==
  /\ at[t] = None /\ Applied(t)
  /\ {"TRACE", "EARLY_TRACE"} \subseteq flags /\ early.count < EarlyLimit
  /\ at' = [at EXCEPT ![t] = early.count]
  /\ UNCHANGED <<flagVars, early>>

\* (a faulty Count: the count is stored whatever it was)
CountStore(t) == [count |-> at[t] + 1, written |-> early.written + 1]
Count(t) == IF early.count = at[t] THEN [count |-> at[t] + 1, written |-> early.written + 1] ELSE early

Log(t) ==
  /\ at[t] # None
  /\ early' = Count(t)
  /\ at' = [at EXCEPT ![t] = None]
  /\ UNCHANGED flagVars

FlagSteps == Construct \/ \E t \in Threads : SetEnabled(t) \/ SyncLegacyFlags(t) \/ ShouldLog(t) \/ Log(t)

-----------------------------------------------------------------------------
FlagsTypeOK ==
  /\ flags \subseteq Flags /\ legacy \subseteq Flags
  /\ \A t \in Threads : seen[t] = None \/ seen[t] \subseteq Flags
  /\ early.written = early.count /\ early.count <= EarlyLimit

\* What the options and the environment say together.
Asked(f) ==
  CASE f = "SHADOW" -> LastSays(command, "shadow") \/ env \cap {"CT_SHADOW", "CT_SHADOW_AGGRESSIVE"} # {}
    [] f = "SHADOW_AGGR" -> LastSays(command, "shadow_aggressive") \/ "CT_SHADOW_AGGRESSIVE" \in env
    [] f = "ALLOC" -> LastSays(command, "alloc") /\ "CT_DISABLE_ALLOC" \notin env
    [] f = "AUTOFREE" -> LastSays(command, "autofree") /\ "CT_DISABLE_AUTOFREE" \notin env
    [] f = "ALLOC_TRACE" -> LastSays(command, "alloc_trace") /\ "CT_DISABLE_ALLOC_TRACE" \notin env
    [] f = "TRACE" -> "CT_DISABLE_TRACE" \notin env
    [] f = "BOUNDS" -> "CT_DISABLE_BOUNDS" \notin env
    [] f = "VTABLE_DIAG" -> LastSays(command, "vtable_diag")
    [] f = "EARLY_TRACE" -> "CT_EARLY_TRACE" \in env

\* From the end of the constructor on the features are what was asked for, at every
\* moment: that another thread sets all of them a second time, or is still setting them,
\* is not seen.  When nobody sets them, the legacy variables agree, whatever the order in
\* which two threads have written them.
FlagsAsAsked ==
  constructed /\ Applied(Main) =>
    /\ flags = {f \in Flags : Asked(f)}
    /\ (\A t \in Threads : Applied(t)) => legacy = flags
=============================================================================
