------------------------ MODULE WindowsRuntimeProofs ------------------------
(***************************************************************************)
(* The features and the allocation calls of Windows, for every command     *)
(* line and environment, any number of threads and any set of addresses.   *)
(***************************************************************************)
EXTENDS WindowsRuntime, CtOptionsProofs

-----------------------------------------------------------------------------
(* The features                                                            *)

\* No setting turns tracking on, none turns the shadow off.
SettingOptions == [off : SUBSET (Flags \ {"SHADOW"}), on : SUBSET (Flags \ {"ALLOC"})]
Wanted == {f \in Flags : Asked(f)}

FlagsTyped ==
  /\ command \in Commands
  /\ flags \in SUBSET Flags /\ legacy \in SUBSET Flags
  /\ todo \in [Threads -> Seq(SettingOptions)]
  /\ seen \in [Threads -> (SUBSET Flags) \cup {None}]
  /\ constructed \in BOOLEAN /\ initialized \in BOOLEAN
EarlyTyped ==
  /\ early \in [count : 0..EarlyLimit, written : 0..EarlyLimit]
  /\ early.written = early.count
  /\ at \in [Threads -> (0..EarlyLimit-1) \cup {None}]

Elems(s) == {s[i] : i \in DOMAIN s}
Pending(t) == Elems(todo[t])
AllSettings == Elems(Settings)
Done(o) == o.on \subseteq flags /\ o.off \cap flags = {}
\* Each setting is still on t's list, or shows.
UnderWay(t) == \A o \in AllSettings : o \in Pending(t) \/ Done(o)

\* A setting only brings the features nearer to what is wanted, so that none undoes
\* another, whatever the threads that apply them are at.
Progress ==
  /\ flags \subseteq DefaultFlags \cup Wanted /\ DefaultFlags \cap Wanted \subseteq flags
  /\ \A t \in Threads : Pending(t) \subseteq AllSettings
  /\ \A t \in Threads : todo[t] # << >> => UnderWay(t)
  /\ constructed => UnderWay(Main)
\* The last of a thread's writes to the legacy variables is right.
LegacyInv ==
  /\ \A t \in Threads : seen[t] # None => todo[t] # << >> /\ Done(Head(todo[t]))
  /\ \A t \in Threads : seen[t] # None /\ Len(todo[t]) = 1 => seen[t] = Wanted
  /\ \/ legacy = Wanted
     \/ \E t \in Threads : todo[t] # << >>
     \/ ~ constructed /\ ~ initialized /\ flags = DefaultFlags /\ legacy = DefaultFlags
FlagsInv == FlagsTyped /\ EarlyTyped /\ Progress /\ LegacyInv

-----------------------------------------------------------------------------
(* The settings, and what is wanted                                        *)

LEMMA ElemsConcat ==
  ASSUME NEW S, NEW s \in Seq(S), NEW u \in Seq(S)
  PROVE  s \o u \in Seq(S) /\ Elems(s \o u) = Elems(s) \cup Elems(u)
<1>1. /\ s \o u \in Seq(S)
      /\ Len(s \o u) = Len(s) + Len(u)
      /\ \A i \in 1..Len(s) : (s \o u)[i] = s[i]
      /\ \A i \in 1..Len(u) : (s \o u)[Len(s) + i] = u[i]
  OBVIOUS
<1>2. ASSUME NEW x \in Elems(s \o u) PROVE x \in Elems(s) \cup Elems(u)
  <2>1. PICK i \in 1..Len(s)+Len(u) : x = (s \o u)[i]
    BY <1>1 DEF Elems
  <2>2. CASE i <= Len(s)
    BY <1>1, <2>1, <2>2 DEF Elems
  <2>3. CASE i > Len(s)
    <3>1. i - Len(s) \in 1..Len(u) /\ i = Len(s) + (i - Len(s))
      BY <2>3
    <3> QED BY <1>1, <2>1, <3>1 DEF Elems
  <2> QED BY <2>2, <2>3
<1>3. Elems(s) \subseteq Elems(s \o u)
  BY <1>1 DEF Elems
<1>4. Elems(u) \subseteq Elems(s \o u)
  BY <1>1 DEF Elems
<1> QED BY <1>1, <1>2, <1>3, <1>4

LEMMA Enabling ==
  ASSUME NEW f \in Flags \ {"ALLOC"}, NEW c
  PROVE  /\ Enable(f, c) \in Seq(SettingOptions)
         /\ \A o : o \in Elems(Enable(f, c)) <=> c /\ o = Option({}, {f})
<1>1. Option({}, {f}) \in SettingOptions
  BY DEF Option, SettingOptions
<1>2. CASE c
  BY <1>1, <1>2 DEF Enable, Elems
<1>3. CASE ~ c
  BY <1>3 DEF Enable, Elems
<1> QED BY <1>2, <1>3

LEMMA Disabled ==
  ASSUME NEW f \in Flags \ {"SHADOW"}, NEW c
  PROVE  /\ Disable(f, c) \in Seq(SettingOptions)
         /\ \A o : o \in Elems(Disable(f, c)) <=> c /\ o = Option({f}, {})
<1>1. Option({f}, {}) \in SettingOptions
  BY DEF Option, SettingOptions
<1>2. CASE c
  BY <1>1, <1>2 DEF Disable, Elems
<1>3. CASE ~ c
  BY <1>3 DEF Disable, Elems
<1> QED BY <1>2, <1>3

LEMMA ConfigSettings ==
  LET globals == Globals(Extract(command))
  IN /\ ApplyConfig \in Seq(SettingOptions)
     /\ \A o : o \in Elems(ApplyConfig) <=>
          \/ globals \cap {"shadow", "shadow_aggressive"} # {} /\ o = Option({}, {"SHADOW"})
          \/ "shadow_aggressive" \in globals /\ o = Option({}, {"SHADOW_AGGR"})
          \/ "disable_alloc" \in globals /\ o = Option({"ALLOC"}, {})
          \/ "disable_autofree" \in globals /\ o = Option({"AUTOFREE"}, {})
          \/ "disable_alloc_trace" \in globals /\ o = Option({"ALLOC_TRACE"}, {})
          \/ "vtable_diag" \in globals /\ o = Option({}, {"VTABLE_DIAG"})
<1> DEFINE g == Globals(Extract(command))
           e1 == Enable("SHADOW", g \cap {"shadow", "shadow_aggressive"} # {})
           e2 == Enable("SHADOW_AGGR", "shadow_aggressive" \in g)
           e3 == Disable("ALLOC", "disable_alloc" \in g)
           e4 == Disable("AUTOFREE", "disable_autofree" \in g)
           e5 == Disable("ALLOC_TRACE", "disable_alloc_trace" \in g)
           e6 == Enable("VTABLE_DIAG", "vtable_diag" \in g)
<1> HIDE DEF g
<1>1. /\ e1 \in Seq(SettingOptions) /\ e2 \in Seq(SettingOptions) /\ e3 \in Seq(SettingOptions)
      /\ e4 \in Seq(SettingOptions) /\ e5 \in Seq(SettingOptions) /\ e6 \in Seq(SettingOptions)
  BY Enabling, Disabled DEF Flags, DefaultFlags
<1>2. \A o : /\ o \in Elems(e1) <=> g \cap {"shadow", "shadow_aggressive"} # {} /\ o = Option({}, {"SHADOW"})
             /\ o \in Elems(e2) <=> "shadow_aggressive" \in g /\ o = Option({}, {"SHADOW_AGGR"})
             /\ o \in Elems(e3) <=> "disable_alloc" \in g /\ o = Option({"ALLOC"}, {})
             /\ o \in Elems(e4) <=> "disable_autofree" \in g /\ o = Option({"AUTOFREE"}, {})
             /\ o \in Elems(e5) <=> "disable_alloc_trace" \in g /\ o = Option({"ALLOC_TRACE"}, {})
             /\ o \in Elems(e6) <=> "vtable_diag" \in g /\ o = Option({}, {"VTABLE_DIAG"})
  BY Enabling, Disabled DEF Flags, DefaultFlags
<1> HIDE DEF e1, e2, e3, e4, e5, e6
<1> DEFINE a2 == e1 \o e2
           a3 == a2 \o e3
           a4 == a3 \o e4
           a5 == a4 \o e5
           a6 == a5 \o e6
<1> HIDE DEF a2, a3, a4, a5, a6
<1>3. a2 \in Seq(SettingOptions) /\ Elems(a2) = Elems(e1) \cup Elems(e2)
  BY <1>1, ElemsConcat DEF a2
<1>4. a3 \in Seq(SettingOptions) /\ Elems(a3) = Elems(a2) \cup Elems(e3)
  BY <1>1, <1>3, ElemsConcat DEF a3
<1>5. a4 \in Seq(SettingOptions) /\ Elems(a4) = Elems(a3) \cup Elems(e4)
  BY <1>1, <1>4, ElemsConcat DEF a4
<1>6. a5 \in Seq(SettingOptions) /\ Elems(a5) = Elems(a4) \cup Elems(e5)
  BY <1>1, <1>5, ElemsConcat DEF a5
<1>7. a6 \in Seq(SettingOptions) /\ Elems(a6) = Elems(a5) \cup Elems(e6)
  BY <1>1, <1>6, ElemsConcat DEF a6
<1>8. ApplyConfig = a6
  BY DEF ApplyConfig, g, a2, a3, a4, a5, a6, e1, e2, e3, e4, e5, e6
<1> QED BY <1>2, <1>3, <1>4, <1>5, <1>6, <1>7, <1>8 DEF g

LEMMA EnvSettings ==
  /\ ApplyEnv \in Seq(SettingOptions)
  /\ \A o : o \in Elems(ApplyEnv) <=>
       \/ "CT_DISABLE_TRACE" \in env /\ o = Option({"TRACE"}, {})
       \/ "CT_DISABLE_ALLOC" \in env /\ o = Option({"ALLOC"}, {})
       \/ "CT_EARLY_TRACE" \in env /\ o = Option({}, {"EARLY_TRACE"})
       \/ "CT_DISABLE_BOUNDS" \in env /\ o = Option({"BOUNDS"}, {})
       \/ env \cap {"CT_SHADOW", "CT_SHADOW_AGGRESSIVE"} # {} /\ o = Option({}, {"SHADOW"})
       \/ "CT_SHADOW_AGGRESSIVE" \in env /\ o = Option({}, {"SHADOW_AGGR"})
       \/ "CT_DISABLE_AUTOFREE" \in env /\ o = Option({"AUTOFREE"}, {})
       \/ "CT_DISABLE_ALLOC_TRACE" \in env /\ o = Option({"ALLOC_TRACE"}, {})
<1> DEFINE e1 == Disable("TRACE", "CT_DISABLE_TRACE" \in env)
           e2 == Disable("ALLOC", "CT_DISABLE_ALLOC" \in env)
           e3 == Enable("EARLY_TRACE", "CT_EARLY_TRACE" \in env)
           e4 == Disable("BOUNDS", "CT_DISABLE_BOUNDS" \in env)
           e5 == Enable("SHADOW", env \cap {"CT_SHADOW", "CT_SHADOW_AGGRESSIVE"} # {})
           e6 == Enable("SHADOW_AGGR", "CT_SHADOW_AGGRESSIVE" \in env)
           e7 == Disable("AUTOFREE", "CT_DISABLE_AUTOFREE" \in env)
           e8 == Disable("ALLOC_TRACE", "CT_DISABLE_ALLOC_TRACE" \in env)
<1>1. /\ e1 \in Seq(SettingOptions) /\ e2 \in Seq(SettingOptions) /\ e3 \in Seq(SettingOptions)
      /\ e4 \in Seq(SettingOptions) /\ e5 \in Seq(SettingOptions) /\ e6 \in Seq(SettingOptions)
      /\ e7 \in Seq(SettingOptions) /\ e8 \in Seq(SettingOptions)
  BY Enabling, Disabled DEF Flags, DefaultFlags
<1>2. \A o : /\ o \in Elems(e1) <=> "CT_DISABLE_TRACE" \in env /\ o = Option({"TRACE"}, {})
             /\ o \in Elems(e2) <=> "CT_DISABLE_ALLOC" \in env /\ o = Option({"ALLOC"}, {})
             /\ o \in Elems(e3) <=> "CT_EARLY_TRACE" \in env /\ o = Option({}, {"EARLY_TRACE"})
             /\ o \in Elems(e4) <=> "CT_DISABLE_BOUNDS" \in env /\ o = Option({"BOUNDS"}, {})
             /\ o \in Elems(e5) <=> /\ env \cap {"CT_SHADOW", "CT_SHADOW_AGGRESSIVE"} # {}
                                    /\ o = Option({}, {"SHADOW"})
             /\ o \in Elems(e6) <=> "CT_SHADOW_AGGRESSIVE" \in env /\ o = Option({}, {"SHADOW_AGGR"})
             /\ o \in Elems(e7) <=> "CT_DISABLE_AUTOFREE" \in env /\ o = Option({"AUTOFREE"}, {})
             /\ o \in Elems(e8) <=> "CT_DISABLE_ALLOC_TRACE" \in env /\ o = Option({"ALLOC_TRACE"}, {})
  BY Enabling, Disabled DEF Flags, DefaultFlags
<1> HIDE DEF e1, e2, e3, e4, e5, e6, e7, e8
<1> DEFINE a2 == e1 \o e2
           a3 == a2 \o e3
           a4 == a3 \o e4
           a5 == a4 \o e5
           a6 == a5 \o e6
           a7 == a6 \o e7
           a8 == a7 \o e8
<1> HIDE DEF a2, a3, a4, a5, a6, a7, a8
<1>3. a2 \in Seq(SettingOptions) /\ Elems(a2) = Elems(e1) \cup Elems(e2)
  BY <1>1, ElemsConcat DEF a2
<1>4. a3 \in Seq(SettingOptions) /\ Elems(a3) = Elems(a2) \cup Elems(e3)
  BY <1>1, <1>3, ElemsConcat DEF a3
<1>5. a4 \in Seq(SettingOptions) /\ Elems(a4) = Elems(a3) \cup Elems(e4)
  BY <1>1, <1>4, ElemsConcat DEF a4
<1>6. a5 \in Seq(SettingOptions) /\ Elems(a5) = Elems(a4) \cup Elems(e5)
  BY <1>1, <1>5, ElemsConcat DEF a5
<1>7. a6 \in Seq(SettingOptions) /\ Elems(a6) = Elems(a5) \cup Elems(e6)
  BY <1>1, <1>6, ElemsConcat DEF a6
<1>8. a7 \in Seq(SettingOptions) /\ Elems(a7) = Elems(a6) \cup Elems(e7)
  BY <1>1, <1>7, ElemsConcat DEF a7
<1>9. a8 \in Seq(SettingOptions) /\ Elems(a8) = Elems(a7) \cup Elems(e8)
  BY <1>1, <1>8, ElemsConcat DEF a8
<1>10. ApplyEnv = a8
  BY DEF ApplyEnv, a2, a3, a4, a5, a6, a7, a8, e1, e2, e3, e4, e5, e6, e7, e8
<1> QED BY <1>2, <1>3, <1>4, <1>5, <1>6, <1>7, <1>8, <1>9, <1>10

LEMMA SettingsTyped ==
  Settings \in Seq(SettingOptions) /\ AllSettings = Elems(ApplyConfig) \cup Elems(ApplyEnv)
BY ConfigSettings, EnvSettings, ElemsConcat DEF Settings, AllSettings

LEMMA GlobalsSay ==
  ASSUME command \in Commands
  PROVE  LET globals == Globals(Extract(command))
         IN /\ \A f \in {"shadow", "shadow_aggressive", "vtable_diag"} :
                 f \in globals <=> LastSays(command, f)
            /\ "disable_alloc" \in globals <=> ~ LastSays(command, "alloc")
            /\ "disable_autofree" \in globals <=> ~ LastSays(command, "autofree")
            /\ "disable_alloc_trace" \in globals <=> ~ LastSays(command, "alloc_trace")
            /\ LastSays(command, "shadow_aggressive") => LastSays(command, "shadow")
<1>1. command \in Seq(CtOptions)
  BY FlagsAssumption
<1>2. \A f : f \in Extract(command) <=> LastSays(command, f)
  BY <1>1, ExtractIsLastSays
<1>3. ASSUME NEW x
      PROVE  x \in Globals(Extract(command)) <=>
               \/ x \in Extract(command) /\ x \in {"shadow", "shadow_aggressive", "bounds_no_abort", "vtable_diag"}
               \/ x = "disable_alloc" /\ "alloc" \notin Extract(command)
               \/ x = "disable_autofree" /\ "autofree" \notin Extract(command)
               \/ x = "disable_alloc_trace" /\ "alloc_trace" \notin Extract(command)
  <2>1. DOMAIN Disabling = {"alloc", "autofree", "alloc_trace"}
    BY DEF Disabling
  <2>2. /\ Disabling["alloc"] = "disable_alloc" /\ Disabling["autofree"] = "disable_autofree"
        /\ Disabling["alloc_trace"] = "disable_alloc_trace"
    BY DEF Disabling
  <2> QED BY <2>1, <2>2 DEF Globals
<1>4. "shadow_aggressive" \in Extract(command) => "shadow" \in Extract(command)
  BY <1>1, ShadowWithAggressive
<1> QED BY <1>2, <1>3, <1>4

LEMMA WantedFlags ==
  /\ Wanted \subseteq Flags
  /\ "SHADOW" \in Wanted <=> LastSays(command, "shadow") \/ env \cap {"CT_SHADOW", "CT_SHADOW_AGGRESSIVE"} # {}
  /\ "SHADOW_AGGR" \in Wanted <=> LastSays(command, "shadow_aggressive") \/ "CT_SHADOW_AGGRESSIVE" \in env
  /\ "ALLOC" \in Wanted <=> LastSays(command, "alloc") /\ "CT_DISABLE_ALLOC" \notin env
  /\ "AUTOFREE" \in Wanted <=> LastSays(command, "autofree") /\ "CT_DISABLE_AUTOFREE" \notin env
  /\ "ALLOC_TRACE" \in Wanted <=> LastSays(command, "alloc_trace") /\ "CT_DISABLE_ALLOC_TRACE" \notin env
  /\ "TRACE" \in Wanted <=> "CT_DISABLE_TRACE" \notin env
  /\ "BOUNDS" \in Wanted <=> "CT_DISABLE_BOUNDS" \notin env
  /\ "VTABLE_DIAG" \in Wanted <=> LastSays(command, "vtable_diag")
  /\ "EARLY_TRACE" \in Wanted <=> "CT_EARLY_TRACE" \in env
BY DEF Wanted, Asked, Flags, DefaultFlags

LEMMA SettingsToward ==
  ASSUME command \in Commands, NEW o \in AllSettings
  PROVE  o.on \subseteq Wanted /\ o.off \cap Wanted = {}
<1>1. CASE o \in Elems(ApplyConfig)
  <2>1. Globals(Extract(command)) \cap {"shadow", "shadow_aggressive"} # {} => "SHADOW" \in Wanted
    BY GlobalsSay, WantedFlags
  <2> QED BY <1>1, <2>1, ConfigSettings, GlobalsSay, WantedFlags DEF Option
<1>2. CASE o \in Elems(ApplyEnv)
  <2>1. env \cap {"CT_SHADOW", "CT_SHADOW_AGGRESSIVE"} # {} => "SHADOW" \in Wanted
    BY WantedFlags
  <2> QED BY <1>2, <2>1, EnvSettings, WantedFlags DEF Option
<1> QED BY <1>1, <1>2, SettingsTyped

LEMMA SettingsComplete ==
  ASSUME command \in Commands, NEW F, F \subseteq DefaultFlags \cup Wanted, DefaultFlags \cap Wanted \subseteq F,
         \A o \in AllSettings : o.on \subseteq F /\ o.off \cap F = {}
  PROVE  F = Wanted
<1> DEFINE g == Globals(Extract(command))
           Has(o) == o \in AllSettings
<1>1. \A f : Has(Option({}, {f})) => f \in F
  BY DEF Option
<1>2. \A f : Has(Option({f}, {})) => f \notin F
  BY DEF Option
<1>3. /\ g \cap {"shadow", "shadow_aggressive"} # {} => Has(Option({}, {"SHADOW"}))
      /\ "shadow_aggressive" \in g => Has(Option({}, {"SHADOW_AGGR"}))
      /\ "disable_alloc" \in g => Has(Option({"ALLOC"}, {}))
      /\ "disable_autofree" \in g => Has(Option({"AUTOFREE"}, {}))
      /\ "disable_alloc_trace" \in g => Has(Option({"ALLOC_TRACE"}, {}))
      /\ "vtable_diag" \in g => Has(Option({}, {"VTABLE_DIAG"}))
  BY SettingsTyped, ConfigSettings, Zenon
<1>4. /\ "CT_DISABLE_TRACE" \in env => Has(Option({"TRACE"}, {}))
      /\ "CT_DISABLE_ALLOC" \in env => Has(Option({"ALLOC"}, {}))
      /\ "CT_EARLY_TRACE" \in env => Has(Option({}, {"EARLY_TRACE"}))
      /\ "CT_DISABLE_BOUNDS" \in env => Has(Option({"BOUNDS"}, {}))
      /\ env \cap {"CT_SHADOW", "CT_SHADOW_AGGRESSIVE"} # {} => Has(Option({}, {"SHADOW"}))
      /\ "CT_SHADOW_AGGRESSIVE" \in env => Has(Option({}, {"SHADOW_AGGR"}))
      /\ "CT_DISABLE_AUTOFREE" \in env => Has(Option({"AUTOFREE"}, {}))
      /\ "CT_DISABLE_ALLOC_TRACE" \in env => Has(Option({"ALLOC_TRACE"}, {}))
  BY SettingsTyped, EnvSettings, Zenon
<1> HIDE DEF Has
<1>5. ("SHADOW" \in Wanted => "SHADOW" \in F) /\ ("SHADOW_AGGR" \in Wanted => "SHADOW_AGGR" \in F)
  BY <1>1, <1>3, <1>4, WantedFlags, GlobalsSay
<1>6. ("VTABLE_DIAG" \in Wanted => "VTABLE_DIAG" \in F) /\ ("EARLY_TRACE" \in Wanted => "EARLY_TRACE" \in F)
  BY <1>1, <1>3, <1>4, WantedFlags, GlobalsSay
<1>7. ASSUME NEW f \in DefaultFlags \ Wanted PROVE f \notin F
  BY <1>2, <1>3, <1>4, WantedFlags, GlobalsSay DEF DefaultFlags
<1> HIDE DEF g
<1>8. Wanted \subseteq F
  BY <1>5, <1>6, WantedFlags DEF Flags
<1> QED BY <1>7, <1>8

-----------------------------------------------------------------------------
(* The steps of the features                                               *)

FlagStep ==
  \/ Construct
  \/ \E t \in Threads : SetEnabled(t) \/ SyncLegacyFlags(t) \/ ShouldLog(t) \/ Log(t)
  \/ \E t \in Threads : InitEnvOnce(t) /\ UNCHANGED <<command, env, flags, legacy, constructed, seen, traceVars>>
  \/ UNCHANGED <<flagVars, traceVars>>

LEMMA NextFlagStep == [Next]_vars => FlagStep
BY DEF Next, FlagStep, vars, FlagSteps, Call, Allocate, AllocateFails, Record, Unpoison, Realloc,
   Rerecord,
       ReleaseCall, AutofreeCall, Poison, Release

LEMMA SettingsStay ==
  ASSUME FlagStep
  PROVE  command' = command /\ env' = env /\ Settings' = Settings /\ AllSettings' = AllSettings /\ Wanted' = Wanted
<1>1. command' = command /\ env' = env
  BY DEF FlagStep, Construct, SetEnabled, SyncLegacyFlags, ShouldLog, Log, flagVars
<1>2. Settings' = Settings
  BY <1>1 DEF Settings, ApplyConfig, ApplyEnv
<1>3. AllSettings' = AllSettings
  BY <1>2 DEF AllSettings
<1>4. Wanted' = Wanted
  BY <1>1 DEF Wanted, Asked
<1> QED BY <1>1, <1>2, <1>3, <1>4

LEMMA ElemsTail ==
  ASSUME NEW S, NEW s \in Seq(S), s # << >>
  PROVE  Elems(s) = {Head(s)} \cup Elems(Tail(s)) /\ Head(s) \in Elems(s)
<1>1. /\ Len(s) \in Nat \ {0} /\ DOMAIN s = 1..Len(s) /\ Head(s) = s[1]
      /\ Tail(s) \in Seq(S) /\ DOMAIN Tail(s) = 1..Len(s)-1
      /\ \A i \in 1..Len(s)-1 : Tail(s)[i] = s[i+1]
  OBVIOUS
<1>2. ASSUME NEW x \in Elems(s), x # s[1] PROVE x \in Elems(Tail(s))
  <2>1. PICK i \in 1..Len(s) : x = s[i]
    BY <1>1 DEF Elems
  <2>2. i - 1 \in 1..Len(s)-1 /\ (i - 1) + 1 = i
    BY <1>1, <1>2, <2>1
  <2> QED BY <1>1, <2>1, <2>2 DEF Elems
<1>3. Elems(Tail(s)) \subseteq Elems(s)
  BY <1>1 DEF Elems
<1>4. s[1] \in Elems(s)
  BY <1>1 DEF Elems
<1> QED BY <1>1, <1>2, <1>3, <1>4

LEMMA LongTail ==
  ASSUME NEW S, NEW s \in Seq(S), s # << >>, Len(s) # 1
  PROVE  Tail(s) # << >>
<1>1. 1 \in DOMAIN Tail(s)
  <2> DEFINE n == Len(s)
  <2>1. n \in Nat /\ n # 0 /\ DOMAIN Tail(s) = 1..n-1
    OBVIOUS
  <2>2. n # 1
    OBVIOUS
  <2> HIDE DEF n
  <2>3. 1 \in 1..n-1
    BY <2>1, <2>2
  <2> QED BY <2>1, <2>3, Zenon
<1>2. DOMAIN << >> = {}
  OBVIOUS
<1> QED BY <1>1, <1>2, Zenon

LEMMA FlagsTypedStep == FlagsTyped /\ LegacyInv /\ FlagStep => FlagsTyped'
<1> SUFFICES ASSUME FlagsTyped, LegacyInv, FlagStep PROVE FlagsTyped'
  OBVIOUS
<1> USE FlagsAssumption DEF FlagsTyped
<1>1. CASE Construct
  BY <1>1, SettingsTyped DEF Construct
<1>2. ASSUME NEW t \in Threads, SetEnabled(t) PROVE FlagsTyped'
  <2>1. Head(todo[t]) \in SettingOptions
    BY <1>2 DEF SetEnabled
  <2>2. flags' \in SUBSET Flags
    BY <1>2, <2>1 DEF SetEnabled, Apply, SettingOptions
  <2> QED BY <1>2, <2>2 DEF SetEnabled
<1>3. ASSUME NEW t \in Threads, SyncLegacyFlags(t) PROVE FlagsTyped'
  <2>1. Tail(todo[t]) \in Seq(SettingOptions)
    BY <1>3 DEF SyncLegacyFlags, LegacyInv
  <2> QED BY <1>3, <2>1 DEF SyncLegacyFlags
<1>4. ASSUME NEW t \in Threads, ShouldLog(t) \/ Log(t) PROVE FlagsTyped'
  BY <1>4 DEF ShouldLog, Log, flagVars
<1>5. ASSUME NEW t \in Threads, InitEnvOnce(t),
             UNCHANGED <<command, env, flags, legacy, constructed, seen, traceVars>>
      PROVE  FlagsTyped'
  BY <1>5, SettingsTyped DEF InitEnvOnce
<1>6. CASE UNCHANGED <<flagVars, traceVars>>
  BY <1>6 DEF flagVars
<1> QED BY <1>1, <1>2, <1>3, <1>4, <1>5, <1>6 DEF FlagStep

LEMMA EarlyTypedStep == EarlyTyped /\ FlagStep => EarlyTyped'
<1> SUFFICES ASSUME EarlyTyped, FlagStep PROVE EarlyTyped'
  OBVIOUS
<1> USE FlagsAssumption DEF EarlyTyped
<1>1. ASSUME NEW t \in Threads, ShouldLog(t) PROVE EarlyTyped'
  <2>1. early.count \in 0..EarlyLimit-1
    BY <1>1 DEF ShouldLog
  <2> QED BY <1>1, <2>1 DEF ShouldLog
<1>2. ASSUME NEW t \in Threads, Log(t) PROVE EarlyTyped'
  <2>1. at[t] \in 0..EarlyLimit-1
    BY <1>2 DEF Log
  <2>2. at' \in [Threads -> (0..EarlyLimit-1) \cup {None}]
    BY <1>2 DEF Log
  <2>3. CASE early.count = at[t]
    BY <1>2, <2>1, <2>2, <2>3 DEF Log, Count
  <2>4. CASE early.count # at[t]
    BY <1>2, <2>2, <2>4 DEF Log, Count
  <2> QED BY <2>3, <2>4
<1>3. CASE UNCHANGED traceVars
  BY <1>3 DEF traceVars
<1> QED BY <1>1, <1>2, <1>3 DEF FlagStep, Construct, SetEnabled, SyncLegacyFlags, traceVars

\* A setting brings the features nearer to what is wanted, shows from then on, and
\* leaves those that show as they are.
LEMMA SetEnabledDone ==
  ASSUME FlagsTyped, Progress, NEW t \in Threads, SetEnabled(t)
  PROVE  /\ flags' \subseteq DefaultFlags \cup Wanted /\ DefaultFlags \cap Wanted \subseteq flags'
         /\ Head(todo[t]) \in AllSettings /\ Done(Head(todo[t]))'
         /\ \A o \in AllSettings : Done(o) => Done(o)'
<1> DEFINE h == Head(todo[t])
<1>1. h \in AllSettings
  <2>1. todo[t] \in Seq(SettingOptions) /\ todo[t] # << >>
    BY DEF FlagsTyped, SetEnabled
  <2> QED BY <2>1, ElemsTail DEF Progress, Pending
<1> HIDE DEF h
<1>2. flags' = (flags \ h.off) \cup h.on
  BY DEF SetEnabled, Apply, h
<1>3. h.on \subseteq Wanted /\ h.off \cap Wanted = {}
  BY <1>1, SettingsToward DEF FlagsTyped
<1>4. flags' \subseteq DefaultFlags \cup Wanted /\ DefaultFlags \cap Wanted \subseteq flags'
  BY <1>2, <1>3 DEF Progress
<1>5. h.on \subseteq flags' /\ h.off \cap flags' = {}
  BY <1>2, <1>3
<1>6. ASSUME NEW o \in AllSettings, Done(o) PROVE o.on \subseteq flags' /\ o.off \cap flags' = {}
  <2>1. o.on \subseteq Wanted /\ o.off \cap Wanted = {}
    BY SettingsToward DEF FlagsTyped
  <2> QED BY <1>2, <1>3, <1>6, <2>1 DEF Done
<1>7. Done(h)'
  <2>1. h' = h
    BY DEF SetEnabled, h
  <2> QED BY <1>5, <2>1 DEF Done
<1>8. \A o \in AllSettings : Done(o) => Done(o)'
  BY <1>6 DEF Done
<1> QED BY <1>1, <1>4, <1>7, <1>8 DEF h

LEMMA UnderWayStep ==
  ASSUME FlagsTyped, Progress, LegacyInv, FlagStep, NEW u \in Threads, UnderWay(u)
  PROVE  UnderWay(u)'
<1> SUFFICES ASSUME NEW o \in AllSettings PROVE o \in Pending(u)' \/ Done(o)'
  BY SettingsStay DEF UnderWay
<1>1. Done(o) => Done(o)'
  BY SetEnabledDone DEF FlagStep, Construct, SyncLegacyFlags, ShouldLog, Log, flagVars, Done
<1>2. CASE Done(o)
  BY <1>1, <1>2
<1>3. CASE o \in Pending(u) /\ ~ Done(o)
  <2>1. ASSUME todo' = todo PROVE o \in Pending(u)'
    BY <1>3, <2>1 DEF Pending
  <2>2. ASSUME NEW v \in Threads, todo' = [todo EXCEPT ![v] = Settings] PROVE o \in Pending(u)'
    <3>1. todo'[u] = todo[u] \/ todo'[u] = Settings
      BY <2>2 DEF FlagsTyped
    <3> QED BY <1>3, <3>1 DEF Pending, AllSettings
  <2>3. ASSUME NEW v \in Threads, SyncLegacyFlags(v) PROVE o \in Pending(u)'
    <3>1. CASE v = u
      <4>1. seen[u] # None /\ todo[u] \in Seq(SettingOptions) /\ todo[u] # << >> /\ Done(Head(todo[u]))
        BY <2>3, <3>1 DEF SyncLegacyFlags, LegacyInv, FlagsTyped
      <4>2. todo'[u] = Tail(todo[u])
        BY <2>3, <3>1 DEF SyncLegacyFlags, FlagsTyped
      <4> QED BY <1>3, <4>1, <4>2, ElemsTail DEF Pending
    <3>2. CASE v # u
      <4>1. todo'[u] = todo[u]
        BY <2>3, <3>2 DEF SyncLegacyFlags, FlagsTyped
      <4> QED BY <1>3, <4>1 DEF Pending
    <3> QED BY <3>1, <3>2
  <2> QED BY <2>1, <2>2, <2>3, FlagsAssumption
          DEF FlagStep, Construct, SetEnabled, ShouldLog, Log, InitEnvOnce, flagVars
<1> QED BY <1>2, <1>3 DEF UnderWay

LEMMA ProgressStep == FlagsTyped /\ Progress /\ LegacyInv /\ FlagStep => Progress'
<1> SUFFICES ASSUME FlagsTyped, Progress, LegacyInv, FlagStep PROVE Progress'
  OBVIOUS
<1> USE FlagsAssumption
<1>1. (flags \subseteq DefaultFlags \cup Wanted /\ DefaultFlags \cap Wanted \subseteq flags)'
  <2>1. CASE flags' = flags
    BY <2>1, SettingsStay DEF Progress
  <2>2. CASE \E t \in Threads : SetEnabled(t)
    BY <2>2, SetEnabledDone, SettingsStay
  <2> QED BY <2>1, <2>2 DEF FlagStep, Construct, SyncLegacyFlags, ShouldLog, Log, flagVars
<1>2. \A u \in Threads : todo'[u] = todo[u] \/ todo'[u] = Settings \/ (todo'[u] = Tail(todo[u]) /\ todo[u] # << >>)
  <2>1. ASSUME NEW t \in Threads, SyncLegacyFlags(t), NEW u \in Threads
        PROVE  todo'[u] = todo[u] \/ (todo'[u] = Tail(todo[u]) /\ todo[u] # << >>)
    <3>1. todo[t] # << >> /\ todo' = [todo EXCEPT ![t] = Tail(todo[t])]
      BY <2>1 DEF SyncLegacyFlags, LegacyInv
    <3> QED BY <3>1 DEF FlagsTyped
  <2>2. ASSUME NEW t \in Threads, todo' = [todo EXCEPT ![t] = Settings], NEW u \in Threads
        PROVE  todo'[u] = todo[u] \/ todo'[u] = Settings
    BY <2>2 DEF FlagsTyped
  <2> QED BY <2>1, <2>2 DEF FlagStep, Construct, SetEnabled, ShouldLog, Log, InitEnvOnce, flagVars
<1>3. ASSUME NEW u \in Threads PROVE Pending(u)' \subseteq AllSettings
  <2>1. todo[u] \in Seq(SettingOptions)
    BY DEF FlagsTyped
  <2>2. todo[u] # << >> => Elems(Tail(todo[u])) \subseteq AllSettings
    BY <2>1, ElemsTail DEF Progress, Pending
  <2> QED BY <1>2, <2>2 DEF Pending, Progress, AllSettings
<1>4. ASSUME NEW u \in Threads, todo'[u] = Settings \/ UnderWay(u) PROVE UnderWay(u)'
  <2>1. CASE UnderWay(u)
    BY <2>1, UnderWayStep
  <2>2. CASE todo'[u] = Settings
    BY <2>2, SettingsStay DEF UnderWay, Pending, AllSettings
  <2> QED BY <1>4, <2>1, <2>2
<1>5. ASSUME NEW u \in Threads, todo'[u] # << >> PROVE UnderWay(u)'
  <2>1. todo[u] # << >> \/ todo'[u] = Settings
    BY <1>2, <1>5
  <2> QED BY <1>4, <2>1 DEF Progress
<1>6. constructed' => UnderWay(Main)'
  <2>1. constructed' => constructed \/ todo'[Main] = Settings
    BY DEF FlagStep, Construct, SetEnabled, SyncLegacyFlags, ShouldLog, Log, flagVars, FlagsTyped
  <2> QED BY <1>4, <2>1 DEF Progress
<1> QED BY <1>1, <1>3, <1>5, <1>6, SettingsStay DEF Progress

LEMMA NoSettings ==
  ASSUME FlagsTyped, Settings = << >>
  PROVE  DefaultFlags = Wanted
<1>1. AllSettings = {}
  BY DEF AllSettings, Elems
<1> QED BY <1>1, SettingsComplete DEF FlagsTyped

LEMMA LegacyStep == FlagsTyped /\ Progress /\ LegacyInv /\ FlagStep => LegacyInv'
<1> SUFFICES ASSUME FlagsTyped, Progress, LegacyInv, FlagStep PROVE LegacyInv'
  OBVIOUS
<1> USE FlagsAssumption
<1>1. ASSUME NEW t \in Threads, SetEnabled(t) PROVE LegacyInv'
  <2>1. /\ todo' = todo /\ seen' = [seen EXCEPT ![t] = flags']
        /\ todo[t] # << >> /\ UNCHANGED <<legacy, constructed, initialized>>
    BY <1>1 DEF SetEnabled
  <2>2. ASSUME NEW u \in Threads, seen'[u] # None PROVE todo'[u] # << >> /\ Done(Head(todo[u]))'
    <3>1. CASE u = t
      BY <1>1, <2>1, <3>1, SetEnabledDone
    <3>2. CASE u # t
      <4>1. seen[u] # None
        BY <2>1, <2>2, <3>2 DEF FlagsTyped
      <4>2. todo[u] \in Seq(SettingOptions) /\ todo[u] # << >> /\ Done(Head(todo[u]))
        BY <4>1 DEF FlagsTyped, LegacyInv
      <4>3. Head(todo[u]) \in AllSettings
        BY <4>2, ElemsTail DEF Progress, Pending
      <4>4. \A o \in AllSettings : Done(o) => Done(o)'
        BY <1>1, SetEnabledDone
      <4> QED BY <2>1, <4>2, <4>3, <4>4 DEF Done
    <3> QED BY <3>1, <3>2
  <2>3. ASSUME Len(todo[t]) = 1 PROVE flags' = Wanted
    <3>1. todo[t] \in Seq(SettingOptions) /\ Pending(t) = {Head(todo[t])}
      BY <2>1, <2>3 DEF FlagsTyped, Pending, Elems
    <3>2. \A o \in AllSettings : Done(o)'
      BY <1>1, <2>1, <3>1, SetEnabledDone DEF Progress, UnderWay
    <3>3. flags' \subseteq DefaultFlags \cup Wanted /\ DefaultFlags \cap Wanted \subseteq flags'
      BY <1>1, SetEnabledDone
    <3> QED BY <3>2, <3>3, SettingsComplete DEF Done, FlagsTyped
  <2>4. \A u \in Threads : seen'[u] # None /\ Len(todo'[u]) = 1 => seen'[u] = Wanted
    BY <2>1, <2>3 DEF FlagsTyped, LegacyInv
  <2> QED BY <2>1, <2>2, <2>4, SettingsStay DEF LegacyInv
<1>2. ASSUME NEW t \in Threads, SyncLegacyFlags(t) PROVE LegacyInv'
  <2>1. /\ seen[t] # None /\ legacy' = seen[t] /\ seen' = [seen EXCEPT ![t] = None]
        /\ todo' = [todo EXCEPT ![t] = Tail(todo[t])] /\ flags' = flags
    BY <1>2 DEF SyncLegacyFlags
  <2>2. todo[t] \in Seq(SettingOptions) /\ todo[t] # << >>
    BY <2>1 DEF LegacyInv, FlagsTyped
  <2>3. ASSUME NEW u \in Threads, seen'[u] # None
        PROVE  todo'[u] # << >> /\ Done(Head(todo[u]))' /\ (Len(todo'[u]) = 1 => seen'[u] = Wanted)
    <3>1. u # t /\ seen'[u] = seen[u] /\ todo'[u] = todo[u]
      BY <2>1, <2>3 DEF FlagsTyped
    <3> QED BY <2>1, <2>3, <3>1 DEF LegacyInv, Done
  <2>4. todo'[t] # << >> \/ legacy' = Wanted
    <3>1. CASE Len(todo[t]) = 1
      BY <2>1, <3>1 DEF LegacyInv
    <3>2. CASE Len(todo[t]) # 1
      <4>1. Tail(todo[t]) # << >>
        BY <2>2, <3>2, LongTail
      <4> QED BY <2>1, <4>1 DEF FlagsTyped
    <3> QED BY <3>1, <3>2
  <2> QED BY <2>3, <2>4, SettingsStay DEF LegacyInv
<1>3. ASSUME NEW t \in Threads, Applied(t), UNCHANGED <<flags, legacy, seen>>,
             todo' = [todo EXCEPT ![t] = Settings]
      PROVE  LegacyInv'
  <2>1. todo[t] = << >> /\ seen[t] = None
    BY <1>3 DEF Applied
  <2>2. ASSUME NEW u \in Threads, seen'[u] # None
        PROVE  todo'[u] # << >> /\ Done(Head(todo[u]))' /\ (Len(todo'[u]) = 1 => seen'[u] = Wanted)
    <3>1. u # t /\ todo'[u] = todo[u] /\ seen'[u] = seen[u]
      BY <1>3, <2>1, <2>2 DEF FlagsTyped
    <3> QED BY <1>3, <2>2, <3>1 DEF LegacyInv, Done
  <2>3. legacy' = Wanted \/ \E u \in Threads : todo'[u] # << >>
    <3>1. CASE legacy = Wanted
      BY <1>3, <3>1
    <3>2. CASE \E u \in Threads : todo[u] # << >>
      <4>1. PICK u \in Threads : todo[u] # << >>
        BY <3>2
      <4>2. todo'[u] = todo[u]
        BY <1>3, <2>1, <4>1 DEF FlagsTyped
      <4> QED BY <4>1, <4>2
    <3>3. CASE legacy = DefaultFlags
      <4>1. todo'[t] = Settings
        BY <1>3 DEF FlagsTyped
      <4> QED BY <1>3, <3>3, <4>1, NoSettings
    <3> QED BY <3>1, <3>2, <3>3 DEF LegacyInv
  <2> QED BY <2>2, <2>3, SettingsStay DEF LegacyInv
<1>4. CASE UNCHANGED <<flags, legacy, seen, todo, constructed, initialized>>
  <2>1. \A u \in Threads : Done(Head(todo[u]))' <=> Done(Head(todo[u]))
    BY <1>4 DEF Done
  <2> QED BY <1>4, <2>1, SettingsStay DEF LegacyInv
<1>5. ASSUME NEW t \in Threads, InitEnvOnce(t),
             UNCHANGED <<command, env, flags, legacy, constructed, seen, traceVars>>
      PROVE  LegacyInv'
  <2>1. CASE initialized
    BY <1>4, <1>5, <2>1 DEF InitEnvOnce, FlagsTyped
  <2>2. CASE ~ initialized
    BY <1>3, <1>5, <2>2 DEF InitEnvOnce
  <2> QED BY <2>1, <2>2
<1>6. CASE Construct
  BY <1>3, <1>6 DEF Construct
<1> QED BY <1>1, <1>2, <1>4, <1>5, <1>6 DEF FlagStep, ShouldLog, Log, flagVars

LEMMA FlagsInvInit == Init => FlagsInv
<1> SUFFICES ASSUME Init PROVE FlagsInv
  OBVIOUS
<1> USE FlagsAssumption DEF Init, FlagsInit
<1>1. FlagsTyped
  <2>1. << >> \in Seq(SettingOptions)
    OBVIOUS
  <2>2. todo \in [Threads -> Seq(SettingOptions)]
    BY <2>1
  <2> QED BY <2>2 DEF FlagsTyped, Flags
<1>2. EarlyTyped
  BY DEF EarlyTyped
<1>3. Progress
  BY DEF Progress, Pending, Elems
<1>4. LegacyInv
  BY DEF LegacyInv
<1> QED BY <1>1, <1>2, <1>3, <1>4 DEF FlagsInv

LEMMA FlagsInvStep == FlagsInv /\ [Next]_vars => FlagsInv'
BY NextFlagStep, FlagsTypedStep, EarlyTypedStep, ProgressStep, LegacyStep DEF FlagsInv

LEMMA FlagsInvariant == Spec => []FlagsInv
BY FlagsInvInit, FlagsInvStep, PTL DEF Spec

\* Once a thread has applied all its settings, the features are as wanted.
LEMMA FlagsAreWanted ==
  ASSUME FlagsInv, NEW t \in Threads, UnderWay(t), Applied(t)
  PROVE  flags = Wanted
<1>1. \A o \in AllSettings : Done(o)
  BY DEF UnderWay, Pending, Elems, Applied
<1> QED BY <1>1, SettingsComplete DEF FlagsInv, FlagsTyped, Progress, Done

\* ct_runtime_env.cpp: for every command line and environment, when the constructor has
\* ended the features are those asked for, and stay so although other threads may still
\* apply the settings a second time; and the legacy variables agree when all have ended.
THEOREM FlagsAlwaysAsAsked == Spec => []FlagsAsAsked
<1>1. FlagsInv => FlagsAsAsked
  <2> SUFFICES ASSUME FlagsInv, constructed, Applied(Main)
               PROVE  /\ flags = {f \in Flags : Asked(f)}
                      /\ (\A t \in Threads : Applied(t)) => legacy = flags
    BY DEF FlagsAsAsked
  <2>1. flags = Wanted
    BY FlagsAreWanted, FlagsAssumption DEF FlagsInv, Progress
  <2>2. (\A t \in Threads : Applied(t)) => legacy = Wanted
    BY DEF Applied, FlagsInv, LegacyInv
  <2> QED BY <2>1, <2>2 DEF Wanted
<1> QED BY <1>1, FlagsInvariant, PTL

-----------------------------------------------------------------------------
(* The calls                                                               *)

Steps == {"idle", "allocate", "record", "unpoison", "realloc", "rerecord", "release_call",
          "autofree_call", "poison", "release"}
Holds(t) == op[t].step \notin {"idle", "allocate"}
CallsTyped ==
  /\ heap \in [Ptrs -> Kinds \cup {None}] /\ owner \in [Ptrs -> Threads \cup {None}]
  /\ table \in [Ptrs -> Records \cup {None}]
  /\ poisoned \in SUBSET Ptrs
  /\ op \in [Threads -> [step : Steps, ptr : Ptrs \cup {None}, kind : Kinds,
               call : Ptrs \cup {"none", "alloc", "realloc", "autofree", "free", "delete",
                              "delete_array", "munmap", "_aligned_free"}]]
  /\ \A t \in Threads : op[t].step = "idle" => op[t] = Idle

\* A block is the program's or one call's.
Placed ==
  /\ \A t \in Threads : Holds(t) =>
       op[t].ptr \in Ptrs /\ heap[op[t].ptr] # None /\ owner[op[t].ptr] = None
  /\ \A t, u \in Threads : t # u /\ Holds(t) /\ Holds(u) => op[t].ptr # op[u].ptr
  /\ \A p \in Ptrs : owner[p] # None => heap[p] # None

Recorded(p) == table[p] = None \/ table[p].kind = heap[p]
\* What a call knows of its block.
Known(t) ==
  LET p == op[t].ptr  step == op[t].step
  IN /\ step = "record" => heap[p] = op[t].kind
     /\ step \in {"realloc", "rerecord"} => heap[p] = "malloc"
     /\ step = "release_call" => op[t].call = ReleaseApi(heap[p]) /\ op[t].kind = DefaultKind(op[t].call)
     /\ step = "poison" => Family(op[t].call) = heap[p]
     /\ step = "release" => \/ Family(op[t].call) = heap[p]
                            \/ heap[p] = "aligned" /\ (table[p] = None \/ "ALLOC" \notin flags)
OwnedRecorded == "ALLOC" \in flags => \A p \in Ptrs : owner[p] # None => Recorded(p)
HeldRecorded ==
  "ALLOC" \in flags =>
    \A t \in Threads : op[t].step \in {"unpoison", "realloc", "release_call", "autofree_call"}
                         => Recorded(op[t].ptr)
KindInv == (\A t \in Threads : Known(t)) /\ OwnedRecorded /\ HeldRecorded
CallsInv == CallsTyped /\ Placed /\ KindInv
IInv == FlagsInv /\ CallsInv


LEMMA Apis ==
  ASSUME NEW k \in Kinds
  PROVE  /\ ReleaseApi(k) \in {"free", "delete", "delete_array", "munmap"}
         /\ DefaultKind(ReleaseApi(k)) \in Kinds
         /\ ByKind(k) \in {"free", "delete", "delete_array", "munmap", "_aligned_free"}
         /\ \A api \in {"free", "delete", "delete_array", "munmap"} : \A kind :
              ByCalledApi(api, kind) \in {"free", "delete", "delete_array", "munmap", "_aligned_free"}
         /\ Family(ByKind(k)) = k
         /\ Family(ByCalledApi(ReleaseApi(k), k)) = k
         /\ k # "aligned" => Family(ByCalledApi(ReleaseApi(k), DefaultKind(ReleaseApi(k)))) = k
BY DEF Kinds, ReleaseApi, DefaultKind, ByKind, ByCalledApi, Family

LEMMA FeaturesMonotone ==
  ASSUME FlagsTyped, [Next]_vars
  PROVE  ("ALLOC" \in flags' => "ALLOC" \in flags) /\ ("SHADOW" \in flags => "SHADOW" \in flags')
<1>1. ASSUME NEW t \in Threads, SetEnabled(t)
      PROVE  ("ALLOC" \in flags' => "ALLOC" \in flags) /\ ("SHADOW" \in flags => "SHADOW" \in flags')
  <2>1. Head(todo[t]) \in SettingOptions
    BY <1>1 DEF SetEnabled, FlagsTyped
  <2> QED BY <1>1, <2>1 DEF SetEnabled, Apply, SettingOptions
<1>2. CASE flags' = flags
  BY <1>2
<1> QED BY <1>1, <1>2, NextFlagStep DEF FlagStep, Construct, SyncLegacyFlags, ShouldLog, Log,
   flagVars

LEMMA CallsTypedStep == CallsInv /\ [Next]_vars => CallsTyped'
<1> SUFFICES ASSUME CallsInv, [Next]_vars PROVE CallsTyped'
  OBVIOUS
<1> USE WindowsAssumption, FlagsAssumption DEF CallsInv
<1>1. ASSUME NEW t \in Threads, Call(t) PROVE CallsTyped'
  BY Apis, <1>1 DEF Call, To, Step, Idle, CallsTyped, Placed, KindInv, Known, Holds, Steps, Kinds,
     Records
<1>2. ASSUME NEW t \in Threads, Allocate(t) PROVE CallsTyped'
  <2>1. PICK p \in Ptrs :
          /\ heap' = [heap EXCEPT ![p] = op[t].kind]
          /\ IF On_("ALLOC")
             THEN op' = [op EXCEPT ![t] = Step("record", p, "alloc", op[t].kind)] /\ UNCHANGED owner
             ELSE op' = [op EXCEPT ![t] = Idle] /\ owner' = [owner EXCEPT ![p] = t]
    BY <1>2 DEF Allocate, To
  <2>2. heap' \in [Ptrs -> Kinds \cup {None}] /\ owner' \in [Ptrs -> Threads \cup {None}]
        /\ table' = table /\ poisoned' = poisoned
    BY <1>2, <2>1 DEF Allocate, CallsTyped
  <2>3. CASE On_("ALLOC")
    BY SMTT(30), <2>1, <2>2, <2>3 DEF CallsTyped, Step, Steps
  <2>4. CASE ~ On_("ALLOC")
    BY <2>1, <2>2, <2>4 DEF CallsTyped, Idle, Steps, Kinds
  <2> QED BY <2>3, <2>4
<1>3. ASSUME NEW t \in Threads, AllocateFails(t) PROVE CallsTyped'
  BY Apis, <1>3 DEF AllocateFails, To, Running, Idle, heapVars, CallsTyped, Placed, KindInv, Known,
     Holds, Steps, Kinds, Records
<1>4. ASSUME NEW t \in Threads, Record(t) PROVE CallsTyped'
  BY Apis, <1>4 DEF Record, To, Running, Used, CallsTyped, Placed, KindInv, Known, Holds, Steps,
     Kinds, Records
<1>5. ASSUME NEW t \in Threads, Unpoison(t) PROVE CallsTyped'
  BY Apis, <1>5 DEF Unpoison, To, Running, Idle, On_, CallsTyped, Placed, KindInv, Known, Holds,
     Steps, Kinds, Records
<1>6. ASSUME NEW t \in Threads, Realloc(t) PROVE CallsTyped'
  <2>1. op[t].ptr \in Ptrs
    BY <1>6 DEF Realloc, Running, Placed, Holds
  <2>2. /\ heap' \in [Ptrs -> Kinds \cup {None}] /\ owner' \in [Ptrs -> Threads \cup {None}]
        /\ table' = table /\ poisoned' = poisoned
    BY <1>6, <2>1 DEF Realloc, CallsTyped, Kinds
  <2>3. \/ op' = [op EXCEPT ![t] = Idle]
        \/ \E q \in Ptrs : op' = [op EXCEPT ![t] = Step("rerecord", q, op[t].ptr, "malloc")]
    BY <1>6, <2>1 DEF Realloc, To
  <2>4. CASE op' = [op EXCEPT ![t] = Idle]
    BY <2>2, <2>4 DEF CallsTyped, Idle, Steps, Kinds
  <2>5. ASSUME NEW q \in Ptrs, op' = [op EXCEPT ![t] = Step("rerecord", q, op[t].ptr, "malloc")]
        PROVE  CallsTyped'
    BY <2>1, <2>2, <2>5 DEF CallsTyped, Step, Steps, Kinds
  <2> QED BY <2>3, <2>4, <2>5
<1>7. ASSUME NEW t \in Threads, Rerecord(t) PROVE CallsTyped'
  BY SMTT(30), Apis, <1>7 DEF Rerecord, To, Running, Step, Marked, Used, CallsTyped, Placed,
     KindInv, Known, Holds, Steps, Kinds, Records
<1>8. ASSUME NEW t \in Threads, ReleaseCall(t) PROVE CallsTyped'
  BY SMTT(30), Apis, <1>8 DEF ReleaseCall, To, Running, Step, Idle, On_, Marked, CallsTyped,
     Placed, KindInv, Known, Holds, Steps, Kinds, Records
<1>9. ASSUME NEW t \in Threads, AutofreeCall(t) PROVE CallsTyped'
  <2>1. op[t].ptr \in Ptrs
    BY <1>9 DEF AutofreeCall, Running, Placed, Holds
  <2>2. /\ heap' = heap /\ owner' \in [Ptrs -> Threads \cup {None}] /\ poisoned' = poisoned
        /\ table' \in [Ptrs -> Records \cup {None}]
    BY <1>9, <2>1 DEF AutofreeCall, Marked, CallsTyped, Records
  <2>3. CASE op' = [op EXCEPT ![t] = Idle]
    BY <2>2, <2>3 DEF CallsTyped, Idle, Steps, Kinds
  <2>4. CASE op' # [op EXCEPT ![t] = Idle]
    <3>1. table[op[t].ptr] \in Records
      BY <1>9, <2>1, <2>4 DEF AutofreeCall, To, CallsTyped
    <3>2. table[op[t].ptr].kind \in Kinds
      BY <3>1 DEF Records
    <3>3. op' = [op EXCEPT ![t] = Step("poison", op[t].ptr, ByKind(table[op[t].ptr].kind), table[op[t].ptr].kind)]
      BY <1>9, <2>4 DEF AutofreeCall, To
    <3> QED BY <2>1, <2>2, <3>2, <3>3, Apis DEF CallsTyped, Step, Steps
  <2> QED BY <2>3, <2>4
<1>10. ASSUME NEW t \in Threads, Poison(t) PROVE CallsTyped'
  BY Apis, <1>10 DEF Poison, To, Running, On_, CallsTyped, Placed, KindInv, Known, Holds, Steps,
     Kinds, Records
<1>11. ASSUME NEW t \in Threads, Release(t) PROVE CallsTyped'
  BY Apis, <1>11 DEF Release, To, Running, Idle, CallsTyped, Placed, KindInv, Known, Holds, Steps,
     Kinds, Records
<1>12. CASE UNCHANGED <<heapVars, op>>
  BY Apis, <1>12 DEF heapVars, CallsTyped, Placed, KindInv, Known, Holds, Steps, Kinds, Records
<1> QED
  BY <1>1, <1>2, <1>3, <1>4, <1>5, <1>6, <1>7, <1>8, <1>9, <1>10, <1>11, <1>12 DEF Next, vars,
     heapVars

LEMMA PlacedStep == CallsInv /\ FlagsTyped /\ [Next]_vars => Placed'
<1> SUFFICES ASSUME CallsInv, FlagsTyped, [Next]_vars PROVE Placed'
  OBVIOUS
<1> USE WindowsAssumption, FlagsAssumption DEF CallsInv
<1>1. ASSUME NEW t \in Threads, Call(t) PROVE Placed'
  BY SMTT(30), Apis, <1>1 DEF Call, To, Step, Idle, CallsTyped, Placed, KindInv, Known, Holds,
     Steps, Kinds
<1>2. ASSUME NEW t \in Threads, Allocate(t) PROVE Placed'
  <2>1. PICK p \in Ptrs :
          /\ heap[p] = None /\ heap' = [heap EXCEPT ![p] = op[t].kind]
          /\ IF On_("ALLOC")
             THEN op' = [op EXCEPT ![t] = Step("record", p, "alloc", op[t].kind)] /\ UNCHANGED owner
             ELSE op' = [op EXCEPT ![t] = Idle] /\ owner' = [owner EXCEPT ![p] = t]
    BY <1>2 DEF Allocate, To
  <2>2. owner[p] = None /\ \A u \in Threads : Holds(u) => op[u].ptr # p
    BY <2>1 DEF Placed
  <2>3. heap'[p] # None /\ \A q \in Ptrs \ {p} : heap'[q] = heap[q]
    BY <2>1 DEF CallsTyped
  <2>4. CASE On_("ALLOC")
    <3>1. \A u \in Threads \ {t} : op'[u] = op[u]
      BY <2>1, <2>4 DEF CallsTyped
    <3>2. op'[t].ptr = p /\ owner' = owner
      BY <2>1, <2>4 DEF CallsTyped, Step
    <3> QED BY <2>1, <2>2, <2>3, <3>1, <3>2 DEF Placed, Holds
  <2>5. CASE ~ On_("ALLOC")
    <3>1. \A u \in Threads \ {t} : op'[u] = op[u]
      BY <2>1, <2>5 DEF CallsTyped
    <3>2. op'[t].step = "idle" /\ owner' = [owner EXCEPT ![p] = t]
      BY <2>1, <2>5 DEF CallsTyped, Idle
    <3> QED BY <2>1, <2>2, <2>3, <3>1, <3>2 DEF Placed, Holds, CallsTyped
  <2> QED BY <2>4, <2>5
<1>3. ASSUME NEW t \in Threads, AllocateFails(t) PROVE Placed'
  BY Apis, <1>3 DEF AllocateFails, To, Running, Idle, heapVars, CallsTyped, Placed, KindInv, Known,
     Holds, Steps, Kinds
<1>4. ASSUME NEW t \in Threads, Record(t) PROVE Placed'
  BY Apis, <1>4 DEF Record, To, Running, Used, CallsTyped, Placed, KindInv, Known, Holds, Steps,
     Kinds
<1>5. ASSUME NEW t \in Threads, Unpoison(t) PROVE Placed'
  BY Apis, <1>5 DEF Unpoison, To, Running, Idle, On_, CallsTyped, Placed, KindInv, Known, Holds,
     Steps, Kinds
<1>6. ASSUME NEW t \in Threads, Realloc(t) PROVE Placed'
  BY Apis, <1>6 DEF Realloc, To, Running, Step, Idle, On_, CallsTyped, Placed, KindInv, Known,
     Holds, Steps, Kinds
<1>7. ASSUME NEW t \in Threads, Rerecord(t) PROVE Placed'
  BY Apis, <1>7 DEF Rerecord, To, Running, Step, Marked, Used, CallsTyped, Placed, KindInv, Known,
     Holds, Steps, Kinds
<1>8. ASSUME NEW t \in Threads, ReleaseCall(t) PROVE Placed'
  BY SMTT(30), Apis, <1>8 DEF ReleaseCall, To, Running, Step, Idle, On_, Marked, CallsTyped,
     Placed, KindInv, Known, Holds, Steps, Kinds
<1>9. ASSUME NEW t \in Threads, AutofreeCall(t) PROVE Placed'
  BY Apis, <1>9 DEF AutofreeCall, To, Running, Step, Idle, Marked, CallsTyped, Placed, KindInv,
     Known, Holds, Steps, Kinds
<1>10. ASSUME NEW t \in Threads, Poison(t) PROVE Placed'
  BY Apis, <1>10 DEF Poison, To, Running, On_, CallsTyped, Placed, KindInv, Known, Holds, Steps,
     Kinds
<1>11. ASSUME NEW t \in Threads, Release(t) PROVE Placed'
  BY Apis, <1>11 DEF Release, To, Running, Idle, CallsTyped, Placed, KindInv, Known, Holds, Steps,
     Kinds
<1>12. CASE UNCHANGED <<heapVars, op>>
  BY Apis, <1>12 DEF heapVars, CallsTyped, Placed, KindInv, Known, Holds, Steps, Kinds
<1> QED
  BY <1>1, <1>2, <1>3, <1>4, <1>5, <1>6, <1>7, <1>8, <1>9, <1>10, <1>11, <1>12 DEF Next, vars,
     heapVars

LEMMA KnownStep == CallsInv /\ FlagsTyped /\ [Next]_vars => (\A v \in Threads : Known(v))'
<1> SUFFICES ASSUME CallsInv, FlagsTyped, [Next]_vars PROVE (\A v \in Threads : Known(v))'
  OBVIOUS
<1> USE WindowsAssumption, FlagsAssumption DEF CallsInv
<1>1. ASSUME NEW t \in Threads, Call(t) PROVE (\A v \in Threads : Known(v))'
  BY Apis, FeaturesMonotone, <1>1 DEF Call, To, Step, Idle, CallsTyped, Placed, KindInv, Known,
     Holds, Steps, Recorded
<1>2. ASSUME NEW t \in Threads, Allocate(t) PROVE (\A v \in Threads : Known(v))'
  BY Apis, FeaturesMonotone, <1>2 DEF Allocate, To, Running, Step, Idle, On_, CallsTyped, Placed,
     KindInv, OwnedRecorded, HeldRecorded, Recorded, Known, Holds, Steps
<1>3. ASSUME NEW t \in Threads, AllocateFails(t) PROVE (\A v \in Threads : Known(v))'
  BY Apis, FeaturesMonotone, <1>3 DEF AllocateFails, To, Running, Idle, heapVars, CallsTyped,
     Placed, KindInv, OwnedRecorded, HeldRecorded, Recorded, Known, Holds, Steps
<1>4. ASSUME NEW t \in Threads, Record(t) PROVE (\A v \in Threads : Known(v))'
  BY Apis, FeaturesMonotone, <1>4 DEF Record, To, Running, Used, CallsTyped, Placed, KindInv, Known,
     Holds, Steps, Recorded
<1>5. ASSUME NEW t \in Threads, Unpoison(t) PROVE (\A v \in Threads : Known(v))'
  BY Apis, FeaturesMonotone, <1>5 DEF Unpoison, To, Running, Idle, On_, CallsTyped, Placed, KindInv,
     Known, Holds, Steps, Recorded
<1>6. ASSUME NEW t \in Threads, Realloc(t) PROVE (\A v \in Threads : Known(v))'
  BY Apis, FeaturesMonotone, <1>6 DEF Realloc, To, Running, Step, Idle, On_, CallsTyped, Placed,
     KindInv, OwnedRecorded, HeldRecorded, Recorded, Known, Holds, Steps
<1>7. ASSUME NEW t \in Threads, Rerecord(t) PROVE (\A v \in Threads : Known(v))'
  BY Apis, FeaturesMonotone, <1>7 DEF Rerecord, To, Running, Step, Marked, Used, CallsTyped, Placed,
     KindInv, OwnedRecorded, HeldRecorded, Recorded, Known, Holds, Steps
<1>8. ASSUME NEW t \in Threads, ReleaseCall(t) PROVE (\A v \in Threads : Known(v))'
  BY Apis, FeaturesMonotone, <1>8 DEF ReleaseCall, To, Running, Step, Idle, On_, Marked, CallsTyped,
     Placed, KindInv, OwnedRecorded, HeldRecorded, Recorded, Known, Holds, Steps
<1>9. ASSUME NEW t \in Threads, AutofreeCall(t) PROVE (\A v \in Threads : Known(v))'
  BY Apis, FeaturesMonotone, <1>9 DEF AutofreeCall, To, Running, Step, Idle, Marked, CallsTyped,
     Placed, KindInv, OwnedRecorded, HeldRecorded, Recorded, Known, Holds, Steps
<1>10. ASSUME NEW t \in Threads, Poison(t) PROVE (\A v \in Threads : Known(v))'
  BY Apis, FeaturesMonotone, <1>10 DEF Poison, To, Running, On_, CallsTyped, Placed, KindInv, Known,
     Holds, Steps, Recorded
<1>11. ASSUME NEW t \in Threads, Release(t) PROVE (\A v \in Threads : Known(v))'
  BY Apis, FeaturesMonotone, <1>11 DEF Release, To, Running, Idle, CallsTyped, Placed, KindInv,
     Known, Holds, Steps, Recorded
<1>12. CASE UNCHANGED <<heapVars, op>>
  BY Apis, FeaturesMonotone, <1>12 DEF heapVars, CallsTyped, Placed, KindInv, OwnedRecorded,
     HeldRecorded, Recorded, Known, Holds, Steps,
     Recorded
<1> QED
  BY <1>1, <1>2, <1>3, <1>4, <1>5, <1>6, <1>7, <1>8, <1>9, <1>10, <1>11, <1>12 DEF Next, vars,
     heapVars

LEMMA RerecordKinds ==
  ASSUME CallsInv, NEW t \in Threads, Rerecord(t)
  PROVE  /\ heap' = heap /\ op[t].ptr \in Ptrs
         /\ \A r \in Ptrs : Recorded(r) \/ r = op[t].ptr => Recorded(r)'
<1> DEFINE q == op[t].ptr
           M == IF op[t].call = q THEN table ELSE Marked(op[t].call, "freed")
<1> USE WindowsAssumption DEF CallsInv
<1>1. /\ q \in Ptrs /\ heap[q] = "malloc" /\ heap' = heap
      /\ table' = [M EXCEPT ![q] = Used("malloc")]
  BY DEF Rerecord, Running, Placed, Holds, KindInv, Known
<1>2. \A r \in Ptrs : M[r] = table[r] \/ (table[r] \in Records /\ M[r] = [table[r] EXCEPT !.state = "freed"])
  BY DEF Marked, CallsTyped
<1>3. DOMAIN M = Ptrs
  BY DEF Marked, CallsTyped
<1>4. \A r \in Ptrs : Recorded(r) => M[r] = None \/ M[r].kind = heap[r]
  BY <1>2 DEF Recorded, Records
<1> HIDE DEF M
<1>5. table'[q] = Used("malloc") /\ \A r \in Ptrs \ {q} : table'[r] = M[r]
  BY <1>1, <1>3
<1> QED BY <1>1, <1>4, <1>5 DEF Recorded, Used

LEMMA OwnedRecordedStep == CallsInv /\ FlagsTyped /\ [Next]_vars => OwnedRecorded'
<1> SUFFICES ASSUME CallsInv, FlagsTyped, [Next]_vars PROVE OwnedRecorded'
  OBVIOUS
<1> USE WindowsAssumption, FlagsAssumption DEF CallsInv
<1>1. ASSUME NEW t \in Threads, Call(t) PROVE OwnedRecorded'
  BY FeaturesMonotone, <1>1 DEF Call, To, Step, Idle, CallsTyped, Placed, KindInv, OwnedRecorded,
     HeldRecorded, Known, Holds, Steps, Recorded
<1>2. ASSUME NEW t \in Threads, Allocate(t) PROVE OwnedRecorded'
  BY FeaturesMonotone, <1>2 DEF Allocate, To, Running, Step, Idle, On_, CallsTyped, Placed, KindInv,
     OwnedRecorded, HeldRecorded, Known, Holds, Steps, Recorded
<1>3. ASSUME NEW t \in Threads, AllocateFails(t) PROVE OwnedRecorded'
  BY FeaturesMonotone, <1>3 DEF AllocateFails, To, Running, Idle, heapVars, CallsTyped, Placed,
     KindInv, OwnedRecorded, HeldRecorded, Known, Holds, Steps, Recorded
<1>4. ASSUME NEW t \in Threads, Record(t) PROVE OwnedRecorded'
  BY FeaturesMonotone, <1>4 DEF Record, To, Running, Used, CallsTyped, Placed, KindInv,
     OwnedRecorded, HeldRecorded, Known, Holds, Steps, Recorded
<1>5. ASSUME NEW t \in Threads, Unpoison(t) PROVE OwnedRecorded'
  BY FeaturesMonotone, <1>5 DEF Unpoison, To, Running, Idle, On_, CallsTyped, Placed, KindInv,
     OwnedRecorded, HeldRecorded, Known, Holds, Steps, Recorded
<1>6. ASSUME NEW t \in Threads, Realloc(t) PROVE OwnedRecorded'
  BY FeaturesMonotone, <1>6 DEF Realloc, To, Running, Step, Idle, On_, CallsTyped, Placed, KindInv,
     OwnedRecorded, HeldRecorded, Known, Holds, Steps, Recorded
<1>7. ASSUME NEW t \in Threads, Rerecord(t) PROVE OwnedRecorded'
  <2>1. \A r \in Ptrs : Recorded(r) => Recorded(r)'
    BY <1>7, RerecordKinds
  <2> QED BY <1>7, <2>1, FeaturesMonotone DEF Rerecord, OwnedRecorded, KindInv
<1>8. ASSUME NEW t \in Threads, ReleaseCall(t) PROVE OwnedRecorded'
  BY FeaturesMonotone, <1>8 DEF ReleaseCall, To, Running, Step, Idle, On_, Marked, CallsTyped,
     Placed, KindInv, OwnedRecorded, HeldRecorded, Known, Holds, Steps, Recorded
<1>9. ASSUME NEW t \in Threads, AutofreeCall(t) PROVE OwnedRecorded'
  BY FeaturesMonotone, <1>9 DEF AutofreeCall, To, Running, Step, Idle, Marked, CallsTyped, Placed,
     KindInv, OwnedRecorded, HeldRecorded, Known, Holds, Steps, Recorded
<1>10. ASSUME NEW t \in Threads, Poison(t) PROVE OwnedRecorded'
  BY FeaturesMonotone, <1>10 DEF Poison, To, Running, On_, CallsTyped, Placed, KindInv,
     OwnedRecorded, HeldRecorded, Known, Holds, Steps, Recorded
<1>11. ASSUME NEW t \in Threads, Release(t) PROVE OwnedRecorded'
  BY FeaturesMonotone, <1>11 DEF Release, To, Running, Idle, CallsTyped, Placed, KindInv,
     OwnedRecorded, HeldRecorded, Known, Holds, Steps, Recorded
<1>12. CASE UNCHANGED <<heapVars, op>>
  BY FeaturesMonotone, <1>12 DEF heapVars, CallsTyped, Placed, KindInv, OwnedRecorded, HeldRecorded,
     Known, Holds, Steps, Recorded
<1> QED
  BY <1>1, <1>2, <1>3, <1>4, <1>5, <1>6, <1>7, <1>8, <1>9, <1>10, <1>11, <1>12 DEF Next, vars,
     heapVars

LEMMA HeldRecordedStep == CallsInv /\ FlagsTyped /\ [Next]_vars => HeldRecorded'
<1> SUFFICES ASSUME CallsInv, FlagsTyped, [Next]_vars PROVE HeldRecorded'
  OBVIOUS
<1> USE WindowsAssumption, FlagsAssumption DEF CallsInv
<1>1. ASSUME NEW t \in Threads, Call(t) PROVE HeldRecorded'
  BY FeaturesMonotone, <1>1 DEF Call, To, Step, Idle, CallsTyped, Placed, KindInv, OwnedRecorded,
     HeldRecorded, Known, Holds, Steps, Recorded
<1>2. ASSUME NEW t \in Threads, Allocate(t) PROVE HeldRecorded'
  BY FeaturesMonotone, <1>2 DEF Allocate, To, Running, Step, Idle, On_, CallsTyped, Placed, KindInv,
     OwnedRecorded, HeldRecorded, Known, Holds, Steps, Recorded
<1>3. ASSUME NEW t \in Threads, AllocateFails(t) PROVE HeldRecorded'
  BY FeaturesMonotone, <1>3 DEF AllocateFails, To, Running, Idle, heapVars, CallsTyped, Placed,
     KindInv, OwnedRecorded, HeldRecorded, Known, Holds, Steps, Recorded
<1>4. ASSUME NEW t \in Threads, Record(t) PROVE HeldRecorded'
  BY FeaturesMonotone, <1>4 DEF Record, To, Running, Used, CallsTyped, Placed, KindInv,
     OwnedRecorded, HeldRecorded, Known, Holds, Steps, Recorded
<1>5. ASSUME NEW t \in Threads, Unpoison(t) PROVE HeldRecorded'
  BY FeaturesMonotone, <1>5 DEF Unpoison, To, Running, Idle, On_, CallsTyped, Placed, KindInv,
     OwnedRecorded, HeldRecorded, Known, Holds, Steps, Recorded
<1>6. ASSUME NEW t \in Threads, Realloc(t) PROVE HeldRecorded'
  BY FeaturesMonotone, <1>6 DEF Realloc, To, Running, Step, Idle, On_, CallsTyped, Placed, KindInv,
     OwnedRecorded, HeldRecorded, Known, Holds, Steps, Recorded
<1>7. ASSUME NEW t \in Threads, Rerecord(t) PROVE HeldRecorded'
  <2>1. op[t].ptr \in Ptrs /\ \A r \in Ptrs : Recorded(r) \/ r = op[t].ptr => Recorded(r)'
    BY <1>7, RerecordKinds
  <2>2. op'[t].ptr = op[t].ptr /\ \A u \in Threads \ {t} : op'[u] = op[u]
    BY <1>7 DEF Rerecord, To, Step, CallsTyped
  <2>3. ASSUME NEW u \in Threads, "ALLOC" \in flags',
               op'[u].step \in {"unpoison", "realloc", "release_call", "autofree_call"}
        PROVE  Recorded(op[u].ptr)'
    <3>1. CASE u = t
      <4>1. table'[op[t].ptr] = None \/ table'[op[t].ptr].kind = heap'[op[t].ptr]
        BY <2>1 DEF Recorded
      <4> QED BY <2>2, <3>1, <4>1 DEF Recorded
    <3>2. CASE u # t
      <4>1. op[u].ptr \in Ptrs /\ Recorded(op[u].ptr)
        BY <2>2, <2>3, <3>2, FeaturesMonotone DEF KindInv, HeldRecorded, Placed, Holds
      <4>2. table'[op[u].ptr] = None \/ table'[op[u].ptr].kind = heap'[op[u].ptr]
        BY <2>1, <4>1 DEF Recorded
      <4> QED BY <2>2, <3>2, <4>2 DEF Recorded
    <3> QED BY <3>1, <3>2
  <2> QED BY <2>3 DEF HeldRecorded
<1>8. ASSUME NEW t \in Threads, ReleaseCall(t) PROVE HeldRecorded'
  BY FeaturesMonotone, <1>8 DEF ReleaseCall, To, Running, Step, Idle, On_, Marked, CallsTyped,
     Placed, KindInv, OwnedRecorded, HeldRecorded, Known, Holds, Steps, Recorded
<1>9. ASSUME NEW t \in Threads, AutofreeCall(t) PROVE HeldRecorded'
  BY FeaturesMonotone, <1>9 DEF AutofreeCall, To, Running, Step, Idle, Marked, CallsTyped, Placed,
     KindInv, OwnedRecorded, HeldRecorded, Known, Holds, Steps, Recorded
<1>10. ASSUME NEW t \in Threads, Poison(t) PROVE HeldRecorded'
  BY FeaturesMonotone, <1>10 DEF Poison, To, Running, On_, CallsTyped, Placed, KindInv,
     OwnedRecorded, HeldRecorded, Known, Holds, Steps, Recorded
<1>11. ASSUME NEW t \in Threads, Release(t) PROVE HeldRecorded'
  BY FeaturesMonotone, <1>11 DEF Release, To, Running, Idle, CallsTyped, Placed, KindInv,
     OwnedRecorded, HeldRecorded, Known, Holds, Steps, Recorded
<1>12. CASE UNCHANGED <<heapVars, op>>
  BY FeaturesMonotone, <1>12 DEF heapVars, CallsTyped, Placed, KindInv, OwnedRecorded, HeldRecorded,
     Known, Holds, Steps, Recorded
<1> QED
  BY <1>1, <1>2, <1>3, <1>4, <1>5, <1>6, <1>7, <1>8, <1>9, <1>10, <1>11, <1>12 DEF Next, vars,
     heapVars

LEMMA CallsInvStep == IInv /\ [Next]_vars => IInv'
BY FlagsInvStep, CallsTypedStep, PlacedStep, KnownStep, OwnedRecordedStep, HeldRecordedStep
   DEF IInv, CallsInv, KindInv, FlagsInv

LEMMA CallsInvInit == Init => CallsInv
<1> SUFFICES ASSUME Init PROVE CallsInv
  OBVIOUS
<1> USE WindowsAssumption, FlagsAssumption DEF Init
<1>1. CallsTyped
  BY DEF CallsTyped, Idle, Steps, Kinds
<1>2. Placed
  BY DEF Placed, Holds, Idle
<1>3. KindInv
  BY DEF KindInv, OwnedRecorded, HeldRecorded, Known, Idle
<1> QED BY <1>1, <1>2, <1>3 DEF CallsInv

LEMMA Invariant == Spec => []IInv
<1>1. Init => IInv
  BY FlagsInvInit, CallsInvInit DEF IInv
<1> QED BY <1>1, CallsInvStep, PTL DEF Spec

\* The runtime is well typed, and the early trace counts every line it writes, no more
\* than its limit: a line is only written by the thread that took its number.
THEOREM TypeCorrect == Spec => []TypeOK
<1>1. IInv => TypeOK
  BY FlagsAssumption DEF IInv, FlagsInv, FlagsTyped, EarlyTyped, CallsInv, CallsTyped, TypeOK,
     FlagsTypeOK
<1> QED BY <1>1, Invariant, PTL

\* ct_release_by_called_api, ct_release_autofree_memory: whatever the threads do, and
\* also if a realloc moves blocks, memory is released by the function of its family.
THEOREM FamilyAlwaysMatches == Spec => []FamilyMatches
<1>1. IInv => FamilyMatches
  BY DEF IInv, CallsInv, KindInv, Known, FamilyMatches, On_
<1> QED BY <1>1, Invariant, PTL

-----------------------------------------------------------------------------
(* The leak report.  A realloc that moves a block drops its old record too *)
(* late: between the two steps the address may be another thread's.        *)

Apart == ~ Moves \/ Threads = {Main}
InUse(p) == table[p] # None /\ table[p].state = "used"
Moved(t) == op[t].step = "rerecord" /\ op[t].call # op[t].ptr

Found == \A p \in Ptrs : heap[p] # None /\ owner[p] = None => \E t \in Threads : Holds(t) /\ op[t].ptr = p
MovedAlone == \A t \in Threads : Moved(t) => Threads = {Main} /\ op[t].call \in Ptrs /\ heap[op[t].call] = None
OwnedUsed ==
  "ALLOC" \in flags => \A p \in Ptrs : owner[p] # None => (table[p] = None \/ InUse(p)) /\ p \notin poisoned
HeldUsed ==
  "ALLOC" \in flags => \A t \in Threads :
    LET p == op[t].ptr
    IN /\ op[t].step \in {"unpoison", "realloc", "release_call", "autofree_call"} => table[p] = None \/ InUse(p)
       /\ op[t].step \in {"realloc", "release_call", "autofree_call"} => p \notin poisoned
       /\ op[t].step \in {"poison", "release"} => ~ InUse(p)
FreeUnused ==
  "ALLOC" \in flags =>
    \A p \in Ptrs : heap[p] = None /\ InUse(p) => \E t \in Threads : Moved(t) /\ op[t].call = p
NoShadow == "SHADOW" \notin flags => poisoned = {}
ReportInv == Found /\ MovedAlone /\ OwnedUsed /\ HeldUsed /\ FreeUnused /\ NoShadow

LEMMA FoundStep == Apart /\ IInv /\ ReportInv /\ [Next]_vars => Found'
<1> SUFFICES ASSUME Apart, IInv, ReportInv, [Next]_vars PROVE Found'
  OBVIOUS
<1>a. CallsTyped /\ Placed /\ (\A v \in Threads : Known(v)) /\ FlagsTyped
  BY DEF IInv, FlagsInv, CallsInv, KindInv
<1>b. Found /\ HeldUsed
  BY DEF ReportInv
<1> USE WindowsAssumption, FlagsAssumption
<1>1. ASSUME NEW t \in Threads, Call(t) PROVE Found'
  BY SMTT(30), <1>a, <1>b, <1>1 DEF Call, To, Step, Idle, CallsTyped, Placed, Holds, Steps, Known,
     Found, InUse
<1>2. ASSUME NEW t \in Threads, Allocate(t) PROVE Found'
  BY SMTT(30), <1>a, <1>b, <1>2 DEF Allocate, To, Running, Step, Idle, On_, CallsTyped, Placed,
     Holds, Steps, Known, Found, InUse
<1>3. ASSUME NEW t \in Threads, AllocateFails(t) PROVE Found'
  BY SMTT(30), <1>a, <1>b, <1>3 DEF AllocateFails, To, Running, Idle, heapVars, CallsTyped, Placed,
     Holds, Steps, Known, Found, InUse
<1>4. ASSUME NEW t \in Threads, Record(t) PROVE Found'
  BY SMTT(30), <1>a, <1>b, <1>4 DEF Record, To, Running, Used, CallsTyped, Placed, Holds, Steps,
     Known, Found, InUse
<1>5. ASSUME NEW t \in Threads, Unpoison(t) PROVE Found'
  BY SMTT(30), <1>a, <1>b, <1>5 DEF Unpoison, To, Running, Idle, On_, CallsTyped, Placed, Holds,
     Steps, Known, Found, InUse
<1>6. ASSUME NEW t \in Threads, Realloc(t) PROVE Found'
  BY SMTT(30), <1>a, <1>b, <1>6 DEF Realloc, To, Running, Step, Idle, On_, CallsTyped, Placed,
     Holds, Steps, Known, Found, InUse
<1>7. ASSUME NEW t \in Threads, Rerecord(t) PROVE Found'
  BY SMTT(30), <1>a, <1>b, <1>7 DEF Rerecord, To, Running, Step, Marked, Used, CallsTyped, Placed,
     Holds, Steps, Known, Found, InUse
<1>8. ASSUME NEW t \in Threads, ReleaseCall(t) PROVE Found'
  BY SMTT(30), <1>a, <1>b, <1>8 DEF ReleaseCall, To, Running, Step, Idle, On_, Marked, HeldUsed,
     CallsTyped, Placed, Holds, Steps, Known, Found, InUse
<1>9. ASSUME NEW t \in Threads, AutofreeCall(t) PROVE Found'
  BY SMTT(30), <1>a, <1>b, <1>9 DEF AutofreeCall, To, Running, Step, Idle, Marked, CallsTyped,
     Placed, Holds, Steps, Known, Found, InUse
<1>10. ASSUME NEW t \in Threads, Poison(t) PROVE Found'
  BY SMTT(30), <1>a, <1>b, <1>10 DEF Poison, To, Running, On_, CallsTyped, Placed, Holds, Steps,
     Known, Found, InUse
<1>11. ASSUME NEW t \in Threads, Release(t) PROVE Found'
  BY SMTT(30), <1>a, <1>b, <1>11 DEF Release, To, Running, Idle, CallsTyped, Placed, Holds, Steps,
     Known, Found, InUse
<1>12. CASE UNCHANGED <<heapVars, op>>
  BY SMTT(30), <1>a, <1>b, <1>12 DEF heapVars, CallsTyped, Placed, Holds, Steps, Known, Found, InUse
<1> QED
  BY <1>1, <1>2, <1>3, <1>4, <1>5, <1>6, <1>7, <1>8, <1>9, <1>10, <1>11, <1>12 DEF Next, vars,
     heapVars

LEMMA MovedAloneStep == Apart /\ IInv /\ ReportInv /\ [Next]_vars => MovedAlone'
<1> SUFFICES ASSUME Apart, IInv, ReportInv, [Next]_vars PROVE MovedAlone'
  OBVIOUS
<1>a. CallsTyped /\ Placed /\ (\A v \in Threads : Known(v)) /\ FlagsTyped
  BY DEF IInv, FlagsInv, CallsInv, KindInv
<1>b. MovedAlone
  BY DEF ReportInv
<1> USE WindowsAssumption, FlagsAssumption
<1>1. ASSUME NEW t \in Threads, Call(t) PROVE MovedAlone'
  BY SMTT(30), <1>a, <1>b, <1>1 DEF Call, To, Step, Idle, CallsTyped, Placed, Holds, Steps, Known,
     MovedAlone, Moved, Apart
<1>2. ASSUME NEW t \in Threads, Allocate(t) PROVE MovedAlone'
  BY SMTT(30), <1>a, <1>b, <1>2 DEF Allocate, To, Running, Step, Idle, On_, CallsTyped, Placed,
     Holds, Steps, Known, MovedAlone, Moved, Apart
<1>3. ASSUME NEW t \in Threads, AllocateFails(t) PROVE MovedAlone'
  BY SMTT(30), <1>a, <1>b, <1>3 DEF AllocateFails, To, Running, Idle, heapVars, CallsTyped, Placed,
     Holds, Steps, Known, MovedAlone, Moved, Apart
<1>4. ASSUME NEW t \in Threads, Record(t) PROVE MovedAlone'
  BY SMTT(30), <1>a, <1>b, <1>4 DEF Record, To, Running, Used, CallsTyped, Placed, Holds, Steps,
     Known, MovedAlone, Moved, Apart
<1>5. ASSUME NEW t \in Threads, Unpoison(t) PROVE MovedAlone'
  BY SMTT(30), <1>a, <1>b, <1>5 DEF Unpoison, To, Running, Idle, On_, CallsTyped, Placed, Holds,
     Steps, Known, MovedAlone, Moved, Apart
<1>6. ASSUME NEW t \in Threads, Realloc(t) PROVE MovedAlone'
  BY SMTT(30), <1>a, <1>b, <1>6 DEF Realloc, To, Running, Step, Idle, On_, CallsTyped, Placed,
     Holds, Steps, Known, MovedAlone, Moved, Apart
<1>7. ASSUME NEW t \in Threads, Rerecord(t) PROVE MovedAlone'
  BY SMTT(30), <1>a, <1>b, <1>7 DEF Rerecord, To, Running, Step, Marked, Used, CallsTyped, Placed,
     Holds, Steps, Known, MovedAlone, Moved, Apart
<1>8. ASSUME NEW t \in Threads, ReleaseCall(t) PROVE MovedAlone'
  BY SMTT(30), <1>a, <1>b, <1>8 DEF ReleaseCall, To, Running, Step, Idle, On_, Marked, CallsTyped,
     Placed, Holds, Steps, Known, MovedAlone, Moved, Apart
<1>9. ASSUME NEW t \in Threads, AutofreeCall(t) PROVE MovedAlone'
  BY SMTT(30), <1>a, <1>b, <1>9 DEF AutofreeCall, To, Running, Step, Idle, Marked, CallsTyped,
     Placed, Holds, Steps, Known, MovedAlone, Moved, Apart
<1>10. ASSUME NEW t \in Threads, Poison(t) PROVE MovedAlone'
  BY SMTT(30), <1>a, <1>b, <1>10 DEF Poison, To, Running, On_, CallsTyped, Placed, Holds, Steps,
     Known, MovedAlone, Moved, Apart
<1>11. ASSUME NEW t \in Threads, Release(t) PROVE MovedAlone'
  BY SMTT(30), <1>a, <1>b, <1>11 DEF Release, To, Running, Idle, CallsTyped, Placed, Holds, Steps,
     Known, MovedAlone, Moved, Apart
<1>12. CASE UNCHANGED <<heapVars, op>>
  BY SMTT(30), <1>a, <1>b, <1>12 DEF heapVars, CallsTyped, Placed, Holds, Steps, Known, MovedAlone,
     Moved, Apart
<1> QED
  BY <1>1, <1>2, <1>3, <1>4, <1>5, <1>6, <1>7, <1>8, <1>9, <1>10, <1>11, <1>12 DEF Next, vars,
     heapVars

LEMMA OwnedUsedStep == Apart /\ IInv /\ ReportInv /\ [Next]_vars => OwnedUsed'
<1> SUFFICES ASSUME Apart, IInv, ReportInv, [Next]_vars PROVE OwnedUsed'
  OBVIOUS
<1>a. CallsTyped /\ Placed /\ (\A v \in Threads : Known(v)) /\ FlagsTyped
  BY DEF IInv, FlagsInv, CallsInv, KindInv
<1>b. OwnedUsed /\ HeldUsed /\ MovedAlone /\ NoShadow
  BY DEF ReportInv
<1> USE WindowsAssumption, FlagsAssumption
<1>1. ASSUME NEW t \in Threads, Call(t) PROVE OwnedUsed'
  BY SMTT(30), <1>a, <1>b, FeaturesMonotone, <1>1 DEF Call, To, Step, Idle, CallsTyped, Placed,
     Holds, Steps, Known, OwnedUsed, HeldUsed, MovedAlone, Moved, InUse, Records
<1>2. ASSUME NEW t \in Threads, Allocate(t) PROVE OwnedUsed'
  BY SMTT(30), <1>a, <1>b, FeaturesMonotone, <1>2 DEF Allocate, To, Running, Step, Idle, On_,
     CallsTyped, Placed, Holds, Steps, Known, OwnedUsed, HeldUsed, MovedAlone, Moved, InUse, Records
<1>3. ASSUME NEW t \in Threads, AllocateFails(t) PROVE OwnedUsed'
  BY SMTT(30), <1>a, <1>b, FeaturesMonotone, <1>3 DEF AllocateFails, To, Running, Idle, heapVars,
     CallsTyped, Placed, Holds, Steps, Known, OwnedUsed, HeldUsed, MovedAlone, Moved, InUse, Records
<1>4. ASSUME NEW t \in Threads, Record(t) PROVE OwnedUsed'
  BY SMTT(30), <1>a, <1>b, FeaturesMonotone, <1>4 DEF Record, To, Running, Used, CallsTyped,
     Placed, Holds, Steps, Known, OwnedUsed, HeldUsed, MovedAlone, Moved, InUse, Records
<1>5. ASSUME NEW t \in Threads, Unpoison(t) PROVE OwnedUsed'
  BY SMTT(30), <1>a, <1>b, FeaturesMonotone, <1>5 DEF Unpoison, To, Running, Idle, On_, NoShadow,
     CallsTyped, Placed, Holds, Steps, Known, OwnedUsed, HeldUsed, MovedAlone, Moved, InUse, Records
<1>6. ASSUME NEW t \in Threads, Realloc(t) PROVE OwnedUsed'
  BY SMTT(30), <1>a, <1>b, FeaturesMonotone, <1>6 DEF Realloc, To, Running, Step, Idle, On_,
     CallsTyped, Placed, Holds, Steps, Known, OwnedUsed, HeldUsed, MovedAlone, Moved, InUse, Records
<1>7. ASSUME NEW t \in Threads, Rerecord(t) PROVE OwnedUsed'
  BY SMTT(30), <1>a, <1>b, FeaturesMonotone, <1>7 DEF Rerecord, To, Running, Step, Marked, Used,
     CallsTyped, Placed, Holds, Steps, Known, OwnedUsed, HeldUsed, MovedAlone, Moved, InUse, Records
<1>8. ASSUME NEW t \in Threads, ReleaseCall(t) PROVE OwnedUsed'
  BY SMTT(30), <1>a, <1>b, FeaturesMonotone, <1>8 DEF ReleaseCall, To, Running, Step, Idle, On_,
     Marked, CallsTyped, Placed, Holds, Steps, Known, OwnedUsed, HeldUsed, MovedAlone, Moved,
     InUse, Records
<1>9. ASSUME NEW t \in Threads, AutofreeCall(t) PROVE OwnedUsed'
  BY SMTT(30), <1>a, <1>b, FeaturesMonotone, <1>9 DEF AutofreeCall, To, Running, Step, Idle, Marked,
     CallsTyped, Placed, Holds, Steps, Known, OwnedUsed, HeldUsed, MovedAlone, Moved, InUse, Records
<1>10. ASSUME NEW t \in Threads, Poison(t) PROVE OwnedUsed'
  BY SMTT(30), <1>a, <1>b, FeaturesMonotone, <1>10 DEF Poison, To, Running, On_, CallsTyped,
     Placed, Holds, Steps, Known, OwnedUsed, HeldUsed, MovedAlone, Moved, InUse, Records
<1>11. ASSUME NEW t \in Threads, Release(t) PROVE OwnedUsed'
  BY SMTT(30), <1>a, <1>b, FeaturesMonotone, <1>11 DEF Release, To, Running, Idle, CallsTyped,
     Placed, Holds, Steps, Known, OwnedUsed, HeldUsed, MovedAlone, Moved, InUse, Records
<1>12. CASE UNCHANGED <<heapVars, op>>
  BY SMTT(30), <1>a, <1>b, FeaturesMonotone, <1>12 DEF heapVars, CallsTyped, Placed, Holds, Steps,
     Known, OwnedUsed, HeldUsed, MovedAlone, Moved, InUse, Records
<1> QED
  BY <1>1, <1>2, <1>3, <1>4, <1>5, <1>6, <1>7, <1>8, <1>9, <1>10, <1>11, <1>12 DEF Next, vars,
     heapVars

LEMMA HeldUsedStep == Apart /\ IInv /\ ReportInv /\ [Next]_vars => HeldUsed'
<1> SUFFICES ASSUME Apart, IInv, ReportInv, [Next]_vars PROVE HeldUsed'
  OBVIOUS
<1>a. CallsTyped /\ Placed /\ (\A v \in Threads : Known(v)) /\ FlagsTyped
  BY DEF IInv, FlagsInv, CallsInv, KindInv
<1>b. OwnedUsed /\ HeldUsed /\ MovedAlone
  BY DEF ReportInv
<1> USE WindowsAssumption, FlagsAssumption
<1>1. ASSUME NEW t \in Threads, Call(t) PROVE HeldUsed'
  BY SMTT(30), <1>a, <1>b, FeaturesMonotone, <1>1 DEF Call, To, Step, Idle, CallsTyped, Placed,
     Holds, Steps, Known, OwnedUsed, HeldUsed, MovedAlone, Moved, InUse, Records
<1>2. ASSUME NEW t \in Threads, Allocate(t) PROVE HeldUsed'
  BY SMTT(30), <1>a, <1>b, FeaturesMonotone, <1>2 DEF Allocate, To, Running, Step, Idle, On_,
     CallsTyped, Placed, Holds, Steps, Known, OwnedUsed, HeldUsed, MovedAlone, Moved, InUse, Records
<1>3. ASSUME NEW t \in Threads, AllocateFails(t) PROVE HeldUsed'
  BY SMTT(30), <1>a, <1>b, FeaturesMonotone, <1>3 DEF AllocateFails, To, Running, Idle, heapVars,
     CallsTyped, Placed, Holds, Steps, Known, OwnedUsed, HeldUsed, MovedAlone, Moved, InUse, Records
<1>4. ASSUME NEW t \in Threads, Record(t) PROVE HeldUsed'
  BY SMTT(30), <1>a, <1>b, FeaturesMonotone, <1>4 DEF Record, To, Running, Used, CallsTyped,
     Placed, Holds, Steps, Known, OwnedUsed, HeldUsed, MovedAlone, Moved, InUse, Records
<1>5. ASSUME NEW t \in Threads, Unpoison(t) PROVE HeldUsed'
  BY SMTT(30), <1>a, <1>b, FeaturesMonotone, <1>5 DEF Unpoison, To, Running, Idle, On_, CallsTyped,
     Placed, Holds, Steps, Known, OwnedUsed, HeldUsed, MovedAlone, Moved, InUse, Records
<1>6. ASSUME NEW t \in Threads, Realloc(t) PROVE HeldUsed'
  BY SMTT(30), <1>a, <1>b, FeaturesMonotone, <1>6 DEF Realloc, To, Running, Step, Idle, On_,
     CallsTyped, Placed, Holds, Steps, Known, OwnedUsed, HeldUsed, MovedAlone, Moved, InUse, Records
<1>7. ASSUME NEW t \in Threads, Rerecord(t) PROVE HeldUsed'
  <2>0. PICK q \in Ptrs : q = op[t].ptr
    BY <1>a, <1>7 DEF Rerecord, Running, Placed, Holds
  <2>1. /\ flags' = flags /\ poisoned' = poisoned
        /\ op' = [op EXCEPT ![t] = Step("unpoison", q, "realloc", "malloc")]
        /\ table' = [(IF op[t].call = q THEN table ELSE Marked(op[t].call, "freed")) EXCEPT ![q] = Used("malloc")]
    BY <2>0, <1>7 DEF Rerecord, To, flagVars
  <2>2. ~ Moved(t) => table' = [table EXCEPT ![q] = Used("malloc")]
    BY <1>7, <2>0, <2>1 DEF Moved, Rerecord, Running
  <2>3. table'[q] = Used("malloc")
    BY <2>1, <1>a DEF CallsTyped, Marked
  <2>4. table'[q] # None /\ table'[q].state = "used"
    BY <2>3, WindowsAssumption DEF Used, Records, Kinds
  <2> DEFINE Use(r) == table'[r] # None /\ table'[r].state = "used"
  <2>5. ASSUME "ALLOC" \in flags, NEW v \in Threads
        PROVE  /\ op'[v].step \in {"unpoison", "realloc", "release_call", "autofree_call"}
                    => table'[op'[v].ptr] = None \/ Use(op'[v].ptr)
               /\ op'[v].step \in {"realloc", "release_call", "autofree_call"} => op'[v].ptr \notin poisoned'
               /\ op'[v].step \in {"poison", "release"} => ~ Use(op'[v].ptr)
    <3>1. CASE v = t
      BY <1>a, <2>1, <2>4, <3>1 DEF Step, CallsTyped
    <3>2. CASE v # t
      <4>1. ~ Moved(t)
        BY <1>b, <3>2 DEF MovedAlone
      <4>2. op'[v] = op[v]
        BY <1>a, <2>1, <3>2 DEF CallsTyped
      <4>3. CASE Holds(v)
        <5>1. op[v].ptr \in Ptrs /\ op[v].ptr # q
          BY <1>a, <1>7, <2>0, <3>2, <4>3 DEF Placed, Holds, Rerecord, Running
        <5>2. table'[op[v].ptr] = table[op[v].ptr]
          BY <1>a, <2>1, <2>2, <4>1, <5>1 DEF CallsTyped
        <5> QED BY <1>b, <2>1, <2>5, <4>2, <5>2 DEF HeldUsed, InUse
      <4>4. CASE ~ Holds(v)
        BY <4>2, <4>4 DEF Holds
      <4> QED BY <4>3, <4>4
    <3> QED BY <3>1, <3>2
  <2> QED BY <2>1, <2>5 DEF HeldUsed, InUse
<1>8. ASSUME NEW t \in Threads, ReleaseCall(t) PROVE HeldUsed'
  BY SMTT(30), <1>a, <1>b, FeaturesMonotone, <1>8 DEF ReleaseCall, To, Running, Step, Idle, On_,
     Marked, CallsTyped, Placed, Holds, Steps, Known, OwnedUsed, HeldUsed, MovedAlone, Moved,
     InUse, Records
<1>9. ASSUME NEW t \in Threads, AutofreeCall(t) PROVE HeldUsed'
  BY SMTT(30), <1>a, <1>b, FeaturesMonotone, <1>9 DEF AutofreeCall, To, Running, Step, Idle, Marked,
     CallsTyped, Placed, Holds, Steps, Known, OwnedUsed, HeldUsed, MovedAlone, Moved, InUse, Records
<1>10. ASSUME NEW t \in Threads, Poison(t) PROVE HeldUsed'
  BY SMTT(30), <1>a, <1>b, FeaturesMonotone, <1>10 DEF Poison, To, Running, On_, CallsTyped,
     Placed, Holds, Steps, Known, OwnedUsed, HeldUsed, MovedAlone, Moved, InUse, Records
<1>11. ASSUME NEW t \in Threads, Release(t) PROVE HeldUsed'
  BY SMTT(30), <1>a, <1>b, FeaturesMonotone, <1>11 DEF Release, To, Running, Idle, CallsTyped,
     Placed, Holds, Steps, Known, OwnedUsed, HeldUsed, MovedAlone, Moved, InUse, Records
<1>12. CASE UNCHANGED <<heapVars, op>>
  BY SMTT(30), <1>a, <1>b, FeaturesMonotone, <1>12 DEF heapVars, CallsTyped, Placed, Holds, Steps,
     Known, OwnedUsed, HeldUsed, MovedAlone, Moved, InUse, Records
<1> QED
  BY <1>1, <1>2, <1>3, <1>4, <1>5, <1>6, <1>7, <1>8, <1>9, <1>10, <1>11, <1>12 DEF Next, vars,
     heapVars

LEMMA FreeUnusedStep == Apart /\ IInv /\ ReportInv /\ [Next]_vars => FreeUnused'
<1> SUFFICES ASSUME Apart, IInv, ReportInv, [Next]_vars PROVE FreeUnused'
  OBVIOUS
<1>a. CallsTyped /\ Placed /\ (\A v \in Threads : Known(v)) /\ FlagsTyped
  BY DEF IInv, FlagsInv, CallsInv, KindInv
<1>b. FreeUnused /\ HeldUsed /\ MovedAlone
  BY DEF ReportInv
<1> USE WindowsAssumption, FlagsAssumption
<1>1. ASSUME NEW t \in Threads, Call(t) PROVE FreeUnused'
  BY SMTT(30), <1>a, <1>b, FeaturesMonotone, <1>1 DEF Call, To, Step, Idle, CallsTyped, Placed,
     Holds, Steps, Known, FreeUnused, HeldUsed, Moved, InUse, Records
<1>2. ASSUME NEW t \in Threads, Allocate(t) PROVE FreeUnused'
  <2>1. ASSUME NEW p \in Ptrs, heap'[p] = None, InUse(p)' PROVE heap[p] = None /\ InUse(p)
    <3>1. heap[p] = None
      BY <1>2, <2>1, <1>a DEF Allocate, CallsTyped
    <3> QED BY <1>2, <2>1, <3>1 DEF Allocate, InUse
  <2>2. ASSUME NEW u \in Threads, Moved(u) PROVE op'[u] = op[u]
    BY <1>2, <2>2, <1>a DEF Allocate, To, Running, Moved, CallsTyped
  <2> QED BY <1>a, <1>b, <2>1, <2>2, FeaturesMonotone DEF FreeUnused, Moved
<1>3. ASSUME NEW t \in Threads, AllocateFails(t) PROVE FreeUnused'
  BY SMTT(30), <1>a, <1>b, FeaturesMonotone, <1>3 DEF AllocateFails, To, Running, Idle, heapVars,
     CallsTyped, Placed, Holds, Steps, Known, FreeUnused, HeldUsed, Moved, InUse, Records
<1>4. ASSUME NEW t \in Threads, Record(t) PROVE FreeUnused'
  <2>1. ASSUME NEW p \in Ptrs, heap'[p] = None, InUse(p)' PROVE heap[p] = None /\ InUse(p)
    <3>1. heap[p] = None /\ op[t].ptr \in Ptrs /\ p # op[t].ptr
      BY <1>4, <2>1, <1>a DEF Record, Running, Placed, Holds
    <3>2. table'[p] = table[p]
      BY <1>4, <3>1, <1>a DEF Record, CallsTyped
    <3> QED BY <2>1, <3>1, <3>2 DEF InUse
  <2>2. ASSUME NEW u \in Threads, Moved(u) PROVE op'[u] = op[u]
    BY <1>4, <2>2, <1>a DEF Record, To, Running, Moved, CallsTyped
  <2> QED BY <1>a, <1>b, <2>1, <2>2, FeaturesMonotone DEF FreeUnused, Moved
<1>5. ASSUME NEW t \in Threads, Unpoison(t) PROVE FreeUnused'
  BY SMTT(30), <1>a, <1>b, FeaturesMonotone, <1>5 DEF Unpoison, To, Running, Idle, On_, CallsTyped,
     Placed, Holds, Steps, Known, FreeUnused, HeldUsed, Moved, InUse, Records
<1>6. ASSUME NEW t \in Threads, Realloc(t) PROVE FreeUnused'
  BY SMTT(30), <1>a, <1>b, FeaturesMonotone, <1>6 DEF Realloc, To, Running, Step, Idle, On_,
     CallsTyped, Placed, Holds, Steps, Known, FreeUnused, HeldUsed, Moved, InUse, Records
<1>7. ASSUME NEW t \in Threads, Rerecord(t) PROVE FreeUnused'
  BY SMTT(30), <1>a, <1>b, FeaturesMonotone, <1>7 DEF Rerecord, To, Running, Step, Marked, Used,
     CallsTyped, Placed, Holds, Steps, Known, FreeUnused, HeldUsed, Moved, InUse, Records
<1>8. ASSUME NEW t \in Threads, ReleaseCall(t) PROVE FreeUnused'
  BY SMTT(30), <1>a, <1>b, FeaturesMonotone, <1>8 DEF ReleaseCall, To, Running, Step, Idle, On_,
     Marked, CallsTyped, Placed, Holds, Steps, Known, FreeUnused, HeldUsed, Moved, InUse, Records
<1>9. ASSUME NEW t \in Threads, AutofreeCall(t) PROVE FreeUnused'
  <2>1. ASSUME NEW p \in Ptrs, heap'[p] = None, InUse(p)' PROVE heap[p] = None /\ InUse(p)
    <3>1. heap[p] = None /\ op[t].ptr \in Ptrs /\ p # op[t].ptr
      BY <1>9, <2>1, <1>a DEF AutofreeCall, Running, Placed, Holds
    <3>2. table'[p] = table[p]
      BY <1>9, <3>1, <1>a DEF AutofreeCall, Marked, CallsTyped
    <3> QED BY <2>1, <3>1, <3>2 DEF InUse
  <2>2. ASSUME NEW u \in Threads, Moved(u) PROVE op'[u] = op[u]
    BY <1>9, <2>2, <1>a DEF AutofreeCall, To, Running, Moved, CallsTyped
  <2> QED BY <1>a, <1>b, <2>1, <2>2, FeaturesMonotone DEF FreeUnused, Moved
<1>10. ASSUME NEW t \in Threads, Poison(t) PROVE FreeUnused'
  BY SMTT(30), <1>a, <1>b, FeaturesMonotone, <1>10 DEF Poison, To, Running, On_, CallsTyped,
     Placed, Holds, Steps, Known, FreeUnused, HeldUsed, Moved, InUse, Records
<1>11. ASSUME NEW t \in Threads, Release(t) PROVE FreeUnused'
  BY SMTT(30), <1>a, <1>b, FeaturesMonotone, <1>11 DEF Release, To, Running, Idle, CallsTyped,
     Placed, Holds, Steps, Known, FreeUnused, HeldUsed, Moved, InUse, Records
<1>12. CASE UNCHANGED <<heapVars, op>>
  BY SMTT(30), <1>a, <1>b, FeaturesMonotone, <1>12 DEF heapVars, CallsTyped, Placed, Holds, Steps,
     Known, FreeUnused, HeldUsed, Moved, InUse, Records
<1> QED
  BY <1>1, <1>2, <1>3, <1>4, <1>5, <1>6, <1>7, <1>8, <1>9, <1>10, <1>11, <1>12 DEF Next, vars,
     heapVars

LEMMA NoShadowStep == Apart /\ IInv /\ ReportInv /\ [Next]_vars => NoShadow'
<1> SUFFICES ASSUME Apart, IInv, ReportInv, [Next]_vars PROVE NoShadow'
  OBVIOUS
<1>a. CallsTyped /\ Placed /\ (\A v \in Threads : Known(v)) /\ FlagsTyped
  BY DEF IInv, FlagsInv, CallsInv, KindInv
<1>b. NoShadow
  BY DEF ReportInv
<1> USE WindowsAssumption, FlagsAssumption
<1>1. ASSUME NEW t \in Threads, Call(t) PROVE NoShadow'
  BY SMTT(30), <1>a, <1>b, FeaturesMonotone, <1>1 DEF Call, To, Step, Idle, CallsTyped, Placed,
     Holds, Steps, Known, NoShadow
<1>2. ASSUME NEW t \in Threads, Allocate(t) PROVE NoShadow'
  BY SMTT(30), <1>a, <1>b, FeaturesMonotone, <1>2 DEF Allocate, To, Running, Step, Idle, On_,
     CallsTyped, Placed, Holds, Steps, Known, NoShadow
<1>3. ASSUME NEW t \in Threads, AllocateFails(t) PROVE NoShadow'
  BY SMTT(30), <1>a, <1>b, FeaturesMonotone, <1>3 DEF AllocateFails, To, Running, Idle, heapVars,
     CallsTyped, Placed, Holds, Steps, Known, NoShadow
<1>4. ASSUME NEW t \in Threads, Record(t) PROVE NoShadow'
  BY SMTT(30), <1>a, <1>b, FeaturesMonotone, <1>4 DEF Record, To, Running, Used, CallsTyped,
     Placed, Holds, Steps, Known, NoShadow
<1>5. ASSUME NEW t \in Threads, Unpoison(t) PROVE NoShadow'
  BY SMTT(30), <1>a, <1>b, FeaturesMonotone, <1>5 DEF Unpoison, To, Running, Idle, On_, CallsTyped,
     Placed, Holds, Steps, Known, NoShadow
<1>6. ASSUME NEW t \in Threads, Realloc(t) PROVE NoShadow'
  BY SMTT(30), <1>a, <1>b, FeaturesMonotone, <1>6 DEF Realloc, To, Running, Step, Idle, On_,
     CallsTyped, Placed, Holds, Steps, Known, NoShadow
<1>7. ASSUME NEW t \in Threads, Rerecord(t) PROVE NoShadow'
  BY SMTT(30), <1>a, <1>b, FeaturesMonotone, <1>7 DEF Rerecord, To, Running, Step, Marked, Used,
     CallsTyped, Placed, Holds, Steps, Known, NoShadow
<1>8. ASSUME NEW t \in Threads, ReleaseCall(t) PROVE NoShadow'
  BY SMTT(30), <1>a, <1>b, FeaturesMonotone, <1>8 DEF ReleaseCall, To, Running, Step, Idle, On_,
     Marked, CallsTyped, Placed, Holds, Steps, Known, NoShadow
<1>9. ASSUME NEW t \in Threads, AutofreeCall(t) PROVE NoShadow'
  BY SMTT(30), <1>a, <1>b, FeaturesMonotone, <1>9 DEF AutofreeCall, To, Running, Step, Idle, Marked,
     CallsTyped, Placed, Holds, Steps, Known, NoShadow
<1>10. ASSUME NEW t \in Threads, Poison(t) PROVE NoShadow'
  BY SMTT(30), <1>a, <1>b, FeaturesMonotone, <1>10 DEF Poison, To, Running, On_, CallsTyped,
     Placed, Holds, Steps, Known, NoShadow
<1>11. ASSUME NEW t \in Threads, Release(t) PROVE NoShadow'
  BY SMTT(30), <1>a, <1>b, FeaturesMonotone, <1>11 DEF Release, To, Running, Idle, CallsTyped,
     Placed, Holds, Steps, Known, NoShadow
<1>12. CASE UNCHANGED <<heapVars, op>>
  BY SMTT(30), <1>a, <1>b, FeaturesMonotone, <1>12 DEF heapVars, CallsTyped, Placed, Holds, Steps,
     Known, NoShadow
<1> QED
  BY <1>1, <1>2, <1>3, <1>4, <1>5, <1>6, <1>7, <1>8, <1>9, <1>10, <1>11, <1>12 DEF Next, vars,
     heapVars

\* Without early threads, nothing is recorded if blocks are not to be tracked: a thread
\* that is in a call has waited for the features.
Settled == \A o \in AllSettings : Done(o)
Waited ==
  /\ \A t \in Threads \ {Main} : op[t].step # "idle" => Settled
  /\ initialized \/ constructed => UnderWay(Main)
  /\ op[Main].step # "idle" => initialized
NothingRecorded ==
  "ALLOC" \notin Wanted =>
    /\ \A p \in Ptrs : table[p] = None
    /\ poisoned = {}
    /\ \A t \in Threads : op[t].step \notin {"record", "unpoison", "rerecord", "poison"}

LEMMA RunsSettled ==
  ASSUME IInv, Waited, NEW t \in Threads, Applied(t), op[t].step # "idle"
  PROVE  flags = Wanted
<1>1. CASE t = Main
  BY <1>1, FlagsAreWanted DEF Waited, IInv
<1>2. CASE t # Main
  <2>1. \A o \in AllSettings : o.on \subseteq flags /\ o.off \cap flags = {}
    BY <1>2 DEF Waited, Settled, Done
  <2> QED BY <2>1, SettingsComplete DEF IInv, FlagsInv, FlagsTyped, Progress
<1> QED BY <1>1, <1>2

LEMMA SettledStep ==
  ASSUME IInv, [Next]_vars, Settled
  PROVE  Settled'
<1>1. FlagStep
  BY NextFlagStep
<1>2. \A o \in AllSettings : Done(o)'
  BY <1>1, SetEnabledDone DEF FlagStep, Construct, SyncLegacyFlags, ShouldLog, Log, flagVars, Done,
       Settled, IInv, FlagsInv
<1>3. AllSettings' = AllSettings
  BY <1>1, SettingsStay
<1> QED BY <1>2, <1>3 DEF Settled, Done

LEMMA WaitedStep == ~ EarlyThreads /\ IInv /\ Waited /\ [Next]_vars => Waited'
<1> SUFFICES ASSUME ~ EarlyThreads, IInv, Waited, [Next]_vars PROVE Waited'
  OBVIOUS
<1> USE FlagsAssumption
<1>1. FlagStep /\ FlagsTyped /\ Progress /\ LegacyInv /\ CallsTyped
  BY NextFlagStep DEF IInv, FlagsInv, CallsInv
<1>2. ASSUME NEW t \in Threads, op'[t].step # "idle" PROVE op[t].step # "idle" \/ Call(t)
  <2> SUFFICES ASSUME op[t].step = "idle", ~ Call(t) PROVE FALSE
    OBVIOUS
  <2>1. op' # op
    BY <1>2
  <2>2. ASSUME NEW u \in Threads, u # t, NEW f, op' = [op EXCEPT ![u] = f] PROVE FALSE
    BY <1>1, <1>2, <2>2 DEF CallsTyped
  <2>3. PICK u \in Threads :
          \/ Call(u) \/ Allocate(u) \/ AllocateFails(u) \/ Record(u) \/ Unpoison(u) \/ Realloc(u)
          \/ Rerecord(u) \/ ReleaseCall(u) \/ AutofreeCall(u) \/ Poison(u) \/ Release(u)
    BY <2>1 DEF Next, vars
  <2>4. u # t
    BY <2>3 DEF Allocate, AllocateFails, Record, Unpoison, Realloc, Rerecord, ReleaseCall,
         AutofreeCall, Poison, Release, Running
  <2>5. ASSUME Call(u) \/ Allocate(u) \/ AllocateFails(u) \/ Record(u) \/ Unpoison(u) PROVE \E f : To(u, f)
    BY <2>5 DEF Call, Allocate, AllocateFails, Record, Unpoison
  <2>6. ASSUME Realloc(u) \/ Rerecord(u) \/ ReleaseCall(u) \/ AutofreeCall(u) \/ Poison(u) \/ Release(u)
        PROVE  \E f : To(u, f)
    BY <2>6 DEF Realloc, Rerecord, ReleaseCall, AutofreeCall, Poison, Release
  <2> QED BY <2>2, <2>3, <2>4, <2>5, <2>6 DEF To
<1>3. ASSUME NEW t \in Threads \ {Main}, Call(t) PROVE Settled
  <2>1. constructed /\ Applied(Main)
    BY <1>3 DEF Call, InitEnvOnce, Runs
  <2> QED BY <1>1, <2>1 DEF Progress, UnderWay, Pending, Elems, Applied, Settled
<1>4. ASSUME NEW t \in Threads \ {Main}, op'[t].step # "idle" PROVE Settled'
  BY <1>2, <1>3, <1>4, SettledStep DEF Waited
<1>5. ASSUME initialized' \/ constructed' PROVE UnderWay(Main)'
  <2>1. CASE UnderWay(Main)
    BY <1>1, <2>1, UnderWayStep
  <2>2. CASE ~ UnderWay(Main)
    <3>1. ~ initialized /\ ~ constructed
      BY <2>2 DEF Waited
    <3>2. Construct \/ \E t \in Threads : InitEnvOnce(t)
      BY <1>1, <1>5, <3>1 DEF FlagStep, SetEnabled, SyncLegacyFlags, ShouldLog, Log, flagVars
    <3>3. todo' = [todo EXCEPT ![Main] = Settings]
      BY <3>1, <3>2 DEF Construct, InitEnvOnce, Runs
    <3>4. todo'[Main] = Settings
      BY <1>1, <3>3 DEF FlagsTyped
    <3> QED BY <1>1, <3>4, SettingsStay DEF UnderWay, Pending, AllSettings
  <2> QED BY <2>1, <2>2
<1>6. op'[Main].step # "idle" => initialized'
  <2>1. initialized => initialized'
    BY <1>1 DEF FlagStep, Construct, SetEnabled, SyncLegacyFlags, ShouldLog, Log, flagVars,
       InitEnvOnce
  <2> QED BY <1>2, <2>1 DEF Waited, Call, InitEnvOnce
<1> QED BY <1>4, <1>5, <1>6 DEF Waited

LEMMA NothingRecordedStep ==
  ~ EarlyThreads /\ IInv /\ Waited /\ NothingRecorded /\ [Next]_vars => NothingRecorded'
<1> SUFFICES ASSUME ~ EarlyThreads, IInv, Waited, NothingRecorded, [Next]_vars, "ALLOC" \notin Wanted
             PROVE  NothingRecorded'
  BY NextFlagStep, SettingsStay DEF NothingRecorded
<1>a. CallsTyped
  BY DEF IInv, CallsInv
<1>b. \A t \in Threads : Applied(t) /\ op[t].step # "idle" => "ALLOC" \notin flags
  BY RunsSettled
<1>1. ASSUME NEW t \in Threads, Call(t) PROVE NothingRecorded'
  BY SMTT(30), <1>a, <1>b, <1>1 DEF Call, To, Step, Idle, CallsTyped, NothingRecorded
<1>2. ASSUME NEW t \in Threads, Allocate(t) PROVE NothingRecorded'
  BY SMTT(30), <1>a, <1>b, <1>2 DEF Allocate, To, Running, Step, Idle, On_, CallsTyped,
     NothingRecorded
<1>3. ASSUME NEW t \in Threads, AllocateFails(t) PROVE NothingRecorded'
  BY SMTT(30), <1>a, <1>b, <1>3 DEF AllocateFails, To, Running, Idle, heapVars, CallsTyped,
     NothingRecorded
<1>4. ASSUME NEW t \in Threads, Record(t) PROVE NothingRecorded'
  BY SMTT(30), <1>a, <1>b, <1>4 DEF Record, To, Running, Used, CallsTyped, NothingRecorded
<1>5. ASSUME NEW t \in Threads, Unpoison(t) PROVE NothingRecorded'
  BY SMTT(30), <1>a, <1>b, <1>5 DEF Unpoison, To, Running, Idle, On_, CallsTyped, NothingRecorded
<1>6. ASSUME NEW t \in Threads, Realloc(t) PROVE NothingRecorded'
  BY SMTT(30), <1>a, <1>b, <1>6 DEF Realloc, To, Running, Step, Idle, On_, CallsTyped,
     NothingRecorded
<1>7. ASSUME NEW t \in Threads, Rerecord(t) PROVE NothingRecorded'
  BY SMTT(30), <1>a, <1>b, <1>7 DEF Rerecord, To, Running, Step, Marked, Used, CallsTyped,
     NothingRecorded
<1>8. ASSUME NEW t \in Threads, ReleaseCall(t) PROVE NothingRecorded'
  BY SMTT(30), <1>a, <1>b, <1>8 DEF ReleaseCall, To, Running, Step, Idle, On_, Marked, CallsTyped,
     NothingRecorded
<1>9. ASSUME NEW t \in Threads, AutofreeCall(t) PROVE NothingRecorded'
  BY SMTT(30), <1>a, <1>b, <1>9 DEF AutofreeCall, To, Running, Step, Idle, Marked, CallsTyped,
     NothingRecorded
<1>10. ASSUME NEW t \in Threads, Poison(t) PROVE NothingRecorded'
  BY SMTT(30), <1>a, <1>b, <1>10 DEF Poison, To, Running, On_, CallsTyped, NothingRecorded
<1>11. ASSUME NEW t \in Threads, Release(t) PROVE NothingRecorded'
  BY SMTT(30), <1>a, <1>b, <1>11 DEF Release, To, Running, Idle, CallsTyped, NothingRecorded
<1>12. CASE UNCHANGED <<heapVars, op>>
  BY SMTT(30), <1>a, <1>b, <1>12 DEF heapVars, CallsTyped, NothingRecorded
<1> QED
  BY <1>1, <1>2, <1>3, <1>4, <1>5, <1>6, <1>7, <1>8, <1>9, <1>10, <1>11, <1>12 DEF Next, vars,
     heapVars

\* ct_runtime_alloc.cpp of Windows, at a moment when nobody is in a call: the leak report
\* lists what the program holds, if no realloc moves a block under another thread's feet;
\* nothing is listed if tracking is off, unless threads came before the features.
THEOREM LeakReportAlwaysExact ==
  ASSUME ~ Moves \/ Threads = {Main}
  PROVE  Spec => []LeakReportExact
<1> DEFINE LInv == IInv /\ ReportInv /\ (~ EarlyThreads => Waited /\ NothingRecorded)
<1> USE FlagsAssumption, WindowsAssumption
<1>1. Init => LInv
  <2> SUFFICES ASSUME Init PROVE LInv
    OBVIOUS
  <2>1. IInv
    BY FlagsInvInit, CallsInvInit DEF IInv
  <2>2. ReportInv
    BY DEF Init, Idle, ReportInv, Found, MovedAlone, Moved, OwnedUsed, HeldUsed, FreeUnused,
       InUse, NoShadow
  <2>3. Waited /\ NothingRecorded
    BY DEF Init, FlagsInit, Idle, Waited, NothingRecorded
  <2> QED BY <2>1, <2>2, <2>3
<1>2. LInv /\ [Next]_vars => LInv'
  <2> SUFFICES ASSUME LInv, [Next]_vars PROVE LInv'
    OBVIOUS
  <2>1. IInv'
    BY CallsInvStep
  <2>2. ReportInv'
    BY FoundStep, MovedAloneStep, OwnedUsedStep, HeldUsedStep, FreeUnusedStep, NoShadowStep DEF
       Apart, ReportInv
  <2>3. ~ EarlyThreads => Waited' /\ NothingRecorded'
    BY WaitedStep, NothingRecordedStep
  <2> QED BY <2>1, <2>2, <2>3
<1>3. LInv => LeakReportExact
  <2> SUFFICES ASSUME LInv, \A t \in Threads : op[t] = Idle /\ Applied(t), constructed PROVE LeakReportExact
    BY DEF LeakReportExact
  <2> DEFINE used == {p \in Ptrs : table[p] # None /\ table[p].state = "used"}
             held == {p \in Ptrs : owner[p] # None}
  <2>1. \A t \in Threads : op[t].step = "idle"
    BY DEF Idle
  <2>2. held = {p \in Ptrs : heap[p] # None}
    BY <2>1 DEF ReportInv, Found, Holds, IInv, CallsInv, Placed
  <2>3. ASSUME "ALLOC" \in flags
        PROVE  used = {p \in held : table[p] # None} /\ held \cap poisoned = {}
    <3>1. \A p \in Ptrs : InUse(p) => p \in held
      BY <2>1, <2>2, <2>3 DEF ReportInv, FreeUnused, Moved
    <3> QED BY <2>3, <3>1 DEF ReportInv, OwnedUsed, InUse
  <2>4. ASSUME "ALLOC" \notin flags, ~ EarlyThreads
        PROVE  used \cup poisoned = {}
    <3>1. flags = Wanted
      BY FlagsAreWanted DEF IInv, FlagsInv, Progress
    <3> QED BY <2>4, <3>1 DEF NothingRecorded
  <2> QED BY <2>2, <2>3, <2>4 DEF LeakReportExact, On_
<1> HIDE DEF LInv
<1> QED BY <1>1, <1>2, <1>3, PTL DEF Spec

=============================================================================
