------------------------- MODULE CompileDriverProofs -------------------------
(***************************************************************************)
(* What a call of compile keeps, for any number of sources and of --ct     *)
(* options.  Inv says how far the call is and where its diagnostics are,   *)
(* from which the type invariant follows; MadeInv and LinkInv what has     *)
(* been made, AccountInv what has been raised.                             *)
(***************************************************************************)
EXTENDS CompileDriver, CtOptionsProofs, FiniteSetTheorems

NoPlan == [cc1 |-> 0, action |-> "none", others |-> 0, runtime |-> FALSE]
PassNames == {"trace", "alloc", "bounds", "vtable", "globals"}
Outputs == Seq([by : {"clang", "instrumented", "cc1"}, passes : Seq(PassNames), optnone : BOOLEAN])

\* What the arguments and clang's driver report, and what the jobs that succeed do.
EarlyDiags == {Diag("bounds", "warning"), Diag("optnone", "warning"),
               Diag("driver", "warning"), Diag("driver", "error")}
CalmDiags == EarlyDiags \cup {Diag("arguments", "warning"), Diag("job", "warning")}

Early == phase \in {"start", "driver", "choose"}
Running == phase \in {"cc1", "link"}

\* What was asked for and what is planned for it.
Planned ==
  /\ phase \in {"start", "driver", "choose", "cc1", "link", "done"}
  /\ req \in Requests
  /\ config = IF phase = "start" THEN {} ELSE Extract(req.options)
  /\ plan \in {NoPlan, Jobs}
  /\ phase \in {"start", "driver"} => plan = NoPlan
  /\ phase = "choose" \/ Running => plan = Jobs
  /\ Running => Valid /\ ~ Plain

\* How far the jobs are.
Advanced ==
  /\ outputs \in Outputs /\ Len(outputs) <= plan.cc1
  /\ linked \in Nat /\ linked <= plan.others
  /\ Early => outputs = << >>
  /\ phase # "link" /\ phase # "done" => linked = 0
  /\ phase = "cc1" => Len(outputs) < plan.cc1
  /\ phase = "link" \/ linked > 0 => Len(outputs) = plan.cc1
  /\ ToMemory => linked = 0 /\ phase # "link"

\* Where the diagnostics are.
Reported ==
  /\ dc \in Reports /\ driver \in Reports /\ cc1 \in Reports /\ raised \in Reports
  /\ Early => raised = dc /\ driver = << >> /\ cc1 = << >> /\ dc \in Seq(EarlyDiags)
  /\ Running => raised \in Seq(CalmDiags)
  /\ ToMemory => cc1 = << >>
  /\ result.ok \in BOOLEAN /\ result.diags \in Reports /\ result.ir \in BOOLEAN
  /\ phase # "done" => ~ result.ok /\ ~ result.ir

Inv == Planned /\ Advanced /\ Reported

\* Every source so far was compiled as the configuration says.
MadeInv ==
  /\ \A i \in DOMAIN outputs : outputs[i].optnone <=> "optnone" \in config
  /\ req.instrument /\ ~ ToMemory => \A i \in DOMAIN outputs : outputs[i].passes = Passes(config)

\* The runtime is linked if it must be, and LLVM IR only if the driver has said that
\* it cannot be.
LinkInv ==
  phase = "choose" \/ Running \/ linked > 0 => plan = Jobs /\ (Links /\ "-emit-llvm" \in Make => DriverError)

\* Once a cc1 job has succeeded, the consumer has counted no error.
CleanInv == Running /\ outputs # << >> => \A i \in DOMAIN raised : raised[i].level # "error"

\* While the jobs run, the two lists hold all that was raised.
AccountInv == Running => Accounts(driver \o cc1, raised)

-----------------------------------------------------------------------------
(* Options, passes and diagnostics                                         *)

LEMMA GivenOptions ==
  ASSUME req \in Requests
  PROVE  req.options \in Seq(CtOptions)
<1>1. req.options \in BoundedSeq(Given, MaxOptions)
  BY DEF Requests
<1>2. PICK m \in 0..MaxOptions : req.options \in [1..m -> Given]
  BY <1>1 DEF BoundedSeq, SeqOf
<1> QED BY <1>2, DriverAssumption

LEMMA ExtractFeatures ==
  ASSUME NEW options \in Seq(CtOptions)
  PROVE  Extract(options) \subseteq Features
<1>1. \A o \in CtOptions : o.on \subseteq Features
  <2>1. \A f \in Features : On(f).on = {f} /\ Off(f).on = {}
    BY DEF On, Off, Option
  <2>2. \A list \in SUBSET Modules : CtModules(list).on = list
    BY DEF CtModules, Option
  <2>3. Aggressive.on \subseteq Features /\ Option({}, {}).on = {}
    BY DEF Aggressive, Option, Features
  <2>4. Modules \subseteq Features
    BY DEF Features
  <2> HIDE DEF Features, Modules
  <2> QED BY <2>1, <2>2, <2>3, <2>4 DEF CtOptions
<1>2. \A i \in DOMAIN options : options[i] \in CtOptions
  OBVIOUS
<1>3. Defaults \subseteq Features
  BY DEF Defaults, Features, Modules
<1> QED BY <1>1, <1>2, <1>3, ExtractOnAfter DEF OnAfter

LEMMA PassesTyped ==
  ASSUME NEW c
  PROVE  Passes(c) \in Seq(PassNames)
<1> DEFINE A == Pass("trace", "trace" \in c)
           B == Pass("alloc", "alloc" \in c)
           C == Pass("bounds", "bounds" \in c)
           D == Pass("vtable", "vtable" \in c \/ "vcall_trace" \in c)
<1>1. A \in Seq(PassNames) /\ B \in Seq(PassNames) /\ C \in Seq(PassNames) /\ D \in Seq(PassNames)
  <2>1. A \in {<<"trace">>, << >>} /\ B \in {<<"alloc">>, << >>}
    BY Zenon DEF Pass
  <2>2. C \in {<<"bounds">>, << >>} /\ D \in {<<"vtable">>, << >>}
    BY Zenon DEF Pass
  <2> HIDE DEF A, B, C, D
  <2>3. \A p \in PassNames : <<p>> \in Seq(PassNames)
    OBVIOUS
  <2>4. << >> \in Seq(PassNames)
    OBVIOUS
  <2>5. {<<"trace">>, <<"alloc">>, <<"bounds">>, <<"vtable">>} \subseteq Seq(PassNames)
    BY <2>3 DEF PassNames
  <2> QED BY <2>1, <2>2, <2>4, <2>5, Zenon
<1>2. \A s, t \in Seq(PassNames) : s \o t \in Seq(PassNames)
  OBVIOUS
<1>3. <<"globals">> \in Seq(PassNames)
  BY DEF PassNames
<1>4. Passes(c) = A \o B \o C \o D \o <<"globals">>
  BY Zenon DEF Passes
<1> HIDE DEF A, B, C, D
<1> QED BY <1>1, <1>2, <1>3, <1>4

LEMMA Raised ==
  /\ << >> \in Reports /\ NoDriver \in Reports
  /\ \A b \in Raisers : Error(b) \in Reports /\ Warning(b) \in Reports
  /\ \A s, t \in Reports : s \o t \in Reports
  BY DEF Reports, Error, Warning, Diag, Raisers, Levels, NoDriver

LEMMA EarlyReports ==
  /\ Seq(EarlyDiags) \subseteq Seq(CalmDiags) /\ Seq(CalmDiags) \subseteq Reports
  /\ \A s, t \in Seq(EarlyDiags) : s \o t \in Seq(EarlyDiags)
  /\ \A s, t \in Seq(CalmDiags) : s \o t \in Seq(CalmDiags)
  /\ << >> \in Seq(EarlyDiags) /\ Warning("driver") \in Seq(EarlyDiags) /\ Error("driver") \in Seq(EarlyDiags)
  /\ << >> \in Seq(CalmDiags) /\ Warning("arguments") \in Seq(CalmDiags) /\ Warning("job") \in Seq(CalmDiags)
<1>1. EarlyDiags \subseteq CalmDiags
  BY DEF CalmDiags
<1>2. CalmDiags \subseteq [by : Raisers, level : Levels]
  BY DEF CalmDiags, EarlyDiags, Raisers, Levels, Diag
<1>3. /\ Diag("driver", "warning") \in EarlyDiags /\ Diag("driver", "error") \in EarlyDiags
      /\ Diag("arguments", "warning") \in CalmDiags /\ Diag("job", "warning") \in CalmDiags
  BY DEF EarlyDiags, CalmDiags
<1>4. ASSUME NEW S, NEW T, S \subseteq T PROVE Seq(S) \subseteq Seq(T)
  BY <1>4
<1>5. ASSUME NEW S, NEW s \in Seq(S), NEW t \in Seq(S) PROVE s \o t \in Seq(S)
  OBVIOUS
<1>6. ASSUME NEW S, NEW d \in S PROVE << >> \in Seq(S) /\ <<d>> \in Seq(S)
  OBVIOUS
<1>7. Seq(EarlyDiags) \subseteq Seq(CalmDiags)
  BY <1>1, <1>4
<1>8. Seq(CalmDiags) \subseteq Reports
  BY <1>2, <1>4 DEF Reports
<1>9. \A s, t \in Seq(EarlyDiags) : s \o t \in Seq(EarlyDiags)
  BY <1>5
<1>10. \A s, t \in Seq(CalmDiags) : s \o t \in Seq(CalmDiags)
  BY <1>5
<1>11. << >> \in Seq(EarlyDiags) /\ Warning("driver") \in Seq(EarlyDiags) /\ Error("driver") \in Seq(EarlyDiags)
  BY <1>3, <1>6 DEF Warning, Error
<1>12. << >> \in Seq(CalmDiags) /\ Warning("arguments") \in Seq(CalmDiags) /\ Warning("job") \in Seq(CalmDiags)
  BY <1>3, <1>6 DEF Warning, Error
<1> QED BY <1>7, <1>8, <1>9, <1>10, <1>11, <1>12

LEMMA CtWarningsEarly ==
  ASSUME NEW c
  PROVE  CtWarnings(c) \in Seq(EarlyDiags)
<1>1. /\ Warning("bounds") \in Seq(EarlyDiags) /\ Warning("optnone") \in Seq(EarlyDiags)
      /\ << >> \in Seq(EarlyDiags)
  BY DEF EarlyDiags, Warning
<1> QED BY <1>1, EarlyReports DEF CtWarnings

LEMMA SameRequest ==
  ASSUME UNCHANGED req
  PROVE  Jobs' = Jobs /\ Make' = Make /\ Links' = Links /\ ToMemory' = ToMemory
  BY DEF Jobs, Make, LinkRequested, Links, Assembles, Action, ToMemory

LEMMA JobsTyped ==
  ASSUME req \in Requests
  PROVE  /\ Jobs.cc1 \in Nat /\ Jobs.others \in Nat
         /\ NoPlan.cc1 = 0 /\ NoPlan.others = 0
  BY DriverAssumption DEF Requests, Jobs, NoPlan

LEMMA LastOf ==
  ASSUME NEW S, NEW s \in Seq(S), NEW d \in S
  PROVE  s \o <<d>> # << >> /\ Last(s \o <<d>>) = d
  BY DEF Last

-----------------------------------------------------------------------------
(* The inductive invariant                                                 *)

LEMMA InvInit ==
  Init => Inv
<1> SUFFICES ASSUME Init PROVE Inv
  OBVIOUS
<1>1. Planned
  BY DEF Init, Planned, NoPlan, Running
<1>2. Advanced
  <2>1. outputs \in Outputs /\ Len(outputs) = 0
    BY DEF Init, Outputs
  <2> QED BY <2>1 DEF Init, Advanced
<1>3. Reported
  <2>1. << >> \in Seq(EarlyDiags)
    BY EarlyReports
  <2> QED BY <2>1, Raised DEF Init, Reported, Early, Running
<1> QED BY <1>1, <1>2, <1>3 DEF Inv

LEMMA PlannedStep ==
  ASSUME Inv, Next
  PROVE  Planned'
<1>1. req' = req /\ Jobs' = Jobs /\ ToMemory' = ToMemory
  <2>1. req' = req
    BY DEF Next, BuildArgs, BuildCompilation, Compile, Validate, RunInstrumented, RunSingle, Link
  <2> QED BY <2>1, SameRequest
<1>2. CASE BuildArgs
  <2>1. phase' \in {"driver", "done"} /\ plan' = plan /\ config' = Extract(req.options) /\ phase = "start"
    BY <1>2 DEF BuildArgs, Return
  <2> QED BY <1>1, <2>1 DEF Inv, Planned, Running
<1>3. ASSUME phase # "start", config' = config, plan' = plan,
             phase' \in {"link", "cc1", "done"}, phase' # "done" => Running
      PROVE  Planned'
  <2>1. Valid' = Valid /\ Plain' = Plain
    BY <1>1, <1>3 DEF Valid, Plain
  <2> QED BY <1>1, <1>3, <2>1 DEF Inv, Planned, Running
<1>4. CASE BuildCompilation
  <2>1. config' = config /\ phase = "driver" /\ \/ phase' = "done" /\ plan' = plan
                                                \/ phase' = "choose" /\ plan' = Jobs
    BY <1>4 DEF BuildCompilation, Return
  <2> QED BY <1>1, <2>1 DEF Inv, Planned, Running
<1>5. CASE Compile
  <2>1. phase = "choose" /\ phase' = "done" /\ config' = config /\ plan' = plan
    BY <1>5 DEF Compile, Return
  <2> QED BY <1>3, <2>1
<1>6. CASE Validate
  <2>1. phase = "choose" /\ config' = config /\ plan' = plan
    BY <1>6 DEF Validate
  <2>2. \/ phase' = "done"
        \/ phase' \in {"link", "cc1"} /\ Valid /\ ~ Plain
    BY <1>6 DEF Validate, Return
  <2>3. Valid' = Valid /\ Plain' = Plain
    BY <1>1, <2>1 DEF Valid, Plain
  <2> QED BY <1>1, <2>1, <2>2, <2>3 DEF Inv, Planned, Running
<1>7. CASE RunInstrumented
  <2>1. phase = "cc1" /\ config' = config /\ plan' = plan
    BY <1>7 DEF RunInstrumented
  <2>2. phase' \in {"link", "cc1", "done"}
    BY <1>7 DEF RunInstrumented, Fails, Succeeds, Collect, Return
  <2> QED BY <1>3, <2>1, <2>2 DEF Running
<1>8. CASE RunSingle
  <2>1. phase = "cc1" /\ config' = config /\ plan' = plan
    BY <1>8 DEF RunSingle
  <2>2. phase' \in {"link", "cc1", "done"}
    BY <1>8 DEF RunSingle, Fails, Succeeds, Collect, Return
  <2> QED BY <1>3, <2>1, <2>2 DEF Running
<1>9. CASE Link
  <2>1. phase = "link" /\ config' = config /\ plan' = plan
    BY <1>9 DEF Link
  <2>2. phase' \in {"link", "done"}
    BY <1>9, <2>1 DEF Link, Return
  <2> QED BY <1>3, <2>1, <2>2 DEF Running
<1> QED BY <1>2, <1>4, <1>5, <1>6, <1>7, <1>8, <1>9 DEF Next

\* How a job ends: what is lost of a failing one, and what is told of it.
ArgumentReports == {<< >>, Warning("arguments"), Error("arguments")}
LostReports == {<< >>, Warning("arguments"), Error("arguments"), << >> \o Warning("unwritten"),
                Warning("arguments") \o << >>, << >> \o << >>, Warning("arguments") \o Warning("unwritten")}
ToldReports == {<< >> \o Error("job"), Warning("job") \o Error("job"), Error("emit"),
                << >>, Warning("job"), Error("compile")}
CalmEnds == {<< >>, Warning("arguments")} \X {<< >>, Warning("job")}
JobSucceeds(d, by, passes) ==
  /\ Succeeds(d, Output(by, passes))
  /\ NumErrors(d[1]) = {}
  /\ req.instrument /\ ~ ToMemory => passes = Passes(config)
JobUnsupported(lost) ==
  /\ raised' = raised \o lost \o Error("unsupported")
  /\ \E told \in {<< >>, driver \o cc1} : Return(FALSE, told \o Error("unsupported"), FALSE)
  /\ UNCHANGED <<dc, cc1, outputs>>
JobEnds ==
  \/ \E d \in CalmEnds, by \in {"instrumented", "cc1"}, passes \in {Passes(config), << >>} : JobSucceeds(d, by, passes)
  \/ \E lost \in LostReports, told \in ToldReports : Fails(lost, told)
  \/ \E lost \in ArgumentReports : JobUnsupported(lost)

\* An error of the arguments is one that the consumer has counted.
LEMMA ArgumentErrors ==
  ASSUME raised \in Reports
  PROVE  NumErrors(Error("arguments")) # {}
<1> DEFINE d == Diag("arguments", "error")
           s == raised \o <<d>>
<1>1. Len(s) = Len(raised) + 1 /\ Len(raised) \in Nat /\ s[Len(raised) + 1] = d /\ DOMAIN s = 1..Len(s)
  <2>1. d \in [by : Raisers, level : Levels]
    BY DEF Diag, Raisers, Levels
  <2> HIDE DEF d
  <2> QED BY <2>1 DEF Reports
<1>2. d.level = "error"
  BY DEF Diag
<1> HIDE DEF d, s
<1>3. Len(raised) + 1 \in {i \in DOMAIN s : s[i].level = "error"}
  BY <1>1, <1>2
<1> QED BY <1>3 DEF NumErrors, s, d, Error

LEMMA JobSteps ==
  ASSUME RunInstrumented \/ RunSingle, raised \in Reports
  PROVE  phase = "cc1" /\ UNCHANGED <<req, config, driver, plan, linked>> /\ JobEnds
<1>1. phase = "cc1" /\ UNCHANGED <<req, config, driver, plan, linked>>
  BY DEF RunInstrumented, RunSingle
<1>2. ASSUME NEW d \in Diags
      PROVE  /\ d[1] \in ArgumentReports /\ d[2] \in {<< >>, Warning("job")}
             /\ d[1] \in LostReports /\ d[2] \o Error("job") \in ToldReports /\ d[2] \in ToldReports
             /\ NumErrors(d[1]) = {} => d \in CalmEnds
             /\ NumErrors(d[1]) = {} =>
                  d[1] \o (IF d[2] = << >> THEN << >> ELSE Warning("unwritten")) \in LostReports
  <2>1. d[1] \in {<< >>, Warning("arguments"), Error("arguments")} /\ d[2] \in {<< >>, Warning("job")} /\ d = <<d[1], d[2]>>
    BY DEF Diags
  <2>2. d[1] \in LostReports /\ d[2] \o Error("job") \in ToldReports /\ d[2] \in ToldReports
    BY <2>1, Zenon DEF LostReports, ToldReports
  <2>3. NumErrors(d[1]) = {} => d[1] \in {<< >>, Warning("arguments")}
    BY <2>1, ArgumentErrors, Zenon
  <2>4. d[1] \in {<< >>, Warning("arguments")} =>
          d[1] \o (IF d[2] = << >> THEN << >> ELSE Warning("unwritten")) \in LostReports
    BY Zenon DEF LostReports
  <2>5. d[1] \in {<< >>, Warning("arguments")} => d \in CalmEnds
    <3> DEFINE A == {<< >>, Warning("arguments")}
               B == {<< >>, Warning("job")}
    <3>1. d[2] \in B /\ d = <<d[1], d[2]>>
      BY <2>1
    <3>2. CalmEnds = A \X B
      BY DEF CalmEnds
    <3> HIDE DEF A, B
    <3>3. d[1] \in A => d \in CalmEnds
      BY <3>1, <3>2
    <3> QED BY <3>3 DEF A
  <2> QED BY <2>1, <2>2, <2>3, <2>4, <2>5, Zenon DEF ArgumentReports
<1>3. Error("emit") \in ToldReports /\ Error("compile") \in ToldReports
  BY DEF ToldReports
<1>4. ASSUME NEW lost \in ArgumentReports, NEW told \in {<< >>, driver \o cc1},
             raised' = raised \o lost \o Error("unsupported"),
             Return(FALSE, told \o Error("unsupported"), FALSE), UNCHANGED <<dc, cc1, outputs>>
      PROVE  JobEnds
  <2>1. JobUnsupported(lost)
    BY <1>4 DEF JobUnsupported, Return
  <2> QED BY <2>1 DEF JobEnds, JobUnsupported, Return
<1>7. ASSUME NEW lost \in LostReports, NEW told \in ToldReports, Fails(lost, told)
      PROVE  JobEnds
  BY <1>7 DEF JobEnds, Fails, Return
<1>8. ASSUME NEW d \in CalmEnds, NEW by \in {"instrumented", "cc1"}, NEW passes \in {Passes(config), << >>},
             JobSucceeds(d, by, passes)
      PROVE  JobEnds
  BY <1>8, Zenon DEF JobEnds
<1> SUFFICES JobEnds
  BY <1>1
<1>5. CASE RunInstrumented
  <2>1. PICK d \in Diags :
          \/ Fails(d[1], Error("unsupported"))
          \/ Fails(d[1], d[2] \o Error("job"))
          \/ Fails(d[1], d[2])
          \/ /\ NumErrors(d[1]) = {}
             /\ Fails(d[1] \o (IF d[2] = << >> THEN << >> ELSE Warning("unwritten")), Error("emit"))
          \/ NumErrors(d[1]) = {} /\ Succeeds(d, Output("instrumented", Passes(config)))
    BY <1>5 DEF RunInstrumented
  <2>2. CASE Fails(d[1], Error("unsupported"))
    <3>1. /\ raised' = raised \o d[1] \o Error("unsupported") /\ UNCHANGED <<dc, cc1, outputs>>
          /\ Return(FALSE, (driver \o cc1) \o Error("unsupported"), FALSE)
      BY <2>2 DEF Fails
    <3> QED BY <1>2, <1>4, <3>1, Zenon DEF Return
  <2>3. CASE Fails(d[1], d[2] \o Error("job"))
    BY <1>2, <1>7, <2>3, Zenon
  <2>6. CASE Fails(d[1], d[2])
    BY <1>2, <1>7, <2>6, Zenon
  <2>4. CASE /\ NumErrors(d[1]) = {}
             /\ Fails(d[1] \o (IF d[2] = << >> THEN << >> ELSE Warning("unwritten")), Error("emit"))
    BY <1>2, <1>3, <1>7, <2>4, Zenon
  <2>5. CASE NumErrors(d[1]) = {} /\ Succeeds(d, Output("instrumented", Passes(config)))
    <3>1. JobSucceeds(d, "instrumented", Passes(config)) /\ d \in CalmEnds
      BY <1>2, <2>5, Zenon DEF JobSucceeds
    <3> QED BY <1>8, <3>1
  <2> QED BY <1>1, <2>1, <2>2, <2>3, <2>4, <2>5, <2>6
<1>6. CASE RunSingle
  <2>1. PICK d \in Diags :
          IF plan.action = "GeneratePCH"
          THEN /\ raised' = raised \o d[1] \o Error("unsupported")
               /\ Return(FALSE, (IF ToMemory THEN << >> ELSE driver \o cc1) \o Error("unsupported"), FALSE)
               /\ UNCHANGED <<dc, cc1, outputs>>
          ELSE \/ Fails(d[1], d[2] \o Error("job"))
               \/ /\ NumErrors(d[1]) # {}
                  /\ Fails(d[1], IF d[2] = << >> /\ ~ (ToMemory /\ plan.action = "EmitLLVM")
                                 THEN Error("compile") ELSE d[2])
               \/ /\ NumErrors(d[1]) = {}
                  /\ Succeeds(d, IF req.instrument /\ plan.action = "EmitLLVM"
                                 THEN Output("instrumented", Passes(config)) ELSE Output("cc1", << >>))
    BY <1>6 DEF RunSingle
  <2>2. CASE plan.action = "GeneratePCH"
    <3>1. /\ raised' = raised \o d[1] \o Error("unsupported") /\ UNCHANGED <<dc, cc1, outputs>>
          /\ Return(FALSE, (IF ToMemory THEN << >> ELSE driver \o cc1) \o Error("unsupported"), FALSE)
      BY <2>1, <2>2
    <3>2. CASE ToMemory
      BY <1>2, <1>4, <3>1, <3>2, Zenon DEF Return
    <3>3. CASE ~ ToMemory
      BY <1>2, <1>4, <3>1, <3>3, Zenon DEF Return
    <3> QED BY <3>2, <3>3
  <2>3. CASE Fails(d[1], d[2] \o Error("job"))
    BY <1>2, <1>7, <2>3, Zenon
  <2>6. CASE Fails(d[1], d[2]) \/ Fails(d[1], Error("compile"))
    BY <1>2, <1>3, <1>7, <2>6, Zenon
  <2>4. CASE NumErrors(d[1]) = {} /\ Succeeds(d, Output("instrumented", Passes(config)))
    <3>1. JobSucceeds(d, "instrumented", Passes(config)) /\ d \in CalmEnds
      BY <1>2, <2>4, Zenon DEF JobSucceeds
    <3> QED BY <1>8, <3>1
  <2>5. CASE NumErrors(d[1]) = {} /\ Succeeds(d, Output("cc1", << >>))
    <3>1. ToMemory \/ ~ req.instrument
      BY <1>6 DEF RunSingle
    <3>2. JobSucceeds(d, "cc1", << >>) /\ d \in CalmEnds
      BY <1>2, <2>5, <3>1, Zenon DEF JobSucceeds
    <3> QED BY <1>8, <3>2
  <2>7. ASSUME plan.action # "GeneratePCH"
        PROVE  \/ Fails(d[1], d[2] \o Error("job"))
               \/ Fails(d[1], d[2]) \/ Fails(d[1], Error("compile"))
               \/ NumErrors(d[1]) = {} /\ Succeeds(d, Output("instrumented", Passes(config)))
               \/ NumErrors(d[1]) = {} /\ Succeeds(d, Output("cc1", << >>))
    BY <2>1, <2>7, Zenon
  <2> QED BY <2>2, <2>3, <2>4, <2>5, <2>6, <2>7
<1> QED BY <1>5, <1>6

LEMMA AppendOutput ==
  ASSUME outputs \in Outputs, NEW by \in {"clang", "instrumented", "cc1"}, NEW passes \in {Passes(config), << >>}
  PROVE  /\ Append(outputs, Output(by, passes)) \in Outputs
         /\ Len(Append(outputs, Output(by, passes))) = Len(outputs) + 1
<1>1. passes \in Seq(PassNames)
  <2>1. << >> \in Seq(PassNames)
    OBVIOUS
  <2> QED BY <2>1, PassesTyped, Zenon
<1>2. Output(by, passes) \in [by : {"clang", "instrumented", "cc1"}, passes : Seq(PassNames), optnone : BOOLEAN]
  BY <1>1 DEF Output
<1> QED BY <1>2 DEF Outputs

LEMMA AdvancedStep ==
  ASSUME Inv, Next
  PROVE  Advanced'
<1>1. req' = req /\ Jobs' = Jobs /\ ToMemory' = ToMemory
  <2>1. req' = req
    BY DEF Next, BuildArgs, BuildCompilation, Compile, Validate, RunInstrumented, RunSingle, Link
  <2> QED BY <2>1, SameRequest
<1>2. Jobs.cc1 \in Nat /\ Jobs.others \in Nat /\ NoPlan.cc1 = 0 /\ NoPlan.others = 0
  BY JobsTyped DEF Inv, Planned
<1>3. /\ outputs \in Outputs /\ Len(outputs) \in Nat /\ Len(outputs) <= plan.cc1
      /\ plan.cc1 \in Nat /\ plan.others \in Nat /\ linked \in Nat /\ linked <= plan.others
      /\ linked > 0 => Len(outputs) = plan.cc1
  BY <1>2 DEF Inv, Advanced, Planned, Outputs
<1>4. CASE BuildArgs
  <2>1. phase = "start" /\ phase' \in {"driver", "done"} /\ UNCHANGED <<plan, outputs, linked>>
    BY <1>4 DEF BuildArgs, Return
  <2> QED BY <1>1, <1>3, <2>1 DEF Inv, Advanced, Early
<1>5. CASE BuildCompilation
  <2>1. phase = "driver" /\ phase' \in {"choose", "done"} /\ UNCHANGED <<outputs, linked>> /\ plan' \in {plan, Jobs}
    BY <1>5 DEF BuildCompilation, Return
  <2>2. outputs = << >> /\ Len(outputs) = 0 /\ linked = 0
    BY <2>1 DEF Inv, Advanced, Early
  <2> QED BY <1>1, <1>2, <1>3, <2>1, <2>2 DEF Advanced, Early
<1>6. CASE Compile
  <2>1. phase = "choose" /\ phase' = "done" /\ plan' = plan /\ ~ ToMemory
    BY <1>6 DEF Compile, Return, Plain, ToMemory
  <2>2. CASE UNCHANGED <<outputs, linked>>
    BY <1>1, <1>3, <2>1, <2>2 DEF Inv, Advanced, Early
  <2>3. CASE outputs' = [i \in 1..plan.cc1 |-> Output("clang", << >>)] /\ linked' = plan.others
    <3> DEFINE n == plan.cc1
               o == Output("clang", << >>)
    <3>1. o \in [by : {"clang", "instrumented", "cc1"}, passes : Seq(PassNames), optnone : BOOLEAN]
      BY DEF Output
    <3>2. outputs' = [i \in 1..n |-> o] /\ n \in Nat
      BY <1>3, <2>3
    <3> HIDE DEF o, n
    <3>3. outputs' \in Outputs /\ Len(outputs') = n
      BY <3>1, <3>2 DEF Outputs
    <3>4. Len(outputs') = plan.cc1
      BY <3>3 DEF n
    <3> QED BY <1>1, <1>3, <2>1, <2>3, <3>3, <3>4 DEF Advanced, Early
  <2> QED BY <1>6, <2>2, <2>3 DEF Compile
<1>7. CASE Validate
  <2>1. phase = "choose" /\ UNCHANGED <<plan, outputs, linked>>
    BY <1>7 DEF Validate
  <2>2. outputs = << >> /\ Len(outputs) = 0 /\ linked = 0
    BY <2>1 DEF Inv, Advanced, Early
  <2>3. \/ phase' = "done"
        \/ Valid /\ phase' = IF plan.cc1 = 0 THEN "link" ELSE "cc1"
    BY <1>7 DEF Validate, Return
  <2>4. Valid /\ ToMemory => plan.cc1 = 1
    BY DEF Valid, ToMemory
  <2> QED BY <1>1, <1>3, <2>1, <2>2, <2>3, <2>4 DEF Advanced, Early
<1>8. CASE RunInstrumented \/ RunSingle
  <2>1. phase = "cc1" /\ UNCHANGED <<plan, linked>> /\ linked = 0 /\ Len(outputs) < plan.cc1
    BY <1>8, JobSteps DEF Inv, Reported, Advanced
  <2>2. CASE UNCHANGED outputs /\ phase' = "done"
    BY <1>1, <1>3, <2>1, <2>2 DEF Advanced, Early
  <2>3. ASSUME NEW d \in CalmEnds, NEW by \in {"instrumented", "cc1"}, NEW passes \in {Passes(config), << >>},
               JobSucceeds(d, by, passes)
        PROVE  Advanced'
    <3>1. outputs' = Append(outputs, Output(by, passes))
      BY <2>3 DEF JobSucceeds, Succeeds
    <3>2. outputs' \in Outputs /\ Len(outputs') = Len(outputs) + 1
      BY <1>3, <3>1, AppendOutput
    <3>3. \/ phase' = "done"
          \/ ~ ToMemory /\ phase' = IF Len(outputs) + 1 = plan.cc1 THEN "link" ELSE "cc1"
      BY <2>3 DEF JobSucceeds, Succeeds, Collect, Return
    <3> QED BY <1>1, <1>3, <2>1, <3>2, <3>3 DEF Advanced, Early
  <2>4. ASSUME NEW lost \in LostReports, NEW told \in ToldReports, Fails(lost, told)
        PROVE  UNCHANGED outputs /\ phase' = "done"
    BY <2>4 DEF Fails, Return
  <2>5. ASSUME NEW lost \in ArgumentReports, JobUnsupported(lost)
        PROVE  UNCHANGED outputs /\ phase' = "done"
    BY <2>5 DEF JobUnsupported, Return
  <2> QED BY <1>8, <2>2, <2>3, <2>4, <2>5, JobSteps DEF Inv, Reported, JobEnds
<1>9. CASE Link
  <2>1. phase = "link" /\ UNCHANGED <<plan, outputs>> /\ ~ ToMemory /\ Len(outputs) = plan.cc1
    BY <1>9 DEF Link, Inv, Advanced
  <2>2. phase' \in {"link", "done"} /\ (linked' = linked \/ (linked < plan.others /\ linked' = linked + 1))
    <3>1. CASE linked < plan.others
      BY <1>9, <2>1, <3>1 DEF Link, Return
    <3>2. CASE ~ (linked < plan.others)
      BY <1>9, <3>2 DEF Link, Return
    <3> QED BY <3>1, <3>2
  <2> QED BY <1>1, <1>3, <2>1, <2>2 DEF Advanced, Early
<1> QED BY <1>4, <1>5, <1>6, <1>7, <1>8, <1>9 DEF Next

\* What ends a job is reported, and what ends none of them is calm.
LEMMA EndReports ==
  /\ \A d \in CalmEnds : d[1] \in Seq(CalmDiags) /\ d[2] \in Seq(CalmDiags)
  /\ LostReports \subseteq Reports /\ ToldReports \subseteq Reports /\ ArgumentReports \subseteq Reports
  /\ Error("unsupported") \in Reports /\ Error("link") \in Reports /\ Error("compile") \in Reports
<1>1. \A d \in CalmEnds : d[1] \in Seq(CalmDiags) /\ d[2] \in Seq(CalmDiags)
  BY EarlyReports DEF CalmEnds
<1>2. {"arguments", "unwritten", "job", "emit", "unsupported", "link", "compile"} \subseteq Raisers
  BY DEF Raisers
<1>3. /\ Warning("arguments") \in Reports /\ Warning("unwritten") \in Reports /\ Warning("job") \in Reports
      /\ Error("job") \in Reports /\ Error("emit") \in Reports /\ Error("arguments") \in Reports
      /\ Error("unsupported") \in Reports /\ Error("link") \in Reports /\ Error("compile") \in Reports
      /\ << >> \in Reports
  BY <1>2, Raised
<1>4. LostReports \subseteq Reports /\ ArgumentReports \subseteq Reports
  <2> DEFINE A == Warning("arguments")
             B == Error("arguments")
             U == Warning("unwritten")
  <2>1. /\ A \in Reports /\ << >> \o U \in Reports /\ A \o << >> \in Reports /\ B \in Reports
        /\ << >> \o << >> \in Reports /\ A \o U \in Reports /\ << >> \in Reports
    BY <1>3, Raised
  <2>2. /\ LostReports = {<< >>, A, B, << >> \o U, A \o << >>, << >> \o << >>, A \o U}
        /\ ArgumentReports = {<< >>, A, B}
    BY DEF LostReports, ArgumentReports
  <2> HIDE DEF A, B, U
  <2> QED BY <2>1, <2>2, Zenon
<1>5. ToldReports \subseteq Reports
  <2> DEFINE W == Warning("job")
             E == Error("job")
             F == Error("emit")
             C == Error("compile")
  <2>1. << >> \o E \in Reports /\ W \o E \in Reports /\ F \in Reports /\ << >> \in Reports /\ W \in Reports /\ C \in Reports
    BY <1>3, Raised
  <2>2. ToldReports = {<< >> \o E, W \o E, F, << >>, W, C}
    BY DEF ToldReports
  <2> HIDE DEF W, E, F, C
  <2> QED BY <2>1, <2>2, Zenon
<1> QED BY <1>1, <1>3, <1>4, <1>5

LEMMA ReportedStep ==
  ASSUME Inv, Next
  PROVE  Reported'
<1>1. req' = req /\ ToMemory' = ToMemory
  <2>1. req' = req
    BY DEF Next, BuildArgs, BuildCompilation, Compile, Validate, RunInstrumented, RunSingle, Link
  <2> QED BY <2>1, SameRequest
<1>2. /\ dc \in Reports /\ driver \in Reports /\ cc1 \in Reports /\ raised \in Reports /\ << >> \in Reports
      /\ \A s, t \in Reports : s \o t \in Reports
  BY Raised DEF Inv, Reported
<1>3. CASE BuildArgs
  <2>1. phase = "start" /\ driver' = << >> /\ cc1' = << >> /\ ~ result.ok /\ ~ result.ir
    BY <1>3 DEF BuildArgs, Inv, Reported, Early
  <2>2. dc' = CtWarnings(Extract(req.options))
    BY <1>3 DEF BuildArgs, CtWarnings
  <2>3. dc' \in Seq(EarlyDiags) /\ dc' \in Reports
    BY <2>2, CtWarningsEarly, EarlyReports
  <2>4. CASE phase' = "driver" /\ raised' = dc' /\ UNCHANGED result
    BY <1>1, <1>2, <2>1, <2>3, <2>4 DEF Inv, Reported, Early, Running
  <2>5. CASE Return(FALSE, NoDriver, FALSE) /\ raised' = dc' \o NoDriver
    BY <1>1, <1>2, <2>1, <2>3, <2>5, Raised DEF Return, Reported, Early, Running
  <2> QED BY <1>3, <2>4, <2>5 DEF BuildArgs
<1>4. CASE BuildCompilation
  <2>1. /\ phase = "driver" /\ raised = dc /\ dc \in Seq(EarlyDiags) /\ driver' = << >> /\ cc1' = << >>
        /\ ~ result.ok /\ ~ result.ir
    BY <1>4 DEF BuildCompilation, Inv, Reported, Early
  <2>2. PICK d \in {<< >>, Warning("driver"), Error("driver")} :
          /\ raised' = raised \o d
          /\ \/ Return(FALSE, IF dc \o d = << >> THEN Error("compile") ELSE dc \o d, FALSE) /\ dc' = dc
             \/ phase' = "choose" /\ dc' = dc \o d /\ UNCHANGED result
    BY <1>4 DEF BuildCompilation
  <2>3. dc \o d \in Seq(EarlyDiags) /\ dc \o d \in Reports
    BY <2>1, EarlyReports
  <2>4. CASE phase' = "choose" /\ dc' = dc \o d /\ UNCHANGED result
    BY <1>1, <1>2, <2>1, <2>2, <2>3, <2>4 DEF Inv, Reported, Early, Running
  <2>5. CASE Return(FALSE, IF dc \o d = << >> THEN Error("compile") ELSE dc \o d, FALSE) /\ dc' = dc
    <3>1. (IF dc \o d = << >> THEN Error("compile") ELSE dc \o d) \in Reports
      BY <2>3, EndReports
    <3>2. /\ phase' = "done" /\ result'.ok = FALSE /\ result'.ir = FALSE
          /\ result'.diags = IF dc \o d = << >> THEN Error("compile") ELSE dc \o d
      BY <2>5 DEF Return
    <3> QED BY <1>1, <1>2, <2>1, <2>2, <2>3, <2>5, <3>1, <3>2 DEF Reported, Early, Running
  <2> QED BY <2>2, <2>4, <2>5
<1>5. CASE Compile
  <2>1. phase' = "done" /\ UNCHANGED <<dc, driver, cc1, raised>>
    BY <1>5 DEF Compile, Return
  <2>2. result'.ok \in BOOLEAN /\ result'.ir = FALSE /\ result'.diags \in {dc, Error("compile")}
    <3>1. \/ Return(TRUE, dc, FALSE)
          \/ Return(FALSE, IF dc = << >> THEN Error("compile") ELSE dc, FALSE)
      BY <1>5 DEF Compile, Return
    <3>2. CASE Return(TRUE, dc, FALSE)
      BY <3>2 DEF Return
    <3>3. CASE Return(FALSE, IF dc = << >> THEN Error("compile") ELSE dc, FALSE)
      <4>1. result'.ok = FALSE /\ result'.ir = FALSE /\ result'.diags = IF dc = << >> THEN Error("compile") ELSE dc
        BY <3>3, Zenon DEF Return
      <4> QED BY <4>1
    <3> QED BY <3>1, <3>2, <3>3
  <2> QED BY <1>1, <1>2, <2>1, <2>2, EndReports DEF Inv, Reported, Early, Running
<1>6. CASE Validate
  <2>1. phase = "choose" /\ raised = dc /\ dc \in Seq(EarlyDiags) /\ cc1' = << >> /\ ~ result.ok /\ ~ result.ir
    BY <1>6 DEF Validate, Inv, Reported, Early
  <2>2. CASE driver' = dc /\ dc' = << >> /\ phase' \in {"link", "cc1"} /\ UNCHANGED <<result, raised>>
    BY <1>1, <1>2, <2>1, <2>2, EarlyReports DEF Inv, Reported, Early, Running
  <2>3. CASE /\ Return(FALSE, Error("compile"), FALSE)
             /\ raised' = raised \o Error("compile") /\ UNCHANGED <<dc, driver>>
    BY <1>1, <1>2, <2>1, <2>3, EndReports DEF Return, Reported, Early, Running
  <2> QED BY <1>6, <2>2, <2>3 DEF Validate
<1>7. CASE RunInstrumented \/ RunSingle
  <2>1. phase = "cc1" /\ driver' = driver /\ raised \in Seq(CalmDiags) /\ ~ result.ok /\ ~ result.ir
    BY <1>7, JobSteps DEF Inv, Reported, Running
  <2>2. ASSUME NEW d \in CalmEnds, NEW by \in {"instrumented", "cc1"}, NEW passes \in {Passes(config), << >>},
               JobSucceeds(d, by, passes)
        PROVE  Reported'
    <3>1. raised' = raised \o d[1] \o d[2]
      BY <2>2 DEF JobSucceeds, Succeeds
    <3>2. raised' \in Seq(CalmDiags) /\ raised' \in Reports /\ d[2] \in Reports
      BY <2>1, <3>1, EndReports, EarlyReports
    <3>3. CASE ToMemory
      <4>1. /\ Return(TRUE, driver \o d[2], plan.action = "EmitLLVM") /\ dc' = d[2] /\ UNCHANGED cc1
        BY <2>2, <3>3 DEF JobSucceeds, Succeeds, Collect
      <4>2. phase' = "done" /\ result'.ok = TRUE /\ result'.diags = driver \o d[2] /\ result'.ir = (plan.action = "EmitLLVM")
        BY <4>1 DEF Return
      <4>3. result'.ir \in BOOLEAN
        BY <4>2
      <4> QED BY <1>1, <1>2, <2>1, <3>2, <4>1, <4>2, <4>3 DEF Inv, Reported, Early, Running
    <3>4. CASE ~ ToMemory
      <4>1. /\ cc1' = cc1 \o d[2] /\ dc' = << >> /\ UNCHANGED result /\ phase' \in {"link", "cc1"}
        BY <2>2, <3>4 DEF JobSucceeds, Succeeds, Collect
      <4> QED BY <1>1, <1>2, <2>1, <3>2, <3>4, <4>1 DEF Inv, Reported, Early, Running
    <3> QED BY <3>3, <3>4
  <2>3. ASSUME NEW lost \in Reports, NEW told \in Reports, NEW diags \in Reports,
               raised' = raised \o lost \o told, UNCHANGED <<dc, cc1>>, Return(FALSE, diags, FALSE)
        PROVE  Reported'
    BY <1>1, <1>2, <2>1, <2>3 DEF Inv, Return, Reported, Early, Running
  <2>4. ASSUME NEW lost \in LostReports, NEW told \in ToldReports, Fails(lost, told)
        PROVE  Reported'
    <3>1. lost \in Reports /\ told \in Reports /\ driver \o cc1 \o told \in Reports
      BY <1>2, EndReports
    <3> QED BY <2>3, <2>4, <3>1 DEF Fails, Return
  <2>5. ASSUME NEW lost \in ArgumentReports, JobUnsupported(lost)
        PROVE  Reported'
    <3>1. PICK told \in {<< >>, driver \o cc1} : Return(FALSE, told \o Error("unsupported"), FALSE)
      BY <2>5 DEF JobUnsupported
    <3>2. lost \in Reports /\ Error("unsupported") \in Reports /\ told \o Error("unsupported") \in Reports
      BY <1>2, EndReports, EarlyReports
    <3> QED BY <2>3, <2>5, <3>1, <3>2 DEF JobUnsupported, Return
  <2> QED BY <1>7, <2>2, <2>4, <2>5, JobSteps DEF Inv, Reported, JobEnds
<1>8. CASE Link
  <2>1. phase = "link" /\ UNCHANGED <<dc, driver, cc1>> /\ ~ result.ok /\ ~ result.ir /\ raised \in Seq(CalmDiags)
    BY <1>8 DEF Link, Inv, Reported, Running
  <2>2. CASE UNCHANGED <<phase, result, raised>>
    BY <1>1, <1>2, <2>1, <2>2 DEF Inv, Reported, Early, Running
  <2>3. CASE raised' = raised \o Error("link") /\ Return(FALSE, driver \o cc1 \o Error("link"), FALSE)
    BY <1>1, <1>2, <2>1, <2>3, EndReports DEF Inv, Return, Reported, Early, Running
  <2>4. CASE Return(TRUE, driver \o cc1, FALSE) /\ UNCHANGED raised
    BY <1>1, <1>2, <2>1, <2>4 DEF Inv, Return, Reported, Early, Running
  <2> QED BY <1>8, <2>2, <2>3, <2>4 DEF Link
<1> QED BY <1>3, <1>4, <1>5, <1>6, <1>7, <1>8 DEF Next

THEOREM InvAlways ==
  Spec => []Inv
<1>1. Inv /\ [Next]_vars => Inv'
  <2> SUFFICES ASSUME Inv, [Next]_vars PROVE Inv'
    OBVIOUS
  <2>1. CASE Next
    BY <2>1, PlannedStep, AdvancedStep, ReportedStep DEF Inv
  <2>2. CASE UNCHANGED vars
    <3>1. UNCHANGED req /\ Jobs' = Jobs /\ ToMemory' = ToMemory
      BY <2>2, SameRequest DEF vars
    <3>2. Planned'
      <4>1. Valid' = Valid /\ Plain' = Plain
        BY <2>2, <3>1 DEF vars, Valid, Plain
      <4> QED BY <2>2, <3>1, <4>1 DEF vars, Inv, Planned, Running
    <3>3. Advanced'
      BY <2>2, <3>1 DEF vars, Inv, Advanced, Early
    <3>4. Reported'
      BY <2>2, <3>1 DEF vars, Inv, Reported, Early, Running
    <3> QED BY <3>2, <3>3, <3>4 DEF Inv
  <2> QED BY <2>1, <2>2
<1> QED BY InvInit, <1>1, PTL DEF Spec

\* TypeOK, for any number of sources and options: the cc1 jobs are counted out before
\* the first of the others starts (the loops of runInstrumentedToFile and Linker::run).
THEOREM TypeCorrect ==
  Spec => []TypeOK
<1>1. Inv => TypeOK
  <2> SUFFICES ASSUME Inv PROVE TypeOK
    OBVIOUS
  <2>1. req.options \in Seq(CtOptions)
    BY GivenOptions DEF Inv, Planned
  <2>2. config \subseteq Features
    BY <2>1, ExtractFeatures DEF Inv, Planned
  <2> QED BY <2>2 DEF Inv, Planned, Advanced, Reported, TypeOK
<1> QED BY InvAlways, <1>1, PTL

-----------------------------------------------------------------------------
(* What was made                                                           *)

LEMMA MadeStep ==
  ASSUME Inv, MadeInv, Next
  PROVE  MadeInv'
<1>1. req' = req /\ ToMemory' = ToMemory
  <2>1. req' = req
    BY DEF Next, BuildArgs, BuildCompilation, Compile, Validate, RunInstrumented, RunSingle, Link
  <2> QED BY <2>1, SameRequest
<1>2. CASE BuildArgs
  <2>1. outputs' = << >>
    BY <1>2 DEF BuildArgs, Inv, Advanced, Early
  <2> QED BY <2>1 DEF MadeInv
<1>3. CASE UNCHANGED <<config, outputs>>
  BY <1>1, <1>3 DEF MadeInv
<1>4. CASE Compile
  <2>1. CASE outputs' = [i \in 1..plan.cc1 |-> Output("clang", << >>)]
    BY <1>1, <1>4, <2>1 DEF Compile, Plain, Output, MadeInv
  <2> QED BY <1>3, <1>4, <2>1 DEF Compile
<1>5. CASE RunInstrumented \/ RunSingle
  <2>1. config' = config /\ outputs \in Outputs
    BY <1>5, JobSteps DEF Inv, Reported, Advanced
  <2>2. ASSUME NEW d \in CalmEnds, NEW by \in {"instrumented", "cc1"}, NEW passes \in {Passes(config), << >>},
               JobSucceeds(d, by, passes)
        PROVE  MadeInv'
    <3> DEFINE o == Output(by, passes)
    <3>1. outputs' = Append(outputs, o)
      BY <2>2 DEF JobSucceeds, Succeeds
    <3>2. o.optnone <=> "optnone" \in config
      BY DEF Output
    <3>3. req.instrument /\ ~ ToMemory => o.passes = Passes(config)
      BY <2>2 DEF JobSucceeds, Output
    <3> HIDE DEF o
    <3>4. \A i \in DOMAIN outputs' : (i \in DOMAIN outputs /\ outputs'[i] = outputs[i]) \/ outputs'[i] = o
      BY <2>1, <3>1 DEF Outputs
    <3>5. Passes(config)' = Passes(config)
      BY <2>1 DEF Passes
    <3> QED BY <1>1, <2>1, <3>2, <3>3, <3>4, <3>5 DEF MadeInv
  <2>3. CASE UNCHANGED outputs
    BY <1>3, <2>1, <2>3
  <2> QED BY <1>5, <2>2, <2>3, JobSteps DEF Inv, Reported, JobEnds, Fails, JobUnsupported
<1> QED BY <1>2, <1>3, <1>4, <1>5 DEF Next, BuildCompilation, Validate, Link

THEOREM MadeAlways ==
  Spec => []MadeInv
<1>1. Init => MadeInv
  BY DEF Init, MadeInv
<1>2. Inv /\ MadeInv /\ [Next]_vars => MadeInv'
  <2> SUFFICES ASSUME Inv, MadeInv, [Next]_vars PROVE MadeInv'
    OBVIOUS
  <2>1. CASE UNCHANGED vars
    BY <2>1 DEF vars, MadeInv, ToMemory, Passes
  <2> QED BY <2>1, MadeStep
<1> QED BY InvAlways, <1>1, <1>2, PTL DEF Spec

\* OptnoneForced, for any options on the command line: whichever of the five ways a
\* source is compiled, it is compiled with the attribute if and only if the last option
\* about it says so (runNonInstrumentedCompilation is taken only when none does).
THEOREM OptnoneAlwaysForced ==
  Spec => []OptnoneForced
<1>1. Inv /\ MadeInv => OptnoneForced
  <2> SUFFICES ASSUME Inv, MadeInv, NEW i \in DOMAIN outputs
               PROVE  outputs[i].optnone <=> LastSays(req.options, "optnone")
    BY DEF OptnoneForced
  <2>1. phase # "start"
    BY DEF Inv, Advanced, Early
  <2>2. config = Extract(req.options) /\ req.options \in Seq(CtOptions)
    BY <2>1, GivenOptions DEF Inv, Planned
  <2> QED BY <2>2, ExtractIsLastSays DEF MadeInv
<1> QED BY InvAlways, MadeAlways, <1>1, PTL

LEMMA ToSetConcat ==
  ASSUME NEW S, NEW s \in Seq(S), NEW t \in Seq(S)
  PROVE  ToSet(s \o t) = ToSet(s) \cup ToSet(t)
<1>1. /\ Len(s) \in Nat /\ Len(t) \in Nat /\ Len(s \o t) = Len(s) + Len(t)
      /\ DOMAIN s = 1..Len(s) /\ DOMAIN t = 1..Len(t) /\ DOMAIN (s \o t) = 1..Len(s \o t)
  OBVIOUS
<1>2. /\ \A i \in DOMAIN s : (s \o t)[i] = s[i]
      /\ \A i \in DOMAIN t : (s \o t)[Len(s) + i] = t[i]
  OBVIOUS
<1>3. ASSUME NEW x \in ToSet(s) PROVE x \in ToSet(s \o t)
  BY <1>1, <1>2, <1>3 DEF ToSet
<1>4. ASSUME NEW x \in ToSet(t) PROVE x \in ToSet(s \o t)
  <2>1. PICK i \in DOMAIN t : x = t[i]
    BY <1>4 DEF ToSet
  <2>2. Len(s) + i \in DOMAIN (s \o t)
    BY <1>1
  <2> QED BY <1>2, <2>1, <2>2 DEF ToSet
<1>5. ASSUME NEW x \in ToSet(s \o t) PROVE x \in ToSet(s) \cup ToSet(t)
  <2>1. PICK i \in DOMAIN (s \o t) : x = (s \o t)[i]
    BY <1>5 DEF ToSet
  <2>2. CASE i \in DOMAIN s
    BY <1>2, <2>1, <2>2 DEF ToSet
  <2>3. CASE i \notin DOMAIN s
    <3>1. i - Len(s) \in DOMAIN t /\ i = Len(s) + (i - Len(s))
      BY <1>1, <2>3
    <3>2. x = t[i - Len(s)]
      BY <1>2, <2>1, <3>1
    <3> QED BY <3>1, <3>2 DEF ToSet
  <2> QED BY <2>2, <2>3
<1> QED BY <1>3, <1>4, <1>5

LEMMA AddLast ==
  ASSUME NEW S, NEW s \in Seq(S), NEW x \in S
  PROVE  /\ s \o <<x>> \in Seq(S) /\ Len(s) + 1 \in DOMAIN (s \o <<x>>) /\ (s \o <<x>>)[Len(s) + 1] = x
         /\ Last(s \o <<x>>) = x
<1> DEFINE t == s \o <<x>>
           n == Len(s)
<1>1. t \in Seq(S) /\ Len(t) = n + 1 /\ n \in Nat /\ t[n + 1] = x
  OBVIOUS
<1>2. DOMAIN t = 1..Len(t)
  OBVIOUS
<1> HIDE DEF t, n
<1>3. t \in Seq(S) /\ n + 1 \in DOMAIN t /\ t[n + 1] = x /\ Last(t) = x
  BY <1>1, <1>2 DEF Last
<1> QED BY <1>3, Zenon DEF t, n

LEMMA Prefix ==
  ASSUME NEW S, NEW s \in Seq(S), NEW t \in Seq(S), NEW i \in DOMAIN s
  PROVE  i \in DOMAIN (s \o t) /\ (s \o t)[i] = s[i]
  OBVIOUS

LEMMA PassesWanted ==
  ASSUME NEW c
  PROVE  /\ ToSet(Passes(c)) = {f \in {"trace", "alloc", "bounds"} : f \in c} \cup {"globals"}
              \cup (IF "vtable" \in c \/ "vcall_trace" \in c THEN {"vtable"} ELSE {})
         /\ Last(Passes(c)) = "globals"
         /\ {"alloc", "bounds"} \subseteq c =>
              \E i, j \in DOMAIN Passes(c) : i < j /\ Passes(c)[i] = "alloc" /\ Passes(c)[j] = "bounds"
<1> DEFINE S == PassNames
           A == Pass("trace", "trace" \in c)
           B == Pass("alloc", "alloc" \in c)
           C == Pass("bounds", "bounds" \in c)
           D == Pass("vtable", "vtable" \in c \/ "vcall_trace" \in c)
           G == <<"globals">>
<1>1. \A p \in S : <<p>> \in Seq(S) /\ ToSet(<<p>>) = {p}
  BY DEF ToSet
<1>2. << >> \in Seq(S) /\ ToSet(<< >>) = {}
  BY DEF ToSet
<1>3. {"trace", "alloc", "bounds", "vtable", "globals"} \subseteq S
  BY DEF PassNames
<1>4. /\ A = IF "trace" \in c THEN <<"trace">> ELSE << >>
      /\ B = IF "alloc" \in c THEN <<"alloc">> ELSE << >>
      /\ C = IF "bounds" \in c THEN <<"bounds">> ELSE << >>
      /\ D = IF "vtable" \in c \/ "vcall_trace" \in c THEN <<"vtable">> ELSE << >>
  BY Zenon DEF Pass
<1>5. Passes(c) = A \o B \o C \o D \o G
  BY Zenon DEF Passes
<1> HIDE DEF A, B, C, D, G, S
<1>6. A \in Seq(S) /\ B \in Seq(S) /\ C \in Seq(S) /\ D \in Seq(S) /\ G \in Seq(S) /\ ToSet(G) = {"globals"}
  BY <1>1, <1>2, <1>3, <1>4 DEF G
<1>7. A \o B \in Seq(S) /\ A \o B \o C \in Seq(S) /\ A \o B \o C \o D \in Seq(S)
  BY <1>6
<1>8. ToSet(Passes(c)) = ToSet(A) \cup ToSet(B) \cup ToSet(C) \cup ToSet(D) \cup {"globals"}
  <2>1. \A s, t \in Seq(S) : ToSet(s \o t) = ToSet(s) \cup ToSet(t)
    BY ToSetConcat
  <2>2. ToSet(A \o B) = ToSet(A) \cup ToSet(B)
    BY <1>6, <2>1, Zenon
  <2>3. ToSet(A \o B \o C) = ToSet(A \o B) \cup ToSet(C)
    BY <1>6, <1>7, <2>1, Zenon
  <2>4. ToSet(A \o B \o C \o D) = ToSet(A \o B \o C) \cup ToSet(D)
    BY <1>6, <1>7, <2>1, Zenon
  <2>5. ToSet(A \o B \o C \o D \o G) = ToSet(A \o B \o C \o D) \cup ToSet(G)
    BY <1>6, <1>7, <2>1, Zenon
  <2> QED BY <1>5, <1>6, <2>2, <2>3, <2>4, <2>5
<1>9. /\ ToSet(A) = IF "trace" \in c THEN {"trace"} ELSE {}
      /\ ToSet(B) = IF "alloc" \in c THEN {"alloc"} ELSE {}
      /\ ToSet(C) = IF "bounds" \in c THEN {"bounds"} ELSE {}
      /\ ToSet(D) = IF "vtable" \in c \/ "vcall_trace" \in c THEN {"vtable"} ELSE {}
  BY <1>1, <1>2, <1>3, <1>4
<1>10. Last(Passes(c)) = "globals"
  <2>1. "globals" \in S
    BY <1>3
  <2>2. Last(A \o B \o C \o D \o <<"globals">>) = "globals"
    BY <1>7, <2>1, AddLast, ZenonT(30)
  <2> QED BY <1>5, <2>2 DEF G
<1>11. ASSUME {"alloc", "bounds"} \subseteq c
       PROVE  \E i, j \in DOMAIN Passes(c) : i < j /\ Passes(c)[i] = "alloc" /\ Passes(c)[j] = "bounds"
  <2> DEFINE i == Len(A) + 1
             j == Len(A \o B) + 1
  <2>1. B = <<"alloc">> /\ C = <<"bounds">>
    BY <1>4, <1>11
  <2>2. i < j
    BY <1>6, <2>1
  <2>3. i \in DOMAIN (A \o B) /\ (A \o B)[i] = "alloc"
    <3>1. "alloc" \in S
      BY <1>3
    <3>2. Len(A) + 1 \in DOMAIN (A \o <<"alloc">>) /\ (A \o <<"alloc">>)[Len(A) + 1] = "alloc"
      BY <1>6, <3>1, AddLast
    <3> QED BY <2>1, <3>2
  <2>4. j \in DOMAIN (A \o B \o C) /\ (A \o B \o C)[j] = "bounds"
    <3> DEFINE q == A \o B
    <3>1. "bounds" \in S /\ q \in Seq(S)
      BY <1>3, <1>7
    <3> HIDE DEF q
    <3>2. Len(q) + 1 \in DOMAIN (q \o <<"bounds">>) /\ (q \o <<"bounds">>)[Len(q) + 1] = "bounds"
      BY <3>1, AddLast
    <3> QED BY <2>1, <3>2 DEF q
  <2> HIDE DEF i, j
  <2>5. i \in DOMAIN (A \o B \o C) /\ (A \o B \o C)[i] = "alloc"
    BY <1>6, <1>7, <2>3, Prefix
  <2>6. /\ i \in DOMAIN (A \o B \o C \o D) /\ (A \o B \o C \o D)[i] = "alloc"
        /\ j \in DOMAIN (A \o B \o C \o D) /\ (A \o B \o C \o D)[j] = "bounds"
    BY SMTT(30), <1>6, <1>7, <2>4, <2>5, Prefix
  <2>7. /\ i \in DOMAIN (A \o B \o C \o D \o G) /\ (A \o B \o C \o D \o G)[i] = "alloc"
        /\ j \in DOMAIN (A \o B \o C \o D \o G) /\ (A \o B \o C \o D \o G)[j] = "bounds"
    <3> DEFINE s == A \o B \o C \o D
    <3>1. s \in Seq(S) /\ G \in Seq(S)
      BY <1>6, <1>7
    <3> HIDE DEF s
    <3>2. \A k \in DOMAIN s : k \in DOMAIN (s \o G) /\ (s \o G)[k] = s[k]
      BY <3>1, Prefix
    <3>3. i \in DOMAIN s /\ s[i] = "alloc" /\ j \in DOMAIN s /\ s[j] = "bounds"
      BY <2>6 DEF s
    <3> QED BY <3>2, <3>3 DEF s
  <2> QED BY <1>5, <2>2, <2>7
<1>12. ToSet(Passes(c)) = {f \in {"trace", "alloc", "bounds"} : f \in c} \cup {"globals"}
                            \cup (IF "vtable" \in c \/ "vcall_trace" \in c THEN {"vtable"} ELSE {})
  BY <1>8, <1>9
<1> QED BY <1>10, <1>11, <1>12

LEMMA DriverErrorStays ==
  ASSUME Inv, Next, phase # "start", DriverError
  PROVE  DriverError'
<1>1. raised \in Reports /\ << >> \in Reports
  BY Raised DEF Inv, Reported
<1>2. ASSUME NEW s \in Reports, raised' = raised \o s PROVE DriverError'
  <2>1. ToSet(raised \o s) = ToSet(raised) \cup ToSet(s)
    BY <1>1, <1>2, ToSetConcat DEF Reports
  <2> QED BY <1>2, <2>1 DEF DriverError
<1>3. ASSUME NEW s \in Reports, NEW t \in Reports, raised' = raised \o s \o t PROVE DriverError'
  <2>1. ToSet(raised \o s) = ToSet(raised) \cup ToSet(s) /\ raised \o s \in Reports
    BY <1>1, <1>3, ToSetConcat DEF Reports
  <2>2. \A q \in Reports : ToSet(q \o t) = ToSet(q) \cup ToSet(t)
    BY <1>3, ToSetConcat DEF Reports
  <2> QED BY <1>3, <2>1, <2>2 DEF DriverError
<1>4. CASE UNCHANGED raised
  BY <1>4 DEF DriverError
<1>5. CASE BuildCompilation
  <2>1. PICK d \in {<< >>, Warning("driver"), Error("driver")} : raised' = raised \o d
    BY <1>5 DEF BuildCompilation
  <2>2. d \in Reports
    BY EarlyReports
  <2> QED BY <1>2, <2>1, <2>2
<1>6. CASE Validate
  BY <1>2, <1>4, <1>6, EndReports DEF Validate
<1>7. CASE RunInstrumented \/ RunSingle
  <2>1. ASSUME NEW d \in CalmEnds, NEW by \in {"instrumented", "cc1"}, NEW passes \in {Passes(config), << >>},
               JobSucceeds(d, by, passes)
        PROVE  DriverError'
    <3>1. d[1] \in Reports /\ d[2] \in Reports /\ raised' = raised \o d[1] \o d[2]
      BY <2>1, EndReports, EarlyReports DEF JobSucceeds, Succeeds
    <3> QED BY <1>3, <3>1
  <2>2. ASSUME NEW lost \in LostReports, NEW told \in ToldReports, Fails(lost, told)
        PROVE  DriverError'
    <3>1. lost \in Reports /\ told \in Reports /\ raised' = raised \o lost \o told
      BY <2>2, EndReports DEF Fails
    <3> QED BY <1>3, <3>1
  <2>3. ASSUME NEW lost \in ArgumentReports, JobUnsupported(lost)
        PROVE  DriverError'
    <3>1. lost \in Reports /\ Error("unsupported") \in Reports /\ raised' = raised \o lost \o Error("unsupported")
      BY <2>3, EndReports, EarlyReports DEF JobUnsupported
    <3> QED BY <1>3, <3>1
  <2> QED BY <1>7, <2>1, <2>2, <2>3, JobSteps DEF Inv, Reported, JobEnds
<1>8. CASE Link
  BY <1>2, <1>4, <1>8, EndReports DEF Link
<1>9. ~ BuildArgs
  BY DEF BuildArgs
<1>10. CASE Compile
  BY <1>4, <1>10 DEF Compile
<1> QED BY <1>5, <1>6, <1>7, <1>8, <1>9, <1>10 DEF Next

LEMMA LinkStep ==
  ASSUME Inv, LinkInv, Next
  PROVE  LinkInv'
<1>1. Jobs' = Jobs /\ Links' = Links /\ Make' = Make
  <2>1. req' = req
    BY DEF Next, BuildArgs, BuildCompilation, Compile, Validate, RunInstrumented, RunSingle, Link
  <2> QED BY <2>1, SameRequest
<1>2. CASE BuildArgs
  <2>1. phase' \in {"driver", "done"} /\ linked' = 0
    BY <1>2 DEF BuildArgs, Return, Inv, Advanced
  <2> QED BY <2>1 DEF LinkInv, Running
<1>3. CASE BuildCompilation
  <2>1. phase = "driver" /\ linked' = 0 /\ raised \in Reports
    BY <1>3 DEF BuildCompilation, Inv, Advanced, Reported
  <2>2. CASE phase' = "done"
    BY <2>1, <2>2 DEF LinkInv, Running
  <2>3. CASE phase' = "choose" /\ plan' = Jobs
    <3>1. PICK d \in {<< >>, Warning("driver"), Error("driver")} :
            raised' = raised \o d /\ (Links /\ "-emit-llvm" \in Make => d = Error("driver"))
      BY <1>3 DEF BuildCompilation
    <3>2. ASSUME Links, "-emit-llvm" \in Make PROVE DriverError'
      <4>1. raised' = raised \o <<Diag("driver", "error")>>
        BY <3>1, <3>2 DEF Error
      <4>2. <<Diag("driver", "error")>> \in Reports
        BY EarlyReports DEF Error
      <4>3. ToSet(raised') = ToSet(raised) \cup ToSet(<<Diag("driver", "error")>>)
        BY ZenonT(30), <2>1, <4>1, <4>2, ToSetConcat DEF Reports
      <4>4. Diag("driver", "error") \in ToSet(<<Diag("driver", "error")>>)
        BY DEF ToSet
      <4> QED BY <4>3, <4>4 DEF DriverError
    <3> QED BY <1>1, <2>3, <3>2 DEF LinkInv
  <2> QED BY <1>3, <2>2, <2>3 DEF BuildCompilation, Return
<1>4. CASE Compile \/ Validate \/ RunInstrumented \/ RunSingle \/ Link
  <2>1. phase \in {"choose", "cc1", "link"} /\ plan' = plan
    BY <1>4 DEF Compile, Validate, RunInstrumented, RunSingle, Link
  <2>2. plan = Jobs /\ (Links /\ "-emit-llvm" \in Make => DriverError)
    BY <2>1 DEF LinkInv, Running
  <2> QED BY <1>1, <2>1, <2>2, DriverErrorStays DEF LinkInv
<1> QED BY <1>2, <1>3, <1>4 DEF Next

\* InstrumentsAll, for any options and any number of sources: the passes are those that
\* the last options ask for, in the order of runInstrumented, and the runtime is linked
\* to what they made (the linker is given it when linkRequested says so, and clang
\* links nothing else but LLVM IR, which its driver has refused).
THEOREM InstrumentsAlways ==
  Spec => []InstrumentsAll
<1>1. Init => LinkInv
  BY DEF Init, LinkInv, Running
<1>2. Inv /\ LinkInv /\ [Next]_vars => LinkInv'
  <2> SUFFICES ASSUME Inv, LinkInv, UNCHANGED vars PROVE LinkInv'
    BY LinkStep
  <2>1. Jobs' = Jobs /\ Links' = Links /\ Make' = Make
    BY SameRequest DEF vars
  <2> QED BY <2>1 DEF vars, LinkInv, Running, DriverError
<1>3. Inv /\ MadeInv /\ LinkInv => InstrumentsAll
  <2> SUFFICES ASSUME Inv, MadeInv, LinkInv PROVE InstrumentsAll
    OBVIOUS
  <2>1. ASSUME req.instrument, ~ ToMemory, NEW i \in DOMAIN outputs
        PROVE  Wanted(outputs[i])
    <3>1. phase # "start"
      BY <2>1 DEF Inv, Advanced, Early
    <3>2. config = Extract(req.options) /\ req.options \in Seq(CtOptions)
      BY <3>1, GivenOptions DEF Inv, Planned
    <3>3. \A f : f \in config <=> LastSays(req.options, f)
      BY <3>2, ExtractIsLastSays
    <3> DEFINE p == outputs[i].passes
    <3>4. p = Passes(config)
      BY <2>1 DEF MadeInv
    <3>5. ToSet(p) = {f \in {"trace", "alloc", "bounds"} : f \in config} \cup {"globals"}
            \cup (IF "vtable" \in config \/ "vcall_trace" \in config THEN {"vtable"} ELSE {})
      BY <3>4, PassesWanted
    <3>6. Last(p) = "globals"
      BY <3>4, PassesWanted
    <3>7. {"alloc", "bounds"} \subseteq ToSet(p) =>
            \E k, l \in DOMAIN p : k < l /\ p[k] = "alloc" /\ p[l] = "bounds"
      <4>1. {"alloc", "bounds"} \subseteq ToSet(p) => {"alloc", "bounds"} \subseteq config
        BY <3>5
      <4> QED BY <3>4, <4>1, PassesWanted
    <3>8. ToSet(p) = {f \in {"trace", "alloc", "bounds"} : LastSays(req.options, f)} \cup {"globals"}
            \cup (IF LastSays(req.options, "vtable") \/ LastSays(req.options, "vcall_trace") THEN {"vtable"} ELSE {})
      BY <3>3, <3>5
    <3> HIDE DEF p
    <3>9. Wanted(outputs[i]) <=>
            /\ ToSet(p) = {f \in {"trace", "alloc", "bounds"} : LastSays(req.options, f)} \cup {"globals"}
                 \cup (IF LastSays(req.options, "vtable") \/ LastSays(req.options, "vcall_trace")
                       THEN {"vtable"} ELSE {})
            /\ Last(p) = "globals"
            /\ {"alloc", "bounds"} \subseteq ToSet(p) =>
                 \E k, l \in DOMAIN p : k < l /\ p[k] = "alloc" /\ p[l] = "bounds"
      BY Zenon DEF Wanted, p
    <3> QED BY <3>6, <3>7, <3>8, <3>9, Zenon
  <2>2. ASSUME req.instrument, linked > 0, Links, ~ DriverError
        PROVE  plan.runtime
    <3>1. plan = Jobs /\ "-emit-llvm" \notin Make
      BY <2>2 DEF LinkInv
    <3>2. ~ ToMemory
      BY <2>2 DEF Inv, Advanced
    <3>3. req.mode = "ToFile"
      BY <3>2 DEF ToMemory, Inv, Planned, Requests
    <3>4. LinkRequested
      BY <2>2, <3>1 DEF LinkRequested, Links
    <3> QED BY <2>2, <3>1, <3>3, <3>4 DEF Jobs
  <2> QED BY <2>1, <2>2 DEF InstrumentsAll
<1> QED BY InvAlways, MadeAlways, <1>1, <1>2, <1>3, PTL DEF Spec

-----------------------------------------------------------------------------
(* What was raised                                                         *)

LEMMA CalmErrors ==
  ASSUME NEW s \in Seq(CalmDiags), NEW i \in DOMAIN s, s[i].level = "error"
  PROVE  s[i].by = "driver"
<1>1. s[i] \in CalmDiags
  OBVIOUS
<1>2. \A d \in CalmDiags : d.level = "error" => d.by = "driver"
  BY DEF CalmDiags, EarlyDiags, Diag
<1> QED BY <1>1, <1>2

\* A job that succeeds leaves no error counted.
LEMMA JobClean ==
  ASSUME raised \in Reports, NEW d \in CalmEnds, NEW by, NEW passes, JobSucceeds(d, by, passes)
  PROVE  \A i \in DOMAIN raised' : raised'[i].level # "error"
<1> DEFINE r == raised \o d[1]
           w == d[2]
<1>1. raised' = r \o w /\ \A i \in DOMAIN r : r[i].level # "error"
  BY DEF JobSucceeds, Succeeds, NumErrors
<1>2. d[1] \in Reports /\ r \in Reports /\ w \in {<< >>, Warning("job")} /\ w \in Reports
  BY EndReports, EarlyReports, Raised DEF CalmEnds
<1>3. ASSUME NEW i \in DOMAIN w PROVE w[i].level # "error"
  BY <1>2, <1>3 DEF Warning, Diag
<1> HIDE DEF r, w
<1>4. ASSUME NEW i \in DOMAIN (r \o w) PROVE (r \o w)[i].level # "error"
  <2>1. /\ Len(r) \in Nat /\ Len(w) \in Nat /\ i \in 1..(Len(r) + Len(w))
        /\ DOMAIN r = 1..Len(r) /\ DOMAIN w = 1..Len(w)
        /\ (r \o w)[i] = IF i <= Len(r) THEN r[i] ELSE w[i - Len(r)]
    BY <1>2, <1>4 DEF Reports
  <2>2. CASE i <= Len(r)
    BY <1>1, <2>1, <2>2
  <2>3. CASE ~ (i <= Len(r))
    <3>1. i - Len(r) \in DOMAIN w
      BY <2>1, <2>3
    <3> QED BY <1>3, <2>1, <2>3, <3>1
  <2> QED BY <2>2, <2>3
<1> QED BY <1>1, <1>4

LEMMA CleanStep ==
  ASSUME Inv, CleanInv, Next
  PROVE  CleanInv'
<1>1. ASSUME ~ Running' PROVE CleanInv'
  BY <1>1 DEF CleanInv
<1>2. CASE BuildArgs \/ BuildCompilation \/ Compile
  BY <1>1, <1>2 DEF BuildArgs, BuildCompilation, Compile, Return, Running
<1>3. CASE Validate
  <2>1. outputs' = << >>
    BY <1>3 DEF Validate, Inv, Advanced, Early
  <2> QED BY <2>1 DEF CleanInv
<1>4. CASE RunInstrumented \/ RunSingle
  <2>1. ASSUME NEW d \in CalmEnds, NEW by \in {"instrumented", "cc1"}, NEW passes \in {Passes(config), << >>},
               JobSucceeds(d, by, passes)
        PROVE  CleanInv'
    BY <2>1, JobClean DEF CleanInv, Inv, Reported
  <2>2. ASSUME NEW lost \in LostReports, NEW told \in ToldReports, Fails(lost, told)
        PROVE  CleanInv'
    BY <1>1, <2>2 DEF Fails, Return, Running
  <2>3. ASSUME NEW lost \in ArgumentReports, JobUnsupported(lost)
        PROVE  CleanInv'
    BY <1>1, <2>3 DEF JobUnsupported, Return, Running
  <2> QED BY <1>4, <2>1, <2>2, <2>3, JobSteps DEF Inv, Reported, JobEnds
<1>5. CASE Link
  <2>1. phase = "link" /\ outputs' = outputs /\ (UNCHANGED raised \/ phase' = "done")
    BY <1>5 DEF Link, Return
  <2> QED BY <1>1, <2>1 DEF CleanInv, Running
<1> QED BY <1>2, <1>3, <1>4, <1>5 DEF Next

LEMMA CleanAlways == Spec => []CleanInv
<1>1. Init => CleanInv
  BY DEF Init, CleanInv, Running
<1>2. Inv /\ CleanInv /\ [Next]_vars => CleanInv'
  <2> SUFFICES ASSUME CleanInv, UNCHANGED vars PROVE CleanInv'
    BY CleanStep
  <2> QED BY DEF vars, CleanInv, Running
<1> QED BY InvAlways, <1>1, <1>2, PTL DEF Spec

LEMMA SuccessStep ==
  ASSUME Inv, CleanInv, Next
  PROVE  SuccessComplete'
<1>1. req' = req /\ ToMemory' = ToMemory
  <2>1. req' = req
    BY DEF Next, BuildArgs, BuildCompilation, Compile, Validate, RunInstrumented, RunSingle, Link
  <2> QED BY <2>1, SameRequest
<1>2. ASSUME phase' # "done" \/ ~ result'.ok PROVE SuccessComplete'
  BY <1>2 DEF SuccessComplete, Done
<1>3. CASE BuildArgs
  BY <1>2, <1>3 DEF BuildArgs, Return
<1>4. CASE BuildCompilation
  BY <1>2, <1>4 DEF BuildCompilation, Return
<1>5. CASE Compile
  <2>1. CASE Return(TRUE, dc, FALSE)
    <3>1. /\ Diag("driver", "error") \notin ToSet(dc) /\ linked' = plan.others /\ UNCHANGED <<plan, config, raised>>
          /\ outputs' = [i \in 1..plan.cc1 |-> Output("clang", << >>)]
      BY <1>5, <2>1 DEF Compile, Return
    <3>2. phase = "choose" /\ raised = dc /\ dc \in Seq(EarlyDiags)
      BY <1>5 DEF Compile, Inv, Reported, Early
    <3>3. plan.cc1 \in Nat
      BY <3>2, JobsTyped DEF Inv, Planned
    <3>4. Len(outputs') = plan.cc1
      <4> DEFINE n == plan.cc1
      <4>1. outputs' = [i \in 1..n |-> Output("clang", << >>)] /\ n \in Nat
        BY <3>1, <3>3
      <4> HIDE DEF n
      <4>2. Len(outputs') = n
        BY <4>1
      <4> QED BY <4>2 DEF n
    <3>5. ASSUME NEW i \in DOMAIN raised PROVE raised[i].level # "error"
      <4>1. raised[i] \in EarlyDiags /\ raised[i] # Diag("driver", "error")
        BY <3>1, <3>2 DEF ToSet
      <4> QED BY <4>1 DEF EarlyDiags, Diag
    <3>6. result'.ir = FALSE
      BY <2>1 DEF Return
    <3> QED BY <3>1, <3>4, <3>5, <3>6 DEF SuccessComplete
  <2>2. CASE Return(FALSE, IF dc = << >> THEN Error("compile") ELSE dc, FALSE)
    BY <1>2, <2>2 DEF Return
  <2> QED BY <1>5, <2>1, <2>2 DEF Compile
<1>6. CASE Validate
  BY <1>2, <1>6 DEF Validate, Return, Inv, Reported
<1>7. ASSUME Running, UNCHANGED <<config, plan>>, raised' \in Seq(CalmDiags),
             Len(outputs') = plan.cc1, linked' = plan.others, result'.ir => ToMemory,
             plan.cc1 # 0 => \A i \in DOMAIN raised' : raised'[i].level # "error"
      PROVE  SuccessComplete'
  <2>1. ~ Plain'
    BY <1>1, <1>7 DEF Inv, Planned, Plain
  <2>2. \A i \in DOMAIN raised' : raised'[i].level = "error" => raised'[i].by = "driver"
    BY <1>7, CalmErrors
  <2> QED BY <1>1, <1>7, <2>1, <2>2 DEF SuccessComplete
<1>8. CASE RunInstrumented \/ RunSingle
  <2>1. phase = "cc1" /\ UNCHANGED <<config, plan, linked>>
    BY <1>8, JobSteps DEF Inv, Reported
  <2>2. ASSUME NEW d \in CalmEnds, NEW by \in {"instrumented", "cc1"}, NEW passes \in {Passes(config), << >>},
               JobSucceeds(d, by, passes)
        PROVE  SuccessComplete'
    <3>1. CASE ~ ToMemory
      BY <1>2, <2>1, <2>2, <3>1 DEF JobSucceeds, Succeeds, Collect, Inv, Reported
    <3>2. CASE ToMemory
      <4>1. outputs' = Append(outputs, Output(by, passes)) /\ raised' = raised \o d[1] \o d[2]
        BY <2>2 DEF JobSucceeds, Succeeds
      <4>2. plan.cc1 = 1 /\ plan.others = 0 /\ outputs \in Outputs /\ Len(outputs) < plan.cc1 /\ linked = 0
        BY <2>1, <3>2 DEF Inv, Planned, Advanced, Running, Valid, ToMemory
      <4>3. Len(outputs') = 1
        <5>1. Len(outputs) \in Nat
          BY <4>2 DEF Outputs
        <5> QED BY <4>1, <4>2, <5>1, AppendOutput
      <4>4. raised' \in Seq(CalmDiags)
        BY <2>1, <4>1, EndReports, EarlyReports DEF Inv, Reported, Running
      <4>5. \A i \in DOMAIN raised' : raised'[i].level # "error"
        BY <2>2, JobClean DEF Inv, Reported
      <4> QED BY <1>7, <2>1, <3>2, <4>2, <4>3, <4>4, <4>5 DEF Running
    <3> QED BY <3>1, <3>2
  <2>3. ASSUME NEW lost \in LostReports, NEW told \in ToldReports, Fails(lost, told)
        PROVE  SuccessComplete'
    BY <1>2, <2>3 DEF Fails, Return
  <2>4. ASSUME NEW lost \in ArgumentReports, JobUnsupported(lost)
        PROVE  SuccessComplete'
    BY <1>2, <2>4 DEF JobUnsupported, Return
  <2> QED BY <1>8, <2>2, <2>3, <2>4, JobSteps DEF Inv, Reported, JobEnds
<1>9. CASE Link
  <2>1. phase = "link" /\ UNCHANGED <<config, plan, outputs>> /\ linked <= plan.others
    BY <1>9 DEF Link, Inv, Advanced
  <2>2. CASE Return(TRUE, driver \o cc1, FALSE) /\ UNCHANGED <<linked, raised>> /\ ~ (linked < plan.others)
    <3>1. linked \in Nat /\ plan.others \in Nat /\ Len(outputs) = plan.cc1 /\ raised \in Seq(CalmDiags)
      BY <2>1, JobsTyped DEF Inv, Planned, Advanced, Reported, Running
    <3>2. linked' = plan.others
      BY <2>1, <2>2, <3>1
    <3>3. result'.ir = FALSE
      BY <2>2 DEF Return
    <3>4. plan.cc1 # 0 => outputs # << >>
      BY <3>1
    <3>5. plan.cc1 # 0 => \A i \in DOMAIN raised' : raised'[i].level # "error"
      BY <2>1, <2>2, <3>4 DEF CleanInv, Running
    <3> QED BY <1>7, <2>1, <2>2, <3>1, <3>2, <3>3, <3>5 DEF Running
  <2>3. CASE phase' # "done" \/ ~ result'.ok
    BY <1>2, <2>3
  <2> QED BY <1>9, <2>1, <2>2, <2>3 DEF Link, Return
<1> QED BY <1>3, <1>4, <1>5, <1>6, <1>8, <1>9 DEF Next

\* SuccessComplete, for any number of sources: compile says that it succeeded only when
\* every planned job was run (validateJobPlan leaves one cc1 job and nothing else in
\* memory) and no error was raised, as the consumer that the jobs share has counted it
\* and ExecuteAction says no; but for one of the driver when there is nothing to compile.
THEOREM SuccessAlwaysComplete ==
  Spec => []SuccessComplete
<1>1. Init => SuccessComplete
  BY DEF Init, SuccessComplete, Done
<1>2. Inv /\ CleanInv /\ SuccessComplete /\ [Next]_vars => SuccessComplete'
  <2> SUFFICES ASSUME SuccessComplete, UNCHANGED vars PROVE SuccessComplete'
    BY SuccessStep
  <2>1. ToMemory' = ToMemory /\ Plain' = Plain
    BY DEF vars, ToMemory, Plain
  <2> QED BY <2>1 DEF vars, SuccessComplete, Done
<1> QED BY InvAlways, CleanAlways, <1>1, <1>2, PTL DEF Spec

LEMMA KeptFinite ==
  ASSUME NEW s \in Reports
  PROVE  /\ Kept(s) \subseteq 1..Len(s) /\ Len(s) \in Nat
         /\ IsFiniteSet(Kept(s)) /\ Cardinality(Kept(s)) \in Nat
         /\ \A i \in Kept(s) : Rank(s, i) \in 1..Cardinality(Kept(s))
<1>1. Kept(s) \subseteq 1..Len(s) /\ Len(s) \in Nat
  BY DEF Kept, Reports
<1>2. IsFiniteSet(1..Len(s))
  BY <1>1, FS_Interval
<1>3. IsFiniteSet(Kept(s)) /\ Cardinality(Kept(s)) \in Nat
  BY <1>1, <1>2, FS_Subset, FS_CardinalityType
<1>4. ASSUME NEW i \in Kept(s) PROVE Rank(s, i) \in 1..Cardinality(Kept(s))
  <2> DEFINE R == {j \in Kept(s) : j <= i}
  <2>1. R \subseteq Kept(s) /\ i \in R
    BY <1>1
  <2> HIDE DEF R
  <2>2. IsFiniteSet(R) /\ Cardinality(R) <= Cardinality(Kept(s))
    BY <1>3, <2>1, FS_Subset
  <2>3. Cardinality(R) \in Nat /\ Cardinality(R) # 0
    BY <2>1, <2>2, FS_CardinalityType, FS_EmptySet
  <2>4. Cardinality(R) \in 1..Cardinality(Kept(s))
    BY <1>3, <2>2, <2>3
  <2> QED BY <2>4 DEF Rank, R
<1> QED BY <1>1, <1>3, <1>4

LEMMA ReportsAdd ==
  ASSUME NEW s \in Reports, NEW d \in [by : Raisers, level : Levels]
  PROVE  /\ s \o <<d>> \in Reports /\ Len(s \o <<d>>) = Len(s) + 1 /\ Len(s) \in Nat
         /\ DOMAIN s = 1..Len(s) /\ DOMAIN (s \o <<d>>) = 1..(Len(s) + 1)
         /\ \A i \in 1..Len(s) : (s \o <<d>>)[i] = s[i]
         /\ (s \o <<d>>)[Len(s) + 1] = d
  BY DEF Reports

\* What is lost changes no rank.
LEMMA AccountsLost ==
  ASSUME NEW s \in Reports, NEW t \in Reports, NEW d \in [by : Raisers, level : Levels],
         d.by \in Lost, Accounts(t, s)
  PROVE  Accounts(t, s \o <<d>>)
<1> DEFINE r == s \o <<d>>
<1>1. Kept(r) = Kept(s) /\ \A i \in Kept(s) : r[i] = s[i]
  <2>1. /\ Len(s) \in Nat /\ DOMAIN s = 1..Len(s) /\ DOMAIN r = 1..(Len(s) + 1)
        /\ \A i \in 1..Len(s) : r[i] = s[i]
        /\ r[Len(s) + 1] = d
    BY ReportsAdd
  <2> HIDE DEF r
  <2> QED BY <2>1 DEF Kept
<1> HIDE DEF r
<1>2. \A i \in Kept(s) : Rank(r, i) = Rank(s, i)
  BY <1>1 DEF Rank
<1>3. Accounts(t, r)
  BY <1>1, <1>2 DEF Accounts
<1> QED BY <1>3 DEF r

\* What is kept is told last.
LEMMA AccountsKept ==
  ASSUME NEW s \in Reports, NEW t \in Reports, NEW d \in [by : Raisers, level : Levels],
         d.by \notin Lost, Accounts(t, s)
  PROVE  Accounts(t \o <<d>>, s \o <<d>>)
<1> DEFINE r == s \o <<d>>
           u == t \o <<d>>
           n == Len(s)
<1>1. /\ n \in Nat /\ DOMAIN s = 1..n /\ DOMAIN r = 1..(n + 1)
      /\ \A i \in 1..n : r[i] = s[i]
      /\ r[n + 1] = d
  BY ReportsAdd
<1>2. /\ Len(t) \in Nat /\ Len(u) = Len(t) + 1 /\ \A i \in 1..Len(t) : u[i] = t[i]
      /\ u[Len(t) + 1] = d
  BY ReportsAdd
<1> HIDE DEF r, u, n
<1>3. Kept(r) = Kept(s) \cup {n + 1} /\ Kept(s) \subseteq 1..n
  BY <1>1 DEF Kept
<1>4. /\ IsFiniteSet(Kept(s)) /\ Cardinality(Kept(s)) = Len(t)
      /\ \A i \in Kept(s) : Rank(s, i) \in 1..Len(t) /\ t[Rank(s, i)] = s[i]
  BY KeptFinite DEF Accounts
<1>5. Cardinality(Kept(r)) = Len(t) + 1
  <2>1. n + 1 \notin Kept(s)
    BY <1>1, <1>3
  <2> QED BY <1>3, <1>4, <2>1, FS_AddElement
<1>6. ASSUME NEW i \in Kept(s) PROVE u[Rank(r, i)] = r[i]
  <2>1. {j \in Kept(r) : j <= i} = {j \in Kept(s) : j <= i}
    BY <1>1, <1>3
  <2>2. Rank(r, i) = Rank(s, i)
    BY <2>1 DEF Rank
  <2> QED BY <1>1, <1>2, <1>3, <1>4, <2>2
<1>7. u[Rank(r, n + 1)] = r[n + 1]
  <2>1. {j \in Kept(r) : j <= n + 1} = Kept(r)
    BY <1>1, <1>3
  <2>2. Rank(r, n + 1) = Len(t) + 1
    BY <1>5, <2>1 DEF Rank
  <2> QED BY <1>1, <1>2, <2>2
<1>8. Accounts(u, r)
  BY <1>2, <1>3, <1>5, <1>6, <1>7 DEF Accounts
<1> QED BY <1>8 DEF r, u

LEMMA AccountsAll ==
  ASSUME NEW s \in Seq(EarlyDiags)
  PROVE  Accounts(s, s)
<1>1. \A d \in EarlyDiags : d.by \notin Lost
  BY DEF EarlyDiags, Diag, Lost
<1>2. Len(s) \in Nat /\ DOMAIN s = 1..Len(s) /\ \A i \in 1..Len(s) : s[i] \in EarlyDiags
  OBVIOUS
<1>3. Kept(s) = 1..Len(s)
  BY <1>1, <1>2 DEF Kept
<1>4. Cardinality(Kept(s)) = Len(s)
  <2>1. Cardinality(1..Len(s)) = IF 1 > Len(s) THEN 0 ELSE Len(s) - 1 + 1
    BY <1>2, FS_Interval
  <2> QED BY <1>2, <1>3, <2>1
<1>5. ASSUME NEW i \in 1..Len(s) PROVE Rank(s, i) = i
  <2>1. {j \in Kept(s) : j <= i} = 1..i
    BY <1>2, <1>3
  <2>2. Cardinality(1..i) = i
    BY <1>2, FS_Interval
  <2> QED BY <2>1, <2>2 DEF Rank
<1> QED BY <1>3, <1>4, <1>5 DEF Accounts

LEMMA ConcatAgain ==
  ASSUME NEW s \in Reports, NEW t \in Reports, NEW u \in Reports
  PROVE  s \o t \o u = s \o (t \o u)
  BY DEF Reports

LEMMA ConcatNothing ==
  ASSUME NEW s \in Reports
  PROVE  s \o << >> = s
  BY DEF Reports

LEMMA PieceLost ==
  ASSUME NEW s \in Reports, NEW t \in Reports, Accounts(t, s),
         NEW u \in {<< >>, Warning("arguments"), Error("arguments"), Warning("unwritten")}
  PROVE  s \o u \in Reports /\ Accounts(t, s \o u)
<1>1. CASE u = << >>
  BY <1>1, ConcatNothing
<1>2. ASSUME NEW d \in {Diag("arguments", "warning"), Diag("arguments", "error"), Diag("unwritten", "warning")}
      PROVE  s \o <<d>> \in Reports /\ Accounts(t, s \o <<d>>)
  <2>1. d \in [by : Raisers, level : Levels] /\ d.by \in Lost
    BY DEF Diag, Raisers, Levels, Lost
  <2> QED BY <2>1, AccountsLost, ReportsAdd
<1> QED BY <1>1, <1>2 DEF Warning, Error

LEMMA PieceKept ==
  ASSUME NEW s \in Reports, NEW t \in Reports, Accounts(t, s),
         NEW u \in {<< >>, Warning("job"), Error("job"), Error("emit"), Error("link"), Error("compile")}
  PROVE  s \o u \in Reports /\ t \o u \in Reports /\ Accounts(t \o u, s \o u)
<1>1. CASE u = << >>
  BY <1>1, ConcatNothing
<1>2. ASSUME NEW d \in {Diag("job", "warning"), Diag("job", "error"), Diag("emit", "error"), Diag("link", "error"),
                    Diag("compile", "error")}
      PROVE  s \o <<d>> \in Reports /\ t \o <<d>> \in Reports /\ Accounts(t \o <<d>>, s \o <<d>>)
  <2>1. d \in [by : Raisers, level : Levels] /\ d.by \notin Lost
    BY DEF Diag, Raisers, Levels, Lost
  <2> QED BY <2>1, AccountsKept, ReportsAdd
<1> QED BY <1>1, <1>2 DEF Warning, Error

LEMMA LostAccounts ==
  ASSUME NEW s \in Reports, NEW t \in Reports, Accounts(t, s), NEW lost \in LostReports
  PROVE  s \o lost \in Reports /\ Accounts(t, s \o lost)
<1> DEFINE A == Warning("arguments")
           B == Error("arguments")
           U == Warning("unwritten")
<1>1. << >> \in Reports /\ A \in Reports /\ U \in Reports
  BY Raised DEF Raisers
<1>2. ASSUME NEW a \in {<< >>, A}, NEW b \in {<< >>, U}
      PROVE  s \o (a \o b) \in Reports /\ Accounts(t, s \o (a \o b))
  <2>1. s \o a \in Reports /\ Accounts(t, s \o a)
    BY PieceLost
  <2>2. \A q \in Reports : Accounts(t, q) => q \o b \in Reports /\ Accounts(t, q \o b)
    BY PieceLost
  <2>3. s \o a \o b = s \o (a \o b)
    <3>1. \A p, q, r \in Reports : p \o q \o r = p \o (q \o r)
      BY ConcatAgain
    <3> HIDE DEF A, U
    <3>2. a \in Reports /\ b \in Reports
      BY <1>1
    <3> QED BY <3>1, <3>2, Zenon
  <2> HIDE DEF A, U
  <2> QED BY <2>1, <2>2, <2>3, Zenon
<1>3. lost \in {<< >>, A, B} \/ \E a \in {<< >>, A}, b \in {<< >>, U} : lost = a \o b
  BY Zenon DEF LostReports
<1>4. CASE lost \in {<< >>, A, B}
  BY <1>4, PieceLost
<1>5. CASE \E a \in {<< >>, A}, b \in {<< >>, U} : lost = a \o b
  <2> HIDE DEF A, U
  <2> QED BY <1>2, <1>5, Zenon
<1> QED BY <1>3, <1>4, <1>5

LEMMA ToldAccounts ==
  ASSUME NEW s \in Reports, NEW t \in Reports, Accounts(t, s), NEW told \in ToldReports
  PROVE  Accounts(t \o told, s \o told)
<1> DEFINE W == Warning("job")
           E == Error("job")
           F == Error("emit")
           C == Error("compile")
<1>1. << >> \in Reports /\ W \in Reports /\ E \in Reports
  BY Raised DEF Raisers
<1>2. ASSUME NEW a \in {<< >>, W}
      PROVE  Accounts(t \o (a \o E), s \o (a \o E))
  <2>1. s \o a \in Reports /\ t \o a \in Reports /\ Accounts(t \o a, s \o a)
    BY PieceKept
  <2>2. \A q, r \in Reports : Accounts(r, q) => Accounts(r \o E, q \o E)
    BY PieceKept
  <2>3. s \o a \o E = s \o (a \o E) /\ t \o a \o E = t \o (a \o E)
    <3>1. \A p, q, r \in Reports : p \o q \o r = p \o (q \o r)
      BY ConcatAgain
    <3> HIDE DEF W, E
    <3>2. a \in Reports
      BY <1>1
    <3>3. s \o a \o E = s \o (a \o E)
      BY <1>1, <3>1, <3>2, ZenonT(30)
    <3>4. t \o a \o E = t \o (a \o E)
      BY <1>1, <3>1, <3>2, ZenonT(30)
    <3> QED BY <3>3, <3>4
  <2>4. Accounts(t \o a \o E, s \o a \o E)
    <3> HIDE DEF W, E, F
    <3> QED BY <2>1, <2>2, Zenon
  <2> QED BY <2>3, <2>4
<1>3. told \in {<< >>, W, F, C} \/ \E a \in {<< >>, W} : told = a \o E
  BY Zenon DEF ToldReports
<1>4. \A u \in {<< >>, W, F, C} : Accounts(t \o u, s \o u)
  BY PieceKept
<1> HIDE DEF W, E, F, C
<1> QED BY <1>2, <1>3, <1>4, Zenon

\* What a run has raised last that tells one thing only.
LEMMA BriefEnd ==
  ASSUME NEW s \in Reports, NEW by \in Brief
  PROVE  Last(s \o Error(by)).by \in Brief
<1>1. Diag(by, "error") \in [by : Raisers, level : Levels] /\ Diag(by, "error").by = by
  BY DEF Diag, Raisers, Levels, Brief
<1>2. Last(s \o <<Diag(by, "error")>>) = Diag(by, "error")
  BY <1>1, LastOf DEF Reports
<1> QED BY <1>1, <1>2 DEF Error

LEMMA AccountStep ==
  ASSUME Inv, AccountInv, Next
  PROVE  AccountInv' /\ ReportsAll'
<1>1. /\ dc \in Reports /\ driver \in Reports /\ cc1 \in Reports /\ raised \in Reports
      /\ driver \o cc1 \in Reports
  BY Raised DEF Inv, Reported
<1>2. ASSUME phase' = "done", ~ result'.ok,
             raised' # << >> => Last(raised').by \in Brief
      PROVE  AccountInv' /\ ReportsAll'
  BY <1>2 DEF AccountInv, Running, ReportsAll
<1>3. ASSUME phase' = "done", Accounts(result'.diags, raised')
      PROVE  AccountInv' /\ ReportsAll'
  BY <1>3 DEF AccountInv, Running, ReportsAll, Accounts, Kept, Rank
<1>4. ASSUME phase' # "done", phase' \in {"cc1", "link"} => Accounts(driver' \o cc1', raised')
      PROVE  AccountInv' /\ ReportsAll'
  BY <1>4 DEF AccountInv, Running, ReportsAll, Done, Accounts, Kept, Rank
<1>5. CASE BuildArgs
  <2>1. CASE phase' = "driver"
    BY <1>4, <2>1
  <2>2. CASE Return(FALSE, NoDriver, FALSE) /\ raised' = dc' \o NoDriver
    <3>1. dc' = CtWarnings(Extract(req.options))
      BY <1>5 DEF BuildArgs, CtWarnings
    <3>2. dc' \in Reports
      BY <3>1, CtWarningsEarly, EarlyReports
    <3>3. Last(raised').by \in Brief
      BY <2>2, <3>2, BriefEnd DEF NoDriver, Brief
    <3> QED BY <1>2, <2>2, <3>3 DEF Return
  <2> QED BY <1>5, <2>1, <2>2 DEF BuildArgs
<1>6. CASE BuildCompilation
  <2>1. PICK d \in {<< >>, Warning("driver"), Error("driver")} :
          /\ raised' = raised \o d
          /\ \/ Return(FALSE, IF dc \o d = << >> THEN Error("compile") ELSE dc \o d, FALSE)
             \/ phase' = "choose"
    BY <1>6 DEF BuildCompilation
  <2>2. raised' \in Seq(EarlyDiags) /\ raised' = dc \o d
    BY <1>6, <2>1, EarlyReports DEF BuildCompilation, Inv, Reported, Early
  <2>3. CASE phase' = "choose"
    BY <1>4, <2>3
  <2>4. CASE Return(FALSE, IF dc \o d = << >> THEN Error("compile") ELSE dc \o d, FALSE)
    <3>1. CASE raised' = << >>
      BY <1>2, <2>4, <3>1 DEF Return
    <3>2. CASE raised' # << >>
      <4>1. result'.diags = raised' /\ phase' = "done"
        BY <2>2, <2>4, <3>2, Zenon DEF Return
      <4> QED BY <1>3, <2>2, <4>1, AccountsAll
    <3> QED BY <3>1, <3>2
  <2> QED BY <2>1, <2>3, <2>4
<1>7. CASE Compile
  <2>1. raised' = dc /\ dc \in Seq(EarlyDiags)
    BY <1>7 DEF Compile, Inv, Reported, Early
  <2>3. CASE Return(TRUE, dc, FALSE)
    BY <1>3, <2>1, <2>3, AccountsAll DEF Return
  <2>4. CASE Return(FALSE, IF dc = << >> THEN Error("compile") ELSE dc, FALSE)
    <3>1. CASE raised' = << >>
      BY <1>2, <2>4, <3>1 DEF Return
    <3>2. CASE raised' # << >>
      <4>1. result'.diags = raised' /\ phase' = "done"
        BY <2>1, <2>4, <3>2, Zenon DEF Return
      <4> QED BY <1>3, <2>1, <4>1, AccountsAll
    <3> QED BY <3>1, <3>2
  <2> QED BY <1>7, <2>3, <2>4 DEF Compile
<1>8. CASE Validate
  <2>1. raised = dc /\ dc \in Seq(EarlyDiags) /\ cc1' = << >>
    BY <1>8 DEF Validate, Inv, Reported, Early
  <2>2. CASE driver' = dc /\ phase' \in {"link", "cc1"} /\ UNCHANGED raised
    <3>1. driver' \o cc1' = dc /\ Accounts(dc, raised')
      BY <1>1, <2>1, <2>2, AccountsAll, ConcatNothing
    <3> QED BY <1>4, <2>2, <3>1
  <2>3. CASE Return(FALSE, Error("compile"), FALSE) /\ raised' = raised \o Error("compile")
    <3>1. Last(raised').by \in Brief
      BY <1>1, <2>3, BriefEnd DEF Brief
    <3> QED BY <1>2, <2>3, <3>1 DEF Return
  <2> QED BY <1>8, <2>2, <2>3 DEF Validate
<1>9. CASE RunInstrumented \/ RunSingle
  <2>1. phase = "cc1" /\ driver' = driver /\ Accounts(driver \o cc1, raised)
    BY <1>9, JobSteps DEF Inv, Reported, AccountInv, Running
  <2>2. ASSUME NEW d \in CalmEnds, NEW by \in {"instrumented", "cc1"}, NEW passes \in {Passes(config), << >>},
               JobSucceeds(d, by, passes)
        PROVE  AccountInv' /\ ReportsAll'
    <3>1. d[1] \in {<< >>, Warning("arguments")} /\ d[2] \in {<< >>, Warning("job")} /\ d[2] \in Reports
      BY EndReports, EarlyReports DEF CalmEnds
    <3>2. raised' = raised \o d[1] \o d[2]
      BY <2>2 DEF JobSucceeds, Succeeds
    <3>3. raised \o d[1] \in Reports /\ Accounts(driver \o cc1, raised \o d[1])
      BY <1>1, <2>1, <3>1, PieceLost
    <3>4. \A q \in Reports : Accounts(driver \o cc1, q) => Accounts(driver \o cc1 \o d[2], q \o d[2])
      BY <1>1, <3>1, PieceKept
    <3>5. Accounts(driver \o cc1 \o d[2], raised')
      BY <3>2, <3>3, <3>4, Zenon
    <3>6. CASE ToMemory
      <4>1. phase' = "done" /\ result'.diags = driver \o d[2]
        BY <2>2, <3>6 DEF JobSucceeds, Succeeds, Collect, Return
      <4>2. driver \o cc1 = driver
        BY <1>1, <3>6, ConcatNothing DEF Inv, Reported
      <4>3. result'.diags = driver \o cc1 \o d[2]
        BY <4>1, <4>2, Zenon
      <4> QED BY <1>3, <3>5, <4>1, <4>3
    <3>7. CASE ~ ToMemory
      <4>1. cc1' = cc1 \o d[2] /\ phase' \in {"link", "cc1"}
        BY <2>2, <3>7 DEF JobSucceeds, Succeeds, Collect
      <4>2. driver \in Reports /\ cc1 \in Reports /\ driver' = driver
        BY <1>1, <2>1, <2>2 DEF Inv, Reported, JobSucceeds
      <4>3. driver \o cc1 \o d[2] = driver \o (cc1 \o d[2])
        BY <3>1, <4>2, ConcatAgain
      <4>4. driver \o cc1 \o d[2] = driver' \o cc1'
        BY <4>1, <4>2, <4>3, Zenon
      <4> QED BY <1>4, <3>5, <4>1, <4>4
    <3> QED BY <3>6, <3>7
  <2>3. ASSUME NEW lost \in LostReports, NEW told \in ToldReports, Fails(lost, told)
        PROVE  AccountInv' /\ ReportsAll'
    <3>1. phase' = "done" /\ raised' = raised \o lost \o told /\ result'.diags = driver \o cc1 \o told
      BY <2>3 DEF Fails, Return
    <3>2. raised \o lost \in Reports /\ Accounts(driver \o cc1, raised \o lost)
      BY <1>1, <2>1, LostAccounts
    <3>3. \A q \in Reports : Accounts(driver \o cc1, q) => Accounts(driver \o cc1 \o told, q \o told)
      BY <1>1, ToldAccounts
    <3>4. Accounts(driver \o cc1 \o told, raised')
      BY <3>1, <3>2, <3>3, Zenon
    <3> QED BY <1>3, <3>1, <3>4
  <2>4. ASSUME NEW lost \in ArgumentReports, JobUnsupported(lost)
        PROVE  AccountInv' /\ ReportsAll'
    <3>1. phase' = "done" /\ ~ result'.ok /\ raised' = raised \o lost \o Error("unsupported")
      BY <2>4 DEF JobUnsupported, Return
    <3>2. raised \o lost \in Reports
      <4>1. lost \in {<< >>, Warning("arguments"), Error("arguments"), Warning("unwritten")}
        BY Zenon DEF ArgumentReports
      <4> QED BY <1>1, <2>1, <4>1, PieceLost
    <3>3. \A q \in Reports : Last(q \o Error("unsupported")).by \in Brief
      BY BriefEnd DEF Brief
    <3>4. Last(raised').by \in Brief
      BY <3>1, <3>2, <3>3, Zenon
    <3> QED BY <1>2, <3>1, <3>4
  <2> QED BY <1>9, <2>2, <2>3, <2>4, JobSteps DEF Inv, Reported, JobEnds
<1>10. CASE Link
  <2>1. Accounts(driver \o cc1, raised) /\ UNCHANGED <<driver, cc1>> /\ phase = "link"
    BY <1>10 DEF Link, AccountInv, Running
  <2>2. CASE UNCHANGED <<phase, raised>>
    BY <1>4, <2>1, <2>2
  <2>3. CASE raised' = raised \o Error("link") /\ Return(FALSE, driver \o cc1 \o Error("link"), FALSE)
    <3>1. Accounts(driver \o cc1 \o Error("link"), raised')
      BY <1>1, <2>1, <2>3, PieceKept
    <3> QED BY <1>3, <2>3, <3>1 DEF Return
  <2>4. CASE Return(TRUE, driver \o cc1, FALSE) /\ UNCHANGED raised
    BY <1>3, <2>1, <2>4 DEF Return
  <2> QED BY <1>10, <2>2, <2>3, <2>4 DEF Link
<1> QED BY <1>5, <1>6, <1>7, <1>8, <1>9, <1>10 DEF Next

\* ReportsAll, for any number of sources: dc is cleared between the jobs, but by then
\* what it held is in driver or in cc1 (compile and runInstrumentedToFile), so that the
\* result tells each diagnostic once and in the order in which they were raised.
THEOREM ReportsAlways ==
  Spec => []ReportsAll
<1>1. Init => AccountInv /\ ReportsAll
  BY DEF Init, AccountInv, Running, ReportsAll, Done
<1>2. Inv /\ AccountInv /\ ReportsAll /\ [Next]_vars => AccountInv' /\ ReportsAll'
  <2> SUFFICES ASSUME AccountInv, ReportsAll, UNCHANGED vars PROVE AccountInv' /\ ReportsAll'
    BY AccountStep
  <2> QED BY DEF vars, AccountInv, Running, ReportsAll, Done, Accounts, Kept, Rank
<1> QED BY InvAlways, <1>1, <1>2, PTL DEF Spec

=============================================================================
