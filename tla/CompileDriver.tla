---------------------------- MODULE CompileDriver ----------------------------
(***************************************************************************)
(* compile of src/compilerlib/compiler.cpp: from the arguments to the      *)
(* result, through clang's driver, the cc1 jobs and the other jobs (the    *)
(* assembler, the linker).  Of the arguments the --ct options (CtOptions)  *)
(* and those that say what is made are kept; a diagnostic is who raised it *)
(* and its level.  clang and the linker are external: they may fail at any *)
(* point, with a diagnostic.                                               *)
(***************************************************************************)
EXTENDS CtOptions, Naturals

CONSTANTS
  MaxSources,   \* files that are compiled
  MaxOptions,   \* --ct options
  Given         \* the --ct options that are tried

ASSUME DriverAssumption ==
  MaxSources \in Nat /\ MaxOptions \in Nat /\ Given \subseteq CtOptions

VARIABLES
  phase,
  req,        \* the arguments of compile
  config,     \* runtimeConfig
  dc,         \* dc.message
  driver,     \* driver_diagnostics
  cc1,        \* cc1_diags
  plan,       \* the jobs
  outputs,    \* what the cc1 jobs have made, so far
  linked,     \* other jobs that were run
  result,
  raised      \* every diagnostic so far

vars == <<phase, req, config, dc, driver, cc1, plan, outputs, linked, result, raised>>

\* The arguments that say what is made: -c and so on.
MakeFlags == {"-c", "-S", "-E", "-emit-llvm", "-fsyntax-only", "-x c-header"}
Makes == {{}, {"-c"}, {"-S"}, {"-E"}, {"-fsyntax-only"}, {"-x c-header"},
          {"-emit-llvm"}, {"-c", "-emit-llvm"}, {"-S", "-emit-llvm"}}
Requests == [mode : {"ToFile", "ToMemory"}, instrument : BOOLEAN, make : Makes,
             conflict : BOOLEAN,  \* -disable-O0-optnone is given
             options : BoundedSeq(Given, MaxOptions), sources : 0..MaxSources,
             assembly : BOOLEAN]  \* is there a source in assembly language, too?

Diag(by, level) == [by |-> by, level |-> level]
Error(by) == <<Diag(by, "error")>>
Warning(by) == <<Diag(by, "warning")>>

Init ==
  /\ phase = "start" /\ req \in Requests
  /\ config = {} /\ dc = << >> /\ driver = << >> /\ cc1 = << >>
  /\ plan = [cc1 |-> 0, action |-> "none", others |-> 0, runtime |-> FALSE]
  /\ outputs = << >> /\ linked = 0 /\ raised = << >>
  /\ result = [ok |-> FALSE, diags |-> << >>, ir |-> FALSE]

Return(ok, diags, ir) ==
  /\ phase' = "done"
  /\ result' = [ok |-> ok, diags |-> diags, ir |-> ir]

-----------------------------------------------------------------------------
(* Arguments and driver                                                    *)

\* ToMemory strips -c.
Make == IF req.mode = "ToMemory" THEN req.make \ {"-c"} ELSE req.make
LinkRequested == Make \cap {"-c", "-S", "-E", "-emit-llvm"} = {}

CtWarnings(c) ==
  (IF BoundsWithoutAlloc(c) THEN Warning("bounds") ELSE << >>)
  \o (IF "optnone" \in c /\ req.conflict THEN Warning("optnone") ELSE << >>)

\* resolveDriverConfig: no clang is found, or an object cannot be read.
NoDriver == Error("toolchain")

\* ArgBuilder.build.  When there is no driver, that is all that is reported.
BuildArgs ==
  /\ phase = "start"
  /\ config' = Extract(req.options)
  /\ dc' = CtWarnings(config')
  /\ \/ phase' = "driver" /\ raised' = dc' /\ UNCHANGED result
     \/ Return(FALSE, NoDriver, FALSE) /\ raised' = dc' \o NoDriver
  /\ UNCHANGED <<req, driver, cc1, plan, outputs, linked>>

\* clang's plan: it links unless told to stop before.
Links == Make \cap {"-c", "-S", "-E", "-fsyntax-only", "-x c-header"} = {}
Assembles == req.assembly /\ (Links \/ Make = {"-c"})
Action ==
  IF "-E" \in Make THEN "PrintPreprocessedInput"
  ELSE IF "-fsyntax-only" \in Make THEN "ParseSyntaxOnly"
  ELSE IF "-x c-header" \in Make THEN "GeneratePCH"
  ELSE IF "-emit-llvm" \in Make THEN (IF "-S" \in Make THEN "EmitLLVM" ELSE "EmitBC")
  ELSE IF "-S" \in Make THEN "EmitAssembly" ELSE "EmitObj"
Jobs == [cc1 |-> req.sources, action |-> Action,
         others |-> (IF Assembles THEN 1 ELSE 0) + (IF Links THEN 1 ELSE 0),
         runtime |-> req.instrument /\ req.mode = "ToFile" /\ LinkRequested]

\* BuildCompilation, which may also raise an error and still plan the jobs, as it does
\* for an argument it does not know; a link of LLVM IR is such an error.
BuildCompilation ==
  /\ phase = "driver"
  /\ \E d \in {<< >>, Warning("driver"), Error("driver")} :
       /\ (Links /\ "-emit-llvm" \in Make => d = Error("driver"))
       /\ raised' = raised \o d
       /\ \/ /\ d = Error("driver") \/ (Jobs.cc1 = 0 /\ Jobs.others = 0)
             /\ Return(FALSE, IF dc \o d = << >> THEN Error("compile") ELSE dc \o d, FALSE)
             /\ UNCHANGED <<dc, plan>>
          \/ /\ Jobs.cc1 + Jobs.others > 0
             /\ phase' = "choose" /\ plan' = Jobs /\ dc' = dc \o d /\ UNCHANGED result
  /\ UNCHANGED <<req, config, driver, cc1, outputs, linked>>

\* (a faulty Plain: --ct-optnone does not matter)
PlainAlways == ~ req.instrument /\ req.mode = "ToFile"

\* The ways that need none of what follows.
Plain == ~ req.instrument /\ req.mode = "ToFile" /\ "optnone" \notin config

\* How a source was compiled: by what, with which passes, in their order.
Output(by, passes) == [by |-> by, passes |-> passes, optnone |-> by # "clang" /\ "optnone" \in config]

\* runNonInstrumentedCompilation: clang's driver runs every job, and none when it has
\* reported an error.
Compile ==
  /\ phase = "choose" /\ Plain
  /\ \/ /\ Diag("driver", "error") \notin ToSet(dc)
        /\ outputs' = [i \in 1..plan.cc1 |-> Output("clang", << >>)]
        /\ linked' = plan.others
        /\ Return(TRUE, dc, FALSE)
     \/ /\ Return(FALSE, IF dc = << >> THEN Error("compile") ELSE dc, FALSE)
        /\ UNCHANGED <<outputs, linked>>
  /\ UNCHANGED <<req, config, dc, driver, cc1, plan, raised>>

\* (a faulty validateJobPlan: other jobs are not looked at)
ValidOneSource == IF req.mode = "ToMemory" THEN plan.cc1 = 1 ELSE TRUE

\* validateJobPlan
Valid == IF req.mode = "ToMemory" THEN plan.cc1 = 1 /\ plan.others = 0
         ELSE plan.cc1 > 0 \/ plan.others > 0

\* What was reported so far becomes the driver's.
Validate ==
  /\ phase = "choose" /\ ~ Plain
  /\ IF Valid
     THEN /\ driver' = dc /\ dc' = << >>
          /\ phase' = IF plan.cc1 = 0 THEN "link" ELSE "cc1"
          /\ UNCHANGED <<result, raised>>
     ELSE /\ Return(FALSE, Error("compile"), FALSE)
          /\ raised' = raised \o Error("compile") /\ UNCHANGED <<dc, driver>>
  /\ UNCHANGED <<req, config, cc1, plan, outputs, linked>>

-----------------------------------------------------------------------------
(* cc1 jobs, one after the other                                           *)

Instrumentable == plan.action \in {"EmitObj", "EmitLLVM", "EmitBC"}

Pass(pass, wanted) == IF wanted THEN <<pass>> ELSE << >>

\* (a faulty Passes: the accesses are checked before the allocations are replaced)
PassesBoundsFirst(c) ==
  Pass("trace", "trace" \in c) \o Pass("bounds", "bounds" \in c) \o Pass("alloc", "alloc" \in c)
  \o Pass("vtable", "vtable" \in c \/ "vcall_trace" \in c) \o <<"globals">>

Passes(c) ==
  Pass("trace", "trace" \in c) \o Pass("alloc", "alloc" \in c) \o Pass("bounds", "bounds" \in c)
  \o Pass("vtable", "vtable" \in c \/ "vcall_trace" \in c) \o <<"globals">>

ToMemory == req.mode = "ToMemory"

\* (a faulty Collect: what the job reported is left for the next one to clear)
CollectLate(w, output) ==
  IF ToMemory
  THEN Return(TRUE, driver \o w, plan.action = "EmitLLVM") /\ dc' = w /\ UNCHANGED cc1
  ELSE /\ dc' = w
       /\ phase' = IF Len(outputs) + 1 = plan.cc1 THEN "link" ELSE "cc1"
       /\ UNCHANGED <<cc1, result>>

\* (a faulty Collect: the other jobs start after the first source)
CollectFirst(w, output) ==
  IF ToMemory
  THEN Return(TRUE, driver \o w, plan.action = "EmitLLVM") /\ dc' = w /\ UNCHANGED cc1
  ELSE /\ cc1' = cc1 \o w /\ dc' = << >>
       /\ phase' = "link"
       /\ UNCHANGED result

\* What happens next, when the job is done.
Collect(w, output) ==
  IF ToMemory
  THEN Return(TRUE, driver \o w, plan.action = "EmitLLVM") /\ dc' = w /\ UNCHANGED cc1
  ELSE /\ cc1' = cc1 \o w /\ dc' = << >>
       /\ phase' = IF Len(outputs) + 1 = plan.cc1 THEN "link" ELSE "cc1"
       /\ UNCHANGED result

\* A job: the diagnostics of its arguments, which are cleared when the frontend
\* starts, those of the frontend, and the end.  In ToMemory cc1 is empty.
Diags == {<< >>, Warning("arguments"), Error("arguments")} \X {<< >>, Warning("job")}

\* The driver, the arguments and the frontend of every job report to one consumer,
\* which goes on counting errors when its text is cleared: after one, no job succeeds.
NumErrors(lost) == {i \in DOMAIN (raised \o lost) : (raised \o lost)[i].level = "error"}
Succeeds(d, output) ==
  /\ raised' = raised \o d[1] \o d[2]
  /\ outputs' = Append(outputs, output)
  /\ Collect(d[2], output)
Fails(lost, diags) ==
  /\ raised' = raised \o lost \o diags
  /\ Return(FALSE, driver \o cc1 \o diags, FALSE)
  /\ UNCHANGED <<dc, cc1, outputs>>

\* runInstrumented: the module goes through the passes and is written.  When it cannot
\* be written, that is all that is reported of the job.
RunInstrumented ==
  /\ phase = "cc1" /\ ~ ToMemory /\ req.instrument
  /\ \E d \in Diags :
       \/ ~ Instrumentable /\ Fails(d[1], Error("unsupported"))
       \/ Instrumentable /\ Fails(d[1], d[2] \o Error("job"))
       \/ Instrumentable /\ NumErrors(d[1]) # {} /\ Fails(d[1], d[2])
       \/ /\ Instrumentable /\ NumErrors(d[1]) = {}
          /\ Fails(d[1] \o (IF d[2] = << >> THEN << >> ELSE Warning("unwritten")), Error("emit"))
       \/ /\ Instrumentable /\ NumErrors(d[1]) = {}
          /\ Succeeds(d, Output("instrumented", Passes(config)))
  /\ UNCHANGED <<req, config, driver, plan, linked>>

\* runSingle: only LLVM IR in memory is instrumented.  An action it does not know is
\* all that it reports in memory.
RunSingle ==
  /\ phase = "cc1" /\ (ToMemory \/ ~ req.instrument)
  /\ \E d \in Diags :
       IF plan.action = "GeneratePCH"
       THEN /\ raised' = raised \o d[1] \o Error("unsupported")
            /\ Return(FALSE, (IF ToMemory THEN << >> ELSE driver \o cc1) \o Error("unsupported"), FALSE)
            /\ UNCHANGED <<dc, cc1, outputs>>
       ELSE \/ Fails(d[1], d[2] \o Error("job"))
            \/ /\ NumErrors(d[1]) # {}
               /\ Fails(d[1], IF d[2] = << >> /\ ~ (ToMemory /\ plan.action = "EmitLLVM")
                              THEN Error("compile") ELSE d[2])
            \/ /\ NumErrors(d[1]) = {}
               /\ Succeeds(d, IF req.instrument /\ plan.action = "EmitLLVM"
                              THEN Output("instrumented", Passes(config)) ELSE Output("cc1", << >>))
  /\ UNCHANGED <<req, config, driver, plan, linked>>

\* Linker.run stops at the first job that fails.
Link ==
  /\ phase = "link"
  /\ IF linked < plan.others
     THEN \/ linked' = linked + 1 /\ UNCHANGED <<phase, result, raised>>
          \/ /\ raised' = raised \o Error("link")
             /\ Return(FALSE, driver \o cc1 \o Error("link"), FALSE) /\ UNCHANGED linked
     ELSE Return(TRUE, driver \o cc1, FALSE) /\ UNCHANGED <<linked, raised>>
  /\ UNCHANGED <<req, config, dc, driver, cc1, plan, outputs>>

Next == BuildArgs \/ BuildCompilation \/ Compile \/ Validate \/ RunInstrumented \/ RunSingle \/ Link
Spec == Init /\ [][Next]_vars

-----------------------------------------------------------------------------
Levels == {"warning", "error"}
Raisers == {"bounds", "optnone", "toolchain", "driver", "compile", "arguments", "job", "unwritten",
            "emit", "unsupported", "link"}
Reports == Seq([by : Raisers, level : Levels])

\* The type invariant: no job is run twice, and the others wait for all sources.
TypeOK ==
  /\ phase \in {"start", "driver", "choose", "cc1", "link", "done"}
  /\ req \in Requests /\ config \subseteq Features
  /\ dc \in Reports /\ driver \in Reports /\ cc1 \in Reports /\ raised \in Reports
  /\ Len(outputs) <= plan.cc1 /\ linked <= plan.others
  /\ result.ok \in BOOLEAN /\ result.diags \in Reports /\ result.ir \in BOOLEAN
  /\ (linked > 0 => Len(outputs) = plan.cc1)

Done == phase = "done"
DriverError == Diag("driver", "error") \in ToSet(raised)

\* What the last options ask for, the passes in the order in which each one finds
\* what it works on: the calls of the program are replaced before accesses are
\* checked, and the configuration is written last.
Wanted(output) ==
  LET p == output.passes
  IN /\ ToSet(p) = {f \in {"trace", "alloc", "bounds"} : LastSays(req.options, f)} \cup {"globals"}
          \cup (IF LastSays(req.options, "vtable") \/ LastSays(req.options, "vcall_trace")
                THEN {"vtable"} ELSE {})
     /\ Last(p) = "globals"
     /\ {"alloc", "bounds"} \subseteq ToSet(p) =>
          \E i, j \in DOMAIN p : i < j /\ p[i] = "alloc" /\ p[j] = "bounds"

\* With --instrument and ToFile no cc1 job writes what has not gone through the passes
\* that the last options ask for, and the runtime is linked to it ("--instrument: enable
\* CoreTrace instrumentation", README.md:77).  A source in assembly language is not
\* compiled by a cc1 job: it is assembled and linked as it is.
InstrumentsAll ==
  /\ req.instrument /\ ~ ToMemory => \A i \in DOMAIN outputs : Wanted(outputs[i])
  /\ req.instrument /\ linked = plan.others /\ linked > 0 /\ Links /\ ~ DriverError => plan.runtime

\* "Use --ct-optnone to force the attribute" (README.md:102): on each of the five ways.
OptnoneForced ==
  \A i \in DOMAIN outputs : outputs[i].optnone <=> LastSays(req.options, "optnone")

Lost == {"arguments", "unwritten"}
Kept(s) == {i \in DOMAIN s : s[i].by \notin Lost}
Rank(s, i) == Cardinality({j \in Kept(s) : j <= i})
\* t is s without what is lost, in the order of s.
Accounts(t, s) == Len(t) = Cardinality(Kept(s)) /\ \A i \in Kept(s) : t[Rank(s, i)] = s[i]

\* The ends of a run that tell one thing only: there is no driver, the plan is not what
\* the mode asks for, an action is not known, or nothing at all was said.
Brief == {"toolchain", "compile", "unsupported"}

\* Of a run that succeeds, and of one that fails in any other way, all that was raised
\* is reported, once and in order, although it is moved between three places and
\* cleared between the jobs; but for what concerns the arguments of a cc1 job, and the
\* warnings of a job whose output cannot be written.
ReportsAll ==
  Done /\ (result.ok \/ (raised # << >> /\ Last(raised).by \notin Brief)) =>
    Accounts(result.diags, raised)

\* Success means that every job was run, in memory too, and no error raised; but for an
\* error of the driver when there is nothing to compile: linking does not look at it.
SuccessComplete ==
  Done /\ result.ok =>
    /\ Len(outputs) = plan.cc1 /\ linked = plan.others
    /\ \A i \in DOMAIN raised : raised[i].level = "error" =>
         raised[i].by = "driver" /\ plan.cc1 = 0 /\ ~ Plain
    /\ result.ir => ToMemory
=============================================================================
