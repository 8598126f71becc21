--------------------------- MODULE MCCompileDriver ---------------------------
\* Instances of CompileDriver for TLC.
EXTENDS CompileDriver

MCGiven == {Off("alloc"), On("alloc"), On("optnone"), Off("optnone"), On("vcall_trace"),
            CtModules({"bounds"}), CtModules(Modules)}
=============================================================================
