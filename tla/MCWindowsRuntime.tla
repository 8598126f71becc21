-------------------------- MODULE MCWindowsRuntime --------------------------
\* Instances of WindowsRuntime for TLC.
EXTENDS WindowsRuntime

MCCommands == {<<On("vtable_diag"), Off("alloc_trace")>>,
               <<Aggressive, Off("alloc"), On("alloc"), On("autofree")>>}
MCEnvironments == {{"CT_DISABLE_ALLOC", "CT_DISABLE_TRACE"}, {"CT_EARLY_TRACE"},
                   {"CT_SHADOW", "CT_DISABLE_AUTOFREE", "CT_DISABLE_BOUNDS"}}
=============================================================================
