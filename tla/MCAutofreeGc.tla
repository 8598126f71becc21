---------------------------- MODULE MCAutofreeGc ----------------------------
\* Instances of AutofreeGc for TLC.
EXTENDS AutofreeGc, TLC

\* CT_AUTOFREE_SCAN_START=1, and all else as it is by default.
EnvGc == [scan |-> FALSE, start |-> TRUE, ptr |-> TRUE, period |-> 0, budget |-> 5, interval |-> 0]
BlockSymmetry == Permutations(Blocks)
=============================================================================
