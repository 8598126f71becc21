-------------------------- MODULE MCEscapeAnalysis --------------------------
\* Instances of EscapeAnalysis for TLC: the first site may be made in every way
\* that is treated differently, the second one is an ordinary malloc.
EXTENDS EscapeAnalysis

CONSTANTS c1, c2
MCSites == {c1, c2}
ManyCalls ==
  [c \in MCSites |->
     IF c = c1 THEN [kind : {"malloc", "realloc", "posix_memalign", "mmap", "new", "new_array"}, form : Forms]
     ELSE {[kind |-> "malloc", form |-> "call"]}]
OneCall == [c \in MCSites |-> {[kind |-> "malloc", form |-> "call"]}]
=============================================================================
