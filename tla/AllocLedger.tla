---------------------------- MODULE AllocLedger ----------------------------
(***************************************************************************)
(* What the allocation table of the runtime promises to its callers, with  *)
(* no hashing, no slots and no growth: a map from the pointers the program *)
(* holds to what is known of them, and two sets of pointers released       *)
(* earlier that are still remembered.  AllocTable implements it.           *)
(***************************************************************************)
EXTENDS Integers, FiniteSets

CONSTANTS
  Ptrs,        \* addresses the allocators may return
  Infos,       \* size, requested size, site and kind of a block, as one value
  None,        \* "not tracked"
  MinCapacity  \* live blocks that always fit

VARIABLES
  live,        \* live[p] \in Infos when p is tracked as allocated, else None
  freed,       \* pointers whose release by the program is remembered
  autofreed,   \* pointers whose automatic release is remembered
  reply        \* which call came last, and what it returned

ledgerVars == <<live, freed, autofreed, reply>>

LivePtrs == {p \in Ptrs : live[p] # None}

States == {"EMPTY", "USED", "FREED", "AUTOFREED"}

\* The call, its result, and what it wrote through its out parameters.
Reply(call, res, state, info) ==
  [call |-> call, res |-> res, state |-> state, info |-> info]

LedgerInit ==
  /\ live = [p \in Ptrs |-> None]
  /\ freed = {}
  /\ autofreed = {}
  /\ reply = Reply("none", 0, "EMPTY", None)

\* Tracking a block may forget released pointers, never a live one.
Record(p, i) ==
  /\ reply' = Reply("insert", 1, "EMPTY", None)
  /\ live' = [live EXCEPT ![p] = i]
  /\ freed' \in SUBSET freed
  /\ autofreed' \in SUBSET autofreed

\* A block goes untracked only when many others are live, and then no released
\* pointer is remembered: callers rely on it not to take a free of an untracked
\* block for a second free.
RefuseRecord(p) ==
  /\ reply' = Reply("insert", 0, "EMPTY", None)
  /\ live[p] = None
  /\ Cardinality(LivePtrs) >= MinCapacity
  /\ freed = {} /\ autofreed = {}
  /\ UNCHANGED <<live, freed, autofreed>>

\* 1 for a live pointer; -1 for a released one; 0 for one never heard of.
Release(p) ==
  \/ /\ live[p] # None
     /\ reply' = Reply("remove", 1, "EMPTY", live[p])
     /\ live' = [live EXCEPT ![p] = None]
     /\ freed' = freed \cup {p}
     /\ UNCHANGED autofreed
  \/ /\ live[p] = None
     /\ \E i \in Infos \cup {None} :
          reply' = Reply("remove", IF p \in freed \cup autofreed THEN -1 ELSE 0, "EMPTY", i)
     /\ UNCHANGED <<live, freed, autofreed>>

\* As Release, on behalf of the runtime; -2 says it was released so before.
AutoRelease(p) ==
  \/ /\ live[p] # None
     /\ reply' = Reply("remove_autofree", 1, "EMPTY", live[p])
     /\ live' = [live EXCEPT ![p] = None]
     /\ autofreed' = autofreed \cup {p}
     /\ UNCHANGED freed
  \/ /\ live[p] = None
     /\ \E i \in Infos \cup {None} :
          \/ p \in freed /\ reply' = Reply("remove_autofree", -1, "EMPTY", i)
          \/ p \in autofreed /\ reply' = Reply("remove_autofree", -2, "EMPTY", i)
          \/ p \notin freed \cup autofreed /\ reply' = Reply("remove_autofree", 0, "EMPTY", i)
     /\ UNCHANGED <<live, freed, autofreed>>

\* A query answers with the live block, if there is one, and changes nothing.
Query(p) ==
  /\ IF live[p] # None
     THEN reply' = Reply("lookup", 1, "USED", live[p])
     ELSE \/ \E i \in Infos :
               \/ p \in freed /\ reply' = Reply("lookup", 1, "FREED", i)
               \/ p \in autofreed /\ reply' = Reply("lookup", 1, "AUTOFREED", i)
          \/ /\ p \notin freed \cup autofreed
             /\ reply' = Reply("lookup", 0, "EMPTY", None)
  /\ UNCHANGED <<live, freed, autofreed>>

\* The collector releases a set of live blocks at once.
Collect(S) ==
  /\ UNCHANGED <<freed, reply>>
  /\ live' = [p \in Ptrs |-> IF p \in S THEN None ELSE live[p]]
  /\ autofreed' = autofreed \cup S

LedgerNext ==
  \/ \E p \in Ptrs :
       \/ \E i \in Infos : Record(p, i)
       \/ RefuseRecord(p) \/ Release(p) \/ AutoRelease(p) \/ Query(p)
  \/ \E S \in SUBSET LivePtrs : Collect(S)

LedgerSpec == LedgerInit /\ [][LedgerNext]_ledgerVars
=============================================================================
