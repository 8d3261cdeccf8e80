-------------------------- MODULE MCResearchStore --------------------------
(* Two processes on one cache of two partitions with room for one, and two *)
(* on one ledger of two trials.                                            *)
EXTENDS ResearchStore, TLC

\* The processes are interchangeable, and so are trials and digests.
Symmetry == Permutations(CacheProcs) \cup Permutations(Trials) \cup Permutations(Digests)
=============================================================================
