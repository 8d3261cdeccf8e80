--------------------------- MODULE ResearchStore ---------------------------
(***************************************************************************)
(* The two things python/qp_research keeps on disk and shares between      *)
(* processes: the partition cache and the trial ledger.  They share no     *)
(* file and no state, so a behaviour exercises one of them.                *)
(***************************************************************************)
EXTENDS PartitionCache, TrialLedger

VARIABLE store   \* which of the two this behaviour exercises

StoreInit == CacheInit /\ LedgerInit /\ store \in {"cache", "ledger"}

StoreNext == \/ store = "cache" /\ CacheNext /\ UNCHANGED <<ledgerVars, store>>
             \/ store = "ledger" /\ LedgerNext /\ UNCHANGED <<cacheVars, store>>

StoreSpec == StoreInit /\ [][StoreNext]_<<cacheVars, ledgerVars, store>>

\* The types of both stores.
StoreTypeOK == CacheTypeOK /\ LedgerTypeOK
=============================================================================
