--------------------------- MODULE PartitionCache ---------------------------
(***************************************************************************)
(* python/qp_research/cache.py: parquet files, one per partition, and the  *)
(* sqlite index that says how far each is complete.  Several processes may *)
(* use one cache (the connection waits for the others' locks, temporary    *)
(* files carry the process id), and any of them may die at any moment.     *)
(*                                                                         *)
(* The partitions are consecutive spans of one symbol, so a scan makes one *)
(* fetch.  A file is the time its rows are complete through, every file    *)
(* has size one, and which partitions were least recently read is left     *)
(* open: trim() may choose any.  A transaction of the index is one step; a *)
(* file is written to a temporary name and moved into place, one step.     *)
(***************************************************************************)
EXTENDS Integers, FiniteSets, FiniteSetsExt

CONSTANTS CacheProcs,   \* processes
          NumParts,     \* partitions
          CapFiles,     \* max_bytes
          Needs,        \* how far a scan may ask for completeness
          Calls,        \* which of "scan", "trim" and "clear" are called
          OneAtATime,   \* a call begins only when no other process is inside one
          MaxCalls,     \* bound: scans, trims and clears begun
          MaxCrashes    \* bound: processes that die

ASSUME CacheAssumption == /\ NumParts \in Nat \ {0}
                          /\ CapFiles \in Nat /\ MaxCalls \in Nat /\ MaxCrashes \in Nat
                          /\ Needs \subseteq Nat /\ OneAtATime \in BOOLEAN
                          /\ Calls \subseteq {"scan", "trim", "clear"}

\* The deaths that can come between a file and its row.
Causes == {"write_crash", "trim_crash", "clear_crash"}

VARIABLES clock,      \* what the exchange has published is complete through this
          file,       \* per partition: what its parquet file is complete through
          row,        \* per partition: its row of the index
          \* per process: where it is and the locals of scan(), trim(), clear()
          cpc, want, need, gaps, todo, through, found, gone, total,
          calls, crashes,
          \* histories
          asOf,       \* the clock when the scan began
          blame       \* per partition: the deaths that came between its file and its row

storeVars == <<clock, file, row>>
localVars == <<want, need, gaps, todo, through, found, gone, total>>
cacheVars == <<storeVars, cpc, localVars, calls, crashes, asOf, blame>>

Parts == 1 .. NumParts

\* Partition p spans [2p - 2, 2p): it can be half published.
Start(p) == 2 * p - 2
End(p) == 2 * p
Times == 0 .. 2 * NumParts

Absent == -1
NoRow == [through |-> Absent, path |-> FALSE]
MinOf(a, b) == IF a < b THEN a ELSE b

\* A fetch complete through t has rows of p, or the partition is empty so far.
HasRows(p, t) == t > Start(p)

\* The locals of c are forgotten, and with them the histories of its scan.
Forget(c) == /\ want' = [want EXCEPT ![c] = {}] /\ need' = [need EXCEPT ![c] = 0]
             /\ gaps' = [gaps EXCEPT ![c] = {}] /\ todo' = [todo EXCEPT ![c] = {}]
             /\ through' = [through EXCEPT ![c] = 0] /\ found' = [found EXCEPT ![c] = {}]
             /\ gone' = [gone EXCEPT ![c] = {}] /\ total' = [total EXCEPT ![c] = 0]
             /\ asOf' = [asOf EXCEPT ![c] = 0]

CacheInit ==
    /\ clock \in Times /\ file = [p \in Parts |-> Absent] /\ row = [p \in Parts |-> NoRow]
    /\ cpc = [c \in CacheProcs |-> "idle"]
    /\ want = [c \in CacheProcs |-> {}] /\ need = [c \in CacheProcs |-> 0]
    /\ gaps = [c \in CacheProcs |-> {}] /\ todo = [c \in CacheProcs |-> {}]
    /\ through = [c \in CacheProcs |-> 0] /\ found = [c \in CacheProcs |-> {}]
    /\ gone = [c \in CacheProcs |-> {}] /\ total = [c \in CacheProcs |-> 0]
    /\ calls = 0 /\ crashes = 0
    /\ asOf = [c \in CacheProcs |-> 0]
    /\ blame = [p \in Parts |-> {}]

At(c, here, there) == cpc[c] = here /\ cpc' = [cpc EXCEPT ![c] = there]

\* c makes one more call.
Begins(c, call) == /\ call \in Calls /\ calls < MaxCalls /\ calls' = calls + 1
                   /\ OneAtATime => \A d \in CacheProcs \ {c} : cpc[d] = "idle"

\* A statement that is still being stepped through, as trim()'s is while it
\* unlinks, keeps the others from committing.
MayCommit(c) == \A d \in CacheProcs \ {c} : cpc[d] # "unlink"
-----------------------------------------------------------------------------
(* Histories.                                                              *)

\* Partitions whose file c has changed, or knows to be empty, and whose row it
\* has yet to change, or the other way round.
InHand(c) == CASE cpc[c] = "replace" -> gaps[c] \ todo[c]
               [] cpc[c] \in {"unlink", "delete", "wipe"} -> gone[c]
               [] OTHER -> {}

\* A process that dies with a partition in hand is to blame for it, until one
\* that finishes with the partition sets it right.
Settles(ps) == blame' = [p \in Parts |-> IF p \in ps THEN {} ELSE blame[p]]
Dies(c, cause) == blame' = [p \in Parts |-> blame[p] \cup (IF p \in InHand(c) THEN {cause} ELSE {})]

\* The index says more than there is, or less.
Overstated(p) == row[p].path /\ file[p] < row[p].through
Orphaned(p) == file[p] # Absent /\ ~row[p].path
-----------------------------------------------------------------------------
(* scan().                                                                 *)

\* Mutant: a partition that is there at all counts as complete.
Gap_AnyRow(p, n) == row[p].through = Absent

\* Not on record as complete as far as need.
Gap(p, n) == row[p].through < MinOf(End(p), n)

ScanBegins(c) ==
    /\ Begins(c, "scan") /\ cpc[c] = "idle"
    /\ \E s \in SUBSET Parts \ {{}}, n \in Needs :
          LET g == {p \in s : Gap(p, n)}
          IN  /\ cpc' = [cpc EXCEPT ![c] = IF g = {} THEN "read" ELSE "fetch"]
              /\ want' = [want EXCEPT ![c] = s] /\ need' = [need EXCEPT ![c] = n]
              /\ gaps' = [gaps EXCEPT ![c] = g]
    /\ asOf' = [asOf EXCEPT ![c] = clock]
    /\ UNCHANGED <<storeVars, todo, through, found, gone, total, crashes, blame>>

\* fetch() answers with what is published (external).
FetchReturns(c) ==
    /\ At(c, "fetch", "replace")
    /\ through' = [through EXCEPT ![c] = clock]
    /\ todo' = [todo EXCEPT ![c] = {p \in gaps[c] : HasRows(p, clock)}]
    /\ UNCHANGED <<storeVars, want, need, gaps, found, gone, total, calls, crashes, asOf, blame>>

\* fetch() raises, and so does scan().
FetchRaises(c) == /\ At(c, "fetch", "idle") /\ Forget(c)
                  /\ UNCHANGED <<storeVars, calls, crashes, blame>>

\* _write(): os.replace() of one partition's file after the other.
ReplaceFile(c) ==
    /\ cpc[c] = "replace" /\ todo[c] # {}
    /\ LET p == Min(todo[c])
       IN  /\ file' = [file EXCEPT ![p] = MinOf(End(p), through[c])]
           /\ todo' = [todo EXCEPT ![c] = @ \ {p}]
    /\ UNCHANGED <<clock, row, cpc, want, need, gaps, through, found, gone, total, calls, crashes,
                   asOf, blame>>

\* Mutant: the index is written first.
InsertRows_First(c) ==
    /\ cpc[c] = "replace" /\ MayCommit(c)
    /\ row' = [p \in Parts |-> IF p \in gaps[c] THEN [through |-> MinOf(End(p), through[c]),
                                                      path |-> HasRows(p, through[c])] ELSE row[p]]
    /\ cpc' = [cpc EXCEPT ![c] = IF todo[c] = {} THEN "read" ELSE "replace"]
    /\ UNCHANGED <<clock, file, localVars, calls, crashes, asOf>>
    /\ Settles(gaps[c])

\* _write(): one transaction for the rows of all of them.
InsertRows(c) ==
    /\ todo[c] = {} /\ MayCommit(c) /\ At(c, "replace", "read")
    /\ row' = [p \in Parts |-> IF p \in gaps[c] THEN [through |-> MinOf(End(p), through[c]),
                                                      path |-> HasRows(p, through[c])] ELSE row[p]]
    /\ gaps' = [gaps EXCEPT ![c] = {}] /\ through' = [through EXCEPT ![c] = 0]
    /\ UNCHANGED <<clock, file, want, need, todo, found, gone, total, calls, crashes, asOf>>
    /\ Settles({p \in gaps[c] : HasRows(p, through[c]) \/ file[p] = Absent})

WithPath == {p \in Parts : row[p].path}

\* _read(): the partitions on record, read when the frame is collected.
ReadRows(c) == /\ At(c, "read", "trim") /\ MayCommit(c)
               /\ found' = [found EXCEPT ![c] = want[c] \cap WithPath]
               /\ UNCHANGED <<storeVars, want, need, gaps, todo, through, gone, total, calls, crashes,
                              asOf, blame>>

\* The frame is collected: the files are read, or one of them is missing.
Collect(c) == /\ At(c, "collect", "idle") /\ Forget(c)
              /\ UNCHANGED <<storeVars, calls, crashes, blame>>
-----------------------------------------------------------------------------
(* trim() and clear().                                                     *)

\* trim() called by itself, with nothing to keep.
TrimBegins(c) == /\ Begins(c, "trim") /\ At(c, "idle", "trim")
                 /\ UNCHANGED <<storeVars, localVars, crashes, asOf, blame>>

\* The bytes on record are summed once.
TrimTotals(c) == /\ cpc[c] = "trim"
                 /\ LET n == Cardinality(WithPath)
                    IN  IF n > CapFiles
                        THEN /\ cpc' = [cpc EXCEPT ![c] = "select"] /\ total' = [total EXCEPT ![c] = n]
                        ELSE /\ cpc' = [cpc EXCEPT ![c] = "collect"] /\ UNCHANGED total
                 /\ UNCHANGED <<storeVars, want, need, gaps, todo, through, found, gone, calls,
                                crashes, asOf, blame>>

\* Mutant: what the scan is about to read is not spared.
Evictable_All(c) == WithPath \ gone[c]

Evictable(c) == (WithPath \ found[c]) \ gone[c]

\* The first unlink opens the statement that lists the paths.
TrimUnlinks(c) == /\ cpc[c] \in {"select", "unlink"} /\ total[c] > CapFiles
                  /\ \E p \in Evictable(c) : /\ file' = [file EXCEPT ![p] = Absent]
                                             /\ gone' = [gone EXCEPT ![c] = @ \cup {p}]
                  /\ total' = [total EXCEPT ![c] = @ - 1]
                  /\ cpc' = [cpc EXCEPT ![c] = "unlink"]
                  /\ UNCHANGED <<clock, row, want, need, gaps, todo, through, found, calls, crashes,
                                 asOf, blame>>

\* It fits now, or nothing else can go.
TrimLoopEnds(c) == /\ total[c] <= CapFiles \/ Evictable(c) = {}
                   /\ At(c, "unlink", "delete") \/ At(c, "select", "collect")
                   /\ total' = [total EXCEPT ![c] = 0]
                   /\ UNCHANGED <<storeVars, want, need, gaps, todo, through, found, gone, calls,
                                  crashes, asOf, blame>>

TrimDeletes(c) == /\ At(c, "delete", "collect") /\ MayCommit(c)
                  /\ row' = [p \in Parts |-> IF p \in gone[c] /\ row[p].path THEN NoRow ELSE row[p]]
                  /\ gone' = [gone EXCEPT ![c] = {}]
                  /\ UNCHANGED <<clock, file, want, need, gaps, todo, through, found, total, calls,
                                 crashes, asOf>>
                  /\ Settles(gone[c])

\* clear(): the paths on record are listed, then, in a transaction of its own,
\* every row goes, then the files that were listed.
ClearLists(c) == /\ Begins(c, "clear") /\ At(c, "idle", "clear")
                 /\ gone' = [gone EXCEPT ![c] = WithPath]
                 /\ UNCHANGED <<storeVars, want, need, gaps, todo, through, found, total, crashes,
                                asOf, blame>>

ClearDeletes(c) == /\ MayCommit(c) /\ At(c, "clear", "wipe")
                   /\ row' = [p \in Parts |-> NoRow]
                   /\ UNCHANGED <<clock, file, localVars, calls, crashes, asOf>>
                   /\ Settles({p \in Parts : file[p] = Absent})

ClearUnlinks(c) == /\ cpc[c] = "wipe" /\ gone[c] # {}
                   /\ LET p == Min(gone[c])
                      IN  /\ file' = [file EXCEPT ![p] = Absent]
                          /\ gone' = [gone EXCEPT ![c] = @ \ {p}]
                          /\ Settles({p})
                   /\ UNCHANGED <<clock, row, cpc, want, need, gaps, todo, through, found, total,
                                  calls, crashes, asOf>>

ClearEnds(c) == /\ gone[c] = {} /\ At(c, "wipe", "idle")
                /\ UNCHANGED <<storeVars, localVars, calls, crashes, asOf, blame>>
-----------------------------------------------------------------------------
\* A process dies: an open transaction is rolled back, files stay as they are.
Cause(c) == CASE cpc[c] = "replace" -> "write_crash"
              [] cpc[c] \in {"unlink", "delete"} -> "trim_crash"
              [] OTHER -> "clear_crash"
CacheCrash(c) == /\ cpc[c] # "idle" /\ crashes < MaxCrashes
                 /\ cpc' = [cpc EXCEPT ![c] = "idle"] /\ Forget(c)
                 /\ crashes' = crashes + 1
                 /\ UNCHANGED <<storeVars, calls>>
                 /\ Dies(c, Cause(c))

\* The exchange publishes more (external).
Publish == /\ clock + 1 \in Times /\ clock' = clock + 1
           /\ UNCHANGED <<file, row, cpc, localVars, calls, crashes, asOf, blame>>

CacheNext == \/ \E c \in CacheProcs :
                   \/ ScanBegins(c) \/ FetchReturns(c) \/ FetchRaises(c) \/ ReplaceFile(c)
                   \/ InsertRows(c) \/ ReadRows(c) \/ Collect(c)
                   \/ TrimBegins(c) \/ TrimTotals(c) \/ TrimUnlinks(c) \/ TrimLoopEnds(c) \/ TrimDeletes(c)
                   \/ ClearLists(c) \/ ClearDeletes(c) \/ ClearUnlinks(c) \/ ClearEnds(c) \/ CacheCrash(c)
             \/ Publish
-----------------------------------------------------------------------------
(* Properties.                                                             *)

\* The types of the store and of the processes' locals.
CacheTypeOK ==
    /\ clock \in Times /\ file \in [Parts -> Times \cup {Absent}]
    /\ row \in [Parts -> [through : Times \cup {Absent}, path : BOOLEAN]]
    /\ cpc \in [CacheProcs -> {"idle", "fetch", "replace", "read", "trim", "select", "unlink",
                               "delete", "collect", "clear", "wipe"}]
    /\ want \in [CacheProcs -> SUBSET Parts] /\ need \in [CacheProcs -> Nat]
    /\ gaps \in [CacheProcs -> SUBSET Parts] /\ todo \in [CacheProcs -> SUBSET Parts]
    /\ through \in [CacheProcs -> Times] /\ found \in [CacheProcs -> SUBSET Parts]
    /\ gone \in [CacheProcs -> SUBSET Parts] /\ total \in [CacheProcs -> 0 .. NumParts]
    /\ \A c \in CacheProcs : todo[c] \subseteq gaps[c] /\ gaps[c] \subseteq want[c]
    /\ calls \in 0 .. MaxCalls /\ crashes \in 0 .. MaxCrashes
    /\ asOf \in [CacheProcs -> Times] /\ blame \in [Parts -> SUBSET Causes]

Resting(p) == \A c \in CacheProcs : p \notin InHand(c)

\* Once no process is between changing a file and changing its row, a row claims
\* more than its file holds only if a trim died between its unlinks and its
\* delete.
RowsAreBacked == \A p \in Parts : Resting(p) /\ Overstated(p) => "trim_crash" \in blame[p]

\* "The index records how far each partition is complete": no row claims more
\* than there is but for a trim that died, and only a call that died half way
\* leaves a file no row names, which trim() cannot see.  With calls one at a
\* time; with two at once it does not hold.
IndexMatchesFiles == /\ RowsAreBacked
                     /\ \A p \in Parts : Resting(p) /\ Orphaned(p) => blame[p] # {}

Asked(c, p) == MinOf(End(p), MinOf(need[c], asOf[c]))

\* "Fetching what is missing or not complete as far as need": when its frame is
\* collected a scan serves every partition as far as was asked and was
\* published when it began, its own trim() included, whatever calls were made
\* or died before it, except a partition whose file a trim unlinked and died.
\* With calls one at a time; with two at once it does not hold.
ScanServes ==
    \A c \in CacheProcs : (cpc[c] = "collect" /\ want[c] # {}) =>
        \A p \in want[c] : \/ Asked(c, p) <= Start(p)
                           \/ p \in found[c] /\ file[p] >= Asked(c, p)
                           \/ "trim_crash" \in blame[p]

(* A claim the code does not meet; a run of its own refutes it.            *)

\* "The index is sqlite beside the partitions, so concurrent readers and writers
\* are safe": whatever calls overlap, no row claims more than there is and every
\* scan serves what it was asked for.
SafeTogether == RowsAreBacked /\ ScanServes
=============================================================================
