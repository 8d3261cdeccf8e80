---------------------------- MODULE TrialLedger ----------------------------
(***************************************************************************)
(* python/qp_research/ledger.py: a lane's trials.  record() remembers the  *)
(* digest of each key's latest returns, buffers what changed and save()    *)
(* appends the buffer to the folder as one more parquet file, named by the *)
(* time it was begun; the latest file that holds a key is the one read.    *)
(* Several processes may keep the same folder, each with its own memory of *)
(* it; one may die, also half way through writing a file.                  *)
(*                                                                         *)
(* Returns are represented by their digest.                                *)
(***************************************************************************)
EXTENDS Integers, Sequences, FiniteSets, FiniteSetsExt

CONSTANTS LedgerProcs, Trials, Digests,
          Flush,         \* FLUSH
          OneOpen,       \* a process opens the ledger only when no other has it open
          MaxRecords,    \* bound: calls of record()
          MaxDeaths,     \* bound: processes that die
          NoDigest

ASSUME LedgerAssumption == /\ NoDigest \notin Digests /\ Flush \in Nat \ {0} /\ OneOpen \in BOOLEAN
                           /\ MaxRecords \in Nat /\ MaxDeaths \in Nat

VARIABLES files,     \* the folder, in the order of the names
          known,     \* _known per process, NotLoaded before the first record()
          buffer,    \* _buffer
          saving,    \* the file save() is writing, or 0
          leaving,   \* the interpreter is exiting: atexit runs save()
          records, deaths,
          \* histories
          latest     \* per trial: what was recorded last, and was not lost with a process

ledgerVars == <<files, known, buffer, saving, leaving, records, deaths, latest>>

Empty == [k \in Trials |-> NoDigest]
NotLoaded == [k \in {} |-> NoDigest]
Held(b) == {k \in Trials : b[k] # NoDigest}

\* _rows(): the latest file holding a key replaces every earlier record of it.
Having(fs, k) == {i \in DOMAIN fs : fs[i].rows[k] # NoDigest}
InFolder(fs, k) == IF Having(fs, k) = {} THEN NoDigest ELSE fs[Max(Having(fs, k))].rows[k]
InFiles(k) == InFolder(files, k)

\* _rows() reads every file, and raises if one is cut short.
Readable == \A i \in DOMAIN files : files[i].whole

LedgerInit ==
    /\ files = <<>>
    /\ known = [q \in LedgerProcs |-> NotLoaded] /\ buffer = [q \in LedgerProcs |-> Empty]
    /\ saving = [q \in LedgerProcs |-> 0] /\ leaving = [q \in LedgerProcs |-> FALSE]
    /\ records = 0 /\ deaths = 0
    /\ latest = Empty

Loaded(q) == known[q] # NotLoaded
Running(q) == saving[q] = 0 /\ ~leaving[q]

\* _index(): the folder is read once per process.
LoadIndex(q) ==
    /\ Running(q) /\ ~Loaded(q) /\ Readable /\ records < MaxRecords
    /\ OneOpen => \A r \in LedgerProcs \ {q} : ~Loaded(r)
    /\ known' = [known EXCEPT ![q] = [k \in Trials |-> InFiles(k)]]
    /\ UNCHANGED <<files, buffer, saving, leaving, records, deaths, latest>>

\* save() begins: the file's name is taken and its first bytes are written.
BeginSave(q, b) == /\ files' = Append(files, [rows |-> b, whole |-> FALSE])
                   /\ saving' = [saving EXCEPT ![q] = Len(files) + 1]

\* Mutant: the digest is not remembered.
Remember_Not(q, k, d) == UNCHANGED known

Remember(q, k, d) == known' = [known EXCEPT ![q][k] = d]

\* record(): identical returns write nothing; a full buffer is saved.
Record(q) ==
    /\ Running(q) /\ Loaded(q) /\ records < MaxRecords
    /\ \E k \in Trials, d \in Digests :
          /\ IF known[q][k] = d
             THEN UNCHANGED <<files, known, buffer, saving>>
             ELSE LET b == [buffer[q] EXCEPT ![k] = d]
                  IN  /\ Remember(q, k, d)
                      /\ buffer' = [buffer EXCEPT ![q] = b]
                      /\ IF Cardinality(Held(b)) >= Flush THEN BeginSave(q, b)
                                                          ELSE UNCHANGED <<files, saving>>
          /\ latest' = [latest EXCEPT ![k] = d]
    /\ records' = records + 1
    /\ UNCHANGED <<leaving, deaths>>

\* save() called by hand, with something to write.
Save(q) == /\ Running(q) /\ buffer[q] # Empty
           /\ BeginSave(q, buffer[q])
           /\ UNCHANGED <<known, buffer, leaving, records, deaths, latest>>

\* The file is complete, and the buffer is emptied.
SaveEnds(q) == /\ saving[q] # 0
               /\ files' = [files EXCEPT ![saving[q]].whole = TRUE]
               /\ buffer' = [buffer EXCEPT ![q] = Empty]
               /\ saving' = [saving EXCEPT ![q] = 0]
               /\ UNCHANGED <<known, leaving, records, deaths, latest>>

\* The interpreter exits: atexit's save(), if there is anything to write.
Exit(q) == /\ Running(q) /\ Loaded(q)
           /\ leaving' = [leaving EXCEPT ![q] = TRUE]
           /\ IF buffer[q] = Empty THEN UNCHANGED <<files, saving>> ELSE BeginSave(q, buffer[q])
           /\ UNCHANGED <<known, buffer, records, deaths, latest>>

\* Another interpreter takes its place.
Gone(q) == /\ leaving[q] /\ saving[q] = 0
           /\ leaving' = [leaving EXCEPT ![q] = FALSE]
           /\ known' = [known EXCEPT ![q] = NotLoaded]
           /\ UNCHANGED <<files, buffer, saving, records, deaths, latest>>

\* The process dies: what it had buffered is lost, what it was writing is cut short.
LedgerCrash(q) ==
    /\ Loaded(q) /\ deaths < MaxDeaths
    /\ known' = [known EXCEPT ![q] = NotLoaded]
    /\ buffer' = [buffer EXCEPT ![q] = Empty]
    /\ saving' = [saving EXCEPT ![q] = 0] /\ leaving' = [leaving EXCEPT ![q] = FALSE]
    /\ deaths' = deaths + 1
    /\ latest' = [k \in Trials |-> IF k \in Held(buffer[q]) THEN InFiles(k) ELSE latest[k]]
    /\ UNCHANGED <<files, records>>

LedgerNext == \E q \in LedgerProcs : \/ LoadIndex(q) \/ Record(q) \/ Save(q) \/ SaveEnds(q)
                                     \/ Exit(q) \/ Gone(q) \/ LedgerCrash(q)
-----------------------------------------------------------------------------
(* Properties.                                                             *)

Memories == [Trials -> Digests \cup {NoDigest}]

\* The types of the folder and of the processes' memories.
LedgerTypeOK ==
    /\ files \in Seq([rows : Memories, whole : BOOLEAN])
    /\ known \in [LedgerProcs -> Memories \cup {NotLoaded}] /\ buffer \in [LedgerProcs -> Memories]
    /\ saving \in [LedgerProcs -> 0 .. Len(files)] /\ leaving \in [LedgerProcs -> BOOLEAN]
    /\ records \in 0 .. MaxRecords /\ deaths \in 0 .. MaxDeaths
    /\ latest \in Memories

\* What table() in process q gives for trial k, when it does not raise.
Shown(q, k) == IF buffer[q][k] # NoDigest THEN buffer[q][k] ELSE InFiles(k)

\* Files cut short that no save is still writing.
Abandoned == {i \in DOMAIN files : ~files[i].whole /\ \A q \in LedgerProcs : saving[q] # i}

\* "The latest record of a key replaces earlier ones": once nothing is buffered
\* and the folder can be read, it holds for every trial what was recorded last.
\* With one process at a time it holds; with two that have the ledger open it
\* does not.
FolderKeepsLatest ==
    (Readable /\ \A q \in LedgerProcs : buffer[q] = Empty) => \A k \in Trials : InFiles(k) = latest[k]

\* "Recording the same key again replaces it, and recording identical returns
\* writes nothing": whatever was recorded, skipped, flushed, saved at exit or
\* lost with a process that died, a process that has the ledger open skips
\* exactly what was recorded last and, whenever the folder can be read, shows
\* it, and once nothing is buffered so does the folder.  The folder cannot be
\* read only while a save is writing and from a death in the middle of one on:
\* each death leaves at most one file cut short.
LedgerKeepsLatest ==
    /\ FolderKeepsLatest
    /\ \A q \in LedgerProcs, k \in Trials :
           Loaded(q) => known[q][k] = latest[k] /\ (Readable => Shown(q, k) = latest[k])
    /\ Cardinality(Abandoned) <= deaths
=============================================================================
