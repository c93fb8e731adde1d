----------------------------- MODULE BulkImport -----------------------------
(***************************************************************************)
(* cmd/bulkimport: a one-shot job that loads the GeoNames file into        *)
(* PostgreSQL and Typesense.  main prepares the two stores and the file;   *)
(* a scanner goroutine cuts the file into batches and sends them over a    *)
(* buffered channel; workers store each batch in both stores in parallel;  *)
(* main waits for them and rebuilds the table's indexes.                   *)
(*                                                                         *)
(* Every error of PostgreSQL, of the file or of the set-up ends in         *)
(* os.Exit(1), wherever the other goroutines are, and so does a kill: Die  *)
(* stands for all of them.  The Kubernetes Job then starts again from the  *)
(* beginning (restartPolicy: OnFailure).  What survives is on disk: the    *)
(* data file, the table, the version of its schema and the collection.     *)
(*                                                                         *)
(* A line of the file is one record; its number stands for its geoname_id. *)
(* The file is written in chunks that know nothing of lines, so the last   *)
(* line of a file cut short may be cut itself.                             *)
(***************************************************************************)
EXTENDS Integers, Sequences, FiniteSets

CONSTANTS
    Lines,        \* lines of the published file
    Unparsable,   \* lines that parseLine skips
    TooLong,      \* lines that may not fit the scanner's buffer
    Gone,         \* a record of an older file, no longer published
    BatchSize,    \* -batch
    Worker,       \* -workers
    Index,        \* secondary indexes of the table
    Options,      \* flags a run may be given
    FaultKinds,   \* the faults this instance may meet
    MaxFaults,    \* bound: faults in one behaviour
    MaxRuns       \* bound: runs in one behaviour

Line == 1..Lines
Record == Line \union {Gone}
Faults == {"die", "postgres", "delete", "documents"}

ASSUME BulkImportAssumption ==
    /\ Lines \in Nat
    /\ Unparsable \subseteq Line /\ TooLong \subseteq Line
    /\ Gone \notin Line
    /\ BatchSize \in Nat \ {0}
    /\ IsFiniteSet(Worker) /\ Worker # {}
    /\ Options \subseteq [truncate : BOOLEAN, pg : BOOLEAN, ts : BOOLEAN]
    /\ FaultKinds \subseteq Faults
    /\ MaxFaults \in Nat /\ MaxRuns \in Nat

VARIABLES
    tooLong,   \* those of TooLong that do not: a fact about the published file
    disk,      \* lines of the data file on disk; -1 when there is no file
    tail,      \* its last line: whole, short (too few fields), torn (part of its date)
    schema,    \* golang-migrate's version: absent, dirty (a migration began) or ready
    table,     \* table[r]: that record's row: none, old (an older file's) or new
    logged,    \* the table is LOGGED: it survives a crash of PostgreSQL
    indexes,   \* the secondary indexes that exist
    collection,\* Typesense has the collection
    docs,      \* docs[r]: that record's document there, likewise
    pc,        \* where main is; "off" between runs
    options,   \* the flags of this run
    scanner,   \* reading, stopped (scanErr is set) or closed (so is the channel)
    scanErr,
    read,      \* lines scanned
    buf,       \* the scanner's batch under construction
    channel,   \* batchCh
    worker,    \* worker[w]: the batch in hand and the stores still to come, or Idle
    total,     \* records of the batches that are through
    outcome,   \* how the last run ended: none, done or failed
    runs,
    faults,
    cut,       \* history: a run ended while it was extracting the file
    wiped,     \* history: PostgreSQL emptied the table during or after this run
    rejected   \* history: Typesense logged a failure in this run

file == <<tooLong, disk, tail>>
typesense == <<collection, docs>>
stores == <<schema, table, logged, indexes, typesense>>
pipeline == <<scanner, scanErr, read, buf, channel, worker, total>>
history == <<runs, faults, cut, wiped, rejected>>
vars == <<file, stores, pc, options, pipeline, outcome, history>>

Empty == [r \in Record |-> "none"]
Older == [r \in Record |-> "old"]
Idle == [batch |-> <<>>, todo |-> {}]
Capacity == 2 * Cardinality(Worker)
Absent == -1

Init ==
    /\ tooLong \in SUBSET TooLong
    /\ disk \in {Absent, Lines} /\ tail = "whole"
    /\ schema \in {"absent", "ready"}
    /\ table \in {Empty, Older}
    /\ schema = "absent" => table = Empty
    /\ docs = table
    /\ collection \in { c \in BOOLEAN : docs # Empty => c }
    /\ logged = TRUE
    /\ indexes = IF schema = "ready" THEN Index ELSE {}
    /\ pc = "off"
    /\ options \in Options
    /\ scanner = "closed" /\ scanErr = FALSE /\ read = 0 /\ buf = <<>> /\ channel = <<>>
    /\ worker = [w \in Worker |-> Idle]
    /\ total = 0
    /\ outcome = "none"
    /\ runs = 0 /\ faults = 0 /\ cut = FALSE /\ wiped = FALSE /\ rejected = FALSE

Fault(kind) ==
    /\ kind \in FaultKinds
    /\ faults < MaxFaults
    /\ faults' = faults + 1

-----------------------------------------------------------------------------
(* main, up to the load. *)

Goto(here, there) == pc = here /\ pc' = there

End(how) ==
    /\ pc' = "off"
    /\ outcome' = how

Begin(o) ==
    /\ Goto("off", "delete")
    /\ outcome # "done"
    /\ runs < MaxRuns
    /\ runs' = runs + 1
    /\ options' = o
    /\ outcome' = "none"
    /\ wiped' = FALSE /\ rejected' = FALSE
    /\ scanner' = "reading" /\ scanErr' = FALSE /\ read' = 0 /\ buf' = <<>> /\ channel' = <<>>
    /\ worker' = [w \in Worker |-> Idle]
    /\ total' = 0
    /\ UNCHANGED <<file, stores, faults, cut>>

Recreates == options.ts /\ options.truncate

\* With -truncate the collection is deleted first; the error of that call is ignored.
DeleteCollection ==
    /\ Goto("delete", "collection")
    /\ \/ /\ docs' = IF Recreates THEN Empty ELSE docs
          /\ collection' = (collection /\ ~Recreates)
          /\ UNCHANGED <<faults, rejected>>
       \/ /\ Recreates /\ collection
          /\ Fault("delete")
          /\ rejected' = TRUE
          /\ UNCHANGED typesense
    /\ UNCHANGED <<file, schema, table, logged, indexes, options, pipeline, outcome, runs, cut,
                   wiped>>

\* initCollection is content with a collection that is there.
InitCollection ==
    /\ Goto("collection", "migrate")
    /\ collection' = (collection \/ options.ts)
    /\ UNCHANGED <<file, schema, table, logged, indexes, docs, options, pipeline, outcome, history>>

\* m.Up marks the version dirty, creates the table with its indexes, and marks the
\* version clean.  It has no change to make to one that is there, and refuses a dirty one.
Migrate ==
    /\ pc = "migrate"
    /\ \/ /\ options.pg => schema = "ready"
          /\ pc' = "table"
          /\ UNCHANGED <<schema, outcome>>
       \/ /\ options.pg /\ schema = "dirty"
          /\ End("failed")
          /\ UNCHANGED schema
       \/ /\ options.pg /\ schema = "absent"
          /\ pc' = "create"
          /\ schema' = "dirty"
          /\ UNCHANGED outcome
    /\ UNCHANGED <<file, table, logged, indexes, typesense, options, pipeline, history>>

CreateTable ==
    /\ Goto("create", "created")
    /\ indexes' = Index
    /\ UNCHANGED <<file, schema, table, logged, typesense, options, pipeline, outcome, history>>

Migrated ==
    /\ Goto("created", "table")
    /\ schema' = "ready"
    /\ UNCHANGED <<file, table, logged, indexes, typesense, options, pipeline, outcome, history>>

\* What if the table were left as it is?
KeepTable == UNCHANGED table
TruncateTable == table' = IF options.truncate THEN Empty ELSE table

\* TRUNCATE, if asked for.
PrepareTable ==
    /\ Goto("table", "indexes")
    /\ IF options.pg THEN TruncateTable ELSE UNCHANGED table
    /\ UNCHANGED <<file, schema, logged, indexes, typesense, options, pipeline, outcome, history>>

DropIndexes ==
    /\ logged' = FALSE
    /\ indexes' = {}

DisableIndexes ==
    /\ Goto("indexes", "file")
    /\ IF options.pg THEN DropIndexes ELSE UNCHANGED <<logged, indexes>>
    /\ UNCHANGED <<file, schema, table, typesense, options, pipeline, outcome, history>>

\* ensureDataFile: a file that exists is taken as it is.
FindFile ==
    /\ pc = "file"
    /\ pc' = IF disk = Absent THEN "download" ELSE "load"
    /\ UNCHANGED <<file, stores, options, pipeline, outcome, history>>

\* The archive has a name of its own, so that a part of it is never taken for the file.
Download ==
    /\ Goto("download", "extract")
    /\ disk' = 0
    /\ UNCHANGED <<tooLong, tail, stores, options, pipeline, outcome, history>>

\* Its text goes to the very place, and a chunk of it may end anywhere in a line.
Extract ==
    /\ pc = "extract"
    /\ \/ /\ tail # "whole"
          /\ tail' = "whole"
          /\ UNCHANGED <<disk, pc>>
       \/ /\ tail = "whole" /\ disk < Lines
          /\ disk' = disk + 1
          /\ tail' \in {"whole", "short", "torn"}
          /\ UNCHANGED pc
       \/ /\ tail = "whole" /\ disk = Lines
          /\ pc' = "load"
          /\ UNCHANGED <<disk, tail>>
    /\ UNCHANGED <<tooLong, stores, options, pipeline, outcome, history>>

-----------------------------------------------------------------------------
(* The scanner goroutine. *)

Loading == pc = "load"

\* parseLine skips a line with too few fields; it accepts any date.
Skipped == Unparsable \union IF tail = "short" THEN {disk} ELSE {}

\* A line that was cut until it fits is not too long any more.
OverLong(n) == n \in tooLong /\ (n = disk => tail = "whole")

AtEnd == read = disk \/ OverLong(read + 1)

Scan ==
    /\ Loading
    /\ scanner = "reading"
    /\ Len(buf) < BatchSize
    /\ ~AtEnd
    /\ read' = read + 1
    /\ buf' = IF read + 1 \in Skipped THEN buf ELSE Append(buf, read + 1)
    /\ UNCHANGED <<file, stores, pc, options, scanner, scanErr, channel, worker, total, outcome,
                   history>>

Room == Len(channel) < Capacity

\* What if the buffer kept its last record?
SendAgain ==
    /\ Len(buf) >= BatchSize \/ (AtEnd /\ buf # <<>>)
    /\ Room
    /\ channel' = Append(channel, buf)
    /\ buf' = IF AtEnd THEN <<>> ELSE <<buf[Len(buf)]>>

\* A full batch, or at the end what is left, as soon as the channel has room.
SendBatch ==
    /\ Len(buf) >= BatchSize \/ (AtEnd /\ buf # <<>>)
    /\ Room
    /\ channel' = Append(channel, buf)
    /\ buf' = <<>>

Send ==
    /\ Loading
    /\ scanner = "reading"
    /\ SendBatch
    /\ UNCHANGED <<file, stores, pc, options, scanner, scanErr, read, worker, total, outcome,
                   history>>

\* What if the last, smaller batch were forgotten?
StopScanDropsRest ==
    /\ Loading
    /\ scanner = "reading"
    /\ AtEnd
    /\ scanner' = "stopped"
    /\ scanErr' = (read < disk /\ OverLong(read + 1))
    /\ UNCHANGED <<file, stores, pc, options, read, buf, channel, worker, total, outcome, history>>

\* The end of the file, or a line that does not fit: scanErr is set.
StopScan ==
    /\ Loading
    /\ scanner = "reading"
    /\ AtEnd
    /\ buf = <<>>
    /\ scanner' = "stopped"
    /\ scanErr' = (read < disk /\ OverLong(read + 1))
    /\ UNCHANGED <<file, stores, pc, options, read, buf, channel, worker, total, outcome, history>>

\* The deferred close.
CloseChannel ==
    /\ Loading
    /\ scanner = "stopped"
    /\ scanner' = "closed"
    /\ UNCHANGED <<file, stores, pc, options, scanErr, read, buf, channel, worker, total, outcome,
                   history>>

-----------------------------------------------------------------------------
(* The workers. *)

InBatch(w) == { worker[w].batch[i] : i \in DOMAIN worker[w].batch }

Receive(w) ==
    /\ Loading
    /\ worker[w] = Idle
    /\ channel # <<>>
    /\ worker' = [worker EXCEPT ![w] =
                    [batch |-> Head(channel),
                     todo |-> { s \in {"pg", "ts"} : options[s] } \union {"count"}]]
    /\ channel' = Tail(channel)
    /\ UNCHANGED <<file, stores, pc, options, scanner, scanErr, read, buf, total, outcome, history>>

Through(w, s) == worker' = [worker EXCEPT ![w].todo = @ \ {s}]

\* COPY does not take part of a date for one; the cast of the merge may.
HasTornDate(w) == tail = "torn" /\ disk \in InBatch(w)
HasRowAlready(w) == \E r \in InBatch(w) : table[r] # "none"

\* pgCopy: one transaction.  After a TRUNCATE it is a plain COPY, which does not
\* suffer a row that is already there; its error ends the process.
PgCopy(w) ==
    /\ Loading
    /\ "pg" \in worker[w].todo
    /\ \/ /\ HasTornDate(w) \/ (options.truncate /\ HasRowAlready(w))
          /\ End("failed")
          /\ UNCHANGED <<table, worker>>
       \/ /\ options.truncate => ~HasTornDate(w) /\ ~HasRowAlready(w)
          /\ table' = [r \in Record |-> IF r \in InBatch(w) THEN "new" ELSE table[r]]
          /\ Through(w, "pg")
          /\ UNCHANGED <<pc, outcome>>
    /\ UNCHANGED <<file, schema, logged, indexes, typesense, options, scanner, scanErr, read, buf,
                   channel, total, history>>

\* What Typesense makes of the documents it takes: "create" leaves one that exists.
Stored(taken) ==
    [r \in Record |->
        IF r \in taken /\ (options.truncate => docs[r] = "none") THEN "new" ELSE docs[r]]

\* tsImport: the call as a whole, or single documents, may fail; that is logged and
\* no more.
TsImport(w) ==
    /\ Loading
    /\ "ts" \in worker[w].todo
    /\ Through(w, "ts")
    /\ \E taken \in SUBSET InBatch(w) :
         /\ IF taken = InBatch(w) THEN UNCHANGED faults ELSE Fault("documents")
         /\ docs' = Stored(taken)
    /\ rejected' = (rejected \/ \E r \in InBatch(w) : docs'[r] # "new")
    /\ UNCHANGED <<file, schema, table, logged, indexes, collection, pc, options, scanner, scanErr,
                   read, buf, channel, total, outcome, runs, cut, wiped>>

\* innerWG.Wait returns; the batch is counted.
EndBatch(w) ==
    /\ Loading
    /\ worker[w].todo = {"count"}
    /\ total' = total + Len(worker[w].batch)
    /\ worker' = [worker EXCEPT ![w] = Idle]
    /\ UNCHANGED <<file, stores, pc, options, scanner, scanErr, read, buf, channel, outcome,
                   history>>

-----------------------------------------------------------------------------
(* main, after the load. *)

WorkersDone == scanner = "closed" /\ channel = <<>> /\ \A w \in Worker : worker[w] = Idle

\* wg.Wait returns; a scanner error ends the run.
Join ==
    /\ Loading
    /\ WorkersDone
    /\ IF scanErr THEN End("failed") ELSE pc' = "rebuild" /\ UNCHANGED outcome
    /\ UNCHANGED <<file, stores, options, pipeline, history>>

\* rebuildIndexes: one goroutine for each CREATE INDEX, which fails if it exists.
CreateIndex(i) ==
    /\ pc = "rebuild"
    /\ options.pg
    /\ i \notin indexes
    /\ indexes' = indexes \union {i}
    /\ UNCHANGED <<file, schema, table, logged, typesense, pc, options, pipeline, outcome, history>>

\* SET LOGGED, and "import complete".
Finish ==
    /\ pc = "rebuild"
    /\ options.pg => indexes = Index
    /\ logged' = (options.pg \/ logged)
    /\ End("done")
    /\ UNCHANGED <<file, schema, table, indexes, typesense, options, pipeline, history>>

-----------------------------------------------------------------------------
(* What goes wrong. *)

\* os.Exit(1), or the end of the container.
Die ==
    /\ pc # "off"
    /\ Fault("die")
    /\ End("failed")
    /\ cut' = (cut \/ pc = "extract")
    /\ UNCHANGED <<file, stores, options, pipeline, runs, wiped, rejected>>

\* A crash of PostgreSQL empties an UNLOGGED table; the pool connects again.
PostgresCrash ==
    /\ Fault("postgres")
    /\ table' = IF logged THEN table ELSE Empty
    /\ wiped' = (wiped \/ ~logged)
    /\ UNCHANGED <<file, schema, logged, indexes, typesense, pc, options, pipeline, outcome, runs,
                   cut, rejected>>

-----------------------------------------------------------------------------

Main ==
    \/ \E o \in Options : Begin(o)
    \/ DeleteCollection \/ InitCollection
    \/ Migrate \/ CreateTable \/ Migrated
    \/ PrepareTable \/ DisableIndexes
    \/ FindFile \/ Download \/ Extract
    \/ Join \/ (\E i \in Index : CreateIndex(i)) \/ Finish

Scanner == Scan \/ Send \/ StopScan \/ CloseChannel

Work(w) == Receive(w) \/ PgCopy(w) \/ TsImport(w) \/ EndBatch(w)

Stop == pc = "off" /\ (outcome = "done" \/ runs = MaxRuns) /\ UNCHANGED vars

Next ==
    \/ Main
    \/ Scanner
    \/ \E w \in Worker : Work(w)
    \/ Die
    \/ PostgresCrash
    \/ Stop

Spec == Init /\ [][Next]_vars

\* Every goroutine runs, and the Job starts a failed run again.
FairSpec ==
    /\ Spec
    /\ WF_vars(Main)
    /\ WF_vars(Scanner)
    /\ \A w \in Worker : WF_vars(Work(w))

-----------------------------------------------------------------------------
(* Properties. *)

Batches(s) == UNION { { s[i][j] : j \in DOMAIN s[i] } : i \in DOMAIN s }
InBuf == { buf[i] : i \in DOMAIN buf }
Good(n) == (1..n) \ Skipped

TypeOK ==
    /\ tooLong \subseteq TooLong
    /\ disk \in Absent..Lines
    /\ tail \in {"whole", "short", "torn"}
    /\ schema \in {"absent", "dirty", "ready"}
    /\ table \in [Record -> {"none", "old", "new"}]
    /\ docs \in [Record -> {"none", "old", "new"}]
    /\ logged \in BOOLEAN
    /\ indexes \subseteq Index
    /\ collection \in BOOLEAN
    /\ pc \in {"off", "delete", "collection", "migrate", "create", "created", "table", "indexes",
               "file", "download", "extract", "load", "rebuild"}
    /\ options \in Options
    /\ scanner \in {"reading", "stopped", "closed"}
    /\ scanErr \in BOOLEAN
    /\ read \in 0..Lines
    /\ buf \in Seq(Line) /\ Len(buf) <= BatchSize
    /\ channel \in Seq(Seq(Line)) /\ Len(channel) <= Capacity
    /\ worker \in [Worker -> [batch : Seq(Line), todo : SUBSET {"pg", "ts", "count"}]]
    /\ total \in 0..Lines
    /\ outcome \in {"none", "done", "failed"}
    /\ runs \in 0..MaxRuns /\ faults \in 0..MaxFaults
    /\ cut \in BOOLEAN /\ wiped \in BOOLEAN /\ rejected \in BOOLEAN

\* Where a record is between its scan and its batch's end.
Places ==
    { <<"buf", 0, i>> : i \in DOMAIN buf }
      \union (UNION { { <<"channel", i, j>> : j \in DOMAIN channel[i] } : i \in DOMAIN channel })
      \union (UNION { { <<"worker", w, j>> : j \in DOMAIN worker[w].batch } : w \in Worker })

Underway == InBuf \union Batches(channel) \union (UNION { InBatch(w) : w \in Worker })

StoredIn(rows, records) == \A r \in records : rows[r] = "new"

\* No record is lost or doubled on its way through the reused buffer, the channel and
\* the workers: at any moment of a load each one that was scanned is in one place, or
\* it has been counted and both stores have it.
EachRecordOnce ==
    pc \in {"load", "rebuild"} =>
        /\ Cardinality(Underway) = Cardinality(Places)
        /\ total + Cardinality(Places) = Cardinality(Good(read))
        /\ options.pg /\ ~wiped => StoredIn(table, Good(read) \ Underway)
        /\ options.ts /\ ~rejected => StoredIn(docs, Good(read) \ Underway)

\* "import complete" means what it says, whatever runs were cut short before: the file
\* was the whole published one unless a run ended while it extracted it, no line of it was
\* too long (scanErr is set before the channel is closed, so main sees it however the
\* workers are scheduled), PostgreSQL has every record, in a table whose migration was
\* complete, safe from a crash and indexed, and Typesense has a collection and in it
\* those records it did not complain about.
DoneMeansLoaded ==
    outcome = "done" =>
        /\ (disk = Lines /\ tail = "whole") \/ cut
        /\ \A n \in 1..disk : ~OverLong(n)
        /\ total = Cardinality(Good(disk))
        /\ options.pg => schema = "ready" /\ logged /\ indexes = Index
        /\ options.pg /\ ~wiped => StoredIn(table, Good(disk))
        /\ options.ts => collection
        /\ options.ts /\ ~rejected => StoredIn(docs, Good(disk))

\* What the last run has to leave: its file's records and no others in both stores
\* (a crash of PostgreSQL and refused documents aside), and the table itself again.
Repaired ==
    /\ outcome = "done" /\ logged /\ indexes = Index
    /\ wiped \/ \A r \in Record : table[r] = IF r \in Good(disk) THEN "new" ELSE "none"
    /\ rejected \/ \A r \in Record : docs[r] = IF r \in Good(disk) THEN "new" ELSE "none"

\* Three states that no restart leaves, since each fails where the one before it did: a
\* line beyond the scanner's buffer, a line whose date was cut by a kill during the
\* extraction, and a version that a kill during the migration left dirty.
Unrepairable == (\E n \in 1..disk : OverLong(n)) \/ tail = "torn" \/ schema = "dirty"

\* The Job's restarts repair what other kills and crashes left behind, runs with other
\* flags included: in the end a run with the Job's flags is complete.
RestartsRepair ==
    <>[](options.truncate /\ options.pg /\ options.ts /\ ~Unrepairable => Repaired)
=============================================================================
