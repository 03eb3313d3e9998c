-------------------------- MODULE LeakcheckStore --------------------------
(***************************************************************************)
(* pkg/leakcheck/store.go: the table of leaked accounts, its rebuild into  *)
(* a staging table that is swapped in, additions from a directory, and the *)
(* cache of search answers.  A row stands for a (login, password) pair of  *)
(* one login, the one that is searched.  Each action is one SQL statement  *)
(* or one lock region; a statement outside a transaction commits at once.  *)
(* PostgreSQL is external: ON CONFLICT (login, password) is an error on a  *)
(* table without a unique index on those columns, an index name is unique  *)
(* among all tables, and ALTER TABLE locks readers out until the commit.   *)
(***************************************************************************)
EXTENDS Naturals, FiniteSets

CONSTANTS Rows,        \* what the dump files may contain
          Writers,     \* admin requests (AddDir, Reload)
          Searchers,   \* search requests
          MaxOps,      \* bound on admin requests
          MaxCrashes,  \* bound on crashes
          MayFail      \* may a statement fail

Boot == "boot"  \* the load at start-up, which takes no lock

ASSUME LeakAssumption ==
  Boot \notin Writers /\ {MaxOps, MaxCrashes} \subseteq Nat /\ MayFail \in BOOLEAN

VARIABLES
  files,       \* rows of the .txt files under leakcheckDir
  tables,      \* the committed tables, by name
  swapping,    \* the tables as the open swap transaction sees them, if any
  writeLock,   \* holders of writeMu (at most one)
  writer,      \* writer[w]: where request w (or the start-up load) is
  goal,        \* goal[w]: the rows w was asked to insert
  left,        \* left[w]: those not yet sent to the database
  failed,      \* failed[w]: those a statement refused
  dropping,    \* Reload's goroutine that drops leakcheck_old is pending
  dropLost,    \* history: such a drop failed, or the process died first
  running,     \* the process is up
  added,       \* history: rows reported as added since the last rebuild
  searcher, found,  \* search requests: where they are, what they read
  searchCache, \* the cached answer, if any
  ops, crashes \* counters for the bounds

leakVars == <<files, tables, swapping, writeLock, writer, goal, left, failed,
              dropping, dropLost, running, added, searcher, found, searchCache,
              ops, crashes>>

Loaders == Writers \cup {Boot}
Names == {"leakcheck", "leakcheck_new", "leakcheck_old"}
IndexNames == {"idx_leakcheck_unique", "idx_leakcheck_new_unique"}
Table == [exists : BOOLEAN, rows : SUBSET Rows, unique : SUBSET IndexNames]
Absent == [exists |-> FALSE, rows |-> {}, unique |-> {}]
Fresh == [Absent EXCEPT !.exists = TRUE]
Live == tables["leakcheck"]

WriterStates == {"idle", "adding", "added", "staging", "indexed", "renamed",
                 "swapped", "reloaded"}

\* Types, and mutual exclusion of the writers.
LeakTypeOK ==
  /\ files \subseteq Rows
  /\ tables \in [Names -> Table]
  /\ \A t \in swapping : t \in [Names -> Table]
  /\ writeLock \subseteq Writers /\ Cardinality(writeLock) <= 1
  /\ writer \in [Loaders -> WriterStates]
  /\ goal \in [Loaders -> SUBSET Rows]
  /\ left \in [Loaders -> SUBSET Rows]
  /\ failed \in [Loaders -> SUBSET Rows]
  /\ {dropping, dropLost, running} \subseteq BOOLEAN
  /\ added \subseteq Rows
  /\ searcher \in [Searchers -> {"idle", "querying", "read"}]
  /\ found \in [Searchers -> SUBSET Rows]
  /\ searchCache \subseteq SUBSET Rows
  /\ ops \in 0 .. MaxOps /\ crashes \in 0 .. MaxCrashes

LeakInit ==
  /\ files = {}
  /\ tables = [n \in Names |-> Absent]
  /\ swapping = {}
  /\ writeLock = {}
  /\ writer = [w \in Loaders |-> "idle"]
  /\ goal = [w \in Loaders |-> {}]
  /\ left = [w \in Loaders |-> {}]
  /\ failed = [w \in Loaders |-> {}]
  /\ dropping = FALSE /\ dropLost = FALSE /\ running = FALSE /\ added = {}
  /\ searcher = [s \in Searchers |-> "idle"]
  /\ found = [s \in Searchers |-> {}]
  /\ searchCache = {}
  /\ ops = 0 /\ crashes = 0

searchVars == <<searcher, found, searchCache>>
loadVars == <<goal, left, failed>>
writerVars == <<writer, writeLock>>
dbVars == <<tables, swapping, dropping, dropLost>>
processVars == <<running, added, crashes>>

IndexTaken(i) == \E n \in Names : i \in tables[n].unique
Serving == running /\ writer[Boot] = "idle"

\* The rows of b that a batch inserts into t: none without a unique index
\* (the batch fails, then each row does), else all but those refused.
Insertable(t, b) == IF t.unique = {} THEN {{}} ELSE IF MayFail THEN SUBSET b ELSE {b}

\* The tables after ALTER TABLE from RENAME TO to.
Renamed(ts, from, to) == [ts EXCEPT ![to] = ts[from], ![from] = Absent]

\* w ends; a request also gives writeMu back (deferred).
Ends(w) ==
  /\ writer' = [writer EXCEPT ![w] = "idle"]
  /\ writeLock' = writeLock \ {w}

Given(w, rows) ==
  /\ goal' = [goal EXCEPT ![w] = rows]
  /\ left' = [left EXCEPT ![w] = rows]
  /\ failed' = [failed EXCEPT ![w] = {}]

-----------------------------------------------------------------------------
(* Faulty variants: slips the code could contain.                          *)

\* AddDir without writeMu.
AddDirUnlocked(w, rows) ==
  /\ Serving /\ writer[w] = "idle" /\ ops < MaxOps
  /\ rows # {} /\ rows \subseteq files
  /\ writer' = [writer EXCEPT ![w] = "adding"]
  /\ Given(w, rows)
  /\ ops' = ops + 1
  /\ UNCHANGED <<files, writeLock, dbVars, searchVars, processVars>>

\* The two renames without a transaction around them.
SwapRenameOldAlone(w) ==
  /\ writer[w] = "indexed" /\ ~ tables["leakcheck_old"].exists
  /\ tables' = Renamed(tables, "leakcheck", "leakcheck_old")
  /\ swapping' = {Renamed(tables, "leakcheck", "leakcheck_old")}
  /\ writer' = [writer EXCEPT ![w] = "renamed"]
  /\ UNCHANGED <<files, writeLock, dropping, dropLost, ops, loadVars,
                 searchVars, processVars>>

\* The old table is not dropped after the swap.
SwapCommitWithoutDrop(w) ==
  /\ writer[w] = "swapped"
  /\ tables' \in swapping
  /\ swapping' = {}
  /\ writer' = [writer EXCEPT ![w] = "reloaded"]
  /\ UNCHANGED <<files, writeLock, dropping, dropLost, ops, loadVars,
                 searchVars, processVars>>

\* Answers are only evicted when the cache holds more than 1000.
ExpireWhenFull ==
  /\ Cardinality(searchCache) > 1000
  /\ searchCache' = {}
  /\ UNCHANGED <<files, searcher, found, ops, writerVars, loadVars, dbVars,
                 processVars>>

-----------------------------------------------------------------------------
(* The directory, start and crash                                          *)

\* Somebody unpacks a dump file under leakcheckDir.
Upload(r) ==
  /\ r \in Rows \ files
  /\ files' = files \cup {r}
  /\ UNCHANGED <<ops, writerVars, loadVars, dbVars, searchVars, processVars>>

\* Init: ensureSchema creates the table and its unique index if their names
\* are free (that its statements may fail unnoticed is left out); an empty
\* table is then loaded from the directory, any other is taken as complete.
Start ==
  /\ ~ running
  /\ LET live == IF Live.exists THEN Live ELSE Fresh
         indexed == IF IndexTaken("idx_leakcheck_unique") THEN live
                    ELSE [live EXCEPT !.unique = @ \cup {"idx_leakcheck_unique"}]
     IN tables' = [tables EXCEPT !["leakcheck"] = indexed]
  /\ running' = TRUE
  /\ IF Live.rows = {} THEN /\ writer' = [writer EXCEPT ![Boot] = "adding"]
                            /\ Given(Boot, files)
                       ELSE UNCHANGED <<writer, loadVars>>
  /\ UNCHANGED <<files, swapping, writeLock, dropping, dropLost, added, ops,
                 crashes, searchVars>>

\* The process dies: memory is lost, an open transaction rolls back, the
\* tables stay as they are.
Crash ==
  /\ running /\ crashes < MaxCrashes
  /\ running' = FALSE
  /\ swapping' = {} /\ writeLock' = {}
  /\ writer' = [w \in Loaders |-> "idle"]
  /\ goal' = [w \in Loaders |-> {}]
  /\ left' = [w \in Loaders |-> {}]
  /\ failed' = [w \in Loaders |-> {}]
  /\ dropping' = FALSE /\ dropLost' = (dropLost \/ dropping)
  /\ searcher' = [s \in Searchers |-> "idle"]
  /\ found' = [s \in Searchers |-> {}]
  /\ searchCache' = {}
  /\ crashes' = crashes + 1
  /\ UNCHANGED <<files, tables, added, ops>>

-----------------------------------------------------------------------------
(* insertEntriesFromDirToTable                                             *)

\* AddDir takes writeMu; a directory without .txt files is refused.
AddDir(w, rows) ==
  /\ Serving /\ writer[w] = "idle" /\ writeLock = {} /\ ops < MaxOps
  /\ rows # {} /\ rows \subseteq files
  /\ writeLock' = {w}
  /\ writer' = [writer EXCEPT ![w] = "adding"]
  /\ Given(w, rows)
  /\ ops' = ops + 1
  /\ UNCHANGED <<files, dbVars, searchVars, processVars>>

TargetOf(w) == IF writer[w] = "staging" THEN "leakcheck_new" ELSE "leakcheck"

\* One batch: an INSERT of all its rows and, if that fails, one of each row,
\* whose errors are skipped.
Flush(w) ==
  /\ writer[w] \in {"adding", "staging"}
  /\ \E b \in (SUBSET left[w]) \ {{}} : \E in \in Insertable(tables[TargetOf(w)], b) :
        /\ tables' = [tables EXCEPT ![TargetOf(w)].rows = @ \cup in]
        /\ failed' = [failed EXCEPT ![w] = @ \cup (b \ in)]
        /\ left' = [left EXCEPT ![w] = @ \ b]
  /\ UNCHANGED <<files, swapping, goal, dropping, dropLost, ops, writerVars,
                 searchVars, processVars>>

\* Preparing the statement for single rows fails: the load ends with an
\* error, and Reload drops the staging table.
FlushFails(w) ==
  /\ MayFail
  /\ writer[w] \in {"adding", "staging"} /\ left[w] # {}
  /\ tables' = IF writer[w] = "staging" THEN [tables EXCEPT !["leakcheck_new"] = Absent]
               ELSE tables
  /\ Ends(w)
  /\ UNCHANGED <<files, swapping, dropping, dropLost, ops, loadVars,
                 searchVars, processVars>>

\* All rows were sent; AddDir is about to return, the start-up load is over.
FinishAdd(w) ==
  /\ writer[w] = "adding" /\ left[w] = {}
  /\ IF w = Boot THEN Ends(w)
     ELSE writer' = [writer EXCEPT ![w] = "added"] /\ UNCHANGED writeLock
  /\ added' = added \cup (goal[w] \ failed[w])
  /\ UNCHANGED <<files, ops, loadVars, dbVars, searchVars, running, crashes>>

Return(w) ==
  /\ writer[w] \in {"added", "reloaded"}
  /\ Ends(w)
  /\ UNCHANGED <<files, ops, loadVars, dbVars, searchVars, processVars>>

-----------------------------------------------------------------------------
(* Reload                                                                  *)

\* Drop a leftover staging table and create a new one, with no index but
\* the primary key; all files will be loaded into it.
Reload(w) ==
  /\ Serving /\ writer[w] = "idle" /\ writeLock = {} /\ ops < MaxOps
  /\ writeLock' = {w}
  /\ tables' = [tables EXCEPT !["leakcheck_new"] = Fresh]
  /\ writer' = [writer EXCEPT ![w] = "staging"]
  /\ Given(w, files)
  /\ ops' = ops + 1
  /\ UNCHANGED <<files, swapping, dropping, dropLost, searchVars, processVars>>

\* Index the staging table; an index that cannot be built is only logged.
BuildIndexes(w) ==
  /\ writer[w] = "staging" /\ left[w] = {}
  /\ \E built \in (IF IndexTaken("idx_leakcheck_new_unique") THEN {FALSE}
                   ELSE IF MayFail THEN BOOLEAN ELSE {TRUE}) :
        tables' = IF built
                  THEN [tables EXCEPT !["leakcheck_new"].unique = {"idx_leakcheck_new_unique"}]
                  ELSE tables
  /\ writer' = [writer EXCEPT ![w] = "indexed"]
  /\ UNCHANGED <<files, swapping, writeLock, dropping, dropLost, ops, loadVars,
                 searchVars, processVars>>

\* Begin the swap and rename the live table away, which fails when a table
\* leakcheck_old is still there.
SwapRenameOld(w) ==
  /\ writer[w] = "indexed" /\ ~ tables["leakcheck_old"].exists
  /\ swapping' = {Renamed(tables, "leakcheck", "leakcheck_old")}
  /\ writer' = [writer EXCEPT ![w] = "renamed"]
  /\ UNCHANGED <<files, tables, writeLock, dropping, dropLost, ops, loadVars,
                 searchVars, processVars>>

SwapRenameOldFails(w) ==
  /\ writer[w] = "indexed" /\ (tables["leakcheck_old"].exists \/ MayFail)
  /\ tables' = [tables EXCEPT !["leakcheck_new"] = Absent]
  /\ Ends(w)
  /\ UNCHANGED <<files, swapping, dropping, dropLost, ops, loadVars,
                 searchVars, processVars>>

SwapRenameNew(w) ==
  /\ writer[w] = "renamed"
  /\ swapping' = {Renamed(t, "leakcheck_new", "leakcheck") : t \in swapping}
  /\ writer' = [writer EXCEPT ![w] = "swapped"]
  /\ UNCHANGED <<files, tables, writeLock, dropping, dropLost, ops, loadVars,
                 searchVars, processVars>>

\* Commit, and start the goroutine that drops the old table.
SwapCommit(w) ==
  /\ writer[w] = "swapped"
  /\ tables' \in swapping
  /\ swapping' = {}
  /\ dropping' = TRUE
  /\ writer' = [writer EXCEPT ![w] = "reloaded"]
  /\ added' = {}
  /\ UNCHANGED <<files, writeLock, dropLost, ops, loadVars, searchVars,
                 running, crashes>>

\* The second rename or the commit fails: roll back; the staging table stays.
SwapFails(w) ==
  /\ MayFail /\ writer[w] \in {"renamed", "swapped"}
  /\ swapping' = {}
  /\ Ends(w)
  /\ UNCHANGED <<files, tables, dropping, dropLost, ops, loadVars, searchVars,
                 processVars>>

\* The background DROP, whose failure is only logged.
DropOld ==
  /\ dropping
  /\ dropping' = FALSE
  /\ \/ tables' = [tables EXCEPT !["leakcheck_old"] = Absent] /\ UNCHANGED dropLost
     \/ MayFail /\ dropLost' = TRUE /\ UNCHANGED tables
  /\ UNCHANGED <<files, swapping, ops, writerVars, loadVars, searchVars,
                 processVars>>

-----------------------------------------------------------------------------
(* Search                                                                  *)

\* A cached answer ends the search; otherwise it goes to the database.
SearchCached(s) ==
  /\ Serving /\ searcher[s] = "idle" /\ searchCache = {}
  /\ searcher' = [searcher EXCEPT ![s] = "querying"]
  /\ UNCHANGED <<files, found, searchCache, ops, writerVars, loadVars, dbVars,
                 processVars>>

\* The query waits while a swap holds the table.  Reading may stop early
\* (10 s, a broken connection), which nobody notices.
Query(s) ==
  /\ searcher[s] = "querying" /\ swapping = {}
  /\ \E rows \in (IF MayFail THEN SUBSET Live.rows ELSE {Live.rows}) :
        found' = [found EXCEPT ![s] = rows]
  /\ searcher' = [searcher EXCEPT ![s] = "read"]
  /\ UNCHANGED <<files, searchCache, ops, writerVars, loadVars, dbVars,
                 processVars>>

\* A failed query answers an empty list and is not cached.
QueryFails(s) ==
  /\ MayFail /\ searcher[s] = "querying"
  /\ searcher' = [searcher EXCEPT ![s] = "idle"]
  /\ UNCHANGED <<files, found, searchCache, ops, writerVars, loadVars, dbVars,
                 processVars>>

Remember(s) ==
  /\ searcher[s] = "read"
  /\ searchCache' = {found[s]}
  /\ searcher' = [searcher EXCEPT ![s] = "idle"]
  /\ found' = [found EXCEPT ![s] = {}]
  /\ UNCHANGED <<files, ops, writerVars, loadVars, dbVars, processVars>>

\* Five minutes pass.
ExpireAnswer ==
  /\ searchCache # {}
  /\ searchCache' = {}
  /\ UNCHANGED <<files, searcher, found, ops, writerVars, loadVars, dbVars,
                 processVars>>

-----------------------------------------------------------------------------
WriterStep(w) ==
  \/ Flush(w) \/ FlushFails(w) \/ FinishAdd(w) \/ Return(w) \/ BuildIndexes(w)
  \/ SwapRenameOld(w) \/ SwapRenameOldFails(w) \/ SwapRenameNew(w)
  \/ SwapCommit(w) \/ SwapFails(w)

SearchStep(s) == Query(s) \/ QueryFails(s) \/ Remember(s)

LeakNext ==
  \/ Start \/ Crash \/ DropOld \/ ExpireAnswer
  \/ \E r \in Rows : Upload(r)
  \/ \E w \in Writers : Reload(w) \/ \E rows \in SUBSET Rows : AddDir(w, rows)
  \/ \E w \in Loaders : WriterStep(w)
  \/ \E s \in Searchers : SearchCached(s) \/ SearchStep(s)

LeakSpec == LeakInit /\ [][LeakNext]_leakVars

-----------------------------------------------------------------------------
\* Once the process has started, a table named leakcheck is there at every
\* moment, whichever step of a rebuild fails or is the last before a crash
\* ("zero downtime", store.go:397).
AlwaysServed == running => Live.exists

\* What AddDir, or the load at the start, reported as added is in the table that
\* is searched, the last incomplete batch included, until a rebuild is swapped
\* in: no rebuild under way takes an addition with it, and no crash does.  What
\* the rebuild itself puts there is another matter, see ReloadRebuilds.
AdditionsStay == added \subseteq Live.rows

\* A leftover leakcheck_old makes every later rebuild fail.  Only a drop that
\* failed, or that the process did not live to make, leaves one: no rebuild that
\* fails half-way does.
OldTableIsDropped == tables["leakcheck_old"].exists => dropping \/ dropLost

\* When the admins are done, searches stop answering with rows that the
\* table no longer has: answers read before a swap but cached after it
\* included.
OldAnswersEnd ==
  <>[](\A rows \in searchCache : rows \subseteq Live.rows)

\* "Reload - rebuild semua data (clear + reload)" (store.go:383): a rebuild
\* that reports success has put the rows of all files into the table.
ReloadRebuilds ==
  \A w \in Writers : writer[w] = "reloaded" => goal[w] \subseteq Live.rows

\* While rebuilds, additions and crashes interleave there is a table to search at
\* every moment, it keeps what was added until the next rebuild replaces it, and
\* an old table is in the way only where its drop failed or was cut off.
RebuildsAreSafe == LeakTypeOK /\ AlwaysServed /\ AdditionsStay /\ OldTableIsDropped
=============================================================================
