---------------------------- MODULE UsageStats ----------------------------
(***************************************************************************)
(* pkg/stats: requests and errors are each put on a bounded channel, a     *)
(* worker per channel collects batches and writes them to PostgreSQL, and  *)
(* the requests go to a table with one partition per month, which a job    *)
(* at start and at 02:00 creates a month ahead.  The two channels, their   *)
(* workers (the same code twice) and their tables have nothing in common,  *)
(* so there is one here, and kind says which.                              *)
(*                                                                         *)
(* Months are numbered from January 2026.  Day 1 stands for the days 1 to  *)
(* 27, on which "a month later" always lies in the next month.            *)
(* PostgreSQL is external: a transaction in which one statement fails      *)
(* commits nothing, a row without a partition is refused, and so is a      *)
(* partition that overlaps another.                                        *)
(***************************************************************************)
EXTENDS Naturals

CONSTANTS Capacity,    \* of a channel (2000)
          BatchSize,   \* events that fill a batch (100)
          MaxEvents,   \* bound on tracked events
          MaxStarts,   \* bound on starts of the process
          FirstMonth,  \* the month of the first start
          LastMonth,   \* bound on time
          DbMayFail    \* may PostgreSQL refuse a connection or a statement

ASSUME StatsAssumption ==
  /\ {Capacity, MaxEvents, MaxStarts, LastMonth} \subseteq Nat
  /\ FirstMonth \in 1 .. LastMonth
  /\ BatchSize \in Nat \ {0}
  /\ DbMayFail \in BOOLEAN

VARIABLES
  kind,       \* "stats" or "errors"
  month, day, \* the date
  due,        \* the process sleeps until 02:00 of this day
  up,         \* the process runs
  connected,  \* stats.DB is not nil
  covered,    \* months that some partition of stats covers
  channel,    \* events on trackCh or errorCh
  batch,      \* events in the worker's batch
  flushing,   \* the worker is about to write its batch
  accepted,   \* history: events that were put on the channel
  recorded,   \* history: events that were committed
  excused,    \* history: events were lost to a stop, to the database or to
              \* a month without a partition
  settled,    \* history: 2 when the process has been up and connected since
              \* day 28 of last month or longer, 1 since day 28 of this
              \* month or longer, else 0
  ddlFailed,  \* history: PostgreSQL refused to create a partition
  starts      \* counter for the bound

dateVars == <<kind, month, day, due>>
eventVars == <<channel, batch, flushing, accepted, recorded, excused>>
serverVars == <<up, connected, settled, starts>>
partitionVars == <<covered, ddlFailed>>
statsVars == <<dateVars, eventVars, serverVars, partitionVars>>

Days == {1, 28, 29, 30, 31}
April == 4

\* The days of month m (of a common year).
LengthOf(m) == CASE m % 12 = 2 -> 28
                 [] m % 12 \in {4, 6, 9, 11} -> 30
                 [] OTHER -> 31

\* Time.AddDate(0, 1, 0): a day that the next month lacks counts on into
\* the month after it.
AddMonth(date) ==
  IF date[2] <= LengthOf(date[1] + 1) THEN <<date[1] + 1, date[2]>>
                                      ELSE <<date[1] + 2, 1>>

StatsTypeOK ==
  /\ kind \in {"stats", "errors"}
  /\ month \in FirstMonth .. LastMonth /\ day \in Days /\ day <= LengthOf(month)
  /\ {due, up, connected, ddlFailed, flushing, excused} \subseteq BOOLEAN
  /\ covered \subseteq 0 .. LastMonth + 4
  /\ channel \in 0 .. Capacity /\ batch \in 0 .. BatchSize
  /\ accepted \in 0 .. MaxEvents /\ recorded \in 0 .. MaxEvents
  /\ settled \in 0 .. 2 /\ starts \in 0 .. MaxStarts

StatsInit ==
  /\ kind \in {"stats", "errors"}
  /\ month = FirstMonth /\ day = 1 /\ due = FALSE
  /\ up = FALSE /\ connected = FALSE
  /\ covered = {}
  /\ channel = 0 /\ batch = 0 /\ flushing = FALSE
  /\ accepted = 0 /\ recorded = 0 /\ excused = FALSE
  /\ settled = 0 /\ ddlFailed = FALSE /\ starts = 0

Backlog == channel + batch

\* PostgreSQL can take a batch now.
Writable == connected /\ (kind = "stats" => month \in covered)

\* A slip: the partition of the month that contains the date.
PartitionForToday(date) == date[1] .. AddMonth(date)[1] - 1

\* The months of the partition that is asked for on a date: from a month
\* later to a month after that.
PartitionFor(date) ==
  LET next == AddMonth(date) IN next[1] .. AddMonth(next)[1] - 1

\* ensurePartitionExists, whose errors are ignored: nothing is created over
\* months that are covered.
EnsurePartition(date, before) ==
  \/ /\ covered' = IF PartitionFor(date) \cap before = {}
                   THEN before \cup PartitionFor(date) ELSE before
     /\ UNCHANGED ddlFailed
  \/ DbMayFail /\ covered' = before /\ ddlFailed' = TRUE

\* What the process holds in memory is gone.
Dies ==
  /\ up' = FALSE /\ connected' = FALSE /\ settled' = 0
  /\ channel' = 0 /\ batch' = 0 /\ flushing' = FALSE
  /\ excused' = (excused \/ Backlog > 0)
  /\ UNCHANGED <<accepted, recorded>>

-----------------------------------------------------------------------------
(* Faulty variants: slips the code could contain.                          *)

\* The batch is not emptied after it was written.
FlushKeepingBatch ==
  /\ up /\ flushing /\ recorded + batch <= MaxEvents
  /\ flushing' = FALSE
  /\ IF Writable THEN recorded' = recorded + batch /\ UNCHANGED excused
                 ELSE excused' = TRUE /\ UNCHANGED recorded
  /\ UNCHANGED <<channel, batch, accepted, dateVars, serverVars, partitionVars>>

\* The ticker only writes full batches.
TickWhenFull ==
  /\ up /\ ~ flushing /\ batch >= BatchSize
  /\ flushing' = TRUE
  /\ UNCHANGED <<channel, batch, accepted, recorded, excused, dateVars, serverVars,
                 partitionVars>>

\* The channel takes one event too many.
TrackOverCapacity ==
  /\ up /\ accepted < MaxEvents /\ channel <= Capacity
  /\ channel' = channel + 1
  /\ accepted' = accepted + 1
  /\ UNCHANGED <<batch, flushing, recorded, excused, dateVars, serverVars, partitionVars>>

-----------------------------------------------------------------------------
\* stats.Init, of which main only logs an error: without a connection DB
\* stays nil.  The first two partitions are part of the schema.
StatsStart ==
  /\ ~ up /\ starts < MaxStarts
  /\ up' = TRUE /\ starts' = starts + 1
  /\ \/ /\ connected' = TRUE
        /\ settled' = IF day <= 28 THEN 1 ELSE 0
        /\ EnsurePartition(<<month, day>>, covered \cup {April, April + 1})
     \/ DbMayFail /\ UNCHANGED <<connected, settled, partitionVars>>
  /\ UNCHANGED <<dateVars, eventVars>>

\* The process is stopped or crashes; nobody waits for the workers.
Stop ==
  /\ up
  /\ Dies /\ due' = FALSE
  /\ UNCHANGED <<starts, kind, month, day, partitionVars>>

\* Platform and TrackError: a send that does not block; when the channel is
\* full the event is dropped and nothing changes.
Track ==
  /\ up /\ accepted < MaxEvents /\ channel < Capacity
  /\ channel' = channel + 1
  /\ accepted' = accepted + 1
  /\ UNCHANGED <<batch, flushing, recorded, excused, dateVars, serverVars, partitionVars>>

\* The worker takes an event; a full batch is written at once.
Receive ==
  /\ up /\ ~ flushing /\ channel > 0
  /\ channel' = channel - 1
  /\ batch' = batch + 1
  /\ flushing' = (batch + 1 >= BatchSize)
  /\ UNCHANGED <<accepted, recorded, excused, dateVars, serverVars, partitionVars>>

\* Three seconds pass.
Tick ==
  /\ up /\ ~ flushing /\ batch > 0
  /\ flushing' = TRUE
  /\ UNCHANGED <<channel, batch, accepted, recorded, excused, dateVars, serverVars,
                 partitionVars>>

\* flushBatch, flushErrors: one transaction; whatever comes of it the batch
\* is emptied.
FlushBatch ==
  /\ up /\ flushing
  /\ flushing' = FALSE /\ batch' = 0
  /\ \/ Writable /\ recorded' = recorded + batch /\ UNCHANGED excused
     \/ /\ ~ Writable \/ DbMayFail
        /\ excused' = TRUE /\ UNCHANGED recorded
  /\ UNCHANGED <<channel, accepted, dateVars, serverVars, partitionVars>>

Tomorrow ==
  IF day < LengthOf(month)
  THEN <<month, CHOOSE d \in Days : d > day /\ \A e \in Days : e > day => d <= e>>
  ELSE <<month + 1, 1>>

\* The next day begins.  A process that is up sleeps until its 02:00; one
\* that is started later in the day sleeps until that of the next day.
Midnight ==
  /\ ~ due /\ Tomorrow[1] <= LastMonth
  /\ month' = Tomorrow[1] /\ day' = Tomorrow[2]
  /\ due' = up
  /\ settled' = IF connected /\ month' > month /\ settled < 2 THEN settled + 1 ELSE settled
  /\ UNCHANGED <<kind, up, connected, starts, eventVars, partitionVars>>

\* cleanupScheduler at 02:00: Cleanup (its deletion of old rows is left out)
\* and ensurePartitionExists, which unlike Cleanup does not ask whether DB
\* is nil: Exec then panics, and the process dies of it.
DailyJob ==
  /\ due
  /\ due' = FALSE
  /\ \/ /\ connected
        /\ EnsurePartition(<<month, day>>, covered)
        /\ UNCHANGED <<serverVars, eventVars>>
     \/ /\ ~ connected
        /\ Dies
        /\ UNCHANGED <<starts, partitionVars>>
  /\ UNCHANGED <<kind, month, day>>

-----------------------------------------------------------------------------
StatsWorker == Receive \/ Tick \/ FlushBatch

StatsNext == StatsStart \/ Stop \/ Midnight \/ DailyJob \/ Track \/ StatsWorker

StatsSpec == StatsInit /\ [][StatsNext]_statsVars

-----------------------------------------------------------------------------
\* Every event that was put on a channel is waiting, or was written once
\* and only once, unless the process was stopped before it was written,
\* PostgreSQL refused the transaction, or its month had no partition.
RecordedOnce == ~ excused => accepted = Backlog + recorded

\* A server that has been up and connected since the 28th of last month has
\* a partition for the current month (unless PostgreSQL refused to create
\* one), whatever the lengths of the months and whatever partitions, perhaps
\* of two months, earlier starts created.
PartitionReady == settled = 2 /\ ~ ddlFailed => month \in covered

\* What is on the channel of a server that stays up is sent to PostgreSQL,
\* the last incomplete batch included.
BacklogDrains == Backlog > 0 ~> Backlog = 0

\* What the channels took is recorded once, in a partition that is there
\* (tracker.go, db.go).
EventsAreCounted == StatsTypeOK /\ RecordedOnce /\ PartitionReady
=============================================================================
