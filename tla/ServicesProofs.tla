-------------------------- MODULE ServicesProofs --------------------------
(***************************************************************************)
(* What the services behind the handlers promise: the limiter for any      *)
(* number of goroutines, the counts of pkg/stats for any capacity and      *)
(* stretch of time, the stores for any lists, rows and rows' writers and   *)
(* any number of requests.                                                 *)
(***************************************************************************)
EXTENDS Limiter, UsageStats, IptvStore, LeakcheckStore, FiniteSetTheorems, TLAPS

-----------------------------------------------------------------------------
(* pkg/limiter: the counter counts the holders and stays within 0..Max, and *)
(* the compare-and-swap loop implements the abstract semaphore.            *)

\* The inductive invariant.  The bound of TypeOK does not survive a Release
\* without knowing that a holder is counted, nor a swap without knowing
\* that the value it compares with was below max when it was loaded.
IInv == TypeOK /\ CountsHolders /\ SawRoom

\* There are finitely many holders.
LEMMA HoldersFinite == IsFiniteSet(Holders)
  BY LimiterAssumption, FS_Subset DEF Holders

\* Initially nobody holds a slot and the counter is 0.
LEMMA InitIInv == Init => IInv
  <1> SUFFICES ASSUME Init PROVE IInv
    OBVIOUS
  <1>1. Holders = {}
    BY DEF Init, Holders
  <1>2. Cardinality(Holders) = 0
    BY <1>1, FS_EmptySet
  <1>3. QED
    BY <1>2, LimiterAssumption
    DEF Init, IInv, TypeOK, CountsHolders, SawRoom, PcStates

\* Every step keeps the inductive invariant.
LEMMA NextIInv == IInv /\ [Next]_vars => IInv'
  <1> SUFFICES ASSUME IInv, [Next]_vars PROVE IInv'
    OBVIOUS
  <1> USE LimiterAssumption DEF IInv, TypeOK, PcStates
  <1>1. ASSUME NEW p \in Procs, Call(p) \/ Load(p) \/ GiveUp(p)
        PROVE  IInv'
    <2>1. Holders' = Holders
      BY <1>1 DEF Call, Load, GiveUp, Holders
    <2>2. TypeOK'
      BY <1>1 DEF Call, Load, GiveUp
    <2>3. CountsHolders'
      BY <1>1, <2>1 DEF Call, Load, GiveUp, CountsHolders
    <2>4. SawRoom'
      BY <1>1 DEF Call, Load, GiveUp, SawRoom
    <2>5. QED
      BY <2>2, <2>3, <2>4
  <1>2. ASSUME NEW p \in Procs, CompareAndSwap(p), current = seen[p]
        PROVE  IInv'
    <2>1. current' = current + 1 /\ seen' = seen
          /\ pc' = [pc EXCEPT ![p] = "holding"] /\ pc[p] = "cas"
      BY <1>2 DEF CompareAndSwap
    <2>2. current' \in 1 .. Max
      BY <1>2, <2>1 DEF SawRoom
    <2>3. Holders' = Holders \cup {p} /\ p \notin Holders
      BY <2>1 DEF Holders
    <2>4. Cardinality(Holders') = Cardinality(Holders) + 1
      BY <2>3, HoldersFinite, FS_AddElement
    <2>5. SawRoom'
      BY <2>1 DEF SawRoom
    <2>6. QED
      BY <2>1, <2>2, <2>4, <2>5 DEF CountsHolders
  <1>3. ASSUME NEW p \in Procs, CompareAndSwap(p), current # seen[p]
        PROVE  IInv'
    <2>1. current' = current /\ seen' = seen
          /\ pc' = [pc EXCEPT ![p] = "load"] /\ pc[p] = "cas"
      BY <1>3 DEF CompareAndSwap
    <2>2. Holders' = Holders
      BY <2>1 DEF Holders
    <2>3. QED
      BY <2>1, <2>2 DEF CountsHolders, SawRoom
  <1>4. ASSUME NEW p \in Procs, Release(p)
        PROVE  IInv'
    <2>1. current' = current - 1 /\ seen' = seen
          /\ pc' = [pc EXCEPT ![p] = "idle"] /\ pc[p] = "holding"
      BY <1>4 DEF Release
    <2>2. Holders' = Holders \ {p} /\ p \in Holders
      BY <2>1 DEF Holders
    <2>3. Cardinality(Holders') = Cardinality(Holders) - 1
      BY <2>2, HoldersFinite, FS_RemoveElement
    <2>4. Cardinality(Holders') \in Nat
      BY <2>2, HoldersFinite, FS_RemoveElement, FS_CardinalityType
    <2>5. current' \in 0 .. Max
      BY <2>1, <2>3, <2>4 DEF CountsHolders
    <2>6. SawRoom'
      BY <2>1 DEF SawRoom
    <2>7. QED
      BY <2>1, <2>3, <2>5, <2>6 DEF CountsHolders
  <1>5. CASE UNCHANGED vars
    BY <1>5 DEF vars, CountsHolders, Holders, SawRoom
  <1>6. QED
    BY <1>1, <1>2, <1>3, <1>4, <1>5 DEF Next

\* In every reachable state the counter lies in 0..Max.
THEOREM TypeCorrect == Spec => []TypeOK
  <1>1. IInv => TypeOK
    BY DEF IInv
  <1>2. QED
    BY InitIInv, NextIInv, <1>1, PTL DEF Spec

\* In every reachable state the counter is the number of acquired slots.
THEOREM SlotsCounted == Spec => []CountsHolders
  <1>1. IInv => CountsHolders
    BY DEF IInv
  <1>2. QED
    BY InitIInv, NextIInv, <1>1, PTL DEF Spec

-----------------------------------------------------------------------------
\* The semaphore's place, as the instance substitutes it.
Place == [p \in Procs |-> CASE pc[p] = "holding" -> "in"
                            [] pc[p] = "refused" -> "refused"
                            [] OTHER             -> "out"]

\* The instance's own copy of Cardinality is the Cardinality of FiniteSets.
LEMMA SameCardinality == \A S : Sem!Cardinality(S) = Cardinality(S)
  BY DEF Sem!Cardinality, Cardinality

\* Each step of the limiter is a step of the semaphore or leaves it alone.
LEMMA StepSimulation == IInv /\ IInv' /\ [Next]_vars => [Sem!Next]_Place
  <1> SUFFICES ASSUME IInv, IInv', [Next]_vars PROVE [Sem!Next]_Place
    OBVIOUS
  <1> USE LimiterAssumption DEF IInv, TypeOK, PcStates
  <1>1. Sem!Inside = Holders
    BY DEF Sem!Inside, Holders
  <1>2. Sem!Cardinality(Sem!Inside) = current
    BY <1>1, SameCardinality DEF CountsHolders
  <1>3. ASSUME NEW p \in Procs, Call(p) PROVE UNCHANGED Place
    BY <1>3 DEF Call, Place
  <1>4. ASSUME NEW p \in Procs, Load(p), current >= Max PROVE Sem!Refuse(p)
    BY <1>2, <1>4 DEF Load, Sem!Refuse
  <1>5. ASSUME NEW p \in Procs, Load(p), ~(current >= Max) PROVE UNCHANGED Place
    BY <1>5 DEF Load, Place
  <1>6. ASSUME NEW p \in Procs, CompareAndSwap(p), current = seen[p]
        PROVE  Sem!Enter(p)
    <2>1. pc[p] = "cas" /\ pc' = [pc EXCEPT ![p] = "holding"]
      BY <1>6 DEF CompareAndSwap
    <2>2. current < Max
      BY <1>6, <2>1 DEF SawRoom
    <2>3. QED
      BY <1>2, <2>1, <2>2 DEF Sem!Enter
  <1>7. ASSUME NEW p \in Procs, CompareAndSwap(p), current # seen[p]
        PROVE  UNCHANGED Place
    BY <1>7 DEF CompareAndSwap, Place
  <1>8. ASSUME NEW p \in Procs, Release(p) \/ GiveUp(p) PROVE Sem!Leave(p)
    BY <1>8 DEF Release, GiveUp, Sem!Leave
  <1>9. CASE UNCHANGED vars
    BY <1>9 DEF vars, Place
  <1>10. QED
    BY <1>3, <1>4, <1>5, <1>6, <1>7, <1>8, <1>9 DEF Next, Sem!Next

\* The compare-and-swap limiter implements the abstract semaphore: at most
\* Max callers are inside, and one is refused only while Max are inside.
THEOREM Implements == Spec => ImplementsSemaphore
  <1>1. Init => Sem!Init
    BY DEF Init, Sem!Init
  <1>2. QED
    BY <1>1, InitIInv, NextIInv, StepSimulation, PTL
    DEF Spec, ImplementsSemaphore, Sem!Spec, Place

-----------------------------------------------------------------------------
(* pkg/stats: events and partitions.                                       *)

DateInv ==
  /\ kind \in {"stats", "errors"}
  /\ month \in FirstMonth .. LastMonth /\ day \in Days /\ day <= LengthOf(month)
  /\ due => up

EventInv ==
  /\ channel \in 0 .. Capacity /\ batch \in 0 .. BatchSize
  /\ batch = BatchSize => flushing
  /\ accepted \in 0 .. MaxEvents /\ recorded \in Nat
  /\ channel + batch + recorded <= accepted
  /\ ~ excused => accepted = channel + batch + recorded

ServerInv ==
  /\ connected => up
  /\ settled \in 0 .. 2 /\ starts \in 0 .. MaxStarts
  /\ settled # 0 => connected

\* The partition of the next month is asked for on the 28th at the latest.
AheadInv ==
  /\ covered \subseteq 0 .. LastMonth + 4
  /\ ~ ddlFailed =>
       /\ settled = 2 => month \in covered
       /\ settled # 0 /\ day > 28 => month + 1 \in covered
       /\ settled # 0 /\ day = 28 /\ ~ due => month + 1 \in covered

FlagsInv == {due, up, connected, ddlFailed, flushing, excused} \subseteq BOOLEAN

StatsInv == FlagsInv /\ DateInv /\ EventInv /\ ServerInv /\ AheadInv

LEMMA FlagsKeep ==
  ASSUME FlagsInv, StatsNext
  PROVE  FlagsInv'
  <1> USE DEF FlagsInv
  <1>1. CASE StatsStart
    <2>1. CASE connected' = TRUE /\ EnsurePartition(<<month, day>>, covered \cup {April, April + 1})
      BY <1>1, <2>1 DEF StatsStart, EnsurePartition, dateVars, eventVars
    <2>2. CASE UNCHANGED <<connected, settled, partitionVars>>
      BY <1>1, <2>2 DEF StatsStart, dateVars, eventVars, partitionVars
    <2> QED
      BY <1>1, <2>1, <2>2 DEF StatsStart
  <1>2. CASE Stop
    BY <1>2 DEF Stop, Dies, partitionVars
  <1>3. CASE Midnight
    BY <1>3 DEF Midnight, eventVars, partitionVars
  <1>4. CASE DailyJob
    <2>1. CASE EnsurePartition(<<month, day>>, covered) /\ UNCHANGED <<serverVars, eventVars>>
      BY <1>4, <2>1 DEF DailyJob, EnsurePartition, serverVars, eventVars
    <2>2. CASE Dies /\ UNCHANGED <<starts, partitionVars>>
      BY <1>4, <2>2 DEF DailyJob, Dies, partitionVars
    <2> QED
      BY <1>4, <2>1, <2>2 DEF DailyJob
  <1>5. CASE Track
    BY <1>5 DEF Track, dateVars, serverVars, partitionVars
  <1>6. CASE StatsWorker
    <2>1. CASE Receive
      <3>1. flushing' = (batch + 1 >= BatchSize)
        BY <2>1 DEF Receive
      <3>2. flushing' \in BOOLEAN
        <4>1. CASE batch + 1 >= BatchSize
          BY <3>1, <4>1, Zenon
        <4>2. CASE ~ (batch + 1 >= BatchSize)
          <5>1. ~ flushing'
            BY <2>1, <4>2 DEF Receive
          <5> QED
            BY <3>1, <4>2, <5>1, SMT
        <4> QED
          BY <4>1, <4>2
      <3>3. UNCHANGED <<due, up, connected, ddlFailed, excused>>
        BY <2>1 DEF Receive, dateVars, serverVars, partitionVars
      <3> QED
        BY <3>2, <3>3
    <2>2. CASE Tick
      BY <2>2 DEF Tick, dateVars, serverVars, partitionVars
    <2>3. CASE FlushBatch
      BY <2>3 DEF FlushBatch, dateVars, serverVars, partitionVars
    <2> QED
      BY <1>6, <2>1, <2>2, <2>3 DEF StatsWorker
  <1> QED
    BY <1>1, <1>2, <1>3, <1>4, <1>5, <1>6 DEF StatsNext

\* Every month has 28 days, and at most 31.
LEMMA MonthLengths == \A m \in Nat : LengthOf(m) \in {28, 30, 31}
  BY DEF LengthOf

LEMMA DaysInOrder ==
  ASSUME DateInv, NEW d \in Days, NEW n \in Days, n > d, \A e \in Days : e > d => n <= e
  PROVE  (CHOOSE x \in Days : x > d /\ \A e \in Days : e > d => x <= e) = n
  BY DEF Days

\* The days that the model has follow each other.
LEMMA NextDay ==
  ASSUME DateInv
  PROVE  \/ day < LengthOf(month) /\ Tomorrow[1] = month /\ Tomorrow[2] \in Days
            /\ Tomorrow[2] > day /\ Tomorrow[2] <= LengthOf(month)
            /\ (day = 1 => Tomorrow[2] = 28)
         \/ day = LengthOf(month) /\ day >= 28 /\ Tomorrow = <<month + 1, 1>>
  <1> DEFINE next == CHOOSE x \in Days : x > day /\ \A e \in Days : e > day => x <= e
  <1>1. LengthOf(month) \in {28, 30, 31} /\ month \in Nat
    BY MonthLengths, StatsAssumption DEF DateInv
  <1>2. CASE day < LengthOf(month)
    <2>1. day \in {1, 28, 29, 30} /\ day \in Days
      BY <1>1, <1>2 DEF DateInv, Days
    <2>2. next \in Days /\ next > day /\ next <= LengthOf(month) /\ (day = 1 => next = 28)
      <3>1. CASE day = 1
        <4>1. next = 28
          BY <3>1, <2>1, DaysInOrder DEF Days
        <4> QED
          BY <1>1, <3>1, <4>1 DEF Days
      <3>2. CASE day = 28
        <4>1. next = 29
          BY <3>2, <2>1, DaysInOrder DEF Days
        <4> QED
          BY <1>1, <1>2, <3>2, <4>1 DEF Days
      <3>3. CASE day = 29
        <4>1. next = 30
          BY <3>3, <2>1, DaysInOrder DEF Days
        <4> QED
          BY <1>1, <1>2, <3>3, <4>1 DEF Days
      <3>4. CASE day = 30
        <4>1. next = 31
          BY <3>4, <2>1, DaysInOrder DEF Days
        <4> QED
          BY <1>1, <1>2, <3>4, <4>1 DEF Days
      <3> QED
        BY <2>1, <3>1, <3>2, <3>3, <3>4
    <2>3. Tomorrow = <<month, next>>
      BY <1>2 DEF Tomorrow
    <2> QED
      BY <1>2, <2>2, <2>3
  <1>3. CASE ~ day < LengthOf(month)
    <2>1. day = LengthOf(month)
      BY <1>1, <1>3 DEF DateInv, Days
    <2> QED
      BY <1>1, <1>3, <2>1 DEF Tomorrow
  <1> QED
    BY <1>2, <1>3

\* Up to the 28th the partition is that of the next month, and later it is no
\* further ahead than the months that a partition may cover.
LEMMA PartitionsAhead ==
  ASSUME NEW m \in FirstMonth .. LastMonth, NEW d \in Days
  PROVE  /\ PartitionFor(<<m, d>>) \subseteq 0 .. LastMonth + 4
         /\ d <= 28 => PartitionFor(<<m, d>>) = {m + 1}
  <1>1. m \in Nat /\ m <= LastMonth /\ LastMonth \in Nat /\ d \in Nat
    BY StatsAssumption DEF Days
  <1> DEFINE next == AddMonth(<<m, d>>)
  <1>2. /\ next[1] \in {m + 1, m + 2} /\ next[2] \in Nat
        /\ d <= 28 => next = <<m + 1, d>>
    BY <1>1, MonthLengths DEF AddMonth
  <1>3. /\ AddMonth(next)[1] \in {next[1] + 1, next[1] + 2}
        /\ next[2] <= 28 => AddMonth(next)[1] = next[1] + 1
    BY <1>1, <1>2, MonthLengths DEF AddMonth
  <1>4. PartitionFor(<<m, d>>) = next[1] .. AddMonth(next)[1] - 1
    BY DEF PartitionFor
  <1> HIDE DEF next
  <1> QED
    BY <1>1, <1>2, <1>3, <1>4

\* Whatever is covered stays covered, and the month that is asked for is.
LEMMA Ensures ==
  ASSUME DateInv, NEW before \in SUBSET (0 .. LastMonth + 4), EnsurePartition(<<month, day>>, before)
  PROVE  /\ covered' \subseteq 0 .. LastMonth + 4 /\ before \subseteq covered'
         /\ ddlFailed => ddlFailed'
         /\ ddlFailed' \/ (day <= 28 => month + 1 \in covered')
  <1> DEFINE asked == PartitionFor(<<month, day>>)
  <1>1. asked \subseteq 0 .. LastMonth + 4 /\ (day <= 28 => asked = {month + 1})
    BY PartitionsAhead DEF DateInv
  <1>2. CASE covered' = (IF asked \cap before = {} THEN before \cup asked ELSE before) /\ UNCHANGED ddlFailed
    <2> HIDE DEF asked
    <2>1. covered' \subseteq 0 .. LastMonth + 4 /\ before \subseteq covered' /\ (day <= 28 => month + 1 \in covered')
      BY <1>1, <1>2
    <2> QED
      BY <1>2, <2>1
  <1>3. CASE covered' = before /\ ddlFailed' = TRUE
    BY <1>3
  <1> QED
    BY <1>2, <1>3 DEF EnsurePartition

\* A stop loses what is in memory, and says so.
LEMMA DeathKeeps ==
  ASSUME EventInv, Dies
  PROVE  EventInv'
  <1>1. channel' = 0 /\ batch' = 0 /\ UNCHANGED <<accepted, recorded>>
    BY DEF Dies
  <1>2. ~ excused' => ~ excused /\ ~ (channel + batch > 0)
    BY DEF Dies, Backlog
  <1>3. ~ excused' => accepted = recorded
    BY <1>2 DEF EventInv
  <1> QED
    BY <1>1, <1>3, StatsAssumption DEF EventInv

LEMMA EventStepKeeps ==
  ASSUME StatsInv, Track \/ StatsWorker
  PROVE  DateInv' /\ EventInv' /\ ServerInv' /\ AheadInv'
  <1>1. UNCHANGED <<dateVars, serverVars, partitionVars>>
    BY DEF Track, StatsWorker, Receive, Tick, FlushBatch
  <1>2. DateInv' /\ ServerInv' /\ AheadInv'
    BY <1>1 DEF StatsInv, DateInv, ServerInv, AheadInv, dateVars, serverVars, partitionVars
  <1>3. EventInv'
    <2> USE StatsAssumption DEF StatsInv, EventInv
    <2>1. CASE Track
      BY <2>1 DEF Track
    <2>2. CASE Receive
      <3>1. /\ ~ flushing /\ channel > 0 /\ channel' = channel - 1 /\ batch' = batch + 1
            /\ UNCHANGED <<accepted, recorded, excused>>
        BY <2>2 DEF Receive
      <3>2. batch + 1 >= BatchSize => flushing'
        BY <2>2 DEF Receive
      <3>3. batch # BatchSize
        BY <3>1
      <3>4. batch' \in 0 .. BatchSize /\ channel' \in 0 .. Capacity /\ channel' + batch' = channel + batch
        BY <3>1, <3>3
      <3>5. batch' = BatchSize => flushing'
        BY <3>1, <3>2
      <3> QED
        BY <3>1, <3>2, <3>4, <3>5
    <2>3. CASE Tick
      BY <2>3 DEF Tick
    <2>4. CASE FlushBatch
      <3>1. batch' = 0 /\ UNCHANGED <<channel, accepted>>
        BY <2>4 DEF FlushBatch
      <3>2. CASE recorded' = recorded + batch /\ UNCHANGED excused
        BY <3>1, <3>2
      <3>3. CASE excused' /\ UNCHANGED recorded
        BY <3>1, <3>3
      <3> QED
        BY <2>4, <3>2, <3>3 DEF FlushBatch
    <2> QED
      BY <2>1, <2>2, <2>3, <2>4 DEF StatsWorker
  <1> QED
    BY <1>2, <1>3

LEMMA StartKeeps ==
  ASSUME StatsInv, StatsStart
  PROVE  DateInv' /\ EventInv' /\ ServerInv' /\ AheadInv'
  <1>1. /\ ~ up /\ up' = TRUE /\ starts < MaxStarts /\ starts' = starts + 1
        /\ UNCHANGED <<kind, month, day, due, channel, batch, flushing, accepted, recorded, excused>>
        /\ ~ connected /\ settled = 0
    BY DEF StatsStart, dateVars, eventVars, StatsInv, ServerInv
  <1>2. DateInv' /\ EventInv'
    BY <1>1 DEF StatsInv, DateInv, EventInv
  <1>3. CASE connected' = TRUE /\ settled' = (IF day <= 28 THEN 1 ELSE 0)
             /\ EnsurePartition(<<month, day>>, covered \cup {April, April + 1})
    <2>1. covered \cup {April, April + 1} \in SUBSET (0 .. LastMonth + 4)
      BY StatsAssumption DEF StatsInv, AheadInv, April
    <2>2. /\ covered' \subseteq 0 .. LastMonth + 4 
          /\ ddlFailed' \/ (day <= 28 => month + 1 \in covered')
      BY <1>3, <2>1, Ensures DEF StatsInv, AheadInv
    <2>3. ServerInv'
      <3>1. settled' \in 0 .. 2 /\ starts' \in 0 .. MaxStarts
        BY <1>1, <1>3, StatsAssumption DEF StatsInv, ServerInv
      <3> QED
        BY <1>1, <1>3, <3>1 DEF StatsInv, ServerInv
    <2>4. AheadInv'
      BY <1>1, <1>3, <2>2 DEF AheadInv, StatsInv, DateInv, Days
    <2> QED
      BY <1>2, <2>3, <2>4
  <1>4. CASE UNCHANGED <<connected, settled, partitionVars>>
    <2>1. starts' \in 0 .. MaxStarts
      BY <1>1, StatsAssumption DEF StatsInv, ServerInv
    <2>2. ServerInv'
      BY <1>1, <1>4, <2>1 DEF StatsInv, ServerInv
    <2>3. AheadInv'
      BY <1>1, <1>4 DEF StatsInv, AheadInv, partitionVars
    <2> QED
      BY <1>2, <2>2, <2>3
  <1> QED
    BY <1>3, <1>4 DEF StatsStart

LEMMA StopKeeps ==
  ASSUME StatsInv, Stop
  PROVE  DateInv' /\ EventInv' /\ ServerInv' /\ AheadInv'
  <1>1. EventInv'
    BY DeathKeeps DEF StatsInv, Stop
  <1>2. DateInv'
    BY DEF Stop, Dies, StatsInv, DateInv
  <1>3. ServerInv'
    BY DEF Stop, Dies, StatsInv, ServerInv
  <1>4. AheadInv'
    BY DEF Stop, Dies, StatsInv, AheadInv, partitionVars
  <1> QED
    BY <1>1, <1>2, <1>3, <1>4

\* The 28th has passed, and its job with it, before the month turns.
LEMMA MidnightKeeps ==
  ASSUME StatsInv, Midnight
  PROVE  DateInv' /\ EventInv' /\ ServerInv' /\ AheadInv'
  <1>1. /\ ~ due /\ Tomorrow[1] <= LastMonth /\ month' = Tomorrow[1] /\ day' = Tomorrow[2] /\ due' = up
        /\ settled' = IF connected /\ month' > month /\ settled < 2 THEN settled + 1 ELSE settled
        /\ UNCHANGED <<kind, up, connected, starts, channel, batch, flushing, accepted, recorded,
                       excused, covered, ddlFailed>>
    BY DEF Midnight, eventVars, partitionVars
  <1>2. EventInv'
    BY <1>1 DEF StatsInv, EventInv
  <1>3. month \in Nat /\ month >= FirstMonth /\ FirstMonth \in Nat /\ LastMonth \in Nat /\ month <= LastMonth
    BY StatsAssumption DEF StatsInv, DateInv
  <1>4. settled' \in 0 .. 2 /\ (settled' # 0 => connected) /\ (month' = month => settled' = settled)
    BY <1>1, <1>3 DEF StatsInv, ServerInv
  <1>5. ServerInv'
    BY <1>1, <1>4 DEF StatsInv, ServerInv
  <1>6. CASE /\ day < LengthOf(month) /\ month' = month /\ day' \in Days
             /\ day' > day /\ day' <= LengthOf(month) /\ (day = 1 => day' = 28)
    <2>1. DateInv'
      BY <1>1, <1>6 DEF StatsInv, DateInv, ServerInv
    <2>2. day \in {1, 28, 29, 30, 31} /\ (day' > 28 => day >= 28)
      BY <1>6 DEF StatsInv, DateInv, Days
    <2>3. settled # 0 => due'
      BY <1>1 DEF StatsInv, ServerInv
    <2>4. AheadInv'
      BY <1>1, <1>3, <1>4, <1>6, <2>2, <2>3 DEF StatsInv, AheadInv
    <2> QED
      BY <1>2, <1>5, <2>1, <2>4
  <1>7. CASE day = LengthOf(month) /\ day >= 28 /\ month' = month + 1 /\ day' = 1
    <2>1. LengthOf(month') \in {28, 30, 31}
      BY <1>3, <1>7, MonthLengths
    <2>2. DateInv'
      BY <1>1, <1>3, <1>7, <2>1 DEF StatsInv, DateInv, ServerInv, Days
    <2>3. ~ ddlFailed /\ settled' = 2 => month + 1 \in covered
      BY <1>1, <1>3, <1>7 DEF StatsInv, AheadInv, ServerInv, DateInv, Days
    <2>4. AheadInv'
      BY <1>1, <1>7, <2>3 DEF StatsInv, AheadInv
    <2> QED
      BY <1>2, <1>5, <2>2, <2>4
  <1> QED
    BY <1>1, <1>6, <1>7, NextDay DEF StatsInv

LEMMA DailyJobKeeps ==
  ASSUME StatsInv, DailyJob
  PROVE  DateInv' /\ EventInv' /\ ServerInv' /\ AheadInv'
  <1>1. due /\ ~ due' /\ up /\ UNCHANGED <<kind, month, day>>
    BY DEF DailyJob, StatsInv, DateInv
  <1>2. DateInv'
    BY <1>1 DEF DailyJob, StatsInv, DateInv
  <1>3. CASE /\ connected /\ EnsurePartition(<<month, day>>, covered) /\ UNCHANGED <<serverVars, eventVars>>
    <2>1. /\ covered' \subseteq 0 .. LastMonth + 4 /\ covered \subseteq covered'
          /\ ddlFailed => ddlFailed'
          /\ ddlFailed' \/ (day <= 28 => month + 1 \in covered')
      BY <1>3, Ensures DEF StatsInv, AheadInv
    <2>2. EventInv' /\ ServerInv'
      BY <1>3 DEF StatsInv, EventInv, ServerInv, eventVars, serverVars
    <2>3. AheadInv'
      <3>1. day \in {1, 28, 29, 30, 31}
        BY DEF StatsInv, DateInv, Days
      <3>2. settled' = settled /\ month' = month /\ day' = day
        BY <1>1, <1>3 DEF serverVars
      <3> QED
        <4>1. ~ ddlFailed' => ~ ddlFailed
          BY <2>1
        <4>2. ~ ddlFailed' /\ settled' # 0 /\ day' >= 28 => month' + 1 \in covered'
          <5>1. CASE day <= 28
            BY <2>1, <3>2, <5>1
          <5>2. CASE day > 28
            <6>1. settled # 0 /\ ~ ddlFailed => month + 1 \in covered
              BY <5>2 DEF StatsInv, AheadInv
            <6> QED
              BY <2>1, <3>2, <4>1, <6>1
          <5> QED
            BY <3>1, <5>1, <5>2
        <4>3. ~ ddlFailed' /\ settled' = 2 => month' \in covered'
          BY <2>1, <3>2, <4>1 DEF StatsInv, AheadInv
        <4> QED
          BY <2>1, <3>1, <3>2, <4>2, <4>3 DEF AheadInv
    <2> QED
      BY <1>2, <2>2, <2>3
  <1>4. CASE ~ connected /\ Dies /\ UNCHANGED <<starts, partitionVars>>
    <2>1. EventInv'
      BY <1>4, DeathKeeps DEF StatsInv
    <2>2. ServerInv'
      BY <1>4 DEF StatsInv, ServerInv, Dies
    <2>3. AheadInv'
      BY <1>1, <1>4 DEF StatsInv, AheadInv, Dies, partitionVars
    <2> QED
      BY <1>2, <2>1, <2>2, <2>3
  <1> QED
    BY <1>3, <1>4 DEF DailyJob

\* EventsAreCounted: the batch is emptied exactly when its events are recorded
\* or excused, and the 28th, which every month has, asks for the partition of
\* the month to come.
THEOREM EventsStayCounted == StatsSpec => []EventsAreCounted
  <1>1. StatsInit => StatsInv
    <2> SUFFICES ASSUME StatsInit PROVE StatsInv
      OBVIOUS
    <2>1. LengthOf(FirstMonth) \in {28, 30, 31} /\ FirstMonth \in FirstMonth .. LastMonth
      BY StatsAssumption, MonthLengths
    <2>2. DateInv
      <3>1. /\ kind \in {"stats", "errors"} /\ month = FirstMonth /\ day = 1 /\ due = FALSE
        BY DEF StatsInit
      <3>2. day \in Days /\ day <= LengthOf(FirstMonth)
        BY <2>1, <3>1 DEF Days
      <3> QED
        BY <2>1, <3>1, <3>2 DEF DateInv
    <2>3. EventInv
      BY StatsAssumption DEF StatsInit, EventInv
    <2>4. ServerInv
      BY StatsAssumption DEF StatsInit, ServerInv
    <2>5. AheadInv
      BY StatsAssumption DEF StatsInit, AheadInv
    <2>6. FlagsInv
      BY DEF StatsInit, FlagsInv
    <2> QED
      BY <2>2, <2>3, <2>4, <2>5, <2>6 DEF StatsInv
  <1>2. StatsInv /\ [StatsNext]_statsVars => StatsInv'
    <2> SUFFICES ASSUME StatsInv, [StatsNext]_statsVars PROVE StatsInv'
      OBVIOUS
    <2>1. CASE StatsNext
      <3>1. FlagsInv'
        BY <2>1, FlagsKeep DEF StatsInv
      <3> QED
        BY <2>1, <3>1, EventStepKeeps, StartKeeps, StopKeeps, MidnightKeeps, DailyJobKeeps
        DEF StatsNext, StatsInv
    <2>2. CASE UNCHANGED statsVars
      BY <2>2 DEF statsVars, dateVars, eventVars, serverVars, partitionVars,
                  StatsInv, FlagsInv, DateInv, EventInv, ServerInv, AheadInv
    <2> QED
      BY <2>1, <2>2
  <1>3. StatsInv => EventsAreCounted
    <2> SUFFICES ASSUME StatsInv PROVE EventsAreCounted
      OBVIOUS
    <2>1. recorded \in 0 .. MaxEvents
      BY StatsAssumption DEF StatsInv, EventInv
    <2>2. {due, up, connected, ddlFailed, flushing, excused} \subseteq BOOLEAN
      BY DEF StatsInv, FlagsInv
    <2>3. StatsTypeOK
      BY <2>1, <2>2 DEF StatsInv, DateInv, EventInv, ServerInv, AheadInv, StatsTypeOK
    <2>4. RecordedOnce
      BY StatsAssumption DEF StatsInv, EventInv, RecordedOnce, Backlog
    <2>5. PartitionReady
      BY DEF StatsInv, AheadInv, PartitionReady
    <2> QED
      BY <2>3, <2>4, <2>5 DEF EventsAreCounted
  <1> QED
    BY <1>1, <1>2, <1>3, PTL DEF StatsSpec

-----------------------------------------------------------------------------
(* The stores: IPTV, then leaks.                                           *)

\* The refresher, and what the stages of the first load have brought.
RefreshInv ==
  /\ site \in Sites
  /\ channels \in SUBSET Channels /\ streams \in SUBSET Channels
  /\ channelsByCountry \in SUBSET Channels /\ streamsByChannelID \in SUBSET Channels
  /\ known \subseteq {"country", "category"}
  /\ refresher \in RefresherStates
  /\ edits \in 0 .. MaxEdits

\* A refresh of the streams begins with indexes that fit, and so does waiting.
StagesInv ==
  /\ refresher \in {"initStreams", "initCountries", "initBuild"} => channels # {}
  /\ refresher \in {"initCountries", "initBuild"} => streams # {}
  /\ refresher \in {"waiting", "streams"} =>
       channelsByCountry = channels /\ streamsByChannelID = streams
  /\ StaysLoaded

ViewersType ==
  /\ viewer \in [Viewers -> {"idle", "checked", "listing"}]
  /\ ask \in [Viewers -> Asks]
  /\ listed \in [Viewers -> SUBSET Channels]
  /\ bare \in [Viewers -> SUBSET Channels]
  /\ rebuilt \in [Viewers -> BOOLEAN]

\* A viewer that reads one index all along finds what the index had.
OneIndexFits ==
  \A v \in Viewers :
    /\ viewer[v] # "listing" => bare[v] = {}
    /\ ask[v].streamsOnly /\ ~ rebuilt[v] =>
         bare[v] = {} /\ (viewer[v] = "listing" => listed[v] \subseteq streamsByChannelID)

ViewersInv == ViewersType /\ OneIndexFits

IptvInv == RefreshInv /\ StagesInv /\ ViewersInv

LEMMA IptvInvInit == IptvInit => IptvInv
  <1> SUFFICES ASSUME IptvInit PROVE IptvInv
    OBVIOUS
  <1>1. RefreshInv /\ StagesInv
    BY IptvAssumption DEF IptvInit, RefreshInv, StagesInv, StaysLoaded, RefresherStates
  <1>2. NoAsk \in Asks
    BY DEF NoAsk, Asks
  <1>3. ViewersInv
    BY <1>2 DEF IptvInit, ViewersInv, ViewersType, OneIndexFits
  <1> QED
    BY <1>1, <1>3 DEF IptvInv

LEMMA RefreshKeeps ==
  ASSUME IptvInv, Edit \/ LoadChannels \/ LoadStreams \/ LoadCountries \/ StaticTick \/ StreamTick
  PROVE  IptvInv'
  <1>1. UNCHANGED <<viewer, ask, listed, bare, rebuilt, streamsByChannelID>>
    BY DEF Edit, LoadChannels, LoadStreams, LoadCountries, StaticTick, StreamTick, viewerVars, indexVars
  <1>2. ViewersInv'
    BY <1>1 DEF IptvInv, ViewersInv, ViewersType, OneIndexFits
  <1> USE DEF IptvInv, RefreshInv, StagesInv, StaysLoaded, RefresherStates, listVars, indexVars
  <1>3. CASE Edit
    BY <1>2, <1>3, IptvAssumption DEF Edit
  <1>4. CASE LoadChannels
    <2>1. site.channels \in SUBSET Channels /\ site.channels # {}
      BY DEF Sites
    <2>2. channels' = site.channels \/ channels' = channels
      BY <1>4 DEF LoadChannels
    <2>3. RefreshInv'
      BY <1>4, <2>1, <2>2 DEF LoadChannels
    <2>4. StagesInv'
      BY <1>4, <2>1 DEF LoadChannels
    <2> QED
      BY <1>2, <2>3, <2>4
  <1>5. CASE LoadStreams
    <2>1. site.streams \in SUBSET Channels /\ site.streams # {}
      BY DEF Sites
    <2>2. streams' = site.streams \/ streams' = streams
      BY <1>5 DEF LoadStreams
    <2>3. RefreshInv'
      BY <1>5, <2>1, <2>2 DEF LoadStreams
    <2>4. StagesInv'
      BY <1>5, <2>1 DEF LoadStreams
    <2> QED
      BY <1>2, <2>3, <2>4
  <1>6. CASE LoadCountries
    BY <1>2, <1>6 DEF LoadCountries
  <1>7. CASE StaticTick \/ StreamTick
    BY <1>2, <1>7 DEF StaticTick, StreamTick
  <1> QED
    BY <1>3, <1>4, <1>5, <1>6, <1>7

LEMMA BuildKeeps == ASSUME IptvInv, BuildIptvIndexes PROVE IptvInv'
  <1>1. RefreshInv' /\ StagesInv'
    BY DEF BuildIptvIndexes, IptvInv, RefreshInv, StagesInv, StaysLoaded, RefresherStates, listVars
  <1>2. UNCHANGED <<viewer, ask, listed, bare>>
    BY DEF BuildIptvIndexes, viewerVars
  <1>3. rebuilt' \in [Viewers -> BOOLEAN]
    BY DEF BuildIptvIndexes
  <1>4. \A v \in Viewers : (rebuilt[v] => rebuilt'[v]) /\ (viewer[v] = "listing" => rebuilt'[v])
    BY DEF BuildIptvIndexes
  <1>5. ViewersInv'
    BY <1>2, <1>3, <1>4 DEF IptvInv, ViewersInv, ViewersType, OneIndexFits
  <1> QED
    BY <1>1, <1>5 DEF IptvInv

\* What a viewer does leaves the store alone.
LEMMA ViewerLeaves ==
  ASSUME IptvInv, UNCHANGED <<site, listVars, indexVars, refresher, edits>>
  PROVE  RefreshInv' /\ StagesInv'
  BY DEF IptvInv, RefreshInv, StagesInv, StaysLoaded, listVars, indexVars

LEMMA ViewerKeeps ==
  ASSUME IptvInv, NEW v \in Viewers,
         \/ \E a \in Asks, names \in SUBSET {"country", "category"} : Check(v, a, names)
         \/ GetChannels(v) \/ Answer(v)
         \/ \E c \in Channels : GetStreams(v, c)
  PROVE  IptvInv'
  <1>1. UNCHANGED <<site, listVars, indexVars, refresher, edits>>
    BY DEF Check, GetChannels, Answer, GetStreams
  <1>2. streamsByChannelID' = streamsByChannelID
    BY <1>1 DEF indexVars
  <1>3. ASSUME NEW a \in Asks, NEW names, Check(v, a, names)
        PROVE  ViewersInv'
    BY <1>2, <1>3 DEF Check, IptvInv, ViewersInv, ViewersType, OneIndexFits
  <1>4. CASE GetChannels(v)
    <2>1. Chosen(ask[v]) \in SUBSET Channels
      BY DEF Chosen, IptvInv, RefreshInv
    <2>2. ask[v].streamsOnly => Chosen(ask[v]) \subseteq streamsByChannelID
      BY DEF Chosen
    <2>3. /\ UNCHANGED <<ask, bare, rebuilt>>
          /\ viewer' = [viewer EXCEPT ![v] = "listing"] /\ viewer[v] = "checked"
          /\ listed' = [listed EXCEPT ![v] = Chosen(ask[v])]
      BY <1>4 DEF GetChannels
    <2>4. /\ viewer' \in [Viewers -> {"idle", "checked", "listing"}]
          /\ listed' \in [Viewers -> SUBSET Channels]
      BY <2>1, <2>3 DEF IptvInv, ViewersInv, ViewersType, OneIndexFits
    <2>7. /\ ask' \in [Viewers -> Asks] /\ bare' \in [Viewers -> SUBSET Channels]
          /\ rebuilt' \in [Viewers -> BOOLEAN]
      BY <2>3 DEF IptvInv, ViewersInv, ViewersType, OneIndexFits
    <2>5. bare[v] = {}
      BY <2>3 DEF IptvInv, ViewersInv, ViewersType, OneIndexFits
    <2>6. ASSUME NEW w \in Viewers
          PROVE  /\ viewer'[w] # "listing" => bare'[w] = {}
                 /\ ask'[w].streamsOnly /\ ~ rebuilt'[w] =>
                      bare'[w] = {} /\ (viewer'[w] = "listing" => listed'[w] \subseteq streamsByChannelID')
      <3>1. CASE w = v
        BY <1>2, <2>2, <2>3, <2>4, <2>5, <3>1 DEF IptvInv, ViewersInv, ViewersType, OneIndexFits
      <3>2. CASE w # v
        <4>1. viewer'[w] = viewer[w] /\ listed'[w] = listed[w]
          BY <2>3, <3>2 DEF IptvInv, ViewersInv, ViewersType, OneIndexFits
        <4> QED
          BY <1>2, <2>3, <4>1 DEF IptvInv, ViewersInv, ViewersType, OneIndexFits
      <3> QED
        BY <3>1, <3>2
    <2> QED
      <3>1. ViewersType'
        BY <2>4, <2>7 DEF ViewersType
      <3>2. OneIndexFits'
        BY <2>6 DEF OneIndexFits
      <3> QED
        BY <1>1, <3>1, <3>2, ViewerLeaves DEF IptvInv, ViewersInv
  <1>5. CASE Answer(v)
    <2>1. NoAsk \in Asks /\ ~ NoAsk.streamsOnly
      BY DEF NoAsk, Asks
    <2>3. /\ UNCHANGED listed
          /\ viewer' = [viewer EXCEPT ![v] = "idle"] /\ ask' = [ask EXCEPT ![v] = NoAsk]
          /\ bare' = [bare EXCEPT ![v] = {}] /\ rebuilt' = [rebuilt EXCEPT ![v] = FALSE]
      BY <1>5 DEF Answer
    <2>4. /\ viewer' \in [Viewers -> {"idle", "checked", "listing"}]
          /\ bare' \in [Viewers -> SUBSET Channels] /\ listed' \in [Viewers -> SUBSET Channels]
      BY <2>3 DEF IptvInv, ViewersInv, ViewersType, OneIndexFits
    <2>5. ask' \in [Viewers -> Asks] /\ rebuilt' \in [Viewers -> BOOLEAN]
      BY <2>1, <2>3 DEF IptvInv, ViewersInv, ViewersType, OneIndexFits
    <2>6. ASSUME NEW w \in Viewers
          PROVE  /\ viewer'[w] # "listing" => bare'[w] = {}
                 /\ ask'[w].streamsOnly /\ ~ rebuilt'[w] =>
                      bare'[w] = {} /\ (viewer'[w] = "listing" => listed'[w] \subseteq streamsByChannelID')
      <3>1. CASE w = v
        BY <2>1, <2>3, <3>1 DEF IptvInv, ViewersInv, ViewersType, OneIndexFits
      <3>2. CASE w # v
        <4>1. /\ viewer'[w] = viewer[w] /\ ask'[w] = ask[w] /\ bare'[w] = bare[w]
              /\ rebuilt'[w] = rebuilt[w]
          BY <2>3, <3>2 DEF IptvInv, ViewersInv, ViewersType, OneIndexFits
        <4> QED
          BY <1>2, <2>3, <4>1 DEF IptvInv, ViewersInv, ViewersType, OneIndexFits
      <3> QED
        BY <3>1, <3>2
    <2> QED
      <3>1. ViewersType'
        BY <2>4, <2>5 DEF ViewersType
      <3>2. OneIndexFits'
        BY <2>6 DEF OneIndexFits
      <3> QED
        BY <1>1, <3>1, <3>2, ViewerLeaves DEF IptvInv, ViewersInv
  <1>6. ASSUME NEW c \in Channels, GetStreams(v, c)
        PROVE  ViewersInv'
    BY <1>2, <1>6 DEF GetStreams, IptvInv, ViewersInv, ViewersType, OneIndexFits
  <1> QED
    BY <1>1, <1>3, <1>4, <1>5, <1>6, ViewerLeaves DEF IptvInv

\* The lists and their indexes, for any channels, any number of requests and
\* of changes at the site: a store that was loaded stays so, its indexes are
\* those of its lists between refreshes, and a request finds a channel without
\* streams only after a rebuild.
THEOREM IndexesStay == IptvSpec => []ListsStayIndexed
  <1>1. IptvInv /\ [IptvNext]_iptvVars => IptvInv'
    <2> SUFFICES ASSUME IptvInv, [IptvNext]_iptvVars PROVE IptvInv'
      OBVIOUS
    <2>1. CASE UNCHANGED iptvVars
      <3>1. UNCHANGED <<site, listVars, indexVars, refresher, edits>> /\ UNCHANGED <<viewerVars, rebuilt>>
        BY <2>1 DEF iptvVars
      <3>2. ViewersInv'
        BY <3>1 DEF IptvInv, ViewersInv, ViewersType, OneIndexFits, viewerVars, indexVars
      <3> QED
        BY <3>1, <3>2, ViewerLeaves DEF IptvInv
    <2> QED
      BY <2>1, RefreshKeeps, BuildKeeps, ViewerKeeps DEF IptvNext, Refresh
  <1>2. IptvInv => ListsStayIndexed
    <2> SUFFICES ASSUME IptvInv PROVE ListsStayIndexed
      OBVIOUS
    <2>1. IptvTypeOK
      BY DEF IptvInv, RefreshInv, ViewersInv, ViewersType, OneIndexFits, IptvTypeOK
    <2>2. IndexesFollow /\ StaysLoaded
      BY DEF IptvInv, StagesInv, IndexesFollow
    <2>3. BareOnlyIfRebuilt
      BY DEF IptvInv, ViewersInv, ViewersType, OneIndexFits, BareOnlyIfRebuilt
    <2> QED
      BY <2>1, <2>2, <2>3 DEF ListsStayIndexed
  <1> QED
    BY <1>1, <1>2, IptvInvInit, PTL DEF IptvSpec

-----------------------------------------------------------------------------
LeakTypes ==
  /\ files \subseteq Rows
  /\ tables \in [Names -> Table]
  /\ \A t \in swapping : t \in [Names -> Table]
  /\ goal \in [Loaders -> SUBSET Rows]
  /\ left \in [Loaders -> SUBSET Rows]
  /\ failed \in [Loaders -> SUBSET Rows]
  /\ ops \in 0 .. MaxOps /\ crashes \in 0 .. MaxCrashes
  /\ {dropping, dropLost, running} \subseteq BOOLEAN
  /\ added \subseteq Rows

SearchTypes ==
  /\ searcher \in [Searchers -> {"idle", "querying", "read"}]
  /\ found \in [Searchers -> SUBSET Rows]
  /\ searchCache \subseteq SUBSET Rows

\* Who works holds the lock, and the load at the start is over by then.
LockInv ==
  /\ writer \in [Loaders -> WriterStates]
  /\ writeLock = {} \/ \E w \in Writers : writeLock = {w}
  /\ \A w \in Writers : writer[w] # "idle" => writeLock = {w} /\ running /\ writer[Boot] = "idle"
  /\ writer[Boot] \in {"idle", "adding"}
  /\ ~ running => writeLock = {} /\ writer[Boot] = "idle"

SwapOld(ts) == Renamed(ts, "leakcheck", "leakcheck_old")
Swapped(ts) == Renamed(SwapOld(ts), "leakcheck_new", "leakcheck")

\* What the open swap sees; nothing else changes a table before it ends.
SwapInv ==
  /\ \A w \in Writers :
       /\ writer[w] \in {"staging", "indexed", "renamed", "swapped"} => tables["leakcheck_new"].exists
       /\ writer[w] \in {"renamed", "swapped"} => ~ tables["leakcheck_old"].exists
       /\ writer[w] = "renamed" => swapping = {SwapOld(tables)}
       /\ writer[w] = "swapped" => swapping = {Swapped(tables)}
  /\ (\A w \in Writers : writer[w] \notin {"renamed", "swapped"}) => swapping = {}
  /\ dropping => tables["leakcheck_old"].exists

\* What was added is there, and so is what an addition has sent so far.
AddInv ==
  /\ added \subseteq tables["leakcheck"].rows
  /\ ~ tables["leakcheck"].exists => tables["leakcheck"].rows = {}
  /\ \A w \in Loaders : writer[w] = "adding" =>
       goal[w] \subseteq tables["leakcheck"].rows \cup failed[w] \cup left[w]

LeakInv == /\ LeakTypes /\ SearchTypes /\ LockInv /\ SwapInv /\ AddInv
           /\ AlwaysServed /\ OldTableIsDropped

LEMMA TableTypes ==
  /\ Absent \in Table /\ Fresh \in Table /\ Fresh.exists
  /\ ~ Absent.exists /\ Absent.rows = {} /\ Absent.unique = {}
  /\ \A t \in Table : t.exists \in BOOLEAN /\ t.rows \subseteq Rows /\ t.unique \subseteq IndexNames
  /\ {"leakcheck", "leakcheck_new", "leakcheck_old"} = Names
  BY DEF Absent, Fresh, Table, Names

\* A rename leaves the other tables alone.
LEMMA RenamedTables ==
  ASSUME NEW ts \in [Names -> Table], NEW from \in Names, NEW to \in Names, from # to
  PROVE  /\ Renamed(ts, from, to) \in [Names -> Table]
         /\ Renamed(ts, from, to)[to] = ts[from]
         /\ Renamed(ts, from, to)[from] = Absent
         /\ \A n \in Names \ {from, to} : Renamed(ts, from, to)[n] = ts[n]
  BY TableTypes DEF Renamed

\* After both renames the staging table is the live one.
LEMMA SwappedTables ==
  ASSUME NEW ts \in [Names -> Table]
  PROVE  /\ SwapOld(ts) \in [Names -> Table] /\ Swapped(ts) \in [Names -> Table]
         /\ Swapped(ts)["leakcheck"] = ts["leakcheck_new"]
         /\ Swapped(ts)["leakcheck_old"] = ts["leakcheck"]
  <1>1. /\ SwapOld(ts) \in [Names -> Table]
        /\ SwapOld(ts)["leakcheck_old"] = ts["leakcheck"]
        /\ SwapOld(ts)["leakcheck_new"] = ts["leakcheck_new"]
    BY RenamedTables, TableTypes DEF SwapOld, Names
  <1>2. /\ Swapped(ts) \in [Names -> Table]
        /\ Swapped(ts)["leakcheck"] = SwapOld(ts)["leakcheck_new"]
        /\ Swapped(ts)["leakcheck_old"] = SwapOld(ts)["leakcheck_old"]
    BY <1>1, RenamedTables, TableTypes DEF Swapped, Names
  <1> QED
    BY <1>1, <1>2

LEMMA LeakInvInit == LeakInit => LeakInv
  <1> SUFFICES ASSUME LeakInit PROVE LeakInv
    OBVIOUS
  <1>1. LeakTypes
    <2>1. /\ files = {} /\ swapping = {} /\ tables \in [Names -> Table]
          /\ goal \in [Loaders -> SUBSET Rows] /\ left \in [Loaders -> SUBSET Rows]
          /\ failed \in [Loaders -> SUBSET Rows]
      BY TableTypes DEF LeakInit
    <2>2. ops \in 0 .. MaxOps /\ crashes \in 0 .. MaxCrashes
      BY LeakAssumption DEF LeakInit
    <2>3. {dropping, dropLost, running} \subseteq BOOLEAN /\ added \subseteq Rows
      BY DEF LeakInit
    <2> QED
      BY <2>1, <2>2, <2>3 DEF LeakTypes
  <1>2. SearchTypes
    BY DEF LeakInit, SearchTypes
  <1>3. LockInv
    BY DEF LeakInit, LockInv, WriterStates, Loaders
  <1>4. ~ tables["leakcheck_old"].exists /\ ~ running /\ ~ dropping
    BY TableTypes DEF LeakInit
  <1>5. SwapInv
    BY <1>4 DEF LeakInit, SwapInv, Loaders
  <1>6. AddInv
    BY TableTypes DEF LeakInit, AddInv
  <1> QED
    BY <1>1, <1>2, <1>3, <1>4, <1>5, <1>6 DEF LeakInv, AlwaysServed, OldTableIsDropped

\* While the live table stays as it is, only the additions that begin matter.
LEMMA SameLive ==
  ASSUME LeakInv, added' = added, tables'["leakcheck"] = tables["leakcheck"],
         UNCHANGED loadVars,
         \A w \in Loaders : writer'[w] = "adding" => writer[w] = "adding"
  PROVE  AddInv'
  BY DEF LeakInv, AddInv, loadVars

\* Searches leave the tables and the writers alone.
LEMMA SearchKeeps ==
  ASSUME LeakInv, NEW s \in Searchers, SearchCached(s) \/ SearchStep(s)
  PROVE  LeakInv'
  <1>1. UNCHANGED <<files, ops, writerVars, loadVars, dbVars, processVars>>
    BY DEF SearchCached, SearchStep, Query, QueryFails, Remember
  <1>2. SearchTypes'
    <2> USE DEF LeakInv, SearchTypes
    <2>1. CASE SearchCached(s) \/ QueryFails(s)
      BY <2>1 DEF SearchCached, QueryFails
    <2>2. CASE Query(s)
      <3>1. PICK rows \in SUBSET Live.rows : found' = [found EXCEPT ![s] = rows]
        BY <2>2 DEF Query
      <3>2. rows \in SUBSET Rows
        BY <3>1, TableTypes DEF Live, LeakTypes, Names
      <3> QED
        BY <2>2, <3>1, <3>2 DEF Query
    <2>3. CASE Remember(s)
      BY <2>3 DEF Remember
    <2> QED
      BY <2>1, <2>2, <2>3 DEF SearchStep
  <1>3. LeakTypes' /\ LockInv' /\ AlwaysServed' /\ OldTableIsDropped' /\ AddInv'
    BY <1>1 DEF LeakInv, LeakTypes, LockInv, AlwaysServed, Live, OldTableIsDropped, AddInv,
                writerVars, loadVars, dbVars, processVars
  <1>4. SwapInv'
    BY <1>1 DEF LeakInv, SwapInv, writerVars, dbVars
  <1> QED
    BY <1>2, <1>3, <1>4 DEF LeakInv

LEMMA AroundKeeps ==
  ASSUME LeakInv, ExpireAnswer \/ \E r \in Rows : Upload(r)
  PROVE  LeakInv'
  <1>1. UNCHANGED <<ops, writerVars, loadVars, dbVars, processVars>>
    BY DEF ExpireAnswer, Upload
  <1>2. SearchTypes' /\ files' \subseteq Rows
    BY DEF ExpireAnswer, Upload, LeakInv, SearchTypes, LeakTypes, searchVars
  <1>3. LeakTypes' /\ LockInv' /\ AlwaysServed' /\ OldTableIsDropped' /\ AddInv'
    BY <1>1, <1>2 DEF LeakInv, LeakTypes, LockInv, AlwaysServed, Live, OldTableIsDropped, AddInv,
                      writerVars, loadVars, dbVars, processVars
  <1>4. SwapInv'
    BY <1>1 DEF LeakInv, SwapInv, writerVars, dbVars
  <1> QED
    BY <1>2, <1>3, <1>4 DEF LeakInv

\* Whoever works, works alone.
LEMMA Alone ==
  ASSUME LeakInv, NEW w \in Writers, writer[w] # "idle"
  PROVE  /\ writeLock = {w} /\ running /\ writer[Boot] = "idle"
         /\ \A x \in Writers \ {w} : writer[x] = "idle"
  BY DEF LeakInv, LockInv

LEMMA CrashKeeps == ASSUME LeakInv, Crash PROVE LeakInv'
  <1>1. /\ ~ running' /\ swapping' = {} /\ writeLock' = {} /\ UNCHANGED <<files, tables, added, ops>>
        /\ writer' = [w \in Loaders |-> "idle"]
        /\ goal' = [w \in Loaders |-> {}] /\ left' = [w \in Loaders |-> {}]
        /\ failed' = [w \in Loaders |-> {}] /\ ~ dropping'
        /\ dropLost' = (dropLost \/ dropping) /\ crashes' = crashes + 1 /\ crashes < MaxCrashes
    BY DEF Crash
  <1>2. LeakTypes'
    <2>1. crashes' \in 0 .. MaxCrashes
      BY <1>1, LeakAssumption DEF LeakInv, LeakTypes
    <2>2. {dropping, dropLost, running}' \subseteq BOOLEAN
      BY DEF Crash
    <2> QED
      BY <1>1, <2>1, <2>2 DEF LeakInv, LeakTypes
  <1>3. SearchTypes'
    BY DEF Crash, SearchTypes
  <1>4. LockInv'
    BY <1>1 DEF LockInv, WriterStates, Loaders
  <1>5. SwapInv' /\ AlwaysServed'
    BY <1>1 DEF SwapInv, AlwaysServed, Loaders
  <1>7. AddInv'
    BY <1>1 DEF LeakInv, AddInv
  <1>6. OldTableIsDropped'
    BY <1>1 DEF LeakInv, OldTableIsDropped
  <1> QED
    BY <1>2, <1>3, <1>4, <1>5, <1>6, <1>7 DEF LeakInv

LEMMA StartKeepsTables == ASSUME LeakInv, Start PROVE LeakInv'
  <1>1. /\ ~ running /\ running' /\ UNCHANGED <<files, swapping, writeLock, dropping, dropLost, added, ops, crashes>>
        /\ \A w \in Writers : writer[w] = "idle"
        /\ writeLock = {} /\ writer[Boot] = "idle"
    BY DEF Start, LeakInv, LockInv
  <1>2. PICK live \in Table : /\ live.exists /\ tables' = [tables EXCEPT !["leakcheck"] = live]
                              /\ live.rows = tables["leakcheck"].rows
    <2> DEFINE live == IF Live.exists THEN Live ELSE Fresh
               indexed == IF IndexTaken("idx_leakcheck_unique") THEN live
                          ELSE [live EXCEPT !.unique = @ \cup {"idx_leakcheck_unique"}]
    <2>1. live \in Table /\ live.exists /\ live.rows = tables["leakcheck"].rows
      <3>1. Fresh.rows = {} /\ tables["leakcheck"] \in Table
        BY DEF Fresh, Absent, LeakInv, LeakTypes, Names
      <3> QED
        BY <3>1, TableTypes DEF Live, LeakInv, AddInv
    <2>3. tables' = [tables EXCEPT !["leakcheck"] = indexed]
      BY DEF Start
    <2> HIDE DEF live
    <2>2. indexed \in Table /\ indexed.exists /\ indexed.rows = tables["leakcheck"].rows
      BY <2>1 DEF Table, IndexNames
    <2> HIDE DEF indexed
    <2> QED
      BY <2>2, <2>3
  <1>3. /\ tables' \in [Names -> Table] /\ tables'["leakcheck"].exists
        /\ tables'["leakcheck"].rows = tables["leakcheck"].rows
        /\ \A n \in Names \ {"leakcheck"} : tables'[n] = tables[n]
    BY <1>2 DEF LeakInv, LeakTypes, Names
  <1>4. /\ goal' \in [Loaders -> SUBSET Rows] /\ left' \in [Loaders -> SUBSET Rows]
        /\ failed' \in [Loaders -> SUBSET Rows]
    BY DEF Start, Given, loadVars, LeakInv, LeakTypes
  <1>5. writer' = writer \/ writer' = [writer EXCEPT ![Boot] = "adding"]
    BY DEF Start
  <1>6. LeakTypes'
    <2>1. running' = TRUE
      BY DEF Start
    <2> QED
      BY <1>1, <1>3, <1>4, <2>1 DEF LeakInv, LeakTypes
  <1>7. SearchTypes'
    BY DEF Start, searchVars, LeakInv, SearchTypes
  <1>8. \A w \in Writers : writer'[w] = "idle"
    BY <1>1, <1>5, LeakAssumption DEF LeakInv, LockInv, Loaders
  <1>9. LockInv'
    BY <1>1, <1>5, <1>8 DEF LeakInv, LockInv, WriterStates, Loaders
  <1>10. SwapInv'
    <2>1. swapping = {}
      BY <1>1 DEF LeakInv, SwapInv
    <2> QED
      BY <1>1, <1>3, <1>8, <2>1, TableTypes DEF LeakInv, SwapInv
  <1>12. AddInv'
    <2>1. ASSUME NEW w \in Loaders, writer'[w] = "adding" PROVE goal'[w] \subseteq left'[w]
      <3>1. w = Boot /\ writer[w] = "idle"
        BY <1>1, <1>8, <2>1 DEF Loaders
      <3>2. Given(Boot, files)
        BY <2>1, <3>1 DEF Start
      <3> QED
        BY <3>1, <3>2 DEF Given, LeakInv, LeakTypes, Loaders
    <2> QED
      BY <1>1, <1>3, <2>1 DEF LeakInv, AddInv
  <1>11. AlwaysServed' /\ OldTableIsDropped'
    BY <1>1, <1>3, TableTypes DEF LeakInv, AlwaysServed, Live, OldTableIsDropped
  <1> QED
    BY <1>6, <1>7, <1>9, <1>10, <1>11, <1>12 DEF LeakInv

LEMMA DropKeeps == ASSUME LeakInv, DropOld PROVE LeakInv'
  <1>1. /\ dropping /\ ~ dropping' /\ UNCHANGED <<files, swapping, ops, writerVars, loadVars, searchVars, processVars>>
        /\ \/ tables' = [tables EXCEPT !["leakcheck_old"] = Absent] /\ UNCHANGED dropLost
           \/ dropLost' = TRUE /\ UNCHANGED tables
    BY DEF DropOld
  <1>2. \A w \in Writers : writer[w] \notin {"renamed", "swapped"}
    BY <1>1 DEF LeakInv, SwapInv
  <1>3. /\ tables' \in [Names -> Table]
        /\ \A n \in Names \ {"leakcheck_old"} : tables'[n] = tables[n]
        /\ tables'["leakcheck_old"].exists => dropLost'
    BY <1>1, TableTypes DEF LeakInv, LeakTypes, Names
  <1>4. LeakTypes'
    <2>1. {dropping, dropLost, running}' \subseteq BOOLEAN
      BY DEF DropOld, LeakInv, LeakTypes, processVars
    <2> QED
      BY <1>1, <1>3, <2>1 DEF LeakInv, LeakTypes, loadVars, processVars
  <1>5. SearchTypes' /\ LockInv'
    BY <1>1 DEF LeakInv, SearchTypes, LockInv, searchVars, writerVars, processVars
  <1>6. SwapInv'
    BY <1>1, <1>2, <1>3, TableTypes DEF LeakInv, SwapInv, writerVars
  <1>8. AddInv'
    BY <1>1, <1>3, SameLive, TableTypes DEF writerVars, processVars
  <1>7. AlwaysServed' /\ OldTableIsDropped'
    BY <1>1, <1>3, TableTypes DEF LeakInv, AlwaysServed, Live, OldTableIsDropped, processVars
  <1> QED
    BY <1>4, <1>5, <1>6, <1>7, <1>8 DEF LeakInv

\* An administrator's request begins: nobody else works.
LEMMA Begins ==
  ASSUME LeakInv, NEW w \in Writers, Serving, writer[w] = "idle", writeLock = {}, ops < MaxOps,
         NEW rows \in SUBSET Rows, NEW at \in {"adding", "staging"},
         writeLock' = {w}, writer' = [writer EXCEPT ![w] = at], Given(w, rows), ops' = ops + 1,
         UNCHANGED <<files, swapping, dropping, dropLost, searchVars, processVars>>,
         tables' \in [Names -> Table],
         \A n \in Names \ {"leakcheck_new"} : tables'[n] = tables[n],
         at = "staging" => tables'["leakcheck_new"].exists
  PROVE  LeakInv'
  <1>1. /\ running /\ writer[Boot] = "idle" /\ \A x \in Writers : writer[x] = "idle"
        /\ w # Boot /\ w \in Loaders
    BY LeakAssumption DEF Serving, LeakInv, LockInv, Loaders
  <1>2. /\ writer'[w] = at /\ writer'[Boot] = "idle" /\ \A x \in Writers \ {w} : writer'[x] = "idle"
        /\ writer' \in [Loaders -> WriterStates]
    BY <1>1 DEF LeakInv, LockInv, Loaders, WriterStates
  <1>3. /\ goal' \in [Loaders -> SUBSET Rows] /\ left' \in [Loaders -> SUBSET Rows]
        /\ failed' \in [Loaders -> SUBSET Rows] /\ goal'[w] = rows /\ left'[w] = rows
    BY <1>1 DEF Given, LeakInv, LeakTypes
  <1>4. LeakTypes'
    <2>1. ops' \in 0 .. MaxOps /\ crashes' \in 0 .. MaxCrashes
      BY LeakAssumption DEF LeakInv, LeakTypes, processVars
    <2> QED
      BY <1>3, <2>1 DEF LeakInv, LeakTypes, processVars
  <1>5. SearchTypes' /\ AlwaysServed' /\ OldTableIsDropped'
    BY TableTypes DEF LeakInv, SearchTypes, searchVars, AlwaysServed, Live, OldTableIsDropped, processVars
  <1>6. LockInv'
    BY <1>1, <1>2 DEF LockInv, processVars
  <1>7. SwapInv'
    BY <1>1, <1>2, TableTypes DEF LeakInv, SwapInv
  <1>8. AddInv'
    <2>1. \A x \in Loaders : writer'[x] = "adding" => goal'[x] \subseteq left'[x]
      BY <1>2, <1>3 DEF Loaders
    <2> QED
      BY <2>1, TableTypes DEF LeakInv, AddInv, processVars
  <1> QED
    BY <1>4, <1>5, <1>6, <1>7, <1>8 DEF LeakInv

LEMMA RequestKeeps ==
  ASSUME LeakInv, NEW w \in Writers, Reload(w) \/ \E rows \in SUBSET Rows : AddDir(w, rows)
  PROVE  LeakInv'
  <1>1. CASE Reload(w)
    <2>1. /\ Serving /\ writer[w] = "idle" /\ writeLock = {} /\ ops < MaxOps
          /\ writeLock' = {w} /\ writer' = [writer EXCEPT ![w] = "staging"] /\ Given(w, files)
          /\ ops' = ops + 1 /\ UNCHANGED <<files, swapping, dropping, dropLost, searchVars, processVars>>
          /\ files \in SUBSET Rows
      BY <1>1 DEF Reload, LeakInv, LeakTypes
    <2>2. /\ tables' \in [Names -> Table] /\ tables'["leakcheck_new"].exists
          /\ \A n \in Names \ {"leakcheck_new"} : tables'[n] = tables[n]
      BY <1>1, TableTypes DEF Reload, LeakInv, LeakTypes, Names
    <2> QED
      BY <2>1, <2>2, Begins
  <1>2. ASSUME NEW rows \in SUBSET Rows, AddDir(w, rows)
        PROVE  LeakInv'
    <2>1. /\ Serving /\ writer[w] = "idle" /\ writeLock = {} /\ ops < MaxOps
          /\ writeLock' = {w} /\ writer' = [writer EXCEPT ![w] = "adding"] /\ Given(w, rows)
          /\ ops' = ops + 1 /\ UNCHANGED <<files, swapping, dropping, dropLost, searchVars, processVars>>
      BY <1>2 DEF AddDir, dbVars
    <2>2. tables' = tables /\ tables' \in [Names -> Table]
      BY <1>2 DEF AddDir, dbVars, LeakInv, LeakTypes
    <2> QED
      BY <2>1, <2>2, Begins
  <1> QED
    BY <1>1, <1>2

\* A request ends without a swap: its lock is given back, and only the staging
\* table may have been dropped.
LEMMA EndKeepsTables ==
  ASSUME LeakInv, NEW w \in Writers, writer[w] # "idle", Ends(w),
         swapping' = {}, UNCHANGED <<files, dropping, dropLost, ops, loadVars, searchVars, processVars>>,
         tables' \in [Names -> Table],
         \A n \in Names \ {"leakcheck_new"} : tables'[n] = tables[n]
  PROVE  LeakInv'
  <1>1. /\ writeLock = {w} /\ running /\ writer[Boot] = "idle" /\ w # Boot /\ w \in Loaders
        /\ \A x \in Writers \ {w} : writer[x] = "idle"
    BY Alone, LeakAssumption DEF Loaders
  <1>2. /\ writeLock' = {} /\ writer' \in [Loaders -> WriterStates] /\ writer'[Boot] = "idle"
        /\ \A x \in Writers : writer'[x] = "idle"
    BY <1>1 DEF Ends, LeakInv, LockInv, Loaders, WriterStates
  <1>3. LeakTypes'
    BY DEF LeakInv, LeakTypes, loadVars, processVars
  <1>4. SearchTypes' /\ AlwaysServed' /\ OldTableIsDropped'
    BY TableTypes DEF LeakInv, SearchTypes, searchVars, AlwaysServed, Live, OldTableIsDropped, processVars
  <1>5. LockInv'
    BY <1>1, <1>2 DEF LockInv, processVars
  <1>6. SwapInv'
    BY <1>2, TableTypes DEF LeakInv, SwapInv
  <1>7. AddInv'
    BY <1>2, SameLive, TableTypes DEF Loaders, processVars
  <1> QED
    BY <1>3, <1>4, <1>5, <1>6, <1>7 DEF LeakInv

LEMMA EndsKeep ==
  ASSUME LeakInv, NEW w \in Writers,
         FlushFails(w) \/ Return(w) \/ SwapRenameOldFails(w) \/ SwapFails(w)
  PROVE  LeakInv'
  <1>1. /\ writer[w] # "idle" /\ Ends(w)
        /\ UNCHANGED <<files, dropping, dropLost, ops, loadVars, searchVars, processVars>>
    BY DEF FlushFails, Return, SwapRenameOldFails, SwapFails, dbVars
  <1>2. writer[w] \notin {"renamed", "swapped"} => swapping = {}
    BY <1>1, Alone DEF LeakInv, SwapInv
  <1>3. swapping' = {}
    BY <1>2 DEF FlushFails, Return, SwapRenameOldFails, SwapFails, dbVars
  <1>4. tables' = tables \/ tables' = [tables EXCEPT !["leakcheck_new"] = Absent]
    BY DEF FlushFails, Return, SwapRenameOldFails, SwapFails, dbVars
  <1>5. /\ tables' \in [Names -> Table]
        /\ \A n \in Names \ {"leakcheck_new"} : tables'[n] = tables[n]
    BY <1>4, TableTypes DEF LeakInv, LeakTypes, Names
  <1> QED
    BY <1>1, <1>3, <1>5, EndKeepsTables

\* A batch inserts some of its rows, and the others failed.
LEMMA FlushedTables ==
  ASSUME LeakInv, NEW w \in Loaders, Flush(w)
  PROVE  /\ UNCHANGED <<files, swapping, goal, dropping, dropLost, ops, writerVars, searchVars, processVars>>
         /\ tables' \in [Names -> Table]
         /\ failed' \in [Loaders -> SUBSET Rows] /\ left' \in [Loaders -> SUBSET Rows]
         /\ \A n \in Names : tables'[n].exists = tables[n].exists /\ tables[n].rows \subseteq tables'[n].rows
         /\ tables[TargetOf(w)].rows \cup failed[w] \cup left[w]
              \subseteq tables'[TargetOf(w)].rows \cup failed'[w] \cup left'[w]
         /\ \A x \in Loaders \ {w} : failed'[x] = failed[x] /\ left'[x] = left[x]
  <1>1. PICK b \in SUBSET left[w], in \in SUBSET left[w] :
          /\ in \subseteq b
          /\ tables' = [tables EXCEPT ![TargetOf(w)].rows = @ \cup in]
          /\ failed' = [failed EXCEPT ![w] = @ \cup (b \ in)]
          /\ left' = [left EXCEPT ![w] = @ \ b]
    BY DEF Flush, Insertable
  <1>2. TargetOf(w) \in Names /\ b \subseteq Rows /\ left[w] \subseteq Rows
    BY DEF TargetOf, Names, LeakInv, LeakTypes
  <1>3. [tables[TargetOf(w)] EXCEPT !.rows = @ \cup in] \in Table
    BY <1>2 DEF LeakInv, LeakTypes, Table
  <1>4. /\ tables' \in [Names -> Table]
        /\ \A n \in Names \ {TargetOf(w)} : tables'[n] = tables[n]
        /\ tables'[TargetOf(w)].exists = tables[TargetOf(w)].exists
        /\ tables'[TargetOf(w)].rows = tables[TargetOf(w)].rows \cup in
    BY <1>1, <1>2, <1>3 DEF LeakInv, LeakTypes, Table
  <1>5. failed' \in [Loaders -> SUBSET Rows] /\ left' \in [Loaders -> SUBSET Rows]
    BY <1>1, <1>2 DEF LeakInv, LeakTypes
  <1> QED
    BY <1>1, <1>2, <1>4, <1>5 DEF Flush, LeakInv, LeakTypes

LEMMA FlushKeeps ==
  ASSUME LeakInv, NEW w \in Loaders, Flush(w)
  PROVE  LeakInv'
  <1>1. UNCHANGED <<files, swapping, goal, dropping, dropLost, ops, writer, writeLock, searchVars,
                    running, added, crashes>>
    BY FlushedTables DEF writerVars, processVars
  <1>2. LeakTypes'
    BY <1>1, FlushedTables DEF LeakInv, LeakTypes
  <1>3. SearchTypes' /\ LockInv'
    BY <1>1 DEF LeakInv, SearchTypes, LockInv, searchVars
  <1>4. AlwaysServed' /\ OldTableIsDropped'
    BY <1>1, FlushedTables, TableTypes DEF LeakInv, AlwaysServed, Live, OldTableIsDropped
  <1>5. \A x \in Writers : writer[x] \notin {"renamed", "swapped"}
    <2>1. writer[w] \in {"adding", "staging"}
      BY DEF Flush
    <2>2. CASE w = Boot
      BY <2>1, <2>2, LeakAssumption DEF LeakInv, LockInv
    <2>3. CASE w \in Writers
      BY <2>1, <2>3, Alone
    <2> QED
      BY <2>2, <2>3 DEF Loaders
  <1>6. SwapInv'
    BY <1>1, <1>5, FlushedTables, TableTypes DEF LeakInv, SwapInv
  <1>7. AddInv'
    <2>1. /\ tables'["leakcheck"].exists = tables["leakcheck"].exists
          /\ tables["leakcheck"].rows \subseteq tables'["leakcheck"].rows
      BY FlushedTables, TableTypes
    <2>2. tables["leakcheck"].exists
      <3>1. running
        BY LeakAssumption DEF Flush, LeakInv, LockInv, Loaders
      <3> QED
        BY <3>1 DEF LeakInv, AlwaysServed, Live
    <2>3. ASSUME NEW x \in Loaders, writer[x] = "adding"
          PROVE  goal[x] \subseteq tables'["leakcheck"].rows \cup failed'[x] \cup left'[x]
      <3>1. CASE x = w
        <4>1. TargetOf(x) = "leakcheck"
          BY <2>3 DEF TargetOf
        <4> QED
          BY <2>3, <3>1, <4>1, FlushedTables DEF LeakInv, AddInv
      <3>2. CASE x # w
        <4>1. failed'[x] = failed[x] /\ left'[x] = left[x]
          BY <3>2, FlushedTables
        <4> QED
          BY <2>1, <2>3, <4>1 DEF LeakInv, AddInv
      <3> QED
        BY <3>1, <3>2
    <2> QED
      BY <1>1, <2>1, <2>2, <2>3 DEF LeakInv, AddInv
  <1> QED
    BY <1>2, <1>3, <1>4, <1>6, <1>7 DEF LeakInv

\* The load at the start ends, or a row of it cannot be sent.
LEMMA BootEndKeeps ==
  ASSUME LeakInv, FlushFails(Boot) \/ FinishAdd(Boot)
  PROVE  LeakInv'
  <1>1. /\ writer[Boot] = "adding" /\ \A x \in Writers : writer[x] = "idle"
        /\ running
    BY DEF FlushFails, FinishAdd, LeakInv, LockInv
  <1>2. /\ UNCHANGED <<files, tables, swapping, dropping, dropLost, ops, loadVars, searchVars, running, crashes>>
        /\ Ends(Boot)
        /\ \/ added' = added
           \/ left[Boot] = {} /\ added' = added \cup (goal[Boot] \ failed[Boot])
    BY <1>1 DEF FlushFails, FinishAdd, dbVars, processVars
  <1>3. /\ writer' \in [Loaders -> WriterStates] /\ writer'[Boot] = "idle" /\ writeLock' = writeLock
        /\ \A x \in Writers : writer'[x] = "idle"
    BY <1>1, <1>2, LeakAssumption DEF Ends, LeakInv, LockInv, Loaders, WriterStates
  <1>4. LeakTypes' /\ SearchTypes'
    <2>1. added' \subseteq Rows
      BY <1>2 DEF LeakInv, LeakTypes, Loaders
    <2> QED
      BY <1>2, <2>1 DEF LeakInv, LeakTypes, SearchTypes, loadVars, searchVars
  <1>5. LockInv' /\ AlwaysServed' /\ OldTableIsDropped'
    BY <1>1, <1>2, <1>3 DEF LeakInv, LockInv, AlwaysServed, Live, OldTableIsDropped
  <1>7. AddInv'
    <2>1. Boot \in Loaders
      BY DEF Loaders
    <2>2. added' \subseteq tables["leakcheck"].rows
      BY <1>1, <1>2, <2>1 DEF LeakInv, AddInv
    <2>3. \A x \in Loaders : writer'[x] # "adding"
      BY <1>3 DEF Loaders
    <2> QED
      BY <1>2, <2>2, <2>3 DEF LeakInv, AddInv
  <1>6. SwapInv'
    BY <1>1, <1>2, <1>3 DEF LeakInv, SwapInv
  <1> QED
    BY <1>4, <1>5, <1>6, <1>7 DEF LeakInv

\* A request goes on, its tables typed and its lock kept.
LEMMA GoesOn ==
  ASSUME LeakInv, NEW w \in Writers, writer[w] # "idle", NEW at \in WriterStates \ {"idle"},
         writer' = [writer EXCEPT ![w] = at],
         UNCHANGED <<files, writeLock, dropLost, ops, loadVars, searchVars, running, crashes>>,
         tables' \in [Names -> Table], \A t \in swapping' : t \in [Names -> Table],
         dropping' \in BOOLEAN, added' \subseteq Rows
  PROVE  /\ LeakTypes' /\ SearchTypes' /\ LockInv'
         /\ writer'[w] = at /\ \A x \in Writers \ {w} : writer'[x] = "idle"
  <1>1. /\ writeLock = {w} /\ running /\ writer[Boot] = "idle" /\ w # Boot /\ w \in Loaders
        /\ \A x \in Writers \ {w} : writer[x] = "idle"
    BY Alone, LeakAssumption DEF Loaders
  <1>2. /\ writer' \in [Loaders -> WriterStates] /\ writer'[Boot] = "idle" /\ writer'[w] = at
        /\ \A x \in Writers \ {w} : writer'[x] = "idle"
    BY <1>1 DEF LeakInv, LockInv, Loaders, WriterStates
  <1>3. LeakTypes' /\ SearchTypes'
    BY DEF LeakInv, LeakTypes, SearchTypes, loadVars, searchVars
  <1>4. LockInv'
    BY <1>1, <1>2 DEF LockInv
  <1> QED
    BY <1>2, <1>3, <1>4

\* An addition, or a rebuild on its way to the swap, takes its next step.
LEMMA StepKeeps ==
  ASSUME LeakInv, NEW w \in Writers,
         (writer[w] = "adding" /\ FinishAdd(w)) \/ BuildIndexes(w) \/ SwapRenameOld(w) \/ SwapRenameNew(w)
  PROVE  LeakInv'
  <1>1. w # Boot /\ w \in Loaders /\ w \in Writers
    BY LeakAssumption DEF Loaders
  <1>2. CASE FinishAdd(w)
    <2>1. /\ writer[w] = "adding" /\ left[w] = {} /\ writer' = [writer EXCEPT ![w] = "added"]
          /\ UNCHANGED <<files, tables, swapping, dropping, dropLost, writeLock, ops, loadVars, searchVars,
                         running, crashes>>
          /\ added' = added \cup (goal[w] \ failed[w])
      BY <1>1, <1>2 DEF FinishAdd, dbVars
    <2>2. /\ tables' \in [Names -> Table] /\ \A t \in swapping' : t \in [Names -> Table]
          /\ dropping' \in BOOLEAN /\ "added" \in WriterStates \ {"idle"} /\ added' \subseteq Rows
      BY <1>1, <2>1 DEF LeakInv, LeakTypes, WriterStates
    <2>3. /\ LeakTypes' /\ SearchTypes' /\ LockInv'
          /\ writer'[w] = "added" /\ \A x \in Writers \ {w} : writer'[x] = "idle"
      BY <2>1, <2>2, GoesOn
    <2>4. SwapInv'
      BY <1>1, <2>1, <2>3, Alone DEF LeakInv, SwapInv
    <2>5. AddInv'
      <3>1. added' \subseteq tables["leakcheck"].rows
        BY <1>1, <2>1 DEF LeakInv, AddInv
      <3>2. \A x \in Loaders : writer'[x] = "adding" => writer[x] = "adding"
        BY <2>1 DEF LeakInv, LockInv
      <3> QED
        BY <2>1, <3>1, <3>2 DEF LeakInv, AddInv, loadVars
    <2>6. AlwaysServed' /\ OldTableIsDropped'
      BY <2>1 DEF LeakInv, AlwaysServed, Live, OldTableIsDropped
    <2> QED
      BY <2>3, <2>4, <2>5, <2>6 DEF LeakInv
  <1>3. CASE BuildIndexes(w)
    <2>1. /\ writer[w] = "staging" /\ writer' = [writer EXCEPT ![w] = "indexed"]
          /\ UNCHANGED <<files, swapping, dropping, dropLost, writeLock, ops, loadVars, searchVars, processVars>>
          /\ \/ tables' = tables
             \/ tables' = [tables EXCEPT !["leakcheck_new"].unique = {"idx_leakcheck_new_unique"}]
      BY <1>3 DEF BuildIndexes
    <2>2. /\ tables' \in [Names -> Table]
          /\ \A n \in Names : tables'[n].exists = tables[n].exists /\ tables'[n].rows = tables[n].rows
          /\ tables'["leakcheck"] = tables["leakcheck"]
      <3>1. [tables["leakcheck_new"] EXCEPT !.unique = {"idx_leakcheck_new_unique"}] \in Table
        BY TableTypes DEF LeakInv, LeakTypes, Table, IndexNames
      <3>2. tables' \in [Names -> Table]
        BY <2>1, <3>1 DEF LeakInv, LeakTypes, Names
      <3>3. tables'["leakcheck"] = tables["leakcheck"]
        BY <2>1 DEF LeakInv, LeakTypes, Names
      <3>4. \A n \in Names : tables'[n].exists = tables[n].exists /\ tables'[n].rows = tables[n].rows
        BY <2>1, TableTypes DEF LeakInv, LeakTypes, Table
      <3> QED
        BY <3>2, <3>3, <3>4
    <2>3. /\ \A t \in swapping' : t \in [Names -> Table]
          /\ dropping' \in BOOLEAN /\ "indexed" \in WriterStates \ {"idle"}
          /\ added' \subseteq Rows /\ UNCHANGED <<running, crashes>>
      BY <2>1 DEF LeakInv, LeakTypes, WriterStates, processVars
    <2>4. /\ LeakTypes' /\ SearchTypes' /\ LockInv'
          /\ writer'[w] = "indexed" /\ \A x \in Writers \ {w} : writer'[x] = "idle"
      BY <2>1, <2>2, <2>3, GoesOn
    <2>5. SwapInv'
      BY <1>1, <2>1, <2>2, <2>4, Alone, TableTypes DEF LeakInv, SwapInv
    <2>6. AlwaysServed' /\ OldTableIsDropped'
      BY <2>1, <2>2, <2>4, TableTypes DEF LeakInv, AlwaysServed, Live, OldTableIsDropped, processVars
    <2>7. AddInv'
      <3>1. \A x \in Loaders : writer'[x] = "adding" => writer[x] = "adding"
        BY <2>1 DEF LeakInv, LockInv
      <3> QED
        BY <2>1, <2>2, <3>1, SameLive DEF processVars
    <2> QED
      BY <2>4, <2>5, <2>6, <2>7 DEF LeakInv
  <1>4. CASE SwapRenameOld(w)
    <2>1. /\ writer[w] = "indexed" /\ ~ tables["leakcheck_old"].exists
          /\ writer' = [writer EXCEPT ![w] = "renamed"] /\ swapping' = {SwapOld(tables)}
          /\ UNCHANGED <<files, tables, dropping, dropLost, writeLock, ops, loadVars, searchVars, processVars>>
      BY <1>4 DEF SwapRenameOld, SwapOld
    <2>2. /\ tables' \in [Names -> Table] /\ \A t \in swapping' : t \in [Names -> Table]
          /\ dropping' \in BOOLEAN /\ "renamed" \in WriterStates \ {"idle"}
          /\ added' \subseteq Rows /\ UNCHANGED <<running, crashes>>
      BY <2>1, SwappedTables DEF LeakInv, LeakTypes, WriterStates, processVars
    <2>3. /\ LeakTypes' /\ SearchTypes' /\ LockInv'
          /\ writer'[w] = "renamed" /\ \A x \in Writers \ {w} : writer'[x] = "idle"
      BY <2>1, <2>2, GoesOn
    <2>4. SwapInv'
      <3>1. swapping' = {SwapOld(tables')}
        BY <2>1
      <3>2. SwapOld(tables)' = SwapOld(tables')
        BY DEF SwapOld, Renamed
      <3> QED
        BY <1>1, <2>1, <2>3, <3>1, <3>2 DEF LeakInv, SwapInv
    <2>5. AlwaysServed' /\ OldTableIsDropped'
      BY <2>1, <2>3 DEF LeakInv, AlwaysServed, Live, OldTableIsDropped, processVars
    <2>6. AddInv'
      <3>1. \A x \in Loaders : writer'[x] = "adding" => writer[x] = "adding"
        BY <2>1 DEF LeakInv, LockInv
      <3> QED
        BY <2>1, <3>1, SameLive DEF processVars
    <2> QED
      BY <2>3, <2>4, <2>5, <2>6 DEF LeakInv
  <1>5. CASE SwapRenameNew(w)
    <2>1. /\ writer[w] = "renamed" /\ swapping = {SwapOld(tables)}
          /\ writer' = [writer EXCEPT ![w] = "swapped"] /\ swapping' = {Swapped(tables)}
          /\ UNCHANGED <<files, tables, dropping, dropLost, writeLock, ops, loadVars, searchVars, processVars>>
      <3>1. swapping = {SwapOld(tables)}
        BY <1>5 DEF SwapRenameNew, LeakInv, SwapInv
      <3>2. swapping' = {Swapped(tables)}
        BY <1>5, <3>1 DEF SwapRenameNew, Swapped
      <3> QED
        BY <1>5, <3>1, <3>2 DEF SwapRenameNew
    <2>2. /\ tables' \in [Names -> Table] /\ \A t \in swapping' : t \in [Names -> Table]
          /\ dropping' \in BOOLEAN /\ "swapped" \in WriterStates \ {"idle"}
          /\ added' \subseteq Rows /\ UNCHANGED <<running, crashes>>
      BY <2>1, SwappedTables DEF LeakInv, LeakTypes, WriterStates, processVars
    <2>3. /\ LeakTypes' /\ SearchTypes' /\ LockInv'
          /\ writer'[w] = "swapped" /\ \A x \in Writers \ {w} : writer'[x] = "idle"
      BY <2>1, <2>2, GoesOn
    <2>4. SwapInv'
      <3>1. Swapped(tables)' = Swapped(tables)
        BY <2>1 DEF Swapped, SwapOld, Renamed
      <3> QED
        BY <1>1, <2>1, <2>3, <3>1 DEF LeakInv, SwapInv
    <2>5. AlwaysServed' /\ OldTableIsDropped'
      BY <2>1, <2>3 DEF LeakInv, AlwaysServed, Live, OldTableIsDropped, processVars
    <2>6. AddInv'
      <3>1. \A x \in Loaders : writer'[x] = "adding" => writer[x] = "adding"
        BY <2>1 DEF LeakInv, LockInv
      <3> QED
        BY <2>1, <3>1, SameLive DEF processVars
    <2> QED
      BY <2>3, <2>4, <2>5, <2>6 DEF LeakInv
  <1> QED
    BY <1>2, <1>3, <1>4, <1>5

\* The commit makes the staging table the live one, and the old one is dropped.
LEMMA CommitKeeps ==
  ASSUME LeakInv, NEW w \in Writers, SwapCommit(w)
  PROVE  LeakInv'
  <1>1. w # Boot /\ w \in Loaders
    BY LeakAssumption DEF Loaders
  <1>2. /\ writer[w] = "swapped" /\ writer' = [writer EXCEPT ![w] = "reloaded"]
        /\ swapping' = {} /\ dropping' = TRUE /\ added' = {}
        /\ UNCHANGED <<files, writeLock, dropLost, ops, loadVars, searchVars, running, crashes>>
    BY DEF SwapCommit
  <1>3. tables' = Swapped(tables) /\ tables["leakcheck_new"].exists /\ running
    BY <1>2, Alone DEF SwapCommit, LeakInv, SwapInv
  <1>4. /\ tables' \in [Names -> Table] /\ tables'["leakcheck"].exists
        /\ tables'["leakcheck_old"].exists
    BY <1>3, SwappedTables DEF LeakInv, LeakTypes, AlwaysServed, Live
  <1>5. "reloaded" \in WriterStates \ {"idle"}
    BY DEF WriterStates
  <1>6. /\ LeakTypes' /\ SearchTypes' /\ LockInv'
        /\ writer'[w] = "reloaded" /\ \A x \in Writers \ {w} : writer'[x] = "idle"
    BY <1>2, <1>4, <1>5, GoesOn
  <1>9. \A x \in Loaders : writer'[x] # "adding"
    BY <1>6, Alone, <1>2 DEF LockInv, Loaders
  <1>7. SwapInv' /\ AddInv'
    BY <1>2, <1>4, <1>6, <1>9 DEF SwapInv, AddInv
  <1>8. AlwaysServed' /\ OldTableIsDropped'
    BY <1>2, <1>4 DEF AlwaysServed, Live, OldTableIsDropped
  <1> QED
    BY <1>6, <1>7, <1>8 DEF LeakInv

\* The load at the start only ever inserts and ends.
LEMMA WriterKeeps ==
  ASSUME LeakInv, NEW w \in Loaders, WriterStep(w)
  PROVE  LeakInv'
  <1>1. CASE Flush(w)
    BY <1>1, FlushKeeps
  <1>2. CASE ~ Flush(w) /\ w \in Writers
    <2>1. FinishAdd(w) => writer[w] = "adding"
      BY DEF FinishAdd
    <2> QED
      BY <1>2, <2>1, EndsKeep, StepKeeps, CommitKeeps DEF WriterStep
  <1>3. CASE ~ Flush(w) /\ w = Boot
    <2>1. writer[w] \in {"idle", "adding"}
      BY <1>3 DEF LeakInv, LockInv
    <2>2. FlushFails(Boot) \/ FinishAdd(Boot)
      BY <1>3, <2>1 DEF WriterStep, Return, BuildIndexes, SwapRenameOld, SwapRenameOldFails,
                        SwapRenameNew, SwapCommit, SwapFails
    <2> QED
      BY <2>2, BootEndKeeps
  <1> QED
    BY <1>1, <1>2, <1>3 DEF Loaders

\* RebuildsAreSafe, whichever statement fails and wherever the process dies:
\* whoever works holds writeMu and works alone, so the tables that the swap
\* replaces are those it read, and an addition's rows go to the live table.
THEOREM RebuildsStaySafe == LeakSpec => []RebuildsAreSafe
  <1>1. LeakInit => LeakInv
    BY LeakInvInit
  <1>2. LeakInv /\ [LeakNext]_leakVars => LeakInv'
    <2> SUFFICES ASSUME LeakInv, [LeakNext]_leakVars PROVE LeakInv'
      OBVIOUS
    <2>1. CASE LeakNext
      BY <2>1, StartKeepsTables, CrashKeeps, DropKeeps, AroundKeeps, RequestKeeps, WriterKeeps,
         SearchKeeps DEF LeakNext
    <2>2. CASE UNCHANGED leakVars
      <3>1. LeakTypes' /\ SearchTypes' /\ LockInv' /\ AddInv' /\ AlwaysServed' /\ OldTableIsDropped'
        BY <2>2 DEF leakVars, LeakInv, LeakTypes, SearchTypes, LockInv, AddInv, AlwaysServed, Live,
                    OldTableIsDropped
      <3>2. SwapInv'
        BY <2>2 DEF leakVars, LeakInv, SwapInv, Swapped, SwapOld, Renamed
      <3> QED
        BY <3>1, <3>2 DEF LeakInv
    <2> QED
      BY <2>1, <2>2
  <1>3. LeakInv => RebuildsAreSafe
    <2> SUFFICES ASSUME LeakInv PROVE RebuildsAreSafe
      OBVIOUS
    <2>1. writeLock \subseteq Writers /\ Cardinality(writeLock) <= 1
      <3>1. CASE writeLock = {}
        <4>1. Cardinality(writeLock) = 0
          BY <3>1, FS_EmptySet
        <4> QED
          BY <3>1, <4>1
      <3>2. ASSUME NEW w \in Writers, writeLock = {w}
            PROVE  writeLock \subseteq Writers /\ Cardinality(writeLock) <= 1
        <4>1. Cardinality({w}) = 1
          BY FS_Singleton
        <4> QED
          BY <3>2, <4>1
      <3> QED
        BY <3>1, <3>2 DEF LeakInv, LockInv
    <2>2. LeakTypeOK
      BY <2>1 DEF LeakInv, LeakTypes, SearchTypes, LockInv, LeakTypeOK
    <2>3. AdditionsStay
      BY DEF LeakInv, AddInv, AdditionsStay, Live
    <2> QED
      BY <2>2, <2>3 DEF LeakInv, RebuildsAreSafe
  <1> QED
    BY <1>1, <1>2, <1>3, PTL DEF LeakSpec

=============================================================================
