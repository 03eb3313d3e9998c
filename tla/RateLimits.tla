---------------------------- MODULE RateLimits ----------------------------
(***************************************************************************)
(* pkg/limiter/ratelimit.go and middleware/admin_rate_limit.go: requests   *)
(* are counted under a key of Redis that the first of them gives a life.   *)
(* The two commands are two steps, and each may fail.                      *)
(***************************************************************************)
EXTENDS Lifetimes

CONSTANTS Limits,         \* Limits[k]: the limit of counter k
          Limited,        \* requests
          LimitLife,      \* ticks of a counter's life (60 s)
          MaxArrivals, MaxLimitTicks, MaxLimitFaults   \* bounds

ASSUME LimitAssumption ==
  /\ \A k \in DOMAIN Limits : Limits[k] \in Nat \ {0}
  /\ LimitLife \in Nat \ {0} /\ {MaxArrivals, MaxLimitTicks, MaxLimitFaults} \subseteq Nat

VARIABLES
  counters,    \* ratelimit:<key hash>:<group> and rl:admin:login:<ip>:<agent>
  limited,     \* limited[r]: where request r is
  arrivals, limitTicks, limitFaults   \* counters for the bounds

limitVars == <<counters, limited, arrivals, limitTicks, limitFaults>>

LimitInit ==
  /\ counters = Empty /\ limited = [r \in Limited |-> [at |-> "idle"]]
  /\ arrivals = 0 /\ limitTicks = 0 /\ limitFaults = 0

Fault == limitFaults < MaxLimitFaults /\ limitFaults' = limitFaults + 1
NoFault == UNCHANGED limitFaults

At(r, v) == limited' = [limited EXCEPT ![r] = v]

\* A counter without a life; passed and born are history.
Unlimited == 0
NewCounter == [count |-> 0, passed |-> 0, born |-> limitTicks]

CounterOf(k) ==
  IF k \in DOMAIN counters THEN counters[k] ELSE [val |-> NewCounter, left |-> Unlimited]

\* A slip: the limit is one more.
WithinOrNext(k, count) == count <= Limits[k] + 1

Within(k, count) == count <= Limits[k]

\* A slip: every request gives the counter its whole life again.
EveryOne(count) == TRUE

\* The request that gives the counter its life.
First(count) == count = 1

\* INCR.  What is within the limit passes, also when Redis refuses.
Incr(r, k) ==
  LET old == CounterOf(k)
      count == old.val.count + 1 IN
  /\ limited[r].at \in {"idle", "passed", "stopped"}
  /\ arrivals < MaxArrivals /\ arrivals' = arrivals + 1
  /\ \/ /\ counters' = Put(counters, k,
                           [count |-> count, born |-> old.val.born,
                            passed |-> old.val.passed + IF Within(k, count) THEN 1 ELSE 0],
                           old.left)
        /\ At(r, [at |-> IF First(count) THEN "expire"
                         ELSE IF Within(k, count) THEN "passed" ELSE "stopped",
                  key |-> k, slow |-> FALSE, within |-> Within(k, count)])
        /\ NoFault
     \/ At(r, [at |-> "passed"]) /\ UNCHANGED counters /\ Fault
  /\ UNCHANGED limitTicks

CheckRateLimit(r) == \E k \in DOMAIN Limits \ {"login"} : Incr(r, k)

AdminLoginRateLimit(r) == \E k \in DOMAIN Limits \cap {"login"} : Incr(r, k)

\* EXPIRE, whose error is ignored.
GiveLife(r) ==
  LET v == limited[r] IN
  /\ v.at = "expire"
  /\ \/ counters' = Extend(counters, v.key, LimitLife) /\ NoFault
     \/ UNCHANGED counters /\ Fault
  /\ At(r, [at |-> IF v.within THEN "passed" ELSE "stopped"])
  /\ UNCHANGED <<arrivals, limitTicks>>

\* The server dies with the requests it has.
LimitCrash ==
  /\ Fault /\ limited' = [r \in Limited |-> [at |-> "idle"]]
  /\ UNCHANGED <<counters, arrivals, limitTicks>>

\* Time; a counter without a life stays.  No request takes a whole tick twice.
LimitTick ==
  /\ limitTicks < MaxLimitTicks /\ limitTicks' = limitTicks + 1
  /\ \A r \in Limited : limited[r].at = "expire" => ~ limited[r].slow
  /\ counters' = [k \in {j \in DOMAIN counters : counters[j].left # 1} |->
       IF counters[k].left = Unlimited THEN counters[k] ELSE Aged(counters)[k]]
  /\ limited' = [r \in Limited |->
       IF limited[r].at = "expire"
       THEN [at |-> "expire", key |-> limited[r].key, slow |-> TRUE, within |-> limited[r].within]
       ELSE [at |-> "idle"]]
  /\ UNCHANGED <<arrivals, limitFaults>>

LimitNext ==
  \/ \E r \in Limited : CheckRateLimit(r) \/ AdminLoginRateLimit(r) \/ GiveLife(r)
  \/ LimitCrash \/ LimitTick

LimitSpec == LimitInit /\ [][LimitNext]_limitVars

----------------------------------------------------------------------------
\* A counter counts what passed, and is never older than time.
LimitTypeOK ==
  \A k \in DOMAIN counters :
     /\ counters[k].left \in 0 .. LimitLife
     /\ counters[k].val.passed <= counters[k].val.count /\ counters[k].val.born <= limitTicks

\* No more requests pass than the limit while a counter lives, but for those
\* Redis did not count.
WithinTheLimit == \A k \in DOMAIN counters : counters[k].val.passed <= Limits[k]

\* As long as no command and no server fails, a counter is gone a minute
\* after its first request, however many are refused meanwhile: nobody is
\* locked out.  After a fault between INCR and EXPIRE it stays for ever.
NobodyIsLockedOut ==
  limitFaults = 0 =>
    \A k \in DOMAIN counters : limitTicks - counters[k].val.born <= LimitLife + 1

\* CheckRateLimit and AdminLoginRateLimit: a counter neither lets more through
\* than its limit, nor outlives its minute unless something failed between its
\* two commands.
LimitsHold == LimitTypeOK /\ WithinTheLimit /\ NobodyIsLockedOut
=============================================================================
