--------------------------- MODULE FeatureFlags ---------------------------
(***************************************************************************)
(* pkg/cache/feature_cache.go, middleware/feature.go and the admin's       *)
(* toggles: flags in Redis switch services and platforms off, and every    *)
(* server remembers for half a minute what it read.                        *)
(***************************************************************************)
EXTENDS Lifetimes, Sequences

CONSTANTS Platforms,      \* Platforms[g]: the platforms of group g
          FlagReaders, FlagAdmins,
          FlagLife,       \* ticks of a flag in memory (30 s)
          MaxToggles, MaxFlagTicks, MaxFlagFaults   \* bounds

ASSUME FlagAssumption ==
  FlagLife \in Nat \ {0} /\ {MaxToggles, MaxFlagTicks, MaxFlagFaults} \subseteq Nat

GroupKeys == {<<g>> : g \in DOMAIN Platforms}
PlatformKeys == UNION {{<<g, p>> : p \in Platforms[g]} : g \in DOMAIN Platforms}
FlagKeys == GroupKeys \cup PlatformKeys

VARIABLES
  flags,         \* feature:<group>[:<platform>] in Redis, "" when unset
  featureCache,  \* what memory holds, for how long
  flagReader,    \* flagReader[r]: where the middleware of request r is
  flagAdmin,
  crossed,       \* history: the keys that were invalidated while a reader had them
  changedAt,     \* history: when a key was last stored
  flagTicks, toggles, flagFaults   \* counters for the bounds

flagVars == <<flags, featureCache, flagReader, flagAdmin, crossed, changedAt,
              flagTicks, toggles, flagFaults>>

FlagInit ==
  /\ flags = [k \in FlagKeys |-> ""] /\ featureCache = Empty
  /\ flagReader = [r \in FlagReaders |-> [at |-> "idle"]]
  /\ flagAdmin = [a \in FlagAdmins |-> [at |-> "idle"]]
  /\ crossed = {} /\ changedAt = [k \in FlagKeys |-> 0]
  /\ flagTicks = 0 /\ toggles = 0 /\ flagFaults = 0

FlagFault == flagFaults < MaxFlagFaults /\ flagFaults' = flagFaults + 1
FlagWorks == UNCHANGED flagFaults

----------------------------------------------------------------------------
(* The middleware: the group's flag, then the platform's. *)

ReaderIs(r, v) == flagReader' = [flagReader EXCEPT ![r] = v]

\* With the value of key: refused if it is off, else the next key or passed.
Judged(v, value) ==
  IF value = "off" THEN [at |-> "refused"]
  ELSE IF Len(v.key) < Len(v.goal) THEN [at |-> "read", key |-> v.goal, goal |-> v.goal, slow |-> v.slow]
  ELSE [at |-> "passed"]

FeatureFlag(r, g) ==
  /\ flagReader[r].at \in {"idle", "refused", "passed"}
  /\ ReaderIs(r, [at |-> "read", key |-> <<g>>, goal |-> <<g>>, slow |-> FALSE])
  /\ UNCHANGED <<flags, featureCache, flagAdmin, crossed, changedAt, flagTicks, toggles, flagFaults>>

FeatureFlagPlatform(r, key) ==
  /\ flagReader[r].at \in {"idle", "refused", "passed"}
  /\ ReaderIs(r, [at |-> "read", key |-> <<key[1]>>, goal |-> key, slow |-> FALSE])
  /\ UNCHANGED <<flags, featureCache, flagAdmin, crossed, changedAt, flagTicks, toggles, flagFaults>>

\* GetFeatureFlag: memory, else Redis, where an unset flag or an error is
\* "on" and is not remembered.
GetFeatureFlag(r) ==
  LET v == flagReader[r] IN
  /\ v.at = "read"
  /\ \/ /\ FlagWorks
        /\ ReaderIs(r, IF v.key \in DOMAIN featureCache THEN Judged(v, featureCache[v.key].val)
                       ELSE IF flags[v.key] = "" THEN Judged(v, "on")
                       ELSE [at |-> "fill", key |-> v.key, goal |-> v.goal, slow |-> v.slow,
                             value |-> flags[v.key]])
     \/ FlagFault /\ v.key \notin DOMAIN featureCache /\ ReaderIs(r, Judged(v, "on"))
  /\ UNCHANGED <<flags, featureCache, flagAdmin, crossed, changedAt, flagTicks, toggles>>

\* A slip: what memory holds is not to expire.
KeptForGood(k, value) == Put(featureCache, k, value, FlagLife + 2)

Remembered(k, value) == Put(featureCache, k, value, FlagLife)

\* What was read is remembered, whatever happened since.
FillFlag(r) ==
  LET v == flagReader[r] IN
  /\ v.at = "fill"
  /\ featureCache' = Remembered(v.key, v.value)
  /\ ReaderIs(r, Judged(v, v.value))
  /\ UNCHANGED <<flags, flagAdmin, crossed, changedAt, flagTicks, toggles, flagFaults>>

----------------------------------------------------------------------------
(* The toggles. *)

\* A slip: memory is cleared before Redis has the new value.
ForgetThenStore == <<"forget", "store">>

\* The order of a toggle's two steps.
StoreThenForget == <<"store", "forget">>

Toggle(a, keys, status) ==
  /\ flagAdmin[a].at \notin {"store", "forget"}
  /\ toggles < MaxToggles /\ toggles' = toggles + 1
  /\ \E k \in keys :
       flagAdmin' = [flagAdmin EXCEPT ![a] =
                       [at |-> StoreThenForget[1], key |-> k, status |-> status, did |-> 0]]
  /\ UNCHANGED <<flags, featureCache, flagReader, crossed, changedAt, flagTicks, flagFaults>>

ToggleFeature(a, status) == Toggle(a, GroupKeys, status)
ToggleFeaturePlatform(a, status) == Toggle(a, PlatformKeys, status)

\* The toggle's next step, or its answer.
ToggledOn(a) ==
  LET v == flagAdmin[a] IN
  flagAdmin' = [flagAdmin EXCEPT ![a] =
     IF v.did = 1 THEN [at |-> "answered"]
     ELSE [at |-> StoreThenForget[2], key |-> v.key, status |-> v.status, did |-> 1]]

\* SET, whose error is ignored.
StoreFlag(a) ==
  LET v == flagAdmin[a] IN
  /\ v.at = "store" /\ ToggledOn(a)
  /\ \/ /\ flags' = [flags EXCEPT ![v.key] = v.status]
        /\ changedAt' = [changedAt EXCEPT ![v.key] = flagTicks] /\ FlagWorks
     \/ UNCHANGED <<flags, changedAt>> /\ FlagFault
  /\ UNCHANGED <<featureCache, flagReader, crossed, flagTicks, toggles>>

InvalidateFeatureFlag(a) ==
  LET v == flagAdmin[a]
      filling == {r \in FlagReaders : flagReader[r].at = "fill" /\ flagReader[r].key = v.key} IN
  /\ v.at = "forget" /\ ToggledOn(a)
  /\ featureCache' = Drop(featureCache, v.key)
  /\ crossed' = IF filling = {} THEN crossed \ {v.key} ELSE crossed \cup {v.key}
  /\ UNCHANGED <<flags, flagReader, changedAt, flagTicks, toggles, flagFaults>>

\* Time.  No request and no toggle takes a whole tick twice.
FlagTick ==
  /\ flagTicks < MaxFlagTicks /\ flagTicks' = flagTicks + 1
  /\ \A r \in FlagReaders : flagReader[r].at \in {"read", "fill"} => ~ flagReader[r].slow
  /\ \A a \in FlagAdmins : flagAdmin[a].at \notin {"store", "forget"}
  /\ featureCache' = Aged(featureCache)
  /\ flagReader' = [r \in FlagReaders |->
       IF flagReader[r].at \in {"read", "fill"} THEN [flagReader[r] EXCEPT !.slow = TRUE]
       ELSE [at |-> "idle"]]
  /\ UNCHANGED <<flags, flagAdmin, crossed, changedAt, toggles, flagFaults>>

FlagNext ==
  \/ \E r \in FlagReaders :
       \/ GetFeatureFlag(r) \/ FillFlag(r)
       \/ \E g \in DOMAIN Platforms : FeatureFlag(r, g)
       \/ \E k \in PlatformKeys : FeatureFlagPlatform(r, k)
  \/ \E a \in FlagAdmins :
       \/ StoreFlag(a) \/ InvalidateFeatureFlag(a)
       \/ \E s \in {"on", "off"} : ToggleFeature(a, s) \/ ToggleFeaturePlatform(a, s)
  \/ FlagTick

FlagSpec == FlagInit /\ [][FlagNext]_flagVars

----------------------------------------------------------------------------
\* The value of a flag, set or not.
Shown(k) == IF flags[k] = "" THEN "on" ELSE flags[k]

Stale(k) == k \in DOMAIN featureCache /\ featureCache[k].val # Shown(k)

\* Memory holds set values only, for no longer than their life.
FlagTypeOK ==
  /\ DOMAIN featureCache \subseteq FlagKeys
  /\ \A k \in DOMAIN featureCache : featureCache[k].val \in {"on", "off"}

\* What memory holds is out of date for half a minute at most, and for the
\* time the request took that read it.
StaleFlagsFade == \A k \in FlagKeys : Stale(k) => flagTicks - changedAt[k] <= FlagLife

\* An answered toggle is in force at once, unless a request had read the flag
\* before and remembers it after the invalidation.
TogglesAreImmediate ==
  \A k \in FlagKeys : Stale(k) =>
    \/ k \in crossed
    \/ \E a \in FlagAdmins : flagAdmin[a].at \in {"store", "forget"} /\ flagAdmin[a].key = k

\* The middleware follows the administrators' toggles: at once, or half a
\* minute late if a request had read the flag before the toggle.
FlagsFollow == FlagTypeOK /\ StaleFlagsFade /\ TogglesAreImmediate
=============================================================================
