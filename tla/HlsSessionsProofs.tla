------------------------- MODULE HlsSessionsProofs -------------------------
(***************************************************************************)
(* Invariants of the shared HLS downloads for any finite set of requests,  *)
(* any URLs, hosts and limits.  The type invariant's numeric bounds are    *)
(* not inductive; they follow from three counting invariants, and those    *)
(* need to know which handlers have a session (Shape).                     *)
(***************************************************************************)
EXTENDS HlsSessions, FiniteSetTheorems, TLAPS

\* TypeOK without the bounds of the three counters.
Types ==
  /\ table \in [Urls -> Requests \cup {None}]
  /\ slots \in Int
  /\ cdn \in [Hosts -> Int]
  /\ url \in [Requests -> Urls]
  /\ handler \in [Requests -> HandlerStates]
  /\ sess \in [Requests -> Requests \cup {None}]
  /\ watcher \in [Requests -> {"none", "watching", "released"}]
  /\ producer \in [Requests -> ProducerStates]
  /\ done \in [Requests -> BOOLEAN]
  /\ cancelled \in [Requests -> BOOLEAN]
  /\ readers \in [Requests -> Int]
  /\ freed \in [Requests -> BOOLEAN]
  /\ overlong \in [Requests -> BOOLEAN]

NoSessionYet == {"new", "acquire", "get", "getWithSlot", "busy"}

\* Before getOrCreateSession a request has neither session nor watcher;
\* afterwards it has a session whose producer has been started.
Shape ==
  \A r \in Requests :
     IF handler[r] \in NoSessionYet
     THEN sess[r] = None /\ watcher[r] = "none" /\ producer[r] = "none"
     ELSE sess[r] \in Requests /\ producer[sess[r]] # "none"

Base == Types /\ Shape /\ ListedWillExpire

\* Initially nothing is listed and no request has a session.
LEMMA InitBase == Init => Base
  BY HlsAssumption
  DEF Init, ListedWillExpire, Base, Types, Shape, NoSessionYet, HandlerStates,
      ProducerStates, Running

\* Types is inductive by itself, once every handler that uses its session
\* has one.
LEMMA NextTypes == Types /\ Shape /\ [Next]_vars => Types'
  <1> SUFFICES ASSUME Types, Shape, [Next]_vars PROVE Types'
    OBVIOUS
  <1> USE HlsAssumption
      DEF Types, HandlerStates, ProducerStates, Running, HandlerGoes,
          ProducerGoes, handlerVars, sessionVars
  <1>1. ASSUME NEW r \in Requests, Lookup(r) PROVE Types'
    BY <1>1 DEF Lookup
  <1>2. ASSUME NEW r \in Requests, AcquireSlot(r) PROVE Types'
    BY <1>2 DEF AcquireSlot
  <1>3. ASSUME NEW r \in Requests, GetOrCreate(r) PROVE Types'
    BY <1>3 DEF GetOrCreate
  <1>4. ASSUME NEW r \in Requests, Join(r) PROVE Types'
    <2>1. sess[r] \in Requests
      BY <1>4 DEF Join, Shape, NoSessionYet
    <2>2. QED
      BY <1>4, <2>1 DEF Join
  <1>5. ASSUME NEW r \in Requests, Leave(r) PROVE Types'
    <2>1. handler[r] = "reading" /\ sess[r] \in Requests
      BY <1>5 DEF Leave, Shape, NoSessionYet
    <2>2. readers' \in [Requests -> Int]
      BY <1>5, <2>1 DEF Leave
    <2>3. \E h \in HandlerStates : handler' = [handler EXCEPT ![r] = h]
      BY <1>5 DEF Leave
    <2>4. QED
      BY <1>5, <2>2, <2>3 DEF Leave
  <1>6. ASSUME NEW r \in Requests, FreeChunks(r) \/ UnlistDone(r) PROVE Types'
    BY <1>6 DEF FreeChunks, UnlistDone
  <1>7. ASSUME NEW r \in Requests, CancelAbandoned(r) \/ UnlistCancelled(r)
        PROVE  Types'
    BY <1>7 DEF CancelAbandoned, UnlistCancelled
  <1>8. ASSUME NEW r \in Requests, ReleaseSlot(r) PROVE Types'
    BY <1>8 DEF ReleaseSlot
  <1>9. ASSUME NEW s \in Requests, StartDirect(s) PROVE Types'
    <2>1. cdn' \in [Hosts -> Int]
      BY <1>9 DEF StartDirect, Host
    <2>2. done' \in [Requests -> BOOLEAN]
      BY <1>9 DEF StartDirect, FallBack
    <2>3. producer' \in [Requests -> ProducerStates]
      BY <1>9 DEF StartDirect, FallBack
    <2>4. QED
      BY <1>9, <2>1, <2>2, <2>3 DEF StartDirect
  <1>10. ASSUME NEW s \in Requests, EndDirect(s) PROVE Types'
    <2>1. cdn' \in [Hosts -> Int]
      BY <1>10 DEF EndDirect, Host
    <2>2. done' \in [Requests -> BOOLEAN]
      BY <1>10 DEF EndDirect, FallBack
    <2>3. producer' \in [Requests -> ProducerStates]
      BY <1>10 DEF EndDirect, FallBack
    <2>4. QED
      BY <1>10, <2>1, <2>2, <2>3 DEF EndDirect
  <1>11. ASSUME NEW s \in Requests, EndYtdlp(s) \/ Expire(s) \/ Overflow(s)
         PROVE  Types'
    BY <1>11 DEF EndYtdlp, Expire, Overflow
  <1>12. CASE CancelAllSessions
    BY <1>12 DEF CancelAllSessions
  <1>13. CASE UNCHANGED vars
    BY <1>13 DEF vars
  <1>14. QED
    BY <1>1, <1>2, <1>3, <1>4, <1>5, <1>6, <1>7, <1>8, <1>9, <1>10, <1>11,
       <1>12, <1>13
    DEF Next, HandlerStep, ProducerStep

\* What a step of a download goroutine or its timer may change.
LEMMA ProducerEffect ==
  ASSUME NEW s \in Requests, ProducerStep(s) \/ Overflow(s), Types
  PROVE  /\ UNCHANGED <<slots, handlerVars, watcher, cancelled, readers>>
         /\ producer[s] \in Running \cup {"armed"}
         /\ \E q \in (Running \ {"acquireCdn"}) \cup {"armed", "expired"} :
              /\ producer' = [producer EXCEPT ![s] = q]
              /\ IF q = "expired" THEN table' = [table EXCEPT ![url[s]] = None]
                                  ELSE table' = table
  <1> USE DEF ProducerGoes, Running, Types, handlerVars
  <1>1. CASE StartDirect(s) \/ EndDirect(s)
    BY <1>1 DEF StartDirect, EndDirect, FallBack
  <1>2. CASE EndYtdlp(s) \/ Expire(s)
    BY <1>2 DEF EndYtdlp, Expire
  <1>3. CASE Overflow(s)
    BY <1>3 DEF Overflow
  <1>4. QED
    BY <1>1, <1>2, <1>3 DEF ProducerStep

\* Only getOrCreateSession gives a request its session, and it starts one
\* or finds one that was started.
LEMMA NextShape == Base /\ Types' /\ [Next]_vars => Shape'
  <1> SUFFICES ASSUME Types, Shape, ListedWillExpire, Types', [Next]_vars
               PROVE  Shape'
    BY DEF Base
  <1> USE HlsAssumption DEF Types, HandlerGoes, handlerVars, sessionVars
  <1>1. ASSUME NEW r \in Requests, Lookup(r) PROVE Shape'
    BY <1>1 DEF Lookup, Shape, NoSessionYet
  <1>2. ASSUME NEW r \in Requests, AcquireSlot(r) PROVE Shape'
    BY <1>2 DEF AcquireSlot, Shape, NoSessionYet
  <1>3. ASSUME NEW r \in Requests, GetOrCreate(r) PROVE Shape'
    <2>1. /\ handler[r] \in {"get", "getWithSlot"}
          /\ handler' = [handler EXCEPT ![r] = "join"]
          /\ \A q \in Requests \ {r} : watcher'[q] = watcher[q]
      BY <1>3 DEF GetOrCreate
    <2>2. producer[r] = "none" /\ sess[r] = None
      BY <2>1 DEF Shape, NoSessionYet
    <2>3. CASE table[url[r]] # None
      <3>1. /\ sess' = [sess EXCEPT ![r] = table[url[r]]]
            /\ producer' = producer
        BY <1>3, <2>3 DEF GetOrCreate
      <3>2. table[url[r]] \in Requests /\ producer[table[url[r]]] # "none"
        BY <2>3 DEF ListedWillExpire, Running
      <3>3. QED
        BY <2>1, <3>1, <3>2 DEF Shape, NoSessionYet
    <2>4. CASE table[url[r]] = None
      <3>1. /\ sess' = [sess EXCEPT ![r] = r]
            /\ producer' = [producer EXCEPT ![r] = "acquireCdn"]
        BY <1>3, <2>4 DEF GetOrCreate
      <3>2. QED
        BY <2>1, <3>1 DEF Shape, NoSessionYet
    <2>5. QED
      BY <2>3, <2>4
  <1>4. ASSUME NEW r \in Requests, Join(r) \/ Leave(r) PROVE Shape'
    BY <1>4 DEF Join, Leave, Shape, NoSessionYet
  <1>5. ASSUME NEW r \in Requests, FreeChunks(r) \/ UnlistDone(r) PROVE Shape'
    BY <1>5 DEF FreeChunks, UnlistDone, Shape, NoSessionYet
  <1>6. ASSUME NEW r \in Requests, CancelAbandoned(r) \/ UnlistCancelled(r)
        PROVE  Shape'
    BY <1>6 DEF CancelAbandoned, UnlistCancelled, Shape, NoSessionYet
  <1>7. ASSUME NEW r \in Requests, ReleaseSlot(r) PROVE Shape'
    BY <1>7 DEF ReleaseSlot, Shape, NoSessionYet
  <1>8. ASSUME NEW s \in Requests, ProducerStep(s) \/ Overflow(s) PROVE Shape'
    <2>1. \A q \in Requests : /\ producer[q] = "none" => producer'[q] = "none"
                              /\ producer[q] # "none" => producer'[q] # "none"
      BY <1>8, ProducerEffect DEF Running
    <2>2. UNCHANGED <<handler, sess, watcher>>
      BY <1>8, ProducerEffect
    <2>3. QED
      BY <2>1, <2>2 DEF Shape
  <1>9. CASE CancelAllSessions
    BY <1>9 DEF CancelAllSessions, Shape
  <1>10. CASE UNCHANGED vars
    BY <1>10 DEF vars, Shape
  <1>11. QED
    BY <1>1, <1>2, <1>3, <1>4, <1>5, <1>6, <1>7, <1>8, <1>9, <1>10
    DEF Next, HandlerStep

\* A session is listed when its download starts and unlisted before or when
\* its timer fires.
LEMMA NextListed == Base /\ [Next]_vars => ListedWillExpire'
  <1> SUFFICES ASSUME Types, Shape, ListedWillExpire, [Next]_vars
               PROVE  ListedWillExpire'
    BY DEF Base
  <1> USE HlsAssumption
      DEF Types, HandlerGoes, handlerVars, sessionVars, ListedWillExpire
  <1>1. ASSUME UNCHANGED <<url, producer>>,
               \A u \in Urls : table'[u] \in {table[u], None}
        PROVE  ListedWillExpire'
    BY <1>1
  <1>2. ASSUME NEW r \in Requests,
               \/ Lookup(r) \/ AcquireSlot(r) \/ Join(r) \/ FreeChunks(r)
               \/ UnlistDone(r) \/ CancelAbandoned(r) \/ UnlistCancelled(r)
               \/ ReleaseSlot(r)
        PROVE  ListedWillExpire'
    BY <1>1, <1>2 DEF Lookup, AcquireSlot, Join, FreeChunks, UnlistDone,
                      CancelAbandoned, UnlistCancelled, ReleaseSlot
  <1>3. ASSUME NEW r \in Requests, Leave(r) PROVE ListedWillExpire'
    BY <1>1, <1>3 DEF Leave
  <1>4. ASSUME NEW r \in Requests, GetOrCreate(r) PROVE ListedWillExpire'
    <2>1. producer[r] = "none" /\ url' = url
      BY <1>4 DEF GetOrCreate, Shape, NoSessionYet
    <2>2. CASE table[url[r]] # None
      BY <1>4, <2>2 DEF GetOrCreate
    <2>3. CASE table[url[r]] = None
      <3>1. /\ table' = [table EXCEPT ![url[r]] = r]
            /\ producer' = [producer EXCEPT ![r] = "acquireCdn"]
        BY <1>4, <2>3 DEF GetOrCreate
      <3>2. QED
        BY <2>1, <3>1 DEF Running
    <2>4. QED
      BY <2>2, <2>3
  <1>5. ASSUME NEW s \in Requests, ProducerStep(s) \/ Overflow(s)
        PROVE  ListedWillExpire'
    <2>1. PICK q \in (Running \ {"acquireCdn"}) \cup {"armed", "expired"} :
              /\ producer' = [producer EXCEPT ![s] = q]
              /\ IF q = "expired" THEN table' = [table EXCEPT ![url[s]] = None]
                                  ELSE table' = table
      BY <1>5, ProducerEffect
    <2>2. url' = url
      BY <1>5, ProducerEffect
    <2>3. QED
      BY <2>1, <2>2
  <1>6. CASE CancelAllSessions
    BY <1>1, <1>6 DEF CancelAllSessions
  <1>7. CASE UNCHANGED vars
    BY <1>7 DEF vars
  <1>8. QED
    BY <1>2, <1>3, <1>4, <1>5, <1>6, <1>7 DEF Next, HandlerStep

\* The three parts of Base support each other.
LEMMA NextBase == Base /\ [Next]_vars => Base'
  BY NextTypes, NextShape, NextListed DEF Base

\* Base holds in every reachable state.
LEMMA BaseAlways == Spec => []Base
  BY InitBase, NextBase, PTL DEF Spec

\* A listed session is still downloading or its timer is armed: the table
\* keeps no session forever and hands out no expired one.
THEOREM ListedExpire == Spec => []ListedWillExpire
  <1>1. Base => ListedWillExpire
    BY DEF Base
  <1>2. QED
    BY BaseAlways, <1>1, PTL
-----------------------------------------------------------------------------
(* Counting the download slots.                                            *)

HoldSet == {r \in Requests : HoldsSlot(r)}

SlotsCounted == slots = Cardinality(HoldSet) /\ slots <= MaxSlots

\* Finitely many requests, so finitely many hold a slot.
LEMMA HoldSetFinite == IsFiniteSet(HoldSet) /\ Cardinality(HoldSet) \in Nat
  BY HlsAssumption, FS_Subset, FS_CardinalityType DEF HoldSet

\* A request takes its slot when it did not hold one.
LEMMA TakesSlot ==
  ASSUME NEW r \in Requests, Base, AcquireSlot(r), slots < MaxSlots
  PROVE  /\ HoldSet' = HoldSet \cup {r} /\ r \notin HoldSet
         /\ slots' = slots + 1
  <1>1. /\ slots' = slots + 1 /\ watcher' = watcher
        /\ handler[r] = "acquire"
        /\ handler' = [handler EXCEPT ![r] = "getWithSlot"]
    BY HlsAssumption DEF AcquireSlot, HandlerGoes, Base, Types
  <1>2. watcher[r] = "none"
    BY <1>1 DEF Base, Shape, NoSessionYet
  <1>3. QED
    BY <1>1, <1>2 DEF HoldSet, HoldsSlot, Base, Types

\* A watcher gives back the slot its request held, exactly once.
LEMMA GivesSlotBack ==
  ASSUME NEW r \in Requests, Base, ReleaseSlot(r)
  PROVE  /\ HoldSet' = HoldSet \ {r} /\ r \in HoldSet
         /\ slots' = slots - 1 /\ handler' = handler
         /\ handler[r] \notin NoSessionYet
  <1>1. /\ slots' = slots - 1 /\ handler' = handler
        /\ watcher[r] = "watching"
        /\ watcher' = [watcher EXCEPT ![r] = "released"]
    BY DEF ReleaseSlot, handlerVars
  <1>2. handler[r] \notin NoSessionYet
    BY <1>1 DEF Base, Shape
  <1>3. QED
    BY <1>1, <1>2 DEF HoldSet, HoldsSlot, NoSessionYet, Base, Types

\* No other step moves a slot or turns a request away.
KeepsSlots ==
  /\ slots' = slots
  /\ \A r \in Requests : HoldsSlot(r)' = HoldsSlot(r)
  /\ \A r \in Requests : (handler'[r] = "busy") = (handler[r] = "busy")

\* AcquireSlot and ReleaseSlot are the only steps on HLSDownload that the
\* handover from handler to watcher does not make up for.
LEMMA OthersKeepSlots ==
  Base /\ [Next]_vars =>
     \/ KeepsSlots
     \/ \E r \in Requests : AcquireSlot(r) \/ ReleaseSlot(r)
  <1> SUFFICES ASSUME Base, [Next]_vars,
                      ~ \E r \in Requests : AcquireSlot(r) \/ ReleaseSlot(r)
               PROVE  KeepsSlots
    OBVIOUS
  <1> USE DEF Base, Types, KeepsSlots, HoldsSlot, HandlerGoes, handlerVars, sessionVars
  <1>1. ASSUME NEW r \in Requests, Lookup(r) PROVE KeepsSlots
    BY <1>1 DEF Lookup
  <1>2. ASSUME NEW r \in Requests, GetOrCreate(r) PROVE KeepsSlots
    <2>1. handler[r] \in {"get", "getWithSlot"} => watcher[r] = "none"
      BY DEF Shape, NoSessionYet
    <2>2. QED
      BY <1>2, <2>1 DEF GetOrCreate
  <1>3. ASSUME NEW r \in Requests, Join(r) \/ Leave(r) PROVE KeepsSlots
    BY <1>3 DEF Join, Leave
  <1>4. ASSUME NEW r \in Requests,
               \/ FreeChunks(r) \/ UnlistDone(r)
               \/ CancelAbandoned(r) \/ UnlistCancelled(r)
        PROVE  KeepsSlots
    BY <1>4 DEF FreeChunks, UnlistDone, CancelAbandoned, UnlistCancelled
  <1>5. ASSUME NEW s \in Requests, ProducerStep(s) \/ Overflow(s) PROVE KeepsSlots
    BY <1>5, ProducerEffect
  <1>6. CASE CancelAllSessions
    BY <1>6 DEF CancelAllSessions
  <1>7. CASE UNCHANGED vars
    BY <1>7 DEF vars
  <1>8. QED
    BY <1>1, <1>2, <1>3, <1>4, <1>5, <1>6, <1>7 DEF Next, HandlerStep

\* No slot is taken at the start.
LEMMA InitSlots == Init => SlotsCounted
  <1> SUFFICES ASSUME Init PROVE SlotsCounted
    OBVIOUS
  <1>1. HoldSet = {}
    BY DEF Init, HoldSet, HoldsSlot
  <1>2. QED
    BY <1>1, FS_EmptySet, HlsAssumption DEF Init, SlotsCounted

\* HLSDownload.current counts the requests that hold a slot.
LEMMA NextSlots == Base /\ SlotsCounted /\ [Next]_vars => SlotsCounted'
  <1> SUFFICES ASSUME Base, SlotsCounted, [Next]_vars PROVE SlotsCounted'
    OBVIOUS
  <1> USE HlsAssumption DEF SlotsCounted, Base, Types
  <1>1. CASE KeepsSlots
    <2>1. HoldSet' = HoldSet
      BY <1>1 DEF KeepsSlots, HoldSet
    <2>2. QED
      BY <1>1, <2>1 DEF KeepsSlots
  <1>2. ASSUME NEW r \in Requests, AcquireSlot(r), slots < MaxSlots
        PROVE  SlotsCounted'
    <2>1. HoldSet' = HoldSet \cup {r} /\ r \notin HoldSet /\ slots' = slots + 1
      BY <1>2, TakesSlot
    <2>2. Cardinality(HoldSet') = Cardinality(HoldSet) + 1
      BY <2>1, HoldSetFinite, FS_AddElement
    <2>3. slots' <= MaxSlots
      BY <1>2, <2>1, HoldSetFinite
    <2>4. QED
      BY <2>1, <2>2, <2>3
  <1>3. ASSUME NEW r \in Requests, AcquireSlot(r), ~(slots < MaxSlots)
        PROVE  SlotsCounted'
    <2>1. /\ slots' = slots /\ watcher' = watcher
          /\ handler[r] = "acquire" /\ handler' = [handler EXCEPT ![r] = "busy"]
      BY <1>3 DEF AcquireSlot, HandlerGoes
    <2>2. HoldSet' = HoldSet
      BY <2>1 DEF HoldSet, HoldsSlot
    <2>3. QED
      BY <2>1, <2>2
  <1>4. ASSUME NEW r \in Requests, ReleaseSlot(r) PROVE SlotsCounted'
    BY <1>4, GivesSlotBack, HoldSetFinite, FS_RemoveElement
  <1>5. QED
    BY <1>1, <1>2, <1>3, <1>4, OthersKeepSlots

-----------------------------------------------------------------------------
(* Refinement: HLSDownload as it is used by handlers and watchers.         *)

Place == [r \in Requests |->
            IF HoldsSlot(r) THEN "in"
            ELSE IF handler[r] = "busy" THEN "refused" ELSE "out"]

\* The instance's own copy of Cardinality is the Cardinality of FiniteSets.
LEMMA SameCardinality == \A S : Sem!Cardinality(S) = Cardinality(S)
  BY DEF Sem!Cardinality, Cardinality

\* Each step on the slots is a step of the semaphore or a stutter.
LEMMA SlotSimulation == Base /\ SlotsCounted /\ [Next]_vars => [Sem!Next]_Place
  <1> SUFFICES ASSUME Base, SlotsCounted, [Next]_vars PROVE [Sem!Next]_Place
    OBVIOUS
  <1> USE HlsAssumption DEF Base, Types
  <1>1. Sem!Inside = HoldSet
    BY DEF Sem!Inside, HoldSet
  <1>2. Sem!Cardinality(Sem!Inside) = slots
    BY <1>1, SameCardinality DEF SlotsCounted
  <1>3. CASE KeepsSlots
    BY <1>3 DEF KeepsSlots, Place
  <1>4. ASSUME NEW r \in Requests, AcquireSlot(r), slots < MaxSlots
        PROVE  Sem!Enter(r)
    <2>1. HoldSet' = HoldSet \cup {r} /\ r \notin HoldSet
      BY <1>4, TakesSlot
    <2>2. handler[r] = "acquire" /\ handler' = [handler EXCEPT ![r] = "getWithSlot"]
      BY <1>4 DEF AcquireSlot, HandlerGoes
    <2>3. /\ ~HoldsSlot(r) /\ HoldsSlot(r)'
          /\ \A q \in Requests \ {r} : HoldsSlot(q)' <=> HoldsSlot(q)
      BY <2>1 DEF HoldSet
    <2> HIDE DEF Base, Types
    <2>4. Place[r] = "out" /\ Place' = [Place EXCEPT ![r] = "in"]
      <3>1. handler[r] # "busy" /\ \A q \in Requests \ {r} : handler'[q] = handler[q]
        BY <2>2
      <3>2. QED
        BY <2>3, <3>1 DEF Place
    <2>5. QED
      BY <1>2, <1>4, <2>4 DEF Sem!Enter, Place
  <1>5. ASSUME NEW r \in Requests, AcquireSlot(r), ~(slots < MaxSlots)
        PROVE  Sem!Refuse(r)
    <2>1. /\ handler[r] = "acquire" /\ handler' = [handler EXCEPT ![r] = "busy"]
          /\ watcher' = watcher
      BY <1>5 DEF AcquireSlot, HandlerGoes
    <2>2. watcher[r] = "none"
      BY <2>1 DEF Shape, NoSessionYet
    <2>3. Place[r] = "out" /\ Place' = [Place EXCEPT ![r] = "refused"]
      BY <2>1, <2>2 DEF Place, HoldsSlot
    <2>4. QED
      BY <1>2, <1>5, <2>3 DEF Sem!Refuse, Place
  <1>6. ASSUME NEW r \in Requests, ReleaseSlot(r) PROVE Sem!Leave(r)
    <2>1. /\ HoldSet' = HoldSet \ {r} /\ r \in HoldSet /\ handler' = handler
          /\ handler[r] # "busy"
      BY <1>6, GivesSlotBack DEF NoSessionYet
    <2>2. /\ HoldsSlot(r) /\ ~HoldsSlot(r)'
          /\ \A q \in Requests \ {r} : HoldsSlot(q)' <=> HoldsSlot(q)
      BY <2>1 DEF HoldSet
    <2> HIDE DEF Base, Types
    <2>3. Place[r] = "in" /\ Place' = [Place EXCEPT ![r] = "out"]
      BY <2>1, <2>2 DEF Place
    <2>4. QED
      BY <2>3 DEF Sem!Leave, Place
  <1>7. QED
    BY <1>3, <1>4, <1>5, <1>6, OthersKeepSlots DEF Sem!Next

\* Handlers and watchers together use HLSDownload as a semaphore: a slot is
\* given back at most once per Acquire, by whoever holds it, and SERVER_BUSY
\* is answered only while MaxSlots slots are held.
THEOREM SlotsImplementSemaphore == Spec => SlotsAreSemaphore
  <1>1. Init => Sem!Init
    BY DEF Init, Sem!Init, HoldsSlot
  <1>2. QED
    BY <1>1, InitBase, NextBase, InitSlots, NextSlots, SlotSimulation, PTL
    DEF Spec, SlotsAreSemaphore, Sem!Spec, Place
-----------------------------------------------------------------------------
(* Counting the ffmpeg downloads of each host.                             *)

DirectSet(h) == {s \in Requests : producer[s] = "direct" /\ Host(s) = h}

HostsBounded == \A h \in Hosts : cdn[h] \in 0 .. MaxPerHost

\* Finitely many requests, so finitely many ffmpeg downloads of a host.
LEMMA DirectSetFinite ==
  \A h : IsFiniteSet(DirectSet(h)) /\ Cardinality(DirectSet(h)) \in Nat
  BY HlsAssumption, FS_Subset, FS_CardinalityType DEF DirectSet

\* No step but the start and the end of a direct download concerns a host.
KeepsHosts ==
  /\ cdn' = cdn
  /\ url' = url
  /\ \A s \in Requests : (producer'[s] = "direct") = (producer[s] = "direct")

\* Only the start and the end of a direct download touch a host's limiter.
LEMMA OthersKeepHosts ==
  Base /\ [Next]_vars =>
     \/ KeepsHosts
     \/ \E s \in Requests : StartDirect(s) \/ EndDirect(s)
  <1> SUFFICES ASSUME Base, [Next]_vars,
                      ~ \E s \in Requests : StartDirect(s) \/ EndDirect(s)
               PROVE  KeepsHosts
    OBVIOUS
  <1> USE DEF Base, Types, KeepsHosts, ProducerGoes, handlerVars, sessionVars
  <1>1. ASSUME NEW r \in Requests,
               \/ Lookup(r) \/ AcquireSlot(r) \/ Join(r) \/ FreeChunks(r)
               \/ UnlistDone(r) \/ CancelAbandoned(r) \/ UnlistCancelled(r)
               \/ ReleaseSlot(r)
        PROVE  KeepsHosts
    BY <1>1 DEF Lookup, AcquireSlot, Join, FreeChunks, UnlistDone,
                CancelAbandoned, UnlistCancelled, ReleaseSlot
  <1>2. ASSUME NEW r \in Requests, Leave(r) PROVE KeepsHosts
    BY <1>2 DEF Leave
  <1>3. ASSUME NEW r \in Requests, GetOrCreate(r) PROVE KeepsHosts
    <2>1. handler[r] \in {"get", "getWithSlot"}
      BY <1>3 DEF GetOrCreate, HandlerGoes
    <2>2. producer[r] = "none"
      BY <2>1 DEF Shape, NoSessionYet
    <2>3. QED
      BY <1>3, <2>2 DEF GetOrCreate
  <1>4. ASSUME NEW s \in Requests, EndYtdlp(s) \/ Expire(s) \/ Overflow(s)
        PROVE  KeepsHosts
    BY <1>4 DEF EndYtdlp, Expire, Overflow
  <1>5. CASE CancelAllSessions
    BY <1>5 DEF CancelAllSessions
  <1>6. CASE UNCHANGED vars
    BY <1>6 DEF vars
  <1>7. QED
    BY <1>1, <1>2, <1>3, <1>4, <1>5, <1>6 DEF Next, HandlerStep, ProducerStep

\* No host has a download at the start.
LEMMA InitHosts == Init => OneFfmpegPerHost /\ HostsBounded
  <1> SUFFICES ASSUME Init PROVE OneFfmpegPerHost /\ HostsBounded
    OBVIOUS
  <1>1. \A h : DirectSet(h) = {}
    BY DEF Init, DirectSet
  <1>2. QED
    <2>1. \A h : Cardinality(DirectSet(h)) = 0
      BY <1>1, FS_EmptySet
    <2>2. \A h \in Hosts : cdn[h] = 0
      BY DEF Init
    <2>3. OneFfmpegPerHost
      BY <2>1, <2>2 DEF OneFfmpegPerHost, DirectSet
    <2>4. QED
      BY <2>2, <2>3, HlsAssumption DEF HostsBounded

\* A host's counter follows its ffmpeg downloads and stays within its limit.
LEMMA NextHosts ==
  Base /\ OneFfmpegPerHost /\ HostsBounded /\ [Next]_vars
     => OneFfmpegPerHost' /\ HostsBounded'
  <1> SUFFICES ASSUME Base, OneFfmpegPerHost, HostsBounded, [Next]_vars
               PROVE  OneFfmpegPerHost' /\ HostsBounded'
    OBVIOUS
  <1>1. \A h \in Hosts : cdn[h] = Cardinality(DirectSet(h))
    BY DEF OneFfmpegPerHost, DirectSet
  <1>2. ASSUME \A h \in Hosts : /\ cdn'[h] = Cardinality(DirectSet(h)')
                                /\ cdn'[h] \in 0 .. MaxPerHost
        PROVE  OneFfmpegPerHost' /\ HostsBounded'
    BY <1>2 DEF OneFfmpegPerHost, HostsBounded, DirectSet
  <1>3. CASE KeepsHosts
    <2>1. \A h \in Hosts : DirectSet(h)' = DirectSet(h)
      BY <1>3 DEF KeepsHosts, DirectSet, Host
    <2>2. QED
      BY <1>1, <1>2, <1>3, <2>1 DEF KeepsHosts, HostsBounded
  <1>4. ASSUME NEW s \in Requests, StartDirect(s)
        PROVE  OneFfmpegPerHost' /\ HostsBounded'
    <2>1. PICK k \in Hosts : k = Host(s)
      BY HlsAssumption DEF Host, Base, Types
    <2>2. url' = url /\ producer[s] = "acquireCdn"
      BY <1>4 DEF StartDirect, FallBack, ProducerGoes, handlerVars
    <2>3. CASE cdn[k] < MaxPerHost
      <3>1. /\ cdn' = [cdn EXCEPT ![k] = @ + 1]
            /\ producer' = [producer EXCEPT ![s] = "direct"]
        BY <1>4, <2>1, <2>3, HlsAssumption
        DEF StartDirect, ProducerGoes, HostsBounded
      <3>2. DirectSet(k)' = DirectSet(k) \cup {s} /\ s \notin DirectSet(k)
        BY <2>1, <2>2, <3>1 DEF DirectSet, Host, Base, Types
      <3>3. ASSUME NEW h \in Hosts
            PROVE  cdn'[h] = Cardinality(DirectSet(h)') /\ cdn'[h] \in 0 .. MaxPerHost
        <4>1. CASE h = k
          <5>1. Cardinality(DirectSet(k)') = Cardinality(DirectSet(k)) + 1
            BY <3>2, DirectSetFinite, FS_AddElement
          <5>2. cdn'[k] = cdn[k] + 1
            BY <3>1 DEF Base, Types
          <5>3. cdn'[k] \in 0 .. MaxPerHost
            BY <2>3, <5>2, HlsAssumption DEF HostsBounded
          <5>4. QED
            BY <1>1, <4>1, <5>1, <5>2, <5>3
        <4>2. CASE h # k
          <5>1. DirectSet(h)' = DirectSet(h)
            BY <2>1, <2>2, <3>1, <4>2 DEF DirectSet, Host, Base, Types
          <5>2. cdn'[h] = cdn[h]
            BY <3>1, <4>2 DEF Base, Types
          <5>3. QED
            BY <1>1, <5>1, <5>2 DEF HostsBounded
        <4>3. QED
          BY <4>1, <4>2
      <3>4. QED
        BY <1>2, <3>3
    <2>4. CASE ~(cdn[k] < MaxPerHost)
      <3>1. /\ cdn' = cdn
            /\ \E q \in {"armed", "ytdlp"} : producer' = [producer EXCEPT ![s] = q]
        BY <1>4, <2>1, <2>4 DEF StartDirect, FallBack, ProducerGoes
      <3>2. \A h \in Hosts : DirectSet(h)' = DirectSet(h)
        BY <2>2, <3>1 DEF DirectSet, Host, Base, Types
      <3>3. QED
        BY <1>1, <1>2, <3>1, <3>2 DEF HostsBounded
    <2>5. QED
      BY <2>3, <2>4
  <1>5. ASSUME NEW s \in Requests, EndDirect(s)
        PROVE  OneFfmpegPerHost' /\ HostsBounded'
    <2>1. PICK k \in Hosts : k = Host(s)
      BY HlsAssumption DEF Host, Base, Types
    <2>2. /\ url' = url /\ producer[s] = "direct"
          /\ cdn' = [cdn EXCEPT ![k] = @ - 1]
          /\ \E q \in {"armed", "ytdlp"} : producer' = [producer EXCEPT ![s] = q]
      BY <1>5, <2>1
      DEF EndDirect, FallBack, ProducerGoes, Base, Types, handlerVars
    <2>3. DirectSet(k)' = DirectSet(k) \ {s} /\ s \in DirectSet(k)
      BY <2>1, <2>2 DEF DirectSet, Host, Base, Types
    <2>4. ASSUME NEW h \in Hosts
          PROVE  cdn'[h] = Cardinality(DirectSet(h)') /\ cdn'[h] \in 0 .. MaxPerHost
      <3>1. CASE h = k
        <4>1. /\ Cardinality(DirectSet(k)') = Cardinality(DirectSet(k)) - 1
              /\ Cardinality(DirectSet(k)') \in Nat
          BY <2>3, DirectSetFinite, FS_RemoveElement, FS_CardinalityType
        <4>2. cdn'[k] = cdn[k] - 1
          BY <2>2 DEF Base, Types
        <4>3. cdn'[k] \in 0 .. MaxPerHost
          BY <1>1, <4>1, <4>2, HlsAssumption DEF HostsBounded
        <4>4. QED
          BY <1>1, <3>1, <4>1, <4>2, <4>3
      <3>2. CASE h # k
        <4>1. DirectSet(h)' = DirectSet(h)
          BY <2>1, <2>2, <3>2 DEF DirectSet, Host, Base, Types
        <4>2. cdn'[h] = cdn[h]
          BY <2>2, <3>2 DEF Base, Types
        <4>3. QED
          BY <1>1, <4>1, <4>2 DEF HostsBounded
      <3>3. QED
        BY <3>1, <3>2
    <2>5. QED
      BY <1>2, <2>4
  <1>6. QED
    BY <1>3, <1>4, <1>5, OthersKeepHosts

\* The per-host limiter counts exactly the running ffmpeg downloads of the
\* host, and so admits at most MaxPerHost of them.
THEOREM FfmpegPerHost == Spec => []OneFfmpegPerHost
  BY InitBase, NextBase, InitHosts, NextHosts, PTL DEF Spec

-----------------------------------------------------------------------------
(* Counting the readers of each session.                                   *)

ReadSet(s) == {r \in Requests : handler[r] = "reading" /\ sess[r] = s}

\* Finitely many requests, so finitely many readers of a session.
LEMMA ReadSetFinite ==
  \A s : IsFiniteSet(ReadSet(s)) /\ Cardinality(ReadSet(s)) \in Nat
  BY HlsAssumption, FS_Subset, FS_CardinalityType DEF ReadSet

KeepsReaders ==
  /\ readers' = readers
  /\ \A r \in Requests : /\ handler[r] = "reading" => sess'[r] = sess[r]
                         /\ (handler'[r] = "reading") = (handler[r] = "reading")

\* Only Join and Leave change who reads a session.
LEMMA OthersKeepReaders ==
  Base /\ [Next]_vars => KeepsReaders \/ \E r \in Requests : Join(r) \/ Leave(r)
  <1> SUFFICES ASSUME Base, [Next]_vars, ~ \E r \in Requests : Join(r) \/ Leave(r)
               PROVE  KeepsReaders
    OBVIOUS
  <1> USE DEF Base, Types, KeepsReaders, HandlerGoes, handlerVars, sessionVars
  <1>1. ASSUME NEW r \in Requests,
               \/ FreeChunks(r) \/ UnlistDone(r)
               \/ CancelAbandoned(r) \/ UnlistCancelled(r) \/ ReleaseSlot(r)
        PROVE  KeepsReaders
    BY <1>1 DEF FreeChunks, UnlistDone, CancelAbandoned, UnlistCancelled, ReleaseSlot
  <1>2. ASSUME NEW r \in Requests, Lookup(r) \/ AcquireSlot(r) PROVE KeepsReaders
    BY <1>2 DEF Lookup, AcquireSlot
  <1>3. ASSUME NEW r \in Requests, GetOrCreate(r) PROVE KeepsReaders
    BY <1>3 DEF GetOrCreate
  <1>4. ASSUME NEW s \in Requests, ProducerStep(s) \/ Overflow(s) PROVE KeepsReaders
    BY <1>4, ProducerEffect
  <1>5. CASE CancelAllSessions
    BY <1>5 DEF CancelAllSessions
  <1>6. CASE UNCHANGED vars
    BY <1>6 DEF vars
  <1>7. QED
    BY <1>1, <1>2, <1>3, <1>4, <1>5, <1>6 DEF Next, HandlerStep

\* Nobody reads at the start.
LEMMA InitReaders == Init => ReadersCounted
  <1> SUFFICES ASSUME Init PROVE ReadersCounted
    OBVIOUS
  <1>1. \A s : ReadSet(s) = {}
    BY DEF Init, ReadSet
  <1>2. QED
    BY <1>1, FS_EmptySet DEF Init, ReadersCounted, ReadSet

\* readers goes up with each join and down with each deferred exit.
LEMMA NextReaders == Base /\ ReadersCounted /\ [Next]_vars => ReadersCounted'
  <1> SUFFICES ASSUME Base, ReadersCounted, [Next]_vars PROVE ReadersCounted'
    OBVIOUS
  <1>1. \A s \in Requests : readers[s] = Cardinality(ReadSet(s))
    BY DEF ReadersCounted, ReadSet
  <1>2. ASSUME \A s \in Requests : readers'[s] = Cardinality(ReadSet(s)')
        PROVE  ReadersCounted'
    BY <1>2 DEF ReadersCounted, ReadSet
  <1>3. CASE KeepsReaders
    <2>1. \A s \in Requests : ReadSet(s)' = ReadSet(s)
      BY <1>3 DEF KeepsReaders, ReadSet
    <2>2. QED
      BY <1>1, <1>2, <1>3, <2>1 DEF KeepsReaders
  <1>4. ASSUME NEW r \in Requests, Join(r) PROVE ReadersCounted'
    <2>1. /\ handler[r] = "join" /\ sess[r] \in Requests /\ sess' = sess
          /\ handler' = [handler EXCEPT ![r] = "reading"]
          /\ readers' = [readers EXCEPT ![sess[r]] = @ + 1]
      BY <1>4 DEF Join, HandlerGoes, Base, Shape, NoSessionYet
    <2>2. ReadSet(sess[r])' = ReadSet(sess[r]) \cup {r} /\ r \notin ReadSet(sess[r])
      BY <2>1 DEF ReadSet, Base, Types
    <2>3. \A s \in Requests \ {sess[r]} : ReadSet(s)' = ReadSet(s)
      BY <2>1 DEF ReadSet, Base, Types
    <2>4. Cardinality(ReadSet(sess[r])') = Cardinality(ReadSet(sess[r])) + 1
      BY <2>2, ReadSetFinite, FS_AddElement
    <2>5. QED
      BY <1>1, <1>2, <2>1, <2>3, <2>4 DEF Base, Types
  <1>5. ASSUME NEW r \in Requests, Leave(r) PROVE ReadersCounted'
    <2>1. handler[r] = "reading" /\ sess[r] \in Requests
      BY <1>5 DEF Leave, Base, Shape, NoSessionYet
    <2>2. /\ sess' = sess
          /\ \E h \in HandlerStates \ {"reading"} : handler' = [handler EXCEPT ![r] = h]
          /\ readers' = [readers EXCEPT ![sess[r]] = readers[sess[r]] - 1]
      BY <1>5 DEF Leave, HandlerGoes, HandlerStates
    <2>3. ReadSet(sess[r])' = ReadSet(sess[r]) \ {r} /\ r \in ReadSet(sess[r])
      BY <2>1, <2>2 DEF ReadSet, Base, Types
    <2>4. \A s \in Requests \ {sess[r]} : ReadSet(s)' = ReadSet(s)
      BY <2>1, <2>2 DEF ReadSet, Base, Types
    <2>5. Cardinality(ReadSet(sess[r])') = Cardinality(ReadSet(sess[r])) - 1
      BY <2>3, ReadSetFinite, FS_RemoveElement
    <2>6. QED
      BY <1>1, <1>2, <2>1, <2>2, <2>4, <2>5 DEF Base, Types
  <1>6. QED
    BY <1>3, <1>4, <1>5, OthersKeepReaders

\* readers is the number of handlers between their join and their exit, so
\* the test "I was the last reader" never misfires by a wrong count.
THEOREM ReadersCorrect == Spec => []ReadersCounted
  BY InitBase, NextBase, InitReaders, NextReaders, PTL DEF Spec

\* Both together: every listed session downloads or has its timer armed, and
\* knows how many handlers may still read it.
THEOREM SessionsAreTended == Spec => []SessionsTended
  <1>1. ListedWillExpire /\ ReadersCounted => SessionsTended
    BY DEF SessionsTended
  <1>2. QED
    BY <1>1, ListedExpire, ReadersCorrect, PTL

-----------------------------------------------------------------------------
\* Every variable has its type in every reachable state; the bounds of the
\* three counters come from the three counting invariants.
THEOREM TypeCorrect == Spec => []TypeOK
  <1>1. Base /\ SlotsCounted /\ HostsBounded /\ ReadersCounted => TypeOK
    <2> SUFFICES ASSUME Base, SlotsCounted, HostsBounded, ReadersCounted
                 PROVE  TypeOK
      OBVIOUS
    <2>1. slots \in 0 .. MaxSlots
      BY HoldSetFinite, HlsAssumption DEF SlotsCounted, Base, Types
    <2>2. cdn \in [Hosts -> 0 .. MaxPerHost]
      BY DEF HostsBounded, Base, Types
    <2>3. \A s \in Requests : readers[s] \in Nat
      BY ReadSetFinite DEF ReadersCounted, ReadSet
    <2>4. readers \in [Requests -> Nat]
      BY <2>3 DEF Base, Types
    <2>5. QED
      BY <2>1, <2>2, <2>4 DEF TypeOK, Base, Types
  <1>2. QED
    BY <1>1, InitBase, NextBase, InitSlots, NextSlots, InitHosts, NextHosts,
       InitReaders, NextReaders, PTL DEF Spec

-----------------------------------------------------------------------------
(* A slot is not returned early.                                           *)

\* A session is done only after its download has ended, or was too long.
DoneMeansEnded ==
  \A s \in Requests : done[s] => producer[s] \in {"armed", "expired"} \/ overlong[s]

HeldInv == Base /\ DoneMeansEnded /\ SlotHeldWhileDownloading

\* But for an overflow, done is set only by the end of the download; it is
\* reset when the fallback starts.
LEMMA NextDoneMeansEnded ==
  ASSUME Base, DoneMeansEnded, [Next]_vars
  PROVE  DoneMeansEnded'
  <1> USE DEF Base, Types, DoneMeansEnded, handlerVars, sessionVars, ProducerGoes
  <1>1. ASSUME NEW r \in Requests,
               \/ Lookup(r) \/ AcquireSlot(r) \/ Join(r) \/ FreeChunks(r)
               \/ UnlistDone(r) \/ CancelAbandoned(r) \/ UnlistCancelled(r)
               \/ ReleaseSlot(r)
        PROVE  DoneMeansEnded'
    BY <1>1 DEF Lookup, AcquireSlot, Join, FreeChunks, UnlistDone,
                CancelAbandoned, UnlistCancelled, ReleaseSlot
  <1>2. ASSUME NEW r \in Requests, Leave(r) PROVE DoneMeansEnded'
    BY <1>2 DEF Leave
  <1>3. ASSUME NEW r \in Requests, GetOrCreate(r) PROVE DoneMeansEnded'
    <2>1. producer[r] = "none"
      BY <1>3 DEF GetOrCreate, HandlerGoes, Shape, NoSessionYet
    <2>2. QED
      BY <1>3, <2>1 DEF GetOrCreate
  <1>4. ASSUME NEW s \in Requests, StartDirect(s) \/ EndDirect(s)
        PROVE  DoneMeansEnded'
    BY <1>4 DEF StartDirect, EndDirect, FallBack
  <1>5. ASSUME NEW s \in Requests, EndYtdlp(s) \/ Expire(s) \/ Overflow(s)
        PROVE  DoneMeansEnded'
    BY <1>5 DEF EndYtdlp, Expire, Overflow
  <1>6. CASE CancelAllSessions
    BY <1>6 DEF CancelAllSessions
  <1>7. CASE UNCHANGED vars
    BY <1>7 DEF vars
  <1>8. QED
    BY <1>1, <1>2, <1>3, <1>4, <1>5, <1>6, <1>7 DEF Next, HandlerStep, ProducerStep

\* A video that was too long stays so.
LEMMA OverlongKept ==
  ASSUME Base, [Next]_vars, NEW r \in Requests, overlong[r]
  PROVE  overlong'[r]
  <1> USE DEF Base, Types, handlerVars, sessionVars
  <1>1. ASSUME NEW q \in Requests, Lookup(q) \/ HandlerStep(q) \/ ReleaseSlot(q)
        PROVE  overlong' = overlong
    BY <1>1 DEF HandlerStep, Lookup, AcquireSlot, GetOrCreate, Join, Leave, FreeChunks,
                UnlistDone, CancelAbandoned, UnlistCancelled, ReleaseSlot
  <1>2. ASSUME NEW s \in Requests, ProducerStep(s) PROVE overlong' = overlong
    BY <1>2 DEF ProducerStep, StartDirect, EndDirect, EndYtdlp, Expire
  <1>3. ASSUME NEW s \in Requests, Overflow(s) PROVE overlong'[r]
    BY <1>3 DEF Overflow
  <1>4. CASE CancelAllSessions
    BY <1>4 DEF CancelAllSessions
  <1>5. CASE UNCHANGED vars
    BY <1>5 DEF vars
  <1>6. QED
    BY <1>1, <1>2, <1>3, <1>4, <1>5 DEF Next

\* A watcher's release is the only step that marks a slot released.
LEMMA ReleasedOnlyByWatcher ==
  ASSUME Base, [Next]_vars, NEW r \in Requests, ~ReleaseSlot(r)
  PROVE  watcher'[r] = "released" => watcher[r] = "released"
  <1> USE DEF Base, Types, handlerVars, sessionVars
  <1>1. ASSUME NEW q \in Requests,
               \/ Lookup(q) \/ AcquireSlot(q) \/ Join(q) \/ Leave(q) \/ FreeChunks(q)
               \/ UnlistDone(q) \/ CancelAbandoned(q) \/ UnlistCancelled(q)
        PROVE  watcher' = watcher
    BY <1>1 DEF Lookup, AcquireSlot, Join, Leave, FreeChunks, UnlistDone,
                CancelAbandoned, UnlistCancelled
  <1>2. ASSUME NEW q \in Requests, GetOrCreate(q), watcher'[r] = "released"
        PROVE  watcher[r] = "released"
    BY <1>2 DEF GetOrCreate
  <1>3. ASSUME NEW q \in Requests, ReleaseSlot(q)
        PROVE  watcher'[r] = watcher[r]
    BY <1>3 DEF ReleaseSlot
  <1>4. ASSUME NEW s \in Requests, ProducerStep(s) \/ Overflow(s)
        PROVE  watcher' = watcher
    BY <1>4, ProducerEffect
  <1>5. CASE CancelAllSessions
    BY <1>5 DEF CancelAllSessions
  <1>6. CASE UNCHANGED vars
    BY <1>6 DEF vars
  <1>7. QED
    BY <1>1, <1>2, <1>3, <1>4, <1>5, <1>6 DEF Next, HandlerStep

\* A handler keeps the session it has got.
LEMMA SessKept ==
  ASSUME Base, [Next]_vars, NEW r \in Requests, handler[r] \notin NoSessionYet
  PROVE  sess'[r] = sess[r]
  <1> USE DEF Base, Types, NoSessionYet, HandlerGoes, handlerVars, sessionVars
  <1>1. ASSUME NEW q \in Requests,
               \/ Lookup(q) \/ AcquireSlot(q) \/ Join(q) \/ Leave(q) \/ FreeChunks(q)
               \/ UnlistDone(q) \/ CancelAbandoned(q) \/ UnlistCancelled(q)
               \/ ReleaseSlot(q)
        PROVE  sess' = sess
    BY <1>1 DEF Lookup, AcquireSlot, Join, Leave, FreeChunks, UnlistDone,
                CancelAbandoned, UnlistCancelled, ReleaseSlot
  <1>2. ASSUME NEW q \in Requests, GetOrCreate(q) PROVE sess'[r] = sess[r]
    BY <1>2 DEF GetOrCreate
  <1>3. ASSUME NEW s \in Requests, ProducerStep(s) \/ Overflow(s)
        PROVE  sess' = sess
    BY <1>3, ProducerEffect
  <1>4. CASE CancelAllSessions
    BY <1>4 DEF CancelAllSessions
  <1>5. CASE UNCHANGED vars
    BY <1>5 DEF vars
  <1>6. QED
    BY <1>1, <1>2, <1>3, <1>4, <1>5 DEF Next, HandlerStep

\* A session that is downloading was so before, or has just been created.
LEMMA RunningKept ==
  ASSUME Base, [Next]_vars, NEW r \in Requests,
         handler[r] \notin NoSessionYet, producer'[r] \in Running
  PROVE  producer[r] \in Running
  <1> USE DEF Base, Types, NoSessionYet, HandlerGoes, handlerVars, sessionVars
  <1>1. ASSUME NEW q \in Requests,
               \/ Lookup(q) \/ AcquireSlot(q) \/ Join(q) \/ Leave(q) \/ FreeChunks(q)
               \/ UnlistDone(q) \/ CancelAbandoned(q) \/ UnlistCancelled(q)
               \/ ReleaseSlot(q)
        PROVE  producer' = producer
    BY <1>1 DEF Lookup, AcquireSlot, Join, Leave, FreeChunks, UnlistDone,
                CancelAbandoned, UnlistCancelled, ReleaseSlot
  <1>2. ASSUME NEW q \in Requests, GetOrCreate(q)
        PROVE  producer'[r] = producer[r]
    BY <1>2 DEF GetOrCreate
  <1>3. ASSUME NEW s \in Requests, StartDirect(s) \/ EndDirect(s)
        PROVE  producer[r] \in Running
    BY <1>3 DEF StartDirect, EndDirect, FallBack, ProducerGoes, Running
  <1>4. ASSUME NEW s \in Requests, EndYtdlp(s) \/ Expire(s) \/ Overflow(s)
        PROVE  producer[r] \in Running
    BY <1>4 DEF EndYtdlp, Expire, Overflow, ProducerGoes, Running
  <1>5. CASE CancelAllSessions
    BY <1>5 DEF CancelAllSessions
  <1>6. CASE UNCHANGED vars
    BY <1>6 DEF vars
  <1>7. QED
    BY <1>1, <1>2, <1>3, <1>4, <1>5, <1>6 DEF Next, HandlerStep, ProducerStep

\* A watcher returns the slot of a download only when it reads done.
LEMMA NextHeld == HeldInv /\ [Next]_vars => HeldInv'
  <1> SUFFICES ASSUME HeldInv, [Next]_vars PROVE HeldInv'
    OBVIOUS
  <1>1. Base'
    BY NextBase DEF HeldInv
  <1>2. DoneMeansEnded'
    BY NextDoneMeansEnded DEF HeldInv
  <1>5. ASSUME NEW r \in Requests, overlong[r] PROVE overlong'[r]
    BY <1>5, OverlongKept DEF HeldInv
  <1>3. ASSUME NEW r \in Requests, sess'[r] = r, producer'[r] \in Running
        PROVE  watcher'[r] # "released" \/ overlong'[r]
    <2>1. CASE ReleaseSlot(r)
      <3>1. done[sess[r]] /\ sess' = sess /\ producer' = producer
        BY <2>1 DEF ReleaseSlot, handlerVars, sessionVars
      <3>2. producer[r] \in {"armed", "expired"} \/ overlong[r]
        BY <1>3, <3>1 DEF HeldInv, DoneMeansEnded
      <3>3. QED
        BY <1>3, <1>5, <3>1, <3>2 DEF Running
    <2>2. CASE ~ReleaseSlot(r) /\ handler[r] \in NoSessionYet
      <3>1. watcher[r] = "none"
        BY <2>2 DEF HeldInv, Base, Shape
      <3>2. QED
        BY <2>2, <3>1, ReleasedOnlyByWatcher DEF HeldInv
    <2>3. CASE ~ReleaseSlot(r) /\ handler[r] \notin NoSessionYet
      <3>1. sess[r] = sess'[r]
        BY <2>3, SessKept DEF HeldInv
      <3>2. producer[r] \in Running
        BY <1>3, <2>3, <3>1, RunningKept DEF HeldInv
      <3>3. watcher[r] # "released" \/ overlong[r]
        BY <1>3, <3>1, <3>2 DEF HeldInv, SlotHeldWhileDownloading
      <3>4. QED
        BY <1>5, <2>3, <3>3, ReleasedOnlyByWatcher DEF HeldInv
    <2>4. QED
      BY <2>1, <2>2, <2>3
  <1>4. QED
    BY <1>1, <1>2, <1>3 DEF HeldInv, SlotHeldWhileDownloading

\* The slot a download was admitted with is not given back before the download
\* has ended, unless the video went beyond the chunk limit.
THEOREM SlotHeld == Spec => []SlotHeldWhileDownloading
  <1>1. Init => HeldInv
    BY InitBase
    DEF HeldInv, Init, DoneMeansEnded, SlotHeldWhileDownloading
  <1>2. HeldInv => SlotHeldWhileDownloading
    BY DEF HeldInv
  <1>3. QED
    BY <1>1, <1>2, NextHeld, PTL DEF Spec
=============================================================================
