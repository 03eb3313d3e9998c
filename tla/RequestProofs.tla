-------------------------- MODULE RequestProofs ---------------------------
(***************************************************************************)
(* What the requests for content promise, for any providers, orders and    *)
(* number of requests: the orders of providers, the extraction of a page   *)
(* and the jobs of the converter.                                          *)
(***************************************************************************)
EXTENDS ProviderOrder, ContentExtract, ConvertJob, FilterProofs, FiniteSetTheorems

-----------------------------------------------------------------------------
(* The orders of providers.                                                *)

\* Orders, by the names of providers.
OrderNames == Seq(validProviderNames)

\* An admin's request under way knows its category and its order.
OrderRequests == [at : {"del", "push", "failed"}, category : Categories, order : OrderNames,
                  reset : BOOLEAN]
\* Requests that are no longer under way.
OrderRests == [at : {"idle", "refused", "failed", "done"}]
OrderAnswers == [at : {"done"}, category : Categories, order : OrderNames]

\* A load of the orders.
OrderLoads == [todo : SUBSET Categories, data : [Categories -> OrderNames], on : BOOLEAN]

\* All that is stored, cached and sent is an order of providers.
OrderInv ==
  /\ lists \in [Categories -> OrderNames] /\ orderCache \in [Categories -> OrderNames]
  /\ loading \in OrderLoads
  /\ orderAdmin \in [OrderAdmins -> OrderRequests \cup OrderRests \cup OrderAnswers]

\* No lists and no load have the form of lists and loads.
LEMMA NoListsType == NoLists \in [Categories -> OrderNames] /\ NoLoad \in OrderLoads
  <1>1. <<>> \in OrderNames
    BY DEF OrderNames
  <1> QED
    BY <1>1 DEF NoLists, NoLoad, OrderLoads

\* Only a request with a category and an order is about to delete or push.
LEMMA OrderUnderWay ==
  ASSUME OrderInv, NEW a \in OrderAdmins, orderAdmin[a].at \in {"del", "push"}
  PROVE  /\ orderAdmin[a] \in OrderRequests /\ orderAdmin[a].category \in Categories
         /\ orderAdmin[a].order \in OrderNames
  BY DEF OrderInv, OrderRequests, OrderRests, OrderAnswers

\* The orders are loaded, one category at a time.
LEMMA OrderRefreshKeeps ==
  ASSUME OrderInv, OrderRefresh
  PROVE  OrderInv'
  <1>1. CASE StartLoad
    BY <1>1, NoListsType DEF StartLoad, OrderInv, OrderLoads
  <1>2. CASE SwapOrders
    BY <1>2, NoListsType DEF SwapOrders, Replaced, OrderInv, OrderLoads
  <1>3. ASSUME NEW c \in Categories, LoadOrder(c) PROVE OrderInv'
    <2>1. UNCHANGED <<lists, orderCache, orderAdmin>>
      BY <1>3 DEF LoadOrder
    <2>2. lists[c] \in OrderNames /\ loading \in OrderLoads
      BY DEF OrderInv
    <2>3. loading' \in OrderLoads
      <3>1. CASE loading' = [loading EXCEPT !.todo = @ \ {c}, !.data[c] = lists[c]]
        BY <2>2, <3>1 DEF OrderLoads
      <3>2. CASE loading' = [loading EXCEPT !.todo = @ \ {c}]
        BY <2>2, <3>2 DEF OrderLoads
      <3> QED
        BY <1>3, <3>1, <3>2 DEF LoadOrder
    <2> QED
      BY <2>1, <2>3 DEF OrderInv
  <1> QED
    BY <1>1, <1>2, <1>3 DEF OrderRefresh

\* An administrator sends or resets an order.
LEMMA OrderSendKeeps ==
  ASSUME OrderInv, NEW a \in OrderAdmins, NEW c \in Categories,
         ResetProviderOrder(a, c) \/ \E o \in Orders : UpdateProviderOrder(a, c, o)
  PROVE  OrderInv'
  <1>1. UNCHANGED <<lists, orderCache, loading>>
    BY DEF ResetProviderOrder, UpdateProviderOrder, Sends
  <1>2. CASE ResetProviderOrder(a, c)
    <2>1. \A k \in validProviderKeys : defaultProviders[k] \in OrderNames
      <3>1. /\ <<"cloudconvert", "convertio">> \in OrderNames /\ <<"downr">> \in OrderNames
            /\ <<"downr", "vidown">> \in OrderNames
        BY DEF OrderNames, validProviderNames
      <3> QED
        BY <3>1 DEF defaultProviders
    <2>2. DOMAIN defaultProviders = validProviderKeys
      BY DEF defaultProviders
    <2> DEFINE row == IF ListKey(c) \in DOMAIN defaultProviders
                      THEN [at |-> "del", category |-> c, reset |-> TRUE,
                            order |-> defaultProviders[ListKey(c)]]
                      ELSE [at |-> "refused"]
    <2>3. row \in OrderRequests \cup OrderRests
      BY <2>1, <2>2 DEF OrderRequests, OrderRests
    <2>4. orderAdmin' = [orderAdmin EXCEPT ![a] = row]
      BY <1>2 DEF ResetProviderOrder, OrderIs
    <2> HIDE DEF row
    <2> QED
      BY <1>1, <2>3, <2>4 DEF OrderInv
  <1>3. ASSUME NEW o \in Orders, UpdateProviderOrder(a, c, o) PROVE OrderInv'
    <2>1. [at |-> "del", category |-> c, order |-> o, reset |-> FALSE] \in OrderRequests
      BY OrderAssumption DEF OrderRequests, OrderNames
    <2> QED
      BY <1>1, <1>3, <2>1 DEF UpdateProviderOrder, OrderIs, OrderInv
  <1> QED
    BY <1>2, <1>3

\* The order is written: deleted, pushed and read again.
LEMMA OrderWriteKeeps ==
  ASSUME OrderInv, NEW a \in OrderAdmins, OrderRequest(a)
  PROVE  OrderInv'
  <1> DEFINE v == orderAdmin[a]
  <1>1. v \in OrderRequests /\ v.category \in Categories /\ v.order \in OrderNames
    BY OrderUnderWay DEF OrderRequest, DeleteOrder, PushOrder
  <1>2. UNCHANGED <<orderCache, loading>>
    BY DEF OrderRequest, DeleteOrder, PushOrder
  <1>3. lists' \in [Categories -> OrderNames]
    <2>1. lists \in [Categories -> OrderNames] /\ <<>> \in OrderNames
      BY DEF OrderInv, OrderNames
    <2>2. lists[v.category] \o v.order \in OrderNames
      BY <1>1, <2>1, ConcatProperties DEF OrderNames
    <2>3. \/ lists' = [lists EXCEPT ![v.category] = <<>>]
          \/ lists' = [lists EXCEPT ![v.category] = lists[v.category] \o v.order]
          \/ lists' = lists
      BY <1>1, <2>1 DEF OrderRequest, DeleteOrder, PushOrder
    <2> QED
      BY <1>1, <2>1, <2>2, <2>3
  <1>4. \E row \in OrderRequests \cup OrderRests \cup OrderAnswers :
          orderAdmin' = [orderAdmin EXCEPT ![a] = row]
    <2>1. \A at \in {"del", "push", "failed"} : [v EXCEPT !.at = at] \in OrderRequests
      BY <1>1 DEF OrderRequests
    <2>2. [at |-> "done", category |-> v.category, order |-> v.order] \in OrderAnswers
      BY <1>1 DEF OrderAnswers
    <2>3. \A at \in {"done", "failed"} : [at |-> at] \in OrderRests
      BY DEF OrderRests
    <2>4. CASE DeleteOrder(a)
      <3>1. (IF v.reset THEN "push" ELSE "failed") \in {"push", "failed"}
        OBVIOUS
      <3> QED
        BY <2>1, <2>4, <3>1 DEF DeleteOrder, OrderIs
    <2>5. CASE PushOrder(a)
      <3>1. (IF v.reset THEN "done" ELSE "failed") \in {"done", "failed"}
        OBVIOUS
      <3> QED
        BY <2>2, <2>3, <2>5, <3>1 DEF PushOrder, OrderIs
    <2> QED
      BY <2>4, <2>5 DEF OrderRequest
  <1> QED
    BY <1>2, <1>3, <1>4 DEF OrderInv

\* What remains of an order is of the service, and there is always something.
LEMMA ResolvedAreOwn ==
  ASSUME NEW c \in Categories, orderCache[c] \in OrderNames
  PROVE  /\ ResolveProviderForCategory(c) # <<>>
         /\ ToSet(ResolveProviderForCategory(c)) \subseteq ToSet(Providers(c))
  <1>1. Providers(c) # <<>>
    BY DEF Providers
  <1>2. /\ Named(c) \in OrderNames
        /\ {Named(c)[k] : k \in 1 .. Len(Named(c))} \subseteq ToSet(Providers(c))
    BY KeptElements DEF OrderNames, Named
  <1>3. ToSet(Named(c)) \subseteq ToSet(Providers(c))
    <2>1. DOMAIN Named(c) = 1 .. Len(Named(c))
      BY <1>2, LenProperties DEF OrderNames
    <2> QED
      BY <1>2, <2>1 DEF ToSet
  <1> QED
    BY <1>1, <1>3 DEF ResolveProviderForCategory

\* OrdersAreUsable: every category has a provider to offer, and only such, also
\* between an update's deletion and its push, whatever the admins' commands do
\* to each other's lists and whichever fail (ResolveProviderForCategory).
THEOREM OrdersStayUsable == OrderSpec => []OrdersAreUsable
  <1>1. OrderInit => OrderInv
    BY NoListsType DEF OrderInit, OrderInv, NoOrder, OrderRests
  <1>2. OrderInv /\ [OrderNext]_orderVars => OrderInv'
    <2> SUFFICES ASSUME OrderInv, [OrderNext]_orderVars PROVE OrderInv'
      OBVIOUS
    <2>1. CASE UNCHANGED orderVars
      BY <2>1 DEF orderVars, OrderInv
    <2> QED
      BY <2>1, OrderRefreshKeeps, OrderSendKeeps, OrderWriteKeeps DEF OrderNext
  <1>3. OrderInv => OrdersAreUsable
    <2> SUFFICES ASSUME OrderInv PROVE OrdersAreUsable
      OBVIOUS
    <2>1. OrderTypeOK
      BY DEF OrderInv, OrderLoads, OrderNames, OrderTypeOK
    <2>2. AlwaysAProvider
      BY ResolvedAreOwn DEF OrderInv, AlwaysAProvider
    <2> QED
      BY <2>1, <2>2 DEF OrdersAreUsable
  <1> QED
    BY <1>1, <1>2, <1>3, PTL DEF OrderSpec

-----------------------------------------------------------------------------
(* Content extraction.                                                     *)

\* The phases of an extraction.
Phases == {"primary", "fallback", "second", "answered", "unavailable"}

\* What a call leaves in a channel.
Results == [from : Nat, ok : BOOLEAN]

\* A channel has one place.
Channels == {<<>>} \cup {<<x>> : x \in Results}

\* Where a call is.
CallStates == {"calling", "media", "error", "gone"}

\* Extractions that call providers side by side.
Parallel ==
  [at : Phases, site : Sites, order : ServedOrders,
   calls : UNION {[DOMAIN o -> CallStates] : o \in ServedOrders},
   failed : SUBSET Nat, primaryCh : Channels, secondaryCh : Channels,
   first : Nat, second : Nat]

\* And one after the other.
OneByOne ==
  [at : {"trying", "answered", "unavailable"}, site : {"spotify"}, order : {<<"downr">>},
   first : Nat, second : {0}, calls : {[i \in DOMAIN <<"downr">> |-> "gone"]}, next : Nat]

\* What a channel holds is the result of a provider it is for, which has sent it.
CallsFit(v) ==
  /\ v.calls \in [DOMAIN v.order -> CallStates]
  /\ \A i \in DOMAIN v.order :
       /\ v.calls[i] \in {"calling", "media"} => i \notin v.failed
       /\ v.calls[i] = "error" => i \in v.failed
  /\ v.failed \subseteq DOMAIN v.order
  /\ v.primaryCh # <<>> =>
       v.primaryCh[1].from = 1 /\ v.calls[1] = "gone"
       /\ v.primaryCh[1].ok = (1 \notin v.failed)
  /\ v.secondaryCh # <<>> =>
       LET i == v.secondaryCh[1].from IN
       /\ i \in DOMAIN v.order \ {1} /\ v.calls[i] = "gone"
       /\ v.secondaryCh[1].ok = (i \notin v.failed)

\* How far the request has come.
PhaseFits(v) ==
  /\ v.at = "primary" => v.first = 0 /\ v.second = 0
                         /\ (v.primaryCh = <<>> => v.calls[1] # "gone")
  /\ v.at # "primary" => v.calls[1] = "gone" /\ v.primaryCh = <<>>
  /\ v.at = "fallback" => v.first = 0 /\ v.second = 0 /\ 1 \in v.failed /\ ~ Alone(v)
  /\ v.at = "second" => v.first = 1 /\ v.second = 0
  /\ v.at = "answered" => /\ v.first \in DOMAIN v.order /\ v.second \in {0} \cup DOMAIN v.order
                          /\ v.first # 1 => 1 \in v.failed
  /\ v.at = "unavailable" => (Len(v.order) <= 2 => v.failed = DOMAIN v.calls)

\* Until the second of two providers is heard, it has not sent.
SecondUnheard(v) ==
  v.at \in {"primary", "fallback", "second"} /\ Len(v.order) = 2 /\ v.secondaryCh = <<>>
    => v.calls[2] # "gone"

\* Each extraction fits its phase.
ExtractionOK(v) ==
  \/ v = NoExtraction
  \/ v \in OneByOne
  \/ v \in Parallel /\ CallsFit(v) /\ PhaseFits(v) /\ SecondUnheard(v)

\* The invariant of all requests.
ExtractInv ==
  /\ extraction \in [Extractions -> {NoExtraction} \cup OneByOne \cup Parallel]
  /\ \A r \in Extractions : ExtractionOK(extraction[r])

\* An order is not empty and names places of the providers.
LEMMA OrderIsUsable ==
  ASSUME NEW o \in ServedOrders
  PROVE  /\ o \in Seq(DOMAIN MediaOf) /\ Len(o) \in Nat \ {0}
         /\ DOMAIN o = 1 .. Len(o) /\ 1 \in DOMAIN o
  <1>1. o \in Seq(DOMAIN MediaOf) /\ o # <<>>
    BY ExtractAssumption
  <1>2. Len(o) \in Nat /\ DOMAIN o = 1 .. Len(o)
    BY <1>1, LenProperties
  <1>3. Len(o) # 0
    BY <1>1, EmptySeq
  <1> QED
    BY <1>1, <1>2, <1>3

\* A step of one request, which leaves the others alone.
LEMMA OneMoves ==
  ASSUME ExtractInv, NEW r \in Extractions, NEW v, Becomes(r, v), ExtractionOK(v)
  PROVE  ExtractInv'
  <1>1. v \in {NoExtraction} \cup OneByOne \cup Parallel
    BY DEF ExtractionOK
  <1>2. extraction' \in [Extractions -> {NoExtraction} \cup OneByOne \cup Parallel]
    BY <1>1 DEF ExtractInv, Becomes
  <1>3. ASSUME NEW q \in Extractions PROVE ExtractionOK(extraction'[q])
    <2>1. extraction'[q] = IF q = r THEN v ELSE extraction[q]
      BY DEF ExtractInv, Becomes
    <2> QED
      BY <2>1 DEF ExtractInv
  <1> QED
    BY <1>2, <1>3 DEF ExtractInv

\* A channel of one place takes a result if it is empty.
LEMMA OneResult ==
  ASSUME NEW i \in Nat, NEW b \in BOOLEAN
  PROVE  /\ <<[from |-> i, ok |-> b]>> \in Channels
         /\ <<[from |-> i, ok |-> b]>> # <<>>
         /\ <<[from |-> i, ok |-> b]>>[1].from = i
         /\ <<[from |-> i, ok |-> b]>>[1].ok = b
  BY DEF Channels, Results

\* An extraction starts with a call under way.
LEMMA Starts ==
  ASSUME ExtractInv, NEW r \in Extractions, NEW site \in Sites, NEW o \in ServedOrders,
         Extract(r, site, o)
  PROVE  ExtractInv'
  <1> DEFINE v == [at |-> "primary", site |-> site, order |-> o,
                   calls |-> [i \in DOMAIN o |-> "calling"],
                   failed |-> {}, primaryCh |-> <<>>, secondaryCh |-> <<>>,
                   first |-> 0, second |-> 0]
  <1>1. DOMAIN o = 1 .. Len(o) /\ 1 \in DOMAIN o /\ Len(o) \in Nat
    BY OrderIsUsable
  <1>2. v.calls \in [DOMAIN o -> CallStates] /\ \A i \in DOMAIN o : v.calls[i] = "calling"
    BY DEF CallStates
  <1>3. v \in Parallel
    BY <1>2 DEF Parallel, Phases, Channels
  <1>4. CallsFit(v) /\ PhaseFits(v) /\ SecondUnheard(v)
    BY <1>1, <1>2 DEF CallsFit, PhaseFits, SecondUnheard
  <1>5. Becomes(r, v)
    BY DEF Extract
  <1> HIDE DEF v
  <1> QED
    BY <1>3, <1>4, <1>5, OneMoves DEF ExtractionOK

\* The calls of a request that asks all at once.
LEMMA Runs ==
  ASSUME ExtractInv, NEW r \in Extractions, extraction[r] \in Parallel
  PROVE  CallsFit(extraction[r]) /\ PhaseFits(extraction[r]) /\ SecondUnheard(extraction[r])
  <1>1. extraction[r].site \in Sites
    BY DEF Parallel
  <1>2. extraction[r] \notin OneByOne
    BY <1>1 DEF OneByOne, Sites
  <1>3. extraction[r].at # "idle"
    BY DEF Parallel, Phases
  <1>4. extraction[r] # NoExtraction
    BY <1>3 DEF NoExtraction
  <1> QED
    BY <1>2, <1>4 DEF ExtractInv, ExtractionOK

\* Whoever calls or waits for a channel asks all at once.
LEMMA CallersRun ==
  ASSUME ExtractInv, NEW r \in Extractions,
         \/ \E i \in DOMAIN extraction[r].calls : extraction[r].calls[i] # "gone"
         \/ extraction[r].at \in {"primary", "fallback", "second"}
  PROVE  extraction[r] \in Parallel
  <1>1. extraction[r] # NoExtraction
    <2>1. SUFFICES ASSUME extraction[r] = NoExtraction PROVE FALSE
      OBVIOUS
    <2>2. extraction[r].at = "idle" /\ extraction[r].calls = <<>>
      BY <2>1 DEF NoExtraction
    <2> QED
      BY <2>2
  <1>2. extraction[r] \notin OneByOne
    BY DEF OneByOne
  <1> QED
    BY <1>1, <1>2 DEF ExtractInv

\* A provider answers with media or with an error.
LEMMA Answers ==
  ASSUME ExtractInv, NEW r \in Extractions, NEW i \in DOMAIN extraction[r].calls,
         ProviderAnswers(r, i)
  PROVE  ExtractInv'
  <1> DEFINE v == extraction[r]
  <1>0. v.calls[i] = "calling"
    BY DEF ProviderAnswers
  <1>1. v \in Parallel /\ CallsFit(v) /\ PhaseFits(v) /\ SecondUnheard(v)
    BY <1>0, CallersRun, Runs
  <1>2. v.order \in ServedOrders /\ DOMAIN v.calls = DOMAIN v.order
    BY <1>1 DEF Parallel, CallsFit
  <1>3. DOMAIN v.order = 1 .. Len(v.order) /\ 1 \in DOMAIN v.order /\ Len(v.order) \in Nat \ {0}
    BY <1>2, OrderIsUsable
  <1>4. ASSUME NEW w, NEW c \in {"media", "error"},
               w = [v EXCEPT !.calls[i] = c, !.failed = IF c = "error" THEN @ \cup {i} ELSE @]
        PROVE  ExtractionOK(w)
    <2>1. /\ w.at = v.at /\ w.site = v.site /\ w.order = v.order
          /\ w.primaryCh = v.primaryCh /\ w.secondaryCh = v.secondaryCh
          /\ w.first = v.first /\ w.second = v.second
          /\ w.calls = [v.calls EXCEPT ![i] = c]
          /\ w.failed = IF c = "error" THEN v.failed \cup {i} ELSE v.failed
      BY <1>1, <1>4 DEF Parallel
    <2>2. w.calls \in [DOMAIN v.order -> CallStates] /\ w.failed \subseteq DOMAIN v.order
      BY <1>1, <1>2, <2>1 DEF CallsFit, CallStates
    <2>3. w \in Parallel
      <3>1. w.calls \in UNION {[DOMAIN o -> CallStates] : o \in ServedOrders}
        BY <1>2, <2>2
      <3>2. w.failed \in SUBSET Nat
        BY <1>3, <2>2
      <3> QED
        BY <1>1, <1>4, <3>1, <3>2 DEF Parallel
    <2>4. \A j \in DOMAIN v.order : w.calls[j] = IF j = i THEN c ELSE v.calls[j]
      BY <1>1, <1>2, <2>1 DEF CallsFit
    <2>5. CallsFit(w)
      BY <1>0, <1>1, <1>2, <1>3, <2>1, <2>2, <2>4 DEF CallsFit
    <2>6. PhaseFits(w)
      <3>1. w.at # "unavailable" \/ ~(Len(v.order) <= 2)
        BY <1>0, <1>1, <1>2, <2>1 DEF PhaseFits, CallsFit
      <3>2. Alone(w) = Alone(v)
        BY <2>1 DEF Alone
      <3> QED
        BY <1>0, <1>1, <1>3, <2>1, <2>4, <3>1, <3>2 DEF PhaseFits, CallsFit
    <2>7. SecondUnheard(w)
      BY <1>0, <1>1, <1>3, <2>1, <2>4 DEF SecondUnheard
    <2> QED
      BY <2>3, <2>5, <2>6, <2>7 DEF ExtractionOK
  <1>5. CASE Becomes(r, [v EXCEPT !.calls[i] = "media"])
    <2>1. [v EXCEPT !.calls[i] = "media"]
            = [v EXCEPT !.calls[i] = "media", !.failed = IF "media" = "error" THEN @ \cup {i} ELSE @]
      BY <1>1 DEF Parallel
    <2> HIDE DEF v
    <2> QED
      BY <1>4, <1>5, <2>1, OneMoves
  <1>6. CASE Becomes(r, [v EXCEPT !.calls[i] = "error", !.failed = @ \cup {i}])
    <2>1. [v EXCEPT !.calls[i] = "error", !.failed = @ \cup {i}]
            = [v EXCEPT !.calls[i] = "error", !.failed = IF "error" = "error" THEN @ \cup {i} ELSE @]
      OBVIOUS
    <2> HIDE DEF v
    <2> QED
      BY <1>4, <1>6, <2>1, OneMoves
  <1> QED
    BY <1>5, <1>6 DEF ProviderAnswers

\* A goroutine leaves the result of its call in a channel, or nowhere.
LEMMA CallAnswers ==
  ASSUME ExtractInv, NEW r \in Extractions, NEW i \in DOMAIN extraction[r].calls,
         SendResult(r, i)
  PROVE  ExtractInv'
  <1> DEFINE v == extraction[r]
             result == <<[from |-> i, ok |-> v.calls[i] = "media"]>>
             w == IF i = 1 THEN [v EXCEPT !.calls[i] = "gone", !.primaryCh = result]
                  ELSE [v EXCEPT !.calls[i] = "gone", !.secondaryCh = result]
  <1>0. v.calls[i] \in {"media", "error"} /\ Room(v, i) /\ Becomes(r, w)
    BY DEF SendResult
  <1>1. v \in Parallel /\ CallsFit(v) /\ PhaseFits(v) /\ SecondUnheard(v)
    BY <1>0, CallersRun, Runs
  <1>2. v.order \in ServedOrders /\ DOMAIN v.calls = DOMAIN v.order
    BY <1>1 DEF Parallel, CallsFit
  <1>3. DOMAIN v.order = 1 .. Len(v.order) /\ 1 \in DOMAIN v.order /\ Len(v.order) \in Nat \ {0}
    BY <1>2, OrderIsUsable
  <1>4. /\ result \in Channels /\ result # <<>>
        /\ result[1].from = i /\ result[1].ok = (v.calls[i] = "media")
    <2> DEFINE b == v.calls[i] = "media"
    <2>1. b \in BOOLEAN /\ i \in Nat
      BY <1>2, <1>3
    <2> HIDE DEF b
    <2>2. LET c == <<[from |-> i, ok |-> b]>> IN
          c \in Channels /\ c # <<>> /\ c[1].from = i /\ c[1].ok = b
      BY <2>1, OneResult
    <2> QED
      BY <2>2 DEF b
  <1>5. (v.calls[i] = "media") = (i \notin v.failed)
    BY <1>0, <1>1, <1>2 DEF CallsFit
  <1> HIDE DEF result
  <1>6. /\ w.at = v.at /\ w.site = v.site /\ w.order = v.order /\ w.failed = v.failed
        /\ w.first = v.first /\ w.second = v.second
        /\ w.primaryCh = IF i = 1 THEN result ELSE v.primaryCh
        /\ w.secondaryCh = IF i = 1 THEN v.secondaryCh ELSE result
        /\ w.calls = [v.calls EXCEPT ![i] = "gone"]
    BY <1>1 DEF Parallel
  <1>7. w.calls \in [DOMAIN v.order -> CallStates]
    BY <1>1, <1>2, <1>6 DEF CallsFit, CallStates
  <1>8. w \in Parallel
    <2>1. w.calls \in UNION {[DOMAIN o -> CallStates] : o \in ServedOrders}
      BY <1>2, <1>7
    <2> QED
      BY <1>1, <1>4, <2>1 DEF Parallel
  <1>9. \A j \in DOMAIN v.order : w.calls[j] = IF j = i THEN "gone" ELSE v.calls[j]
    BY <1>1, <1>2, <1>6 DEF CallsFit
  <1> HIDE DEF w
  <1>10. CallsFit(w)
    BY <1>0, <1>1, <1>2, <1>3, <1>4, <1>5, <1>6, <1>7, <1>9 DEF CallsFit
  <1>11. PhaseFits(w)
    <2>1. Alone(w) = Alone(v) /\ DOMAIN w.calls = DOMAIN v.calls
      BY <1>2, <1>6, <1>7 DEF Alone
    <2>2. v.at # "primary" => i # 1
      BY <1>0, <1>1 DEF PhaseFits
    <2> QED
      BY <1>0, <1>1, <1>3, <1>4, <1>6, <1>9, <2>1, <2>2 DEF PhaseFits, CallsFit
  <1>12. SecondUnheard(w)
    BY <1>0, <1>1, <1>2, <1>3, <1>4, <1>6, <1>9 DEF SecondUnheard, Room
  <1> HIDE DEF v
  <1> QED
    BY <1>0, <1>8, <1>10, <1>11, <1>12, OneMoves DEF ExtractionOK

\* The results are received one by one.
LEMMA Receives ==
  ASSUME ExtractInv, NEW r \in Extractions,
         ReceivePrimary(r) \/ ReceiveFallback(r) \/ ReceiveSecond(r) \/ SecondIsLate(r)
  PROVE  ExtractInv'
  <1> DEFINE v == extraction[r]
  <1>0. v.at \in {"primary", "fallback", "second"}
    BY DEF ReceivePrimary, ReceiveFallback, ReceiveSecond, SecondIsLate, GivesUp
  <1>1. v \in Parallel /\ CallsFit(v) /\ PhaseFits(v) /\ SecondUnheard(v)
    BY <1>0, CallersRun, Runs
  <1>2. v.order \in ServedOrders /\ DOMAIN v.calls = DOMAIN v.order
    BY <1>1 DEF Parallel, CallsFit
  <1>3. DOMAIN v.order = 1 .. Len(v.order) /\ 1 \in DOMAIN v.order /\ Len(v.order) \in Nat \ {0}
    BY <1>2, OrderIsUsable
  <1>4. ASSUME NEW w, NEW c1 \in Channels, NEW c2 \in Channels, NEW f, NEW s, NEW a \in Phases,
               w = [v EXCEPT !.primaryCh = c1, !.secondaryCh = c2, !.first = f, !.second = s,
                             !.at = a],
               c1 = <<>>, c2 \in {<<>>, v.secondaryCh}, v.calls[1] = "gone",
               f \in Nat, s \in Nat, PhaseFits(w), SecondUnheard(w)
        PROVE  ExtractionOK(w)
    <2>1. /\ w.site = v.site /\ w.order = v.order /\ w.failed = v.failed /\ w.calls = v.calls
          /\ w.primaryCh = c1 /\ w.secondaryCh = c2
      BY <1>1, <1>4 DEF Parallel
    <2>2. w \in Parallel
      BY <1>1, <1>4 DEF Parallel
    <2>3. CallsFit(w)
      BY <1>1, <1>4, <2>1 DEF CallsFit
    <2> QED
      BY <1>4, <2>2, <2>3 DEF ExtractionOK
  <1>5. v.secondaryCh \in Channels /\ <<>> \in Channels
    BY <1>1 DEF Parallel, Channels
  <1>6. CASE ReceivePrimary(r)
    <2> DEFINE got == Head(v.primaryCh)
               alone == Alone(v)
               w == [v EXCEPT !.primaryCh = <<>>, !.first = IF got.ok THEN 1 ELSE 0,
                              !.at = IF got.ok THEN IF alone THEN "answered" ELSE "second"
                                     ELSE IF alone THEN "unavailable" ELSE "fallback"]
    <2>1. v.at = "primary" /\ v.primaryCh # <<>> /\ Becomes(r, w)
      BY <1>6 DEF ReceivePrimary
    <2>2. got = v.primaryCh[1]
      BY <1>1, <2>1 DEF Parallel, Channels
    <2>3. got.ok = (1 \notin v.failed) /\ v.calls[1] = "gone"
      BY <1>1, <2>1, <2>2 DEF CallsFit
    <2> HIDE DEF got, alone
    <2> DEFINE f == IF got.ok THEN 1 ELSE 0
               a == IF got.ok THEN IF alone THEN "answered" ELSE "second"
                                     ELSE IF alone THEN "unavailable" ELSE "fallback"
    <2>4. w = [v EXCEPT !.primaryCh = <<>>, !.secondaryCh = v.secondaryCh, !.first = f,
                        !.second = v.second, !.at = a]
      BY <1>1 DEF Parallel
    <2>5. /\ w.at = a /\ w.first = f /\ w.second = v.second /\ w.order = v.order
          /\ w.primaryCh = <<>> /\ w.secondaryCh = v.secondaryCh /\ w.calls = v.calls
          /\ w.failed = v.failed
      BY <1>1 DEF Parallel
    <2>6. v.first = 0 /\ v.second = 0
      BY <1>1, <2>1 DEF PhaseFits
    <2> HIDE DEF w
    <2>7. PhaseFits(w)
      <3>1. alone => DOMAIN v.order = {1}
        BY <1>3 DEF alone, Alone
      <3>2. Alone(w) = alone
        BY <2>5 DEF alone, Alone
      <3>3. v.failed \subseteq DOMAIN v.order
        BY <1>1 DEF CallsFit
      <3> QED
        BY <1>2, <1>3, <2>3, <2>5, <2>6, <3>1, <3>2, <3>3 DEF PhaseFits
    <2>8. SecondUnheard(w)
      BY <1>1, <2>1, <2>5 DEF SecondUnheard
    <2>9. f \in Nat /\ a \in Phases /\ v.second \in Nat
      BY <1>1 DEF Phases, Parallel
    <2>10. ExtractionOK(w)
      <3> HIDE DEF a, f, v
      <3> QED
        BY <1>4, <1>5, <2>3, <2>4, <2>7, <2>8, <2>9
    <2> QED
      BY <2>1, <2>10, OneMoves
  <1>7. CASE ReceiveFallback(r)
    <2> DEFINE got == Head(v.secondaryCh)
               f == IF got.ok THEN got.from ELSE 0
               a == IF got.ok THEN "answered" ELSE "unavailable"
               w == [v EXCEPT !.secondaryCh = <<>>, !.first = f, !.at = a]
    <2>1. v.at = "fallback" /\ v.secondaryCh # <<>> /\ Becomes(r, w)
      BY <1>7 DEF ReceiveFallback
    <2>2. got = v.secondaryCh[1] /\ got.from \in Nat
      BY <1>1, <2>1 DEF Parallel, Channels, Results
    <2>3. /\ got.from \in DOMAIN v.order \ {1} /\ v.calls[got.from] = "gone"
          /\ got.ok = (got.from \notin v.failed)
      BY <1>1, <2>1, <2>2 DEF CallsFit
    <2>4. /\ v.first = 0 /\ v.second = 0 /\ 1 \in v.failed /\ v.calls[1] = "gone"
          /\ v.primaryCh = <<>> /\ ~ Alone(v)
      BY <1>1, <2>1 DEF PhaseFits
    <2> HIDE DEF got
    <2>5. w = [v EXCEPT !.primaryCh = <<>>, !.secondaryCh = <<>>, !.first = f,
                        !.second = v.second, !.at = a]
      BY <1>1, <2>4 DEF Parallel
    <2>6. /\ w.at = a /\ w.first = f /\ w.second = v.second /\ w.order = v.order
          /\ w.primaryCh = <<>> /\ w.secondaryCh = <<>> /\ w.calls = v.calls
          /\ w.failed = v.failed
      BY <1>1, <2>4 DEF Parallel
    <2> HIDE DEF w
    <2>7. PhaseFits(w)
      <3>1. ASSUME Len(v.order) <= 2, ~ got.ok PROVE v.failed = DOMAIN v.order
        <4>1. DOMAIN v.order = {1, 2} /\ got.from = 2
          BY <1>3, <2>3, <2>4, <3>1 DEF Alone
        <4>2. v.failed \subseteq DOMAIN v.order
          BY <1>1 DEF CallsFit
        <4> QED
          BY <2>3, <2>4, <3>1, <4>1, <4>2
      <3> QED
        BY <1>2, <1>3, <2>3, <2>4, <2>6, <3>1 DEF PhaseFits
    <2>8. SecondUnheard(w)
      BY <2>6 DEF SecondUnheard
    <2>9. f \in Nat /\ a \in Phases /\ v.second \in Nat
      BY <2>2, <2>4 DEF Phases
    <2>10. ExtractionOK(w)
      <3> HIDE DEF a, f, v
      <3> QED
        BY <1>4, <1>5, <2>4, <2>5, <2>7, <2>8, <2>9
    <2> QED
      BY <2>1, <2>10, OneMoves
  <1>8. CASE ReceiveSecond(r) \/ SecondIsLate(r)
    <2>1. v.at = "second"
      BY <1>8 DEF ReceiveSecond, SecondIsLate, GivesUp
    <2>2. v.first = 1 /\ v.second = 0 /\ v.calls[1] = "gone" /\ v.primaryCh = <<>>
      BY <1>1, <2>1 DEF PhaseFits
    <2>3. PICK s \in {0} \cup DOMAIN v.order, c \in {<<>>, v.secondaryCh} :
            Becomes(r, [v EXCEPT !.secondaryCh = c, !.second = s, !.at = "answered"])
      <3>1. CASE ReceiveSecond(r)
        <4> DEFINE got == Head(v.secondaryCh)
        <4>1. v.secondaryCh # <<>>
              /\ Becomes(r, [v EXCEPT !.secondaryCh = <<>>, !.at = "answered",
                                      !.second = IF got.ok THEN got.from ELSE 0])
          BY <3>1 DEF ReceiveSecond
        <4>2. got = v.secondaryCh[1]
          BY <1>1, <4>1 DEF Parallel, Channels
        <4>3. got.from \in DOMAIN v.order
          BY <1>1, <4>1, <4>2 DEF CallsFit
        <4> HIDE DEF got
        <4>4. [v EXCEPT !.secondaryCh = <<>>, !.at = "answered",
                                      !.second = IF got.ok THEN got.from ELSE 0]
              = [v EXCEPT !.secondaryCh = <<>>, !.second = IF got.ok THEN got.from ELSE 0,
                          !.at = "answered"]
          BY <1>1 DEF Parallel
        <4> QED
          BY <4>1, <4>3, <4>4
      <3>2. CASE SecondIsLate(r)
        <4>1. Becomes(r, [v EXCEPT !.at = "answered"])
          BY <2>2, <3>2 DEF SecondIsLate
        <4>2. [v EXCEPT !.at = "answered"]
                = [v EXCEPT !.secondaryCh = v.secondaryCh, !.second = 0, !.at = "answered"]
          BY <1>1, <2>2 DEF Parallel
        <4> QED
          BY <4>1, <4>2
      <3> QED
        BY <1>8, <3>1, <3>2
    <2> DEFINE w == [v EXCEPT !.secondaryCh = c, !.second = s, !.at = "answered"]
    <2>5. w = [v EXCEPT !.primaryCh = <<>>, !.secondaryCh = c, !.first = 1,
                        !.second = s, !.at = "answered"]
      BY <1>1, <2>2 DEF Parallel
    <2>6. /\ w.at = "answered" /\ w.first = 1 /\ w.second = s /\ w.order = v.order
          /\ w.primaryCh = <<>> /\ w.calls = v.calls
      BY <1>1, <2>2 DEF Parallel
    <2> HIDE DEF w
    <2>7. PhaseFits(w) /\ SecondUnheard(w)
      BY <1>3, <2>2, <2>6 DEF PhaseFits, SecondUnheard
    <2>8. s \in Nat /\ c \in Channels /\ "answered" \in Phases
      BY <1>3, <1>5 DEF Phases
    <2>9. ExtractionOK(w)
      <3> HIDE DEF v
      <3> QED
        BY <1>4, <1>5, <2>2, <2>5, <2>7, <2>8
    <2> QED
      BY <2>3, <2>9, OneMoves DEF w
  <1> QED
    BY <1>6, <1>7, <1>8

\* Spotify tries one provider after the other.
LEMMA SpotifyTries ==
  ASSUME ExtractInv, NEW r \in Extractions, spotify(r, <<"downr">>) \/ TryNext(r)
  PROVE  ExtractInv'
  <1> DEFINE v == extraction[r]
  <1>1. CASE spotify(r, <<"downr">>)
    <2> DEFINE w == [at |-> "trying", site |-> "spotify", order |-> <<"downr">>, first |-> 0,
                 second |-> 0, calls |-> [i \in DOMAIN <<"downr">> |-> "gone"], next |-> 1]
    <2>1. w \in OneByOne
      BY DEF OneByOne
    <2>2. Becomes(r, w)
      BY <1>1 DEF spotify
    <2> HIDE DEF w
    <2> QED
      BY <2>1, <2>2, OneMoves DEF ExtractionOK
  <1>2. CASE TryNext(r)
    <2>1. v \in OneByOne
      <3>1. v.at = "trying"
        BY <1>2 DEF TryNext
      <3>2. v # NoExtraction /\ v \notin Parallel
        BY <3>1 DEF NoExtraction, Parallel, Phases
      <3> QED
        BY <3>2 DEF ExtractInv, ExtractionOK
    <2>2. /\ [v EXCEPT !.at = "answered", !.first = v.next] \in OneByOne
          /\ [v EXCEPT !.at = "unavailable"] \in OneByOne
          /\ [v EXCEPT !.next = @ + 1] \in OneByOne
      <3> DEFINE gone == [i \in DOMAIN <<"downr">> |-> "gone"]
                 Gone == {gone}
                 Order == {<<"downr">>}
                 Rows == [at : {"trying", "answered", "unavailable"}, site : {"spotify"},
                          order : Order, first : Nat, second : {0},
                          calls : Gone, next : Nat]
      <3>1. v \in Rows
        BY <2>1 DEF OneByOne
      <3> HIDE DEF gone, v, Gone, Order
      <3>2. /\ [v EXCEPT !.at = "answered", !.first = v.next] \in Rows
            /\ [v EXCEPT !.at = "unavailable"] \in Rows
            /\ [v EXCEPT !.next = @ + 1] \in Rows
        <4>1. v.next \in Nat
          BY <3>1
        <4>2. [v EXCEPT !.at = "answered", !.first = v.next] \in Rows
          BY <3>1, <4>1
        <4>3. [v EXCEPT !.at = "unavailable"] \in Rows
          BY <3>1
        <4>4. [v EXCEPT !.next = @ + 1] \in Rows
          BY <3>1, <4>1
        <4> QED
          BY <4>2, <4>3, <4>4
      <3> QED
        BY <3>2 DEF OneByOne, gone, Gone, Order, v
    <2>3. PICK w \in OneByOne : Becomes(r, w)
      BY <1>2, <2>2 DEF TryNext
    <2> QED
      BY <2>3, OneMoves DEF ExtractionOK
  <1> QED
    BY <1>1, <1>2

\* Every action keeps the invariant.
LEMMA ExtractInvHolds == ExtractSpec => []ExtractInv
  <1>1. ExtractInit => ExtractInv
    BY DEF ExtractInit, ExtractInv, ExtractionOK
  <1>2. ExtractInv /\ [ExtractNext]_extractVars => ExtractInv'
    <2> SUFFICES ASSUME ExtractInv, [ExtractNext]_extractVars PROVE ExtractInv'
      OBVIOUS
    <2>1. CASE UNCHANGED extractVars
      BY <2>1 DEF extractVars, ExtractInv
    <2>2. CASE ExtractNext
      <3>1. PICK r \in Extractions :
              \/ CallStep(r) \/ ExtractStep(r)
              \/ \E o \in ServedOrders :
                   tiktok(r, o) \/ twitter(r, o) \/ instagram(r, o) \/ threads(r, o)
              \/ spotify(r, <<"downr">>)
        BY <2>2 DEF ExtractNext
      <3>2. CASE CallStep(r)
        BY <3>2, Answers, CallAnswers DEF CallStep
      <3>3. CASE ExtractStep(r)
        BY <3>3, Receives, SpotifyTries DEF ExtractStep
      <3>4. CASE \E o \in ServedOrders :
                   tiktok(r, o) \/ twitter(r, o) \/ instagram(r, o) \/ threads(r, o)
        <4>1. PICK o \in ServedOrders, site \in Sites : Extract(r, site, o)
          BY <3>4 DEF tiktok, twitter, instagram, threads, Sites
        <4> QED
          BY <4>1, Starts
      <3>5. CASE spotify(r, <<"downr">>)
        BY <3>5, SpotifyTries
      <3> QED
        BY <3>1, <3>2, <3>3, <3>4, <3>5
    <2> QED
      BY <2>1, <2>2
  <1> QED
    BY <1>1, <1>2, PTL DEF ExtractSpec

\* Of the items of one kind each has a number of its own.
LEMMA Numbered ==
  ASSUME NEW items \in Seq(STRING), NEW i \in DOMAIN items, NEW j \in DOMAIN items,
         items[i] = items[j], Nth(items, i) = Nth(items, j)
  PROVE  i = j
  <1>0. DOMAIN items = 1 .. Len(items) /\ Len(items) \in Nat
    BY LenProperties
  <1>1. ASSUME NEW a \in DOMAIN items, NEW b \in DOMAIN items, a < b, items[a] = items[b]
        PROVE  Nth(items, a) < Nth(items, b)
    <2> DEFINE A == {k \in 1 .. a : items[k] = items[a]}
               B == {k \in 1 .. b : items[k] = items[b]}
    <2>1. IsFiniteSet(1 .. b)
      BY <1>0, FS_Interval
    <2>2. IsFiniteSet(B)
      BY <2>1, FS_Subset
    <2>3. A \subseteq B /\ b \in B /\ b \notin A
      BY <1>0, <1>1
    <2>4. Cardinality(A) < Cardinality(B)
      <3> HIDE DEF A, B
      <3>1. A # B
        BY <2>3
      <3>2. IsFiniteSet(A) /\ Cardinality(A) \in Nat /\ Cardinality(B) \in Nat
        BY <2>2, <2>3, FS_Subset, FS_CardinalityType
      <3>3. Cardinality(A) <= Cardinality(B) /\ (Cardinality(A) = Cardinality(B) => A = B)
        BY <2>2, <2>3, FS_Subset
      <3> QED
        BY <3>1, <3>2, <3>3
    <2> QED
      BY <2>4 DEF Nth
  <1>2. Nth(items, i) \in Nat
    <2> DEFINE A == {k \in 1 .. i : items[k] = items[i]}
    <2>1. IsFiniteSet(1 .. i) /\ A \subseteq 1 .. i
      BY <1>0, FS_Interval
    <2>2. Cardinality(A) \in Nat
      <3> HIDE DEF A
      <3> QED
        BY <2>1, FS_Subset, FS_CardinalityType
    <2> QED
      BY <2>2 DEF Nth
  <1>3. ~ (i < j) /\ ~ (j < i)
    <2>1. ASSUME i < j PROVE FALSE
      <3>1. Nth(items, i) < Nth(items, j)
        BY <2>1, <1>1
      <3> QED
        BY <3>1, <1>2
    <2>2. ASSUME j < i PROVE FALSE
      <3>1. Nth(items, j) < Nth(items, i)
        BY <2>2, <1>1
      <3> QED
        BY <3>1, <1>2
    <2> QED
      BY <2>1, <2>2
  <1> QED
    BY <1>0, <1>3

\* ExtractsFit: an extraction with two providers at most fails only if all of
\* them have, the first is passed over only if it failed, and what an answer
\* puts side by side is alike, for items of any number and kind (Extract,
\* buildResult).
THEOREM AnswersAreFit == ExtractSpec => []ExtractsFit
  <1>1. ExtractInv => ExtractsFit
    <2> SUFFICES ASSUME ExtractInv PROVE ExtractsFit
      OBVIOUS
    <2>1. ExtractTypeOK
      <3> SUFFICES ASSUME NEW r \in Extractions, extraction[r].at \in {"primary", "fallback", "second"}
                   PROVE  /\ \A i \in DOMAIN extraction[r].primaryCh : extraction[r].primaryCh[i].from = 1
                          /\ Len(extraction[r].secondaryCh) <= 1
                          /\ \A i \in DOMAIN extraction[r].secondaryCh : extraction[r].secondaryCh[i].from > 1
        BY DEF ExtractTypeOK
      <3> DEFINE v == extraction[r]
      <3>1. v \in Parallel /\ CallsFit(v)
        BY CallersRun, Runs
      <3>2. v.primaryCh \in Channels /\ v.secondaryCh \in Channels /\ v.order \in ServedOrders
        BY <3>1 DEF Parallel
      <3>3. \A c \in Channels : c = <<>> \/ (Len(c) = 1 /\ DOMAIN c = {1})
        BY DEF Channels
      <3>4. v.primaryCh # <<>> => v.primaryCh[1].from = 1
        BY <3>1 DEF CallsFit
      <3>5. v.secondaryCh # <<>> => v.secondaryCh[1].from > 1
        BY <3>1, <3>2, OrderIsUsable DEF CallsFit
      <3> QED
        <4>1. ASSUME NEW c \in Channels PROVE Len(c) <= 1 /\ DOMAIN c \subseteq {1}
                                              /\ (DOMAIN c # {} => c # <<>>)
          <5>1. CASE c = <<>>
            BY <5>1
          <5>2. CASE Len(c) = 1 /\ DOMAIN c = {1}
            <6>1. c # <<>>
              <7>1. DOMAIN <<>> = {}
                OBVIOUS
              <7> QED
                BY <5>2, <7>1
            <6> QED
              BY <5>2, <6>1
          <5> QED
            BY <3>3, <5>1, <5>2
        <4> HIDE DEF v
        <4>2. /\ \A i \in DOMAIN v.primaryCh : v.primaryCh[i].from = 1
              /\ Len(v.secondaryCh) <= 1
              /\ \A i \in DOMAIN v.secondaryCh : v.secondaryCh[i].from > 1
          BY <3>2, <3>4, <3>5, <4>1
        <4> QED
          BY <4>2 DEF v
    <2>2. FailsOnlyIfAllFail
      <3> SUFFICES ASSUME NEW r \in Extractions,
                          extraction[r].at \in {"answered", "unavailable"},
                          extraction[r].site # "spotify"
                   PROVE  LET v == extraction[r] IN
                          /\ (v.at = "unavailable" /\ Len(v.order) <= 2) => v.failed = DOMAIN v.calls
                          /\ (v.at = "answered" /\ v.first # 1) => 1 \in v.failed
        BY DEF FailsOnlyIfAllFail
      <3>1. extraction[r] # NoExtraction /\ extraction[r] \notin OneByOne
        BY DEF NoExtraction, OneByOne
      <3>2. PhaseFits(extraction[r])
        BY <3>1, Runs DEF ExtractInv
      <3> QED
        BY <3>2 DEF PhaseFits
    <2>3. BesidesAreAlike
      <3> SUFFICES ASSUME NEW r \in Extractions, extraction[r].at = "answered",
                          extraction[r].site \in Sites \ {"instagram"}
                   PROVE  LET v == extraction[r]
                              items == FirstMedia(v) IN
                          /\ \A i \in DOMAIN items : \A j, k \in Beside(v, i) :
                               j = k /\ SecondMedia(v)[j] = items[i]
                          /\ v.site = "threads" =>
                               \A i, j \in DOMAIN items : i # j => Beside(v, i) \cap Beside(v, j) = {}
        BY DEF BesidesAreAlike
      <3> DEFINE v == extraction[r]
                 first == FirstMedia(v)
                 second == SecondMedia(v)
      <3>1. v # NoExtraction /\ v \notin OneByOne
        BY DEF NoExtraction, OneByOne, Sites
      <3>2. v \in Parallel /\ PhaseFits(v)
        BY <3>1, Runs DEF ExtractInv
      <3>3. v.first \in DOMAIN v.order /\ v.second \in {0} \cup DOMAIN v.order /\ v.order \in ServedOrders
        BY <3>2 DEF PhaseFits, Parallel
      <3>4. \A i \in DOMAIN v.order : v.order[i] \in DOMAIN MediaOf
        BY <3>3, OrderIsUsable, ElementOfSeq
      <3>5. first \in Seq(STRING) /\ second \in Seq(STRING)
        <4>1. \A p \in DOMAIN MediaOf : MediaOf[p] \in Seq(STRING)
          BY ExtractAssumption
        <4>2. <<>> \in Seq(STRING)
          BY EmptySeq
        <4> QED
          BY <3>3, <3>4, <4>1, <4>2 DEF FirstMedia, SecondMedia, NoMedia
      <3>6. CASE v.site = "threads"
        <4>1. \A i \in DOMAIN first : Beside(v, i) = {j \in DOMAIN second : second[j] = first[i] /\ Nth(second, j) = Nth(first, i)}
          BY <3>6 DEF Beside, BesideByType
        <4> HIDE DEF first, second, v
        <4>2. \A i \in DOMAIN first : \A j, k \in Beside(v, i) : j = k /\ second[j] = first[i]
          BY <3>5, <4>1, Numbered
        <4>3. \A i, j \in DOMAIN first : i # j => Beside(v, i) \cap Beside(v, j) = {}
          BY <3>5, <4>1, Numbered
        <4> QED
          BY <4>2, <4>3 DEF first, second, v
      <3>7. CASE v.site # "threads"
        <4>1. \A i \in DOMAIN first : Beside(v, i) = BesideByQuality(first, second, i)
          BY <3>7 DEF Beside, Sites
        <4>2. DOMAIN second \subseteq Nat
          BY <3>5, LenProperties
        <4> HIDE DEF first, second, v
        <4>3. \A i \in DOMAIN first : \A j, k \in Beside(v, i) : j = k /\ second[j] = first[i]
          BY <4>1, <4>2 DEF BesideByQuality
        <4> QED
          BY <3>7, <4>3 DEF first, second, v
      <3> QED
        BY <3>6, <3>7
    <2> QED
      BY <2>1, <2>2, <2>3 DEF ExtractsFit
  <1> QED
    BY <1>1, ExtractInvHolds, PTL

-----------------------------------------------------------------------------
(* Convert jobs.                                                           *)

\* Providers that convert.
Writers == DOMAIN supportedFormats

\* Two providers have formats to write.
LEMMA WritersAreTwo == Writers = {"cloudconvert", "convertio"}
  BY ConvertAssumption DEF Writers, ConvertProviders

\* The ids that clients get.
JobNames == [prefix : {Prefix[p] : p \in Writers}, of : Conversions]
JobStates == {"waiting", "processing", "finished", "finishedEmpty", "error"}

\* A conversion at rest, about to make its job, with a job, or asked about.
ConvertRests == [at : {"idle", "refused", "failed"}]
Creations == [at : {"create"}, upload : {w.upload : w \in Wanted}, provider : Writers, late : BOOLEAN]
JobWaits == [at : {"upload", "poll", "ask", "answered", "providerFailed", "accepted"},
             id : JobNames, late : BOOLEAN]
JobShown == [at : {"status"}, id : JobNames, shows : JobStates, late : BOOLEAN]

\* Where a conversion has a job, the job is there.
JobsThere == \A r \in Conversions : conversion[r] \in JobWaits \cup JobShown => conversion[r].id \in DOMAIN jobs

\* The invariant: what is under way knows its job and provider.
ConvertInv ==
  /\ inOrder \in Seq(Writers)
  /\ DOMAIN jobs \subseteq JobNames /\ jobs \in [DOMAIN jobs -> JobStates]
  /\ conversion \in [Conversions -> ConvertRests \cup Creations \cup JobWaits \cup JobShown]
  /\ JobsThere

\* The step of a conversion tells where it is.
LEMMA ConversionRows ==
  ASSUME NEW v \in ConvertRests \cup Creations \cup JobWaits \cup JobShown
  PROVE  /\ v.at = "create" => v \in Creations
         /\ v.at \in {"upload", "poll", "ask", "answered", "providerFailed", "accepted"} => v \in JobWaits
         /\ v.at = "status" => v \in JobShown
         /\ v.at # "unknown"
         /\ v \in JobWaits \cup JobShown => v.id \in JobNames
  BY DEF ConvertRests, Creations, JobWaits, JobShown

\* A conversion that rests, or has a job that is there, may be replaced.
LEMMA ConversionReplaced ==
  ASSUME ConvertInv, NEW r \in Conversions, NEW v, Goes(r, v),
         v \in ConvertRests \cup Creations \/ (v \in JobWaits \cup JobShown /\ v.id \in DOMAIN jobs'),
         inOrder' = inOrder, DOMAIN jobs \subseteq DOMAIN jobs',
         DOMAIN jobs' \subseteq JobNames, jobs' \in [DOMAIN jobs' -> JobStates]
  PROVE  ConvertInv'
  <1>1. conversion' \in [Conversions -> ConvertRests \cup Creations \cup JobWaits \cup JobShown]
    BY DEF ConvertInv, Goes
  <1>2. JobsThere'
    <2> SUFFICES ASSUME NEW q \in Conversions, conversion'[q] \in JobWaits \cup JobShown
                 PROVE  conversion'[q].id \in DOMAIN jobs'
      BY DEF JobsThere
    <2>1. CASE q = r
      <3>1. conversion'[q] = v
        BY <2>1 DEF ConvertInv, Goes
      <3>2. v \notin ConvertRests \cup Creations
        BY <3>1 DEF ConvertRests, Creations, JobWaits, JobShown
      <3> QED
        BY <3>1, <3>2
    <2>2. CASE q # r
      BY <2>2 DEF ConvertInv, JobsThere, Goes
    <2> QED
      BY <2>1, <2>2
  <1> QED
    BY <1>1, <1>2 DEF ConvertInv

\* A provider that is found is one of the service's.
LEMMA FoundWrites ==
  ASSUME NEW to, inOrder \in Seq(Writers), findProvider(to) # "none"
  PROVE  findProvider(to) \in Writers
  <1> DEFINE writers == Kept(inOrder, {p \in DOMAIN supportedFormats : Writes(p, to)})
  <1>1. writers \in Seq(Writers)
    BY KeptElements
  <1>2. writers # <<>> /\ findProvider(to) = Head(writers)
    BY DEF findProvider
  <1> HIDE DEF writers
  <1> QED
    BY <1>1, <1>2, HeadTailProperties

\* A conversion that is refused or fails has nothing left to fit.
LEMMA SubmissionRests ==
  ASSUME NEW w \in Wanted, inOrder \in Seq(Writers)
  PROVE  Submitted(w) \in ConvertRests \cup Creations
  <1> DEFINE to == OutputFormat(w.category, w.to)
  <1>1. CASE Submitted(w) = [at |-> "refused"]
    BY <1>1 DEF ConvertRests
  <1>2. CASE /\ findProvider(to) # "none"
             /\ Submitted(w) = [at |-> "create", upload |-> w.upload,
                                provider |-> findProvider(to), late |-> FALSE]
    <2>1. findProvider(to) \in Writers
      BY <1>2, FoundWrites
    <2> HIDE DEF to
    <2> QED
      BY <1>2, <2>1 DEF Creations
  <1> QED
    BY <1>1, <1>2 DEF Submitted

\* A provider is found for the formats asked for.
LEMMA RouteKeeps ==
  ASSUME ConvertInv, NEW r \in Conversions, ConvertRoute(r)
  PROVE  ConvertInv'
  <1>1. PICK w \in Wanted : Converts(r, w) \/ Uploads(r, w)
    BY DEF ConvertRoute, ConvertDocument, ConvertAudio, ConvertImage, ConvertFonts,
           UploadDocument, UploadAudio, UploadImage, UploadFonts, In
  <1>2. UNCHANGED <<inOrder, jobs>>
    BY <1>1 DEF Converts, Uploads
  <1>3. Submitted(w) \in ConvertRests \cup Creations /\ [at |-> "refused"] \in ConvertRests
    BY SubmissionRests DEF ConvertInv, ConvertRests
  <1>4. Goes(r, Submitted(w)) \/ Goes(r, [at |-> "refused"])
    BY <1>1 DEF Converts, Uploads
  <1> QED
    BY <1>2, <1>3, <1>4, ConversionReplaced DEF ConvertInv

\* An id that is in JobNames is resolved.
LEMMA NamesAreResolved == \A id \in JobNames : ResolveProvider(id) # {}
  <1>1. \A p \in Writers : p \in {ConvertProviders[i] : i \in DOMAIN ConvertProviders}
    BY ConvertAssumption DEF Writers
  <1> QED
    BY <1>1 DEF JobNames, ResolveProvider

\* The provider makes the job, or does not.
LEMMA CreateKeeps ==
  ASSUME ConvertInv, NEW r \in Conversions, CreateJob(r)
  PROVE  ConvertInv'
  <1> DEFINE v == conversion[r]
             id == [prefix |-> Prefix[v.provider], of |-> r]
             made == WithJob(id, IF v.upload THEN "waiting" ELSE "processing")
             waits == [at |-> IF v.upload THEN "upload" ELSE "poll", id |-> id, late |-> FALSE]
  <1>1. v \in Creations /\ v.provider \in Writers
    <2>1. v.at = "create"
      BY DEF CreateJob
    <2> QED
      BY <2>1, ConversionRows DEF ConvertInv, Creations
  <1>2. id \in JobNames
    BY <1>1 DEF JobNames
  <1>3. waits \in JobWaits /\ waits.id = id
    <2>1. waits.at \in {"upload", "poll"}
      OBVIOUS
    <2> HIDE DEF id
    <2> QED
      BY <1>2 DEF JobWaits
  <1>4. inOrder' = inOrder
    BY DEF CreateJob
  <1>5. DOMAIN made = DOMAIN jobs \cup {id} /\ made \in [DOMAIN made -> JobStates]
    <2>1. (IF v.upload THEN "waiting" ELSE "processing") \in JobStates
      BY DEF JobStates
    <2> HIDE DEF id
    <2> QED
      BY <2>1 DEF WithJob, ConvertInv
  <1>6. (Goes(r, waits) /\ jobs' = made) \/ (Goes(r, [at |-> "failed"]) /\ jobs' \in {jobs, made})
    BY DEF CreateJob, CreateFailed
  <1> HIDE DEF id, made, waits
  <1>7. DOMAIN jobs \subseteq DOMAIN jobs' /\ DOMAIN jobs' \subseteq JobNames /\ jobs' \in [DOMAIN jobs' -> JobStates]
    BY <1>2, <1>5, <1>6 DEF ConvertInv
  <1>8. [at |-> "failed"] \in ConvertRests
    BY DEF ConvertRests
  <1>9. CASE Goes(r, waits) /\ jobs' = made
    <2>1. waits \in JobWaits \cup JobShown /\ waits.id \in DOMAIN jobs'
      BY <1>3, <1>5, <1>9
    <2> QED
      BY <1>4, <1>7, <1>9, <2>1, ConversionReplaced
  <1>10. CASE Goes(r, [at |-> "failed"])
    BY <1>4, <1>7, <1>8, <1>10, ConversionReplaced
  <1> QED
    BY <1>6, <1>9, <1>10

\* The job is uploaded to, polled and asked about.
LEMMA WaitKeeps ==
  ASSUME ConvertInv, NEW r \in Conversions,
         UploadFile(r) \/ PollTick(r) \/ PollAnswer(r) \/ TimeIsUp(r) \/ WaitEnds(r) \/ Status(r)
  PROVE  ConvertInv'
  <1> DEFINE v == conversion[r]
             steps == {"upload", "poll", "ask", "answered", "providerFailed", "accepted"}
  <1>1. v \in JobWaits \cup JobShown /\ (v.at \in steps => v \in JobWaits)
    <2>1. v.at \in steps \/ v.at = "status"
      BY DEF UploadFile, PollTick, PollAnswer, TimeIsUp, WaitEnds, Status
    <2> QED
      BY <2>1, ConversionRows DEF ConvertInv
  <1>2. v.id \in DOMAIN jobs /\ v.id \in JobNames /\ jobs[v.id] \in JobStates
    BY <1>1 DEF ConvertInv, JobsThere
  <1>3. ResolveProvider(v.id) # {}
    BY <1>2, NamesAreResolved
  <1>4. inOrder' = inOrder
    BY DEF UploadFile, PollTick, PollAnswer, TimeIsUp, WaitEnds, Status
  <1>5. jobs' = jobs \/ (v.at = "upload" /\ jobs' = [jobs EXCEPT ![v.id] = "processing"])
    BY DEF UploadFile, PollTick, PollAnswer, TimeIsUp, WaitEnds, Status
  <1>6. DOMAIN jobs' = DOMAIN jobs /\ DOMAIN jobs' \subseteq JobNames /\ jobs' \in [DOMAIN jobs' -> JobStates]
    <2>1. "processing" \in JobStates
      BY DEF JobStates
    <2> QED
      BY <1>2, <1>5, <2>1 DEF ConvertInv
  <1> DEFINE Fit(u) == u \in ConvertRests \/ (u \in JobWaits \cup JobShown /\ u.id = v.id)
  <1>7. \E u : Goes(r, u) /\ Fit(u)
    <2>1. [at |-> "failed"] \in ConvertRests
      BY DEF ConvertRests
    <2>2. ASSUME v.at \in steps, NEW at \in steps PROVE Fit([v EXCEPT !.at = at])
      BY <1>1, <2>2 DEF JobWaits
    <2>3. CASE UploadFile(r)
      BY <2>1, <2>2, <2>3 DEF UploadFile
    <2>4. CASE PollTick(r)
      BY <1>3, <2>2, <2>4 DEF PollTick
    <2>5. CASE PollAnswer(r)
      <3> DEFINE at == CASE jobs[v.id] \in {"finished", "finishedEmpty"} -> "answered"
                         [] jobs[v.id] = "error" -> "providerFailed"
                         [] OTHER -> "poll"
      <3>1. at \in steps
        OBVIOUS
      <3>2. v.at \in steps /\ (Goes(r, [at |-> "failed"]) \/ Goes(r, [v EXCEPT !.at = at]))
        BY <2>5 DEF PollAnswer
      <3> HIDE DEF at
      <3> QED
        BY <2>1, <2>2, <3>1, <3>2
    <2>6. CASE TimeIsUp(r)
      <3>1. Fit([v EXCEPT !.late = TRUE])
        BY <1>1, <2>6 DEF TimeIsUp, JobWaits
      <3> QED
        BY <2>6, <3>1 DEF TimeIsUp
    <2>7. CASE WaitEnds(r)
      BY <2>2, <2>7 DEF WaitEnds, Accepted
    <2>8. CASE Status(r)
      <3>1. Fit([at |-> "status", id |-> v.id, shows |-> jobs[v.id], late |-> FALSE])
        BY <1>2 DEF JobShown
      <3> QED
        BY <1>3, <2>8, <3>1 DEF Status
    <2> QED
      BY <2>3, <2>4, <2>5, <2>6, <2>7, <2>8
  <1>8. PICK u : Goes(r, u) /\ Fit(u)
    BY <1>7
  <1>9. u \in ConvertRests \cup Creations \/ (u \in JobWaits \cup JobShown /\ u.id \in DOMAIN jobs')
    BY <1>2, <1>6, <1>8
  <1> QED
    BY <1>4, <1>6, <1>8, <1>9, ConversionReplaced

\* The jobs go on at the providers, and are forgotten there.
LEMMA SurroundingsKeep ==
  ASSUME ConvertInv, (\E id \in DOMAIN jobs : JobEnds(id)) \/ OrderChanges
  PROVE  ConvertInv'
  <1>1. ASSUME NEW id \in DOMAIN jobs, JobEnds(id) PROVE ConvertInv'
    <2>1. PICK end \in JobStates : jobs' = [jobs EXCEPT ![id] = end]
      BY <1>1 DEF JobEnds, JobStates
    <2>2. UNCHANGED <<inOrder, conversion>>
      BY <1>1 DEF JobEnds
    <2> QED
      BY <2>1, <2>2 DEF ConvertInv, JobsThere
  <1>2. CASE OrderChanges
    BY <1>2, ConvertAssumption DEF OrderChanges, ConvertInv, JobsThere, Writers
  <1> QED
    BY <1>1, <1>2

\* JobsStayKnown: a client that asks for a job by its id gets to the provider
\* that has it, whatever admins do to the order meanwhile (ResolveProvider).
THEOREM JobsKnown == ConvertSpec => []JobsStayKnown
  <1>1. ConvertInit => ConvertInv
    <2> SUFFICES ASSUME ConvertInit PROVE ConvertInv
      OBVIOUS
    <2>1. inOrder \in Seq(Writers)
      <3>1. ConvertProviders \in Seq(Writers)
        BY WritersAreTwo DEF ConvertProviders
      <3> QED
        BY <3>1 DEF ConvertInit
    <2>2. DOMAIN jobs = {} /\ jobs \in [DOMAIN jobs -> JobStates]
      BY DEF ConvertInit
    <2>3. \A r \in Conversions : conversion[r] \in ConvertRests /\ conversion[r] \notin JobWaits \cup JobShown
      BY DEF ConvertInit, ConvertRests, JobWaits, JobShown
    <2>4. conversion \in [Conversions -> ConvertRests]
      BY <2>3 DEF ConvertInit
    <2> QED
      BY <2>1, <2>2, <2>3, <2>4 DEF ConvertInv, JobsThere
  <1>2. ConvertInv /\ [ConvertNext]_convertVars => ConvertInv'
    <2> SUFFICES ASSUME ConvertInv, [ConvertNext]_convertVars PROVE ConvertInv'
      OBVIOUS
    <2>1. CASE UNCHANGED convertVars
      BY <2>1 DEF convertVars, ConvertInv, JobsThere
    <2>2. ASSUME NEW r \in Conversions, ConvertRoute(r) \/ ConvertStep(r) \/ Status(r) PROVE ConvertInv'
      BY <2>2, RouteKeeps, CreateKeeps, WaitKeeps DEF ConvertStep
    <2> QED
      BY <2>1, <2>2, SurroundingsKeep DEF ConvertNext
  <1>3. ConvertInv => JobsStayKnown
    <2> SUFFICES ASSUME ConvertInv, NEW r \in Conversions
                 PROVE  /\ conversion[r].at \in {"upload", "poll", "ask", "answered", "accepted", "status"}
                             => conversion[r].id \in DOMAIN jobs
                        /\ conversion[r].at # "unknown"
      BY DEF JobsStayKnown, ConvertTypeOK, JobsAreResolved
    <2> QED
      BY ConversionRows DEF ConvertInv, JobsThere
  <1> QED
    BY <1>1, <1>2, <1>3, PTL DEF ConvertSpec

=============================================================================
