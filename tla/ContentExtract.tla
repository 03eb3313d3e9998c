-------------------------- MODULE ContentExtract --------------------------
(***************************************************************************)
(* internal/services/content/<site>/service.go: the page's media is asked  *)
(* of all providers of the category at once, each in a goroutine that      *)
(* sends what it got through a channel with one place: the first provider  *)
(* has one to itself, all others share the second, of which one value is   *)
(* read at most.  spotify asks one provider after the other instead.       *)
(*                                                                         *)
(* ServedOrders is what ResolveProviderForCategory may answer              *)
(* (ProviderOrder): a provider may be named twice, and the lists of two    *)
(* admins may follow each other.                                           *)
(***************************************************************************)
EXTENDS Naturals, Sequences, FiniteSets

CONSTANTS ServedOrders, Extractions, MediaOf

Sites == {"tiktok", "twitter", "instagram", "threads"}

\* MediaOf[p] is what provider p finds in the page: the kinds of its items, in
\* its order (a quality, or "video" and "image").
ASSUME ExtractAssumption ==
  /\ ServedOrders \subseteq Seq(DOMAIN MediaOf) \ {<<>>}
  /\ MediaOf \in [DOMAIN MediaOf -> Seq(STRING)]

VARIABLE extraction   \* extraction[r]: the request, its calls and its channels

extractVars == <<extraction>>

NoExtraction == [at |-> "idle", calls |-> <<>>]

ExtractInit == extraction = [r \in Extractions |-> NoExtraction]

Becomes(r, v) == extraction' = [extraction EXCEPT ![r] = v]

----------------------------------------------------------------------------
(* Extract *)

Extract(r, site, order) ==
  /\ extraction[r].at = "idle"
  /\ Becomes(r, [at |-> "primary", site |-> site, order |-> order,
                 calls |-> [i \in DOMAIN order |-> "calling"],
                 failed |-> {},   \* history: the calls that failed
                 primaryCh |-> <<>>, secondaryCh |-> <<>>, first |-> 0, second |-> 0])

tiktok(r, order) == Extract(r, "tiktok", order)
twitter(r, order) == Extract(r, "twitter", order)
instagram(r, order) == Extract(r, "instagram", order)
threads(r, order) == Extract(r, "threads", order)

\* The i-th provider answers, with media or with an error; its client does
\* not wait for more than 30 seconds.
ProviderAnswers(r, i) ==
  /\ extraction[r].calls[i] = "calling"
  /\ \/ Becomes(r, [extraction[r] EXCEPT !.calls[i] = "media"])
     \/ Becomes(r, [extraction[r] EXCEPT !.calls[i] = "error", !.failed = @ \cup {i}])

\* A slip: the channels are made without a place.
RoomIfRead(v, i) == IF i = 1 THEN v.at = "primary" ELSE v.at \in {"fallback", "second"}

\* A channel takes what is sent as long as its place is free.
Room(v, i) == IF i = 1 THEN v.primaryCh = <<>> ELSE v.secondaryCh = <<>>

\* The goroutine of the i-th provider sends, and is gone then.
SendResult(r, i) ==
  LET v == extraction[r]
      result == <<[from |-> i, ok |-> v.calls[i] = "media"]>> IN
  /\ v.calls[i] \in {"media", "error"} /\ Room(v, i)
  /\ Becomes(r, IF i = 1 THEN [v EXCEPT !.calls[i] = "gone", !.primaryCh = result]
                ELSE [v EXCEPT !.calls[i] = "gone", !.secondaryCh = result])

\* A slip: the category with one provider is forgotten.
NeverAlone(v) == FALSE

Alone(v) == Len(v.order) = 1

ReceivePrimary(r) ==
  LET v == extraction[r]
      got == Head(v.primaryCh)
      alone == Alone(v) IN
  /\ v.at = "primary" /\ v.primaryCh # <<>>
  /\ Becomes(r, [v EXCEPT !.primaryCh = <<>>, !.first = IF got.ok THEN 1 ELSE 0,
                          !.at = IF got.ok THEN IF alone THEN "answered" ELSE "second"
                                 ELSE IF alone THEN "unavailable" ELSE "fallback"])

\* The first provider failed: the second channel is waited for.
ReceiveFallback(r) ==
  LET v == extraction[r]
      got == Head(v.secondaryCh) IN
  /\ v.at = "fallback" /\ v.secondaryCh # <<>>
  /\ Becomes(r, [v EXCEPT !.secondaryCh = <<>>, !.first = IF got.ok THEN got.from ELSE 0,
                          !.at = IF got.ok THEN "answered" ELSE "unavailable"])

\* It did not: the second channel is waited for for a second.
ReceiveSecond(r) ==
  LET v == extraction[r]
      got == Head(v.secondaryCh) IN
  /\ v.at = "second" /\ v.secondaryCh # <<>>
  /\ Becomes(r, [v EXCEPT !.secondaryCh = <<>>, !.at = "answered",
                          !.second = IF got.ok THEN got.from ELSE 0])

\* A slip: the second is all the time there is, whatever the first said.
Impatient(v) == v.at \in {"second", "fallback"}

\* It is no longer waited for once there is something to answer.
GivesUp(v) == v.at = "second"

SecondIsLate(r) ==
  /\ GivesUp(extraction[r])
  /\ Becomes(r, [extraction[r] EXCEPT
                   !.at = IF extraction[r].first = 0 THEN "unavailable" ELSE "answered"])

\* spotify's Extract: the providers one after the other, until one has a
\* sound.
spotify(r, order) ==
  /\ extraction[r].at = "idle"
  /\ Becomes(r, [at |-> "trying", site |-> "spotify", order |-> order, first |-> 0,
                 second |-> 0, calls |-> [i \in DOMAIN order |-> "gone"], next |-> 1])

TryNext(r) ==
  LET v == extraction[r] IN
  /\ v.at = "trying"
  /\ \/ Becomes(r, [v EXCEPT !.at = "answered", !.first = v.next])
     \/ Becomes(r, IF v.next = Len(v.order) THEN [v EXCEPT !.at = "unavailable"]
                   ELSE [v EXCEPT !.next = @ + 1])

----------------------------------------------------------------------------
(* buildResult: beside each address of the first provider's items one of   *)
(* the second provider's, for when the first does not work.  first and     *)
(* second are their items' kinds; what is given are places in second, one  *)
(* at most.                                                                *)

NoMedia == <<>>

\* tiktok and twitter: one of the same quality, the last of them.
BesideByQuality(first, second, i) ==
  LET same == {j \in DOMAIN second : second[j] = first[i]} IN
  {k \in same : \A l \in same : l <= k}

\* instagram: the second's first beside the first's first.
BesideFirst(first, second, i) == IF i = 1 /\ second # <<>> THEN {1} ELSE {}

\* A slip: an item stands beside the item in the same place.
BesideByPlace(first, second, i) == DOMAIN second \cap {i}

\* How many of the first i items are of the i-th's kind.
Nth(items, i) == Cardinality({k \in 1 .. i : items[k] = items[i]})

\* threads: the n-th video beside the n-th video, and so with images.
BesideByType(first, second, i) ==
  {j \in DOMAIN second : second[j] = first[i] /\ Nth(second, j) = Nth(first, i)}

FirstMedia(v) == MediaOf[v.order[v.first]]

SecondMedia(v) == IF v.second = 0 THEN NoMedia ELSE MediaOf[v.order[v.second]]

\* What stands beside the i-th item of an answer: one item at most.
Beside(v, i) ==
  CASE v.site = "threads" -> BesideByType(FirstMedia(v), SecondMedia(v), i)
    [] v.site = "instagram" -> BesideFirst(FirstMedia(v), SecondMedia(v), i)
    [] OTHER -> BesideByQuality(FirstMedia(v), SecondMedia(v), i)

----------------------------------------------------------------------------
CallStep(r) ==
  \E i \in DOMAIN extraction[r].calls : ProviderAnswers(r, i) \/ SendResult(r, i)

ExtractStep(r) ==
  \/ ReceivePrimary(r) \/ ReceiveFallback(r) \/ ReceiveSecond(r) \/ SecondIsLate(r)
  \/ TryNext(r)

ExtractNext ==
  \E r \in Extractions :
    \/ CallStep(r) \/ ExtractStep(r)
    \/ \E o \in ServedOrders :
         tiktok(r, o) \/ twitter(r, o) \/ instagram(r, o) \/ threads(r, o)
    \/ spotify(r, <<"downr">>)

\* Goroutines run, and the calls they make and the timer end.
ExtractFair ==
  \A r \in Extractions : WF_extractVars(CallStep(r)) /\ WF_extractVars(ExtractStep(r))

ExtractSpec == ExtractInit /\ [][ExtractNext]_extractVars /\ ExtractFair

----------------------------------------------------------------------------
\* A channel holds one result at most, of the providers it is for.
ExtractTypeOK ==
  \A r \in Extractions : extraction[r].at \in {"primary", "fallback", "second"} =>
    /\ \A i \in DOMAIN extraction[r].primaryCh : extraction[r].primaryCh[i].from = 1
    /\ Len(extraction[r].secondaryCh) <= 1
    /\ \A i \in DOMAIN extraction[r].secondaryCh : extraction[r].secondaryCh[i].from > 1

Asked(r) == extraction[r].at \notin {"idle", "answered", "unavailable"}

\* Every request ends, whatever providers answer, however many they are and
\* whoever is blocked (Extract).
ExtractReturns == \A r \in Extractions : Asked(r) ~> ~ Asked(r)

\* The goroutines that its calls may leave behind for ever: of those that share the
\* second channel one finds its place free, even if none is heard.
MayStay(calls) == IF Len(calls) <= 2 THEN 0 ELSE Len(calls) - 2

\* A request leaves no goroutine behind where one or two providers are named,
\* though it may be answered before the second is heard (the channels' places);
\* where an overlapping update has left n names it leaves n - 2 at most, which
\* block for as long as the server runs.
CallsEnd ==
  \A r \in Extractions : Asked(r) ~>
    Cardinality({i \in DOMAIN extraction[r].calls : extraction[r].calls[i] # "gone"})
      <= MayStay(extraction[r].calls)

\* A request fails only after all of its providers have failed, if it has no
\* more than two, and the first one's media is passed over only after it has
\* failed (Extract).  Of three names the slower ones are never heard.
FailsOnlyIfAllFail ==
  \A r \in Extractions :
    LET v == extraction[r] IN
    (v.at \in {"answered", "unavailable"} /\ v.site # "spotify") =>
      /\ (v.at = "unavailable" /\ Len(v.order) <= 2) => v.failed = DOMAIN v.calls
      /\ (v.at = "answered" /\ v.first # 1) => 1 \in v.failed

\* What stands beside an item is one item at most, of the same kind, and in
\* threads no item stands beside two (buildResult).
BesidesAreAlike ==
  \A r \in Extractions :
    LET v == extraction[r] IN
    (v.at = "answered" /\ v.site \in Sites \ {"instagram"}) =>
      LET items == FirstMedia(v) IN
      /\ \A i \in DOMAIN items : \A j, k \in Beside(v, i) :
           j = k /\ SecondMedia(v)[j] = items[i]
      /\ v.site = "threads" =>
           \A i, j \in DOMAIN items : i # j => Beside(v, i) \cap Beside(v, j) = {}

\* An answer is made of what the providers said: none is given up before all
\* have failed, and nothing stands beside an address that is not its like.
ExtractsFit == ExtractTypeOK /\ FailsOnlyIfAllFail /\ BesidesAreAlike
=============================================================================
