----------------------------- MODULE PageLinks -----------------------------
(***************************************************************************)
(* The handlers of /vidhub and /content: the metadata of a page is taken   *)
(* from the cache or extracted from its site, and every file of the page   *)
(* gets a link /dl?url=<key>, made by shortlink.Create.  Each Redis        *)
(* command is a step of its own and may fail.                              *)
(*                                                                         *)
(* A file's address is a record: the page it was extracted from, the       *)
(* generation of addresses the site served then, and its number in the     *)
(* page.  A site goes over to its next generation when it likes.  A link   *)
(* with key 0 is a sealed token, which carries its address in itself.      *)
(* A request takes at most one tick, having timeouts in all it waits for.  *)
(***************************************************************************)
EXTENDS Integers, Sequences, FiniteSets, Lifetimes

(* The handlers are of two kinds.  Those of a page with one file store its
   metadata first and then make the link, under the page's own cacheKey; the
   others make a link for each file, under the file's cacheKey, and store the
   metadata last. *)
StoreThenLink == [single |-> TRUE]
LinkThenStore == [single |-> FALSE]

videb == StoreThenLink
vidoy == StoreThenLink
vidbos == StoreThenLink
vidarato == StoreThenLink      \* a playlist, with the origin it is fetched from
vidnest == StoreThenLink
kingbokeptv == StoreThenLink   \* a playlist as well
spotify == StoreThenLink
tiktok == LinkThenStore        \* the videos, then the sound
twitter == LinkThenStore
instagram == LinkThenStore
threads == LinkThenStore       \* the videos only: photos get no link

Handler ==
  [videb |-> videb, vidoy |-> vidoy, vidbos |-> vidbos, vidarato |-> vidarato,
   vidnest |-> vidnest, kingbokeptv |-> kingbokeptv, spotify |-> spotify,
   tiktok |-> tiktok, twitter |-> twitter, instagram |-> instagram,
   threads |-> threads]

\* The minutes a site's metadata is kept, and a link.
cacheTTL ==
  [videb |-> 120, vidoy |-> 60, vidbos |-> 120, vidarato |-> 3, vidnest |-> 120,
   kingbokeptv |-> 360, spotify |-> 43200, tiktok |-> 120, twitter |-> 120,
   instagram |-> 30, threads |-> 30]

linkTTL == 120

CONSTANTS Pages,
          SiteOf,       \* SiteOf[p]: the site of page p
          Files,        \* Files[p]: how many of its files get a link
          PageClients,
          TickMinutes,  \* a tick, in minutes
          MaxGen,       \* bound on the generations of a site
          MaxVisits,    \* bound on requests
          MaxTicks,     \* bound on time
          MaxRefusals   \* bound on the commands Redis refuses

ASSUME PageAssumption ==
  /\ SiteOf \in [Pages -> DOMAIN Handler] /\ Files \in [Pages -> Nat]
  /\ \A p \in Pages : Handler[SiteOf[p]].single => Files[p] = 1
  /\ TickMinutes \in Nat \ {0}
  /\ {MaxGen, MaxVisits, MaxTicks, MaxRefusals} \subseteq Nat

Single == {p \in Pages : Handler[SiteOf[p]].single}

\* A life in ticks, of which the last may be a part.
Ticks(minutes) == (minutes + TickMinutes - 1) \div TickMinutes

LinkLife == Ticks(linkTTL)

VARIABLES
  metadata,    \* the cached metadata: page -> the addresses of its files
  payloads,    \* sl:<key> -> address
  slIndex,     \* sl:idx:<cacheKey> -> key
  minted,      \* keys made so far
  pageVisit,   \* pageVisit[c]: where request c is
  siteGen,     \* siteGen[p]: the generation the site of p serves
  stopped,     \* history: stopped[p][g]: when the site stopped to serve generation g
  ticks,
  visits, refusals   \* counters for the bounds

\* What the steps of a request leave alone.
outside == <<siteGen, stopped, ticks, visits>>

pageVars == <<metadata, payloads, slIndex, minted, pageVisit, refusals, outside>>

Away == [at |-> "away"]

PageFiles(p) == [i \in 1 .. Files[p] |-> [page |-> p, gen |-> siteGen[p], nth |-> i]]

PageItself(p) == [page |-> p, gen |-> 0, nth |-> 0]

\* A slip: the index does not tell the files of a page apart.
IndexByPage(p, u) == PageItself(p)

\* A slip: the hash of the address is left out.
IndexBySite(p, u) == [page |-> "any", gen |-> 0, nth |-> 0]

\* The cacheKey a handler passes on: of the page's address where a page has
\* one file, of the file's own address elsewhere.
IndexOf(p, u) == IF p \in Single THEN PageItself(p) ELSE u

Moved(c, to) == pageVisit' = [pageVisit EXCEPT ![c] = to]

PageInit ==
  /\ metadata = Empty /\ payloads = Empty /\ slIndex = Empty
  /\ siteGen = [p \in Pages |-> 1]
  /\ stopped = [p \in Pages |-> <<>>]
  /\ pageVisit = [c \in PageClients |-> Away]
  /\ minted = 0 /\ visits = 0 /\ refusals = 0 /\ ticks = 0

----------------------------------------------------------------------------
(* The handlers: the cache, the site, the cache again. *)

\* Redis refuses this command, or obeys.
Refuses == refusals < MaxRefusals /\ refusals' = refusals + 1
Obeys == UNCHANGED refusals

\* Client c waits for no answer.
NotVisiting(c) == pageVisit[c].at \in {"away", "answered"}

Request(p, at, todo) ==
  [at |-> at, page |-> p, todo |-> todo, links |-> <<>>, fresh |-> at = "extract",
   key |-> 0, slow |-> FALSE]

\* The next step of a request: the next link, or the end.
Onward(v) ==
  [v EXCEPT !.at = IF v.todo # <<>> THEN "lookup"
                   ELSE IF v.fresh /\ v.page \notin Single THEN "store"
                   ELSE "answered"]

\* CacheGet: the page is found, or it is not or Redis refuses.
VisitPage(c, p) ==
  /\ NotVisiting(c) /\ visits < MaxVisits /\ visits' = visits + 1
  /\ \/ p \in DOMAIN metadata /\ Moved(c, Onward(Request(p, "cached", metadata[p].val))) /\ Obeys
     \/ p \notin DOMAIN metadata /\ Moved(c, Request(p, "extract", <<>>)) /\ Obeys
     \/ Moved(c, Request(p, "extract", <<>>)) /\ Refuses
  /\ UNCHANGED <<metadata, payloads, slIndex, minted, siteGen, stopped, ticks>>

\* The site answers.  With one file the metadata is stored before the link
\* is made, elsewhere after the links.
Extracted(c) ==
  LET p == pageVisit[c].page
      v == [pageVisit[c] EXCEPT !.todo = PageFiles(p)] IN
  /\ pageVisit[c].at = "extract"
  /\ Moved(c, IF p \in Single THEN [v EXCEPT !.at = "store"] ELSE Onward(v))
  /\ UNCHANGED <<metadata, payloads, slIndex, minted, refusals, outside>>

\* It does not: the request ends with an error.
NotExtracted(c) ==
  /\ pageVisit[c].at = "extract" /\ Moved(c, Away)
  /\ UNCHANGED <<metadata, payloads, slIndex, minted, refusals, outside>>

\* A slip: a site's metadata gets the life of its links.
LifeOfLinks(p) == LinkLife

LifeOfMetadata(p) == Ticks(cacheTTL[SiteOf[p]])

\* CacheSet, whose error is ignored, of the addresses without the links.
StoreMetadata(c) ==
  LET v == pageVisit[c]
      files == IF v.page \in Single THEN v.todo
               ELSE [i \in DOMAIN v.links |-> v.links[i].original] IN
  /\ v.at = "store"
  /\ \/ metadata' = Put(metadata, v.page, files, LifeOfMetadata(v.page)) /\ Obeys
     \/ UNCHANGED metadata /\ Refuses
  /\ Moved(c, [v EXCEPT !.at = IF v.page \in Single THEN "lookup" ELSE "answered"])
  /\ UNCHANGED <<payloads, slIndex, minted, outside>>

----------------------------------------------------------------------------
(* shortlink.Create, for the first of the files that wait for a link. *)

\* The visit with a link for that file, and its next step.
Linked(v, key) ==
  Onward([v EXCEPT !.todo = Tail(@), !.key = 0,
                   !.links = Append(@, [original |-> Head(v.todo), key |-> key])])

Index(v) == IndexOf(v.page, Head(v.todo))

\* The index is asked.  A key it names is answered, whatever it leads to.
LookUpIndex(c) ==
  LET v == pageVisit[c]
      named == {slIndex[k].val : k \in {Index(v)} \cap DOMAIN slIndex} IN
  /\ v.at = "lookup"
  /\ \/ \E key \in named : Moved(c, [v EXCEPT !.at = "renewPayload", !.key = key]) /\ Obeys
     \/ named = {} /\ Moved(c, [v EXCEPT !.at = "savePayload"]) /\ Obeys
     \/ Moved(c, [v EXCEPT !.at = "savePayload"]) /\ Refuses
  /\ UNCHANGED <<metadata, payloads, slIndex, minted, outside>>

\* EXPIRE for the payload, then for the index; errors are ignored.
RenewPayload(c) ==
  LET v == pageVisit[c] IN
  /\ v.at = "renewPayload"
  /\ \/ payloads' = Extend(payloads, v.key, LinkLife) /\ Obeys
     \/ UNCHANGED payloads /\ Refuses
  /\ Moved(c, [v EXCEPT !.at = "renewIndex"])
  /\ UNCHANGED <<metadata, slIndex, minted, outside>>

RenewIndex(c) ==
  LET v == pageVisit[c] IN
  /\ v.at = "renewIndex"
  /\ \/ slIndex' = Extend(slIndex, Index(v), LinkLife) /\ Obeys
     \/ UNCHANGED slIndex /\ Refuses
  /\ Moved(c, Linked(v, v.key))
  /\ UNCHANGED <<metadata, payloads, minted, outside>>

\* SET for the payload under a new key.  If Redis refuses, the address is
\* sealed into the link instead.
SavePayload(c) ==
  LET v == pageVisit[c] IN
  /\ v.at = "savePayload"
  /\ \/ /\ minted' = minted + 1
        /\ payloads' = Put(payloads, minted', Head(v.todo), LinkLife)
        /\ Moved(c, [v EXCEPT !.at = "saveIndex", !.key = minted']) /\ Obeys
     \/ UNCHANGED <<payloads, minted>> /\ Moved(c, Linked(v, 0)) /\ Refuses
  /\ UNCHANGED <<metadata, slIndex, outside>>

\* SET for the index, whose error is ignored.
SaveIndex(c) ==
  LET v == pageVisit[c] IN
  /\ v.at = "saveIndex"
  /\ \/ slIndex' = Put(slIndex, Index(v), v.key, LinkLife) /\ Obeys
     \/ UNCHANGED slIndex /\ Refuses
  /\ Moved(c, Linked(v, v.key))
  /\ UNCHANGED <<metadata, payloads, minted, outside>>

\* DecodePayload and Resolve: the addresses a link leads to, at most one.
LeadsTo(link) ==
  IF link.key = 0 THEN {link.original}
  ELSE {payloads[k].val : k \in {link.key} \cap DOMAIN payloads}

----------------------------------------------------------------------------
(* What the server does not do. *)

\* The site serves the page's files under other addresses from now on.
NextGeneration(p) ==
  /\ siteGen[p] < MaxGen
  /\ siteGen' = [siteGen EXCEPT ![p] = @ + 1]
  /\ stopped' = [stopped EXCEPT ![p] = Append(@, ticks)]
  /\ UNCHANGED <<metadata, payloads, slIndex, minted, pageVisit, refusals, visits, ticks>>

\* Time.  No request is under way for more than one tick.
PageTick ==
  /\ ticks < MaxTicks /\ \A c \in PageClients : ~ NotVisiting(c) => ~ pageVisit[c].slow
  /\ ticks' = ticks + 1
  /\ metadata' = Aged(metadata) /\ payloads' = Aged(payloads) /\ slIndex' = Aged(slIndex)
  /\ pageVisit' = [c \in PageClients |->
        IF NotVisiting(c) THEN Away ELSE [pageVisit[c] EXCEPT !.slow = TRUE]]
  /\ UNCHANGED <<siteGen, minted, visits, refusals, stopped>>

\* The steps a request goes on with by itself.
PageStep(c) ==
  \/ Extracted(c) \/ NotExtracted(c) \/ StoreMetadata(c) \/ LookUpIndex(c)
  \/ RenewPayload(c) \/ RenewIndex(c) \/ SavePayload(c) \/ SaveIndex(c)

PageNext ==
  \/ \E c \in PageClients : PageStep(c) \/ \E p \in Pages : VisitPage(c, p)
  \/ \E p \in Pages : NextGeneration(p)
  \/ PageTick

PageSpec == PageInit /\ [][PageNext]_pageVars

----------------------------------------------------------------------------
Answers == {c \in PageClients : pageVisit[c].at = "answered"}

LinksOf(c) == {pageVisit[c].links[i] : i \in DOMAIN pageVisit[c].links}

\* What the tables hold has the form the code gives it, and no key is
\* beyond those that were made.
PageTypeOK ==
  /\ DOMAIN metadata \subseteq Pages /\ DOMAIN payloads \subseteq 1 .. minted
  /\ \A k \in DOMAIN slIndex : slIndex[k].val \in 1 .. minted
  /\ \A p \in DOMAIN metadata : Len(metadata[p].val) = Files[p]
  /\ \A c \in Answers : Len(pageVisit[c].links) = Files[pageVisit[c].page]

\* No link of an answer ever leads to a file of another page, whatever was
\* shared, overwritten or refused on the way (CacheKey, Create).
LinksLeadHome ==
  \A c \in Answers : \A link \in LinksOf(c) : \A u \in LeadsTo(link) :
     u.page = pageVisit[c].page

\* Where each file has its own index entry, a link leads to the very address
\* that is answered beside it as the original one.
LinksLeadToOriginals ==
  \A c \in Answers : pageVisit[c].page \notin Single =>
     \A link \in LinksOf(c) : LeadsTo(link) \subseteq {link.original}

\* An original address is out of date by the life of the metadata at most,
\* and by the tick the request itself and the one that filled the cache may
\* take: requests for a page do not keep its metadata alive.
OriginalsAreRecent ==
  \A c \in Answers : \A link \in LinksOf(c) :
     LET old == stopped[pageVisit[c].page] IN
     link.original.gen \in DOMAIN old =>
       ticks - old[link.original.gen] <= Ticks(cacheTTL[SiteOf[pageVisit[c].page]]) + 1

\* The short links beside the addresses of a page lead to that page, and the
\* addresses are not older than the metadata may be (pkg/shortlink).
PageLinksLead == PageTypeOK /\ LinksLeadHome /\ LinksLeadToOriginals /\ OriginalsAreRecent
=============================================================================
