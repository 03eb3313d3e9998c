---------------------------- MODULE IptvStore ----------------------------
(***************************************************************************)
(* pkg/iptvstore/store.go and its handlers: lists fetched from a foreign   *)
(* site are replaced one by one by a single refreshing goroutine, indexes  *)
(* over them are rebuilt afterwards, and requests read both in several     *)
(* lock regions.  The channels of the model are those a request asks for:  *)
(* not NSFW, of its category and, if it names a country, of that country.  *)
(* Each lock region is one action.  The lists of countries and categories  *)
(* only matter as being there or not; logos do not matter.                 *)
(***************************************************************************)
EXTENDS Naturals, FiniteSets

CONSTANTS Channels,
          Viewers,   \* requests for a listing or a playlist
          MaxEdits   \* bound on changes at the foreign site

ASSUME IptvAssumption == IsFiniteSet(Channels) /\ MaxEdits \in Nat

VARIABLES
  site,          \* site.channels, site.streams: the lists at the site, the
                 \* latter as the channels that have a stream
  channels, streams,                     \* the lists in memory
  known,         \* which of the lists of countries and categories are there
  channelsByCountry, streamsByChannelID, \* the indexes in memory
  refresher,     \* where Init or startRefresh is
  viewer,        \* viewer[v]: where request v is
  ask,           \* ask[v]: what it wants
  listed,        \* listed[v]: channels it still has to look up
  bare,          \* bare[v]: channels in its answer without a stream
  rebuilt,       \* history: the indexes were rebuilt since v read a list
  edits          \* counter for the bound

listVars == <<channels, streams, known>>
indexVars == <<channelsByCountry, streamsByChannelID>>
viewerVars == <<viewer, ask, listed, bare>>
iptvVars == <<site, listVars, indexVars, refresher, viewerVars, rebuilt, edits>>

Sites == [channels : (SUBSET Channels) \ {{}}, streams : (SUBSET Channels) \ {{}}]

\* The refresher waits, or is about to load or to build what is named; Init
\* goes through the same loads, but ends on an error of the first two.
RefresherStates == {"initChannels", "initStreams", "initCountries", "initBuild",
                    "failed", "waiting", "channels", "countries", "streams", "build"}
Asks == [playlist : BOOLEAN, country : BOOLEAN, streamsOnly : BOOLEAN]

IptvTypeOK ==
  /\ site \in Sites
  /\ {channels, streams, channelsByCountry, streamsByChannelID} \subseteq SUBSET Channels
  /\ known \subseteq {"country", "category"}
  /\ refresher \in RefresherStates
  /\ viewer \in [Viewers -> {"idle", "checked", "listing"}]
  /\ ask \in [Viewers -> Asks]
  /\ listed \in [Viewers -> SUBSET Channels]
  /\ bare \in [Viewers -> SUBSET Channels]
  /\ rebuilt \in [Viewers -> BOOLEAN]
  /\ edits \in 0 .. MaxEdits

NoAsk == [playlist |-> FALSE, country |-> FALSE, streamsOnly |-> FALSE]

IptvInit ==
  /\ site \in Sites
  /\ channels = {} /\ streams = {} /\ known = {}
  /\ channelsByCountry = {} /\ streamsByChannelID = {}
  /\ refresher = "initChannels"
  /\ viewer = [v \in Viewers |-> "idle"]
  /\ ask = [v \in Viewers |-> NoAsk]
  /\ listed = [v \in Viewers |-> {}]
  /\ bare = [v \in Viewers |-> {}]
  /\ rebuilt = [v \in Viewers |-> FALSE]
  /\ edits = 0

-----------------------------------------------------------------------------
(* Faulty variants: slips the code could contain.                          *)

\* The list is replaced before the error of the fetch is looked at.
LoadChannelsUnchecked ==
  /\ refresher \in {"initChannels", "channels"}
  /\ \/ /\ channels' = site.channels
        /\ refresher' = IF refresher = "channels" THEN "countries" ELSE "initStreams"
     \/ /\ channels' = {}
        /\ refresher' = IF refresher = "channels" THEN "countries" ELSE "failed"
  /\ UNCHANGED <<site, streams, known, indexVars, viewerVars, rebuilt, edits>>

\* The indexes are not rebuilt after the streams were loaded.
LoadStreamsOnly ==
  /\ refresher \in {"initStreams", "streams"}
  /\ \/ /\ streams' = site.streams
        /\ refresher' = IF refresher = "streams" THEN "waiting" ELSE "initCountries"
     \/ /\ refresher' = IF refresher = "streams" THEN "waiting" ELSE "failed"
        /\ UNCHANGED streams
  /\ UNCHANGED <<site, channels, known, indexVars, viewerVars, rebuilt, edits>>

\* Only the list for requests without a country is filtered by streams.
ChosenUnlessCountry(a) ==
  IF a.country THEN channelsByCountry
  ELSE {c \in channels : a.streamsOnly => c \in streamsByChannelID}

\* The ticker for streams was forgotten.
StaticTickOnly ==
  /\ refresher = "waiting"
  /\ refresher' = "channels"
  /\ UNCHANGED <<site, listVars, indexVars, viewerVars, rebuilt, edits>>

-----------------------------------------------------------------------------
\* The site changes.
Edit ==
  /\ edits < MaxEdits
  /\ site' \in Sites
  /\ edits' = edits + 1
  /\ UNCHANGED <<listVars, indexVars, refresher, viewerVars, rebuilt>>

\* loadChannels: a fetch that fails changes nothing; then Init gives up,
\* and a refresh goes on.
LoadChannels ==
  /\ refresher \in {"initChannels", "channels"}
  /\ \/ /\ channels' = site.channels
        /\ refresher' = IF refresher = "channels" THEN "countries" ELSE "initStreams"
     \/ /\ refresher' = IF refresher = "channels" THEN "countries" ELSE "failed"
        /\ UNCHANGED channels
  /\ UNCHANGED <<site, streams, known, indexVars, viewerVars, rebuilt, edits>>

\* loadStreams: without new streams a refresh builds no indexes.
LoadStreams ==
  /\ refresher \in {"initStreams", "streams"}
  /\ \/ /\ streams' = site.streams
        /\ refresher' = IF refresher = "streams" THEN "build" ELSE "initCountries"
     \/ /\ refresher' = IF refresher = "streams" THEN "waiting" ELSE "failed"
        /\ UNCHANGED streams
  /\ UNCHANGED <<site, channels, known, indexVars, viewerVars, rebuilt, edits>>

\* loadLogos, loadCountries and loadCategories, whose errors are logged.
LoadCountries ==
  /\ refresher \in {"initCountries", "countries"}
  /\ known' \in {known \cup loaded : loaded \in SUBSET {"country", "category"}}
  /\ refresher' = IF refresher = "countries" THEN "build" ELSE "initBuild"
  /\ UNCHANGED <<site, channels, streams, indexVars, viewerVars, rebuilt, edits>>

\* buildIndexes; Init then starts startRefresh.
BuildIptvIndexes ==
  /\ refresher \in {"initBuild", "build"}
  /\ channelsByCountry' = channels
  /\ streamsByChannelID' = streams
  /\ rebuilt' = [v \in Viewers |-> rebuilt[v] \/ viewer[v] = "listing"]
  /\ refresher' = "waiting"
  /\ UNCHANGED <<site, listVars, viewerVars, edits>>

\* One of the two tickers of startRefresh fires.
StaticTick ==
  /\ refresher = "waiting"
  /\ refresher' = "channels"
  /\ UNCHANGED <<site, listVars, indexVars, viewerVars, rebuilt, edits>>

StreamTick ==
  /\ refresher = "waiting"
  /\ refresher' = "streams"
  /\ UNCHANGED <<site, listVars, indexVars, viewerVars, rebuilt, edits>>

-----------------------------------------------------------------------------
(* Handler.GetChannels and Handler.GetPlaylist                             *)

\* IsValidCountry and IsValidCategory pass what the request names (else it
\* is refused); a playlist is of channels with streams only.
Check(v, a, names) ==
  /\ viewer[v] = "idle" /\ names \subseteq known
  /\ a.playlist => a.streamsOnly
  /\ a.country <=> "country" \in names
  /\ ask' = [ask EXCEPT ![v] = a]
  /\ viewer' = [viewer EXCEPT ![v] = "checked"]
  /\ UNCHANGED <<site, listVars, indexVars, refresher, listed, bare, rebuilt, edits>>

\* Store.GetChannels.
Chosen(a) ==
  {c \in (IF a.country THEN channelsByCountry ELSE channels) :
     a.streamsOnly => c \in streamsByChannelID}

GetChannels(v) ==
  /\ viewer[v] = "checked"
  /\ listed' = [listed EXCEPT ![v] = Chosen(ask[v])]
  /\ viewer' = [viewer EXCEPT ![v] = "listing"]
  /\ UNCHANGED <<site, listVars, indexVars, refresher, ask, bare, rebuilt,
                 edits>>

\* Store.GetStreams for the next channel; a playlist leaves a channel
\* without streams out.
GetStreams(v, c) ==
  /\ viewer[v] = "listing" /\ c \in listed[v]
  /\ listed' = [listed EXCEPT ![v] = @ \ {c}]
  /\ bare' = [bare EXCEPT ![v] = IF c \in streamsByChannelID \/ ask[v].playlist THEN @
                                 ELSE @ \cup {c}]
  /\ UNCHANGED <<site, listVars, indexVars, refresher, viewer, ask, rebuilt, edits>>

\* The answer is sent; the connection may bring another request.
Answer(v) ==
  /\ viewer[v] = "listing" /\ listed[v] = {}
  /\ viewer' = [viewer EXCEPT ![v] = "idle"]
  /\ ask' = [ask EXCEPT ![v] = NoAsk]
  /\ bare' = [bare EXCEPT ![v] = {}]
  /\ rebuilt' = [rebuilt EXCEPT ![v] = FALSE]
  /\ UNCHANGED <<site, listVars, indexVars, refresher, listed, edits>>

-----------------------------------------------------------------------------
Refresh == LoadChannels \/ LoadStreams \/ LoadCountries \/ BuildIptvIndexes

IptvNext ==
  \/ Edit \/ Refresh \/ StaticTick \/ StreamTick
  \/ \E v \in Viewers :
        \/ \E a \in Asks, names \in SUBSET {"country", "category"} : Check(v, a, names)
        \/ GetChannels(v) \/ Answer(v)
        \/ \E c \in Channels : GetStreams(v, c)

IptvSpec == IptvInit /\ [][IptvNext]_iptvVars

\* A load that is tried for ever succeeds some time.
ChannelsArrive == LoadChannels /\ channels' = site.channels
StreamsArrive == LoadStreams /\ streams' = site.streams

-----------------------------------------------------------------------------
\* Between two refreshes both indexes are those of the lists in memory,
\* whichever loads of the refreshes failed.
IndexesFollow ==
  refresher = "waiting" =>
     channelsByCountry = channels /\ streamsByChannelID = streams

\* A store that was once loaded never becomes empty: a failed fetch leaves
\* the last good list, and a request never sees half an index.
StaysLoaded ==
  refresher \in {"waiting", "channels", "countries", "streams", "build"} =>
     {} \notin {channels, streams, channelsByCountry, streamsByChannelID}

\* A listing of channels with streams shows a channel without one only if
\* the indexes were rebuilt while the listing was put together.
BareOnlyIfRebuilt ==
  \A v \in Viewers :
     bare[v] # {} /\ ask[v].streamsOnly => rebuilt[v]

\* Once the site no longer changes, a store whose Init succeeded ends up
\* with the lists of the site and indexes over them, for good.
EventuallyCurrent ==
  <>(refresher = "waiting") =>
    <>[](/\ channels = site.channels /\ channelsByCountry = site.channels
         /\ streams = site.streams /\ streamsByChannelID = site.streams)

\* The lists and the indexes over them fit each other through refreshes that
\* fail, and so does what is answered from them (pkg/iptvstore/store.go).
ListsStayIndexed == IptvTypeOK /\ IndexesFollow /\ StaysLoaded /\ BareOnlyIfRebuilt
=============================================================================
