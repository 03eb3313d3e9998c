---------------------------- MODULE HlsSessions ----------------------------
(***************************************************************************)
(* internal/stream/handler.go: the table of shared HLS downloads, the      *)
(* goroutines around it and the two limiters they take slots from.         *)
(*                                                                         *)
(* A request for an m3u8 URL looks the session up, takes a download slot   *)
(* if there was none, gets or creates the session and reads its chunks.    *)
(* Per session there is a producer goroutine (ffmpeg, then yt-dlp), a      *)
(* watcher goroutine per slot that polls "done" and gives the slot back,   *)
(* and a timer that drops the session sessionTTL after its download ended. *)
(* The last reader to leave also drops the session.  Each lock region is   *)
(* one action; everything between two lock regions may be interleaved.     *)
(*                                                                         *)
(* A request creates at most one session, so the session a request         *)
(* creates is named by that request.  The chunks themselves, and how a     *)
(* reader follows them, are in HlsBuffer.                                  *)
(***************************************************************************)
EXTENDS Integers, FiniteSets

CONSTANTS
  Requests,    \* requests for HLS videos, each served by one handler goroutine
  Urls,        \* the URLs requested: the keys of hlsSessions
  Hosts,       \* CDN hosts
  HostOf,      \* the host each URL is downloaded from
  MaxSlots,    \* HLSDownload: 3 in limiter/global.go
  MaxPerHost,  \* cdnMaxPerHost: 1 in limiter/global.go
  LongVideos,  \* whether a video may exceed maxChunks chunks
  Shutdown,    \* whether the server may be shut down
  None         \* no session

ASSUME HlsAssumption ==
  /\ IsFiniteSet(Requests)
  /\ HostOf \in [Urls -> Hosts]
  /\ MaxSlots \in Nat
  /\ MaxPerHost \in Nat
  /\ LongVideos \in BOOLEAN
  /\ Shutdown \in BOOLEAN
  /\ None \notin Requests

VARIABLES
  table,      \* hlsSessions: the session listed under each URL
  slots,      \* HLSDownload.current
  cdn,        \* current of each host's limiter
  url,        \* the URL each request asks for
  handler,    \* where each request's handler is
  sess,       \* the session the handler got from getOrCreateSession
  watcher,    \* the goroutine that returns the request's slot
  producer,   \* where each session's download goroutine is, then its timer
  done,       \* hlsSession.done
  cancelled,  \* the session's context was cancelled before its download ended
  readers,    \* hlsSession.readers
  freed,      \* freeChunks has run on the session
  overlong    \* (history) its video went beyond maxChunks chunks

handlerVars == <<url, handler, sess>>
sessionVars == <<producer, done, cancelled, readers, freed, overlong>>
vars == <<table, slots, cdn, handlerVars, watcher, sessionVars>>

\* A download that has not finished: ffmpeg or yt-dlp runs or is about to.
Running == {"acquireCdn", "direct", "ytdlp"}

HandlerStates ==
  {"new", "acquire", "get", "getWithSlot", "join", "reading",
   "freeDone", "unlistDone", "cancel", "unlistCancelled", "ended", "busy"}

ProducerStates ==
  {"none", "armed", "expired"} \cup Running

\* Slots and per-host slots stay within their limits, readers is never
\* negative, and every reference is to a session.
TypeOK ==
  /\ table \in [Urls -> Requests \cup {None}]
  /\ slots \in 0 .. MaxSlots
  /\ cdn \in [Hosts -> 0 .. MaxPerHost]
  /\ url \in [Requests -> Urls]
  /\ handler \in [Requests -> HandlerStates]
  /\ sess \in [Requests -> Requests \cup {None}]
  /\ watcher \in [Requests -> {"none", "watching", "released"}]
  /\ producer \in [Requests -> ProducerStates]
  /\ done \in [Requests -> BOOLEAN]
  /\ cancelled \in [Requests -> BOOLEAN]
  /\ readers \in [Requests -> Nat]
  /\ freed \in [Requests -> BOOLEAN]
  /\ overlong \in [Requests -> BOOLEAN]

Init ==
  /\ table = [u \in Urls |-> None]
  /\ slots = 0
  /\ cdn = [h \in Hosts |-> 0]
  /\ url \in [Requests -> Urls]
  /\ handler = [r \in Requests |-> "new"]
  /\ sess = [r \in Requests |-> None]
  /\ watcher = [r \in Requests |-> "none"]
  /\ producer = [r \in Requests |-> "none"]
  /\ done = [r \in Requests |-> FALSE]
  /\ cancelled = [r \in Requests |-> FALSE]
  /\ readers = [r \in Requests |-> 0]
  /\ freed = [r \in Requests |-> FALSE]
  /\ overlong = [r \in Requests |-> FALSE]

HandlerGoes(r, from, to) ==
  /\ handler[r] = from
  /\ handler' = [handler EXCEPT ![r] = to]

ProducerGoes(s, from, to) ==
  /\ producer[s] = from
  /\ producer' = [producer EXCEPT ![s] = to]

Host(s) == HostOf[url[s]]

-----------------------------------------------------------------------------
(* Faulty variants of the actions below: slips the code could contain (two *)
(* of them it did contain, see the audit list in Development.md), which    *)
(* the properties must notice.                                             *)

\* Admit one request too many.
AcquireSlotOffByOne(r) ==
  /\ slots <= MaxSlots
  /\ slots' = slots + 1
  /\ HandlerGoes(r, "acquire", "getWithSlot")
  /\ UNCHANGED <<table, cdn, url, sess, watcher, sessionVars>>

\* Start a watcher for every request, also one that took no slot.
GetOrCreateWatchAll(r) ==
  /\ \/ HandlerGoes(r, "get", "join")
     \/ HandlerGoes(r, "getWithSlot", "join")
  /\ watcher' = [watcher EXCEPT ![r] = "watching"]
  /\ \/ /\ table[url[r]] # None
        /\ sess' = [sess EXCEPT ![r] = table[url[r]]]
        /\ UNCHANGED <<table, producer>>
     \/ /\ table[url[r]] = None
        /\ sess' = [sess EXCEPT ![r] = r]
        /\ table' = [table EXCEPT ![url[r]] = r]
        /\ producer' = [producer EXCEPT ![r] = "acquireCdn"]
  /\ UNCHANGED <<slots, cdn, url, done, cancelled, readers, freed, overlong>>

\* Return in the grace period before readers is decremented.
LeaveInGraceUncounted(r) ==
  /\ HandlerGoes(r, "reading", "ended")
  /\ ~done[sess[r]]
  /\ UNCHANGED <<table, slots, cdn, url, sess, watcher, sessionVars>>

\* Give the slot back when the handler returns (audit item 5).
ReleaseSlotAtReturn(r) ==
  /\ watcher[r] = "watching"
  /\ handler[r] = "ended"
  /\ watcher' = [watcher EXCEPT ![r] = "released"]
  /\ slots' = slots - 1
  /\ UNCHANGED <<table, cdn, handlerVars, sessionVars>>

\* A cancelled download goroutine returns without arming the timer.
FallBackWithoutTimer(s, from) ==
  \/ /\ cancelled[s]
     /\ ProducerGoes(s, from, "none")
     /\ UNCHANGED done
  \/ /\ ~cancelled[s]
     /\ ProducerGoes(s, from, "ytdlp")
     /\ done' = [done EXCEPT ![s] = FALSE]

\* Release the host's slot only when the download succeeds.
EndDirectKeepsHost(s) ==
  /\ \/ /\ ProducerGoes(s, "direct", "armed")
        /\ done' = [done EXCEPT ![s] = TRUE]
        /\ cdn' = [cdn EXCEPT ![Host(s)] = @ - 1]
     \/ /\ ProducerGoes(s, "direct", "ytdlp")
        /\ UNCHANGED <<cdn, done>>
  /\ UNCHANGED <<table, slots, handlerVars, watcher, cancelled, readers, freed, overlong>>

\* Record the error of yt-dlp but not that the session is done.
EndYtdlpNotDone(s) ==
  /\ ProducerGoes(s, "ytdlp", "armed")
  /\ \/ done' = [done EXCEPT ![s] = TRUE]
     \/ UNCHANGED done
  /\ UNCHANGED <<table, slots, cdn, handlerVars, watcher,
                 cancelled, readers, freed, overlong>>

\* The timer only unlists (audit item 8, the memory leak).
ExpireKeepsChunks(s) ==
  /\ ProducerGoes(s, "armed", "expired")
  /\ table' = [table EXCEPT ![url[s]] = None]
  /\ UNCHANGED <<slots, cdn, handlerVars, watcher, done, cancelled, readers, freed, overlong>>

-----------------------------------------------------------------------------
(* The request handler, streamProgressive.                                 *)

\* Look the session up under the table's lock, only to see if it exists.
Lookup(r) ==
  /\ HandlerGoes(r, "new", IF table[url[r]] # None THEN "get" ELSE "acquire")
  /\ UNCHANGED <<table, slots, cdn, url, sess, watcher, sessionVars>>

\* Without a session, take a download slot or answer SERVER_BUSY.
AcquireSlot(r) ==
  /\ \/ /\ slots < MaxSlots
        /\ slots' = slots + 1
        /\ HandlerGoes(r, "acquire", "getWithSlot")
     \/ /\ slots >= MaxSlots
        /\ HandlerGoes(r, "acquire", "busy")
        /\ UNCHANGED slots
  /\ UNCHANGED <<table, cdn, url, sess, watcher, sessionVars>>

\* getOrCreateSession, and the watcher of a request that holds a slot.
GetOrCreate(r) ==
  /\ \/ /\ HandlerGoes(r, "get", "join")
        /\ UNCHANGED watcher
     \/ /\ HandlerGoes(r, "getWithSlot", "join")
        /\ watcher' = [watcher EXCEPT ![r] = "watching"]
  /\ \/ /\ table[url[r]] # None
        /\ sess' = [sess EXCEPT ![r] = table[url[r]]]
        /\ UNCHANGED <<table, producer>>
     \/ /\ table[url[r]] = None
        /\ sess' = [sess EXCEPT ![r] = r]
        /\ table' = [table EXCEPT ![url[r]] = r]
        /\ producer' = [producer EXCEPT ![r] = "acquireCdn"]
  /\ UNCHANGED <<slots, cdn, url, done, cancelled, readers, freed, overlong>>

Join(r) ==
  /\ HandlerGoes(r, "join", "reading")
  /\ readers' = [readers EXCEPT ![sess[r]] = @ + 1]
  /\ UNCHANGED <<table, slots, cdn, url, sess, watcher,
                 producer, done, cancelled, freed, overlong>>

\* The stream loop ends (everything read, error, timeout, client gone, or a
\* panic of the unlocked chunk read) and the deferred function runs its
\* locked part.  The last reader out frees a finished session; it abandons
\* an unfinished one unless somebody joined within the last two minutes.
Leave(r) ==
  LET left == readers[sess[r]] - 1
  IN /\ handler[r] = "reading"
     /\ readers' = [readers EXCEPT ![sess[r]] = left]
     /\ \/ /\ left # 0
           /\ HandlerGoes(r, "reading", "ended")
        \/ /\ left = 0
           /\ done[sess[r]]
           /\ HandlerGoes(r, "reading", "freeDone")
        \/ /\ left = 0
           /\ ~done[sess[r]]
           /\ \E age \in {"young", "old"} :
                HandlerGoes(r, "reading",
                            IF age = "young" THEN "ended" ELSE "cancel")
     /\ UNCHANGED <<table, slots, cdn, url, sess, watcher,
                    producer, done, cancelled, freed, overlong>>

\* A finished session: the last reader frees its chunks ...
FreeChunks(r) ==
  /\ HandlerGoes(r, "freeDone", "unlistDone")
  /\ freed' = [freed EXCEPT ![sess[r]] = TRUE]
  /\ UNCHANGED <<table, slots, cdn, url, sess, watcher,
                 producer, done, cancelled, readers, overlong>>

\* ... and then unlists it: by URL, whatever session is listed there now.
UnlistDone(r) ==
  /\ HandlerGoes(r, "unlistDone", "ended")
  /\ table' = [table EXCEPT ![url[r]] = None]
  /\ UNCHANGED <<slots, cdn, url, sess, watcher, sessionVars>>

\* An abandoned session: the last reader cancels its context ...
CancelAbandoned(r) ==
  /\ HandlerGoes(r, "cancel", "unlistCancelled")
  /\ cancelled' = [cancelled EXCEPT ![sess[r]] = TRUE]
  /\ UNCHANGED <<table, slots, cdn, url, sess, watcher,
                 producer, done, readers, freed, overlong>>

\* ... unlists it, again by URL, and frees its chunks.
UnlistCancelled(r) ==
  /\ HandlerGoes(r, "unlistCancelled", "ended")
  /\ table' = [table EXCEPT ![url[r]] = None]
  /\ freed' = [freed EXCEPT ![sess[r]] = TRUE]
  /\ UNCHANGED <<slots, cdn, url, sess, watcher,
                 producer, done, cancelled, readers, overlong>>

-----------------------------------------------------------------------------
(* The watcher of a slot: polls the session it was started for.            *)
ReleaseSlot(r) ==
  /\ watcher[r] = "watching"
  /\ done[sess[r]]
  /\ watcher' = [watcher EXCEPT ![r] = "released"]
  /\ slots' = slots - 1
  /\ UNCHANGED <<table, cdn, handlerVars, sessionVars>>

-----------------------------------------------------------------------------
(* The producer goroutine of a session.  When it ends, however it ends, it *)
(* has armed the sessionTTL timer.                                         *)

\* runDirectHLS failed: start over with yt-dlp on a cleared session, unless
\* the context was cancelled.
FallBack(s, from) ==
  \/ /\ cancelled[s]
     /\ ProducerGoes(s, from, "armed")
     /\ UNCHANGED done
  \/ /\ ~cancelled[s]
     /\ ProducerGoes(s, from, "ytdlp")
     /\ done' = [done EXCEPT ![s] = FALSE]

\* runDirectHLS takes the host's slot or fails at once.
StartDirect(s) ==
  /\ \/ /\ cdn[Host(s)] < MaxPerHost
        /\ cdn' = [cdn EXCEPT ![Host(s)] = @ + 1]
        /\ ProducerGoes(s, "acquireCdn", "direct")
        /\ UNCHANGED done
     \/ /\ cdn[Host(s)] >= MaxPerHost
        /\ FallBack(s, "acquireCdn")
        /\ UNCHANGED cdn
  /\ UNCHANGED <<table, slots, handlerVars, watcher, cancelled, readers, freed, overlong>>

\* runDirectHLS returns: with the video complete, or with an error
\* (playlist, segment, ffmpeg, cancellation).  A cancellation that arrives
\* once all segments are downloaded still counts as complete.
EndDirect(s) ==
  /\ \/ /\ ProducerGoes(s, "direct", "armed")
        /\ done' = [done EXCEPT ![s] = TRUE]
     \/ FallBack(s, "direct")
  /\ cdn' = [cdn EXCEPT ![Host(s)] = @ - 1]
  /\ UNCHANGED <<table, slots, handlerVars, watcher, cancelled, readers, freed, overlong>>

\* runYTDLP returns: complete, or with an error that readers and watcher
\* are told unless the context was cancelled.  A killed yt-dlp that had
\* produced output and reported no fragment error counts as complete.
EndYtdlp(s) ==
  /\ ProducerGoes(s, "ytdlp", "armed")
  /\ \/ done' = [done EXCEPT ![s] = TRUE]
     \/ /\ cancelled[s]
        /\ UNCHANGED done
  /\ UNCHANGED <<table, slots, cdn, handlerVars, watcher,
                 cancelled, readers, freed, overlong>>

\* appendChunk finds maxChunks chunks: it marks the session done with an
\* error, and the download goes on.
Overflow(s) ==
  /\ LongVideos
  /\ producer[s] \in {"direct", "ytdlp"}
  /\ ~done[s]
  /\ done' = [done EXCEPT ![s] = TRUE]
  /\ overlong' = [overlong EXCEPT ![s] = TRUE]
  /\ UNCHANGED <<table, slots, cdn, handlerVars, watcher,
                 producer, cancelled, readers, freed>>

\* The timer fires: delete by URL, then free the session's chunks.
Expire(s) ==
  /\ ProducerGoes(s, "armed", "expired")
  /\ table' = [table EXCEPT ![url[s]] = None]
  /\ freed' = [freed EXCEPT ![s] = TRUE]
  /\ UNCHANGED <<slots, cdn, handlerVars, watcher, done, cancelled, readers, overlong>>

-----------------------------------------------------------------------------
\* Shutdown: cancel every listed session and forget them.  Requests already
\* accepted go on until srv.Shutdown has drained them.
CancelAllSessions ==
  /\ Shutdown
  /\ \E u \in Urls : table[u] # None
  /\ cancelled' = [s \in Requests |->
                     cancelled[s] \/ \E u \in Urls : table[u] = s]
  /\ table' = [u \in Urls |-> None]
  /\ UNCHANGED <<slots, cdn, handlerVars, watcher,
                 producer, done, readers, freed, overlong>>

HandlerStep(r) ==
  \/ AcquireSlot(r) \/ GetOrCreate(r) \/ Join(r) \/ Leave(r)
  \/ FreeChunks(r) \/ UnlistDone(r) \/ CancelAbandoned(r) \/ UnlistCancelled(r)

ProducerStep(s) == StartDirect(s) \/ EndDirect(s) \/ EndYtdlp(s) \/ Expire(s)

Next ==
  \/ \E r \in Requests :
       Lookup(r) \/ HandlerStep(r) \/ ReleaseSlot(r)
  \/ \E s \in Requests : ProducerStep(s) \/ Overflow(s)
  \/ CancelAllSessions

Spec == Init /\ [][Next]_vars

\* Goroutines and timers run.  A download ends because every HTTP call and
\* both tools have timeouts and bounded retries; a reader leaves because
\* waitForChunk gives up after 60 s.  Nobody has to send a request, shut
\* the server down or post a long video.
FairSpec ==
  /\ Spec
  /\ \A r \in Requests :
       /\ WF_vars(HandlerStep(r))
       /\ WF_vars(ReleaseSlot(r))
       /\ WF_vars(ProducerStep(r))

-----------------------------------------------------------------------------
\* The requests that hold a download slot: between Acquire and the start of
\* the watcher the handler holds it, then the watcher does.
HoldsSlot(r) ==
  \/ handler[r] = "getWithSlot"
  \/ watcher[r] = "watching"

Sem == INSTANCE Semaphore
         WITH Procs <- Requests, Max <- MaxSlots,
              place <- [r \in Requests |->
                          IF HoldsSlot(r) THEN "in"
                          ELSE IF handler[r] = "busy" THEN "refused" ELSE "out"]

\* Handing a slot from handler to watcher neither loses nor doubles it: the
\* handlers and watchers together use HLSDownload as a semaphore, and a
\* request gets SERVER_BUSY only while MaxSlots slots are held.
SlotsAreSemaphore == Sem!Spec

\* readers counts the handlers between their join and their deferred exit.
ReadersCounted ==
  \A s \in Requests :
     readers[s] = Cardinality({r \in Requests :
                                 handler[r] = "reading" /\ sess[r] = s})

\* The per-host limiter counts the running ffmpeg downloads of that host, so
\* no two ffmpeg ever run for one URL even though two sessions of a URL can.
OneFfmpegPerHost ==
  \A h \in Hosts :
     cdn[h] = Cardinality({s \in Requests :
                             producer[s] = "direct" /\ Host(s) = h})

\* A listed session is still downloading or has a timer that will unlist
\* it: the table cannot keep a session forever, and no expired session can
\* be handed to a reader.
ListedWillExpire ==
  \A u \in Urls : table[u] # None =>
     /\ url[table[u]] = u
     /\ producer[table[u]] \in Running \cup {"armed"}

\* The table's sessions are looked after: whoever may still read one is counted,
\* and one that nobody reads has a download or a timer that ends it.
SessionsTended == ListedWillExpire /\ ReadersCounted

\* A slot is given back while its download runs only if the download was too
\* long: appendChunk then says that the session is done and lets it run on.
\* No fallback, cancellation or shutdown lets a slot go early.
SlotHeldWhileDownloading ==
  \A r \in Requests :
     sess[r] = r /\ producer[r] \in Running => watcher[r] # "released" \/ overlong[r]

\* Every session's chunks are eventually freed, whatever its readers and
\* its download do.
ChunksFreed ==
  \A s \in Requests : (producer[s] # "none") ~> freed[s]

\* Every slot comes back, unless the session was cancelled first.
SlotReturnsUnlessCancelled ==
  \A r \in Requests :
     (watcher[r] = "watching")
        ~> (watcher[r] = "released" \/ \E s \in Requests : sess[r] = s /\ cancelled[s])

-----------------------------------------------------------------------------
(* What comments say, and the code does not do.                            *)

\* handler.go:839, the slot is released once the session has ended.
SlotReturns ==
  \A r \in Requests : (watcher[r] = "watching") ~> (watcher[r] = "released")

\* handler.go:830, what a refused client is told: only MaxSlots downloads run
\* at a time, not counting those that are cancelled and about to end.
DownloadsBounded ==
  Cardinality({s \in Requests : producer[s] \in Running /\ ~ cancelled[s]}) <= MaxSlots
=============================================================================
