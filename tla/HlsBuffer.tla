----------------------------- MODULE HlsBuffer -----------------------------
(***************************************************************************)
(* internal/stream/handler.go: the chunks of one HLS session, the download *)
(* goroutines that append them and the requests that follow them.          *)
(*                                                                         *)
(* The download runs ffmpeg, whose output a goroutine of its own ("pump")  *)
(* copies into the session, and falls back to yt-dlp on an emptied buffer. *)
(* Readers wait on a channel that holds one token.  A chunk is represented *)
(* by the method that made it; its number is its place in the buffer.      *)
(* Each lock region and each channel operation is one action, except that  *)
(* a reader frees and unlists the session in one.                          *)
(***************************************************************************)
EXTENDS Integers, Sequences

CONSTANTS
  Readers,      \* requests that get this session
  MaxChunks,    \* maxChunks: 2048 in the code
  Ahead,        \* bufferAhead: 8 in the code
  VideoChunks,  \* bound: how many chunks a method can produce
  FfmpegFails,  \* whether runDirectHLS may fail
  MayStop       \* whether the session may be cancelled and its timer may fire

ASSUME HlsBufferAssumption ==
  /\ MaxChunks \in Nat \ {0}
  /\ Ahead \in Nat \ {0}
  /\ VideoChunks \in Nat
  /\ FfmpegFails \in BOOLEAN
  /\ MayStop \in BOOLEAN

Methods == {"ffmpeg", "ytdlp"}

VARIABLES
  chunks,     \* hlsSession.chunks
  done,       \* hlsSession.done
  err,        \* hlsSession.err # nil
  readers,    \* hlsSession.readers
  token,      \* the channel notify holds its one token
  listed,     \* the session is in hlsSessions
  cancelled,  \* the session's context is cancelled
  producer,   \* where the download goroutine is
  pump,       \* where the goroutine that reads ffmpeg's output is
  signals,    \* those of them that are about to call signalNew
  made,       \* how many chunks each method has passed to appendChunk
  dropped,    \* history: a reader or the timer has freed the chunks
  lateSwitch, \* history: the fallback emptied a buffer in use: ffmpeg's output
              \* was still being copied, or a reader had begun to write
  pc,         \* where each reader is
  written,    \* the chunks each reader has written to its client
  outcome     \* why the reader's handler returns

sessionVars == <<chunks, done, err>>
downloadVars == <<producer, pump, signals, made>>
history == <<dropped, lateSwitch>>
readerVars == <<pc, written, outcome>>
vars == <<sessionVars, readers, token, listed, cancelled, downloadVars,
          history, readerVars>>

\* Blocked in the select of waitForChunk, before and after the response began.
Waiting == {"awaitBuffer", "awaitChunk"}

ReaderStates ==
  {"idle", "joining", "buffering", "awaitBuffer", "unbuffered", "counting",
   "serving", "writing", "polling", "awaitChunk", "leaving", "cancelling",
   "freeing", "gone"}

ProducerStates == {"start", "ffmpeg", "fallback", "ytdlp", "armed", "expired"}

\* The buffer never exceeds maxChunks.  (That readers counts the readers
\* is ReadersCounted of HlsSessions.)
TypeOK ==
  /\ chunks \in Seq(Methods)
  /\ Len(chunks) <= MaxChunks
  /\ done \in BOOLEAN
  /\ err \in BOOLEAN
  /\ readers \in Int
  /\ token \in BOOLEAN
  /\ listed \in BOOLEAN
  /\ cancelled \in BOOLEAN
  /\ producer \in ProducerStates
  /\ pump \in {"none", "reading", "holding", "ended"}
  /\ signals \subseteq {"producer", "pump"}
  /\ made \in [Methods -> 0 .. VideoChunks]
  /\ dropped \in BOOLEAN
  /\ lateSwitch \in BOOLEAN
  /\ pc \in [Readers -> ReaderStates]
  /\ written \in [Readers -> Seq(Methods)]
  /\ outcome \in [Readers -> {"none", "complete", "error", "cut", "panic"}]

Init ==
  /\ chunks = <<>>
  /\ done = FALSE
  /\ err = FALSE
  /\ readers = 0
  /\ token = FALSE
  /\ listed = TRUE
  /\ cancelled = FALSE
  /\ producer = "start"
  /\ pump = "none"
  /\ signals = {}
  /\ made = [m \in Methods |-> 0]
  /\ dropped = FALSE
  /\ lateSwitch = FALSE
  /\ pc = [r \in Readers |-> "idle"]
  /\ written = [r \in Readers |-> <<>>]
  /\ outcome = [r \in Readers |-> "none"]

ReaderGoes(r, from, to) ==
  /\ pc[r] = from
  /\ pc' = [pc EXCEPT ![r] = to]

\* The handler of r returns, for the given reason.
Returns(r, from, why) ==
  /\ ReaderGoes(r, from, "leaving")
  /\ outcome' = [outcome EXCEPT ![r] = why]

-----------------------------------------------------------------------------
(* Faulty variants: slips the code could contain.                          *)

\* The bound is checked one chunk too late.
AppendChunkOffByOne(m) ==
  /\ made[m] < VideoChunks
  /\ made' = [made EXCEPT ![m] = @ + 1]
  /\ \/ /\ Len(chunks) > MaxChunks
        /\ done' = TRUE
        /\ err' = (err \/ ~done)
        /\ UNCHANGED chunks
     \/ /\ Len(chunks) <= MaxChunks
        /\ chunks' = Append(chunks, m)
        /\ UNCHANGED <<done, err>>

\* runDirectHLS does not wait for the pump.
EndFfmpegEarly ==
  /\ producer = "ffmpeg"
  /\ producer' = "armed"
  /\ done' = TRUE
  /\ signals' = signals \cup {"producer"}
  /\ UNCHANGED <<chunks, err, readers, token, listed, cancelled, pump, made,
                 history, readerVars>>

\* runDirectHLS sets done without a signal.
EndFfmpegSilently ==
  /\ producer = "ffmpeg"
  /\ pump = "ended"
  /\ "pump" \notin signals
  /\ producer' = "armed"
  /\ done' = TRUE
  /\ UNCHANGED <<chunks, err, readers, token, listed, cancelled, pump, signals,
                 made, history, readerVars>>

\* The stream loop compares with <= instead of <.
ServeOffByOne(r) ==
  /\ Len(written[r]) <= Len(chunks)
  /\ ReaderGoes(r, "serving", "writing")
  /\ UNCHANGED <<sessionVars, readers, token, listed, cancelled, downloadVars,
                 history, written, outcome>>

\* waitForChunk without time.After once the response has begun.
TimeoutBuffering(r) ==
  /\ ReaderGoes(r, "awaitBuffer", "unbuffered")
  /\ UNCHANGED <<sessionVars, readers, token, listed, cancelled, downloadVars,
                 history, written, outcome>>

-----------------------------------------------------------------------------
(* The download.  A goroutine that has to signal does nothing before it.   *)

\* appendChunk, up to the signal: a full buffer marks the session done with
\* an error unless it is done already.
AppendChunk(m) ==
  /\ made[m] < VideoChunks
  /\ made' = [made EXCEPT ![m] = @ + 1]
  /\ \/ /\ Len(chunks) >= MaxChunks
        /\ done' = TRUE
        /\ err' = (err \/ ~done)
        /\ UNCHANGED chunks
     \/ /\ Len(chunks) < MaxChunks
        /\ chunks' = Append(chunks, m)
        /\ UNCHANGED <<done, err>>

\* signalNew: put the token into the channel unless it is there.
Signal(p) ==
  /\ p \in signals
  /\ signals' = signals \ {p}
  /\ token' = TRUE
  /\ UNCHANGED <<sessionVars, readers, listed, cancelled, producer, pump, made,
                 history, readerVars>>

StartFfmpeg ==
  /\ producer = "start"
  /\ producer' = "ffmpeg"
  /\ pump' = "reading"
  /\ UNCHANGED <<sessionVars, readers, token, listed, cancelled, signals, made,
                 history, readerVars>>

\* The pump reads a chunk or what is left of one.  Once ffmpeg has been
\* killed and its pipe closed there may still be such a rest.
PumpRead ==
  /\ pump = "reading"
  /\ "pump" \notin signals
  /\ made["ffmpeg"] < VideoChunks
  /\ pump' = "holding"
  /\ UNCHANGED <<sessionVars, readers, token, listed, cancelled, producer,
                 signals, made, history, readerVars>>

PumpAppend ==
  /\ pump = "holding"
  /\ AppendChunk("ffmpeg")
  /\ pump' = IF producer = "ffmpeg" THEN "reading" ELSE "ended"
  /\ signals' = signals \cup {"pump"}
  /\ UNCHANGED <<readers, token, listed, cancelled, producer, history, readerVars>>

\* End of ffmpeg's output, or an error reading it.
PumpEnd ==
  /\ pump = "reading"
  /\ "pump" \notin signals
  /\ pump' = "ended"
  /\ UNCHANGED <<sessionVars, readers, token, listed, cancelled, producer,
                 signals, made, history, readerVars>>

\* All segments are downloaded and the pump has reported: runDirectHLS ends.
EndFfmpeg ==
  /\ producer = "ffmpeg"
  /\ pump = "ended"
  /\ "pump" \notin signals
  /\ producer' = "armed"
  /\ done' = TRUE
  /\ signals' = signals \cup {"producer"}
  /\ UNCHANGED <<chunks, err, readers, token, listed, cancelled, pump, made,
                 history, readerVars>>

\* runDirectHLS fails, before or after it has started ffmpeg.  It does not
\* wait for the pump.  A cancelled session goes no further.
FfmpegError ==
  /\ producer \in {"start", "ffmpeg"}
  /\ FfmpegFails \/ cancelled
  /\ producer' = IF cancelled THEN "armed" ELSE "fallback"
  /\ UNCHANGED <<sessionVars, readers, token, listed, cancelled, pump, signals,
                 made, history, readerVars>>

\* Empty the session and start over with yt-dlp.
FallBack ==
  /\ producer = "fallback"
  /\ producer' = "ytdlp"
  /\ chunks' = <<>> /\ done' = FALSE /\ err' = FALSE
  /\ lateSwitch' = (\/ pump \in {"reading", "holding"}
                    \/ \E r \in Readers : written[r] # <<>> \/ pc[r] = "writing")
  /\ UNCHANGED <<readers, token, listed, cancelled, pump, signals, made,
                 dropped, readerVars>>

YtdlpAppend ==
  /\ producer = "ytdlp"
  /\ "producer" \notin signals
  /\ AppendChunk("ytdlp")
  /\ signals' = signals \cup {"producer"}
  /\ UNCHANGED <<readers, token, listed, cancelled, producer, pump, history,
                 readerVars>>

\* runYTDLP ends: complete, or with an error that is recorded and signalled
\* unless the context was cancelled.
EndYtdlp ==
  /\ producer = "ytdlp"
  /\ "producer" \notin signals
  /\ producer' = "armed"
  /\ \/ /\ done' = TRUE
        /\ \/ UNCHANGED err
           \/ ~cancelled /\ err' = TRUE
        /\ signals' = signals \cup {"producer"}
     \/ /\ cancelled
        /\ UNCHANGED <<done, err, signals>>
  /\ UNCHANGED <<chunks, readers, token, listed, cancelled, pump, made, history,
                 readerVars>>

\* The timer: unlist the session and free its chunks.
Expire ==
  /\ MayStop
  /\ producer = "armed"
  /\ "producer" \notin signals
  /\ producer' = "expired"
  /\ listed' = FALSE
  /\ chunks' = <<>>
  /\ dropped' = TRUE
  /\ UNCHANGED <<done, err, readers, token, cancelled, pump, signals, made,
                 lateSwitch, readerVars>>

\* CancelAllSessions.
Cancel ==
  /\ MayStop
  /\ listed
  /\ cancelled' = TRUE
  /\ listed' = FALSE
  /\ UNCHANGED <<sessionVars, readers, token, downloadVars, history, readerVars>>

-----------------------------------------------------------------------------
(* A reader: streamProgressive from getOrCreateSession on.                 *)

Get(r) ==
  /\ listed
  /\ ReaderGoes(r, "idle", "joining")
  /\ UNCHANGED <<sessionVars, readers, token, listed, cancelled, downloadVars,
                 history, written, outcome>>

Join(r) ==
  /\ ReaderGoes(r, "joining", "buffering")
  /\ readers' = readers + 1
  /\ UNCHANGED <<sessionVars, token, listed, cancelled, downloadVars, history,
                 written, outcome>>

\* waitForChunk(bufferAhead - 1) looks at the session.
Buffer(r) ==
  /\ \/ /\ Ahead - 1 < Len(chunks)
        /\ ReaderGoes(r, "buffering", "serving")
     \/ /\ Ahead - 1 >= Len(chunks)
        /\ ReaderGoes(r, "buffering",
                      IF done \/ err THEN "unbuffered" ELSE "awaitBuffer")
  /\ UNCHANGED <<sessionVars, readers, token, listed, cancelled, downloadVars,
                 history, written, outcome>>

\* Without the initial buffer, isDone: answer an error or go on.
Unbuffered(r) ==
  /\ \/ /\ err
        /\ Returns(r, "unbuffered", "error")
     \/ /\ ~err
        /\ ReaderGoes(r, "unbuffered", IF done THEN "serving" ELSE "counting")
        /\ UNCHANGED outcome
  /\ UNCHANGED <<sessionVars, readers, token, listed, cancelled, downloadVars,
                 history, written>>

\* totalChunks: answer a timeout, or serve what there is.
TotalChunks(r) ==
  /\ \/ /\ chunks = <<>>
        /\ Returns(r, "counting", "cut")
     \/ /\ chunks # <<>>
        /\ ReaderGoes(r, "counting", "serving")
        /\ UNCHANGED outcome
  /\ UNCHANGED <<sessionVars, readers, token, listed, cancelled, downloadVars,
                 history, written>>

\* The stream loop looks at the session.
Serve(r) ==
  /\ \/ /\ Len(written[r]) < Len(chunks)
        /\ ReaderGoes(r, "serving", "writing")
        /\ UNCHANGED outcome
     \/ /\ Len(written[r]) >= Len(chunks)
        /\ done \/ err
        /\ Returns(r, "serving", IF err THEN "error" ELSE "complete")
     \/ /\ Len(written[r]) >= Len(chunks)
        /\ ~done /\ ~err
        /\ ReaderGoes(r, "serving", "polling")
        /\ UNCHANGED outcome
  /\ UNCHANGED <<sessionVars, readers, token, listed, cancelled, downloadVars,
                 history, written>>

\* It takes the next chunk without the lock: if chunks has been emptied
\* since, the index is out of range and the handler panics.
Write(r) ==
  /\ \/ /\ Len(written[r]) < Len(chunks)
        /\ ReaderGoes(r, "writing", "serving")
        /\ written' = [written EXCEPT ![r] = Append(@, chunks[Len(@) + 1])]
        /\ UNCHANGED outcome
     \/ /\ Len(written[r]) >= Len(chunks)
        /\ Returns(r, "writing", "panic")
        /\ UNCHANGED written
  /\ UNCHANGED <<sessionVars, readers, token, listed, cancelled, downloadVars,
                 history>>

\* waitForChunk for the next chunk looks at the session.
Poll(r) ==
  /\ \/ /\ Len(written[r]) < Len(chunks)
        /\ ReaderGoes(r, "polling", "serving")
        /\ UNCHANGED outcome
     \/ /\ Len(written[r]) >= Len(chunks)
        /\ done \/ err
        /\ Returns(r, "polling", IF err THEN "error" ELSE "complete")
     \/ /\ Len(written[r]) >= Len(chunks)
        /\ ~done /\ ~err
        /\ ReaderGoes(r, "polling", "awaitChunk")
        /\ UNCHANGED outcome
  /\ UNCHANGED <<sessionVars, readers, token, listed, cancelled, downloadVars,
                 history, written>>

\* A waiting reader takes the token and looks again.
Wake(r) ==
  /\ token
  /\ \/ ReaderGoes(r, "awaitBuffer", "buffering")
     \/ ReaderGoes(r, "awaitChunk", "polling")
  /\ token' = FALSE
  /\ UNCHANGED <<sessionVars, readers, listed, cancelled, downloadVars, history,
                 written, outcome>>

\* It has waited for 60 s.
Timeout(r) ==
  /\ \/ /\ ReaderGoes(r, "awaitBuffer", "unbuffered")
        /\ UNCHANGED outcome
     \/ Returns(r, "awaitChunk", "cut")
  /\ UNCHANGED <<sessionVars, readers, token, listed, cancelled, downloadVars,
                 history, written>>

\* The client has gone.
Disconnect(r) ==
  /\ \E from \in {"serving", "writing", "awaitChunk"} : Returns(r, from, "cut")
  /\ UNCHANGED <<sessionVars, readers, token, listed, cancelled, downloadVars,
                 history, written>>

\* The deferred function: the last reader frees a finished session; it
\* cancels an unfinished one unless somebody joined in the last two minutes.
\* The handler's variables are gone.
Leave(r) ==
  /\ readers' = readers - 1
  /\ \/ /\ readers = 1 /\ done
        /\ ReaderGoes(r, "leaving", "freeing")
     \/ /\ readers = 1 /\ ~done /\ MayStop
        /\ ReaderGoes(r, "leaving", "cancelling")
     \/ /\ readers # 1 \/ ~done
        /\ ReaderGoes(r, "leaving", "gone")
  /\ written' = [written EXCEPT ![r] = <<>>]
  /\ outcome' = [outcome EXCEPT ![r] = "none"]
  /\ UNCHANGED <<sessionVars, token, listed, cancelled, downloadVars, history>>

CancelAbandoned(r) ==
  /\ ReaderGoes(r, "cancelling", "freeing")
  /\ cancelled' = TRUE
  /\ UNCHANGED <<sessionVars, readers, token, listed, downloadVars, history,
                 written, outcome>>

\* Free the chunks and unlist the session.
Free(r) ==
  /\ ReaderGoes(r, "freeing", "gone")
  /\ chunks' = <<>>
  /\ listed' = FALSE
  /\ dropped' = TRUE
  /\ UNCHANGED <<done, err, readers, token, cancelled, downloadVars, lateSwitch,
                 written, outcome>>

-----------------------------------------------------------------------------
Download ==
  \/ \E p \in {"producer", "pump"} : Signal(p)
  \/ StartFfmpeg \/ PumpRead \/ PumpAppend \/ PumpEnd \/ EndFfmpeg
  \/ FfmpegError \/ FallBack \/ YtdlpAppend \/ EndYtdlp

ReaderStep(r) ==
  \/ Join(r) \/ Buffer(r) \/ Unbuffered(r) \/ TotalChunks(r) \/ Serve(r)
  \/ Write(r) \/ Poll(r) \/ Wake(r) \/ Timeout(r)
  \/ Leave(r) \/ CancelAbandoned(r) \/ Free(r)

BufferNext ==
  \/ Download \/ Expire \/ Cancel
  \/ \E r \in Readers : Get(r) \/ Disconnect(r) \/ ReaderStep(r)

Spec == Init /\ [][BufferNext]_vars

\* Goroutines run, a client accepts what it is sent, and 60 s pass.
FairSpec == Spec /\ WF_vars(Download) /\ \A r \in Readers : WF_vars(ReaderStep(r))

-----------------------------------------------------------------------------
\* A reader whose stream ends as complete has sent its client every chunk a
\* method made, in order, unless the chunks were freed or the fallback came
\* when the buffer was in use: no end is seen before the last chunk.
WholeVideo ==
  \A r \in Readers :
     outcome[r] = "complete" /\ ~dropped /\ ~lateSwitch =>
        \E m \in Methods : written[r] = [i \in 1 .. made[m] |-> m]

\* What reader r waits for is there.
Served(r) ==
  \/ done \/ err
  \/ pc[r] = "awaitBuffer" /\ Ahead - 1 < Len(chunks)
  \/ pc[r] = "awaitChunk" /\ Len(written[r]) < Len(chunks)

Woken(r) == pc[r] \in Waiting /\ Served(r) => token \/ signals # {}

\* A reader that is alone never waits for what is there: each look at the
\* session that comes too early is followed by a token.
LoneReaderWoken ==
  \A r \in Readers :
     (\A q \in Readers \ {r} : pc[q] \in {"idle", "joining"}) => Woken(r)

\* The chunk taken without the lock exists, unless the chunks were freed or
\* the fallback emptied a buffer in use.
PanicsOnlyIfEmptied ==
  \A r \in Readers : outcome[r] = "panic" => dropped \/ lateSwitch

\* Every request that has joined returns, though a token may be lost to it.
ReadersReturn ==
  \A r \in Readers : pc[r] = "joining" ~> pc[r] = "gone"

-----------------------------------------------------------------------------
(* What a comment or a document says, and the code does not do.            *)

\* handler.go:391, the client needs a valid mp4: one method's output.
OneContainer ==
  \A r \in Readers : \A i, j \in DOMAIN written[r] : written[r][i] = written[r][j]
=============================================================================
