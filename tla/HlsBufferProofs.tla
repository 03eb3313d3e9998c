-------------------------- MODULE HlsBufferProofs --------------------------
(***************************************************************************)
(* What a reader of a session may rely on, for any number of readers and   *)
(* any sizes of buffer and video.                                          *)
(***************************************************************************)
EXTENDS HlsBuffer, TLAPS

-----------------------------------------------------------------------------
(* Types and the bound of the buffer.                                      *)

\* A chunk of a method, appended or not, leaves the buffer within its bound.
LEMMA AppendChunkType ==
  ASSUME NEW m \in Methods, TypeOK, AppendChunk(m)
  PROVE  /\ chunks' \in Seq(Methods) /\ Len(chunks') <= MaxChunks
         /\ done' \in BOOLEAN /\ err' \in BOOLEAN
         /\ made' \in [Methods -> 0 .. VideoChunks]
  <1>1. done' \in BOOLEAN /\ err' \in BOOLEAN
    BY Zenon DEF TypeOK, AppendChunk
  <1>2. chunks' = chunks \/ (Len(chunks) < MaxChunks /\ chunks' = Append(chunks, m))
    BY DEF AppendChunk
  <1>3. chunks' \in Seq(Methods) /\ Len(chunks') <= MaxChunks
    <2>1. chunks \in Seq(Methods) /\ Len(chunks) <= MaxChunks
      BY DEF TypeOK
    <2>2. QED
      BY <1>2, <2>1, HlsBufferAssumption
  <1>4. made' = [made EXCEPT ![m] = @ + 1] /\ made[m] < VideoChunks
    BY DEF AppendChunk
  <1>5. made' \in [Methods -> 0 .. VideoChunks]
    BY <1>4, HlsBufferAssumption DEF TypeOK
  <1>6. QED
    BY <1>1, <1>3, <1>5

\* An empty buffer is within its bound.
LEMMA EmptyBuffer == <<>> \in Seq(Methods) /\ Len(<<>>) <= MaxChunks
  BY HlsBufferAssumption

\* The steps of the download keep the types.
LEMMA DownloadType ==
  ASSUME TypeOK, Download \/ Expire \/ Cancel PROVE TypeOK'
  <1> USE DEF sessionVars, downloadVars, history, readerVars
  <1>1. ASSUME NEW p \in {"producer", "pump"}, Signal(p) PROVE TypeOK'
    BY <1>1 DEF Signal, TypeOK
  <1>2. CASE StartFfmpeg \/ PumpRead \/ PumpEnd \/ EndFfmpeg
    <2>1. CASE StartFfmpeg
      BY <2>1 DEF StartFfmpeg, TypeOK, ProducerStates
    <2>2. CASE PumpRead
      BY <2>2 DEF PumpRead, TypeOK
    <2>3. CASE PumpEnd
      BY <2>3 DEF PumpEnd, TypeOK
    <2>4. CASE EndFfmpeg
      BY <2>4 DEF EndFfmpeg, TypeOK, ProducerStates
    <2>5. QED
      BY <1>2, <2>1, <2>2, <2>3, <2>4
  <1>3. CASE FfmpegError
    BY <1>3 DEF FfmpegError, TypeOK, ProducerStates
  <1>4. CASE PumpAppend
    <2>1. AppendChunk("ffmpeg") /\ "ffmpeg" \in Methods
      BY <1>4 DEF PumpAppend, Methods
    <2>2. QED
      BY <1>4, <2>1, AppendChunkType DEF PumpAppend, TypeOK
  <1>5. CASE YtdlpAppend
    <2>1. AppendChunk("ytdlp") /\ "ytdlp" \in Methods
      BY <1>5 DEF YtdlpAppend, Methods
    <2>2. QED
      BY <1>5, <2>1, AppendChunkType DEF YtdlpAppend, TypeOK
  <1>6. CASE FallBack
    <2>1. chunks' \in Seq(Methods) /\ Len(chunks') <= MaxChunks
      BY <1>6, EmptyBuffer DEF FallBack
    <2>2. lateSwitch' \in BOOLEAN
      BY <1>6, Zenon DEF FallBack
    <2>3. QED
      BY <1>6, <2>1, <2>2 DEF FallBack, TypeOK, ProducerStates
  <1>7. CASE EndYtdlp
    BY <1>7 DEF EndYtdlp, TypeOK, ProducerStates
  <1>8. CASE Expire
    <2>1. chunks' \in Seq(Methods) /\ Len(chunks') <= MaxChunks
      BY <1>8, EmptyBuffer DEF Expire
    <2>2. QED
      BY <1>8, <2>1 DEF Expire, TypeOK, ProducerStates
  <1>9. CASE Cancel
    BY <1>9 DEF Cancel, TypeOK
  <1>10. QED
    BY <1>1, <1>2, <1>3, <1>4, <1>5, <1>6, <1>7, <1>8, <1>9 DEF Download

\* The steps of a reader keep the types.
LEMMA ReaderType ==
  ASSUME TypeOK, NEW r \in Readers, Get(r) \/ Disconnect(r) \/ ReaderStep(r)
  PROVE  TypeOK'
  <1> USE DEF sessionVars, downloadVars, history
  <1> DEFINE Outcomes == {"none", "complete", "error", "cut", "panic"}
  <1>1. CASE Get(r) \/ Join(r) \/ Buffer(r) \/ Wake(r)
    <2>1. pc' \in [Readers -> ReaderStates]
      BY <1>1 DEF TypeOK, Get, Join, Buffer, Wake, ReaderGoes, ReaderStates
    <2>2. CASE Get(r) \/ Buffer(r)
      BY <2>1, <2>2 DEF Get, Buffer, TypeOK
    <2>3. CASE Join(r)
      BY <2>1, <2>3 DEF Join, TypeOK
    <2>4. CASE Wake(r)
      BY <2>1, <2>4 DEF Wake, TypeOK
    <2>5. QED
      BY <1>1, <2>2, <2>3, <2>4
  <1>2. CASE \/ Unbuffered(r) \/ TotalChunks(r) \/ Serve(r) \/ Poll(r) \/ Timeout(r)
             \/ Disconnect(r)
    <2>1. pc' \in [Readers -> ReaderStates] /\ outcome' \in [Readers -> Outcomes]
      BY <1>2 DEF TypeOK, Unbuffered, TotalChunks, Serve, Poll, Timeout, Disconnect,
                  ReaderGoes, Returns, ReaderStates
    <2>2. QED
      BY <1>2, <2>1 DEF Unbuffered, TotalChunks, Serve, Poll, Timeout, Disconnect,
           TypeOK
  <1>3. CASE Write(r)
    <2>1. pc' \in [Readers -> ReaderStates] /\ outcome' \in [Readers -> Outcomes]
      BY <1>3 DEF TypeOK, Write, ReaderGoes, Returns, ReaderStates
    <2>2. written' \in [Readers -> Seq(Methods)]
      <3>1. CASE /\ Len(written[r]) < Len(chunks)
                 /\ written' = [written EXCEPT ![r] = Append(@, chunks[Len(@) + 1])]
        <4>1. Append(written[r], chunks[Len(written[r]) + 1]) \in Seq(Methods)
          BY <3>1 DEF TypeOK
        <4>2. QED
          BY <3>1, <4>1 DEF TypeOK
      <3>2. QED
        BY <1>3, <3>1 DEF Write, TypeOK
    <2>3. QED
      BY <1>3, <2>1, <2>2 DEF Write, TypeOK
  <1>4. CASE Leave(r)
    <2>1. pc' \in [Readers -> ReaderStates] /\ outcome' \in [Readers -> Outcomes]
      BY <1>4 DEF TypeOK, Leave, ReaderGoes, ReaderStates
    <2>2. written' \in [Readers -> Seq(Methods)]
      BY <1>4, EmptyBuffer DEF Leave, TypeOK
    <2>3. QED
      BY <1>4, <2>1, <2>2 DEF Leave, TypeOK
  <1>5. CASE CancelAbandoned(r)
    <2>1. pc' \in [Readers -> ReaderStates]
      BY <1>5 DEF TypeOK, CancelAbandoned, ReaderGoes, ReaderStates
    <2>2. QED
      BY <1>5, <2>1 DEF CancelAbandoned, TypeOK
  <1>6. CASE Free(r)
    <2>1. pc' \in [Readers -> ReaderStates]
      BY <1>6 DEF TypeOK, Free, ReaderGoes, ReaderStates
    <2>2. chunks' \in Seq(Methods) /\ Len(chunks') <= MaxChunks
      BY <1>6, EmptyBuffer DEF Free
    <2>3. QED
      BY <1>6, <2>1, <2>2 DEF Free, TypeOK
  <1>7. QED
    BY <1>1, <1>2, <1>3, <1>4, <1>5, <1>6 DEF ReaderStep

\* Every step keeps the types.
LEMMA NextType == TypeOK /\ [BufferNext]_vars => TypeOK'
  <1>1. ASSUME TypeOK, UNCHANGED vars PROVE TypeOK'
    BY <1>1 DEF TypeOK, vars, sessionVars, downloadVars, history, readerVars
  <1>2. QED
    BY <1>1, DownloadType, ReaderType DEF BufferNext

\* The initial state is well typed.
LEMMA InitType == Init => TypeOK
  <1> SUFFICES ASSUME Init PROVE TypeOK
    OBVIOUS
  <1>1. chunks \in Seq(Methods) /\ Len(chunks) <= MaxChunks
    BY EmptyBuffer DEF Init
  <1>2. written \in [Readers -> Seq(Methods)]
    BY EmptyBuffer DEF Init
  <1>3. made \in [Methods -> 0 .. VideoChunks]
    BY HlsBufferAssumption DEF Init
  <1>4. /\ pc \in [Readers -> ReaderStates]
        /\ outcome \in [Readers -> {"none", "complete", "error", "cut", "panic"}]
        /\ producer \in ProducerStates
    BY DEF Init, ReaderStates, ProducerStates
  <1>5. readers \in Int /\ signals \subseteq {"producer", "pump"}
    BY DEF Init
  <1>6. /\ done \in BOOLEAN /\ err \in BOOLEAN /\ token \in BOOLEAN
        /\ listed \in BOOLEAN /\ cancelled \in BOOLEAN
        /\ dropped \in BOOLEAN /\ lateSwitch \in BOOLEAN
        /\ pump \in {"none", "reading", "holding", "ended"}
    BY Zenon DEF Init
  <1>7. QED
    BY <1>1, <1>2, <1>3, <1>4, <1>5, <1>6, Zenon DEF TypeOK

\* Type correctness, and no session holds more than MaxChunks chunks.
THEOREM TypeCorrect == Spec => []TypeOK
  BY InitType, NextType, PTL DEF Spec

-----------------------------------------------------------------------------
(* A reader that is alone is woken.                                        *)

\* The steps of the download never take the token, and whatever they give a
\* waiting reader is followed by a signal.
LEMMA DownloadWakes ==
  ASSUME TypeOK, LoneReaderWoken, Download \/ Expire \/ Cancel
  PROVE  LoneReaderWoken'
  <1> SUFFICES ASSUME NEW r \in Readers,
                      \A q \in Readers \ {r} : pc'[q] \in {"idle", "joining"},
                      pc'[r] \in Waiting, Served(r)'
               PROVE  token' \/ signals' # {}
    BY DEF LoneReaderWoken, Woken
  <1>1. pc' = pc /\ written' = written
    BY DEF Download, Signal, StartFfmpeg, PumpRead, PumpAppend, PumpEnd, EndFfmpeg,
           FfmpegError, FallBack, YtdlpAppend, EndYtdlp, Expire, Cancel, readerVars
  <1>2. Served(r) => token \/ signals # {}
    BY <1>1 DEF LoneReaderWoken, Woken
  <1>3. ASSUME NEW p \in {"producer", "pump"}, Signal(p)
        PROVE  token' \/ signals' # {}
    BY <1>3 DEF Signal
  <1>4. CASE PumpAppend \/ YtdlpAppend \/ EndFfmpeg
    BY <1>4 DEF PumpAppend, YtdlpAppend, EndFfmpeg
  <1>5. CASE EndYtdlp /\ signals' # {}
    BY <1>5
  <1>6. CASE \/ StartFfmpeg \/ PumpRead \/ PumpEnd \/ FfmpegError \/ Cancel
             \/ EndYtdlp /\ UNCHANGED <<done, err, signals>>
    <2>1. UNCHANGED <<chunks, done, err, token, signals>>
      BY <1>6 DEF StartFfmpeg, PumpRead, PumpEnd, FfmpegError, Cancel, EndYtdlp,
                  sessionVars, downloadVars
    <2>2. Served(r)
      BY <1>1, <2>1 DEF Served
    <2>3. QED
      BY <1>2, <2>1, <2>2
  <1>7. CASE FallBack \/ Expire
    <2>1. chunks' = <<>> /\ UNCHANGED <<token, signals>>
      BY <1>7 DEF FallBack, Expire
    <2>2. (done' => done) /\ (err' => err)
      <3>1. CASE FallBack
        BY <3>1, Zenon DEF FallBack
      <3>2. CASE Expire
        BY <3>2 DEF Expire
      <3>3. QED
        BY <1>7, <3>1, <3>2
    <2>3. Len(chunks') = 0
      BY <2>1
    <2>4. done' \/ err'
      BY <1>1, <2>3, HlsBufferAssumption DEF Served, TypeOK
    <2>5. QED
      BY <1>2, <2>1, <2>2, <2>4 DEF Served
  <1>8. QED
    BY <1>3, <1>4, <1>5, <1>6, <1>7 DEF Download, EndYtdlp

\* A reader waits only after a look at a session that had nothing for it, and
\* nobody but the lone reader takes the token.
LEMMA ReaderWakes ==
  ASSUME TypeOK, LoneReaderWoken, NEW q \in Readers,
         Get(q) \/ Disconnect(q) \/ ReaderStep(q)
  PROVE  LoneReaderWoken'
  <1> SUFFICES ASSUME NEW r \in Readers,
                      \A s \in Readers \ {r} : pc'[s] \in {"idle", "joining"},
                      pc'[r] \in Waiting, Served(r)'
               PROVE  token' \/ signals' # {}
    BY DEF LoneReaderWoken, Woken
  <1>1. CASE q = r
    <2>1. Buffer(r) \/ Poll(r)
      BY <1>1 DEF Get, Disconnect, ReaderStep, Join, Unbuffered, TotalChunks, Serve,
           Write, Wake, Timeout, Leave, CancelAbandoned, Free, ReaderGoes, Returns,
           Waiting, TypeOK
    <2>2. ~Served(r)'
      BY <2>1, HlsBufferAssumption
         DEF Buffer, Poll, ReaderGoes, Returns, Waiting, Served, TypeOK, sessionVars
    <2>3. QED
      BY <2>2
  <1>2. CASE q # r
    <2>1. Get(q) \/ pc[q] \notin {"idle", "joining"} \/ Join(q)
      BY DEF Disconnect, ReaderStep, Buffer, Unbuffered, TotalChunks, Serve, Write,
           Poll, Wake, Timeout, Leave, CancelAbandoned, Free, ReaderGoes, Returns
    <2>2. Get(q)
      BY <1>2, <2>1 
         DEF Get, Disconnect, ReaderStep, Join, Buffer, Unbuffered, TotalChunks,
              Serve, Write, Poll, Wake, Timeout, Leave, CancelAbandoned, Free,
              ReaderGoes, Returns, TypeOK
    <2>3. QED
      BY <1>2, <2>2
         DEF LoneReaderWoken, Woken, Served, Get, ReaderGoes, sessionVars, TypeOK,
             downloadVars
  <1>3. QED
    BY <1>1, <1>2

\* A reader that is alone never waits for what is already there.
THEOREM LoneReaderIsWoken == Spec => []LoneReaderWoken
  <1>1. Init => LoneReaderWoken
    BY DEF Init, LoneReaderWoken, Woken, Waiting
  <1>2. TypeOK /\ LoneReaderWoken /\ [BufferNext]_vars => LoneReaderWoken'
    <2>1. ASSUME LoneReaderWoken, UNCHANGED vars PROVE LoneReaderWoken'
      BY <2>1 DEF vars, sessionVars, downloadVars, readerVars, LoneReaderWoken,
                  Woken, Served
    <2>2. QED
      BY <2>1, DownloadWakes, ReaderWakes DEF BufferNext
  <1>3. QED
    BY <1>1, <1>2, TypeCorrect, PTL DEF Spec

-----------------------------------------------------------------------------
(* What a reader writes, while nobody empties the buffer under it.         *)

\* The fallback happens once.
SwitchOnce == lateSwitch => producer \in {"ytdlp", "armed", "expired"}

\* A reader that is about to take a chunk has seen it in the buffer.
InBounds ==
  \A r \in Readers :
     pc[r] = "writing" /\ ~dropped /\ ~lateSwitch => Len(written[r]) < Len(chunks)

PanicInv == SwitchOnce /\ InBounds /\ PanicsOnlyIfEmptied

\* Method m will append nothing more.
Finished(m) ==
  /\ producer \in {"armed", "expired"}
  /\ m = "ffmpeg" => pump = "ended"

\* The buffer is the output of m, unless it has overflowed, and readers have
\* written a prefix of it.
Follows(m) ==
  /\ m = "ffmpeg" => producer # "ytdlp"
  /\ m = "ytdlp" => /\ producer \in {"ytdlp", "armed", "expired"}
                    /\ pump \in {"none", "ended"}
  /\ \A i \in DOMAIN chunks : chunks[i] = m
  /\ Len(chunks) <= made[m]
  /\ ~err => Len(chunks) = made[m]
  /\ done /\ ~err => Finished(m)
  /\ \A r \in Readers :
       /\ Len(written[r]) <= Len(chunks)
       /\ \A i \in DOMAIN written[r] : written[r][i] = m
       /\ outcome[r] = "complete" => Finished(m) /\ Len(written[r]) = made[m]

WholeInv ==
  /\ SwitchOnce
  /\ producer \in {"start", "ffmpeg", "fallback"} => made["ytdlp"] = 0
  /\ ~dropped /\ ~lateSwitch => \E m \in Methods : Follows(m)

\* appendChunk appends one chunk of the method or none.
LEMMA AppendChunkGrows ==
  ASSUME NEW m \in Methods, TypeOK, AppendChunk(m)
  PROVE  /\ Len(chunks) <= Len(chunks')
         /\ \A i \in DOMAIN chunks' :
               chunks'[i] = m \/ (i \in DOMAIN chunks /\ chunks'[i] = chunks[i])
  <1>1. chunks \in Seq(Methods)
    BY DEF TypeOK
  <1>2. CASE chunks' = chunks
    BY <1>1, <1>2
  <1>3. CASE chunks' = Append(chunks, m)
    <2>1. Len(chunks') = Len(chunks) + 1 /\ Len(chunks) \in Nat
      BY <1>1, <1>3
    <2>2. \A i \in 1 .. Len(chunks) : chunks'[i] = chunks[i]
      BY <1>1, <1>3
    <2>3. chunks'[Len(chunks) + 1] = m
      BY <1>1, <1>3
    <2>4. DOMAIN chunks = 1 .. Len(chunks) /\ DOMAIN chunks' = 1 .. Len(chunks')
      BY <1>1, <1>3, AppendChunkType
    <2>5. QED
      BY <2>1, <2>2, <2>3, <2>4
  <1>4. QED
    BY <1>2, <1>3 DEF AppendChunk

\* Every step keeps the bound of a reader's next index.
LEMMA NextPanic == TypeOK /\ PanicInv /\ [BufferNext]_vars => PanicInv'
  <1> SUFFICES ASSUME TypeOK, PanicInv, [BufferNext]_vars PROVE PanicInv'
    OBVIOUS
  <1> USE DEF PanicInv, SwitchOnce, InBounds, PanicsOnlyIfEmptied
  <1>1. CASE \/ StartFfmpeg \/ PumpRead \/ PumpEnd \/ EndFfmpeg \/ FfmpegError
             \/ EndYtdlp \/ Cancel \/ \E p \in {"producer", "pump"} : Signal(p)
    <2>1. UNCHANGED <<chunks, dropped, lateSwitch, pc, written, outcome>>
      BY <1>1 DEF StartFfmpeg, PumpRead, PumpEnd, EndFfmpeg, FfmpegError, EndYtdlp,
                  Cancel, Signal, sessionVars, downloadVars, history, readerVars
    <2>2. producer' = producer \/ ~lateSwitch \/ producer' = "armed"
      BY <1>1 DEF StartFfmpeg, PumpRead, PumpEnd, EndFfmpeg, FfmpegError, EndYtdlp,
                  Cancel, Signal, sessionVars, downloadVars, history, readerVars
    <2>3. QED
      BY <2>1, <2>2
  <1>2. CASE PumpAppend \/ YtdlpAppend
    <2>1. AppendChunk("ffmpeg") \/ AppendChunk("ytdlp")
      BY <1>2 DEF PumpAppend, YtdlpAppend
    <2>2. Len(chunks) <= Len(chunks') /\ Len(chunks) \in Nat /\ Len(chunks') \in Nat
      <3>1. ASSUME NEW m \in Methods, AppendChunk(m)
            PROVE  Len(chunks) <= Len(chunks') /\ chunks' \in Seq(Methods)
        BY <3>1, AppendChunkGrows, AppendChunkType
      <3>2. Len(chunks) <= Len(chunks') /\ chunks' \in Seq(Methods)
        BY <2>1, <3>1 DEF Methods
      <3>3. QED
        BY <3>2 DEF TypeOK
    <2>3. UNCHANGED <<dropped, lateSwitch, pc, written, outcome, producer>>
      BY <1>2 DEF PumpAppend, YtdlpAppend, history, readerVars
    <2>4. \A r \in Readers : Len(written[r]) \in Nat
      BY DEF TypeOK
    <2>5. QED
      BY <2>2, <2>3, <2>4
  <1>3. CASE FallBack
    <2>1. /\ UNCHANGED <<dropped, pc, written, outcome>>
          /\ producer = "fallback" /\ producer' = "ytdlp"
      BY <1>3 DEF FallBack, readerVars
    <2>2. ~lateSwitch
      BY <2>1
    <2>3. \A r \in Readers : pc[r] = "writing" => lateSwitch'
      BY <1>3, Zenon DEF FallBack
    <2>4. QED
      BY <2>1, <2>2, <2>3
  <1>4. CASE Expire
    BY <1>4 DEF Expire, readerVars
  <1>5. ASSUME NEW r \in Readers, Get(r) \/ Disconnect(r) \/ ReaderStep(r)
        PROVE  PanicInv'
    <2>1. CASE Get(r) \/ Join(r) \/ Buffer(r) \/ Wake(r) \/ CancelAbandoned(r)
      BY <2>1 DEF Get, Join, Buffer, Wake, CancelAbandoned, ReaderGoes, TypeOK,
           sessionVars, downloadVars, history
    <2>2. CASE Unbuffered(r) \/ TotalChunks(r) \/ Poll(r) \/ Timeout(r) \/ Disconnect(r)
      BY <2>2 DEF Unbuffered, TotalChunks, Poll, Timeout, Disconnect, ReaderGoes,
           Returns, TypeOK, sessionVars, downloadVars, history
    <2>3. CASE Serve(r)
      BY <2>3 DEF Serve, ReaderGoes, Returns, TypeOK, sessionVars, downloadVars, history
    <2>4. CASE Write(r)
      <3>1. UNCHANGED <<chunks, dropped, lateSwitch, producer>>
        BY <2>4 DEF Write, sessionVars, downloadVars, history
      <3>2. pc[r] = "writing" /\ pc' = [pc EXCEPT ![r] = pc'[r]] /\ pc'[r] # "writing"
        BY <2>4 DEF Write, ReaderGoes, Returns, TypeOK
      <3>3. \A q \in Readers \ {r} : pc'[q] = pc[q] /\ written'[q] = written[q]
        BY <2>4 DEF Write, ReaderGoes, Returns, TypeOK
      <3>4. InBounds'
        BY <3>1, <3>2, <3>3
      <3>5. \/ outcome' = outcome
            \/ /\ ~(Len(written[r]) < Len(chunks))
               /\ outcome' = [outcome EXCEPT ![r] = "panic"]
        BY <2>4 DEF Write, Returns, TypeOK
      <3>6. PanicsOnlyIfEmptied'
        BY <3>1, <3>2, <3>5 DEF TypeOK
      <3>7. QED
        BY <3>1, <3>4, <3>6
    <2>5. CASE Leave(r)
      BY <2>5 DEF Leave, ReaderGoes, TypeOK, sessionVars, downloadVars, history
    <2>6. CASE Free(r)
      BY <2>6 DEF Free, ReaderGoes, TypeOK, downloadVars
    <2>7. QED
      BY <1>5, <2>1, <2>2, <2>3, <2>4, <2>5, <2>6 DEF ReaderStep
  <1>6. CASE UNCHANGED vars
    BY <1>6 DEF vars, sessionVars, downloadVars, history, readerVars
  <1>7. QED
    BY <1>1, <1>2, <1>3, <1>4, <1>5, <1>6 DEF BufferNext, Download

\* The chunk a reader takes without the lock exists, unless the chunks were
\* freed or the fallback emptied a buffer in use.
THEOREM NoOtherPanic == Spec => []PanicsOnlyIfEmptied
  <1>1. Init => PanicInv
    BY DEF Init, PanicInv, SwitchOnce, InBounds, PanicsOnlyIfEmptied
  <1>2. PanicInv => PanicsOnlyIfEmptied
    BY DEF PanicInv
  <1>3. QED
    BY <1>1, <1>2, NextPanic, TypeCorrect, PTL DEF Spec

-----------------------------------------------------------------------------
(* A stream that ends as complete is the whole output of one method.       *)

\* Steps of the download other than the fallback keep the buffer the output of
\* the method it follows: what could append behind a complete stream has ended.
LEMMA DownloadFollows ==
  ASSUME NEW m \in Methods, TypeOK, Follows(m), Download \/ Cancel, ~FallBack
  PROVE  Follows(m)'
  <1>1. UNCHANGED readerVars
    BY DEF Download, Signal, StartFfmpeg, PumpRead, PumpAppend, PumpEnd, EndFfmpeg,
           FfmpegError, YtdlpAppend, EndYtdlp, Cancel
  <1>2. CASE \/ StartFfmpeg \/ PumpRead \/ PumpEnd \/ EndFfmpeg \/ FfmpegError
             \/ EndYtdlp \/ Cancel \/ \E p \in {"producer", "pump"} : Signal(p)
    <2>1. UNCHANGED <<chunks, made>> /\ (err => err')
      BY <1>2 DEF StartFfmpeg, PumpRead, PumpEnd, EndFfmpeg, FfmpegError, EndYtdlp,
                  Cancel, Signal, sessionVars, downloadVars
    <2>2. /\ m = "ffmpeg" => producer' # "ytdlp"
          /\ m = "ytdlp" => /\ producer' \in {"ytdlp", "armed", "expired"}
                            /\ pump' \in {"none", "ended"}
      BY <1>2 DEF Follows, StartFfmpeg, PumpRead, PumpEnd, EndFfmpeg, FfmpegError,
                  EndYtdlp, Cancel, Signal, downloadVars
    <2>3. Finished(m) => Finished(m)'
      BY <1>2 DEF Finished, StartFfmpeg, PumpRead, PumpEnd, EndFfmpeg, FfmpegError,
                  EndYtdlp, Cancel, Signal, downloadVars
    <2>4. done' /\ ~err' => Finished(m)'
      <3>1. CASE EndFfmpeg
        BY <3>1 DEF EndFfmpeg, Finished
      <3>2. CASE EndYtdlp
        BY <3>2 DEF EndYtdlp, Finished, Follows
      <3>3. CASE UNCHANGED <<done, err>>
        BY <2>3, <3>3 DEF Follows
      <3>4. QED
        BY <1>2, <3>1, <3>2, <3>3
           DEF StartFfmpeg, PumpRead, PumpEnd, FfmpegError, Cancel, Signal, sessionVars
    <2>5. QED
      BY <1>1, <2>1, <2>2, <2>3, <2>4 DEF Follows, readerVars
  <1>3. CASE PumpAppend \/ YtdlpAppend
    <2>1. AppendChunk(m) /\ ~Finished(m)
      BY <1>3 DEF PumpAppend, YtdlpAppend, Follows, Finished, Methods
    <2>2. /\ m = "ffmpeg" => producer' # "ytdlp"
          /\ m = "ytdlp" => /\ producer' \in {"ytdlp", "armed", "expired"}
                            /\ pump' \in {"none", "ended"}
      BY <1>3 DEF PumpAppend, YtdlpAppend, Follows
    <2>3. \A r \in Readers : outcome[r] # "complete"
      BY <2>1 DEF Follows
    <2>4. ~done \/ err
      BY <2>1 DEF Follows
    <2>5. \A i \in DOMAIN chunks' : chunks'[i] = m
      BY <2>1, AppendChunkGrows DEF Follows
    <2>6. made[m] \in Nat /\ made'[m] = made[m] + 1
      BY <2>1, HlsBufferAssumption DEF AppendChunk, TypeOK
    <2>7. /\ Len(chunks) \in Nat /\ Len(chunks') \in Nat
          /\ Len(chunks) <= Len(chunks')
          /\ Len(chunks') <= made'[m]
          /\ ~err' => Len(chunks') = made'[m]
      <3>1. CASE chunks' = chunks /\ err'
        BY <2>6, <3>1 DEF Follows, TypeOK
      <3>2. CASE chunks' = Append(chunks, m) /\ err' = err
        <4>1. chunks \in Seq(Methods)
          BY DEF TypeOK
        <4>2. Len(chunks') = Len(chunks) + 1 /\ Len(chunks) \in Nat
          BY <3>2, <4>1
        <4>3. QED
          BY <2>6, <3>2, <4>2 DEF Follows
      <3>3. (chunks' = chunks /\ err') \/ (chunks' = Append(chunks, m) /\ err' = err)
        BY <2>1, <2>4, Zenon DEF AppendChunk
      <3>4. QED
        BY <3>1, <3>2, <3>3
    <2>8. ~(done' /\ ~err')
      <3>1. err' \/ UNCHANGED <<done, err>>
        BY <2>1, <2>4, Zenon DEF AppendChunk
      <3>2. QED
        BY <2>4, <3>1
    <2>9. \A r \in Readers : Len(written[r]) \in Nat
      BY DEF TypeOK
    <2>10. QED
      BY <1>1, <2>2, <2>3, <2>5, <2>7, <2>8, <2>9 DEF Follows, readerVars
  <1>4. QED
    BY <1>2, <1>3 DEF Download

\* A reader writes only what is in the buffer and ends as complete only when it
\* has written all of it and nothing more will come.
LEMMA ReaderFollows ==
  ASSUME NEW m \in Methods, TypeOK, Follows(m), NEW r \in Readers,
         Get(r) \/ Disconnect(r) \/ ReaderStep(r), ~Free(r)
  PROVE  Follows(m)'
  <1>1. UNCHANGED <<chunks, done, err, made, producer, pump>>
    BY DEF Get, Disconnect, ReaderStep, Join, Buffer, Unbuffered, TotalChunks, Serve,
         Write, Poll, Wake, Timeout, Leave, CancelAbandoned, sessionVars, downloadVars
  <1>2. \A q \in Readers \ {r} : written'[q] = written[q] /\ outcome'[q] = outcome[q]
    BY DEF Get, Disconnect, ReaderStep, Join, Buffer, Unbuffered, TotalChunks, Serve,
         Write, Poll, Wake, Timeout, Leave, CancelAbandoned, Returns, TypeOK
  <1>3. /\ Len(written'[r]) <= Len(chunks)
        /\ \A i \in DOMAIN written'[r] : written'[r][i] = m
        /\ outcome'[r] = "complete" => Finished(m) /\ Len(written'[r]) = made[m]
    <2>1. /\ written[r] \in Seq(Methods) /\ Len(written[r]) \in Nat
          /\ chunks \in Seq(Methods) /\ Len(chunks) \in Nat
          /\ made[m] \in Nat
      BY HlsBufferAssumption DEF TypeOK
    <2>2. CASE \/ Get(r) \/ Disconnect(r) \/ Join(r) \/ Buffer(r) \/ Unbuffered(r)
               \/ TotalChunks(r) \/ Wake(r) \/ Timeout(r) \/ CancelAbandoned(r)
      <3>1. written' = written
        BY <2>2 DEF Get, Disconnect, Join, Buffer, Unbuffered, TotalChunks, Wake,
             Timeout, CancelAbandoned
      <3>2. outcome'[r] = outcome[r] \/ outcome'[r] # "complete"
        BY <2>2 DEF Get, Disconnect, Join, Buffer, Unbuffered, TotalChunks, Wake,
             Timeout, CancelAbandoned, Returns, TypeOK
      <3>3. QED
        BY <3>1, <3>2 DEF Follows
    <2>3. CASE Serve(r) \/ Poll(r)
      <3>1. written' = written
        BY <2>3 DEF Serve, Poll
      <3>2. CASE outcome' = outcome
        BY <3>1, <3>2 DEF Follows
      <3>3. CASE outcome'[r] # "complete"
        BY <3>1, <3>3 DEF Follows
      <3>4. CASE Len(written[r]) >= Len(chunks) /\ done /\ ~err
        BY <2>1, <3>1, <3>4 DEF Follows
      <3>5. QED
        BY <2>3, <3>2, <3>3, <3>4 DEF Serve, Poll, Returns, TypeOK
    <2>4. CASE Write(r)
      <3>1. CASE /\ Len(written[r]) < Len(chunks)
                 /\ outcome' = outcome
                 /\ written' = [written EXCEPT ![r] = Append(@, chunks[Len(@) + 1])]
        <4>1. chunks[Len(written[r]) + 1] = m
          BY <2>1, <3>1 DEF Follows
        <4>2. written'[r] = Append(written[r], m)
          BY <3>1, <4>1 DEF TypeOK
        <4>3. Len(written'[r]) = Len(written[r]) + 1
          BY <2>1, <4>2
        <4>4. \A i \in 1 .. Len(written[r]) : written'[r][i] = written[r][i]
          BY <2>1, <4>2
        <4>5. written'[r][Len(written[r]) + 1] = m
          BY <2>1, <4>2
        <4>6. DOMAIN written[r] = 1 .. Len(written[r])
          BY <2>1
        <4>7. DOMAIN written'[r] = 1 .. Len(written'[r])
          BY <2>1, <4>2
        <4>8. \A i \in DOMAIN written'[r] : written'[r][i] = m
          BY <2>1, <4>3, <4>4, <4>5, <4>6, <4>7 DEF Follows
        <4>9. outcome[r] # "complete"
          BY <2>1, <3>1 DEF Follows
        <4>10. QED
          BY <2>1, <3>1, <4>3, <4>8, <4>9
      <3>2. CASE written' = written /\ outcome'[r] # "complete"
        BY <3>2 DEF Follows
      <3>3. QED
        BY <2>4, <3>1, <3>2 DEF Write, Returns, TypeOK
    <2>5. CASE Leave(r)
      <3>1. written'[r] = <<>> /\ outcome'[r] = "none"
        BY <2>5 DEF Leave, TypeOK
      <3>2. QED
        BY <2>1, <3>1
    <2>6. QED
      BY <2>2, <2>3, <2>4, <2>5 DEF ReaderStep
  <1>4. QED
    BY <1>1, <1>2, <1>3 DEF Follows, Finished

\* A fallback that finds the buffer unused starts the output of yt-dlp.
LEMMA FallBackFollows ==
  ASSUME TypeOK, WholeInv, FallBack, ~dropped', ~lateSwitch'
  PROVE  Follows("ytdlp")'
  <1>1. /\ producer = "fallback" /\ producer' = "ytdlp" /\ chunks' = <<>>
        /\ UNCHANGED <<made, pump, dropped, readerVars>>
    BY DEF FallBack
  <1>2. done' = FALSE /\ err' = FALSE
    BY Zenon DEF FallBack
  <1>3. /\ pump \notin {"reading", "holding"}
        /\ \A r \in Readers : written[r] = <<>>
    BY Zenon DEF FallBack
  <1>4. PICK m \in Methods : Follows(m)
    BY <1>1 DEF WholeInv, SwitchOnce
  <1>5. \A r \in Readers : outcome[r] # "complete"
    BY <1>1, <1>4 DEF Follows, Finished
  <1>6. made["ytdlp"] = 0
    BY <1>1 DEF WholeInv
  <1>7. pump' \in {"none", "ended"}
    BY <1>1, <1>3 DEF TypeOK
  <1>8. Len(chunks') = 0 /\ DOMAIN chunks' = {}
    BY <1>1
  <1>9. \A r \in Readers : Len(written'[r]) = 0 /\ DOMAIN written'[r] = {}
    BY <1>1, <1>3 DEF readerVars
  <1>10. made' = made /\ outcome' = outcome
    BY <1>1 DEF readerVars
  <1>11. QED
    BY <1>1, <1>2, <1>5, <1>6, <1>7, <1>8, <1>9, <1>10 DEF Follows

\* The step of WholeVideoSeen.
LEMMA NextWhole == TypeOK /\ WholeInv /\ [BufferNext]_vars => WholeInv'
  <1> SUFFICES ASSUME TypeOK, WholeInv, [BufferNext]_vars PROVE WholeInv'
    OBVIOUS
  <1> USE DEF Download, ReaderStep
  <1>1. SwitchOnce'
    <2>1. CASE FallBack
      BY <2>1 DEF FallBack, SwitchOnce
    <2>2. CASE ~FallBack
      <3>1. lateSwitch' = lateSwitch
        BY <2>2 DEF BufferNext, Signal, StartFfmpeg, PumpRead, PumpAppend, PumpEnd,
             EndFfmpeg, FfmpegError, YtdlpAppend, EndYtdlp, Expire, Cancel, Get,
             Disconnect, Join, Buffer, Unbuffered, TotalChunks, Serve, Write, Poll,
             Wake, Timeout, Leave, CancelAbandoned, Free, history, vars
      <3>2. producer' = producer \/ producer' \in {"armed", "expired"}
            \/ producer \in {"start", "ffmpeg"}
        BY <2>2 DEF BufferNext, Signal, StartFfmpeg, PumpRead, PumpAppend, PumpEnd,
             EndFfmpeg, FfmpegError, YtdlpAppend, EndYtdlp, Expire, Cancel, Get,
             Disconnect, Join, Buffer, Unbuffered, TotalChunks, Serve, Write, Poll,
             Wake, Timeout, Leave, CancelAbandoned, Free, downloadVars, vars
      <3>3. QED
        BY <3>1, <3>2 DEF WholeInv, SwitchOnce
    <2>3. QED
      BY <2>1, <2>2
  <1>2. producer' \in {"start", "ffmpeg", "fallback"} => made'["ytdlp"] = 0
    <2>1. CASE PumpAppend
      <3>1. made' = [made EXCEPT !["ffmpeg"] = @ + 1] /\ producer' = producer
        BY <2>1 DEF PumpAppend, AppendChunk
      <3>2. made'["ytdlp"] = made["ytdlp"]
        BY <3>1 DEF TypeOK, Methods
      <3>3. QED
        BY <3>1, <3>2 DEF WholeInv
    <2>2. CASE YtdlpAppend
      BY <2>2 DEF YtdlpAppend
    <2>3. CASE ~PumpAppend /\ ~YtdlpAppend
      <3>1. made' = made
        BY <2>3 DEF BufferNext, Signal, StartFfmpeg, PumpRead, PumpEnd, EndFfmpeg,
             FfmpegError, FallBack, EndYtdlp, Expire, Cancel, Get, Disconnect, Join,
             Buffer, Unbuffered, TotalChunks, Serve, Write, Poll, Wake, Timeout,
             Leave, CancelAbandoned, Free, downloadVars, vars
      <3>2. producer' \in {"start", "ffmpeg", "fallback"}
            => producer \in {"start", "ffmpeg", "fallback"}
        BY <2>3 DEF BufferNext, Signal, StartFfmpeg, PumpRead, PumpEnd, EndFfmpeg,
             FfmpegError, FallBack, EndYtdlp, Expire, Cancel, Get, Disconnect, Join,
             Buffer, Unbuffered, TotalChunks, Serve, Write, Poll, Wake, Timeout,
             Leave, CancelAbandoned, Free, downloadVars, vars
      <3>3. QED
        BY <3>1, <3>2 DEF WholeInv
    <2>4. QED
      BY <2>1, <2>2, <2>3
  <1>3. ASSUME ~dropped', ~lateSwitch' PROVE (\E m \in Methods : Follows(m))'
    <2>1. CASE FallBack
      BY <1>3, <2>1, FallBackFollows DEF Methods
    <2>2. CASE ~FallBack
      <3>1. ~dropped /\ ~lateSwitch
        BY <1>3, <2>2 DEF BufferNext, Signal, StartFfmpeg, PumpRead, PumpAppend, PumpEnd,
             EndFfmpeg, FfmpegError, YtdlpAppend, EndYtdlp, Expire, Cancel, Get,
             Disconnect, Join, Buffer, Unbuffered, TotalChunks, Serve, Write, Poll,
             Wake, Timeout, Leave, CancelAbandoned, Free, history, vars
      <3>2. PICK m \in Methods : Follows(m)
        BY <3>1 DEF WholeInv
      <3>3. CASE Download \/ Cancel
        BY <2>2, <3>2, <3>3, DownloadFollows
      <3>4. CASE Expire
        BY <1>3, <3>4 DEF Expire
      <3>5. ASSUME NEW r \in Readers, Get(r) \/ Disconnect(r) \/ ReaderStep(r)
            PROVE  Follows(m)'
        <4>1. ~Free(r)
          BY <1>3 DEF Free
        <4>2. QED
          BY <3>2, <3>5, <4>1, ReaderFollows
      <3>6. CASE UNCHANGED vars
        BY <3>2, <3>6 DEF vars, sessionVars, downloadVars, history, readerVars, Follows,
                          Finished
      <3>7. QED
        BY <3>2, <3>3, <3>4, <3>5, <3>6 DEF BufferNext
    <2>3. QED
      BY <2>1, <2>2
  <1>4. QED
    BY <1>1, <1>2, <1>3 DEF WholeInv

\* A reader whose stream ends as complete has sent its client every chunk that
\* one method made: done is not seen before the pump's last chunk.
THEOREM WholeVideoSeen == Spec => []WholeVideo
  <1>1. Init => WholeInv
    <2> SUFFICES ASSUME Init PROVE WholeInv
      OBVIOUS
    <2>1. Follows("ffmpeg")
      BY DEF Init, Follows, Finished, Methods
    <2>2. QED
      BY <2>1 DEF Init, WholeInv, SwitchOnce, Methods
  <1>2. TypeOK /\ WholeInv => WholeVideo
    <2> SUFFICES ASSUME TypeOK, WholeInv, NEW r \in Readers, outcome[r] = "complete",
                        ~dropped, ~lateSwitch
                 PROVE  \E m \in Methods : written[r] = [i \in 1 .. made[m] |-> m]
      BY DEF WholeVideo
    <2>1. PICK m \in Methods : Follows(m)
      BY DEF WholeInv
    <2>2. written[r] \in Seq(Methods) /\ Len(written[r]) = made[m]
      BY <2>1 DEF Follows, TypeOK
    <2>3. \A i \in DOMAIN written[r] : written[r][i] = m
      BY <2>1 DEF Follows
    <2>4. DOMAIN written[r] = 1 .. made[m]
      BY <2>2
    <2>5. written[r] = [i \in DOMAIN written[r] |-> written[r][i]]
      BY <2>2
    <2>6. QED
      BY <2>3, <2>4, <2>5
  <1>3. QED
    BY <1>1, <1>2, NextWhole, TypeCorrect, PTL DEF Spec
=============================================================================
