---------------------------- MODULE MCRequests ----------------------------
(***************************************************************************)
(* What a request to a service meets, for TLC: its key, the order of the   *)
(* providers, the extraction, the conversion or the session of a stream,   *)
(* whose download falls back or is stopped.  No step of one of these       *)
(* changes another's state, so each is checked with the others at rest:    *)
(* part is the one that moves.  What they take from each other is checked  *)
(* by EveryRequestEnds.                                                    *)
(***************************************************************************)
EXTENDS ApiKeys, ProviderOrder, ContentExtract, ConvertJob

VARIABLES
  part,
  chunks, done, err, readers, token, listed, cancelled, producer, pump,
  signals, made, dropped, lateSwitch, place, written, outcome

streamVars ==
  <<chunks, done, err, readers, token, listed, cancelled, producer, pump,
    signals, made, dropped, lateSwitch, place, written, outcome>>

\* One session with a buffer of one chunk, whose download falls back under one
\* reader, or is stopped under two: the wait for the first chunks, a full
\* buffer and a lost token all happen.
Fallback == INSTANCE HlsBuffer WITH
  Readers <- Clients, MaxChunks <- 1, Ahead <- 1, VideoChunks <- 1,
  FfmpegFails <- TRUE, MayStop <- FALSE, pc <- place

Stopped == INSTANCE HlsBuffer WITH
  Readers <- Clients, MaxChunks <- 1, Ahead <- 1, VideoChunks <- 1,
  FfmpegFails <- FALSE, MayStop <- TRUE, pc <- place

requestVars == <<vars, orderVars, extractVars, convertVars, streamVars, part>>

RequestsInit ==
  /\ part \in {"key", "order", "content", "convert", "fallback", "stopped"}
  /\ Init /\ OrderInit /\ ExtractInit /\ ConvertInit /\ Fallback!Init

KeyMoves ==
  part = "key" /\ Next /\ UNCHANGED <<part, orderVars, extractVars, convertVars, streamVars>>

OrderMoves ==
  part = "order" /\ OrderNext /\ UNCHANGED <<part, vars, extractVars, convertVars, streamVars>>

ContentMoves ==
  part = "content" /\ ExtractNext /\ UNCHANGED <<part, vars, orderVars, convertVars, streamVars>>

ConvertMoves ==
  part = "convert" /\ ConvertNext /\ UNCHANGED <<part, vars, orderVars, extractVars, streamVars>>

StreamMoves ==
  /\ \/ /\ part = "fallback" /\ Fallback!BufferNext
        /\ \E c \in Clients : \A d \in Clients \ {c} : place'[d] = "idle"
     \/ part = "stopped" /\ Stopped!BufferNext
  /\ UNCHANGED <<part, vars, orderVars, extractVars, convertVars>>

RequestsNext == KeyMoves \/ OrderMoves \/ ContentMoves \/ ConvertMoves \/ StreamMoves

\* The fairness of each module, for the part that moves.
RequestsFair ==
  /\ \A r \in Clients : WF_vars(part = "key" /\ ClientStep(r))
  /\ \A a \in Admins : WF_vars(part = "key" /\ AdminStep(a))
  /\ WF_vars(part = "key" /\ Expire)
  /\ WF_orderVars(part = "order" /\ OrderRefresh)
  /\ \A a \in OrderAdmins : WF_orderVars(part = "order" /\ OrderRequest(a))
  /\ ExtractFair /\ ConvertFair
  /\ WF_streamVars(part = "fallback" /\ Fallback!Download)
  /\ WF_streamVars(part = "stopped" /\ Stopped!Download)
  /\ \A r \in Clients : WF_streamVars(part \in {"fallback", "stopped"} /\ Stopped!ReaderStep(r))

RequestsSpec == RequestsInit /\ [][RequestsNext]_requestVars /\ RequestsFair

----------------------------------------------------------------------------
\* The orders that admins bring about, by whatever overlaps and failures, are
\* those extraction and conversion are checked with.
OrdersAreServed ==
  \A c \in Categories :
     ResolveProviderForCategory(c) \in IF c[1] = "content" THEN ServedOrders ELSE ConvertOrders

\* For every order the admins' writes can leave, every request ends: extractions
\* and conversions.  Of the calls an extraction started all end if the order has
\* two names or one, and all but n - 2 if overlapping updates have left n
\* (ResolveProviderForCategory, Extract, WaitForJob).
EveryRequestEnds == []OrdersAreServed /\ ExtractReturns /\ CallsEnd /\ ConvertReturns

\* Every request that has joined a session returns, though a token may be
\* lost to it: ReadersReturn of HlsBuffer (handler.go:891 to 947).
StreamsReturn == Stopped!ReadersReturn

----------------------------------------------------------------------------
(* The instance. *)

TwoCategories == {<<"content", "tiktok">>, <<"convert", "audio">>}
TwoOrders == {<<"vidown", "downr">>, <<"convertio", "cloudconvert">>}

\* With the doubled orders of two updates that overlap.
MCServed ==
  {<<"downr">>, <<"downr", "vidown">>, <<"vidown", "downr">>, <<"vidown", "downr", "vidown", "downr">>}
MCConvertOrders ==
  {<<"cloudconvert", "convertio">>, <<"convertio">>, <<"convertio", "cloudconvert">>,
   <<"convertio", "cloudconvert", "convertio", "cloudconvert">>}

\* Three items each, in orders and of kinds that differ.
MCMedia ==
  [downr |-> <<"video", "image", "video">>, vidown |-> <<"image", "video", "video">>]

\* A few rows of the tables of formats; jpg of a document is one that is
\* compatible and not allowed.
MCAllowed ==
  [document |-> {"pdf", "txt"}, audio |-> {"mp3", "wav"}, image |-> {"jpg", "jpeg", "png"},
   fonts |-> {"ttf"}]
MCCompatible ==
  [document |-> [pdf |-> {"txt", "jpg"}, txt |-> {"pdf"}],
   audio |-> [mp3 |-> {"wav"}, wav |-> {"mp3"}],
   image |-> [png |-> {"jpg"}, jpg |-> {"png"}, jpeg |-> {"png"}],
   fonts |-> [ttf |-> {"otf"}, otf |-> {"ttf"}]]
MCSupported ==
  [p \in {"cloudconvert", "convertio"} |->
     {"pdf", "txt", "jpg", "jpeg", "png", "mp3", "wav", "ttf"}]

File(t, mb) == [type |-> t, megabytes |-> mb, reachable |-> TRUE]
Want(category, from, to, upload, file) ==
  [category |-> category, from |-> from, to |-> to, upload |-> upload, file |-> file]

\* Each category by address and by upload, at the limits of type and size.
MCWanted == {
  Want("document", "pdf", "jpg", FALSE, File("document", 1)),
  Want("document", "", "pdf", TRUE, File("octet-stream", 100)),
  Want("audio", "mp3", "wav", FALSE, File("document", 1)),
  Want("audio", "", "wav", TRUE, File("audio", 1)),
  Want("image", "png", "jpeg", FALSE, File("unnamed", 50)),
  Want("image", "png", "jpeg", TRUE, File("image", 51)),
  Want("fonts", "otf", "ttf", FALSE, [File("fonts", 1) EXCEPT !.reachable = FALSE]),
  Want("fonts", "otf", "ttf", TRUE, File("fonts", 50))}
=============================================================================
