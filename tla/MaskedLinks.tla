---------------------------- MODULE MaskedLinks ----------------------------
(***************************************************************************)
(* pkg/appstore/shortlink.go and, the same code under other Redis keys,    *)
(* pkg/downloaderstore/shortlink.go: the addresses of an answer are masked *)
(* in one batch, from memory, from the index in Redis, and the rest one    *)
(* by one with new keys.  Each Redis command is a step and may be refused. *)
(* A tick stands for ten hours or so: memory holds a key for a shorter     *)
(* time than Redis.  A batch is under way for one tick at most, each of    *)
(* its Redis commands having a deadline of three seconds.                  *)
(***************************************************************************)
EXTENDS Integers, Sequences, SequencesExt, FiniteSets, Filters, Lifetimes

CONSTANTS Addresses,
          Batches,           \* the sequences of addresses that are asked for
          Maskers,           \* requests
          MemLife,           \* ticks of a key in memory (20 h)
          MaskLife,          \* ticks of a key in Redis (24 h)
          MaxBatches, MaxMaskTicks, MaxMaskRefusals   \* bounds

ASSUME MaskAssumption ==
  /\ Batches \subseteq Seq(Addresses)
  /\ MemLife \in Nat \ {0} /\ MaskLife \in Nat /\ MemLife < MaskLife
  /\ MaskLife > 2   \* a request and the one before it are over long before a key expires
  /\ {MaxBatches, MaxMaskTicks, MaxMaskRefusals} \subseteq Nat

VARIABLES
  memory,      \* memCache: address -> key
  maskIndex,   \* app:sl:idx:<hash> -> key
  masked,      \* app:sl:<key> -> address
  masker,      \* masker[c]: where request c is
  maskMinted,  \* keys made so far
  gone,        \* history: gone[k]: the tick at which key k expired
  maskTicks,
  maskRefusals, batches   \* counters for the bounds

maskVars == <<memory, maskIndex, masked, masker, maskMinted, gone, maskTicks,
              maskRefusals, batches>>

NoBatch == [at |-> "none"]

MaskInit ==
  /\ memory = Empty /\ maskIndex = Empty /\ masked = Empty
  /\ masker = [c \in Maskers |-> NoBatch]
  /\ gone = Empty
  /\ maskMinted = 0 /\ maskTicks = 0 /\ maskRefusals = 0 /\ batches = 0

Step(c, to) == masker' = [masker EXCEPT ![c] = to]

RedisRefuses == maskRefusals < MaxMaskRefusals /\ maskRefusals' = maskRefusals + 1
RedisObeys == UNCHANGED maskRefusals

\* What f says, and of the rest what g says.
Over(f, g) == [x \in DOMAIN f \cup DOMAIN g |-> IF x \in DOMAIN f THEN f[x] ELSE g[x]]

Waits(c) == masker[c].at \in {"none", "answered"}

----------------------------------------------------------------------------
(* MaskURLBatch *)

\* A slip: the place among the misses is used as a place in the batch.
MissOfBatch(batch, misses, i) == batch[i]

\* The i-th of the addresses that memory did not have.
Miss(batch, misses, i) == misses[i]

Remember(u, key) == Put(memory, u, key, MemLife)

\* What memory has is answered from it.
AskMemory(c, b) ==
  LET misses == Kept(b, Addresses \ DOMAIN memory) IN
  /\ Waits(c) /\ batches < MaxBatches /\ batches' = batches + 1
  /\ Step(c, [at |-> IF misses = <<>> THEN "answered" ELSE "index", slow |-> FALSE,
              batch |-> b, misses |-> misses, todo |-> <<>>, key |-> 0,
              out |-> [u \in ToSet(b) \cap DOMAIN memory |-> memory[u].val]])
  /\ UNCHANGED <<memory, maskIndex, masked, maskMinted, gone, maskTicks, maskRefusals>>

\* One MGET for the others.  What it finds goes into memory with a life of
\* its own; the keys in Redis are not renewed.
AskIndex(c) ==
  LET v == masker[c]
      places == DOMAIN v.misses
      hits == {i \in places : v.misses[i] \in DOMAIN maskIndex}
      KeyAt(i) == maskIndex[v.misses[i]].val
      AnswerFor(S) == [u \in {Miss(v.batch, v.misses, i) : i \in S} |->
                        KeyAt(CHOOSE i \in S : Miss(v.batch, v.misses, i) = u)]
      Left(S) == [v EXCEPT !.todo = Kept([i \in places |-> i], places \ S),
                           !.at = IF S = places THEN "answered" ELSE "mask",
                           !.out = Over(AnswerFor(S), @)] IN
  /\ v.at = "index"
  /\ \/ /\ Step(c, Left(hits)) /\ RedisObeys
        /\ memory' = Over([u \in DOMAIN AnswerFor(hits) |->
                             Remember(u, AnswerFor(hits)[u])[u]], memory)
     \/ Step(c, Left({})) /\ RedisRefuses /\ UNCHANGED memory
  /\ UNCHANGED <<maskIndex, masked, maskMinted, gone, maskTicks, batches>>

----------------------------------------------------------------------------
(* MaskURL, for the first of the addresses that are left. *)

Current(v) == Miss(v.batch, v.misses, Head(v.todo))

\* The address has its key, or with key 0 is left out of the answer.
Done(v, key) ==
  [v EXCEPT !.todo = Tail(@), !.key = 0,
            !.out = IF key = 0 THEN @ ELSE Over([u \in {Current(v)} |-> key], @),
            !.at = IF Len(v.todo) > 1 THEN "mask" ELSE "answered"]

\* Memory has a key by now, or the index is asked.
MaskFromMemory(c) ==
  LET v == masker[c] IN
  /\ v.at = "mask"
  /\ Step(c, IF Current(v) \in DOMAIN memory THEN Done(v, memory[Current(v)].val)
             ELSE [v EXCEPT !.at = "lookup"])
  /\ UNCHANGED <<memory, maskIndex, masked, maskMinted, gone, maskTicks, maskRefusals, batches>>

MaskLookUp(c) ==
  LET v == masker[c]
      named == {maskIndex[u].val : u \in {Current(v)} \cap DOMAIN maskIndex} IN
  /\ v.at = "lookup"
  /\ \/ \E key \in named : Step(c, [v EXCEPT !.at = "renewMask", !.key = key]) /\ RedisObeys
     \/ named = {} /\ Step(c, [v EXCEPT !.at = "saveMask"]) /\ RedisObeys
     \/ Step(c, [v EXCEPT !.at = "saveMask"]) /\ RedisRefuses
  /\ UNCHANGED <<memory, maskIndex, masked, maskMinted, gone, maskTicks, batches>>

\* EXPIRE for the address, then for the index; errors are ignored.
RenewMask(c) ==
  LET v == masker[c] IN
  /\ v.at = "renewMask"
  /\ \/ masked' = Extend(masked, v.key, MaskLife) /\ RedisObeys
     \/ UNCHANGED masked /\ RedisRefuses
  /\ Step(c, [v EXCEPT !.at = "renewMaskIndex"])
  /\ UNCHANGED <<memory, maskIndex, maskMinted, gone, maskTicks, batches>>

RenewMaskIndex(c) ==
  LET v == masker[c] IN
  /\ v.at = "renewMaskIndex"
  /\ \/ maskIndex' = Extend(maskIndex, Current(v), MaskLife) /\ RedisObeys
     \/ UNCHANGED maskIndex /\ RedisRefuses
  /\ memory' = Remember(Current(v), v.key)
  /\ Step(c, Done(v, v.key))
  /\ UNCHANGED <<masked, maskMinted, gone, maskTicks, batches>>

\* SET for the address under a new key; refused, the address is left out.
SaveMask(c) ==
  LET v == masker[c] IN
  /\ v.at = "saveMask"
  /\ \/ /\ maskMinted' = maskMinted + 1
        /\ masked' = Put(masked, maskMinted', Current(v), MaskLife)
        /\ Step(c, [v EXCEPT !.at = "saveMaskIndex", !.key = maskMinted']) /\ RedisObeys
     \/ UNCHANGED <<masked, maskMinted>> /\ Step(c, Done(v, 0)) /\ RedisRefuses
  /\ UNCHANGED <<memory, maskIndex, gone, maskTicks, batches>>

\* SET for the index, whose error is ignored.
SaveMaskIndex(c) ==
  LET v == masker[c] IN
  /\ v.at = "saveMaskIndex"
  /\ \/ maskIndex' = Put(maskIndex, Current(v), v.key, MaskLife) /\ RedisObeys
     \/ UNCHANGED maskIndex /\ RedisRefuses
  /\ memory' = Remember(Current(v), v.key)
  /\ Step(c, Done(v, v.key))
  /\ UNCHANGED <<masked, maskMinted, gone, maskTicks, batches>>

\* ResolveURL: the addresses a key leads to, at most one.
ResolveURL(key) == {masked[k].val : k \in {key} \cap DOMAIN masked}

----------------------------------------------------------------------------
\* A slip: what memory holds never expires.
KeptForEver == memory

\* Memory answers only what has not expired, and drops the rest.
evictExpired == Aged(memory)

\* Time.  Answers have reached their clients.
MaskTick ==
  /\ maskTicks < MaxMaskTicks /\ \A c \in Maskers : ~ Waits(c) => ~ masker[c].slow
  /\ maskTicks' = maskTicks + 1
  /\ memory' = evictExpired /\ maskIndex' = Aged(maskIndex) /\ masked' = Aged(masked)
  /\ gone' = Over([k \in DOMAIN masked \ DOMAIN Aged(masked) |-> maskTicks'], gone)
  /\ masker' = [c \in Maskers |->
       IF Waits(c) THEN NoBatch ELSE [masker[c] EXCEPT !.slow = TRUE]]
  /\ UNCHANGED <<maskMinted, maskRefusals, batches>>

\* The server is restarted: memory and the requests under way are lost.
MaskRestart ==
  /\ memory' = Empty /\ masker' = [c \in Maskers |-> NoBatch]
  /\ UNCHANGED <<maskIndex, masked, maskMinted, gone, maskTicks, maskRefusals, batches>>

MaskStep(c) ==
  \/ AskIndex(c) \/ MaskFromMemory(c) \/ MaskLookUp(c) \/ RenewMask(c)
  \/ RenewMaskIndex(c) \/ SaveMask(c) \/ SaveMaskIndex(c)

\* The addresses of an answer, for applications, movies, ebooks and albums.
buildAppItems(c) == \E b \in Batches : AskMemory(c, b)

MaskNext ==
  \/ \E c \in Maskers : MaskStep(c) \/ buildAppItems(c)
  \/ MaskTick \/ MaskRestart

MaskSpec == MaskInit /\ [][MaskNext]_maskVars

----------------------------------------------------------------------------
MaskAnswers == {c \in Maskers : masker[c].at = "answered"}

\* Every key that is in use has been made, and keys lead to addresses.
MaskTypeOK ==
  /\ DOMAIN memory \cup DOMAIN maskIndex \subseteq Addresses
  /\ \A u \in DOMAIN memory : memory[u].val \in 1 .. maskMinted
  /\ \A u \in DOMAIN maskIndex : maskIndex[u].val \in 1 .. maskMinted
  /\ \A k \in DOMAIN masked : k \in 1 .. maskMinted /\ masked[k].val \in Addresses

\* The key that an answer gives for an address leads to that address or
\* nowhere, though the places in the batch, among memory's misses and in the
\* answer of MGET differ (MaskURLBatch).
MasksLeadHome ==
  \A c \in MaskAnswers : \A u \in DOMAIN masker[c].out :
     ResolveURL(masker[c].out[u]) \subseteq {u}

\* As long as Redis obeys, every address of a batch is answered with a key.
AllMasked ==
  maskRefusals = 0 =>
     \A c \in MaskAnswers : DOMAIN masker[c].out = ToSet(masker[c].batch)

\* As long as Redis obeys, a key that has expired is in memory for no longer
\* than the life of an entry and the tick by which the index may outlive it:
\* a dead link fades, and a new one is made.
DeadMasksFade ==
  maskRefusals = 0 =>
     \A u \in DOMAIN memory : memory[u].val \in DOMAIN gone =>
        maskTicks - gone[memory[u].val] <= MemLife

\* Masked links lead to what they stand for, are made for every address and
\* do not outlive their payload in memory for long (pkg/appstore/shortlink.go).
MasksLead == MaskTypeOK /\ MasksLeadHome /\ AllMasked /\ DeadMasksFade
=============================================================================
