------------------------------ MODULE LinkProofs ---------------------------
(***************************************************************************)
(* That a short link leads where it was made for: the links of a batch of  *)
(* addresses, and those a page's files get.  For any addresses, pages,     *)
(* lifetimes and numbers of requests, whatever Redis refuses or forgets.   *)
(***************************************************************************)
EXTENDS MaskedLinks, PageLinks, FilterProofs

(* The links of a batch. *)

\* The stages of a request for a batch.
MaskStages == {"index", "mask", "lookup", "renewMask", "renewMaskIndex", "saveMask",
               "saveMaskIndex", "answered"}

\* Key k leads to u or nowhere.
Leads(k, u) == k \in 1 .. maskMinted /\ (k \in DOMAIN masked => masked[k].val = u)

\* Key k was set or renewed n ticks ago at most.
Young(k, n) == k \in DOMAIN masked /\ masked[k].left >= MaskLife - n

\* Every key that was made is in Redis or has expired.
KeysInv ==
  /\ maskMinted \in Nat /\ maskTicks \in Nat /\ maskRefusals \in Nat
  /\ DOMAIN masked \cup DOMAIN gone = 1 .. maskMinted /\ DOMAIN masked \cap DOMAIN gone = {}
  /\ \A k \in DOMAIN masked : masked[k] \in [val : Addresses, left : 1 .. MaskLife]
  /\ \A k \in DOMAIN gone : gone[k] \in 0 .. maskTicks

\* What the index says of u leads home and outlives its key by two ticks at most.
IndexEntry(u, e) ==
  /\ e \in [val : 1 .. maskMinted, left : 1 .. MaskLife] /\ Leads(e.val, u)
  /\ maskRefusals = 0 =>
       /\ e.val \in DOMAIN masked => e.left <= masked[e.val].left + 2
       /\ e.val \in DOMAIN gone => maskTicks - gone[e.val] + e.left <= 2

\* And what memory says by the life of an entry.
MemoryEntry(u, e) ==
  /\ e \in [val : 1 .. maskMinted, left : 1 .. MemLife] /\ Leads(e.val, u)
  /\ maskRefusals = 0 /\ e.val \in DOMAIN gone =>
       maskTicks - gone[e.val] + e.left <= MemLife + 1

\* What memory and the index hold.
EntriesInv ==
  /\ DOMAIN memory \subseteq Addresses /\ \A u \in DOMAIN memory : MemoryEntry(u, memory[u])
  /\ DOMAIN maskIndex \subseteq Addresses /\ \A u \in DOMAIN maskIndex : IndexEntry(u, maskIndex[u])

\* The places among the misses that a request has yet to mask.
Places(v) == {v.todo[k] : k \in DOMAIN v.todo}

\* The addresses a request has yet to mask.
Unmasked(v) ==
  IF v.at = "index" THEN {v.misses[i] : i \in DOMAIN v.misses} ELSE {v.misses[i] : i \in Places(v)}

\* The form of a request: what is left to do are places among its misses.
BatchForm(v) ==
  /\ v \in [at : MaskStages, slow : BOOLEAN, batch : Batches, misses : Seq(Addresses),
            todo : Seq(Nat), key : Nat, out : {v.out}]
  /\ Places(v) \subseteq DOMAIN v.misses
  /\ v.at \in {"index", "answered"} <=> v.todo = <<>>

\* What a request has found and made leads home.
BatchHome(v) ==
  /\ DOMAIN v.out \subseteq Addresses /\ \A u \in DOMAIN v.out : Leads(v.out[u], u)
  /\ v.at \in {"renewMask", "renewMaskIndex", "saveMaskIndex"} => Leads(v.key, Current(v))

Late(v) == IF v.slow THEN 1 ELSE 0

\* What a request did not find in the index has come there since, and is young.
BatchYoung(v) ==
  /\ v.at \notin {"index", "answered"} =>
       \A i \in Places(v) : v.misses[i] \in DOMAIN maskIndex =>
          Young(maskIndex[v.misses[i]].val, 1 + Late(v))
  /\ v.at \in {"renewMask", "renewMaskIndex"} => Young(v.key, 1 + Late(v))
  /\ v.at = "saveMaskIndex" => Young(v.key, Late(v))

\* Each address of the batch has its key or is still to be masked.
BatchCovered(v) == DOMAIN v.out \cup Unmasked(v) = {v.batch[i] : i \in DOMAIN v.batch}

\* The latter two as long as Redis obeys.
BatchFits(v) ==
  \/ v = NoBatch
  \/ /\ BatchForm(v) /\ BatchHome(v)
     /\ maskRefusals = 0 => BatchYoung(v) /\ BatchCovered(v)

\* Every request fits.
MaskersInv == DOMAIN masker = Maskers /\ \A c \in Maskers : BatchFits(masker[c])

\* What is inductive: the keys, who names them, and who is about to.
MaskInv == KeysInv /\ EntriesInv /\ MaskersInv

\* EXPIRE changes the life of one key and nothing else.
LEMMA ExtendEntries ==
  ASSUME NEW t, NEW k, NEW ttl
  PROVE  /\ DOMAIN Extend(t, k, ttl) = DOMAIN t
         /\ k \in DOMAIN t => Extend(t, k, ttl)[k] = [val |-> t[k].val, left |-> ttl]
         /\ \A j \in DOMAIN t : j # k => Extend(t, k, ttl)[j] = t[j]
  <1>1. CASE k \in DOMAIN t
    <2> DEFINE r == Put(t, k, t[k].val, ttl)
    <2>1. Extend(t, k, ttl) = r
      BY <1>1 DEF Extend
    <2>2. /\ DOMAIN r = DOMAIN t \cup {k} /\ r[k] = [val |-> t[k].val, left |-> ttl]
          /\ \A j \in DOMAIN t : j # k => r[j] = t[j]
      BY DEF Put
    <2> HIDE DEF r
    <2>3. DOMAIN r = DOMAIN t
      BY <1>1, <2>2
    <2> QED
      BY <2>1, <2>2, <2>3
  <1>2. CASE k \notin DOMAIN t
    BY <1>2 DEF Extend
  <1> QED
    BY <1>1, <1>2

\* From one state to the next no key expires or leads elsewhere.
KeysStay ==
  /\ maskMinted' \in {maskMinted, maskMinted + 1} /\ UNCHANGED <<gone, maskTicks>>
  /\ maskRefusals' \in {maskRefusals, maskRefusals + 1}
  /\ \A k \in 1 .. maskMinted :
       /\ k \in DOMAIN masked' <=> k \in DOMAIN masked
       /\ k \in DOMAIN masked =>
            masked'[k].val = masked[k].val /\ masked'[k].left >= masked[k].left

\* The keys after a step that takes no time: one may be made or renewed.
LEMMA KeysStayPut ==
  ASSUME KeysInv, UNCHANGED <<gone, maskTicks>>, maskRefusals' \in {maskRefusals, maskRefusals + 1},
         \/ UNCHANGED <<masked, maskMinted>>
         \/ \E k : masked' = Extend(masked, k, MaskLife) /\ UNCHANGED maskMinted
         \/ \E u \in Addresses : /\ maskMinted' = maskMinted + 1
                                 /\ masked' = Put(masked, maskMinted', u, MaskLife)
  PROVE  KeysInv' /\ KeysStay
  <1>0. maskMinted \in Nat /\ MaskLife \in Nat /\ MaskLife > 2 /\ maskRefusals' \in Nat
        /\ \A k \in DOMAIN masked : k \in 1 .. maskMinted /\ masked[k].left \in 1 .. MaskLife
                                    /\ masked[k].val \in Addresses
    BY MaskAssumption DEF KeysInv
  <1>1. CASE UNCHANGED <<masked, maskMinted>>
    BY <1>0, <1>1 DEF KeysInv, KeysStay
  <1>2. ASSUME NEW k, masked' = Extend(masked, k, MaskLife), UNCHANGED maskMinted
        PROVE  KeysInv' /\ KeysStay
    <2>1. DOMAIN masked' = DOMAIN masked
      BY <1>2, ExtendEntries
    <2>2. \A j \in DOMAIN masked : masked'[j] = masked[j] \/ masked'[j] = [val |-> masked[j].val, left |-> MaskLife]
      <3> TAKE j \in DOMAIN masked
      <3>1. CASE j = k
        BY <1>2, <3>1, ExtendEntries
      <3>2. CASE j # k
        <4>1. Extend(masked, k, MaskLife)[j] = masked[j]
          BY <3>2 DEF Extend, Put
        <4> QED
          BY <1>2, <4>1
      <3> QED
        BY <3>1, <3>2
    <2>3. \A j \in DOMAIN masked : /\ masked'[j] \in [val : Addresses, left : 1 .. MaskLife]
                                   /\ masked'[j].val = masked[j].val /\ masked'[j].left >= masked[j].left
      <3> TAKE j \in DOMAIN masked
      <3>1. masked[j] \in [val : Addresses, left : 1 .. MaskLife]
        BY DEF KeysInv
      <3>2. CASE masked'[j] = masked[j]
        BY <1>0, <3>1, <3>2
      <3>3. CASE masked'[j] = [val |-> masked[j].val, left |-> MaskLife]
        BY <1>0, <3>1, <3>3
      <3> QED
        BY <2>2, <3>2, <3>3
    <2>4. KeysInv'
      BY <1>0, <1>2, <2>1, <2>3 DEF KeysInv
    <2> QED
      BY <1>2, <2>1, <2>3, <2>4 DEF KeysStay
  <1>3. ASSUME NEW u \in Addresses, maskMinted' = maskMinted + 1,
               masked' = Put(masked, maskMinted', u, MaskLife)
        PROVE  KeysInv' /\ KeysStay
    <2>1. /\ DOMAIN masked' = DOMAIN masked \cup {maskMinted + 1}
          /\ masked'[maskMinted + 1] = [val |-> u, left |-> MaskLife]
          /\ \A j \in DOMAIN masked : j # maskMinted + 1 => masked'[j] = masked[j]
      <3>1. masked' = Put(masked, maskMinted + 1, u, MaskLife)
        BY <1>3
      <3> DEFINE r == Put(masked, maskMinted + 1, u, MaskLife)
      <3>2. /\ DOMAIN r = DOMAIN masked \cup {maskMinted + 1}
            /\ r[maskMinted + 1] = [val |-> u, left |-> MaskLife]
            /\ \A j \in DOMAIN masked : j # maskMinted + 1 => r[j] = masked[j]
        BY DEF Put
      <3>3. masked' = r
        BY <3>1
      <3> HIDE DEF r
      <3> QED
        BY <3>2, <3>3
    <2>2. \A j \in 1 .. maskMinted : j # maskMinted + 1
      BY <1>0
    <2>3. 1 .. maskMinted' = (1 .. maskMinted) \cup {maskMinted + 1} /\ maskMinted' \in Nat
      BY <1>0, <1>3
    <2>4. /\ DOMAIN masked' \cup DOMAIN gone' = 1 .. maskMinted'
          /\ DOMAIN masked' \cap DOMAIN gone' = {}
      BY <2>1, <2>2, <2>3 DEF KeysInv
    <2>5. \A j \in DOMAIN masked' : masked'[j] \in [val : Addresses, left : 1 .. MaskLife]
      BY <1>0, <1>3, <2>1, <2>2 DEF KeysInv
    <2>6. KeysInv'
      BY <1>0, <2>3, <2>4, <2>5 DEF KeysInv
    <2> QED
      BY <1>0, <1>3, <2>1, <2>2, <2>6 DEF KeysStay
  <1> QED
    BY <1>1, <1>2, <1>3

\* Then what is known of a key, and of an entry that names it, stays so.
LEMMA KeysStayTrue ==
  ASSUME KeysInv, KeysInv', KeysStay
  PROVE  /\ \A k, u : Leads(k, u) => Leads(k, u)'
         /\ \A k : \A n \in {0, 1, 2} : Young(k, n) => Young(k, n)'
         /\ \A u, e : IndexEntry(u, e) => IndexEntry(u, e)'
         /\ \A u, e : MemoryEntry(u, e) => MemoryEntry(u, e)'
  <1>0. maskMinted \in Nat /\ MaskLife \in Nat /\ maskRefusals \in Nat
        /\ DOMAIN masked \subseteq 1 .. maskMinted
        /\ \A k \in DOMAIN masked : masked[k].left \in Nat
    BY MaskAssumption DEF KeysInv
  <1>1. ASSUME NEW k, NEW u, Leads(k, u) PROVE Leads(k, u)'
    BY <1>0, <1>1 DEF KeysStay, Leads
  <1>2. ASSUME NEW k, NEW n \in {0, 1, 2}, Young(k, n) PROVE Young(k, n)'
    <2>1. k \in DOMAIN masked' /\ masked'[k].left >= masked[k].left /\ masked[k].left >= MaskLife - n
      BY <1>0, <1>2 DEF KeysStay, Young
    <2>2. masked'[k].left \in Nat /\ masked[k].left \in Nat
      BY <1>0, <1>2, <2>1 DEF KeysInv, Young
    <2> QED
      BY <1>0, <2>1, <2>2 DEF Young
  <1>3. ASSUME NEW u, NEW e, IndexEntry(u, e) PROVE IndexEntry(u, e)'
    <2>1. e \in [val : 1 .. maskMinted', left : 1 .. MaskLife] /\ Leads(e.val, u)'
      BY <1>0, <1>1, <1>3 DEF KeysStay, IndexEntry
    <2>2. ASSUME maskRefusals' = 0
          PROVE  /\ e.val \in DOMAIN masked' => e.left <= masked'[e.val].left + 2
                 /\ e.val \in DOMAIN gone' => maskTicks' - gone'[e.val] + e.left <= 2
      <3>1. maskRefusals = 0 /\ e.val \in 1 .. maskMinted
        BY <1>0, <1>3, <2>2 DEF KeysStay, IndexEntry
      <3>2. CASE e.val \in DOMAIN masked
        <4>1. masked'[e.val].left >= masked[e.val].left /\ e.left <= masked[e.val].left + 2
          BY <1>3, <3>1, <3>2 DEF KeysStay, IndexEntry
        <4>2. masked[e.val].left \in Nat /\ masked'[e.val].left \in Nat /\ e.left \in Nat
          BY <1>0, <1>3, <3>1, <3>2 DEF KeysStay, KeysInv, IndexEntry
        <4>3. e.val \notin DOMAIN gone'
          BY <1>3, <3>1, <3>2 DEF KeysStay, KeysInv
        <4> QED
          BY <4>1, <4>2, <4>3
      <3>3. CASE e.val \notin DOMAIN masked
        BY <1>3, <3>1, <3>3 DEF KeysStay, IndexEntry
      <3> QED
        BY <3>2, <3>3
    <2> QED
      BY <2>1, <2>2 DEF IndexEntry
  <1>4. ASSUME NEW u, NEW e, MemoryEntry(u, e) PROVE MemoryEntry(u, e)'
    BY <1>0, <1>1, <1>4 DEF KeysStay, MemoryEntry
  <1> QED
    BY <1>1, <1>2, <1>3, <1>4

\* What comes to the index is young.
IndexStays ==
  maskRefusals' = 0 =>
    \A u \in DOMAIN maskIndex' :
       \/ u \in DOMAIN maskIndex /\ maskIndex'[u].val = maskIndex[u].val
       \/ Young(maskIndex[u].val, 1)'

\* And what is known of a request that takes no step.
LEMMA BatchStays ==
  ASSUME KeysInv, KeysInv', KeysStay, IndexStays
  PROVE  \A v : BatchFits(v) => BatchFits(v)'
  <1>0. /\ \A k, u : Leads(k, u) => Leads(k, u)'
        /\ \A k : \A n \in {0, 1, 2} : Young(k, n) => Young(k, n)'
    BY KeysStayTrue
  <1>1. maskRefusals' = 0 => maskRefusals = 0
    BY DEF KeysStay, KeysInv
  <1>2. SUFFICES ASSUME NEW v, v # NoBatch, BatchFits(v) PROVE BatchFits(v)'
    BY DEF BatchFits
  <1>3. BatchForm(v) /\ BatchHome(v) /\ Late(v) \in {0, 1}
    BY <1>2 DEF BatchFits, Late
  <1>4. BatchForm(v)'
    BY <1>3 DEF BatchForm, Places
  <1>5. BatchHome(v)'
    BY <1>0, <1>3 DEF BatchHome, Current, Miss
  <1>6. ASSUME maskRefusals' = 0 PROVE BatchYoung(v)' /\ BatchCovered(v)'
    <2>1. BatchYoung(v) /\ BatchCovered(v)
      BY <1>1, <1>2, <1>6 DEF BatchFits
    <2>2. BatchCovered(v)'
      BY <2>1 DEF BatchCovered, Unmasked, Places
    <2>3. Late(v)' = Late(v) /\ Places(v)' = Places(v) /\ 1 + Late(v) \in {1, 2}
      BY <1>3 DEF Late, Places
    <2>4. ASSUME v.at \notin {"index", "answered"}, NEW i \in Places(v), v.misses[i] \in DOMAIN maskIndex'
          PROVE  Young(maskIndex[v.misses[i]].val, 1 + Late(v))'
      <3>1. CASE v.misses[i] \in DOMAIN maskIndex /\ maskIndex'[v.misses[i]].val = maskIndex[v.misses[i]].val
        <4>1. PICK k : k = maskIndex[v.misses[i]].val
          OBVIOUS
        <4>2. Young(k, 1 + Late(v))
          BY <2>1, <2>4, <3>1, <4>1 DEF BatchYoung
        <4>3. Young(k, 1 + Late(v))'
          BY <1>0, <2>3, <4>2
        <4> QED
          BY <3>1, <4>1, <4>3
      <3>2. CASE Young(maskIndex[v.misses[i]].val, 1)'
        <4>1. MaskLife \in Nat
          BY MaskAssumption
        <4>2. \A k \in DOMAIN masked' : masked'[k].left \in Nat
          BY <4>1 DEF KeysInv
        <4> QED
          BY <1>3, <2>3, <3>2, <4>1, <4>2 DEF Young
      <3> QED
        BY <1>6, <2>4, <3>1, <3>2 DEF IndexStays
    <2>5. v.at \in {"renewMask", "renewMaskIndex"} => Young(v.key, 1 + Late(v))'
      BY <1>0, <2>1, <2>3 DEF BatchYoung
    <2>6. v.at = "saveMaskIndex" => Young(v.key, Late(v))'
      BY <1>0, <1>3, <2>1 DEF BatchYoung
    <2>7. BatchYoung(v)'
      BY <2>3, <2>4, <2>5, <2>6 DEF BatchYoung
    <2> QED
      BY <2>2, <2>7
  <1> QED
    BY <1>4, <1>5, <1>6 DEF BatchFits

\* A step of one request: the others still fit.
LEMMA OneMasker ==
  ASSUME MaskersInv, KeysInv, KeysInv', KeysStay, IndexStays,
         NEW c \in Maskers, NEW w, Step(c, w), BatchFits(w)'
  PROVE  MaskersInv'
  <1>1. DOMAIN masker' = Maskers /\ masker'[c] = w
        /\ \A d \in Maskers : d # c => masker'[d] = masker[d]
    BY DEF MaskersInv, Step
  <1>2. ASSUME NEW d \in Maskers PROVE BatchFits(masker[d])'
    <2>1. CASE d = c
      BY <1>1, <2>1 DEF BatchFits
    <2>2. CASE d # c
      <3>1. PICK v : v = masker[d]
        OBVIOUS
      <3>2. BatchFits(v)
        BY <3>1 DEF MaskersInv
      <3>3. BatchFits(v)' /\ masker'[d] = v
        BY <1>1, <2>2, <3>1, <3>2, BatchStays
      <3> QED
        BY <3>3
    <2> QED
      BY <2>1, <2>2
  <1> QED
    BY <1>1, <1>2 DEF MaskersInv

\* Memory and index after a step that changes entries to fitting ones.
LEMMA EntriesStay ==
  ASSUME KeysInv, KeysInv', KeysStay, EntriesInv,
         \A u \in DOMAIN memory' : \/ u \in DOMAIN memory /\ memory'[u] = memory[u]
                                   \/ u \in Addresses /\ MemoryEntry(u, memory[u])',
         \A u \in DOMAIN maskIndex' : \/ u \in DOMAIN maskIndex /\ maskIndex'[u] = maskIndex[u]
                                      \/ u \in Addresses /\ IndexEntry(u, maskIndex[u])'
  PROVE  EntriesInv'
  <1>1. ASSUME NEW u \in DOMAIN memory' PROVE u \in Addresses /\ MemoryEntry(u, memory[u])'
    <2>1. CASE u \in DOMAIN memory /\ memory'[u] = memory[u]
      <3>1. PICK e : e = memory[u]
        OBVIOUS
      <3>2. MemoryEntry(u, e) /\ u \in Addresses
        BY <2>1, <3>1 DEF EntriesInv
      <3>3. MemoryEntry(u, e)' /\ memory'[u] = e
        BY <2>1, <3>1, <3>2, KeysStayTrue
      <3> QED
        BY <3>2, <3>3
    <2> QED
      BY <2>1
  <1>2. ASSUME NEW u \in DOMAIN maskIndex' PROVE u \in Addresses /\ IndexEntry(u, maskIndex[u])'
    <2>1. CASE u \in DOMAIN maskIndex /\ maskIndex'[u] = maskIndex[u]
      <3>1. PICK e : e = maskIndex[u]
        OBVIOUS
      <3>2. IndexEntry(u, e) /\ u \in Addresses
        BY <2>1, <3>1 DEF EntriesInv
      <3>3. IndexEntry(u, e)' /\ maskIndex'[u] = e
        BY <2>1, <3>1, <3>2, KeysStayTrue
      <3> QED
        BY <3>2, <3>3
    <2> QED
      BY <2>1
  <1> QED
    BY <1>1, <1>2 DEF EntriesInv

\* The address a request is at is one of its misses.
LEMMA FirstPlace ==
  ASSUME NEW v, BatchForm(v), v.at \notin {"index", "answered"}
  PROVE  /\ v.todo # <<>> /\ Head(v.todo) \in Places(v)
         /\ Current(v) = v.misses[Head(v.todo)] /\ Current(v) \in Addresses
  <1>1. v.todo \in Seq(Nat) /\ v.todo # <<>> /\ v.misses \in Seq(Addresses)
    BY DEF BatchForm
  <1>2. 1 \in DOMAIN v.todo /\ Head(v.todo) = v.todo[1]
    BY <1>1
  <1>3. Head(v.todo) \in Places(v)
    BY <1>2 DEF Places
  <1>4. Head(v.todo) \in DOMAIN v.misses
    BY <1>3 DEF BatchForm
  <1>5. v.misses[Head(v.todo)] \in Addresses
    BY <1>1, <1>4
  <1> QED
    BY <1>1, <1>3, <1>5 DEF Current, Miss

\* One address is done: it is no longer to be masked, and has its key if it got one.
LEMMA DoneForm ==
  ASSUME NEW v, BatchForm(v), v.at \notin {"index", "answered"}, NEW key \in Nat,
         NEW w, w = Done(v, key)
  PROVE  /\ BatchForm(w) /\ w.at \in {"mask", "answered"}
         /\ w.slow = v.slow /\ w.batch = v.batch /\ w.misses = v.misses
         /\ Places(v) = Places(w) \cup {Head(v.todo)}
         /\ DOMAIN w.out = DOMAIN v.out \cup (IF key = 0 THEN {} ELSE {Current(v)})
         /\ \A u \in DOMAIN w.out :
              w.out[u] = IF u = Current(v) /\ key # 0 THEN key ELSE v.out[u]
  <1>1. /\ v.todo \in Seq(Nat) /\ v.todo # <<>> /\ Places(v) \subseteq DOMAIN v.misses
        /\ v \in [at : MaskStages, slow : BOOLEAN, batch : Batches, misses : Seq(Addresses),
                  todo : Seq(Nat), key : Nat, out : {v.out}]
    BY DEF BatchForm
  <1>2. PICK n \in Nat : n = Len(v.todo) /\ n > 0 /\ DOMAIN v.todo = 1 .. n
    BY <1>1
  <1>3. PICK rest : rest = Tail(v.todo)
    OBVIOUS
  <1>4. rest \in Seq(Nat) /\ DOMAIN rest = 1 .. n - 1 /\ (rest = <<>> <=> n = 1)
        /\ \A i \in 1 .. n - 1 : rest[i] = v.todo[i + 1]
    <2>1. rest \in Seq(Nat) /\ Len(rest) = n - 1
      BY <1>1, <1>2, <1>3
    <2>2. DOMAIN rest = 1 .. n - 1
      BY <1>2, <2>1
    <2>3. rest = <<>> <=> n = 1
      <3>1. rest = <<>> => Len(rest) = 0
        BY EmptySeq
      <3>2. rest # <<>> => Len(rest) # 0
        BY <2>1, EmptySeq
      <3> QED
        BY <1>2, <2>1, <3>1, <3>2
    <2>4. \A i \in 1 .. n - 1 : rest[i] = v.todo[i + 1]
      BY <1>1, <1>2, <1>3, <2>2
    <2> QED
      BY <2>1, <2>2, <2>3, <2>4
  <1>5. PICK answers : answers = IF key = 0 THEN v.out ELSE Over([u \in {Current(v)} |-> key], v.out)
    OBVIOUS
  <1>6. /\ DOMAIN answers = DOMAIN v.out \cup (IF key = 0 THEN {} ELSE {Current(v)})
        /\ \A u \in DOMAIN answers :
              answers[u] = IF u = Current(v) /\ key # 0 THEN key ELSE v.out[u]
    BY <1>5 DEF Over
  <1>7. w = [v EXCEPT !.todo = rest, !.key = 0, !.out = answers,
                      !.at = IF n > 1 THEN "mask" ELSE "answered"]
    BY <1>1, <1>2, <1>3, <1>5 DEF Done
  <1>8. w = [at |-> IF n > 1 THEN "mask" ELSE "answered", slow |-> v.slow, batch |-> v.batch,
             misses |-> v.misses, todo |-> rest, key |-> 0, out |-> answers]
    BY <1>1, <1>7
  <1>9. Places(v) = Places(w) \cup {Head(v.todo)}
    <2>1. Places(v) = {v.todo[k] : k \in 1 .. n} /\ Places(w) = {v.todo[k + 1] : k \in 1 .. n - 1}
      <3>1. w.todo = rest
        BY <1>8
      <3>2. Places(w) = {rest[k] : k \in 1 .. n - 1}
        BY <1>4, <3>1 DEF Places
      <3>3. {rest[k] : k \in 1 .. n - 1} = {v.todo[k + 1] : k \in 1 .. n - 1}
        BY <1>4
      <3>4. Places(v) = {v.todo[k] : k \in 1 .. n}
        BY <1>2 DEF Places
      <3> QED
        BY <3>2, <3>3, <3>4
    <2>2. \A k \in 1 .. n : k = 1 \/ (k - 1 \in 1 .. n - 1 /\ k = (k - 1) + 1)
      OBVIOUS
    <2>3. \A k \in 1 .. n - 1 : k + 1 \in 1 .. n
      OBVIOUS
    <2>4. Head(v.todo) = v.todo[1] /\ 1 \in 1 .. n
      BY <1>1, <1>2
    <2>5. Places(v) \subseteq Places(w) \cup {Head(v.todo)}
      BY <2>1, <2>2, <2>4
    <2>6. Places(w) \cup {Head(v.todo)} \subseteq Places(v)
      BY <2>1, <2>3, <2>4
    <2> QED
      BY <2>5, <2>6
  <1>10. BatchForm(w)
    <2>1. w.at \in {"index", "answered"} <=> w.todo = <<>>
      BY <1>2, <1>4, <1>8
    <2>2. w \in [at : MaskStages, slow : BOOLEAN, batch : Batches, misses : Seq(Addresses),
                 todo : Seq(Nat), key : Nat, out : {w.out}]
      BY <1>1, <1>4, <1>8 DEF MaskStages
    <2>3. Places(w) \subseteq DOMAIN w.misses
      BY <1>1, <1>8, <1>9
    <2> QED
      BY <2>1, <2>2, <2>3 DEF BatchForm
  <1> QED
    BY <1>6, <1>8, <1>9, <1>10

\* The request goes on from v with its next address, if it has one.
LEMMA DoneFits ==
  ASSUME KeysInv, KeysInv', KeysStay, IndexStays, EntriesInv,
         NEW v, v # NoBatch, BatchFits(v), v.at \notin {"index", "answered"},
         NEW key \in Nat, NEW w, w = Done(v, key),
         key # 0 => Leads(key, Current(v))', maskRefusals' = 0 => key # 0
  PROVE  BatchFits(w)'
  <1>1. BatchForm(v) /\ BatchFits(v)'
    BY BatchStays DEF BatchFits
  <1>2. BatchHome(v)' /\ (maskRefusals' = 0 => BatchYoung(v)' /\ BatchCovered(v)')
    BY <1>1 DEF BatchFits
  <1>3. /\ BatchForm(w) /\ w.at \in {"mask", "answered"}
        /\ w.slow = v.slow /\ w.batch = v.batch /\ w.misses = v.misses
        /\ Places(v) = Places(w) \cup {Head(v.todo)}
        /\ DOMAIN w.out = DOMAIN v.out \cup (IF key = 0 THEN {} ELSE {Current(v)})
        /\ \A u \in DOMAIN w.out :
             w.out[u] = IF u = Current(v) /\ key # 0 THEN key ELSE v.out[u]
    BY <1>1, DoneForm
  <1>4. /\ Head(v.todo) \in Places(v)
        /\ Current(v) = v.misses[Head(v.todo)] /\ Current(v) \in Addresses
    BY <1>1, FirstPlace
  <1>5. BatchForm(w)'
    BY <1>3 DEF BatchForm, Places
  <1>6. BatchHome(w)'
    <2>1. DOMAIN w.out \subseteq Addresses
      BY <1>2, <1>3, <1>4 DEF BatchHome
    <2>2. ASSUME NEW u \in DOMAIN w.out PROVE Leads(w.out[u], u)'
      <3>1. PICK k : k = w.out[u]
        OBVIOUS
      <3>2. CASE u = Current(v) /\ key # 0
        BY <1>3, <3>2
      <3>3. CASE ~ (u = Current(v) /\ key # 0)
        <4>1. u \in DOMAIN v.out /\ w.out[u] = v.out[u]
          BY <1>3, <3>3
        <4> QED
          BY <1>2, <4>1 DEF BatchHome
      <3> QED
        BY <3>2, <3>3
    <2> QED
      BY <1>3, <2>1, <2>2 DEF BatchHome
  <1>7. ASSUME maskRefusals' = 0 PROVE BatchYoung(w)' /\ BatchCovered(w)'
    <2>1. BatchYoung(v)' /\ BatchCovered(v)' /\ key # 0
      BY <1>2, <1>7
    <2>2. Late(w)' = Late(v)' /\ Places(v)' = Places(v) /\ Places(w)' = Places(w)
      BY <1>3 DEF Late, Places
    <2>3. BatchYoung(w)'
      BY <1>3, <2>1, <2>2 DEF BatchYoung
    <2>4. Unmasked(v)' = {v.misses[i] : i \in Places(v)}
      BY <2>2 DEF Unmasked
    <2>5. Unmasked(w)' = {v.misses[i] : i \in Places(w)}
      BY <1>3, <2>2 DEF Unmasked
    <2>6. {v.misses[i] : i \in Places(v)} = {v.misses[i] : i \in Places(w)} \cup {Current(v)}
      BY <1>3, <1>4
    <2>7. DOMAIN w.out = DOMAIN v.out \cup {Current(v)}
      BY <1>3, <2>1
    <2>8. DOMAIN w.out \cup Unmasked(w)' = DOMAIN v.out \cup Unmasked(v)'
      BY <2>4, <2>5, <2>6, <2>7
    <2>9. BatchCovered(w)'
      BY <1>3, <2>1, <2>8 DEF BatchCovered
    <2> QED
      BY <2>3, <2>9
  <1> QED
    BY <1>5, <1>6, <1>7 DEF BatchFits

\* The request goes over to another stage of its present address.
LEMMA StageFits ==
  ASSUME NEW v, v # NoBatch, BatchFits(v)', v.at \notin {"index", "answered"},
         NEW a \in MaskStages \ {"index", "answered"}, NEW key \in Nat,
         NEW w, w = [v EXCEPT !.at = a, !.key = key],
         a \in {"renewMask", "renewMaskIndex", "saveMaskIndex"} => Leads(key, Current(v))',
         maskRefusals' = 0 =>
           /\ a \in {"renewMask", "renewMaskIndex"} => Young(key, 1 + Late(v))'
           /\ a = "saveMaskIndex" => Young(key, Late(v))'
  PROVE  BatchFits(w)'
  <1>1. BatchForm(v)' /\ BatchHome(v)' /\ (maskRefusals' = 0 => BatchYoung(v)' /\ BatchCovered(v)')
    BY DEF BatchFits
  <1>2. v \in [at : MaskStages, slow : BOOLEAN, batch : Batches, misses : Seq(Addresses),
               todo : Seq(Nat), key : Nat, out : {v.out}]
    BY <1>1 DEF BatchForm
  <1>3. w = [at |-> a, slow |-> v.slow, batch |-> v.batch, misses |-> v.misses,
             todo |-> v.todo, key |-> key, out |-> v.out]
    BY <1>2
  <1>4. Places(w) = Places(v) /\ Current(w) = Current(v) /\ Late(w) = Late(v)
    BY <1>3 DEF Places, Current, Miss, Late
  <1>5. BatchForm(w)'
    <2>1. Places(v) \subseteq DOMAIN v.misses /\ v.todo # <<>>
      BY <1>1 DEF BatchForm, Places
    <2>2. Places(w) \subseteq DOMAIN w.misses /\ w.todo # <<>>
      BY <1>3, <1>4, <2>1
    <2>3. w \in [at : MaskStages, slow : BOOLEAN, batch : Batches, misses : Seq(Addresses),
                 todo : Seq(Nat), key : Nat, out : {w.out}]
      BY <1>2, <1>3
    <2>4. w.at \notin {"index", "answered"}
      BY <1>3
    <2> QED
      BY <2>2, <2>3, <2>4 DEF BatchForm, Places
  <1>6. BatchHome(w)'
    <2>1. Current(w)' = Current(v)'
      BY <1>3 DEF Current, Miss
    <2>2. w.out = v.out /\ w.key = key /\ w.at = a
      BY <1>3
    <2> QED
      BY <1>1, <2>1, <2>2 DEF BatchHome
  <1>7. ASSUME maskRefusals' = 0 PROVE BatchYoung(w)' /\ BatchCovered(w)'
    <2>1. /\ w.out = v.out /\ w.key = key /\ w.at = a /\ w.misses = v.misses
          /\ w.slow = v.slow /\ w.batch = v.batch /\ w.todo = v.todo
      BY <1>3
    <2>2. Places(w)' = Places(v)' /\ Late(w)' = Late(v)'
      BY <2>1 DEF Places, Late
    <2>3. BatchYoung(w)'
      BY <1>1, <1>7, <2>1, <2>2 DEF BatchYoung
    <2>4. Unmasked(v)' = {v.misses[i] : i \in Places(v)'}
      BY DEF Unmasked
    <2>5. w.at # "index"
      BY <2>1
    <2>6. Unmasked(w)' = {w.misses[i] : i \in Places(w)'}
      BY <2>5 DEF Unmasked
    <2>7. Unmasked(w)' = Unmasked(v)'
      BY <2>1, <2>2, <2>4, <2>6
    <2>8. BatchCovered(w)'
      BY <1>1, <1>7, <2>1, <2>7 DEF BatchCovered
    <2> QED
      BY <2>3, <2>8
  <1> QED
    BY <1>5, <1>6, <1>7 DEF BatchFits

\* A step of a request to its next Redis command.
LEMMA StageKeeps ==
  ASSUME MaskInv, KeysInv', KeysStay, IndexStays, EntriesInv',
         NEW c \in Maskers, NEW v, v = masker[c], v # NoBatch, v.at \notin {"index", "answered"},
         NEW a \in MaskStages \ {"index", "answered"}, NEW key \in Nat,
         Step(c, [v EXCEPT !.at = a, !.key = key]),
         a \in {"renewMask", "renewMaskIndex", "saveMaskIndex"} => Leads(key, Current(v))',
         maskRefusals' = 0 =>
           /\ a \in {"renewMask", "renewMaskIndex"} => Young(key, 1 + Late(v))'
           /\ a = "saveMaskIndex" => Young(key, Late(v))'
  PROVE  MaskInv'
  <1>1. PICK w : w = [v EXCEPT !.at = a, !.key = key]
    OBVIOUS
  <1>2. BatchFits(v)
    BY DEF MaskInv, MaskersInv
  <1>3. BatchFits(v)'
    BY <1>2, BatchStays DEF MaskInv
  <1>4. BatchFits(w)'
    BY <1>1, <1>3, StageFits
  <1>5. Step(c, w)
    BY <1>1
  <1> QED
    BY <1>4, <1>5, OneMasker DEF MaskInv

\* A step of a request to its next address, with a key or, refused, without.
LEMMA DoneKeeps ==
  ASSUME MaskInv, KeysInv', KeysStay, IndexStays, EntriesInv',
         NEW c \in Maskers, NEW v, v = masker[c], v # NoBatch, v.at \notin {"index", "answered"},
         NEW key \in Nat, Step(c, Done(v, key)),
         key # 0 => Leads(key, Current(v))', maskRefusals' = 0 => key # 0
  PROVE  MaskInv'
  <1>1. PICK w : w = Done(v, key)
    OBVIOUS
  <1>2. BatchFits(v)
    BY DEF MaskInv, MaskersInv
  <1>3. BatchFits(w)'
    BY <1>1, <1>2, DoneFits DEF MaskInv
  <1>4. Step(c, w)
    BY <1>1
  <1> QED
    BY <1>3, <1>4, OneMasker DEF MaskInv

\* A request that is at one of its addresses.
LEMMA AtAddress ==
  ASSUME MaskInv, NEW v, BatchFits(v), v.at \notin {"none", "index", "answered"}
  PROVE  /\ v # NoBatch /\ BatchForm(v) /\ v.key \in Nat /\ Late(v) \in {0, 1}
         /\ Current(v) \in Addresses /\ Head(v.todo) \in Places(v)
         /\ Current(v) = v.misses[Head(v.todo)]
         /\ \A a : [v EXCEPT !.at = a] = [v EXCEPT !.at = a, !.key = v.key]
  <1>1. v # NoBatch /\ BatchForm(v)
    BY DEF BatchFits, NoBatch
  <1>2. v.key \in Nat /\ Late(v) \in {0, 1}
        /\ \A a : [v EXCEPT !.at = a] = [v EXCEPT !.at = a, !.key = v.key]
    BY <1>1 DEF BatchForm, Late
  <1> QED
    BY <1>1, <1>2, FirstPlace

\* One step at a time: the address found in memory meanwhile,
LEMMA MaskFromMemoryKeeps ==
  ASSUME MaskInv, NEW c \in Maskers, MaskFromMemory(c)
  PROVE  MaskInv'
  <1>1. PICK v : v = masker[c]
    OBVIOUS
  <1>2. v.at = "mask" /\ BatchFits(v) /\ v.at \notin {"none", "index", "answered"}
    BY <1>1 DEF MaskInv, MaskersInv, MaskFromMemory
  <1>3. KeysInv' /\ KeysStay /\ IndexStays
    BY KeysStayPut DEF MaskInv, MaskFromMemory, IndexStays
  <1>4. EntriesInv'
    BY <1>3, EntriesStay DEF MaskInv, MaskFromMemory
  <1>5. v # NoBatch /\ v.key \in Nat
        /\ \A a : [v EXCEPT !.at = a] = [v EXCEPT !.at = a, !.key = v.key]
    BY <1>2, AtAddress
  <1>6. PICK u : u = Current(v)
    OBVIOUS
  <1>7. CASE u \in DOMAIN memory
    <2>1. PICK key : key = memory[u].val
      OBVIOUS
    <2>2. key \in Nat /\ key # 0 /\ Leads(key, u)
      BY <1>7, <2>1 DEF MaskInv, EntriesInv, MemoryEntry, KeysInv
    <2>3. Leads(key, u)'
      BY <1>3, <2>2, KeysStayTrue DEF MaskInv
    <2>4. Leads(key, Current(v))'
      BY <1>6, <2>3 DEF Leads, Current, Miss
    <2>5. Step(c, Done(v, key))
      BY <1>1, <1>6, <1>7, <2>1 DEF MaskFromMemory
    <2> QED
      BY <1>1, <1>2, <1>3, <1>4, <1>5, <2>2, <2>4, <2>5, DoneKeeps
  <1>8. CASE u \notin DOMAIN memory
    <2>1. PICK key : key = v.key
      OBVIOUS
    <2>2. PICK a : a = "lookup"
      OBVIOUS
    <2>3. Step(c, [v EXCEPT !.at = a, !.key = key])
      BY <1>1, <1>5, <1>6, <1>8, <2>1, <2>2 DEF MaskFromMemory
    <2>4. /\ a \in MaskStages \ {"index", "answered"} /\ key \in Nat
          /\ a \notin {"renewMask", "renewMaskIndex"} /\ a # "saveMaskIndex"
      BY <1>5, <2>1, <2>2 DEF MaskStages
    <2> QED
      BY <1>1, <1>2, <1>3, <1>4, <1>5, <2>3, <2>4, StageKeeps
  <1> QED
    BY <1>7, <1>8

\* the index asked for it,
LEMMA MaskLookUpKeeps ==
  ASSUME MaskInv, NEW c \in Maskers, MaskLookUp(c)
  PROVE  MaskInv'
  <1>1. PICK v : v = masker[c]
    OBVIOUS
  <1>2. BatchFits(v) /\ v.at \notin {"none", "index", "answered"}
    BY <1>1 DEF MaskInv, MaskersInv, MaskLookUp
  <1>3. KeysInv' /\ KeysStay /\ IndexStays
    BY KeysStayPut DEF MaskInv, MaskLookUp, IndexStays, RedisObeys, RedisRefuses
  <1>4. EntriesInv'
    BY <1>3, EntriesStay DEF MaskInv, MaskLookUp
  <1>5. /\ v # NoBatch /\ v.key \in Nat /\ Late(v) \in {0, 1}
        /\ Current(v) \in Addresses /\ Head(v.todo) \in Places(v)
        /\ Current(v) = v.misses[Head(v.todo)]
        /\ \A a : [v EXCEPT !.at = a] = [v EXCEPT !.at = a, !.key = v.key]
    BY <1>2, AtAddress
  <1>6. PICK u : u = Current(v)
    OBVIOUS
  <1>7. ASSUME u \in DOMAIN maskIndex, NEW key, key = maskIndex[u].val,
               Step(c, [v EXCEPT !.at = "renewMask", !.key = key]), RedisObeys
        PROVE  MaskInv'
    <2>1. key \in Nat /\ Leads(key, u)
      BY <1>7 DEF MaskInv, EntriesInv, IndexEntry, KeysInv
    <2>2. Leads(key, u)'
      BY <1>3, <2>1, KeysStayTrue DEF MaskInv
    <2>3. Leads(key, Current(v))'
      BY <1>6, <2>2 DEF Leads, Current, Miss
    <2>4. ASSUME maskRefusals' = 0 PROVE Young(key, 1 + Late(v))'
      <3>1. maskRefusals = 0
        BY <1>7, <2>4 DEF RedisObeys
      <3>2. BatchYoung(v)
        BY <1>2, <1>5, <3>1 DEF BatchFits
      <3>3. Young(key, 1 + Late(v))
        BY <1>2, <1>5, <1>6, <1>7, <3>2 DEF BatchYoung
      <3>4. PICK n : n = 1 + Late(v)
        OBVIOUS
      <3>5. n \in {0, 1, 2} /\ Young(key, n)
        <4>0. Late(v) \in {0, 1}
          BY <1>5
        <4>1. n \in {0, 1, 2}
          BY <3>4, <4>0
        <4>2. Young(key, n)
          BY <3>3, <3>4
        <4> QED
          BY <4>1, <4>2
      <3>6. Young(key, n)'
        BY <1>3, <3>5, KeysStayTrue DEF MaskInv
      <3> QED
        BY <3>4, <3>6 DEF Late
    <2>5. PICK a : a = "renewMask"
      OBVIOUS
    <2>6. a \in MaskStages \ {"index", "answered"} /\ a # "saveMaskIndex"
      BY <2>5 DEF MaskStages
    <2>7. Step(c, [v EXCEPT !.at = a, !.key = key])
      BY <1>7, <2>5
    <2> QED
      BY <1>1, <1>2, <1>3, <1>4, <1>5, <2>1, <2>3, <2>4, <2>6, <2>7, StageKeeps
  <1>8. ASSUME Step(c, [v EXCEPT !.at = "saveMask"]) PROVE MaskInv'
    <2>1. PICK key : key = v.key
      OBVIOUS
    <2>2. PICK a : a = "saveMask"
      OBVIOUS
    <2>3. Step(c, [v EXCEPT !.at = a, !.key = key])
      BY <1>5, <1>8, <2>1, <2>2
    <2>4. /\ a \in MaskStages \ {"index", "answered"} /\ key \in Nat
          /\ a \notin {"renewMask", "renewMaskIndex"} /\ a # "saveMaskIndex"
      BY <1>5, <2>1, <2>2 DEF MaskStages
    <2> QED
      BY <1>1, <1>2, <1>3, <1>4, <1>5, <2>3, <2>4, StageKeeps
  <1>9. \/ Step(c, [v EXCEPT !.at = "saveMask"])
        \/ \E key \in {maskIndex[x].val : x \in {u} \cap DOMAIN maskIndex} :
              Step(c, [v EXCEPT !.at = "renewMask", !.key = key]) /\ RedisObeys
    BY <1>1, <1>6 DEF MaskLookUp
  <1> QED
    BY <1>7, <1>8, <1>9

\* its key renewed,
LEMMA RenewMaskKeeps ==
  ASSUME MaskInv, NEW c \in Maskers, RenewMask(c)
  PROVE  MaskInv'
  <1>1. PICK v : v = masker[c]
    OBVIOUS
  <1>2. BatchFits(v) /\ v.at = "renewMask" /\ v.at \notin {"none", "index", "answered"}
    BY <1>1 DEF MaskInv, MaskersInv, RenewMask
  <1>3. KeysInv' /\ KeysStay /\ IndexStays
    BY KeysStayPut DEF MaskInv, RenewMask, IndexStays, RedisObeys, RedisRefuses
  <1>4. EntriesInv'
    BY <1>3, EntriesStay DEF MaskInv, RenewMask
  <1>5. /\ v # NoBatch /\ v.key \in Nat /\ BatchForm(v)
        /\ \A a : [v EXCEPT !.at = a] = [v EXCEPT !.at = a, !.key = v.key]
    BY <1>2, AtAddress
  <1>6. BatchFits(v)'
    BY <1>2, <1>3, BatchStays DEF MaskInv
  <1>7. PICK key : key = v.key
    OBVIOUS
  <1>8. PICK a : a = "renewMaskIndex"
    OBVIOUS
  <1>9. Leads(key, Current(v))'
    BY <1>2, <1>5, <1>6, <1>7 DEF BatchFits, BatchHome
  <1>10. maskRefusals' = 0 => Young(key, 1 + Late(v))'
    BY <1>2, <1>5, <1>6, <1>7 DEF BatchFits, BatchYoung
  <1>11. Step(c, [v EXCEPT !.at = a, !.key = key])
    BY <1>1, <1>5, <1>7, <1>8 DEF RenewMask
  <1>12. /\ a \in MaskStages \ {"index", "answered"} /\ key \in Nat /\ a # "saveMaskIndex"
    BY <1>5, <1>7, <1>8 DEF MaskStages
  <1> QED
    BY <1>1, <1>2, <1>3, <1>4, <1>5, <1>9, <1>10, <1>11, <1>12, StageKeeps

\* The last two steps for an address: the index has its entry for u, and
\* memory gets one.
LEMMA NamedKeeps ==
  ASSUME MaskInv, KeysInv', KeysStay, NEW c \in Maskers, NEW v, v = masker[c],
         v.at \in {"renewMaskIndex", "saveMaskIndex"},
         NEW u, u = Current(v), memory' = Remember(u, v.key), Step(c, Done(v, v.key)),
         \A x \in DOMAIN maskIndex' : x # u => x \in DOMAIN maskIndex /\ maskIndex'[x] = maskIndex[x],
         u \in DOMAIN maskIndex' =>
           \/ u \in DOMAIN maskIndex /\ maskIndex'[u] = maskIndex[u]
           \/ /\ maskIndex'[u].left = MaskLife /\ maskIndex'[u] \in [val : Nat, left : Nat]
              /\ Leads(maskIndex[u].val, u)' /\ (maskRefusals' = 0 => Young(maskIndex[u].val, 2)')
              /\ \/ u \in DOMAIN maskIndex /\ maskIndex'[u].val = maskIndex[u].val
                 \/ maskRefusals' = 0 => Young(maskIndex[u].val, 1)'
  PROVE  MaskInv'
  <1>0. MaskLife \in Nat /\ MaskLife > 2 /\ MemLife \in Nat /\ MemLife > 0
        /\ maskMinted' \in Nat /\ maskTicks' \in Nat
        /\ DOMAIN masked' \cap DOMAIN gone' = {}
        /\ \A k \in DOMAIN masked' : masked'[k].left \in Nat
    BY MaskAssumption DEF KeysInv
  <1>1. BatchFits(v) /\ v.at \notin {"none", "index", "answered"}
    BY DEF MaskInv, MaskersInv
  <1>2. /\ v # NoBatch /\ BatchForm(v) /\ v.key \in Nat /\ Late(v) \in {0, 1}
        /\ Current(v) \in Addresses
    BY <1>1, AtAddress
  <1>3. IndexStays
    BY DEF IndexStays
  <1>4. BatchFits(v)'
    BY <1>1, <1>3, BatchStays DEF MaskInv
  <1>5. PICK key : key = v.key
    OBVIOUS
  <1>6. Leads(key, Current(v))' /\ key # 0 /\ key \in Nat
    <2>1. Leads(key, Current(v))'
      BY <1>2, <1>4, <1>5 DEF BatchFits, BatchHome
    <2> QED
      BY <1>0, <1>2, <1>5, <2>1 DEF Leads
  <1>7. Leads(key, u)'
    BY <1>6 DEF Leads, Current, Miss
  <1>8. maskRefusals' = 0 => key \in DOMAIN masked'
    BY <1>2, <1>4, <1>5 DEF BatchFits, BatchYoung, Young
  <1>9. PICK e : e = memory'[u]
    OBVIOUS
  <1>10. /\ DOMAIN memory' = DOMAIN memory \cup {u} /\ e = [val |-> key, left |-> MemLife]
         /\ \A x \in DOMAIN memory : x # u => memory'[x] = memory[x]
    BY <1>5, <1>9 DEF Remember, Put
  <1>11. MemoryEntry(u, e)'
    BY <1>0, <1>7, <1>8, <1>10 DEF MemoryEntry, Leads
  <1>12. \A x \in DOMAIN memory' : \/ x \in DOMAIN memory /\ memory'[x] = memory[x]
                                   \/ x \in Addresses /\ MemoryEntry(x, memory[x])'
    <2> TAKE x \in DOMAIN memory'
    <2>1. CASE x = u
      <3>1. MemoryEntry(x, memory[x])'
        BY <1>9, <1>11, <2>1 DEF MemoryEntry, Leads
      <3> QED
        BY <1>2, <2>1, <3>1
    <2>2. CASE x # u
      BY <1>10, <2>2
    <2> QED
      BY <2>1, <2>2
  <1>13. ASSUME u \in DOMAIN maskIndex', ~ (u \in DOMAIN maskIndex /\ maskIndex'[u] = maskIndex[u])
         PROVE  IndexEntry(u, maskIndex[u])'
    <2>1. PICK d : d = maskIndex'[u]
      OBVIOUS
    <2>2. d.left = MaskLife /\ d \in [val : Nat, left : Nat] /\ Leads(d.val, u)'
          /\ (maskRefusals' = 0 => Young(d.val, 2)')
      BY <1>13, <2>1 DEF Leads, Young
    <2>3. d \in [val : 1 .. maskMinted', left : 1 .. MaskLife]
      BY <1>0, <2>2 DEF Leads
    <2>4. maskRefusals' = 0 => /\ d.val \in DOMAIN masked' /\ d.left <= masked'[d.val].left + 2
                               /\ d.val \notin DOMAIN gone'
      BY <1>0, <2>2 DEF Young
    <2>5. IndexEntry(u, d)'
      BY <2>2, <2>3, <2>4 DEF IndexEntry
    <2> QED
      BY <2>1, <2>5 DEF IndexEntry, Leads
  <1>14. EntriesInv'
    BY <1>2, <1>12, <1>13, EntriesStay DEF MaskInv
  <1>15. Step(c, Done(v, key))
    BY <1>5
  <1>16. v.at \notin {"index", "answered"}
    BY <1>1
  <1> QED
    BY <1>2, <1>3, <1>6, <1>14, <1>15, <1>16, DoneKeeps

\* its index entry renewed,
LEMMA RenewMaskIndexKeeps ==
  ASSUME MaskInv, NEW c \in Maskers, RenewMaskIndex(c)
  PROVE  MaskInv'
  <1>1. PICK v : v = masker[c]
    OBVIOUS
  <1>2. PICK u : u = Current(v)
    OBVIOUS
  <1>3. /\ v.at = "renewMaskIndex" /\ memory' = Remember(u, v.key) /\ Step(c, Done(v, v.key))
        /\ \/ maskIndex' = Extend(maskIndex, u, MaskLife) /\ RedisObeys
           \/ UNCHANGED maskIndex /\ RedisRefuses
    BY <1>1, <1>2 DEF RenewMaskIndex
  <1>4. BatchFits(v) /\ v.at \notin {"none", "index", "answered"}
    BY <1>1, <1>3 DEF MaskInv, MaskersInv
  <1>5. KeysInv' /\ KeysStay
    BY KeysStayPut DEF MaskInv, RenewMaskIndex, RedisObeys, RedisRefuses
  <1>6. \A x \in DOMAIN maskIndex' : x # u => x \in DOMAIN maskIndex /\ maskIndex'[x] = maskIndex[x]
    BY <1>3 DEF Extend, Put
  <1>7. ASSUME u \in DOMAIN maskIndex', ~ (u \in DOMAIN maskIndex /\ maskIndex'[u] = maskIndex[u])
        PROVE  /\ maskIndex'[u].left = MaskLife /\ maskIndex'[u] \in [val : Nat, left : Nat]
               /\ Leads(maskIndex[u].val, u)' /\ (maskRefusals' = 0 => Young(maskIndex[u].val, 2)')
               /\ u \in DOMAIN maskIndex /\ maskIndex'[u].val = maskIndex[u].val
    <2>1. u \in DOMAIN maskIndex /\ maskIndex'[u] = [val |-> maskIndex[u].val, left |-> MaskLife]
          /\ RedisObeys
      BY <1>3, <1>7 DEF Extend, Put
    <2>2. PICK k : k = maskIndex[u].val
      OBVIOUS
    <2>3. k \in Nat /\ MaskLife \in Nat /\ Leads(k, u)
      BY <2>1, <2>2, MaskAssumption DEF MaskInv, EntriesInv, IndexEntry, KeysInv
    <2>4. Leads(k, u)'
      BY <1>5, <2>3, KeysStayTrue DEF MaskInv
    <2>5. ASSUME maskRefusals' = 0 PROVE Young(k, 2)'
      <3>1. maskRefusals = 0
        BY <2>1, <2>5 DEF RedisObeys
      <3>2. BatchYoung(v) /\ v # NoBatch
        BY <1>4, <3>1 DEF BatchFits, NoBatch
      <3>3. v.misses[Head(v.todo)] = u /\ Head(v.todo) \in Places(v) /\ Late(v) \in {0, 1}
        BY <1>2, <1>4, AtAddress
      <3>4. Young(k, 1 + Late(v))
        BY <1>4, <2>1, <2>2, <3>2, <3>3 DEF BatchYoung
      <3>5. PICK n : n = 1 + Late(v)
        OBVIOUS
      <3>6. n \in {0, 1, 2}
        BY <3>3, <3>5
      <3>7. Young(k, n)
        BY <3>4, <3>5
      <3>8. Young(k, n)'
        BY <1>5, <3>6, <3>7, KeysStayTrue DEF MaskInv
      <3>9. \A j \in DOMAIN masked' : masked'[j].left \in Nat
        BY <1>5, MaskAssumption DEF KeysInv
      <3> QED
        BY <2>3, <3>3, <3>5, <3>8, <3>9 DEF Young
    <2>6. Leads(maskIndex[u].val, u)' /\ (maskRefusals' = 0 => Young(maskIndex[u].val, 2)')
      BY <2>1, <2>2, <2>4, <2>5 DEF Leads, Young
    <2> QED
      BY <2>1, <2>2, <2>3, <2>6
  <1> QED
    BY <1>1, <1>2, <1>3, <1>5, <1>6, <1>7, NamedKeeps

\* its index entry written,
LEMMA SaveMaskIndexKeeps ==
  ASSUME MaskInv, NEW c \in Maskers, SaveMaskIndex(c)
  PROVE  MaskInv'
  <1>1. PICK v : v = masker[c]
    OBVIOUS
  <1>2. PICK u : u = Current(v)
    OBVIOUS
  <1>3. /\ v.at = "saveMaskIndex" /\ memory' = Remember(u, v.key) /\ Step(c, Done(v, v.key))
        /\ \/ maskIndex' = Put(maskIndex, u, v.key, MaskLife) /\ RedisObeys
           \/ UNCHANGED maskIndex /\ RedisRefuses
    BY <1>1, <1>2 DEF SaveMaskIndex
  <1>4. BatchFits(v) /\ v.at \notin {"none", "index", "answered"}
    BY <1>1, <1>3 DEF MaskInv, MaskersInv
  <1>5. KeysInv' /\ KeysStay
    BY KeysStayPut DEF MaskInv, SaveMaskIndex, RedisObeys, RedisRefuses
  <1>6. \A x \in DOMAIN maskIndex' : x # u => x \in DOMAIN maskIndex /\ maskIndex'[x] = maskIndex[x]
    BY <1>3 DEF Put
  <1>7. ASSUME u \in DOMAIN maskIndex', ~ (u \in DOMAIN maskIndex /\ maskIndex'[u] = maskIndex[u])
        PROVE  /\ maskIndex'[u].left = MaskLife /\ maskIndex'[u] \in [val : Nat, left : Nat]
               /\ Leads(maskIndex[u].val, u)' /\ (maskRefusals' = 0 => Young(maskIndex[u].val, 2)')
               /\ (maskRefusals' = 0 => Young(maskIndex[u].val, 1)')
    <2>1. maskIndex'[u] = [val |-> v.key, left |-> MaskLife] /\ RedisObeys
      BY <1>3, <1>7 DEF Put
    <2>2. PICK k : k = v.key
      OBVIOUS
    <2>3. v # NoBatch /\ BatchForm(v) /\ k \in Nat /\ MaskLife \in Nat /\ Late(v) \in {0, 1}
      BY <1>4, <2>2, AtAddress, MaskAssumption
    <2>4. Leads(k, u)
      BY <1>2, <1>3, <1>4, <2>2, <2>3 DEF BatchFits, BatchHome
    <2>5. Leads(k, u)'
      BY <1>5, <2>4, KeysStayTrue DEF MaskInv
    <2>6. ASSUME maskRefusals' = 0 PROVE Young(k, 1)' /\ Young(k, 2)'
      <3>1. maskRefusals = 0
        BY <2>1, <2>6 DEF RedisObeys
      <3>2. Young(k, Late(v))
        BY <1>3, <1>4, <2>2, <2>3, <3>1 DEF BatchFits, BatchYoung
      <3>3. PICK n : n = Late(v)
        OBVIOUS
      <3>4. n \in {0, 1, 2}
        BY <2>3, <3>3
      <3>5. Young(k, n)
        BY <3>2, <3>3
      <3>6. Young(k, n)'
        BY <1>5, <3>4, <3>5, KeysStayTrue DEF MaskInv
      <3>7. \A j \in DOMAIN masked' : masked'[j].left \in Nat
        BY <1>5, MaskAssumption DEF KeysInv
      <3> QED
        BY <2>3, <3>3, <3>6, <3>7 DEF Young
    <2>7. /\ Leads(maskIndex[u].val, u)' /\ (maskRefusals' = 0 => Young(maskIndex[u].val, 2)')
          /\ (maskRefusals' = 0 => Young(maskIndex[u].val, 1)')
      BY <2>1, <2>2, <2>5, <2>6 DEF Leads, Young
    <2> QED
      BY <2>1, <2>2, <2>3, <2>7
  <1> QED
    BY <1>1, <1>2, <1>3, <1>5, <1>6, <1>7, NamedKeeps

\* a new key written,
LEMMA SaveMaskKeeps ==
  ASSUME MaskInv, NEW c \in Maskers, SaveMask(c)
  PROVE  MaskInv'
  <1>1. PICK v : v = masker[c]
    OBVIOUS
  <1>2. BatchFits(v) /\ v.at \notin {"none", "index", "answered"}
    BY <1>1 DEF MaskInv, MaskersInv, SaveMask
  <1>3. /\ v # NoBatch /\ BatchForm(v) /\ v.key \in Nat /\ Late(v) \in {0, 1}
        /\ Current(v) \in Addresses
    BY <1>2, AtAddress
  <1>4. KeysInv' /\ KeysStay
    BY <1>1, <1>3, KeysStayPut DEF MaskInv, SaveMask, RedisObeys, RedisRefuses
  <1>5. IndexStays
    BY DEF SaveMask, IndexStays
  <1>6. EntriesInv'
    BY <1>4, EntriesStay DEF MaskInv, SaveMask
  <1>7. CASE /\ maskMinted' = maskMinted + 1
             /\ masked' = Put(masked, maskMinted', Current(v), MaskLife)
             /\ Step(c, [v EXCEPT !.at = "saveMaskIndex", !.key = maskMinted']) /\ RedisObeys
    <2>1. PICK key : key = maskMinted + 1
      OBVIOUS
    <2>2. key \in Nat /\ key \in 1 .. maskMinted' /\ MaskLife \in Nat
      BY <1>7, <2>1, MaskAssumption DEF MaskInv, KeysInv
    <2>3. key \in DOMAIN masked' /\ masked'[key] = [val |-> Current(v), left |-> MaskLife]
      BY <1>7, <2>1 DEF Put
    <2>4. Leads(key, Current(v))'
      BY <2>2, <2>3 DEF Leads, Current, Miss
    <2>5. Young(key, Late(v))'
      BY <1>3, <2>2, <2>3 DEF Young, Late
    <2>6. PICK a : a = "saveMaskIndex"
      OBVIOUS
    <2>7. a \in MaskStages \ {"index", "answered"} /\ a \notin {"renewMask", "renewMaskIndex"}
      BY <2>6 DEF MaskStages
    <2>8. Step(c, [v EXCEPT !.at = a, !.key = key])
      BY <1>7, <2>1, <2>6
    <2> QED
      BY <1>1, <1>2, <1>3, <1>4, <1>5, <1>6, <2>2, <2>4, <2>5, <2>7, <2>8, StageKeeps
  <1>8. CASE Step(c, Done(v, 0)) /\ RedisRefuses
    <2>1. PICK key : key = 0
      OBVIOUS
    <2>2. maskRefusals' # 0
      BY <1>8 DEF MaskInv, KeysInv, RedisRefuses
    <2>3. Step(c, Done(v, key)) /\ key \in Nat /\ v.at \notin {"index", "answered"}
      BY <1>2, <1>8, <2>1
    <2> QED
      BY <1>1, <1>3, <1>4, <1>5, <1>6, <2>1, <2>2, <2>3, DoneKeeps
  <1> QED
    BY <1>1, <1>7, <1>8 DEF SaveMask

\* the batch split in what memory holds and the misses,
LEMMA AskMemoryKeeps ==
  ASSUME MaskInv, NEW c \in Maskers, NEW b \in Batches, AskMemory(c, b)
  PROVE  MaskInv'
  <1>1. PICK misses : misses = Kept(b, Addresses \ DOMAIN memory)
    OBVIOUS
  <1>2. PICK out : out = [u \in ToSet(b) \cap DOMAIN memory |-> memory[u].val]
    OBVIOUS
  <1>3. PICK w : w = [at |-> IF misses = <<>> THEN "answered" ELSE "index", slow |-> FALSE,
                      batch |-> b, misses |-> misses, todo |-> <<>>, key |-> 0, out |-> out]
    OBVIOUS
  <1>4. Step(c, w)
    BY <1>1, <1>2, <1>3 DEF AskMemory
  <1>5. b \in Seq(Addresses) /\ Len(b) \in Nat /\ DOMAIN b = 1 .. Len(b)
    BY MaskAssumption, LenProperties
  <1>6. /\ misses \in Seq(Addresses)
        /\ {misses[k] : k \in 1 .. Len(misses)}
             = {b[i] : i \in 1 .. Len(b)} \cap (Addresses \ DOMAIN memory)
    <2>1. PICK T : T = Addresses \ DOMAIN memory
      OBVIOUS
    <2>2. misses = Kept(b, T)
      BY <1>1, <2>1
    <2>3. /\ Kept(b, T) \in Seq(Addresses)
          /\ {Kept(b, T)[k] : k \in 1 .. Len(Kept(b, T))} = {b[i] : i \in 1 .. Len(b)} \cap T
      BY <1>5, KeptElements
    <2> QED
      BY <2>1, <2>2, <2>3
  <1>7. \A i \in 1 .. Len(b) : b[i] \in Addresses
    BY <1>5
  <1>8. {misses[k] : k \in DOMAIN misses} = {b[i] : i \in DOMAIN b} \ DOMAIN memory
    <2>1. DOMAIN misses = 1 .. Len(misses)
      BY <1>6, LenProperties
    <2> QED
      BY <1>5, <1>6, <1>7, <2>1
  <1>9. DOMAIN out = {b[i] : i \in DOMAIN b} \cap DOMAIN memory
        /\ \A u \in DOMAIN out : out[u] = memory[u].val
    BY <1>2 DEF ToSet
  <1>10. KeysInv' /\ KeysStay
    BY KeysStayPut DEF MaskInv, AskMemory
  <1>11. IndexStays
    BY DEF AskMemory, IndexStays
  <1>12. EntriesInv'
    BY <1>10, EntriesStay DEF MaskInv, AskMemory
  <1>13. BatchForm(w)'
    <2>1. Places(w) = {}
      BY <1>3 DEF Places
    <2>2. w \in [at : MaskStages, slow : BOOLEAN, batch : Batches, misses : Seq(Addresses),
                 todo : Seq(Nat), key : Nat, out : {w.out}]
      BY <1>3, <1>6 DEF MaskStages
    <2>3. w.at \in {"index", "answered"} /\ w.todo = <<>>
      BY <1>3
    <2> QED
      BY <2>1, <2>2, <2>3 DEF BatchForm, Places
  <1>14. BatchHome(w)'
    <2>1. ASSUME NEW u \in DOMAIN out PROVE u \in Addresses /\ Leads(out[u], u)'
      <3>1. PICK k : k = out[u]
        OBVIOUS
      <3>2. u \in Addresses /\ Leads(k, u)
        BY <1>9, <3>1 DEF MaskInv, EntriesInv, MemoryEntry
      <3>3. Leads(k, u)'
        BY <1>10, <3>2, KeysStayTrue DEF MaskInv
      <3> QED
        BY <3>1, <3>2, <3>3 DEF Leads
    <2>2. w.out = out /\ w.at \notin {"renewMask", "renewMaskIndex", "saveMaskIndex"}
      BY <1>3
    <2>3. \A u \in DOMAIN w.out : u \in Addresses /\ Leads(w.out[u], u)'
      BY <2>1, <2>2 DEF Leads
    <2> QED
      BY <2>2, <2>3 DEF BatchHome
  <1>15. BatchYoung(w)'
    BY <1>3 DEF BatchYoung
  <1>16. BatchCovered(w)'
    <2>1. w.out = out /\ w.misses = misses /\ w.batch = b /\ w.todo = <<>>
      BY <1>3
    <2>2. Unmasked(w)' = {misses[i] : i \in DOMAIN misses}
      <3>1. CASE misses = <<>>
        <4>1. w.at = "answered"
          BY <1>3, <3>1
        <4>2. Places(w)' = {}
          BY <2>1 DEF Places
        <4>3. DOMAIN misses = {}
          BY <3>1
        <4> QED
          BY <4>1, <4>2, <4>3 DEF Unmasked
      <3>2. CASE misses # <<>>
        BY <1>3, <2>1, <3>2 DEF Unmasked
      <3> QED
        BY <3>1, <3>2
    <2>3. DOMAIN out \cup {misses[i] : i \in DOMAIN misses} = {b[i] : i \in DOMAIN b}
      BY <1>8, <1>9
    <2> QED
      BY <2>1, <2>2, <2>3 DEF BatchCovered
  <1>17. BatchFits(w)'
    BY <1>13, <1>14, <1>15, <1>16 DEF BatchFits
  <1> QED
    BY <1>4, <1>10, <1>11, <1>12, <1>17, OneMasker DEF MaskInv

\* and a restart, which empties memory.
LEMMA MaskRestartKeeps ==
  ASSUME MaskInv, MaskRestart
  PROVE  MaskInv'
  <1>1. KeysInv' /\ KeysStay
    BY KeysStayPut DEF MaskInv, MaskRestart
  <1>2. EntriesInv'
    BY <1>1, EntriesStay DEF MaskInv, MaskRestart, Empty
  <1>3. MaskersInv'
    BY DEF MaskRestart, MaskersInv, BatchFits
  <1> QED
    BY <1>1, <1>2, <1>3 DEF MaskInv

\* What is left after the index has answered for the places in S.
LeftOf(v, S, answer) ==
  [v EXCEPT !.todo = Kept([i \in DOMAIN v.misses |-> i], DOMAIN v.misses \ S),
            !.at = IF S = DOMAIN v.misses THEN "answered" ELSE "mask",
            !.out = Over(answer, @)]

\* What it answered for them.
AnswersFor(v, S) ==
  [u \in {v.misses[i] : i \in S} |->
     maskIndex[v.misses[CHOOSE i \in S : v.misses[i] = u]].val]

\* The misses of memory that the index knows.
HitsOf(v) == {i \in DOMAIN v.misses : v.misses[i] \in DOMAIN maskIndex}

\* The misses that the index does not answer are left to do, each by its place.
LEMMA LeftForm ==
  ASSUME NEW v, BatchForm(v), v.at = "index", NEW S \in SUBSET DOMAIN v.misses, NEW answer,
         NEW w, w = LeftOf(v, S, answer)
  PROVE  /\ BatchForm(w) /\ w.at \in {"mask", "answered"} /\ Places(w) = DOMAIN v.misses \ S
         /\ w.slow = v.slow /\ w.batch = v.batch /\ w.misses = v.misses
         /\ w.out = Over(answer, v.out)
  <1>1. /\ v \in [at : MaskStages, slow : BOOLEAN, batch : Batches, misses : Seq(Addresses),
                  todo : Seq(Nat), key : Nat, out : {v.out}]
    BY DEF BatchForm
  <1>2. PICK n \in Nat : n = Len(v.misses) /\ DOMAIN v.misses = 1 .. n
    BY <1>1, LenProperties
  <1>3. PICK s : s = [i \in 1 .. n |-> i]
    OBVIOUS
  <1>4. s \in Seq(Nat) /\ Len(s) = n /\ \A i \in 1 .. n : s[i] = i
    BY <1>3
  <1>5. PICK T : T = (1 .. n) \ S
    OBVIOUS
  <1>6. PICK t : t = Kept(s, T)
    OBVIOUS
  <1>7. t \in Seq(Nat) /\ {t[k] : k \in 1 .. Len(t)} = {s[i] : i \in 1 .. n} \cap T
    BY <1>4, <1>6, KeptElements
  <1>8. {s[i] : i \in 1 .. n} = 1 .. n
    BY <1>4
  <1>9. DOMAIN t = 1 .. Len(t)
    BY <1>7, LenProperties
  <1>10. {t[k] : k \in DOMAIN t} = DOMAIN v.misses \ S
    BY <1>2, <1>5, <1>7, <1>8, <1>9
  <1>11. PICK out : out = Over(answer, v.out)
    OBVIOUS
  <1>12. PICK at : at = IF S = DOMAIN v.misses THEN "answered" ELSE "mask"
    OBVIOUS
  <1>13. t = Kept([i \in DOMAIN v.misses |-> i], DOMAIN v.misses \ S)
    BY <1>2, <1>3, <1>5, <1>6
  <1>14. w = [v EXCEPT !.todo = t, !.at = at, !.out = out]
    BY <1>11, <1>12, <1>13 DEF LeftOf
  <1>15. w = [at |-> at, slow |-> v.slow, batch |-> v.batch, misses |-> v.misses,
              todo |-> t, key |-> v.key, out |-> out]
    BY <1>1, <1>14
  <1>16. Places(w) = DOMAIN v.misses \ S
    <2>1. w.todo = t
      BY <1>15
    <2>2. Places(w) = {t[k] : k \in DOMAIN t}
      BY <2>1 DEF Places
    <2> QED
      BY <1>10, <2>2
  <1>17. t = <<>> <=> S = DOMAIN v.misses
    <2>1. t = <<>> => DOMAIN v.misses \ S = {}
      BY <1>10
    <2>2. t # <<>> => 1 \in 1 .. Len(t)
      BY <1>7, EmptySeq
    <2>3. t # <<>> => DOMAIN v.misses \ S # {}
      BY <1>9, <1>10, <2>2
    <2> QED
      BY <2>1, <2>3
  <1>18. w.at \in {"index", "answered"} <=> w.todo = <<>>
    <2>1. w.at = at /\ w.todo = t
      BY <1>15
    <2>2. at \in {"index", "answered"} <=> S = DOMAIN v.misses
      BY <1>12
    <2> QED
      BY <1>17, <2>1, <2>2
  <1>19. w \in [at : MaskStages, slow : BOOLEAN, batch : Batches, misses : Seq(Addresses),
                todo : Seq(Nat), key : Nat, out : {w.out}]
    <2>1. at \in MaskStages /\ t \in Seq(Nat)
      BY <1>7, <1>12 DEF MaskStages
    <2> QED
      BY <1>1, <1>15, <2>1
  <1>20. Places(w) \subseteq DOMAIN w.misses
    BY <1>15, <1>16
  <1>21. BatchForm(w)
    BY <1>18, <1>19, <1>20 DEF BatchForm
  <1> QED
    BY <1>11, <1>12, <1>15, <1>16, <1>21

\* The index asked for all misses at once.
LEMMA AskIndexKeeps ==
  ASSUME MaskInv, NEW c \in Maskers, AskIndex(c)
  PROVE  MaskInv'
  <1>1. PICK v : v = masker[c]
    OBVIOUS
  <1>2. v.at = "index" /\ BatchFits(v) /\ v # NoBatch
    <2>1. v.at = "index"
      BY <1>1 DEF AskIndex
    <2> QED
      BY <1>1, <2>1 DEF MaskInv, MaskersInv, NoBatch
  <1>3. BatchForm(v) /\ BatchHome(v)
    BY <1>2 DEF BatchFits
  <1>4. PICK hits : hits = HitsOf(v)
    OBVIOUS
  <1>9. PICK found : found = AnswersFor(v, hits)
    OBVIOUS
  <1>12. PICK none : none = AnswersFor(v, {})
    OBVIOUS
  <1> DEFINE Kin(f) == [u \in DOMAIN f |-> Remember(u, f[u])[u]]
  <1>5. \/ /\ Step(c, LeftOf(v, hits, found)) /\ RedisObeys
           /\ memory' = Over(Kin(found), memory)
        \/ Step(c, LeftOf(v, {}, none)) /\ RedisRefuses /\ UNCHANGED memory
    <2>1. LET x == masker[c]
              S == HitsOf(x)
          IN \/ /\ Step(c, LeftOf(x, S, AnswersFor(x, S))) /\ RedisObeys
                /\ memory' = Over(Kin(AnswersFor(x, S)), memory)
             \/ Step(c, LeftOf(x, {}, AnswersFor(x, {}))) /\ RedisRefuses /\ UNCHANGED memory
      BY Zenon DEF AskIndex, Miss, LeftOf, AnswersFor, HitsOf
    <2> QED
      BY <1>1, <1>4, <1>9, <1>12, <2>1
  <1>6. KeysInv' /\ KeysStay /\ IndexStays
    BY KeysStayPut DEF MaskInv, AskIndex, IndexStays, RedisObeys, RedisRefuses
  <1>7. /\ \A u, k : Leads(k, u) => Leads(k, u)'
        /\ \A u, e : IndexEntry(u, e) => IndexEntry(u, e)'
    BY <1>6, KeysStayTrue DEF MaskInv
  <1>8. /\ DOMAIN found = {v.misses[i] : i \in hits}
        /\ \A u \in DOMAIN found :
              u \in DOMAIN maskIndex /\ u \in Addresses /\ found[u] = maskIndex[u].val
    <2>1. ASSUME NEW u \in {v.misses[i] : i \in hits}
          PROVE  u \in DOMAIN maskIndex /\ v.misses[CHOOSE i \in hits : v.misses[i] = u] = u
      BY <1>4 DEF HitsOf
    <2>2. DOMAIN maskIndex \subseteq Addresses
      BY DEF MaskInv, EntriesInv
    <2> QED
      BY <1>9, <2>1, <2>2 DEF AnswersFor
  <1>10. CASE Step(c, LeftOf(v, {}, none)) /\ RedisRefuses /\ UNCHANGED memory
    <2>1. PICK w : w = LeftOf(v, {}, none)
      OBVIOUS
    <2>2. BatchForm(w) /\ w.at \in {"mask", "answered"} /\ w.out = Over(none, v.out)
      BY <1>2, <1>3, <2>1, LeftForm
    <2>3. DOMAIN w.out = DOMAIN v.out /\ \A u \in DOMAIN v.out : w.out[u] = v.out[u]
      BY <1>12, <2>2 DEF Over, AnswersFor
    <2>4. BatchFits(v)'
      BY <1>2, <1>6, BatchStays DEF MaskInv
    <2>5. BatchHome(v)'
      BY <1>2, <2>4 DEF BatchFits
    <2>6. BatchHome(w)'
      BY <2>2, <2>3, <2>5 DEF BatchHome
    <2>7. maskRefusals' # 0
      BY <1>10 DEF MaskInv, KeysInv, RedisRefuses
    <2>8. BatchForm(w)'
      BY <2>2 DEF BatchForm, Places
    <2>9. BatchFits(w)'
      BY <2>6, <2>7, <2>8 DEF BatchFits
    <2>10. Step(c, w)
      BY <1>10, <2>1
    <2>11. EntriesInv'
      BY <1>6, <1>10, EntriesStay DEF MaskInv, AskIndex
    <2> QED
      BY <1>6, <2>9, <2>10, <2>11, OneMasker DEF MaskInv
  <1>11. ASSUME Step(c, LeftOf(v, hits, found)), RedisObeys, memory' = Over(Kin(found), memory)
         PROVE  MaskInv'
    <2>1. PICK w : w = LeftOf(v, hits, found)
      OBVIOUS
    <2>2. Step(c, w)
      BY <1>11, <2>1
    <2>3. /\ DOMAIN found = {v.misses[i] : i \in hits}
          /\ \A u \in DOMAIN found :
                u \in DOMAIN maskIndex /\ u \in Addresses /\ found[u] = maskIndex[u].val
      BY <1>8
    <2>4. memory' = Over([u \in DOMAIN found |-> Remember(u, found[u])[u]], memory)
      BY <1>11
    <2>5. /\ BatchForm(w) /\ w.at \in {"mask", "answered"} /\ Places(w) = DOMAIN v.misses \ hits
          /\ w.slow = v.slow /\ w.batch = v.batch /\ w.misses = v.misses
          /\ w.out = Over(found, v.out)
      <3>1. hits \in SUBSET DOMAIN v.misses
        BY <1>4 DEF HitsOf
      <3> QED
        BY <1>2, <1>3, <2>1, <3>1, LeftForm
    <2>6. BatchFits(v)'
      BY <1>2, <1>6, BatchStays DEF MaskInv
    <2>7. BatchHome(v)' /\ (maskRefusals' = 0 => BatchCovered(v)')
      BY <1>2, <2>6 DEF BatchFits
    <2>8. /\ DOMAIN w.out = DOMAIN found \cup DOMAIN v.out
          /\ \A u \in DOMAIN w.out : w.out[u] = IF u \in DOMAIN found THEN found[u] ELSE v.out[u]
      BY <2>5 DEF Over
    <2>9. ASSUME NEW u \in DOMAIN found PROVE IndexEntry(u, maskIndex[u])' /\ Leads(found[u], u)'
      <3>1. PICK e : e = maskIndex[u]
        OBVIOUS
      <3>2. IndexEntry(u, e)
        BY <2>3, <3>1 DEF MaskInv, EntriesInv
      <3>3. IndexEntry(u, e)' /\ maskIndex'[u] = e
        BY <1>7, <3>1, <3>2 DEF AskIndex
      <3>4. Leads(e.val, u)' /\ found[u] = e.val
        BY <2>3, <3>1, <3>3 DEF IndexEntry
      <3> QED
        BY <3>3, <3>4 DEF Leads, IndexEntry
    <2>10. BatchHome(w)'
      <3>1. DOMAIN w.out \subseteq Addresses
        BY <2>3, <2>7, <2>8 DEF BatchHome
      <3>2. ASSUME NEW u \in DOMAIN w.out PROVE Leads(w.out[u], u)'
        <4>1. CASE u \in DOMAIN found
          <5>1. w.out[u] = found[u]
            BY <2>8, <4>1
          <5> QED
            BY <2>9, <4>1, <5>1
        <4>2. CASE u \notin DOMAIN found
          <5>1. w.out[u] = v.out[u] /\ u \in DOMAIN v.out
            BY <2>8, <4>2
          <5> QED
            BY <2>7, <5>1 DEF BatchHome
        <4> QED
          BY <4>1, <4>2
      <3> QED
        BY <2>5, <3>1, <3>2 DEF BatchHome
    <2>11. BatchYoung(w)'
      <3>1. Places(w)' = Places(w) /\ maskIndex' = maskIndex
        BY DEF Places, AskIndex
      <3>2. \A i \in Places(w) : w.misses[i] \notin DOMAIN maskIndex
        BY <1>4, <2>5 DEF HitsOf
      <3>3. w.at \notin {"renewMask", "renewMaskIndex", "saveMaskIndex"}
        BY <2>5
      <3> QED
        BY <3>1, <3>2, <3>3 DEF BatchYoung
    <2>12. ASSUME maskRefusals' = 0 PROVE BatchCovered(w)'
      <3>1. Unmasked(v)' = {v.misses[i] : i \in DOMAIN v.misses}
        BY <1>2 DEF Unmasked
      <3>2. w.at # "index" /\ Places(w)' = Places(w)
        BY <2>5 DEF Places
      <3>3. Unmasked(w)' = {v.misses[i] : i \in DOMAIN v.misses \ hits}
        BY <2>5, <3>2 DEF Unmasked
      <3>4. hits \subseteq DOMAIN v.misses
        BY <1>4 DEF HitsOf
      <3>5. DOMAIN w.out \cup Unmasked(w)' = DOMAIN v.out \cup Unmasked(v)'
        BY <2>3, <2>8, <3>1, <3>3, <3>4
      <3> QED
        BY <2>5, <2>7, <2>12, <3>5 DEF BatchCovered
    <2>13. BatchForm(w)'
      BY <2>5 DEF BatchForm, Places
    <2>14. BatchFits(w)'
      BY <2>10, <2>11, <2>12, <2>13 DEF BatchFits
    <2>15. ASSUME NEW u \in DOMAIN memory'
           PROVE  \/ u \in DOMAIN memory /\ memory'[u] = memory[u]
                  \/ u \in Addresses /\ MemoryEntry(u, memory[u])'
      <3>1. CASE u \in DOMAIN found
        <4>1. PICK e : e = [val |-> found[u], left |-> MemLife]
          OBVIOUS
        <4>2. memory'[u] = e
          BY <2>4, <3>1, <4>1 DEF Over, Remember, Put
        <4>3. PICK d : d = maskIndex'[u]
          OBVIOUS
        <4>4. IndexEntry(u, d)' /\ d.val = e.val
          BY <2>3, <2>9, <3>1, <4>1, <4>3 DEF IndexEntry, Leads, AskIndex
        <4>5. MemLife \in Nat /\ MemLife > 0 /\ maskTicks' \in Nat /\ maskMinted' \in Nat
              /\ \A k \in DOMAIN gone' : gone'[k] \in Nat
          BY <1>6, MaskAssumption DEF KeysInv
        <4>6. e.left = MemLife /\ e \in [val : 1 .. maskMinted', left : 1 .. MemLife]
          BY <4>1, <4>4, <4>5 DEF IndexEntry
        <4>7. maskRefusals' = 0 /\ e.val \in DOMAIN gone' =>
                 maskTicks' - gone'[e.val] + e.left <= MemLife + 1
          BY <4>4, <4>5, <4>6 DEF IndexEntry
        <4>8. MemoryEntry(u, e)'
          BY <4>4, <4>6, <4>7 DEF MemoryEntry, IndexEntry
        <4>9. MemoryEntry(u, memory[u])'
          BY <4>2, <4>8 DEF MemoryEntry, Leads
        <4> QED
          BY <2>3, <3>1, <4>9
      <3>2. CASE u \notin DOMAIN found
        BY <2>4, <3>2 DEF Over
      <3> QED
        BY <3>1, <3>2
    <2>16. UNCHANGED maskIndex
      BY DEF AskIndex
    <2>17. EntriesInv'
      BY <1>6, <2>15, <2>16, EntriesStay DEF MaskInv
    <2> QED
      BY <1>6, <2>2, <2>14, <2>17, OneMasker DEF MaskInv
  <1> HIDE DEF Kin
  <1> QED
    BY <1>5, <1>10, <1>11

\* Time passes: keys may expire, and those that were young are a tick older.
LEMMA MaskTickKeeps ==
  ASSUME MaskInv, MaskTick
  PROVE  MaskInv'
  <1>1. /\ maskTicks' = maskTicks + 1 /\ UNCHANGED <<maskMinted, maskRefusals>>
        /\ memory' = Aged(memory) /\ maskIndex' = Aged(maskIndex) /\ masked' = Aged(masked)
        /\ gone' = Over([k \in DOMAIN masked \ DOMAIN masked' |-> maskTicks'], gone)
    BY DEF MaskTick, evictExpired
  <1>2. /\ MaskLife \in Nat /\ MaskLife > 2 /\ MemLife \in Nat /\ MemLife > 0
        /\ maskMinted \in Nat /\ maskTicks \in Nat /\ maskRefusals \in Nat
    BY MaskAssumption DEF MaskInv, KeysInv
  <1>3. /\ DOMAIN masked' = {k \in DOMAIN masked : masked[k].left > 1}
        /\ \A k \in DOMAIN masked' :
             /\ masked'[k] = [val |-> masked[k].val, left |-> masked[k].left - 1]
             /\ masked'[k].val = masked[k].val /\ masked'[k].left = masked[k].left - 1
    <2>1. DOMAIN masked' = {k \in DOMAIN masked : masked[k].left > 1}
      BY <1>1 DEF Aged
    <2>2. ASSUME NEW k \in DOMAIN masked'
          PROVE  masked'[k] = [val |-> masked[k].val, left |-> masked[k].left - 1]
      BY <1>1 DEF Aged
    <2>3. ASSUME NEW k \in DOMAIN masked'
          PROVE  masked'[k].val = masked[k].val /\ masked'[k].left = masked[k].left - 1
      BY <2>2
    <2> QED
      BY <2>1, <2>2, <2>3
  <1>4. /\ DOMAIN memory' = {u \in DOMAIN memory : memory[u].left > 1}
        /\ \A u \in DOMAIN memory' : memory'[u] = [val |-> memory[u].val, left |-> memory[u].left - 1]
    BY <1>1 DEF Aged
  <1>5. /\ DOMAIN maskIndex' = {u \in DOMAIN maskIndex : maskIndex[u].left > 1}
        /\ \A u \in DOMAIN maskIndex' :
              /\ maskIndex'[u] = [val |-> maskIndex[u].val, left |-> maskIndex[u].left - 1]
              /\ maskIndex'[u].val = maskIndex[u].val
    <2>1. DOMAIN maskIndex' = {u \in DOMAIN maskIndex : maskIndex[u].left > 1}
      BY <1>1 DEF Aged
    <2>2. ASSUME NEW u \in DOMAIN maskIndex'
          PROVE  maskIndex'[u] = [val |-> maskIndex[u].val, left |-> maskIndex[u].left - 1]
      BY <1>1 DEF Aged
    <2>3. ASSUME NEW u \in DOMAIN maskIndex' PROVE maskIndex'[u].val = maskIndex[u].val
      BY <2>2
    <2> QED
      BY <2>1, <2>2, <2>3
  <1>6. /\ DOMAIN gone' = (DOMAIN masked \ DOMAIN masked') \cup DOMAIN gone
        /\ \A k \in DOMAIN gone' :
              gone'[k] = IF k \in DOMAIN masked \ DOMAIN masked' THEN maskTicks' ELSE gone[k]
    BY <1>1 DEF Over
  <1>7. /\ DOMAIN masked \cup DOMAIN gone = 1 .. maskMinted /\ DOMAIN masked \cap DOMAIN gone = {}
        /\ \A k \in DOMAIN masked : masked[k] \in [val : Addresses, left : 1 .. MaskLife]
        /\ \A k \in DOMAIN gone : gone[k] \in 0 .. maskTicks
    BY DEF MaskInv, KeysInv
  <1>8. KeysInv'
    <2>1. \A k \in DOMAIN masked' : masked'[k] \in [val : Addresses, left : 1 .. MaskLife]
      <3> TAKE k \in DOMAIN masked'
      <3>1. masked[k] \in [val : Addresses, left : 1 .. MaskLife] /\ masked[k].left > 1
        BY <1>3, <1>7
      <3>2. masked[k].left - 1 \in 1 .. MaskLife /\ masked[k].val \in Addresses
        BY <1>2, <3>1
      <3>3. masked'[k] = [val |-> masked[k].val, left |-> masked[k].left - 1]
        BY <1>3
      <3> QED
        BY <3>2, <3>3
    <2>2. \A k \in DOMAIN gone' : gone'[k] \in 0 .. maskTicks'
      BY <1>1, <1>2, <1>6, <1>7
    <2>3. DOMAIN masked' \subseteq DOMAIN masked
      BY <1>3
    <2>4. DOMAIN masked' \cup DOMAIN gone' = 1 .. maskMinted'
      BY <1>1, <1>6, <1>7, <2>3
    <2>5. DOMAIN masked' \cap DOMAIN gone' = {}
      BY <1>6, <1>7, <2>3
    <2>6. maskMinted' \in Nat /\ maskTicks' \in Nat /\ maskRefusals' \in Nat
      BY <1>1, <1>2
    <2> QED
      BY <2>1, <2>2, <2>4, <2>5, <2>6 DEF KeysInv
  <1>9. ASSUME NEW k, NEW u, Leads(k, u) PROVE Leads(k, u)'
    BY <1>1, <1>3, <1>9 DEF Leads
  <1>10. ASSUME NEW k, NEW n \in {0, 1}, Young(k, n) PROVE Young(k, n + 1)'
    <2>1. k \in DOMAIN masked /\ masked[k].left >= MaskLife - n
      BY <1>10 DEF Young
    <2>2. masked[k].left \in Nat
      BY <1>2, <1>7, <2>1
    <2>3. masked[k].left > 1
      BY <1>2, <2>1, <2>2
    <2>4. k \in DOMAIN masked' /\ masked'[k].left = masked[k].left - 1
      BY <1>3, <2>1, <2>3
    <2> QED
      BY <1>2, <2>1, <2>2, <2>4 DEF Young
  <1>11. ASSUME NEW k \in 1 .. maskMinted, k \in DOMAIN gone'
         PROVE  \/ k \in DOMAIN gone /\ gone'[k] = gone[k] /\ gone[k] \in Nat
                \/ k \in DOMAIN masked /\ gone'[k] = maskTicks' /\ masked[k].left = 1
    <2>1. CASE k \in DOMAIN gone
      BY <1>2, <1>6, <1>7, <2>1
    <2>2. CASE k \notin DOMAIN gone
      <3>1. k \in DOMAIN masked /\ k \notin DOMAIN masked'
        BY <1>6, <1>11, <2>2
      <3>2. masked[k].left \in 1 .. MaskLife /\ ~ (masked[k].left > 1)
        BY <1>3, <1>7, <3>1
      <3>3. gone'[k] = maskTicks'
        BY <1>6, <1>11, <3>1
      <3> QED
        BY <1>2, <3>1, <3>2, <3>3
    <2> QED
      BY <2>1, <2>2
  <1>12. ASSUME NEW u, NEW e, IndexEntry(u, e), e.left > 1,
                NEW d, d = [val |-> e.val, left |-> e.left - 1]
         PROVE  IndexEntry(u, d)'
    <2>1. e.val \in 1 .. maskMinted /\ e.left \in 1 .. MaskLife /\ Leads(e.val, u)
          /\ d.val = e.val /\ d.left = e.left - 1
      BY <1>12 DEF IndexEntry
    <2>2. d \in [val : 1 .. maskMinted', left : 1 .. MaskLife] /\ Leads(d.val, u)'
      <3>1. e.left - 1 \in 1 .. MaskLife /\ maskMinted' = maskMinted
        BY <1>1, <1>2, <1>12, <2>1
      <3>2. d \in [val : 1 .. maskMinted', left : 1 .. MaskLife]
        BY <1>12, <2>1, <3>1
      <3> QED
        BY <1>9, <2>1, <3>2
    <2>3. ASSUME maskRefusals' = 0, d.val \in DOMAIN masked'
          PROVE  d.left <= masked'[d.val].left + 2
      <3>1. e.val \in DOMAIN masked /\ masked'[e.val].left = masked[e.val].left - 1
            /\ masked[e.val].left \in Nat
        <4>1. e.val \in DOMAIN masked' /\ e.val \in DOMAIN masked
          BY <1>3, <2>1, <2>3
        <4>2. masked[e.val].left \in Nat
          BY <1>2, <1>7, <4>1
        <4> QED
          BY <1>3, <4>1, <4>2
      <3>2. e.left <= masked[e.val].left + 2
        BY <1>1, <1>12, <2>3, <3>1 DEF IndexEntry
      <3> QED
        BY <1>2, <2>1, <3>1, <3>2
    <2>4. ASSUME maskRefusals' = 0, d.val \in DOMAIN gone'
          PROVE  maskTicks' - gone'[d.val] + d.left <= 2
      <3>1. CASE e.val \in DOMAIN gone /\ gone'[e.val] = gone[e.val] /\ gone[e.val] \in Nat
        <4>1. maskTicks - gone[e.val] + e.left <= 2
          BY <1>1, <1>12, <2>4, <3>1 DEF IndexEntry
        <4> QED
          BY <1>1, <1>2, <2>1, <3>1, <4>1
      <3>2. CASE e.val \in DOMAIN masked /\ gone'[e.val] = maskTicks' /\ masked[e.val].left = 1
        <4>1. e.left <= masked[e.val].left + 2
          BY <1>1, <1>12, <2>4, <3>2 DEF IndexEntry
        <4> QED
          BY <1>1, <1>2, <2>1, <3>2, <4>1
      <3> QED
        BY <1>11, <2>1, <2>4, <3>1, <3>2
    <2> QED
      BY <2>2, <2>3, <2>4 DEF IndexEntry
  <1>13. ASSUME NEW u, NEW e, MemoryEntry(u, e), e.left > 1,
                NEW d, d = [val |-> e.val, left |-> e.left - 1]
         PROVE  MemoryEntry(u, d)'
    <2>1. e.val \in 1 .. maskMinted /\ e.left \in 1 .. MemLife /\ Leads(e.val, u)
          /\ d.val = e.val /\ d.left = e.left - 1
      BY <1>13 DEF MemoryEntry
    <2>2. d \in [val : 1 .. maskMinted', left : 1 .. MemLife] /\ Leads(d.val, u)'
      <3>1. e.left - 1 \in 1 .. MemLife /\ maskMinted' = maskMinted
        BY <1>1, <1>2, <1>13, <2>1
      <3>2. d \in [val : 1 .. maskMinted', left : 1 .. MemLife]
        BY <1>13, <2>1, <3>1
      <3> QED
        BY <1>9, <2>1, <3>2
    <2>3. ASSUME maskRefusals' = 0, d.val \in DOMAIN gone'
          PROVE  maskTicks' - gone'[d.val] + d.left <= MemLife + 1
      <3>1. CASE e.val \in DOMAIN gone /\ gone'[e.val] = gone[e.val] /\ gone[e.val] \in Nat
        <4>1. maskTicks - gone[e.val] + e.left <= MemLife + 1
          BY <1>1, <1>13, <2>3, <3>1 DEF MemoryEntry
        <4> QED
          BY <1>1, <1>2, <2>1, <3>1, <4>1
      <3>2. CASE e.val \in DOMAIN masked /\ gone'[e.val] = maskTicks' /\ masked[e.val].left = 1
        BY <1>1, <1>2, <2>1, <3>2
      <3> QED
        BY <1>11, <2>1, <2>3, <3>1, <3>2
    <2> QED
      BY <2>2, <2>3 DEF MemoryEntry
  <1>14. EntriesInv'
    <2>1. ASSUME NEW u \in DOMAIN memory' PROVE u \in Addresses /\ MemoryEntry(u, memory[u])'
      <3>1. PICK e : e = memory[u]
        OBVIOUS
      <3>2. PICK d : d = memory'[u]
        OBVIOUS
      <3>3. u \in Addresses /\ MemoryEntry(u, e) /\ e.left > 1 /\ d = [val |-> e.val, left |-> e.left - 1]
        BY <1>4, <3>1, <3>2 DEF MaskInv, EntriesInv
      <3>4. MemoryEntry(u, d)'
        BY <1>13, <3>3
      <3> QED
        BY <3>2, <3>3, <3>4 DEF MemoryEntry, Leads
    <2>2. ASSUME NEW u \in DOMAIN maskIndex' PROVE u \in Addresses /\ IndexEntry(u, maskIndex[u])'
      <3>1. PICK e : e = maskIndex[u]
        OBVIOUS
      <3>2. PICK d : d = maskIndex'[u]
        OBVIOUS
      <3>3. u \in Addresses /\ IndexEntry(u, e) /\ e.left > 1 /\ d = [val |-> e.val, left |-> e.left - 1]
        BY <1>5, <3>1, <3>2 DEF MaskInv, EntriesInv
      <3>4. IndexEntry(u, d)'
        BY <1>12, <3>3
      <3> QED
        BY <3>2, <3>3, <3>4 DEF IndexEntry, Leads
    <2> QED
      BY <2>1, <2>2 DEF EntriesInv
  <1>15. /\ DOMAIN masker' = Maskers
         /\ \A c \in Maskers :
              masker'[c] = IF Waits(c) THEN NoBatch ELSE [masker[c] EXCEPT !.slow = TRUE]
         /\ \A c \in Maskers : ~ Waits(c) => ~ masker[c].slow
    BY DEF MaskTick
  <1>16. ASSUME NEW c \in Maskers PROVE BatchFits(masker[c])'
    <2>1. CASE Waits(c)
      BY <1>15, <2>1 DEF BatchFits
    <2>2. CASE ~ Waits(c)
      <3>1. PICK v : v = masker[c]
        OBVIOUS
      <3>2. v.at \notin {"none", "answered"} /\ ~ v.slow /\ BatchFits(v)
        BY <1>15, <2>2, <3>1 DEF Waits, MaskInv, MaskersInv
      <3>3. BatchForm(v) /\ BatchHome(v) /\ (maskRefusals = 0 => BatchYoung(v) /\ BatchCovered(v))
        BY <3>2 DEF BatchFits, NoBatch
      <3>4. PICK w : w = [v EXCEPT !.slow = TRUE]
        OBVIOUS
      <3>5. v \in [at : MaskStages, slow : BOOLEAN, batch : Batches, misses : Seq(Addresses),
                   todo : Seq(Nat), key : Nat, out : {v.out}]
        BY <3>3 DEF BatchForm
      <3>6. w = [at |-> v.at, slow |-> TRUE, batch |-> v.batch, misses |-> v.misses,
                 todo |-> v.todo, key |-> v.key, out |-> v.out]
        BY <3>4, <3>5
      <3>7. /\ w.at = v.at /\ w.slow = TRUE /\ w.batch = v.batch /\ w.misses = v.misses
            /\ w.todo = v.todo /\ w.key = v.key /\ w.out = v.out
        BY <3>6
      <3>8. Places(w) = Places(v) /\ Places(w)' = Places(v) /\ Current(w)' = Current(v)
            /\ Late(v) = 0 /\ Late(w)' = 1
        BY <3>2, <3>7 DEF Places, Current, Miss, Late
      <3>9. BatchForm(w)'
        <4>1. Places(w) \subseteq DOMAIN w.misses
              /\ (w.at \in {"index", "answered"} <=> w.todo = <<>>)
          BY <3>3, <3>7, <3>8 DEF BatchForm
        <4>2. w \in [at : MaskStages, slow : BOOLEAN, batch : Batches, misses : Seq(Addresses),
                     todo : Seq(Nat), key : Nat, out : {w.out}]
          BY <3>5, <3>6
        <4> QED
          BY <4>1, <4>2 DEF BatchForm, Places
      <3>10. BatchHome(w)'
        <4>1. \A u \in DOMAIN v.out : Leads(v.out[u], u)'
          BY <1>9, <3>3 DEF BatchHome
        <4>2. PICK u : u = Current(v)
          OBVIOUS
        <4>3. v.at \in {"renewMask", "renewMaskIndex", "saveMaskIndex"} => Leads(v.key, u)'
          BY <1>9, <3>3, <4>2 DEF BatchHome
        <4>4. w.at \in {"renewMask", "renewMaskIndex", "saveMaskIndex"} => Leads(w.key, Current(w))'
          BY <3>7, <3>8, <4>2, <4>3 DEF Leads
        <4> QED
          BY <3>3, <3>7, <4>1, <4>4 DEF BatchHome
      <3>11. ASSUME maskRefusals' = 0 PROVE BatchYoung(w)' /\ BatchCovered(w)'
        <4>1. BatchYoung(v) /\ BatchCovered(v)
          BY <1>1, <3>3, <3>11
        <4>2. ASSUME v.at \notin {"index", "answered"}, NEW i \in Places(v),
                     v.misses[i] \in DOMAIN maskIndex'
              PROVE  Young(maskIndex[v.misses[i]].val, 2)'
          <5>1. PICK k : k = maskIndex[v.misses[i]].val
            OBVIOUS
          <5>2. v.misses[i] \in DOMAIN maskIndex /\ maskIndex'[v.misses[i]].val = k
            <6>1. v.misses[i] \in DOMAIN maskIndex
              BY <1>5, <4>2
            <6>2. maskIndex'[v.misses[i]].val = maskIndex[v.misses[i]].val
              BY <1>5, <4>2
            <6> QED
              BY <5>1, <6>1, <6>2
          <5>3. Young(k, 1 + Late(v))
            BY <4>1, <4>2, <5>1, <5>2 DEF BatchYoung
          <5>4. Young(k, 1)
            BY <3>8, <5>3
          <5>5. Young(k, 2)'
            BY <1>10, <5>4 DEF Young
          <5> QED
            BY <5>2, <5>5 DEF Young
        <4>3. v.at \in {"renewMask", "renewMaskIndex"} => Young(v.key, 2)'
          <5>1. v.at \in {"renewMask", "renewMaskIndex"} => Young(v.key, 1)
            BY <3>8, <4>1 DEF BatchYoung
          <5> QED
            BY <1>10, <5>1 DEF Young
        <4>4. v.at = "saveMaskIndex" => Young(v.key, 1)'
          <5>1. v.at = "saveMaskIndex" => Young(v.key, 0)
            BY <3>8, <4>1 DEF BatchYoung
          <5> QED
            BY <1>10, <5>1 DEF Young
        <4>5. BatchYoung(w)'
          BY <3>7, <3>8, <4>2, <4>3, <4>4 DEF BatchYoung
        <4>6. Unmasked(w)' = Unmasked(v)
          BY <3>7, <3>8 DEF Unmasked
        <4>7. BatchCovered(w)'
          BY <3>7, <4>1, <4>6 DEF BatchCovered
        <4> QED
          BY <4>5, <4>7
      <3>12. BatchFits(w)'
        BY <3>9, <3>10, <3>11 DEF BatchFits
      <3>13. masker'[c] = w
        BY <1>15, <2>2, <3>1, <3>4
      <3> QED
        BY <3>12, <3>13 DEF BatchFits
    <2> QED
      BY <2>1, <2>2
  <1>17. MaskersInv'
    BY <1>15, <1>16 DEF MaskersInv
  <1> QED
    BY <1>8, <1>14, <1>17 DEF MaskInv

\* The inductive invariant of the links of a batch.
LEMMA MaskInvHolds == MaskSpec => []MaskInv
  <1>1. MaskInit => MaskInv
    BY MaskAssumption DEF MaskInit, Empty, MaskInv, KeysInv, EntriesInv, MaskersInv, BatchFits
  <1>2. MaskInv /\ [MaskNext]_maskVars => MaskInv'
    <2> SUFFICES ASSUME MaskInv, [MaskNext]_maskVars PROVE MaskInv'
      OBVIOUS
    <2>1. ASSUME NEW c \in Maskers, MaskStep(c) PROVE MaskInv'
      BY <2>1, AskIndexKeeps, MaskFromMemoryKeeps, MaskLookUpKeeps, RenewMaskKeeps,
         RenewMaskIndexKeeps, SaveMaskKeeps, SaveMaskIndexKeeps DEF MaskStep
    <2>2. ASSUME NEW c \in Maskers, buildAppItems(c) PROVE MaskInv'
      BY <2>2, AskMemoryKeeps DEF buildAppItems
    <2>3. CASE UNCHANGED maskVars
      <3>1. KeysInv' /\ KeysStay /\ IndexStays
        BY <2>3, KeysStayPut DEF MaskInv, maskVars, IndexStays
      <3>2. EntriesInv'
        BY <2>3, <3>1, EntriesStay DEF MaskInv, maskVars
      <3>3. ASSUME NEW c \in Maskers PROVE BatchFits(masker[c])'
        <4>1. PICK v : v = masker[c]
          OBVIOUS
        <4>2. BatchFits(v)'
          BY <3>1, <4>1, BatchStays DEF MaskInv, MaskersInv
        <4>3. masker' = masker
          BY <2>3 DEF maskVars
        <4> QED
          BY <4>1, <4>2, <4>3 DEF BatchFits
      <3>4. MaskersInv'
        BY <2>3, <3>3 DEF MaskInv, MaskersInv, maskVars
      <3> QED
        BY <3>1, <3>2, <3>4 DEF MaskInv
    <2> QED
      BY <2>1, <2>2, <2>3, MaskTickKeeps, MaskRestartKeeps DEF MaskNext
  <1> QED
    BY <1>1, <1>2, PTL DEF MaskSpec

\* Masked links lead home, and dead ones fade, whatever the batches, the
\* requests under way at once and the lives of the keys.
THEOREM LinksKeepLeading == MaskSpec => []MasksLead
  <1>1. MaskInv => MasksLead
    <2> SUFFICES ASSUME MaskInv PROVE MasksLead
      OBVIOUS
    <2>1. MaskTypeOK
      <3>1. /\ DOMAIN memory \cup DOMAIN maskIndex \subseteq Addresses
            /\ \A u \in DOMAIN memory : memory[u].val \in 1 .. maskMinted
            /\ \A u \in DOMAIN maskIndex : maskIndex[u].val \in 1 .. maskMinted
        BY DEF MaskInv, EntriesInv, MemoryEntry, IndexEntry
      <3>2. \A k \in DOMAIN masked : k \in 1 .. maskMinted /\ masked[k].val \in Addresses
        BY DEF MaskInv, KeysInv
      <3> QED
        BY <3>1, <3>2 DEF MaskTypeOK
    <2>2. ASSUME NEW c \in MaskAnswers
          PROVE  /\ \A u \in DOMAIN masker[c].out : ResolveURL(masker[c].out[u]) \subseteq {u}
                 /\ maskRefusals = 0 => DOMAIN masker[c].out = ToSet(masker[c].batch)
      <3>1. PICK v : v = masker[c]
        OBVIOUS
      <3>2. v.at = "answered" /\ v # NoBatch /\ BatchFits(v)
        BY <2>2, <3>1 DEF MaskAnswers, MaskInv, MaskersInv, NoBatch
      <3>3. BatchForm(v) /\ BatchHome(v) /\ (maskRefusals = 0 => BatchCovered(v))
        BY <3>2 DEF BatchFits
      <3>4. \A u \in DOMAIN v.out : ResolveURL(v.out[u]) \subseteq {u}
        BY <3>3 DEF BatchHome, Leads, ResolveURL
      <3>5. Unmasked(v) = {}
        <4>1. v.todo = <<>>
          BY <3>2, <3>3 DEF BatchForm
        <4>2. Places(v) = {}
          BY <4>1 DEF Places
        <4> QED
          BY <3>2, <4>2 DEF Unmasked
      <3>6. maskRefusals = 0 => DOMAIN v.out = ToSet(v.batch)
        BY <3>3, <3>5 DEF BatchCovered, ToSet
      <3> QED
        BY <3>1, <3>4, <3>6
    <2>3. DeadMasksFade
      <3> SUFFICES ASSUME maskRefusals = 0, NEW u \in DOMAIN memory, memory[u].val \in DOMAIN gone
                   PROVE  maskTicks - gone[memory[u].val] <= MemLife
        BY DEF DeadMasksFade
      <3>1. PICK e : e = memory[u]
        OBVIOUS
      <3>2. MemoryEntry(u, e)
        BY <3>1 DEF MaskInv, EntriesInv
      <3>3. e.left \in 1 .. MemLife /\ maskTicks - gone[e.val] + e.left <= MemLife + 1
        BY <3>1, <3>2 DEF MemoryEntry
      <3>4. maskTicks \in Nat /\ gone[e.val] \in 0 .. maskTicks /\ MemLife \in Nat
        BY <3>1, MaskAssumption DEF MaskInv, KeysInv
      <3> QED
        BY <3>1, <3>3, <3>4
    <2> QED
      BY <2>1, <2>2, <2>3 DEF MasksLead, MasksLeadHome, AllMasked
  <1> QED
    BY <1>1, MaskInvHolds, PTL

----------------------------------------------------------------------------
(* The links of a page. *)

\* The stages of a request for a page.
PageStages == {"extract", "store", "lookup", "renewPayload", "renewIndex", "savePayload",
               "saveIndex", "answered"}

\* Key k, under index entry x, leads to a file of x's page, and to x itself
\* where x is a file, or nowhere.
KeyLeads(k, x) ==
  /\ k \in 1 .. minted
  /\ k \in DOMAIN payloads =>
       payloads[k].val.page = x.page /\ (x.nth # 0 => payloads[k].val = x)

\* The site serves address u still, or did n ticks ago.
ServedUntil(u, n) ==
  u.gen \in DOMAIN stopped[u.page] => ticks - stopped[u.page][u.gen] <= n

\* The addresses a page's files can have.
FilesOf(p) == [page : {p}, gen : Nat, nth : 1 .. Files[p]]

\* The tables, the sites' past, and what is cached of each page.
TablesInv ==
  /\ minted \in Nat /\ ticks \in Nat /\ DOMAIN payloads \subseteq 1 .. minted
  /\ siteGen \in [Pages -> Nat \ {0}] /\ DOMAIN stopped = Pages
  /\ \A p \in Pages : /\ stopped[p] \in Seq(Nat) /\ Len(stopped[p]) = siteGen[p] - 1
                      /\ \A g \in DOMAIN stopped[p] : stopped[p][g] <= ticks
  /\ \A x \in DOMAIN slIndex : KeyLeads(slIndex[x].val, x)

\* What is cached of page p: an address for each file, as old as the entry at most, or a tick older.
CachedPage(p, e) ==
  /\ e \in [val : Seq(FilesOf(p)), left : 1 .. LifeOfMetadata(p)] /\ Len(e.val) = Files[p]
  /\ \A i \in DOMAIN e.val : ServedUntil(e.val[i], LifeOfMetadata(p) + 1 - e.left)

\* The cached metadata.
MetadataInv ==
  DOMAIN metadata \subseteq Pages /\ \A p \in DOMAIN metadata : CachedPage(p, metadata[p])

\* How old the addresses of a request may be.
AgeOf(v) == Late(v) + (IF v.fresh THEN 0 ELSE LifeOfMetadata(v.page))

\* What a request carries: addresses young enough, and links that lead to them.
VisitBody(v) ==
  /\ v \in [at : {v.at}, page : Pages, todo : Seq(FilesOf(v.page)),
            links : Seq([original : FilesOf(v.page), key : Nat]),
            fresh : BOOLEAN, key : Nat, slow : BOOLEAN]
  /\ \A i \in DOMAIN v.todo : ServedUntil(v.todo[i], AgeOf(v))
  /\ \A i \in DOMAIN v.links :
       /\ ServedUntil(v.links[i].original, AgeOf(v))
       /\ v.links[i].key = 0 \/ KeyLeads(v.links[i].key, IndexOf(v.page, v.links[i].original))

\* What it has done at each stage: every file is among what is left or among the links.
VisitStage(v) ==
  /\ v.at \in PageStages
  /\ v.at = "extract" => v.todo = <<>> /\ v.links = <<>> /\ v.fresh
  /\ v.at # "extract" => Len(v.todo) + Len(v.links) = Files[v.page]
  /\ v.at = "store" => v.fresh /\ IF v.page \in Single THEN v.links = <<>> ELSE v.todo = <<>>
  /\ v.at = "answered" => v.todo = <<>>
  /\ v.at \in {"lookup", "renewPayload", "renewIndex", "savePayload", "saveIndex"} => v.todo # <<>>
  /\ v.at \in {"renewPayload", "renewIndex", "saveIndex"} => KeyLeads(v.key, Index(v))

\* A client is away, or its request fits.
VisitFits(v) == v = Away \/ (VisitBody(v) /\ VisitStage(v))

\* Every request fits.
VisitsInv == DOMAIN pageVisit = PageClients /\ \A c \in PageClients : VisitFits(pageVisit[c])

\* What is inductive: the tables, the metadata, and the requests.
PageInv == TablesInv /\ MetadataInv /\ VisitsInv

\* From one state to the next no key comes to lead elsewhere.
PayloadsStay ==
  /\ minted' \in Nat /\ minted' >= minted
  /\ \A k \in DOMAIN payloads' :
       k \in 1 .. minted' /\ (k \in 1 .. minted =>
                                k \in DOMAIN payloads /\ payloads'[k].val = payloads[k].val)

\* Every page's metadata has a life of a tick or more.
LEMMA LifeFacts ==
  /\ \A p \in Pages : LifeOfMetadata(p) \in Nat \ {0}
  /\ \A p \in Pages : Files[p] \in Nat
  <1>1. ASSUME NEW m \in Nat \ {0} PROVE Ticks(m) \in Nat \ {0}
    <2>1. TickMinutes \in Nat \ {0}
      BY PageAssumption
    <2>2. m + TickMinutes - 1 \in Nat /\ m + TickMinutes - 1 >= TickMinutes
      BY <2>1
    <2>3. ASSUME NEW a \in Nat, NEW d \in Nat \ {0}, a >= d PROVE a \div d \in Nat \ {0}
      BY <2>3
    <2> QED
      BY <2>1, <2>2, <2>3 DEF Ticks
  <1>2. \A p \in Pages : SiteOf[p] \in DOMAIN Handler /\ Files[p] \in Nat
    BY PageAssumption
  <1>3. \A s \in DOMAIN Handler : cacheTTL[s] \in Nat \ {0}
    BY DEF Handler, cacheTTL
  <1> QED
    BY <1>1, <1>2, <1>3 DEF LifeOfMetadata

\* A key that leads to a page goes on to, or nowhere.
LEMMA KeyLeadsStay ==
  ASSUME TablesInv, PayloadsStay
  PROVE  \A k, x : KeyLeads(k, x) => KeyLeads(k, x)'
  <1>1. SUFFICES ASSUME NEW k, NEW x, KeyLeads(k, x) PROVE KeyLeads(k, x)'
    OBVIOUS
  <1>2. k \in 1 .. minted /\ minted \in Nat
    BY <1>1 DEF KeyLeads, TablesInv
  <1>3. k \in 1 .. minted'
    BY <1>2 DEF PayloadsStay
  <1> QED
    BY <1>1, <1>2, <1>3 DEF KeyLeads, PayloadsStay

\* The tables after a step that takes no time.
LEMMA TablesStay ==
  ASSUME TablesInv, UNCHANGED <<siteGen, stopped, ticks>>,
         \/ UNCHANGED <<payloads, minted>>
         \/ \E k : payloads' = Extend(payloads, k, LinkLife) /\ UNCHANGED minted
         \/ \E u : minted' = minted + 1 /\ payloads' = Put(payloads, minted', u, LinkLife),
         \A x \in DOMAIN slIndex' :
           \/ x \in DOMAIN slIndex /\ slIndex'[x].val = slIndex[x].val
           \/ KeyLeads(slIndex[x].val, x)'
  PROVE  TablesInv' /\ PayloadsStay
  <1>0. minted \in Nat /\ DOMAIN payloads \subseteq 1 .. minted
    BY DEF TablesInv
  <1>1. minted' \in Nat /\ DOMAIN payloads' \subseteq 1 .. minted' /\ PayloadsStay
    <2>1. CASE UNCHANGED <<payloads, minted>>
      BY <1>0, <2>1 DEF PayloadsStay
    <2>2. ASSUME NEW k, payloads' = Extend(payloads, k, LinkLife), UNCHANGED minted
          PROVE  minted' \in Nat /\ DOMAIN payloads' \subseteq 1 .. minted' /\ PayloadsStay
      <3>1. CASE k \in DOMAIN payloads
        <4>1. DOMAIN payloads' = DOMAIN payloads
          BY <2>2, <3>1 DEF Extend, Put
        <4>2. ASSUME NEW j \in DOMAIN payloads PROVE payloads'[j].val = payloads[j].val
          <5>1. CASE j = k
            <6>1. payloads'[j] = [val |-> payloads[j].val, left |-> LinkLife]
              BY <2>2, <3>1, <5>1 DEF Extend, Put
            <6> QED
              BY <6>1
          <5>2. CASE j # k
            BY <2>2, <3>1, <5>2 DEF Extend, Put
          <5> QED
            BY <5>1, <5>2
        <4> QED
          BY <1>0, <2>2, <4>1, <4>2 DEF PayloadsStay
      <3>2. CASE k \notin DOMAIN payloads
        BY <1>0, <2>2, <3>2 DEF Extend, PayloadsStay
      <3> QED
        BY <3>1, <3>2
    <2>3. ASSUME NEW u, minted' = minted + 1, payloads' = Put(payloads, minted', u, LinkLife)
          PROVE  minted' \in Nat /\ DOMAIN payloads' \subseteq 1 .. minted' /\ PayloadsStay
      <3>1. DOMAIN payloads' = DOMAIN payloads \cup {minted + 1}
            /\ \A j \in DOMAIN payloads : j # minted + 1 => payloads'[j] = payloads[j]
        BY <2>3 DEF Put
      <3>2. 1 .. minted' = (1 .. minted) \cup {minted + 1} /\ minted + 1 \notin 1 .. minted
        BY <1>0, <2>3
      <3>3. minted' \in Nat /\ minted' >= minted /\ DOMAIN payloads' \subseteq 1 .. minted'
        BY <1>0, <2>3, <3>1, <3>2
      <3>4. ASSUME NEW k \in DOMAIN payloads', k \in 1 .. minted
            PROVE  k \in DOMAIN payloads /\ payloads'[k].val = payloads[k].val
        BY <3>1, <3>2, <3>4
      <3> QED
        BY <3>3, <3>4 DEF PayloadsStay
    <2> QED
      BY <2>1, <2>2, <2>3
  <1>2. ASSUME NEW x \in DOMAIN slIndex' PROVE KeyLeads(slIndex[x].val, x)'
    <2>1. CASE x \in DOMAIN slIndex /\ slIndex'[x].val = slIndex[x].val
      <3>1. PICK k : k = slIndex[x].val
        OBVIOUS
      <3>2. KeyLeads(k, x)
        BY <2>1, <3>1 DEF TablesInv
      <3>3. KeyLeads(k, x)'
        BY <1>1, <3>2, KeyLeadsStay
      <3> QED
        BY <2>1, <3>1, <3>3 DEF KeyLeads
    <2> QED
      BY <2>1
  <1> QED
    BY <1>1, <1>2 DEF TablesInv

\* A site goes over to its next generation, or does not, at no time.
LEMMA ServedStays ==
  ASSUME TablesInv, ticks' = ticks,
         stopped' = stopped \/ \E p \in Pages : stopped' = [stopped EXCEPT ![p] = Append(@, ticks)]
  PROVE  \A u, n : u.page \in Pages /\ n \in Nat /\ ServedUntil(u, n) => ServedUntil(u, n)'
  <1>1. SUFFICES ASSUME NEW u, NEW n \in Nat, u.page \in Pages, ServedUntil(u, n) PROVE ServedUntil(u, n)'
    OBVIOUS
  <1>2. CASE stopped' = stopped
    BY <1>1, <1>2 DEF ServedUntil
  <1>3. ASSUME NEW p \in Pages, stopped' = [stopped EXCEPT ![p] = Append(@, ticks)]
        PROVE  ServedUntil(u, n)'
    <2>1. CASE p = u.page
      <3>1. PICK s : s = stopped[p]
        OBVIOUS
      <3>2. s \in Seq(Nat) /\ ticks \in Nat /\ DOMAIN stopped = Pages
        BY <3>1 DEF TablesInv
      <3>3. stopped'[u.page] = Append(s, ticks)
        BY <1>3, <2>1, <3>1, <3>2
      <3>4. ASSUME u.gen \in DOMAIN Append(s, ticks)
            PROVE  \/ u.gen \in DOMAIN s /\ Append(s, ticks)[u.gen] = s[u.gen]
                   \/ Append(s, ticks)[u.gen] = ticks
        BY <3>2, <3>4, AppendProperties
      <3>5. u.gen \in DOMAIN s => ticks - s[u.gen] <= n
        BY <1>1, <2>1, <3>1 DEF ServedUntil
      <3> QED
        BY <1>1, <3>2, <3>3, <3>4, <3>5 DEF ServedUntil
    <2>2. CASE p # u.page
      <3>1. stopped'[u.page] = stopped[u.page]
        BY <1>1, <1>3, <2>2 DEF TablesInv
      <3> QED
        BY <1>1, <3>1 DEF ServedUntil
    <2> QED
      BY <2>1, <2>2
  <1> QED
    BY <1>2, <1>3

\* What stays as it is while no time passes: keys, and what is known of addresses.
PageStays ==
  /\ \A k, x : KeyLeads(k, x) => KeyLeads(k, x)'
  /\ \A u, n : u.page \in Pages /\ n \in Nat /\ ServedUntil(u, n) => ServedUntil(u, n)'

\* No address in a request is older than its metadata's life and a tick.
LEMMA AgeFacts ==
  ASSUME NEW v, v.page \in Pages
  PROVE  AgeOf(v) \in Nat /\ (v.fresh => AgeOf(v) = Late(v)) /\ Late(v) \in {0, 1}
         /\ AgeOf(v) <= LifeOfMetadata(v.page) + 1
  BY LifeFacts DEF AgeOf, Late

\* The members of a request, by their form.
LEMMA BodyFiles ==
  ASSUME NEW v, VisitBody(v)
  PROVE  /\ v.page \in Pages /\ v.todo \in Seq(FilesOf(v.page))
         /\ v.links \in Seq([original : FilesOf(v.page), key : Nat])
         /\ v.key \in Nat /\ v.fresh \in BOOLEAN /\ v.slow \in BOOLEAN
         /\ \A i \in DOMAIN v.todo : v.todo[i] \in FilesOf(v.page) /\ v.todo[i].page = v.page
         /\ \A i \in DOMAIN v.links :
              /\ v.links[i] \in [original : FilesOf(v.page), key : Nat]
              /\ v.links[i].original.page = v.page
  <1>1. /\ v.page \in Pages /\ v.todo \in Seq(FilesOf(v.page))
        /\ v.links \in Seq([original : FilesOf(v.page), key : Nat])
        /\ v.key \in Nat /\ v.fresh \in BOOLEAN /\ v.slow \in BOOLEAN
    BY DEF VisitBody
  <1>2. ASSUME NEW i \in DOMAIN v.todo
        PROVE  v.todo[i] \in FilesOf(v.page) /\ v.todo[i].page = v.page
    <2>1. v.todo[i] \in FilesOf(v.page)
      BY <1>1
    <2> QED
      BY <2>1 DEF FilesOf
  <1>3. ASSUME NEW i \in DOMAIN v.links
        PROVE  /\ v.links[i] \in [original : FilesOf(v.page), key : Nat]
               /\ v.links[i].original.page = v.page
    <2>1. v.links[i] \in [original : FilesOf(v.page), key : Nat]
      <3>1. PICK S : S = [original : FilesOf(v.page), key : Nat]
        OBVIOUS
      <3>2. v.links \in Seq(S)
        BY <1>1, <3>1
      <3>3. v.links[i] \in S
        BY <3>2
      <3> QED
        BY <3>1, <3>3
    <2>2. v.links[i].original \in FilesOf(v.page)
      BY <2>1
    <2> QED
      BY <2>1, <2>2 DEF FilesOf
  <1> QED
    BY <1>1, <1>2, <1>3

\* What is known of a request that takes no step.
LEMMA VisitStays ==
  ASSUME PageStays
  PROVE  \A v : VisitFits(v) => VisitFits(v)'
  <1>1. SUFFICES ASSUME NEW v, v # Away, VisitBody(v), VisitStage(v) PROVE VisitBody(v)' /\ VisitStage(v)'
    BY DEF VisitFits
  <1>2. AgeOf(v) \in Nat /\ AgeOf(v)' = AgeOf(v)
    BY <1>1, BodyFiles, AgeFacts DEF AgeOf, Late
  <1>3. PICK n : n = AgeOf(v)
    OBVIOUS
  <1>4. \A i \in DOMAIN v.todo : ServedUntil(v.todo[i], n)'
    BY <1>1, <1>2, <1>3, BodyFiles DEF PageStays, VisitBody
  <1>5. ASSUME NEW i \in DOMAIN v.links
        PROVE  /\ ServedUntil(v.links[i].original, n)'
               /\ v.links[i].key = 0 \/ KeyLeads(v.links[i].key, IndexOf(v.page, v.links[i].original))'
    <2>1. PICK u : u = v.links[i].original
      OBVIOUS
    <2>2. u.page \in Pages /\ ServedUntil(u, n)
      BY <1>1, <1>3, <2>1, BodyFiles DEF VisitBody
    <2>3. ServedUntil(u, n)'
      BY <1>2, <1>3, <2>2 DEF PageStays
    <2>4. PICK x : x = IndexOf(v.page, u)
      OBVIOUS
    <2>5. v.links[i].key = 0 \/ KeyLeads(v.links[i].key, x)
      BY <1>1, <2>1, <2>4 DEF VisitBody
    <2>6. v.links[i].key = 0 \/ KeyLeads(v.links[i].key, x)'
      BY <2>5 DEF PageStays
    <2> QED
      BY <2>1, <2>3, <2>4, <2>6 DEF KeyLeads, IndexOf, Single
  <1>6. VisitBody(v)'
    BY <1>1, <1>2, <1>3, <1>4, <1>5 DEF VisitBody, FilesOf
  <1>7. VisitStage(v)'
    <2>1. PICK x : x = Index(v)
      OBVIOUS
    <2>2. v.at \in {"renewPayload", "renewIndex", "saveIndex"} => KeyLeads(v.key, x)'
      BY <1>1, <2>1 DEF PageStays, VisitStage
    <2>3. v.at \in {"renewPayload", "renewIndex", "saveIndex"} => KeyLeads(v.key, Index(v))'
      BY <2>1, <2>2 DEF KeyLeads, Index, IndexOf, Single
    <2> QED
      BY <1>1, <2>3 DEF VisitStage, Single
  <1> QED
    BY <1>6, <1>7

\* The metadata after a step that changes entries to fitting ones.
LEMMA MetadataStays ==
  ASSUME PageStays, MetadataInv,
         \A p \in DOMAIN metadata' :
            \/ p \in DOMAIN metadata /\ metadata'[p] = metadata[p]
            \/ p \in Pages /\ CachedPage(p, metadata[p])'
  PROVE  MetadataInv'
  <1>1. ASSUME NEW p \in DOMAIN metadata' PROVE p \in Pages /\ CachedPage(p, metadata[p])'
    <2>1. CASE p \in DOMAIN metadata /\ metadata'[p] = metadata[p]
      <3>1. PICK e : e = metadata[p]
        OBVIOUS
      <3>2. p \in Pages /\ CachedPage(p, e)
        BY <2>1, <3>1 DEF MetadataInv
      <3>3. e.val \in Seq(FilesOf(p)) /\ e.left \in 1 .. LifeOfMetadata(p) /\ LifeOfMetadata(p) \in Nat
        BY <3>2, LifeFacts DEF CachedPage
      <3>4. PICK n : n = LifeOfMetadata(p) + 1 - e.left
        OBVIOUS
      <3>5. n \in Nat
        BY <3>3, <3>4
      <3>6. ASSUME NEW i \in DOMAIN e.val PROVE ServedUntil(e.val[i], n)'
        <4>1. e.val[i] \in FilesOf(p)
          BY <3>3
        <4>2. e.val[i].page = p /\ ServedUntil(e.val[i], n)
          BY <3>2, <3>4, <4>1 DEF CachedPage, FilesOf
        <4> QED
          BY <3>2, <3>5, <4>2 DEF PageStays
      <3>7. CachedPage(p, e)'
        BY <3>2, <3>4, <3>6 DEF CachedPage, FilesOf, LifeOfMetadata
      <3>8. metadata'[p] = e
        BY <2>1, <3>1
      <3> QED
        BY <3>2, <3>7, <3>8 DEF CachedPage
    <2> QED
      BY <2>1
  <1> QED
    BY <1>1 DEF MetadataInv

\* A step of one request: the others still fit.
LEMMA OneVisit ==
  ASSUME VisitsInv, PageStays, NEW c \in PageClients, NEW w, Moved(c, w), VisitFits(w)'
  PROVE  VisitsInv'
  <1>1. DOMAIN pageVisit' = PageClients /\ pageVisit'[c] = w
        /\ \A d \in PageClients : d # c => pageVisit'[d] = pageVisit[d]
    BY DEF VisitsInv, Moved
  <1>2. ASSUME NEW d \in PageClients PROVE VisitFits(pageVisit[d])'
    <2>1. CASE d = c
      BY <1>1, <2>1 DEF VisitFits
    <2>2. CASE d # c
      <3>1. PICK v : v = pageVisit[d]
        OBVIOUS
      <3>2. VisitFits(v)'
        BY <3>1, VisitStays DEF VisitsInv
      <3> QED
        BY <1>1, <2>2, <3>1, <3>2 DEF VisitFits
    <2> QED
      BY <2>1, <2>2
  <1> QED
    BY <1>1, <1>2 DEF VisitsInv

\* A visit at another stage.
Turned(v, a, key) == [v EXCEPT !.at = a, !.key = key]

\* A request that only goes to another stage carries what it did.
LEMMA TurnedBody ==
  ASSUME NEW v, VisitBody(v)', NEW a, NEW key \in Nat, NEW w, w = Turned(v, a, key)
  PROVE  /\ VisitBody(w)' /\ w.at = a /\ w.key = key /\ w.page = v.page /\ w.todo = v.todo
         /\ w.links = v.links /\ w.fresh = v.fresh /\ w.slow = v.slow /\ w # Away
  <1>1. v \in [at : {v.at}, page : Pages, todo : Seq(FilesOf(v.page)),
               links : Seq([original : FilesOf(v.page), key : Nat]),
               fresh : BOOLEAN, key : Nat, slow : BOOLEAN]
    BY DEF VisitBody, FilesOf
  <1>2. w = [at |-> a, page |-> v.page, todo |-> v.todo, links |-> v.links, fresh |-> v.fresh,
             key |-> key, slow |-> v.slow]
    BY <1>1 DEF Turned
  <1>3. /\ w.at = a /\ w.key = key /\ w.page = v.page /\ w.todo = v.todo
        /\ w.links = v.links /\ w.fresh = v.fresh /\ w.slow = v.slow
    BY <1>2
  <1>4. w # Away
    BY <1>2 DEF Away
  <1>5. w \in [at : {w.at}, page : Pages, todo : Seq(FilesOf(w.page)),
               links : Seq([original : FilesOf(w.page), key : Nat]),
               fresh : BOOLEAN, key : Nat, slow : BOOLEAN]
    BY <1>1, <1>2, <1>3
  <1>6. AgeOf(w)' = AgeOf(v)'
    BY <1>3 DEF AgeOf, Late
  <1>7. VisitBody(w)'
    BY <1>3, <1>5, <1>6 DEF VisitBody, FilesOf
  <1> QED
    BY <1>3, <1>4, <1>7

\* A request goes on to its next file, to the store or to its answer.
LEMMA OnwardFits ==
  ASSUME NEW v, VisitBody(v)', Len(v.todo) + Len(v.links) = Files[v.page],
         NEW w, w = Onward(v)
  PROVE  VisitFits(w)'
  <1>1. v.key \in Nat /\ v.todo \in Seq(FilesOf(v.page))
        /\ \A a : [v EXCEPT !.at = a] = Turned(v, a, v.key)
    BY DEF VisitBody, FilesOf, Turned
  <1>2. PICK a : a = IF v.todo # <<>> THEN "lookup"
                     ELSE IF v.fresh /\ v.page \notin Single THEN "store" ELSE "answered"
    OBVIOUS
  <1>3. PICK key : key = v.key
    OBVIOUS
  <1>4. w = Turned(v, a, key) /\ key \in Nat
    BY <1>1, <1>2, <1>3 DEF Onward
  <1>5. /\ VisitBody(w)' /\ w.at = a /\ w.page = v.page /\ w.todo = v.todo
        /\ w.links = v.links /\ w.fresh = v.fresh
    BY <1>4, TurnedBody
  <1>6. VisitStage(w)'
    BY <1>2, <1>5 DEF VisitStage, PageStages, Single
  <1> QED
    BY <1>5, <1>6 DEF VisitFits

\* A request with one more link goes on.
LEMMA LinkedFits ==
  ASSUME NEW v, VisitBody(v)', Len(v.todo) + Len(v.links) = Files[v.page], v.todo # <<>>,
         NEW key \in Nat, key = 0 \/ KeyLeads(key, Index(v))',
         NEW w, w = Linked(v, key)
  PROVE  VisitFits(w)'
  <1> DEFINE F == FilesOf(v.page)
             L == [original : F, key : Nat]
  <1>1. /\ v \in [at : {v.at}, page : Pages, todo : Seq(F), links : Seq(L),
                  fresh : BOOLEAN, key : Nat, slow : BOOLEAN]
        /\ \A i \in DOMAIN v.todo : ServedUntil(v.todo[i], AgeOf(v))'
        /\ \A i \in DOMAIN v.links :
             /\ ServedUntil(v.links[i].original, AgeOf(v))'
             /\ v.links[i].key = 0 \/ KeyLeads(v.links[i].key, IndexOf(v.page, v.links[i].original))'
    BY DEF VisitBody, FilesOf
  <1>2. PICK u : u = Head(v.todo)
    OBVIOUS
  <1> HIDE DEF F
  <1>3. u \in F /\ u = v.todo[1] /\ 1 \in DOMAIN v.todo
    BY <1>1, <1>2
  <1>4. PICK link : link = [original |-> u, key |-> key]
    OBVIOUS
  <1>5. link \in L /\ link.original = u /\ link.key = key
    BY <1>3, <1>4
  <1> HIDE DEF L
  <1>6. PICK rest : rest = Tail(v.todo)
    OBVIOUS
  <1>7. PICK links : links = Append(v.links, link)
    OBVIOUS
  <1>8. /\ rest \in Seq(F) /\ Len(rest) = Len(v.todo) - 1
        /\ \A i \in DOMAIN rest : i + 1 \in DOMAIN v.todo /\ rest[i] = v.todo[i + 1]
    <2>1. v.todo \in Seq(F)
      BY <1>1
    <2>2. rest \in Seq(F) /\ Len(rest) = Len(v.todo) - 1 /\ Len(v.todo) \in Nat
      BY <1>6, <2>1
    <2>3. DOMAIN rest = 1 .. Len(v.todo) - 1 /\ DOMAIN v.todo = 1 .. Len(v.todo)
      BY <2>1, <2>2, LenProperties
    <2>4. ASSUME NEW i \in DOMAIN rest PROVE i + 1 \in DOMAIN v.todo /\ rest[i] = v.todo[i + 1]
      <3>1. i \in 1 .. Len(v.todo) - 1
        BY <2>3
      <3>2. i + 1 \in 1 .. Len(v.todo)
        BY <2>2, <3>1
      <3>3. rest[i] = v.todo[i + 1]
        BY <1>6, <2>1, <3>1, HeadTailProperties
      <3> QED
        BY <2>3, <3>2, <3>3
    <2> QED
      BY <2>2, <2>4
  <1>9. /\ links \in Seq(L) /\ Len(links) = Len(v.links) + 1
        /\ \A i \in DOMAIN links : links[i] = link \/ (i \in DOMAIN v.links /\ links[i] = v.links[i])
    <2>1. v.links \in Seq(L)
      BY <1>1
    <2>2. links \in Seq(L) /\ Len(links) = Len(v.links) + 1
      BY <1>5, <1>7, <2>1
    <2>3. ASSUME NEW i \in DOMAIN links
          PROVE  links[i] = link \/ (i \in DOMAIN v.links /\ links[i] = v.links[i])
      BY <1>5, <1>7, <2>1, AppendProperties
    <2> QED
      BY <2>2, <2>3
  <1>10. PICK x : x = [v EXCEPT !.todo = rest, !.key = 0, !.links = links]
    OBVIOUS
  <1>11. w = Onward(x)
    BY <1>2, <1>4, <1>6, <1>7, <1>10 DEF Linked
  <1>12. x = [at |-> v.at, page |-> v.page, todo |-> rest, links |-> links, fresh |-> v.fresh,
              key |-> 0, slow |-> v.slow]
    BY <1>1, <1>10
  <1>13. /\ x.page = v.page /\ x.todo = rest /\ x.links = links /\ x.fresh = v.fresh
         /\ x.slow = v.slow
    BY <1>12
  <1>14. AgeOf(x)' = AgeOf(v)'
    BY <1>13 DEF AgeOf, Late
  <1>15. ASSUME NEW i \in DOMAIN x.todo PROVE ServedUntil(x.todo[i], AgeOf(x))'
    BY <1>1, <1>8, <1>13, <1>14
  <1>16. ASSUME NEW i \in DOMAIN x.links
         PROVE  /\ ServedUntil(x.links[i].original, AgeOf(x))'
                /\ x.links[i].key = 0
                     \/ KeyLeads(x.links[i].key, IndexOf(x.page, x.links[i].original))'
    <2>1. CASE links[i] = link
      <3>1. x.links[i].original = u /\ x.links[i].key = key
        BY <1>5, <1>13, <2>1
      <3>2. ServedUntil(u, AgeOf(x))'
        BY <1>1, <1>3, <1>14
      <3>3. key = 0 \/ KeyLeads(key, IndexOf(x.page, u))'
        BY <1>2, <1>13 DEF Index
      <3> QED
        BY <3>1, <3>2, <3>3
    <2>2. CASE i \in DOMAIN v.links /\ links[i] = v.links[i]
      BY <1>1, <1>13, <1>14, <2>2
    <2> QED
      BY <1>9, <1>13, <2>1, <2>2
  <1>17. x \in [at : {x.at}, page : Pages, todo : Seq(F), links : Seq(L),
                fresh : BOOLEAN, key : Nat, slow : BOOLEAN]
    BY <1>1, <1>8, <1>9, <1>12
  <1>18. VisitBody(x)'
    BY <1>13, <1>15, <1>16, <1>17 DEF VisitBody, FilesOf, F, L
  <1>19. Len(x.todo) + Len(x.links) = Files[x.page]
    <2>1. PICK m : m = Len(v.todo)
      OBVIOUS
    <2>2. PICK n : n = Len(v.links)
      OBVIOUS
    <2>3. m \in Nat /\ n \in Nat /\ m + n = Files[v.page]
      BY <1>1, <2>1, <2>2, LenProperties
    <2>5. Len(x.todo) = m - 1 /\ Len(x.links) = n + 1
      BY <1>8, <1>9, <1>13, <2>1, <2>2
    <2>4. Files[x.page] = Files[v.page]
      BY <1>13
    <2>6. (m - 1) + (n + 1) = m + n
      BY <2>3
    <2> QED
      BY <2>3, <2>4, <2>5, <2>6
  <1> QED
    BY <1>11, <1>18, <1>19, OnwardFits

\* A request whose visit goes over to another stage, or gets its next link.
LEMMA TurnKeeps ==
  ASSUME PageInv, TablesInv', PageStays, MetadataInv', NEW c \in PageClients,
         NEW v, v = pageVisit[c], VisitBody(v)', NEW a, NEW key \in Nat,
         Moved(c, Turned(v, a, key)), NEW w, w = Turned(v, a, key),
         VisitBody(w)' => VisitStage(w)'
  PROVE  PageInv'
  <1>1. VisitFits(w)'
    BY TurnedBody DEF VisitFits
  <1>2. Moved(c, w)
    OBVIOUS
  <1> QED
    BY <1>1, <1>2, OneVisit DEF PageInv

\* What is known of a request that has a stage.
LEMMA AtStage ==
  ASSUME PageInv, NEW c \in PageClients, NEW v, v = pageVisit[c], v.at \in PageStages
  PROVE  /\ VisitBody(v) /\ VisitStage(v) /\ v.page \in Pages /\ v.key \in Nat
         /\ \A a : [v EXCEPT !.at = a] = Turned(v, a, v.key)
  <1>1. v # Away
    BY DEF PageStages, Away
  <1>2. VisitBody(v) /\ VisitStage(v)
    BY <1>1 DEF PageInv, VisitsInv, VisitFits
  <1>3. v \in [at : {v.at}, page : Pages, todo : Seq(FilesOf(v.page)),
               links : Seq([original : FilesOf(v.page), key : Nat]),
               fresh : BOOLEAN, key : Nat, slow : BOOLEAN]
    BY <1>2 DEF VisitBody
  <1>4. v.page \in Pages /\ v.key \in Nat
        /\ \A a : [v EXCEPT !.at = a] = Turned(v, a, v.key)
    BY <1>3 DEF Turned
  <1> QED
    BY <1>2, <1>4

\* A step that takes no time leaves what is known of keys and addresses.
LEMMA StaysWithTables ==
  ASSUME PageInv, PayloadsStay, ticks' = ticks,
         stopped' = stopped \/ \E p \in Pages : stopped' = [stopped EXCEPT ![p] = Append(@, ticks)]
  PROVE  PageStays
  BY KeyLeadsStay, ServedStays DEF PageInv, PageStays

\* A step that leaves the tables of links alone.
LEMMA TablesUntouched ==
  ASSUME PageInv, UNCHANGED <<payloads, slIndex, minted, siteGen, stopped, ticks>>
  PROVE  TablesInv' /\ PageStays
  <1>1. TablesInv' /\ PayloadsStay
    BY TablesStay DEF PageInv
  <1> QED
    BY <1>1, StaysWithTables

\* One step at a time: the index asked,
LEMMA LookUpIndexKeeps ==
  ASSUME PageInv, NEW c \in PageClients, LookUpIndex(c)
  PROVE  PageInv'
  <1>1. PICK v : v = pageVisit[c]
    OBVIOUS
  <1>2. v.at = "lookup" /\ v.at \in PageStages
    BY <1>1 DEF LookUpIndex, PageStages
  <1>3. VisitBody(v) /\ VisitStage(v) /\ v.key \in Nat
        /\ \A a : [v EXCEPT !.at = a] = Turned(v, a, v.key)
    BY <1>1, <1>2, AtStage
  <1>4. TablesInv' /\ PageStays
    BY TablesUntouched DEF LookUpIndex, outside
  <1>5. MetadataInv'
    BY <1>4, MetadataStays DEF PageInv, LookUpIndex
  <1>6. VisitBody(v)' /\ VisitStage(v)'
    BY <1>1, <1>2, <1>3, <1>4, VisitStays DEF VisitFits, Away
  <1>7. PICK x : x = Index(v)
    OBVIOUS
  <1>8. ASSUME x \in DOMAIN slIndex, NEW key, key = slIndex[x].val,
               Moved(c, [v EXCEPT !.at = "renewPayload", !.key = key])
        PROVE  PageInv'
    <2>1. KeyLeads(key, x)
      BY <1>8 DEF PageInv, TablesInv
    <2>2. key \in Nat
      BY <2>1 DEF KeyLeads, PageInv, TablesInv
    <2>3. KeyLeads(key, x)'
      BY <1>4, <2>1 DEF PageStays
    <2>4. PICK a : a = "renewPayload"
      OBVIOUS
    <2>5. PICK w : w = Turned(v, a, key)
      OBVIOUS
    <2>6. Moved(c, Turned(v, a, key))
      BY <1>8, <2>4 DEF Turned
    <2>7. w.at = a /\ w.key = key /\ w.page = v.page /\ w.todo = v.todo
          /\ w.links = v.links
      BY <1>6, <2>2, <2>5, TurnedBody
    <2>8. Index(w)' = x
      BY <1>7, <2>7 DEF Index, IndexOf, Single
    <2>9. VisitStage(w)'
      BY <1>2, <1>6, <2>3, <2>4, <2>7, <2>8 DEF VisitStage, PageStages, KeyLeads
    <2> QED
      BY <1>1, <1>4, <1>5, <1>6, <2>2, <2>5, <2>6, <2>9, TurnKeeps
  <1>9. ASSUME Moved(c, [v EXCEPT !.at = "savePayload"]) PROVE PageInv'
    <2>1. PICK key : key = v.key
      OBVIOUS
    <2>2. PICK a : a = "savePayload"
      OBVIOUS
    <2>3. PICK w : w = Turned(v, a, key)
      OBVIOUS
    <2>4. Moved(c, Turned(v, a, key)) /\ key \in Nat
      BY <1>3, <1>9, <2>1, <2>2
    <2>5. w.at = a /\ w.page = v.page /\ w.todo = v.todo /\ w.links = v.links
      BY <1>6, <2>3, <2>4, TurnedBody
    <2>6. VisitStage(w)'
      BY <1>2, <1>6, <2>2, <2>5 DEF VisitStage, PageStages
    <2> QED
      BY <1>1, <1>4, <1>5, <1>6, <2>3, <2>4, <2>6, TurnKeeps
  <1>10. \/ Moved(c, [v EXCEPT !.at = "savePayload"])
         \/ \E key \in {slIndex[k].val : k \in {x} \cap DOMAIN slIndex} :
               Moved(c, [v EXCEPT !.at = "renewPayload", !.key = key])
    BY <1>1, <1>7 DEF LookUpIndex
  <1> QED
    BY <1>8, <1>9, <1>10

\* the address under a key renewed,
LEMMA RenewPayloadKeeps ==
  ASSUME PageInv, NEW c \in PageClients, RenewPayload(c)
  PROVE  PageInv'
  <1>1. PICK v : v = pageVisit[c]
    OBVIOUS
  <1>2. v.at = "renewPayload" /\ v.at \in PageStages
    BY <1>1 DEF RenewPayload, PageStages
  <1>3. VisitBody(v) /\ VisitStage(v) /\ v.key \in Nat
        /\ \A a : [v EXCEPT !.at = a] = Turned(v, a, v.key)
    BY <1>1, <1>2, AtStage
  <1>4. TablesInv' /\ PayloadsStay
    BY TablesStay DEF PageInv, RenewPayload, outside
  <1>5. PageStays
    BY <1>4, StaysWithTables DEF RenewPayload, outside
  <1>6. MetadataInv'
    BY <1>5, MetadataStays DEF PageInv, RenewPayload
  <1>7. VisitBody(v)' /\ VisitStage(v)'
    BY <1>1, <1>2, <1>3, <1>5, VisitStays DEF VisitFits, Away
  <1>8. PICK key : key = v.key
    OBVIOUS
  <1>9. PICK a : a = "renewIndex"
    OBVIOUS
  <1>10. PICK w : w = Turned(v, a, key)
    OBVIOUS
  <1>11. Moved(c, Turned(v, a, key)) /\ key \in Nat
    BY <1>1, <1>3, <1>8, <1>9 DEF RenewPayload
  <1>12. w.at = a /\ w.key = key /\ w.page = v.page /\ w.todo = v.todo /\ w.links = v.links
    BY <1>7, <1>10, <1>11, TurnedBody
  <1>13. Index(w)' = Index(v)'
    BY <1>12 DEF Index, IndexOf, Single
  <1>14. VisitStage(w)'
    BY <1>2, <1>7, <1>8, <1>9, <1>12, <1>13 DEF VisitStage, PageStages
  <1> QED
    BY <1>1, <1>4, <1>5, <1>6, <1>7, <1>10, <1>11, <1>14, TurnKeeps

\* The request goes on from v with its next file, if it has one.
LEMMA LinkKeeps ==
  ASSUME PageInv, TablesInv', PageStays, MetadataInv', NEW c \in PageClients,
         NEW v, v = pageVisit[c], v.at \in {"renewIndex", "savePayload", "saveIndex"},
         VisitBody(v)', VisitStage(v)',
         NEW key \in Nat, key = 0 \/ KeyLeads(key, Index(v))', Moved(c, Linked(v, key))
  PROVE  PageInv'
  <1>1. PICK w : w = Linked(v, key)
    OBVIOUS
  <1>2. v.todo # <<>> /\ Len(v.todo) + Len(v.links) = Files[v.page]
    BY DEF VisitStage
  <1>3. VisitFits(w)'
    BY <1>1, <1>2, LinkedFits
  <1>4. Moved(c, w)
    BY <1>1
  <1> QED
    BY <1>3, <1>4, OneVisit DEF PageInv

\* its index entry renewed,
LEMMA RenewIndexKeeps ==
  ASSUME PageInv, NEW c \in PageClients, RenewIndex(c)
  PROVE  PageInv'
  <1>1. PICK v : v = pageVisit[c]
    OBVIOUS
  <1>2. v.at = "renewIndex" /\ v.at \in PageStages
    BY <1>1 DEF RenewIndex, PageStages
  <1>3. VisitBody(v) /\ VisitStage(v) /\ v.key \in Nat
    BY <1>1, <1>2, AtStage
  <1>4. \A x \in DOMAIN slIndex' : x \in DOMAIN slIndex /\ slIndex'[x].val = slIndex[x].val
    <2>1. CASE UNCHANGED slIndex
      BY <2>1
    <2>2. ASSUME NEW k, slIndex' = Extend(slIndex, k, LinkLife), NEW x \in DOMAIN slIndex'
          PROVE  x \in DOMAIN slIndex /\ slIndex'[x].val = slIndex[x].val
      <3>1. CASE k \in DOMAIN slIndex
        <4>1. x \in DOMAIN slIndex
          BY <2>2, <3>1 DEF Extend, Put
        <4>2. CASE x = k
          <5>1. slIndex'[x] = [val |-> slIndex[x].val, left |-> LinkLife]
            BY <2>2, <3>1, <4>2 DEF Extend, Put
          <5> QED
            BY <4>1, <5>1
        <4>3. CASE x # k
          BY <2>2, <3>1, <4>1, <4>3 DEF Extend, Put
        <4> QED
          BY <4>2, <4>3
      <3>2. CASE k \notin DOMAIN slIndex
        BY <2>2, <3>2 DEF Extend
      <3> QED
        BY <3>1, <3>2
    <2> QED
      BY <2>1, <2>2 DEF RenewIndex
  <1>5. TablesInv' /\ PayloadsStay
    BY <1>4, TablesStay DEF PageInv, RenewIndex, outside
  <1>6. PageStays
    BY <1>5, StaysWithTables DEF RenewIndex, outside
  <1>7. MetadataInv'
    BY <1>6, MetadataStays DEF PageInv, RenewIndex
  <1>8. VisitBody(v)' /\ VisitStage(v)'
    BY <1>1, <1>2, <1>3, <1>6, VisitStays DEF VisitFits, Away
  <1>9. PICK key : key = v.key
    OBVIOUS
  <1>10. key \in Nat /\ KeyLeads(key, Index(v))' /\ Moved(c, Linked(v, key))
    BY <1>1, <1>2, <1>3, <1>8, <1>9 DEF VisitStage, RenewIndex
  <1>11. v.at \in {"renewIndex", "savePayload", "saveIndex"}
    BY <1>2
  <1> QED
    BY <1>1, <1>5, <1>6, <1>7, <1>8, <1>10, <1>11, LinkKeeps

\* an address written under a new key, or sealed into the link,
LEMMA SavePayloadKeeps ==
  ASSUME PageInv, NEW c \in PageClients, SavePayload(c)
  PROVE  PageInv'
  <1>1. PICK v : v = pageVisit[c]
    OBVIOUS
  <1>2. v.at = "savePayload" /\ v.at \in PageStages
    BY <1>1 DEF SavePayload, PageStages
  <1>3. VisitBody(v) /\ VisitStage(v) /\ v.key \in Nat
    BY <1>1, <1>2, AtStage
  <1>4. \/ UNCHANGED <<payloads, minted>>
        \/ \E u : minted' = minted + 1 /\ payloads' = Put(payloads, minted', u, LinkLife)
    BY DEF SavePayload
  <1>5. TablesInv' /\ PayloadsStay
    BY <1>4, TablesStay DEF PageInv, SavePayload, outside
  <1>6. PageStays
    BY <1>5, StaysWithTables DEF SavePayload, outside
  <1>7. MetadataInv'
    BY <1>6, MetadataStays DEF PageInv, SavePayload
  <1>8. VisitBody(v)' /\ VisitStage(v)'
    BY <1>1, <1>2, <1>3, <1>6, VisitStays DEF VisitFits, Away
  <1>9. v.at \in {"renewIndex", "savePayload", "saveIndex"}
    BY <1>2
  <1>10. CASE Moved(c, Linked(v, 0))
    BY <1>1, <1>5, <1>6, <1>7, <1>8, <1>9, <1>10, LinkKeeps
  <1>11. CASE /\ minted' = minted + 1
              /\ payloads' = Put(payloads, minted', Head(v.todo), LinkLife)
              /\ Moved(c, [v EXCEPT !.at = "saveIndex", !.key = minted'])
    <2>1. PICK key : key = minted + 1
      OBVIOUS
    <2>2. key \in Nat /\ key \in 1 .. minted'
      BY <1>11, <2>1 DEF PageInv, TablesInv
    <2>3. PICK u : u = Head(v.todo)
      OBVIOUS
    <2>4. key \in DOMAIN payloads' /\ payloads'[key] = [val |-> u, left |-> LinkLife]
      BY <1>11, <2>1, <2>3 DEF Put
    <2>5. payloads'[key].val = u
      BY <2>4
    <2>6. u.page = v.page
      <3>1. v.todo # <<>> /\ v.todo \in Seq(FilesOf(v.page))
        BY <1>2, <1>3, BodyFiles DEF VisitStage
      <3>2. 1 \in DOMAIN v.todo /\ u = v.todo[1]
        BY <2>3, <3>1
      <3> QED
        BY <1>3, <3>2, BodyFiles
    <2>7. PICK x : x = Index(v)
      OBVIOUS
    <2>8. x = IndexOf(v.page, u)
      BY <2>3, <2>7 DEF Index
    <2>9. u.page = x.page /\ (x.nth # 0 => u = x)
      <3>1. CASE v.page \in Single
        <4>1. x = [page |-> v.page, gen |-> 0, nth |-> 0]
          BY <2>8, <3>1 DEF IndexOf, PageItself
        <4> QED
          BY <2>6, <4>1
      <3>2. CASE v.page \notin Single
        BY <2>8, <3>2 DEF IndexOf
      <3> QED
        BY <3>1, <3>2
    <2>10. KeyLeads(key, x)'
      BY <2>2, <2>5, <2>9 DEF KeyLeads
    <2>11. PICK a : a = "saveIndex"
      OBVIOUS
    <2>12. Moved(c, Turned(v, a, key))
      BY <1>11, <2>1, <2>11 DEF Turned
    <2>13. PICK w : w = Turned(v, a, key)
      OBVIOUS
    <2>14. w.at = a /\ w.key = key /\ w.page = v.page /\ w.todo = v.todo
           /\ w.links = v.links
      BY <1>8, <2>2, <2>13, TurnedBody
    <2>15. Index(w)' = x
      BY <2>7, <2>14 DEF Index, IndexOf, Single
    <2>16. VisitStage(w)'
      BY <1>2, <1>8, <2>10, <2>11, <2>14, <2>15 DEF VisitStage, PageStages, KeyLeads
    <2> QED
      BY <1>1, <1>5, <1>6, <1>7, <1>8, <2>2, <2>12, <2>13, <2>16, TurnKeeps
  <1> QED
    BY <1>1, <1>10, <1>11 DEF SavePayload

\* its index entry written,
LEMMA SaveIndexKeeps ==
  ASSUME PageInv, NEW c \in PageClients, SaveIndex(c)
  PROVE  PageInv'
  <1>1. PICK v : v = pageVisit[c]
    OBVIOUS
  <1>2. v.at = "saveIndex" /\ v.at \in PageStages
    BY <1>1 DEF SaveIndex, PageStages
  <1>3. VisitBody(v) /\ VisitStage(v) /\ v.key \in Nat
    BY <1>1, <1>2, AtStage
  <1>4. PICK key : key = v.key
    OBVIOUS
  <1>5. PICK x : x = Index(v)
    OBVIOUS
  <1>6. KeyLeads(key, x)
    BY <1>2, <1>3, <1>4, <1>5 DEF VisitStage
  <1>7. ASSUME NEW y \in DOMAIN slIndex'
        PROVE  \/ y \in DOMAIN slIndex /\ slIndex'[y].val = slIndex[y].val
               \/ KeyLeads(slIndex[y].val, y)'
    <2>1. CASE UNCHANGED slIndex
      BY <2>1
    <2>2. CASE slIndex' = Put(slIndex, x, key, LinkLife)
      <3>1. CASE y = x
        <4>1. slIndex'[y] = [val |-> key, left |-> LinkLife]
          BY <2>2, <3>1 DEF Put
        <4>2. slIndex'[y].val = key
          BY <4>1
        <4>3. UNCHANGED <<payloads, minted>>
          BY DEF SaveIndex
        <4> QED
          BY <1>6, <3>1, <4>2, <4>3 DEF KeyLeads
      <3>2. CASE y # x
        BY <2>2, <3>2 DEF Put
      <3> QED
        BY <3>1, <3>2
    <2> QED
      BY <1>1, <1>4, <1>5, <2>1, <2>2 DEF SaveIndex
  <1>8. TablesInv' /\ PayloadsStay
    BY <1>7, TablesStay DEF PageInv, SaveIndex, outside
  <1>9. PageStays
    BY <1>8, StaysWithTables DEF SaveIndex, outside
  <1>10. MetadataInv'
    BY <1>9, MetadataStays DEF PageInv, SaveIndex
  <1>11. VisitBody(v)' /\ VisitStage(v)'
    BY <1>1, <1>2, <1>3, <1>9, VisitStays DEF VisitFits, Away
  <1>12. key \in Nat /\ KeyLeads(key, Index(v))' /\ Moved(c, Linked(v, key))
    BY <1>1, <1>2, <1>3, <1>4, <1>11 DEF VisitStage, SaveIndex
  <1>13. v.at \in {"renewIndex", "savePayload", "saveIndex"}
    BY <1>2
  <1> QED
    BY <1>1, <1>8, <1>9, <1>10, <1>11, <1>12, <1>13, LinkKeeps

\* the site without an answer,
LEMMA NotExtractedKeeps ==
  ASSUME PageInv, NEW c \in PageClients, NotExtracted(c)
  PROVE  PageInv'
  <1>1. TablesInv' /\ PageStays
    BY TablesUntouched DEF NotExtracted, outside
  <1>2. MetadataInv'
    BY <1>1, MetadataStays DEF PageInv, NotExtracted
  <1>3. Moved(c, Away) /\ VisitFits(Away)'
    BY DEF NotExtracted, VisitFits
  <1> QED
    BY <1>1, <1>2, <1>3, OneVisit DEF PageInv

\* a request from the cache or to the site,
LEMMA VisitPageKeeps ==
  ASSUME PageInv, NEW c \in PageClients, NEW p \in Pages, VisitPage(c, p)
  PROVE  PageInv'
  <1>1. TablesInv' /\ PageStays
    BY TablesUntouched DEF VisitPage
  <1>2. MetadataInv'
    BY <1>1, MetadataStays DEF PageInv, VisitPage
  <1> DEFINE F == FilesOf(p)
             L == [original : F, key : Nat]
  <1>3. <<>> \in Seq(F) /\ <<>> \in Seq(L)
    OBVIOUS
  <1> HIDE DEF F, L
  <1>4. CASE Moved(c, Request(p, "extract", <<>>))
    <2>1. PICK w : w = Request(p, "extract", <<>>)
      OBVIOUS
    <2>2. w = [at |-> "extract", page |-> p, todo |-> <<>>, links |-> <<>>, fresh |-> TRUE,
               key |-> 0, slow |-> FALSE]
      BY <2>1 DEF Request
    <2>3. /\ w.at = "extract" /\ w.page = p /\ w.todo = <<>> /\ w.links = <<>> /\ w.fresh
      BY <2>2
    <2>4. w \in [at : {w.at}, page : Pages, todo : Seq(F), links : Seq(L),
                 fresh : BOOLEAN, key : Nat, slow : BOOLEAN]
      BY <1>3, <2>2
    <2>5. VisitBody(w)'
      BY <2>3, <2>4 DEF VisitBody, FilesOf, F, L
    <2>6. VisitStage(w)'
      BY <2>3 DEF VisitStage, PageStages
    <2>7. VisitFits(w)' /\ Moved(c, w)
      BY <1>4, <2>1, <2>5, <2>6 DEF VisitFits
    <2> QED
      BY <1>1, <1>2, <2>7, OneVisit DEF PageInv
  <1>5. ASSUME p \in DOMAIN metadata, Moved(c, Onward(Request(p, "cached", metadata[p].val)))
        PROVE  PageInv'
    <2>1. PICK e : e = metadata[p]
      OBVIOUS
    <2>2. CachedPage(p, e) /\ MetadataInv
      BY <1>5, <2>1 DEF PageInv, MetadataInv
    <2>3. /\ e.val \in Seq(FilesOf(p)) /\ e.left \in 1 .. LifeOfMetadata(p)
          /\ Len(e.val) = Files[p] /\ LifeOfMetadata(p) \in Nat
      BY <2>2, LifeFacts DEF CachedPage
    <2>4. ASSUME NEW i \in DOMAIN e.val PROVE ServedUntil(e.val[i], LifeOfMetadata(p))'
      <3>1. e.val[i] \in FilesOf(p)
        BY <2>3
      <3>2. PICK u : u = e.val[i]
        OBVIOUS
      <3>3. u.page = p
        BY <3>1, <3>2 DEF FilesOf
      <3>4. ServedUntil(u, LifeOfMetadata(p) + 1 - e.left)
        BY <2>2, <3>2 DEF CachedPage
      <3>5. u.gen \in DOMAIN stopped[p] => stopped[p][u.gen] \in Nat
        <4>1. stopped[p] \in Seq(Nat)
          BY DEF PageInv, TablesInv
        <4> QED
          BY <4>1
      <3>6. ticks \in Nat
        BY DEF PageInv, TablesInv
      <3>7. PICK n : n = LifeOfMetadata(p)
        OBVIOUS
      <3>8. ServedUntil(u, n)
        BY <2>3, <3>3, <3>4, <3>5, <3>6, <3>7 DEF ServedUntil
      <3>9. ServedUntil(u, n)'
        BY <1>1, <2>3, <3>3, <3>7, <3>8 DEF PageStays
      <3> QED
        BY <3>2, <3>7, <3>9 DEF LifeOfMetadata
    <2>5. PICK v : v = Request(p, "cached", e.val)
      OBVIOUS
    <2>6. v = [at |-> "cached", page |-> p, todo |-> e.val, links |-> <<>>, fresh |-> FALSE,
               key |-> 0, slow |-> FALSE]
      BY <2>5 DEF Request
    <2>7. /\ v.page = p /\ v.todo = e.val /\ v.links = <<>> /\ v.fresh = FALSE /\ v.slow = FALSE
      BY <2>6
    <2>8. AgeOf(v)' = LifeOfMetadata(p)'
      BY <2>3, <2>7 DEF AgeOf, Late, LifeOfMetadata
    <2>9. \A i \in DOMAIN v.todo : ServedUntil(v.todo[i], AgeOf(v))'
      BY <2>4, <2>7, <2>8
    <2>10. v \in [at : {v.at}, page : Pages, todo : Seq(F), links : Seq(L),
                  fresh : BOOLEAN, key : Nat, slow : BOOLEAN]
      <3>1. e.val \in Seq(F)
        BY <2>3 DEF F
      <3> QED
        BY <1>3, <2>6, <3>1
    <2>11. VisitBody(v)'
      BY <2>7, <2>9, <2>10 DEF VisitBody, FilesOf, F, L
    <2>12. Len(v.todo) + Len(v.links) = Files[v.page]
      <3>1. Len(v.links) = 0 /\ Len(v.todo) = Files[p] /\ Files[p] \in Nat
        BY <2>3, <2>7, LifeFacts, EmptySeq
      <3> QED
        BY <2>7, <3>1
    <2>13. PICK w : w = Onward(v)
      OBVIOUS
    <2>14. VisitFits(w)'
      BY <2>11, <2>12, <2>13, OnwardFits
    <2>15. Moved(c, w)
      BY <1>5, <2>1, <2>5, <2>13
    <2> QED
      BY <1>1, <1>2, <2>14, <2>15, OneVisit DEF PageInv
  <1> QED
    BY <1>4, <1>5 DEF VisitPage

\* the site's answer, of addresses it serves now,
LEMMA ExtractedKeeps ==
  ASSUME PageInv, NEW c \in PageClients, Extracted(c)
  PROVE  PageInv'
  <1>1. PICK v : v = pageVisit[c]
    OBVIOUS
  <1>2. v.at = "extract" /\ v.at \in PageStages
    BY <1>1 DEF Extracted, PageStages
  <1>3. VisitBody(v) /\ VisitStage(v) /\ v.page \in Pages
    BY <1>1, <1>2, AtStage
  <1>4. TablesInv' /\ PageStays
    BY TablesUntouched DEF Extracted, outside
  <1>5. MetadataInv'
    BY <1>4, MetadataStays DEF PageInv, Extracted
  <1>6. PICK p : p = v.page
    OBVIOUS
  <1>7. p \in Pages /\ v.links = <<>> /\ v.fresh
    BY <1>2, <1>3, <1>6 DEF VisitStage
  <1> DEFINE F == FilesOf(p)
             L == [original : F, key : Nat]
  <1>8. PICK files : files = PageFiles(p)
    OBVIOUS
  <1>9. files \in Seq(F) /\ Len(files) = Files[p] /\ DOMAIN files = 1 .. Files[p]
        /\ \A i \in DOMAIN files : files[i].page = p /\ files[i].gen = siteGen[p]
    <2>1. Files[p] \in Nat /\ siteGen[p] \in Nat
      BY <1>7, LifeFacts DEF PageInv, TablesInv
    <2>2. DOMAIN files = 1 .. Files[p]
          /\ \A i \in 1 .. Files[p] : files[i] = [page |-> p, gen |-> siteGen[p], nth |-> i]
      BY <1>8 DEF PageFiles
    <2>3. ASSUME NEW i \in 1 .. Files[p]
          PROVE  files[i] \in F /\ files[i].page = p /\ files[i].gen = siteGen[p]
      <3>1. files[i] = [page |-> p, gen |-> siteGen[p], nth |-> i]
        BY <2>2
      <3>2. [page |-> p, gen |-> siteGen[p], nth |-> i] \in F
        BY <2>1 DEF FilesOf
      <3> QED
        BY <3>1, <3>2
    <2>4. PICK n \in Nat : n = Files[p]
      BY <2>1
    <2>5. files = [i \in 1 .. n |-> files[i]]
      BY <1>8, <2>4 DEF PageFiles
    <2>6. PICK G : G = F
      OBVIOUS
    <2>7. \A i \in 1 .. n : files[i] \in G
      BY <2>3, <2>4, <2>6
    <2>8. files \in Seq(G) /\ Len(files) = n
      BY <2>5, <2>7
    <2> QED
      BY <2>2, <2>3, <2>4, <2>6, <2>8
  <1>10. \A n, i : i \in DOMAIN files => ServedUntil(files[i], n)'
    <2>1. siteGen[p] \notin DOMAIN stopped[p]
      <3>1. stopped[p] \in Seq(Nat) /\ Len(stopped[p]) = siteGen[p] - 1 /\ siteGen[p] \in Nat
        BY <1>7 DEF PageInv, TablesInv
      <3>2. DOMAIN stopped[p] = 1 .. siteGen[p] - 1
        BY <3>1
      <3> QED
        BY <3>1, <3>2
    <2> QED
      BY <1>9, <2>1 DEF ServedUntil, Extracted, outside
  <1>11. PICK u : u = [v EXCEPT !.todo = files]
    OBVIOUS
  <1> HIDE DEF F, L
  <1>12. v \in [at : {v.at}, page : Pages, todo : Seq(F), links : Seq(L),
                fresh : BOOLEAN, key : Nat, slow : BOOLEAN]
    BY <1>3, <1>6 DEF VisitBody, F, L
  <1>13. u = [at |-> v.at, page |-> p, todo |-> files, links |-> v.links, fresh |-> v.fresh,
              key |-> v.key, slow |-> v.slow]
    BY <1>6, <1>11, <1>12
  <1>14. /\ u.page = p /\ u.todo = files /\ u.links = <<>> /\ u.fresh /\ u.key = v.key
    BY <1>7, <1>13
  <1>15. u \in [at : {u.at}, page : Pages, todo : Seq(F), links : Seq(L),
                fresh : BOOLEAN, key : Nat, slow : BOOLEAN]
    BY <1>6, <1>9, <1>12, <1>13
  <1>16. VisitBody(u)'
    BY <1>10, <1>14, <1>15 DEF VisitBody, FilesOf, F, L
  <1>17. Len(u.todo) + Len(u.links) = Files[u.page] /\ u.key \in Nat
    <2>1. Len(u.links) = 0 /\ Len(u.todo) = Files[p] /\ Files[p] \in Nat
      BY <1>7, <1>9, <1>14, LifeFacts, EmptySeq
    <2> QED
      BY <1>12, <1>14, <2>1
  <1>18. CASE p \notin Single
    <2>1. PICK w : w = Onward(u)
      OBVIOUS
    <2>2. VisitFits(w)'
      BY <1>16, <1>17, <2>1, OnwardFits
    <2>3. Moved(c, w)
      BY <1>1, <1>6, <1>8, <1>11, <1>18, <2>1 DEF Extracted
    <2> QED
      BY <1>4, <1>5, <2>2, <2>3, OneVisit DEF PageInv
  <1>19. CASE p \in Single
    <2>1. PICK key : key = u.key
      OBVIOUS
    <2>2. PICK a : a = "store"
      OBVIOUS
    <2>3. PICK w : w = Turned(u, a, key)
      OBVIOUS
    <2>4. key \in Nat
      BY <1>17, <2>1
    <2>5. VisitBody(w)' /\ w.at = a /\ w.page = p /\ w.todo = files /\ w.links = <<>> /\ w.fresh
      BY <1>14, <1>16, <2>3, <2>4, TurnedBody
    <2>6. VisitStage(w)'
      BY <1>14, <1>17, <1>19, <2>2, <2>5 DEF VisitStage, PageStages, Single
    <2>7. [u EXCEPT !.at = "store"] = w
      BY <1>15, <2>1, <2>2, <2>3 DEF Turned
    <2>8. Moved(c, [u EXCEPT !.at = "store"])
      BY <1>1, <1>6, <1>8, <1>11, <1>19 DEF Extracted
    <2>9. VisitFits(w)' /\ Moved(c, w)
      BY <2>5, <2>6, <2>7, <2>8 DEF VisitFits
    <2> QED
      BY <1>4, <1>5, <2>9, OneVisit DEF PageInv
  <1> QED
    BY <1>18, <1>19

\* the metadata written, with addresses no older than the request,
LEMMA StoreMetadataKeeps ==
  ASSUME PageInv, NEW c \in PageClients, StoreMetadata(c)
  PROVE  PageInv'
  <1>1. PICK v : v = pageVisit[c]
    OBVIOUS
  <1>2. v.at = "store" /\ v.at \in PageStages
    BY <1>1 DEF StoreMetadata, PageStages
  <1>3. VisitBody(v) /\ VisitStage(v) /\ v.page \in Pages /\ v.key \in Nat
        /\ \A a : [v EXCEPT !.at = a] = Turned(v, a, v.key)
    BY <1>1, <1>2, AtStage
  <1>4. TablesInv' /\ PageStays
    BY TablesUntouched DEF StoreMetadata, outside
  <1>5. VisitBody(v)' /\ VisitStage(v)'
    BY <1>1, <1>2, <1>3, <1>4, VisitStays DEF VisitFits, Away
  <1>6. PICK p : p = v.page
    OBVIOUS
  <1>7. v.fresh /\ p \in Pages /\ Len(v.todo) + Len(v.links) = Files[p]
        /\ (p \in Single => v.links = <<>>) /\ (p \notin Single => v.todo = <<>>)
    BY <1>2, <1>3, <1>6 DEF VisitStage
  <1>8. PICK files : files = IF p \in Single THEN v.todo
                             ELSE [i \in DOMAIN v.links |-> v.links[i].original]
    OBVIOUS
  <1>9. v.todo \in Seq(FilesOf(p)) /\ v.links \in Seq([original : FilesOf(p), key : Nat])
    BY <1>3, <1>6, BodyFiles
  <1>10. Len(v.todo) \in Nat /\ Len(v.links) \in Nat
    BY <1>9, LenProperties
  <1>11. AgeOf(v)' \in {0, 1} /\ AgeOf(v) \in {0, 1}
    BY <1>7 DEF AgeOf, Late
  <1>12. /\ files \in Seq(FilesOf(p)) /\ Len(files) = Files[p]
         /\ \A i \in DOMAIN files : ServedUntil(files[i], AgeOf(v))'
    <2>1. CASE p \in Single
      <3>1. files = v.todo /\ Len(v.links) = 0
        BY <1>7, <1>8, <2>1, EmptySeq
      <3>2. Len(files) = Files[p]
        BY <1>7, <1>10, <3>1
      <3> QED
        BY <1>5, <1>9, <3>1, <3>2 DEF VisitBody
    <2>2. CASE p \notin Single
      <3>1. Len(v.todo) = 0
        BY <1>7, <2>2, EmptySeq
      <3>2. Len(v.links) = Files[p]
        BY <1>7, <1>10, <3>1
      <3>3. PICK n \in Nat : n = Len(v.links) /\ DOMAIN v.links = 1 .. n
        BY <1>9, <1>10, LenProperties
      <3>4. files = [i \in 1 .. n |-> v.links[i].original]
        BY <1>8, <2>2, <3>3
      <3>5. ASSUME NEW i \in 1 .. n
            PROVE  v.links[i].original \in FilesOf(p) /\ files[i] = v.links[i].original
        <4>1. v.links[i] \in [original : FilesOf(v.page), key : Nat]
          BY <1>3, <3>3, BodyFiles
        <4> QED
          BY <1>6, <3>4, <4>1
      <3>6. PICK F : F = FilesOf(p)
        OBVIOUS
      <3>7. \A i \in 1 .. n : v.links[i].original \in F
        BY <3>5, <3>6
      <3>8. files \in Seq(F) /\ Len(files) = n /\ DOMAIN files = 1 .. n
        BY <3>4, <3>7
      <3>9. ASSUME NEW i \in DOMAIN files PROVE ServedUntil(files[i], AgeOf(v))'
        <4>1. i \in DOMAIN v.links /\ files[i] = v.links[i].original
          BY <3>3, <3>5, <3>8
        <4> QED
          BY <1>5, <4>1 DEF VisitBody
      <3> QED
        BY <3>2, <3>3, <3>6, <3>8, <3>9
    <2> QED
      BY <2>1, <2>2
  <1>13. PICK life : life = LifeOfMetadata(p)
    OBVIOUS
  <1>14. PICK e : e = [val |-> files, left |-> life]
    OBVIOUS
  <1>15. CachedPage(p, e)'
    <2>1. life \in Nat \ {0}
      BY <1>7, <1>13, LifeFacts
    <2>2. e \in [val : Seq(FilesOf(p)), left : 1 .. life] /\ e.val = files /\ e.left = life
      BY <1>12, <1>14, <2>1
    <2>3. ASSUME NEW i \in DOMAIN files PROVE ServedUntil(files[i], life + 1 - life)'
      <3>1. PICK u : u = files[i]
        OBVIOUS
      <3>2. ServedUntil(u, AgeOf(v))'
        BY <1>12, <3>1
      <3>3. u.page \in Pages
        <4>1. u \in FilesOf(p)
          BY <1>12, <3>1
        <4> QED
          BY <1>7, <4>1 DEF FilesOf
      <3>4. u.gen \in DOMAIN stopped'[u.page] => stopped'[u.page][u.gen] \in Nat
        <4>1. stopped'[u.page] \in Seq(Nat)
          BY <1>4, <3>3 DEF TablesInv
        <4> QED
          BY <4>1
      <3>5. ticks' \in Nat
        BY <1>4 DEF TablesInv
      <3>6. PICK n : n = AgeOf(v)'
        OBVIOUS
      <3>7. n \in {0, 1} /\ ServedUntil(u, n)'
        BY <1>11, <3>2, <3>6 DEF ServedUntil
      <3>8. ServedUntil(u, 1)'
        BY <3>4, <3>5, <3>7 DEF ServedUntil
      <3>9. life + 1 - life = 1
        BY <2>1
      <3> QED
        BY <3>1, <3>8, <3>9 DEF ServedUntil
    <2> QED
      BY <1>12, <1>13, <2>2, <2>3 DEF CachedPage, FilesOf, LifeOfMetadata
  <1>16. \/ metadata' = Put(metadata, p, files, life)
         \/ UNCHANGED metadata
    BY <1>1, <1>6, <1>8, <1>13 DEF StoreMetadata
  <1>17. ASSUME NEW q \in DOMAIN metadata'
         PROVE  \/ q \in DOMAIN metadata /\ metadata'[q] = metadata[q]
                \/ q \in Pages /\ CachedPage(q, metadata[q])'
    <2>1. CASE UNCHANGED metadata
      BY <2>1
    <2>2. CASE metadata' = Put(metadata, p, files, life)
      <3>1. CASE q = p
        <4>1. metadata'[q] = e
          BY <1>14, <2>2, <3>1 DEF Put
        <4> QED
          BY <1>7, <1>15, <3>1, <4>1 DEF CachedPage
      <3>2. CASE q # p
        BY <2>2, <3>2 DEF Put
      <3> QED
        BY <3>1, <3>2
    <2> QED
      BY <1>16, <2>1, <2>2
  <1>18. MetadataInv'
    BY <1>4, <1>17, MetadataStays DEF PageInv
  <1>19. PICK key : key = v.key
    OBVIOUS
  <1>20. PICK a : a = IF p \in Single THEN "lookup" ELSE "answered"
    OBVIOUS
  <1>21. PICK w : w = Turned(v, a, key)
    OBVIOUS
  <1>22. Moved(c, Turned(v, a, key)) /\ key \in Nat
    BY <1>1, <1>3, <1>6, <1>19, <1>20 DEF StoreMetadata
  <1>23. w.at = a /\ w.page = p /\ w.todo = v.todo /\ w.links = v.links
    BY <1>5, <1>6, <1>21, <1>22, TurnedBody
  <1>24. p \in Single => v.todo # <<>>
    <2>1. p \in Single => Files[p] = 1
      BY PageAssumption DEF Single
    <2>2. v.todo = <<>> => Len(v.todo) = 0
      BY EmptySeq
    <2>3. v.links = <<>> => Len(v.links) = 0
      BY EmptySeq
    <2>4. ASSUME p \in Single, v.todo = <<>> PROVE FALSE
      <3>1. Files[p] = 1 /\ Len(v.todo) = 0 /\ Len(v.links) = 0
        BY <1>7, <2>1, <2>2, <2>3, <2>4
      <3> QED
        BY <1>7, <3>1
    <2> QED
      BY <2>4
  <1>25. VisitStage(w)'
    BY <1>7, <1>20, <1>23, <1>24 DEF VisitStage, PageStages, Single
  <1> QED
    BY <1>1, <1>4, <1>5, <1>18, <1>21, <1>22, <1>25, TurnKeeps

\* a site that serves other addresses from now on,
LEMMA NextGenerationKeeps ==
  ASSUME PageInv, NEW p \in Pages, NextGeneration(p)
  PROVE  PageInv'
  <1>1. /\ UNCHANGED <<payloads, minted, slIndex, ticks, metadata, pageVisit>>
        /\ stopped' = [stopped EXCEPT ![p] = Append(@, ticks)]
        /\ siteGen' = [siteGen EXCEPT ![p] = @ + 1]
    BY DEF NextGeneration
  <1>2. PayloadsStay
    BY <1>1 DEF PayloadsStay, PageInv, TablesInv
  <1>3. PageStays
    BY <1>1, <1>2, StaysWithTables
  <1>4. TablesInv'
    <2>1. siteGen \in [Pages -> Nat \ {0}] /\ DOMAIN stopped = Pages /\ ticks \in Nat
      BY DEF PageInv, TablesInv
    <2>2. siteGen' \in [Pages -> Nat \ {0}] /\ DOMAIN stopped' = Pages
      BY <1>1, <2>1
    <2>3. ASSUME NEW q \in Pages
          PROVE  /\ stopped'[q] \in Seq(Nat) /\ Len(stopped'[q]) = siteGen'[q] - 1
                 /\ \A g \in DOMAIN stopped'[q] : stopped'[q][g] <= ticks'
      <3>1. stopped[q] \in Seq(Nat) /\ Len(stopped[q]) = siteGen[q] - 1
            /\ \A g \in DOMAIN stopped[q] : stopped[q][g] <= ticks
        BY DEF PageInv, TablesInv
      <3>2. CASE q = p
        <4>1. PICK s : s = stopped[q]
          OBVIOUS
        <4>2. s \in Seq(Nat) /\ Len(s) = siteGen[q] - 1 /\ \A g \in DOMAIN s : s[g] <= ticks
          BY <3>1, <4>1
        <4>3. stopped'[q] = Append(s, ticks) /\ siteGen'[q] = siteGen[q] + 1
          BY <1>1, <2>1, <3>2, <4>1
        <4>4. Append(s, ticks) \in Seq(Nat) /\ Len(Append(s, ticks)) = Len(s) + 1
          BY <2>1, <4>2
        <4>5. ASSUME NEW g \in DOMAIN Append(s, ticks) PROVE Append(s, ticks)[g] <= ticks
          BY <2>1, <4>2, AppendProperties
        <4>6. Len(s) + 1 = (siteGen[q] + 1) - 1
          BY <2>1, <4>2
        <4> QED
          BY <1>1, <4>3, <4>4, <4>5, <4>6
      <3>3. CASE q # p
        BY <1>1, <2>1, <3>1, <3>3
      <3> QED
        BY <3>2, <3>3
    <2>4. ASSUME NEW x \in DOMAIN slIndex' PROVE KeyLeads(slIndex[x].val, x)'
      BY <1>1 DEF PageInv, TablesInv, KeyLeads
    <2> QED
      BY <1>1, <2>2, <2>3, <2>4 DEF PageInv, TablesInv
  <1>5. MetadataInv'
    BY <1>1, <1>3, MetadataStays DEF PageInv
  <1>6. ASSUME NEW c \in PageClients PROVE VisitFits(pageVisit[c])'
    <2>1. PICK v : v = pageVisit[c]
      OBVIOUS
    <2>2. VisitFits(v)'
      BY <1>3, <2>1, VisitStays DEF PageInv, VisitsInv
    <2> QED
      BY <1>1, <2>1, <2>2 DEF VisitFits
  <1>7. VisitsInv'
    BY <1>1, <1>6 DEF PageInv, VisitsInv
  <1> QED
    BY <1>4, <1>5, <1>7 DEF PageInv

\* What is known of an address a tick later.
LEMMA ServedLonger ==
  ASSUME TablesInv, stopped' = stopped, ticks' = ticks + 1
  PROVE  \A u, n : u.page \in Pages /\ n \in Nat /\ ServedUntil(u, n) => ServedUntil(u, n + 1)'
  <1>1. SUFFICES ASSUME NEW u, NEW n \in Nat, u.page \in Pages, ServedUntil(u, n)
                 PROVE  ServedUntil(u, n + 1)'
    OBVIOUS
  <1>2. PICK s : s = stopped[u.page]
    OBVIOUS
  <1>3. s \in Seq(Nat) /\ ticks \in Nat /\ stopped'[u.page] = s
    BY <1>1, <1>2 DEF TablesInv
  <1>4. ASSUME u.gen \in DOMAIN s PROVE ticks' - s[u.gen] <= n + 1
    <2>1. s[u.gen] \in Nat
      BY <1>3, <1>4
    <2>2. ticks - s[u.gen] <= n
      BY <1>1, <1>2, <1>4 DEF ServedUntil
    <2> QED
      BY <1>3, <2>1, <2>2
  <1> QED
    BY <1>3, <1>4 DEF ServedUntil

\* and a tick: addresses get older and lives shorter, by the same.
LEMMA PageTickKeeps ==
  ASSUME PageInv, PageTick
  PROVE  PageInv'
  <1>1. /\ ticks' = ticks + 1 /\ UNCHANGED <<siteGen, minted, stopped>>
        /\ metadata' = Aged(metadata) /\ payloads' = Aged(payloads) /\ slIndex' = Aged(slIndex)
    BY DEF PageTick
  <1>2. \A u, n : u.page \in Pages /\ n \in Nat /\ ServedUntil(u, n) => ServedUntil(u, n + 1)'
    BY <1>1, ServedLonger DEF PageInv
  <1>3. /\ DOMAIN payloads' \subseteq DOMAIN payloads
        /\ \A k \in DOMAIN payloads' : payloads'[k].val = payloads[k].val
    <2>1. DOMAIN payloads' \subseteq DOMAIN payloads
      BY <1>1 DEF Aged
    <2>2. ASSUME NEW k \in DOMAIN payloads' PROVE payloads'[k].val = payloads[k].val
      <3>1. payloads'[k] = [val |-> payloads[k].val, left |-> payloads[k].left - 1]
        BY <1>1 DEF Aged
      <3> QED
        BY <3>1
    <2> QED
      BY <2>1, <2>2
  <1>4. /\ DOMAIN slIndex' \subseteq DOMAIN slIndex
        /\ \A x \in DOMAIN slIndex' : slIndex'[x].val = slIndex[x].val
    <2>1. DOMAIN slIndex' \subseteq DOMAIN slIndex
      BY <1>1 DEF Aged
    <2>2. ASSUME NEW x \in DOMAIN slIndex' PROVE slIndex'[x].val = slIndex[x].val
      <3>1. slIndex'[x] = [val |-> slIndex[x].val, left |-> slIndex[x].left - 1]
        BY <1>1 DEF Aged
      <3> QED
        BY <3>1
    <2> QED
      BY <2>1, <2>2
  <1>5. minted \in Nat /\ ticks \in Nat /\ DOMAIN payloads \subseteq 1 .. minted
    BY DEF PageInv, TablesInv
  <1>6. PayloadsStay
    <2>1. minted' \in Nat /\ minted' >= minted
      BY <1>1, <1>5
    <2> QED
      BY <1>1, <1>3, <1>5, <2>1 DEF PayloadsStay
  <1>7. \A k, x : KeyLeads(k, x) => KeyLeads(k, x)'
    BY <1>6, KeyLeadsStay DEF PageInv
  <1>8. TablesInv'
    <2>1. DOMAIN payloads' \subseteq 1 .. minted' /\ minted' \in Nat /\ ticks' \in Nat
      BY <1>1, <1>3, <1>5
    <2>2. siteGen' \in [Pages -> Nat \ {0}] /\ DOMAIN stopped' = Pages
      BY <1>1 DEF PageInv, TablesInv
    <2>3. ASSUME NEW p \in Pages
          PROVE  /\ stopped'[p] \in Seq(Nat) /\ Len(stopped'[p]) = siteGen'[p] - 1
                 /\ \A g \in DOMAIN stopped'[p] : stopped'[p][g] <= ticks'
      <3>1. PICK s : s = stopped[p]
        OBVIOUS
      <3>2. s \in Seq(Nat) /\ Len(s) = siteGen[p] - 1 /\ \A g \in DOMAIN s : s[g] <= ticks
        BY <3>1 DEF PageInv, TablesInv
      <3>3. ASSUME NEW g \in DOMAIN s PROVE s[g] <= ticks + 1
        <4>1. s[g] \in Nat /\ s[g] <= ticks
          BY <3>2
        <4> QED
          BY <1>5, <4>1
      <3> QED
        BY <1>1, <3>1, <3>2, <3>3
    <2>4. ASSUME NEW x \in DOMAIN slIndex' PROVE KeyLeads(slIndex[x].val, x)'
      <3>1. PICK k : k = slIndex[x].val
        OBVIOUS
      <3>2. x \in DOMAIN slIndex /\ slIndex'[x].val = k
        BY <1>4, <3>1
      <3>3. KeyLeads(k, x)
        BY <3>1, <3>2 DEF PageInv, TablesInv
      <3> QED
        BY <1>7, <3>2, <3>3 DEF KeyLeads
    <2> QED
      BY <2>1, <2>2, <2>3, <2>4 DEF TablesInv
  <1>9. ASSUME NEW p \in DOMAIN metadata' PROVE p \in Pages /\ CachedPage(p, metadata[p])'
    <2>1. PICK e : e = metadata[p]
      OBVIOUS
    <2>2. PICK d : d = metadata'[p]
      OBVIOUS
    <2>3. p \in DOMAIN metadata /\ e.left > 1 /\ d = [val |-> e.val, left |-> e.left - 1]
      BY <1>1, <1>9, <2>1, <2>2 DEF Aged
    <2>4. p \in Pages /\ CachedPage(p, e)
      BY <2>1, <2>3 DEF PageInv, MetadataInv
    <2>5. PICK life : life = LifeOfMetadata(p)
      OBVIOUS
    <2>6. life \in Nat /\ e.val \in Seq(FilesOf(p)) /\ e.left \in 1 .. life
          /\ Len(e.val) = Files[p]
      BY <2>4, <2>5, LifeFacts DEF CachedPage
    <2>7. PICK n : n = life + 1 - e.left
      OBVIOUS
    <2>8. d.val = e.val /\ d.left = e.left - 1 /\ d.left \in 1 .. life
          /\ n \in Nat /\ life + 1 - d.left = n + 1
      BY <2>3, <2>6, <2>7
    <2>9. ASSUME NEW i \in DOMAIN d.val PROVE ServedUntil(d.val[i], n + 1)'
      <3>1. PICK u : u = e.val[i]
        OBVIOUS
      <3>2. u \in FilesOf(p)
        BY <2>6, <2>8, <2>9, <3>1
      <3>3. u.page \in Pages /\ ServedUntil(u, n)
        BY <2>4, <2>5, <2>7, <2>8, <2>9, <3>1, <3>2 DEF CachedPage, FilesOf
      <3> QED
        BY <1>2, <2>8, <3>1, <3>3
    <2>10. d \in [val : Seq(FilesOf(p)), left : 1 .. life]
      BY <2>3, <2>6, <2>8
    <2>11. CachedPage(p, d)'
      BY <2>5, <2>6, <2>8, <2>9, <2>10 DEF CachedPage, FilesOf, LifeOfMetadata
    <2> QED
      BY <2>2, <2>4, <2>11 DEF CachedPage
  <1>10. MetadataInv'
    BY <1>9 DEF MetadataInv
  <1>11. /\ DOMAIN pageVisit' = PageClients
         /\ \A c \in PageClients :
              pageVisit'[c] = IF NotVisiting(c) THEN Away ELSE [pageVisit[c] EXCEPT !.slow = TRUE]
         /\ \A c \in PageClients : ~ NotVisiting(c) => ~ pageVisit[c].slow
    BY DEF PageTick
  <1>12. ASSUME NEW c \in PageClients PROVE VisitFits(pageVisit[c])'
    <2>1. CASE NotVisiting(c)
      BY <1>11, <2>1 DEF VisitFits
    <2>2. CASE ~ NotVisiting(c)
      <3>1. PICK v : v = pageVisit[c]
        OBVIOUS
      <3>2. ~ v.slow /\ v.at # "away" /\ VisitFits(v)
        BY <1>11, <2>2, <3>1 DEF NotVisiting, PageInv, VisitsInv
      <3>3. VisitBody(v) /\ VisitStage(v)
        BY <3>2 DEF VisitFits, Away
      <3>4. PICK w : w = [v EXCEPT !.slow = TRUE]
        OBVIOUS
      <3>5. v \in [at : {v.at}, page : Pages, todo : Seq(FilesOf(v.page)),
                   links : Seq([original : FilesOf(v.page), key : Nat]),
                   fresh : BOOLEAN, key : Nat, slow : BOOLEAN]
        BY <3>3 DEF VisitBody
      <3>6. w = [at |-> v.at, page |-> v.page, todo |-> v.todo, links |-> v.links,
                 fresh |-> v.fresh, key |-> v.key, slow |-> TRUE]
        BY <3>4, <3>5
      <3>7. /\ w.at = v.at /\ w.page = v.page /\ w.todo = v.todo /\ w.links = v.links
            /\ w.fresh = v.fresh /\ w.key = v.key /\ w.slow = TRUE
        BY <3>6
      <3>8. PICK n : n = AgeOf(v)
        OBVIOUS
      <3>9. n \in Nat /\ AgeOf(w)' = n + 1 /\ v.page \in Pages
        <4>1. v.page \in Pages /\ LifeOfMetadata(v.page) \in Nat
          BY <3>5, LifeFacts
        <4>2. AgeOf(v) = IF v.fresh THEN 0 ELSE LifeOfMetadata(v.page)
          BY <3>2, <4>1 DEF AgeOf, Late
        <4>3. AgeOf(w)' = 1 + (IF v.fresh THEN 0 ELSE LifeOfMetadata(v.page))
          BY <3>7 DEF AgeOf, Late, LifeOfMetadata
        <4> QED
          BY <3>8, <4>1, <4>2, <4>3
      <3>10. ASSUME NEW i \in DOMAIN v.todo PROVE ServedUntil(v.todo[i], n + 1)'
        <4>1. PICK u : u = v.todo[i]
          OBVIOUS
        <4>2. u.page \in Pages /\ ServedUntil(u, n)
          BY <3>3, <3>8, <4>1, BodyFiles DEF VisitBody
        <4> QED
          BY <1>2, <3>9, <4>1, <4>2
      <3>11. ASSUME NEW i \in DOMAIN v.links
             PROVE  /\ ServedUntil(v.links[i].original, n + 1)'
                    /\ \/ v.links[i].key = 0
                       \/ KeyLeads(v.links[i].key, IndexOf(v.page, v.links[i].original))'
        <4>1. PICK u : u = v.links[i].original
          OBVIOUS
        <4>2. u.page \in Pages /\ ServedUntil(u, n)
          BY <3>3, <3>8, <4>1, BodyFiles DEF VisitBody
        <4>3. ServedUntil(u, n + 1)'
          BY <1>2, <3>9, <4>2
        <4>4. PICK x : x = IndexOf(v.page, u)
          OBVIOUS
        <4>5. v.links[i].key = 0 \/ KeyLeads(v.links[i].key, x)
          BY <3>3, <4>1, <4>4 DEF VisitBody
        <4>6. v.links[i].key = 0 \/ KeyLeads(v.links[i].key, x)'
          BY <1>7, <4>5
        <4> QED
          BY <4>1, <4>3, <4>4, <4>6 DEF KeyLeads, IndexOf, Single
      <3>12. w \in [at : {w.at}, page : Pages, todo : Seq(FilesOf(w.page)),
                    links : Seq([original : FilesOf(w.page), key : Nat]),
                    fresh : BOOLEAN, key : Nat, slow : BOOLEAN]
        BY <3>5, <3>6, <3>7
      <3>13. VisitBody(w)'
        BY <3>7, <3>9, <3>10, <3>11, <3>12 DEF VisitBody, FilesOf
      <3>14. VisitStage(w)'
        <4>1. PICK x : x = Index(v)
          OBVIOUS
        <4>2. v.at \in {"renewPayload", "renewIndex", "saveIndex"} => KeyLeads(v.key, x)'
          BY <1>7, <3>3, <4>1 DEF VisitStage
        <4>3. Index(w)' = x
          BY <3>7, <4>1 DEF Index, IndexOf, Single
        <4>4. w.at \in {"renewPayload", "renewIndex", "saveIndex"} => KeyLeads(w.key, Index(w))'
          BY <3>7, <4>2, <4>3 DEF KeyLeads
        <4> QED
          BY <3>3, <3>7, <4>4 DEF VisitStage, Single
      <3>15. pageVisit'[c] = w
        BY <1>11, <2>2, <3>1, <3>4
      <3> QED
        BY <3>13, <3>14, <3>15 DEF VisitFits
    <2> QED
      BY <2>1, <2>2
  <1>13. VisitsInv'
    BY <1>11, <1>12 DEF VisitsInv
  <1> QED
    BY <1>8, <1>10, <1>13 DEF PageInv

\* The first state has it.
LEMMA PageInvStarts ==
  ASSUME PageInit
  PROVE  PageInv
  <1>1. /\ DOMAIN metadata = {} /\ DOMAIN payloads = {} /\ DOMAIN slIndex = {}
        /\ minted = 0 /\ ticks = 0
        /\ siteGen = [p \in Pages |-> 1] /\ stopped = [p \in Pages |-> <<>>]
        /\ pageVisit = [c \in PageClients |-> Away]
    BY DEF PageInit, Empty
  <1>2. ASSUME NEW p \in Pages
        PROVE  /\ stopped[p] \in Seq(Nat) /\ Len(stopped[p]) = siteGen[p] - 1
               /\ \A g \in DOMAIN stopped[p] : stopped[p][g] <= ticks
    <2>1. stopped[p] = <<>> /\ siteGen[p] = 1
      BY <1>1
    <2>2. <<>> \in Seq(Nat) /\ Len(<<>>) = 0 /\ DOMAIN <<>> = {}
      OBVIOUS
    <2> QED
      BY <2>1, <2>2
  <1>3. TablesInv
    BY <1>1, <1>2 DEF TablesInv
  <1>4. MetadataInv
    BY <1>1 DEF MetadataInv
  <1>5. VisitsInv
    BY <1>1 DEF VisitsInv, VisitFits
  <1> QED
    BY <1>3, <1>4, <1>5 DEF PageInv

\* The inductive invariant of the links of a page.
LEMMA PageInvHolds == PageSpec => []PageInv
  <1>1. PageInit => PageInv
    BY PageInvStarts
  <1>2. PageInv /\ [PageNext]_pageVars => PageInv'
    <2>1. SUFFICES ASSUME PageInv, [PageNext]_pageVars PROVE PageInv'
      OBVIOUS
    <2>2. CASE UNCHANGED pageVars
      <3>1. TablesInv' /\ PageStays
        BY <2>1, <2>2, TablesUntouched DEF pageVars, outside
      <3>2. MetadataInv'
        BY <2>1, <2>2, <3>1, MetadataStays DEF PageInv, pageVars
      <3>3. ASSUME NEW c \in PageClients PROVE VisitFits(pageVisit[c])'
        <4>1. PICK v : v = pageVisit[c]
          OBVIOUS
        <4>2. VisitFits(v)'
          BY <2>1, <3>1, <4>1, VisitStays DEF PageInv, VisitsInv
        <4> QED
          BY <2>2, <4>1, <4>2 DEF VisitFits, pageVars
      <3>4. VisitsInv'
        BY <2>1, <2>2, <3>3 DEF PageInv, VisitsInv, pageVars
      <3> QED
        BY <3>1, <3>2, <3>4 DEF PageInv
    <2>3. ASSUME NEW c \in PageClients, PageStep(c) PROVE PageInv'
      BY <2>1, <2>3, ExtractedKeeps, NotExtractedKeeps, StoreMetadataKeeps, LookUpIndexKeeps,
         RenewPayloadKeeps, RenewIndexKeeps, SavePayloadKeeps, SaveIndexKeeps DEF PageStep
    <2>4. ASSUME NEW c \in PageClients, NEW p \in Pages, VisitPage(c, p) PROVE PageInv'
      BY <2>1, <2>4, VisitPageKeeps
    <2>5. ASSUME NEW p \in Pages, NextGeneration(p) PROVE PageInv'
      BY <2>1, <2>5, NextGenerationKeeps
    <2>6. CASE PageTick
      BY <2>1, <2>6, PageTickKeeps
    <2> QED
      BY <2>1, <2>2, <2>3, <2>4, <2>5, <2>6 DEF PageNext
  <1> QED
    BY <1>1, <1>2, PTL DEF PageSpec

\* No link beside an answered address leads to another page, and none of the addresses
\* is older than its metadata may be, for any pages, sites, lifetimes and requests.
THEOREM PageLinksKeepLeading == PageSpec => []PageLinksLead
  <1>1. ASSUME PageInv PROVE PageTypeOK
    <2>1. /\ DOMAIN metadata \subseteq Pages /\ DOMAIN payloads \subseteq 1 .. minted
          /\ \A k \in DOMAIN slIndex : slIndex[k].val \in 1 .. minted
      BY <1>1 DEF PageInv, TablesInv, MetadataInv, KeyLeads
    <2>2. \A p \in DOMAIN metadata : Len(metadata[p].val) = Files[p]
      BY <1>1 DEF PageInv, MetadataInv, CachedPage
    <2>3. ASSUME NEW c \in Answers
          PROVE  Len(pageVisit[c].links) = Files[pageVisit[c].page]
      <3>1. PICK v : v = pageVisit[c]
        OBVIOUS
      <3>2. VisitBody(v) /\ VisitStage(v) /\ v.at = "answered"
        BY <1>1, <2>3, <3>1 DEF PageInv, VisitsInv, VisitFits, Answers, Away
      <3>3. Len(v.todo) = 0 /\ Len(v.todo) + Len(v.links) = Files[v.page]
        BY <3>2, EmptySeq DEF VisitStage
      <3>4. Len(v.links) \in Nat
        BY <3>2, BodyFiles, LenProperties
      <3> QED
        BY <3>1, <3>3, <3>4
    <2> QED
      BY <2>1, <2>2, <2>3 DEF PageTypeOK
  <1>2. ASSUME PageInv, NEW c \in Answers, NEW link \in LinksOf(c)
        PROVE  /\ link.original \in FilesOf(pageVisit[c].page) /\ pageVisit[c].page \in Pages
               /\ ServedUntil(link.original, LifeOfMetadata(pageVisit[c].page) + 1)
               /\ \A u \in LeadsTo(link) :
                     /\ u.page = pageVisit[c].page
                     /\ pageVisit[c].page \notin Single => u = link.original
    <2>1. PICK v : v = pageVisit[c]
      OBVIOUS
    <2>2. VisitBody(v)
      BY <1>2, <2>1 DEF PageInv, VisitsInv, VisitFits, Answers, Away
    <2>3. PICK i \in DOMAIN v.links : link = v.links[i]
      BY <1>2, <2>1 DEF LinksOf
    <2>4. PICK o : o = link.original
      OBVIOUS
    <2>5. o \in FilesOf(v.page) /\ o.page = v.page /\ v.page \in Pages
      <3>1. v.links[i] \in [original : FilesOf(v.page), key : Nat] /\ v.page \in Pages
            /\ v.links[i].original.page = v.page
        BY <2>2, BodyFiles
      <3> QED
        BY <2>3, <2>4, <3>1
    <2>6. ServedUntil(o, AgeOf(v))
          /\ (link.key = 0 \/ KeyLeads(link.key, IndexOf(v.page, o)))
      BY <2>2, <2>3, <2>4 DEF VisitBody
    <2>7. ServedUntil(o, LifeOfMetadata(v.page) + 1)
      <3>1. PICK n : n = AgeOf(v)
        OBVIOUS
      <3>2. PICK m : m = LifeOfMetadata(v.page) + 1
        OBVIOUS
      <3>3. n \in Nat /\ m \in Nat /\ n <= m
        BY <2>5, <3>1, <3>2, AgeFacts, LifeFacts
      <3>4. PICK s : s = stopped[o.page]
        OBVIOUS
      <3>5. s \in Seq(Nat) /\ ticks \in Nat
        BY <1>2, <2>5, <3>4 DEF PageInv, TablesInv
      <3>6. ASSUME o.gen \in DOMAIN s PROVE ticks - s[o.gen] <= m
        <4>1. s[o.gen] \in Nat
          BY <3>5, <3>6
        <4>2. ticks - s[o.gen] <= n
          BY <2>6, <3>1, <3>4, <3>6 DEF ServedUntil
        <4> QED
          BY <3>3, <3>5, <4>1, <4>2
      <3> QED
        BY <3>2, <3>4, <3>6 DEF ServedUntil
    <2>8. ASSUME NEW u \in LeadsTo(link)
          PROVE  u.page = v.page /\ (v.page \notin Single => u = o)
      <3>1. CASE link.key = 0
        BY <2>4, <2>5, <2>8, <3>1 DEF LeadsTo
      <3>2. CASE link.key # 0
        <4>1. PICK x : x = IndexOf(v.page, o)
          OBVIOUS
        <4>2. KeyLeads(link.key, x)
          BY <2>6, <3>2, <4>1
        <4>3. link.key \in DOMAIN payloads /\ u = payloads[link.key].val
          BY <2>8, <3>2 DEF LeadsTo
        <4>4. u.page = x.page /\ (x.nth # 0 => u = x)
          BY <4>2, <4>3 DEF KeyLeads
        <4>5. CASE v.page \in Single
          <5>1. x.page = v.page
            BY <4>1, <4>5 DEF IndexOf, PageItself
          <5> QED
            BY <4>4, <4>5, <5>1
        <4>6. CASE v.page \notin Single
          <5>1. x = o /\ o.nth # 0
            <6>1. o.nth \in 1 .. Files[v.page] /\ Files[v.page] \in Nat
              BY <2>5, LifeFacts DEF FilesOf
            <6> QED
              BY <4>1, <4>6, <6>1 DEF IndexOf
          <5> QED
            BY <2>5, <4>4, <5>1
        <4> QED
          BY <4>5, <4>6
      <3> QED
        BY <3>1, <3>2
    <2> QED
      BY <2>1, <2>4, <2>5, <2>7, <2>8
  <1>3. ASSUME PageInv PROVE PageLinksLead
    <2>1. LinksLeadHome
      BY <1>2, <1>3 DEF LinksLeadHome
    <2>2. LinksLeadToOriginals
      BY <1>2, <1>3 DEF LinksLeadToOriginals
    <2>3. ASSUME NEW c \in Answers, NEW link \in LinksOf(c),
                 link.original.gen \in DOMAIN stopped[pageVisit[c].page]
          PROVE  ticks - stopped[pageVisit[c].page][link.original.gen]
                   <= Ticks(cacheTTL[SiteOf[pageVisit[c].page]]) + 1
      <3>1. link.original.page = pageVisit[c].page
        BY <1>2, <1>3, <2>3 DEF FilesOf
      <3> QED
        BY <1>2, <1>3, <2>3, <3>1 DEF ServedUntil, LifeOfMetadata
    <2> QED
      BY <1>1, <1>3, <2>1, <2>2, <2>3 DEF PageLinksLead, OriginalsAreRecent
  <1> QED
    BY <1>3, PageInvHolds, PTL
=============================================================================
