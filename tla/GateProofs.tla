---------------------------- MODULE GateProofs ----------------------------
(***************************************************************************)
(* What a request passes before its handler: API keys and quotas, access   *)
(* tokens, rate limits, feature flags and the sessions of administrators,  *)
(* for any number of clients and requests, any quotas and any clock.       *)
(***************************************************************************)
EXTENDS ApiKeys, AccessTokens, RateLimits, FeatureFlags, AdminSessions, TLAPS

-----------------------------------------------------------------------------
(* API keys: what the admin and the clients of a key may rely on.          *)

\* Records consist of their two fields.
LEMMA RecordType ==
  /\ None \in Record /\ None.active = FALSE /\ None.quota = 0
  /\ \A d \in Record : d.active \in BOOLEAN /\ d.quota \in Nat
  /\ \A x \in BOOLEAN, n \in Nat : [active |-> x, quota |-> n] \in Record
  BY DEF Record, None

\* What is overtaken and what is lost are revocations and top-ups.
LEMMA LossTypes ==
  ASSUME TypeOK, NEW a \in Admins, RevokeSet(a) \/ TopUpSet(a)
  PROVE  overtaken' \in [Admins -> SUBSET {"revoke", "topup"}] /\ lost' \subseteq {"revoke", "topup"}
  <1>1. ASSUME NEW kind \in {"revoke", "topup"}, Overtakes(a, kind)
        PROVE  overtaken' \in [Admins -> SUBSET {"revoke", "topup"}]
    BY <1>1 DEF TypeOK, Overtakes
  <1>2. overtaken' \in [Admins -> SUBSET {"revoke", "topup"}]
    BY <1>1 DEF TypeOK, RevokeSet, TopUpSet
  <1>3. lost' \subseteq {"revoke", "topup"}
    BY DEF TypeOK, RevokeSet, TopUpSet
  <1> QED
    BY <1>2, <1>3

\* Each variable keeps its type.
LEMMA NextType == TypeOK /\ [Next]_vars => TypeOK'
  <1> SUFFICES ASSUME TypeOK, [Next]_vars PROVE TypeOK'
    OBVIOUS
  <1> USE ApiKeysAssumption, RecordType
      DEF TypeOK, ClientSteps, AdminSteps, ClientGoes, AdminGoes,
          redisVars, clientVars, adminVars, history, lossVars
  <1>1. ASSUME NEW r \in Clients, Request(r) \/ Fetch(r) PROVE TypeOK'
    <2>1. pc' \in [Clients -> ClientSteps] /\ got' \in [Clients -> Record]
      BY <1>1 DEF Request, Fetch
    <2>2. QED
      BY <1>1, <2>1 DEF Request, Fetch
  <1>2. ASSUME NEW r \in Clients, StoreInMemory(r) PROVE TypeOK'
    BY <1>2 DEF StoreInMemory
  <1>3. ASSUME NEW r \in Clients, Check(r) PROVE TypeOK'
    BY <1>3 DEF Check
  <1>4. CASE Expire
    BY <1>4 DEF Expire
  <1>5. ASSUME NEW a \in Admins, SaveKey(a) \/ IndexKey(a) PROVE TypeOK'
    <2>1. store' \in Record /\ granted' \in Nat
      <3>1. [active |-> TRUE, quota |-> InitQuota] \in Record
        BY DEF Record
      <3>2. CASE SaveKey(a)
        <4>1. /\ store' = [active |-> TRUE, quota |-> InitQuota]
              /\ granted' = granted + InitQuota
          BY <3>2 DEF SaveKey
        <4>2. store' \in Record
          BY <3>1, <4>1, Zenon
        <4>3. QED
          BY <4>1, <4>2
      <3>3. CASE IndexKey(a)
        BY <3>3 DEF IndexKey
      <3>4. QED
        BY <1>5, <3>2, <3>3
    <2>2. at' \in [Admins -> AdminSteps]
      BY <1>5 DEF SaveKey, IndexKey
    <2>3. QED
      BY <1>5, <2>1, <2>2 DEF SaveKey, IndexKey
  <1>6. ASSUME NEW a \in Admins, RevokeRead(a) \/ TopUpRead(a) \/ ResetRead(a)
        PROVE  TypeOK'
    <2>1. /\ at' \in [Admins -> AdminSteps] /\ seen' \in [Admins -> Record]
          /\ param' \in [Admins -> {"hash", "plain"}]
      BY <1>6 DEF RevokeRead, TopUpRead, ResetRead, ReadRecord
    <2>2. QED
      BY <1>6, <2>1 DEF RevokeRead, TopUpRead, ResetRead, ReadRecord
  <1>7. ASSUME NEW a \in Admins, RevokeSet(a) PROVE TypeOK'
    <2>1. store' \in Record
      <3>1. seen[a].quota \in Nat
        OBVIOUS
      <3>2. [active |-> FALSE, quota |-> seen[a].quota] \in Record
        BY <3>1
      <3> QED
        BY <1>7, <3>2 DEF RevokeSet
    <2>2. QED
      BY <1>7, <2>1, LossTypes DEF RevokeSet
  <1>8. ASSUME NEW a \in Admins, TopUpSet(a) PROVE TypeOK'
    <2>1. store' \in Record /\ granted' \in Nat
      BY <1>8 DEF TopUpSet
    <2>2. QED
      BY <1>8, <2>1, LossTypes DEF TopUpSet
  <1>9. ASSUME NEW a \in Admins, RevokeDrop(a) \/ TopUpDrop(a) PROVE TypeOK'
    BY <1>9 DEF RevokeDrop, TopUpDrop
  <1>10. ASSUME NEW a \in Admins, ResetDel(a) PROVE TypeOK'
    BY <1>10 DEF ResetDel
  <1>11. CASE UNCHANGED vars
    BY <1>11 DEF vars
  <1>12. QED
    BY <1>1, <1>2, <1>3, <1>4, <1>5, <1>6, <1>7, <1>8, <1>9, <1>10, <1>11
    DEF Next, ClientStep, AdminStep

\* Nobody has anything at the start.
LEMMA InitType == Init => TypeOK
  <1> SUFFICES ASSUME Init PROVE TypeOK
    OBVIOUS
  <1>1. store \in Record /\ mem \in Record
    BY RecordType DEF Init
  <1>2. got \in [Clients -> Record] /\ seen \in [Admins -> Record]
    BY RecordType DEF Init
  <1>3. pc \in [Clients -> ClientSteps] /\ at \in [Admins -> AdminSteps]
    BY DEF Init, ClientSteps, AdminSteps
  <1>4. param \in [Admins -> {"hash", "plain"}]
    BY DEF Init
  <1>5. QED
    BY <1>1, <1>2, <1>3, <1>4 DEF Init, TypeOK

\* Every variable has its type in every reachable state; in particular the
\* quota counter never goes below zero.
THEOREM TypeCorrect == Spec => []TypeOK
  BY InitType, NextType, PTL DEF Spec

-----------------------------------------------------------------------------
(* The quota is respected.                                                 *)

\* No copy of the record, however old, promises more than was granted, and
\* what was let through was counted first.
Covered ==
  /\ store.quota <= granted
  /\ mem.quota <= granted
  /\ \A r \in Clients : got[r].quota <= granted
  /\ \A a \in Admins : seen[a].quota <= granted
  /\ served <= used
  /\ used <= granted

\* Copies of the record are only read, passed on, or raised together with
\* what was granted, and the script counts before it lets a request through.
LEMMA NextCovered == TypeOK /\ Covered /\ [Next]_vars => Covered'
  <1> SUFFICES ASSUME TypeOK, Covered, [Next]_vars PROVE Covered'
    OBVIOUS
  <1> USE ApiKeysAssumption
      DEF TypeOK, Record, Covered, ClientGoes, AdminGoes,
          redisVars, clientVars, adminVars, history, lossVars
  <1>1. ASSUME NEW r \in Clients, Request(r) \/ Fetch(r) \/ StoreInMemory(r)
        PROVE  Covered'
    <2>1. /\ mem' \in {mem, got[r]}
          /\ \A q \in Clients : got'[q] \in {got[q], mem, store}
          /\ UNCHANGED <<store, seen, served, used, granted>>
      BY <1>1 DEF Request, Fetch, StoreInMemory
    <2>2. QED
      BY <2>1
  <1>2. ASSUME NEW r \in Clients, Check(r) PROVE Covered'
    <2>1. \A q \in Clients : got'[q].quota <= granted
      BY <1>2 DEF Check, None
    <2>2. served' <= used' /\ used' <= granted
      BY <1>2 DEF Check
    <2>3. QED
      BY <1>2, <2>1, <2>2 DEF Check
  <1>3. CASE Expire
    BY <1>3 DEF Expire, None
  <1>4. ASSUME NEW a \in Admins, SaveKey(a) PROVE Covered'
    BY <1>4 DEF SaveKey
  <1>5. ASSUME NEW a \in Admins,
               IndexKey(a) \/ RevokeRead(a) \/ TopUpRead(a) \/ ResetRead(a)
        PROVE  Covered'
    BY <1>5 DEF IndexKey, RevokeRead, TopUpRead, ResetRead, ReadRecord
  <1>6. ASSUME NEW a \in Admins, RevokeSet(a) PROVE Covered'
    BY <1>6 DEF RevokeSet
  <1>7. ASSUME NEW a \in Admins, TopUpSet(a) PROVE Covered'
    <2>1. PICK n \in Amounts :
            /\ \/ store' = [active |-> seen[a].active, quota |-> seen[a].quota + n]
               \/ UNCHANGED store
            /\ granted' = granted + n
      BY <1>7 DEF TopUpSet
    <2>2. store'.quota <= granted'
      BY <2>1
    <2>3. QED
      BY <1>7, <2>1, <2>2 DEF TopUpSet
  <1>8. ASSUME NEW a \in Admins, RevokeDrop(a) \/ TopUpDrop(a) PROVE Covered'
    BY <1>8 DEF RevokeDrop, TopUpDrop, None
  <1>9. ASSUME NEW a \in Admins, ResetDel(a) PROVE Covered'
    BY <1>9 DEF ResetDel
  <1>10. CASE UNCHANGED vars
    BY <1>10 DEF vars
  <1>11. QED
    BY <1>1, <1>2, <1>3, <1>4, <1>5, <1>6, <1>7, <1>8, <1>9, <1>10
    DEF Next, ClientStep, AdminStep

\* Between two resets no more requests are let through than quota was
\* granted, whatever races, whatever is cached and whichever commands fail.
THEOREM QuotaIsRespected == Spec => []QuotaRespected
  <1>1. Init => Covered
    BY DEF Init, Covered, None
  <1>2. TypeOK /\ Covered => QuotaRespected
    BY DEF TypeOK, Covered, QuotaRespected
  <1>3. QED
    BY <1>1, <1>2, InitType, NextType, NextCovered, PTL DEF Spec

-----------------------------------------------------------------------------
(* What admins are told of their writes.                                   *)

Writing(a) == at[a] \in {"revokeSet", "topupSet"}

\* A revocation has been written: its admin has been told so, or soon is.
Revoking == revoked \/ \E a \in Admins : at[a] = "revokeDrop"

\* The record exists from the first time an admin can name it.  Once a
\* revocation has been written the record is inactive, and so is every copy
\* that a top-up is about to write back, but for what was overtaken or lost.
RevokeInv ==
  /\ issued \/ Revoking => store.quota > 0
  /\ \A a \in Admins :
       /\ at[a] = "index" => store.quota > 0
       /\ Writing(a) => issued /\ seen[a].quota > 0
  /\ Revoking => ~store.active \/ "revoke" \in lost
  /\ Revoking => \A a \in Admins :
       at[a] = "topupSet" => ~seen[a].active \/ "revoke" \in overtaken[a] \/ "revoke" \in lost

\* Revocations write an inactive record and overtake the top-ups under way; the
\* others write back what they have read.
LEMMA NextRevoke == TypeOK /\ RevokeInv /\ [Next]_vars => RevokeInv'
  <1> SUFFICES ASSUME TypeOK, RevokeInv, [Next]_vars PROVE RevokeInv'
    OBVIOUS
  <1> USE ApiKeysAssumption
      DEF TypeOK, Record, RevokeInv, Writing, Revoking, ClientGoes, AdminGoes,
          redisVars, clientVars, adminVars, history, lossVars
  <1>1. ASSUME NEW r \in Clients,
               Request(r) \/ Fetch(r) \/ StoreInMemory(r) \/ Check(r)
        PROVE  RevokeInv'
    BY <1>1 DEF Request, Fetch, StoreInMemory, Check
  <1>2. CASE Expire
    BY <1>2 DEF Expire
  <1>3. ASSUME NEW a \in Admins, SaveKey(a) PROVE RevokeInv'
    BY <1>3 DEF SaveKey, None
  <1>4. ASSUME NEW a \in Admins, IndexKey(a) PROVE RevokeInv'
    BY <1>4 DEF IndexKey
  <1>5. ASSUME NEW a \in Admins, RevokeRead(a) \/ TopUpRead(a) \/ ResetRead(a)
        PROVE  RevokeInv'
    <2>1. /\ issued
          /\ at[a] = "idle" /\ at'[a] \in {"revokeSet", "topupSet", "resetDel"}
          /\ \A b \in Admins \ {a} : at'[b] = at[b] /\ seen'[b] = seen[b]
          /\ seen'[a] = store
          /\ UNCHANGED <<store, issued, revoked, overtaken, lost>>
      BY <1>5 DEF RevokeRead, TopUpRead, ResetRead, ReadRecord
    <2>2. Revoking' => Revoking
      BY <2>1
    <2>3. QED
      BY <2>1, <2>2
  <1>6. ASSUME NEW a \in Admins, RevokeSet(a) PROVE RevokeInv'
    <2>1. /\ at[a] = "revokeSet" /\ at'[a] = "revokeDrop"
          /\ \A b \in Admins \ {a} : at'[b] = at[b]
          /\ UNCHANGED <<seen, issued>>
      BY <1>6 DEF RevokeSet
    <2>2. CASE store' = [active |-> FALSE, quota |-> seen[a].quota] /\ Overtakes(a, "revoke")
      <3>1. ~store'.active /\ store'.quota > 0
        BY <2>1, <2>2
      <3>2. \A b \in Admins : at'[b] = "topupSet" => "revoke" \in overtaken'[b]
        BY <2>1, <2>2 DEF Overtakes
      <3>3. QED
        BY <2>1, <3>1, <3>2
    <2>3. CASE store' = store /\ lost' = lost \cup {"revoke"}
      BY <2>1, <2>3
    <2>4. QED
      BY <1>6, <2>2, <2>3 DEF RevokeSet
  <1>7. ASSUME NEW a \in Admins, TopUpSet(a) PROVE RevokeInv'
    <2>1. /\ at[a] = "topupSet" /\ at'[a] = "topupDrop"
          /\ \A b \in Admins \ {a} : at'[b] = at[b]
          /\ UNCHANGED <<seen, issued, revoked>>
          /\ lost \subseteq lost'
          /\ \A b \in Admins \ {a} : at[b] = "topupSet" => overtaken[b] \subseteq overtaken'[b]
      BY <1>7 DEF TopUpSet, Overtakes
    <2>2. Revoking' => Revoking
      BY <2>1
    <2>3. CASE \E n \in Amounts :
                 /\ store' = [active |-> seen[a].active, quota |-> seen[a].quota + n]
                 /\ lost' = lost \cup overtaken[a]
      <3>1. PICK n \in Amounts : store' = [active |-> seen[a].active, quota |-> seen[a].quota + n]
        BY <2>3
      <3>2. store'.quota = seen[a].quota + n /\ store'.active = seen[a].active
        BY <3>1
      <3>3. store'.quota > 0
        BY <2>1, <3>2
      <3>4. QED
        BY <2>1, <2>2, <2>3, <3>2, <3>3
    <2>4. CASE store' = store
      BY <2>1, <2>2, <2>4
    <2>5. QED
      BY <1>7, <2>3, <2>4 DEF TopUpSet
  <1>8. ASSUME NEW a \in Admins, RevokeDrop(a) \/ TopUpDrop(a) \/ ResetDel(a)
        PROVE  RevokeInv'
    BY <1>8 DEF RevokeDrop, TopUpDrop, ResetDel
  <1>9. CASE UNCHANGED vars
    BY <1>9 DEF vars
  <1>10. QED
    BY <1>1, <1>2, <1>3, <1>4, <1>5, <1>6, <1>7, <1>8, <1>9
    DEF Next, ClientStep, AdminStep

\* A key whose admin was told it is revoked is inactive, unless the last write
\* of a revocation failed or a top-up that had read the key before overwrote it.
THEOREM RevocationsAreKept == Spec => []RevocationsHold
  <1>1. Init => RevokeInv
    BY DEF Init, RevokeInv, Revoking, Writing
  <1>2. RevokeInv => RevocationsHold
    BY DEF RevokeInv, Revoking, RevocationsHold
  <1>3. QED
    BY <1>1, <1>2, InitType, NextType, NextRevoke, PTL DEF Spec

\* The record has the quota that was granted, and so has every copy about to be
\* written back, but for what was overtaken or lost.
TopUpInv ==
  /\ "topup" \in lost \/ store.quota = granted
  /\ \A a \in Admins : Writing(a) =>
       \/ "topup" \in lost \cup overtaken[a]
       \/ seen[a].quota = granted

\* A write of what was read earlier takes away only the top-ups that overtook it.
LEMMA NextTopUp == TypeOK /\ RevokeInv /\ TopUpInv /\ [Next]_vars => TopUpInv'
  <1> SUFFICES ASSUME TypeOK, RevokeInv, TopUpInv, [Next]_vars PROVE TopUpInv'
    OBVIOUS
  <1> USE ApiKeysAssumption
      DEF TypeOK, Record, TopUpInv, Writing, ClientGoes, AdminGoes,
          redisVars, clientVars, adminVars, history, lossVars
  <1>1. ASSUME NEW r \in Clients,
               Request(r) \/ Fetch(r) \/ StoreInMemory(r) \/ Check(r)
        PROVE  TopUpInv'
    BY <1>1 DEF Request, Fetch, StoreInMemory, Check
  <1>2. CASE Expire
    BY <1>2 DEF Expire
  <1>3. ASSUME NEW a \in Admins, SaveKey(a) PROVE TopUpInv'
    <2>1. ~issued
      BY <1>3 DEF SaveKey, None, RevokeInv
    <2>2. QED
      BY <1>3, <2>1 DEF SaveKey, None, RevokeInv
  <1>4. ASSUME NEW a \in Admins, IndexKey(a) PROVE TopUpInv'
    BY <1>4 DEF IndexKey
  <1>5. ASSUME NEW a \in Admins, RevokeRead(a) \/ TopUpRead(a) \/ ResetRead(a)
        PROVE  TopUpInv'
    BY <1>5 DEF RevokeRead, TopUpRead, ResetRead, ReadRecord
  <1>6. ASSUME NEW a \in Admins, RevokeSet(a) PROVE TopUpInv'
    <2>1. /\ at[a] = "revokeSet" /\ at'[a] = "revokeDrop"
          /\ \A b \in Admins \ {a} : at'[b] = at[b]
          /\ UNCHANGED <<seen, granted>>
          /\ "topup" \in lost => "topup" \in lost'
          /\ \A b \in Admins \ {a} : Writing(b) => overtaken[b] \subseteq overtaken'[b]
      BY <1>6 DEF RevokeSet, Overtakes
    <2>2. CASE /\ store' = [active |-> FALSE, quota |-> seen[a].quota]
               /\ overtaken[a] \cap {"topup"} \subseteq lost'
      <3>1. store'.quota = seen[a].quota
        BY <2>2
      <3>2. QED
        BY <2>1, <2>2, <3>1
    <2>3. CASE store' = store
      BY <2>1, <2>3
    <2>4. QED
      BY <1>6, <2>2, <2>3 DEF RevokeSet
  <1>7. ASSUME NEW a \in Admins, TopUpSet(a) PROVE TopUpInv'
    <2>1. /\ at[a] = "topupSet" /\ at'[a] = "topupDrop"
          /\ \A b \in Admins \ {a} : at'[b] = at[b]
          /\ seen' = seen
          /\ lost \subseteq lost'
      BY <1>7 DEF TopUpSet
    <2>2. CASE \E n \in Amounts :
                 /\ store' = [active |-> seen[a].active, quota |-> seen[a].quota + n]
                 /\ granted' = granted + n
                 /\ Overtakes(a, "topup")
                 /\ lost' = lost \cup overtaken[a]
      <3>1. \A b \in Admins : Writing(b)' => "topup" \in overtaken'[b]
        BY <2>1, <2>2 DEF Overtakes
      <3>2. "topup" \in lost' \/ store'.quota = granted'
        BY <2>1, <2>2
      <3>3. QED
        BY <3>1, <3>2
    <2>3. CASE lost' = lost \cup {"topup"}
      BY <2>3
    <2>4. QED
      BY <1>7, <2>2, <2>3 DEF TopUpSet
  <1>8. ASSUME NEW a \in Admins, RevokeDrop(a) \/ TopUpDrop(a) \/ ResetDel(a)
        PROVE  TopUpInv'
    BY <1>8 DEF RevokeDrop, TopUpDrop, ResetDel
  <1>9. CASE UNCHANGED vars
    BY <1>9 DEF vars
  <1>10. QED
    BY <1>1, <1>2, <1>3, <1>4, <1>5, <1>6, <1>7, <1>8, <1>9
    DEF Next, ClientStep, AdminStep

\* A top-up whose admin was told of it is in the record, unless its write failed
\* or a request wrote the record back that had read it before.
THEOREM TopUpsAreKept == Spec => []TopUpsAddUp
  <1>1. Init => RevokeInv /\ TopUpInv
    BY DEF Init, None, RevokeInv, TopUpInv, Revoking, Writing
  <1>2. TopUpInv => TopUpsAddUp
    BY DEF TopUpInv, TopUpsAddUp
  <1>3. QED
    BY <1>1, <1>2, InitType, NextType, NextRevoke, NextTopUp, PTL DEF Spec

\* What admins are told of their writes holds, but for what failed writes and
\* writes of a record read earlier take away.
THEOREM AdminWritesAreKept == Spec => []AdminWritesHold
  <1>1. TypeOK /\ TopUpsAddUp /\ RevocationsHold => AdminWritesHold
    BY DEF AdminWritesHold
  <1>2. QED
    BY <1>1, TypeCorrect, RevocationsAreKept, TopUpsAreKept, PTL

-----------------------------------------------------------------------------
(* Tokens, limits, flags and sessions.                                     *)

\* There are no keys at first.
LEMMA EmptyTable == DOMAIN Empty = {}
  BY DEF Empty

\* A window holds the instants from its first to the first of the next.
LEMMA WindowBounds ==
  ASSUME NEW t \in Nat
  PROVE  /\ Window(t) \in Nat
         /\ Window(t) * WindowTicks <= t
         /\ t < (Window(t) + 1) * WindowTicks
  BY TokenAssumption, SMTT(30) DEF Window

\* Products with the length of a window are ordered as their factors.
LEMMA ProductsOrdered ==
  ASSUME NEW i \in Nat, NEW j \in Nat, i <= j
  PROVE  i * WindowTicks \in Nat /\ i * WindowTicks <= j * WindowTicks
  <1>1. PICK d \in Nat : j = i + d
    BY SMT
  <1>2. j * WindowTicks = i * WindowTicks + d * WindowTicks
    BY <1>1, TokenAssumption, SMT
  <1>3. d * WindowTicks \in Nat /\ i * WindowTicks \in Nat
    BY <1>1, TokenAssumption, SMT
  <1> QED
    BY <1>2, <1>3, SMT

\* Later instants have no earlier windows.
LEMMA WindowMonotone ==
  ASSUME NEW s \in Nat, NEW t \in Nat, s <= t
  PROVE  Window(s) <= Window(t)
  <1> SUFFICES ASSUME Window(t) + 1 <= Window(s) PROVE FALSE
    BY WindowBounds, SMT
  <1>1. (Window(t) + 1) * WindowTicks <= Window(s) * WindowTicks
    BY WindowBounds, ProductsOrdered, SMT
  <1> QED
    BY <1>1, WindowBounds, TokenAssumption, SMT

\* What lies two windows back was made more than a window ago.
LEMMA TwoWindowsLater ==
  ASSUME NEW s \in Nat, NEW t \in Nat, Window(s) + 2 <= Window(t)
  PROVE  t - s > WindowTicks
  <1>1. (Window(s) + 2) * WindowTicks <= Window(t) * WindowTicks
    BY WindowBounds, ProductsOrdered, SMT
  <1>2. (Window(s) + 2) * WindowTicks = (Window(s) + 1) * WindowTicks + WindowTicks
    BY WindowBounds, TokenAssumption, SMT
  <1>3. /\ s < (Window(s) + 1) * WindowTicks
        /\ Window(t) * WindowTicks <= t
    BY WindowBounds
  <1>4. /\ (Window(s) + 1) * WindowTicks \in Nat /\ (Window(s) + 2) * WindowTicks \in Nat
        /\ Window(t) * WindowTicks \in Nat /\ WindowTicks \in Nat
    BY WindowBounds, ProductsOrdered, TokenAssumption, SMT
  <1> HIDE DEF Window
  <1> QED
    BY <1>1, <1>2, <1>3, <1>4, SMT

\* What was made in this window or the last was made less than two windows ago.
LEMMA OneWindowLater ==
  ASSUME NEW s \in Nat, NEW t \in Nat, Window(t) <= Window(s) + 1
  PROVE  t - s < 2 * WindowTicks
  <1>1. (Window(t) + 1) * WindowTicks <= (Window(s) + 2) * WindowTicks
    BY WindowBounds, ProductsOrdered, SMT
  <1>2. (Window(s) + 2) * WindowTicks = Window(s) * WindowTicks + 2 * WindowTicks
    BY WindowBounds, TokenAssumption, SMT
  <1>3. /\ Window(s) * WindowTicks <= s
        /\ t < (Window(t) + 1) * WindowTicks
    BY WindowBounds
  <1>4. /\ Window(s) * WindowTicks \in Nat /\ (Window(s) + 2) * WindowTicks \in Nat
        /\ (Window(t) + 1) * WindowTicks \in Nat /\ WindowTicks \in Nat
    BY WindowBounds, ProductsOrdered, TokenAssumption, SMT
  <1> QED
    BY <1>1, <1>2, <1>3, <1>4, SMT

-----------------------------------------------------------------------------
\* The instants of each token.  A second try comes after the first has not
\* found the window of the token.
TokenInv ==
  /\ now \in Nat
  /\ token \in [TokenClients ->
       [at : {"none"}]
       \cup [at : {"held"}, window : Nat, made : Nat]
       \cup [at : {"second", "accepted", "refused"}, window : Nat, made : Nat, read : Nat]]
  /\ \A c \in TokenClients : token[c].at # "none" =>
       /\ token[c].window = Window(token[c].made) /\ token[c].made <= now
       /\ token[c].at # "held" => token[c].made <= token[c].read /\ token[c].read <= now
       /\ token[c].at = "second" => token[c].window # Window(token[c].read)

\* What a check has found, as the windows of both instants.
Checked ==
  \A c \in TokenClients :
    /\ token[c].at = "accepted" => Window(token[c].read) <= Window(token[c].made) + 1
    /\ token[c].at = "refused" => Window(token[c].made) + 2 <= Window(token[c].read)

LEMMA TokenInvInit == TokenInit => TokenInv /\ Checked
  BY DEF TokenInit, TokenInv, Checked

LEMMA TokenInvNext == TokenInv /\ Checked /\ [TokenNext]_tokenVars => TokenInv' /\ Checked'
  <1> SUFFICES ASSUME TokenInv, Checked, [TokenNext]_tokenVars
               PROVE  TokenInv' /\ Checked'
    OBVIOUS
  <1>w. \A t \in Nat : Window(t) \in Nat
    BY WindowBounds
  <1>m. \A s, t \in Nat : s <= t => Window(s) <= Window(t)
    BY WindowMonotone
  <1>1. CASE TokenTick
    BY <1>1 DEF TokenTick, TokenInv, Checked
  <1>2. ASSUME NEW c \in TokenClients, GenerateToken(c)
        PROVE  TokenInv' /\ Checked'
    BY <1>2, <1>w DEF GenerateToken, TokenIs, TokenInv, Checked
  <1>3. ASSUME NEW c \in TokenClients, TryCurrent(c)
        PROVE  TokenInv' /\ Checked'
    BY <1>3, <1>w DEF TryCurrent, Tried, Matches, Offsets, TokenIs, TokenInv, Checked
  <1>4. ASSUME NEW c \in TokenClients, TryBefore(c)
        PROVE  TokenInv' /\ Checked'
    <2> DEFINE v == token[c]
               found == Matches(c, Offsets[2])
               verdict == IF found THEN "accepted" ELSE "refused"
    <2>1. /\ v.at = "second" /\ v.window \in Nat /\ v.made \in Nat /\ v.read \in Nat
          /\ v = [at |-> "second", window |-> v.window, made |-> v.made, read |-> v.read]
          /\ v.window = Window(v.made) /\ v.made <= v.read /\ v.read <= now /\ v.window # Window(v.read)
      BY <1>4 DEF TryBefore, TokenInv
    <2>2. Window(v.made) + 1 <= Window(v.read) /\ Window(v.read) <= Window(now)
      BY <2>1, <1>w, <1>m DEF TokenInv
    <2>3. found <=> Window(v.made) + 1 = Window(now)
      BY <2>1 DEF Matches, Offsets
    <2> DEFINE checked == [at |-> verdict, window |-> v.window, made |-> v.made, read |-> now]
    <2>4. token' = [token EXCEPT ![c] = checked] /\ now' = now
      BY <1>4 DEF TryBefore, Tried, TokenIs
    <2>5. /\ verdict = "accepted" => Window(now) <= Window(v.made) + 1
          /\ verdict = "refused" => Window(v.made) + 2 <= Window(now)
          /\ verdict \in {"accepted", "refused"}
      BY <2>2, <2>3, <2>1, <1>w DEF TokenInv
    <2> HIDE DEF verdict
    <2>6. TokenInv'
      BY <2>1, <2>4, <2>5 DEF TokenInv
    <2>7. Checked'
      BY <2>1, <2>4, <2>5 DEF TokenInv, Checked
    <2> QED
      BY <2>6, <2>7
  <1>5. CASE UNCHANGED tokenVars
    BY <1>5 DEF tokenVars, TokenInv, Checked
  <1> QED
    BY <1>1, <1>2, <1>3, <1>4, <1>5 DEF TokenNext

\* Each of both bounds on a token's life follows from the windows.
LEMMA LivesFollow == TokenInv /\ Checked => TokenLife
  <1> SUFFICES ASSUME TokenInv, Checked PROVE TokenLife
    OBVIOUS
  <1>1. TokenTypeOK
    BY DEF TokenInv, TokenTypeOK
  <1>2. FreshTokensPass /\ OldTokensFail
    BY TwoWindowsLater, OneWindowLater DEF TokenInv, Checked, FreshTokensPass, OldTokensFail
  <1> QED
    BY <1>1, <1>2 DEF TokenLife

\* ValidateToken: a token passes for five minutes at least, and for less than
\* ten, for any length of a window and any times of its checks.
THEOREM TokensLive == TokenSpec => []TokenLife
  <1>1. TokenSpec => [](TokenInv /\ Checked)
    BY TokenInvInit, TokenInvNext, PTL DEF TokenSpec
  <1> QED
    BY <1>1, LivesFollow, PTL

-----------------------------------------------------------------------------
\* Where a login, an end of a session and a cleanup can be, and what is known
\* of their tokens there.
AdminsInv ==
  /\ sessionAdmin \in [SessionAdmins ->
       [at : {"idle"}]
       \cup [at : {"save"}, token : Tokens, did : {0}]
       \cup [at : {"list"}, token : Tokens, did : {1}]
       \cup [at : {"forget", "unlist"}, token : Tokens]]
  /\ \A a \in SessionAdmins :
       /\ sessionAdmin[a].at \in {"save", "list"} => sessionAdmin[a].token \in begun \ answered
       /\ sessionAdmin[a].at = "list" => sessionAdmin[a].token \in DOMAIN sessions
       /\ sessionAdmin[a].at \in {"forget", "unlist"} => sessionAdmin[a].token \in answered
       /\ sessionAdmin[a].at = "unlist" => sessionAdmin[a].token \notin DOMAIN sessions \ struck

\* No two logins have the same token.
LoginsDiffer ==
  \A a, b \in SessionAdmins :
     /\ sessionAdmin[a].at \in {"save", "list"} /\ sessionAdmin[b].at \in {"save", "list"}
     /\ sessionAdmin[a].token = sessionAdmin[b].token
     => a = b

CleanersInv ==
  /\ cleaner \in [Cleaners ->
       [at : {"idle", "members"}]
       \cup [at : {"get"}, todo : SUBSET Tokens]
       \cup [at : {"remove"}, token : Tokens, todo : SUBSET Tokens]]
  /\ \A c \in Cleaners :
       /\ cleaner[c].at \in {"get", "remove"} => cleaner[c].todo \subseteq answered
       /\ cleaner[c].at = "remove" =>
            cleaner[c].token \in answered /\ cleaner[c].token \notin DOMAIN sessions \ struck

\* A session's age and what is left of it are its life.
SessionsInv ==
  /\ sessionTicks \in Nat /\ sessionFaults \in Nat
  /\ active \subseteq answered
  /\ \A t \in DOMAIN sessions : sessions[t].left + sessionTicks >= SessionLife

SessionInv == SessionsAgree /\ SessionsInv /\ AdminsInv /\ LoginsDiffer /\ CleanersInv

LEMMA SessionInvInit == SessionInit => SessionInv
  BY EmptyTable, SessionAssumption
  DEF SessionInit, SessionInv, SessionsAgree, SessionTypeOK, LiveSessionsListed, ListedAreLive,
      SessionsInv, AdminsInv, LoginsDiffer, CleanersInv

LEMMA LoginKeeps ==
  ASSUME SessionInv, NEW a \in SessionAdmins, Login(a)
  PROVE  SessionInv'
  <1>1. PICK t \in Tokens \ begun :
          /\ sessionAdmin' = [sessionAdmin EXCEPT ![a] = [at |-> "save", token |-> t, did |-> 0]]
          /\ begun' = begun \cup {t}
    BY DEF Login, SessionAdminIs, SaveThenList
  <1>2. /\ UNCHANGED <<sessions, active, cleaner, answered, struck, sessionTicks, sessionFaults>>
        /\ sessionAdmin[a].at = "idle"
    BY DEF Login
  <1>3. SessionTypeOK' /\ LiveSessionsListed'
    BY <1>1, <1>2 DEF SessionInv, SessionsAgree, SessionTypeOK, LiveSessionsListed
  <1>4. ListedAreLive'
    BY <1>1, <1>2 DEF SessionInv, SessionsAgree, ListedAreLive, AdminsInv
  <1>5. SessionsInv' /\ CleanersInv'
    BY <1>1, <1>2 DEF SessionInv, SessionsInv, CleanersInv
  <1>6. AdminsInv'
    BY <1>1, <1>2 DEF SessionInv, SessionsAgree, SessionTypeOK, AdminsInv
  <1>7. LoginsDiffer'
    BY <1>1, <1>2 DEF SessionInv, AdminsInv, LoginsDiffer
  <1> QED
    BY <1>3, <1>4, <1>5, <1>6, <1>7 DEF SessionInv, SessionsAgree

\* What a command about a token leaves or adds is known of every token.
LEMMA LoginStepKeeps ==
  ASSUME SessionInv, NEW a \in SessionAdmins, LoginStep(a)
  PROVE  SessionInv'
  <1> DEFINE t == sessionAdmin[a].token
  <1>1. CASE sessionAdmin[a].at = "save" /\ sessions' = Put(sessions, t, "session", SessionLife) /\ Works
    <2>1. /\ UNCHANGED <<active, begun, answered, struck, cleaner, sessionTicks, sessionFaults>>
          /\ sessionAdmin[a] = [at |-> "save", token |-> t, did |-> 0]
          /\ t \in begun \ answered
          /\ sessionAdmin' = [sessionAdmin EXCEPT ![a] = [at |-> "list", token |-> t, did |-> 1]]
      BY <1>1 DEF LoginStep, Save, List, Works, SessionAdminIs, SaveThenList, SessionInv, AdminsInv
    <2>2. /\ DOMAIN sessions' = DOMAIN sessions \cup {t}
          /\ \A s \in DOMAIN sessions' :
               sessions'[s] = IF s = t THEN [val |-> "session", left |-> SessionLife] ELSE sessions[s]
      BY <1>1 DEF Put
    <2>3. SessionTypeOK' /\ SessionsInv'
      BY <2>1, <2>2, SessionAssumption DEF SessionInv, SessionsAgree, SessionTypeOK, SessionsInv
    <2>4. LiveSessionsListed' /\ ListedAreLive'
      BY <2>1, <2>2 DEF SessionInv, SessionsAgree, LiveSessionsListed, ListedAreLive
    <2>5. AdminsInv'
      BY <2>1, <2>2 DEF SessionInv, SessionsAgree, SessionTypeOK, AdminsInv
    <2>6. LoginsDiffer'
      BY <2>1 DEF SessionInv, AdminsInv, LoginsDiffer
    <2>7. CleanersInv'
      BY <2>1, <2>2 DEF SessionInv, CleanersInv
    <2> QED
      BY <2>3, <2>4, <2>5, <2>6, <2>7 DEF SessionInv, SessionsAgree
  <1>2. CASE sessionAdmin[a].at = "save" /\ UNCHANGED sessions /\ Strikes(t)
    <2>1. /\ UNCHANGED <<sessions, active, begun, answered, cleaner, sessionTicks>>
          /\ struck' = struck \cup {t} /\ sessionFaults' = sessionFaults + 1
          /\ t \in begun \ answered
          /\ sessionAdmin' = [sessionAdmin EXCEPT ![a] = [at |-> "idle"]]
      BY <1>2 DEF LoginStep, Save, List, Strikes, SessionAdminIs, SessionInv, SessionsInv, AdminsInv
    <2>2. SessionTypeOK' /\ SessionsInv' /\ LiveSessionsListed'
      BY <2>1 DEF SessionInv, SessionsAgree, SessionTypeOK, SessionsInv, LiveSessionsListed
    <2>3. ListedAreLive'
      BY <2>1, <1>2 DEF SessionInv, SessionsAgree, ListedAreLive
    <2>4. AdminsInv'
      BY <2>1 DEF SessionInv, AdminsInv
    <2>5. LoginsDiffer'
      BY <2>1 DEF SessionInv, AdminsInv, LoginsDiffer
    <2>6. CleanersInv'
      BY <2>1 DEF SessionInv, CleanersInv
    <2> QED
      BY <2>2, <2>3, <2>4, <2>5, <2>6 DEF SessionInv, SessionsAgree
  <1>3. CASE sessionAdmin[a].at = "list"
    <2>1. /\ UNCHANGED <<sessions, begun, sessionTicks>>
          /\ \/ active' = active \cup {t} /\ UNCHANGED <<struck, sessionFaults>>
             \/ UNCHANGED active /\ struck' = struck \cup {t} /\ sessionFaults' = sessionFaults + 1
          /\ sessionAdmin[a] = [at |-> "list", token |-> t, did |-> 1]
          /\ t \in begun \ answered /\ t \in DOMAIN sessions
      BY <1>3 DEF LoginStep, Save, List, Works, Strikes, SessionInv, AdminsInv
    <2>2. /\ sessionAdmin' = [sessionAdmin EXCEPT ![a] = [at |-> "idle"]]
          /\ answered' = answered \cup {t}
          /\ \/ UNCHANGED cleaner
             \/ \E c \in Cleaners : cleaner' = [cleaner EXCEPT ![c] = [at |-> "members"]]
      BY <1>3, <2>1 DEF LoginStep, SessionAdminIs
    <2>3. SessionTypeOK' /\ SessionsInv'
      BY <2>1, <2>2 DEF SessionInv, SessionsAgree, SessionTypeOK, SessionsInv
    <2>4. LiveSessionsListed'
      BY <2>1, <2>2 DEF SessionInv, SessionsAgree, LiveSessionsListed
    <2>5. ListedAreLive'
      BY <2>1, <2>2 DEF SessionInv, SessionsAgree, ListedAreLive
    <2>6. AdminsInv'
      <3>1. \A b \in SessionAdmins : sessionAdmin[b].at \in {"save", "list"} /\ b # a => sessionAdmin[b].token # t
        BY <2>1 DEF SessionInv, LoginsDiffer
      <3> QED
        BY <2>1, <2>2, <3>1 DEF SessionInv, AdminsInv
    <2>7. LoginsDiffer'
      BY <2>2 DEF SessionInv, AdminsInv, LoginsDiffer
    <2>8. CleanersInv'
      BY <2>1, <2>2 DEF SessionInv, CleanersInv
    <2> QED
      BY <2>3, <2>4, <2>5, <2>6, <2>7, <2>8 DEF SessionInv, SessionsAgree
  <1> QED
    BY <1>1, <1>2, <1>3 DEF LoginStep, Save

LEMMA EndKeeps ==
  ASSUME SessionInv, NEW a \in SessionAdmins, Logout(a) \/ RevokeSession(a)
  PROVE  SessionInv'
  <1>1. PICK t \in answered : Ends(a, t)
    BY DEF Logout, RevokeSession, SessionInv, SessionsInv
  <1>2. /\ UNCHANGED <<sessions, active, cleaner, begun, answered, struck, sessionTicks, sessionFaults>>
        /\ sessionAdmin[a].at = "idle" /\ t \in Tokens
        /\ sessionAdmin' = [sessionAdmin EXCEPT ![a] = [at |-> "forget", token |-> t]]
    BY <1>1 DEF Ends, SessionAdminIs, SessionInv, SessionsAgree, SessionTypeOK
  <1>3. SessionTypeOK' /\ SessionsInv' /\ LiveSessionsListed' /\ ListedAreLive'
    BY <1>2 DEF SessionInv, SessionsAgree, SessionTypeOK, SessionsInv, LiveSessionsListed, ListedAreLive
  <1>4. AdminsInv' /\ LoginsDiffer'
    BY <1>1, <1>2 DEF SessionInv, AdminsInv, LoginsDiffer
  <1>5. CleanersInv'
    BY <1>2 DEF SessionInv, CleanersInv
  <1> QED
    BY <1>3, <1>4, <1>5 DEF SessionInv, SessionsAgree

LEMMA EndStepKeeps ==
  ASSUME SessionInv, NEW a \in SessionAdmins, EndStep(a)
  PROVE  SessionInv'
  <1> DEFINE t == sessionAdmin[a].token
  <1>0. /\ UNCHANGED <<cleaner, begun, answered, sessionTicks>>
        /\ t \in answered /\ t \in begun /\ t \in Tokens
    BY DEF EndStep, SessionInv, AdminsInv, SessionsAgree, SessionTypeOK
  <1>1. CASE sessionAdmin[a].at = "forget"
    <2>1. /\ UNCHANGED active
          /\ \/ sessions' = Drop(sessions, t) /\ UNCHANGED <<struck, sessionFaults>>
             \/ UNCHANGED sessions /\ struck' = struck \cup {t} /\ sessionFaults' = sessionFaults + 1
          /\ sessionAdmin' = [sessionAdmin EXCEPT ![a] = [at |-> "unlist", token |-> t]]
      BY <1>1 DEF EndStep, Forget, Works, Strikes, SessionAdminIs
    <2>2. /\ DOMAIN sessions' \subseteq DOMAIN sessions
          /\ \A s \in DOMAIN sessions' : sessions'[s] = sessions[s]
          /\ \A s \in DOMAIN sessions \ {t} : s \in DOMAIN sessions'
          /\ struck \subseteq struck' /\ struck' \subseteq struck \cup {t}
          /\ t \notin DOMAIN sessions' \ struck' /\ sessionFaults' \in Nat
      BY <2>1 DEF Drop, SessionInv, SessionsInv
    <2>3. SessionTypeOK' /\ SessionsInv'
      BY <1>0, <2>1, <2>2 DEF SessionInv, SessionsAgree, SessionTypeOK, SessionsInv
    <2>4. LiveSessionsListed'
      BY <1>0, <2>1, <2>2 DEF SessionInv, SessionsAgree, LiveSessionsListed
    <2>5. ListedAreLive'
      <3> SUFFICES ASSUME NEW s \in active \ struck', s \notin DOMAIN sessions', ~ (sessionTicks >= SessionLife)
                   PROVE  \E b \in SessionAdmins : sessionAdmin'[b].at = "unlist" /\ sessionAdmin'[b].token = s
        BY <1>0, <2>1 DEF ListedAreLive
      <3>1. CASE s = t
        BY <2>1, <3>1 DEF SessionInv, AdminsInv
      <3>2. CASE s # t
        <4>1. s \in active \ struck /\ s \notin DOMAIN sessions
          BY <2>2, <3>2
        <4>2. PICK b \in SessionAdmins : sessionAdmin[b].at = "unlist" /\ sessionAdmin[b].token = s
          BY <4>1 DEF SessionInv, SessionsAgree, ListedAreLive
        <4> QED
          BY <1>1, <2>1, <4>2 DEF SessionInv, AdminsInv
      <3> QED
        BY <3>1, <3>2
    <2>6. AdminsInv'
      <3>1. \A b \in SessionAdmins : sessionAdmin[b].at = "list" => sessionAdmin[b].token \in DOMAIN sessions'
        BY <1>0, <2>2 DEF SessionInv, AdminsInv
      <3> QED
        BY <1>0, <2>1, <2>2, <3>1 DEF SessionInv, AdminsInv
    <2>7. LoginsDiffer'
      BY <2>1 DEF SessionInv, AdminsInv, LoginsDiffer
    <2>8. CleanersInv'
      BY <1>0, <2>2 DEF SessionInv, CleanersInv
    <2> QED
      BY <2>3, <2>4, <2>5, <2>6, <2>7, <2>8 DEF SessionInv, SessionsAgree
  <1>2. CASE sessionAdmin[a].at = "unlist"
    <2>1. /\ UNCHANGED sessions
          /\ \/ active' = active \ {t} /\ UNCHANGED <<struck, sessionFaults>>
             \/ UNCHANGED active /\ struck' = struck \cup {t} /\ sessionFaults' = sessionFaults + 1
          /\ sessionAdmin' = [sessionAdmin EXCEPT ![a] = [at |-> "idle"]]
          /\ t \notin DOMAIN sessions \ struck
      BY <1>2 DEF EndStep, Unlist, Works, Strikes, SessionAdminIs, SessionInv, AdminsInv
    <2>2. SessionTypeOK' /\ SessionsInv' /\ LiveSessionsListed'
      BY <1>0, <2>1 DEF SessionInv, SessionsAgree, SessionTypeOK, SessionsInv, LiveSessionsListed
    <2>3. ListedAreLive'
      BY <1>0, <2>1 DEF SessionInv, SessionsAgree, ListedAreLive
    <2>4. AdminsInv' /\ LoginsDiffer'
      BY <1>0, <2>1 DEF SessionInv, AdminsInv, LoginsDiffer
    <2>5. CleanersInv'
      BY <1>0, <2>1 DEF SessionInv, CleanersInv
    <2> QED
      BY <2>2, <2>3, <2>4, <2>5 DEF SessionInv, SessionsAgree
  <1> QED
    BY <1>1, <1>2 DEF EndStep

LEMMA MembersKeeps ==
  ASSUME SessionInv, NEW c \in Cleaners, Members(c)
  PROVE  SessionInv'
  <1>1. /\ UNCHANGED <<sessions, active, sessionAdmin, begun, answered, struck, sessionTicks, sessionFaults>>
        /\ \/ cleaner' = [cleaner EXCEPT ![c] = [at |-> "idle"]]
           \/ cleaner' = [cleaner EXCEPT ![c] = [at |-> "get", todo |-> active]]
    BY DEF Members, CleanNext, CleanerIs
  <1>2. active \subseteq answered /\ active \in SUBSET Tokens
    BY DEF SessionInv, SessionsInv, SessionsAgree, SessionTypeOK
  <1>3. CleanersInv'
    BY <1>1, <1>2 DEF SessionInv, CleanersInv
  <1>4. SessionsAgree' /\ SessionsInv' /\ AdminsInv' /\ LoginsDiffer'
    BY <1>1 DEF SessionInv, SessionsAgree, SessionTypeOK, LiveSessionsListed, ListedAreLive,
                SessionsInv, AdminsInv, LoginsDiffer
  <1> QED
    BY <1>3, <1>4 DEF SessionInv

\* A failure strikes a token, and changes nothing else.
LEMMA StruckKeeps ==
  ASSUME SessionInv, struck \subseteq struck', struck' \subseteq begun, sessionFaults' \in Nat,
         UNCHANGED <<sessions, active, sessionAdmin, begun, answered, sessionTicks>>
  PROVE  SessionsAgree' /\ SessionsInv' /\ AdminsInv' /\ LoginsDiffer'
  <1>1. SessionTypeOK' /\ SessionsInv' /\ LiveSessionsListed' /\ ListedAreLive'
    BY DEF SessionInv, SessionsAgree, SessionTypeOK, SessionsInv, LiveSessionsListed, ListedAreLive
  <1>2. AdminsInv' /\ LoginsDiffer'
    BY DEF SessionInv, AdminsInv, LoginsDiffer
  <1> QED
    BY <1>1, <1>2 DEF SessionsAgree

LEMMA GetSessionKeeps ==
  ASSUME SessionInv, NEW c \in Cleaners, GetSession(c)
  PROVE  SessionInv'
  <1>1. /\ UNCHANGED <<sessions, active, sessionAdmin, begun, answered, sessionTicks>>
        /\ cleaner[c].todo \in SUBSET Tokens /\ cleaner[c].todo \subseteq answered
    BY DEF GetSession, SessionInv, CleanersInv
  <1>2. PICK t \in cleaner[c].todo :
          /\ \/ UNCHANGED <<struck, sessionFaults>>
             \/ struck' = struck \cup {t} /\ sessionFaults' = sessionFaults + 1
          /\ \/ cleaner' = [cleaner EXCEPT ![c] = [at |-> "idle"]]
             \/ cleaner' = [cleaner EXCEPT ![c] = [at |-> "get", todo |-> cleaner[c].todo \ {t}]]
             \/ /\ cleaner' = [cleaner EXCEPT ![c] =
                                 [at |-> "remove", token |-> t, todo |-> cleaner[c].todo \ {t}]]
                /\ t \notin DOMAIN sessions \ struck'
    BY DEF GetSession, Works, Strikes, CleanNext, CleanerIs
  <1>3. struck \subseteq struck' /\ struck' \subseteq begun /\ sessionFaults' \in Nat
    BY <1>1, <1>2 DEF SessionInv, SessionsAgree, SessionTypeOK, SessionsInv
  <1>4. CleanersInv'
    BY <1>1, <1>2, <1>3 DEF SessionInv, CleanersInv
  <1> QED
    BY <1>1, <1>3, <1>4, StruckKeeps DEF SessionInv

LEMMA RemoveKeeps ==
  ASSUME SessionInv, NEW c \in Cleaners, Remove(c)
  PROVE  SessionInv'
  <1> DEFINE t == cleaner[c].token
  <1>1. /\ UNCHANGED <<sessions, sessionAdmin, begun, answered, sessionTicks>>
        /\ \/ active' = active \ {t} /\ UNCHANGED <<struck, sessionFaults>>
           \/ UNCHANGED active /\ struck' = struck \cup {t} /\ sessionFaults' = sessionFaults + 1
        /\ \/ cleaner' = [cleaner EXCEPT ![c] = [at |-> "idle"]]
           \/ cleaner' = [cleaner EXCEPT ![c] = [at |-> "get", todo |-> cleaner[c].todo]]
    BY DEF Remove, Unlist, Works, Strikes, CleanNext, CleanerIs
  <1>2. /\ t \in answered /\ t \notin DOMAIN sessions \ struck
        /\ cleaner[c].todo \in SUBSET Tokens /\ cleaner[c].todo \subseteq answered
    BY DEF Remove, SessionInv, CleanersInv
  <1>3. /\ struck \subseteq struck' /\ struck' \subseteq begun /\ sessionFaults' \in Nat
    BY <1>1, <1>2 DEF SessionInv, SessionsAgree, SessionTypeOK, SessionsInv
  <1>4. CleanersInv'
    BY <1>1, <1>2, <1>3 DEF SessionInv, CleanersInv
  <1>5. SessionTypeOK' /\ SessionsInv' /\ LiveSessionsListed' /\ ListedAreLive'
    BY <1>1, <1>2, <1>3
    DEF SessionInv, SessionsAgree, SessionTypeOK, SessionsInv, LiveSessionsListed, ListedAreLive
  <1>6. AdminsInv' /\ LoginsDiffer'
    BY <1>1, <1>3 DEF SessionInv, AdminsInv, LoginsDiffer
  <1> QED
    BY <1>4, <1>5, <1>6 DEF SessionInv, SessionsAgree

LEMMA SessionTickKeeps ==
  ASSUME SessionInv, SessionTick
  PROVE  SessionInv'
  <1>1. /\ UNCHANGED <<active, sessionAdmin, cleaner, begun, answered, struck, sessionFaults>>
        /\ sessionTicks' = sessionTicks + 1 /\ sessionTicks \in Nat
        /\ \A a \in SessionAdmins : sessionAdmin[a].at = "idle"
    BY DEF SessionTick, SessionInv, SessionsInv
  <1>2. /\ DOMAIN sessions' = {t \in DOMAIN sessions : sessions[t].left > 1}
        /\ \A t \in DOMAIN sessions' : sessions'[t].left = sessions[t].left - 1
    BY DEF SessionTick, Aged
  <1>3. SessionTypeOK' /\ SessionsInv'
    BY <1>1, <1>2, SessionAssumption DEF SessionInv, SessionsAgree, SessionTypeOK, SessionsInv
  <1>4. LiveSessionsListed'
    BY <1>1, <1>2 DEF SessionInv, SessionsAgree, LiveSessionsListed
  <1>5. ListedAreLive'
    <2> SUFFICES ASSUME NEW t \in active \ struck, t \notin DOMAIN sessions'
                 PROVE  sessionTicks + 1 >= SessionLife
      BY <1>1 DEF ListedAreLive
    <2>1. CASE t \in DOMAIN sessions
      BY <1>1, <1>2, <2>1, SessionAssumption DEF SessionInv, SessionsAgree, SessionTypeOK, SessionsInv
    <2>2. CASE t \notin DOMAIN sessions
      BY <1>1, <2>2, SessionAssumption DEF SessionInv, SessionsAgree, ListedAreLive
    <2> QED
      BY <2>1, <2>2
  <1>6. AdminsInv' /\ LoginsDiffer'
    BY <1>1, <1>2 DEF SessionInv, AdminsInv, LoginsDiffer
  <1>7. CleanersInv'
    BY <1>1, <1>2 DEF SessionInv, CleanersInv
  <1> QED
    BY <1>3, <1>4, <1>5, <1>6, <1>7 DEF SessionInv, SessionsAgree

LEMMA SessionCrashKeeps ==
  ASSUME SessionInv, SessionCrash
  PROVE  SessionInv'
  <1>1. /\ UNCHANGED <<sessions, active, begun, answered, sessionTicks>>
        /\ sessionFaults' = sessionFaults + 1 /\ sessionFaults \in Nat
        /\ sessionAdmin' = [a \in SessionAdmins |-> [at |-> "idle"]]
        /\ cleaner' = [c \in Cleaners |-> [at |-> "idle"]]
        /\ struck \subseteq struck'
    BY DEF SessionCrash, SessionInv, SessionsInv
  <1>2. \A t \in struck' \ struck : t \in begun
    BY DEF SessionCrash, SessionInv, SessionsAgree, SessionTypeOK, AdminsInv
  <1>3. \A a \in SessionAdmins : sessionAdmin[a].at = "unlist" => sessionAdmin[a].token \in struck'
    BY DEF SessionCrash, SessionInv, AdminsInv
  <1>4. SessionTypeOK' /\ SessionsInv' /\ LiveSessionsListed'
    BY <1>1, <1>2 DEF SessionInv, SessionsAgree, SessionTypeOK, SessionsInv, LiveSessionsListed
  <1>5. ListedAreLive'
    BY <1>1, <1>3 DEF SessionInv, SessionsAgree, ListedAreLive
  <1>6. AdminsInv' /\ LoginsDiffer' /\ CleanersInv'
    BY <1>1 DEF AdminsInv, LoginsDiffer, CleanersInv
  <1> QED
    BY <1>4, <1>5, <1>6 DEF SessionInv, SessionsAgree

\* Sessions, for any number of administrators and cleanups: those the
\* middleware accepts are listed and can be revoked, and those listed work,
\* but for expiry, failures and ends under way.
THEOREM SessionsStayAgreed == SessionSpec => []SessionsAgree
  <1>1. SessionInv /\ [SessionNext]_sessionVars => SessionInv'
    <2> SUFFICES ASSUME SessionInv, [SessionNext]_sessionVars PROVE SessionInv'
      OBVIOUS
    <2>1. CASE UNCHANGED sessionVars
      BY <2>1 DEF sessionVars, SessionInv, SessionsAgree, SessionTypeOK, LiveSessionsListed,
                  ListedAreLive, SessionsInv, AdminsInv, LoginsDiffer, CleanersInv
    <2> QED
      BY <2>1, LoginKeeps, LoginStepKeeps, EndKeeps, EndStepKeeps, MembersKeeps, GetSessionKeeps,
         RemoveKeeps, SessionTickKeeps, SessionCrashKeeps DEF SessionNext
  <1> QED
    BY <1>1, SessionInvInit, PTL DEF SessionSpec, SessionInv

-----------------------------------------------------------------------------
\* The keys a middleware asks for.
LEMMA KeysOfPlatforms ==
  /\ \A p \in DOMAIN Platforms : <<p>> \in FlagKeys
  /\ GroupKeys \subseteq FlagKeys /\ PlatformKeys \subseteq FlagKeys
  /\ \A k \in PlatformKeys : <<k[1]>> \in FlagKeys
  <1>1. \A p \in DOMAIN Platforms : <<p>> \in FlagKeys
    BY DEF FlagKeys, GroupKeys
  <1>2. ASSUME NEW k \in PlatformKeys PROVE <<k[1]>> \in FlagKeys
    <2>1. PICK h \in DOMAIN Platforms : k \in {<<h, p>> : p \in Platforms[h]}
      BY <1>2 DEF PlatformKeys
    <2>2. k[1] = h
      BY <2>1
    <2> QED
      BY <1>1, <2>2
  <1> QED
    BY <1>1, <1>2 DEF FlagKeys

FlagStates ==
  /\ flagTicks \in Nat
  /\ changedAt \in [FlagKeys -> Nat] /\ \A k \in FlagKeys : changedAt[k] <= flagTicks
  /\ flags \in [FlagKeys -> {"", "on", "off"}]

ToggleStates ==
  flagAdmin \in [FlagAdmins ->
    [at : {"idle", "answered"}]
    \cup [at : {"store"}, key : FlagKeys, status : {"on", "off"}, did : {0}]
    \cup [at : {"forget"}, key : FlagKeys, status : {"on", "off"}, did : {1}]]

Reading == [at : {"read"}, key : FlagKeys, goal : FlagKeys, slow : {TRUE, FALSE}]
Filling == [at : {"fill"}, key : FlagKeys, goal : FlagKeys, slow : {TRUE, FALSE}, value : {"on", "off"}]
Done    == [at : {"idle", "refused", "passed"}]

ReaderStates == flagReader \in [FlagReaders -> Done \cup Reading \cup Filling]

\* A toggle between its two steps.
Clears(k) == \E a \in FlagAdmins : flagAdmin[a].at = "forget" /\ flagAdmin[a].key = k

\* A reader has an old value only of a toggle since its tick began, and of one
\* that is to clear memory or has cleared it under the reader.
OldReads ==
  \A r \in FlagReaders :
     flagReader[r].at = "fill" /\ flagReader[r].value # Shown(flagReader[r].key) =>
       /\ flagTicks - changedAt[flagReader[r].key] <= 1
       /\ ~ flagReader[r].slow => flagTicks = changedAt[flagReader[r].key]
       /\ flagReader[r].key \in crossed \/ Clears(flagReader[r].key)

\* How old a stale flag may be, by what is left of its life.
StaleAges ==
  \A k \in DOMAIN featureCache :
     /\ featureCache[k].left \in 1 .. FlagLife
     /\ Stale(k) => flagTicks - changedAt[k] <= FlagLife - featureCache[k].left + 1

FlagInv == /\ FlagStates /\ ToggleStates /\ ReaderStates /\ OldReads
           /\ FlagTypeOK /\ StaleAges /\ TogglesAreImmediate

LEMMA FlagInvInit == FlagInit => FlagInv
  <1> SUFFICES ASSUME FlagInit PROVE FlagInv
    OBVIOUS
  <1>0. ToggleStates
    BY DEF FlagInit, ToggleStates
  <1>1. FlagStates
    <2>1. flagTicks \in Nat /\ flags \in [FlagKeys -> {"", "on", "off"}]
      BY DEF FlagInit
    <2>2. changedAt \in [FlagKeys -> Nat] /\ \A k \in FlagKeys : changedAt[k] <= flagTicks
      <3>1. changedAt = [k \in FlagKeys |-> 0] /\ flagTicks = 0
        BY DEF FlagInit
      <3>2. changedAt \in [FlagKeys -> Nat]
        BY <3>1
      <3>3. \A k \in FlagKeys : changedAt[k] = 0
        BY <3>1
      <3> QED
        BY <3>1, <3>2, <3>3
    <2> QED
      BY <2>1, <2>2 DEF FlagStates
  <1>2. ReaderStates
    BY DEF FlagInit, ReaderStates, Done
  <1>3. OldReads
    BY DEF FlagInit, OldReads
  <1>4. FlagTypeOK /\ StaleAges /\ TogglesAreImmediate
    BY EmptyTable DEF FlagInit, FlagTypeOK, StaleAges, TogglesAreImmediate, Stale
  <1> QED
    BY <1>0, <1>1, <1>2, <1>3, <1>4 DEF FlagInv

\* What a reader does without memory disturbs what is known of readers only.
LEMMA ReaderStepKeeps ==
  ASSUME FlagInv,
         UNCHANGED <<flags, featureCache, flagAdmin, crossed, changedAt, flagTicks>>
  PROVE  FlagStates' /\ ToggleStates' /\ FlagTypeOK' /\ StaleAges' /\ TogglesAreImmediate'
  BY DEF FlagInv, FlagStates, ToggleStates, FlagTypeOK, StaleAges, TogglesAreImmediate, Stale, Shown

LEMMA JudgedIsDoneOrReading ==
  ASSUME NEW v, v.goal \in FlagKeys, v.slow \in {TRUE, FALSE}, NEW value
  PROVE  Judged(v, value) \in Done \cup Reading
  BY DEF Judged, Done, Reading

LEMMA AskKeeps ==
  ASSUME FlagInv, NEW r \in FlagReaders,
         \/ \E p \in DOMAIN Platforms : FeatureFlag(r, p)
         \/ \E k \in PlatformKeys : FeatureFlagPlatform(r, k)
  PROVE  FlagInv'
  <1>1. /\ UNCHANGED <<flags, featureCache, flagAdmin, crossed, changedAt, flagTicks>>
        /\ \E k, l \in FlagKeys :
             flagReader' = [flagReader EXCEPT ![r] = [at |-> "read", key |-> k, goal |-> l, slow |-> FALSE]]
    BY KeysOfPlatforms DEF FeatureFlag, FeatureFlagPlatform, ReaderIs
  <1>2. PICK w \in Reading : flagReader' = [flagReader EXCEPT ![r] = w]
    BY <1>1 DEF Reading
  <1>3. ReaderStates'
    BY <1>2 DEF FlagInv, ReaderStates
  <1>4. OldReads'
    BY <1>1, <1>2 DEF FlagInv, ReaderStates, OldReads, Shown, Clears, Reading
  <1> QED
    BY <1>1, <1>3, <1>4, ReaderStepKeeps DEF FlagInv

LEMMA GetKeeps ==
  ASSUME FlagInv, NEW r \in FlagReaders, GetFeatureFlag(r)
  PROVE  FlagInv'
  <1> DEFINE v == flagReader[r]
  <1>1. /\ UNCHANGED <<flags, featureCache, flagAdmin, crossed, changedAt, flagTicks>>
        /\ v.key \in FlagKeys /\ v.goal \in FlagKeys /\ v.slow \in {TRUE, FALSE}
    BY DEF GetFeatureFlag, FlagInv, ReaderStates, Done, Reading, Filling
  <1>2. \/ \E value : flagReader' = [flagReader EXCEPT ![r] = Judged(v, value)]
        \/ /\ flags[v.key] # ""
           /\ flagReader' = [flagReader EXCEPT ![r] =
                [at |-> "fill", key |-> v.key, goal |-> v.goal, slow |-> v.slow, value |-> flags[v.key]]]
    BY DEF GetFeatureFlag, ReaderIs
  <1>3. CASE \E value : flagReader' = [flagReader EXCEPT ![r] = Judged(v, value)]
    <2>1. PICK w \in Done \cup Reading : flagReader' = [flagReader EXCEPT ![r] = w]
      BY <1>1, <1>3, JudgedIsDoneOrReading
    <2>2. ReaderStates'
      BY <2>1 DEF FlagInv, ReaderStates
    <2>3. OldReads'
      BY <1>1, <2>1 DEF FlagInv, ReaderStates, OldReads, Shown, Clears, Done, Reading
    <2> QED
      BY <1>1, <2>2, <2>3, ReaderStepKeeps DEF FlagInv
  <1>4. CASE /\ flags[v.key] # ""
             /\ flagReader' = [flagReader EXCEPT ![r] =
                  [at |-> "fill", key |-> v.key, goal |-> v.goal, slow |-> v.slow, value |-> flags[v.key]]]
    <2>1. flags[v.key] \in {"on", "off"}
      BY <1>1, <1>4 DEF FlagInv, FlagStates
    <2>2. ReaderStates'
      BY <1>1, <1>4, <2>1 DEF FlagInv, ReaderStates, Filling
    <2>3. OldReads'
      BY <1>1, <1>4, <2>1 DEF FlagInv, ReaderStates, OldReads, Shown, Clears
    <2> QED
      BY <1>1, <2>2, <2>3, ReaderStepKeeps DEF FlagInv
  <1> QED
    BY <1>2, <1>3, <1>4

LEMMA FillKeeps ==
  ASSUME FlagInv, NEW r \in FlagReaders, FillFlag(r)
  PROVE  FlagInv'
  <1> DEFINE v == flagReader[r]
  <1>1. /\ UNCHANGED <<flags, flagAdmin, crossed, changedAt, flagTicks>>
        /\ v.at = "fill" /\ v.key \in FlagKeys /\ v.value \in {"on", "off"}
        /\ v.goal \in FlagKeys /\ v.slow \in {TRUE, FALSE}
    BY DEF FillFlag, FlagInv, ReaderStates, Done, Reading, Filling
  <1>2. PICK w \in Done \cup Reading : flagReader' = [flagReader EXCEPT ![r] = w]
    BY <1>1, JudgedIsDoneOrReading DEF FillFlag, ReaderIs
  <1>3. /\ DOMAIN featureCache' = DOMAIN featureCache \cup {v.key}
        /\ \A k \in DOMAIN featureCache' :
             featureCache'[k] = IF k = v.key THEN [val |-> v.value, left |-> FlagLife] ELSE featureCache[k]
    BY DEF FillFlag, Remembered, Put
  <1>4. FlagStates' /\ ToggleStates'
    BY <1>1 DEF FlagInv, FlagStates, ToggleStates
  <1>10. FlagTypeOK'
    BY <1>1, <1>3 DEF FlagInv, FlagTypeOK
  <1>5. ReaderStates'
    BY <1>2 DEF FlagInv, ReaderStates
  <1>6. OldReads'
    BY <1>1, <1>2 DEF FlagInv, ReaderStates, OldReads, Shown, Clears, Done, Reading
  <1>7. v.value # Shown(v.key) =>
          flagTicks - changedAt[v.key] <= 1 /\ (v.key \in crossed \/ Clears(v.key))
    BY <1>1 DEF FlagInv, OldReads
  <1>8. StaleAges'
    <2> SUFFICES ASSUME NEW k \in DOMAIN featureCache'
                 PROVE  /\ featureCache'[k].left \in 1 .. FlagLife
                        /\ featureCache'[k].val # Shown(k)' =>
                             flagTicks - changedAt[k] <= FlagLife - featureCache'[k].left + 1
      BY <1>1 DEF StaleAges, Stale
    <2>1. Shown(k)' = Shown(k)
      BY <1>1 DEF Shown
    <2>2. CASE k = v.key
      BY <1>3, <1>7, <2>1, <2>2, FlagAssumption
    <2>3. CASE k # v.key
      BY <1>1, <1>3, <2>1, <2>3 DEF FlagInv, StaleAges, Stale
    <2> QED
      BY <2>2, <2>3
  <1>9. TogglesAreImmediate'
    <2> SUFFICES ASSUME NEW k \in DOMAIN featureCache', featureCache'[k].val # Shown(k)
                 PROVE  k \in crossed \/ \E a \in FlagAdmins :
                          flagAdmin[a].at \in {"store", "forget"} /\ flagAdmin[a].key = k
      BY <1>1 DEF TogglesAreImmediate, Stale, Shown
    <2>1. CASE k = v.key
      BY <1>3, <1>7, <2>1 DEF Clears
    <2>2. CASE k # v.key
      <3>1. k \in FlagKeys /\ Stale(k)
        BY <1>3, <2>2 DEF FlagInv, FlagTypeOK, Stale
      <3> QED
        BY <3>1 DEF FlagInv, TogglesAreImmediate
    <2> QED
      BY <2>1, <2>2
  <1> QED
    BY <1>4, <1>10, <1>5, <1>6, <1>8, <1>9 DEF FlagInv

LEMMA ToggleKeeps ==
  ASSUME FlagInv, NEW a \in FlagAdmins, NEW status \in {"on", "off"},
         ToggleFeature(a, status) \/ ToggleFeaturePlatform(a, status)
  PROVE  FlagInv'
  <1>1. PICK k \in FlagKeys :
          flagAdmin' = [flagAdmin EXCEPT ![a] = [at |-> "store", key |-> k, status |-> status, did |-> 0]]
    BY KeysOfPlatforms DEF ToggleFeature, ToggleFeaturePlatform, Toggle, StoreThenForget
  <1>2. /\ UNCHANGED <<flags, featureCache, flagReader, crossed, changedAt, flagTicks>>
        /\ flagAdmin[a].at \notin {"store", "forget"}
    BY DEF ToggleFeature, ToggleFeaturePlatform, Toggle
  <1>3. FlagStates' /\ ToggleStates'
    BY <1>1, <1>2 DEF FlagInv, FlagStates, ToggleStates
  <1>4. \A j : Clears(j) => Clears(j)'
    BY <1>1, <1>2 DEF FlagInv, ToggleStates, Clears
  <1>5. OldReads'
    BY <1>2, <1>4 DEF FlagInv, OldReads, Shown
  <1>6. ReaderStates' /\ FlagTypeOK' /\ StaleAges'
    BY <1>2 DEF FlagInv, ReaderStates, FlagTypeOK, StaleAges, Stale, Shown
  <1>7. TogglesAreImmediate'
    BY <1>1, <1>2 DEF FlagInv, ToggleStates, TogglesAreImmediate, Stale, Shown
  <1> QED
    BY <1>3, <1>5, <1>6, <1>7 DEF FlagInv

\* What is shown after a step.
ShownThen(k) == IF flags'[k] = "" THEN "on" ELSE flags'[k]
ClearsThen(k) == \E a \in FlagAdmins : flagAdmin'[a].at = "forget" /\ flagAdmin'[a].key = k

LEMMA StoreKeeps ==
  ASSUME FlagInv, NEW a \in FlagAdmins, StoreFlag(a)
  PROVE  FlagInv'
  <1>1. PICK key \in FlagKeys, status \in {"on", "off"} :
          /\ UNCHANGED <<featureCache, flagReader, crossed, flagTicks>>
          /\ flagAdmin[a].at = "store" /\ flagAdmin[a].key = key
          /\ flagAdmin' = [flagAdmin EXCEPT ![a] = [at |-> "forget", key |-> key, status |-> status, did |-> 1]]
          /\ \/ flags' = [flags EXCEPT ![key] = status] /\ changedAt' = [changedAt EXCEPT ![key] = flagTicks]
             \/ UNCHANGED <<flags, changedAt>>
    <2>1. /\ flagAdmin[a].at = "store" /\ flagAdmin[a].key \in FlagKeys
          /\ flagAdmin[a].status \in {"on", "off"} /\ flagAdmin[a].did = 0
      BY DEF StoreFlag, FlagInv, ToggleStates
    <2>2. PICK key \in FlagKeys, status \in {"on", "off"} :
            flagAdmin[a].key = key /\ flagAdmin[a].status = status
      BY <2>1
    <2>3. /\ UNCHANGED <<featureCache, flagReader, crossed, flagTicks>>
          /\ \/ flags' = [flags EXCEPT ![key] = status] /\ changedAt' = [changedAt EXCEPT ![key] = flagTicks]
             \/ UNCHANGED <<flags, changedAt>>
      BY <2>2 DEF StoreFlag
    <2>4. flagAdmin' = [flagAdmin EXCEPT ![a] = [at |-> "forget", key |-> key, status |-> status, did |-> 1]]
      BY <2>1, <2>2 DEF StoreFlag, ToggledOn, StoreThenForget
    <2> QED
      BY <2>1, <2>2, <2>3, <2>4
  <1>2. /\ \A j : Clears(j) => ClearsThen(j)
        /\ ClearsThen(key)
    BY <1>1 DEF FlagInv, ToggleStates, Clears, ClearsThen
  <1>3. /\ flagTicks \in Nat /\ changedAt' \in [FlagKeys -> Nat]
        /\ \A k \in FlagKeys : changedAt[k] \in Nat /\ changedAt[k] <= flagTicks /\ changedAt'[k] \in Nat
    BY <1>1 DEF FlagInv, FlagStates
  <1>4. \A k \in FlagKeys :
          \/ k = key /\ changedAt'[k] = flagTicks
          \/ ShownThen(k) = Shown(k) /\ changedAt'[k] = changedAt[k]
    BY <1>1 DEF FlagInv, FlagStates, Shown, ShownThen
  <1>5. FlagStates'
    <2>1. flags' \in [FlagKeys -> {"", "on", "off"}]
      BY <1>1 DEF FlagInv, FlagStates
    <2>2. \A k \in FlagKeys : changedAt'[k] <= flagTicks
      BY <1>3, <1>4
    <2> QED
      BY <1>1, <1>3, <2>1, <2>2 DEF FlagStates
  <1>6. ToggleStates' /\ ReaderStates' /\ FlagTypeOK'
    BY <1>1 DEF FlagInv, ToggleStates, ReaderStates, FlagTypeOK
  <1>7. OldReads'
    <2> SUFFICES ASSUME NEW r \in FlagReaders, flagReader'[r].at = "fill",
                        flagReader'[r].value # ShownThen(flagReader'[r].key)
                 PROVE  /\ flagTicks' - changedAt'[flagReader'[r].key] <= 1
                        /\ ~ flagReader'[r].slow => flagTicks' = changedAt'[flagReader'[r].key]
                        /\ flagReader'[r].key \in crossed' \/ ClearsThen(flagReader'[r].key)
      BY DEF OldReads, Shown, ShownThen, Clears, ClearsThen
    <2> DEFINE k == flagReader[r].key
    <2>1. k \in FlagKeys /\ flagReader' = flagReader /\ flagTicks' = flagTicks /\ crossed' = crossed
      BY <1>1 DEF FlagInv, ReaderStates, Done, Reading, Filling
    <2>2. CASE k = key /\ changedAt'[k] = flagTicks
      BY <1>2, <1>3, <2>1, <2>2
    <2>3. CASE ShownThen(k) = Shown(k) /\ changedAt'[k] = changedAt[k]
      BY <1>2, <1>3, <2>1, <2>3 DEF FlagInv, OldReads
    <2> QED
      BY <1>4, <2>1, <2>2, <2>3
  <1>8. StaleAges'
    <2> SUFFICES ASSUME NEW k \in DOMAIN featureCache
                 PROVE  /\ featureCache[k].left \in 1 .. FlagLife
                        /\ featureCache[k].val # ShownThen(k) =>
                             flagTicks - changedAt'[k] <= FlagLife - featureCache[k].left + 1
      BY <1>1 DEF StaleAges, Stale, Shown, ShownThen
    <2>1. k \in FlagKeys /\ featureCache[k].left \in 1 .. FlagLife
      BY DEF FlagInv, FlagTypeOK, StaleAges
    <2>2. CASE changedAt'[k] = flagTicks
      BY <1>3, <2>1, <2>2, FlagAssumption
    <2>3. CASE ShownThen(k) = Shown(k) /\ changedAt'[k] = changedAt[k]
      BY <2>1, <2>3 DEF FlagInv, StaleAges, Stale
    <2> QED
      BY <1>4, <2>1, <2>2, <2>3
  <1>9. TogglesAreImmediate'
    <2> SUFFICES ASSUME NEW k \in FlagKeys, k \in DOMAIN featureCache, featureCache[k].val # ShownThen(k)
                 PROVE  k \in crossed \/ \E b \in FlagAdmins :
                          flagAdmin'[b].at \in {"store", "forget"} /\ flagAdmin'[b].key = k
      BY <1>1 DEF TogglesAreImmediate, Stale, Shown, ShownThen
    <2>1. CASE k = key
      BY <1>2, <2>1 DEF ClearsThen
    <2>2. CASE k # key
      <3>1. k \in crossed \/ \E b \in FlagAdmins :
              flagAdmin[b].at \in {"store", "forget"} /\ flagAdmin[b].key = k
        BY <1>4, <2>2 DEF FlagInv, TogglesAreImmediate, Stale
      <3> QED
        BY <1>1, <2>2, <3>1 DEF FlagInv, ToggleStates
    <2> QED
      BY <2>1, <2>2
  <1> QED
    BY <1>5, <1>6, <1>7, <1>8, <1>9 DEF FlagInv

LEMMA InvalidateKeeps ==
  ASSUME FlagInv, NEW a \in FlagAdmins, InvalidateFeatureFlag(a)
  PROVE  FlagInv'
  <1>1. PICK key \in FlagKeys :
          /\ UNCHANGED <<flags, flagReader, changedAt, flagTicks>>
          /\ flagAdmin[a].at = "forget" /\ flagAdmin[a].key = key
          /\ flagAdmin' = [flagAdmin EXCEPT ![a] = [at |-> "answered"]]
          /\ crossed' = IF {r \in FlagReaders : flagReader[r].at = "fill" /\ flagReader[r].key = key} = {}
                        THEN crossed \ {key} ELSE crossed \cup {key}
          /\ DOMAIN featureCache' = DOMAIN featureCache \ {key}
          /\ \A k \in DOMAIN featureCache' : featureCache'[k] = featureCache[k]
    <2>1. flagAdmin[a].at = "forget" /\ flagAdmin[a].key \in FlagKeys /\ flagAdmin[a].did = 1
      BY DEF InvalidateFeatureFlag, FlagInv, ToggleStates
    <2>2. /\ DOMAIN featureCache' = DOMAIN featureCache \ {flagAdmin[a].key}
          /\ \A k \in DOMAIN featureCache' : featureCache'[k] = featureCache[k]
      BY DEF InvalidateFeatureFlag, Drop
    <2> QED
      BY <2>1, <2>2 DEF InvalidateFeatureFlag, ToggledOn
  <1>2. FlagStates' /\ ToggleStates'
    BY <1>1 DEF FlagInv, FlagStates, ToggleStates
  <1>3. ReaderStates' /\ FlagTypeOK'
    BY <1>1 DEF FlagInv, ReaderStates, FlagTypeOK
  <1>4. OldReads'
    <2> SUFFICES ASSUME NEW r \in FlagReaders, flagReader'[r].at = "fill",
                        flagReader'[r].value # ShownThen(flagReader'[r].key)
                 PROVE  /\ flagTicks' - changedAt'[flagReader'[r].key] <= 1
                        /\ ~ flagReader'[r].slow => flagTicks' = changedAt'[flagReader'[r].key]
                        /\ flagReader'[r].key \in crossed' \/ ClearsThen(flagReader'[r].key)
      BY DEF OldReads, Shown, ShownThen, Clears, ClearsThen
    <2>0. /\ flagReader' = flagReader /\ flagReader[r].value # Shown(flagReader[r].key)
          /\ flagTicks - changedAt[flagReader[r].key] <= 1
          /\ ~ flagReader[r].slow => flagTicks = changedAt[flagReader[r].key]
          /\ flagReader[r].key \in crossed \/ Clears(flagReader[r].key)
      BY <1>1 DEF FlagInv, OldReads, Shown, ShownThen
    <2>1. CASE flagReader[r].key = key
      BY <1>1, <2>0, <2>1
    <2>2. CASE flagReader[r].key # key
      BY <1>1, <2>0, <2>2 DEF FlagInv, ToggleStates, Clears, ClearsThen
    <2> QED
      BY <2>1, <2>2
  <1>5. StaleAges'
    BY <1>1 DEF FlagInv, StaleAges, Stale, Shown
  <1>6. TogglesAreImmediate'
    <2> SUFFICES ASSUME NEW k \in FlagKeys, Stale(k), k # key
                 PROVE  k \in crossed' \/ \E b \in FlagAdmins :
                          flagAdmin'[b].at \in {"store", "forget"} /\ flagAdmin'[b].key = k
      BY <1>1 DEF TogglesAreImmediate, Stale, Shown
    <2>1. k \in crossed \/ \E b \in FlagAdmins :
            flagAdmin[b].at \in {"store", "forget"} /\ flagAdmin[b].key = k
      BY DEF FlagInv, TogglesAreImmediate
    <2> QED
      BY <1>1, <2>1 DEF FlagInv, ToggleStates
  <1> QED
    BY <1>2, <1>3, <1>4, <1>5, <1>6 DEF FlagInv

LEMMA FlagTickKeeps ==
  ASSUME FlagInv, FlagTick
  PROVE  FlagInv'
  <1>1. /\ UNCHANGED <<flags, flagAdmin, crossed, changedAt>>
        /\ flagTicks' = flagTicks + 1 /\ flagTicks \in Nat
        /\ \A k \in FlagKeys : changedAt[k] \in Nat /\ changedAt[k] <= flagTicks
        /\ \A r \in FlagReaders : flagReader[r].at \in {"read", "fill"} => ~ flagReader[r].slow
        /\ \A k : ~ Clears(k)
        /\ \A a \in FlagAdmins : flagAdmin[a].at \notin {"store", "forget"}
    BY DEF FlagTick, FlagInv, FlagStates, Clears
  <1>2. /\ DOMAIN featureCache' = {k \in DOMAIN featureCache : featureCache[k].left > 1}
        /\ \A k \in DOMAIN featureCache' :
             featureCache'[k].val = featureCache[k].val /\ featureCache'[k].left = featureCache[k].left - 1
    BY DEF FlagTick, Aged
  <1>3. ASSUME NEW r \in FlagReaders
        PROVE  /\ flagReader'[r] \in Done \cup Reading \cup Filling
               /\ flagReader'[r].at = "fill" =>
                    /\ flagReader[r].at = "fill" /\ flagReader'[r].slow
                    /\ flagReader'[r].key = flagReader[r].key /\ flagReader'[r].value = flagReader[r].value
    <2>1. CASE flagReader[r].at \in {"read", "fill"}
      BY <2>1 DEF FlagTick, FlagInv, ReaderStates, Done, Reading, Filling
    <2>2. CASE flagReader[r].at \notin {"read", "fill"}
      BY <2>2 DEF FlagTick, Done
    <2> QED
      BY <2>1, <2>2
  <1>4. FlagStates' /\ ToggleStates'
    <2>1. \A k \in FlagKeys : changedAt'[k] <= flagTicks'
      BY <1>1
    <2>2. flagTicks' \in Nat
      BY <1>1
    <2> QED
      BY <1>1, <2>1, <2>2 DEF FlagInv, FlagStates, ToggleStates
  <1>5. ReaderStates'
    BY <1>3 DEF FlagTick, ReaderStates
  <1>6. OldReads'
    <2> SUFFICES ASSUME NEW r \in FlagReaders, flagReader'[r].at = "fill",
                        flagReader'[r].value # ShownThen(flagReader'[r].key)
                 PROVE  /\ flagTicks' - changedAt'[flagReader'[r].key] <= 1
                        /\ ~ flagReader'[r].slow => flagTicks' = changedAt'[flagReader'[r].key]
                        /\ flagReader'[r].key \in crossed'
      BY DEF OldReads, Shown, ShownThen
    <2> DEFINE k == flagReader[r].key
    <2>1. k \in FlagKeys /\ flagReader'[r].key = k /\ flagReader'[r].slow /\ flagReader[r].at = "fill"
      BY <1>3 DEF FlagInv, ReaderStates, Done, Reading, Filling
    <2>2. flagReader[r].value # Shown(k)
      BY <1>1, <1>3 DEF Shown, ShownThen
    <2>3. flagTicks = changedAt[k] /\ k \in crossed
      BY <1>1, <2>1, <2>2 DEF FlagInv, OldReads
    <2>4. flagTicks' - changedAt'[k] <= 1
      BY <1>1, <2>1, <2>3
    <2> QED
      BY <1>1, <2>1, <2>3, <2>4
  <1>7. StaleAges'
    <2> SUFFICES ASSUME NEW k \in DOMAIN featureCache'
                 PROVE  /\ featureCache'[k].left \in 1 .. FlagLife
                        /\ featureCache'[k].val # ShownThen(k) =>
                             flagTicks' - changedAt'[k] <= FlagLife - featureCache'[k].left + 1
      BY DEF StaleAges, Stale, Shown, ShownThen
    <2>1. /\ k \in FlagKeys /\ featureCache[k].left \in 1 .. FlagLife /\ featureCache[k].left > 1
          /\ featureCache[k].val # Shown(k) =>
               flagTicks - changedAt[k] <= FlagLife - featureCache[k].left + 1
      BY <1>2 DEF FlagInv, FlagTypeOK, StaleAges, Stale
    <2>2. ShownThen(k) = Shown(k) /\ changedAt'[k] = changedAt[k] /\ flagTicks' = flagTicks + 1
      BY <1>1 DEF Shown, ShownThen
    <2>4. featureCache[k].left - 1 \in 1 .. FlagLife
      BY <2>1, FlagAssumption
    <2>5. ASSUME featureCache[k].val # Shown(k)
          PROVE  (flagTicks + 1) - changedAt[k] <= FlagLife - (featureCache[k].left - 1) + 1
      <3>1. flagTicks - changedAt[k] <= FlagLife - featureCache[k].left + 1
        BY <2>1, <2>5
      <3>2. changedAt[k] \in Nat /\ flagTicks \in Nat /\ featureCache[k].left \in Nat /\ FlagLife \in Nat
        BY <1>1, <2>1, FlagAssumption
      <3> QED
        BY <3>1, <3>2
    <2>6. featureCache'[k].val = featureCache[k].val /\ featureCache'[k].left = featureCache[k].left - 1
      BY <1>2
    <2>7. featureCache'[k].left \in 1 .. FlagLife
      BY <2>4, <2>6
    <2>8. ASSUME featureCache'[k].val # ShownThen(k)
          PROVE  flagTicks' - changedAt'[k] <= FlagLife - featureCache'[k].left + 1
      <3>1. featureCache[k].val # Shown(k)
        BY <2>2, <2>6, <2>8
      <3>2. (flagTicks + 1) - changedAt[k] <= FlagLife - (featureCache[k].left - 1) + 1
        BY <3>1, <2>5
      <3>3. flagTicks' - changedAt'[k] = (flagTicks + 1) - changedAt[k]
        BY <2>2, Zenon
      <3>4. FlagLife - featureCache'[k].left + 1 = FlagLife - (featureCache[k].left - 1) + 1
        BY <2>6
      <3> QED
        BY <3>2, <3>3, <3>4, Zenon
    <2> QED
      BY <2>7, <2>8
  <1>8. TogglesAreImmediate'
    <2> SUFFICES ASSUME NEW k \in FlagKeys, k \in DOMAIN featureCache', featureCache'[k].val # ShownThen(k)
                 PROVE  k \in crossed
      BY <1>1 DEF TogglesAreImmediate, Stale, Shown, ShownThen
    <2>1. k \in DOMAIN featureCache /\ featureCache[k].val # Shown(k)
      BY <1>1, <1>2 DEF Shown, ShownThen
    <2> QED
      BY <1>1, <2>1 DEF FlagInv, TogglesAreImmediate, Stale
  <1>9. FlagTypeOK'
    BY <1>2 DEF FlagInv, FlagTypeOK
  <1> QED
    BY <1>9, <1>4, <1>5, <1>6, <1>7, <1>8 DEF FlagInv

LEMMA StaleFade == FlagInv => FlagsFollow
  <1> SUFFICES ASSUME FlagInv PROVE FlagsFollow
    OBVIOUS
  <1>1. StaleFlagsFade
    <2> SUFFICES ASSUME NEW k \in FlagKeys, Stale(k) PROVE flagTicks - changedAt[k] <= FlagLife
      BY DEF StaleFlagsFade
    <2>1. /\ flagTicks - changedAt[k] <= FlagLife - featureCache[k].left + 1
          /\ featureCache[k].left \in 1 .. FlagLife
          /\ flagTicks \in Nat /\ changedAt[k] \in Nat
      BY DEF FlagInv, FlagStates, StaleAges, Stale
    <2> QED
      BY <2>1, FlagAssumption
  <1> QED
    BY <1>1 DEF FlagInv, FlagsFollow

\* The middleware follows the toggles, for any groups and platforms, any
\* number of readers and administrators and any life of what memory holds: at
\* once, or as late as that life if a request had read the flag before.
THEOREM TogglesAreFollowed == FlagSpec => []FlagsFollow
  <1>1. FlagInv /\ [FlagNext]_flagVars => FlagInv'
    <2> SUFFICES ASSUME FlagInv, [FlagNext]_flagVars PROVE FlagInv'
      OBVIOUS
    <2>1. CASE UNCHANGED flagVars
      <3>1. UNCHANGED <<flags, featureCache, flagReader, flagAdmin, crossed, changedAt, flagTicks>>
        BY <2>1 DEF flagVars
      <3>2. ReaderStates' /\ OldReads'
        BY <3>1 DEF FlagInv, ReaderStates, OldReads, Shown, Clears
      <3> QED
        BY <3>1, <3>2, ReaderStepKeeps DEF FlagInv
    <2> QED
      BY <2>1, AskKeeps, GetKeeps, FillKeeps, ToggleKeeps, StoreKeeps, InvalidateKeeps, FlagTickKeeps
      DEF FlagNext
  <1> QED
    BY <1>1, FlagInvInit, StaleFade, PTL DEF FlagSpec

-----------------------------------------------------------------------------
\* What a counter has counted.
CountersInv ==
  /\ limitTicks \in Nat /\ limitFaults \in Nat
  /\ DOMAIN counters \subseteq DOMAIN Limits
  /\ \A k \in DOMAIN counters :
       /\ counters[k].left \in 0 .. LimitLife
       /\ counters[k].val.count \in Nat \ {0} /\ counters[k].val.passed \in Nat
       /\ counters[k].val.passed <= counters[k].val.count /\ counters[k].val.passed <= Limits[k]
       /\ counters[k].val.born \in Nat /\ counters[k].val.born <= limitTicks

\* The request that is to give a counter its life has just made it, and no
\* other does the same.
BetweenInv ==
  /\ DOMAIN limited = Limited
  /\ \A r \in Limited : limited[r].at = "expire" =>
       /\ limited[r].key \in DOMAIN counters
       /\ counters[limited[r].key].left = 0
       /\ limitTicks - counters[limited[r].key].val.born <= 1
       /\ ~ limited[r].slow => limitTicks = counters[limited[r].key].val.born
  /\ \A r, s \in Limited :
       limited[r].at = "expire" /\ limited[s].at = "expire" /\ limited[r].key = limited[s].key => r = s

\* How old a counter is, by what is left of its life.
CounterAges ==
  \A k \in DOMAIN counters : counters[k].left > 0 =>
    limitTicks - counters[k].val.born <= LimitLife - counters[k].left + 1

\* Without faults, a counter without a life is to get one.
LivesComing ==
  limitFaults = 0 =>
    \A k \in DOMAIN counters : counters[k].left = 0 =>
      \E r \in Limited : limited[r].at = "expire" /\ limited[r].key = k

LimitInv == CountersInv /\ BetweenInv /\ CounterAges /\ LivesComing

LEMMA LimitInvInit == LimitInit => LimitInv
  <1> SUFFICES ASSUME LimitInit PROVE LimitInv
    OBVIOUS
  <1>1. DOMAIN counters = {} /\ limitTicks \in Nat /\ limitFaults \in Nat
    BY EmptyTable DEF LimitInit
  <1>2. BetweenInv
    BY DEF LimitInit, BetweenInv
  <1> QED
    BY <1>1, <1>2 DEF LimitInv, CountersInv, CounterAges, LivesComing

\* A request Redis has not counted.
LEMMA FaultKeeps ==
  ASSUME LimitInv, Fault, UNCHANGED <<counters, limitTicks>>, DOMAIN limited' = Limited,
         \A r \in Limited : limited'[r] = limited[r] \/ limited'[r].at # "expire"
  PROVE  LimitInv'
  <1>1. limitFaults' = limitFaults + 1 /\ limitFaults' \in Nat /\ limitFaults' # 0
    BY DEF Fault, LimitInv, CountersInv
  <1>2. CountersInv' /\ CounterAges' /\ LivesComing'
    BY <1>1 DEF LimitInv, CountersInv, CounterAges, LivesComing
  <1>3. BetweenInv'
    BY DEF LimitInv, BetweenInv
  <1> QED
    BY <1>2, <1>3 DEF LimitInv

\* INCR of a counter that is there.
LEMMA CountKeeps ==
  ASSUME LimitInv, NEW r \in Limited, NEW k \in DOMAIN counters, limited[r].at # "expire",
         NEW within \in {0, 1},
         within = 1 => counters[k].val.count + 1 <= Limits[k],
         DOMAIN counters' = DOMAIN counters,
         counters'[k].left = counters[k].left,
         counters'[k].val.count = counters[k].val.count + 1,
         counters'[k].val.passed = counters[k].val.passed + within,
         counters'[k].val.born = counters[k].val.born,
         \A j \in DOMAIN counters \ {k} : counters'[j] = counters[j],
         UNCHANGED <<limitTicks, limitFaults>>,
         DOMAIN limited' = Limited, limited'[r].at # "expire",
         \A s \in Limited \ {r} : limited'[s] = limited[s]
  PROVE  LimitInv'
  <1>1. /\ counters[k].val.count \in Nat \ {0} /\ counters[k].val.passed \in Nat
        /\ counters[k].val.passed <= counters[k].val.count /\ counters[k].val.passed <= Limits[k]
        /\ k \in DOMAIN Limits /\ Limits[k] \in Nat
    BY LimitAssumption DEF LimitInv, CountersInv
  <1>2. CountersInv'
    <2>1. /\ counters'[k].val.count \in Nat \ {0} /\ counters'[k].val.passed \in Nat
          /\ counters'[k].val.passed <= counters'[k].val.count /\ counters'[k].val.passed <= Limits[k]
      BY <1>1
    <2> QED
      BY <2>1 DEF LimitInv, CountersInv
  <1>3. \A j \in DOMAIN counters :
          counters'[j].left = counters[j].left /\ counters'[j].val.born = counters[j].val.born
    OBVIOUS
  <1>4. BetweenInv'
    BY <1>3 DEF LimitInv, BetweenInv
  <1>5. CounterAges'
    BY <1>3 DEF LimitInv, CounterAges
  <1>6. LivesComing'
    BY <1>3 DEF LimitInv, LivesComing
  <1> QED
    BY <1>2, <1>4, <1>5, <1>6 DEF LimitInv

\* INCR of a counter that is not.
LEMMA StartKeeps ==
  ASSUME LimitInv, NEW r \in Limited, NEW k \in DOMAIN Limits \ DOMAIN counters,
         DOMAIN counters' = DOMAIN counters \cup {k},
         counters'[k].left = 0,
         counters'[k].val.count = 1, counters'[k].val.passed = 1,
         counters'[k].val.born = limitTicks,
         \A j \in DOMAIN counters : counters'[j] = counters[j],
         UNCHANGED <<limitTicks, limitFaults>>,
         DOMAIN limited' = Limited, limited[r].at # "expire",
         limited'[r].at = "expire", limited'[r].key = k,
         \A s \in Limited \ {r} : limited'[s] = limited[s]
  PROVE  LimitInv'
  <1>1. CountersInv'
    BY LimitAssumption DEF LimitInv, CountersInv
  <1>2. BetweenInv'
    <2>1. limitTicks \in Nat /\ limitTicks - limitTicks <= 1
      BY DEF LimitInv, CountersInv
    <2>2. \A s \in Limited \ {r} : limited[s].at = "expire" => limited[s].key # k
      BY DEF LimitInv, BetweenInv
    <2> QED
      BY <2>1, <2>2 DEF LimitInv, BetweenInv
  <1>3. CounterAges'
    BY DEF LimitInv, CounterAges
  <1>4. LivesComing'
    BY DEF LimitInv, LivesComing
  <1> QED
    BY <1>1, <1>2, <1>3, <1>4 DEF LimitInv

LEMMA IncrKeeps ==
  ASSUME LimitInv, NEW r \in Limited, NEW k \in DOMAIN Limits, Incr(r, k)
  PROVE  LimitInv'
  <1> DEFINE old == CounterOf(k)
             count == old.val.count + 1
             within == IF Within(k, count) THEN 1 ELSE 0
             new == [count |-> count, born |-> old.val.born, passed |-> old.val.passed + within]
             next == [at |-> IF First(count) THEN "expire"
                             ELSE IF Within(k, count) THEN "passed" ELSE "stopped",
                      key |-> k, slow |-> FALSE, within |-> Within(k, count)]
  <1>1. /\ UNCHANGED limitTicks /\ limited[r].at # "expire" /\ DOMAIN limited = Limited
        /\ \/ /\ counters' = Put(counters, k, new, old.left)
              /\ limited' = [limited EXCEPT ![r] = next] /\ UNCHANGED limitFaults
           \/ limited' = [limited EXCEPT ![r] = [at |-> "passed"]] /\ UNCHANGED counters /\ Fault
    BY DEF Incr, At, NoFault, LimitInv, BetweenInv
  <1>2. CASE limited' = [limited EXCEPT ![r] = [at |-> "passed"]] /\ UNCHANGED counters /\ Fault
    BY <1>1, <1>2, FaultKeeps
  <1>3. CASE /\ counters' = Put(counters, k, new, old.left)
             /\ limited' = [limited EXCEPT ![r] = next] /\ UNCHANGED limitFaults
    <2>1. /\ DOMAIN counters' = DOMAIN counters \cup {k}
          /\ counters'[k] = [val |-> new, left |-> old.left]
          /\ \A j \in DOMAIN counters \ {k} : counters'[j] = counters[j]
      BY <1>3 DEF Put
    <2>2. /\ counters'[k].left = old.left /\ counters'[k].val.count = count
          /\ counters'[k].val.passed = old.val.passed + within
          /\ counters'[k].val.born = old.val.born
      BY <2>1
    <2>3. DOMAIN limited' = Limited /\ limited'[r] = next
          /\ \A s \in Limited \ {r} : limited'[s] = limited[s]
      BY <1>1, <1>3
    <2>4. within \in {0, 1} /\ (within = 1 => count <= Limits[k])
      BY DEF Within
    <2>5. CASE k \in DOMAIN counters
      <3>1. old = counters[k]
        BY <2>5 DEF CounterOf
      <3>2. count # 1 /\ limited'[r].at # "expire"
        BY <2>3, <2>5, <3>1 DEF First, LimitInv, CountersInv
      <3>3. DOMAIN counters' = DOMAIN counters
        BY <2>1, <2>5
      <3>4. PICK w \in {0, 1} :
              /\ w = 1 => counters[k].val.count + 1 <= Limits[k]
              /\ counters'[k].val.passed = counters[k].val.passed + w
        BY <2>2, <2>4, <3>1
      <3>8. /\ counters'[k].left = counters[k].left
            /\ counters'[k].val.count = counters[k].val.count + 1
            /\ counters'[k].val.born = counters[k].val.born
            /\ \A j \in DOMAIN counters \ {k} : counters'[j] = counters[j]
        BY <2>1, <2>2, <3>1
      <3>5. UNCHANGED <<limitTicks, limitFaults>>
        BY <1>1, <1>3
      <3>6. limited[r].at # "expire" /\ DOMAIN limited' = Limited
        BY <1>1, <2>3
      <3>7. \A s \in Limited \ {r} : limited'[s] = limited[s]
        BY <2>3
      <3> HIDE DEF within, next, old
      <3> QED
        BY <2>5, <3>2, <3>3, <3>4, <3>5, <3>6, <3>7, <3>8, CountKeeps
    <2>6. CASE k \notin DOMAIN counters
      <3>1. old = [val |-> [count |-> 0, passed |-> 0, born |-> limitTicks], left |-> 0]
        BY <2>6 DEF CounterOf, NewCounter, Unlimited
      <3>2. old.val.count = 0 /\ old.val.passed = 0 /\ old.val.born = limitTicks /\ old.left = 0
        BY <3>1
      <3>3. count = 1 /\ within = 1
        BY <3>2, LimitAssumption DEF Within
      <3>5. next.at = "expire" /\ next.key = k
        BY <3>3 DEF First
      <3>6. counters'[k].val.count = 1 /\ counters'[k].val.passed = 1
        BY <2>2, <3>2, <3>3
      <3> HIDE DEF within, next, old
      <3> QED
        BY <1>1, <1>3, <2>1, <2>2, <2>3, <2>6, <3>2, <3>5, <3>6, StartKeeps
    <2> QED
      BY <2>5, <2>6
  <1> QED
    BY <1>1, <1>2, <1>3

LEMMA GiveLifeKeeps ==
  ASSUME LimitInv, NEW r \in Limited, GiveLife(r)
  PROVE  LimitInv'
  <1>1. PICK k \in DOMAIN counters :
          /\ limited[r].key = k /\ limited[r].at = "expire" /\ counters[k].left = 0
          /\ limitTicks - counters[k].val.born <= 1
    BY DEF GiveLife, LimitInv, BetweenInv
  <1>2. /\ UNCHANGED limitTicks
        /\ DOMAIN limited = Limited /\ DOMAIN limited' = Limited
        /\ limited'[r].at # "expire" /\ \A s \in Limited \ {r} : limited'[s] = limited[s]
        /\ \/ counters' = Extend(counters, k, LimitLife) /\ UNCHANGED limitFaults
           \/ UNCHANGED counters /\ Fault
    BY <1>1 DEF GiveLife, At, NoFault, LimitInv, BetweenInv
  <1>3. CASE UNCHANGED counters /\ Fault
    BY <1>2, <1>3, FaultKeeps
  <1>4. CASE counters' = Extend(counters, k, LimitLife) /\ UNCHANGED limitFaults
    <2>1. /\ DOMAIN counters' = DOMAIN counters
          /\ counters'[k] = [val |-> counters[k].val, left |-> LimitLife]
          /\ \A j \in DOMAIN counters \ {k} : counters'[j] = counters[j]
      BY <1>4 DEF Extend, Put
    <2>2. /\ counters'[k].left = LimitLife /\ counters'[k].val = counters[k].val
          /\ LimitLife \in Nat \ {0}
      BY <2>1, LimitAssumption
    <2>3. CountersInv'
      BY <1>2, <1>4, <2>1, <2>2 DEF LimitInv, CountersInv
    <2>4. BetweenInv'
      <3>1. \A s \in Limited \ {r} : limited[s].at = "expire" => limited[s].key \in DOMAIN counters \ {k}
        BY <1>1 DEF LimitInv, BetweenInv
      <3> QED
        BY <1>2, <2>1, <3>1 DEF LimitInv, BetweenInv
    <2>5. CounterAges'
      <3>1. limitTicks \in Nat /\ counters[k].val.born \in Nat
        BY DEF LimitInv, CountersInv
      <3>2. limitTicks - counters[k].val.born <= LimitLife - LimitLife + 1
        BY <1>1, <2>2, <3>1
      <3> QED
        BY <1>2, <2>1, <2>2, <3>2 DEF LimitInv, CounterAges
    <2>6. LivesComing'
      <3> SUFFICES ASSUME limitFaults = 0, NEW j \in DOMAIN counters, j # k, counters[j].left = 0
                   PROVE  \E s \in Limited : limited'[s].at = "expire" /\ limited'[s].key = j
        BY <1>4, <2>1, <2>2 DEF LivesComing
      <3>1. PICK s \in Limited : limited[s].at = "expire" /\ limited[s].key = j
        BY DEF LimitInv, LivesComing
      <3> QED
        BY <1>1, <1>2, <3>1
    <2> QED
      BY <2>3, <2>4, <2>5, <2>6 DEF LimitInv
  <1> QED
    BY <1>2, <1>3, <1>4

LEMMA LimitTickKeeps ==
  ASSUME LimitInv, LimitTick
  PROVE  LimitInv'
  <1>1. /\ UNCHANGED limitFaults /\ limitTicks' = limitTicks + 1 /\ limitTicks \in Nat
        /\ \A r \in Limited : limited[r].at = "expire" => ~ limited[r].slow
        /\ DOMAIN limited' = Limited
    BY DEF LimitTick, LimitInv, CountersInv
  <1>2. \A r \in Limited :
          \/ limited[r].at = "expire" /\ limited'[r].at = "expire" /\ limited'[r].slow
               /\ limited'[r].key = limited[r].key
          \/ limited[r].at # "expire" /\ limited'[r].at # "expire"
    BY DEF LimitTick
  <1>3. /\ DOMAIN counters' = {k \in DOMAIN counters : counters[k].left # 1}
        /\ \A k \in DOMAIN counters' :
             /\ counters'[k].val = counters[k].val
             /\ counters[k].left = 0 => counters'[k].left = 0
             /\ counters[k].left # 0 => counters'[k].left = counters[k].left - 1
    <2>1. /\ DOMAIN counters' = {k \in DOMAIN counters : counters[k].left # 1}
          /\ \A k \in DOMAIN counters' :
               counters'[k] = IF counters[k].left = 0 THEN counters[k] ELSE Aged(counters)[k]
      BY DEF LimitTick, Unlimited
    <2>2. ASSUME NEW k \in DOMAIN counters', counters[k].left # 0
          PROVE  Aged(counters)[k].val = counters[k].val /\ Aged(counters)[k].left = counters[k].left - 1
      <3>1. k \in DOMAIN counters /\ counters[k].left \in 0 .. LimitLife /\ counters[k].left # 1
        BY <2>1 DEF LimitInv, CountersInv
      <3>2. k \in DOMAIN counters /\ counters[k].left > 1
        BY <2>2, <3>1, LimitAssumption
      <3> QED
        BY <3>2 DEF Aged
    <2> QED
      BY <2>1, <2>2
  <1>4. \A k \in DOMAIN counters' :
          /\ k \in DOMAIN counters /\ counters[k].left \in 0 .. LimitLife /\ counters[k].left # 1
          /\ counters[k].val.born \in Nat /\ counters[k].val.born <= limitTicks
          /\ counters'[k].left \in 0 .. LimitLife
    BY <1>3, LimitAssumption DEF LimitInv, CountersInv
  <1>5. CountersInv'
    <2>1. \A k \in DOMAIN counters' : counters'[k].val.born <= limitTicks'
      BY <1>1, <1>3, <1>4
    <2> QED
      BY <1>1, <1>3, <1>4, <2>1 DEF LimitInv, CountersInv
  <1>6. BetweenInv'
    <2>1. ASSUME NEW r \in Limited, limited'[r].at = "expire"
          PROVE  /\ limited'[r].key \in DOMAIN counters'
                 /\ counters'[limited'[r].key].left = 0
                 /\ limitTicks' - counters'[limited'[r].key].val.born <= 1
                 /\ limited'[r].slow
      <3> DEFINE k == limited[r].key
      <3>1. /\ limited[r].at = "expire" /\ limited'[r].key = k /\ limited'[r].slow
        BY <1>2, <2>1
      <3>2. k \in DOMAIN counters /\ counters[k].left = 0 /\ limitTicks = counters[k].val.born
        BY <1>1, <3>1 DEF LimitInv, BetweenInv
      <3>3. k \in DOMAIN counters' /\ counters'[k].left = 0 /\ counters'[k].val.born = limitTicks
        BY <1>3, <3>2
      <3> QED
        BY <1>1, <3>1, <3>3
    <2>2. \A r, s \in Limited :
            limited'[r].at = "expire" /\ limited'[s].at = "expire" /\ limited'[r].key = limited'[s].key => r = s
      BY <1>2 DEF LimitInv, BetweenInv
    <2> QED
      BY <1>1, <2>1, <2>2 DEF BetweenInv
  <1>7. CounterAges'
    <2> SUFFICES ASSUME NEW k \in DOMAIN counters', counters'[k].left > 0
                 PROVE  limitTicks' - counters'[k].val.born <= LimitLife - counters'[k].left + 1
      BY DEF CounterAges
    <2>1. counters'[k].left = counters[k].left - 1 /\ counters[k].left > 0 /\ counters'[k].val = counters[k].val
      BY <1>3, <1>4
    <2>2. limitTicks - counters[k].val.born <= LimitLife - counters[k].left + 1
      BY <1>4, <2>1 DEF LimitInv, CounterAges
    <2>3. (limitTicks + 1) - counters[k].val.born <= LimitLife - (counters[k].left - 1) + 1
      BY <1>1, <1>4, <2>2, LimitAssumption
    <2> QED
      BY <1>1, <2>1, <2>3
  <1>8. LivesComing'
    <2> SUFFICES ASSUME limitFaults = 0, NEW k \in DOMAIN counters', counters'[k].left = 0
                 PROVE  \E s \in Limited : limited'[s].at = "expire" /\ limited'[s].key = k
      BY <1>1 DEF LivesComing
    <2>1. counters[k].left = 0
      BY <1>3, <1>4
    <2> QED
      BY <1>2, <1>4, <2>1 DEF LimitInv, LivesComing
  <1> QED
    BY <1>5, <1>6, <1>7, <1>8 DEF LimitInv

LEMMA LimitsFollow == LimitInv => LimitsHold
  <1> SUFFICES ASSUME LimitInv PROVE LimitsHold
    OBVIOUS
  <1>1. LimitTypeOK /\ WithinTheLimit
    BY DEF LimitInv, CountersInv, LimitTypeOK, WithinTheLimit
  <1>2. NobodyIsLockedOut
    <2> SUFFICES ASSUME limitFaults = 0, NEW k \in DOMAIN counters
                 PROVE  limitTicks - counters[k].val.born <= LimitLife + 1
      BY DEF NobodyIsLockedOut
    <2>1. /\ counters[k].left \in 0 .. LimitLife /\ limitTicks \in Nat
          /\ counters[k].val.born \in Nat /\ LimitLife \in Nat
      BY LimitAssumption DEF LimitInv, CountersInv
    <2>2. CASE counters[k].left = 0
      BY <2>1, <2>2 DEF LimitInv, LivesComing, BetweenInv
    <2>3. CASE counters[k].left > 0
      BY <2>1, <2>3 DEF LimitInv, CounterAges
    <2> QED
      BY <2>1, <2>2, <2>3
  <1> QED
    BY <1>1, <1>2 DEF LimitsHold

\* CheckRateLimit and AdminLoginRateLimit, for any limits, any number of
\* requests and any life of a counter: no more pass than the limit, and without
\* faults no counter outlives its minute by more than the request that made it.
THEOREM LimitsAreKept == LimitSpec => []LimitsHold
  <1>1. LimitInv /\ [LimitNext]_limitVars => LimitInv'
    <2> SUFFICES ASSUME LimitInv, [LimitNext]_limitVars PROVE LimitInv'
      OBVIOUS
    <2>1. CASE UNCHANGED limitVars
      BY <2>1 DEF limitVars, LimitInv, CountersInv, BetweenInv, CounterAges, LivesComing
    <2>2. CASE LimitCrash
      <3>1. Fault /\ UNCHANGED <<counters, limitTicks>> /\ DOMAIN limited' = Limited
            /\ \A r \in Limited : limited'[r].at # "expire"
        BY <2>2 DEF LimitCrash
      <3> QED
        BY <3>1, FaultKeeps
    <2>3. ASSUME NEW r \in Limited, CheckRateLimit(r) \/ AdminLoginRateLimit(r)
          PROVE  LimitInv'
      BY <2>3, IncrKeeps DEF CheckRateLimit, AdminLoginRateLimit
    <2> QED
      BY <2>1, <2>2, <2>3, GiveLifeKeeps, LimitTickKeeps DEF LimitNext
  <1> QED
    BY <1>1, LimitInvInit, LimitsFollow, PTL DEF LimitSpec

=============================================================================
