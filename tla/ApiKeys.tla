------------------------------ MODULE ApiKeys ------------------------------
(***************************************************************************)
(* One API key: its record and its quota counter in Redis, the in-memory   *)
(* copy of the record (pkg/cache/apikey_cache.go), the requests that pass  *)
(* middleware/api_key.go and the admin operations of                       *)
(* internal/admin/handler.go on the key.                                   *)
(*                                                                         *)
(* Keys share no state, so one key stands for all.  A client sends one     *)
(* request after another; each admin process is one admin request.  Every  *)
(* Redis command is one step, and so is every lock region of the memory    *)
(* copy; the steps of different requests interleave.                       *)
(***************************************************************************)
EXTENDS Integers

CONSTANTS
  Clients,       \* clients that use the key
  Admins,        \* admin requests about the key
  Ops,           \* what the admin requests may be
  Params,        \* how the admin may name the key in the path
  InitQuota,     \* the quota the key is created with
  Amounts,       \* the amounts of a top-up
  RedisMayFail   \* whether a Redis command may fail

ASSUME ApiKeysAssumption ==
  /\ Ops \subseteq {"create", "revoke", "topup", "reset"}
  /\ Params \subseteq {"hash", "plain"}
  /\ InitQuota \in Nat \ {0}
  /\ Amounts \subseteq Nat \ {0}
  /\ RedisMayFail \in BOOLEAN

VARIABLES
  store,    \* apikeys:{keyHash}
  used,     \* apikeys:quota:{keyHash}; a missing counter counts as 0
  indexed,  \* keyHash is in apikeys:index
  mem,      \* apiKeyMem[keyHash], None when absent or expired
  pc,       \* where each client's request is
  got,      \* the record the request works with
  at,       \* where each admin request is
  seen,     \* the record the admin request has read
  param,    \* how the admin request names the key
  issued,   \* the plain key has been sent to the admin
  revoked,  \* some RevokeKey has answered that the key is revoked
  granted,  \* the quota created or topped up, over all admin requests
  served,   \* requests let through since the last reset
  overtaken, \* what others have written since each admin request's read
  lost      \* what an admin was told was written, and is no longer there

redisVars == <<store, used, indexed>>
clientVars == <<pc, got>>
adminVars == <<at, seen, param>>
lossVars == <<overtaken, lost>>
history == <<issued, revoked, granted, served, lossVars>>
vars == <<redisVars, mem, clientVars, adminVars, history>>

\* A record; a missing one is inactive and has no quota.
Record == [active : BOOLEAN, quota : Nat]
None == [active |-> FALSE, quota |-> 0]

ClientSteps == {"idle", "fetch", "store", "check"}
AdminSteps ==
  {"idle", "index", "revokeSet", "revokeDrop", "topupSet", "topupDrop",
   "resetDel", "done"}

\* The quota counter never goes below zero, and the history counts.
TypeOK ==
  /\ store \in Record
  /\ used \in Nat
  /\ indexed \in BOOLEAN
  /\ mem \in Record
  /\ pc \in [Clients -> ClientSteps]
  /\ got \in [Clients -> Record]
  /\ at \in [Admins -> AdminSteps]
  /\ seen \in [Admins -> Record]
  /\ param \in [Admins -> {"hash", "plain"}]
  /\ issued \in BOOLEAN
  /\ revoked \in BOOLEAN
  /\ granted \in Nat
  /\ served \in Nat
  /\ overtaken \in [Admins -> SUBSET {"revoke", "topup"}]
  /\ lost \subseteq {"revoke", "topup"}

Init ==
  /\ store = None
  /\ used = 0
  /\ indexed = FALSE
  /\ mem = None
  /\ pc = [r \in Clients |-> "idle"]
  /\ got = [r \in Clients |-> None]
  /\ at = [a \in Admins |-> "idle"]
  /\ seen = [a \in Admins |-> None]
  /\ param = [a \in Admins |-> "hash"]
  /\ issued = FALSE
  /\ revoked = FALSE
  /\ granted = 0
  /\ served = 0
  /\ overtaken = [a \in Admins |-> {}]
  /\ lost = {}

ClientGoes(r, from, to) ==
  /\ pc[r] = from
  /\ pc' = [pc EXCEPT ![r] = to]

AdminGoes(a, from, to) ==
  /\ at[a] = from
  /\ at' = [at EXCEPT ![a] = to]

\* The write of one admin request overtakes the others that have read the
\* record and not yet written it back.
Overtakes(a, kind) ==
  overtaken' = [b \in Admins |->
                  IF b # a /\ at[b] \in {"revokeSet", "topupSet"}
                  THEN overtaken[b] \cup {kind} ELSE {}]

-----------------------------------------------------------------------------
(* Faulty variants: slips the code could contain.                          *)

\* The script compares with > instead of >=.
CheckOffByOne(r) ==
  /\ ClientGoes(r, "check", "idle")
  /\ got[r].active
  /\ used <= got[r].quota
  /\ used' = used + 1
  /\ served' = served + 1
  /\ got' = [got EXCEPT ![r] = None]
  /\ UNCHANGED <<store, indexed, mem, adminVars,
                 issued, revoked, granted, lossVars>>

\* GetAPIKey does not look at expiresAt.
ExpireIgnored == FALSE

\* Reset with the counter kept in the record: write the record back.
ResetDelInRecord(a) ==
  /\ AdminGoes(a, "resetDel", "done")
  /\ used' = 0 /\ served' = 0
  /\ store' = seen[a]
  /\ UNCHANGED <<indexed, mem, clientVars, seen, param,
                 issued, revoked, granted, lossVars>>

\* Reset by one decrement per request of the previous window.
ResetDelByDecr(a) ==
  /\ AdminGoes(a, "resetDel", "done")
  /\ used' = used - 1 /\ served' = 0
  /\ UNCHANGED <<store, indexed, mem, clientVars, seen, param,
                 issued, revoked, granted, lossVars>>

\* Top up from the memory copy instead of from Redis.
TopUpReadCached(a) ==
  /\ "topup" \in Ops
  /\ issued
  /\ AdminGoes(a, "idle", "topupSet")
  /\ seen' = [seen EXCEPT ![a] = IF mem # None THEN mem ELSE store]
  /\ \E p \in Params : param' = [param EXCEPT ![a] = p]
  /\ UNCHANGED <<redisVars, mem, clientVars, history>>

-----------------------------------------------------------------------------
(* A client's request: RequireAPIKey with GetAPIKey.                       *)

\* Read the memory copy; an entry counts until it expires.
Request(r) ==
  /\ issued
  /\ \/ /\ mem # None
        /\ ClientGoes(r, "idle", "check")
        /\ got' = [got EXCEPT ![r] = mem]
     \/ /\ mem = None
        /\ ClientGoes(r, "idle", "fetch")
        /\ UNCHANGED got
  /\ UNCHANGED <<redisVars, mem, adminVars, history>>

\* Miss: read Redis; an error is answered as an unknown key.
Fetch(r) ==
  /\ \/ /\ ClientGoes(r, "fetch", "store")
        /\ got' = [got EXCEPT ![r] = store]
     \/ /\ RedisMayFail
        /\ ClientGoes(r, "fetch", "idle")
        /\ UNCHANGED got
  /\ UNCHANGED <<redisVars, mem, adminVars, history>>

\* Keep what was read, whatever has happened to the key since.
StoreInMemory(r) ==
  /\ ClientGoes(r, "store", "check")
  /\ mem' = got[r]
  /\ UNCHANGED <<redisVars, got, adminVars, history>>

\* Refuse an inactive key, else AtomicQuotaCheck: compare and increment in
\* one script.  If the script fails its answer may be lost after it ran.
Check(r) ==
  /\ ClientGoes(r, "check", "idle")
  /\ \/ /\ got[r].active
        /\ used < got[r].quota
        /\ used' = used + 1
        /\ \/ served' = served + 1
           \/ RedisMayFail /\ UNCHANGED served
     \/ /\ ~got[r].active \/ used >= got[r].quota \/ RedisMayFail
        /\ UNCHANGED <<used, served>>
  /\ got' = [got EXCEPT ![r] = None]
  /\ UNCHANGED <<store, indexed, mem, adminVars,
                 issued, revoked, granted, lossVars>>

\* apiKeyTTL after it was stored, the entry no longer counts.
Expire ==
  /\ mem # None
  /\ mem' = None
  /\ UNCHANGED <<redisVars, clientVars, adminVars, history>>

-----------------------------------------------------------------------------
(* Admin requests.                                                         *)

\* CreateKey: save the record of a fresh key (an error ends the request) ...
SaveKey(a) ==
  /\ "create" \in Ops
  /\ store = None
  /\ AdminGoes(a, "idle", "index")
  /\ store' = [active |-> TRUE, quota |-> InitQuota]
  /\ granted' = granted + InitQuota
  /\ UNCHANGED <<used, indexed, mem, clientVars, seen, param,
                 issued, revoked, served, lossVars>>

\* ... and list it, ignoring an error, before the plain key is answered.
IndexKey(a) ==
  /\ AdminGoes(a, "index", "done")
  /\ indexed' = TRUE \/ (RedisMayFail /\ UNCHANGED indexed)
  /\ issued' = TRUE
  /\ UNCHANGED <<store, used, mem, clientVars, seen, param,
                 revoked, granted, served, lossVars>>

\* Revoke, top-up and reset find the record under the path parameter or
\* under its hash.
ReadRecord(a, to) ==
  /\ issued
  /\ AdminGoes(a, "idle", to)
  /\ seen' = [seen EXCEPT ![a] = store]
  /\ \E p \in Params : param' = [param EXCEPT ![a] = p]
  /\ UNCHANGED <<redisVars, mem, clientVars, history>>

RevokeRead(a) == "revoke" \in Ops /\ ReadRecord(a, "revokeSet")

\* Write the record back, ignoring an error.
RevokeSet(a) ==
  /\ AdminGoes(a, "revokeSet", "revokeDrop")
  /\ \/ /\ store' = [active |-> FALSE, quota |-> seen[a].quota]
        /\ Overtakes(a, "revoke")
        /\ lost' = (lost \ {"revoke"}) \cup (overtaken[a] \cap {"topup"})
     \/ /\ RedisMayFail
        /\ lost' = lost \cup {"revoke"}
        /\ overtaken' = [overtaken EXCEPT ![a] = {}]
        /\ UNCHANGED store
  /\ UNCHANGED <<used, indexed, mem, clientVars, seen, param,
                 issued, revoked, granted, served>>

\* InvalidateAPIKey with the path parameter, which is not a key of the
\* memory copy when the admin named the key by its plain text.
RevokeDrop(a) ==
  /\ AdminGoes(a, "revokeDrop", "done")
  /\ mem' = IF param[a] = "hash" THEN None ELSE mem
  /\ revoked' = TRUE
  /\ UNCHANGED <<redisVars, clientVars, seen, param,
                 issued, granted, served, lossVars>>

TopUpRead(a) == "topup" \in Ops /\ ReadRecord(a, "topupSet")

TopUpSet(a) ==
  /\ AdminGoes(a, "topupSet", "topupDrop")
  /\ \E n \in Amounts :
       /\ \/ /\ store' = [active |-> seen[a].active, quota |-> seen[a].quota + n]
             /\ Overtakes(a, "topup")
             /\ lost' = lost \cup overtaken[a]
          \/ /\ RedisMayFail
             /\ lost' = lost \cup {"topup"}
             /\ overtaken' = [overtaken EXCEPT ![a] = {}]
             /\ UNCHANGED store
       /\ granted' = granted + n
  /\ UNCHANGED <<used, indexed, mem, clientVars, seen, param,
                 issued, revoked, served>>

\* InvalidateAPIKey with the resolved hash.
TopUpDrop(a) ==
  /\ AdminGoes(a, "topupDrop", "done")
  /\ mem' = None
  /\ UNCHANGED <<redisVars, clientVars, seen, param, history>>

ResetRead(a) == "reset" \in Ops /\ ReadRecord(a, "resetDel")

\* Delete the counter of the resolved hash; an error is answered.
ResetDel(a) ==
  /\ AdminGoes(a, "resetDel", "done")
  /\ \/ used' = 0 /\ served' = 0
     \/ RedisMayFail /\ UNCHANGED <<used, served>>
  /\ UNCHANGED <<store, indexed, mem, clientVars, seen, param,
                 issued, revoked, granted, lossVars>>

-----------------------------------------------------------------------------
ClientStep(r) == Fetch(r) \/ StoreInMemory(r) \/ Check(r)

AdminStep(a) ==
  \/ IndexKey(a)
  \/ RevokeSet(a) \/ RevokeDrop(a)
  \/ TopUpSet(a) \/ TopUpDrop(a)
  \/ ResetDel(a)

Next ==
  \/ \E r \in Clients : Request(r) \/ ClientStep(r)
  \/ Expire
  \/ \E a \in Admins :
       SaveKey(a) \/ RevokeRead(a) \/ TopUpRead(a) \/ ResetRead(a) \/ AdminStep(a)

Spec == Init /\ [][Next]_vars

\* A handler runs to its end and time passes; nobody has to send a request.
FairSpec ==
  /\ Spec
  /\ \A r \in Clients : WF_vars(ClientStep(r))
  /\ \A a \in Admins : WF_vars(AdminStep(a))
  /\ WF_vars(Expire)

-----------------------------------------------------------------------------
\* Between two resets no more requests are let through than quota was
\* granted, whatever top-ups race, however old the record in memory is and
\* whichever Redis commands fail.
QuotaRespected == served <= granted

\* Once Redis says for good that the key is inactive, requests stop being
\* let through, even those that put the old record back into memory.
RevocationTakesEffect ==
  <>[](issued /\ ~store.active)
     => <>[](\A r \in Clients : pc[r] = "check" => ~got[r].active)

\* A top-up whose admin was told of it is in the record, unless its write
\* failed or a request wrote the record back that had read it before.
TopUpsAddUp == store # None => store.quota = granted \/ "topup" \in lost

\* A key whose admin was told it is revoked is inactive, unless the last write
\* of a revocation failed or was overwritten by a top-up that had read the key
\* before it: no reset, no request, no copy in memory and no later top-up ever
\* brings it back.
RevocationsHold == revoked => ~store.active \/ "revoke" \in lost

\* What admins are told holds, but for what failed writes and writes of a record
\* read earlier take away (CreateKey, RevokeKey, TopUpQuota, ResetQuota).
AdminWritesHold == TypeOK /\ TopUpsAddUp /\ RevocationsHold

-----------------------------------------------------------------------------
(* What the console is told, and the code does not do.                     *)

\* A key that was revoked stays revoked.
StaysRevoked == revoked => ~store.active
=============================================================================
