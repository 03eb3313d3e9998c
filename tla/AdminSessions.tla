--------------------------- MODULE AdminSessions ---------------------------
(***************************************************************************)
(* internal/admin/session_handler.go, the sessions part of admin/handler.go *)
(* and the admin middleware: a session is a key of Redis with a life, and  *)
(* its token a member of an index without one.  Every command is a step    *)
(* and may fail; who gets an error mostly goes on.                         *)
(***************************************************************************)
EXTENDS Lifetimes

CONSTANTS Tokens,           \* what crand.Read may return, never the same twice
          SessionAdmins, Cleaners,   \* requests, and the goroutines of the cleanup
          SessionLife,      \* ticks of a session
          MaxSessionTicks, MaxSessionFaults   \* bounds

ASSUME SessionAssumption ==
  SessionLife \in Nat \ {0} /\ {MaxSessionTicks, MaxSessionFaults} \subseteq Nat

VARIABLES
  sessions,      \* admin:session:<token>
  active,        \* admin:sessions:active
  sessionAdmin,  \* sessionAdmin[a]: where the request of a is
  cleaner,       \* cleaner[c]: the same for a cleanup, with the tokens it has left
  begun,        \* history: the tokens of the logins that began, and those
  answered,      \* whose login was answered with success
  struck,        \* history: the tokens some command failed for
  sessionTicks, sessionFaults   \* counters for the bounds

sessionVars == <<sessions, active, sessionAdmin, cleaner, begun, answered, struck,
                 sessionTicks, sessionFaults>>

SessionInit ==
  /\ sessions = Empty /\ active = {}
  /\ sessionAdmin = [a \in SessionAdmins |-> [at |-> "idle"]]
  /\ cleaner = [c \in Cleaners |-> [at |-> "idle"]]
  /\ begun = {} /\ answered = {} /\ struck = {}
  /\ sessionTicks = 0 /\ sessionFaults = 0

Works == UNCHANGED <<sessionFaults, struck>>

\* Redis refuses a command about token t.
Strikes(t) ==
  /\ sessionFaults < MaxSessionFaults /\ sessionFaults' = sessionFaults + 1
  /\ struck' = struck \cup {t}

SessionAdminIs(a, v) == sessionAdmin' = [sessionAdmin EXCEPT ![a] = v]

\* SET and DEL of the record, SADD and SREM of the index; what fails is done
\* without effect.
Save(t) ==
  /\ \/ sessions' = Put(sessions, t, "session", SessionLife) /\ Works
     \/ UNCHANGED sessions /\ Strikes(t)
  /\ UNCHANGED active

List(t) ==
  /\ \/ active' = active \cup {t} /\ Works
     \/ UNCHANGED active /\ Strikes(t)
  /\ UNCHANGED sessions

Forget(t) ==
  /\ \/ sessions' = Drop(sessions, t) /\ Works
     \/ UNCHANGED sessions /\ Strikes(t)
  /\ UNCHANGED active

Unlist(t) ==
  /\ \/ active' = active \ {t} /\ Works
     \/ UNCHANGED active /\ Strikes(t)
  /\ UNCHANGED sessions

----------------------------------------------------------------------------
(* Login, with the master key. *)

\* A slip: the token is listed before its session is there.
ListThenSave == <<"list", "save">>

\* The order of a login's two commands.
SaveThenList == <<"save", "list">>

Login(a) ==
  /\ sessionAdmin[a].at = "idle"
  /\ \E t \in Tokens \ begun :
       /\ SessionAdminIs(a, [at |-> SaveThenList[1], token |-> t, did |-> 0])
       /\ begun' = begun \cup {t}
  /\ UNCHANGED <<sessions, active, cleaner, answered, struck, sessionTicks, sessionFaults>>

\* A session that cannot be saved is answered 500; that it cannot be listed
\* is not noticed.  One login in ten starts a cleanup.
LoginStep(a) ==
  LET v == sessionAdmin[a]
      over == v.did = 1 IN
  /\ \/ v.at = "save" /\ Save(v.token)
     \/ v.at = "list" /\ List(v.token)
  /\ IF v.at = "save" /\ sessionFaults' # sessionFaults
     THEN SessionAdminIs(a, [at |-> "idle"]) /\ UNCHANGED <<answered, cleaner>>
     ELSE /\ SessionAdminIs(a, IF over THEN [at |-> "idle"]
                               ELSE [at |-> SaveThenList[2], token |-> v.token, did |-> 1])
          /\ answered' = IF over THEN answered \cup {v.token} ELSE answered
          /\ \/ UNCHANGED cleaner
             \/ \E c \in Cleaners :
                  /\ over /\ cleaner[c].at = "idle"
                  /\ cleaner' = [cleaner EXCEPT ![c] = [at |-> "members"]]
  /\ UNCHANGED <<begun, sessionTicks>>

----------------------------------------------------------------------------
(* The end of a session: its own logout, or the revocation of a listed one. *)

Ends(a, t) ==
  /\ sessionAdmin[a].at = "idle"
  /\ SessionAdminIs(a, [at |-> "forget", token |-> t])
  /\ UNCHANGED <<sessions, active, cleaner, begun, answered, struck, sessionTicks, sessionFaults>>

Logout(a) == \E t \in answered \cap DOMAIN sessions : Ends(a, t)

RevokeSession(a) == \E t \in active : Ends(a, t)

EndStep(a) ==
  LET v == sessionAdmin[a] IN
  /\ \/ v.at = "forget" /\ Forget(v.token) /\ SessionAdminIs(a, [at |-> "unlist", token |-> v.token])
     \/ v.at = "unlist" /\ Unlist(v.token) /\ SessionAdminIs(a, [at |-> "idle"])
  /\ UNCHANGED <<cleaner, begun, answered, sessionTicks>>

----------------------------------------------------------------------------
(* CleanupExpiredSessions: the members, then a GET of each; whatever error  *)
(* the GET has, the token leaves the index.                                *)

CleanerIs(c, v) == cleaner' = [cleaner EXCEPT ![c] = v]

CleanNext(c, todo) == CleanerIs(c, IF todo = {} THEN [at |-> "idle"] ELSE [at |-> "get", todo |-> todo])

Members(c) ==
  /\ cleaner[c].at = "members"
  /\ CleanNext(c, active)
  /\ UNCHANGED <<sessions, active, sessionAdmin, begun, answered, struck, sessionTicks, sessionFaults>>

GetSession(c) ==
  /\ cleaner[c].at = "get"
  /\ \E t \in cleaner[c].todo :
       LET todo == cleaner[c].todo \ {t}
           remove == CleanerIs(c, [at |-> "remove", token |-> t, todo |-> todo]) IN
       \/ Works /\ IF t \in DOMAIN sessions THEN CleanNext(c, todo) ELSE remove
       \/ Strikes(t) /\ remove
  /\ UNCHANGED <<sessions, active, sessionAdmin, begun, answered, sessionTicks>>

Remove(c) ==
  /\ cleaner[c].at = "remove"
  /\ Unlist(cleaner[c].token) /\ CleanNext(c, cleaner[c].todo)
  /\ UNCHANGED <<sessionAdmin, begun, answered, sessionTicks>>

----------------------------------------------------------------------------
\* Time.  Requests are shorter than a tick; a cleanup may take longer.
SessionTick ==
  /\ sessionTicks < MaxSessionTicks /\ sessionTicks' = sessionTicks + 1
  /\ \A a \in SessionAdmins : sessionAdmin[a].at = "idle"
  /\ sessions' = Aged(sessions)
  /\ UNCHANGED <<active, sessionAdmin, cleaner, begun, answered, struck, sessionFaults>>

\* The server dies with its requests and its cleanups.
SessionCrash ==
  /\ sessionFaults < MaxSessionFaults /\ sessionFaults' = sessionFaults + 1
  /\ struck' = struck \cup {t \in Tokens : \E a \in SessionAdmins :
                              sessionAdmin[a].at # "idle" /\ sessionAdmin[a].token = t}
  /\ sessionAdmin' = [a \in SessionAdmins |-> [at |-> "idle"]]
  /\ cleaner' = [c \in Cleaners |-> [at |-> "idle"]]
  /\ UNCHANGED <<sessions, active, begun, answered, sessionTicks>>

SessionNext ==
  \/ \E a \in SessionAdmins :
       Login(a) \/ LoginStep(a) \/ Logout(a) \/ RevokeSession(a) \/ EndStep(a)
  \/ \E c \in Cleaners : Members(c) \/ GetSession(c) \/ Remove(c)
  \/ SessionTick \/ SessionCrash

SessionSpec == SessionInit /\ [][SessionNext]_sessionVars

----------------------------------------------------------------------------
SessionTypeOK ==
  /\ DOMAIN sessions \cup active \cup answered \cup struck \subseteq begun
  /\ begun \subseteq Tokens
  /\ \A t \in DOMAIN sessions : sessions[t].left \in 1 .. SessionLife

\* GetActiveSessions shows, and RevokeSession can be asked for, every session
\* that works and whose login was answered, unless a command about it failed
\* or it is being ended: no cleanup that began before a login hides it.
LiveSessionsListed ==
  \A t \in (DOMAIN sessions \cap answered) \ struck : t \in active

\* A token that is listed without a session is the trace of its expiry, of a
\* failure or of an end under way.
ListedAreLive ==
  \A t \in active \ struck :
     \/ t \in DOMAIN sessions
     \/ sessionTicks >= SessionLife
     \/ \E a \in SessionAdmins : sessionAdmin[a].at = "unlist" /\ sessionAdmin[a].token = t

\* The list of sessions an administrator sees and can revoke, and the sessions
\* the middleware accepts, are the same but for expiry and failures.
SessionsAgree == SessionTypeOK /\ LiveSessionsListed /\ ListedAreLive
=============================================================================
