------------------------------ MODULE MCGate ------------------------------
(***************************************************************************)
(* What stands before the handlers, for TLC: the API key with its quota,   *)
(* the access token, the rate limits, the feature flags and the sessions   *)
(* of the administrators.  Each has keys of Redis of its own, so each is   *)
(* checked with the others at rest: part is the one that moves.            *)
(***************************************************************************)
EXTENDS ApiKeys, AccessTokens, RateLimits, FeatureFlags, AdminSessions, TLC

VARIABLE part

gateVars == <<vars, tokenVars, limitVars, flagVars, sessionVars, part>>

GateInit ==
  /\ part \in {"key", "token", "limit", "flag", "session"}
  /\ Init /\ TokenInit /\ LimitInit /\ FlagInit /\ SessionInit

KeyMoves ==
  part = "key" /\ Next /\ UNCHANGED <<part, tokenVars, limitVars, flagVars, sessionVars>>

TokenMoves ==
  part = "token" /\ TokenNext /\ UNCHANGED <<part, vars, limitVars, flagVars, sessionVars>>

LimitMoves ==
  part = "limit" /\ LimitNext /\ UNCHANGED <<part, vars, tokenVars, flagVars, sessionVars>>

FlagMoves ==
  part = "flag" /\ FlagNext /\ UNCHANGED <<part, vars, tokenVars, limitVars, sessionVars>>

SessionMoves ==
  part = "session" /\ SessionNext /\ UNCHANGED <<part, vars, tokenVars, limitVars, flagVars>>

GateNext == KeyMoves \/ TokenMoves \/ LimitMoves \/ FlagMoves \/ SessionMoves

GateSpec == GateInit /\ [][GateNext]_gateVars

----------------------------------------------------------------------------
(* The instance. *)

MCLimits == [login |-> 1, convert |-> 2]
MCPlatforms == [content |-> {"tiktok"}]

\* Requests differ only in name.  The parts share their model values: where
\* only one moves, exchanging them everywhere exchanges them in that one.
GateSymmetry ==
  Permutations(Clients) \cup Permutations(Admins) \cup Permutations(Tokens)
=============================================================================
