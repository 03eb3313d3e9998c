---------------------------- MODULE MCServices ----------------------------
(***************************************************************************)
(* The components that share no state with any other, for TLC.  What they  *)
(* do interleaves without effect on each other, so a behaviour of the      *)
(* server violates a property of one of them if and only if a behaviour in *)
(* which only that one moves does: part is the one that moves.             *)
(***************************************************************************)
EXTENDS Limiter, LeakcheckStore, UsageStats, IptvStore

VARIABLE part

allVars == <<vars, leakVars, statsVars, iptvVars, part>>

Parts == {"limiter", "leakcheck", "stats", "iptv"}

AllInit ==
  /\ part \in Parts
  /\ Init /\ LeakInit /\ StatsInit /\ IptvInit
  \* what does not move need not be in each of its initial states
  /\ part # "stats" => kind = "stats"
  /\ part # "iptv" => site = [channels |-> Channels, streams |-> Channels]

LimiterMoves ==
  /\ part = "limiter" /\ Next
  /\ UNCHANGED <<part, leakVars, statsVars, iptvVars>>

LeakcheckMoves ==
  /\ part = "leakcheck" /\ LeakNext
  /\ UNCHANGED <<part, vars, statsVars, iptvVars>>

StatsMoves ==
  /\ part = "stats" /\ StatsNext
  /\ UNCHANGED <<part, vars, leakVars, iptvVars>>

IptvMoves ==
  /\ part = "iptv" /\ IptvNext
  /\ UNCHANGED <<part, vars, leakVars, statsVars>>

AllNext == LimiterMoves \/ LeakcheckMoves \/ StatsMoves \/ IptvMoves

\* What a running program goes on with, one step of some goroutine at a
\* time: callers inside Acquire; loads, rebuilds and searches that have
\* begun, and the five minutes of an answer; a worker; a refresh.
LimiterGoes == part = "limiter" /\ \E p \in Procs : Load(p) \/ CompareAndSwap(p)

LeakcheckGoes ==
  /\ part = "leakcheck"
  /\ \/ ExpireAnswer
     \/ \E w \in Loaders : WriterStep(w)
     \/ \E s \in Searchers : SearchStep(s)

StatsGoes == part = "stats" /\ StatsWorker

\* Both tickers fire, and a fetch that is tried for ever succeeds some time.
IptvFair ==
  /\ WF_iptvVars(part = "iptv" /\ Refresh)
  /\ SF_iptvVars(part = "iptv" /\ StaticTick)
  /\ SF_iptvVars(part = "iptv" /\ StreamTick)
  /\ SF_iptvVars(part = "iptv" /\ ChannelsArrive)
  /\ SF_iptvVars(part = "iptv" /\ StreamsArrive)

AllSpec ==
  /\ AllInit /\ [][AllNext]_allVars
  /\ WF_vars(LimiterGoes) /\ WF_leakVars(LeakcheckGoes) /\ WF_statsVars(StatsGoes)
  /\ IptvFair
=============================================================================
