----------------------------- MODULE MCLeaves -----------------------------
(***************************************************************************)
(* The three components that stand alone, side by side for TLC: an initial *)
(* state is one of the webhook's health row with three delivery threads,   *)
(* the rule cache with the two threads of a daemon, and one graph over     *)
(* four ids, each of which may exist or be only the name of something      *)
(* deleted.  The other two stay as they are when nothing happens to them.  *)
(***************************************************************************)
EXTENDS HealthBreaker, RuleCache, DerivationOrder

CONSTANTS w1, w2, w3, callback, main, a, b, c, d

MCWorkers == {w1, w2, w3}
MCThreads == {callback, main}
Ids == {a, b, c, d}

VARIABLE part
leafVars == <<part, vars, cacheVars, orderVars>>

BreakerStep(A) == part = "breaker" /\ A /\ UNCHANGED <<part, cacheVars, orderVars>>
CacheStep(A) == part = "cache" /\ A /\ UNCHANGED <<part, vars, orderVars>>
OrderStep(A) == part = "order" /\ A /\ UNCHANGED <<part, vars, cacheVars>>

\* No derivations: the result is the empty one.
OrderIdle == edges = <<>> /\ alive = {} /\ stage = "done" /\ order = <<>>

LeavesInit ==
  \/ part = "order" /\ OrderInit /\ Init /\ endpoint = "up" /\ CacheInit /\ file.mtime = 0
  \/ part = "cache" /\ OrderIdle /\ Init /\ endpoint = "up" /\ CacheInit
  \/ part = "breaker" /\ OrderIdle /\ Init /\ CacheInit /\ file.mtime = 0

LeavesNext == BreakerStep(Next) \/ CacheStep(CacheNext) \/ OrderStep(OrderNext)

LeavesSpec ==
  /\ LeavesInit /\ [][LeavesNext]_leafVars
  /\ \A w \in Worker : WF_leafVars(BreakerStep(Work(w)))
  /\ \A t \in Thread : WF_leafVars(CacheStep(Get(t)))
  /\ WF_leafVars(OrderStep(OrderNext))
=============================================================================
