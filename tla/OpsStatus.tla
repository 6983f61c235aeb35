----------------------------- MODULE OpsStatus -----------------------------
(***************************************************************************)
(* ops_status.py: GET /status asks the database for what the building does *)
(* and every part of the platform whether it answers, each at a moment of  *)
(* its own, infers the jobs from both and ranks the whole.                 *)
(***************************************************************************)
EXTENDS Integers, Sequences, FiniteSets

CONSTANTS COMPONENTS,    \* id -> [layer, probe]
          OPS_QUIET_INGEST_SECONDS,
          Seen,          \* what a database can hold: records as below
          MaxChanges

\* The platform: whether each part answers, and how ("none" if it does not),
\* and the database: the age of the last row of point_history (-1 without one),
\* the number of disabled targets and of organisations, and the tables it has.
VARIABLES answers, db, phase, building, results, summary, past, changes

opsVars == <<answers, db, phase, building, results, summary, past, changes>>

Layer(l) == {c \in DOMAIN COMPONENTS : COMPONENTS[c].layer = l}
Inferred == {"inferred_ingest", "inferred_faults", "inferred_derivations"}
Direct == {c \in DOMAIN COMPONENTS : COMPONENTS[c].probe \notin Inferred}

\* The list of the code: jobs are what is inferred; the historian is the database
\* and belongs, as the bus does, to the platform; readings and derivations have a
\* job each. A reading stamped in the future is of age 0.
ASSUME ComponentAssumption ==
  /\ \A c \in DOMAIN COMPONENTS :
       IF c \in Direct THEN COMPONENTS[c].layer \in {"platform", "tools"}
                       ELSE COMPONENTS[c].layer = "jobs"
  /\ {"historian", "live_bus"} \subseteq Layer("platform") /\ COMPONENTS["historian"].probe = "postgres"
  /\ {"inferred_ingest", "inferred_derivations"} \subseteq {COMPONENTS[c].probe : c \in DOMAIN COMPONENTS}
  /\ OPS_QUIET_INGEST_SECONDS \in Int
  /\ \A d \in Seen : d.last \in Nat \union {-1} /\ {d.disabled, d.orgs} \subseteq Nat

Unknown == [last |-> -1, disabled |-> 0, orgs |-> 0]
Begin ==
  /\ phase = "idle" /\ building = Unknown /\ results = <<>> /\ summary = "none"
  /\ past = {} /\ changes = 0

\* The platform when the request comes; only an HTTP server refuses.
OpsInit ==
  /\ Begin
  /\ answers \in [Direct -> {"ok", "refused", "none"}]
  /\ \A c \in Direct : answers[c] = "refused" => COMPONENTS[c].probe = "http"
  /\ db \in Seen

\* _building_signals: one transaction. A table that is missing aborts it, and with
\* it the counts that come after; the parts it could not read keep their defaults.
Signals(m) ==
  IF m.answers["historian"] # "ok" \/ "point_history" \notin m.db.tables THEN Unknown
  ELSE LET Reached(t) == {"faults", t} \subseteq m.db.tables
       IN [last |-> m.db.last,
           disabled |-> IF Reached("derivation_target_health") THEN m.db.disabled ELSE 0,
           orgs |-> IF Reached("derivation_target_health") /\ Reached("orgs") THEN m.db.orgs ELSE 0]
Present == [answers |-> answers, db |-> db]
BuildingSignals ==
  /\ phase = "idle"
  /\ building' = Signals(Present)
  /\ past' = {Present}
  /\ phase' = "probing"
  /\ UNCHANGED <<answers, db, results, summary, changes>>

\* _http_ok, _tcp_ok, _postgres_ok: a 401 or 403 is an answer.
Reachable(c, a) ==
  a = "ok" \/ (COMPONENTS[c].probe = "http" /\ a = "refused")
Unprobed == Direct \ DOMAIN results
\* The pool's threads: one probe each, in any order.
ProbeDirect(c) ==
  /\ phase = "probing" /\ c \in Unprobed
  /\ results' = [x \in DOMAIN results \union {c} |->
                   IF x = c THEN IF Reachable(c, answers[c]) THEN "ok" ELSE "down" ELSE results[x]]
  /\ UNCHANGED <<answers, db, phase, building, summary, past, changes>>

\* _infer_ingest, _infer_faults, _infer_derivations, from the platform's states.
Infer(c, states) ==
  LET Ok(p) == p \in DOMAIN states /\ states[p] = "ok"
      probe == COMPONENTS[c].probe
  IN IF ~Ok("historian") \/ (probe = "inferred_ingest" /\ ~Ok("live_bus")) THEN "down"
     ELSE CASE probe = "inferred_ingest" ->
                 IF building.last = -1 \/ building.last > OPS_QUIET_INGEST_SECONDS THEN "quiet" ELSE "ok"
            [] probe = "inferred_faults" -> "ok"
            [] probe = "inferred_derivations" -> IF building.disabled > 0 THEN "degraded" ELSE "ok"

\* _rank_summary, over all but the tools.
\* Mutant: the tools are ranked as well.
RankedAll(states) ==
  CASE \E c \in DOMAIN states : states[c] = "down" -> "down"
    [] \A c \in DOMAIN states : states[c] = "ok" -> "ok"
    [] OTHER -> "degraded"
RankSummary(states) ==
  LET ranked == {states[c] : c \in DOMAIN states \ Layer("tools")}
  IN IF "down" \in ranked THEN "down"
     ELSE IF ranked \intersect {"degraded", "quiet"} # {} THEN "degraded" ELSE "ok"

CollectStatus ==
  /\ phase = "probing" /\ Unprobed = {}
  /\ LET platform == [c \in DOMAIN results \intersect Layer("platform") |-> results[c]]
     IN results' = [c \in DOMAIN COMPONENTS |-> IF c \in Direct THEN results[c] ELSE Infer(c, platform)]
  /\ summary' = RankSummary(results')
  /\ phase' = "done"
  /\ UNCHANGED <<answers, db, building, past, changes>>

\* A part stops or comes back; readings arrive or age, a target is disabled or not.
Change ==
  /\ phase = "probing" /\ changes < MaxChanges
  /\ \/ /\ \E c \in Direct : answers' = [answers EXCEPT ![c] = IF @ = "ok" THEN "none" ELSE "ok"]
        /\ UNCHANGED db
     \/ /\ \E d \in Seen : d # db /\ d.tables = db.tables /\ d.orgs = db.orgs /\ db' = d
        /\ UNCHANGED answers
  /\ past' = past \union {Present'}
  /\ changes' = changes + 1
  /\ UNCHANGED <<phase, building, results, summary>>

Collect == BuildingSignals \/ (\E c \in Direct : ProbeDirect(c)) \/ CollectStatus

OpsNext == Collect \/ Change
OpsSpec == OpsInit /\ [][OpsNext]_opsVars
-----------------------------------------------------------------------------
AllTables == {"point_history", "faults", "derivation_target_health", "orgs"}

\* What the platform's state is at a moment, from its parts and its database.
PlatformUp(m) == \A c \in Layer("platform") : Reachable(c, m.answers[c])
Busy(m) == m.db.last \in 0..OPS_QUIET_INGEST_SECONDS /\ m.db.disabled = 0

\* Of the status page: when nothing changes while it is collected and the tables
\* are there, its summary is "down" if and only if a part of the platform is,
\* tools never counted, "ok" if and only if every part answers, readings came
\* within the quiet time and no target is disabled, and it asks for a first
\* organisation if and only if there is none. Whatever changes, it does not say
\* "ok" unless each part of the platform answered at some moment of the request
\* (ops_status.py:207-278).
StatusTruthful ==
  phase = "done" =>
    /\ (summary = "ok") => \A c \in Layer("platform") : \E m \in past : Reachable(c, m.answers[c])
    /\ \A m \in past : (past = {m} /\ m.db.tables = AllTables) =>
         /\ (summary = "down") <=> ~PlatformUp(m)
         /\ (summary = "ok") <=> (PlatformUp(m) /\ Busy(m))
         /\ m.answers["historian"] = "ok" => ((building.orgs = 0) <=> (m.db.orgs = 0))
=============================================================================
