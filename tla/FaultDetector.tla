--------------------------- MODULE FaultDetector ---------------------------
(***************************************************************************)
(* fault_detector.py together with the `faults` table of faults.py and the *)
(* part of fault_api.py that edits the rules, the webhooks and the fault   *)
(* annotations.                                                            *)
(*                                                                         *)
(* The detector is one process with two threads that write the table:      *)
(* the MQTT callback thread evaluates Cur-mode rules on every reading, the *)
(* main thread sweeps point_history for His-mode rules.  Every statement   *)
(* is autocommitted, so a step below is one SQL statement, one file read   *)
(* or one spawn of the delivery threads, and the other thread, the API and *)
(* a crash of the process may come between any two of them.                *)
(***************************************************************************)
EXTENDS Integers, Sequences, FiniteSets

CONSTANTS
  Rule,        \* rule ids that rules.json may hold
  CurRule,     \* those with mode "cur" (type "range"); the others are "his"
  Point,       \* point URIs
  Applies,     \* Applies[r]: the points the applies_to of rule r selects
  Value,       \* readings, as far as range rules tell them apart
  OutOfRange,  \* OutOfRange[r]: the readings outside [min, max] of r
  Hook,        \* webhook ids that webhooks.json may hold
  Wants,       \* Wants[h]: the rules the filter of webhook h lets through
  None,        \* "no rule", "no point", "no reading"
  Failures,    \* failures the environment may inject, see FailureKind
  MaxChanges,  \* bound: external events (readings, edits, history changes)
  MaxInbox,    \* bound: readings the broker has sent and paho not yet handed on
  MaxTime      \* bound: value of the wall clock

FailureKind == {"crash", "threadDeath", "loss"}

ASSUME RuleAssumption ==
  /\ CurRule \subseteq Rule
  /\ Applies \in [Rule -> SUBSET Point]
  /\ OutOfRange \in [CurRule -> SUBSET Value]
ASSUME HookAssumption == Wants \in [Hook -> SUBSET Rule]
ASSUME NoneAssumption == None \notin Rule /\ None \notin Point /\ None \notin Value
ASSUME BoundAssumption ==
  /\ Failures \subseteq FailureKind
  /\ MaxChanges \in Nat /\ MaxInbox \in Nat /\ MaxTime \in Nat

HisRule == Rule \ CurRule

VARIABLES
  rules,     \* ids in rules.json
  hooks,     \* ids in webhooks.json
  reported,  \* points with rows in point_history
  symptom,   \* <<r, p>>: the stuck/stale query of r is true of p right now
  inbox,     \* readings on their way to the callback thread
  faults,    \* the faults table, in id order
  notices,   \* <<fault id, event, webhook>> of every delivery thread started
  cur,       \* the callback thread
  his,       \* the main thread
  now,       \* wall clock, taken to be monotone
  changes    \* external events so far

vars == <<rules, hooks, reported, symptom, inbox, faults, notices, cur, his,
          now, changes>>
world == <<rules, hooks, reported, symptom, changes>>
-----------------------------------------------------------------------------
(* The table.  ended_at IS NULL is `Open`.                                 *)

Open == -1
Mark == {"acked", "snoozed"}
Row == [rule : Rule, point : Point, started : Nat, ended : Nat \cup {Open},
        marks : SUBSET Mark]

IsOpen(i, r, p) == faults[i].rule = r /\ faults[i].point = p /\ faults[i].ended = Open
OpenRows(r, p) == {i \in DOMAIN faults : IsOpen(i, r, p)}

\* Mutant: the insert without its ON CONFLICT clause.
OpenFaultTwice(r, p, t) ==
  faults' = Append(faults, [rule |-> r, point |-> p, started |-> t, ended |-> Open, marks |-> {}])

\* INSERT ... ON CONFLICT (rule_id, point_uri) WHERE ended_at IS NULL DO NOTHING
OpenFault(r, p, t) ==
  /\ OpenRows(r, p) = {}
  /\ faults' = Append(faults, [rule |-> r, point |-> p, started |-> t,
                               ended |-> Open, marks |-> {}])

\* Mutants: the update also moves the end of earlier episodes; the update is
\* left in a transaction that is never committed.
CloseFaultAll(r, p, t) ==
  /\ OpenRows(r, p) # {}
  /\ faults' = [i \in DOMAIN faults |->
                  IF faults[i].rule = r /\ faults[i].point = p
                  THEN [faults[i] EXCEPT !.ended = t] ELSE faults[i]]
CloseFaultUncommitted(r, p, t) == OpenRows(r, p) # {} /\ UNCHANGED faults

\* UPDATE ... SET ended_at WHERE rule_id, point_uri AND ended_at IS NULL
CloseFault(r, p, t) ==
  /\ OpenRows(r, p) # {}
  /\ faults' = [i \in DOMAIN faults |->
                  IF IsOpen(i, r, p) THEN [faults[i] EXCEPT !.ended = t] ELSE faults[i]]

\* The evaluation of a rule on a point leaves the table as it is.
NoTransition(r, p, bad) ==
  /\ bad <=> OpenRows(r, p) # {}
  /\ UNCHANGED faults

(* What the two threads do with the row id a transition returns:           *)
(* _fire_webhooks reads webhooks.json and starts one thread per match.     *)
Notify(job) ==
  notices' = notices \cup {<<job.row, job.event, h>> : h \in {w \in hooks : job.rule \in Wants[w]}}

Event == {"opened", "resolved"}
NoJob == [rule |-> None, row |-> 0, event |-> "opened"]
Job == [rule : Rule \cup {None}, row : Nat, event : Event]
Opened(r) == [rule |-> r, row |-> Len(faults) + 1, event |-> "opened"]
Resolved(r, p) == [rule |-> r, row |-> CHOOSE i \in OpenRows(r, p) : TRUE, event |-> "resolved"]
-----------------------------------------------------------------------------
(* The callback thread: handle_cur_reading for one message.                *)

CurIdle == [pc |-> "idle", at |-> 0, point |-> None, value |-> None, todo |-> {}, job |-> NoJob]
CurPc == {"idle", "eval", "fire", "dead"}

\* Mutant: rules of either mode are evaluated on a reading.
CurReceiveAnyMode ==
  /\ cur.pc = "idle" /\ inbox # <<>>
  /\ inbox' = Tail(inbox)
  /\ cur' = [CurIdle EXCEPT !.pc = "eval", !.at = now, !.point = Head(inbox).point,
               !.value = Head(inbox).value, !.todo = {r \in rules : Head(inbox).point \in Applies[r]}]
  /\ UNCHANGED <<world, faults, notices, his, now>>

\* on_message, datetime.now(), rule_cache.get() and the mode/applies_to filter.
CurReceive ==
  /\ cur.pc = "idle" /\ inbox # <<>>
  /\ inbox' = Tail(inbox)
  /\ LET m == Head(inbox) IN
       cur' = [CurIdle EXCEPT !.pc = "eval", !.at = now, !.point = m.point, !.value = m.value,
                 !.todo = {r \in rules \cap CurRule : m.point \in Applies[r]}]
  /\ UNCHANGED <<world, faults, notices, his, now>>

\* Mutant: a rule that has changed nothing is not taken off the list.
CurEvaluateAgain(r) ==
  LET p == cur.point
      bad == cur.value \in OutOfRange[r]
      next(pc, job) == cur' = [cur EXCEPT !.pc = pc, !.job = job]
  IN
  /\ cur.pc = "eval" /\ r \in cur.todo
  /\ \/ bad /\ OpenFault(r, p, cur.at) /\ next("fire", Opened(r))
     \/ ~bad /\ CloseFault(r, p, cur.at) /\ next("fire", Resolved(r, p))
     \/ NoTransition(r, p, bad) /\ next("eval", NoJob)
  /\ UNCHANGED <<world, inbox, notices, his, now>>

\* One iteration of the loop over the rules: evaluate_range_rule and the SQL.
CurEvaluate(r) ==
  LET p == cur.point
      bad == cur.value \in OutOfRange[r]
      next(pc, job) == cur' = [cur EXCEPT !.pc = pc, !.todo = @ \ {r}, !.job = job]
  IN
  /\ cur.pc = "eval" /\ r \in cur.todo
  /\ \/ bad /\ OpenFault(r, p, cur.at) /\ next("fire", Opened(r))
     \/ ~bad /\ CloseFault(r, p, cur.at) /\ next("fire", Resolved(r, p))
     \/ NoTransition(r, p, bad) /\ next("eval", NoJob)
  /\ UNCHANGED <<world, inbox, notices, his, now>>

\* Mutants: the notice may be sent again, or not at all.
CurFireAgain ==
  /\ cur.pc = "fire"
  /\ Notify(cur.job)
  /\ cur' = [cur EXCEPT !.pc = "eval", !.job = NoJob] \/ UNCHANGED cur
  /\ UNCHANGED <<world, inbox, faults, his, now>>
CurFireSilently ==
  /\ cur.pc = "fire"
  /\ cur' = [cur EXCEPT !.pc = "eval", !.job = NoJob]
  /\ UNCHANGED <<world, inbox, faults, notices, his, now>>

CurFire ==
  /\ cur.pc = "fire"
  /\ Notify(cur.job)
  /\ cur' = [cur EXCEPT !.pc = "eval", !.job = NoJob]
  /\ UNCHANGED <<world, inbox, faults, his, now>>

CurDone ==
  /\ cur.pc = "eval" /\ cur.todo = {}
  /\ cur' = CurIdle
  /\ UNCHANGED <<world, inbox, faults, notices, his, now>>
-----------------------------------------------------------------------------
(* The main thread: evaluate_his_rules, then sleep(his_interval), forever. *)

HisIdle == [pc |-> "idle", at |-> 0, todo |-> {}, rule |-> None, cands |-> {},
            point |-> None, bad |-> FALSE, job |-> NoJob]
HisPc == {"idle", "rules", "points", "write", "fire"}

\* rule_cache.get() and the `now` the whole sweep uses.
SweepStart ==
  /\ his.pc = "idle"
  /\ his' = [HisIdle EXCEPT !.pc = "rules", !.at = now, !.todo = rules \cap HisRule]
  /\ UNCHANGED <<world, inbox, faults, notices, cur, now>>

\* Mutant: only the points that look bad are visited, so none is ever resolved.
SweepRuleBadOnly(r) ==
  /\ his.pc = "rules" /\ r \in his.todo
  /\ his' = [his EXCEPT !.pc = "points", !.todo = @ \ {r}, !.rule = r,
                        !.cands = {p \in reported \cap Applies[r] : <<r, p>> \in symptom}]
  /\ UNCHANGED <<world, inbox, faults, notices, cur, now>>

\* SELECT DISTINCT point_uri FROM point_history, filtered by applies_to.
SweepRule(r) ==
  /\ his.pc = "rules" /\ r \in his.todo
  /\ his' = [his EXCEPT !.pc = "points", !.todo = @ \ {r}, !.rule = r,
                        !.cands = reported \cap Applies[r]]
  /\ UNCHANGED <<world, inbox, faults, notices, cur, now>>

\* _evaluate_stuck / _evaluate_stale read the history ...
SweepRead(p) ==
  /\ his.pc = "points" /\ p \in his.cands
  /\ his' = [his EXCEPT !.pc = "write", !.cands = @ \ {p}, !.point = p,
                        !.bad = <<his.rule, p>> \in symptom]
  /\ UNCHANGED <<world, inbox, faults, notices, cur, now>>

\* ... and the verdict, by then perhaps out of date, is written.
SweepWrite ==
  LET r == his.rule
      p == his.point
      next(pc, job) == his' = [his EXCEPT !.pc = pc, !.job = job]
  IN
  /\ his.pc = "write"
  /\ \/ his.bad /\ OpenFault(r, p, his.at) /\ next("fire", Opened(r))
     \/ ~his.bad /\ CloseFault(r, p, his.at) /\ next("fire", Resolved(r, p))
     \/ NoTransition(r, p, his.bad) /\ next("points", NoJob)
  /\ UNCHANGED <<world, inbox, notices, cur, now>>

SweepFire ==
  /\ his.pc = "fire"
  /\ Notify(his.job)
  /\ his' = [his EXCEPT !.pc = "points", !.job = NoJob]
  /\ UNCHANGED <<world, inbox, faults, cur, now>>

SweepNext ==
  /\ \/ /\ his.pc = "points" /\ his.cands = {}
        /\ his' = [HisIdle EXCEPT !.pc = "rules", !.at = his.at, !.todo = his.todo]
     \/ /\ his.pc = "rules" /\ his.todo = {}
        /\ his' = HisIdle
  /\ UNCHANGED <<world, inbox, faults, notices, cur, now>>
-----------------------------------------------------------------------------
(* fault_api.py: each request is one file rewrite or one statement.        *)

Edit == changes < MaxChanges /\ changes' = changes + 1

CreateRule(r) ==
  /\ Edit /\ r \notin rules /\ rules' = rules \cup {r}
  /\ UNCHANGED <<hooks, reported, symptom, inbox, faults, notices, cur, his, now>>

DeleteRule(r) ==
  /\ Edit /\ r \in rules /\ rules' = rules \ {r}
  /\ UNCHANGED <<hooks, reported, symptom, inbox, faults, notices, cur, his, now>>

CreateWebhook(h) ==
  /\ Edit /\ h \notin hooks /\ hooks' = hooks \cup {h}
  /\ UNCHANGED <<rules, reported, symptom, inbox, faults, notices, cur, his, now>>

DeleteWebhook(h) ==
  /\ Edit /\ h \in hooks /\ hooks' = hooks \ {h}
  /\ UNCHANGED <<rules, reported, symptom, inbox, faults, notices, cur, his, now>>

\* ack_fault and snooze_fault: an UPDATE of any row, open or resolved.
Annotate(i, m) ==
  /\ Edit /\ i \in DOMAIN faults /\ m \notin faults[i].marks
  /\ faults' = [faults EXCEPT ![i].marks = @ \cup {m}]
  /\ UNCHANGED <<rules, hooks, reported, symptom, inbox, notices, cur, his, now>>
-----------------------------------------------------------------------------
(* The world around the detector.                                          *)

Publish(p, v) ==
  /\ Edit /\ Len(inbox) < MaxInbox
  /\ inbox' = Append(inbox, [point |-> p, value |-> v])
  /\ UNCHANGED <<rules, hooks, reported, symptom, faults, notices, cur, his, now>>

\* A reading reaches point_history, or the last one of a point is deleted.
HistoryAppears(p) ==
  /\ Edit /\ p \notin reported /\ reported' = reported \cup {p}
  /\ UNCHANGED <<rules, hooks, symptom, inbox, faults, notices, cur, his, now>>

HistoryDeleted(p) ==
  /\ Edit /\ p \in reported /\ reported' = reported \ {p}
  /\ symptom' = {rp \in symptom : rp[2] # p}
  /\ UNCHANGED <<rules, hooks, inbox, faults, notices, cur, his, now>>

\* Time passes or readings come in: a stuck/stale query changes its answer.
SymptomChanges(r, p) ==
  /\ Edit /\ p \in reported
  /\ symptom' = IF <<r, p>> \in symptom THEN symptom \ {<<r, p>>} ELSE symptom \cup {<<r, p>>}
  /\ UNCHANGED <<rules, hooks, reported, inbox, faults, notices, cur, his, now>>

Tick ==
  /\ now < MaxTime /\ now' = now + 1
  /\ UNCHANGED <<world, inbox, faults, notices, cur, his>>

\* The process dies (an exception in the main thread, a kill) and Docker
\* restarts it: both threads start over, unread QoS 0 messages are gone.
Crash ==
  /\ "crash" \in Failures /\ Edit
  /\ inbox' = <<>> /\ cur' = CurIdle /\ his' = HisIdle
  /\ UNCHANGED <<rules, hooks, reported, symptom, faults, notices, now>>

\* An exception in on_message (a payload that is no JSON object, a lost
\* database connection) ends paho's network thread, and only that thread.
CurThreadDies ==
  /\ "threadDeath" \in Failures /\ Edit
  /\ \/ cur.pc = "idle" /\ inbox # <<>> /\ inbox' = Tail(inbox)
     \/ cur.pc \in {"eval", "fire"} /\ UNCHANGED inbox
  /\ cur' = [CurIdle EXCEPT !.pc = "dead"]
  /\ UNCHANGED <<rules, hooks, reported, symptom, faults, notices, his, now>>

\* QoS 0: the broker drops what it cannot deliver.
LoseMessage ==
  /\ "loss" \in Failures /\ Edit
  /\ inbox # <<>> /\ inbox' = Tail(inbox)
  /\ UNCHANGED <<rules, hooks, reported, symptom, faults, notices, cur, his, now>>
-----------------------------------------------------------------------------
CurStep ==
  \/ CurReceive
  \/ \E r \in CurRule : CurEvaluate(r)
  \/ CurFire
  \/ CurDone

HisStep ==
  \/ SweepStart
  \/ \E r \in HisRule : SweepRule(r)
  \/ \E p \in Point : SweepRead(p)
  \/ SweepWrite
  \/ SweepFire
  \/ SweepNext

ApiStep ==
  \/ \E r \in Rule : CreateRule(r) \/ DeleteRule(r)
  \/ \E h \in Hook : CreateWebhook(h) \/ DeleteWebhook(h)
  \/ \E i \in DOMAIN faults, m \in Mark : Annotate(i, m)

WorldStep ==
  \/ \E p \in Point, v \in Value : Publish(p, v)
  \/ \E p \in Point : HistoryAppears(p) \/ HistoryDeleted(p)
  \/ \E r \in HisRule, p \in Point : SymptomChanges(r, p)
  \/ Tick
  \/ Crash
  \/ CurThreadDies
  \/ LoseMessage

\* The detector's first start: some configuration, some history, no faults.
Init ==
  /\ rules \in SUBSET Rule /\ hooks \in SUBSET Hook
  /\ reported \in SUBSET Point /\ symptom = {}
  /\ inbox = <<>> /\ faults = <<>> /\ notices = {}
  /\ cur = CurIdle /\ his = HisIdle
  /\ now = 0 /\ changes = 0

Next == CurStep \/ HisStep \/ ApiStep \/ WorldStep

Spec == Init /\ [][Next]_vars

\* paho keeps calling on_message and the main loop keeps sweeping.
FairSpec == Spec /\ WF_vars(CurStep) /\ WF_vars(HisStep)
-----------------------------------------------------------------------------
Message == [point : Point, value : Value]
CurThread == [pc : CurPc, at : Nat, point : Point \cup {None}, value : Value \cup {None},
              todo : SUBSET CurRule, job : Job]
HisThread == [pc : HisPc, at : Nat, todo : SUBSET HisRule, rule : HisRule \cup {None},
              cands : SUBSET Point, point : Point \cup {None}, bad : BOOLEAN, job : Job]

\* The shape of every variable.
TypeOK ==
  /\ rules \in SUBSET Rule
  /\ hooks \in SUBSET Hook
  /\ reported \in SUBSET Point
  /\ symptom \in SUBSET (HisRule \X Point)
  /\ inbox \in Seq(Message)
  /\ faults \in Seq(Row)
  /\ notices \in SUBSET (Nat \X Event \X Hook)
  /\ cur \in CurThread
  /\ his \in HisThread
  /\ now \in Nat
  /\ changes \in Nat

\* The episodes of a (rule, point) follow one another: a row is opened only
\* after the one before it was resolved, at a time not before that, and is
\* resolved at a time not before its own start.  (faults.py: "atomic and
\* race-safe"; the sweep stamps rows with the time it began.)
EpisodesDisjoint ==
  \A i, j \in DOMAIN faults :
    /\ faults[i].ended # Open => faults[i].started <= faults[i].ended
    /\ (i < j /\ faults[i].rule = faults[j].rule /\ faults[i].point = faults[j].point)
         => faults[i].ended # Open /\ faults[i].ended <= faults[j].started

Firing == {t \in {cur, his} : t.pc = "fire"}

\* fault-detection.mdx, "Fault lifecycle": webhooks fire only on the two
\* transitions.  A notice that is about to go out is for a transition of the
\* table nobody has announced, and the two threads never announce the same one.
AnnouncedOnce ==
  /\ \A t \in Firing : \A h \in Hook : <<t.job.row, t.job.event, h>> \notin notices
  /\ \A t \in Firing : t.job.row \in DOMAIN faults
  /\ (cur.pc = "fire" /\ his.pc = "fire") => cur.job.row # his.job.row

\* Every notice sent says something the table agrees with: the fault exists,
\* the webhook asked for its rule, and it is announced resolved only once it is.
NoticesTruthful ==
  \A n \in notices :
    /\ n[1] \in DOMAIN faults
    /\ faults[n[1]].rule \in Wants[n[3]]
    /\ n[2] = "resolved" => faults[n[1]].ended # Open

\* The history of faults is append-only: a row never changes its subject or its
\* start, and once resolved never reopens or moves its end, whatever is
\* acknowledged, snoozed, crashed or deleted meanwhile.
HistoryFinal ==
  [][/\ Len(faults') >= Len(faults)
     /\ \A i \in DOMAIN faults :
          /\ faults'[i].rule = faults[i].rule /\ faults'[i].point = faults[i].point
          /\ faults'[i].started = faults[i].started
          /\ faults[i].ended # Open => faults'[i].ended = faults[i].ended]_faults

FaultOpen(r, p) == OpenRows(r, p) # {}

(* What the table amounts to: which (rule, point) pairs are in fault and   *)
(* since when each has been as it is.                                      *)
Key == Rule \X Point
Active == {k \in Key : FaultOpen(k[1], k[2])}
Stamps(k) == UNION {{faults[i].started, faults[i].ended} :
                      i \in {j \in DOMAIN faults : faults[j].rule = k[1] /\ faults[j].point = k[2]}}
Latest(times) == CHOOSE t \in times \cup {0} : \A u \in times : u <= t
Since == [k \in Key |-> Latest(Stamps(k))]

Lifecycle == INSTANCE FaultLifecycle WITH active <- Active, since <- Since

\* The table implements the episodes FaultLifecycle describes: per rule and
\* point, open and resolved alternate, never earlier than the last transition.
ImplementsLifecycle == Lifecycle!Spec

\* A His-mode fault whose symptom is gone for good is resolved, and one whose
\* symptom stays is open, as long as the rule and the point's history stay too.
SweepConverges ==
  \A r \in HisRule : \A p \in Applies[r] :
    /\ <>[](r \in rules /\ p \in reported /\ <<r, p>> \notin symptom) => <>[]~FaultOpen(r, p)
    /\ <>[](r \in rules /\ p \in reported /\ <<r, p>> \in symptom) => <>[]FaultOpen(r, p)

\* webhooks.mdx:6: the detector "will POST a JSON payload to it every time a
\* fault opens or resolves": a transition just written is announced to every
\* webhook that asked for its rule, unless the webhook is deleted.
TransitionAnnounced ==
  \A h \in Hook, i \in 1..MaxChanges, e \in Event :
    (\E t \in Firing : t.job.row = i /\ t.job.event = e /\ t.job.rule \in Wants[h])
      ~> (<<i, e, h>> \in notices \/ h \notin hooks)

\* fault-detection.mdx:50: a Cur-mode rule is "evaluated in real time, directly
\* off the MQTT message as it arrives": no reading waits for ever.
ReadingsEvaluated == inbox # <<>> ~> (inbox = <<>> /\ cur.pc = "idle")
=============================================================================
