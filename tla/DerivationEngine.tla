-------------------------- MODULE DerivationEngine --------------------------
(***************************************************************************)
(* derivation_engine.py: the sweep of the main thread and the evaluation a *)
(* reading triggers in the MQTT callback thread, over the derivations in   *)
(* derivations.json, with point_history, the faults table, the target      *)
(* health of derivation_health.py and the graph.                           *)
(*                                                                         *)
(* A step is one statement to the database or the graph, or one run of the *)
(* sandboxed function.  What the function computes is left out; kept is    *)
(* which readings its value was computed from.  The order of a sweep is    *)
(* any that DerivationOrder allows.                                        *)
(***************************************************************************)
EXTENDS Integers, Sequences, FiniteSets, SequencesExt

CONSTANTS
  Formula,    \* ids of kind "formula"
  Rollup,     \* ids of kind "rollup"
  DependsOn,  \* DependsOn[d]: depends_on
  Interval,   \* Interval[d]: interval_seconds
  Targets,    \* Targets[d]: the rows of its select, or the nodes of its tree, children first
  Inputs,     \* Inputs[d][t]: the points of that row, or the leaf points of that node
  Child,      \* Child[d][t]: the nodes under t, none in a formula
  Source,     \* points that are not computed
  Glob,       \* Glob[d]: the sources its applies_to_topic_glob matches
  Window,     \* window_seconds
  Threshold,  \* disable_threshold
  Given,      \* [file, faulted]: what the engine may start on
  Fragile,    \* pcs whose statement may raise
  MaxTime,    \* bound: value of the clock
  MaxEvents,  \* bound: readings, faults, edits and enables
  MaxBreaks   \* bound: statements that raise, and crashes

Deriv == Formula \cup Rollup
Row(d) == {<<d, t>> : t \in ToSet(Targets[d])}
Output == UNION {Row(d) : d \in Deriv}     \* _output_uri
Point == Source \cup Output

ASSUME KindAssumption ==
  IsFiniteSet(Formula \cup Rollup) /\ Formula \cap Rollup = {} /\ Source \cap Output = {}
ASSUME RowAssumption ==
  \A d \in Deriv :
    /\ Targets[d] \in Seq(ToSet(Targets[d]))
    /\ \A t \in ToSet(Targets[d]) : Inputs[d][t] \subseteq Point /\ Child[d][t] \subseteq ToSet(Targets[d])
ASSUME GivenAssumption == Given \subseteq [file : SUBSET Deriv, faulted : SUBSET Point]
ASSUME LimitAssumption ==
  /\ Interval \in [Deriv -> Nat \ {0}] /\ Window \in Nat /\ Threshold \in Nat \ {0}
  /\ Fragile \subseteq {"plan", "check", "gate", "read", "success", "failure", "disable", "write", "attach", "derive"}
  /\ MaxTime \in Nat \ {0} /\ MaxEvents \in Nat /\ MaxBreaks \in Nat

VARIABLES
  file,      \* derivations.json
  hist,      \* hist[p]: the timestamps of the rows of p in point_history
  faulted,   \* points with an open fault
  health,    \* derivation_target_health
  edges,     \* brick:isPointOf and derivedFrom edges: <<output, point>>, <<output, output>> for the former
  next_run,  \* of main(); 0 for no entry
  job,       \* job[w]: what each thread is doing
  clock, events, breaks,
  values,    \* history: [out, at, used, gated] of every row computed
  ran        \* history: the last tick that evaluated each derivation, or had to leave it out

vars == <<file, hist, faulted, health, edges, next_run, job, clock, events, breaks, values, ran>>
world == <<file, faulted, events>>
tables == <<hist, health, edges, values>>

Worker == {"sweep", "message"}
Healthy == [failures |-> 0, disabled |-> FALSE]     \* also what no row means
Pc == {"idle", "plan", "check", "gate", "read", "run", "success", "failure", "disable", "write", "attach",
       "derive", "finish"}

\* at: the evaluation's now.  list: the derivations read from the file.  plan: those
\* to evaluate, the first being under way, with its rows to go.  point: the topic's,
\* then the input that is read.  left: inputs not yet read, then those not yet linked
\* to the output.  used, gated: readings used, inputs with an open fault.  known: nodes
\* with a value in this walk.  ok: whether the function returned a value.  tried and
\* clean are history: the rows the sweep came to or whose derivation a broken statement
\* ended, and the inputs that had no open fault at some moment since the row's start.
Idle == [pc |-> "idle", at |-> 0, list |-> {}, due |-> {}, plan |-> <<>>, rows |-> <<>>, topic |-> {},
         left |-> {}, point |-> {}, used |-> {}, gated |-> {}, known |-> {}, ok |-> FALSE,
         tried |-> {}, clean |-> {}]

D(w) == Head(job[w].plan)
T(w) == Head(job[w].rows)
Out(w) == <<D(w), T(w)>>
Set(w, j) == job' = [job EXCEPT ![w] = j]

\* What is left when missing dependencies and cycles have cascaded (DerivationOrder).
Kept(S) ==
  UNION {K \in SUBSET S : /\ \A d \in K : DependsOn[d] \subseteq K
                          /\ \A C \in SUBSET K : C # {} => \E d \in C : DependsOn[d] \cap C = {}}

Ordered(s) == \A i, j \in DOMAIN s : s[j] \in DependsOn[s[i]] => j < i

\* The rest of the current derivation's rows, or the next derivation.
RowDone(j) ==
  LET rows == Tail(j.rows)
      clear == [j EXCEPT !.used = {}, !.gated = {}, !.clean = {}, !.left = {}, !.point = {}, !.ok = FALSE]
  IN IF rows = <<>> THEN [clear EXCEPT !.pc = "plan", !.rows = <<>>, !.plan = Tail(@), !.known = {}]
     ELSE [clear EXCEPT !.pc = "check", !.rows = rows]

\* The rest of the derivation is given up.
Abandoned(j) == RowDone([j EXCEPT !.rows = <<Head(@)>>])
-----------------------------------------------------------------------------
(* The sweep: one round of main()'s loop.                                  *)

\* Mutant: the graph is pruned to what is due.
PlanDue(list, due) == {s \in SetToSeqs(Kept(due)) : Ordered(s)}

\* Mutant: in the order of the file.
PlanUnordered(list, due) == SetToSeqs(Kept(list) \cap due)

\* evaluate_derivations: the order of the whole list, restricted to only_ids.
Plan(list, due) == {s \in SetToSeqs(Kept(list) \cap due) : Ordered(s)}

StartTick ==
  /\ job["sweep"].pc = "idle" /\ clock < MaxTime /\ clock' = clock + 1
  /\ LET due == {d \in file : clock' >= next_run[d]} IN
       \E plan \in Plan(file, due) :
         /\ Set("sweep", [Idle EXCEPT !.pc = "plan", !.at = clock', !.list = file, !.due = due, !.plan = plan])
         /\ ran' = [d \in Deriv |-> IF d \in due \ Kept(file) THEN clock' ELSE ran[d]]
  /\ UNCHANGED <<world, tables, next_run, breaks>>

\* The sweep is over: every due derivation gets its next_run, those too that were
\* left out of the order.
FinishTick ==
  /\ job["sweep"].pc = "finish"
  /\ next_run' = [d \in Deriv |->
                    IF d \in job["sweep"].due THEN job["sweep"].at + Interval[d] ELSE next_run[d]]
  /\ Set("sweep", Idle)
  /\ UNCHANGED <<world, tables, clock, breaks, ran>>

(* A reading: on_message evaluates the formulas whose glob it matches.     *)

StartMessage(p) ==
  /\ job["message"].pc = "idle"
  /\ \E plan \in SetToSeqs({d \in file \cap Formula : p \in Glob[d]}) :
       Set("message", [Idle EXCEPT !.pc = "plan", !.topic = {p}, !.plan = plan])
  /\ UNCHANGED <<world, tables, next_run, clock, breaks, ran>>

PlanDone(w) ==
  /\ job[w].pc = "plan" /\ job[w].plan = <<>>
  /\ Set(w, IF w = "sweep" THEN [job[w] EXCEPT !.pc = "finish"] ELSE Idle)
  /\ UNCHANGED <<world, tables, next_run, clock, breaks, ran>>
-----------------------------------------------------------------------------
(* One derivation: _evaluate_formula or _walk_rollup_tree.                 *)

\* The rows of the derivation, which a message narrows; a select gives them in any order.
RowsFor(w, d) ==
  IF w = "sweep" THEN {Targets[d]}
  ELSE SetToSeqs({t \in ToSet(Targets[d]) : job[w].topic \subseteq Inputs[d][t]})

Started(j, rows) ==
  IF rows = <<>> THEN [j EXCEPT !.plan = Tail(@)]
  ELSE [j EXCEPT !.pc = "check", !.rows = rows, !.known = {}]

\* The select, or the edges of the tree.  A message takes its own now.
Begin(w) ==
  /\ job[w].pc = "plan" /\ job[w].plan # <<>>
  /\ \E rows \in RowsFor(w, D(w)) :
       IF w = "sweep"
       THEN /\ Set(w, Started(job[w], rows))
            /\ ran' = [ran EXCEPT ![D(w)] = job[w].at]
            /\ UNCHANGED clock
       ELSE /\ clock < MaxTime /\ clock' = clock + 1
            /\ Set(w, Started([job[w] EXCEPT !.at = clock'], rows))
            /\ UNCHANGED ran
  /\ UNCHANGED <<world, tables, next_run, breaks>>

\* Where the inputs that are left lead to.
Gathering(j) == [j EXCEPT !.pc = IF j.left = {} THEN "run" ELSE "gate"]

Check(w) ==
  /\ job[w].pc = "check"
  /\ LET j == [job[w] EXCEPT !.tried = IF w = "sweep" THEN @ \cup {Out(w)} ELSE {}]
         inputs == Inputs[D(w)][T(w)]
         children == Child[D(w)][T(w)] \cap j.known
     IN Set(w, IF health[Out(w)].disabled THEN RowDone(j)
               ELSE Gathering([j EXCEPT !.left = inputs, !.gated = {}, !.clean = inputs \ faulted,
                                        !.used = {<<<<D(w), c>>, j.at>> : c \in children}]))
  /\ UNCHANGED <<world, tables, next_run, clock, breaks, ran>>

\* Mutant: faults are looked up for the output.
GateOutput(w) ==
  /\ job[w].pc = "gate"
  /\ \E p \in job[w].left :
       Set(w, IF Out(w) \in faulted
              THEN Gathering([job[w] EXCEPT !.left = @ \ {p}, !.gated = @ \cup {p}])
              ELSE [job[w] EXCEPT !.pc = "read", !.left = @ \ {p}, !.point = {p}])
  /\ UNCHANGED <<world, tables, next_run, clock, breaks, ran>>

\* _read_input_series: no series from a point with an open fault ...
Gate(w) ==
  /\ job[w].pc = "gate"
  /\ \E p \in job[w].left :
       Set(w, IF p \in faulted
              THEN Gathering([job[w] EXCEPT !.left = @ \ {p}, !.gated = @ \cup {p}])
              ELSE [job[w] EXCEPT !.pc = "read", !.left = @ \ {p}, !.point = {p}])
  /\ UNCHANGED <<world, tables, next_run, clock, breaks, ran>>

\* ... and otherwise the rows of the window, of which the last one is kept.
Read(w) ==
  /\ job[w].pc = "read"
  /\ LET at == job[w].at
         last(p) == {ts \in hist[p] : /\ ts \in at - Window .. at
                                      /\ \A u \in hist[p] : u <= at => u <= ts}
     IN Set(w, Gathering([job[w] EXCEPT
                 !.point = {}, !.used = @ \cup UNION {{<<p, ts>> : ts \in last(p)} : p \in job[w].point}]))
  /\ UNCHANGED <<world, tables, next_run, clock, breaks, ran>>

\* Mutant: an exception leaves the loop over the rows.
RunUnguarded(w) ==
  /\ job[w].pc = "run"
  /\ \/ Set(w, [job[w] EXCEPT !.pc = "success", !.ok = TRUE, !.known = @ \cup {T(w)}])
     \/ Set(w, [job[w] EXCEPT !.pc = "success", !.ok = FALSE])
     \/ Set(w, Abandoned(job[w]))
  /\ UNCHANGED <<world, tables, next_run, clock, breaks, ran>>

\* run_with_timeout: a value, None, or an exception or timeout.
Run(w) ==
  /\ job[w].pc = "run"
  /\ \/ Set(w, [job[w] EXCEPT !.pc = "success", !.ok = TRUE, !.known = @ \cup {T(w)}])
     \/ Set(w, [job[w] EXCEPT !.pc = "success", !.ok = FALSE])
     \/ Set(w, [job[w] EXCEPT !.pc = "failure"])
  /\ UNCHANGED <<world, tables, next_run, clock, breaks, ran>>

\* record_target_failure, first statement: INSERT ... RETURNING consecutive_failures
RecordFailure(w) ==
  /\ job[w].pc = "failure"
  /\ health' = [health EXCEPT ![Out(w)].failures = @ + 1]
  /\ Set(w, IF health[Out(w)].failures + 1 >= Threshold THEN [job[w] EXCEPT !.pc = "disable"]
            ELSE RowDone(job[w]))
  /\ UNCHANGED <<world, hist, edges, values, next_run, clock, breaks, ran>>

\* Second statement: UPDATE ... SET disabled = TRUE
DisableTarget(w) ==
  /\ job[w].pc = "disable"
  /\ health' = [health EXCEPT ![Out(w)].disabled = TRUE]
  /\ Set(w, RowDone(job[w]))
  /\ UNCHANGED <<world, hist, edges, values, next_run, clock, breaks, ran>>

\* record_target_success
RecordSuccess(w) ==
  /\ job[w].pc = "success"
  /\ health' = [health EXCEPT ![Out(w)].failures = 0]
  /\ Set(w, IF job[w].ok THEN [job[w] EXCEPT !.pc = "write"] ELSE RowDone(job[w]))
  /\ UNCHANGED <<world, hist, edges, values, next_run, clock, breaks, ran>>

\* _write_and_attach: write_point_value ...
Write(w) ==
  /\ job[w].pc = "write"
  /\ hist' = [hist EXCEPT ![Out(w)] = @ \cup {job[w].at}]
  /\ values' = values \cup {[out |-> Out(w), at |-> job[w].at, used |-> job[w].used, gated |-> job[w].gated]}
  /\ Set(w, [job[w] EXCEPT !.pc = "attach"])
  /\ UNCHANGED <<world, health, edges, next_run, clock, breaks, ran>>

Used(w) == {u[1] : u \in job[w].used}

Linking(j) == IF j.left = {} THEN RowDone(j) ELSE [j EXCEPT !.pc = "derive"]

\* Mutant: only leaf points are recorded as inputs.
AttachLeaves(w) ==
  /\ job[w].pc = "attach"
  /\ edges' = edges \cup {<<Out(w), Out(w)>>}
  /\ Set(w, Linking([job[w] EXCEPT !.left = Inputs[D(w)][T(w)]]))
  /\ UNCHANGED <<world, hist, health, values, next_run, clock, breaks, ran>>

\* ... then the output's type and its equipment (EntityGraph has the two halves of the
\* link; the type is left out) ...
Attach(w) ==
  /\ job[w].pc = "attach"
  /\ edges' = edges \cup {<<Out(w), Out(w)>>}
  /\ Set(w, Linking([job[w] EXCEPT !.left = Inputs[D(w)][T(w)] \cup Used(w)]))
  /\ UNCHANGED <<world, hist, health, values, next_run, clock, breaks, ran>>

\* ... and a request for each point it was derived from: add_derived_from.
Derive(w) ==
  /\ job[w].pc = "derive"
  /\ \E p \in job[w].left :
       /\ edges' = edges \cup {<<Out(w), p>>}
       /\ Set(w, Linking([job[w] EXCEPT !.left = @ \ {p}]))
  /\ UNCHANGED <<world, hist, health, values, next_run, clock, breaks, ran>>

(* A statement raises.  The reads are inside the try of the row; anything   *)
(* else ends the derivation, in evaluate_derivations' except or             *)
(* on_message's.                                                            *)
Break(w, pcs) == job[w].pc \in Fragile \cap pcs /\ breaks < MaxBreaks /\ breaks' = breaks + 1

Excused(w) == [job[w] EXCEPT !.tried = IF w = "sweep" THEN @ \cup Row(D(w)) ELSE {}]

\* compile_fn, the select or the query for the edges of the tree.
RaiseFirst(w) ==
  /\ Break(w, {"plan"}) /\ job[w].plan # <<>>
  /\ Set(w, Started(Excused(w), <<>>))
  /\ ran' = IF w = "sweep" THEN [ran EXCEPT ![D(w)] = job[w].at] ELSE ran
  /\ UNCHANGED <<world, tables, next_run, clock>>

RaiseReading(w) ==
  /\ Break(w, {"gate", "read"})
  /\ Set(w, [job[w] EXCEPT !.pc = "failure", !.point = {}, !.left = {}])
  /\ UNCHANGED <<world, tables, next_run, clock, ran>>

Raise(w) ==
  /\ Break(w, Pc \ {"plan", "gate", "read"})
  /\ Set(w, Abandoned(Excused(w)))
  /\ UNCHANGED <<world, tables, next_run, clock, ran>>

\* The process dies and is restarted.
Crash ==
  /\ breaks < MaxBreaks /\ breaks' = breaks + 1
  /\ job' = [w \in Worker |-> Idle]
  /\ next_run' = [d \in Deriv |-> 0]
  /\ UNCHANGED <<world, tables, clock, ran>>
-----------------------------------------------------------------------------
(* The rest of the system.                                                 *)

Event == events < MaxEvents /\ events' = events + 1
engine == <<edges, next_run, clock, breaks, values, ran>>

\* A reading is stored, maybe late.
Reading(p) ==
  /\ Event
  /\ \E ts \in 1 .. clock : hist' = [hist EXCEPT ![p] = @ \cup {ts}]
  /\ UNCHANGED <<engine, file, faulted, health, job>>

\* The detector opens or closes a fault of the point.
FaultOpens(p) ==
  /\ Event /\ p \notin faulted /\ faulted' = faulted \cup {p}
  /\ UNCHANGED <<engine, file, hist, health, job>>
FaultCloses(p) ==
  /\ Event /\ p \in faulted /\ faulted' = faulted \ {p}
  /\ job' = [w \in Worker |-> [job[w] EXCEPT !.clean = @ \cup {p}]]
  /\ UNCHANGED <<engine, file, hist, health>>

\* derivation_api: _create_derivation, _delete, _enable_target
CreateDerivation(d) ==
  /\ Event /\ d \notin file /\ file' = file \cup {d}
  /\ UNCHANGED <<engine, hist, faulted, health, job>>
DeleteDerivation(d) ==
  /\ Event /\ d \in file /\ file' = file \ {d}
  /\ UNCHANGED <<engine, hist, faulted, health, job>>
EnableTarget(o) ==
  /\ Event /\ health[o] # Healthy
  /\ health' = [health EXCEPT ![o] = Healthy]
  /\ UNCHANGED <<engine, file, hist, faulted, job>>
-----------------------------------------------------------------------------
\* The engine starts on what was configured and on the faults that are open.
Init ==
  /\ clock = 1
  /\ \E g \in Given : file = g.file /\ faulted = g.faulted
  /\ hist = [p \in Point |-> IF p \in Source THEN {1} ELSE {}]
  /\ health = [o \in Output |-> Healthy]
  /\ edges = {} /\ values = {}
  /\ next_run = [d \in Deriv |-> 0] /\ ran = [d \in Deriv |-> 0]
  /\ job = [w \in Worker |-> Idle]
  /\ events = 0 /\ breaks = 0

Work(w) ==
  \/ PlanDone(w) \/ Begin(w) \/ Check(w) \/ Gate(w) \/ Read(w) \/ Run(w)
  \/ RecordFailure(w) \/ DisableTarget(w) \/ RecordSuccess(w) \/ Write(w) \/ Attach(w) \/ Derive(w)
  \/ RaiseFirst(w) \/ RaiseReading(w) \/ Raise(w)

World ==
  \/ \E p \in Source : Reading(p)
  \/ \E p \in Point : FaultOpens(p) \/ FaultCloses(p)
  \/ \E d \in Deriv : CreateDerivation(d) \/ DeleteDerivation(d)
  \/ \E o \in Output : EnableTarget(o)

Next ==
  \/ StartTick \/ FinishTick
  \/ \E p \in Source : StartMessage(p)
  \/ \E w \in Worker : Work(w)
  \/ Crash \/ World

Spec == Init /\ [][Next]_vars
-----------------------------------------------------------------------------
Time == 0 .. MaxTime
Jobs == [pc : Pc, at : Time, list : SUBSET Deriv, due : SUBSET Deriv, plan : Seq(Deriv),
         rows : Seq({o[2] : o \in Output}), topic : SUBSET Source, left : SUBSET Point, point : SUBSET Point,
         used : SUBSET (Point \X Time), gated : SUBSET Point, known : SUBSET {o[2] : o \in Output},
         ok : BOOLEAN, tried : SUBSET Output, clean : SUBSET Point]

\* The shape of every variable.
TypeOK ==
  /\ file \subseteq Deriv /\ faulted \subseteq Point
  /\ hist \in [Point -> SUBSET Time]
  /\ health \in [Output -> [failures : Nat, disabled : BOOLEAN]]
  /\ edges \subseteq Output \X Point
  /\ next_run \in [Deriv -> Nat] /\ ran \in [Deriv -> Time]
  /\ job \in [Worker -> Jobs]
  /\ clock \in Time /\ events \in 0 .. MaxEvents /\ breaks \in 0 .. MaxBreaks
  /\ values \subseteq [out : Output, at : Time, used : SUBSET (Point \X Time), gated : SUBSET Point]

\* A target that keeps failing is not evaluated for long: unless a statement breaks or
\* the process dies between the count and the disable, the two threads together count
\* at most one failure too many, and two more each time one does.
OverrunBounded == \A o \in Output : health[o].failures <= Threshold + 1 + 2 * breaks

\* derivation.mdx:30, depends_on: what "must be evaluated first in the same sweep,
\* for chaining one derivation's output into another's input".  A value never
\* misses, or takes an older row for, what its dependency computed in that sweep.
ChainFresh ==
  \A v, u \in values :
    (u.out \in Inputs[v.out[1]][v.out[2]] /\ u.out[1] \in DependsOn[v.out[1]] \ {v.out[1]} /\ u.at = v.at)
      => <<u.out, v.at>> \in v.used \/ u.out \in v.gated

\* Lineage: whatever a value was computed from is a row of the history, the value
\* a rollup takes from memory for a node's child included; and no output without
\* its place in the graph: unless a statement broke, a computed row's point is
\* attached and derived from all it was computed from, but for the moment between
\* the write and the attach.
LineageRecorded ==
  /\ \A v \in values : \A u \in v.used : u[2] \in hist[u[1]]
  /\ breaks = 0 =>
      \A v \in values :
        \/ \A p \in {v.out} \cup {u[1] : u \in v.used} : <<v.out, p>> \in edges
        \/ \E w \in Worker : job[w].pc \in {"attach", "derive"} /\ Out(w) = v.out

\* _read_input_series, "treat as absent this pass": a point with a fault open all
\* the time since the row came up is not among what its value is computed from.
GateRespected ==
  \A w \in Worker : job[w].pc \in {"gate", "read", "run", "success", "write"} =>
    \A u \in job[w].used : u[1] \in job[w].clean \/ u[1] \in {D(w)} \X Child[D(w)][T(w)]

Due == Kept(job["sweep"].list) \cap job["sweep"].due

\* derivation.mdx, "Failure isolation": whatever the functions of other rows do, the
\* statements of other derivations and the other thread, a sweep comes to every row of
\* every due derivation.
SweepComplete ==
  job["sweep"].pc = "finish" => \A d \in Due : Row(d) \subseteq job["sweep"].tried

\* evaluate_derivations: a dependency not due "must not be pruned".  At the end of a
\* sweep no derivation that can be evaluated is behind its interval, which runs from
\* its last evaluation, or from when it was due and something it depends on missing.
OnSchedule ==
  job["sweep"].pc = "finish" =>
    \A d \in Kept(job["sweep"].list) : job["sweep"].at < ran[d] + Interval[d]
=============================================================================
