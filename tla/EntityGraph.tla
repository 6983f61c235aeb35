----------------------------- MODULE EntityGraph -----------------------------
(* The entity graph (ingest.py, mapping.py) as its four kinds of client     *)
(* write it: the threads of the ingest API, the MQTT listener, the Haystack *)
(* puller and the autotag sweep. A store call is one step, any of which may *)
(* fail, and a process may end between two of them.                         *)
EXTENDS Naturals, FiniteSets, Sequences

CONSTANTS
  Point, Equip,
  Rules,        \* marker sets of the rule file for points, in file order
  EquipRules,   \* the same for equipment
  Payload,      \* tag payloads: [on, tags, ref]
  Grouping,     \* /equip/tags messages: [on, tags, points]
  Pair,         \* links posted: merges and parts
  Worker, Kind, \* threads and the process each belongs to
  MaxAttempts,  \* autotag._MAX_ATTEMPTS
  MaxJobs, MaxFailures   \* bounds

Entity == Point \cup Equip
Process == {"api", "listener", "puller", "autotag"}
NoRef == "no ref"

ASSUME SizeAssumption == IsFiniteSet(Entity) /\ Point \cap Equip = {}
ASSUME KindAssumption == Kind \in [Worker -> Process]
\* Payloads name entities, rules are a list: a set of markers each.
ASSUME InputAssumption ==
  /\ \A q \in Payload : q.on \in Entity /\ q.ref \in Equip \cup {NoRef} /\ IsFiniteSet(q.tags)
  /\ \A g \in Grouping : g.on \in Equip /\ g.points \subseteq Point /\ IsFiniteSet(g.tags)
  /\ Pair \subseteq Entity \X {"sameAs", "hasPart"} \X Entity
  /\ NoRef \notin Entity /\ MaxAttempts \in Nat /\ MaxJobs \in Nat /\ MaxFailures \in Nat
ASSUME RuleAssumption ==
  \A rules \in {Rules, EquipRules} :
    DOMAIN rules = 1 .. Len(rules) /\ \A i \in DOMAIN rules : IsFiniteSet(rules[i])

VARIABLES
  tags,      \* haystack:hasTag
  refs,      \* haystack:equipRef literals of a point
  types,     \* rdf:type, the classes that mapping.py asserts
  declared,  \* PROJ classes with their subClassOf and definition
  raw,       \* points with their RawPoint and sourceTopic triples
  hist,      \* points with a value in point_history
  edges,     \* triples <<subject, predicate, object>> between entities
  known,     \* ingest._known_points of each process
  job,       \* what each thread is doing
  settled,   \* observed: read for classification since last tagged, unbroken
  jobs, failures

graph == <<tags, refs, types, declared, edges>>
history == <<raw, hist, known>>
vars == <<graph, history, job, settled, jobs, failures>>

Idle == [pc |-> "idle", on |-> NoRef, tags |-> {}, ref |-> NoRef, then |-> "idle",
         links |-> {}, half |-> {}, old |-> {}, seen |-> {}, there |-> {}, alone |-> FALSE,
         todo |-> {}, tries |-> 0]

Working(e) == \E w \in Worker : job[w].pc # "idle" /\ job[w].on = e
-----------------------------------------------------------------------------
(* Classification: mapping.classify_point.                                  *)

RulesOf(e) == IF e \in Point THEN Rules ELSE EquipRules

\* max() keeps the first of equals.
FirstBest(S, score) ==
  CHOOSE i \in S : \A j \in S : score[j] < score[i] \/ (score[j] = score[i] /\ i <= j)

\* Mutant: any tag in common is a match.
DirectOverlap(T, rules) == {i \in DOMAIN rules : rules[i] \cap T # {}}

Direct(T, rules) == {i \in DOMAIN rules : rules[i] \subseteq T}
Overlapping(T, rules) == {i \in DOMAIN rules : rules[i] \cap T # {}}

Miss == [ns |-> "td", rule |-> 0, extra |-> {}]
Guessed == [ns |-> "brick", rule |-> 0, extra |-> {}]

Classify(T, rules) ==
  LET direct == Direct(T, rules)
      overlaps == Overlapping(T, rules)
      best == FirstBest(overlaps, [i \in overlaps |-> Cardinality(rules[i] \cap T)])
  IN CASE direct # {} ->
            [ns |-> "brick", extra |-> {},
             rule |-> FirstBest(direct, [i \in direct |-> Cardinality(rules[i])])]
       [] direct = {} /\ overlaps # {} ->
            [ns |-> "proj", rule |-> best, extra |-> T \ rules[best]]
       [] OTHER -> Miss

Opposite == [p \in {"hasPoint", "isPointOf", "sameAs", "hasPart", "isPartOf"} |->
              CASE p = "hasPoint" -> "isPointOf" [] p = "isPointOf" -> "hasPoint"
                [] p = "hasPart" -> "isPartOf" [] p = "isPartOf" -> "hasPart" [] OTHER -> p]
Back(t) == <<t[3], Opposite[t[2]], t[1]>>

Exists(e) == tags[e] # {} \/ types[e] # {} \/ \E t \in edges : t[1] = e

\* e owl:sameAs* x: x is in every set that has e and what is merged with it.
Same(e) ==
  {x \in Entity : \A S \in SUBSET Entity :
     (e \in S /\ \A t \in edges : t[1] \in S /\ t[2] = "sameAs" => t[3] \in S) => x \in S}

\* Mutant: the points under this name only.
PointsUnderName(e) == {p \in Point : <<e, "hasPoint", p>> \in edges}

PointsOf(e) == {p \in Point : \E x \in Same(e) : <<x, "hasPoint", p>> \in edges}

\* autotag.find_unclassified
Unclassified == {e \in Entity : tags[e] # {} /\ \A t \in types[e] : t.ns # "brick"}
-----------------------------------------------------------------------------
(* Steps. A step of w on an entity ends the solitude of the others on it.   *)

Moves(w, j) ==
  job' = [v \in Worker |->
            CASE v = w -> j
              [] v # w /\ job[v].on \in {job[w].on, j.on} -> [job[v] EXCEPT !.alone = FALSE]
              [] OTHER -> job[v]]

\* What follows a finished entity: the next one of the sweep, or nothing.
After(j) ==
  IF j.todo = {} THEN {Idle}
  ELSE {[Idle EXCEPT !.pc = "read", !.on = e, !.todo = j.todo \ {e}, !.tries = 1] : e \in j.todo}

Goes(w, pc) == Moves(w, [job[w] EXCEPT !.pc = pc])
Finishes(w) == \E j \in After(job[w]) : Moves(w, j)

\* The equipment a point names, with its new tags, that has come already.
Come(j) == {e \in Equip : Exists(e) /\ j.on \in Point /\ (e = j.ref \/ e \in refs[j.on])}

\* A request, message or tick begins.
Start(w, j) ==
  /\ job[w].pc = "idle" /\ jobs < MaxJobs
  /\ jobs' = jobs + 1 /\ Moves(w, [j EXCEPT !.there = Come(j)])
  /\ UNCHANGED <<graph, history, settled, failures>>

\* POST /tags, a <topic>/tags message, a row of pull_points: what comes after
\* the link differs.
StartTags(w, q) ==
  /\ Kind[w] # "autotag" /\ q.on \in Point
  /\ Start(w, [Idle EXCEPT !.pc = "tag", !.on = q.on, !.tags = q.tags, !.ref = q.ref,
                 !.then = CASE Kind[w] = "api" -> "types" [] Kind[w] = "puller" -> "read"
                            [] OTHER -> "done"])

\* A message of /equip/<ref>/tags, or a row of pull_equip.
StartEquip(w, q) ==
  /\ Kind[w] \in {"listener", "puller"} /\ q.on \in Equip
  /\ Start(w, [Idle EXCEPT !.pc = "tag", !.on = q.on, !.tags = q.tags,
                 !.then = IF Kind[w] = "puller" THEN "read" ELSE "done"])

\* A <topic_prefix>/equip/tags message, which names the points.
StartGrouping(w, g) ==
  /\ Kind[w] = "listener"
  /\ Start(w, [Idle EXCEPT !.pc = "tag", !.on = g.on, !.tags = g.tags, !.then = "done",
                 !.links = {<<g.on, "hasPoint", p>> : p \in g.points}])

\* POST /equip/merge and POST /part
StartPair(w, t) ==
  /\ Kind[w] = "api"
  /\ Start(w, [Idle EXCEPT !.pc = "link", !.on = t[1], !.links = {t}, !.then = "done"])

\* A reading, by any of the ways there are.
StartReading(w, p) ==
  /\ Kind[w] # "autotag"
  /\ Start(w, [Idle EXCEPT !.pc = "identify", !.on = p])

\* autotag.run
StartSweep(w) ==
  /\ Kind[w] = "autotag" /\ Unclassified # {}
  /\ \E j \in After([Idle EXCEPT !.todo = Unclassified]) : Start(w, j)

\* ingest._write_tags: additive. A payload that says nothing new unsettles nothing.
AddTags(w) ==
  LET j == job[w] IN
  /\ j.pc = "tag"
  /\ tags' = [tags EXCEPT ![j.on] = @ \cup j.tags]
  /\ refs' = [e \in Point |-> IF e = j.on /\ j.ref # NoRef THEN refs[e] \cup {j.ref} ELSE refs[e]]
  /\ settled' = IF j.tags \subseteq tags[j.on] THEN settled ELSE settled \ {j.on}
  /\ Goes(w, IF j.on \in Point THEN "ref" ELSE "link")
  /\ UNCHANGED <<types, declared, edges, history, jobs, failures>>

\* link_equip_ref: whichever literal comes first, if any.
ReadRef(w) ==
  LET j == job[w] IN
  /\ j.pc = "ref"
  /\ \/ refs[j.on] = {} /\ Goes(w, "link")
     \/ \E r \in refs[j.on] : Moves(w, [j EXCEPT !.pc = "find", !.ref = r])
  /\ UNCHANGED <<graph, history, settled, jobs, failures>>

\* Mutant: only equipment that has a class is linked to.
FindClassifiedEquip(w) ==
  LET j == job[w] IN
  /\ j.pc = "find"
  /\ Moves(w, [j EXCEPT !.pc = "link",
                 !.links = IF types[j.ref] # {} THEN {<<j.ref, "hasPoint", j.on>>} ELSE {}])
  /\ UNCHANGED <<graph, history, settled, jobs, failures>>

\* No link before the equipment has come.
FindEquip(w) ==
  LET j == job[w] IN
  /\ j.pc = "find"
  /\ Moves(w, [j EXCEPT !.pc = "link",
                 !.links = IF Exists(j.ref) THEN {<<j.ref, "hasPoint", j.on>>} ELSE {}])
  /\ UNCHANGED <<graph, history, settled, jobs, failures>>

\* Mutant: isPointOf before hasPoint.
LinkBackFirst(w) ==
  LET j == job[w] IN
  /\ j.pc = "link"
  /\ \E t \in j.links :
       /\ edges' = edges \cup {Back(t)}
       /\ Moves(w, [j EXCEPT !.pc = "inverse", !.links = @ \ {t}, !.half = {Back(t)}])
  /\ UNCHANGED <<tags, refs, types, declared, history, settled, jobs, failures>>

\* The first of the two writes of link_point_to_equip, merge_equip, link_part_of.
Link(w) ==
  LET j == job[w] IN
  /\ j.pc = "link"
  /\ \E t \in j.links :
       /\ edges' = edges \cup {t}
       /\ Moves(w, [j EXCEPT !.pc = "inverse", !.links = @ \ {t}, !.half = {t}])
  /\ UNCHANGED <<tags, refs, types, declared, history, settled, jobs, failures>>

\* The second.
LinkBack(w) ==
  LET j == job[w] IN
  /\ j.pc = "inverse"
  /\ edges' = edges \cup {Back(t) : t \in j.half}
  /\ Moves(w, [j EXCEPT !.pc = "link", !.half = {}])
  /\ UNCHANGED <<tags, refs, types, declared, history, settled, jobs, failures>>

\* All linked: on to what the caller does next.
Linked(w) ==
  /\ job[w].pc = "link" /\ job[w].links = {}
  /\ IF job[w].then = "done" THEN Finishes(w) ELSE Goes(w, job[w].then)
  /\ UNCHANGED <<graph, history, settled, jobs, failures>>
-----------------------------------------------------------------------------
(* mapping.reclassify and classify_point_with_fallback.                     *)

\* Mutant: fallback classes are left behind.
ReadBrickTypes(w) ==
  LET j == job[w] IN
  /\ j.pc = "types"
  /\ Moves(w, [j EXCEPT !.pc = "remove", !.old = {t \in types[j.on] : t.ns # "proj"}, !.alone = TRUE])
  /\ UNCHANGED <<graph, history, settled, jobs, failures>>

\* What is there to be replaced.
ReadTypes(w) ==
  LET j == job[w] IN
  /\ j.pc = "types"
  /\ Moves(w, [j EXCEPT !.pc = "remove", !.old = types[j.on], !.alone = TRUE])
  /\ UNCHANGED <<graph, history, settled, jobs, failures>>

\* One request per type.
RemoveType(w) ==
  LET j == job[w] IN
  /\ j.pc = "remove"
  /\ \/ \E t \in j.old :
          /\ types' = [types EXCEPT ![j.on] = @ \ {t}]
          /\ Moves(w, [j EXCEPT !.old = @ \ {t}])
     \/ j.old = {} /\ Goes(w, "read") /\ UNCHANGED types
  /\ UNCHANGED <<tags, refs, declared, edges, history, settled, jobs, failures>>

\* Mutant: the tags of the request, for those of the store.
ReadSentTags(w) ==
  LET j == job[w] IN
  /\ j.pc = "read"
  /\ Moves(w, [j EXCEPT !.pc = "class", !.seen = IF j.tags = {} THEN tags[j.on] ELSE j.tags])
  /\ settled' = settled \cup {j.on}
  /\ UNCHANGED <<graph, history, jobs, failures>>

ReadTags(w) ==
  LET j == job[w] IN
  /\ j.pc = "read"
  /\ Moves(w, [j EXCEPT !.pc = "class", !.seen = tags[j.on]])
  /\ settled' = settled \cup {j.on}
  /\ UNCHANGED <<graph, history, jobs, failures>>

\* The outcome is asserted; a sweep asks the model about all but a direct one.
AddClass(w) ==
  LET j == job[w]
      c == Classify(j.seen, RulesOf(j.on))
  IN
  /\ j.pc = "class"
  /\ types' = [types EXCEPT ![j.on] = @ \cup {c}]
  /\ CASE c.ns = "proj" -> Goes(w, "declare")
       [] c.ns = "td" /\ Kind[w] = "autotag" -> Goes(w, "ask")
       [] OTHER -> Finishes(w)
  /\ UNCHANGED <<tags, refs, declared, edges, history, settled, jobs, failures>>

\* subClassOf and definition of a PROJ class.
Declare(w) ==
  LET j == job[w] IN
  /\ j.pc = "declare"
  /\ declared' = declared \cup {Classify(j.seen, RulesOf(j.on))}
  /\ IF Kind[w] = "autotag" THEN Goes(w, "ask") ELSE Finishes(w)
  /\ UNCHANGED <<tags, refs, types, edges, history, settled, jobs, failures>>

\* The model is sure enough, or not.
AskModel(w) ==
  /\ job[w].pc = "ask"
  /\ Goes(w, "guess") \/ Finishes(w)
  /\ UNCHANGED <<graph, history, settled, jobs, failures>>

\* Its answer is added to what there is.
AddGuess(w) ==
  LET j == job[w] IN
  /\ j.pc = "guess"
  /\ types' = [types EXCEPT ![j.on] = @ \cup {Guessed}]
  /\ Finishes(w)
  /\ UNCHANGED <<tags, refs, declared, edges, history, settled, jobs, failures>>
-----------------------------------------------------------------------------
(* ingest.ingest_reading, failures, the end of a process.                   *)

\* The identity triples, once for each process.
Identify(w) ==
  LET j == job[w] IN
  /\ j.pc = "identify"
  /\ raw' = raw \cup ({j.on} \ known[Kind[w]])
  /\ known' = [known EXCEPT ![Kind[w]] = @ \cup {j.on}]
  /\ Goes(w, "value")
  /\ UNCHANGED <<graph, hist, settled, jobs, failures>>

WriteValue(w) ==
  /\ job[w].pc = "value"
  /\ hist' = hist \cup {job[w].on} /\ Finishes(w)
  /\ UNCHANGED <<graph, raw, known, settled, jobs, failures>>

\* A request to the store fails: the handler or tick ends there; the sweep
\* classifies the entity anew, a few times, then leaves it. In the listener the
\* exception ends the process: Restart.
Fail(w) ==
  LET j == job[w] IN
  /\ j.pc # "idle" /\ Kind[w] # "listener"
  /\ failures < MaxFailures /\ failures' = failures + 1
  /\ \/ Kind[w] = "autotag" /\ j.tries < MaxAttempts
          /\ Moves(w, [Idle EXCEPT !.pc = "read", !.on = j.on, !.todo = j.todo, !.tries = j.tries + 1])
     \/ Kind[w] = "autotag" /\ j.tries = MaxAttempts /\ Finishes(w)
     \/ Kind[w] \in {"api", "puller"} /\ Moves(w, Idle)
  /\ settled' = settled \ {j.on}
  /\ UNCHANGED <<graph, history, jobs>>

\* A process ends with its threads and starts again.
Restart(k) ==
  /\ failures < MaxFailures /\ failures' = failures + 1
  /\ \E w \in Worker : Kind[w] = k
  /\ job' = [w \in Worker |-> IF Kind[w] = k THEN Idle ELSE job[w]]
  /\ known' = [known EXCEPT ![k] = {}]
  /\ settled' = settled \ {job[w].on : w \in {x \in Worker : Kind[x] = k}}
  /\ UNCHANGED <<graph, raw, hist, jobs>>
-----------------------------------------------------------------------------
Init ==
  /\ tags = [e \in Entity |-> {}] /\ refs = [p \in Point |-> {}]
  /\ types = [e \in Entity |-> {}] /\ declared = {} /\ edges = {}
  /\ raw = {} /\ hist = {} /\ known = [k \in Process |-> {}]
  /\ job = [w \in Worker |-> Idle]
  /\ settled = {} /\ jobs = 0 /\ failures = 0

Begin(w) ==
  \/ \E q \in Payload : StartTags(w, q) \/ StartEquip(w, q)
  \/ \E g \in Grouping : StartGrouping(w, g)
  \/ \E t \in Pair : StartPair(w, t)
  \/ \E p \in Point : StartReading(w, p)
  \/ StartSweep(w)

Work(w) ==
  \/ AddTags(w) \/ ReadRef(w) \/ FindEquip(w) \/ Link(w) \/ LinkBack(w) \/ Linked(w)
  \/ ReadTypes(w) \/ RemoveType(w) \/ ReadTags(w) \/ AddClass(w) \/ Declare(w)
  \/ AskModel(w) \/ AddGuess(w) \/ Identify(w) \/ WriteValue(w)

Next ==
  \/ \E w \in Worker : Begin(w) \/ Work(w) \/ Fail(w)
  \/ \E k \in Process : Restart(k)

Spec == Init /\ [][Next]_vars
-----------------------------------------------------------------------------
Marker == UNION {q.tags : q \in Payload \cup Grouping}
Class == [ns : {"brick", "proj", "td"}, rule : Nat, extra : SUBSET Marker]

Forward == Entity \X {"hasPoint", "sameAs", "hasPart"} \X Entity    \* what is written first
Step == {"tag", "ref", "find", "link", "inverse", "types", "remove", "read",
         "class", "declare", "ask", "guess", "identify", "value"}
Job ==
  [pc : Step \cup {"idle"}, on : Entity \cup {NoRef}, tags : SUBSET Marker, ref : Equip \cup {NoRef},
   then : {"idle", "done", "types", "read"}, links : SUBSET Forward, half : SUBSET Forward,
   old : SUBSET Class, seen : SUBSET Marker, there : SUBSET Equip, alone : BOOLEAN,
   todo : SUBSET Entity, tries : Nat]

\* The shape of every variable.
TypeOK ==
  /\ tags \in [Entity -> SUBSET Marker] /\ refs \in [Point -> SUBSET Equip]
  /\ types \in [Entity -> SUBSET Class] /\ declared \subseteq {c \in Class : c.ns = "proj"}
  /\ edges \subseteq Entity \X (DOMAIN Opposite) \X Entity
  /\ raw \subseteq Point /\ hist \subseteq Point /\ known \in [Process -> SUBSET Point]
  /\ job \in [Worker -> Job] /\ settled \subseteq Entity
  /\ jobs \in 0 .. MaxJobs /\ failures \in 0 .. MaxFailures

\* reclassify deletes and asserts in separate requests, and others tag, delete
\* and assert meanwhile. Once nobody works on an entity, the class that all its
\* tags call for is there, if somebody looked at them after the last was added.
ClassKept ==
  \A e \in settled : ~Working(e) => Classify(tags[e], RulesOf(e)) \in types[e]

\* A class a rule gives is never there without all the tags of the rule,
\* whatever was raced or broken off (mapping.py:43, the subset match).
ClassJustified ==
  \A e \in Entity : \A t \in types[e] :
    t.ns = "brick" /\ t # Guessed => RulesOf(e)[t.rule] \subseteq tags[e]

\* tests/test_tags_route.py:115: a reclassify that no other step on the entity
\* came between leaves the one class.
LoneReclassifyReplaces ==
  [][\A w \in Worker :
       job[w].pc = "class" /\ job[w].alone /\ job'[w].pc # "class" /\ failures' = failures
         => Cardinality(types'[job[w].on]) = 1]_vars

\* Where two writes belong together, what readers start from is there first,
\* whatever is broken off between them: hasPoint before isPointOf (readers go
\* from equipment to points), and a point's identity, which a process asserts
\* only once (ingest.py:46), before its first value.
ReadSideFirst ==
  /\ \A t \in edges : t[2] \in {"isPointOf", "isPartOf"} => Back(t) \in edges
  /\ hist \subseteq raw

\* points_of_equip, ingest.py:193: both names of merged equipment give the same
\* points, once the merge is complete.
MergedSeeAll ==
  failures = 0 /\ (\A w \in Worker : job[w].pc # "inverse") =>
    \A e \in Equip : \A x \in Same(e) : PointsOf(x) = PointsOf(e)

\* mqtt_listener.py:116: a point tagged after its equipment has come gets
\* linked, whatever else goes on; without a second equipRef, to it.
RetaggedIsLinked ==
  [][\A w \in Worker :
       LET j == job[w] IN
       /\ j.pc = "link" /\ j.links = {} /\ job'[w].pc # "link" /\ failures' = failures
       /\ j.on \in Point /\ j.tags # {}
       => \A r \in j.there : refs[j.on] = {r} => <<r, "hasPoint", j.on>> \in edges]_vars
=============================================================================
