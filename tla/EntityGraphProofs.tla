------------------------- MODULE EntityGraphProofs -------------------------
(***************************************************************************)
(* Proofs about EntityGraph for any entities, rules, payloads and threads, *)
(* any interleaving of their store calls, failures and restarts.           *)
(***************************************************************************)
EXTENDS EntityGraph, FiniteSetTheorems, WellFoundedInduction, TLAPS

-----------------------------------------------------------------------------
(* Classification.                                                         *)

LEMMA LeastOf ==
  ASSUME NEW S \in SUBSET Nat, S # {}
  PROVE  \E m \in S : \A n \in S : m <= n
<1>1. PICK m \in S : \A n \in S : ~ (<<n, m>> \in OpToRel(<, Nat))
  BY WFMin, NatLessThanWellFounded, Zenon
<1>2. \A n \in S : ~ (n < m)
  BY <1>1 DEF OpToRel
<1>3. QED
  BY <1>2

\* max() over a non-empty list finds one of its members.
LEMMA BestExists ==
  ASSUME NEW S \in SUBSET Nat, S # {}, NEW B \in Nat, NEW score \in [S -> 0..B]
  PROVE  FirstBest(S, score) \in S
<1> DEFINE Short == {B - score[i] : i \in S}
<1>1. Short \in SUBSET Nat /\ Short # {}
  <2>1. \A i \in S : B - score[i] \in Nat
    OBVIOUS
  <2>2. QED
    BY <2>1
<1>2. PICK m \in Short : \A n \in Short : m <= n
  BY <1>1, LeastOf
<1> DEFINE Top == {i \in S : B - score[i] = m}
<1>3. Top \in SUBSET Nat /\ Top # {}
  OBVIOUS
<1>4. PICK i \in Top : \A j \in Top : i <= j
  BY <1>3, LeastOf
<1>5. \A j \in S : score[j] < score[i] \/ (score[j] = score[i] /\ i <= j)
  <2> TAKE j \in S
  <2>1. m <= B - score[j] /\ m = B - score[i]
    BY <1>2
  <2>2. CASE j \in Top
    BY <2>1, <2>2, <1>4
  <2>3. CASE j \notin Top
    BY <2>1, <2>3
  <2>4. QED
    BY <2>2, <2>3
<1>6. \E k \in S : \A j \in S : score[j] < score[k] \/ (score[j] = score[k] /\ k <= j)
  BY <1>5
<1>7. QED
  BY <1>6, Zenon DEF FirstBest

\* What a classification gives; a class of Brick only to what has all the markers of its rule.
LEMMA ClassifyType ==
  ASSUME NEW e \in Entity, NEW S \in SUBSET Marker, IsFiniteSet(S)
  PROVE  /\ Classify(S, RulesOf(e)) \in Class
         /\ Classify(S, RulesOf(e)).ns = "brick" => RulesOf(e)[Classify(S, RulesOf(e)).rule] \subseteq S
<1> DEFINE rules == RulesOf(e)
           direct == Direct(S, rules)
           overlaps == Overlapping(S, rules)
           size == [i \in direct |-> Cardinality(rules[i])]
           common == [i \in overlaps |-> Cardinality(rules[i] \cap S)]
<1>1. DOMAIN rules \subseteq Nat /\ \A i \in DOMAIN rules : IsFiniteSet(rules[i])
  BY RuleAssumption DEF RulesOf
<1>2. Cardinality(S) \in Nat
  BY FS_CardinalityType
<1>3. size \in [direct -> 0..Cardinality(S)]
  <2>1. \A i \in direct : Cardinality(rules[i]) \in 0..Cardinality(S)
    <3> TAKE i \in direct
    <3>1. rules[i] \in SUBSET S /\ IsFiniteSet(rules[i])
      BY <1>1 DEF Direct
    <3> HIDE DEF rules
    <3>2. QED
      BY <3>1, <1>2, FS_Subset, FS_CardinalityType
  <2>2. QED
    BY <2>1
<1>4. common \in [overlaps -> 0..Cardinality(S)]
  <2>1. \A i \in overlaps : Cardinality(rules[i] \cap S) \in 0..Cardinality(S)
    <3> TAKE i \in overlaps
    <3>1. rules[i] \cap S \in SUBSET S
      OBVIOUS
    <3>2. Cardinality(rules[i] \cap S) <= Cardinality(S) /\ IsFiniteSet(rules[i] \cap S)
      BY <3>1, FS_Subset
    <3>3. QED
      BY <3>2, <1>2, FS_CardinalityType
  <2>2. QED
    BY <2>1
<1>5. direct \in SUBSET Nat /\ overlaps \in SUBSET Nat
  BY <1>1 DEF Direct, Overlapping
<1>6. direct # {} => FirstBest(direct, size) \in direct
  <2> HIDE DEF direct, size
  <2> QED
    BY <1>2, <1>3, <1>5, BestExists
<1>7. overlaps # {} => FirstBest(overlaps, common) \in overlaps
  <2> HIDE DEF overlaps, common
  <2> QED
    BY <1>2, <1>4, <1>5, BestExists
<1>8. CASE direct # {}
  <2>1. Classify(S, rules) = [ns |-> "brick", extra |-> {}, rule |-> FirstBest(direct, size)]
    BY <1>8 DEF Classify
  <2> HIDE DEF size
  <2>2. rules[FirstBest(direct, size)] \subseteq S
    BY <1>6, <1>8 DEF Direct
  <2>3. FirstBest(direct, size) \in Nat
    BY <1>5, <1>6, <1>8
  <2> HIDE DEF direct, rules
  <2>4. Classify(S, rules) \in Class /\ rules[Classify(S, rules).rule] \subseteq S
    BY <2>1, <2>2, <2>3 DEF Class
  <2>5. QED
    BY <2>4 DEF rules
<1>9. CASE direct = {} /\ overlaps # {}
  <2>1. Classify(S, rules) = [ns |-> "proj", rule |-> FirstBest(overlaps, common),
                              extra |-> S \ rules[FirstBest(overlaps, common)]]
    BY <1>9 DEF Classify
  <2>2. FirstBest(overlaps, common) \in Nat /\ S \ rules[FirstBest(overlaps, common)] \in SUBSET Marker
    BY <1>5, <1>7, <1>9
  <2> HIDE DEF direct, overlaps, common, rules
  <2>3. Classify(S, rules) \in Class /\ Classify(S, rules).ns = "proj"
    BY <2>1, <2>2 DEF Class
  <2>4. QED
    BY <2>3 DEF rules
<1>10. CASE direct = {} /\ overlaps = {}
  <2>1. Classify(S, rules) = Miss
    BY <1>10 DEF Classify
  <2> HIDE DEF rules
  <2>2. Classify(S, rules) \in Class /\ Classify(S, rules).ns = "td"
    BY <2>1 DEF Miss, Class
  <2>3. QED
    BY <2>2 DEF rules
<1>11. QED
  BY <1>8, <1>9, <1>10
-----------------------------------------------------------------------------
(* The invariant.                                                          *)

\* What a job is about at each of its steps.
Fit(j) ==
  /\ j.pc # "idle" => j.on \in Entity
  /\ j.pc \in {"ref", "find", "types", "remove", "identify", "value"} \/ j.then = "types" => j.on \in Point
  /\ j.pc \in {"tag", "ref", "find", "link", "inverse"} => j.then # "idle"
  /\ j.pc = "find" => j.ref \in Equip
  /\ IsFiniteSet(j.tags) /\ IsFiniteSet(j.seen)
  /\ j.pc = "declare" => Classify(j.seen, RulesOf(j.on)).ns = "proj"

\* With it, only finitely many tags of an entity are ever read.
Typed ==
  /\ TypeOK
  /\ \A e \in Entity : IsFiniteSet(tags[e])
  /\ \A w \in Worker : Fit(job[w])

\* A write of two halves has its first in the graph before its second.
Halves == \A w \in Worker : job[w].pc = "inverse" => job[w].half \subseteq edges

\* What a process takes as known is in the graph.
Identified ==
  /\ \A k \in Process : known[k] \subseteq raw
  /\ \A w \in Worker : job[w].pc = "value" => job[w].on \in raw

\* Tags that were read are still there.
SeenStays == \A w \in Worker : job[w].pc \in {"class", "declare"} => job[w].seen \subseteq tags[job[w].on]

Rightful(e, t) == RulesOf(e)[t.rule] \subseteq tags[e]

\* A settled entity has its class, or a thread is on its way to give it.
Pending(e) ==
  \E w \in Worker :
    /\ job[w].on = e
    /\ job[w].pc \in {"remove", "read"} \/ (job[w].pc = "class" /\ job[w].seen = tags[e])

KeptOrPending == \A e \in settled : Classify(tags[e], RulesOf(e)) \in types[e] \/ Pending(e)

\* Only a write under way has left a merge one-sided.
Mutual ==
  failures = 0 => \A t \in edges : t[2] = "sameAs" =>
    Back(t) \in edges \/ \E w \in Worker : job[w].pc = "inverse" /\ t \in job[w].half

\* An undisturbed reclassify has removed what there was, or has it on its list.
LoneCleared ==
  \A w \in Worker : job[w].alone =>
    /\ job[w].pc \in {"remove", "read", "class", "declare", "ask", "guess"}
    /\ job[w].pc = "remove" => types[job[w].on] \subseteq job[w].old
    /\ job[w].pc \in {"read", "class"} => types[job[w].on] = {}

\* The way of a tagged point to equipment that had come.
Way(j) ==
  j.on \in Point /\ j.tags # {} => \A r \in j.there :
    /\ Exists(r)
    /\ j.pc = "tag" => r = j.ref \/ r \in refs[j.on]
    /\ j.pc \in {"ref", "find", "link", "inverse"} => r \in refs[j.on]
    /\ j.pc = "find" => j.ref \in refs[j.on]
    /\ j.pc \in {"link", "inverse"} /\ refs[j.on] = {r} => <<r, "hasPoint", j.on>> \in edges \cup j.links

OnItsWay == \A w \in Worker : Way(job[w])
-----------------------------------------------------------------------------
(* Jobs.                                                                   *)

Alike(a, b) ==
  /\ a.pc = b.pc /\ a.on = b.on /\ a.tags = b.tags /\ a.ref = b.ref /\ a.then = b.then
  /\ a.links = b.links /\ a.half = b.half /\ a.old = b.old /\ a.seen = b.seen
  /\ a.there = b.there /\ a.todo = b.todo /\ a.tries = b.tries

LEMMA IdleFit == Idle \in Job /\ Fit(Idle)
<1>1. Idle \in Job
  BY DEF Idle, Job
<1>2. QED
  BY <1>1, FS_EmptySet DEF Idle, Fit

\* A step is one of its thread; it may end the solitude of the others.
LEMMA MovesJob ==
  ASSUME job \in [Worker -> Job], NEW w \in Worker, NEW j \in Job, Moves(w, j)
  PROVE  /\ job' \in [Worker -> Job] /\ job'[w] = j
         /\ \A v \in Worker : v # w => Alike(job'[v], job[v])
         /\ \A v \in Worker : v # w /\ job'[v].alone => job[v].alone /\ job[v].on \notin {job[w].on, j.on}
<1>1. \A v \in Worker : [job[v] EXCEPT !.alone = FALSE] \in Job
  <2> TAKE v \in Worker
  <2>1. job[v] \in Job
    OBVIOUS
  <2>2. QED
    BY <2>1 DEF Job
<1>2. ASSUME NEW v \in Worker, v # w
      PROVE  /\ job'[v] \in Job /\ Alike(job'[v], job[v])
             /\ job'[v].alone => job[v].alone /\ job[v].on \notin {job[w].on, j.on}
  <2>1. job[v] \in Job
    OBVIOUS
  <2>2. CASE job[v].on \in {job[w].on, j.on}
    <3> DEFINE k == [job[v] EXCEPT !.alone = FALSE]
    <3>1. job'[v] = k
      <4>1. job'[v] = CASE v = w -> j
                        [] v # w /\ job[v].on \in {job[w].on, j.on} -> k
                        [] OTHER -> job[v]
        BY DEF Moves
      <4> HIDE DEF k
      <4>2. QED
        BY <4>1, <1>2, <2>2
    <3>2. k \in Job
      BY <1>1
    <3>3. Alike(k, job[v]) /\ k.alone = FALSE
      BY <2>1 DEF Alike, Job
    <3> HIDE DEF k
    <3>4. QED
      BY <3>1, <3>2, <3>3
  <2>3. CASE job[v].on \notin {job[w].on, j.on}
    <3>1. job'[v] = job[v]
      BY <1>2, <2>3 DEF Moves
    <3>2. QED
      BY <3>1, <2>1, <2>3 DEF Alike
  <2>4. QED
    BY <2>2, <2>3
<1>3. job'[w] = j
  BY DEF Moves
<1>4. job' \in [Worker -> Job]
  <2>1. \A v \in Worker : job'[v] \in Job
    BY <1>2, <1>3
  <2>2. job' = [v \in Worker |-> job'[v]]
    BY DEF Moves
  <2>3. QED
    BY <2>1, <2>2
<1>5. QED
  BY <1>2, <1>3, <1>4

\* Only the thread's own job has to be looked at.
LEMMA MovesFit ==
  ASSUME job \in [Worker -> Job], \A v \in Worker : Fit(job[v]),
         NEW w \in Worker, NEW j \in Job, Fit(j), Moves(w, j)
  PROVE  job' \in [Worker -> Job] /\ \A v \in Worker : Fit(job'[v])
<1>1. \A v \in Worker : v # w => Fit(job'[v])
  BY MovesJob DEF Fit, Alike
<1>2. QED
  BY MovesJob, <1>1

Jobs == job \in [Worker -> Job] /\ \A w \in Worker : Fit(job[w])

LEMMA AfterFit ==
  ASSUME NEW j \in Job, NEW k \in After(j)
  PROVE  k \in Job /\ Fit(k)
<1>1. CASE j.todo = {}
  BY <1>1, IdleFit DEF After
<1>2. CASE j.todo # {}
  <2>1. PICK e \in j.todo : k = [Idle EXCEPT !.pc = "read", !.on = e, !.todo = j.todo \ {e}, !.tries = 1]
    BY <1>2 DEF After
  <2>2. e \in Entity /\ j.todo \ {e} \in SUBSET Entity
    BY DEF Job
  <2>3. k \in Job
    BY <2>1, <2>2 DEF Idle, Job, Step
  <2>4. QED
    BY <2>1, <2>2, <2>3, FS_EmptySet DEF Fit, Idle
<1>3. QED
  BY <1>1, <1>2
-----------------------------------------------------------------------------
(* Types.                                                                  *)

LEMMA InitTyped == Init => Typed
<1> SUFFICES ASSUME Init PROVE Typed
  OBVIOUS
<1>1. job \in [Worker -> Job] /\ \A w \in Worker : Fit(job[w])
  BY IdleFit DEF Init
<1>2. TypeOK
  BY <1>1, InputAssumption DEF Init, TypeOK
<1>3. QED
  BY <1>1, <1>2, FS_EmptySet DEF Init, Typed

\* What every payload is.
LEMMA Inputs ==
  /\ \A q \in Payload : /\ q.on \in Entity /\ q.ref \in Equip \cup {NoRef}
                        /\ IsFiniteSet(q.tags) /\ q.tags \subseteq Marker
  /\ \A g \in Grouping : /\ g.on \in Entity /\ IsFiniteSet(g.tags) /\ g.tags \subseteq Marker
                         /\ \A p \in g.points : <<g.on, "hasPoint", p>> \in Forward
  /\ \A t \in Pair : t \in Forward /\ t[1] \in Entity
<1>1. \A q \in Payload \cup Grouping : q.tags \subseteq Marker
  BY DEF Marker
<1>2. QED
  BY <1>1, InputAssumption DEF Forward, Entity

LEMMA StartTyped ==
  ASSUME Typed, NEW w \in Worker, NEW j \in Job, Fit(j), j.pc # "find", Start(w, j)
  PROVE  Typed'
<1> DEFINE k == [j EXCEPT !.there = Come(j)]
<1>1. Come(j) \subseteq Equip
  BY DEF Come
<1>2. k \in Job /\ Fit(k)
  BY <1>1 DEF Job, Fit
<1>3. Moves(w, k)
  BY DEF Start
<1> HIDE DEF k
<1>4. job' \in [Worker -> Job] /\ \A v \in Worker : Fit(job'[v])
  BY <1>2, <1>3, MovesFit DEF Typed, TypeOK
<1>5. jobs' \in 0..MaxJobs
  BY InputAssumption DEF Start, Typed, TypeOK
<1>6. QED
  BY <1>4, <1>5 DEF Start, Typed, TypeOK, graph, history

\* The jobs that are given to idle threads.
Given(w) ==
  \E j \in Job : /\ Start(w, j) /\ Fit(j) /\ j.alone = FALSE
                /\ j.pc \in {"tag", "link", "identify", "read"} /\ (j.tags # {} => j.pc = "tag")

LEMMA BeginGives ==
  ASSUME Typed, NEW w \in Worker, Begin(w)
  PROVE  Given(w)
<1>1. ASSUME NEW q \in Payload, StartTags(w, q)
      PROVE  Given(w)
  <2> DEFINE next == CASE Kind[w] = "api" -> "types" [] Kind[w] = "puller" -> "read" [] OTHER -> "done"
             j == [Idle EXCEPT !.pc = "tag", !.on = q.on, !.tags = q.tags, !.ref = q.ref, !.then = next]
  <2>1. Start(w, j) /\ q.on \in Point
    BY <1>1 DEF StartTags
  <2>2. next \in {"done", "types", "read"}
    OBVIOUS
  <2> HIDE DEF next
  <2>3. j \in Job
    BY IdleFit, Inputs, <2>2 DEF Job, Step
  <2>4. Fit(j) /\ j.pc = "tag" /\ j.alone = FALSE
    BY IdleFit, Inputs, <2>1, <2>2 DEF Fit, Idle
  <2> HIDE DEF j
  <2>5. QED
    BY <2>1, <2>3, <2>4 DEF Given
<1>2. ASSUME NEW q \in Payload, StartEquip(w, q)
      PROVE  Given(w)
  <2> DEFINE next == IF Kind[w] = "puller" THEN "read" ELSE "done"
             j == [Idle EXCEPT !.pc = "tag", !.on = q.on, !.tags = q.tags, !.then = next]
  <2>1. Start(w, j)
    BY <1>2 DEF StartEquip
  <2>2. next \in {"done", "read"}
    OBVIOUS
  <2> HIDE DEF next
  <2>3. j \in Job
    BY IdleFit, Inputs, <2>2 DEF Job, Step
  <2>4. Fit(j) /\ j.pc = "tag" /\ j.alone = FALSE
    BY IdleFit, Inputs, <2>2 DEF Fit, Idle
  <2> HIDE DEF j
  <2>5. QED
    BY <2>1, <2>3, <2>4 DEF Given
<1>3. ASSUME NEW g \in Grouping, StartGrouping(w, g)
      PROVE  Given(w)
  <2> DEFINE links == {<<g.on, "hasPoint", p>> : p \in g.points}
             j == [Idle EXCEPT !.pc = "tag", !.on = g.on, !.tags = g.tags, !.then = "done", !.links = links]
  <2>1. Start(w, j)
    BY <1>3 DEF StartGrouping
  <2>2. links \subseteq Forward
    BY Inputs
  <2> HIDE DEF links
  <2>3. j \in Job
    BY IdleFit, Inputs, <2>2 DEF Job, Step
  <2>4. Fit(j) /\ j.pc = "tag" /\ j.alone = FALSE
    BY IdleFit, Inputs DEF Fit, Idle
  <2> HIDE DEF j
  <2>5. QED
    BY <2>1, <2>3, <2>4 DEF Given
<1>4. ASSUME NEW t \in Pair, StartPair(w, t)
      PROVE  Given(w)
  <2> DEFINE j == [Idle EXCEPT !.pc = "link", !.on = t[1], !.links = {t}, !.then = "done"]
  <2>1. Start(w, j)
    BY <1>4 DEF StartPair
  <2>2. j \in Job
    BY IdleFit, Inputs DEF Job, Step
  <2>3. Fit(j) /\ j.pc = "link" /\ j.alone = FALSE /\ j.tags = {}
    BY IdleFit, Inputs DEF Fit, Idle
  <2> HIDE DEF j
  <2>4. QED
    BY <2>1, <2>2, <2>3 DEF Given
<1>5. ASSUME NEW p \in Point, StartReading(w, p)
      PROVE  Given(w)
  <2> DEFINE j == [Idle EXCEPT !.pc = "identify", !.on = p]
  <2>1. Start(w, j)
    BY <1>5 DEF StartReading
  <2>2. j \in Job
    BY IdleFit DEF Job, Step, Entity
  <2>3. Fit(j) /\ j.pc = "identify" /\ j.alone = FALSE /\ j.tags = {}
    BY IdleFit DEF Fit, Idle, Entity
  <2> HIDE DEF j
  <2>4. QED
    BY <2>1, <2>2, <2>3 DEF Given
<1>6. ASSUME StartSweep(w)
      PROVE  Given(w)
  <2> DEFINE all == [Idle EXCEPT !.todo = Unclassified]
  <2>1. PICK j \in After(all) : Start(w, j)
    BY <1>6 DEF StartSweep
  <2>2. all \in Job /\ all.todo # {}
    BY IdleFit, <1>6 DEF StartSweep, Unclassified, Job
  <2>3. j.pc = "read" /\ j.alone = FALSE /\ j.tags = {}
    BY <2>2 DEF After, Idle
  <2> HIDE DEF all
  <2>4. QED
    BY <2>1, <2>2, <2>3, AfterFit DEF Given
<1>7. QED
  BY <1>1, <1>2, <1>3, <1>4, <1>5, <1>6 DEF Begin

LEMMA BeginTyped ==
  ASSUME Typed, NEW w \in Worker, Begin(w)
  PROVE  Typed'
BY BeginGives, StartTyped DEF Given

LEMMA FinishesJobs ==
  ASSUME Jobs, NEW w \in Worker, Finishes(w)
  PROVE  Jobs'
<1>1. PICK j \in After(job[w]) : Moves(w, j)
  BY DEF Finishes
<1>2. job[w] \in Job
  BY DEF Jobs
<1>3. QED
  BY <1>1, <1>2, AfterFit, MovesFit DEF Jobs

LEMMA GoesJobs ==
  ASSUME Jobs, NEW w \in Worker, job[w].pc # "idle",
         NEW pc \in {"ref", "link", "types", "remove", "read", "declare", "ask", "guess", "value"},
         pc \in {"ref", "types", "remove", "value"} => job[w].on \in Point,
         pc \in {"ref", "link"} => job[w].then # "idle",
         pc = "declare" => Classify(job[w].seen, RulesOf(job[w].on)).ns = "proj",
         Goes(w, pc)
  PROVE  Jobs'
<1> DEFINE k == [job[w] EXCEPT !.pc = pc]
<1>1. job[w] \in Job /\ Fit(job[w])
  BY DEF Jobs
<1>2. k \in Job
  BY <1>1 DEF Job, Step
<1>3. k.pc = pc /\ k.on = job[w].on /\ k.tags = job[w].tags /\ k.seen = job[w].seen
      /\ k.then = job[w].then /\ k.ref = job[w].ref
  BY <1>1 DEF Job
<1>4. Moves(w, k)
  BY DEF Goes
<1> HIDE DEF k
<1>5. Fit(k)
  BY <1>1, <1>3 DEF Fit
<1>6. QED
  BY <1>2, <1>4, <1>5, MovesFit DEF Jobs

\* The steps that write the entity's own triples.
LEMMA TagTyped ==
  ASSUME Typed, NEW w \in Worker, AddTags(w)
  PROVE  Typed'
<1> DEFINE j == job[w]
<1>1. j \in Job /\ Fit(j) /\ j.pc = "tag" /\ j.on \in Entity /\ j.then # "idle"
  BY DEF Typed, TypeOK, AddTags, Fit
<1>2. Jobs'
  <2>1. Jobs
    BY DEF Typed, TypeOK, Jobs
  <2>2. CASE j.on \in Point
    BY <2>1, <2>2, <1>1, GoesJobs DEF AddTags
  <2>3. CASE j.on \notin Point
    BY <2>1, <2>3, <1>1, GoesJobs DEF AddTags
  <2>4. QED
    BY <2>2, <2>3
<1>3. tags' \in [Entity -> SUBSET Marker]
  BY <1>1 DEF Typed, TypeOK, AddTags, Job
<1>4. refs' \in [Point -> SUBSET Equip]
  <2>1. \A e \in Point : refs[e] \in SUBSET Equip /\ (j.ref # NoRef => refs[e] \cup {j.ref} \in SUBSET Equip)
    BY <1>1 DEF Typed, TypeOK, Job
  <2>2. QED
    BY <2>1 DEF AddTags
<1>5. \A e \in Entity : IsFiniteSet(tags'[e])
  <2> TAKE e \in Entity
  <2>1. IsFiniteSet(tags[e]) /\ IsFiniteSet(j.tags)
    BY <1>1 DEF Typed, Fit
  <2>2. tags'[e] \in {tags[e], tags[e] \cup j.tags}
    BY DEF AddTags, Typed, TypeOK
  <2>3. QED
    BY <2>1, <2>2, FS_Union
<1>6. settled' \subseteq Entity
  BY DEF AddTags, Typed, TypeOK
<1>7. QED
  BY <1>2, <1>3, <1>4, <1>5, <1>6 DEF AddTags, Typed, TypeOK, Jobs, history

\* Every step that only moves its thread on.
LEMMA MoveTyped ==
  ASSUME Typed, NEW w \in Worker,
         ReadRef(w) \/ FindEquip(w) \/ Linked(w) \/ ReadTypes(w) \/ ReadTags(w) \/ AskModel(w)
  PROVE  Typed'
<1> DEFINE j == job[w]
<1>1. j \in Job /\ Fit(j) /\ Jobs
  BY DEF Typed, TypeOK, Jobs
<1>2. ASSUME ReadRef(w)
      PROVE  Jobs'
  <2>1. j.on \in Point /\ j.then # "idle" /\ j.pc = "ref"
    BY <1>1, <1>2 DEF Fit, ReadRef
  <2>2. CASE Goes(w, "link")
    BY <1>1, <2>1, <2>2, GoesJobs
  <2>3. ASSUME NEW r \in refs[j.on], Moves(w, [j EXCEPT !.pc = "find", !.ref = r])
        PROVE  Jobs'
    <3> DEFINE k == [j EXCEPT !.pc = "find", !.ref = r]
    <3>1. r \in Equip /\ j.on \in Entity
      BY <2>1 DEF Typed, TypeOK, Entity
    <3>2. k \in Job
      BY <1>1, <3>1 DEF Job, Step
    <3>3. Fit(k)
      BY <1>1, <2>1, <3>1 DEF Job, Fit
    <3> HIDE DEF k
    <3>4. Moves(w, k)
      BY <2>3 DEF k
    <3>5. QED
      BY <1>1, <3>2, <3>3, <3>4, MovesFit DEF Jobs
  <2>4. QED
    BY <1>2, <2>2, <2>3 DEF ReadRef
<1>3. ASSUME FindEquip(w)
      PROVE  Jobs'
  <2> DEFINE links == IF Exists(j.ref) THEN {<<j.ref, "hasPoint", j.on>>} ELSE {}
             k == [j EXCEPT !.pc = "link", !.links = links]
  <2>1. j.on \in Point /\ j.then # "idle" /\ j.pc = "find" /\ j.ref \in Equip
    BY <1>1, <1>3 DEF Fit, FindEquip
  <2>2. links \subseteq Forward
    BY <2>1 DEF Forward, Entity
  <2> HIDE DEF links
  <2>3. k \in Job
    BY <1>1, <2>2 DEF Job, Step
  <2>4. Fit(k)
    BY <1>1, <2>1 DEF Job, Fit, Entity
  <2> HIDE DEF k
  <2>5. Moves(w, k)
    BY <1>3 DEF FindEquip, k, links
  <2>6. QED
    BY <1>1, <2>3, <2>4, <2>5, MovesFit DEF Jobs
<1>4. ASSUME Linked(w)
      PROVE  Jobs'
  <2>1. CASE j.then = "done"
    BY <1>1, <1>4, <2>1, FinishesJobs DEF Linked
  <2>2. CASE j.then \in {"types", "read"}
    BY <1>1, <1>4, <2>2, GoesJobs DEF Linked, Fit
  <2>3. QED
    BY <1>1, <1>4, <2>1, <2>2 DEF Linked, Job, Fit
<1>5. ASSUME ReadTypes(w)
      PROVE  Jobs'
  <2> DEFINE k == [j EXCEPT !.pc = "remove", !.old = types[j.on], !.alone = TRUE]
  <2>1. j.on \in Point /\ types[j.on] \subseteq Class
    BY <1>1, <1>5 DEF Fit, ReadTypes, Typed, TypeOK, Entity
  <2>2. k \in Job
    BY <1>1, <2>1 DEF Job, Step
  <2>3. Fit(k)
    BY <1>1, <2>1 DEF Job, Fit, Entity
  <2> HIDE DEF k
  <2>4. Moves(w, k)
    BY <1>5 DEF ReadTypes, k
  <2>5. QED
    BY <1>1, <2>2, <2>3, <2>4, MovesFit DEF Jobs
<1>6. ASSUME ReadTags(w)
      PROVE  Jobs' /\ settled' \subseteq Entity
  <2> DEFINE k == [j EXCEPT !.pc = "class", !.seen = tags[j.on]]
  <2>1. j.on \in Entity /\ tags[j.on] \subseteq Marker /\ IsFiniteSet(tags[j.on])
    BY <1>1, <1>6 DEF Fit, ReadTags, Typed, TypeOK
  <2>2. k \in Job
    BY <1>1, <2>1 DEF Job, Step
  <2>3. Fit(k)
    BY <1>1, <2>1 DEF Job, Fit
  <2> HIDE DEF k
  <2>4. Moves(w, k)
    BY <1>6 DEF ReadTags, k
  <2>5. QED
    BY <1>1, <1>6, <2>1, <2>2, <2>3, <2>4, MovesFit DEF Jobs, ReadTags, Typed, TypeOK
<1>7. ASSUME AskModel(w)
      PROVE  Jobs'
  BY <1>1, <1>7, FinishesJobs, GoesJobs DEF AskModel
<1>8. Jobs' /\ settled' \subseteq Entity /\ UNCHANGED <<graph, history, jobs, failures>>
  BY <1>2, <1>3, <1>4, <1>5, <1>6, <1>7
     DEF ReadRef, FindEquip, Linked, ReadTypes, ReadTags, AskModel, Typed, TypeOK
<1>9. QED
  BY <1>8 DEF Typed, TypeOK, Jobs, graph, history

LEMMA BackType ==
  ASSUME NEW t \in Forward
  PROVE  /\ t \in Entity \X (DOMAIN Opposite) \X Entity /\ Back(t) \in Entity \X (DOMAIN Opposite) \X Entity
         /\ t[2] \notin {"isPointOf", "isPartOf"} /\ Back(Back(t)) = t
         /\ t[2] = "sameAs" <=> Back(t)[2] = "sameAs"
<1>1. PICK a \in Entity, p \in {"hasPoint", "sameAs", "hasPart"}, b \in Entity : t = <<a, p, b>>
  BY DEF Forward
<1>2. Opposite[p] \in DOMAIN Opposite /\ p \in DOMAIN Opposite /\ Opposite[Opposite[p]] = p
      /\ (p = "sameAs" <=> Opposite[p] = "sameAs")
  <2>1. DOMAIN Opposite = {"hasPoint", "isPointOf", "sameAs", "hasPart", "isPartOf"}
    BY DEF Opposite
  <2>2. Opposite["hasPoint"] = "isPointOf" /\ Opposite["isPointOf"] = "hasPoint"
    BY DEF Opposite
  <2>3. Opposite["hasPart"] = "isPartOf" /\ Opposite["isPartOf"] = "hasPart" /\ Opposite["sameAs"] = "sameAs"
    BY DEF Opposite
  <2>4. QED
    BY <2>1, <2>2, <2>3
<1>3. Back(t) = <<b, Opposite[p], a>> /\ Back(Back(t)) = <<a, Opposite[Opposite[p]], b>>
  <2>1. Back(t) = <<b, Opposite[p], a>>
    BY <1>1 DEF Back
  <2> HIDE <1>1
  <2>2. QED
    BY <2>1 DEF Back
<1>4. QED
  BY <1>1, <1>2, <1>3

\* The steps that write edges.
LEMMA EdgeTyped ==
  ASSUME Typed, NEW w \in Worker, Link(w) \/ LinkBack(w)
  PROVE  Typed'
<1> DEFINE j == job[w]
<1>1. j \in Job /\ Fit(j) /\ Jobs
  BY DEF Typed, TypeOK, Jobs
<1>2. j.on \in Entity /\ j.then # "idle"
  BY <1>1 DEF Fit, Link, LinkBack
<1>3. ASSUME Link(w)
      PROVE  Jobs' /\ edges' \subseteq Entity \X (DOMAIN Opposite) \X Entity
  <2>1. PICK t \in j.links : /\ edges' = edges \cup {t}
                             /\ Moves(w, [j EXCEPT !.pc = "inverse", !.links = @ \ {t}, !.half = {t}])
    BY <1>3 DEF Link
  <2> DEFINE k == [j EXCEPT !.pc = "inverse", !.links = @ \ {t}, !.half = {t}]
  <2>2. t \in Forward /\ j.links \subseteq Forward
    BY <1>1 DEF Job
  <2>3. k \in Job
    BY <1>1, <2>2 DEF Job, Step
  <2>4. Fit(k)
    BY <1>1, <1>2 DEF Job, Fit
  <2>5. Moves(w, k)
    BY <2>1
  <2> HIDE DEF k
  <2>6. QED
    BY <1>1, <2>1, <2>2, <2>3, <2>4, <2>5, BackType, MovesFit DEF Jobs, Typed, TypeOK
<1>4. ASSUME LinkBack(w)
      PROVE  Jobs' /\ edges' \subseteq Entity \X (DOMAIN Opposite) \X Entity
  <2> DEFINE k == [j EXCEPT !.pc = "link", !.half = {}]
  <2>1. k \in Job
    BY <1>1 DEF Job, Step
  <2>2. Fit(k)
    BY <1>1, <1>2 DEF Job, Fit
  <2>3. Moves(w, k) /\ edges' = edges \cup {Back(t) : t \in j.half}
    BY <1>4 DEF LinkBack
  <2> HIDE DEF k
  <2>4. \A t \in j.half : Back(t) \in Entity \X (DOMAIN Opposite) \X Entity
    BY <1>1, BackType DEF Job
  <2>5. QED
    BY <1>1, <2>1, <2>2, <2>3, <2>4, MovesFit DEF Jobs, Typed, TypeOK
<1>5. QED
  BY <1>3, <1>4 DEF Link, LinkBack, Typed, TypeOK, Jobs, history

\* What a thread that classifies has read.
LEMMA Outcome ==
  ASSUME Typed, NEW w \in Worker, job[w].pc \in {"class", "declare"}
  PROVE  LET c == Classify(job[w].seen, RulesOf(job[w].on)) IN
         /\ job[w].on \in Entity /\ c \in Class
         /\ c.ns = "brick" => RulesOf(job[w].on)[c.rule] \subseteq job[w].seen
<1>1. job[w].on \in Entity /\ IsFiniteSet(job[w].seen) /\ job[w].seen \in SUBSET Marker
  BY DEF Typed, TypeOK, Job, Fit
<1>2. QED
  BY <1>1, ClassifyType

\* The steps that write classes.
LEMMA ClassTyped ==
  ASSUME Typed, NEW w \in Worker, RemoveType(w) \/ AddClass(w) \/ Declare(w) \/ AddGuess(w)
  PROVE  Typed'
<1> DEFINE j == job[w]
           c == Classify(j.seen, RulesOf(j.on))
<1>1. j \in Job /\ Fit(j) /\ Jobs
  BY DEF Typed, TypeOK, Jobs
<1>2. j.on \in Entity
  BY <1>1 DEF Fit, RemoveType, AddClass, Declare, AddGuess
<1>3. ASSUME RemoveType(w)
      PROVE  Jobs' /\ types' \in [Entity -> SUBSET Class] /\ declared' = declared
  <2>1. ASSUME NEW t \in j.old, types' = [types EXCEPT ![j.on] = @ \ {t}], Moves(w, [j EXCEPT !.old = @ \ {t}])
        PROVE  Jobs' /\ types' \in [Entity -> SUBSET Class]
    <3> DEFINE k == [j EXCEPT !.old = @ \ {t}]
    <3>1. k \in Job
      BY <1>1 DEF Job
    <3>2. Fit(k)
      BY <1>1 DEF Job, Fit
    <3> HIDE DEF k
    <3>3. Moves(w, k)
      BY <2>1 DEF k
    <3>4. QED
      BY <1>1, <2>1, <3>1, <3>2, <3>3, MovesFit DEF Jobs, Typed, TypeOK
  <2>2. ASSUME Goes(w, "read"), UNCHANGED types
        PROVE  Jobs' /\ types' \in [Entity -> SUBSET Class]
    BY <1>1, <1>3, <2>2, GoesJobs DEF RemoveType, Typed, TypeOK
  <2>3. QED
    BY <1>3, <2>1, <2>2 DEF RemoveType
<1>4. ASSUME AddClass(w)
      PROVE  Jobs' /\ types' \in [Entity -> SUBSET Class] /\ declared' = declared
  <2>1. j.pc = "class" /\ types' = [types EXCEPT ![j.on] = @ \cup {c}] /\ c \in Class
    BY <1>4, Outcome DEF AddClass
  <2>2. \/ c.ns = "proj" /\ Goes(w, "declare")
        \/ Goes(w, "ask")
        \/ Finishes(w)
    BY <1>4 DEF AddClass
  <2> HIDE DEF c
  <2>3. types' \in [Entity -> SUBSET Class]
    BY <1>2, <2>1 DEF Typed, TypeOK
  <2>4. Jobs'
    BY <1>1, <2>1, <2>2, GoesJobs, FinishesJobs DEF c
  <2>5. QED
    BY <1>4, <2>3, <2>4 DEF AddClass
<1>5. ASSUME Declare(w)
      PROVE  Jobs' /\ types' = types /\ declared' \subseteq {d \in Class : d.ns = "proj"}
  <2>1. c \in Class /\ c.ns = "proj"
    BY <1>1, <1>5, Outcome DEF Declare, Fit
  <2>2. Jobs'
    BY <1>1, <1>5, GoesJobs, FinishesJobs DEF Declare
  <2> HIDE DEF c
  <2>3. QED
    BY <1>5, <2>1, <2>2 DEF Declare, Typed, TypeOK, c
<1>6. ASSUME AddGuess(w)
      PROVE  Jobs' /\ types' \in [Entity -> SUBSET Class] /\ declared' = declared
  <2>1. Guessed \in Class
    BY DEF Guessed, Class
  <2>2. QED
    BY <1>1, <1>2, <1>6, <2>1, FinishesJobs DEF AddGuess, Typed, TypeOK
<1>7. QED
  BY <1>3, <1>4, <1>5, <1>6 DEF RemoveType, AddClass, Declare, AddGuess, Typed, TypeOK, Jobs, history

\* Readings.
LEMMA ReadingTyped ==
  ASSUME Typed, NEW w \in Worker, Identify(w) \/ WriteValue(w)
  PROVE  Typed'
<1>1. job[w] \in Job /\ Fit(job[w]) /\ Jobs /\ job[w].on \in Point
  BY DEF Typed, TypeOK, Jobs, Fit, Identify, WriteValue
<1>2. Jobs'
  BY <1>1, GoesJobs, FinishesJobs DEF Identify, WriteValue
<1>3. raw' \subseteq Point /\ hist' \subseteq Point /\ known' \in [Process -> SUBSET Point]
  BY <1>1 DEF Identify, WriteValue, Typed, TypeOK
<1>4. QED
  BY <1>2, <1>3 DEF Identify, WriteValue, Typed, TypeOK, Jobs, graph

\* What fails.
LEMMA FailTyped ==
  ASSUME Typed, NEW w \in Worker, Fail(w)
  PROVE  Typed'
<1> DEFINE j == job[w]
           again == [Idle EXCEPT !.pc = "read", !.on = j.on, !.todo = j.todo, !.tries = j.tries + 1]
<1>1. j \in Job /\ Fit(j) /\ Jobs /\ j.on \in Entity
  BY DEF Typed, TypeOK, Jobs, Fit, Fail
<1>2. Moves(w, again) \/ Finishes(w) \/ Moves(w, Idle)
  BY DEF Fail
<1>3. again \in Job
  <2>1. j.tries + 1 \in Nat /\ j.todo \in SUBSET Entity
    BY <1>1 DEF Job
  <2>2. QED
    BY <1>1, <2>1, IdleFit DEF Job, Step
<1>4. Fit(again)
  BY <1>1, IdleFit DEF Fit, Idle
<1> HIDE DEF again
<1>5. Jobs'
  BY <1>1, <1>2, <1>3, <1>4, IdleFit, FinishesJobs, MovesFit DEF Jobs
<1>6. failures' \in 0..MaxFailures /\ settled' \subseteq Entity
  BY InputAssumption DEF Fail, Typed, TypeOK
<1>7. QED
  BY <1>5, <1>6 DEF Fail, Typed, TypeOK, Jobs, graph, history

LEMMA RestartTyped ==
  ASSUME Typed, NEW k \in Process, Restart(k)
  PROVE  Typed'
<1>1. Jobs'
  BY IdleFit DEF Restart, Typed, TypeOK, Jobs
<1>2. failures' \in 0..MaxFailures /\ settled' \subseteq Entity /\ known' \in [Process -> SUBSET Point]
  BY InputAssumption DEF Restart, Typed, TypeOK
<1>3. QED
  BY <1>1, <1>2 DEF Restart, Typed, TypeOK, Jobs, graph

LEMMA TypedInductive == Typed /\ [Next]_vars => Typed'
<1>1. ASSUME Typed, UNCHANGED vars
      PROVE  Typed'
  BY <1>1 DEF vars, graph, history, Typed, TypeOK
<1>2. ASSUME Typed, NEW w \in Worker, Work(w)
      PROVE  Typed'
  BY <1>2, TagTyped, MoveTyped, EdgeTyped, ClassTyped, ReadingTyped DEF Work
<1>3. QED
  BY <1>1, <1>2, BeginTyped, FailTyped, RestartTyped DEF Next

LEMMA AlwaysTyped == Spec => []Typed
BY InitTyped, TypedInductive, PTL DEF Spec

\* Every variable has its shape; the rules always find a class, whatever tags
\* come together (mapping.py, the max() over what matches).
THEOREM TypeCorrect == Spec => []TypeOK
<1>1. Typed => TypeOK
  BY DEF Typed
<1>2. QED
  BY <1>1, AlwaysTyped, PTL
-----------------------------------------------------------------------------
(* Where steps lead.                                                       *)

Others(w) ==
  \A v \in Worker : v # w =>
    Alike(job'[v], job[v]) /\ (job'[v].alone => job[v].alone /\ job[v].on # job[w].on)

LEMMA MovesOthers ==
  ASSUME Typed, NEW w \in Worker, NEW j, Moves(w, j)
  PROVE  Others(w) /\ job'[w] = j
<1>1. ASSUME NEW v \in Worker, v # w
      PROVE  Alike(job'[v], job[v]) /\ (job'[v].alone => job[v].alone /\ job[v].on # job[w].on)
  <2>1. job[v] \in Job
    BY DEF Typed, TypeOK
  <2>2. CASE job[v].on \in {job[w].on, j.on}
    <3>1. job'[v] = [job[v] EXCEPT !.alone = FALSE]
      BY <1>1, <2>2 DEF Moves
    <3>2. QED
      BY <3>1, <2>1 DEF Alike, Job
  <2>3. CASE job[v].on \notin {job[w].on, j.on}
    <3>1. job'[v] = job[v]
      BY <1>1, <2>3 DEF Moves
    <3>2. QED
      BY <3>1, <2>3 DEF Alike
  <2>4. QED
    BY <2>2, <2>3
<1>2. job'[w] = j
  BY DEF Moves
<1>3. QED
  BY <1>1, <1>2 DEF Others

\* A thread that begins anew.
Fresh(j) == j.pc \in {"idle", "read"} /\ j.alone = FALSE /\ j.tags = {}

LEMMA AfterFresh == ASSUME NEW j, NEW k \in After(j) PROVE Fresh(k)
<1>1. CASE k = Idle
  BY <1>1 DEF Idle, Fresh
<1>2. ASSUME NEW e, k = [Idle EXCEPT !.pc = "read", !.on = e, !.todo = j.todo \ {e}, !.tries = 1]
      PROVE  Fresh(k)
  BY <1>2 DEF Idle, Fresh
<1>3. QED
  BY <1>1, <1>2 DEF After

LEMMA FinishesFresh ==
  ASSUME Typed, NEW w \in Worker, Finishes(w)
  PROVE  Others(w) /\ Fresh(job'[w])
<1>1. PICK k \in After(job[w]) : Moves(w, k)
  BY DEF Finishes
<1>2. QED
  BY <1>1, AfterFresh, MovesOthers

LEMMA GoesOthers ==
  ASSUME Typed, NEW w \in Worker, NEW pc, Goes(w, pc)
  PROVE  /\ Others(w) /\ job'[w].pc = pc /\ job'[w].on = job[w].on /\ job'[w].tags = job[w].tags
         /\ job'[w].links = job[w].links /\ job'[w].there = job[w].there /\ job'[w].ref = job[w].ref
         /\ job'[w].old = job[w].old /\ job'[w].seen = job[w].seen /\ job'[w].alone = job[w].alone
<1>1. job[w] \in Job
  BY DEF Typed, TypeOK
<1>2. Moves(w, [job[w] EXCEPT !.pc = pc])
  BY DEF Goes
<1>3. Others(w) /\ job'[w] = [job[w] EXCEPT !.pc = pc]
  BY <1>2, MovesOthers
<1>4. QED
  BY <1>1, <1>3 DEF Job

\* A job that is given to an idle thread.
LEMMA Beginning ==
  ASSUME Typed, NEW w \in Worker, Begin(w)
  PROVE  /\ Others(w) /\ job[w].pc = "idle" /\ UNCHANGED <<graph, history, settled, failures>>
         /\ job'[w].pc \in {"tag", "link", "identify", "read"} /\ job'[w].alone = FALSE
         /\ job'[w].tags # {} => job'[w].pc = "tag"
         /\ \A r \in job'[w].there :
              Exists(r) /\ r \in Equip /\ (r = job'[w].ref \/ r \in refs[job'[w].on])
<1>2. PICK j \in Job : /\ Start(w, j) /\ j.alone = FALSE
                      /\ j.pc \in {"tag", "link", "identify", "read"} /\ (j.tags # {} => j.pc = "tag")
  BY BeginGives DEF Given
<1> DEFINE k == [j EXCEPT !.there = Come(j)]
<1>3. Moves(w, k) /\ job[w].pc = "idle" /\ UNCHANGED <<graph, history, settled, failures>>
  BY <1>2 DEF Start
<1>4. k.pc = j.pc /\ k.alone = FALSE /\ k.tags = j.tags /\ k.ref = j.ref /\ k.on = j.on /\ k.there = Come(j)
  BY <1>2 DEF Job
<1> HIDE DEF k
<1>5. Others(w) /\ job'[w] = k
  BY <1>3, MovesOthers
<1>6. \A r \in Come(j) : Exists(r) /\ r \in Equip /\ (r = j.ref \/ r \in refs[j.on])
  BY DEF Come
<1>7. QED
  BY <1>2, <1>3, <1>4, <1>5, <1>6

\* What a thread does next.
LEMMA Course ==
  ASSUME Typed, NEW w \in Worker
  PROVE  /\ AddTags(w) => job'[w].pc \in {"ref", "link"}
         /\ ReadRef(w) => job'[w].pc \in {"link", "find"}
         /\ FindEquip(w) \/ LinkBack(w) => job'[w].pc = "link"
         /\ Link(w) => job'[w].pc = "inverse"
         /\ Linked(w) => job'[w].pc = "types" \/ Fresh(job'[w]) \/ (job'[w].pc = "read" /\ job'[w].alone = job[w].alone)
         /\ ReadTypes(w) => job'[w].pc = "remove"
         /\ RemoveType(w) => job'[w].pc \in {"remove", "read"}
         /\ ReadTags(w) => job'[w].pc = "class"
         /\ AddClass(w) => job'[w].pc \in {"declare", "ask"} \/ Fresh(job'[w])
         /\ Declare(w) => job'[w].pc = "ask" \/ Fresh(job'[w])
         /\ AskModel(w) => job'[w].pc = "guess" \/ Fresh(job'[w])
         /\ AddGuess(w) \/ WriteValue(w) \/ Fail(w) => Fresh(job'[w])
         /\ Identify(w) => job'[w].pc = "value"
         /\ Work(w) \/ Fail(w) => Others(w)
<1> DEFINE j == job[w]
<1>1. j \in Job /\ Fit(j)
  BY DEF Typed, TypeOK
<1>2. AddTags(w) => job'[w].pc \in {"ref", "link"} /\ Others(w)
  BY GoesOthers DEF AddTags
<1>3. ReadRef(w) => job'[w].pc \in {"link", "find"} /\ Others(w)
  <2>1. ASSUME NEW r, Moves(w, [j EXCEPT !.pc = "find", !.ref = r])
        PROVE  job'[w].pc = "find" /\ Others(w)
    <3>1. Others(w) /\ job'[w] = [j EXCEPT !.pc = "find", !.ref = r]
      BY <2>1, MovesOthers
    <3>2. QED
      BY <1>1, <3>1 DEF Job
  <2>2. QED
    BY <2>1, GoesOthers DEF ReadRef
<1>4. FindEquip(w) => job'[w].pc = "link" /\ Others(w)
  <2>1. FindEquip(w) => Others(w) /\ \E links : job'[w] = [j EXCEPT !.pc = "link", !.links = links]
    BY MovesOthers DEF FindEquip
  <2>2. QED
    BY <1>1, <2>1 DEF Job
<1>5. LinkBack(w) => job'[w].pc = "link" /\ Others(w)
  <2>1. LinkBack(w) => Others(w) /\ job'[w] = [j EXCEPT !.pc = "link", !.half = {}]
    BY MovesOthers DEF LinkBack
  <2>2. QED
    BY <1>1, <2>1 DEF Job
<1>6. Link(w) => job'[w].pc = "inverse" /\ Others(w)
  <2>1. ASSUME NEW t, Moves(w, [j EXCEPT !.pc = "inverse", !.links = @ \ {t}, !.half = {t}])
        PROVE  job'[w].pc = "inverse" /\ Others(w)
    <3>1. Others(w) /\ job'[w] = [j EXCEPT !.pc = "inverse", !.links = @ \ {t}, !.half = {t}]
      BY <2>1, MovesOthers
    <3>2. QED
      BY <1>1, <3>1 DEF Job
  <2>2. QED
    BY <2>1 DEF Link
<1>7. Linked(w) => Others(w) /\
        (job'[w].pc = "types" \/ Fresh(job'[w]) \/ (job'[w].pc = "read" /\ job'[w].alone = job[w].alone))
  <2>1. Linked(w) => j.then \in {"done", "types", "read"}
    BY <1>1 DEF Linked, Fit, Job
  <2>2. QED
    BY <2>1, GoesOthers, FinishesFresh DEF Linked
<1>8. ReadTypes(w) => job'[w].pc = "remove" /\ Others(w)
  <2>1. ReadTypes(w) => Others(w) /\ job'[w] = [j EXCEPT !.pc = "remove", !.old = types[j.on], !.alone = TRUE]
    BY MovesOthers DEF ReadTypes
  <2>2. QED
    BY <1>1, <2>1 DEF Job
<1>9. RemoveType(w) => job'[w].pc \in {"remove", "read"} /\ Others(w)
  <2>1. ASSUME NEW t, j.pc = "remove", Moves(w, [j EXCEPT !.old = @ \ {t}])
        PROVE  job'[w].pc = "remove" /\ Others(w)
    <3>1. Others(w) /\ job'[w] = [j EXCEPT !.old = @ \ {t}]
      BY <2>1, MovesOthers
    <3>2. QED
      BY <1>1, <2>1, <3>1 DEF Job
  <2>2. QED
    BY <2>1, GoesOthers DEF RemoveType
<1>10. ReadTags(w) => job'[w].pc = "class" /\ Others(w)
  <2>1. ReadTags(w) => Others(w) /\ job'[w] = [j EXCEPT !.pc = "class", !.seen = tags[j.on]]
    BY MovesOthers DEF ReadTags
  <2>2. QED
    BY <1>1, <2>1 DEF Job
<1>11. AddClass(w) => Others(w) /\ (job'[w].pc \in {"declare", "ask"} \/ Fresh(job'[w]))
  BY GoesOthers, FinishesFresh DEF AddClass
<1>12. Declare(w) => Others(w) /\ (job'[w].pc = "ask" \/ Fresh(job'[w]))
  BY GoesOthers, FinishesFresh DEF Declare
<1>13. AskModel(w) => Others(w) /\ (job'[w].pc = "guess" \/ Fresh(job'[w]))
  BY GoesOthers, FinishesFresh DEF AskModel
<1>14. AddGuess(w) \/ WriteValue(w) => Others(w) /\ Fresh(job'[w])
  BY FinishesFresh DEF AddGuess, WriteValue
<1>15. Identify(w) => Others(w) /\ job'[w].pc = "value"
  BY GoesOthers DEF Identify
<1>16. Fail(w) => Others(w) /\ Fresh(job'[w])
  <2> DEFINE again == [Idle EXCEPT !.pc = "read", !.on = j.on, !.todo = j.todo, !.tries = j.tries + 1]
  <2>1. Fresh(Idle) /\ Fresh(again)
    BY DEF Idle, Fresh
  <2>2. Fail(w) => Moves(w, again) \/ Finishes(w) \/ Moves(w, Idle)
    BY DEF Fail
  <2> HIDE DEF again
  <2>3. QED
    BY <2>1, <2>2, MovesOthers, FinishesFresh
<1>17. QED
  BY <1>2, <1>3, <1>4, <1>5, <1>6, <1>7, <1>8, <1>9, <1>10, <1>11, <1>12, <1>13, <1>14, <1>15, <1>16 DEF Work
-----------------------------------------------------------------------------
(* Read side first.                                                        *)

Reads == Halves /\ Identified /\ ReadSideFirst

LEMMA InitReads == Init => Reads
BY DEF Init, Reads, Halves, Identified, ReadSideFirst, Idle

\* The second half is the only write that readers do not start from.
LEMMA EdgesReads ==
  ASSUME Typed, Halves, \A t \in edges : t[2] \in {"isPointOf", "isPartOf"} => Back(t) \in edges,
         NEW w \in Worker, Begin(w) \/ Work(w) \/ Fail(w)
  PROVE  Halves' /\ \A t \in edges' : t[2] \in {"isPointOf", "isPartOf"} => Back(t) \in edges'
<1> DEFINE Ordered(E) == \A t \in E : t[2] \in {"isPointOf", "isPartOf"} => Back(t) \in E
<1>1. Others(w)
  BY Beginning, Course
<1>2. edges \subseteq edges' /\ (~Link(w) /\ ~LinkBack(w) => edges' = edges)
  BY Beginning DEF Work, AddTags, ReadRef, FindEquip, Link, LinkBack, Linked, ReadTypes, RemoveType, ReadTags,
       AddClass, Declare, AskModel, AddGuess, Identify, WriteValue, Fail, graph
<1>3. \A v \in Worker : v # w /\ job'[v].pc = "inverse" => job'[v].half \subseteq edges'
  BY <1>1, <1>2 DEF Others, Alike, Halves
<1>4. CASE Link(w)
  <2>1. PICK t \in job[w].links : /\ edges' = edges \cup {t}
                                  /\ Moves(w, [job[w] EXCEPT !.pc = "inverse", !.links = @ \ {t}, !.half = {t}])
    BY <1>4 DEF Link
  <2>2. job[w] \in Job /\ t \in Forward
    BY DEF Typed, TypeOK, Job
  <2>3. job'[w].half = {t}
    <3>1. job'[w] = [job[w] EXCEPT !.pc = "inverse", !.links = @ \ {t}, !.half = {t}]
      BY <2>1, MovesOthers
    <3>2. QED
      BY <2>2, <3>1 DEF Job
  <2>4. t[2] \notin {"isPointOf", "isPartOf"}
    BY <2>2, BackType
  <2>5. QED
    BY <1>3, <2>1, <2>3, <2>4 DEF Halves
<1>5. CASE LinkBack(w)
  <2>1. job[w].half \subseteq edges /\ job[w].half \subseteq Forward /\ edges' = edges \cup {Back(t) : t \in job[w].half}
    BY <1>5 DEF LinkBack, Halves, Typed, TypeOK, Job
  <2>2. \A t \in job[w].half : Back(Back(t)) \in edges
    BY <2>1, BackType
  <2>3. job'[w].pc = "link"
    BY <1>5, Course
  <2>4. QED
    BY <1>3, <2>1, <2>2, <2>3 DEF Halves
<1>6. CASE ~Link(w) /\ ~LinkBack(w)
  <2>1. job'[w].pc # "inverse"
    BY <1>6, Beginning, Course DEF Work, Fresh
  <2>2. QED
    BY <1>2, <1>3, <1>6, <2>1 DEF Halves
<1>7. QED
  BY <1>4, <1>5, <1>6

LEMMA IdentityReads ==
  ASSUME Typed, Identified, hist \subseteq raw, NEW w \in Worker, Begin(w) \/ Work(w) \/ Fail(w)
  PROVE  Identified' /\ hist' \subseteq raw'
<1>1. Others(w)
  BY Beginning, Course
<1>2. CASE Identify(w)
  <2>1. job'[w].on = job[w].on /\ Kind[w] \in Process
    BY <1>2, KindAssumption, GoesOthers DEF Identify
  <2>2. raw' = raw \cup ({job[w].on} \ known[Kind[w]]) /\ hist' = hist
        /\ known' = [known EXCEPT ![Kind[w]] = @ \cup {job[w].on}]
    BY <1>2 DEF Identify
  <2>3. \A k \in Process : known'[k] \subseteq known[k] \cup {job[w].on}
    BY <2>2 DEF Typed, TypeOK
  <2>4. job[w].on \in raw'
    BY <2>1, <2>2 DEF Identified
  <2>5. \A k \in Process : known'[k] \subseteq raw'
    BY <2>2, <2>3, <2>4 DEF Identified
  <2>6. \A v \in Worker : job'[v].pc = "value" => job'[v].on \in raw'
    BY <1>1, <2>1, <2>2, <2>4 DEF Others, Alike, Identified
  <2>7. QED
    BY <2>2, <2>5, <2>6 DEF Identified
<1>3. CASE WriteValue(w)
  <2>1. job'[w].pc # "value"
    BY <1>3, Course DEF Fresh
  <2>2. hist' = hist \cup {job[w].on} /\ UNCHANGED <<raw, known>> /\ job[w].on \in raw
    BY <1>3 DEF WriteValue, Identified
  <2>3. QED
    BY <1>1, <2>1, <2>2 DEF Others, Alike, Identified
<1>4. CASE ~Identify(w) /\ ~WriteValue(w)
  <2>1. UNCHANGED history
    BY <1>4, Beginning DEF Work, AddTags, ReadRef, FindEquip, Link, LinkBack, Linked, ReadTypes, RemoveType,
         ReadTags, AddClass, Declare, AskModel, AddGuess, Fail
  <2>2. job'[w].pc # "value"
    BY <1>4, Beginning, Course DEF Work, Fresh
  <2>3. QED
    BY <1>1, <2>1, <2>2 DEF Others, Alike, Identified, history
<1>5. QED
  BY <1>2, <1>3, <1>4

LEMMA RestartIdle ==
  ASSUME Typed, NEW k \in Process, Restart(k)
  PROVE  \A v \in Worker : job'[v] = job[v] \/ job'[v] = Idle
BY DEF Restart

LEMMA ReadsInductive == Typed /\ Reads /\ [Next]_vars => Reads'
<1> SUFFICES ASSUME Typed, Reads, [Next]_vars PROVE Reads'
  OBVIOUS
<1>1. ASSUME NEW w \in Worker, Begin(w) \/ Work(w) \/ Fail(w)
      PROVE  Reads'
  BY <1>1, EdgesReads, IdentityReads DEF Reads, ReadSideFirst
<1>2. ASSUME NEW k \in Process, Restart(k)
      PROVE  Reads'
  <2>1. \A i \in Process : known'[i] \subseteq known[i]
    BY <1>2 DEF Restart, Typed, TypeOK
  <2>2. \A v \in Worker : job'[v] = job[v] \/ job'[v].pc = "idle"
    BY <1>2, RestartIdle DEF Idle
  <2>3. UNCHANGED <<edges, raw, hist>>
    BY <1>2 DEF Restart, graph
  <2>4. QED
    BY <2>1, <2>2, <2>3 DEF Reads, Halves, Identified, ReadSideFirst
<1>3. CASE UNCHANGED vars
  BY <1>3 DEF vars, graph, history, Reads, Halves, Identified, ReadSideFirst
<1>4. QED
  BY <1>1, <1>2, <1>3 DEF Next

\* Whatever is broken off, and whoever writes at the same time: readers never
\* find a point that does not lead back to equipment they could have come from,
\* nor a value without its point's identity (ingest.py, link_point_to_equip,
\* link_part_of and _known_points).
THEOREM ReadersFirst == Spec => []ReadSideFirst
<1>1. Reads => ReadSideFirst
  BY DEF Reads
<1>2. QED
  BY <1>1, InitReads, ReadsInductive, AlwaysTyped, PTL DEF Spec
-----------------------------------------------------------------------------
(* Classes are rightful.                                                   *)

Justly == SeenStays /\ ClassJustified

LEMMA InitJustly == Init => Justly
BY DEF Init, Justly, SeenStays, ClassJustified, Idle

\* Tags are only added.
LEMMA TagsGrow ==
  ASSUME Typed, [Next]_vars
  PROVE  \A e \in Entity : tags[e] \subseteq tags'[e]
<1>1. ASSUME NEW w \in Worker, AddTags(w)
      PROVE  \A e \in Entity : tags[e] \subseteq tags'[e]
  BY <1>1 DEF AddTags, Typed, TypeOK
<1>2. ASSUME NEW w \in Worker, Begin(w) \/ Work(w) \/ Fail(w), ~AddTags(w)
      PROVE  tags' = tags
  BY <1>2, Beginning DEF Work, ReadRef, FindEquip, Link, LinkBack, Linked, ReadTypes, RemoveType, ReadTags,
       AddClass, Declare, AskModel, AddGuess, Identify, WriteValue, Fail, graph
<1>3. ASSUME NEW k \in Process, Restart(k)
      PROVE  tags' = tags
  BY <1>3 DEF Restart, graph
<1>4. CASE UNCHANGED vars
  BY <1>4 DEF vars, graph
<1>5. QED
  BY <1>1, <1>2, <1>3, <1>4 DEF Next

\* Classes that a step does not remove: those there were, and the ones it gives.
LEMMA TypesStep ==
  ASSUME Typed, NEW w \in Worker, Begin(w) \/ Work(w) \/ Fail(w)
  PROVE  \/ UNCHANGED types /\ ~AddClass(w) /\ ~AddGuess(w)
         \/ RemoveType(w) /\ \E t \in job[w].old : types' = [types EXCEPT ![job[w].on] = @ \ {t}]
         \/ /\ AddClass(w)
            /\ types' = [types EXCEPT ![job[w].on] = @ \cup {Classify(job[w].seen, RulesOf(job[w].on))}]
         \/ AddGuess(w) /\ types' = [types EXCEPT ![job[w].on] = @ \cup {Guessed}]
BY Beginning DEF Work, AddTags, ReadRef, FindEquip, Link, LinkBack, Linked, ReadTypes, RemoveType, ReadTags,
     AddClass, Declare, AskModel, AddGuess, Identify, WriteValue, Fail, graph

LEMMA SeenStep ==
  ASSUME Typed, SeenStays, NEW w \in Worker, Begin(w) \/ Work(w) \/ Fail(w)
  PROVE  SeenStays'
<1>1. Others(w)
  BY Beginning, Course
<1>2. \A e \in Entity : tags[e] \subseteq tags'[e]
  BY TagsGrow DEF Next
<1>3. ASSUME NEW v \in Worker, v # w, job'[v].pc \in {"class", "declare"}
      PROVE  job'[v].seen \subseteq tags'[job'[v].on]
  <2>1. job[v].pc = job'[v].pc /\ job[v].on = job'[v].on /\ job[v].seen = job'[v].seen
    BY <1>1, <1>3 DEF Others, Alike
  <2>2. job[v].on \in Entity
    BY <1>3, <2>1 DEF Typed, Fit
  <2>3. QED
    BY <1>2, <1>3, <2>1, <2>2 DEF SeenStays
<1>4. ASSUME job'[w].pc \in {"class", "declare"}
      PROVE  job'[w].seen \subseteq tags'[job'[w].on]
  <2>1. ReadTags(w) \/ AddClass(w)
    BY <1>4, Beginning, Course DEF Work, Fresh
  <2>2. CASE ReadTags(w)
    <3>1. job'[w] = [job[w] EXCEPT !.pc = "class", !.seen = tags[job[w].on]] /\ tags' = tags
      BY <2>2, MovesOthers DEF ReadTags, graph
    <3>2. job[w] \in Job
      BY DEF Typed, TypeOK
    <3>3. QED
      BY <3>1, <3>2 DEF Job
  <2>3. CASE AddClass(w)
    <3>1. Goes(w, "declare") \/ Goes(w, "ask") \/ Finishes(w)
      BY <2>3 DEF AddClass
    <3>2. Goes(w, "declare")
      <4>1. Goes(w, "ask") => job'[w].pc = "ask"
        BY GoesOthers
      <4>2. Finishes(w) => job'[w].pc \in {"idle", "read"}
        BY FinishesFresh DEF Fresh
      <4>3. QED
        BY <1>4, <3>1, <4>1, <4>2
    <3>3. job'[w].seen = job[w].seen /\ job'[w].on = job[w].on /\ tags' = tags /\ job[w].pc = "class"
      BY <2>3, <3>2, GoesOthers DEF AddClass
    <3>4. QED
      BY <3>3 DEF SeenStays
  <2>4. QED
    BY <2>1, <2>2, <2>3
<1>5. QED
  BY <1>3, <1>4 DEF SeenStays

LEMMA JustlyInductive == Typed /\ Justly /\ [Next]_vars => Justly'
<1> SUFFICES ASSUME Typed, Justly, [Next]_vars PROVE Justly'
  OBVIOUS
<1> DEFINE Just(e, t) == t.ns = "brick" /\ t # Guessed => RulesOf(e)[t.rule] \subseteq tags[e]
<1>1. ASSUME NEW e \in Entity, NEW t, Just(e, t)
      PROVE  Just(e, t)'
  BY <1>1, TagsGrow
<1>2. ASSUME NEW w \in Worker, Begin(w) \/ Work(w) \/ Fail(w)
      PROVE  Justly'
  <2>1. SeenStays'
    BY <1>2, SeenStep DEF Justly
  <2>2. ASSUME NEW e \in Entity, NEW t \in types'[e]
        PROVE  Just(e, t)'
    <3>1. CASE t \in types[e]
      BY <1>1, <3>1 DEF Justly, ClassJustified
    <3>2. CASE t \notin types[e] /\ t = Guessed
      BY <3>2
    <3>3. CASE t \notin types[e] /\ t # Guessed
      <4>1. AddClass(w) /\ e = job[w].on /\ t = Classify(job[w].seen, RulesOf(job[w].on))
        BY <1>2, <3>3, <2>2, TypesStep DEF Typed, TypeOK
      <4>2. job[w].pc = "class" /\ job[w].seen \subseteq tags[e]
        BY <4>1 DEF AddClass, Justly, SeenStays
      <4>3. Just(e, t)
        BY <4>1, <4>2, Outcome
      <4>4. QED
        BY <1>1, <4>3
    <3>4. QED
      BY <3>1, <3>2, <3>3
  <2>3. QED
    BY <2>1, <2>2 DEF Justly, ClassJustified
<1>3. ASSUME NEW k \in Process, Restart(k)
      PROVE  Justly'
  BY <1>3, RestartIdle DEF Restart, graph, Justly, SeenStays, ClassJustified, Idle
<1>4. CASE UNCHANGED vars
  BY <1>4 DEF vars, graph, Justly, SeenStays, ClassJustified
<1>5. QED
  BY <1>2, <1>3, <1>4 DEF Next

\* Whatever classifications race or break off, no class a rule gives is ever at
\* an entity that lacks one of the rule's tags (mapping.py:43).
THEOREM RightfullyClassified == Spec => []ClassJustified
<1>1. Justly => ClassJustified
  BY DEF Justly
<1>2. QED
  BY <1>1, InitJustly, JustlyInductive, AlwaysTyped, PTL DEF Spec
-----------------------------------------------------------------------------
(* The class that the tags call for is kept.                               *)

Called(e) == Classify(tags[e], RulesOf(e))

LEMMA InitKept == Init => KeptOrPending
BY DEF Init, KeptOrPending

\* An entity becomes settled by being read, and stops being so with new tags.
LEMMA SettledStep ==
  ASSUME Typed, NEW w \in Worker, Begin(w) \/ Work(w) \/ Fail(w), NEW e \in settled'
  PROVE  /\ e \in Entity /\ tags'[e] = tags[e]
         /\ e \in settled \/ (ReadTags(w) /\ e = job[w].on)
         /\ Fail(w) => e # job[w].on
<1>1. CASE AddTags(w)
  <2>1. settled' = IF job[w].tags \subseteq tags[job[w].on] THEN settled ELSE settled \ {job[w].on}
    BY <1>1 DEF AddTags
  <2>2. e \in settled /\ e \in Entity
    BY <2>1 DEF Typed, TypeOK
  <2>3. tags' = [tags EXCEPT ![job[w].on] = @ \cup job[w].tags]
    BY <1>1 DEF AddTags
  <2>4. e = job[w].on => job[w].tags \subseteq tags[e]
    BY <2>1
  <2>5. tags'[e] = tags[e]
    BY <2>2, <2>3, <2>4 DEF Typed, TypeOK
  <2>6. job[w].pc = "tag" /\ job[w].on \in Entity
    BY <1>1 DEF AddTags, Typed, Fit
  <2>7. failures' = failures /\ failures \in Nat
    BY <1>1, InputAssumption DEF AddTags, Typed, TypeOK
  <2>8. ~Fail(w)
    BY <2>7 DEF Fail
  <2>9. QED
    BY <2>2, <2>5, <2>8
<1>2. CASE ReadTags(w)
  <2>1. e \in settled \cup {job[w].on} /\ tags' = tags /\ failures' = failures /\ job[w].pc = "read"
    BY <1>2 DEF ReadTags, graph
  <2>2. job[w].on \in Entity /\ failures \in Nat
    BY <2>1, InputAssumption DEF Typed, TypeOK, Fit
  <2>3. ~Fail(w)
    BY <2>1, <2>2 DEF Fail
  <2>4. QED
    BY <1>2, <2>1, <2>2, <2>3 DEF Typed, TypeOK
<1>3. CASE Fail(w)
  BY <1>3 DEF Fail, graph, Typed, TypeOK
<1>4. CASE ~AddTags(w) /\ ~ReadTags(w) /\ ~Fail(w)
  <2>1. UNCHANGED <<tags, settled>>
    BY <1>4, Beginning DEF Work, ReadRef, FindEquip, Link, LinkBack, Linked, ReadTypes, RemoveType,
         AddClass, Declare, AskModel, AddGuess, Identify, WriteValue, graph
  <2>2. QED
    BY <1>4, <2>1 DEF Typed, TypeOK
<1>5. QED
  BY <1>1, <1>2, <1>3, <1>4

LEMMA KeptStep ==
  ASSUME Typed, KeptOrPending, NEW w \in Worker, Begin(w) \/ Work(w) \/ Fail(w), NEW e \in settled'
  PROVE  Called(e)' \in types'[e] \/ Pending(e)'
<1> DEFINE j == job[w]
<1>1. Others(w) /\ j \in Job
  BY Beginning, Course DEF Typed, TypeOK
<1>2. e \in Entity /\ tags'[e] = tags[e] /\ Called(e)' = Called(e)
  BY SettledStep DEF Called
<1>3. CASE ReadTags(w) /\ e = j.on
  <2>1. job'[w] = [j EXCEPT !.pc = "class", !.seen = tags[j.on]]
    BY <1>3, MovesOthers DEF ReadTags
  <2>2. job'[w].pc = "class" /\ job'[w].on = e /\ job'[w].seen = tags'[e]
    BY <1>1, <1>2, <1>3, <2>1 DEF Job
  <2>3. QED
    BY <2>2 DEF Pending
<1>4. CASE RemoveType(w) /\ e = j.on
  <2>1. job'[w].on = e
    <3>1. CASE Goes(w, "read")
      BY <1>4, <3>1, GoesOthers
    <3>2. ASSUME NEW t, Moves(w, [j EXCEPT !.old = @ \ {t}])
          PROVE  job'[w].on = e
      <4>1. job'[w] = [j EXCEPT !.old = @ \ {t}]
        BY <3>2, MovesOthers
      <4>2. QED
        BY <1>1, <1>4, <4>1 DEF Job
    <3>3. QED
      BY <1>4, <3>1, <3>2 DEF RemoveType
  <2>2. job'[w].pc \in {"remove", "read"}
    BY <1>4, Course
  <2>3. QED
    BY <2>1, <2>2 DEF Pending
<1>5. CASE ~(ReadTags(w) /\ e = j.on) /\ ~(RemoveType(w) /\ e = j.on)
  <2>1. Called(e) \in types[e] \/ Pending(e)
    BY <1>5, SettledStep DEF KeptOrPending, Called
  <2>2. types[e] \subseteq types'[e]
    BY <1>2, <1>5, TypesStep DEF Typed, TypeOK
  <2>3. ASSUME NEW v \in Worker, v # w, job[v].on = e,
               job[v].pc \in {"remove", "read"} \/ (job[v].pc = "class" /\ job[v].seen = tags[e])
        PROVE  Pending(e)'
    <3>1. job'[v].on = e /\ job'[v].pc = job[v].pc /\ job'[v].seen = job[v].seen
      BY <1>1, <2>3 DEF Others, Alike
    <3>2. QED
      BY <1>2, <2>3, <3>1 DEF Pending
  <2>4. ASSUME j.on = e, j.pc \in {"remove", "read"} \/ (j.pc = "class" /\ j.seen = tags[e])
        PROVE  Called(e) \in types'[e]
    <3>1. ~Fail(w)
      BY <2>4, SettledStep
    <3>2. AddClass(w)
      BY <2>4, <3>1, <1>5, Beginning DEF Work, AddTags, ReadRef, FindEquip, Link, LinkBack, Linked, ReadTypes,
           RemoveType, ReadTags, Declare, AskModel, AddGuess, Identify, WriteValue
    <3>3. j.seen = tags[e] /\ types' = [types EXCEPT ![e] = @ \cup {Called(e)}]
      BY <2>4, <3>2 DEF AddClass, Called
    <3>4. QED
      BY <1>2, <3>3 DEF Typed, TypeOK
  <2>5. QED
    BY <1>2, <2>1, <2>2, <2>3, <2>4 DEF Pending
<1>6. QED
  BY <1>3, <1>4, <1>5

LEMMA KeptInductive == Typed /\ KeptOrPending /\ [Next]_vars => KeptOrPending'
<1> SUFFICES ASSUME Typed, KeptOrPending, [Next]_vars PROVE KeptOrPending'
  OBVIOUS
<1>1. ASSUME NEW w \in Worker, Begin(w) \/ Work(w) \/ Fail(w)
      PROVE  KeptOrPending'
  BY <1>1, KeptStep DEF KeptOrPending, Called
<1>2. ASSUME NEW k \in Process, Restart(k)
      PROVE  KeptOrPending'
  <2>1. \A v \in Worker : job'[v] = IF Kind[v] = k THEN Idle ELSE job[v]
    BY <1>2 DEF Restart
  <2>2. settled' = settled \ {job[v].on : v \in {x \in Worker : Kind[x] = k}} /\ UNCHANGED <<tags, types>>
    BY <1>2 DEF Restart, graph
  <2>3. \A e \in settled' : Pending(e) => Pending(e)'
    BY <2>1, <2>2 DEF Pending
  <2>4. QED
    BY <2>2, <2>3 DEF KeptOrPending
<1>3. CASE UNCHANGED vars
  BY <1>3 DEF vars, graph, KeptOrPending, Pending
<1>4. QED
  BY <1>1, <1>2, <1>3 DEF Next

\* However reclassifications race with each other and with new tags: when all is
\* quiet about an entity that was read since its last new tag, unbroken, the class
\* its tags call for is there (mapping.reclassify, classify_point_with_fallback).
THEOREM ClassIsKept == Spec => []ClassKept
<1>1. KeptOrPending => ClassKept
  <2> SUFFICES ASSUME KeptOrPending, NEW e \in settled, ~Working(e)
               PROVE  Classify(tags[e], RulesOf(e)) \in types[e]
    BY DEF ClassKept
  <2>1. ~Pending(e)
    BY DEF Pending, Working
  <2>2. QED
    BY <2>1 DEF KeptOrPending
<1>2. QED
  BY <1>1, InitKept, KeptInductive, AlwaysTyped, PTL DEF Spec
-----------------------------------------------------------------------------
(* Merged equipment.                                                       *)

LEMMA InitMutual == Init => Mutual
BY DEF Init, Mutual

\* Failures are counted.
LEMMA Failing ==
  ASSUME Typed, (\E w \in Worker : Fail(w)) \/ (\E k \in Process : Restart(k))
  PROVE  failures' # failures /\ failures' # 0
<1>1. failures \in Nat
  BY InputAssumption DEF Typed, TypeOK
<1>2. failures' = failures + 1
  BY DEF Fail, Restart
<1>3. QED
  BY <1>1, <1>2

LEMMA MutualInductive == Typed /\ Reads /\ Mutual /\ [Next]_vars => Mutual'
<1> SUFFICES ASSUME Typed, Reads, Mutual, [Next]_vars PROVE Mutual'
  OBVIOUS
<1>1. ASSUME NEW w \in Worker, Begin(w) \/ Work(w), failures' = 0,
             NEW t \in edges', t[2] = "sameAs"
      PROVE  Back(t) \in edges' \/ \E v \in Worker : job'[v].pc = "inverse" /\ t \in job'[v].half
  <2>1. Others(w) /\ failures = 0
    BY <1>1, Beginning, Course DEF Work, AddTags, ReadRef, FindEquip, Link, LinkBack, Linked, ReadTypes, RemoveType,
         ReadTags, AddClass, Declare, AskModel, AddGuess, Identify, WriteValue
  <2>2. edges \subseteq edges' /\ (~Link(w) /\ ~LinkBack(w) => edges' = edges)
    BY <1>1, Beginning DEF Work, AddTags, ReadRef, FindEquip, Link, LinkBack, Linked, ReadTypes, RemoveType,
         ReadTags, AddClass, Declare, AskModel, AddGuess, Identify, WriteValue, graph
  <2>3. CASE t \in edges
    <3>1. Back(t) \in edges \/ \E v \in Worker : job[v].pc = "inverse" /\ t \in job[v].half
      BY <1>1, <2>1, <2>3 DEF Mutual
    <3>2. CASE job[w].pc = "inverse" /\ t \in job[w].half
      <4>1. LinkBack(w)
        BY <1>1, <3>2, Beginning DEF Work, AddTags, ReadRef, FindEquip, Link, Linked, ReadTypes, RemoveType,
             ReadTags, AddClass, Declare, AskModel, AddGuess, Identify, WriteValue
      <4>2. edges' = edges \cup {Back(h) : h \in job[w].half}
        BY <4>1 DEF LinkBack
      <4>3. QED
        BY <3>2, <4>2
    <3>3. QED
      BY <2>1, <2>2, <3>1, <3>2 DEF Others, Alike
  <2>4. CASE t \notin edges /\ Link(w)
    <3>1. PICK u \in job[w].links : /\ edges' = edges \cup {u}
                                    /\ Moves(w, [job[w] EXCEPT !.pc = "inverse", !.links = @ \ {u}, !.half = {u}])
      BY <2>4 DEF Link
    <3>2. job'[w] = [job[w] EXCEPT !.pc = "inverse", !.links = @ \ {u}, !.half = {u}] /\ job[w] \in Job
      BY <3>1, MovesOthers DEF Typed, TypeOK
    <3>3. job'[w].pc = "inverse" /\ job'[w].half = {u} /\ t = u
      BY <1>1, <2>4, <3>1, <3>2 DEF Job
    <3>4. QED
      BY <3>3
  <2>5. CASE t \notin edges /\ LinkBack(w)
    <3>1. job[w].half \subseteq edges /\ job[w].half \subseteq Forward /\ edges' = edges \cup {Back(h) : h \in job[w].half}
      BY <2>5 DEF LinkBack, Reads, Halves, Typed, TypeOK, Job
    <3>2. PICK h \in job[w].half : t = Back(h)
      BY <1>1, <2>5, <3>1
    <3>3. Back(t) = h
      BY <3>1, <3>2, BackType
    <3>4. QED
      BY <3>1, <3>2, <3>3
  <2>6. QED
    BY <1>1, <2>2, <2>3, <2>4, <2>5
<1>2. ASSUME NEW w \in Worker, Begin(w) \/ Work(w)
      PROVE  Mutual'
  BY <1>1, <1>2 DEF Mutual
<1>3. ASSUME (\E w \in Worker : Fail(w)) \/ (\E k \in Process : Restart(k))
      PROVE  Mutual'
  <2>1. failures' # 0
    BY <1>3, Failing
  <2>2. QED
    BY <2>1 DEF Mutual
<1>4. CASE UNCHANGED vars
  BY <1>4 DEF vars, graph, Mutual
<1>5. QED
  BY <1>2, <1>3, <1>4 DEF Next

\* What is merged is merged both ways, when every merge is two-sided.
LEMMA SameOfSame ==
  ASSUME Typed, \A t \in edges : t[2] = "sameAs" => Back(t) \in edges,
         NEW e \in Entity, NEW x \in Same(e)
  PROVE  Same(x) = Same(e)
<1> DEFINE Closed(S) == \A t \in edges : t[1] \in S /\ t[2] = "sameAs" => t[3] \in S
<1>1. \A y \in Entity : \A z \in Same(y) : \A S \in SUBSET Entity : y \in S /\ Closed(S) => z \in S
  BY DEF Same
<1>2. x \in Entity
  BY DEF Same
<1>3. ASSUME NEW S \in SUBSET Entity, x \in S, Closed(S), e \notin S
      PROVE  FALSE
  <2>1. ASSUME NEW t \in edges, t[1] \in Entity \ S, t[2] = "sameAs"
        PROVE  t[3] \in Entity \ S
    <3>1. t[3] \in Entity
      BY DEF Typed, TypeOK
    <3>2. Opposite["sameAs"] = "sameAs"
      BY DEF Opposite
    <3>3. Back(t) = <<t[3], "sameAs", t[1]>> /\ Back(t) \in edges
      BY <2>1, <3>2 DEF Back
    <3>4. t[3] \in S => t[1] \in S
      BY <1>3, <3>3
    <3>5. QED
      BY <2>1, <3>1, <3>4
  <2>2. Closed(Entity \ S) /\ e \in Entity \ S
    BY <1>3, <2>1
  <2>3. x \in Entity \ S
    BY <1>1, <2>2
  <2>4. QED
    BY <1>3, <2>3
<1>4. \A S \in SUBSET Entity : Closed(S) => (x \in S <=> e \in S)
  BY <1>1, <1>3
<1>5. QED
  BY <1>4 DEF Same

\* Both names of merged equipment lead to the same points, whoever writes at the
\* time, once no merge is half done (ingest.merge_equip, points_of_equip).
THEOREM MergedAgree == Spec => []MergedSeeAll
<1>1. Typed /\ Mutual => MergedSeeAll
  <2> SUFFICES ASSUME Typed, Mutual, failures = 0, \A w \in Worker : job[w].pc # "inverse",
                      NEW e \in Equip, NEW x \in Same(e)
               PROVE  PointsOf(x) = PointsOf(e)
    BY DEF MergedSeeAll
  <2>1. \A t \in edges : t[2] = "sameAs" => Back(t) \in edges
    BY DEF Mutual
  <2>2. Same(x) = Same(e)
    BY <2>1, SameOfSame DEF Entity
  <2>3. QED
    BY <2>2 DEF PointsOf
<1>2. QED
  BY <1>1, InitReads, ReadsInductive, InitMutual, MutualInductive, AlwaysTyped, PTL DEF Spec
-----------------------------------------------------------------------------
(* A reclassification that nobody came between.                            *)

LEMMA InitLone == Init => LoneCleared
BY DEF Init, LoneCleared, Idle

LEMMA LoneOthers ==
  ASSUME Typed, LoneCleared, NEW w \in Worker, Begin(w) \/ Work(w) \/ Fail(w),
         NEW v \in Worker, v # w, job'[v].alone
  PROVE  /\ job'[v].pc \in {"remove", "read", "class", "declare", "ask", "guess"}
         /\ job'[v].pc = "remove" => types'[job'[v].on] \subseteq job'[v].old
         /\ job'[v].pc \in {"read", "class"} => types'[job'[v].on] = {}
<1>1. Others(w)
  BY Beginning, Course
<1>2. job[v].alone /\ job[v].on # job[w].on /\ Alike(job'[v], job[v])
  BY <1>1 DEF Others
<1>3. job[v].pc # "idle"
  BY <1>2 DEF LoneCleared
<1>4. job[v].on \in Entity
  BY <1>3 DEF Typed, Fit
<1>5. types'[job[v].on] = types[job[v].on]
  BY <1>2, <1>4, TypesStep DEF Typed, TypeOK
<1>6. QED
  BY <1>2, <1>5 DEF LoneCleared, Alike

LEMMA LoneOwn ==
  ASSUME Typed, LoneCleared, NEW w \in Worker, Begin(w) \/ Work(w) \/ Fail(w), job'[w].alone
  PROVE  /\ job'[w].pc \in {"remove", "read", "class", "declare", "ask", "guess"}
         /\ job'[w].pc = "remove" => types'[job'[w].on] \subseteq job'[w].old
         /\ job'[w].pc \in {"read", "class"} => types'[job'[w].on] = {}
<1> DEFINE j == job[w]
<1>1. j \in Job /\ ~Fresh(job'[w]) /\ ~Begin(w)
  BY Beginning DEF Typed, TypeOK, Fresh
<1>2. CASE ReadTypes(w)
  <2>1. job'[w] = [j EXCEPT !.pc = "remove", !.old = types[j.on], !.alone = TRUE] /\ types' = types
    BY <1>2, MovesOthers DEF ReadTypes, graph
  <2>2. job'[w].pc = "remove" /\ job'[w].old = types'[job'[w].on]
    BY <1>1, <2>1 DEF Job
  <2>3. QED
    BY <2>2
<1>3. CASE RemoveType(w)
  <2>1. j.pc = "remove" /\ j.on \in Entity
    BY <1>3 DEF RemoveType, Typed, Fit
  <2>2. ASSUME NEW t \in j.old, types' = [types EXCEPT ![j.on] = @ \ {t}], Moves(w, [j EXCEPT !.old = @ \ {t}])
        PROVE  job'[w].pc = "remove" /\ types'[job'[w].on] \subseteq job'[w].old
    <3>1. job'[w] = [j EXCEPT !.old = @ \ {t}]
      BY <2>2, MovesOthers
    <3>2. job'[w].old = j.old \ {t} /\ job'[w].on = j.on /\ job'[w].pc = "remove" /\ j.alone
      BY <1>1, <2>1, <3>1 DEF Job
    <3>3. types[j.on] \subseteq j.old
      BY <2>1, <3>2 DEF LoneCleared
    <3>4. types'[j.on] = types[j.on] \ {t}
      BY <2>1, <2>2 DEF Typed, TypeOK
    <3>5. QED
      BY <3>2, <3>3, <3>4
  <2>3. ASSUME j.old = {}, Goes(w, "read"), UNCHANGED types
        PROVE  job'[w].pc = "read" /\ types'[job'[w].on] = {}
    <3>1. job'[w].pc = "read" /\ job'[w].on = j.on /\ j.alone
      BY <2>3, GoesOthers
    <3>2. types[j.on] \subseteq j.old
      BY <2>1, <3>1 DEF LoneCleared
    <3>3. QED
      BY <2>3, <3>1, <3>2
  <2>4. QED
    BY <1>3, <2>2, <2>3 DEF RemoveType
<1>4. CASE ReadTags(w)
  <2>1. job'[w] = [j EXCEPT !.pc = "class", !.seen = tags[j.on]] /\ types' = types /\ j.pc = "read"
    BY <1>4, MovesOthers DEF ReadTags, graph
  <2>2. job'[w].pc = "class" /\ job'[w].on = j.on /\ j.alone
    BY <1>1, <2>1 DEF Job
  <2>3. QED
    BY <2>1, <2>2 DEF LoneCleared
<1>5. CASE AddClass(w) \/ Declare(w) \/ AskModel(w)
  <2>1. job'[w].pc \in {"declare", "ask", "guess"}
    BY <1>1, <1>5, Course
  <2>2. QED
    BY <2>1
<1>6. ASSUME AddTags(w) \/ ReadRef(w) \/ FindEquip(w) \/ Link(w) \/ LinkBack(w) \/ Linked(w)
             \/ Identify(w) \/ WriteValue(w) \/ AddGuess(w) \/ Fail(w)
      PROVE  FALSE
  <2>1. AddGuess(w) \/ Fail(w) \/ WriteValue(w) => FALSE
    BY <1>1, Course
  <2>2. j.pc \in {"tag", "ref", "find", "link", "inverse", "identify"}
    BY <1>6, <2>1 DEF AddTags, ReadRef, FindEquip, Link, LinkBack, Linked, Identify
  <2>3. ~j.alone
    BY <2>2 DEF LoneCleared
  <2>4. job'[w].alone = j.alone
    <3>1. CASE AddTags(w)
      BY <3>1, GoesOthers DEF AddTags
    <3>2. ASSUME ReadRef(w), NEW r, Moves(w, [j EXCEPT !.pc = "find", !.ref = r])
          PROVE  job'[w].alone = j.alone
      <4>1. job'[w] = [j EXCEPT !.pc = "find", !.ref = r]
        BY <3>2, MovesOthers
      <4>2. QED
        BY <1>1, <4>1 DEF Job
    <3>3. CASE ReadRef(w)
      BY <3>2, <3>3, GoesOthers DEF ReadRef
    <3>4. CASE FindEquip(w)
      <4>1. \E links : job'[w] = [j EXCEPT !.pc = "link", !.links = links]
        BY <3>4, MovesOthers DEF FindEquip
      <4>2. QED
        BY <1>1, <4>1 DEF Job
    <3>5. ASSUME Link(w), NEW t, Moves(w, [j EXCEPT !.pc = "inverse", !.links = @ \ {t}, !.half = {t}])
          PROVE  job'[w].alone = j.alone
      <4>1. job'[w] = [j EXCEPT !.pc = "inverse", !.links = @ \ {t}, !.half = {t}]
        BY <3>5, MovesOthers
      <4>2. QED
        BY <1>1, <4>1 DEF Job
    <3>6. CASE Link(w)
      BY <3>5, <3>6 DEF Link
    <3>7. CASE LinkBack(w)
      <4>1. job'[w] = [j EXCEPT !.pc = "link", !.half = {}]
        BY <3>7, MovesOthers DEF LinkBack
      <4>2. QED
        BY <1>1, <4>1 DEF Job
    <3>8. CASE Linked(w)
      BY <1>1, <3>8, GoesOthers, FinishesFresh DEF Linked
    <3>9. CASE Identify(w)
      BY <3>9, GoesOthers DEF Identify
    <3>10. QED
      BY <1>6, <2>1, <3>1, <3>3, <3>4, <3>6, <3>7, <3>8, <3>9
  <2>5. QED
    BY <2>3, <2>4
<1>7. QED
  BY <1>1, <1>2, <1>3, <1>4, <1>5, <1>6 DEF Work

LEMMA LoneInductive == Typed /\ LoneCleared /\ [Next]_vars => LoneCleared'
<1> SUFFICES ASSUME Typed, LoneCleared, [Next]_vars PROVE LoneCleared'
  OBVIOUS
<1>1. ASSUME NEW w \in Worker, Begin(w) \/ Work(w) \/ Fail(w)
      PROVE  LoneCleared'
  BY <1>1, LoneOthers, LoneOwn DEF LoneCleared
<1>2. ASSUME NEW k \in Process, Restart(k)
      PROVE  LoneCleared'
  <2>1. types' = types /\ Idle.alone = FALSE
    BY <1>2 DEF Restart, graph, Idle
  <2>2. QED
    BY <1>2, <2>1, RestartIdle DEF LoneCleared
<1>3. CASE UNCHANGED vars
  BY <1>3 DEF vars, graph, LoneCleared
<1>4. QED
  BY <1>1, <1>2, <1>3 DEF Next

\* A reclassification that no other step on the entity came between leaves the
\* one class (tests/test_tags_route.py:115).
THEOREM LoneReplaces == Spec => LoneReclassifyReplaces
<1> DEFINE Replaces ==
      \A w \in Worker : job[w].pc = "class" /\ job[w].alone /\ job'[w].pc # "class" /\ failures' = failures
        => Cardinality(types'[job[w].on]) = 1
<1>1. Typed /\ LoneCleared /\ [Next]_vars => [Replaces]_vars
  <2> SUFFICES ASSUME Typed, LoneCleared, [Next]_vars, NEW w \in Worker,
                      job[w].pc = "class", job[w].alone, job'[w].pc # "class", failures' = failures
               PROVE  Cardinality(types'[job[w].on]) = 1
    OBVIOUS
  <2>1. ~UNCHANGED vars /\ ~(\E v \in Worker : Fail(v)) /\ ~(\E k \in Process : Restart(k))
    BY Failing DEF vars
  <2>2. PICK v \in Worker : Begin(v) \/ Work(v)
    BY <2>1 DEF Next
  <2>3. v = w
    BY <2>2, Beginning, Course DEF Others, Alike
  <2>4. AddClass(w)
    BY <2>2, <2>3, Beginning DEF Work, AddTags, ReadRef, FindEquip, Link, LinkBack, Linked, ReadTypes,
         RemoveType, ReadTags, Declare, AskModel, AddGuess, Identify, WriteValue
  <2>5. types[job[w].on] = {} /\ job[w].on \in Entity
    BY DEF LoneCleared, Typed, Fit
  <2>6. \E c : types'[job[w].on] = {c}
    BY <2>4, <2>5 DEF AddClass, Typed, TypeOK
  <2>7. QED
    BY <2>6, FS_Singleton
<1>2. QED
  BY <1>1, InitLone, LoneInductive, AlwaysTyped, PTL DEF Spec, LoneReclassifyReplaces
-----------------------------------------------------------------------------
(* A point tagged after its equipment came.                                *)

LEMMA InitWay == Init => OnItsWay
BY DEF Init, OnItsWay, Way, Idle

\* What is known of equipment and of equipRefs only grows.
LEMMA GraphGrows ==
  ASSUME Typed, NEW w \in Worker, Begin(w) \/ Work(w) \/ Fail(w)
  PROVE  /\ edges \subseteq edges'
         /\ \A p \in Point : refs[p] \subseteq refs'[p]
         /\ ~AddTags(w) => refs' = refs
         /\ \A r \in Equip : Exists(r) => Exists(r)'
<1>1. edges \subseteq edges' /\ (~AddTags(w) => refs' = refs)
  BY Beginning DEF Work, AddTags, ReadRef, FindEquip, Link, LinkBack, Linked, ReadTypes, RemoveType, ReadTags,
       AddClass, Declare, AskModel, AddGuess, Identify, WriteValue, Fail, graph
<1>2. \A p \in Point : refs[p] \subseteq refs'[p]
  BY <1>1 DEF AddTags
<1>3. \A r \in Equip : tags[r] \subseteq tags'[r] /\ types[r] \subseteq types'[r]
  <2> TAKE r \in Equip
  <2>1. r \in Entity /\ r \notin Point
    BY SizeAssumption DEF Entity
  <2>2. RemoveType(w) => job[w].on # r
    BY <2>1 DEF RemoveType, Typed, Fit
  <2>3. types[r] \subseteq types'[r]
    BY <2>1, <2>2, TypesStep DEF Typed, TypeOK
  <2>4. tags[r] \subseteq tags'[r]
    BY <2>1, TagsGrow DEF Next
  <2>5. QED
    BY <2>3, <2>4
<1>4. QED
  BY <1>1, <1>2, <1>3 DEF Exists

\* A thread carries what its entity is and what had come for it.
LEMMA Carries ==
  ASSUME Typed, NEW w \in Worker, Work(w) \/ Fail(w)
  PROVE  \/ Fresh(job'[w])
         \/ job'[w].on = job[w].on /\ job'[w].tags = job[w].tags /\ job'[w].there = job[w].there
<1> DEFINE j == job[w]
           Same3(k) == k.on = j.on /\ k.tags = j.tags /\ k.there = j.there
<1>1. j \in Job
  BY DEF Typed, TypeOK
<1>2. CASE AddTags(w) \/ Linked(w) \/ AddClass(w) \/ Declare(w) \/ AskModel(w) \/ Identify(w)
  <2>1. (\E pc : Goes(w, pc)) \/ Finishes(w)
    BY <1>2 DEF AddTags, Linked, AddClass, Declare, AskModel, Identify
  <2>2. QED
    BY <2>1, GoesOthers, FinishesFresh
<1>3. CASE ReadRef(w)
  <2>1. ASSUME NEW r, Moves(w, [j EXCEPT !.pc = "find", !.ref = r])
        PROVE  Same3(job'[w])
    <3>1. job'[w] = [j EXCEPT !.pc = "find", !.ref = r]
      BY <2>1, MovesOthers
    <3>2. QED
      BY <1>1, <3>1 DEF Job
  <2>2. QED
    BY <1>3, <2>1, GoesOthers DEF ReadRef
<1>4. CASE FindEquip(w)
  <2>1. \E links : job'[w] = [j EXCEPT !.pc = "link", !.links = links]
    BY <1>4, MovesOthers DEF FindEquip
  <2>2. QED
    BY <1>1, <2>1 DEF Job
<1>5. CASE Link(w)
  <2>1. ASSUME NEW t, Moves(w, [j EXCEPT !.pc = "inverse", !.links = @ \ {t}, !.half = {t}])
        PROVE  Same3(job'[w])
    <3>1. job'[w] = [j EXCEPT !.pc = "inverse", !.links = @ \ {t}, !.half = {t}]
      BY <2>1, MovesOthers
    <3>2. QED
      BY <1>1, <3>1 DEF Job
  <2>2. QED
    BY <1>5, <2>1 DEF Link
<1>6. CASE LinkBack(w)
  <2>1. job'[w] = [j EXCEPT !.pc = "link", !.half = {}]
    BY <1>6, MovesOthers DEF LinkBack
  <2>2. QED
    BY <1>1, <2>1 DEF Job
<1>7. CASE ReadTypes(w)
  <2>1. job'[w] = [j EXCEPT !.pc = "remove", !.old = types[j.on], !.alone = TRUE]
    BY <1>7, MovesOthers DEF ReadTypes
  <2>2. QED
    BY <1>1, <2>1 DEF Job
<1>8. CASE RemoveType(w)
  <2>1. ASSUME NEW t, Moves(w, [j EXCEPT !.old = @ \ {t}])
        PROVE  Same3(job'[w])
    <3>1. job'[w] = [j EXCEPT !.old = @ \ {t}]
      BY <2>1, MovesOthers
    <3>2. QED
      BY <1>1, <3>1 DEF Job
  <2>2. QED
    BY <1>8, <2>1, GoesOthers DEF RemoveType
<1>9. CASE ReadTags(w)
  <2>1. job'[w] = [j EXCEPT !.pc = "class", !.seen = tags[j.on]]
    BY <1>9, MovesOthers DEF ReadTags
  <2>2. QED
    BY <1>1, <2>1 DEF Job
<1>10. CASE AddGuess(w) \/ WriteValue(w) \/ Fail(w)
  BY <1>10, Course
<1>11. QED
  BY <1>2, <1>3, <1>4, <1>5, <1>6, <1>7, <1>8, <1>9, <1>10 DEF Work

LEMMA WayOthers ==
  ASSUME Typed, NEW w \in Worker, Begin(w) \/ Work(w) \/ Fail(w),
         NEW v \in Worker, v # w, Way(job[v])
  PROVE  Way(job[v])'
<1>1. Alike(job'[v], job[v]) /\ job[v].there \subseteq Equip
  BY Beginning, Course DEF Others, Typed, TypeOK, Job
<1> DEFINE p == job[v].on
<1>2. SUFFICES ASSUME p \in Point, job[v].tags # {}, NEW r \in job[v].there
               PROVE  /\ Exists(r)'
                      /\ job[v].pc = "tag" => r = job[v].ref \/ r \in refs'[p]
                      /\ job[v].pc \in {"ref", "find", "link", "inverse"} => r \in refs'[p]
                      /\ job[v].pc = "find" => job[v].ref \in refs'[p]
                      /\ job[v].pc \in {"link", "inverse"} /\ refs'[p] = {r} =>
                           <<r, "hasPoint", p>> \in edges' \cup job[v].links
  BY <1>1 DEF Way, Alike
<1>3. refs[p] \subseteq refs'[p] /\ edges \subseteq edges' /\ (Exists(r) => Exists(r)')
  BY <1>1, <1>2, GraphGrows
<1>4. QED
  BY <1>2, <1>3 DEF Way

\* Once the thread is past the links, only that the equipment is there counts.
LEMMA WayBeyond ==
  ASSUME Typed, NEW w \in Worker, Begin(w) \/ Work(w) \/ Fail(w), Way(job[w]),
         job'[w].on = job[w].on, job'[w].tags = job[w].tags, job'[w].there = job[w].there,
         job'[w].pc \notin {"tag", "ref", "find", "link", "inverse"}
  PROVE  Way(job[w])'
<1>1. job[w].there \subseteq Equip
  BY DEF Typed, TypeOK, Job
<1>2. \A r \in job[w].there : Exists(r) => Exists(r)'
  BY <1>1, GraphGrows
<1>3. QED
  BY <1>2 DEF Way

LEMMA WayOwn ==
  ASSUME Typed, NEW w \in Worker, Begin(w) \/ Work(w) \/ Fail(w), Way(job[w])
  PROVE  Way(job[w])'
<1> DEFINE j == job[w]
           p == j.on
           k == job'[w]
<1>1. j \in Job /\ j.there \subseteq Equip
  BY DEF Typed, TypeOK, Job
<1>2. CASE Begin(w)
  <2>1. UNCHANGED <<tags, refs, types, edges>>
    BY <1>2, Beginning DEF graph
  <2>2. \A r : Exists(r) => Exists(r)'
    BY <2>1 DEF Exists
  <2>3. QED
    BY <1>2, <2>1, <2>2, Beginning DEF Way
<1>3. CASE Fresh(job'[w])
  BY <1>3 DEF Way, Fresh
<1>4. CASE ~Begin(w) /\ ~Fresh(job'[w])
  <2>1. Work(w) /\ k.on = p /\ k.tags = j.tags /\ k.there = j.there
    BY <1>4, Carries, Course
  <2>2. SUFFICES ASSUME p \in Point, j.tags # {},
                        k.pc \in {"tag", "ref", "find", "link", "inverse"}
                 PROVE  Way(job[w])'
    BY <2>1, WayBeyond DEF Way
  <2>3. AddTags(w) \/ ReadRef(w) \/ FindEquip(w) \/ Link(w) \/ LinkBack(w)
    BY <1>4, <2>1, <2>2, Course DEF Work
  <2>4. j.pc \in {"tag", "ref", "find", "link", "inverse"}
    BY <2>3 DEF AddTags, ReadRef, FindEquip, Link, LinkBack
  <2>5. ASSUME NEW r \in j.there
        PROVE  /\ Exists(r)'
               /\ k.pc \in {"ref", "find", "link", "inverse"} /\ r \in refs'[p]
               /\ k.pc = "find" => k.ref \in refs'[p]
               /\ k.pc \in {"link", "inverse"} /\ refs'[p] = {r} => <<r, "hasPoint", p>> \in edges' \cup k.links
    <3>1. Exists(r) /\ Exists(r)' /\ r \in Equip
      BY <1>1, <2>2, <2>5, GraphGrows DEF Way
    <3>2. CASE AddTags(w)
      <4>1. Goes(w, "ref") /\ r # NoRef /\ j.pc = "tag"
        BY <2>2, <3>1, <3>2, InputAssumption DEF AddTags, Entity
      <4>2. r = j.ref \/ r \in refs[p]
        BY <2>2, <2>5, <4>1 DEF Way
      <4>3. refs'[p] = IF j.ref # NoRef THEN refs[p] \cup {j.ref} ELSE refs[p]
        BY <2>2, <3>2 DEF AddTags
      <4>4. k.pc = "ref"
        BY <4>1, GoesOthers
      <4>5. QED
        BY <3>1, <4>1, <4>2, <4>3, <4>4
    <3>3. CASE ~AddTags(w)
      <4>1. refs' = refs /\ edges \subseteq edges'
        BY <3>3, GraphGrows
      <4>2. r \in refs[p]
        BY <2>2, <2>3, <2>5, <3>3 DEF Way, ReadRef, FindEquip, Link, LinkBack
      <4>3. CASE ReadRef(w)
        <5>1. PICK s \in refs[p] : Moves(w, [j EXCEPT !.pc = "find", !.ref = s])
          BY <4>2, <4>3 DEF ReadRef
        <5>2. k = [j EXCEPT !.pc = "find", !.ref = s]
          BY <5>1, MovesOthers
        <5>3. k.pc = "find" /\ k.ref = s
          BY <1>1, <5>2 DEF Job
        <5>4. QED
          BY <3>1, <4>1, <4>2, <5>1, <5>3
      <4>4. CASE FindEquip(w)
        <5>1. j.pc = "find" /\ k = [j EXCEPT !.pc = "link",
                                       !.links = IF Exists(j.ref) THEN {<<j.ref, "hasPoint", p>>} ELSE {}]
          BY <4>4, MovesOthers DEF FindEquip
        <5>2. k.pc = "link" /\ k.links = IF Exists(j.ref) THEN {<<j.ref, "hasPoint", p>>} ELSE {}
          BY <1>1, <5>1 DEF Job
        <5>3. j.ref \in refs[p]
          BY <2>2, <2>5, <5>1 DEF Way
        <5>4. QED
          BY <3>1, <4>1, <4>2, <5>2, <5>3
      <4>5. CASE Link(w)
        <5>1. PICK t \in j.links : /\ edges' = edges \cup {t} /\ j.pc = "link"
                                   /\ Moves(w, [j EXCEPT !.pc = "inverse", !.links = @ \ {t}, !.half = {t}])
          BY <4>5 DEF Link
        <5>2. k = [j EXCEPT !.pc = "inverse", !.links = @ \ {t}, !.half = {t}]
          BY <5>1, MovesOthers
        <5>3. k.pc = "inverse" /\ k.links = j.links \ {t}
          BY <1>1, <5>2 DEF Job
        <5>4. refs[p] = {r} => <<r, "hasPoint", p>> \in edges \cup j.links
          BY <2>2, <2>5, <5>1 DEF Way
        <5>5. QED
          BY <3>1, <4>1, <4>2, <5>1, <5>3, <5>4
      <4>6. CASE LinkBack(w)
        <5>1. k = [j EXCEPT !.pc = "link", !.half = {}] /\ j.pc = "inverse"
          BY <4>6, MovesOthers DEF LinkBack
        <5>2. k.pc = "link" /\ k.links = j.links
          BY <1>1, <5>1 DEF Job
        <5>3. refs[p] = {r} => <<r, "hasPoint", p>> \in edges \cup j.links
          BY <2>2, <2>5, <5>1 DEF Way
        <5>4. QED
          BY <3>1, <4>1, <4>2, <5>2, <5>3
      <4>7. QED
        BY <2>3, <3>3, <4>3, <4>4, <4>5, <4>6
    <3>4. QED
      BY <3>2, <3>3
  <2>6. QED
    BY <2>1, <2>5 DEF Way
<1>5. QED
  BY <1>2, <1>3, <1>4

LEMMA WayInductive == Typed /\ OnItsWay /\ [Next]_vars => OnItsWay'
<1> SUFFICES ASSUME Typed, OnItsWay, [Next]_vars PROVE OnItsWay'
  OBVIOUS
<1>1. ASSUME NEW w \in Worker, Begin(w) \/ Work(w) \/ Fail(w)
      PROVE  OnItsWay'
  BY <1>1, WayOthers, WayOwn DEF OnItsWay
<1>2. ASSUME NEW k \in Process, Restart(k)
      PROVE  OnItsWay'
  <2>1. UNCHANGED <<tags, refs, types, edges>> /\ Idle.tags = {}
    BY <1>2 DEF Restart, graph, Idle
  <2>2. QED
    BY <1>2, <2>1, RestartIdle DEF OnItsWay, Way, Exists
<1>3. CASE UNCHANGED vars
  BY <1>3 DEF vars, graph, OnItsWay, Way, Exists
<1>4. QED
  BY <1>1, <1>2, <1>3 DEF Next

\* A point that is tagged after its equipment has come, and has no second
\* equipRef, is linked to it when the links are done, whatever is broken off
\* elsewhere and whoever else tags it (mqtt_listener.py:116, link_equip_ref).
THEOREM RetaggedLinked == Spec => RetaggedIsLinked
<1> DEFINE Arrived ==
      \A w \in Worker :
        LET j == job[w] IN
        /\ j.pc = "link" /\ j.links = {} /\ job'[w].pc # "link" /\ failures' = failures
        /\ j.on \in Point /\ j.tags # {}
        => \A r \in j.there : refs[j.on] = {r} => <<r, "hasPoint", j.on>> \in edges
<1>1. OnItsWay => [Arrived]_vars
  BY DEF OnItsWay, Way
<1>2. QED
  BY <1>1, InitWay, WayInductive, AlwaysTyped, PTL DEF Spec, RetaggedIsLinked
=============================================================================
