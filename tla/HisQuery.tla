------------------------------ MODULE HisQuery ------------------------------
(***************************************************************************)
(* ingest_api.py's GET /his: hisquery.run_query against the graph store    *)
(* and the history table, read by read, while both are being written. No   *)
(* snapshot holds the reads of one request together.                       *)
(*                                                                         *)
(* A fact of the graph is <<s, p, v>>, a row of point_history is           *)
(* [point, ts, v, unit]; a value is <<kind, it>> and a reference the IRI   *)
(* it stands for, or <<"bare", id>>.                                       *)
(* What a store makes of a comparison of two kinds is its own and is left  *)
(* out: the values of a tag are of one kind.                               *)
(***************************************************************************)
EXTENDS HisParser, BrickVocab, FiniteSetsExt

CONSTANTS Low,         \* the lower case of each name
          ClassLike,   \* the names with a capital or an underscore (_looks_like_class)
          NearMiss,    \* the names that are almost a word of Brick's
          ValueOf,     \* of each value token
          SpanOf,      \* of each span text, <<>> for today: [start, end]
          UriOrder,    \* the subjects, as Python sorts them
          MaxLimit,
          Fact, Row,   \* what may be written while a request runs
          MaxWrites

VARIABLES world,    \* the vendored Brick and the declarations of the graph
          store,    \* [facts, rows]
          request,  \* [expr, limit]
          pc, query, graph, matched, points, meta,
          reply,
          seen,     \* the contents of the stores since the request came
          writes

hisVars == <<world, store, request, pc, query, graph, matched, points, meta, reply, seen, writes>>

StructuralAliases == {"point", "equip", "site"}
None == "none"
LabelOnly == "label only"    \* a row with a label and no unit

\* Everything in the graph, declarations included.
Triples(facts) ==
  facts \union {<<d[2], IF d[1] = "type" THEN "a" ELSE d[1], d[3]>> : d \in world.decl}
Subjects(f) == {x[1] : x \in f}
Having(f, p, v) == {x[1] : x \in {y \in f : y[2] = p /\ y[3] = v}}
EquipUri(ref) == IF ref[1] = "bare" THEN <<"equip", ref[2]>> ELSE ref

Compare(v, op, w) ==
  /\ v[1] = w[1]
  /\ CASE op = "==" -> v = w
       [] op = "!=" -> v # w
       [] op = "<" -> v[2] < w[2]
       [] op = "<=" -> v[2] <= w[2]
       [] op = ">" -> v[2] > w[2]
       [] op = ">=" -> v[2] >= w[2]

\* _structural alias: what is a point, an equipment or a site by its place in the graph.
ByStructure(n, f) ==
  CASE n = "point" -> Having(f, "a", <<"td", "RawPoint">>) \union {x[1] : x \in {y \in f : y[2] = "isPointOf"}}
    [] n = "equip" -> {x[1] : x \in {y \in f : y[2] = "hasPoint"}}
    [] n = "site" -> Having(f, "a", Brick("site"))
    [] OTHER -> {}

\* _has: the tag as it is written, the classes the name stands for, the structure.
TypedAsAny(f, g, classes) ==
  LET meant == Expand(g, classes) IN {x[1] : x \in {y \in f : y[2] = "a" /\ y[3] \in meant}}
HasName(n, f, g) ==
  Having(f, "hasTag", n)
  \union TypedAsAny(f, g, IF n \in ClassLike THEN NamedClasses(world.brick, g, Low[n])
                          ELSE WordClasses(world.brick, g, Low[n]))
  \union ByStructure(n, f)

\* _cmp: the tags of a reference compare by id, and != is the rest of the graph; a
\* value compares with every value the subject has.
\* Mutant: an equipment is not found by the edges of its points.
CompareNameTagsOnly(n, op, t, f) ==
  LET v == ValueOf[t]
      equal == IF n = "id" THEN {v} \intersect Subjects(f) ELSE Having(f, n, v)
  IN IF t \in Reference THEN IF op = "==" THEN equal ELSE Subjects(f) \ equal
     ELSE {x[1] : x \in {y \in f : y[2] = n /\ Compare(y[3], op, v)}}
CompareName(n, op, t, f) ==
  LET v == ValueOf[t]
      equal == IF n = "id" THEN {v} \intersect Subjects(f)
               ELSE Having(f, n, v) \union (IF n = "equipRef" THEN Having(f, "isPointOf", EquipUri(v)) ELSE {})
  IN IF t \in Reference THEN IF op = "==" THEN equal ELSE Subjects(f) \ equal
     ELSE {x[1] : x \in {y \in f : y[2] = n /\ Compare(y[3], op, v)}}

\* compile_filter: sets of subjects, and Boolean operations on them.
RECURSIVE Selected(_, _, _)
Selected(x, f, g) ==
  CASE x[1] = "has" -> HasName(x[2], f, g)
    [] x[1] = "cmp" -> CompareName(x[2], x[3], x[4], f)
    [] x[1] = "not" -> Subjects(f) \ Selected(x[2], f, g)
    [] x[1] = "and" -> Selected(x[2], f, g) \intersect Selected(x[3], f, g)
    [] x[1] = "or" -> Selected(x[2], f, g) \union Selected(x[3], f, g)

RECURSIVE HasNames(_)
HasNames(x) ==
  CASE x[1] = "has" -> {x[2]}
    [] x[1] = "cmp" -> {}
    [] x[1] = "not" -> HasNames(x[2])
    [] OTHER -> HasNames(x[2]) \union HasNames(x[3])

\* hints_for_empty_result: never for a word that Brick or the graph has.
IsKnown(n, g) ==
  \/ ClassesNamed(g, Low[n]) # {}
  \/ n \in ClassLike /\ Low[n] \in world.brick.classes
  \/ n \notin ClassLike /\ \/ CanonicalTag(world.brick, Low[n]) # {} \/ ClassesTagged(g, Low[n]) # {}
                           \/ Image(world.brick.rules, {Low[n]}) # {}
Hints(x, g) == {n \in HasNames(x) \ StructuralAliases : n \in NearMiss /\ ~IsKnown(n, g)}
-----------------------------------------------------------------------------
(* timeseries.py                                                           *)

InRange(rows, p, span) == {r \in rows : r.point = p /\ span.start <= r.ts /\ r.ts < span.end}
Earliest(rows, n) == {r \in rows : Cardinality({x \in rows : x.ts < r.ts}) < n}

\* read_range_many: one row more than the limit tells whether there are more.
\* Mutant: only limit rows are fetched.
ReadRangeLimit(rows, p, span, limit) ==
  LET got == Earliest(InRange(rows, p, span), limit)
  IN [history |-> {<<r.ts, r.v>> : r \in Earliest(got, limit)}, truncated |-> Cardinality(got) > limit]
ReadRange(rows, p, span, limit) ==
  LET got == Earliest(InRange(rows, p, span), limit + 1)
  IN [history |-> {<<r.ts, r.v>> : r \in Earliest(got, limit)}, truncated |-> Cardinality(got) > limit]

\* read_rollup: date_bin from the start of the span; text is not folded.
AsNumber(v) == IF v[1] = "bool" THEN (IF v[2] THEN 1 ELSE 0) ELSE v[2]
Folded(fold, rows) ==
  LET values == {AsNumber(r.v) : r \in rows}
      sum == MapThenSumSet(LAMBDA r : AsNumber(r.v), rows)
  IN CASE fold = "count" -> Cardinality(rows)
       [] fold = "sum" -> sum
       [] fold = "avg" -> <<sum, Cardinality(rows)>>
       [] fold = "min" -> Min(values)
       [] fold = "max" -> Max(values)
ReadRollup(rows, p, span, fold, n) ==
  LET numeric == {r \in InRange(rows, p, span) : r.v[1] # "text"}
      Bucket(r) == span.start + ((r.ts - span.start) \div n) * n
  IN {<<b, Folded(fold, {r \in numeric : Bucket(r) = b})>> : b \in {Bucket(r) : r \in numeric}}
-----------------------------------------------------------------------------
(* The request, one read of a store at a time.                             *)

Reply(r) == reply' = r /\ pc' = "done"
RequestComes ==
  /\ pc = "idle" /\ query = Failed /\ graph = None /\ matched = {} /\ points = {} /\ meta = <<>>
  /\ reply = None /\ seen = {} /\ writes \in 0..MaxWrites

\* _get_his and parse_query, which reads no store.
Accept ==
  /\ pc = "idle"
  /\ seen' = {store}
  /\ query' = ParseQuery(request.expr)
  /\ IF request.limit \in 1..MaxLimit /\ query'.ok THEN pc' = "vocab" /\ UNCHANGED reply
     ELSE Reply([status |-> 400])
  /\ UNCHANGED <<world, store, request, graph, matched, points, meta, writes>>

ReadVocab ==
  /\ pc = "vocab"
  /\ graph' = GraphVocab(world.decl)
  /\ pc' = "match"
  /\ UNCHANGED <<world, store, request, query, matched, points, meta, reply, seen, writes>>

\* match_entities: what the graph declares is dropped after the query. A read
\* takes the first match, and is a 404 without one.
\* Mutant: the first match is taken before the declarations are dropped.
TakenEarly(found) ==
  LET first == SelectInSeq(UriOrder, LAMBDA u : u \in found)
  IN {s \in IF query.query.mode = "read" /\ first > 0 THEN {UriOrder[first]} ELSE found : ~IsSchema(graph, s)}
Taken(found) ==
  LET entities == {s \in found : ~IsSchema(graph, s)}
      first == SelectInSeq(UriOrder, LAMBDA u : u \in entities)
  IN IF query.query.mode = "read" /\ first > 0 THEN {UriOrder[first]} ELSE entities
Match ==
  /\ pc = "match"
  /\ matched' = Taken(Selected(query.query.filter, Triples(store.facts), graph))
  /\ IF query.query.mode = "read" /\ matched' = {} THEN Reply([status |-> 404])
     ELSE pc' = "points" /\ UNCHANGED reply
  /\ UNCHANGED <<world, store, request, query, graph, points, meta, seen, writes>>

\* expand_to_points: the points that matched, and those of the equipment, through
\* the merges that start at it.
\* Mutant: the equipment it was merged into is not looked at.
PointsOfOwn(f, entities) ==
  {s \in entities : s[1] = "point"} \union {x[3] : x \in {y \in f : y[2] = "hasPoint" /\ y[1] \in entities}}
PointsOf(f, entities) ==
  LET same == Reached({<<x[1], x[3]>> : x \in {y \in f : y[2] = "sameAs"}}, entities)
  IN {s \in entities : s[1] = "point"} \union {x[3] : x \in {y \in f : y[2] = "hasPoint" /\ y[1] \in same}}
ExpandToPoints ==
  /\ pc = "points"
  /\ points' = PointsOf(store.facts, matched)
  /\ pc' = "describe"
  /\ UNCHANGED <<world, store, request, query, graph, matched, meta, reply, seen, writes>>

\* describe_points; SAMPLE takes any of several units.
Units(f, p) == {x[3] : x \in {y \in f : y[1] = p /\ y[2] = "unit"}}
DescribePoints ==
  /\ pc = "describe"
  /\ \E unit \in [points -> UNION {Units(store.facts, p) : p \in points} \union {None}] :
       /\ \A p \in points : IF Units(store.facts, p) = {} THEN unit[p] = None
                             ELSE unit[p] \in Units(store.facts, p)
       /\ meta' = unit
  /\ pc' = "labels"
  /\ UNCHANGED <<world, store, request, query, graph, matched, points, reply, seen, writes>>

\* read_point_labels: what the last row with a unit or a label has, whatever the span.
LabelUnit(rows, p) ==
  LET labelled == {r \in rows : r.point = p /\ r.unit # None}
      last == CHOOSE r \in labelled : \A x \in labelled : x.ts <= r.ts
  IN IF labelled = {} \/ last.unit = LabelOnly THEN None ELSE last.unit
ReadLabels ==
  /\ pc = "labels"
  /\ meta' = [p \in points |-> IF meta[p] # None THEN meta[p] ELSE LabelUnit(store.rows, p)]
  /\ pc' = "history"
  /\ UNCHANGED <<world, store, request, query, graph, matched, points, reply, seen, writes>>

Series(rows) ==
  LET q == query.query
      span == SpanOf[q.span]
  IN [p \in points |->
        IF q.rollup = <<>> THEN [unit |-> meta[p], data |-> ReadRange(rows, p, span, request.limit)]
        ELSE [unit |-> meta[p],
              data |-> ReadRollup(rows, p, span, q.rollup[1], ValueOf[q.rollup[2]][2])]]
ReadHistory ==
  /\ pc = "history"
  /\ Reply([status |-> 200, matched |-> matched, series |-> Series(store.rows),
            hints |-> IF matched = {} THEN Hints(query.query.filter, graph) ELSE {}])
  /\ UNCHANGED <<world, store, request, query, graph, matched, points, meta, seen, writes>>

\* The writers: readings and their rows, edits of the graph.
Toggled(S, x) == IF x \in S THEN S \ {x} ELSE S \union {x}
Write ==
  /\ pc \in {"vocab", "match", "points", "describe", "labels", "history"} /\ writes < MaxWrites
  /\ \/ \E f \in Fact : store' = [store EXCEPT !.facts = Toggled(@, f)]
     \/ \E r \in Row : store' = [store EXCEPT !.rows = Toggled(@, r)]
  /\ seen' = seen \union {store'}
  /\ writes' = writes + 1
  /\ UNCHANGED <<world, request, pc, query, graph, matched, points, meta, reply>>

HisNext ==
  \/ Accept \/ ReadVocab \/ Match \/ ExpandToPoints \/ DescribePoints \/ ReadLabels \/ ReadHistory
  \/ Write
-----------------------------------------------------------------------------
(* What a query asks for, one subject at a time.                           *)

TypesOf(s, f) == {x[3] : x \in {y \in f : y[1] = s /\ y[2] = "a"}}
IsEntity(s) == s \notin Mentioned(world.decl) /\ s[1] \notin {"brick", "tag", "w3"}

\* What the entity says of a ref-valued tag; of its equipment also by its edge.
RefsOf(s, tag, f) ==
  {y[3] : y \in {z \in f : z[1] = s /\ z[2] = tag}}
  \union {y[3] : y \in {z \in f : tag = "equipRef" /\ z[1] = s /\ z[2] = "isPointOf"}}
RefersTo(s, tag, ref, f) ==
  \/ <<s, tag, ref>> \in f
  \/ tag = "equipRef" /\ <<s, "isPointOf", EquipUri(ref)>> \in f

\* missing is what a != says of an entity without the ref-valued tag: false
\* (his-query.mdx:175, "a comparison on a tag the entity doesn't have is false").
RECURSIVE Holds(_, _, _, _)
Holds(x, s, f, missing) ==
  CASE x[1] = "has" ->
         \/ <<s, "hasTag", x[2]>> \in f
         \/ s \in ByStructure(x[2], f)
         \/ \E c \in TypesOf(s, f) :
              IF x[2] \in ClassLike THEN MeantByClass(world.brick, world.decl, c, Low[x[2]])
              ELSE MeantByWord(world.brick, world.decl, c, Low[x[2]])
    [] x[1] = "cmp" /\ x[2] = "id" -> (s = ValueOf[x[4]]) <=> (x[3] = "==")
    [] x[1] = "cmp" /\ x[2] # "id" /\ x[4] \in Reference ->
         IF RefsOf(s, x[2], f) = {} THEN x[3] = "!=" /\ missing
         ELSE RefersTo(s, x[2], ValueOf[x[4]], f) <=> (x[3] = "==")
    [] x[1] = "cmp" /\ x[2] # "id" /\ x[4] \notin Reference ->
         \E y \in f : y[1] = s /\ y[2] = x[2] /\ Compare(y[3], x[3], ValueOf[x[4]])
    [] x[1] = "not" -> ~Holds(x[2], s, f, missing)
    [] x[1] = "and" -> Holds(x[2], s, f, missing) /\ Holds(x[3], s, f, missing)
    [] x[1] = "or" -> Holds(x[2], s, f, missing) \/ Holds(x[3], s, f, missing)

EntitiesIf(x, facts, missing) ==
  {s \in Subjects(Triples(facts)) : IsEntity(s) /\ Holds(x, s, Triples(facts), missing)}
Entities(x, facts) == EntitiesIf(x, facts, FALSE)

\* What the filter finds does not turn on an entity without a tag it compares.
TagsAreThere(x, facts) == EntitiesIf(x, facts, TRUE) = Entities(x, facts)

\* A point is an equipment's, or one's it is declared the same as.
IsPointOf(facts, p, e) ==
  \/ p = e /\ e[1] = "point"
  \/ \E d \in Reached({<<x[1], x[3]>> : x \in {y \in facts : y[2] = "sameAs"}}, {e}) :
       <<d, "hasPoint", p>> \in facts

\* The rows of a point that fall in the span, and what a bucket holds of them.
Wanted(rows, p, span) == {r \in rows : r.point = p /\ r.ts \in span.start..(span.end - 1)}
DataOf(rows, p, q) ==
  LET all == Wanted(rows, p, SpanOf[q.span])
      n == ValueOf[q.rollup[2]][2]
      numeric == {r \in all : r.v[1] # "text"}
      start == SpanOf[q.span].start
  IN IF q.rollup = <<>>
     THEN [history |-> {<<r.ts, r.v>> : r \in {x \in all : Cardinality({y \in all : y.ts <= x.ts}) <= request.limit}},
           truncated |-> Cardinality(all) > request.limit]
     ELSE {<<b, Folded(q.rollup[1], {r \in numeric : b <= r.ts /\ r.ts < b + n})>> :
             b \in {c \in {start + k * n : k \in 0..SpanOf[q.span].end} :
                      \E r \in numeric : c <= r.ts /\ r.ts < c + n}}
UnitsOf(st, p) ==
  IF Units(st.facts, p) # {} THEN Units(st.facts, p) ELSE {LabelUnit(st.rows, p)}

\* What a request for q whose filter finds these entities is answered.
Answers(q, found) ==
  IF q.mode = "read" /\ found = {} THEN reply.status = 404
  ELSE /\ reply.status = 200
       /\ IF q.mode = "read" THEN Cardinality(reply.matched) = 1 /\ reply.matched \subseteq found
          ELSE reply.matched = found
       /\ DOMAIN reply.series =
            {p \in found \union {x[3] : x \in {y \in store.facts : y[2] = "hasPoint"}} :
               \E e \in reply.matched : IsPointOf(store.facts, p, e)}
       /\ \A p \in DOMAIN reply.series :
            /\ reply.series[p].unit \in UnitsOf(store, p)
            /\ reply.series[p].data = DataOf(store.rows, p, q)
       /\ reply.hints = {n \in HasNames(q.filter) \intersect NearMiss : found = {} /\ ~IsKnown(n, graph)}

Asked == IF request.limit \in 1..MaxLimit THEN Queries(request.expr) ELSE {}
Undisturbed == pc = "done" /\ Cardinality(seen) = 1 /\ AliasesStayOutside(world.decl)
Exact ==
  \/ Asked = {} /\ reply.status = 400
  \/ \E q \in Asked, found \in {Entities(x.filter, store.facts) : x \in Asked} : Answers(q, found)

\* Of a request while which nothing is written: it is refused if and only if its
\* grammar is or its limit is out of bounds; what matches is what the filter says
\* of each entity, with Brick and the graph's extension as one hierarchy read from
\* the entity's class upwards (his-query.mdx:56-88, 119-150); a read takes one
\* match or is a 404; and the reply has the points of all that matched, each with
\* its unit and the earliest of its samples of the span, or their buckets, and
\* says truncated when there are more.  Of filters that find the same whatever a
\* != says of a missing tag ...
QuietExact == Undisturbed /\ (\A q \in Asked : TagsAreThere(q.filter, store.facts)) => Exact

\* ... and of the others: "x != 1 doesn't match recs with no x" (his-query.mdx:176).
\* Not so for a reference: hisquery.py:702 takes ! of a test that is false of them.
MissingTagUnmatched == Undisturbed => Exact

\* Of a readAll while which the stores change: a point is served if it was a point
\* of a matching entity all through the request, and only if that entity matched at
\* one moment of it and had the point at one moment of it; and of its samples the
\* reply has none that was never there.
ReplyBracketed ==
  /\ pc = "done" /\ reply.status = 200 /\ query.query.mode = "readAll" /\ AliasesStayOutside(world.decl)
  /\ \A st \in seen : TagsAreThere(query.query.filter, st.facts)
  =>
    LET x == query.query.filter
        Ever(e) == \E st \in seen : e \in Entities(x, st.facts)
        Always(e) == \A st \in seen : e \in Entities(x, st.facts)
        subjects == UNION {Subjects(st.facts) : st \in seen}
        rows == UNION {st.rows : st \in seen}
    IN /\ \A p \in DOMAIN reply.series :
            \E e \in subjects : Ever(e) /\ \E st \in seen : IsPointOf(st.facts, p, e)
       /\ \A e, p \in subjects :
            Always(e) /\ (\A st \in seen : IsPointOf(st.facts, p, e)) => p \in DOMAIN reply.series
       /\ query.query.rollup = <<>> =>
            \A p \in DOMAIN reply.series : \A h \in reply.series[p].data.history :
              \E r \in rows : r.point = p /\ <<r.ts, r.v>> = h
=============================================================================
