------------------------------ MODULE MCReads ------------------------------
(***************************************************************************)
(* The read side: an initial state is an expression to parse, a span to    *)
(* resolve, a request to GET /his or a request to GET /status.             *)
(***************************************************************************)
EXTENDS HisQuery, HisSpan, OpsStatus

vars == <<input, hisVars, opsVars>>

NoInput == [of |-> None]
HisIdle ==
  /\ world = None /\ store = None /\ request = None /\ pc = "off" /\ query = Failed /\ graph = None
  /\ matched = {} /\ points = {} /\ meta = <<>> /\ reply = None /\ seen = {} /\ writes = 0
OpsIdle ==
  /\ answers = <<>> /\ db = <<>> /\ phase = "off" /\ building = Unknown /\ results = <<>>
  /\ summary = None /\ past = {} /\ changes = 0
-----------------------------------------------------------------------------
(* Spans.                                                                  *)

N(name) == [kind |-> "named", name |-> name]
W(date) == [kind |-> "written", date |-> date]
R(a, b) == [kind |-> "range", from |-> a, to |-> b]

\* UTC; UTC-5 with the change at 2:00 local; UTC-3 with the change at midnight.
Utc == [winter |-> 0, from |-> 0, until |-> 0]
Zones == {Utc,
          [winter |-> -5, from |-> 24 * Day(2024, 3, 10) + 7, until |-> 24 * Day(2024, 11, 3) + 6],
          [winter |-> -3, from |-> 24 * Day(2024, 2, 25) + 3, until |-> 24 * Day(2024, 12, 31) + 2]}
Written == {W(x) : x \in {<<2024>>, <<2024, 2>>, <<2023, 12>>, <<2024, 2, 29>>, <<2023, 2, 29>>, <<2024, 13>>}}
Ranges == {R(W(<<2024, 2>>), W(<<2024, 3>>)), R(N("thisMonth"), N("today")),
           R(N("today"), N("lastWeek")), R(N("today"), N("thisFortnight")), R(W(<<2024, 3, 1>>), W(<<2024, 2, 29>>))}
\* The days around the ends of the months of a leap year and its changes of time.
Todays == (Day(2023, 12, 28)..Day(2024, 1, 3)) \union (Day(2024, 2, 24)..Day(2024, 3, 12))
          \union UNION {{Day(2024, m, 1) - 1, Day(2024, m, 1), Day(2024, m, 3)} : m \in 1..12}
SpanInput ==
  [of : {"span"}, text : {N(x) : x \in Named}, now : {24 * o + h : o \in Todays, h \in {3, 12}}, zone : Zones]
  \union [of : {"span"}, text : Written \union Ranges \union {N("thisFortnight")},
          now : {24 * Day(2024, 3, 3) + 3}, zone : Zones]

-----------------------------------------------------------------------------
(* Expressions. The spans and intervals that are valid are those that      *)
(* HisSpan resolves.                                                       *)

SpanText ==
  (<<"today">> :> N("today")) @@ (<<"today", "(", ")">> :> N("today")) @@ (<<"2024-02">> :> W(<<2024, 2>>))
  @@ (<<"2024-13">> :> W(<<2024, 13>>)) @@ (<<"nope">> :> N("nope"))
  @@ (<<"2024-02", "..", "2024-02-29">> :> R(W(<<2024, 2>>), W(<<2024, 2, 29>>)))
  @@ (<<"2024-02-29", "..", "2024-01">> :> R(W(<<2024, 2, 29>>), W(<<2024, 1>>)))
MCValidSpan == {t \in DOMAIN SpanText : ResolveSpan(SpanText[t], 24 * Day(2000, 1, 1), Utc).ok}
Interval(t) == CASE t = "2h" -> ParseInterval(2, "h")
                 [] t = "0h" -> ParseInterval(0, "h")
                 [] t = "12mo" -> ParseInterval(12, "mo")
                 [] t = "2mo" -> ParseInterval(2, "mo")
                 [] OTHER -> Refused
MCNumber == {"1", "2h", "0h", "12mo", "2mo"}
MCValidInterval == {t \in MCNumber : Interval(t).ok}
MCQuoted == {"'s'"}
MCReference == {"@e", "@h", "@p"}
MCClassLike == {"AHU", "Equipment", "HRU", "Fan_Status"}
MCName == {"a", "id", "x", "read", "readAll", "hisRead", "hisRollup", "today", "nope"} \union Fold \union MCClassLike
          \union {"ahu", "hru", "rotor", "temp", "temperture", "run", "point", "equip", "site", "equipRef"}

\* Every sequence of up to four tokens, of up to five of the filter's, and the
\* calls after a source in all their orders.
UpTo(n, S) == UNION {[1..k -> S] : k \in 1..n}
Sources == {<<"a">>, <<"read">>, <<"read", "(", "a", ")">>, <<"readAll", "(", "a", "or", "a", ")">>, <<"read", "(", "a">>}
Chunks == {<<".">>, <<"(">>, <<")">>, <<"hisRead">>, <<"today">>}
          \union {HisRead(t) : t \in DOMAIN SpanText}
          \union {HisRollup(f, t) : f \in {"avg", "a"}, t \in {"12mo", "2mo", "0h", "1"}}
Expressions ==
  UpTo(4, {"a", "id", "and", "or", "not", "(", ")", "==", "<", "1", "@e", "true", "->"})
  \union UpTo(5, {"a", "and", "or", "not", "(", ")", "=="})
  \union {x \o FlattenSeq(y) : x \in Sources, y \in UpTo(3, Chunks)}
ParseInput == [of : {"expression"}, expr : Expressions]

ParsesAsGrammar == input.of = "expression" => ReadAsGrammar(input.expr)
-----------------------------------------------------------------------------
(* Requests to GET /his.                                                   *)

MCLow == [n \in MCName |-> CASE n = "AHU" -> "ahu" [] n = "Equipment" -> "equipment" [] n = "HRU" -> "hru"
                             [] n = "Fan_Status" -> "fan_status" [] OTHER -> n]
MCSpelling == {<<"temp", "temperature">>, <<"equip", "equipment">>}

E == <<"equip", "e">>
F == <<"equip", "h">>
P == <<"point", "p">>
Q == <<"point", "q">>
Heat == <<"acme", "heat_recovery">>
Hru == <<"acme", "hru">>
Owl == <<"w3", "class">>

MCValueOf == [t \in MCNumber \union MCQuoted \union MCReference \union Bool |->
                CASE t = "@e" -> E [] t = "@h" -> <<"bare", "h">> [] t = "@p" -> P
                  [] t = "2h" -> <<"num", 2>> [] t = "1" -> <<"num", 1>>
                  [] t \in Bool -> <<"bool", t = "true">> [] OTHER -> <<"text", t>>]
MCSpanOf == [t \in MCValidSpan \union {<<>>} |-> IF t = <<"2024-02">> THEN [start |-> 0, end |-> 3]
                                                ELSE [start |-> 1, end |-> 4]]
MCUriOrder == <<Heat, Hru, <<"brick", "new">>, E, F, P, Q>>

\* Brick: a chain with an alias, and the same with its alias written both ways, a
\* second parent and a deprecated class.
Brick1 == [classes |-> {"equipment", "air_handling_unit", "ahu", "rooftop", "temperature_sensor"},
           parents |-> {<<"air_handling_unit", "equipment">>, <<"rooftop", "air_handling_unit">>},
           equivalents |-> {<<"ahu", "air_handling_unit">>},
           own_tags |-> {<<"air_handling_unit", "ahu">>, <<"equipment", "equipment">>,
                         <<"temperature_sensor", "temperature">>},
           tags |-> {"ahu", "equipment", "temperature"}, rules |-> {<<"run", "fan_status">>}]
Brick2 == [Brick1 EXCEPT !.classes = @ \union {"fan_status", "zone_sensor"},
                         !.parents = @ \union {<<"rooftop", "ahu">>, <<"rooftop", "gone">>},
                         !.equivalents = @ \union {<<"air_handling_unit", "ahu">>, <<"zone_sensor", "temperature_sensor">>},
                         !.own_tags = @ \union {<<"fan_status", "equipment">>}]
Extension == {<<"subClassOf", Heat, Brick("air_handling_unit")>>, <<"equivalentClass", Hru, Heat>>,
              <<"hasAssociatedTag", Heat, Tag("rotor")>>, <<"type", Heat, Owl>>,
              <<"subClassOf", Brick("new"), Brick("equipment")>>}
AliasOfBrick == {<<"equivalentClass", Hru, Brick("air_handling_unit")>>}
Worlds == [brick : {Brick1, Brick2}, decl : {{}, Extension, AliasOfBrick}]

\* The building: classes of the equipment and of a point, the edges between them,
\* merges, tags and values.
Links == {<<E, "hasPoint", P>>, <<P, "isPointOf", E>>, <<E, "sameAs", F>>, <<F, "hasPoint", Q>>}
Extras == {<<E, "hasTag", "ahu">>, <<P, "x", <<"num", 1>>>>, <<P, "unit", "F">>, <<Q, "equipRef", <<"bare", "h">>>>,
           <<P, "hasTag", "temp">>}
Typed(s, classes) == {{}} \union {{<<s, "a", c>>} : c \in classes}
Types == {t \union u : t \in Typed(E, {Brick("rooftop"), Brick("ahu"), Heat, Hru}),
                       u \in Typed(P, {Brick("temperature_sensor"), Brick("fan_status"), <<"td", "RawPoint">>})}
MCFact == {<<E, "a", Brick("rooftop")>>, <<E, "hasPoint", P>>, <<E, "sameAs", F>>, <<F, "hasPoint", Q>>,
           <<P, "hasTag", "temp">>}

Sample(p, ts, v, unit) == [point |-> p, ts |-> ts, v |-> v, unit |-> unit]
Rows == {Sample(P, 0, <<"num", 3>>, "kW"), Sample(P, 1, <<"num", 2>>, None), Sample(P, 3, <<"bool", TRUE>>, "F"),
         Sample(P, 4, <<"num", 1>>, LabelOnly), Sample(P, 2, <<"text", "on">>, None), Sample(Q, 1, <<"num", 5>>, "kW")}
MCRow == {Sample(P, 1, <<"num", 2>>, None), Sample(P, 3, <<"bool", TRUE>>, "F")}

Call(mode, f) == <<mode, "(">> \o f \o <<")">>
Filters == {<<n>> : n \in {"AHU", "ahu", "Equipment", "HRU", "hru", "rotor", "temp", "temperture", "run", "point",
                          "equip", "Fan_Status"}}
           \union {<<"not", "point">>, <<"ahu", "and", "not", "HRU">>, <<"id", "==", "@p">>, <<"equipRef", "==", "@e">>,
                   <<"equipRef", "!=", "@h">>, <<"point", "and", "equipRef", "!=", "@h">>, <<"x", "!=", "1">>, <<"x", ">=", "1">>, <<"equip", "or", "site">>}
Reads == {Call("readAll", <<"point">>) \o SpanCall(t) \o RollupCall(r) :
            t \in {<<>>, <<"2024-02">>}, r \in {<<>>} \union (Fold \X {"2h"})}
Quiet == [expr : {Call(m, f) : m \in {"read", "readAll"}, f \in Filters} \union {<<"not">>}, limit : {1}]
MCMaxLimit == 3

HisRequest ==
  /\ RequestComes
  /\ \/ /\ world \in Worlds /\ request \in Quiet /\ writes = MaxWrites
        /\ store \in [facts : {t \union l \union x : t \in Types, l \in {{}, Links}, x \in {{}, Extras}},
                      rows : {{Sample(P, 1, <<"num", 2>>, None)}}]
     \/ /\ world = [brick |-> Brick1, decl |-> {}] /\ writes = MaxWrites
        /\ request \in [expr : Reads, limit : 0..(MCMaxLimit + 1)]
        /\ store \in [facts : {Links}, rows : SUBSET Rows]
     \/ /\ world = [brick |-> Brick1, decl |-> Extension] /\ writes = 0
        /\ request \in [expr : {<<"AHU">>, <<"not", "AHU">>, <<"temp", "or", "equip">>, Call("read", <<"AHU">>)}, limit : {1}]
        /\ store \in [facts : {f \union {<<P, "isPointOf", E>>} : f \in SUBSET MCFact}, rows : {{}, Rows}]
-----------------------------------------------------------------------------
(* Requests to GET /status.                                                *)

MCCOMPONENTS ==
  [historian |-> [layer |-> "platform", probe |-> "postgres"],
   model_store |-> [layer |-> "platform", probe |-> "http"],
   live_bus |-> [layer |-> "platform", probe |-> "tcp"],
   ingest_listener |-> [layer |-> "jobs", probe |-> "inferred_ingest"],
   fault_detector |-> [layer |-> "jobs", probe |-> "inferred_faults"],
   derivation_engine |-> [layer |-> "jobs", probe |-> "inferred_derivations"],
   charts |-> [layer |-> "tools", probe |-> "http"]]
MCSeen == [last : {-1, 900, 901}, disabled : {0, 1}, orgs : {0, 1},
           tables : {AllTables, AllTables \ {"faults"}, {}}]
-----------------------------------------------------------------------------
Init ==
  \/ (input \in SpanInput \/ input \in ParseInput) /\ HisIdle /\ OpsIdle
  \/ input = NoInput /\ HisRequest /\ OpsIdle
  \/ input = NoInput /\ HisIdle /\ OpsInit
Next ==
  \/ HisNext /\ UNCHANGED <<input, opsVars>>
  \/ OpsNext /\ UNCHANGED <<input, hisVars>>
Spec == Init /\ [][Next]_vars
=============================================================================
