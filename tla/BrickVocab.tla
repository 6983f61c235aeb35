---------------------------- MODULE BrickVocab ----------------------------
(***************************************************************************)
(* brick_vocab.py (the vendored Brick) and hisquery.py's GraphVocab (what  *)
(* the live graph declares on top of it), and what the classes and words   *)
(* of both mean.                                                           *)
(*                                                                         *)
(* Names are compared in lower case, so a word stands for all its          *)
(* spellings. An IRI is <<namespace, word>>. An ontology o has             *)
(*   o.parents, o.equivalents   pairs of words of Brick's classes          *)
(*   o.own_tags                 pairs of a class and a tag word            *)
(*   o.classes, o.tags          Brick's classes and tag words              *)
(*   o.rules                    pairs of a tag word of the mapping rules   *)
(*                              and a class                                *)
(* and the live graph's declarations are triples <<p, sub, obj>> with p    *)
(* "subClassOf", "equivalentClass", "hasAssociatedTag" or "type".          *)
(***************************************************************************)
EXTENDS Integers, Sequences, FiniteSets

CONSTANT HAYSTACK_TO_BRICK_TAG    \* pairs, Haystack's spelling and Brick's

Brick(w) == <<"brick", w>>
Proj(w) == <<"proj", w>>
Tag(w) == <<"tag", w>>

Image(rel, S) == {p[2] : p \in {q \in rel : q[1] \in S}}
Inverted(rel) == {<<p[2], p[1]>> : p \in rel}

\* All that rel leads to from S.
RECURSIVE Reached(_, _)
Reached(rel, S) ==
  LET more == S \union Image(rel, S) IN IF more = S THEN S ELSE Reached(rel, more)
-----------------------------------------------------------------------------
(* Vocab.                                                                  *)

\* __post_init__: equivalence is written one way, and meant both ways. A name
\* that Brick mentions and does not define leads nowhere.
Known(o, rel) == {p \in rel : p[1] \in o.classes /\ p[2] \in o.classes}
Equivalents(o) == Known(o, o.equivalents \union Inverted(o.equivalents))

\* descendants: nothing for a class that Brick does not have.
\* Mutant: an alias is followed the way it is written only.
DescendantsOneWay(o, w) ==
  Reached(Known(o, o.equivalents \union Inverted(o.parents)), {w} \intersect o.classes)
Descendants(o, w) ==
  Reached(Equivalents(o) \union Known(o, Inverted(o.parents)), {w} \intersect o.classes)

\* _compute_effective_tags: its own, its equivalents' and those of all above them.
EffectiveTags(o, w) ==
  Image(o.own_tags, Reached(Equivalents(o) \union Known(o, o.parents), {w} \intersect o.classes))
ClassesWithTag(o, tag) == {w \in o.classes : tag \in EffectiveTags(o, w)}

\* canonical_tag: {} if it is none of Brick's words.
Spelling(w) == Image(HAYSTACK_TO_BRICK_TAG, {w})
CanonicalTag(o, w) == IF Spelling(w) \intersect o.tags # {} THEN Spelling(w) ELSE {w} \intersect o.tags
-----------------------------------------------------------------------------
(* GraphVocab, built from the declarations whose subject is not Brick's.   *)

GraphVocab(decl) ==
  LET Of(p) == {<<d[2], d[3]>> : d \in {e \in decl : e[1] = p /\ e[2][1] # "brick"}}
      sub == Of("subClassOf")
      eq == Of("equivalentClass")
      tag == Of("hasAssociatedTag")
      added == UNION {{p[1], p[2]} : p \in sub \union eq} \union {p[1] : p \in tag}
  IN [children |-> Inverted(sub),
      equivalents |-> eq \union Inverted(eq),
      tagged |-> {<<p[2][2], p[1]>> : p \in tag},
      by_name |-> {<<c[2], c>> : c \in {x \in added : x[1] # "brick"}},
      schema_iris |-> added \union {p[2] : p \in tag} \union {p[1] : p \in Of("type")}]

\* Mutant: the aliases the graph declares are left out.
ExpandChildren(g, classes) == Reached(g.children, classes)
Expand(g, classes) == Reached(g.equivalents \union g.children, classes)

ClassesNamed(g, w) == Image(g.by_name, {w})
ClassesTagged(g, w) == Image(g.tagged, {w} \union Spelling(w))

\* is_schema: declared in the graph, or in a namespace that only holds vocabulary.
IsSchema(g, s) == s \in g.schema_iris \/ s[1] \in {"brick", "tag", "w3"}

\* _has: the classes that a name written as a class, or as a word, stands for.
NamedClasses(o, g, w) ==
  {Brick(x) : x \in IF w \in o.classes THEN Descendants(o, w) ELSE {w}}
  \union {Proj(w)} \union ClassesNamed(g, w)
WordClasses(o, g, w) ==
  LET tagged == UNION {ClassesWithTag(o, t) : t \in CanonicalTag(o, w)}
      ruled == UNION {IF c \in o.classes THEN Descendants(o, c) ELSE {c} : c \in Image(o.rules, {w})}
  IN {Brick(x) : x \in tagged \union ruled} \union ClassesTagged(g, w) \union ClassesNamed(g, w)
-----------------------------------------------------------------------------
(* What is declared, read upwards from the class of an entity, with        *)
(* Brick's file and the live graph as one hierarchy. What the graph says   *)
(* of Brick's own classes does not count (his-query.mdx:165-169).          *)

Hierarchy(o, decl) ==
  LET Of(p) == {<<d[2], d[3]>> : d \in {e \in decl : e[1] = p /\ e[2][1] # "brick"}}
      eq == Of("equivalentClass")
  IN Of("subClassOf") \union eq \union Inverted(eq)
     \union {<<Brick(p[1]), Brick(p[2])>> : p \in Equivalents(o) \union Known(o, o.parents)}

Mentioned(decl) == UNION {{d[2], d[3]} : d \in decl}

\* A class is called w, or carries the word w.
IsNamed(decl, c, w) == c[2] = w /\ (c[1] \in {"brick", "proj"} \/ c \in Mentioned(decl))
CarriesWord(o, decl, c, w) ==
  \/ c[1] = "brick" /\ \/ \E t \in CanonicalTag(o, w) : <<c[2], t>> \in o.own_tags
                       \/ <<w, c[2]>> \in o.rules
  \/ c[1] # "brick" /\ \/ \E x \in {w} \union Spelling(w) : <<"hasAssociatedTag", c, Tag(x)>> \in decl
                       \/ c[2] = w /\ c \in Mentioned(decl)

\* Of a class, whether an entity of that type is meant by the name.
MeantByClass(o, decl, c, w) == \E d \in Reached(Hierarchy(o, decl), {c}) : IsNamed(decl, d, w)
MeantByWord(o, decl, c, w) == \E d \in Reached(Hierarchy(o, decl), {c}) : CarriesWord(o, decl, d, w)

\* Nothing of the graph's is declared an alias of a class of Brick's: below such
\* an alias the code does not look further into Brick's file.
AliasesStayOutside(decl) ==
  \A d \in decl : d[1] = "equivalentClass" => d[2][1] # "brick" /\ d[3][1] # "brick"
=============================================================================
