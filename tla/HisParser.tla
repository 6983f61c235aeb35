----------------------------- MODULE HisParser -----------------------------
(***************************************************************************)
(* hisquery.py: the recursive descent from the tokens of an expression to  *)
(* a Query, with every check that parse_query makes before a store is      *)
(* touched, and the grammar of Parser's docstring, stated by itself.       *)
(*                                                                         *)
(* A token is a string and its kind is the set it is in. Spans and         *)
(* intervals are in HisSpan.                                               *)
(***************************************************************************)
EXTENDS Integers, Sequences, FiniteSets, SequencesExt

CONSTANTS Name, Number, Quoted, Reference,   \* tokens by kind
          ValidSpan,       \* what validate_span_text takes, as sequences of tokens
          ValidInterval    \* what parse_interval takes, among Number

Equality == {"==", "!="}
CmpOp == Equality \union {"<", "<=", ">", ">="}
Bool == {"true", "false"}
Value == Number \union Quoted \union Reference \union Bool
Fold == {"avg", "min", "max", "sum", "count"}

Has(n) == <<"has", n>>
Cmp(n, op, v) == <<"cmp", n, op, v>>
Not(x) == <<"not", x>>
Both(word, x, y) == <<word, x, y>>    \* And, Or

At(t, i) == IF i <= Len(t) THEN t[i] ELSE "EOF"
Failed == [ok |-> FALSE]
Got(x, next) == [ok |-> TRUE, node |-> x, next |-> next]

\* _cmp in the compiler, which parse_query runs for its errors.
CmpAllowed(n, op, v) ==
  /\ n = "id" => v \in Reference /\ op \in Equality
  /\ op \notin Equality => v \notin Reference \union Bool

\* _parse_filter and _parse_and: operands joined by their word, to the left.
RECURSIVE ParseChain(_, _, _), MoreOf(_, _, _), ParseTerm(_, _)
Operand(t, i, word) == IF word = "or" THEN ParseChain(t, i, "and") ELSE ParseTerm(t, i)
ParseChain(t, i, word) == MoreOf(t, Operand(t, i, word), word)
\* Mutant: the chain goes on to the right.
MoreOfRight(t, left, word) ==
  IF ~left.ok \/ At(t, left.next) # word THEN left
  ELSE LET right == ParseChain(t, left.next + 1, word)
       IN IF right.ok THEN Got(Both(word, left.node, right.node), right.next) ELSE Failed
MoreOf(t, left, word) ==
  IF ~left.ok \/ At(t, left.next) # word THEN left
  ELSE LET right == Operand(t, left.next + 1, word)
       IN IF right.ok THEN MoreOf(t, Got(Both(word, left.node, right.node), right.next), word)
          ELSE Failed

\* A tag path, name -> ..., is refused.
ParseTerm(t, i) ==
  CASE At(t, i) = "(" ->
         LET f == ParseChain(t, i + 1, "or")
         IN IF f.ok /\ At(t, f.next) = ")" THEN Got(f.node, f.next + 1) ELSE Failed
    [] At(t, i) = "not" ->
         LET x == ParseTerm(t, i + 1) IN IF x.ok THEN Got(Not(x.node), x.next) ELSE Failed
    [] At(t, i) \in Name ->
         IF At(t, i + 1) \in CmpOp
         THEN IF At(t, i + 2) \in Value /\ CmpAllowed(t[i], t[i + 1], t[i + 2])
              THEN Got(Cmp(t[i], t[i + 1], t[i + 2]), i + 3) ELSE Failed
         ELSE IF At(t, i + 1) = "->" THEN Failed ELSE Got(Has(t[i]), i + 1)
    [] OTHER -> Failed

\* Where hisRead( that ends before i is closed: the first ) at depth 0, or 0.
Closing(t, i) ==
  LET Depth(j) == Cardinality({k \in i..(j - 1) : t[k] = "("})
                  - Cardinality({k \in i..(j - 1) : t[k] = ")"})
      closing == {j \in i..Len(t) : t[j] = ")" /\ Depth(j) = 0}
  IN IF closing = {} THEN 0 ELSE CHOOSE j \in closing : \A k \in closing : j <= k

\* The calls after the source, each at most once; q is what they have given so far.
RECURSIVE ParseCalls(_, _, _)
ParseCalls(t, i, q) ==
  CASE At(t, i) = "EOF" -> [ok |-> TRUE, query |-> q]
    [] /\ At(t, i) = "." /\ At(t, i + 1) = "hisRead" /\ At(t, i + 2) = "("
       /\ q.span = <<>> /\ Closing(t, i + 3) > 0 ->
         LET close == Closing(t, i + 3)
             text == SubSeq(t, i + 3, close - 1)
         IN IF text \in ValidSpan THEN ParseCalls(t, close + 1, [q EXCEPT !.span = text])
            ELSE Failed
    [] /\ At(t, i) = "." /\ At(t, i + 1) = "hisRollup" /\ At(t, i + 2) = "("
       /\ q.rollup = <<>> /\ At(t, i + 3) \in Fold /\ At(t, i + 4) = ","
       /\ At(t, i + 5) \in ValidInterval /\ At(t, i + 6) = ")" ->
         ParseCalls(t, i + 7, [q EXCEPT !.rollup = <<t[i + 3], t[i + 5]>>])
    [] OTHER -> Failed

\* parse_query: a name read is a tag unless a parenthesis follows it.
ParseQuery(t) ==
  LET called == At(t, 1) \in {"read", "readAll"} /\ At(t, 2) = "("
      f == ParseChain(t, IF called THEN 3 ELSE 1, "or")
      q == [mode |-> IF called THEN t[1] ELSE "readAll", filter |-> f.node,
            span |-> <<>>, rollup |-> <<>>]
  IN IF ~f.ok \/ (called /\ At(t, f.next) # ")") THEN Failed
     ELSE ParseCalls(t, IF called THEN f.next + 1 ELSE f.next, q)
-----------------------------------------------------------------------------
(* The grammar: all that a sequence of tokens can be read as.              *)

Before(t, i) == SubSeq(t, 1, i - 1)
After(t, i) == SubSeq(t, i + 1, Len(t))
Places(t, word) == {i \in DOMAIN t : t[i] = word}

RECURSIVE CondOr(_), CondAnd(_), Term(_)
CondOr(t) ==
  CondAnd(t) \union UNION {{Both("or", x, y) : x \in CondOr(Before(t, i)), y \in CondAnd(After(t, i))}
                           : i \in Places(t, "or")}
CondAnd(t) ==
  Term(t) \union UNION {{Both("and", x, y) : x \in CondAnd(Before(t, i)), y \in Term(After(t, i))}
                        : i \in Places(t, "and")}
Term(t) ==
  IF t = <<>> THEN {}
  ELSE (IF Len(t) > 2 /\ t[1] = "(" /\ Last(t) = ")" THEN CondOr(SubSeq(t, 2, Len(t) - 1)) ELSE {})
       \union (IF t[1] = "not" THEN {Not(x) : x \in Term(Tail(t))} ELSE {})
       \union {Has(n) : n \in {m \in Name : t = <<m>>}}
       \union (IF /\ Len(t) = 3 /\ t[1] \in Name /\ t[2] \in CmpOp /\ t[3] \in Value
                  /\ CmpAllowed(t[1], t[2], t[3])
               THEN {Cmp(t[1], t[2], t[3])} ELSE {})

HisRead(text) == <<".", "hisRead", "(">> \o text \o <<")">>
HisRollup(fold, interval) == <<".", "hisRollup", "(", fold, ",", interval, ")">>

Spans == {<<>>} \union ValidSpan
Rollups == {<<>>} \union (Fold \X ValidInterval)
SpanCall(text) == IF text = <<>> THEN <<>> ELSE HisRead(text)
RollupCall(r) == IF r = <<>> THEN <<>> ELSE HisRollup(r[1], r[2])

Readings(t) ==
  {[mode |-> "readAll", filter |-> x] : x \in CondOr(t)} \union
  (IF Len(t) > 2 /\ t[1] \in {"read", "readAll"} /\ t[2] = "(" /\ Last(t) = ")"
   THEN {[mode |-> t[1], filter |-> x] : x \in CondOr(SubSeq(t, 3, Len(t) - 1))} ELSE {})

Queries(t) ==
  UNION {{[mode |-> r.mode, filter |-> r.filter, span |-> s, rollup |-> u] :
            r \in Readings(SubSeq(t, 1, n)), <<s, u>> \in
              {p \in Spans \X Rollups :
                 SubSeq(t, n + 1, Len(t)) \in {SpanCall(p[1]) \o RollupCall(p[2]),
                                               RollupCall(p[2]) \o SpanCall(p[1])}}}
         : n \in 1..Len(t)}

\* Of every expression: the parser takes it if and only if the grammar of its
\* docstring does (hisquery.py:205-216), there is one way to read it, and that
\* is the query parse_query returns, precedence and association included.
ReadAsGrammar(t) ==
  LET p == ParseQuery(t) IN Queries(t) = IF p.ok THEN {p.query} ELSE {}
=============================================================================
