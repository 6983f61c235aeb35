----------------------- MODULE DerivationEngineProofs -----------------------
(***************************************************************************)
(* Proofs about DerivationEngine for any derivations, targets, inputs and  *)
(* windows, any interleaving of the two threads with the rest of the       *)
(* system, any statements that raise and any restarts.                     *)
(***************************************************************************)
EXTENDS DerivationEngine, FiniteSetTheorems, SequenceTheorems, TLAPS

-----------------------------------------------------------------------------
(* Sequences.                                                              *)

LEMMA Split ==
  ASSUME NEW S, NEW s \in Seq(S), s # <<>>
  PROVE  /\ Head(s) \in S /\ Tail(s) \in Seq(S)
         /\ ToSet(s) = {Head(s)} \cup ToSet(Tail(s))
<1>1. /\ Tail(s) \in Seq(S) /\ Len(Tail(s)) = Len(s) - 1 /\ Len(s) \in Nat \ {0}
      /\ DOMAIN s = 1 .. Len(s) /\ DOMAIN Tail(s) = 1 .. Len(s) - 1
      /\ \A i \in 1 .. Len(Tail(s)) : Tail(s)[i] = s[i + 1]
      /\ Head(s) = s[1] /\ Head(s) \in S
  BY HeadTailProperties, EmptySeq, LenProperties
<1>2. ToSet(s) \subseteq {Head(s)} \cup ToSet(Tail(s))
  <2> SUFFICES ASSUME NEW i \in 1 .. Len(s), i # 1 PROVE s[i] \in ToSet(Tail(s))
    BY <1>1 DEF ToSet
  <2>1. i - 1 \in DOMAIN Tail(s) /\ Tail(s)[i - 1] = s[i]
    BY <1>1
  <2>2. QED
    BY <2>1 DEF ToSet
<1>3. ToSet(Tail(s)) \subseteq ToSet(s)
  <2> SUFFICES ASSUME NEW i \in DOMAIN Tail(s) PROVE Tail(s)[i] \in ToSet(s)
    BY DEF ToSet
  <2>1. i + 1 \in DOMAIN s /\ Tail(s)[i] = s[i + 1]
    BY <1>1
  <2>2. QED
    BY <2>1 DEF ToSet
<1>4. Head(s) \in ToSet(s)
  BY <1>1 DEF ToSet
<1>5. QED
  BY <1>1, <1>2, <1>3, <1>4

LEMMA Elements ==
  ASSUME NEW S, NEW s \in Seq(S)
  PROVE  ToSet(s) \subseteq S /\ IsFiniteSet(ToSet(s)) /\ (s = <<>> <=> ToSet(s) = {})
<1>1. Len(s) \in Nat /\ s \in [1 .. Len(s) -> S] /\ DOMAIN s = 1 .. Len(s)
  BY LenProperties
<1>2. ToSet(s) \subseteq S
  BY <1>1 DEF ToSet
<1>3. s \in Surjection(1 .. Len(s), ToSet(s))
  <2>1. s \in [1 .. Len(s) -> ToSet(s)]
    <3>1. \A i \in 1 .. Len(s) : s[i] \in ToSet(s)
      BY <1>1 DEF ToSet
    <3>2. QED
      BY <1>1, <3>1
  <2>2. \A t \in ToSet(s) : \E i \in 1 .. Len(s) : s[i] = t
    BY <1>1 DEF ToSet
  <2>3. QED
    BY <2>1, <2>2 DEF Surjection
<1>4. IsFiniteSet(1 .. Len(s))
  BY <1>1, FS_Interval
<1>5. IsFiniteSet(ToSet(s))
  BY <1>3, <1>4, FS_Surjection
<1>6. s = <<>> => ToSet(s) = {}
  BY <1>1, EmptySeq DEF ToSet
<1>7. ASSUME s # <<>> PROVE ToSet(s) # {}
  <2>1. ToSet(s) = {Head(s)} \cup ToSet(Tail(s))
    BY <1>7, Split
  <2>2. QED
    BY <2>1
<1>8. QED
  BY <1>2, <1>5, <1>6, <1>7

\* list() of a set, in whatever order.
LEMMA Permuted ==
  ASSUME NEW N, NEW S \in SUBSET N, IsFiniteSet(S), NEW s \in SetToSeqs(S)
  PROVE  s \in Seq(N) /\ ToSet(s) = S
<1> DEFINE n == Cardinality(S)
<1>1. n \in Nat /\ s \in [1 .. n -> S] /\ \A i, j \in 1 .. n : i # j => s[i] # s[j]
  BY FS_CardinalityType DEF SetToSeqs
<1>2. s \in [1 .. n -> N]
  BY <1>1
<1>3. s \in Injection(1 .. n, S)
  BY <1>1 DEF Injection, IsInjective
<1>4. IsFiniteSet(1 .. n) /\ Cardinality(1 .. n) = n
  BY <1>1, FS_Interval
<1>5. s \in Surjection(1 .. n, S)
  BY <1>3, <1>4, FS_Injection
<1>6. ToSet(s) = S
  <2> HIDE DEF n
  <2>1. DOMAIN s = 1 .. n
    BY <1>1
  <2>2. \A t \in S : \E i \in 1 .. n : s[i] = t
    BY <1>5 DEF Surjection
  <2>3. QED
    BY <1>1, <2>1, <2>2 DEF ToSet
<1>7. QED
  BY <1>1, <1>2, <1>6

\* What is to come is not what the first one depends on.
LEMMA OrderedTail ==
  ASSUME NEW S, NEW s \in Seq(S), s # <<>>, Ordered(s)
  PROVE  Ordered(Tail(s)) /\ ToSet(Tail(s)) \cap DependsOn[Head(s)] = {}
<1>1. /\ Len(s) \in Nat \ {0} /\ Head(s) = s[1]
      /\ DOMAIN s = 1 .. Len(s) /\ DOMAIN Tail(s) = 1 .. Len(s) - 1
      /\ \A i \in 1 .. Len(s) - 1 : Tail(s)[i] = s[i + 1]
  BY HeadTailProperties, EmptySeq, LenProperties
<1>2. ASSUME NEW i \in DOMAIN Tail(s), NEW j \in DOMAIN Tail(s), Tail(s)[j] \in DependsOn[Tail(s)[i]]
      PROVE  j < i
  <2>1. s[j + 1] \in DependsOn[s[i + 1]] /\ i + 1 \in DOMAIN s /\ j + 1 \in DOMAIN s
    BY <1>1, <1>2
  <2>2. j + 1 < i + 1
    BY <2>1 DEF Ordered
  <2>3. QED
    BY <1>1, <2>2
<1>3. ASSUME NEW j \in DOMAIN Tail(s), Tail(s)[j] \in DependsOn[Head(s)]
      PROVE  FALSE
  <2>1. s[j + 1] \in DependsOn[s[1]] /\ 1 \in DOMAIN s /\ j + 1 \in DOMAIN s
    BY <1>1, <1>3
  <2>2. j + 1 < 1
    BY <2>1 DEF Ordered
  <2>3. QED
    BY <1>1, <2>2
<1>4. QED
  BY <1>2, <1>3 DEF Ordered, ToSet
-----------------------------------------------------------------------------
(* Types.                                                                  *)

Target == {o[2] : o \in Output}

Busy == {"check", "gate", "read", "run", "success", "failure", "disable", "write", "attach", "derive"}
InRow == {"gate", "read", "run", "success", "write"}

\* What a thread has at hand at each of its steps: in a row, a derivation and one of
\* its targets.
Fit(j) ==
  /\ j.pc \in Busy => /\ j.plan # <<>> /\ j.rows # <<>>
                      /\ ToSet(j.rows) \subseteq ToSet(Targets[Head(j.plan)])
  /\ j.pc \notin Busy => j.known = {}
  /\ j.pc = "finish" => j.plan = <<>>
  /\ j.pc \in InRow => j.left \subseteq Inputs[Head(j.plan)][Head(j.rows)]
  /\ j.pc # "read" => j.point = {}
  /\ j.pc \in {"run", "success", "write"} => j.left = {}

\* TypeOK, but for the threads.
Shape ==
  /\ file \subseteq Deriv /\ faulted \subseteq Point
  /\ hist \in [Point -> SUBSET Time]
  /\ health \in [Output -> [failures : Nat, disabled : BOOLEAN]]
  /\ edges \subseteq Output \X Point
  /\ next_run \in [Deriv -> Nat] /\ ran \in [Deriv -> Time]
  /\ clock \in Time /\ events \in 0 .. MaxEvents /\ breaks \in 0 .. MaxBreaks
  /\ values \subseteq [out : Output, at : Time, used : SUBSET (Point \X Time), gated : SUBSET Point]

Threads == job \in [Worker -> Jobs] /\ \A w \in Worker : Fit(job[w])

Typed == Shape /\ Threads

\* What the constants are.
LEMMA Limits ==
  /\ MaxTime \in Nat \ {0} /\ MaxEvents \in Nat /\ MaxBreaks \in Nat /\ Threshold \in Nat \ {0} /\ Window \in Nat
  /\ \A d \in Deriv : Interval[d] \in Nat \ {0}
  /\ 0 \in Time /\ Time \subseteq Nat /\ Worker = {"sweep", "message"}
BY LimitAssumption DEF Time, Worker

\* The rows of a derivation, and what belongs to each.
LEMMA Rows ==
  ASSUME NEW d \in Deriv
  PROVE  /\ Targets[d] \in Seq(Target) /\ ToSet(Targets[d]) \subseteq Target /\ IsFiniteSet(ToSet(Targets[d]))
         /\ Row(d) \subseteq Output
         /\ \A t \in ToSet(Targets[d]) :
              /\ <<d, t>> \in Output /\ t \in Target
              /\ Inputs[d][t] \subseteq Point
              /\ {d} \X Child[d][t] \subseteq Row(d) /\ Child[d][t] \subseteq Target
<1>1. Targets[d] \in Seq(ToSet(Targets[d]))
  BY RowAssumption
<1>2. IsFiniteSet(ToSet(Targets[d]))
  BY <1>1, Elements
<1>3. Row(d) \subseteq Output /\ \A t \in ToSet(Targets[d]) : <<d, t>> \in Row(d)
  BY DEF Row, Output
<1>4. \A t \in ToSet(Targets[d]) : t \in Target
  <2> TAKE t \in ToSet(Targets[d])
  <2>1. <<d, t>> \in Output /\ <<d, t>>[2] = t
    BY <1>3
  <2>2. QED
    BY <2>1 DEF Target
<1>5. Targets[d] \in Seq(Target)
  <2>1. Len(Targets[d]) \in Nat /\ Targets[d] \in [1 .. Len(Targets[d]) -> ToSet(Targets[d])]
    BY <1>1, LenProperties
  <2>2. Targets[d] \in [1 .. Len(Targets[d]) -> Target]
    BY <2>1, <1>4
  <2>3. QED
    BY <2>1, <2>2
<1>6. ASSUME NEW t \in ToSet(Targets[d])
      PROVE  Inputs[d][t] \subseteq Point /\ {d} \X Child[d][t] \subseteq Row(d) /\ Child[d][t] \subseteq Target
  <2>1. Inputs[d][t] \subseteq Point /\ Child[d][t] \subseteq ToSet(Targets[d])
    BY <1>6, RowAssumption
  <2>2. QED
    BY <2>1, <1>3, <1>4 DEF Row
<1>7. QED
  BY <1>2, <1>3, <1>4, <1>5, <1>6

\* The row a thread is at.
LEMMA AtRow ==
  ASSUME Threads, NEW w \in Worker, job[w].pc \in Busy
  PROVE  /\ D(w) \in Deriv /\ T(w) \in ToSet(Targets[D(w)]) /\ Out(w) \in Output /\ T(w) \in Target
         /\ Inputs[D(w)][T(w)] \subseteq Point
         /\ {D(w)} \X Child[D(w)][T(w)] \subseteq Row(D(w)) /\ Child[D(w)][T(w)] \subseteq Target
         /\ job[w] \in Jobs /\ Fit(job[w])
<1>1. job[w] \in Jobs /\ Fit(job[w])
  BY DEF Threads
<1>2. job[w].plan \in Seq(Deriv) /\ job[w].rows \in Seq(Target)
  BY <1>1 DEF Jobs, Target
<1>3. job[w].plan # <<>> /\ job[w].rows # <<>> /\ ToSet(job[w].rows) \subseteq ToSet(Targets[D(w)])
  BY <1>1 DEF Fit, D
<1>4. D(w) \in Deriv
  BY <1>2, <1>3, Split DEF D
<1>5. T(w) \in ToSet(Targets[D(w)])
  <2>1. T(w) \in ToSet(job[w].rows)
    BY <1>2, <1>3, Split DEF T
  <2>2. QED
    BY <2>1, <1>3
<1>6. QED
  BY <1>1, <1>4, <1>5, Rows DEF Out
-----------------------------------------------------------------------------
(* What the steps do to a job.                                             *)

Alike(j, k) == k.at = j.at /\ k.list = j.list /\ k.due = j.due /\ k.topic = j.topic

Cleared(k) ==
  k.left = {} /\ k.point = {} /\ k.used = {} /\ k.gated = {} /\ k.clean = {} /\ k.ok = FALSE

\* The derivation is over, or there is a row left.
NextOne(j, k) == k.pc = "plan" /\ k.plan = Tail(j.plan) /\ k.rows = <<>> /\ k.known = {}
NextRow(j, k) == k.pc = "check" /\ k.plan = j.plan /\ k.rows = Tail(j.rows) /\ k.known = j.known /\ k.rows # <<>>

Ended(j, k) == Alike(j, k) /\ Cleared(k) /\ NextOne(j, k)
Done(j, k) ==
  Alike(j, k) /\ Cleared(k)
    /\ ((NextOne(j, k) /\ Tail(j.rows) = <<>>) \/ NextRow(j, k))

LEMMA JobFields ==
  Jobs = [pc : Pc, at : Time, list : SUBSET Deriv, due : SUBSET Deriv, plan : Seq(Deriv),
          rows : Seq(Target), topic : SUBSET Source, left : SUBSET Point, point : SUBSET Point,
          used : SUBSET (Point \X Time), gated : SUBSET Point, known : SUBSET Target,
          ok : BOOLEAN, tried : SUBSET Output, clean : SUBSET Point]
BY DEF Jobs, Target

LEMMA RowDoneIs ==
  ASSUME NEW j \in Jobs, Fit(j), j.pc \in Busy
  PROVE  RowDone(j) \in Jobs /\ Fit(RowDone(j)) /\ Done(j, RowDone(j)) /\ RowDone(j).tried = j.tried
<1>1. j.plan \in Seq(Deriv) /\ j.plan # <<>> /\ j.rows \in Seq(Target) /\ j.rows # <<>>
      /\ ToSet(j.rows) \subseteq ToSet(Targets[Head(j.plan)])
  BY DEF Jobs, Target, Fit
<1>2. Tail(j.plan) \in Seq(Deriv) /\ Tail(j.rows) \in Seq(Target) /\ <<>> \in Seq(Target)
  BY <1>1, Split, EmptySeq
<1>3. ToSet(Tail(j.rows)) \subseteq ToSet(Targets[Head(j.plan)])
  BY <1>1, Split
<1> DEFINE k == RowDone(j)
           clear == [j EXCEPT !.used = {}, !.gated = {}, !.clean = {}, !.left = {}, !.point = {}, !.ok = FALSE]
<1>c. clear \in Jobs /\ clear.plan = j.plan
  BY JobFields
<1>p. "plan" \in Pc /\ "check" \in Pc
  BY DEF Pc
<1>4. CASE Tail(j.rows) = <<>>
  <2>1. k = [clear EXCEPT !.pc = "plan", !.rows = <<>>, !.plan = Tail(@), !.known = {}]
    BY <1>4 DEF RowDone
  <2>2. k \in Jobs
    <3> HIDE DEF k, clear
    <3>1. Tail(clear.plan) \in Seq(Deriv)
      BY <1>c, <1>2
    <3>2. QED
      BY <2>1, <3>1, <1>c, <1>p, <1>2, JobFields
  <2>3. Alike(j, k) /\ Cleared(k) /\ k.tried = j.tried /\ NextOne(j, k)
    BY <2>1 DEF Jobs, Alike, Cleared, NextOne
  <2> HIDE DEF k
  <2>4. Fit(k)
    BY <2>3 DEF Fit, NextOne, Cleared, Busy, InRow
  <2>5. QED
    BY <2>2, <2>3, <2>4, <1>4 DEF Done, k
<1>5. CASE Tail(j.rows) # <<>>
  <2>1. k = [clear EXCEPT !.pc = "check", !.rows = Tail(j.rows)]
    BY <1>5 DEF RowDone
  <2>2. k \in Jobs
    <3> HIDE DEF k, clear
    <3>1. QED
      BY <2>1, <1>c, <1>p, <1>2, JobFields
  <2>3. Alike(j, k) /\ Cleared(k) /\ k.tried = j.tried /\ NextRow(j, k)
    BY <2>1, <1>5 DEF Jobs, Alike, Cleared, NextRow
  <2> HIDE DEF k
  <2>4. Fit(k)
    BY <2>3, <1>1, <1>3, <1>5 DEF Fit, NextRow, Cleared, Busy, InRow
  <2>5. QED
    BY <2>2, <2>3, <2>4 DEF Done, k
<1>6. QED
  BY <1>4, <1>5

LEMMA AbandonedIs ==
  ASSUME NEW j \in Jobs, Fit(j), j.pc \in Busy
  PROVE  Abandoned(j) \in Jobs /\ Fit(Abandoned(j)) /\ Ended(j, Abandoned(j)) /\ Abandoned(j).tried = j.tried
<1> DEFINE i == [j EXCEPT !.rows = <<Head(@)>>]
<1>1. j.plan \in Seq(Deriv) /\ j.plan # <<>> /\ j.rows \in Seq(Target) /\ j.rows # <<>>
      /\ ToSet(j.rows) \subseteq ToSet(Targets[Head(j.plan)])
  BY DEF Jobs, Target, Fit
<1>2. Head(j.rows) \in Target /\ Head(j.rows) \in ToSet(j.rows)
  BY <1>1, Split
<1> DEFINE one == <<Head(j.rows)>>
<1>3. one \in Seq(Target) /\ one # <<>> /\ Head(one) = Head(j.rows) /\ Tail(one) = <<>>
  BY <1>2
<1>4. ToSet(one) = {Head(j.rows)}
  <2>1. DOMAIN one = {1} /\ one[1] = Head(j.rows)
    OBVIOUS
  <2> HIDE DEF one
  <2>2. QED
    BY <2>1 DEF ToSet
<1>5. i = [j EXCEPT !.rows = one]
  BY DEF Jobs
<1> HIDE DEF one
<1>6. i \in Jobs
  BY <1>3, <1>5 DEF Jobs, Target
<1>7. /\ i.rows = one /\ i.pc = j.pc /\ i.plan = j.plan /\ i.left = j.left /\ i.point = j.point
      /\ i.known = j.known /\ i.tried = j.tried /\ Alike(j, i)
  BY <1>5 DEF Jobs, Alike
<1> HIDE DEF i
<1>8. Fit(i) /\ i.pc \in Busy
  BY <1>1, <1>2, <1>3, <1>4, <1>7 DEF Fit
<1>9. RowDone(i) \in Jobs /\ Fit(RowDone(i)) /\ Done(i, RowDone(i)) /\ RowDone(i).tried = i.tried
  BY <1>6, <1>8, RowDoneIs
<1>10. Ended(j, RowDone(i)) /\ RowDone(i).tried = j.tried
  BY <1>9, <1>7, <1>3 DEF Done, Ended, NextOne, NextRow, Alike
<1>11. Abandoned(j) = RowDone(i)
  BY DEF Abandoned, i
<1>12. QED
  BY <1>9, <1>10, <1>11

LEMMA SetJob ==
  ASSUME Threads, NEW w \in Worker, NEW j \in Jobs, Fit(j), Set(w, j)
  PROVE  /\ Threads' /\ job'[w] = j
         /\ \A v \in Worker : v # w => job'[v] = job[v]
BY DEF Threads, Set

Others(w) == Threads' /\ \A v \in Worker : v # w => job'[v] = job[v]

\* The row stays under way.
SameRow(j, k) == Alike(j, k) /\ k.plan = j.plan /\ k.rows = j.rows

\* Where the inputs that are left lead to.
Gathers(k) == k.pc \in {"gate", "run"} /\ (k.pc = "run" => k.left = {})

LEMMA GatheringIs ==
  ASSUME NEW j \in Jobs, j.pc \in Busy, Fit([j EXCEPT !.pc = "gate"])
  PROVE  LET k == Gathering(j) IN
         /\ k \in Jobs /\ Fit(k) /\ SameRow(j, k) /\ Gathers(k)
         /\ k.left = j.left /\ k.point = j.point /\ k.used = j.used /\ k.gated = j.gated
         /\ k.known = j.known /\ k.tried = j.tried /\ k.clean = j.clean
<1> DEFINE k == Gathering(j)
<1>1. /\ k \in Jobs /\ SameRow(j, k) /\ Gathers(k)
      /\ k.left = j.left /\ k.point = j.point /\ k.used = j.used /\ k.gated = j.gated
      /\ k.known = j.known /\ k.tried = j.tried /\ k.clean = j.clean
  BY DEF Gathering, Jobs, Pc, SameRow, Alike, Gathers
<1> DEFINE g == [j EXCEPT !.pc = "gate"]
<1>2. /\ g.pc = "gate" /\ g.plan = j.plan /\ g.rows = j.rows /\ g.left = j.left /\ g.point = j.point
      /\ g.known = j.known
  BY DEF Jobs
<1>3. Fit(g)
  OBVIOUS
<1> HIDE DEF g, k
<1>4. Fit(k)
  BY <1>1, <1>2, <1>3 DEF Fit, Gathers, SameRow, Busy, InRow
<1>5. QED
  BY <1>1, <1>4 DEF k

LEMMA CheckIs ==
  ASSUME Threads, faulted \subseteq Point, NEW w \in Worker, Check(w)
  PROVE  /\ job[w].pc = "check" /\ Others(w)
         /\ job'[w].tried = IF w = "sweep" THEN job[w].tried \cup {Out(w)} ELSE {}
         /\ \/ health[Out(w)].disabled /\ Done(job[w], job'[w])
            \/ /\ ~health[Out(w)].disabled
               /\ SameRow(job[w], job'[w]) /\ Gathers(job'[w])
               /\ job'[w].known = job[w].known /\ job'[w].gated = {} /\ job'[w].point = {}
               /\ job'[w].left = Inputs[D(w)][T(w)] /\ job'[w].clean = Inputs[D(w)][T(w)] \ faulted
               /\ job'[w].used = {<<<<D(w), c>>, job[w].at>> : c \in Child[D(w)][T(w)] \cap job[w].known}
<1> DEFINE inputs == Inputs[D(w)][T(w)]
           children == Child[D(w)][T(w)] \cap job[w].known
           used == {<<<<D(w), c>>, job[w].at>> : c \in children}
           j == [job[w] EXCEPT !.tried = IF w = "sweep" THEN @ \cup {Out(w)} ELSE {}]
           i == [j EXCEPT !.left = inputs, !.gated = {}, !.clean = inputs \ faulted, !.used = used]
<1>1. job[w].pc = "check" /\ "check" \in Busy
  BY DEF Check, Busy
<1>2. /\ D(w) \in Deriv /\ Out(w) \in Output /\ inputs \subseteq Point
      /\ {D(w)} \X Child[D(w)][T(w)] \subseteq Output
      /\ job[w] \in Jobs /\ Fit(job[w])
  BY <1>1, AtRow, Rows
<1>3. j \in Jobs /\ Alike(job[w], j) /\ j.pc = "check" /\ j.plan = job[w].plan /\ j.rows = job[w].rows
      /\ j.left = job[w].left /\ j.point = job[w].point /\ j.known = job[w].known
      /\ j.tried = IF w = "sweep" THEN job[w].tried \cup {Out(w)} ELSE {}
  BY <1>1, <1>2 DEF Jobs, Alike
<1> HIDE DEF j
<1>4. Fit(j)
  BY <1>1, <1>2, <1>3 DEF Fit
<1>5. used \subseteq Point \X Time
  <2>1. job[w].at \in Time /\ Output \subseteq Point
    BY <1>2 DEF Jobs, Point
  <2>2. \A c \in children : <<D(w), c>> \in Output
    BY <1>2
  <2>3. QED
    BY <2>1, <2>2
<1> HIDE DEF used
<1>6. /\ i \in Jobs /\ i.pc = "check" /\ SameRow(j, i) /\ i.known = j.known /\ i.gated = {} /\ i.left = inputs
      /\ i.clean = inputs \ faulted /\ i.used = used /\ i.point = j.point /\ i.tried = j.tried
  BY <1>2, <1>3, <1>5 DEF Jobs, SameRow, Alike
<1>7. Fit([i EXCEPT !.pc = "gate"]) /\ j.point = {}
  <2> DEFINE g == [i EXCEPT !.pc = "gate"]
  <2>1. g.pc = "gate" /\ g.plan = j.plan /\ g.rows = j.rows /\ g.left = inputs /\ g.point = j.point
    BY <1>6 DEF Jobs, SameRow
  <2>2. inputs = Inputs[Head(j.plan)][Head(j.rows)]
    BY <1>3 DEF D, T
  <2> HIDE DEF g, i
  <2>3. Fit(g)
    BY <2>1, <2>2, <1>3, <1>4 DEF Fit, Busy, InRow
  <2>4. QED
    BY <2>3, <1>3, <1>4 DEF g, Fit
<1> HIDE DEF i
<1>8. CASE health[Out(w)].disabled
  <2>1. Set(w, RowDone(j))
    BY <1>8 DEF Check, j
  <2>2. RowDone(j) \in Jobs /\ Fit(RowDone(j)) /\ Done(j, RowDone(j)) /\ RowDone(j).tried = j.tried
    BY <1>1, <1>3, <1>4, RowDoneIs
  <2>3. job'[w] = RowDone(j) /\ Others(w)
    BY <2>1, <2>2, SetJob DEF Others
  <2>4. Done(job[w], RowDone(j))
    BY <2>2, <1>3 DEF Done, Alike, NextOne, NextRow
  <2>5. QED
    BY <2>2, <2>3, <2>4, <1>1, <1>3, <1>8
<1>9. CASE ~health[Out(w)].disabled
  <2>1. Set(w, Gathering(i))
    BY <1>9 DEF Check, i, j, used
  <2> DEFINE k == Gathering(i)
  <2>2. /\ k \in Jobs /\ Fit(k) /\ SameRow(i, k) /\ Gathers(k)
        /\ k.left = i.left /\ k.point = i.point /\ k.used = i.used /\ k.gated = i.gated
        /\ k.known = i.known /\ k.tried = i.tried /\ k.clean = i.clean
    BY <1>1, <1>6, <1>7, GatheringIs
  <2> HIDE DEF k
  <2>3. job'[w] = k /\ Others(w)
    BY <2>1, <2>2, SetJob DEF Others, k
  <2>4. SameRow(job[w], k)
    BY <2>2, <1>3, <1>6 DEF SameRow, Alike
  <2>5. QED
    BY <2>2, <2>3, <2>4, <1>1, <1>3, <1>6, <1>7, <1>9 DEF used
<1>10. QED
  BY <1>8, <1>9

LEMMA GateIs ==
  ASSUME Threads, NEW w \in Worker, Gate(w)
  PROVE  /\ job[w].pc = "gate" /\ Others(w) /\ SameRow(job[w], job'[w])
         /\ job'[w].known = job[w].known /\ job'[w].tried = job[w].tried
         /\ job'[w].clean = job[w].clean /\ job'[w].used = job[w].used
         /\ \E p \in job[w].left :
              /\ job'[w].left = job[w].left \ {p}
              /\ \/ /\ p \in faulted /\ Gathers(job'[w])
                    /\ job'[w].gated = job[w].gated \cup {p} /\ job'[w].point = {}
                 \/ /\ p \notin faulted /\ job'[w].pc = "read"
                    /\ job'[w].gated = job[w].gated /\ job'[w].point = {p}
<1>1. job[w].pc = "gate" /\ "gate" \in Busy /\ "gate" \in InRow
  BY DEF Gate, Busy, InRow
<1>2. job[w] \in Jobs /\ Fit(job[w])
  BY <1>1, AtRow
<1>3. PICK p \in job[w].left :
        Set(w, IF p \in faulted
               THEN Gathering([job[w] EXCEPT !.left = @ \ {p}, !.gated = @ \cup {p}])
               ELSE [job[w] EXCEPT !.pc = "read", !.left = @ \ {p}, !.point = {p}])
  BY DEF Gate
<1>4. p \in Point /\ job[w].point = {}
  BY <1>1, <1>2 DEF Jobs, Fit
<1>5. CASE p \in faulted
  <2> DEFINE i == [job[w] EXCEPT !.left = @ \ {p}, !.gated = @ \cup {p}]
             g == [i EXCEPT !.pc = "gate"]
             k == Gathering(i)
  <2>1. /\ i \in Jobs /\ i.pc = "gate" /\ SameRow(job[w], i) /\ i.known = job[w].known /\ i.tried = job[w].tried
        /\ i.clean = job[w].clean /\ i.used = job[w].used /\ i.left = job[w].left \ {p}
        /\ i.gated = job[w].gated \cup {p} /\ i.point = {}
    BY <1>1, <1>2, <1>4 DEF Jobs, SameRow, Alike
  <2>2. g = i
    BY <1>1, <1>2 DEF Jobs
  <2>3. Set(w, k)
    BY <1>3, <1>5
  <2> HIDE DEF i
  <2>4. Fit(i)
    BY <2>1, <1>1, <1>2 DEF Fit, SameRow, Busy, InRow
  <2>5. /\ k \in Jobs /\ Fit(k) /\ SameRow(i, k) /\ Gathers(k)
        /\ k.left = i.left /\ k.point = i.point /\ k.used = i.used /\ k.gated = i.gated
        /\ k.known = i.known /\ k.tried = i.tried /\ k.clean = i.clean
    BY <1>1, <2>1, <2>2, <2>4, GatheringIs
  <2> HIDE DEF k
  <2>6. job'[w] = k /\ Others(w)
    BY <2>3, <2>5, SetJob DEF Others
  <2>7. QED
    BY <1>1, <1>5, <2>1, <2>5, <2>6 DEF SameRow, Alike
<1>6. CASE p \notin faulted
  <2> DEFINE k == [job[w] EXCEPT !.pc = "read", !.left = @ \ {p}, !.point = {p}]
  <2>1. /\ k \in Jobs /\ k.pc = "read" /\ SameRow(job[w], k) /\ k.known = job[w].known /\ k.tried = job[w].tried
        /\ k.clean = job[w].clean /\ k.used = job[w].used /\ k.left = job[w].left \ {p}
        /\ k.gated = job[w].gated /\ k.point = {p}
    BY <1>2, <1>4 DEF Jobs, SameRow, Alike, Pc
  <2>2. Set(w, k)
    BY <1>3, <1>6
  <2> HIDE DEF k
  <2>3. Fit(k)
    BY <2>1, <1>1, <1>2 DEF Fit, SameRow, Busy, InRow
  <2>4. job'[w] = k /\ Others(w)
    BY <2>1, <2>2, <2>3, SetJob DEF Others
  <2>5. QED
    BY <1>1, <1>6, <2>1, <2>4
<1>7. QED
  BY <1>5, <1>6

\* The latest row of the window.
Latest(w, p) == {ts \in hist[p] : /\ ts \in job[w].at - Window .. job[w].at
                                /\ \A u \in hist[p] : u <= job[w].at => u <= ts}

LEMMA ReadIs ==
  ASSUME Threads, hist \in [Point -> SUBSET Time], NEW w \in Worker, Read(w)
  PROVE  /\ job[w].pc = "read" /\ Others(w) /\ SameRow(job[w], job'[w]) /\ Gathers(job'[w])
         /\ job'[w].known = job[w].known /\ job'[w].tried = job[w].tried
         /\ job'[w].clean = job[w].clean /\ job'[w].gated = job[w].gated
         /\ job'[w].left = job[w].left /\ job'[w].point = {}
         /\ job'[w].used = job[w].used \cup UNION {{<<p, ts>> : ts \in Latest(w, p)} : p \in job[w].point}
<1> DEFINE found == UNION {{<<p, ts>> : ts \in Latest(w, p)} : p \in job[w].point}
           i == [job[w] EXCEPT !.point = {}, !.used = @ \cup found]
           g == [i EXCEPT !.pc = "gate"]
           k == Gathering(i)
<1>1. job[w].pc = "read" /\ "read" \in Busy /\ "read" \in InRow
  BY DEF Read, Busy, InRow
<1>2. job[w] \in Jobs /\ Fit(job[w])
  BY <1>1, AtRow
<1>3. Set(w, k)
  BY DEF Read, Latest
<1>4. found \subseteq Point \X Time
  <2>1. job[w].point \subseteq Point /\ \A p \in Point : Latest(w, p) \subseteq Time
    BY <1>2 DEF Jobs, Latest
  <2>2. QED
    BY <2>1
<1> HIDE DEF found
<1>5. /\ i \in Jobs /\ i.pc = "read" /\ SameRow(job[w], i) /\ i.known = job[w].known /\ i.tried = job[w].tried
      /\ i.clean = job[w].clean /\ i.used = job[w].used \cup found /\ i.left = job[w].left
      /\ i.gated = job[w].gated /\ i.point = {}
  BY <1>1, <1>2, <1>4 DEF Jobs, SameRow, Alike
<1>6. /\ g.pc = "gate" /\ g.plan = i.plan /\ g.rows = i.rows /\ g.left = i.left /\ g.point = i.point
      /\ g.known = i.known
  BY <1>5 DEF Jobs
<1> HIDE DEF i
<1>7. Fit(g)
  <2> HIDE DEF g
  <2> QED
    BY <1>1, <1>2, <1>5, <1>6 DEF Fit, SameRow, Busy, InRow
<1>8. /\ k \in Jobs /\ Fit(k) /\ SameRow(i, k) /\ Gathers(k)
      /\ k.left = i.left /\ k.point = i.point /\ k.used = i.used /\ k.gated = i.gated
      /\ k.known = i.known /\ k.tried = i.tried /\ k.clean = i.clean
  BY <1>1, <1>5, <1>7, GatheringIs
<1> HIDE DEF k, g
<1>9. job'[w] = k /\ Others(w)
  BY <1>3, <1>8, SetJob DEF Others
<1>10. SameRow(job[w], k)
  BY <1>5, <1>8 DEF SameRow, Alike
<1>11. QED
  BY <1>1, <1>5, <1>8, <1>9, <1>10 DEF found

LEMMA RunIs ==
  ASSUME Threads, NEW w \in Worker, Run(w)
  PROVE  /\ job[w].pc = "run" /\ Others(w) /\ SameRow(job[w], job'[w])
         /\ job'[w].tried = job[w].tried /\ job'[w].clean = job[w].clean /\ job'[w].gated = job[w].gated
         /\ job'[w].left = job[w].left /\ job'[w].point = job[w].point /\ job'[w].used = job[w].used
         /\ \/ job'[w].pc = "success" /\ job'[w].ok /\ job'[w].known = job[w].known \cup {T(w)}
            \/ job'[w].pc = "success" /\ ~job'[w].ok /\ job'[w].known = job[w].known
            \/ job'[w].pc = "failure" /\ job'[w].known = job[w].known
<1>1. job[w].pc = "run" /\ "run" \in Busy /\ "run" \in InRow
  BY DEF Run, Busy, InRow
<1>2. job[w] \in Jobs /\ Fit(job[w]) /\ T(w) \in Target
  BY <1>1, AtRow
<1>3. job[w].left = {} /\ job[w].point = {}
  BY <1>1, <1>2 DEF Fit
<1> DEFINE a == [job[w] EXCEPT !.pc = "success", !.ok = TRUE, !.known = @ \cup {T(w)}]
           b == [job[w] EXCEPT !.pc = "success", !.ok = FALSE]
           c == [job[w] EXCEPT !.pc = "failure"]
<1> DEFINE Unread(k) == /\ k \in Jobs /\ SameRow(job[w], k)
                        /\ k.tried = job[w].tried /\ k.clean = job[w].clean /\ k.gated = job[w].gated
                        /\ k.left = job[w].left /\ k.point = job[w].point /\ k.used = job[w].used
<1>4. Unread(a) /\ a.pc = "success" /\ a.ok = TRUE /\ a.known = job[w].known \cup {T(w)}
  BY <1>2 DEF Jobs, SameRow, Alike, Pc, Target
<1>5. Unread(b) /\ b.pc = "success" /\ b.ok = FALSE /\ b.known = job[w].known
  BY <1>2 DEF Jobs, SameRow, Alike, Pc
<1>6. Unread(c) /\ c.pc = "failure" /\ c.known = job[w].known
  BY <1>2 DEF Jobs, SameRow, Alike, Pc
<1>7. Set(w, a) \/ Set(w, b) \/ Set(w, c)
  BY DEF Run
<1> HIDE DEF a, b, c
<1>8. Fit(a) /\ Fit(b) /\ Fit(c)
  BY <1>1, <1>2, <1>3, <1>4, <1>5, <1>6 DEF Fit, SameRow, Busy, InRow
<1>9. CASE Set(w, a)
  <2>1. job'[w] = a /\ Others(w)
    BY <1>4, <1>8, <1>9, SetJob DEF Others
  <2>2. QED
    BY <1>1, <1>4, <2>1
<1>10. CASE Set(w, b)
  <2>1. job'[w] = b /\ Others(w)
    BY <1>5, <1>8, <1>10, SetJob DEF Others
  <2>2. QED
    BY <1>1, <1>5, <2>1
<1>11. CASE Set(w, c)
  <2>1. job'[w] = c /\ Others(w)
    BY <1>6, <1>8, <1>11, SetJob DEF Others
  <2>2. QED
    BY <1>1, <1>6, <2>1
<1>12. QED
  BY <1>7, <1>9, <1>10, <1>11

\* The steps after which the row is done.
LEMMA DoneBySet ==
  ASSUME Threads, NEW w \in Worker, job[w].pc \in Busy, Set(w, RowDone(job[w]))
  PROVE  Others(w) /\ Done(job[w], job'[w]) /\ job'[w].tried = job[w].tried
<1>1. job[w] \in Jobs /\ Fit(job[w])
  BY AtRow
<1>2. RowDone(job[w]) \in Jobs /\ Fit(RowDone(job[w])) /\ Done(job[w], RowDone(job[w]))
      /\ RowDone(job[w]).tried = job[w].tried
  BY <1>1, RowDoneIs
<1>3. job'[w] = RowDone(job[w]) /\ Others(w)
  BY <1>2, SetJob DEF Others
<1>4. QED
  BY <1>2, <1>3

LEMMA RecordFailureIs ==
  ASSUME Threads, NEW w \in Worker, RecordFailure(w)
  PROVE  /\ job[w].pc = "failure" /\ Others(w) /\ job'[w].tried = job[w].tried
         /\ \/ ~(health[Out(w)].failures + 1 >= Threshold) /\ Done(job[w], job'[w])
            \/ /\ health[Out(w)].failures + 1 >= Threshold
               /\ SameRow(job[w], job'[w]) /\ job'[w].pc = "disable"
               /\ job'[w].known = job[w].known /\ job'[w].used = job[w].used
<1>1. job[w].pc = "failure" /\ job[w].pc \in Busy
  BY DEF RecordFailure, Busy
<1>2. job[w] \in Jobs /\ Fit(job[w])
  BY <1>1, AtRow
<1> DEFINE over == health[Out(w)].failures + 1 >= Threshold
           k == [job[w] EXCEPT !.pc = "disable"]
<1>3. CASE ~over
  <2>1. Set(w, RowDone(job[w]))
    BY <1>3 DEF RecordFailure
  <2>2. Others(w) /\ Done(job[w], job'[w]) /\ job'[w].tried = job[w].tried
    BY <1>1, <2>1, DoneBySet
  <2>3. QED
    BY <1>1, <1>3, <2>2
<1>4. CASE over
  <2>1. /\ k \in Jobs /\ SameRow(job[w], k) /\ k.pc = "disable" /\ k.tried = job[w].tried
        /\ k.known = job[w].known /\ k.used = job[w].used /\ k.point = job[w].point
    BY <1>2 DEF Jobs, Pc, SameRow, Alike
  <2>2. Set(w, k)
    BY <1>4 DEF RecordFailure
  <2> HIDE DEF k, over
  <2>3. Fit(k)
    BY <1>1, <1>2, <2>1 DEF Fit, SameRow, Busy, InRow
  <2>4. job'[w] = k /\ Others(w)
    BY <2>1, <2>2, <2>3, SetJob DEF Others
  <2>5. QED
    BY <1>1, <1>4, <2>1, <2>4 DEF over
<1>5. QED
  BY <1>3, <1>4

LEMMA DisableTargetIs ==
  ASSUME Threads, NEW w \in Worker, DisableTarget(w)
  PROVE  /\ job[w].pc = "disable" /\ Others(w) /\ Done(job[w], job'[w]) /\ job'[w].tried = job[w].tried
<1>1. job[w].pc = "disable" /\ job[w].pc \in Busy /\ Set(w, RowDone(job[w]))
  BY DEF DisableTarget, Busy
<1>2. QED
  BY <1>1, DoneBySet

LEMMA RecordSuccessIs ==
  ASSUME Threads, NEW w \in Worker, RecordSuccess(w)
  PROVE  /\ job[w].pc = "success" /\ Others(w) /\ job'[w].tried = job[w].tried
         /\ \/ ~job[w].ok /\ Done(job[w], job'[w])
            \/ /\ job[w].ok /\ SameRow(job[w], job'[w]) /\ job'[w].pc = "write"
               /\ job'[w].known = job[w].known /\ job'[w].clean = job[w].clean /\ job'[w].gated = job[w].gated
               /\ job'[w].left = job[w].left /\ job'[w].point = job[w].point /\ job'[w].used = job[w].used
<1>1. job[w].pc = "success" /\ job[w].pc \in Busy /\ job[w].pc \in InRow
  BY DEF RecordSuccess, Busy, InRow
<1>2. job[w] \in Jobs /\ Fit(job[w])
  BY <1>1, AtRow
<1>3. CASE ~job[w].ok
  <2>1. Set(w, RowDone(job[w]))
    BY <1>3 DEF RecordSuccess
  <2>2. QED
    BY <1>1, <1>3, <2>1, DoneBySet
<1>4. CASE job[w].ok
  <2> DEFINE k == [job[w] EXCEPT !.pc = "write"]
  <2>1. /\ k \in Jobs /\ SameRow(job[w], k) /\ k.pc = "write" /\ k.tried = job[w].tried
        /\ k.known = job[w].known /\ k.clean = job[w].clean /\ k.gated = job[w].gated
        /\ k.left = job[w].left /\ k.point = job[w].point /\ k.used = job[w].used
    BY <1>2 DEF Jobs, Pc, SameRow, Alike
  <2>2. Set(w, k)
    BY <1>4 DEF RecordSuccess
  <2> HIDE DEF k
  <2>3. Fit(k)
    BY <1>1, <1>2, <2>1 DEF Fit, SameRow, Busy, InRow
  <2>4. job'[w] = k /\ Others(w)
    BY <2>1, <2>2, <2>3, SetJob DEF Others
  <2>5. QED
    BY <1>1, <1>4, <2>1, <2>4
<1>5. QED
  BY <1>3, <1>4

LEMMA WriteIs ==
  ASSUME Threads, NEW w \in Worker, Write(w)
  PROVE  /\ job[w].pc = "write" /\ Others(w) /\ SameRow(job[w], job'[w]) /\ job'[w].pc = "attach"
         /\ job'[w].tried = job[w].tried /\ job'[w].known = job[w].known /\ job'[w].used = job[w].used
<1>1. job[w].pc = "write" /\ job[w].pc \in Busy /\ job[w].pc \in InRow
  BY DEF Write, Busy, InRow
<1>2. job[w] \in Jobs /\ Fit(job[w])
  BY <1>1, AtRow
<1> DEFINE k == [job[w] EXCEPT !.pc = "attach"]
<1>3. /\ k \in Jobs /\ SameRow(job[w], k) /\ k.pc = "attach" /\ k.tried = job[w].tried
      /\ k.known = job[w].known /\ k.used = job[w].used /\ k.point = job[w].point
  BY <1>2 DEF Jobs, Pc, SameRow, Alike
<1>4. Set(w, k)
  BY DEF Write
<1> HIDE DEF k
<1>5. Fit(k)
  BY <1>1, <1>2, <1>3 DEF Fit, SameRow, Busy, InRow
<1>6. job'[w] = k /\ Others(w)
  BY <1>3, <1>4, <1>5, SetJob DEF Others
<1>7. QED
  BY <1>1, <1>3, <1>6

\* What is left to link.
LEMMA LinkingIs ==
  ASSUME NEW j \in Jobs, Fit(j), j.pc \in {"attach", "derive"}
  PROVE  LET k == Linking(j) IN
         /\ k \in Jobs /\ Fit(k) /\ k.tried = j.tried
         /\ \/ j.left = {} /\ Done(j, k)
            \/ /\ j.left # {} /\ SameRow(j, k) /\ k.pc = "derive"
               /\ k.left = j.left /\ k.used = j.used /\ k.known = j.known
<1>1. j.pc \in Busy /\ "derive" \in Pc
  BY DEF Busy, Pc
<1>2. CASE j.left = {}
  <2>1. RowDone(j) \in Jobs /\ Fit(RowDone(j)) /\ Done(j, RowDone(j)) /\ RowDone(j).tried = j.tried
    BY <1>1, RowDoneIs
  <2>2. QED
    BY <1>2, <2>1 DEF Linking
<1>3. CASE j.left # {}
  <2> DEFINE k == [j EXCEPT !.pc = "derive"]
  <2>1. /\ k \in Jobs /\ SameRow(j, k) /\ k.pc = "derive" /\ k.tried = j.tried
        /\ k.left = j.left /\ k.used = j.used /\ k.known = j.known /\ k.point = j.point
    BY <1>1 DEF Jobs, SameRow, Alike
  <2>2. Linking(j) = k
    BY <1>3 DEF Linking
  <2> HIDE DEF k
  <2>3. Fit(k)
    BY <1>1, <2>1 DEF Fit, SameRow, Busy, InRow
  <2>4. QED
    BY <1>3, <2>1, <2>2, <2>3
<1>4. QED
  BY <1>2, <1>3

LEMMA UsedPoints ==
  ASSUME Threads, NEW w \in Worker
  PROVE  Used(w) \subseteq Point
<1>1. job[w].used \subseteq Point \X Time
  BY DEF Threads, Jobs
<1>2. QED
  BY <1>1 DEF Used

\* The points a row is yet to be linked to: all of them at first, then those left.
LEMMA AttachIs ==
  ASSUME Threads, NEW w \in Worker, Attach(w)
  PROVE  /\ job[w].pc = "attach" /\ Others(w) /\ job'[w].tried = job[w].tried
         /\ \/ Used(w) = {} /\ Done(job[w], job'[w])
            \/ /\ SameRow(job[w], job'[w]) /\ job'[w].pc = "derive"
               /\ Used(w) \subseteq job'[w].left /\ job'[w].used = job[w].used /\ job'[w].known = job[w].known
<1>1. job[w].pc = "attach" /\ job[w].pc \in Busy
  BY DEF Attach, Busy
<1>2. /\ job[w] \in Jobs /\ Fit(job[w])
      /\ Inputs[D(w)][T(w)] \cup Used(w) \subseteq Point
  BY <1>1, AtRow, UsedPoints
<1> DEFINE i == [job[w] EXCEPT !.left = Inputs[D(w)][T(w)] \cup Used(w)]
           k == Linking(i)
<1>3. /\ i \in Jobs /\ SameRow(job[w], i) /\ i.pc = "attach" /\ i.tried = job[w].tried
      /\ i.left = Inputs[D(w)][T(w)] \cup Used(w) /\ i.used = job[w].used /\ i.known = job[w].known
      /\ i.point = job[w].point
  BY <1>1, <1>2 DEF Jobs, SameRow, Alike
<1>4. Set(w, k)
  BY DEF Attach
<1> HIDE DEF i
<1>5. Fit(i)
  BY <1>1, <1>2, <1>3 DEF Fit, SameRow, Busy, InRow
<1>6. /\ k \in Jobs /\ Fit(k) /\ k.tried = i.tried
      /\ \/ i.left = {} /\ Done(i, k)
         \/ /\ i.left # {} /\ SameRow(i, k) /\ k.pc = "derive"
            /\ k.left = i.left /\ k.used = i.used /\ k.known = i.known
  BY <1>3, <1>5, LinkingIs
<1> HIDE DEF k
<1>7. job'[w] = k /\ Others(w)
  BY <1>4, <1>6, SetJob DEF Others
<1>8. CASE i.left = {}
  <2>1. Used(w) = {} /\ Done(i, k)
    BY <1>3, <1>6, <1>8
  <2>2. Done(job[w], k)
    BY <2>1, <1>3 DEF Done, SameRow, Alike, NextOne, NextRow
  <2>3. QED
    BY <1>1, <1>3, <1>6, <1>7, <2>1, <2>2
<1>9. CASE i.left # {}
  <2>1. SameRow(i, k) /\ k.pc = "derive" /\ k.left = i.left /\ k.used = i.used /\ k.known = i.known
    BY <1>6, <1>9
  <2>2. SameRow(job[w], k) /\ Used(w) \subseteq k.left
    BY <2>1, <1>3 DEF SameRow, Alike
  <2>3. QED
    BY <1>1, <1>3, <1>6, <1>7, <2>1, <2>2
<1>10. QED
  BY <1>8, <1>9

LEMMA DeriveIs ==
  ASSUME Threads, NEW w \in Worker, Derive(w)
  PROVE  /\ job[w].pc = "derive" /\ Others(w) /\ job'[w].tried = job[w].tried
         /\ \E p \in job[w].left :
              /\ p \in Point /\ edges' = edges \cup {<<Out(w), p>>}
              /\ \/ job[w].left = {p} /\ Done(job[w], job'[w])
                 \/ /\ SameRow(job[w], job'[w]) /\ job'[w].pc = "derive"
                    /\ job'[w].left = job[w].left \ {p}
                    /\ job'[w].used = job[w].used /\ job'[w].known = job[w].known
<1>1. job[w].pc = "derive" /\ job[w].pc \in Busy
  BY DEF Derive, Busy
<1>2. job[w] \in Jobs /\ Fit(job[w])
  BY <1>1, AtRow
<1>3. PICK p \in job[w].left :
        /\ edges' = edges \cup {<<Out(w), p>>}
        /\ Set(w, Linking([job[w] EXCEPT !.left = @ \ {p}]))
  BY DEF Derive
<1>4. p \in Point
  BY <1>2 DEF Jobs
<1> DEFINE i == [job[w] EXCEPT !.left = @ \ {p}]
           k == Linking(i)
<1>5. /\ i \in Jobs /\ SameRow(job[w], i) /\ i.pc = "derive" /\ i.tried = job[w].tried
      /\ i.left = job[w].left \ {p} /\ i.used = job[w].used /\ i.known = job[w].known
      /\ i.point = job[w].point
  BY <1>1, <1>2 DEF Jobs, SameRow, Alike
<1>6. Set(w, k)
  BY <1>3
<1> HIDE DEF i
<1>7. Fit(i)
  BY <1>1, <1>2, <1>5 DEF Fit, SameRow, Busy, InRow
<1>8. /\ k \in Jobs /\ Fit(k) /\ k.tried = i.tried
      /\ \/ i.left = {} /\ Done(i, k)
         \/ /\ i.left # {} /\ SameRow(i, k) /\ k.pc = "derive"
            /\ k.left = i.left /\ k.used = i.used /\ k.known = i.known
  BY <1>5, <1>7, LinkingIs
<1> HIDE DEF k
<1>9. job'[w] = k /\ Others(w)
  BY <1>6, <1>8, SetJob DEF Others
<1>10. CASE i.left = {}
  <2>1. job[w].left = {p} /\ Done(i, k)
    BY <1>3, <1>5, <1>8, <1>10
  <2>2. Done(job[w], k)
    BY <2>1, <1>5 DEF Done, SameRow, Alike, NextOne, NextRow
  <2>3. QED
    BY <1>1, <1>3, <1>4, <1>5, <1>8, <1>9, <2>1, <2>2
<1>11. CASE i.left # {}
  <2>1. SameRow(i, k) /\ k.pc = "derive" /\ k.left = i.left /\ k.used = i.used /\ k.known = i.known
    BY <1>8, <1>11
  <2>2. SameRow(job[w], k)
    BY <2>1, <1>5 DEF SameRow, Alike
  <2>3. QED
    BY <1>1, <1>3, <1>4, <1>5, <1>8, <1>9, <2>1, <2>2
<1>12. QED
  BY <1>10, <1>11

\* A read that raises.
LEMMA RaiseReadingIs ==
  ASSUME Threads, NEW w \in Worker, RaiseReading(w)
  PROVE  /\ job[w].pc \in {"gate", "read"} /\ Others(w) /\ job'[w].tried = job[w].tried
         /\ SameRow(job[w], job'[w]) /\ job'[w].pc = "failure"
         /\ job'[w].known = job[w].known /\ job'[w].used = job[w].used
<1>1. job[w].pc \in {"gate", "read"} /\ job[w].pc \in Busy
  BY DEF RaiseReading, Break, Busy
<1>2. job[w] \in Jobs /\ Fit(job[w])
  BY <1>1, AtRow
<1> DEFINE k == [job[w] EXCEPT !.pc = "failure", !.point = {}, !.left = {}]
<1>3. /\ k \in Jobs /\ SameRow(job[w], k) /\ k.pc = "failure" /\ k.tried = job[w].tried
      /\ k.known = job[w].known /\ k.used = job[w].used /\ k.point = {}
  BY <1>2 DEF Jobs, Pc, SameRow, Alike
<1>4. Set(w, k)
  BY DEF RaiseReading
<1> HIDE DEF k
<1>5. Fit(k)
  BY <1>1, <1>2, <1>3 DEF Fit, SameRow, Busy, InRow
<1>6. job'[w] = k /\ Others(w)
  BY <1>3, <1>4, <1>5, SetJob DEF Others
<1>7. QED
  BY <1>1, <1>3, <1>6

\* What is excused is the derivation's rows, the sweep's.
LEMMA ExcusedIs ==
  ASSUME NEW w \in Worker, job[w] \in Jobs, Row(D(w)) \subseteq Output
  PROVE  LET i == Excused(w) IN
         /\ i \in Jobs /\ SameRow(job[w], i) /\ i.pc = job[w].pc /\ (Fit(job[w]) => Fit(i))
         /\ i.known = job[w].known /\ i.used = job[w].used
         /\ i.tried = IF w = "sweep" THEN job[w].tried \cup Row(D(w)) ELSE {}
<1> DEFINE i == Excused(w)
<1>1. /\ i \in Jobs /\ SameRow(job[w], i) /\ i.pc = job[w].pc
      /\ i.known = job[w].known /\ i.used = job[w].used /\ i.left = job[w].left /\ i.point = job[w].point
      /\ i.tried = IF w = "sweep" THEN job[w].tried \cup Row(D(w)) ELSE {}
  BY DEF Excused, Jobs, SameRow, Alike
<1> HIDE DEF i
<1>2. Fit(job[w]) => Fit(i)
  BY <1>1 DEF Fit, SameRow
<1>3. QED
  BY <1>1, <1>2 DEF i

LEMMA RaiseIs ==
  ASSUME Threads, NEW w \in Worker, Raise(w)
  PROVE  /\ job[w].pc \in Busy /\ Others(w) /\ Ended(job[w], job'[w])
         /\ job'[w].tried = IF w = "sweep" THEN job[w].tried \cup Row(D(w)) ELSE {}
<1>1. job[w].pc \in Busy /\ Set(w, Abandoned(Excused(w)))
  BY LimitAssumption DEF Raise, Break, Busy
<1>2. job[w] \in Jobs /\ Fit(job[w]) /\ Row(D(w)) \subseteq Output
  BY <1>1, AtRow, Rows
<1> DEFINE i == Excused(w)
           k == Abandoned(i)
<1>3. /\ i \in Jobs /\ SameRow(job[w], i) /\ i.pc = job[w].pc /\ Fit(i)
      /\ i.tried = IF w = "sweep" THEN job[w].tried \cup Row(D(w)) ELSE {}
  BY <1>2, ExcusedIs
<1> HIDE DEF i
<1>4. k \in Jobs /\ Fit(k) /\ Ended(i, k) /\ k.tried = i.tried
  BY <1>1, <1>3, AbandonedIs
<1> HIDE DEF k
<1>5. job'[w] = k /\ Others(w)
  BY <1>1, <1>4, SetJob DEF Others, k, i
<1>6. Ended(job[w], k)
  BY <1>3, <1>4 DEF Ended, SameRow, Alike, NextOne
<1>7. QED
  BY <1>1, <1>3, <1>4, <1>5, <1>6

LEMMA IdleFit == Idle \in Jobs /\ Fit(Idle)
<1>1. <<>> \in Seq(Deriv) /\ <<>> \in Seq(Target)
  BY EmptySeq
<1>2. Idle \in Jobs
  BY <1>1, Limits DEF Idle, Jobs, Pc, Target
<1>3. Fit(Idle)
  BY DEF Idle, Fit, Busy, InRow
<1>4. QED
  BY <1>2, <1>3

LEMMA PlanDoneIs ==
  ASSUME Threads, NEW w \in Worker, PlanDone(w)
  PROVE  /\ job[w].pc = "plan" /\ job[w].plan = <<>> /\ Others(w)
         /\ \/ /\ w = "sweep" /\ job'[w].pc = "finish" /\ job'[w].plan = <<>>
               /\ Alike(job[w], job'[w]) /\ job'[w].tried = job[w].tried
               /\ job'[w].known = {} /\ job'[w].used = job[w].used
            \/ w # "sweep" /\ job'[w] = Idle
<1>1. job[w].pc = "plan" /\ job[w].plan = <<>> /\ job[w].pc \notin Busy
  BY DEF PlanDone, Busy
<1>2. job[w] \in Jobs /\ Fit(job[w])
  BY DEF Threads
<1>3. CASE w = "sweep"
  <2> DEFINE k == [job[w] EXCEPT !.pc = "finish"]
  <2>1. /\ k \in Jobs /\ k.pc = "finish" /\ k.plan = job[w].plan /\ Alike(job[w], k) /\ k.tried = job[w].tried
        /\ k.known = job[w].known /\ k.used = job[w].used /\ k.point = job[w].point
    BY <1>2 DEF Jobs, Pc, Alike
  <2>2. Set(w, k)
    BY <1>3 DEF PlanDone
  <2> HIDE DEF k
  <2>3. Fit(k) /\ k.known = {}
    BY <1>1, <1>2, <2>1 DEF Fit, Busy, InRow
  <2>4. job'[w] = k /\ Others(w)
    BY <2>1, <2>2, <2>3, SetJob DEF Others
  <2>5. QED
    BY <1>1, <1>3, <2>1, <2>3, <2>4
<1>4. CASE w # "sweep"
  <2>1. Set(w, Idle)
    BY <1>4 DEF PlanDone
  <2>2. job'[w] = Idle /\ Others(w)
    BY <2>1, IdleFit, SetJob DEF Others
  <2>3. QED
    BY <1>1, <1>4, <2>2
<1>5. QED
  BY <1>3, <1>4

LEMMA StartedIs ==
  ASSUME NEW j \in Jobs, Fit(j), j.pc = "plan", j.plan # <<>>,
         NEW rows \in Seq(Target), ToSet(rows) \subseteq ToSet(Targets[Head(j.plan)])
  PROVE  LET k == Started(j, rows) IN
         /\ k \in Jobs /\ Fit(k) /\ Alike(j, k) /\ k.tried = j.tried /\ k.used = j.used /\ k.known = {}
         /\ \/ rows = <<>> /\ k.pc = "plan" /\ k.plan = Tail(j.plan)
            \/ rows # <<>> /\ k.pc = "check" /\ k.plan = j.plan /\ k.rows = rows
<1> DEFINE k == Started(j, rows)
<1>1. j.plan \in Seq(Deriv)
  BY DEF Jobs
<1>2. Tail(j.plan) \in Seq(Deriv)
  BY <1>1, Split
<1>3. j.known = {} /\ j.point = {}
  BY DEF Fit, Busy
<1>4. CASE rows = <<>>
  <2>1. k = [j EXCEPT !.plan = Tail(@)]
    BY <1>4 DEF Started
  <2>2. k \in Jobs /\ Alike(j, k) /\ k.tried = j.tried /\ k.used = j.used /\ k.known = {} /\ k.pc = "plan"
        /\ k.plan = Tail(j.plan) /\ k.point = {}
    BY <2>1, <1>2, <1>3 DEF Jobs, Alike
  <2> HIDE DEF k
  <2>3. Fit(k)
    BY <2>2 DEF Fit, Busy, InRow
  <2>4. QED
    BY <1>4, <2>2, <2>3 DEF k
<1>5. CASE rows # <<>>
  <2>1. k = [j EXCEPT !.pc = "check", !.rows = rows, !.known = {}]
    BY <1>5 DEF Started
  <2>2. k \in Jobs /\ Alike(j, k) /\ k.tried = j.tried /\ k.used = j.used /\ k.known = {} /\ k.pc = "check"
        /\ k.plan = j.plan /\ k.point = {} /\ k.rows = rows
    <3> HIDE DEF k
    <3>1. k \in Jobs
      <4>1. "check" \in Pc
        BY DEF Pc
      <4>2. QED
        BY <2>1, <4>1, JobFields
    <3>2. QED
      BY <3>1, <2>1, <1>3, JobFields DEF Alike
  <2> HIDE DEF k
  <2>3. Fit(k)
    BY <1>5, <2>2 DEF Fit, Busy, InRow
  <2>4. QED
    BY <1>5, <2>2, <2>3 DEF k
<1>6. QED
  BY <1>4, <1>5

LEMMA RowsForIs ==
  ASSUME NEW w \in Worker, NEW d \in Deriv, NEW rows \in RowsFor(w, d)
  PROVE  rows \in Seq(Target) /\ ToSet(rows) \subseteq ToSet(Targets[d])
         /\ (w = "sweep" => rows = Targets[d])
<1>1. CASE w = "sweep"
  BY <1>1, Rows DEF RowsFor
<1>2. CASE w # "sweep"
  <2> DEFINE S == {t \in ToSet(Targets[d]) : job[w].topic \subseteq Inputs[d][t]}
  <2>1. rows \in SetToSeqs(S)
    BY <1>2 DEF RowsFor
  <2>2. S \in SUBSET Target /\ IsFiniteSet(S) /\ S \subseteq ToSet(Targets[d])
    <3>1. ToSet(Targets[d]) \subseteq Target /\ IsFiniteSet(ToSet(Targets[d]))
      BY Rows
    <3>2. S \in SUBSET ToSet(Targets[d])
      OBVIOUS
    <3> HIDE DEF S
    <3>3. IsFiniteSet(S)
      BY <3>1, <3>2, FS_Subset
    <3>4. QED
      BY <3>1, <3>2, <3>3
  <2> HIDE DEF S
  <2>3. QED
    BY <1>2, <2>1, <2>2, Permuted
<1>3. QED
  BY <1>1, <1>2

LEMMA BeginIs ==
  ASSUME Threads, clock \in Time, NEW w \in Worker, Begin(w)
  PROVE  /\ job[w].pc = "plan" /\ job[w].plan # <<>> /\ D(w) \in Deriv /\ Others(w)
         /\ job'[w].list = job[w].list /\ job'[w].due = job[w].due /\ job'[w].topic = job[w].topic
         /\ job'[w].tried = job[w].tried /\ job'[w].used = job[w].used /\ job'[w].known = {}
         /\ \/ /\ w = "sweep" /\ job'[w].at = job[w].at
               /\ ran' = [ran EXCEPT ![D(w)] = job[w].at] /\ UNCHANGED clock
            \/ /\ w = "message" /\ job'[w].at = clock + 1 /\ clock < MaxTime /\ clock' = clock + 1
               /\ UNCHANGED ran
         /\ \E rows \in RowsFor(w, D(w)) :
              \/ rows = <<>> /\ job'[w].pc = "plan" /\ job'[w].plan = Tail(job[w].plan)
              \/ rows # <<>> /\ job'[w].pc = "check" /\ job'[w].plan = job[w].plan /\ job'[w].rows = rows
<1>1. job[w].pc = "plan" /\ job[w].plan # <<>>
  BY DEF Begin
<1>2. job[w] \in Jobs /\ Fit(job[w])
  BY DEF Threads
<1>3. D(w) \in Deriv
  <2>1. job[w].plan \in Seq(Deriv)
    BY <1>2 DEF Jobs
  <2>2. QED
    BY <2>1, <1>1, Split DEF D
<1>4. PICK rows \in RowsFor(w, D(w)) :
        IF w = "sweep"
        THEN /\ Set(w, Started(job[w], rows))
             /\ ran' = [ran EXCEPT ![D(w)] = job[w].at]
             /\ UNCHANGED clock
        ELSE /\ clock < MaxTime /\ clock' = clock + 1
             /\ Set(w, Started([job[w] EXCEPT !.at = clock'], rows))
             /\ UNCHANGED ran
  BY DEF Begin
<1>5. rows \in Seq(Target) /\ ToSet(rows) \subseteq ToSet(Targets[D(w)])
  BY <1>3, RowsForIs
<1>6. CASE w = "sweep"
  <2> DEFINE k == Started(job[w], rows)
  <2>1. /\ k \in Jobs /\ Fit(k) /\ Alike(job[w], k) /\ k.tried = job[w].tried /\ k.used = job[w].used
        /\ k.known = {}
        /\ \/ rows = <<>> /\ k.pc = "plan" /\ k.plan = Tail(job[w].plan)
           \/ rows # <<>> /\ k.pc = "check" /\ k.plan = job[w].plan /\ k.rows = rows
    BY <1>1, <1>2, <1>5, StartedIs DEF D
  <2>2. Set(w, k)
    BY <1>4, <1>6
  <2> HIDE DEF k
  <2>3. job'[w] = k /\ Others(w)
    BY <2>1, <2>2, SetJob DEF Others
  <2>4. QED
    BY <1>1, <1>3, <1>4, <1>6, <2>1, <2>3 DEF Alike
<1>7. CASE w # "sweep"
  <2>1. clock < MaxTime /\ clock' = clock + 1 /\ clock' \in Time
    BY <1>4, <1>7, Limits DEF Time
  <2>2. PICK now : now = clock'
    OBVIOUS
  <2> DEFINE j == [job[w] EXCEPT !.at = now]
  <2>3. /\ j \in Jobs /\ j.pc = "plan" /\ j.plan = job[w].plan /\ j.at = now
        /\ j.list = job[w].list /\ j.due = job[w].due /\ j.topic = job[w].topic
        /\ j.tried = job[w].tried /\ j.used = job[w].used /\ j.known = job[w].known /\ j.point = job[w].point
    BY <1>1, <1>2, <2>1, <2>2 DEF Jobs
  <2> DEFINE k == Started(j, rows)
  <2>4. Set(w, k)
    BY <1>4, <1>7, <2>2
  <2> HIDE DEF j
  <2>5. Fit(j)
    BY <1>1, <1>2, <2>3 DEF Fit, Busy, InRow
  <2>6. /\ k \in Jobs /\ Fit(k) /\ Alike(j, k) /\ k.tried = j.tried /\ k.used = j.used
        /\ k.known = {}
        /\ \/ rows = <<>> /\ k.pc = "plan" /\ k.plan = Tail(j.plan)
           \/ rows # <<>> /\ k.pc = "check" /\ k.plan = j.plan /\ k.rows = rows
    BY <1>1, <2>3, <2>5, <1>5, StartedIs DEF D
  <2> HIDE DEF k
  <2>7. job'[w] = k /\ Others(w)
    BY <2>4, <2>6, SetJob DEF Others
  <2>8. w = "message" /\ UNCHANGED ran
    BY <1>4, <1>7 DEF Worker
  <2>9. QED
    BY <1>1, <1>3, <2>1, <2>2, <2>3, <2>6, <2>7, <2>8 DEF Alike
<1>8. QED
  BY <1>6, <1>7

\* The statement that looks for the rows raises.
LEMMA RaiseFirstIs ==
  ASSUME Threads, NEW w \in Worker, RaiseFirst(w)
  PROVE  /\ job[w].pc = "plan" /\ job[w].plan # <<>> /\ D(w) \in Deriv /\ Others(w)
         /\ Alike(job[w], job'[w]) /\ job'[w].pc = "plan" /\ job'[w].plan = Tail(job[w].plan)
         /\ job'[w].used = job[w].used /\ job'[w].known = {}
         /\ job'[w].tried = IF w = "sweep" THEN job[w].tried \cup Row(D(w)) ELSE {}
         /\ ran' = IF w = "sweep" THEN [ran EXCEPT ![D(w)] = job[w].at] ELSE ran
<1>1. job[w].pc = "plan" /\ job[w].plan # <<>> /\ Set(w, Started(Excused(w), <<>>))
      /\ ran' = IF w = "sweep" THEN [ran EXCEPT ![D(w)] = job[w].at] ELSE ran
  BY DEF RaiseFirst, Break
<1>2. job[w] \in Jobs /\ Fit(job[w])
  BY DEF Threads
<1>3. D(w) \in Deriv /\ Row(D(w)) \subseteq Output
  <2>1. job[w].plan \in Seq(Deriv)
    BY <1>2 DEF Jobs
  <2>2. D(w) \in Deriv
    BY <2>1, <1>1, Split DEF D
  <2>3. QED
    BY <2>2, Rows
<1> DEFINE i == Excused(w)
           k == Started(i, <<>>)
<1>4. /\ i \in Jobs /\ SameRow(job[w], i) /\ i.pc = job[w].pc /\ Fit(i) /\ i.used = job[w].used
      /\ i.tried = IF w = "sweep" THEN job[w].tried \cup Row(D(w)) ELSE {}
  BY <1>2, <1>3, ExcusedIs
<1> HIDE DEF i
<1>5. i.pc = "plan" /\ i.plan = job[w].plan /\ i.plan # <<>>
  BY <1>1, <1>4 DEF SameRow
<1>6. /\ k \in Jobs /\ Fit(k) /\ Alike(i, k) /\ k.tried = i.tried /\ k.used = i.used /\ k.known = {}
      /\ k.pc = "plan" /\ k.plan = Tail(i.plan)
  <2> DEFINE none == <<>>
  <2>1. none \in Seq(Target) /\ ToSet(none) = {}
    BY EmptySeq, Elements
  <2>2. ToSet(none) \subseteq ToSet(Targets[Head(i.plan)])
    BY <2>1
  <2>3. LET m == Started(i, none) IN
        /\ m \in Jobs /\ Fit(m) /\ Alike(i, m) /\ m.tried = i.tried /\ m.used = i.used /\ m.known = {}
        /\ \/ none = <<>> /\ m.pc = "plan" /\ m.plan = Tail(i.plan)
           \/ none # <<>> /\ m.pc = "check" /\ m.plan = i.plan /\ m.rows = none
    <3> HIDE DEF none
    <3>1. QED
      BY <1>4, <1>5, <2>1, <2>2, StartedIs
  <2>4. QED
    BY <2>3
<1> HIDE DEF k
<1>7. job'[w] = k /\ Others(w)
  BY <1>1, <1>6, SetJob DEF Others, k, i
<1>8. QED
  BY <1>1, <1>3, <1>4, <1>5, <1>6, <1>7 DEF SameRow, Alike

LEMMA StartTickIs ==
  ASSUME Threads, file \subseteq Deriv, clock \in Time, StartTick
  PROVE  LET j == job'["sweep"] IN
         /\ job["sweep"].pc = "idle" /\ Others("sweep") /\ clock < MaxTime /\ clock' = clock + 1
         /\ j.pc = "plan" /\ j.at = clock + 1 /\ j.list = file
         /\ j.due = {d \in file : clock + 1 >= next_run[d]}
         /\ j.plan \in Seq(Deriv) /\ ToSet(j.plan) = Kept(file) \cap j.due /\ Ordered(j.plan)
         /\ j.used = {} /\ j.known = {} /\ j.tried = {}
         /\ ran' = [d \in Deriv |-> IF d \in j.due \ Kept(file) THEN clock + 1 ELSE ran[d]]
<1>1. PICK now : now = clock'
  OBVIOUS
<1>2. job["sweep"].pc = "idle" /\ clock < MaxTime /\ now = clock + 1 /\ now \in Time /\ "sweep" \in Worker
  BY <1>1, Limits DEF StartTick, Time
<1> DEFINE due == {d \in file : now >= next_run[d]}
<1>3. PICK plan \in Plan(file, due) :
        /\ Set("sweep", [Idle EXCEPT !.pc = "plan", !.at = now, !.list = file, !.due = due, !.plan = plan])
        /\ ran' = [d \in Deriv |-> IF d \in due \ Kept(file) THEN now ELSE ran[d]]
  BY <1>1 DEF StartTick
<1>4. due \subseteq Deriv
  OBVIOUS
<1> HIDE DEF due
<1>5. Kept(file) \cap due \in SUBSET Deriv /\ IsFiniteSet(Kept(file) \cap due)
  <2>1. IsFiniteSet(Deriv)
    BY KindAssumption DEF Deriv
  <2>2. Kept(file) \cap due \in SUBSET Deriv
    BY <1>4
  <2>3. QED
    BY <2>1, <2>2, FS_Subset
<1>6. plan \in SetToSeqs(Kept(file) \cap due) /\ Ordered(plan)
  BY DEF Plan
<1>7. plan \in Seq(Deriv) /\ ToSet(plan) = Kept(file) \cap due
  BY <1>5, <1>6, Permuted
<1> DEFINE k == [Idle EXCEPT !.pc = "plan", !.at = now, !.list = file, !.due = due, !.plan = plan]
<1>8. /\ k \in Jobs /\ k.pc = "plan" /\ k.at = now /\ k.list = file /\ k.due = due /\ k.plan = plan
      /\ k.used = {} /\ k.known = {} /\ k.tried = {} /\ k.point = {}
  <2>1. Idle \in Jobs /\ Idle.used = {} /\ Idle.known = {} /\ Idle.tried = {} /\ Idle.point = {}
    BY IdleFit DEF Idle
  <2>2. QED
    BY <2>1, <1>2, <1>4, <1>7 DEF Jobs, Pc
<1>9. Set("sweep", k)
  BY <1>3
<1> HIDE DEF k
<1>10. Fit(k)
  BY <1>8 DEF Fit, Busy, InRow
<1>11. job'["sweep"] = k /\ Others("sweep")
  BY <1>2, <1>8, <1>9, <1>10, SetJob DEF Others
<1>12. QED
  BY <1>1, <1>2, <1>3, <1>6, <1>7, <1>8, <1>11 DEF due

LEMMA StartMessageIs ==
  ASSUME Threads, file \subseteq Deriv, NEW p \in Source, StartMessage(p)
  PROVE  /\ job["message"].pc = "idle" /\ Others("message")
         /\ job'["message"].pc = "plan" /\ job'["message"].used = {} /\ job'["message"].known = {}
         /\ job'["message"].at = 0
<1>1. PICK plan \in SetToSeqs({d \in file \cap Formula : p \in Glob[d]}) :
       Set("message", [Idle EXCEPT !.pc = "plan", !.topic = {p}, !.plan = plan])
  BY DEF StartMessage
<1> DEFINE S == {d \in file \cap Formula : p \in Glob[d]}
           k == [Idle EXCEPT !.pc = "plan", !.topic = {p}, !.plan = plan]
<1>2. S \in SUBSET Deriv /\ IsFiniteSet(S)
  <2>1. IsFiniteSet(Deriv)
    BY KindAssumption DEF Deriv
  <2>2. S \in SUBSET Deriv
    OBVIOUS
  <2> HIDE DEF S
  <2>3. QED
    BY <2>1, <2>2, FS_Subset
<1>3. plan \in Seq(Deriv)
  <2>1. plan \in SetToSeqs(S)
    OBVIOUS
  <2> HIDE DEF S
  <2>2. QED
    BY <1>2, <2>1, Permuted
<1>4. k \in Jobs /\ k.pc = "plan" /\ k.used = {} /\ k.known = {} /\ k.point = {} /\ k.at = 0
  <2>1. Idle \in Jobs /\ Idle.used = {} /\ Idle.known = {} /\ Idle.point = {} /\ Idle.at = 0
    BY IdleFit DEF Idle
  <2>2. QED
    BY <2>1, <1>3 DEF Jobs, Pc
<1>5. Set("message", k) /\ job["message"].pc = "idle"
  BY <1>1 DEF StartMessage
<1> HIDE DEF k
<1>6. Fit(k)
  BY <1>4 DEF Fit, Busy, InRow
<1>7. job'["message"] = k /\ Others("message")
  BY <1>4, <1>5, <1>6, SetJob, Limits DEF Others
<1>8. QED
  BY <1>4, <1>5, <1>7

LEMMA FinishTickIs ==
  ASSUME Threads, FinishTick
  PROVE  job["sweep"].pc = "finish" /\ Others("sweep") /\ job'["sweep"] = Idle
<1>1. Set("sweep", Idle) /\ "sweep" \in Worker /\ job["sweep"].pc = "finish"
  BY Limits DEF FinishTick
<1>2. QED
  BY <1>1, IdleFit, SetJob DEF Others

LEMMA CrashIs ==
  ASSUME Crash
  PROVE  Threads' /\ \A w \in Worker : job'[w] = Idle
BY IdleFit DEF Crash, Threads

\* Nothing but the history of what had no fault.
Undisturbed ==
  \A w \in Worker :
    LET j == job[w]
        k == job'[w]
    IN /\ SameRow(j, k) /\ k.pc = j.pc /\ k.left = j.left /\ k.point = j.point /\ k.used = j.used
       /\ k.gated = j.gated /\ k.known = j.known /\ k.ok = j.ok /\ k.tried = j.tried

LEMMA FaultClosesIs ==
  ASSUME Threads, NEW p \in Point, FaultCloses(p)
  PROVE  /\ Threads' /\ Undisturbed
         /\ \A w \in Worker : job'[w].clean = job[w].clean \cup {p}
<1> DEFINE k(w) == [job[w] EXCEPT !.clean = @ \cup {p}]
<1>1. ASSUME NEW w \in Worker
      PROVE  /\ k(w) \in Jobs /\ SameRow(job[w], k(w)) /\ k(w).pc = job[w].pc /\ k(w).left = job[w].left
             /\ k(w).point = job[w].point /\ k(w).used = job[w].used /\ k(w).gated = job[w].gated
             /\ k(w).known = job[w].known /\ k(w).ok = job[w].ok /\ k(w).tried = job[w].tried
             /\ k(w).clean = job[w].clean \cup {p}
  <2>1. job[w] \in Jobs
    BY DEF Threads
  <2>2. QED
    BY <2>1 DEF Jobs, SameRow, Alike
<1>2. \A w \in Worker : job'[w] = k(w)
  BY DEF FaultCloses
<1>3. job' = [w \in Worker |-> k(w)]
  BY DEF FaultCloses
<1> HIDE DEF k
<1>4. ASSUME NEW w \in Worker
      PROVE  Fit(k(w))
  <2>1. Fit(job[w])
    BY DEF Threads
  <2>2. QED
    BY <1>1, <2>1 DEF Fit, SameRow
<1>5. job' \in [Worker -> Jobs]
  BY <1>1, <1>3
<1>6. Threads'
  BY <1>2, <1>4, <1>5 DEF Threads
<1>7. QED
  BY <1>1, <1>2, <1>6 DEF Undisturbed
-----------------------------------------------------------------------------
(* The invariant of types.                                                 *)

LEMMA InitTyped == Init => Typed
<1> SUFFICES ASSUME Init PROVE Typed
  OBVIOUS
<1>1. file \subseteq Deriv /\ faulted \subseteq Point
  BY GivenAssumption DEF Init
<1>2. 0 \in Time /\ clock \in Time /\ 1 \in Time
  BY LimitAssumption DEF Init, Time
<1>3. hist \in [Point -> SUBSET Time]
  BY <1>2 DEF Init
<1>4. Healthy \in [failures : Nat, disabled : BOOLEAN]
  BY DEF Healthy
<1>5. Threads
  BY IdleFit DEF Init, Threads
<1>6. events \in 0 .. MaxEvents /\ breaks \in 0 .. MaxBreaks
  BY Limits DEF Init
<1>7. health \in [Output -> [failures : Nat, disabled : BOOLEAN]] /\ edges \subseteq Output \X Point
      /\ values \subseteq [out : Output, at : Time, used : SUBSET (Point \X Time), gated : SUBSET Point]
  BY <1>4 DEF Init
<1>8. next_run \in [Deriv -> Nat] /\ ran \in [Deriv -> Time]
  BY <1>2 DEF Init
<1>9. QED
  BY <1>1, <1>2, <1>3, <1>5, <1>6, <1>7, <1>8 DEF Typed, Shape

LEMMA WorkOthers ==
  ASSUME Typed, NEW w \in Worker, Work(w)
  PROVE  Others(w)
<1>t. Threads /\ clock \in Time /\ faulted \subseteq Point /\ hist \in [Point -> SUBSET Time]
  BY DEF Typed, Shape
<1>1. CASE PlanDone(w)
  BY <1>t, <1>1, PlanDoneIs
<1>2. CASE Begin(w)
  BY <1>t, <1>2, BeginIs
<1>3. CASE Check(w)
  BY <1>t, <1>3, CheckIs
<1>4. CASE Gate(w)
  BY <1>t, <1>4, GateIs
<1>5. CASE Read(w)
  BY <1>t, <1>5, ReadIs
<1>6. CASE Run(w)
  BY <1>t, <1>6, RunIs
<1>7. CASE RecordFailure(w) \/ DisableTarget(w)
  BY <1>t, <1>7, RecordFailureIs, DisableTargetIs
<1>8. CASE RecordSuccess(w)
  BY <1>t, <1>8, RecordSuccessIs
<1>9. CASE Write(w)
  BY <1>t, <1>9, WriteIs
<1>10. CASE Attach(w)
  BY <1>t, <1>10, AttachIs
<1>11. CASE Derive(w)
  BY <1>t, <1>11, DeriveIs
<1>12. CASE RaiseFirst(w) \/ RaiseReading(w) \/ Raise(w)
  BY <1>t, <1>12, RaiseFirstIs, RaiseReadingIs, RaiseIs
<1>13. QED
  BY <1>1, <1>2, <1>3, <1>4, <1>5, <1>6, <1>7, <1>8, <1>9, <1>10, <1>11, <1>12 DEF Work

\* At any step of an evaluation but the start and the end of a plan.
LEMMA WorkMoves ==
  ASSUME Typed, NEW w \in Worker, Work(w), ~Begin(w), ~PlanDone(w), ~RaiseFirst(w)
  PROVE  /\ job[w].pc \in Busy
         /\ \/ SameRow(job[w], job'[w]) /\ job'[w].pc \in Busy
            \/ Done(job[w], job'[w]) \/ Ended(job[w], job'[w])
<1> USE DEF Typed, Shape
<1>1. CASE Check(w)
  BY <1>1, CheckIs DEF Busy, Gathers
<1>2. CASE Gate(w)
  BY <1>2, GateIs DEF Busy, Gathers
<1>3. CASE Read(w)
  BY <1>3, ReadIs DEF Busy, Gathers
<1>4. CASE Run(w)
  BY <1>4, RunIs DEF Busy
<1>5. CASE RecordFailure(w) \/ DisableTarget(w) \/ RecordSuccess(w)
  BY <1>5, RecordFailureIs, DisableTargetIs, RecordSuccessIs DEF Busy
<1>6. CASE Write(w) \/ Attach(w) \/ Derive(w)
  BY <1>6, WriteIs, AttachIs, DeriveIs DEF Busy
<1>7. CASE RaiseReading(w) \/ Raise(w)
  BY <1>7, RaiseReadingIs, RaiseIs DEF Busy
<1>8. QED
  BY <1>1, <1>2, <1>3, <1>4, <1>5, <1>6, <1>7 DEF Work

LEMMA WorkTyped ==
  ASSUME Typed, NEW w \in Worker, Work(w)
  PROVE  Typed'
<1> USE DEF Typed
<1>1. Threads'
  BY WorkOthers DEF Others
<1>2. CASE PlanDone(w) \/ Check(w) \/ Gate(w) \/ Read(w) \/ Run(w)
  BY <1>1, <1>2 DEF PlanDone, Check, Gate, Read, Run, Shape, world, tables
<1>3. CASE Begin(w)
  <2>1. clock' \in Time
    BY <1>3, BeginIs, Limits DEF Shape, Time
  <2>2. ran' \in [Deriv -> Time]
    <3>1. job[w].at \in Time
      BY DEF Threads, Jobs
    <3>2. QED
      BY <1>3, <3>1, BeginIs DEF Shape
  <2>3. QED
    BY <1>1, <1>3, <2>1, <2>2 DEF Begin, Shape, world, tables
<1>4. CASE RecordFailure(w)
  <2>1. Out(w) \in Output
    BY <1>4, RecordFailureIs, AtRow DEF Busy
  <2>2. health[Out(w)].failures + 1 \in Nat
    BY <2>1 DEF Shape
  <2>3. health' = [health EXCEPT ![Out(w)].failures = health[Out(w)].failures + 1]
    BY <1>4 DEF RecordFailure
  <2>4. health' \in [Output -> [failures : Nat, disabled : BOOLEAN]]
    BY <2>1, <2>2, <2>3 DEF Shape
  <2>5. QED
    BY <1>1, <1>4, <2>4 DEF RecordFailure, Shape, world
<1>d. CASE DisableTarget(w)
  <2>1. health' = [health EXCEPT ![Out(w)].disabled = TRUE]
    BY <1>d DEF DisableTarget
  <2>2. health' \in [Output -> [failures : Nat, disabled : BOOLEAN]]
    BY <2>1 DEF Shape
  <2>3. QED
    BY <1>1, <1>d, <2>2 DEF DisableTarget, Shape, world
<1>5. CASE RecordSuccess(w)
  <2>1. health' = [health EXCEPT ![Out(w)].failures = 0]
    BY <1>5 DEF RecordSuccess
  <2>2. health' \in [Output -> [failures : Nat, disabled : BOOLEAN]]
    BY <2>1 DEF Shape
  <2>3. QED
    BY <1>1, <1>5, <2>2 DEF RecordSuccess, Shape, world
<1>6. CASE Write(w)
  <2>1. Out(w) \in Output /\ job[w] \in Jobs /\ Output \subseteq Point
    BY <1>6, WriteIs, AtRow DEF Busy, Point
  <2>2. job[w].at \in Time /\ job[w].used \in SUBSET (Point \X Time) /\ job[w].gated \in SUBSET Point
    BY <2>1 DEF Jobs
  <2>3. hist' = [hist EXCEPT ![Out(w)] = hist[Out(w)] \cup {job[w].at}]
    BY <1>6 DEF Write
  <2>4. hist[Out(w)] \cup {job[w].at} \in SUBSET Time
    BY <2>1, <2>2 DEF Shape
  <2>5. hist' \in [Point -> SUBSET Time]
    BY <2>1, <2>3, <2>4 DEF Shape
  <2>6. values' \subseteq [out : Output, at : Time, used : SUBSET (Point \X Time), gated : SUBSET Point]
    BY <1>6, <2>1, <2>2 DEF Write, Shape
  <2>7. QED
    BY <1>1, <1>6, <2>5, <2>6 DEF Write, Shape, world
<1>7. CASE Attach(w)
  <2>1. Out(w) \in Output /\ Output \subseteq Point
    BY <1>7, AttachIs, AtRow DEF Busy, Point
  <2>2. edges' = edges \cup {<<Out(w), Out(w)>>}
    BY <1>7 DEF Attach
  <2>3. edges' \subseteq Output \X Point
    BY <2>1, <2>2 DEF Shape
  <2>4. QED
    BY <1>1, <1>7, <2>3 DEF Attach, Shape, world
<1>8. CASE Derive(w)
  <2>1. Out(w) \in Output /\ \E p \in Point : edges' = edges \cup {<<Out(w), p>>}
    BY <1>8, DeriveIs, AtRow DEF Busy
  <2>2. edges' \subseteq Output \X Point
    BY <2>1 DEF Shape
  <2>3. QED
    BY <1>1, <1>8, <2>2 DEF Derive, Shape, world
<1>9. CASE RaiseFirst(w)
  <2>1. breaks' \in 0 .. MaxBreaks
    BY <1>9, Limits DEF RaiseFirst, Break, Shape
  <2>2. ran' \in [Deriv -> Time]
    <3>1. job[w].at \in Time
      BY DEF Threads, Jobs
    <3>2. D(w) \in Deriv /\ ran' = IF w = "sweep" THEN [ran EXCEPT ![D(w)] = job[w].at] ELSE ran
      BY <1>9, RaiseFirstIs
    <3>3. QED
      BY <3>1, <3>2 DEF Shape
  <2>3. QED
    BY <1>1, <1>9, <2>1, <2>2 DEF RaiseFirst, Shape, world, tables
<1>10. CASE RaiseReading(w) \/ Raise(w)
  <2>1. breaks' \in 0 .. MaxBreaks
    BY <1>10, Limits DEF RaiseReading, Raise, Break, Shape
  <2>2. QED
    BY <1>1, <1>10, <2>1 DEF RaiseReading, Raise, Shape, world, tables
<1>11. QED
  BY <1>2, <1>3, <1>4, <1>d, <1>5, <1>6, <1>7, <1>8, <1>9, <1>10 DEF Work

LEMMA WorldTyped ==
  ASSUME Typed, World
  PROVE  Typed'
<1> USE DEF Typed
<1>1. Event => events' \in 0 .. MaxEvents
  BY Limits DEF Event, Shape
<1>2. UNCHANGED job => Threads'
  BY DEF Threads
<1>3. ASSUME NEW p \in Source, Reading(p) PROVE Typed'
  <2>1. PICK ts \in 1 .. clock : hist' = [hist EXCEPT ![p] = @ \cup {ts}]
    BY <1>3 DEF Reading
  <2>2. ts \in Time /\ p \in Point
    BY Limits DEF Shape, Time, Point
  <2>3. hist' \in [Point -> SUBSET Time]
    BY <2>1, <2>2 DEF Shape
  <2>4. QED
    BY <1>1, <1>2, <1>3, <2>3 DEF Reading, engine, Shape
<1>4. ASSUME NEW p \in Point, FaultOpens(p) PROVE Typed'
  BY <1>1, <1>2, <1>4 DEF FaultOpens, engine, Shape
<1>5. ASSUME NEW p \in Point, FaultCloses(p) PROVE Typed'
  <2>1. Threads'
    BY <1>5, FaultClosesIs
  <2>2. QED
    BY <1>1, <1>5, <2>1 DEF FaultCloses, engine, Shape
<1>6. ASSUME NEW d \in Deriv, CreateDerivation(d) \/ DeleteDerivation(d) PROVE Typed'
  BY <1>1, <1>2, <1>6 DEF CreateDerivation, DeleteDerivation, engine, Shape
<1>7. ASSUME NEW o \in Output, EnableTarget(o) PROVE Typed'
  <2>1. Healthy \in [failures : Nat, disabled : BOOLEAN]
    BY DEF Healthy
  <2>2. health' \in [Output -> [failures : Nat, disabled : BOOLEAN]]
    BY <2>1, <1>7 DEF EnableTarget, Shape
  <2>3. QED
    BY <1>1, <1>2, <1>7, <2>2 DEF EnableTarget, engine, Shape
<1>8. QED
  BY <1>3, <1>4, <1>5, <1>6, <1>7 DEF World

LEMMA NextTyped == Typed /\ [Next]_vars => Typed'
<1> SUFFICES ASSUME Typed, [Next]_vars PROVE Typed'
  OBVIOUS
<1> USE DEF Typed
<1>1. CASE StartTick
  <2>1. Others("sweep") /\ clock < MaxTime /\ clock' = clock + 1
        /\ \E S : ran' = [d \in Deriv |-> IF d \in S THEN clock + 1 ELSE ran[d]]
    BY <1>1, StartTickIs DEF Shape
  <2>2. clock' \in Time /\ clock + 1 \in Time
    BY <2>1, Limits DEF Shape, Time
  <2>3. ran' \in [Deriv -> Time]
    BY <2>1, <2>2 DEF Shape
  <2>4. QED
    BY <1>1, <2>1, <2>2, <2>3 DEF StartTick, Others, Shape, world, tables
<1>2. CASE FinishTick
  <2>1. Threads'
    BY <1>2, FinishTickIs DEF Others
  <2>2. job["sweep"].at \in Nat
    BY Limits DEF Threads, Jobs
  <2>3. next_run' \in [Deriv -> Nat]
    <3>1. \A d \in Deriv : job["sweep"].at + Interval[d] \in Nat /\ next_run[d] \in Nat
      BY <2>2, Limits DEF Shape
    <3>2. next_run' = [d \in Deriv |->
                        IF d \in job["sweep"].due THEN job["sweep"].at + Interval[d] ELSE next_run[d]]
      BY <1>2 DEF FinishTick
    <3>3. QED
      BY <3>1, <3>2
  <2>4. QED
    BY <1>2, <2>1, <2>3 DEF FinishTick, Shape, world, tables
<1>3. ASSUME NEW p \in Source, StartMessage(p) PROVE Typed'
  <2>1. Threads'
    BY <1>3, StartMessageIs DEF Others, Shape
  <2>2. QED
    BY <1>3, <2>1 DEF StartMessage, Shape, world, tables
<1>4. ASSUME NEW w \in Worker, Work(w) PROVE Typed'
  BY <1>4, WorkTyped
<1>5. CASE Crash
  <2>1. Threads' /\ breaks' \in 0 .. MaxBreaks
    BY <1>5, CrashIs, Limits DEF Crash, Shape
  <2>2. next_run' \in [Deriv -> Nat]
    BY <1>5 DEF Crash
  <2>3. QED
    BY <1>5, <2>1, <2>2 DEF Crash, Shape, world, tables
<1>6. CASE World
  BY <1>6, WorldTyped
<1>7. CASE UNCHANGED vars
  BY <1>7 DEF vars, Shape, Threads
<1>8. QED
  BY <1>1, <1>2, <1>3, <1>4, <1>5, <1>6, <1>7 DEF Next

LEMMA AlwaysTyped == Spec => []Typed
BY InitTyped, NextTyped, PTL DEF Spec
-----------------------------------------------------------------------------
(* Schedule.                                                               *)

\* The derivations of a plan that are still to come.
Waiting(j) == IF j.pc \in Busy THEN ToSet(Tail(j.plan)) ELSE ToSet(j.plan)
Pending == Waiting(job["sweep"])

Sweeping == job["sweep"].pc # "idle"

\* The end of what is due, and what each thread knows of the time.
Scheduled ==
  /\ \A d \in Deriv : next_run[d] <= ran[d] + Interval[d] /\ ran[d] <= clock
  /\ \A w \in Worker : job[w].at <= clock
  /\ Sweeping =>
       /\ \A d \in Deriv : ran[d] <= job["sweep"].at
       /\ \A d \in job["sweep"].list \ job["sweep"].due : job["sweep"].at < next_run[d]
       /\ \A d \in job["sweep"].due : ran[d] = job["sweep"].at \/ d \in Pending

\* A sweep goes on with the derivation it is at, whatever the message thread does.
Onward ==
  /\ job'["sweep"].at = job["sweep"].at /\ job'["sweep"].list = job["sweep"].list
  /\ job'["sweep"].due = job["sweep"].due
  /\ Sweeping' <=> Sweeping

LEMMA NumbersOf ==
  ASSUME Typed
  PROVE  /\ clock \in Nat /\ \A w \in Worker : job[w].at \in Nat /\ job[w] \in Jobs
         /\ \A d \in Deriv : next_run[d] \in Nat /\ ran[d] \in Nat /\ Interval[d] \in Nat \ {0}
         /\ \A v \in values : v.at \in Nat /\ v.out \in Output
         /\ job["sweep"].list \subseteq Deriv /\ job["sweep"].due \subseteq Deriv
BY Limits DEF Typed, Shape, Threads, Jobs

LEMMA DoneOnward ==
  ASSUME NEW j, NEW k, j.pc \in Busy, Done(j, k) \/ Ended(j, k)
  PROVE  /\ Alike(j, k) /\ k.pc # "idle"
         /\ (IF k.pc \in Busy THEN ToSet(Tail(k.plan)) ELSE ToSet(k.plan)) = ToSet(Tail(j.plan))
BY DEF Done, Ended, NextOne, NextRow, Busy

LEMMA SweepWork ==
  ASSUME Typed, NEW w \in Worker, Work(w), ~(w = "sweep" /\ (Begin(w) \/ RaiseFirst(w)))
  PROVE  Onward /\ Pending' = Pending
<1>1. CASE w # "sweep"
  <2>1. job'["sweep"] = job["sweep"]
    BY <1>1, WorkOthers, Limits DEF Others
  <2>2. QED
    BY <2>1 DEF Onward, Sweeping, Pending, Waiting
<1>2. CASE w = "sweep"
  <2> USE DEF Typed, Shape
  <2> DEFINE j == job["sweep"]
             k == job'["sweep"]
             Going == Alike(j, k) /\ j.pc # "idle" /\ k.pc # "idle"
             Left(i) == IF i.pc \in Busy THEN ToSet(Tail(i.plan)) ELSE ToSet(i.plan)
  <2>1. SUFFICES Going /\ Left(j) = Left(k)
    BY DEF Onward, Sweeping, Pending, Waiting, Alike
  <2>2. CASE PlanDone(w)
    BY <1>2, <2>2, PlanDoneIs DEF Busy
  <2>3. ASSUME SameRow(j, k), j.pc \in Busy, k.pc \in Busy
        PROVE  Going /\ Left(j) = Left(k)
    BY <2>3 DEF SameRow, Busy
  <2>4. ASSUME j.pc \in Busy, Done(j, k) \/ Ended(j, k)
        PROVE  Going /\ Left(j) = Left(k)
    BY <2>4, DoneOnward DEF Busy
  <2> HIDE DEF Going, Left
  <2>5. CASE ~PlanDone(w)
    BY <1>2, <2>3, <2>4, <2>5, WorkMoves
  <2>6. QED
    BY <2>2, <2>5
<1>3. QED
  BY <1>1, <1>2

\* The derivation a sweep begins, or cannot begin, is not pending any more.
LEMMA SweepBegin ==
  ASSUME Typed, Begin("sweep") \/ RaiseFirst("sweep")
  PROVE  /\ Onward /\ Sweeping /\ D("sweep") \in Deriv /\ Pending = {D("sweep")} \cup Pending'
         /\ ran' = [ran EXCEPT ![D("sweep")] = job["sweep"].at] /\ UNCHANGED <<clock, next_run>>
<1>1. "sweep" \in Worker
  BY Limits
<1>2. job["sweep"].plan \in Seq(Deriv)
  BY <1>1 DEF Typed, Threads, Jobs
<1>3. /\ job["sweep"].pc = "plan" /\ job["sweep"].plan # <<>> /\ D("sweep") \in Deriv /\ Others("sweep")
      /\ job'["sweep"].list = job["sweep"].list /\ job'["sweep"].due = job["sweep"].due
      /\ job'["sweep"].at = job["sweep"].at
      /\ ran' = [ran EXCEPT ![D("sweep")] = job["sweep"].at] /\ UNCHANGED clock
      /\ \/ job'["sweep"].pc = "plan" /\ job'["sweep"].plan = Tail(job["sweep"].plan)
         \/ job'["sweep"].pc = "check" /\ job'["sweep"].plan = job["sweep"].plan
  <2>1. CASE Begin("sweep")
    BY <1>1, <2>1, BeginIs DEF Typed, Shape
  <2>2. CASE RaiseFirst("sweep")
    <3>1. Threads /\ UNCHANGED clock
      BY <2>2 DEF RaiseFirst, Typed
    <3>2. QED
      BY <1>1, <2>2, <3>1, RaiseFirstIs DEF Alike
  <2>3. QED
    BY <2>1, <2>2
<1>4. Onward /\ Sweeping
  BY <1>3 DEF Onward, Sweeping
<1>5. Pending = ToSet(job["sweep"].plan) /\ Pending' = ToSet(Tail(job["sweep"].plan))
  BY <1>3 DEF Pending, Waiting, Busy
<1>6. ToSet(job["sweep"].plan) = {D("sweep")} \cup ToSet(Tail(job["sweep"].plan))
  BY <1>2, <1>3, Split DEF D
<1>7. UNCHANGED next_run
  BY DEF Begin, RaiseFirst
<1>8. QED
  BY <1>3, <1>4, <1>5, <1>6, <1>7

\* The clock, and the time each thread has taken from it.
LEMMA WorkTimes ==
  ASSUME Typed, NEW w \in Worker, Work(w)
  PROVE  /\ clock' \in Nat /\ (clock' = clock \/ clock' = clock + 1)
         /\ \A v \in Worker : job'[v].at \in {0, job[v].at, clock'}
<1> USE DEF Typed, Shape
<1>1. \A v \in Worker : v # w => job'[v] = job[v]
  BY WorkOthers DEF Others
<1>0. clock \in Nat /\ clock \in Time
  BY NumbersOf
<1>2. CASE Begin(w)
  <2>1. \/ job'[w].at = job[w].at /\ clock' = clock
        \/ job'[w].at = clock + 1 /\ clock' = clock + 1
    BY <1>0, <1>2, BeginIs
  <2>2. QED
    BY <1>0, <1>1, <2>1
<1>3. CASE ~Begin(w)
  <2>1. UNCHANGED clock
    BY <1>3 DEF Work, PlanDone, Check, Gate, Read, Run, RecordFailure, DisableTarget,
         RecordSuccess, Write, Attach, Derive, RaiseFirst, RaiseReading, Raise
  <2>3. CASE PlanDone(w)
    <3>1. job'[w].at \in {0, job[w].at}
      BY <2>3, PlanDoneIs DEF Alike, Idle
    <3>2. QED
      BY <1>0, <1>1, <2>1, <3>1
  <2>4. CASE ~PlanDone(w)
    <3>1. Alike(job[w], job'[w])
      <4>1. CASE RaiseFirst(w)
        BY <4>1, RaiseFirstIs
      <4>2. CASE ~RaiseFirst(w)
        BY <1>3, <2>4, <4>2, WorkMoves DEF Done, Ended, SameRow
      <4>3. QED
        BY <4>1, <4>2
    <3>2. QED
      BY <1>0, <1>1, <2>1, <3>1 DEF Alike
  <2>5. QED
    BY <2>3, <2>4
<1>4. QED
  BY <1>2, <1>3

LEMMA InitScheduled == Init => Scheduled
BY Limits DEF Init, Scheduled, Sweeping, Idle

\* Steps of other threads and of the rest of the system.
LEMMA ScheduledKept ==
  ASSUME Typed, Scheduled, Onward, Pending' = Pending, UNCHANGED <<next_run, ran>>,
         clock' \in Nat, clock <= clock', \A w \in Worker : job'[w].at <= clock'
  PROVE  Scheduled'
<1>1. \A d \in Deriv : ran[d] <= clock'
  BY NumbersOf DEF Scheduled
<1>2. QED
  BY <1>1 DEF Scheduled, Onward

LEMMA NextScheduled == Typed /\ Scheduled /\ [Next]_vars => Scheduled'
<1> SUFFICES ASSUME Typed, Scheduled, [Next]_vars PROVE Scheduled'
  OBVIOUS
<1>0. Typed'
  BY NextTyped
<1>1. CASE StartTick
  <2> DEFINE j == job'["sweep"]
  <2>1. /\ Others("sweep") /\ clock' = clock + 1
        /\ j.pc = "plan" /\ j.at = clock + 1 /\ j.list = file
        /\ j.due = {d \in file : clock + 1 >= next_run[d]}
        /\ ToSet(j.plan) = Kept(file) \cap j.due
        /\ ran' = [d \in Deriv |-> IF d \in j.due \ Kept(file) THEN clock + 1 ELSE ran[d]]
    BY <1>1, StartTickIs DEF Typed, Shape
  <2>2. UNCHANGED next_run /\ file \subseteq Deriv
    BY <1>1 DEF StartTick, Typed, Shape
  <2>3. Pending' = Kept(file) \cap j.due
    BY <2>1 DEF Pending, Waiting, Busy
  <2>4. ASSUME NEW d \in Deriv
        PROVE  next_run'[d] <= ran'[d] + Interval[d] /\ ran'[d] <= clock' /\ ran'[d] <= j.at
    BY <2>1, <2>2, <2>4, NumbersOf DEF Scheduled
  <2>5. \A w \in Worker : job'[w].at <= clock'
    <3>1. \A w \in Worker : w # "sweep" => job'[w].at = job[w].at
      BY <2>1 DEF Others
    <3>2. QED
      BY <2>1, <3>1, NumbersOf DEF Scheduled
  <2>6. \A d \in j.list \ j.due : j.at < next_run'[d]
    BY <2>1, <2>2, NumbersOf
  <2>7. \A d \in j.due : ran'[d] = j.at \/ d \in Pending'
    BY <2>1, <2>2, <2>3
  <2>8. QED
    BY <2>4, <2>5, <2>6, <2>7 DEF Scheduled
<1>2. CASE FinishTick
  <2>1. /\ job["sweep"].pc = "finish" /\ Others("sweep") /\ job'["sweep"] = Idle
        /\ next_run' = [d \in Deriv |->
                    IF d \in job["sweep"].due THEN job["sweep"].at + Interval[d] ELSE next_run[d]]
        /\ UNCHANGED <<clock, ran>>
    BY <1>2, FinishTickIs DEF FinishTick, Typed
  <2>2. Pending = {}
    <3>1. job["sweep"].plan = <<>>
      BY <2>1, Limits DEF Typed, Threads, Fit
    <3>2. ToSet(<<>>) = {}
      BY Elements, EmptySeq
    <3>3. QED
      BY <2>1, <3>1, <3>2 DEF Pending, Waiting, Busy
  <2>3. \A d \in job["sweep"].due : ran[d] = job["sweep"].at
    BY <2>1, <2>2 DEF Scheduled, Sweeping
  <2>4. \A d \in Deriv : next_run'[d] <= ran'[d] + Interval[d] /\ ran'[d] <= clock'
    BY <2>1, <2>3, NumbersOf DEF Scheduled
  <2>5. \A w \in Worker : job'[w].at <= clock'
    <3>1. \A w \in Worker : w # "sweep" => job'[w].at = job[w].at
      BY <2>1 DEF Others
    <3>2. Idle.at = 0
      BY DEF Idle
    <3>3. QED
      BY <2>1, <3>1, <3>2, NumbersOf DEF Scheduled
  <2>6. ~Sweeping'
    BY <2>1 DEF Sweeping, Idle
  <2>7. QED
    BY <2>4, <2>5, <2>6 DEF Scheduled
<1>3. ASSUME NEW p \in Source, StartMessage(p) PROVE Scheduled'
  <2>1. /\ Others("message") /\ job'["message"].at = 0 /\ UNCHANGED <<next_run, ran, clock>>
    BY <1>3, StartMessageIs DEF StartMessage, Typed, Shape
  <2>2. job'["sweep"] = job["sweep"]
    BY <2>1, Limits DEF Others
  <2>3. Onward /\ Pending' = Pending
    BY <2>2 DEF Onward, Sweeping, Pending, Waiting
  <2>4. \A w \in Worker : job'[w].at <= clock'
    BY <2>1, NumbersOf DEF Others, Scheduled
  <2>5. QED
    BY <2>1, <2>3, <2>4, NumbersOf, ScheduledKept
<1>4. ASSUME NEW w \in Worker, Work(w) PROVE Scheduled'
  <2>1. clock' \in Nat /\ (clock' = clock \/ clock' = clock + 1)
        /\ \A v \in Worker : job'[v].at \in {0, job[v].at, clock'}
    BY <1>4, WorkTimes
  <2>2. clock <= clock' /\ \A v \in Worker : job'[v].at <= clock'
    BY <2>1, NumbersOf DEF Scheduled
  <2>3. UNCHANGED next_run
    BY <1>4 DEF Work, PlanDone, Begin, Check, Gate, Read, Run, RecordFailure, DisableTarget,
         RecordSuccess, Write, Attach, Derive, RaiseFirst, RaiseReading, Raise
  <2>4. CASE w = "sweep" /\ (Begin(w) \/ RaiseFirst(w))
    <3>1. /\ Onward /\ Sweeping /\ D("sweep") \in Deriv /\ Pending = {D("sweep")} \cup Pending'
          /\ ran' = [ran EXCEPT ![D("sweep")] = job["sweep"].at]
      BY <2>4, SweepBegin
    <3>2. \A d \in Deriv : ran'[d] = IF d = D("sweep") THEN job["sweep"].at ELSE ran[d]
      BY <3>1 DEF Typed, Shape
    <3>3. job["sweep"].at \in Nat /\ job["sweep"].at <= clock
      BY NumbersOf, Limits DEF Scheduled
    <3>4. \A d \in Deriv : next_run'[d] <= ran'[d] + Interval[d] /\ ran'[d] <= clock' /\ ran'[d] <= job["sweep"].at
      BY <2>1, <2>3, <3>1, <3>2, <3>3, NumbersOf DEF Scheduled
    <3>5. \A d \in job["sweep"].due : ran'[d] = job["sweep"].at \/ d \in Pending'
      BY <3>1, <3>2, NumbersOf DEF Scheduled
    <3>6. QED
      BY <2>2, <2>3, <3>1, <3>4, <3>5 DEF Scheduled, Onward
  <2>5. CASE ~(w = "sweep" /\ (Begin(w) \/ RaiseFirst(w)))
    <3>1. Onward /\ Pending' = Pending
      BY <1>4, <2>5, SweepWork
    <3>2. UNCHANGED ran
      <4>1. CASE Begin(w)
        BY <2>5, <4>1, BeginIs DEF Typed, Shape
      <4>r. CASE RaiseFirst(w)
        BY <2>5, <4>r, RaiseFirstIs DEF Typed
      <4>2. CASE ~Begin(w) /\ ~RaiseFirst(w)
        BY <1>4, <4>2 DEF Work, PlanDone, Check, Gate, Read, Run, RecordFailure, DisableTarget,
         RecordSuccess, Write, Attach, Derive, RaiseFirst, RaiseReading, Raise
      <4>3. QED
        BY <4>1, <4>r, <4>2
    <3>3. QED
      BY <2>1, <2>2, <2>3, <3>1, <3>2, ScheduledKept
  <2>6. QED
    BY <2>4, <2>5
<1>5. CASE Crash
  <2>1. /\ \A w \in Worker : job'[w].at = 0 /\ job'[w].pc = "idle"
        /\ next_run' = [d \in Deriv |-> 0] /\ UNCHANGED <<clock, ran>>
    BY <1>5, CrashIs DEF Crash, Idle
  <2>2. ~Sweeping'
    BY <2>1, Limits DEF Sweeping
  <2>3. QED
    BY <2>1, <2>2, NumbersOf DEF Scheduled
<1>6. CASE World
  <2>1. UNCHANGED <<next_run, ran, clock>> /\ \A w \in Worker : SameRow(job[w], job'[w]) /\ job'[w].pc = job[w].pc
    <3>1. ASSUME NEW p \in Point, FaultCloses(p)
          PROVE  UNCHANGED <<next_run, ran, clock>> /\ \A w \in Worker : SameRow(job[w], job'[w]) /\ job'[w].pc = job[w].pc
      BY <3>1, FaultClosesIs DEF FaultCloses, engine, Undisturbed, Typed
    <3>2. CASE ~\E p \in Point : FaultCloses(p)
      BY <1>6, <3>2 DEF World, Reading, FaultOpens, CreateDerivation, DeleteDerivation, EnableTarget, engine,
                        SameRow, Alike
    <3>3. QED
      BY <3>1, <3>2
  <2>2. Onward /\ Pending' = Pending
    BY <2>1, Limits DEF Onward, Sweeping, Pending, Waiting, SameRow, Alike
  <2>3. \A w \in Worker : job'[w].at <= clock'
    BY <2>1 DEF SameRow, Alike, Scheduled
  <2>4. QED
    BY <2>1, <2>2, <2>3, NumbersOf, ScheduledKept
<1>7. CASE UNCHANGED vars
  <2>1. Onward /\ Pending' = Pending
    BY <1>7 DEF vars, Onward, Sweeping, Pending, Waiting
  <2>2. QED
    BY <1>7, <2>1, NumbersOf, ScheduledKept DEF vars, Scheduled
<1>8. QED
  BY <1>1, <1>2, <1>3, <1>4, <1>5, <1>6, <1>7 DEF Next

\* Whatever was due when, and whatever was missing, given up or cut by a crash: at
\* the end of a sweep no derivation that can be evaluated is behind its interval
\* (main's next_run and evaluate_derivations' only_ids).
THEOREM KeptOnSchedule == Spec => []OnSchedule
<1>1. Typed /\ Scheduled => OnSchedule
  <2> SUFFICES ASSUME Typed, Scheduled, job["sweep"].pc = "finish", NEW d \in Kept(job["sweep"].list)
               PROVE  job["sweep"].at < ran[d] + Interval[d]
    BY DEF OnSchedule
  <2>1. d \in job["sweep"].list /\ d \in Deriv
    BY NumbersOf DEF Kept
  <2>2. Pending = {}
    <3>1. job["sweep"].plan = <<>>
      BY Limits DEF Typed, Threads, Fit
    <3>2. ToSet(<<>>) = {}
      BY Elements, EmptySeq
    <3>3. QED
      BY <3>1, <3>2 DEF Pending, Waiting, Busy
  <2>3. job["sweep"].at \in Nat
    BY NumbersOf, Limits
  <2>4. CASE d \in job["sweep"].due
    BY <2>1, <2>2, <2>3, <2>4, NumbersOf DEF Scheduled, Sweeping
  <2>5. CASE d \notin job["sweep"].due
    BY <2>1, <2>3, <2>5, NumbersOf DEF Scheduled, Sweeping
  <2>6. QED
    BY <2>4, <2>5
<1>2. QED
  BY InitTyped, NextTyped, InitScheduled, NextScheduled, <1>1, PTL DEF Spec
-----------------------------------------------------------------------------
(* The fault gate.                                                         *)

\* In a row, clean has what is without a fault now and what was used.
RowGated(j, open) ==
  j.pc \in InRow =>
    /\ Inputs[Head(j.plan)][Head(j.rows)] \ open \subseteq j.clean
    /\ j.point \subseteq j.clean
    /\ \A u \in j.used : u[1] \in j.clean \/ u[1] \in {Head(j.plan)} \X Child[Head(j.plan)][Head(j.rows)]

Gated == \A w \in Worker : RowGated(job[w], faulted)

LEMMA InitGated == Init => Gated
BY DEF Init, Gated, RowGated, Idle, InRow

LEMMA WorkGated ==
  ASSUME Typed, Gated, NEW w \in Worker, Work(w)
  PROVE  Gated'
<1> USE DEF Typed, Shape
<1>1. UNCHANGED faulted
  BY DEF Work, PlanDone, Begin, Check, Gate, Read, Run, RecordFailure, DisableTarget,
         RecordSuccess, Write, Attach, Derive, RaiseFirst, RaiseReading, Raise, world
<1>2. ASSUME NEW v \in Worker, v # w PROVE RowGated(job'[v], faulted)
  <2>1. job'[v] = job[v]
    BY <1>2, WorkOthers DEF Others
  <2>2. QED
    BY <2>1 DEF Gated
<1>w. SUFFICES RowGated(job'[w], faulted)
  BY <1>1, <1>2 DEF Gated
<1>3. ASSUME job'[w].pc \notin InRow PROVE RowGated(job'[w], faulted)
  BY <1>3 DEF RowGated
<1>4. ASSUME job[w].pc \in InRow, SameRow(job[w], job'[w]), job'[w].clean = job[w].clean,
             job'[w].used = job[w].used, job'[w].point \subseteq job[w].clean
      PROVE  RowGated(job'[w], faulted)
  BY <1>4 DEF Gated, RowGated, SameRow
<1>5. CASE PlanDone(w)
  BY <1>3, <1>5, PlanDoneIs DEF InRow, Idle
<1>6. CASE Begin(w)
  BY <1>3, <1>6, BeginIs DEF InRow
<1>7. CASE Check(w)
  <2>1. CASE Done(job[w], job'[w])
    BY <1>3, <2>1 DEF Done, NextOne, NextRow, InRow
  <2>2. CASE ~Done(job[w], job'[w])
    <3>1. /\ SameRow(job[w], job'[w]) /\ job'[w].point = {}
          /\ job'[w].clean = Inputs[D(w)][T(w)] \ faulted
          /\ job'[w].used = {<<<<D(w), c>>, job[w].at>> : c \in Child[D(w)][T(w)] \cap job[w].known}
      BY <1>7, <2>2, CheckIs
    <3>2. Head(job'[w].plan) = D(w) /\ Head(job'[w].rows) = T(w)
      BY <3>1 DEF SameRow, D, T
    <3>3. \A u \in job'[w].used : u[1] \in {D(w)} \X Child[D(w)][T(w)]
      BY <3>1
    <3>4. QED
      BY <3>1, <3>2, <3>3 DEF RowGated
  <2>3. QED
    BY <2>1, <2>2
<1>8. CASE Gate(w)
  <2>1. /\ job[w].pc = "gate" /\ SameRow(job[w], job'[w])
        /\ job'[w].clean = job[w].clean /\ job'[w].used = job[w].used
    BY <1>8, GateIs
  <2>2. PICK p \in job[w].left : (p \notin faulted /\ job'[w].point = {p}) \/ job'[w].point = {}
    BY <1>8, GateIs
  <2>3. p \in Inputs[D(w)][T(w)]
    BY <2>1, <2>2 DEF Threads, Fit, InRow, D, T
  <2>4. job'[w].point \subseteq job[w].clean
    <3>1. Inputs[D(w)][T(w)] \ faulted \subseteq job[w].clean
      BY <2>1 DEF Gated, RowGated, InRow, D, T
    <3>2. QED
      BY <2>2, <2>3, <3>1
  <2>5. QED
    BY <2>1, <2>4, <1>4 DEF InRow
<1>9. CASE Read(w)
  <2> DEFINE found == UNION {{<<p, ts>> : ts \in Latest(w, p)} : p \in job[w].point}
  <2>1. /\ job[w].pc = "read" /\ SameRow(job[w], job'[w]) /\ job'[w].point = {}
        /\ job'[w].clean = job[w].clean /\ job'[w].used = job[w].used \cup found
    BY <1>9, ReadIs
  <2>2. \A u \in found : u[1] \in job[w].point
    OBVIOUS
  <2> HIDE DEF found
  <2>3. QED
    BY <2>1, <2>2 DEF Gated, RowGated, InRow, SameRow
<1>10. CASE Run(w)
  <2>1. /\ job[w].pc = "run" /\ SameRow(job[w], job'[w]) /\ job'[w].clean = job[w].clean
        /\ job'[w].used = job[w].used /\ job'[w].point = job[w].point
    BY <1>10, RunIs
  <2>2. QED
    BY <1>4, <2>1 DEF Gated, RowGated, InRow
<1>11. CASE RecordFailure(w) \/ DisableTarget(w)
  BY <1>3, <1>11, RecordFailureIs, DisableTargetIs DEF Done, NextOne, NextRow, InRow
<1>12. CASE RecordSuccess(w)
  <2>1. CASE Done(job[w], job'[w])
    BY <1>3, <2>1 DEF Done, NextOne, NextRow, InRow
  <2>2. CASE ~Done(job[w], job'[w])
    <3>1. /\ job[w].pc = "success" /\ SameRow(job[w], job'[w]) /\ job'[w].clean = job[w].clean
          /\ job'[w].used = job[w].used /\ job'[w].point = job[w].point
      BY <1>12, <2>2, RecordSuccessIs
    <3>2. QED
      BY <1>4, <3>1 DEF Gated, RowGated, InRow
  <2>3. QED
    BY <2>1, <2>2
<1>13. CASE Write(w)
  BY <1>3, <1>13, WriteIs DEF InRow
<1>14. CASE Attach(w) \/ Derive(w)
  BY <1>3, <1>14, AttachIs, DeriveIs DEF Done, NextOne, NextRow, InRow
<1>15. CASE RaiseFirst(w) \/ RaiseReading(w) \/ Raise(w)
  BY <1>3, <1>15, RaiseFirstIs, RaiseReadingIs, RaiseIs DEF Ended, NextOne, InRow
<1>16. QED
  BY <1>5, <1>6, <1>7, <1>8, <1>9, <1>10, <1>11, <1>12, <1>13, <1>14, <1>15 DEF Work

LEMMA NextGated == Typed /\ Gated /\ [Next]_vars => Gated'
<1> SUFFICES ASSUME Typed, Gated, [Next]_vars PROVE Gated'
  OBVIOUS
<1> USE DEF Typed, Shape
<1>1. ASSUME NEW w \in Worker, Others(w), job'[w].pc \notin InRow, UNCHANGED faulted PROVE Gated'
  BY <1>1 DEF Gated, RowGated, Others
<1>2. CASE StartTick
  BY <1>1, <1>2, StartTickIs, Limits DEF StartTick, InRow, world
<1>3. CASE FinishTick
  <2>1. "sweep" \in Worker /\ Others("sweep") /\ job'["sweep"] = Idle
    BY <1>3, FinishTickIs, Limits
  <2>2. job'["sweep"].pc \notin InRow
    BY <2>1 DEF Idle, InRow
  <2>3. UNCHANGED faulted
    BY <1>3 DEF FinishTick, world
  <2>4. QED
    BY <1>1, <2>1, <2>2, <2>3
<1>4. ASSUME NEW p \in Source, StartMessage(p) PROVE Gated'
  BY <1>1, <1>4, StartMessageIs, Limits DEF StartMessage, InRow, world
<1>5. ASSUME NEW w \in Worker, Work(w) PROVE Gated'
  BY <1>5, WorkGated
<1>6. CASE Crash
  <2>1. \A w \in Worker : job'[w].pc = "idle"
    BY <1>6, CrashIs DEF Idle
  <2>2. QED
    BY <2>1 DEF Gated, RowGated, InRow
<1>7. ASSUME NEW p \in Point, FaultCloses(p) PROVE Gated'
  <2>1. Undisturbed /\ faulted' = faulted \ {p} /\ \A w \in Worker : job'[w].clean = job[w].clean \cup {p}
    BY <1>7, FaultClosesIs DEF FaultCloses
  <2>2. ASSUME NEW w \in Worker
        PROVE  RowGated(job'[w], faulted')
    <3>1. /\ job'[w].used = job[w].used /\ job'[w].point = job[w].point /\ job'[w].pc = job[w].pc
          /\ SameRow(job[w], job'[w]) /\ job'[w].clean = job[w].clean \cup {p} /\ faulted' = faulted \ {p}
      BY <2>1 DEF Undisturbed
    <3>2. RowGated(job[w], faulted)
      BY DEF Gated
    <3>3. QED
      BY <3>1, <3>2 DEF RowGated, SameRow
  <2>3. QED
    BY <2>2 DEF Gated
<1>8. ASSUME NEW p \in Point, FaultOpens(p) PROVE Gated'
  BY <1>8 DEF FaultOpens, Gated, RowGated
<1>9. CASE UNCHANGED <<job, faulted>>
  BY <1>9 DEF Gated
<1>10. CASE World
  BY <1>7, <1>8, <1>9, <1>10 DEF World, Reading, CreateDerivation, DeleteDerivation, EnableTarget
<1>11. CASE UNCHANGED vars
  BY <1>9, <1>11 DEF vars
<1>12. QED
  BY <1>2, <1>3, <1>4, <1>5, <1>6, <1>10, <1>11 DEF Next

\* Whenever faults open and close and whichever thread comes to the row: a value is
\* never computed from a reading of a point that had a fault open ever since the row
\* came up, other than from what the same walk computed (_read_input_series).
THEOREM FaultedIsAbsent == Spec => []GateRespected
<1>1. Gated => GateRespected
  BY DEF Gated, RowGated, GateRespected, InRow, D, T
<1>2. QED
  BY InitTyped, NextTyped, InitGated, NextGated, <1>1, PTL DEF Spec
-----------------------------------------------------------------------------
(* Lineage.                                                                *)

\* What a thread has used is in the history, and so is what it knows from its walk,
\* but for the value it is about to write.
RowGrounded(j, rows) ==
  /\ \A u \in j.used : u[2] \in rows[u[1]]
  /\ \A c \in j.known :
       /\ <<Head(j.plan), c>> \in Output
       /\ \/ j.at \in rows[<<Head(j.plan), c>>]
          \/ c = Head(j.rows) /\ (j.pc = "write" \/ (j.pc = "success" /\ j.ok))

Stored(v, rows) == v.at \in rows[v.out] /\ \A u \in v.used : u[2] \in rows[u[1]]

Grounded ==
  /\ \A v \in values : Stored(v, hist)
  /\ \A w \in Worker : RowGrounded(job[w], hist)

\* The points a value is to be linked to; a thread that has them to link is at its row.
Ends(v) == {v.out} \cup {u[1] : u \in v.used}
Linked(v, graph) == \A p \in Ends(v) : <<v.out, p>> \in graph
Attaching(j, v, graph) ==
  /\ <<Head(j.plan), Head(j.rows)>> = v.out /\ j.used = v.used
  /\ \/ j.pc = "attach"
     \/ j.pc = "derive" /\ \A p \in Ends(v) : p \in j.left \/ <<v.out, p>> \in graph

Attached ==
  breaks = 0 => \A v \in values : Linked(v, edges) \/ \E w \in Worker : Attaching(job[w], v, edges)

\* History only grows.
Growing == \A p \in Point : hist[p] \subseteq hist'[p]

LEMMA StillGrounded ==
  ASSUME Typed, Grounded, Growing
  PROVE  (\A v \in values : Stored(v, hist')) /\ \A w \in Worker : RowGrounded(job[w], hist')
<1>1. Output \subseteq Point
  BY DEF Point
<1>2. ASSUME NEW v \in values PROVE Stored(v, hist')
  <2>1. v.out \in Point /\ v.used \subseteq Point \X Time
    BY <1>1 DEF Typed, Shape
  <2>2. Stored(v, hist)
    BY DEF Grounded
  <2>3. QED
    BY <2>1, <2>2 DEF Stored, Growing
<1>3. ASSUME NEW w \in Worker PROVE RowGrounded(job[w], hist')
  <2>1. job[w].used \subseteq Point \X Time
    BY DEF Typed, Threads, Jobs
  <2>2. RowGrounded(job[w], hist)
    BY DEF Grounded
  <2>3. QED
    BY <2>1, <2>2, <1>1 DEF RowGrounded, Growing
<1>4. QED
  BY <1>2, <1>3

LEMMA DoneGrounded ==
  ASSUME NEW j, NEW k, NEW rows, RowGrounded(j, rows), Done(j, k) \/ Ended(j, k),
         ~(j.pc = "write" \/ (j.pc = "success" /\ j.ok)) \/ Ended(j, k)
  PROVE  RowGrounded(k, rows)
BY DEF RowGrounded, Done, Ended, NextOne, NextRow, Cleared, Alike

LEMMA SameGrounded ==
  ASSUME NEW j, NEW k, NEW rows, RowGrounded(j, rows), SameRow(j, k), k.known = j.known, k.used = j.used,
         j.pc \notin {"success", "write"}
  PROVE  RowGrounded(k, rows)
BY DEF RowGrounded, SameRow, Alike

LEMMA InitGrounded == Init => Grounded /\ Attached
BY DEF Init, Grounded, Attached, RowGrounded, Idle

LEMMA WorkGrounded ==
  ASSUME Typed, Grounded, NEW w \in Worker, Work(w)
  PROVE  Grounded'
<1> USE DEF Typed, Shape
<1> DEFINE j == job[w]
           k == job'[w]
<1>1. CASE ~Write(w)
  <2>1. UNCHANGED <<hist, values>>
    BY <1>1 DEF Work, PlanDone, Begin, Check, Gate, Read, Run, RecordFailure, DisableTarget,
         RecordSuccess, Write, Attach, Derive, RaiseFirst, RaiseReading, Raise,
                tables
  <2>2. SUFFICES RowGrounded(k, hist)
    <3>1. \A v \in Worker : v # w => job'[v] = job[v]
      BY WorkOthers DEF Others
    <3>2. QED
      BY <2>1, <3>1, <2>2 DEF Grounded
  <2>3. RowGrounded(j, hist)
    BY DEF Grounded
  <2>4. CASE PlanDone(w)
    BY <2>3, <2>4, PlanDoneIs DEF RowGrounded, Idle
  <2>5. CASE Begin(w)
    BY <2>3, <2>5, BeginIs DEF RowGrounded
  <2>6. CASE Check(w)
    <3>1. j.pc = "check"
      BY <2>6, CheckIs
    <3>2. CASE Done(j, k)
      BY <2>3, <3>1, <3>2, DoneGrounded
    <3>3. CASE ~Done(j, k)
      <4>1. /\ SameRow(j, k) /\ k.known = j.known
            /\ k.used = {<<<<D(w), c>>, j.at>> : c \in Child[D(w)][T(w)] \cap j.known}
        BY <2>6, <3>3, CheckIs
      <4>2. \A c \in j.known : j.at \in hist[<<D(w), c>>]
        BY <2>3, <3>1 DEF RowGrounded, D
      <4>3. \A u \in k.used : u[2] \in hist[u[1]]
        BY <4>1, <4>2
      <4>4. QED
        BY <2>3, <4>1, <4>2, <4>3 DEF RowGrounded, SameRow, Alike, D
    <3>4. QED
      BY <3>2, <3>3
  <2>7. CASE Gate(w)
    <3>1. j.pc = "gate" /\ SameRow(j, k) /\ k.known = j.known /\ k.used = j.used
      BY <2>7, GateIs
    <3>2. QED
      BY <2>3, <3>1 DEF RowGrounded, SameRow, Alike
  <2>8. CASE Read(w)
    <3> DEFINE found == UNION {{<<p, ts>> : ts \in Latest(w, p)} : p \in job[w].point}
    <3>1. j.pc = "read" /\ SameRow(j, k) /\ k.known = j.known /\ k.used = j.used \cup found
      BY <2>8, ReadIs
    <3>2. \A u \in found : u[2] \in hist[u[1]]
      BY DEF Latest
    <3> HIDE DEF found
    <3>3. QED
      BY <2>3, <3>1, <3>2 DEF RowGrounded, SameRow, Alike
  <2>9. CASE Run(w)
    <3>1. /\ j.pc = "run" /\ SameRow(j, k) /\ k.used = j.used
          /\ \/ k.pc = "success" /\ k.ok /\ k.known = j.known \cup {T(w)}
             \/ k.known = j.known
      BY <2>9, RunIs
    <3>2. <<D(w), T(w)>> \in Output
      BY <3>1, AtRow DEF Busy, Out
    <3>3. QED
      BY <2>3, <3>1, <3>2 DEF RowGrounded, SameRow, Alike, D, T
  <2>10. CASE RecordFailure(w) \/ DisableTarget(w) \/ Attach(w) \/ Derive(w)
    <3>1. /\ j.pc \notin {"success", "write"}
          /\ Done(j, k) \/ (SameRow(j, k) /\ k.known = j.known /\ k.used = j.used)
      <4>1. CASE RecordFailure(w) \/ DisableTarget(w)
        BY <4>1, RecordFailureIs, DisableTargetIs
      <4>2. CASE Attach(w)
        BY <4>2, AttachIs
      <4>3. CASE Derive(w)
        BY <4>3, DeriveIs
      <4>4. QED
        BY <2>10, <4>1, <4>2, <4>3
    <3>2. CASE Done(j, k)
      BY <2>3, <3>1, <3>2, DoneGrounded
    <3>3. CASE ~Done(j, k)
      BY <2>3, <3>1, <3>3, SameGrounded
    <3>4. QED
      BY <3>2, <3>3
  <2>11. CASE RecordSuccess(w)
    <3>1. CASE ~j.ok
      BY <2>3, <2>11, <3>1, RecordSuccessIs, DoneGrounded
    <3>2. CASE j.ok
      <4>1. SameRow(j, k) /\ k.pc = "write" /\ k.known = j.known /\ k.used = j.used
        BY <2>11, <3>2, RecordSuccessIs
      <4>2. QED
        BY <2>3, <4>1 DEF RowGrounded, SameRow, Alike
    <3>3. QED
      BY <3>1, <3>2
  <2>12. CASE RaiseFirst(w)
    BY <2>3, <2>12, RaiseFirstIs DEF RowGrounded
  <2>13. CASE RaiseReading(w)
    <3>1. j.pc \notin {"success", "write"} /\ SameRow(j, k) /\ k.known = j.known /\ k.used = j.used
      BY <2>13, RaiseReadingIs
    <3>2. QED
      BY <2>3, <3>1, SameGrounded
  <2>14. CASE Raise(w)
    BY <2>3, <2>14, RaiseIs, DoneGrounded
  <2>15. QED
    BY <1>1, <2>4, <2>5, <2>6, <2>7, <2>8, <2>9, <2>10, <2>11, <2>12, <2>13, <2>14 DEF Work
<1>2. CASE Write(w)
  <2>1. /\ j.pc = "write" /\ Others(w) /\ SameRow(j, k) /\ k.pc = "attach" /\ k.known = j.known /\ k.used = j.used
    BY <1>2, WriteIs
  <2>2. Out(w) \in Output /\ Out(w) \in Point /\ Out(w) = <<Head(j.plan), Head(j.rows)>>
    BY <2>1, AtRow DEF Busy, Point, Out, D, T
  <2>3. /\ hist' = [hist EXCEPT ![Out(w)] = hist[Out(w)] \cup {j.at}]
        /\ values' = values \cup {[out |-> Out(w), at |-> j.at, used |-> j.used, gated |-> j.gated]}
    BY <1>2 DEF Write
  <2>4. Growing /\ j.at \in hist'[Out(w)]
    BY <2>2, <2>3 DEF Growing
  <2>5. (\A v \in values : Stored(v, hist')) /\ \A v \in Worker : RowGrounded(job[v], hist')
    BY <2>4, StillGrounded
  <2>6. RowGrounded(k, hist')
    BY <2>1, <2>2, <2>4, <2>5 DEF RowGrounded, SameRow, Alike
  <2>7. Stored([out |-> Out(w), at |-> j.at, used |-> j.used, gated |-> j.gated], hist')
    BY <2>4, <2>5 DEF Stored, RowGrounded
  <2>8. \A v \in Worker : v # w => RowGrounded(job'[v], hist')
    BY <2>1, <2>5 DEF Others
  <2>9. QED
    BY <2>3, <2>5, <2>6, <2>7, <2>8 DEF Grounded
<1>3. QED
  BY <1>1, <1>2

LEMMA IdleGrounded == \A rows : RowGrounded(Idle, rows)
BY DEF RowGrounded, Idle

LEMMA NextGrounded == Typed /\ Grounded /\ [Next]_vars => Grounded'
<1> SUFFICES ASSUME Typed, Grounded, [Next]_vars PROVE Grounded'
  OBVIOUS
<1> USE DEF Typed, Shape
<1>1. ASSUME NEW w \in Worker, Others(w), job'[w].used = {}, job'[w].known = {}, UNCHANGED <<hist, values>>
      PROVE  Grounded'
  BY <1>1 DEF Grounded, RowGrounded, Others
<1>2. CASE StartTick
  BY <1>1, <1>2, StartTickIs, Limits DEF StartTick, tables
<1>3. CASE FinishTick
  BY <1>1, <1>3, FinishTickIs, Limits DEF FinishTick, tables, Idle
<1>4. ASSUME NEW p \in Source, StartMessage(p) PROVE Grounded'
  BY <1>1, <1>4, StartMessageIs, Limits DEF StartMessage, tables
<1>5. ASSUME NEW w \in Worker, Work(w) PROVE Grounded'
  BY <1>5, WorkGrounded
<1>6. CASE Crash
  BY <1>6, CrashIs, IdleGrounded DEF Crash, Grounded, tables
<1>7. ASSUME NEW p \in Point, FaultCloses(p) PROVE Grounded'
  <2>1. Undisturbed /\ UNCHANGED <<hist, values>>
    BY <1>7, FaultClosesIs DEF FaultCloses, engine
  <2>2. ASSUME NEW w \in Worker PROVE RowGrounded(job'[w], hist)
    <3>1. /\ SameRow(job[w], job'[w]) /\ job'[w].pc = job[w].pc /\ job'[w].used = job[w].used
          /\ job'[w].known = job[w].known /\ job'[w].ok = job[w].ok
      BY <2>1 DEF Undisturbed
    <3>2. RowGrounded(job[w], hist)
      BY DEF Grounded
    <3>3. QED
      BY <3>1, <3>2 DEF RowGrounded, SameRow, Alike
  <2>3. QED
    BY <2>1, <2>2 DEF Grounded
<1>8. ASSUME NEW p \in Source, Reading(p) PROVE Grounded'
  <2>1. Growing /\ UNCHANGED <<job, values>>
    BY <1>8 DEF Reading, Growing, engine, Point
  <2>2. QED
    BY <2>1, StillGrounded DEF Grounded
<1>9. CASE UNCHANGED <<hist, job, values>>
  BY <1>9 DEF Grounded
<1>10. CASE World
  BY <1>7, <1>8, <1>9, <1>10 DEF World, FaultOpens, CreateDerivation, DeleteDerivation, EnableTarget, engine
<1>11. CASE UNCHANGED vars
  BY <1>9, <1>11 DEF vars
<1>12. QED
  BY <1>2, <1>3, <1>4, <1>5, <1>6, <1>10, <1>11 DEF Next

\* A step that takes no edge away and leaves alone the threads with edges to add.
LEMMA StillAttached ==
  ASSUME Attached, breaks = 0, NEW v \in values, edges \subseteq edges',
         \A w \in Worker : Attaching(job[w], v, edges) => Attaching(job'[w], v, edges')
  PROVE  Linked(v, edges') \/ \E w \in Worker : Attaching(job'[w], v, edges')
BY DEF Attached, Linked

LEMMA WorkAttached ==
  ASSUME Typed, Attached, NEW w \in Worker, Work(w), breaks' = 0, NEW v \in values'
  PROVE  Linked(v, edges') \/ \E u \in Worker : Attaching(job'[u], v, edges')
<1> USE DEF Typed, Shape
<1>o. \A u \in Worker : u # w => job'[u] = job[u]
  BY WorkOthers DEF Others
<1>1. CASE Write(w)
  <2>1. /\ job[w].pc = "write" /\ SameRow(job[w], job'[w]) /\ job'[w].pc = "attach"
        /\ job'[w].used = job[w].used
    BY <1>1, WriteIs
  <2>2. /\ values' = values \cup {[out |-> Out(w), at |-> job[w].at, used |-> job[w].used, gated |-> job[w].gated]}
        /\ UNCHANGED <<edges, breaks>>
    BY <1>1 DEF Write
  <2>3. CASE v \in values
    <3>1. \A u \in Worker : Attaching(job[u], v, edges) => Attaching(job'[u], v, edges')
      BY <1>o, <2>1, <2>2 DEF Attaching
    <3>2. QED
      BY <2>2, <2>3, <3>1, StillAttached
  <2>4. CASE v \notin values
    <3>1. v.out = Out(w) /\ v.used = job[w].used
      BY <2>2, <2>4
    <3>2. Attaching(job'[w], v, edges')
      BY <2>1, <3>1 DEF Attaching, SameRow, Out, D, T
    <3>3. QED
      BY <3>2
  <2>5. QED
    BY <2>3, <2>4
<1>2. CASE Attach(w) \/ Derive(w)
  <2>1. UNCHANGED <<values, breaks>> /\ edges \subseteq edges'
    BY <1>2 DEF Attach, Derive
  <2>2. \A u \in Worker : u # w /\ Attaching(job[u], v, edges) => Attaching(job'[u], v, edges')
    BY <1>o, <2>1 DEF Attaching
  <2>3. CASE ~Attaching(job[w], v, edges)
    <3>1. \A u \in Worker : Attaching(job[u], v, edges) => Attaching(job'[u], v, edges')
      BY <2>2, <2>3
    <3>2. QED
      BY <2>1, <3>1, StillAttached
  <2>4. CASE Attaching(job[w], v, edges)
    <3>1. v.out = Out(w) /\ v.used = job[w].used /\ Ends(v) = {Out(w)} \cup Used(w)
      BY <2>4 DEF Attaching, Ends, Out, D, T, Used
    <3>2. ASSUME Attach(w)
          PROVE  Linked(v, edges') \/ Attaching(job'[w], v, edges')
      <4>1. /\ <<Out(w), Out(w)>> \in edges'
            /\ \/ Used(w) = {}
               \/ /\ SameRow(job[w], job'[w]) /\ job'[w].pc = "derive"
                  /\ Used(w) \subseteq job'[w].left /\ job'[w].used = job[w].used
        BY <3>2, AttachIs DEF Attach
      <4>2. CASE Used(w) = {}
        BY <3>1, <4>1, <4>2 DEF Linked
      <4>3. CASE Used(w) # {}
        BY <3>1, <4>1, <4>3 DEF Attaching, SameRow, Out, D, T
      <4>4. QED
        BY <4>2, <4>3
    <3>3. ASSUME Derive(w)
          PROVE  Linked(v, edges') \/ Attaching(job'[w], v, edges')
      <4>1. PICK p \in job[w].left :
              /\ edges' = edges \cup {<<Out(w), p>>}
              /\ \/ job[w].left = {p}
                 \/ /\ SameRow(job[w], job'[w]) /\ job'[w].pc = "derive"
                    /\ job'[w].left = job[w].left \ {p} /\ job'[w].used = job[w].used
        BY <3>3, DeriveIs
      <4>2. \A q \in Ends(v) : q \in job[w].left \/ <<v.out, q>> \in edges
        BY <2>4, <3>3 DEF Attaching, Derive
      <4>3. \A q \in Ends(v) : q \in job[w].left \ {p} \/ <<v.out, q>> \in edges'
        BY <3>1, <4>1, <4>2
      <4>4. CASE job[w].left = {p}
        BY <4>3, <4>4 DEF Linked
      <4>5. CASE job[w].left # {p}
        BY <3>1, <4>1, <4>3, <4>5 DEF Attaching, SameRow, Out, D, T
      <4>6. QED
        BY <4>4, <4>5
    <3>4. QED
      BY <1>2, <3>2, <3>3
  <2>5. QED
    BY <2>3, <2>4
<1>3. CASE RaiseFirst(w) \/ RaiseReading(w) \/ Raise(w)
  BY <1>3, Limits DEF RaiseFirst, RaiseReading, Raise, Break
<1>4. CASE PlanDone(w) \/ Begin(w) \/ Check(w) \/ Gate(w) \/ Read(w) \/ Run(w) \/ RecordFailure(w)
           \/ DisableTarget(w) \/ RecordSuccess(w)
  <2>1. job[w].pc \notin {"attach", "derive"} /\ UNCHANGED <<values, edges, breaks>>
    BY <1>4 DEF PlanDone, Begin, Check, Gate, Read, Run, RecordFailure, DisableTarget, RecordSuccess, tables
  <2>2. \A u \in Worker : Attaching(job[u], v, edges) => Attaching(job'[u], v, edges')
    BY <1>o, <2>1 DEF Attaching
  <2>3. QED
    BY <2>1, <2>2, StillAttached
<1>5. QED
  BY <1>1, <1>2, <1>3, <1>4 DEF Work

LEMMA NextAttached == Typed /\ Attached /\ [Next]_vars => Attached'
<1> SUFFICES ASSUME Typed, Attached, [Next]_vars, breaks' = 0, NEW v \in values'
             PROVE  Linked(v, edges') \/ \E w \in Worker : Attaching(job'[w], v, edges')
  BY DEF Attached
<1> USE DEF Typed, Shape
<1>1. ASSUME UNCHANGED <<values, edges, breaks>>,
             \A w \in Worker : Attaching(job[w], v, edges) => Attaching(job'[w], v, edges)
      PROVE  Linked(v, edges') \/ \E w \in Worker : Attaching(job'[w], v, edges')
  BY <1>1, StillAttached
<1>2. ASSUME UNCHANGED <<values, edges, breaks>>, NEW w \in Worker, Others(w), job[w].pc \notin {"attach", "derive"}
      PROVE  Linked(v, edges') \/ \E u \in Worker : Attaching(job'[u], v, edges')
  <2>1. \A u \in Worker : Attaching(job[u], v, edges) => Attaching(job'[u], v, edges)
    BY <1>2 DEF Attaching, Others
  <2>2. QED
    BY <1>1, <1>2, <2>1
<1>3. CASE StartTick
  BY <1>2, <1>3, StartTickIs, Limits DEF StartTick, tables
<1>4. CASE FinishTick
  BY <1>2, <1>4, FinishTickIs, Limits DEF FinishTick, tables
<1>5. ASSUME NEW p \in Source, StartMessage(p)
      PROVE  Linked(v, edges') \/ \E u \in Worker : Attaching(job'[u], v, edges')
  BY <1>2, <1>5, StartMessageIs, Limits DEF StartMessage, tables
<1>6. ASSUME NEW w \in Worker, Work(w)
      PROVE  Linked(v, edges') \/ \E u \in Worker : Attaching(job'[u], v, edges')
  BY <1>6, WorkAttached
<1>7. CASE Crash
  BY <1>7, Limits DEF Crash
<1>8. ASSUME NEW p \in Point, FaultCloses(p)
      PROVE  Linked(v, edges') \/ \E u \in Worker : Attaching(job'[u], v, edges')
  <2>1. Undisturbed /\ UNCHANGED <<values, edges, breaks>>
    BY <1>8, FaultClosesIs DEF FaultCloses, engine
  <2>2. \A u \in Worker : Attaching(job[u], v, edges) => Attaching(job'[u], v, edges)
    BY <2>1 DEF Undisturbed, Attaching, SameRow
  <2>3. QED
    BY <1>1, <2>1, <2>2
<1>9. CASE UNCHANGED <<job, values, edges, breaks>>
  BY <1>1, <1>9
<1>10. CASE World
  BY <1>8, <1>9, <1>10 DEF World, Reading, FaultOpens, CreateDerivation, DeleteDerivation, EnableTarget, engine
<1>11. CASE UNCHANGED vars
  BY <1>9, <1>11 DEF vars
<1>12. QED
  BY <1>3, <1>4, <1>5, <1>6, <1>7, <1>10, <1>11 DEF Next

\* Whatever the two threads compute at a time, and late readings, faults and
\* restarts in between: a value is computed from rows of the history only, and
\* unless a statement broke, its point is attached to all of it or about to be
\* (_write_and_attach; a rollup's children are taken from memory).
THEOREM LineageIsRecorded == Spec => []LineageRecorded
<1>1. Typed /\ Grounded /\ Attached => LineageRecorded
  BY DEF Grounded, Attached, Stored, Linked, Ends, Attaching, LineageRecorded, Out, D, T
<1>2. Init => Grounded /\ Attached
  BY InitGrounded
<1>3. QED
  BY InitTyped, NextTyped, <1>2, NextGrounded, NextAttached, <1>1, PTL DEF Spec
-----------------------------------------------------------------------------
(* The rows a sweep comes to.                                              *)

\* The derivation is done, or under way with the rest of its rows to go.
Come(j, d) ==
  \/ Row(d) \subseteq j.tried
  \/ /\ j.pc \in Busy /\ d = Head(j.plan)
     /\ Row(d) \subseteq j.tried \cup {<<d, t>> : t \in ToSet(j.rows)}

RowsTried(j) ==
  /\ \A d \in Kept(j.list) \cap j.due : d \in Waiting(j) \/ Come(j, d)
  /\ j.pc \in Busy \ {"check"} => <<Head(j.plan), Head(j.rows)>> \in j.tried

Covered == Sweeping => RowsTried(job["sweep"])

LEMMA SameTried ==
  ASSUME NEW j, NEW k, RowsTried(j), SameRow(j, k), j.pc \in Busy, k.pc \in Busy, j.tried \subseteq k.tried,
         j.pc = "check" => <<Head(j.plan), Head(j.rows)>> \in k.tried
  PROVE  RowsTried(k)
<1>1. Waiting(k) = Waiting(j) /\ k.list = j.list /\ k.due = j.due
  BY DEF Waiting, SameRow, Alike
<1>2. ASSUME NEW d, Come(j, d) PROVE Come(k, d)
  BY <1>2 DEF Come, SameRow
<1>3. <<Head(k.plan), Head(k.rows)>> \in k.tried
  BY DEF RowsTried, SameRow
<1>4. QED
  BY <1>1, <1>2, <1>3 DEF RowsTried

LEMMA DoneTried ==
  ASSUME NEW j \in Jobs, Fit(j), NEW k, RowsTried(j), Done(j, k), j.pc \in Busy, j.tried \subseteq k.tried,
         <<Head(j.plan), Head(j.rows)>> \in k.tried
  PROVE  RowsTried(k)
<1>1. Waiting(k) = Waiting(j) /\ k.list = j.list /\ k.due = j.due
  BY DoneOnward DEF Waiting, Alike
<1>2. ToSet(j.rows) = {Head(j.rows)} \cup ToSet(Tail(j.rows))
  <2>1. j.rows \in Seq(Target) /\ j.rows # <<>>
    BY DEF Jobs, Target, Fit
  <2>2. QED
    BY <2>1, Split
<1>3. ASSUME NEW d, Come(j, d) PROVE Come(k, d)
  <2>1. CASE Row(d) \subseteq j.tried
    BY <2>1 DEF Come
  <2>2. CASE ~(Row(d) \subseteq j.tried)
    <3>1. d = Head(j.plan) /\ Row(d) \subseteq j.tried \cup {<<d, t>> : t \in ToSet(j.rows)}
      BY <1>3, <2>2 DEF Come
    <3>2. Row(d) \subseteq k.tried \cup {<<d, t>> : t \in ToSet(Tail(j.rows))}
      BY <3>1, <1>2
    <3>3. CASE Tail(j.rows) = <<>>
      <4>1. ToSet(Tail(j.rows)) = {}
        BY <3>3, Elements, EmptySeq
      <4>2. QED
        BY <3>2, <4>1 DEF Come
    <3>4. CASE Tail(j.rows) # <<>>
      <4>1. k.pc \in Busy /\ k.plan = j.plan /\ k.rows = Tail(j.rows)
        BY <3>4 DEF Done, NextRow, Busy
      <4>2. QED
        BY <3>1, <3>2, <4>1 DEF Come
    <3>5. QED
      BY <3>3, <3>4
  <2>3. QED
    BY <2>1, <2>2
<1>4. k.pc \notin Busy \ {"check"}
  BY DEF Done, NextOne, NextRow, Busy
<1>5. QED
  BY <1>1, <1>3, <1>4 DEF RowsTried

LEMMA SweepTried ==
  ASSUME Typed, RowsTried(job["sweep"]), Work("sweep")
  PROVE  RowsTried(job'["sweep"])
<1> USE DEF Typed, Shape
<1> DEFINE j == job["sweep"]
           k == job'["sweep"]
<1>1. "sweep" \in Worker /\ j \in Jobs /\ Fit(j) /\ j.plan \in Seq(Deriv)
  BY Limits DEF Threads, Jobs
<1>2. Out("sweep") = <<Head(j.plan), Head(j.rows)>>
  BY DEF Out, D, T
<1>3. ASSUME SameRow(j, k), j.pc \in Busy \ {"check"}, k.pc \in Busy, k.tried = j.tried
      PROVE  RowsTried(k)
  BY <1>3, SameTried
<1>4. ASSUME Done(j, k), j.pc \in Busy \ {"check"}, k.tried = j.tried
      PROVE  RowsTried(k)
  BY <1>1, <1>4, DoneTried DEF RowsTried
<1>5. CASE PlanDone("sweep")
  <2>1. j.pc = "plan" /\ k.pc = "finish" /\ k.plan = <<>> /\ j.plan = <<>> /\ Alike(j, k) /\ k.tried = j.tried
    BY <1>1, <1>5, PlanDoneIs
  <2>2. Waiting(k) = Waiting(j) /\ j.pc \notin Busy /\ k.pc \notin Busy
    BY <2>1 DEF Waiting, Busy
  <2>3. QED
    BY <2>1, <2>2 DEF RowsTried, Come, Alike
<1>6. CASE Begin("sweep")
  <2>1. PICK rows \in RowsFor("sweep", D("sweep")) :
          /\ j.pc = "plan" /\ j.plan # <<>> /\ D("sweep") \in Deriv
          /\ k.list = j.list /\ k.due = j.due /\ k.tried = j.tried
          /\ \/ rows = <<>> /\ k.pc = "plan" /\ k.plan = Tail(j.plan)
             \/ rows # <<>> /\ k.pc = "check" /\ k.plan = j.plan /\ k.rows = rows
    BY <1>1, <1>6, BeginIs
  <2>2. rows = Targets[D("sweep")]
    BY <2>1 DEF RowsFor
  <2>3. Waiting(j) = {D("sweep")} \cup Waiting(k)
    <3>1. Waiting(j) = ToSet(j.plan) /\ Waiting(k) = ToSet(Tail(j.plan))
      BY <2>1 DEF Waiting, Busy
    <3>2. QED
      BY <3>1, <1>1, <2>1, Split DEF D
  <2>4. Come(k, D("sweep"))
    <3>1. CASE rows = <<>>
      <4>1. ToSet(Targets[D("sweep")]) = {}
        BY <3>1, <2>2, Elements, EmptySeq
      <4>2. QED
        BY <4>1 DEF Come, Row
    <3>2. CASE rows # <<>>
      BY <3>2, <2>1, <2>2 DEF Come, Row, Busy, D
    <3>3. QED
      BY <3>1, <3>2
  <2>5. ASSUME NEW d, Come(j, d) PROVE Come(k, d)
    BY <2>1, <2>5 DEF Come, Busy
  <2>6. k.pc \notin Busy \ {"check"}
    BY <2>1 DEF Busy
  <2>7. QED
    BY <2>1, <2>3, <2>4, <2>5, <2>6 DEF RowsTried
<1>7. CASE Check("sweep")
  <2>1. /\ j.pc = "check" /\ k.tried = j.tried \cup {Out("sweep")}
        /\ Done(j, k) \/ (SameRow(j, k) /\ Gathers(k))
    BY <1>1, <1>7, CheckIs
  <2>2. CASE Done(j, k)
    BY <1>1, <1>2, <2>1, <2>2, DoneTried DEF Busy
  <2>3. CASE SameRow(j, k) /\ Gathers(k)
    BY <1>2, <2>1, <2>3, SameTried DEF Busy, Gathers
  <2>4. QED
    BY <2>1, <2>2, <2>3
<1> HIDE DEF j, k
<1>8. CASE Gate("sweep")
  BY <1>1, <1>3, <1>8, GateIs DEF j, k, Busy, Gathers
<1>9. CASE Read("sweep")
  BY <1>1, <1>3, <1>9, ReadIs DEF j, k, Busy, Gathers
<1>10. CASE Run("sweep")
  BY <1>1, <1>3, <1>10, RunIs DEF j, k, Busy
<1>11. CASE RecordFailure("sweep")
  BY <1>1, <1>3, <1>4, <1>11, RecordFailureIs DEF j, k, Busy
<1>d. CASE DisableTarget("sweep")
  BY <1>1, <1>4, <1>d, DisableTargetIs DEF j, k, Busy
<1>12. CASE RecordSuccess("sweep")
  BY <1>1, <1>3, <1>4, <1>12, RecordSuccessIs DEF j, k, Busy
<1>13. CASE Write("sweep")
  BY <1>1, <1>3, <1>13, WriteIs DEF j, k, Busy
<1>14. CASE Attach("sweep")
  BY <1>1, <1>3, <1>4, <1>14, AttachIs DEF j, k, Busy
<1>e. CASE Derive("sweep")
  BY <1>1, <1>3, <1>4, <1>e, DeriveIs DEF j, k, Busy
<1>15. CASE RaiseFirst("sweep")
  <2>1. /\ j.pc = "plan" /\ j.plan # <<>> /\ Alike(j, k) /\ k.pc = "plan" /\ k.plan = Tail(j.plan)
        /\ k.tried = j.tried \cup Row(Head(j.plan))
    BY <1>1, <1>15, RaiseFirstIs DEF j, k, D
  <2>2. Waiting(j) = {Head(j.plan)} \cup Waiting(k)
    <3>1. Waiting(j) = ToSet(j.plan) /\ Waiting(k) = ToSet(Tail(j.plan))
      BY <2>1 DEF Waiting, Busy
    <3>2. QED
      BY <3>1, <1>1, <2>1, Split
  <2>3. Come(k, Head(j.plan))
    BY <2>1 DEF Come
  <2>4. ASSUME NEW d, Come(j, d) PROVE Come(k, d)
    BY <2>1, <2>4 DEF Come, Busy
  <2>5. k.list = j.list /\ k.due = j.due /\ k.pc \notin Busy \ {"check"}
    BY <2>1 DEF Alike, Busy
  <2>6. RowsTried(j)
    BY DEF j
  <2>7. RowsTried(k)
    BY <2>1, <2>2, <2>3, <2>4, <2>5, <2>6 DEF RowsTried
  <2>8. QED
    BY <2>7 DEF k
<1>16. CASE RaiseReading("sweep")
  BY <1>1, <1>3, <1>16, RaiseReadingIs DEF j, k, Busy
<1>17. CASE Raise("sweep")
  <2>1. /\ j.pc \in Busy /\ Ended(j, k) /\ k.tried = j.tried \cup Row(Head(j.plan))
    BY <1>1, <1>17, RaiseIs DEF j, k, D
  <2>2. Waiting(k) = Waiting(j) /\ k.list = j.list /\ k.due = j.due /\ k.pc = "plan"
    BY <2>1, DoneOnward DEF Waiting, Alike, Ended, NextOne
  <2>3. ASSUME NEW d, Come(j, d) PROVE Come(k, d)
    BY <2>1, <2>3 DEF Come
  <2>4. k.pc \notin Busy \ {"check"}
    BY <2>2 DEF Busy
  <2>5. RowsTried(j)
    BY DEF j
  <2>6. RowsTried(k)
    BY <2>1, <2>2, <2>3, <2>4, <2>5 DEF RowsTried
  <2>7. QED
    BY <2>6 DEF k
<1>18. QED
  BY <1>5, <1>6, <1>7, <1>8, <1>9, <1>10, <1>11, <1>d, <1>12, <1>13, <1>14, <1>e,
     <1>15, <1>16, <1>17 DEF Work, j, k

LEMMA NextCovered == Typed /\ Covered /\ [Next]_vars => Covered'
<1> SUFFICES ASSUME Typed, Covered, [Next]_vars, Sweeping' PROVE RowsTried(job'["sweep"])
  BY DEF Covered
<1> USE DEF Typed, Shape
<1>1. ASSUME job'["sweep"] = job["sweep"] PROVE RowsTried(job'["sweep"])
  BY <1>1 DEF Covered, Sweeping
<1>2. CASE StartTick
  <2> DEFINE k == job'["sweep"]
  <2>1. k.pc = "plan" /\ k.list = file /\ ToSet(k.plan) = Kept(file) \cap k.due
    BY <1>2, StartTickIs
  <2>2. QED
    BY <2>1 DEF RowsTried, Waiting, Busy
<1>3. CASE FinishTick
  BY <1>3, FinishTickIs DEF Sweeping, Idle
<1>4. ASSUME NEW p \in Source, StartMessage(p) PROVE RowsTried(job'["sweep"])
  <2>1. job'["sweep"] = job["sweep"]
    BY <1>4, StartMessageIs, Limits DEF Others
  <2>2. QED
    BY <1>1, <2>1
<1>5. ASSUME NEW w \in Worker, Work(w) PROVE RowsTried(job'["sweep"])
  <2>1. CASE w # "sweep"
    <3>1. job'["sweep"] = job["sweep"]
      BY <1>5, <2>1, WorkOthers, Limits DEF Others
    <3>2. QED
      BY <1>1, <3>1
  <2>2. CASE w = "sweep"
    <3>1. job["sweep"].pc # "idle"
      <4>1. CASE Begin(w) \/ PlanDone(w) \/ RaiseFirst(w)
        BY <2>2, <4>1 DEF Begin, PlanDone, RaiseFirst, Break
      <4>2. CASE ~(Begin(w) \/ PlanDone(w) \/ RaiseFirst(w))
        BY <1>5, <2>2, <4>2, WorkMoves DEF Busy
      <4>3. QED
        BY <4>1, <4>2
    <3>2. QED
      BY <1>5, <2>2, <3>1, SweepTried DEF Covered, Sweeping
  <2>3. QED
    BY <2>1, <2>2
<1>6. CASE Crash
  BY <1>6, CrashIs, Limits DEF Sweeping, Idle
<1>7. ASSUME NEW p \in Point, FaultCloses(p) PROVE RowsTried(job'["sweep"])
  <2>1. LET j == job["sweep"]
            k == job'["sweep"]
        IN SameRow(j, k) /\ k.pc = j.pc /\ k.tried = j.tried
    BY <1>7, FaultClosesIs, Limits DEF Undisturbed
  <2>2. QED
    BY <2>1 DEF Covered, Sweeping, RowsTried, Waiting, Come, SameRow, Alike
<1>8. CASE World
  BY <1>1, <1>7, <1>8 DEF World, Reading, FaultOpens, CreateDerivation, DeleteDerivation, EnableTarget, engine
<1>9. CASE UNCHANGED vars
  BY <1>1, <1>9 DEF vars
<1>10. QED
  BY <1>2, <1>3, <1>4, <1>5, <1>6, <1>8, <1>9 DEF Next

\* Whatever the functions of other rows return or raise, whatever the targets'
\* breakers and the message thread do, and whichever statements raise: a sweep comes to
\* every row of every due derivation, but for the rest of those a raised statement of
\* their own ended (evaluate_derivations, _evaluate_formula).
THEOREM SweepIsComplete == Spec => []SweepComplete
<1>1. Init => Covered
  BY Limits DEF Init, Covered, Sweeping, Idle
<1>2. Typed /\ Covered => SweepComplete
  <2> SUFFICES ASSUME Typed, Covered, job["sweep"].pc = "finish", NEW d \in Due
               PROVE  Row(d) \subseteq job["sweep"].tried
    BY DEF SweepComplete
  <2>1. job["sweep"].plan = <<>>
    BY Limits DEF Typed, Threads, Fit
  <2>2. ToSet(<<>>) = {}
    BY Elements, EmptySeq
  <2>3. job["sweep"].pc \notin Busy /\ Sweeping
    BY DEF Busy, Sweeping
  <2>4. Waiting(job["sweep"]) = {}
    BY <2>1, <2>2, <2>3 DEF Waiting
  <2>5. Come(job["sweep"], d)
    BY <2>3, <2>4 DEF Covered, RowsTried, Due
  <2>6. QED
    BY <2>3, <2>5 DEF Come
<1>3. QED
  BY InitTyped, NextTyped, NextCovered, <1>1, <1>2, PTL DEF Spec
-----------------------------------------------------------------------------
(* The order of a sweep.                                                   *)

\* What a sweep computed depends neither on what it is at nor on what is to come.
OrderAt(j, vs) ==
  j.pc # "idle" =>
    /\ Ordered(j.plan)
    /\ \A v \in vs : v.at = j.at =>
         /\ Waiting(j) \cap DependsOn[v.out[1]] = {}
         /\ j.pc \in Busy => v.out[1] = Head(j.plan) \/ Head(j.plan) \notin DependsOn[v.out[1]]

\* A message computes one derivation at a time of its own.
OwnAt(m, vs) == m.pc \in Busy => \A v \in vs : v.at = m.at => v.out[1] = Head(m.plan)
Apart(j, m) == j.pc # "idle" /\ m.pc \in Busy => j.at # m.at

InOrder ==
  /\ \A v \in values : v.at <= clock
  /\ OrderAt(job["sweep"], values)
  /\ OwnAt(job["message"], values)
  /\ Apart(job["sweep"], job["message"])

\* What a dependency has computed is still to be read, or has been.
RowFresh(j, vs) ==
  j.pc \in InRow =>
    \A u \in vs :
      (u.at = j.at /\ u.out \in Inputs[Head(j.plan)][Head(j.rows)]
         /\ u.out[1] \in DependsOn[Head(j.plan)] \ {Head(j.plan)})
        => u.out \in j.left \cup j.point \cup j.gated \/ <<u.out, u.at>> \in j.used

Fresh == \A w \in Worker : RowFresh(job[w], values)

LEMMA MovesInOrder ==
  ASSUME NEW j \in Jobs, NEW k, NEW vs, j.pc \in Busy, Fit(j), OrderAt(j, vs),
         (SameRow(j, k) /\ k.pc \in Busy) \/ Done(j, k) \/ Ended(j, k)
  PROVE  OrderAt(k, vs) /\ k.at = j.at
<1>1. j.plan \in Seq(Deriv) /\ j.plan # <<>> /\ j.pc # "idle"
  BY DEF Jobs, Fit, Busy
<1>2. CASE SameRow(j, k) /\ k.pc \in Busy
  <2>1. Waiting(k) = Waiting(j) /\ k.at = j.at /\ k.plan = j.plan
    BY <1>2 DEF SameRow, Alike, Waiting
  <2>2. QED
    BY <1>1, <2>1 DEF OrderAt
<1>3. CASE Done(j, k) \/ Ended(j, k)
  <2>1. Waiting(k) = Waiting(j) /\ k.at = j.at
    BY <1>3, DoneOnward DEF Waiting, Alike
  <2>2. (k.plan = Tail(j.plan) /\ k.pc \notin Busy) \/ k.plan = j.plan
    BY <1>3 DEF Done, Ended, NextOne, NextRow, Busy
  <2>3. Ordered(Tail(j.plan))
    BY <1>1, OrderedTail DEF OrderAt
  <2>4. QED
    BY <1>1, <2>1, <2>2, <2>3 DEF OrderAt
<1>4. QED
  BY <1>2, <1>3

LEMMA SweepInOrder ==
  ASSUME Typed, InOrder, Work("sweep"), UNCHANGED values
  PROVE  InOrder'
<1> USE DEF Typed, Shape
<1> DEFINE j == job["sweep"]
           k == job'["sweep"]
<1>1. "sweep" \in Worker /\ j \in Jobs /\ Fit(j) /\ j.plan \in Seq(Deriv)
  BY Limits DEF Threads, Jobs
<1>2. job'["message"] = job["message"]
  BY <1>1, WorkOthers, Limits DEF Others
<1>3. \A v \in values : v.at <= clock'
  BY WorkTimes, NumbersOf, Limits DEF InOrder
<1>4. SUFFICES OrderAt(k, values) /\ k.at = j.at /\ j.pc # "idle"
  BY <1>2, <1>3 DEF InOrder, Apart
<1>5. OrderAt(j, values)
  BY DEF InOrder
<1>6. CASE PlanDone("sweep")
  <2>1. j.pc = "plan" /\ k.pc = "finish" /\ k.plan = <<>> /\ j.plan = <<>> /\ k.at = j.at
    BY <1>1, <1>6, PlanDoneIs DEF Alike
  <2>2. Waiting(k) = Waiting(j) /\ j.pc \notin Busy /\ k.pc \notin Busy
    BY <2>1 DEF Waiting, Busy
  <2>3. QED
    BY <1>5, <2>1, <2>2 DEF OrderAt
<1>7. CASE Begin("sweep")
  <2>1. PICK rows \in RowsFor("sweep", D("sweep")) :
          /\ j.pc = "plan" /\ j.plan # <<>> /\ k.at = j.at
          /\ \/ rows = <<>> /\ k.pc = "plan" /\ k.plan = Tail(j.plan)
             \/ rows # <<>> /\ k.pc = "check" /\ k.plan = j.plan /\ k.rows = rows
    BY <1>1, <1>7, BeginIs
  <2>2. /\ Waiting(j) = {Head(j.plan)} \cup Waiting(k)
        /\ Ordered(j.plan) /\ Ordered(Tail(j.plan))
    <3>1. Waiting(j) = ToSet(j.plan) /\ Waiting(k) = ToSet(Tail(j.plan))
      BY <2>1 DEF Waiting, Busy
    <3>2. Ordered(j.plan)
      BY <1>5, <2>1 DEF OrderAt
    <3>3. QED
      BY <3>1, <3>2, <1>1, <2>1, Split, OrderedTail
  <2>3. ASSUME NEW v \in values, v.at = k.at
        PROVE  Waiting(k) \cap DependsOn[v.out[1]] = {} /\ Head(j.plan) \notin DependsOn[v.out[1]]
    <3>1. Waiting(j) \cap DependsOn[v.out[1]] = {}
      BY <1>5, <2>1, <2>3 DEF OrderAt
    <3>2. QED
      BY <3>1, <2>2
  <2>4. CASE k.pc = "plan"
    BY <2>1, <2>2, <2>3, <2>4 DEF OrderAt, Busy
  <2>5. CASE k.pc = "check"
    BY <2>1, <2>2, <2>3, <2>5 DEF OrderAt, Busy
  <2>6. QED
    BY <2>1, <2>4, <2>5
<1>r. CASE RaiseFirst("sweep")
  <2>1. j.pc = "plan" /\ j.plan # <<>> /\ k.at = j.at /\ k.pc = "plan" /\ k.plan = Tail(j.plan)
    BY <1>1, <1>r, RaiseFirstIs DEF Alike
  <2>2. /\ Waiting(j) = ToSet(j.plan) /\ Waiting(k) = ToSet(Tail(j.plan))
        /\ Ordered(j.plan) /\ Ordered(Tail(j.plan))
    BY <1>1, <1>5, <2>1, OrderedTail DEF Waiting, Busy, OrderAt
  <2>3. Waiting(k) \subseteq Waiting(j)
    BY <1>1, <2>1, <2>2, Split
  <2>4. QED
    BY <1>5, <2>1, <2>2, <2>3 DEF OrderAt, Busy
<1>8. CASE ~PlanDone("sweep") /\ ~Begin("sweep") /\ ~RaiseFirst("sweep")
  <2>1. j.pc \in Busy /\ ((SameRow(j, k) /\ k.pc \in Busy) \/ Done(j, k) \/ Ended(j, k))
    BY <1>1, <1>8, WorkMoves
  <2>2. OrderAt(k, values) /\ k.at = j.at
    BY <1>1, <1>5, <2>1, MovesInOrder
  <2>3. QED
    BY <2>1, <2>2 DEF Busy
<1>9. QED
  BY <1>6, <1>7, <1>r, <1>8

LEMMA MessageInOrder ==
  ASSUME Typed, Scheduled, InOrder, Work("message"), UNCHANGED values
  PROVE  InOrder'
<1> USE DEF Typed, Shape
<1> DEFINE j == job["message"]
           k == job'["message"]
<1>1. "message" \in Worker /\ "sweep" \in Worker /\ "message" # "sweep"
  BY Limits
<1>2. job'["sweep"] = job["sweep"]
  BY <1>1, WorkOthers DEF Others
<1>3. \A v \in values : v.at <= clock'
  BY <1>1, WorkTimes, NumbersOf DEF InOrder
<1>4. SUFFICES OwnAt(k, values) /\ Apart(job["sweep"], k)
  BY <1>2, <1>3 DEF InOrder
<1>5. CASE PlanDone("message")
  BY <1>1, <1>5, PlanDoneIs DEF OwnAt, Apart, Busy, Idle
<1>6. CASE Begin("message")
  <2>1. k.at = clock + 1
    BY <1>1, <1>6, BeginIs
  <2>2. (\A v \in values : v.at # k.at) /\ job["sweep"].at # k.at
    BY <1>1, <2>1, NumbersOf DEF InOrder, Scheduled
  <2>3. QED
    BY <2>2 DEF OwnAt, Apart
<1>r. CASE RaiseFirst("message")
  BY <1>1, <1>r, RaiseFirstIs DEF OwnAt, Apart, Busy
<1>7. CASE ~PlanDone("message") /\ ~Begin("message") /\ ~RaiseFirst("message")
  <2>1. j.pc \in Busy /\ ((SameRow(j, k) /\ k.pc \in Busy) \/ Done(j, k) \/ Ended(j, k))
    BY <1>1, <1>7, WorkMoves
  <2>2. k.at = j.at /\ (k.pc \in Busy => k.plan = j.plan)
    BY <2>1 DEF SameRow, Done, Ended, NextOne, NextRow, Alike, Busy
  <2>3. QED
    BY <2>1, <2>2 DEF InOrder, OwnAt, Apart, Busy
<1>8. QED
  BY <1>5, <1>6, <1>r, <1>7

\* The value a thread is about to write.
Value(j) == [out |-> <<Head(j.plan), Head(j.rows)>>, at |-> j.at, used |-> j.used, gated |-> j.gated]

LEMMA Writes ==
  ASSUME Typed, NEW w \in Worker, Write(w)
  PROVE  /\ values' = values \cup {Value(job[w])} /\ UNCHANGED clock
         /\ job[w].pc = "write" /\ SameRow(job[w], job'[w]) /\ job'[w].pc = "attach"
         /\ \A v \in Worker : v # w => job'[v] = job[v]
         /\ Value(job[w]).out[1] = Head(job[w].plan) /\ Value(job[w]).out = <<Head(job[w].plan), Head(job[w].rows)>>
         /\ Value(job[w]).at = job[w].at /\ Value(job[w]).used = job[w].used /\ Value(job[w]).gated = job[w].gated
<1>1. values' = values \cup {Value(job[w])} /\ UNCHANGED clock
  BY DEF Write, Value, Out, D, T
<1>2. job[w].pc = "write" /\ Others(w) /\ SameRow(job[w], job'[w]) /\ job'[w].pc = "attach"
  BY WriteIs DEF Typed
<1>3. QED
  BY <1>1, <1>2 DEF Others, Value

LEMMA WriteInOrder ==
  ASSUME Typed, Scheduled, InOrder, NEW w \in Worker, Write(w)
  PROVE  InOrder'
<1> DEFINE j == job[w]
           k == job'[w]
           new == Value(job[w])
<1>1. /\ values' = values \cup {new} /\ UNCHANGED clock
      /\ j.pc = "write" /\ SameRow(j, k) /\ k.pc = "attach"
      /\ \A v \in Worker : v # w => job'[v] = job[v]
      /\ new.out[1] = Head(j.plan) /\ new.at = j.at
  BY Writes
<1>2. j \in Jobs /\ Fit(j) /\ j.pc \in Busy /\ k.pc \in Busy /\ j.pc # "idle" /\ k.pc # "idle"
  BY <1>1 DEF Typed, Threads, Busy
<1>3. j.plan \in Seq(Deriv) /\ j.plan # <<>> /\ k.plan = j.plan /\ k.at = j.at
  BY <1>1, <1>2 DEF Jobs, Fit, SameRow, Alike
<1>4. \A v \in values' : v.at <= clock'
  BY <1>1, NumbersOf DEF InOrder, Scheduled
<1> HIDE DEF new
<1>5. CASE w = "sweep"
  <2>1. job'["message"] = job["message"]
    BY <1>1, <1>5, Limits
  <2>2. OrderAt(j, values) /\ OwnAt(job["message"], values) /\ Apart(j, job["message"])
    BY <1>5 DEF InOrder
  <2>3. Waiting(j) = ToSet(Tail(j.plan)) /\ Waiting(k) = ToSet(Tail(j.plan))
    BY <1>2, <1>3 DEF Waiting
  <2>4. Ordered(j.plan)
    BY <1>2, <2>2 DEF OrderAt
  <2>5. Waiting(k) \cap DependsOn[new.out[1]] = {}
    BY <1>1, <1>3, <2>3, <2>4, OrderedTail
  <2>6. OrderAt(k, values')
    BY <1>1, <1>2, <1>3, <2>2, <2>3, <2>5 DEF OrderAt
  <2>7. OwnAt(job["message"], values') /\ Apart(k, job["message"])
    BY <1>1, <1>2, <1>3, <2>2 DEF OwnAt, Apart
  <2>8. QED
    BY <1>4, <1>5, <2>1, <2>6, <2>7 DEF InOrder
<1>6. CASE w = "message"
  <2>1. job'["sweep"] = job["sweep"]
    BY <1>1, <1>6, Limits
  <2>2. OrderAt(job["sweep"], values) /\ OwnAt(j, values) /\ Apart(job["sweep"], j)
    BY <1>6 DEF InOrder
  <2>3. OrderAt(job["sweep"], values')
    BY <1>1, <1>2, <2>2 DEF OrderAt, Apart
  <2>4. OwnAt(k, values') /\ Apart(job["sweep"], k)
    BY <1>1, <1>2, <1>3, <2>2 DEF OwnAt, Apart
  <2>5. QED
    BY <1>4, <1>6, <2>1, <2>3, <2>4 DEF InOrder
<1>7. QED
  BY <1>5, <1>6, Limits

LEMMA NextInOrder == Typed /\ Scheduled /\ InOrder /\ [Next]_vars => InOrder'
<1> SUFFICES ASSUME Typed, Scheduled, InOrder, [Next]_vars PROVE InOrder'
  OBVIOUS
<1> USE DEF Typed, Shape
<1>1. CASE StartTick
  <2> DEFINE k == job'["sweep"]
  <2>1. Others("sweep") /\ clock' = clock + 1 /\ k.pc = "plan" /\ k.at = clock + 1 /\ Ordered(k.plan)
        /\ UNCHANGED values
    BY <1>1, StartTickIs DEF StartTick, tables
  <2>2. job'["message"] = job["message"] /\ job["message"].at <= clock /\ job["message"].at \in Nat
    BY <2>1, NumbersOf, Limits DEF Others, Scheduled
  <2>3. \A v \in values' : v.at <= clock' /\ v.at # k.at
    BY <2>1, NumbersOf DEF InOrder
  <2>4. k.at # job["message"].at
    BY <2>1, <2>2, NumbersOf
  <2>5. OrderAt(k, values') /\ Apart(k, job["message"])
    BY <2>1, <2>3, <2>4 DEF OrderAt, Apart
  <2>6. QED
    BY <2>1, <2>2, <2>3, <2>5 DEF InOrder
<1>2. CASE FinishTick
  <2>1. job'["sweep"] = Idle /\ job'["message"] = job["message"] /\ UNCHANGED <<values, clock>>
    BY <1>2, FinishTickIs, Limits DEF FinishTick, tables, Others
  <2>2. QED
    BY <2>1 DEF InOrder, OrderAt, Apart, Idle
<1>3. ASSUME NEW p \in Source, StartMessage(p) PROVE InOrder'
  <2>1. job'["sweep"] = job["sweep"] /\ job'["message"].pc = "plan" /\ UNCHANGED <<values, clock>>
    BY <1>3, StartMessageIs, Limits DEF StartMessage, tables, Others
  <2>2. QED
    BY <2>1 DEF InOrder, OwnAt, Apart, Busy
<1>4. ASSUME NEW w \in Worker, Work(w) PROVE InOrder'
  <2>1. CASE Write(w)
    BY <2>1, WriteInOrder
  <2>2. CASE ~Write(w)
    <3>1. UNCHANGED values
      BY <1>4, <2>2 DEF Work, PlanDone, Begin, Check, Gate, Read, Run, RecordFailure, DisableTarget,
         RecordSuccess, Attach, Derive, RaiseFirst, RaiseReading, Raise,
                        tables
    <3>2. QED
      BY <1>4, <3>1, SweepInOrder, MessageInOrder, Limits
  <2>3. QED
    BY <2>1, <2>2
<1>5. CASE Crash
  BY <1>5, CrashIs, Limits DEF Crash, InOrder, OrderAt, OwnAt, Apart, Idle, Busy, tables
<1>6. ASSUME NEW p \in Point, FaultCloses(p) PROVE InOrder'
  <2>1. \A w \in Worker : SameRow(job[w], job'[w]) /\ job'[w].pc = job[w].pc
    BY <1>6, FaultClosesIs DEF Undisturbed
  <2>2. UNCHANGED <<values, clock>>
    BY <1>6 DEF FaultCloses, engine
  <2>3. QED
    BY <2>1, <2>2, Limits DEF InOrder, OrderAt, OwnAt, Apart, Waiting, SameRow, Alike
<1>7. CASE UNCHANGED <<job, values, clock>>
  BY <1>7 DEF InOrder
<1>8. CASE World
  BY <1>6, <1>7, <1>8 DEF World, Reading, FaultOpens, CreateDerivation, DeleteDerivation, EnableTarget, engine
<1>9. CASE UNCHANGED vars
  BY <1>7, <1>9 DEF vars
<1>10. QED
  BY <1>1, <1>2, <1>3, <1>4, <1>5, <1>8, <1>9 DEF Next

LEMMA WorkFresh ==
  ASSUME Typed, Scheduled, Grounded, InOrder, Fresh, NEW w \in Worker, Work(w)
  PROVE  Fresh'
<1> USE DEF Typed, Shape
<1> DEFINE j == job[w]
           k == job'[w]
<1>1. CASE Write(w)
  <2>1. /\ values' = values \cup {Value(j)} /\ j.pc = "write" /\ k.pc = "attach"
        /\ \A v \in Worker : v # w => job'[v] = job[v]
        /\ Value(j).at = j.at
    BY <1>1, Writes
  <2>2. ASSUME NEW v \in Worker, v # w, job[v].pc \in InRow PROVE job[v].at # j.at
    BY <2>1, <2>2, Limits DEF InOrder, Apart, InRow, Busy
  <2>3. ASSUME NEW v \in Worker, v # w PROVE RowFresh(job'[v], values')
    BY <2>1, <2>2, <2>3 DEF Fresh, RowFresh
  <2>4. RowFresh(k, values')
    BY <2>1 DEF RowFresh, InRow
  <2>5. QED
    BY <2>3, <2>4 DEF Fresh
<1>2. CASE ~Write(w)
  <2>1. UNCHANGED values
    BY <1>2 DEF Work, PlanDone, Begin, Check, Gate, Read, Run, RecordFailure, DisableTarget,
         RecordSuccess, Attach, Derive, RaiseFirst, RaiseReading, Raise, tables
  <2>2. SUFFICES RowFresh(k, values)
    <3>1. \A v \in Worker : v # w => job'[v] = job[v]
      BY WorkOthers DEF Others
    <3>2. QED
      BY <2>1, <2>2, <3>1 DEF Fresh
  <2>3. RowFresh(j, values)
    BY DEF Fresh
  <2>4. ASSUME k.pc \notin InRow PROVE RowFresh(k, values)
    BY <2>4 DEF RowFresh
  <2>5. CASE PlanDone(w)
    BY <2>4, <2>5, PlanDoneIs DEF InRow, Idle
  <2>6. CASE Begin(w)
    BY <2>4, <2>6, BeginIs DEF InRow
  <2>7. CASE Check(w)
    <3>1. CASE Done(j, k)
      BY <2>4, <3>1 DEF Done, NextOne, NextRow, InRow
    <3>2. CASE ~Done(j, k)
      <4>1. SameRow(j, k) /\ k.left = Inputs[D(w)][T(w)]
        BY <2>7, <3>2, CheckIs
      <4>2. QED
        BY <4>1 DEF RowFresh, SameRow, D, T
    <3>3. QED
      BY <3>1, <3>2
  <2>8. CASE Gate(w)
    <3>1. j.pc = "gate" /\ SameRow(j, k) /\ k.used = j.used /\ j.point = {}
      BY <2>8, GateIs DEF Threads, Fit
    <3>2. PICK p \in j.left :
            /\ k.left = j.left \ {p}
            /\ (k.gated = j.gated \cup {p} /\ k.point = {}) \/ (k.gated = j.gated /\ k.point = {p})
      BY <2>8, GateIs
    <3>3. j.left \cup j.point \cup j.gated \subseteq k.left \cup k.point \cup k.gated
      BY <3>1, <3>2
    <3>4. QED
      BY <2>3, <3>1, <3>3 DEF RowFresh, SameRow, Alike, InRow
  <2>9. CASE Read(w)
    <3> DEFINE found == UNION {{<<p, ts>> : ts \in Latest(w, p)} : p \in j.point}
    <3>1. /\ j.pc = "read" /\ SameRow(j, k) /\ k.left = j.left /\ k.gated = j.gated
          /\ k.used = j.used \cup found
      BY <2>9, ReadIs
    <3>2. ASSUME NEW u \in values, u.at = j.at, u.out \in j.point PROVE <<u.out, u.at>> \in found
      <4>1. u.at \in hist[u.out]
        BY DEF Grounded, Stored
      <4>2. j.at \in j.at - Window .. j.at
        BY NumbersOf, Limits
      <4>3. u.at \in Latest(w, u.out)
        BY <3>2, <4>1, <4>2 DEF Latest
      <4>4. QED
        BY <3>2, <4>3
    <3> HIDE DEF found
    <3>3. QED
      BY <2>3, <3>1, <3>2 DEF RowFresh, SameRow, Alike, InRow
  <2>10. CASE Run(w)
    <3>1. /\ j.pc = "run" /\ SameRow(j, k) /\ k.used = j.used /\ k.left = j.left /\ k.point = j.point
          /\ k.gated = j.gated
      BY <2>10, RunIs
    <3>2. QED
      BY <2>3, <3>1 DEF RowFresh, SameRow, Alike, InRow
  <2>11. CASE RecordFailure(w) \/ DisableTarget(w) \/ Attach(w) \/ Derive(w)
              \/ RaiseFirst(w) \/ RaiseReading(w) \/ Raise(w)
    <3>1. k.pc \notin InRow
      <4>1. CASE RecordFailure(w) \/ DisableTarget(w)
        BY <4>1, RecordFailureIs, DisableTargetIs DEF Done, NextOne, NextRow, InRow
      <4>2. CASE Attach(w) \/ Derive(w)
        BY <4>2, AttachIs, DeriveIs DEF Done, NextOne, NextRow, InRow
      <4>3. CASE RaiseFirst(w) \/ RaiseReading(w) \/ Raise(w)
        BY <4>3, RaiseFirstIs, RaiseReadingIs, RaiseIs DEF Ended, NextOne, InRow
      <4>4. QED
        BY <2>11, <4>1, <4>2, <4>3
    <3>2. QED
      BY <2>4, <3>1
  <2>12. CASE RecordSuccess(w)
    <3>1. CASE Done(j, k)
      BY <2>4, <3>1 DEF Done, NextOne, NextRow, InRow
    <3>2. CASE ~Done(j, k)
      <4>1. /\ j.pc = "success" /\ SameRow(j, k) /\ k.used = j.used /\ k.left = j.left /\ k.point = j.point
            /\ k.gated = j.gated
        BY <2>12, <3>2, RecordSuccessIs
      <4>2. QED
        BY <2>3, <4>1 DEF RowFresh, SameRow, Alike, InRow
    <3>3. QED
      BY <3>1, <3>2
  <2>13. QED
    BY <1>2, <2>5, <2>6, <2>7, <2>8, <2>9, <2>10, <2>11, <2>12 DEF Work
<1>3. QED
  BY <1>1, <1>2

LEMMA NextFresh == Typed /\ Scheduled /\ Grounded /\ InOrder /\ Fresh /\ [Next]_vars => Fresh'
<1> SUFFICES ASSUME Typed, Scheduled, Grounded, InOrder, Fresh, [Next]_vars PROVE Fresh'
  OBVIOUS
<1> USE DEF Typed, Shape
<1>1. ASSUME NEW w \in Worker, Others(w), job'[w].pc \notin InRow, UNCHANGED values PROVE Fresh'
  BY <1>1 DEF Fresh, RowFresh, Others
<1>2. CASE StartTick
  BY <1>1, <1>2, StartTickIs, Limits DEF StartTick, InRow, tables
<1>3. CASE FinishTick
  <2>1. "sweep" \in Worker /\ Others("sweep") /\ job'["sweep"] = Idle
    BY <1>3, FinishTickIs, Limits
  <2>2. job'["sweep"].pc \notin InRow
    BY <2>1 DEF Idle, InRow
  <2>3. UNCHANGED values
    BY <1>3 DEF FinishTick, tables
  <2>4. QED
    BY <1>1, <2>1, <2>2, <2>3
<1>4. ASSUME NEW p \in Source, StartMessage(p) PROVE Fresh'
  BY <1>1, <1>4, StartMessageIs, Limits DEF StartMessage, InRow, tables
<1>5. ASSUME NEW w \in Worker, Work(w) PROVE Fresh'
  BY <1>5, WorkFresh
<1>6. CASE Crash
  <2>1. \A w \in Worker : job'[w].pc = "idle"
    BY <1>6, CrashIs DEF Idle
  <2>2. QED
    BY <2>1 DEF Fresh, RowFresh, InRow
<1>7. ASSUME NEW p \in Point, FaultCloses(p) PROVE Fresh'
  <2>1. Undisturbed /\ UNCHANGED values
    BY <1>7, FaultClosesIs DEF FaultCloses, engine
  <2>2. ASSUME NEW w \in Worker PROVE RowFresh(job'[w], values)
    <3>1. /\ SameRow(job[w], job'[w]) /\ job'[w].pc = job[w].pc /\ job'[w].left = job[w].left
          /\ job'[w].point = job[w].point /\ job'[w].gated = job[w].gated /\ job'[w].used = job[w].used
      BY <2>1 DEF Undisturbed
    <3>2. RowFresh(job[w], values)
      BY DEF Fresh
    <3>3. QED
      BY <3>1, <3>2 DEF RowFresh, SameRow, Alike
  <2>3. QED
    BY <2>1, <2>2 DEF Fresh
<1>8. CASE UNCHANGED <<job, values>>
  BY <1>8 DEF Fresh
<1>9. CASE World
  BY <1>7, <1>8, <1>9 DEF World, Reading, FaultOpens, CreateDerivation, DeleteDerivation, EnableTarget, engine
<1>10. CASE UNCHANGED vars
  BY <1>8, <1>10 DEF vars
<1>11. QED
  BY <1>2, <1>3, <1>4, <1>5, <1>6, <1>9, <1>10 DEF Next

LEMMA NextChainFresh == Typed /\ InOrder /\ Fresh /\ ChainFresh /\ [Next]_vars => ChainFresh'
<1> SUFFICES ASSUME Typed, InOrder, Fresh, ChainFresh, [Next]_vars PROVE ChainFresh'
  OBVIOUS
<1>1. ASSUME NEW w \in Worker, Write(w) PROVE ChainFresh'
  <2> DEFINE j == job[w]
             new == Value(job[w])
             d == Head(job[w].plan)
  <2>1. /\ values' = values \cup {new} /\ j.pc = "write"
        /\ new.out[1] = d /\ new.out = <<d, Head(j.rows)>> /\ new.out[2] = Head(j.rows)
        /\ new.at = j.at /\ new.used = j.used /\ new.gated = j.gated
    BY <1>1, Writes
  <2>2. j.left = {} /\ j.point = {}
    BY <2>1 DEF Typed, Threads, Fit
  <2> HIDE DEF new
  <2>3. SUFFICES ASSUME NEW v \in values', NEW u \in values',
                        u.out \in Inputs[v.out[1]][v.out[2]], u.out[1] \in DependsOn[v.out[1]] \ {v.out[1]},
                        u.at = v.at
                 PROVE  <<u.out, v.at>> \in v.used \/ u.out \in v.gated
    BY DEF ChainFresh
  <2>4. CASE v \in values /\ u \in values
    BY <2>3, <2>4 DEF ChainFresh
  <2>5. CASE v = new /\ u \in values
    <3>1. RowFresh(j, values)
      BY DEF Fresh
    <3>2. u.out \in Inputs[d][Head(j.rows)] /\ u.out[1] \in DependsOn[d] \ {d} /\ u.at = j.at
      BY <2>1, <2>3, <2>5
    <3>3. u.out \in j.gated \/ <<u.out, u.at>> \in j.used
      BY <2>1, <2>2, <2>5, <3>1, <3>2 DEF RowFresh, InRow
    <3>4. QED
      BY <2>1, <2>5, <3>2, <3>3
  <2>6. CASE v = new /\ u = new
    BY <2>3, <2>6
  <2>7. CASE v \in values /\ u = new
    <3>1. d \in DependsOn[v.out[1]] /\ d # v.out[1] /\ v.at = j.at
      BY <2>1, <2>3, <2>7
    <3>2. CASE w = "sweep"
      <4>1. OrderAt(j, values)
        BY <3>2 DEF InOrder
      <4>2. QED
        BY <2>1, <2>7, <3>1, <4>1 DEF OrderAt, Busy
    <3>3. CASE w = "message"
      <4>1. OwnAt(j, values)
        BY <3>3 DEF InOrder
      <4>2. QED
        BY <2>1, <2>7, <3>1, <4>1 DEF OwnAt, Busy
    <3>4. QED
      BY <3>2, <3>3, Limits
  <2>8. QED
    BY <2>1, <2>4, <2>5, <2>6, <2>7
<1>2. CASE UNCHANGED values
  BY <1>2 DEF ChainFresh
<1>3. CASE StartTick \/ FinishTick \/ Crash \/ UNCHANGED vars
  BY <1>2, <1>3 DEF StartTick, FinishTick, Crash, vars, tables
<1>4. ASSUME NEW p \in Source, StartMessage(p) PROVE ChainFresh'
  BY <1>2, <1>4 DEF StartMessage, tables
<1>5. ASSUME NEW w \in Worker, Work(w) PROVE ChainFresh'
  BY <1>1, <1>2, <1>5 DEF Work, PlanDone, Begin, Check, Gate, Read, Run, RecordFailure, DisableTarget,
         RecordSuccess, Attach, Derive, RaiseFirst, RaiseReading, Raise,
                          tables
<1>6. CASE World
  BY <1>2, <1>6 DEF World, Reading, FaultOpens, FaultCloses, CreateDerivation, DeleteDerivation, EnableTarget, engine
<1>7. QED
  BY <1>3, <1>4, <1>5, <1>6 DEF Next

\* Whatever is due together and in whatever order the file has it, and whatever
\* messages, late readings, faults and restarts come between: a value has read what
\* its dependency computed in the same sweep, or the dependency's point is in fault
\* (evaluate_derivations' order, _read_input_series' window).
THEOREM ChainIsFresh == Spec => []ChainFresh
<1>1. Init => InOrder /\ Fresh /\ ChainFresh
  <2> SUFFICES ASSUME Init PROVE InOrder /\ Fresh /\ ChainFresh
    OBVIOUS
  <2>1. values = {} /\ \A w \in Worker : job[w].pc = "idle"
    BY DEF Init, Idle
  <2>2. InOrder
    BY <2>1, Limits DEF InOrder, OrderAt, OwnAt, Apart, Busy
  <2>3. Fresh /\ ChainFresh
    BY <2>1 DEF Fresh, RowFresh, ChainFresh
  <2>4. QED
    BY <2>2, <2>3
<1>2. Init => Grounded
  BY InitGrounded
<1>3. QED
  BY InitTyped, NextTyped, InitScheduled, NextScheduled, <1>2, NextGrounded, <1>1, NextInOrder, NextFresh,
     NextChainFresh, PTL DEF Spec
-----------------------------------------------------------------------------
(* The failures of a target.                                               *)

\* Two threads may be past the test of one target's flag when it is set, and each of
\* them may be about to set it.
Flight == {"gate", "read", "run", "failure"}
IsAt(j, o) == <<Head(j.plan), Head(j.rows)>> = o
Flies(j, o) == IF j.pc \in Flight /\ IsAt(j, o) THEN 1 ELSE 0
Disables(j, o) == IF j.pc = "disable" /\ IsAt(j, o) THEN 1 ELSE 0

Flying(o) == Flies(job["sweep"], o) + Flies(job["message"], o)
Disabling(o) == Disables(job["sweep"], o) + Disables(job["message"], o)

\* A count at the threshold is followed by the disable, unless a statement breaks or
\* the process dies, which costs two threads one disable each; once it is disabled,
\* only who is past the test can still fail.
Bounded(h, a, p, b) ==
  /\ ~h.disabled => h.failures <= Threshold - 1 + p + 2 * b
  /\ h.disabled => h.failures + a <= Threshold + 1 + 2 * b

HealthBound == \A o \in Output : Bounded(health[o], Flying(o), Disabling(o), breaks)

Health == [failures : Nat, disabled : BOOLEAN]

LEMMA StillBounded ==
  ASSUME NEW h \in Health, NEW a \in Nat, NEW p \in Nat, NEW b \in Nat, Bounded(h, a, p, b),
         NEW a1 \in Nat, NEW p1 \in Nat, NEW b1 \in Nat,
         h.disabled => a1 <= a, p + 2 * b <= p1 + 2 * b1, b <= b1
  PROVE  Bounded(h, a1, p1, b1)
<1>1. h.failures \in Nat /\ Threshold \in Nat \ {0}
  BY Limits DEF Health
<1>2. CASE h.disabled
  BY <1>1, <1>2 DEF Bounded
<1>3. CASE ~h.disabled
  BY <1>1, <1>3 DEF Bounded
<1>4. QED
  BY <1>2, <1>3

LEMMA OneMoreFailure ==
  ASSUME NEW h \in Health, NEW a \in Nat, NEW p \in Nat, NEW b \in Nat, Bounded(h, a + 1, p, b),
         NEW k \in Health, k.failures = h.failures + 1, k.disabled = h.disabled,
         NEW p1 \in Nat, p <= p1, h.failures + 1 >= Threshold => p1 = p + 1
  PROVE  Bounded(k, a, p1, b)
<1>1. h.failures \in Nat /\ Threshold \in Nat \ {0}
  BY Limits DEF Health
<1>2. CASE h.disabled
  BY <1>1, <1>2 DEF Bounded
<1>3. CASE ~h.disabled /\ h.failures + 1 >= Threshold
  BY <1>1, <1>3 DEF Bounded
<1>4. CASE ~h.disabled /\ ~(h.failures + 1 >= Threshold)
  BY <1>1, <1>4 DEF Bounded
<1>5. QED
  BY <1>2, <1>3, <1>4

LEMMA DisabledNow ==
  ASSUME NEW h \in Health, NEW a \in Nat, NEW p \in Nat, NEW b \in Nat, Bounded(h, a, p + 1, b), a + p <= 1,
         NEW k \in Health, k.failures = h.failures, k.disabled
  PROVE  Bounded(k, a, p, b)
<1>1. h.failures \in Nat /\ Threshold \in Nat \ {0}
  BY Limits DEF Health
<1>2. CASE h.disabled
  BY <1>1, <1>2 DEF Bounded
<1>3. CASE ~h.disabled
  BY <1>1, <1>3 DEF Bounded
<1>4. QED
  BY <1>2, <1>3

\* A success, and a manual enable, count from nought again.
LEMMA FromNought ==
  ASSUME NEW k \in Health, k.failures = 0, NEW a \in {0, 1, 2}, NEW p \in Nat, NEW b \in Nat
  PROVE  Bounded(k, a, p, b)
BY Limits DEF Bounded

LEMMA HealthIs ==
  ASSUME Typed, NEW o \in Output
  PROVE  health[o] \in Health /\ breaks \in Nat
BY Limits DEF Typed, Shape, Health

\* The counts are one thread's part and the other's.
LEMMA Parts ==
  ASSUME NEW w \in Worker, NEW o
  PROVE  /\ Flying(o) \in {0, 1, 2} /\ Disabling(o) \in {0, 1, 2}
         /\ \E v \in Worker \ {w} :
              /\ Flying(o) = Flies(job[v], o) + Flies(job[w], o)
              /\ Disabling(o) = Disables(job[v], o) + Disables(job[w], o)
              /\ Flying(o)' = Flies(job'[v], o) + Flies(job'[w], o)
              /\ Disabling(o)' = Disables(job'[v], o) + Disables(job'[w], o)
<1>1. \A j : Flies(j, o) \in {0, 1} /\ Disables(j, o) \in {0, 1}
  BY DEF Flies, Disables
<1>2. Flying(o) \in {0, 1, 2} /\ Disabling(o) \in {0, 1, 2}
  BY <1>1 DEF Flying, Disabling
<1>3. CASE w = "sweep"
  <2>1. "message" \in Worker \ {w}
    BY <1>3, Limits
  <2> HIDE DEF Flies, Disables
  <2>2. /\ Flying(o) = Flies(job["message"], o) + Flies(job[w], o)
        /\ Disabling(o) = Disables(job["message"], o) + Disables(job[w], o)
    BY <1>1, <1>3 DEF Flying, Disabling
  <2>3. /\ Flying(o)' = Flies(job'["message"], o) + Flies(job'[w], o)
        /\ Disabling(o)' = Disables(job'["message"], o) + Disables(job'[w], o)
    BY <1>1, <1>3 DEF Flying, Disabling
  <2>4. QED
    BY <1>2, <2>1, <2>2, <2>3
<1>4. CASE w = "message"
  <2>1. "sweep" \in Worker \ {w}
    BY <1>4, Limits
  <2>2. QED
    BY <1>2, <1>4, <2>1 DEF Flying, Disabling
<1>5. QED
  BY <1>3, <1>4, Limits

\* A step of one thread that leaves the health alone: it is not one that disables, or
\* it breaks; and it comes into flight only to a target that is not disabled.
LEMMA StepBound ==
  ASSUME Typed, HealthBound, NEW w \in Worker, \A v \in Worker : v # w => job'[v] = job[v],
         UNCHANGED health, breaks' \in Nat, breaks <= breaks',
         job[w].pc # "disable" \/ breaks < breaks',
         \A o \in Output : health[o].disabled => Flies(job'[w], o) <= Flies(job[w], o)
  PROVE  HealthBound'
<1> SUFFICES ASSUME NEW o \in Output PROVE Bounded(health[o], Flying(o)', Disabling(o)', breaks')
  BY DEF HealthBound
<1>1. health[o] \in Health /\ breaks \in Nat /\ Bounded(health[o], Flying(o), Disabling(o), breaks)
  BY HealthIs DEF HealthBound
<1>2. PICK v \in Worker \ {w} :
        /\ Flying(o) = Flies(job[v], o) + Flies(job[w], o)
        /\ Disabling(o) = Disables(job[v], o) + Disables(job[w], o)
        /\ Flying(o)' = Flies(job'[v], o) + Flies(job'[w], o)
        /\ Disabling(o)' = Disables(job'[v], o) + Disables(job'[w], o)
  BY Parts
<1>3. job'[v] = job[v]
  BY <1>2
<1> DEFINE f == Flies(job[v], o)
           g == Flies(job[w], o)
           h == Flies(job'[w], o)
           d == Disables(job[v], o)
           e == Disables(job[w], o)
           i == Disables(job'[w], o)
<1>4. {f, g, h, d, e, i} \subseteq {0, 1} /\ (job[w].pc # "disable" => e = 0)
  BY DEF Flies, Disables
<1>5. health[o].disabled => h <= g
  OBVIOUS
<1>6. /\ Flying(o) = f + g /\ Flying(o)' = f + h
      /\ Disabling(o) = d + e /\ Disabling(o)' = d + i
  BY <1>2, <1>3
<1> HIDE DEF f, g, h, d, e, i
<1>7. d + e + 2 * breaks <= d + i + 2 * breaks'
  <2>1. CASE job[w].pc # "disable"
    BY <1>1, <1>4, <2>1
  <2>2. CASE breaks < breaks'
    BY <1>1, <1>4, <2>2
  <2>3. QED
    BY <2>1, <2>2
<1>8. f + g \in Nat /\ f + h \in Nat /\ d + e \in Nat /\ d + i \in Nat /\ (health[o].disabled => f + h <= f + g)
  BY <1>4, <1>5
<1>9. Bounded(health[o], f + h, d + i, breaks')
  BY <1>1, <1>6, <1>7, <1>8, StillBounded
<1>10. QED
  BY <1>6, <1>9

\* A step of one thread that changes the health of its target, or of none.
LEMMA OwnBound ==
  ASSUME Typed, HealthBound, NEW w \in Worker, \A v \in Worker : v # w => job'[v] = job[v],
         UNCHANGED breaks, NEW own \in Output, IsAt(job[w], own),
         SameRow(job[w], job'[w]) \/ job'[w].pc \notin Flight \cup {"disable"},
         job'[w].pc \notin Flight,
         \A o \in Output : o # own => health'[o] = health[o],
         Bounded(health'[own], Flying(own)', Disabling(own)', breaks)
  PROVE  HealthBound'
<1> SUFFICES ASSUME NEW o \in Output, o # own PROVE Bounded(health[o], Flying(o)', Disabling(o)', breaks)
  BY DEF HealthBound
<1>1. health[o] \in Health /\ breaks \in Nat /\ Bounded(health[o], Flying(o), Disabling(o), breaks)
  BY HealthIs DEF HealthBound
<1>2. PICK v \in Worker \ {w} :
        /\ Flying(o) = Flies(job[v], o) + Flies(job[w], o)
        /\ Disabling(o) = Disables(job[v], o) + Disables(job[w], o)
        /\ Flying(o)' = Flies(job'[v], o) + Flies(job'[w], o)
        /\ Disabling(o)' = Disables(job'[v], o) + Disables(job'[w], o)
  BY Parts
<1>3. job'[v] = job[v]
  BY <1>2
<1>4. Flies(job[w], o) = 0 /\ Disables(job[w], o) = 0 /\ Flies(job'[w], o) = 0 /\ Disables(job'[w], o) = 0
  BY DEF Flies, Disables, IsAt, SameRow
<1>5. Flying(o)' = Flying(o) /\ Disabling(o)' = Disabling(o)
  BY <1>2, <1>3, <1>4
<1>6. QED
  BY <1>1, <1>5

LEMMA WorkBound ==
  ASSUME Typed, HealthBound, NEW w \in Worker, Work(w)
  PROVE  HealthBound'
<1> USE DEF Typed, Shape
<1> DEFINE j == job[w]
           k == job'[w]
<1>1. \A v \in Worker : v # w => job'[v] = job[v]
  BY WorkOthers DEF Others
<1>2. breaks \in Nat /\ breaks + 1 \in Nat /\ breaks <= breaks + 1 /\ breaks <= breaks /\ breaks < breaks + 1
  BY Limits
<1>3. ASSUME UNCHANGED <<health, breaks>>, j.pc # "disable",
             k.pc \notin Flight \/ (SameRow(j, k) /\ j.pc \in Flight)
      PROVE  HealthBound'
  <2>1. \A o \in Output : Flies(k, o) <= Flies(j, o)
    BY <1>3 DEF Flies, IsAt, SameRow
  <2>2. QED
    BY <1>1, <1>2, <1>3, <2>1, StepBound
<1>4. ASSUME UNCHANGED health, breaks' = breaks + 1,
             k.pc \notin Flight \/ (SameRow(j, k) /\ j.pc \in Flight)
      PROVE  HealthBound'
  <2>1. \A o \in Output : Flies(k, o) <= Flies(j, o)
    BY <1>4 DEF Flies, IsAt, SameRow
  <2>2. QED
    BY <1>1, <1>2, <1>4, <2>1, StepBound
<1>5. CASE PlanDone(w)
  <2>1. k.pc \notin Flight /\ j.pc # "disable"
    BY <1>5, PlanDoneIs DEF Flight, Idle
  <2>2. UNCHANGED <<health, breaks>>
    BY <1>5 DEF PlanDone, tables
  <2>3. QED
    BY <1>3, <2>1, <2>2
<1>6. CASE Begin(w)
  <2>1. k.pc \notin Flight /\ j.pc # "disable"
    BY <1>6, BeginIs DEF Flight
  <2>2. UNCHANGED <<health, breaks>>
    BY <1>6 DEF Begin, tables
  <2>3. QED
    BY <1>3, <2>1, <2>2
<1>7. CASE Check(w)
  <2>1. UNCHANGED <<health, breaks>> /\ j.pc = "check"
    BY <1>7 DEF Check, tables
  <2>2. CASE Done(j, k)
    BY <1>3, <2>1, <2>2 DEF Done, NextOne, NextRow, Flight
  <2>3. CASE ~Done(j, k)
    <3>1. ~health[Out(w)].disabled /\ SameRow(j, k)
      BY <1>7, <2>3, CheckIs
    <3>2. ASSUME NEW o \in Output, health[o].disabled PROVE Flies(k, o) <= Flies(j, o)
      <4>1. o # <<Head(j.plan), Head(j.rows)>>
        BY <3>1, <3>2 DEF Out, D, T
      <4>2. QED
        BY <3>1, <4>1 DEF Flies, IsAt, SameRow
    <3>3. QED
      BY <1>1, <1>2, <2>1, <3>2, StepBound
  <2>4. QED
    BY <2>2, <2>3
<1>8. CASE Gate(w) \/ Read(w) \/ Run(w)
  <2>1. UNCHANGED <<health, breaks>>
    BY <1>8 DEF Gate, Read, Run, tables
  <2>2. SameRow(j, k) /\ j.pc \in Flight /\ j.pc # "disable"
    BY <1>8, GateIs, ReadIs, RunIs DEF Flight
  <2>3. QED
    BY <1>3, <2>1, <2>2
<1>9. CASE Write(w) \/ Attach(w) \/ Derive(w)
  <2>1. UNCHANGED <<health, breaks>>
    BY <1>9 DEF Write, Attach, Derive
  <2>2. k.pc \notin Flight /\ j.pc # "disable"
    BY <1>9, WriteIs, AttachIs, DeriveIs DEF Flight, Done, NextOne, NextRow
  <2>3. QED
    BY <1>3, <2>1, <2>2
<1>10. CASE RaiseFirst(w) \/ RaiseReading(w) \/ Raise(w)
  <2>1. UNCHANGED health /\ breaks' = breaks + 1
    BY <1>10 DEF RaiseFirst, RaiseReading, Raise, Break, tables
  <2>2. k.pc \notin Flight \/ (SameRow(j, k) /\ j.pc \in Flight)
    BY <1>10, RaiseFirstIs, RaiseReadingIs, RaiseIs DEF Ended, NextOne, Flight
  <2>3. QED
    BY <1>4, <2>1, <2>2
<1>11. CASE RecordFailure(w)
  <2>0. PICK o \in Output : o = Out(w)
    BY <1>11, RecordFailureIs, AtRow DEF Busy
  <2>1. /\ j.pc = "failure"
        /\ \/ ~(health[o].failures + 1 >= Threshold) /\ Done(j, k)
           \/ health[o].failures + 1 >= Threshold /\ SameRow(j, k) /\ k.pc = "disable"
    BY <1>11, <2>0, RecordFailureIs
  <2>2. IsAt(j, o)
    BY <2>0 DEF IsAt, Out, D, T
  <2>3. health' = [health EXCEPT ![o].failures = @ + 1] /\ UNCHANGED breaks
    BY <1>11, <2>0 DEF RecordFailure
  <2>4. /\ health'[o].failures = health[o].failures + 1 /\ health'[o].disabled = health[o].disabled
        /\ \A q \in Output : q # o => health'[q] = health[q]
        /\ health[o] \in Health /\ health'[o] \in Health
    BY <2>1, <2>3 DEF Health
  <2>5. Bounded(health[o], Flying(o), Disabling(o), breaks)
    BY <2>1 DEF HealthBound
  <2>6. PICK v \in Worker \ {w} :
          /\ Flying(o) = Flies(job[v], o) + Flies(job[w], o)
          /\ Disabling(o) = Disables(job[v], o) + Disables(job[w], o)
          /\ Flying(o)' = Flies(job'[v], o) + Flies(job'[w], o)
          /\ Disabling(o)' = Disables(job'[v], o) + Disables(job'[w], o)
    BY Parts
  <2>7. job'[v] = job[v]
    BY <1>1, <2>6
  <2> DEFINE f == Flies(job[v], o)
             d == Disables(job[v], o)
             i == Disables(job'[w], o)
             over == health[o].failures + 1 >= Threshold
  <2>8. f \in {0, 1} /\ d \in {0, 1} /\ i \in {0, 1} /\ Flies(j, o) = 1 /\ Disables(j, o) = 0
    BY <2>1, <2>2 DEF Flies, Disables, Flight
  <2>9. Flies(k, o) = 0 /\ (over => i = 1)
    BY <2>1, <2>2 DEF Flies, Disables, Flight, IsAt, SameRow, Done, NextOne, NextRow
  <2>10. k.pc \notin Flight /\ (SameRow(j, k) \/ k.pc \notin Flight \cup {"disable"})
    BY <2>1 DEF Flight, Done, NextOne, NextRow
  <2>11. /\ Flying(o) = f + 1 /\ Disabling(o) = d /\ Flying(o)' = f /\ Disabling(o)' = d + i
    BY <2>6, <2>7, <2>8, <2>9
  <2> HIDE DEF f, d, i
  <2>12. f \in Nat /\ d \in Nat /\ d + i \in Nat /\ d <= d + i /\ (over => d + i = d + 1)
    BY <2>8, <2>9
  <2>13. Bounded(health'[o], f, d + i, breaks)
    BY <1>2, <2>4, <2>5, <2>11, <2>12, OneMoreFailure
  <2>14. Bounded(health'[o], Flying(o)', Disabling(o)', breaks)
    BY <2>11, <2>13
  <2>15. QED
    BY <1>1, <2>2, <2>3, <2>4, <2>10, <2>14, OwnBound
<1>12. CASE DisableTarget(w)
  <2>0. PICK o \in Output : o = Out(w)
    BY <1>12, DisableTargetIs, AtRow DEF Busy
  <2>1. j.pc = "disable" /\ Done(j, k)
    BY <1>12, DisableTargetIs
  <2>2. IsAt(j, o)
    BY <2>0 DEF IsAt, Out, D, T
  <2>3. health' = [health EXCEPT ![o].disabled = TRUE] /\ UNCHANGED breaks
    BY <1>12, <2>0 DEF DisableTarget
  <2>4. /\ health'[o].failures = health[o].failures /\ health'[o].disabled = TRUE
        /\ \A q \in Output : q # o => health'[q] = health[q]
        /\ health[o] \in Health /\ health'[o] \in Health
    BY <2>1, <2>3 DEF Health
  <2>5. Bounded(health[o], Flying(o), Disabling(o), breaks)
    BY <2>1 DEF HealthBound
  <2>6. PICK v \in Worker \ {w} :
          /\ Flying(o) = Flies(job[v], o) + Flies(job[w], o)
          /\ Disabling(o) = Disables(job[v], o) + Disables(job[w], o)
          /\ Flying(o)' = Flies(job'[v], o) + Flies(job'[w], o)
          /\ Disabling(o)' = Disables(job'[v], o) + Disables(job'[w], o)
    BY Parts
  <2>7. job'[v] = job[v]
    BY <1>1, <2>6
  <2> DEFINE f == Flies(job[v], o)
             d == Disables(job[v], o)
  <2>8. f \in {0, 1} /\ d \in {0, 1} /\ f + d <= 1 /\ Flies(j, o) = 0 /\ Disables(j, o) = 1
    BY <2>1, <2>2 DEF Flies, Disables, Flight
  <2>9. Flies(k, o) = 0 /\ Disables(k, o) = 0 /\ k.pc \notin Flight \cup {"disable"}
    BY <2>1 DEF Flies, Disables, Flight, Done, NextOne, NextRow
  <2>10. /\ Flying(o) = f /\ Disabling(o) = d + 1 /\ Flying(o)' = f /\ Disabling(o)' = d
    BY <2>6, <2>7, <2>8, <2>9
  <2> HIDE DEF f, d
  <2>11. Bounded(health'[o], f, d, breaks)
    <3>1. f \in Nat /\ d \in Nat
      BY <2>8
    <3>2. QED
      BY <1>2, <2>4, <2>5, <2>8, <2>10, <3>1, DisabledNow
  <2>12. Bounded(health'[o], Flying(o)', Disabling(o)', breaks)
    BY <2>10, <2>11
  <2>13. QED
    BY <1>1, <2>2, <2>3, <2>4, <2>9, <2>12, OwnBound
<1>13. CASE RecordSuccess(w)
  <2>0. PICK o \in Output : o = Out(w)
    BY <1>13, RecordSuccessIs, AtRow DEF Busy
  <2>1. j.pc = "success" /\ (Done(j, k) \/ (SameRow(j, k) /\ k.pc = "write"))
    BY <1>13, RecordSuccessIs
  <2>2. IsAt(j, o)
    BY <2>0 DEF IsAt, Out, D, T
  <2>3. health' = [health EXCEPT ![o].failures = 0] /\ UNCHANGED breaks
    BY <1>13, <2>0 DEF RecordSuccess
  <2>4. /\ health'[o].failures = 0
        /\ \A q \in Output : q # o => health'[q] = health[q]
        /\ health'[o] \in Health
    BY <2>1, <2>3 DEF Health
  <2>5. k.pc \notin Flight \cup {"disable"}
    BY <2>1 DEF Flight, Done, NextOne, NextRow
  <2>6. Flying(o)' \in {0, 1, 2} /\ Disabling(o)' \in Nat
    BY DEF Flying, Flies, Disabling, Disables
  <2>7. Bounded(health'[o], Flying(o)', Disabling(o)', breaks)
    BY <1>2, <2>4, <2>6, FromNought
  <2>8. QED
    BY <1>1, <2>2, <2>3, <2>4, <2>5, <2>7, OwnBound
<1>14. QED
  BY <1>5, <1>6, <1>7, <1>8, <1>9, <1>10, <1>11, <1>12, <1>13 DEF Work

LEMMA NextBound == Typed /\ HealthBound /\ [Next]_vars => HealthBound'
<1> SUFFICES ASSUME Typed, HealthBound, [Next]_vars PROVE HealthBound'
  OBVIOUS
<1> USE DEF Typed, Shape
<1>1. ASSUME UNCHANGED <<health, breaks>>, NEW w \in Worker, Others(w), job[w].pc # "disable", job'[w].pc \notin Flight
      PROVE  HealthBound'
  <2>1. \A v \in Worker : v # w => job'[v] = job[v]
    BY <1>1 DEF Others
  <2>2. \A o \in Output : Flies(job'[w], o) <= Flies(job[w], o)
    BY <1>1 DEF Flies
  <2>3. breaks' \in Nat /\ breaks <= breaks'
    BY <1>1, Limits
  <2>4. QED
    BY <1>1, <2>1, <2>2, <2>3, StepBound
<1>2. CASE StartTick
  BY <1>1, <1>2, StartTickIs, Limits DEF StartTick, tables, Flight
<1>3. CASE FinishTick
  BY <1>1, <1>3, FinishTickIs, Limits DEF FinishTick, tables, Flight, Idle
<1>4. ASSUME NEW p \in Source, StartMessage(p) PROVE HealthBound'
  BY <1>1, <1>4, StartMessageIs, Limits DEF StartMessage, tables, Flight
<1>5. ASSUME NEW w \in Worker, Work(w) PROVE HealthBound'
  BY <1>5, WorkBound
<1>6. CASE Crash
  <2>1. UNCHANGED health /\ breaks' = breaks + 1 /\ \A w \in Worker : job'[w].pc = "idle"
    BY <1>6, CrashIs DEF Crash, tables, Idle
  <2>2. ASSUME NEW o \in Output PROVE Bounded(health'[o], Flying(o)', Disabling(o)', breaks')
    <3>1. Flying(o)' = 0 /\ Disabling(o)' = 0
      <4>1. job'["sweep"].pc = "idle" /\ job'["message"].pc = "idle"
        BY <2>1, Limits
      <4>2. QED
        BY <4>1 DEF Flying, Disabling, Flies, Disables, Flight
    <3>2. health[o] \in Health /\ breaks \in Nat /\ Bounded(health[o], Flying(o), Disabling(o), breaks)
      BY HealthIs DEF HealthBound
    <3>3. Flying(o) \in {0, 1, 2} /\ Disabling(o) \in {0, 1, 2}
      BY Parts, Limits
    <3> DEFINE f == Flying(o)
               d == Disabling(o)
    <3> HIDE DEF f, d
    <3>4. f \in Nat /\ d \in Nat /\ 0 <= f /\ d + 2 * breaks <= 0 + 2 * (breaks + 1) /\ breaks <= breaks + 1
          /\ breaks + 1 \in Nat /\ 0 \in Nat
      BY <3>2, <3>3 DEF f, d
    <3>5. Bounded(health[o], 0, 0, breaks + 1)
      BY <3>2, <3>4, StillBounded DEF f, d
    <3>6. QED
      BY <2>1, <3>1, <3>5
  <2>3. QED
    BY <2>2 DEF HealthBound
<1>7. ASSUME NEW p \in Point, FaultCloses(p) PROVE HealthBound'
  <2>1. UNCHANGED <<health, breaks>> /\ \A w \in Worker : SameRow(job[w], job'[w]) /\ job'[w].pc = job[w].pc
    BY <1>7, FaultClosesIs DEF FaultCloses, Undisturbed, engine
  <2>2. \A w \in Worker, o \in Output : Flies(job'[w], o) = Flies(job[w], o) /\ Disables(job'[w], o) = Disables(job[w], o)
    BY <2>1 DEF Flies, Disables, IsAt, SameRow
  <2>3. \A o \in Output : Flying(o)' = Flying(o) /\ Disabling(o)' = Disabling(o)
    BY <2>2, Limits DEF Flying, Disabling
  <2>4. QED
    BY <2>1, <2>3 DEF HealthBound
<1>8. ASSUME NEW o \in Output, EnableTarget(o) PROVE HealthBound'
  <2>1. health' = [health EXCEPT ![o] = Healthy] /\ UNCHANGED <<job, breaks>>
    BY <1>8 DEF EnableTarget, engine
  <2>2. \A q \in Output : Flying(q)' = Flying(q) /\ Disabling(q)' = Disabling(q)
    BY <2>1 DEF Flying, Disabling
  <2>3. ASSUME NEW q \in Output PROVE Bounded(health'[q], Flying(q)', Disabling(q)', breaks)
    <3>1. CASE q = o
      <4>1. health'[q] \in Health /\ health'[q].failures = 0
        BY <2>1, <3>1 DEF Healthy, Health
      <4>2. Flying(q)' \in {0, 1, 2} /\ Disabling(q)' \in Nat /\ breaks \in Nat
        BY Limits DEF Flying, Flies, Disabling, Disables
      <4>3. QED
        BY <4>1, <4>2, FromNought
    <3>2. CASE q # o
      BY <2>1, <2>2, <3>2 DEF HealthBound
    <3>3. QED
      BY <3>1, <3>2
  <2>4. QED
    BY <2>1, <2>3 DEF HealthBound
<1>9. CASE UNCHANGED <<job, health, breaks>>
  BY <1>9 DEF HealthBound, Flying, Disabling
<1>10. CASE World
  BY <1>7, <1>8, <1>9, <1>10 DEF World, Reading, FaultOpens, CreateDerivation, DeleteDerivation, engine
<1>11. CASE UNCHANGED vars
  BY <1>9, <1>11 DEF vars
<1>12. QED
  BY <1>2, <1>3, <1>4, <1>5, <1>6, <1>10, <1>11 DEF Next

\* Every variable keeps its type.
THEOREM TypeCorrect == Spec => []TypeOK
<1>1. Typed => TypeOK
  BY DEF Typed, Shape, Threads, TypeOK
<1>2. QED
  BY AlwaysTyped, <1>1, PTL

\* record_target_failure counts in one statement and disables in a second one: though
\* two threads fail a target at once, statements break and the process dies between
\* the two, its failures pass the threshold by one at most, and by two more for each
\* break and each death.
THEOREM OverrunIsBounded == Spec => []OverrunBounded
<1>1. Init => HealthBound
  <2> SUFFICES ASSUME Init, NEW o \in Output PROVE Bounded(health[o], Flying(o), Disabling(o), breaks)
    BY DEF HealthBound
  <2>1. health[o] = Healthy /\ breaks = 0
    BY DEF Init
  <2>2. Flying(o) \in {0, 1, 2} /\ Disabling(o) \in Nat
    BY DEF Flying, Flies, Disabling, Disables
  <2>3. Healthy \in Health /\ Healthy.failures = 0
    BY DEF Healthy, Health
  <2>4. QED
    BY <2>1, <2>2, <2>3, FromNought
<1>2. Typed /\ HealthBound => OverrunBounded
  <2> SUFFICES ASSUME Typed, HealthBound, NEW o \in Output PROVE health[o].failures <= Threshold + 1 + 2 * breaks
    BY DEF OverrunBounded
  <2>1. /\ health[o] \in Health /\ breaks \in Nat /\ health[o].failures \in Nat /\ Threshold \in Nat
        /\ Bounded(health[o], Flying(o), Disabling(o), breaks)
    BY HealthIs, Limits DEF HealthBound, Health
  <2>2. Flying(o) \in {0, 1, 2} /\ Disabling(o) \in {0, 1, 2}
    BY Parts, Limits
  <2>3. CASE health[o].disabled
    BY <2>1, <2>2, <2>3 DEF Bounded
  <2>4. CASE ~health[o].disabled
    BY <2>1, <2>2, <2>4 DEF Bounded
  <2>5. QED
    BY <2>3, <2>4
<1>3. QED
  BY InitTyped, NextTyped, NextBound, <1>1, <1>2, PTL DEF Spec
-----------------------------------------------------------------------------
(* The order of a sweep.  _topological_order is DerivationOrder, called with  *)
(* the list that was read from the file; its ResultIsReturned says that what  *)
(* it returns IsResult.                                                       *)

Order == INSTANCE DerivationOrder
  WITH Id <- Deriv, edges <- [d \in file |-> DependsOn[d]], alive <- file, stage <- "done", order <- <<>>

\* q is [d for d in s if d.id in only]: the members of s that are in only, in the
\* order they have there.
Restricts(q, s, only) ==
  \E n \in Nat : \E at \in [1 .. n -> DOMAIN s] :
    /\ q = [i \in 1 .. n |-> s[at[i]]]
    /\ \A i, j \in 1 .. n : i < j => at[i] < at[j]
    /\ {at[i] : i \in 1 .. n} = {k \in DOMAIN s : s[k] \in only}

\* The graph of the dictionary is that of the derivations.
LEMMA SameSurvivors == Order!Survivors = Kept(file)
<1>1. Order!Node = file
  BY DEF Order!Node
<1>2. ASSUME NEW K \in SUBSET file
      PROVE  Order!Sound(K) <=> /\ \A d \in K : DependsOn[d] \subseteq K
                               /\ \A C \in SUBSET K : C # {} => \E d \in C : DependsOn[d] \cap C = {}
  <2>1. \A d \in K : [x \in file |-> DependsOn[x]][d] = DependsOn[d]
    OBVIOUS
  <2>2. Order!Acyclic(K) <=> \A C \in SUBSET K : C # {} => \E d \in C : DependsOn[d] \cap C = {}
    BY <2>1 DEF Order!Acyclic
  <2>3. QED
    BY <2>1, <2>2 DEF Order!Sound
<1>3. QED
  BY <1>1, <1>2 DEF Order!Survivors, Kept

\* Whatever order the sort returns, what the sweep evaluates is one of its plans: the
\* invariants of the sweep hold for every order graphlib may choose.
THEOREM PlanIsReturned ==
  ASSUME file \subseteq Deriv, NEW s, Order!IsResult(s), NEW due, NEW plan, Restricts(plan, s, due)
  PROVE  plan \in Plan(file, due)
<1> DEFINE K == Kept(file)
           A == Kept(file) \cap due
<1>1. IsFiniteSet(K) /\ K \subseteq file
  <2>1. K \subseteq file
    BY DEF Kept
  <2>2. QED
    BY <2>1, KindAssumption, FS_Subset DEF Deriv
<1>2. Order!Sorted(s)
  BY DEF Order!IsResult
<1>3. PICK m \in Nat : s \in Bijection(1 .. m, K)
  BY SameSurvivors DEF Order!IsResult, Order!Bijection, Order!Injection, Order!Surjection,
     Order!IsInjective, Bijection, Injection, Surjection, IsInjective
<1> HIDE DEF K
<1>4. s \in [1 .. m -> K] /\ \A i, j \in 1 .. m : i # j => s[i] # s[j]
  BY <1>3 DEF Bijection, Injection, IsInjective
<1>5. \A k \in K : \E i \in 1 .. m : s[i] = k
  BY <1>3 DEF Bijection, Surjection
<1>6. DOMAIN s = 1 .. m
  BY <1>4
<1>7. PICK n \in Nat : \E at \in [1 .. n -> DOMAIN s] :
        /\ plan = [i \in 1 .. n |-> s[at[i]]]
        /\ \A i, j \in 1 .. n : i < j => at[i] < at[j]
        /\ {at[i] : i \in 1 .. n} = {k \in DOMAIN s : s[k] \in due}
  BY DEF Restricts
<1>8. PICK at \in [1 .. n -> DOMAIN s] :
        /\ plan = [i \in 1 .. n |-> s[at[i]]]
        /\ \A i, j \in 1 .. n : i < j => at[i] < at[j]
        /\ {at[i] : i \in 1 .. n} = {k \in DOMAIN s : s[k] \in due}
  BY <1>7
<1>p. /\ at \in [1 .. n -> 1 .. m]
      /\ \A k \in 1 .. m : s[k] \in due <=> \E i \in 1 .. n : at[i] = k
  BY <1>6, <1>8
<1>9. plan \in [1 .. n -> A] /\ DOMAIN plan = 1 .. n
  <2>1. \A i \in 1 .. n : at[i] \in 1 .. m /\ s[at[i]] \in due
    BY <1>p
  <2>2. \A i \in 1 .. n : s[at[i]] \in K \cap due
    BY <1>4, <2>1
  <2>3. plan \in [1 .. n -> K \cap due]
    BY <1>8, <2>2
  <2>4. QED
    BY <2>3 DEF K
<1>10. ASSUME NEW i \in 1 .. n, NEW j \in 1 .. n, i # j PROVE plan[i] # plan[j]
  <2>1. i < j \/ j < i
    BY <1>7, <1>10
  <2>2. at[i] # at[j] /\ at[i] \in 1 .. m /\ at[j] \in 1 .. m
    BY <1>8, <1>p, <1>p, <2>1
  <2>3. s[at[i]] # s[at[j]]
    BY <1>4, <2>2
  <2>4. QED
    BY <1>8, <2>3
<1>11. ASSUME NEW a \in A PROVE \E i \in 1 .. n : plan[i] = a
  <2>1. a \in K /\ a \in due
    BY DEF K
  <2>2. PICK k \in 1 .. m : s[k] = a
    BY <1>5, <2>1
  <2>3. PICK i \in 1 .. n : at[i] = k
    BY <1>p, <2>1, <2>2
  <2>4. QED
    BY <1>8, <2>2, <2>3
<1> HIDE DEF A
<1>12. plan \in Bijection(1 .. n, A)
  <2>1. plan \in Injection(1 .. n, A)
    BY <1>9, <1>10 DEF Injection, IsInjective
  <2>2. plan \in Surjection(1 .. n, A)
    BY <1>9, <1>11 DEF Surjection
  <2>3. QED
    BY <2>1, <2>2 DEF Bijection
<1>13. Cardinality(A) = n
  <2>1. IsFiniteSet(1 .. n) /\ Cardinality(1 .. n) = n
    BY FS_Interval
  <2>2. ExistsBijection(1 .. n, A)
    BY <1>12 DEF ExistsBijection
  <2>3. QED
    BY <2>1, <2>2, FS_Bijection
<1>14. plan \in SetToSeqs(A)
  <2>1. plan \in [1 .. Cardinality(A) -> A]
    BY <1>9, <1>13
  <2>2. \A i, j \in 1 .. Cardinality(A) : i # j => plan[i] # plan[j]
    BY <1>10, <1>13
  <2>3. QED
    BY <2>1, <2>2 DEF SetToSeqs
<1>15. Ordered(plan)
  <2> SUFFICES ASSUME NEW i \in 1 .. n, NEW j \in 1 .. n, plan[j] \in DependsOn[plan[i]]
               PROVE  j < i
    BY <1>9 DEF Ordered
  <2>1. /\ plan[i] = s[at[i]] /\ plan[j] = s[at[j]]
        /\ at[i] \in 1 .. m /\ at[j] \in 1 .. m
    BY <1>8, <1>p
  <2>2. s[at[i]] \in file
    BY <1>1, <1>4, <2>1
  <2>3. [d \in file |-> DependsOn[d]][s[at[i]]] \subseteq {s[k] : k \in 1 .. at[i] - 1}
    BY <1>2, <1>6, <2>1 DEF Order!Sorted
  <2>4. PICK k \in 1 .. at[i] - 1 : s[k] = s[at[j]]
    BY <2>1, <2>2, <2>3
  <2>5. k = at[j]
    BY <1>4, <2>1, <2>4
  <2>6. at[j] < at[i]
    BY <2>1, <2>4, <2>5
  <2>7. ~(i < j) /\ i # j
    BY <1>8, <2>1, <2>6
  <2>8. QED
    BY <2>7
<1>16. QED
  BY <1>14, <1>15 DEF A, Plan
=============================================================================
