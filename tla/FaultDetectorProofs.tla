------------------------ MODULE FaultDetectorProofs ------------------------
(***************************************************************************)
(* Proofs about FaultDetector, for any number of rules, points, webhooks   *)
(* and readings and any bounds: the shape of the state, and that the       *)
(* episodes of a rule on a point never overlap and are each announced once *)
(* and truthfully, whatever the interleaving, the crashes and the losses.  *)
(***************************************************************************)
EXTENDS FaultDetector, SequenceTheorems, TLAPS

(* Facts about the three SQL statements, used by every step that runs one. *)

\* INSERT adds one open row at the end and leaves the others alone.
LEMMA OpenFaultEffect ==
  ASSUME faults \in Seq(Row), NEW r \in Rule, NEW p \in Point, NEW t \in Nat,
         OpenFault(r, p, t)
  PROVE  /\ faults' \in Seq(Row)
         /\ Len(faults') = Len(faults) + 1
         /\ DOMAIN faults = 1 .. Len(faults) /\ DOMAIN faults' = 1 .. Len(faults) + 1
         /\ Len(faults) \in Nat
         /\ \A i \in DOMAIN faults : faults'[i] = faults[i]
         /\ faults'[Len(faults) + 1] =
              [rule |-> r, point |-> p, started |-> t, ended |-> Open, marks |-> {}]
         /\ \A i \in DOMAIN faults :
              faults[i].rule = r /\ faults[i].point = p => faults[i].ended # Open
<1> DEFINE new == [rule |-> r, point |-> p, started |-> t, ended |-> Open, marks |-> {}]
<1>1. new \in Row
  BY DEF Row, Mark
<1>2. faults' = Append(faults, new)
  BY DEF OpenFault
<1>3. \A i \in DOMAIN faults : faults[i].rule = r /\ faults[i].point = p => faults[i].ended # Open
  BY DEF OpenFault, OpenRows, IsOpen
<1> HIDE DEF new
<1>4. QED
  <2>1. /\ faults' \in Seq(Row)
        /\ Len(faults') = Len(faults) + 1
        /\ \A i \in 1 .. Len(faults) : faults'[i] = faults[i]
        /\ faults'[Len(faults) + 1] = new
    BY <1>1, <1>2
  <2>2. /\ Len(faults) \in Nat /\ DOMAIN faults = 1 .. Len(faults)
        /\ DOMAIN faults' = 1 .. Len(faults')
    BY <2>1, LenProperties
  <2>3. QED
    BY <1>3, <2>1, <2>2 DEF new

\* UPDATE ends the rows of the pair that were open, at t, and nothing else.
LEMMA CloseFaultEffect ==
  ASSUME faults \in Seq(Row), NEW r \in Rule, NEW p \in Point, NEW t \in Nat,
         CloseFault(r, p, t)
  PROVE  /\ faults' \in Seq(Row)
         /\ Len(faults') = Len(faults)
         /\ DOMAIN faults' = DOMAIN faults
         /\ \A i \in DOMAIN faults :
              /\ faults'[i].rule = faults[i].rule /\ faults'[i].point = faults[i].point
              /\ faults'[i].started = faults[i].started
              /\ faults'[i].ended = IF IsOpen(i, r, p) THEN t ELSE faults[i].ended
<1>1. PICK n \in Nat : faults \in [1 .. n -> Row]
  BY SeqDef
<1>2. faults' = [i \in 1 .. n |-> IF IsOpen(i, r, p) THEN [faults[i] EXCEPT !.ended = t] ELSE faults[i]]
  BY <1>1 DEF CloseFault
<1>3. \A i \in 1 .. n : [faults[i] EXCEPT !.ended = t] \in Row
  <2> SUFFICES ASSUME NEW i \in 1 .. n PROVE [faults[i] EXCEPT !.ended = t] \in Row
    OBVIOUS
  <2>1. faults[i] \in Row
    BY <1>1
  <2>2. QED
    BY <2>1 DEF Row
<1>4. faults' \in [1 .. n -> Row]
  BY <1>1, <1>2, <1>3
<1>5. faults' \in Seq(Row)
  BY <1>4, SeqDef
<1>6. DOMAIN faults = 1 .. n /\ DOMAIN faults' = 1 .. n /\ Len(faults) = n /\ Len(faults') = n
  BY <1>1, <1>4, <1>5, LenProperties
<1>7. \A i \in 1 .. n :
        /\ faults'[i].rule = faults[i].rule /\ faults'[i].point = faults[i].point
        /\ faults'[i].started = faults[i].started
        /\ faults'[i].ended = IF IsOpen(i, r, p) THEN t ELSE faults[i].ended
  <2> SUFFICES ASSUME NEW i \in 1 .. n
               PROVE  /\ faults'[i].rule = faults[i].rule /\ faults'[i].point = faults[i].point
                      /\ faults'[i].started = faults[i].started
                      /\ faults'[i].ended = IF IsOpen(i, r, p) THEN t ELSE faults[i].ended
    OBVIOUS
  <2>1. faults[i] \in Row
    BY <1>1
  <2>2. faults'[i] = IF IsOpen(i, r, p) THEN [faults[i] EXCEPT !.ended = t] ELSE faults[i]
    BY <1>2
  <2>3. QED
    BY <2>1, <2>2 DEF Row
<1>8. QED
  BY <1>5, <1>6, <1>7

\* The id close_fault returns is that of a row it has just ended.
LEMMA ResolvedRow ==
  ASSUME NEW r, NEW p, OpenRows(r, p) # {}
  PROVE  /\ Resolved(r, p).row \in DOMAIN faults
         /\ IsOpen(Resolved(r, p).row, r, p)
         /\ Resolved(r, p).rule = r /\ Resolved(r, p).event = "resolved"
BY DEF Resolved, OpenRows

\* ack_fault and snooze_fault touch nothing but the marks of one row.
LEMMA AnnotateEffect ==
  ASSUME faults \in Seq(Row), NEW i \in DOMAIN faults, NEW m \in Mark, Annotate(i, m)
  PROVE  /\ faults' \in Seq(Row)
         /\ Len(faults') = Len(faults)
         /\ DOMAIN faults' = DOMAIN faults
         /\ \A j \in DOMAIN faults :
              /\ faults'[j].rule = faults[j].rule /\ faults'[j].point = faults[j].point
              /\ faults'[j].started = faults[j].started /\ faults'[j].ended = faults[j].ended
<1> DEFINE row == [faults[i] EXCEPT !.marks = @ \cup {m}]
<1>1. DOMAIN faults = 1 .. Len(faults) /\ Len(faults) \in Nat
  BY LenProperties
<1>2. faults[i] \in Row
  BY <1>1, ElementOfSeq
<1>3. /\ row \in Row
      /\ row.rule = faults[i].rule /\ row.point = faults[i].point
      /\ row.started = faults[i].started /\ row.ended = faults[i].ended
  BY <1>2 DEF Row
<1>4. faults' = [faults EXCEPT ![i] = row]
  BY DEF Annotate
<1> HIDE DEF row
<1>5. /\ faults' \in Seq(Row) /\ Len(faults') = Len(faults)
      /\ \A j \in 1 .. Len(faults) : faults'[j] = IF j = i THEN row ELSE faults[j]
  BY <1>1, <1>3, <1>4, ExceptSeq
<1>6. DOMAIN faults' = 1 .. Len(faults)
  BY <1>5, LenProperties
<1>7. QED
  BY <1>1, <1>3, <1>5, <1>6
-----------------------------------------------------------------------------
(* Type correctness.  TypeOK needs to know, besides itself, that a thread  *)
(* in the middle of an evaluation knows which rule and point it is about.  *)

CurBusy == cur.pc \in {"eval", "fire"}
HisBusy == his.pc # "idle"

Shape ==
  /\ TypeOK
  /\ CurBusy => cur.point \in Point
  /\ his.pc \in {"points", "write", "fire"} => his.rule \in HisRule
  /\ his.pc = "write" => his.point \in Point

USE RuleAssumption, HookAssumption, NoneAssumption

LEMMA JobTypes ==
  ASSUME TypeOK, NEW r \in Rule
  PROVE  /\ NoJob \in Job
         /\ Opened(r) \in Job
         /\ \A p : OpenRows(r, p) # {} => Resolved(r, p) \in Job
<1>1. Len(faults) \in Nat /\ DOMAIN faults = 1 .. Len(faults)
  BY LenProperties DEF TypeOK
<1>2. NoJob \in Job /\ Opened(r) \in Job
  BY <1>1 DEF NoJob, Job, Event, Opened
<1>3. \A p : OpenRows(r, p) # {} => Resolved(r, p) \in Job
  <2> SUFFICES ASSUME NEW p, OpenRows(r, p) # {} PROVE Resolved(r, p) \in Job
    OBVIOUS
  <2>1. (CHOOSE i \in OpenRows(r, p) : TRUE) \in Nat
    BY <1>1 DEF OpenRows
  <2>2. QED
    BY <2>1 DEF Resolved, Job, Event
<1>4. QED
  BY <1>2, <1>3

LEMMA IdleTypes == CurIdle \in CurThread /\ HisIdle \in HisThread
<1>1. NoJob \in Job
  BY DEF NoJob, Job, Event
<1>2. CurIdle \in CurThread
  BY <1>1 DEF CurIdle, CurThread, CurPc
<1>3. HisIdle \in HisThread
  BY <1>1 DEF HisIdle, HisThread, HisPc
<1>4. QED
  BY <1>2, <1>3

LEMMA NotifyTypes ==
  ASSUME TypeOK, NEW job \in Job, Notify(job)
  PROVE  notices' \in SUBSET (Nat \X Event \X Hook)
BY DEF TypeOK, Notify, Job

\* What a verdict does to the table, to the typing and to the next job.
LEMMA WriteTypes ==
  ASSUME TypeOK, NEW r \in Rule, NEW p \in Point, NEW t \in Nat
  PROVE  /\ OpenFault(r, p, t) => faults' \in Seq(Row) /\ Opened(r) \in Job
         /\ CloseFault(r, p, t) => faults' \in Seq(Row) /\ Resolved(r, p) \in Job
<1>1. faults \in Seq(Row)
  BY DEF TypeOK
<1>2. OpenFault(r, p, t) => faults' \in Seq(Row)
  BY <1>1, OpenFaultEffect
<1>3. CloseFault(r, p, t) => faults' \in Seq(Row) /\ OpenRows(r, p) # {}
  BY <1>1, CloseFaultEffect DEF CloseFault
<1>4. QED
  BY <1>2, <1>3, JobTypes

LEMMA CurShape == ASSUME Shape, CurStep PROVE Shape'
<1>t. cur \in CurThread /\ cur.at \in Nat /\ cur.todo \in SUBSET CurRule /\ cur.job \in Job
  BY DEF Shape, TypeOK, CurThread
<1>j. NoJob \in Job
  BY DEF NoJob, Job, Event
<1>1. CASE CurReceive
  <2>1. Head(inbox) \in Message /\ inbox' \in Seq(Message)
    BY <1>1, HeadTailProperties DEF CurReceive, Shape, TypeOK
  <2>2. now \in Nat /\ Head(inbox).point \in Point /\ Head(inbox).value \in Value
    BY <2>1 DEF Message, Shape, TypeOK
  <2>3. cur' = [pc |-> "eval", at |-> now, point |-> Head(inbox).point,
                value |-> Head(inbox).value,
                todo |-> {r \in rules \cap CurRule : Head(inbox).point \in Applies[r]},
                job |-> NoJob]
    BY <1>1 DEF CurReceive, CurIdle
  <2>4. cur' \in CurThread /\ cur'.point \in Point
    BY <1>j, <2>2, <2>3 DEF CurThread, CurPc
  <2>5. QED
    BY <1>1, <2>1, <2>4 DEF CurReceive, Shape, TypeOK, world, CurBusy
<1>2. ASSUME NEW r \in CurRule, CurEvaluate(r) PROVE Shape'
  <2>1. r \in Rule /\ cur.point \in Point
    BY <1>2 DEF CurEvaluate, Shape, CurBusy
  <2>2. ASSUME NEW q \in {"eval", "fire"}, NEW job \in Job,
               cur' = [cur EXCEPT !.pc = q, !.todo = @ \ {r}, !.job = job]
        PROVE  cur' \in CurThread /\ cur'.point \in Point
    BY <1>t, <2>1, <2>2 DEF CurThread, CurPc
  <2>3. faults' \in Seq(Row) /\ cur' \in CurThread /\ cur'.point \in Point
    BY <1>2, <1>t, <1>j, <2>1, <2>2, WriteTypes DEF CurEvaluate, NoTransition, Shape, TypeOK
  <2>4. QED
    BY <1>2, <2>3 DEF CurEvaluate, Shape, TypeOK, world, CurBusy
<1>3. CASE CurFire
  <2>1. cur' \in CurThread /\ cur'.point \in Point
    BY <1>3, <1>t, <1>j DEF CurFire, CurThread, CurPc, Shape, CurBusy
  <2>2. QED
    BY <1>3, <1>t, <2>1, NotifyTypes DEF CurFire, Shape, TypeOK, world, CurBusy
<1>4. CASE CurDone
  BY <1>4, IdleTypes DEF CurDone, Shape, TypeOK, world, CurBusy, CurIdle
<1>5. QED
  BY <1>1, <1>2, <1>3, <1>4 DEF CurStep

LEMMA HisShape == ASSUME Shape, HisStep PROVE Shape'
<1>t. his \in HisThread /\ his.at \in Nat /\ his.todo \in SUBSET HisRule /\ his.job \in Job
  BY DEF Shape, TypeOK, HisThread
<1>j. NoJob \in Job
  BY DEF NoJob, Job, Event
<1>1. CASE SweepStart
  <2>1. his' = [pc |-> "rules", at |-> now, todo |-> rules \cap HisRule, rule |-> None,
                cands |-> {}, point |-> None, bad |-> FALSE, job |-> NoJob]
    BY <1>1 DEF SweepStart, HisIdle
  <2>2. his' \in HisThread
    BY <1>j, <2>1 DEF HisThread, HisPc, Shape, TypeOK
  <2>3. QED
    BY <1>1, <2>1, <2>2 DEF SweepStart, Shape, TypeOK, world, CurBusy
<1>2. ASSUME NEW r \in HisRule, SweepRule(r) PROVE Shape'
  <2>1. his' \in HisThread /\ his'.rule \in HisRule /\ his'.pc = "points"
    BY <1>2, <1>t DEF SweepRule, HisThread, HisPc, Shape, TypeOK
  <2>2. QED
    BY <1>2, <2>1 DEF SweepRule, Shape, TypeOK, world, CurBusy
<1>3. ASSUME NEW p \in Point, SweepRead(p) PROVE Shape'
  <2>1. (<<his.rule, p>> \in symptom) \in BOOLEAN
    OBVIOUS
  <2>2. his' = [his EXCEPT !.pc = "write", !.cands = @ \ {p}, !.point = p,
                           !.bad = <<his.rule, p>> \in symptom]
    BY <1>3 DEF SweepRead
  <2>3. his' \in HisThread /\ his'.rule = his.rule /\ his'.point = p
    BY <1>t, <2>1, <2>2 DEF HisThread, HisPc
  <2>4. QED
    BY <1>3, <2>3 DEF SweepRead, Shape, TypeOK, world, CurBusy
<1>4. CASE SweepWrite
  <2>1. his.rule \in HisRule /\ his.rule \in Rule /\ his.point \in Point
    BY <1>4 DEF SweepWrite, Shape, HisRule
  <2>2. ASSUME NEW q \in {"points", "fire"}, NEW job \in Job,
               his' = [his EXCEPT !.pc = q, !.job = job]
        PROVE  his' \in HisThread /\ his'.rule \in HisRule /\ his'.pc # "write"
    BY <1>t, <2>1, <2>2 DEF HisThread, HisPc
  <2>3. faults' \in Seq(Row) /\ his' \in HisThread /\ his'.rule \in HisRule /\ his'.pc # "write"
    BY <1>4, <1>t, <1>j, <2>1, <2>2, WriteTypes DEF SweepWrite, NoTransition, Shape, TypeOK
  <2>4. QED
    BY <1>4, <2>3 DEF SweepWrite, Shape, TypeOK, world, CurBusy
<1>5. CASE SweepFire
  <2>1. his' \in HisThread /\ his'.rule \in HisRule /\ his'.pc = "points"
    BY <1>5, <1>t, <1>j DEF SweepFire, HisThread, HisPc, Shape
  <2>2. QED
    BY <1>5, <1>t, <2>1, NotifyTypes DEF SweepFire, Shape, TypeOK, world, CurBusy
<1>6. CASE SweepNext
  <2>1. his' \in HisThread /\ his'.pc \in {"idle", "rules"}
    <3>1. HisIdle \in HisThread /\ HisIdle.pc = "idle"
      BY IdleTypes DEF HisIdle
    <3>2. his.at \in Nat /\ his.todo \in SUBSET HisRule
      BY <1>t
    <3>3. ASSUME his' = [HisIdle EXCEPT !.pc = "rules", !.at = his.at, !.todo = his.todo]
          PROVE  his' \in HisThread /\ his'.pc = "rules"
      BY <3>1, <3>2, <3>3 DEF HisThread, HisPc
    <3>4. QED
      BY <1>6, <3>1, <3>3 DEF SweepNext
  <2>2. QED
    BY <1>6, <2>1 DEF SweepNext, Shape, TypeOK, world, CurBusy
<1>7. QED
  BY <1>1, <1>2, <1>3, <1>4, <1>5, <1>6 DEF HisStep

LEMMA ApiShape == ASSUME Shape, ApiStep PROVE Shape'
<1>1. ASSUME NEW r \in Rule, CreateRule(r) \/ DeleteRule(r) PROVE Shape'
  BY <1>1 DEF CreateRule, DeleteRule, Edit, Shape, TypeOK, CurBusy
<1>2. ASSUME NEW h \in Hook, CreateWebhook(h) \/ DeleteWebhook(h) PROVE Shape'
  BY <1>2 DEF CreateWebhook, DeleteWebhook, Edit, Shape, TypeOK, CurBusy
<1>3. ASSUME NEW i \in DOMAIN faults, NEW m \in Mark, Annotate(i, m) PROVE Shape'
  <2>1. faults' \in Seq(Row)
    BY <1>3, AnnotateEffect DEF Shape, TypeOK
  <2>2. QED
    BY <1>3, <2>1 DEF Annotate, Edit, Shape, TypeOK, CurBusy
<1>4. QED
  BY <1>1, <1>2, <1>3 DEF ApiStep

LEMMA WorldShape == ASSUME Shape, WorldStep PROVE Shape'
<1>1. ASSUME NEW p \in Point, NEW v \in Value, Publish(p, v) PROVE Shape'
  <2>1. [point |-> p, value |-> v] \in Message
    BY DEF Message
  <2>2. inbox' \in Seq(Message)
    BY <1>1, <2>1 DEF Publish, Shape, TypeOK
  <2>3. QED
    BY <1>1, <2>2 DEF Publish, Edit, Shape, TypeOK, CurBusy
<1>2. ASSUME NEW p \in Point, HistoryAppears(p) \/ HistoryDeleted(p) PROVE Shape'
  BY <1>2 DEF HistoryAppears, HistoryDeleted, Edit, Shape, TypeOK, CurBusy
<1>3. ASSUME NEW r \in HisRule, NEW p \in Point, SymptomChanges(r, p) PROVE Shape'
  BY <1>3 DEF SymptomChanges, Edit, Shape, TypeOK, CurBusy
<1>4. CASE Tick
  BY <1>4 DEF Tick, Shape, TypeOK, world, CurBusy
<1>5. CASE Crash
  <2>1. <<>> \in Seq(Message)
    BY EmptySeq
  <2>2. QED
    BY <1>5, <2>1, IdleTypes DEF Crash, Edit, Shape, TypeOK, CurBusy, CurIdle, HisIdle
<1>6. CASE CurThreadDies
  <2>1. inbox' \in Seq(Message)
    <3>1. inbox \in Seq(Message)
      BY DEF Shape, TypeOK
    <3>2. inbox # <<>> => Tail(inbox) \in Seq(Message)
      BY <3>1, HeadTailProperties
    <3>3. QED
      BY <1>6, <3>1, <3>2 DEF CurThreadDies
  <2>2. cur' \in CurThread /\ cur'.pc = "dead"
    <3>1. cur' = [CurIdle EXCEPT !.pc = "dead"]
      BY <1>6 DEF CurThreadDies
    <3>2. QED
      BY <3>1, IdleTypes DEF CurThread, CurPc
  <2>3. QED
    BY <1>6, <2>1, <2>2 DEF CurThreadDies, Edit, Shape, TypeOK, CurBusy
<1>7. CASE LoseMessage
  <2>1. inbox' \in Seq(Message)
    BY <1>7, HeadTailProperties DEF LoseMessage, Shape, TypeOK
  <2>2. QED
    BY <1>7, <2>1 DEF LoseMessage, Edit, Shape, TypeOK, CurBusy
<1>8. QED
  BY <1>1, <1>2, <1>3, <1>4, <1>5, <1>6, <1>7 DEF WorldStep

LEMMA ShapeInductive == (Init => Shape) /\ (Shape /\ [Next]_vars => Shape')
<1>1. Init => Shape
  <2>1. <<>> \in Seq(Message) /\ <<>> \in Seq(Row)
    BY EmptySeq
  <2>2. QED
    BY <2>1, IdleTypes DEF Init, Shape, TypeOK, CurBusy, CurIdle, HisIdle
<1>2. ASSUME Shape, UNCHANGED vars PROVE Shape'
  BY <1>2 DEF vars, Shape, TypeOK, CurBusy
<1>3. ASSUME Shape, Next PROVE Shape'
  BY <1>3, CurShape, HisShape, ApiShape, WorldShape DEF Next
<1>4. QED
  BY <1>1, <1>2, <1>3

\* Every variable keeps its shape, for any rules, points, webhooks and bounds.
THEOREM TypeCorrect == Spec => []TypeOK
<1>1. Shape => TypeOK
  BY DEF Shape
<1>2. QED
  BY <1>1, ShapeInductive, PTL DEF Spec
-----------------------------------------------------------------------------
(* The invariant behind the safety properties.  Episodes cannot overlap    *)
(* because the rows of a rule are stamped by one thread only, with a clock *)
(* reading that thread took after every earlier stamp of its own (Times);  *)
(* a transition is announced once because the row a thread is about to     *)
(* announce is of a rule of that thread, and nobody announced it (Jobs).   *)

Stamped(i, t) == faults[i].started <= t /\ faults[i].ended <= t

Times ==
  /\ \A i \in DOMAIN faults : Stamped(i, now)
  /\ CurBusy => cur.at <= now /\ \A i \in DOMAIN faults : faults[i].rule \in CurRule => Stamped(i, cur.at)
  /\ HisBusy => his.at <= now /\ \A i \in DOMAIN faults : faults[i].rule \in HisRule => Stamped(i, his.at)

JobOK(t, R) ==
  t.pc = "fire" =>
    /\ t.job.rule \in R
    /\ t.job.row \in DOMAIN faults
    /\ faults[t.job.row].rule = t.job.rule
    /\ t.job.event = "resolved" => faults[t.job.row].ended # Open
    /\ \A h \in Hook : <<t.job.row, t.job.event, h>> \notin notices

Table == EpisodesDisjoint /\ NoticesTruthful

IInv == Shape /\ Times /\ Table /\ JobOK(cur, CurRule) /\ JobOK(his, HisRule)

\* What every step does to the rows there already are.
Grows ==
  /\ DOMAIN faults \subseteq DOMAIN faults'
  /\ Len(faults) <= Len(faults')
  /\ \A i \in DOMAIN faults :
       /\ faults'[i].rule = faults[i].rule /\ faults'[i].point = faults[i].point
       /\ faults'[i].started = faults[i].started
       /\ faults[i].ended # Open => faults'[i].ended = faults[i].ended

\* Rows have a domain and integer stamps.
LEMMA RowFacts ==
  ASSUME faults \in Seq(Row)
  PROVE  /\ Len(faults) \in Nat /\ DOMAIN faults = 1 .. Len(faults)
         /\ \A i \in DOMAIN faults :
              /\ faults[i].rule \in Rule /\ faults[i].point \in Point
              /\ faults[i].started \in Nat
              /\ faults[i].ended \in Int /\ (faults[i].ended # Open => faults[i].ended \in Nat)
<1>1. Len(faults) \in Nat /\ DOMAIN faults = 1 .. Len(faults)
  BY LenProperties
<1>2. \A i \in DOMAIN faults : faults[i] \in Row
  BY <1>1, ElementOfSeq
<1>3. QED
  BY <1>1, <1>2 DEF Row, Open

\* Raising a fault keeps the episodes disjoint if no row of its rule is
\* stamped later than the time it is raised at.
LEMMA OpenKeepsTable ==
  ASSUME faults \in Seq(Row), Table, UNCHANGED notices,
         NEW r \in Rule, NEW p \in Point, NEW t \in Nat, OpenFault(r, p, t),
         \A i \in DOMAIN faults : faults[i].rule = r => Stamped(i, t)
  PROVE  Table' /\ Grows
<1> DEFINE n == Len(faults) + 1
<1>1. /\ Len(faults) \in Nat /\ DOMAIN faults = 1 .. Len(faults) /\ DOMAIN faults' = 1 .. n
      /\ Len(faults') = n
      /\ \A i \in DOMAIN faults : faults'[i] = faults[i]
      /\ faults'[n].rule = r /\ faults'[n].point = p
      /\ faults'[n].started = t /\ faults'[n].ended = Open
      /\ \A i \in DOMAIN faults :
           faults[i].rule = r /\ faults[i].point = p => faults[i].ended # Open
  <2>1. faults'[n] = [rule |-> r, point |-> p, started |-> t, ended |-> Open, marks |-> {}]
    BY OpenFaultEffect
  <2>2. QED
    BY <2>1, OpenFaultEffect
<1>2. Grows
  BY <1>1 DEF Grows
<1>3. EpisodesDisjoint'
  <2> SUFFICES ASSUME NEW i \in 1 .. n, NEW j \in 1 .. n
               PROVE  /\ faults'[i].ended # Open => faults'[i].started <= faults'[i].ended
                      /\ (i < j /\ faults'[i].rule = faults'[j].rule /\ faults'[i].point = faults'[j].point)
                           => faults'[i].ended # Open /\ faults'[i].ended <= faults'[j].started
    BY <1>1 DEF EpisodesDisjoint
  <2>1. CASE i = n
    BY <1>1, <2>1
  <2>2. CASE i # n /\ j = n
    BY <1>1, <2>2 DEF Table, EpisodesDisjoint, Stamped
  <2>3. CASE i # n /\ j # n
    BY <1>1, <2>3 DEF Table, EpisodesDisjoint
  <2>4. QED
    BY <2>1, <2>2, <2>3
<1>4. NoticesTruthful'
  BY <1>1 DEF Table, NoticesTruthful
<1>5. QED
  BY <1>2, <1>3, <1>4 DEF Table

\* The same of clearing one.
LEMMA CloseKeepsTable ==
  ASSUME faults \in Seq(Row), Table, UNCHANGED notices,
         NEW r \in Rule, NEW p \in Point, NEW t \in Nat, CloseFault(r, p, t),
         \A i \in DOMAIN faults : faults[i].rule = r => Stamped(i, t)
  PROVE  Table' /\ Grows
<1>1. /\ Len(faults') = Len(faults) /\ DOMAIN faults' = DOMAIN faults
      /\ \A i \in DOMAIN faults :
           /\ faults'[i].rule = faults[i].rule /\ faults'[i].point = faults[i].point
           /\ faults'[i].started = faults[i].started
           /\ faults'[i].ended = IF IsOpen(i, r, p) THEN t ELSE faults[i].ended
  BY CloseFaultEffect
<1>2. Len(faults) \in Nat
  BY RowFacts
<1>3. t # Open /\ \A i \in DOMAIN faults : IsOpen(i, r, p) => faults[i].rule = r /\ faults[i].ended = Open
  BY DEF IsOpen, Open
<1>4. Grows
  BY <1>1, <1>2, <1>3 DEF Grows
<1>5. EpisodesDisjoint'
  <2>1. ASSUME NEW i \in DOMAIN faults
        PROVE  faults'[i].ended # Open => faults'[i].started <= faults'[i].ended
    BY <1>1, <1>3, <2>1 DEF Table, EpisodesDisjoint, Stamped
  <2>2. ASSUME NEW i \in DOMAIN faults, NEW j \in DOMAIN faults, i < j,
               faults'[i].rule = faults'[j].rule, faults'[i].point = faults'[j].point
        PROVE  faults'[i].ended # Open /\ faults'[i].ended <= faults'[j].started
    <3>1. faults[i].ended # Open /\ faults[i].ended <= faults[j].started
      BY <1>1, <2>2 DEF Table, EpisodesDisjoint
    <3>2. faults'[i].ended = faults[i].ended /\ faults'[j].started = faults[j].started
      BY <1>1, <1>3, <3>1
    <3>3. QED
      BY <3>1, <3>2
  <2>3. QED
    BY <1>1, <2>1, <2>2 DEF EpisodesDisjoint
<1>6. NoticesTruthful'
  BY <1>1, <1>3 DEF Table, NoticesTruthful
<1>7. QED
  BY <1>4, <1>5, <1>6 DEF Table

\* A transition gives the thread that makes it a job fit to be announced.
LEMMA OpenGivesJob ==
  ASSUME faults \in Seq(Row), NoticesTruthful, UNCHANGED notices, NEW R,
         NEW r \in R, r \in Rule, NEW p \in Point, NEW t \in Nat, OpenFault(r, p, t),
         NEW thread, thread.job = Opened(r)
  PROVE  JobOK(thread, R)'
<1>1. /\ Len(faults) \in Nat /\ DOMAIN faults = 1 .. Len(faults)
      /\ DOMAIN faults' = 1 .. Len(faults) + 1
      /\ faults'[Len(faults) + 1].rule = r
  <2> DEFINE n == Len(faults) + 1
  <2>1. faults'[n] = [rule |-> r, point |-> p, started |-> t, ended |-> Open, marks |-> {}]
    BY OpenFaultEffect
  <2>2. QED
    BY <2>1, OpenFaultEffect
<1>2. QED
  BY <1>1 DEF JobOK, Opened, NoticesTruthful

LEMMA CloseGivesJob ==
  ASSUME faults \in Seq(Row), NoticesTruthful, UNCHANGED notices, NEW R,
         NEW r \in R, r \in Rule, NEW p \in Point, NEW t \in Nat, CloseFault(r, p, t),
         NEW thread, thread.job = Resolved(r, p)
  PROVE  /\ thread.job.rule \in R
         /\ thread.job.row \in DOMAIN faults'
         /\ faults'[thread.job.row].rule = thread.job.rule
         /\ faults'[thread.job.row].ended # Open
         /\ \A h \in Hook : <<thread.job.row, thread.job.event, h>> \notin notices'
<1> DEFINE i == Resolved(r, p).row
<1>1. i \in DOMAIN faults /\ IsOpen(i, r, p) /\ Resolved(r, p).rule = r
      /\ Resolved(r, p).event = "resolved"
  BY ResolvedRow DEF CloseFault
<1>2. faults[i].rule = r /\ faults[i].ended = Open
  BY <1>1 DEF IsOpen
<1>3. DOMAIN faults' = DOMAIN faults /\ faults'[i].rule = r /\ faults'[i].ended = t
  BY <1>1, <1>2, CloseFaultEffect
<1>4. \A h \in Hook : <<i, "resolved", h>> \notin notices
  BY <1>2 DEF NoticesTruthful
<1>5. QED
  BY <1>1, <1>3, <1>4 DEF Open

\* A job outlives what the other thread and the API do to the table.
LEMMA JobKept ==
  ASSUME Grows, NEW t, NEW R, JobOK(t, R), UNCHANGED notices
  PROVE  /\ t.pc = "fire" =>
              /\ t.job.rule \in R
              /\ t.job.row \in DOMAIN faults'
              /\ faults'[t.job.row].rule = t.job.rule
              /\ t.job.event = "resolved" => faults'[t.job.row].ended # Open
              /\ \A h \in Hook : <<t.job.row, t.job.event, h>> \notin notices'
BY DEF Grows, JobOK

\* Announcing a job adds true notices, and none that the other thread's job
\* is about, whose row is of another rule.
LEMMA NotifyEffect ==
  ASSUME Shape, NoticesTruthful, UNCHANGED faults,
         NEW t, NEW R, JobOK(t, R), t.pc = "fire", Notify(t.job),
         NEW u, NEW Q, JobOK(u, Q), Q \cap R = {}
  PROVE  /\ NoticesTruthful'
         /\ u.pc = "fire" => \A h \in Hook : <<u.job.row, u.job.event, h>> \notin notices'
<1>1. \A n \in notices' \ notices :
        n[1] = t.job.row /\ n[2] = t.job.event /\ n[3] \in Hook /\ t.job.rule \in Wants[n[3]]
  BY DEF Notify, Shape, TypeOK
<1>2. NoticesTruthful'
  BY <1>1 DEF NoticesTruthful, JobOK
<1>3. u.pc = "fire" => u.job.row # t.job.row
  BY DEF JobOK
<1>4. QED
  BY <1>1, <1>2, <1>3 DEF JobOK

\* What a verdict, written with time t by the thread that serves the rules R,
\* does to everything but the state of that thread.
LEMMA WriteEffect ==
  ASSUME faults \in Seq(Row), Table, UNCHANGED notices, NEW R \in SUBSET Rule,
         NEW r \in R, NEW p \in Point, NEW t \in Nat, now \in Nat, t <= now,
         \A i \in DOMAIN faults : Stamped(i, now),
         \A i \in DOMAIN faults : faults[i].rule \in R => Stamped(i, t),
         OpenFault(r, p, t) \/ CloseFault(r, p, t) \/ UNCHANGED faults
  PROVE  /\ Table' /\ Grows
         /\ \A i \in DOMAIN faults' : faults'[i].started <= now /\ faults'[i].ended <= now
         /\ \A i \in DOMAIN faults' : faults'[i].rule \in R => faults'[i].started <= t /\ faults'[i].ended <= t
         /\ \A i \in DOMAIN faults' : faults'[i].rule \notin R => i \in DOMAIN faults /\ faults'[i].started = faults[i].started /\ faults'[i].ended = faults[i].ended
<1>1. Len(faults) \in Nat /\ DOMAIN faults = 1 .. Len(faults)
  BY RowFacts
<1>2. CASE OpenFault(r, p, t)
  <2>1. Table' /\ Grows
    BY <1>2, OpenKeepsTable
  <2> DEFINE n == Len(faults) + 1
  <2>2. faults'[n] = [rule |-> r, point |-> p, started |-> t, ended |-> Open, marks |-> {}]
    BY <1>2, OpenFaultEffect
  <2>3. /\ DOMAIN faults' = 1 .. n /\ \A i \in DOMAIN faults : faults'[i] = faults[i]
        /\ faults'[n].rule = r /\ faults'[n].started = t /\ faults'[n].ended = Open
    BY <1>2, <2>2, OpenFaultEffect
  <2>4. t <= now /\ Open <= now /\ Open <= t
    BY DEF Open
  <2>5. \A i \in DOMAIN faults' : i = n \/ (i \in DOMAIN faults /\ faults'[i] = faults[i])
    BY <1>1, <2>3
  <2>6. QED
    BY <2>1, <2>3, <2>4, <2>5 DEF Stamped
<1>3. CASE CloseFault(r, p, t)
  <2>1. Table' /\ Grows
    BY <1>3, CloseKeepsTable
  <2>2. /\ DOMAIN faults' = DOMAIN faults
        /\ \A i \in DOMAIN faults :
             /\ faults'[i].rule = faults[i].rule /\ faults'[i].started = faults[i].started
             /\ faults'[i].ended = IF IsOpen(i, r, p) THEN t ELSE faults[i].ended
    BY <1>3, CloseFaultEffect
  <2>3. QED
    BY <2>1, <2>2 DEF Stamped, IsOpen
<1>4. CASE UNCHANGED faults
  BY <1>1, <1>4 DEF Table, EpisodesDisjoint, NoticesTruthful, Grows, Stamped
<1>5. QED
  BY <1>2, <1>3, <1>4

\* Steps that leave the table, the notices and the busy threads alone.
LEMMA QuietStep ==
  ASSUME IInv, Shape', UNCHANGED <<faults, notices>>, now <= now', now \in Nat, now' \in Nat,
         cur' = cur \/ cur'.pc \in {"idle", "dead"}, his' = his \/ his'.pc = "idle"
  PROVE  IInv'
<1>1. Table'
  BY DEF IInv, Table, EpisodesDisjoint, NoticesTruthful
<1>2. \A i \in DOMAIN faults : faults[i].started \in Int /\ faults[i].ended \in Int
  BY RowFacts DEF IInv, Shape, TypeOK
<1>3. (\A i \in DOMAIN faults : Stamped(i, now))'
  BY <1>2 DEF IInv, Times, Stamped
<1>4. cur.at \in Nat /\ his.at \in Nat
  BY DEF IInv, Shape, TypeOK, CurThread, HisThread
<1>5. (CurBusy => cur.at <= now /\ \A i \in DOMAIN faults : faults[i].rule \in CurRule => Stamped(i, cur.at))'
  BY <1>4 DEF IInv, Times, CurBusy, Stamped
<1>6. (HisBusy => his.at <= now /\ \A i \in DOMAIN faults : faults[i].rule \in HisRule => Stamped(i, his.at))'
  BY <1>4 DEF IInv, Times, HisBusy, Stamped
<1>7. JobOK(cur, CurRule)' /\ JobOK(his, HisRule)'
  BY DEF IInv, JobOK
<1>8. QED
  BY <1>1, <1>3, <1>5, <1>6, <1>7 DEF IInv, Times

LEMMA CurInductive == ASSUME IInv, CurStep, Shape' PROVE IInv'
<1>t. /\ faults \in Seq(Row) /\ now \in Nat /\ cur \in CurThread /\ cur.at \in Nat
      /\ \A i \in DOMAIN faults : faults[i].rule \in Rule
  BY RowFacts DEF IInv, Shape, TypeOK, CurThread
<1>r. CurRule \cap HisRule = {} /\ CurRule \in SUBSET Rule /\ Rule = CurRule \cup HisRule
  BY DEF HisRule
<1>1. CASE CurReceive
  <2>1. cur'.pc = "eval" /\ cur'.at = now
    BY <1>1 DEF CurReceive, CurIdle
  <2>2. UNCHANGED <<faults, notices, his, now>>
    BY <1>1 DEF CurReceive
  <2>3. Table' /\ JobOK(cur, CurRule)' /\ JobOK(his, HisRule)'
    BY <2>1, <2>2 DEF IInv, Table, EpisodesDisjoint, NoticesTruthful, JobOK
  <2>4. Times'
    BY <1>t, <2>1, <2>2 DEF IInv, Times, HisBusy, Stamped
  <2>5. QED
    BY <2>3, <2>4 DEF IInv
<1>2. ASSUME NEW r \in CurRule, CurEvaluate(r) PROVE IInv'
  <2>1. /\ CurBusy /\ cur.point \in Point /\ cur.at <= now
        /\ UNCHANGED <<notices, his, now>>
        /\ cur'.at = cur.at
    BY <1>2, <1>t DEF CurEvaluate, IInv, Shape, Times, CurBusy, CurThread
  <2>2. OpenFault(r, cur.point, cur.at) \/ CloseFault(r, cur.point, cur.at) \/ UNCHANGED faults
    BY <1>2 DEF CurEvaluate, NoTransition
  <2>3. /\ Table' /\ Grows
        /\ \A i \in DOMAIN faults' : faults'[i].started <= now /\ faults'[i].ended <= now
        /\ \A i \in DOMAIN faults' : faults'[i].rule \in CurRule
              => faults'[i].started <= cur.at /\ faults'[i].ended <= cur.at
        /\ \A i \in DOMAIN faults' : faults'[i].rule \notin CurRule
              => /\ i \in DOMAIN faults
                 /\ faults'[i].started = faults[i].started /\ faults'[i].ended = faults[i].ended
    <3>1. faults \in Seq(Row) /\ Table /\ \A i \in DOMAIN faults : Stamped(i, now)
      BY <1>t DEF IInv, Times
    <3>2. \A i \in DOMAIN faults : faults[i].rule \in CurRule => Stamped(i, cur.at)
      BY <2>1 DEF IInv, Times
    <3>3. CurRule \in SUBSET Rule /\ now \in Nat /\ cur.at \in Nat
      BY <1>t, RuleAssumption
    <3>4. QED
      BY <2>1, <2>2, <3>1, <3>2, <3>3, WriteEffect
  <2>4. Times'
    BY <1>r, <2>1, <2>3 DEF IInv, Times, Stamped, CurBusy, HisBusy, Grows
  <2>5. JobOK(his, HisRule)'
    BY <2>1, <2>3, JobKept DEF IInv, JobOK
  <2>6. JobOK(cur, CurRule)'
    <3>1. CASE cur'.pc = "eval"
      BY <3>1 DEF JobOK
    <3>2. CASE OpenFault(r, cur.point, cur.at) /\ cur'.job = Opened(r)
      BY <1>t, <1>r, <2>1, <3>2, OpenGivesJob DEF IInv, Table, JobOK
    <3>3. CASE CloseFault(r, cur.point, cur.at) /\ cur'.job = Resolved(r, cur.point)
      <4>1. /\ cur'.job.rule \in CurRule
            /\ cur'.job.row \in DOMAIN faults'
            /\ faults'[cur'.job.row].rule = cur'.job.rule
            /\ faults'[cur'.job.row].ended # Open
            /\ \A h \in Hook : <<cur'.job.row, cur'.job.event, h>> \notin notices'
        BY <1>t, <1>r, <2>1, <3>3, CloseGivesJob DEF IInv, Table
      <4>2. QED
        BY <4>1 DEF JobOK
    <3>4. QED
      BY <1>2, <1>t, <3>1, <3>2, <3>3 DEF CurEvaluate, CurThread
  <2>7. QED
    BY <2>3, <2>4, <2>5, <2>6 DEF IInv
<1>3. CASE CurFire
  <2>1. cur.pc = "fire" /\ Notify(cur.job) /\ UNCHANGED <<faults, his, now>>
        /\ cur'.pc = "eval" /\ cur'.at = cur.at
    BY <1>3, <1>t DEF CurFire, CurThread
  <2>2. /\ NoticesTruthful'
        /\ his.pc = "fire" => \A h \in Hook : <<his.job.row, his.job.event, h>> \notin notices'
    BY <1>r, <2>1, NotifyEffect DEF IInv, Table
  <2>3. JobOK(his, HisRule)' /\ JobOK(cur, CurRule)'
    BY <2>1, <2>2 DEF IInv, JobOK
  <2>4. EpisodesDisjoint' /\ Times'
    BY <2>1 DEF IInv, Table, EpisodesDisjoint, Times, Stamped, CurBusy, HisBusy
  <2>5. QED
    BY <2>2, <2>3, <2>4 DEF IInv, Table
<1>4. CASE CurDone
  BY <1>4, <1>t, QuietStep DEF CurDone, CurIdle
<1>5. QED
  BY <1>1, <1>2, <1>3, <1>4 DEF CurStep

LEMMA HisInductive == ASSUME IInv, HisStep, Shape' PROVE IInv'
<1>t. /\ faults \in Seq(Row) /\ now \in Nat /\ his \in HisThread /\ his.at \in Nat
      /\ \A i \in DOMAIN faults : faults[i].rule \in Rule
  BY RowFacts DEF IInv, Shape, TypeOK, HisThread
<1>r. CurRule \cap HisRule = {} /\ HisRule \in SUBSET Rule /\ Rule = CurRule \cup HisRule
  BY DEF HisRule
<1>1. CASE SweepStart
  <2>1. his'.pc = "rules" /\ his'.at = now
    BY <1>1 DEF SweepStart, HisIdle
  <2>2. UNCHANGED <<faults, notices, cur, now>>
    BY <1>1 DEF SweepStart
  <2>3. Table' /\ JobOK(cur, CurRule)' /\ JobOK(his, HisRule)'
    BY <2>1, <2>2 DEF IInv, Table, EpisodesDisjoint, NoticesTruthful, JobOK
  <2>4. Times'
    BY <1>t, <2>1, <2>2 DEF IInv, Times, CurBusy, Stamped
  <2>5. QED
    BY <2>3, <2>4 DEF IInv
<1>2. ASSUME HisBusy, his'.at = his.at, his'.pc \in {"rules", "points", "write"},
             UNCHANGED <<faults, notices, cur, now>>
      PROVE  IInv'
  <2>1. Table' /\ JobOK(cur, CurRule)' /\ JobOK(his, HisRule)'
    BY <1>2 DEF IInv, Table, EpisodesDisjoint, NoticesTruthful, JobOK
  <2>2. Times'
    BY <1>2 DEF IInv, Times, CurBusy, HisBusy, Stamped
  <2>3. QED
    BY <2>1, <2>2 DEF IInv
<1>3. ASSUME NEW r \in HisRule, SweepRule(r) PROVE IInv'
  BY <1>2, <1>3, <1>t DEF SweepRule, HisBusy, HisThread
<1>4. ASSUME NEW p \in Point, SweepRead(p) PROVE IInv'
  BY <1>2, <1>4, <1>t DEF SweepRead, HisBusy, HisThread
<1>5. CASE SweepWrite
  <2> DEFINE r == his.rule
             p == his.point
  <2>1. /\ HisBusy /\ r \in HisRule /\ p \in Point /\ his.at <= now
        /\ UNCHANGED <<notices, cur, now>>
        /\ his'.at = his.at
    BY <1>5, <1>t DEF SweepWrite, IInv, Shape, Times, HisBusy, HisThread
  <2>2. OpenFault(r, p, his.at) \/ CloseFault(r, p, his.at) \/ UNCHANGED faults
    BY <1>5 DEF SweepWrite, NoTransition
  <2> HIDE DEF r, p
  <2>3. /\ Table' /\ Grows
        /\ \A i \in DOMAIN faults' : faults'[i].started <= now /\ faults'[i].ended <= now
        /\ \A i \in DOMAIN faults' : faults'[i].rule \in HisRule
              => faults'[i].started <= his.at /\ faults'[i].ended <= his.at
        /\ \A i \in DOMAIN faults' : faults'[i].rule \notin HisRule
              => /\ i \in DOMAIN faults
                 /\ faults'[i].started = faults[i].started /\ faults'[i].ended = faults[i].ended
    <3>1. faults \in Seq(Row) /\ Table /\ \A i \in DOMAIN faults : Stamped(i, now)
      BY <1>t DEF IInv, Times
    <3>2. \A i \in DOMAIN faults : faults[i].rule \in HisRule => Stamped(i, his.at)
      BY <2>1 DEF IInv, Times
    <3>3. HisRule \in SUBSET Rule /\ now \in Nat /\ his.at \in Nat
      BY <1>t DEF HisRule
    <3>4. QED
      BY <2>1, <2>2, <3>1, <3>2, <3>3, WriteEffect
  <2>4. Times'
    BY <1>r, <2>1, <2>3 DEF IInv, Times, Stamped, CurBusy, HisBusy, Grows
  <2>5. JobOK(cur, CurRule)'
    BY <2>1, <2>3, JobKept DEF IInv, JobOK
  <2>6. JobOK(his, HisRule)'
    <3>1. CASE his'.pc = "points"
      BY <3>1 DEF JobOK
    <3>2. CASE OpenFault(r, p, his.at) /\ his'.job = Opened(r)
      BY <1>t, <1>r, <2>1, <3>2, OpenGivesJob DEF IInv, Table, JobOK
    <3>3. CASE CloseFault(r, p, his.at) /\ his'.job = Resolved(r, p)
      <4>1. /\ his'.job.rule \in HisRule
            /\ his'.job.row \in DOMAIN faults'
            /\ faults'[his'.job.row].rule = his'.job.rule
            /\ faults'[his'.job.row].ended # Open
            /\ \A h \in Hook : <<his'.job.row, his'.job.event, h>> \notin notices'
        BY <1>t, <1>r, <2>1, <3>3, CloseGivesJob DEF IInv, Table
      <4>2. QED
        BY <4>1 DEF JobOK
    <3>4. QED
      BY <1>5, <1>t, <3>1, <3>2, <3>3 DEF SweepWrite, HisThread, r, p
  <2>7. QED
    BY <2>3, <2>4, <2>5, <2>6 DEF IInv
<1>6. CASE SweepFire
  <2>1. his.pc = "fire" /\ Notify(his.job) /\ UNCHANGED <<faults, cur, now>>
        /\ his'.pc = "points" /\ his'.at = his.at
    BY <1>6, <1>t DEF SweepFire, HisThread
  <2>2. /\ NoticesTruthful'
        /\ cur.pc = "fire" => \A h \in Hook : <<cur.job.row, cur.job.event, h>> \notin notices'
    BY <1>r, <2>1, NotifyEffect DEF IInv, Table
  <2>3. JobOK(his, HisRule)' /\ JobOK(cur, CurRule)'
    BY <2>1, <2>2 DEF IInv, JobOK
  <2>4. EpisodesDisjoint' /\ Times'
    BY <2>1 DEF IInv, Table, EpisodesDisjoint, Times, Stamped, CurBusy, HisBusy
  <2>5. QED
    BY <2>2, <2>3, <2>4 DEF IInv, Table
<1>7. CASE SweepNext
  <2>1. CASE his.pc = "points" /\ his' = [HisIdle EXCEPT !.pc = "rules", !.at = his.at, !.todo = his.todo]
    <3>1. his'.pc = "rules" /\ his'.at = his.at
      BY <2>1 DEF HisIdle
    <3>2. QED
      BY <1>2, <1>7, <2>1, <3>1 DEF SweepNext, HisBusy
  <2>2. CASE his' = HisIdle
    BY <1>7, <1>t, <2>2, QuietStep DEF SweepNext, HisIdle
  <2>3. QED
    BY <1>7, <2>1, <2>2 DEF SweepNext
<1>8. QED
  BY <1>1, <1>3, <1>4, <1>5, <1>6, <1>7 DEF HisStep

LEMMA OthersInductive == ASSUME IInv, ApiStep \/ WorldStep, Shape' PROVE IInv'
<1>t. faults \in Seq(Row) /\ now \in Nat /\ now' \in Nat /\ now <= now
  BY DEF IInv, Shape, TypeOK
<1>1. ASSUME NEW i \in DOMAIN faults, NEW m \in Mark, Annotate(i, m) PROVE IInv'
  <2>1. /\ Len(faults') = Len(faults) /\ DOMAIN faults' = DOMAIN faults
        /\ \A j \in DOMAIN faults :
             /\ faults'[j].rule = faults[j].rule /\ faults'[j].point = faults[j].point
             /\ faults'[j].started = faults[j].started /\ faults'[j].ended = faults[j].ended
    BY <1>1, <1>t, AnnotateEffect
  <2>2. UNCHANGED <<notices, cur, his, now>>
    BY <1>1 DEF Annotate
  <2>3. Table'
    BY <2>1, <2>2 DEF IInv, Table, EpisodesDisjoint, NoticesTruthful
  <2>4. Times'
    BY <2>1, <2>2 DEF IInv, Times, Stamped, CurBusy, HisBusy
  <2>5. JobOK(cur, CurRule)' /\ JobOK(his, HisRule)'
    BY <2>1, <2>2 DEF IInv, JobOK
  <2>6. QED
    BY <2>3, <2>4, <2>5 DEF IInv
<1>2. CASE Tick
  BY <1>2, <1>t, QuietStep DEF Tick
<1>3. CASE Crash
  BY <1>3, <1>t, QuietStep DEF Crash, CurIdle, HisIdle
<1>4. CASE CurThreadDies
  <2>1. cur'.pc = "dead"
    BY <1>4 DEF CurThreadDies, CurIdle
  <2>2. QED
    BY <1>4, <1>t, <2>1, QuietStep DEF CurThreadDies
<1>5. CASE LoseMessage
  BY <1>5, <1>t, QuietStep DEF LoseMessage
<1>6. ASSUME NEW r \in Rule, CreateRule(r) \/ DeleteRule(r) PROVE IInv'
  BY <1>6, <1>t, QuietStep DEF CreateRule, DeleteRule
<1>7. ASSUME NEW h \in Hook, CreateWebhook(h) \/ DeleteWebhook(h) PROVE IInv'
  BY <1>7, <1>t, QuietStep DEF CreateWebhook, DeleteWebhook
<1>8. ASSUME NEW p \in Point, NEW v \in Value, Publish(p, v) PROVE IInv'
  BY <1>8, <1>t, QuietStep DEF Publish
<1>9. ASSUME NEW p \in Point, HistoryAppears(p) \/ HistoryDeleted(p) PROVE IInv'
  BY <1>9, <1>t, QuietStep DEF HistoryAppears, HistoryDeleted
<1>10. ASSUME NEW r \in HisRule, NEW p \in Point, SymptomChanges(r, p) PROVE IInv'
  BY <1>10, <1>t, QuietStep DEF SymptomChanges
<1>11. QED
  BY <1>1, <1>2, <1>3, <1>4, <1>5, <1>6, <1>7, <1>8, <1>9, <1>10 DEF ApiStep, WorldStep

LEMMA IInvInductive == (Init => IInv) /\ (IInv /\ [Next]_vars => IInv')
<1>1. Init => IInv
  <2>1. ASSUME Init PROVE Shape /\ Times /\ Table /\ JobOK(cur, CurRule) /\ JobOK(his, HisRule)
    <3>1. Shape
      BY <2>1, ShapeInductive
    <3>2. faults = <<>> /\ DOMAIN faults = {} /\ notices = {} /\ ~CurBusy /\ ~HisBusy
          /\ cur.pc = "idle" /\ his.pc = "idle"
      BY <2>1 DEF Init, CurIdle, HisIdle, CurBusy, HisBusy
    <3>3. QED
      BY <3>1, <3>2 DEF Times, Table, EpisodesDisjoint, NoticesTruthful, JobOK
  <2>2. QED
    BY <2>1 DEF IInv
<1>2. ASSUME IInv, [Next]_vars PROVE IInv'
  <2>1. Shape'
    BY <1>2, ShapeInductive DEF IInv
  <2>2. CASE UNCHANGED vars
    <3>1. now \in Nat
      BY <1>2 DEF IInv, Shape, TypeOK
    <3>2. QED
      BY <1>2, <2>1, <2>2, <3>1, QuietStep DEF vars
  <2>3. CASE Next
    BY <1>2, <2>1, <2>3, CurInductive, HisInductive, OthersInductive DEF Next
  <2>4. QED
    BY <1>2, <2>2, <2>3
<1>3. QED
  BY <1>1, <1>2

\* Per rule and point the faults are disjoint episodes in time order: at most
\* one is open, and none begins before the last one ended.
THEOREM EpisodesAreDisjoint == Spec => []EpisodesDisjoint
<1>1. IInv => EpisodesDisjoint
  BY DEF IInv, Table
<1>2. QED
  BY <1>1, IInvInductive, PTL DEF Spec

\* A webhook is told of a transition at most once, and by one thread only.
THEOREM TransitionsAnnouncedOnce == Spec => []AnnouncedOnce
<1>1. IInv => AnnouncedOnce
  <2> SUFFICES ASSUME IInv PROVE AnnouncedOnce
    OBVIOUS
  <2>1. JobOK(cur, CurRule) /\ JobOK(his, HisRule) /\ CurRule \cap HisRule = {}
    BY DEF IInv, HisRule
  <2>2. QED
    BY <2>1 DEF AnnouncedOnce, Firing, JobOK
<1>2. QED
  BY <1>1, IInvInductive, PTL DEF Spec

\* Whatever a webhook has been told is so in the table.
THEOREM NoticesAreTruthful == Spec => []NoticesTruthful
<1>1. IInv => NoticesTruthful
  BY DEF IInv, Table
<1>2. QED
  BY <1>1, IInvInductive, PTL DEF Spec
-----------------------------------------------------------------------------
(* What a step may do to the table, and the episodes it amounts to.        *)

\* A statement that raises or clears a fault runs at a time not before any
\* stamp on the rows of its rule.
Statement(r, p, t) ==
  /\ OpenFault(r, p, t) \/ CloseFault(r, p, t)
  /\ \A i \in DOMAIN faults : faults[i].rule = r => Stamped(i, t)

LEMMA TableSteps ==
  ASSUME IInv, [Next]_vars
  PROVE  \/ UNCHANGED faults
         \/ \E i \in DOMAIN faults, m \in Mark : Annotate(i, m)
         \/ \E r \in Rule, p \in Point, t \in Nat : Statement(r, p, t)
<1>1. ASSUME NEW r \in CurRule, CurEvaluate(r)
      PROVE  UNCHANGED faults \/ \E p \in Point, t \in Nat : Statement(r, p, t)
  <2>1. /\ cur.point \in Point /\ cur.at \in Nat
        /\ \A i \in DOMAIN faults : faults[i].rule \in CurRule => Stamped(i, cur.at)
    BY <1>1 DEF CurEvaluate, IInv, Shape, TypeOK, CurThread, Times, CurBusy
  <2>2. OpenFault(r, cur.point, cur.at) \/ CloseFault(r, cur.point, cur.at) \/ UNCHANGED faults
    BY <1>1 DEF CurEvaluate, NoTransition
  <2>3. QED
    BY <2>1, <2>2 DEF Statement
<1>2. ASSUME SweepWrite
      PROVE  UNCHANGED faults \/ \E r \in Rule, p \in Point, t \in Nat : Statement(r, p, t)
  <2>1. /\ his.rule \in HisRule /\ his.rule \in Rule /\ his.point \in Point /\ his.at \in Nat
        /\ \A i \in DOMAIN faults : faults[i].rule \in HisRule => Stamped(i, his.at)
    BY <1>2 DEF SweepWrite, IInv, Shape, TypeOK, HisThread, Times, HisBusy, HisRule
  <2>2. \/ OpenFault(his.rule, his.point, his.at) \/ CloseFault(his.rule, his.point, his.at)
        \/ UNCHANGED faults
    BY <1>2 DEF SweepWrite, NoTransition
  <2>3. QED
    BY <2>1, <2>2 DEF Statement
<1>3. QED
  BY <1>1, <1>2
     DEF Next, vars, CurStep, HisStep, ApiStep, WorldStep, CurReceive, CurFire, CurDone, SweepStart,
         SweepRule, SweepRead, SweepFire, SweepNext, CreateRule, DeleteRule, CreateWebhook, DeleteWebhook,
         Publish, HistoryAppears, HistoryDeleted, SymptomChanges, Tick, Crash, CurThreadDies, LoseMessage

\* No statement, crash or edit rewrites the history of faults.
THEOREM HistoryIsFinal == Spec => HistoryFinal
<1>1. ASSUME IInv, [Next]_vars PROVE Grows \/ UNCHANGED faults
  <2>t. faults \in Seq(Row) /\ Len(faults) \in Nat /\ DOMAIN faults = 1 .. Len(faults)
    BY <1>1, RowFacts DEF IInv, Shape, TypeOK
  <2>1. ASSUME NEW i \in DOMAIN faults, NEW m \in Mark, Annotate(i, m) PROVE Grows
    BY <2>t, <2>1, AnnotateEffect DEF Grows
  <2>2. ASSUME NEW r \in Rule, NEW p \in Point, NEW t \in Nat, OpenFault(r, p, t) PROVE Grows
    <3>1. /\ Len(faults') = Len(faults) + 1 /\ DOMAIN faults' = 1 .. Len(faults) + 1
          /\ \A i \in DOMAIN faults : faults'[i] = faults[i]
      BY <2>t, <2>2, OpenFaultEffect
    <3>2. QED
      BY <2>t, <3>1 DEF Grows
  <2>3. ASSUME NEW r \in Rule, NEW p \in Point, NEW t \in Nat, CloseFault(r, p, t) PROVE Grows
    <3>1. /\ Len(faults') = Len(faults) /\ DOMAIN faults' = DOMAIN faults
          /\ \A i \in DOMAIN faults :
               /\ faults'[i].rule = faults[i].rule /\ faults'[i].point = faults[i].point
               /\ faults'[i].started = faults[i].started
               /\ faults'[i].ended = IF IsOpen(i, r, p) THEN t ELSE faults[i].ended
      BY <2>t, <2>3, CloseFaultEffect
    <3>2. \A i \in DOMAIN faults : IsOpen(i, r, p) => faults[i].ended = Open
      BY DEF IsOpen
    <3>3. QED
      BY <2>t, <3>1, <3>2 DEF Grows
  <2>4. QED
    BY <1>1, <2>1, <2>2, <2>3, TableSteps DEF Statement
<1>2. IInv /\ [Next]_vars =>
        [/\ Len(faults') >= Len(faults)
         /\ \A i \in DOMAIN faults :
              /\ faults'[i].rule = faults[i].rule /\ faults'[i].point = faults[i].point
              /\ faults'[i].started = faults[i].started
              /\ faults[i].ended # Open => faults'[i].ended = faults[i].ended]_faults
  <2>1. IInv => Len(faults) \in Nat
    BY RowFacts DEF IInv, Shape, TypeOK
  <2>2. Grows /\ Len(faults) \in Nat => Len(faults') >= Len(faults)
    BY DEF Grows
  <2>3. QED
    BY <1>1, <2>1, <2>2 DEF Grows
<1>3. QED
  BY <1>2, IInvInductive, PTL DEF Spec, HistoryFinal
-----------------------------------------------------------------------------
(* The table implements FaultLifecycle.                                    *)

\* Stamps and FaultOpen, by the rows.
Bears(k, u) ==
  \E i \in DOMAIN faults :
    /\ faults[i].rule = k[1] /\ faults[i].point = k[2]
    /\ u = faults[i].started \/ u = faults[i].ended

LEMMA StampsBear ==
  ASSUME NEW k, NEW u
  PROVE  (u \in Stamps(k) <=> Bears(k, u)) /\ (u \in Stamps(k)' <=> Bears(k, u)')
BY DEF Stamps, Bears

LEMMA OpenIs ==
  ASSUME NEW r, NEW p
  PROVE  /\ FaultOpen(r, p) <=> \E i \in DOMAIN faults : IsOpen(i, r, p)
         /\ FaultOpen(r, p)' <=> \E i \in DOMAIN faults' : IsOpen(i, r, p)'
BY DEF FaultOpen, OpenRows, IsOpen

\* The time of the last transition is the one stamp no other exceeds.
LEMMA LatestIs ==
  ASSUME NEW S \in SUBSET Int, S # {} => S \cap Nat # {}, NEW t \in S \cup {0}, \A u \in S : u <= t
  PROVE  Latest(S) = t
<1> DEFINE P(x) == x \in S \cup {0} /\ \A u \in S : u <= x
<1>1. \A x : P(x) => x = t
  <2> SUFFICES ASSUME NEW x, P(x) PROVE x = t
    OBVIOUS
  <2>1. CASE S = {}
    BY <2>1
  <2>2. CASE S # {}
    <3>1. PICK n \in S : n \in Nat
      BY <2>2
    <3>2. n <= x /\ n <= t /\ x \in Int /\ t \in Int
      BY <3>1
    <3>3. x \in S => x <= t
      OBVIOUS
    <3>4. t \in S => t <= x
      OBVIOUS
    <3>5. QED
      BY <3>1, <3>2, <3>3, <3>4
  <2>3. QED
    BY <2>1, <2>2
<1>2. P(t)
  OBVIOUS
<1>3. (CHOOSE x \in S \cup {0} : \A u \in S : u <= x) = t
  BY <1>1, <1>2, Zenon
<1>4. QED
  BY <1>3 DEF Latest

HasLatest == \A k \in Key : \E t \in Stamps(k) \cup {0} : \A u \in Stamps(k) : u <= t

TableTyped == faults \in Seq(Row)
StampsTyped ==
  \A k \in Key : Stamps(k) \in SUBSET Int /\ (Stamps(k) # {} => Stamps(k) \cap Nat # {})

LEMMA StampTypes == TableTyped => StampsTyped
<1> SUFFICES ASSUME TableTyped, NEW k \in Key
             PROVE  Stamps(k) \in SUBSET Int /\ (Stamps(k) # {} => Stamps(k) \cap Nat # {})
  BY DEF StampsTyped
<1>1. Stamps(k) \subseteq Int
  BY RowFacts, StampsBear DEF Bears, TableTyped
<1>2. ASSUME Stamps(k) # {} PROVE Stamps(k) \cap Nat # {}
  <2>1. PICK u : Bears(k, u)
    BY <1>2, StampsBear
  <2>2. PICK i \in DOMAIN faults : faults[i].rule = k[1] /\ faults[i].point = k[2]
    BY <2>1 DEF Bears
  <2>3. faults[i].started \in Stamps(k) /\ faults[i].started \in Nat
    BY <2>2, StampsBear, RowFacts DEF Bears, TableTyped
  <2>4. QED
    BY <2>3
<1>3. QED
  BY <1>1, <1>2

LEMMA StampTypesThen == TableTyped' => StampsTyped'
BY StampTypes, PTL

\* What a statement does to the stamps of its pair and of the others.
LEMMA StatementStamps ==
  ASSUME faults \in Seq(Row), NEW r \in Rule, NEW p \in Point, NEW t \in Nat, Statement(r, p, t)
  PROVE  /\ \A u \in Stamps(<<r, p>>) : u <= t
         /\ t \in Stamps(<<r, p>>)' /\ \A u \in Stamps(<<r, p>>)' : u <= t
         /\ \A k \in Key : k # <<r, p>> => Stamps(k)' = Stamps(k)
<1> DEFINE k0 == <<r, p>>
           n == Len(faults) + 1
<1>0. k0[1] = r /\ k0[2] = p /\ \A k \in Key : k[1] = r /\ k[2] = p => k = k0
  BY DEF Key
<1> HIDE DEF k0
<1>1. \A i \in DOMAIN faults : faults[i].rule = r => faults[i].started <= t /\ faults[i].ended <= t
  BY DEF Statement, Stamped
<1>2. \A u \in Stamps(k0) : u <= t
  BY <1>0, <1>1, StampsBear DEF Bears
<1>3. CASE OpenFault(r, p, t)
  <2>1. faults'[n] = [rule |-> r, point |-> p, started |-> t, ended |-> Open, marks |-> {}]
    BY <1>3, OpenFaultEffect
  <2>2. /\ DOMAIN faults' = 1 .. n /\ DOMAIN faults = 1 .. Len(faults) /\ Len(faults) \in Nat
        /\ \A i \in DOMAIN faults : faults'[i] = faults[i]
        /\ faults'[n].rule = r /\ faults'[n].point = p
        /\ faults'[n].started = t /\ faults'[n].ended = Open
    BY <1>3, <2>1, OpenFaultEffect
  <2> HIDE DEF n
  <2>3. n \in DOMAIN faults' /\ DOMAIN faults' = DOMAIN faults \cup {n}
    BY <2>2 DEF n
  <2>4. \A k, u : Bears(k, u)' <=> Bears(k, u) \/ (k[1] = r /\ k[2] = p /\ (u = t \/ u = Open))
    BY <2>2, <2>3 DEF Bears
  <2>5. t \in Stamps(k0)' /\ \A u \in Stamps(k0)' : u <= t
    BY <1>0, <1>2, <2>4, StampsBear DEF Open
  <2>6. ASSUME NEW k \in Key, k # k0 PROVE Stamps(k)' = Stamps(k)
    <3>1. ~(k[1] = r /\ k[2] = p)
      BY <1>0, <2>6
    <3>2. \A u : Bears(k, u)' <=> Bears(k, u)
      BY <2>4, <3>1
    <3>3. QED
      BY <3>2, StampsBear
  <2>7. QED
    BY <1>2, <2>5, <2>6 DEF k0
<1>4. CASE CloseFault(r, p, t)
  <2>1. /\ DOMAIN faults' = DOMAIN faults
        /\ \A i \in DOMAIN faults :
             /\ faults'[i].rule = faults[i].rule /\ faults'[i].point = faults[i].point
             /\ faults'[i].started = faults[i].started
             /\ faults'[i].ended = IF IsOpen(i, r, p) THEN t ELSE faults[i].ended
    BY <1>4, CloseFaultEffect
  <2>2. PICK i0 \in DOMAIN faults : IsOpen(i0, r, p)
    BY <1>4 DEF CloseFault, OpenRows
  <2>3. t \in Stamps(k0)'
    <3>1. faults'[i0].rule = r /\ faults'[i0].point = p /\ faults'[i0].ended = t
      BY <2>1, <2>2 DEF IsOpen
    <3>2. Bears(k0, t)'
      BY <1>0, <2>1, <2>2, <3>1 DEF Bears
    <3>3. QED
      BY <3>2, StampsBear
  <2>4. \A u : Bears(k0, u)' => u = t \/ Bears(k0, u)
    BY <2>1 DEF Bears
  <2>5. \A u \in Stamps(k0)' : u <= t
    BY <1>2, <2>4, StampsBear
  <2>6. ASSUME NEW k \in Key, k # k0 PROVE Stamps(k)' = Stamps(k)
    <3>1. ~(k[1] = r /\ k[2] = p)
      BY <1>0, <2>6
    <3>2. \A i \in DOMAIN faults : faults[i].rule = k[1] /\ faults[i].point = k[2] => ~IsOpen(i, r, p)
      BY <3>1 DEF IsOpen
    <3>3. \A u : Bears(k, u)' <=> Bears(k, u)
      BY <2>1, <3>2 DEF Bears
    <3>4. QED
      BY <3>3, StampsBear
  <2>7. QED
    BY <1>2, <2>3, <2>5, <2>6 DEF k0
<1>5. QED
  BY <1>3, <1>4 DEF Statement

\* Annotations and steps that leave the table alone change neither view of it.
LEMMA UntouchedViews ==
  ASSUME faults \in Seq(Row),
         UNCHANGED faults \/ \E i \in DOMAIN faults, m \in Mark : Annotate(i, m)
  PROVE  UNCHANGED <<Active, Since>> /\ (HasLatest => HasLatest')
<1>1. /\ DOMAIN faults' = DOMAIN faults
      /\ \A j \in DOMAIN faults :
           /\ faults'[j].rule = faults[j].rule /\ faults'[j].point = faults[j].point
           /\ faults'[j].started = faults[j].started /\ faults'[j].ended = faults[j].ended
  <2>1. CASE UNCHANGED faults
    BY <2>1
  <2>2. ASSUME NEW i \in DOMAIN faults, NEW m \in Mark, Annotate(i, m)
        PROVE  /\ DOMAIN faults' = DOMAIN faults
               /\ \A j \in DOMAIN faults :
                    /\ faults'[j].rule = faults[j].rule /\ faults'[j].point = faults[j].point
                    /\ faults'[j].started = faults[j].started /\ faults'[j].ended = faults[j].ended
    BY <2>2, AnnotateEffect
  <2>3. QED
    BY <2>1, <2>2
<1>2. ASSUME NEW k PROVE Stamps(k)' = Stamps(k)
  <2>1. \A u : Bears(k, u)' <=> Bears(k, u)
    BY <1>1 DEF Bears
  <2>2. \A u : (u \in Stamps(k)') <=> (u \in Stamps(k))
    BY <2>1, StampsBear
  <2>3. QED
    BY <2>2 DEF Stamps
<1>3. \A r, p : FaultOpen(r, p)' <=> FaultOpen(r, p)
  BY <1>1, OpenIs DEF IsOpen
<1>4. QED
  BY <1>2, <1>3 DEF Active, Since, HasLatest

LEMMA StatementLatest ==
  ASSUME faults \in Seq(Row), faults' \in Seq(Row), HasLatest,
         NEW r \in Rule, NEW p \in Point, NEW t \in Nat, Statement(r, p, t)
  PROVE  /\ HasLatest'
         /\ <<r, p>> \in Key
         /\ Since[<<r, p>>] <= t
         /\ Since' = [Since EXCEPT ![<<r, p>>] = t]
<1> DEFINE k0 == <<r, p>>
<1>0. k0 \in Key
  BY DEF Key
<1> HIDE DEF k0
<1>1. /\ \A u \in Stamps(k0) : u <= t
      /\ t \in Stamps(k0)' /\ \A u \in Stamps(k0)' : u <= t
      /\ \A k \in Key : k # k0 => Stamps(k)' = Stamps(k)
  BY StatementStamps DEF k0
<1>2. HasLatest'
  <2> SUFFICES ASSUME NEW k \in Key
               PROVE  \E x \in Stamps(k)' \cup {0} : \A u \in Stamps(k)' : u <= x
    BY DEF HasLatest, Key
  <2>1. CASE k = k0
    BY <1>1, <2>1
  <2>2. CASE k # k0
    BY <1>1, <2>2 DEF HasLatest
  <2>3. QED
    BY <2>1, <2>2
<1>3. Since[k0] <= t
  <2>1. PICK x \in Stamps(k0) \cup {0} : \A u \in Stamps(k0) : u <= x
    BY <1>0 DEF HasLatest
  <2>2. Stamps(k0) \in SUBSET Int /\ (Stamps(k0) # {} => Stamps(k0) \cap Nat # {})
    BY <1>0, StampTypes DEF StampsTyped, TableTyped
  <2>3. Latest(Stamps(k0)) = x
    BY <2>1, <2>2, LatestIs
  <2>4. Since[k0] = x
    BY <1>0, <2>3 DEF Since
  <2>5. QED
    BY <1>1, <2>1, <2>4
<1>4. Since'[k0] = t
  <2>1. Stamps(k0)' \in SUBSET Int /\ (Stamps(k0)' # {} => Stamps(k0)' \cap Nat # {})
    BY <1>0, StampTypesThen DEF StampsTyped, TableTyped, Key
  <2>2. Latest(Stamps(k0)') = t
    BY <1>1, <2>1, LatestIs
  <2>3. QED
    BY <1>0, <2>2 DEF Since
<1>5. \A k \in Key : k # k0 => Since'[k] = Since[k]
  BY <1>1 DEF Since
<1>6. QED
  BY <1>0, <1>2, <1>3, <1>4, <1>5 DEF Since, k0

\* Only INSERT puts a pair in fault, and only the UPDATE takes it out.
LEMMA StatementActive ==
  ASSUME faults \in Seq(Row), NEW r \in Rule, NEW p \in Point, NEW t \in Nat
  PROVE  /\ OpenFault(r, p, t) => <<r, p>> \notin Active /\ Active' = Active \cup {<<r, p>>}
         /\ CloseFault(r, p, t) => <<r, p>> \in Active /\ Active' = Active \ {<<r, p>>}
<1> DEFINE k0 == <<r, p>>
<1>0. k0 \in Key /\ \A k \in Key : k = <<k[1], k[2]>> /\ (k[1] = r /\ k[2] = p <=> k = k0)
  BY DEF Key
<1>1. k0 \in Active <=> FaultOpen(r, p)
  BY <1>0 DEF Active
<1> HIDE DEF k0
<1>2. ASSUME OpenFault(r, p, t) PROVE k0 \notin Active /\ Active' = Active \cup {k0}
  <2>0. PICK n : n = Len(faults) + 1
    OBVIOUS
  <2>1. faults'[n] = [rule |-> r, point |-> p, started |-> t, ended |-> Open, marks |-> {}]
    BY <1>2, <2>0, OpenFaultEffect
  <2>2. /\ DOMAIN faults' = DOMAIN faults \cup {n} /\ n \notin DOMAIN faults
        /\ \A i \in DOMAIN faults : faults'[i] = faults[i]
        /\ faults'[n].rule = r /\ faults'[n].point = p /\ faults'[n].ended = Open
    <3>1. /\ DOMAIN faults' = 1 .. Len(faults) + 1 /\ DOMAIN faults = 1 .. Len(faults) /\ Len(faults) \in Nat
          /\ \A i \in DOMAIN faults : faults'[i] = faults[i]
      BY <1>2, OpenFaultEffect
    <3>2. QED
      BY <2>0, <2>1, <3>1
  <2>3. ASSUME NEW k \in Key
        PROVE  FaultOpen(k[1], k[2])' <=> FaultOpen(k[1], k[2]) \/ k = k0
    <3>1. \A i \in DOMAIN faults : IsOpen(i, k[1], k[2])' <=> IsOpen(i, k[1], k[2])
      BY <2>2 DEF IsOpen
    <3>2. IsOpen(n, k[1], k[2])' <=> k = k0
      BY <1>0, <2>2 DEF IsOpen
    <3>3. QED
      BY <2>2, <3>1, <3>2, OpenIs
  <2>4. ~FaultOpen(r, p)
    BY <1>2 DEF OpenFault, FaultOpen
  <2>5. QED
    BY <1>0, <1>1, <2>3, <2>4 DEF Active
<1>3. ASSUME CloseFault(r, p, t) PROVE k0 \in Active /\ Active' = Active \ {k0}
  <2>1. /\ DOMAIN faults' = DOMAIN faults
        /\ \A i \in DOMAIN faults :
             /\ faults'[i].rule = faults[i].rule /\ faults'[i].point = faults[i].point
             /\ faults'[i].ended = IF IsOpen(i, r, p) THEN t ELSE faults[i].ended
    BY <1>3, CloseFaultEffect
  <2>2. ASSUME NEW k \in Key
        PROVE  FaultOpen(k[1], k[2])' <=> FaultOpen(k[1], k[2]) /\ k # k0
    <3>1. ASSUME NEW i \in DOMAIN faults
          PROVE  IsOpen(i, k[1], k[2])' <=> IsOpen(i, k[1], k[2]) /\ k # k0
      <4>1. t # Open
        BY DEF Open
      <4>2. QED
        BY <1>0, <2>1, <4>1 DEF IsOpen
    <3>2. QED
      BY <2>1, <3>1, OpenIs
  <2>3. FaultOpen(r, p)
    BY <1>3 DEF CloseFault, FaultOpen
  <2>4. QED
    BY <1>0, <1>1, <2>2, <2>3 DEF Active
<1>4. QED
  BY <1>2, <1>3 DEF k0

LEMMA LatestInductive == (Init => HasLatest) /\ (IInv /\ HasLatest /\ [Next]_vars => HasLatest')
<1>1. Init => HasLatest
  BY DEF Init, HasLatest, Stamps
<1>2. ASSUME IInv, HasLatest, [Next]_vars PROVE HasLatest'
  <2>1. faults \in Seq(Row) /\ faults' \in Seq(Row)
    BY <1>2, ShapeInductive DEF IInv, Shape, TypeOK
  <2>2. ASSUME NEW r \in Rule, NEW p \in Point, NEW t \in Nat, Statement(r, p, t) PROVE HasLatest'
    BY <1>2, <2>1, <2>2, StatementLatest
  <2>3. QED
    BY <1>2, <2>1, <2>2, TableSteps, UntouchedViews
<1>3. QED
  BY <1>1, <1>2

\* The table of rows, with its partial index, its two threads, restarts and
\* edits, is an implementation of the episodes a reader of fault-detection.mdx
\* expects: per rule and point raised and cleared in turn, each not before the
\* transition that went before it.
THEOREM LifecycleImplemented == Spec => ImplementsLifecycle
<1>1. Init => Lifecycle!Init
  <2> SUFFICES ASSUME Init PROVE Active = {} /\ Since = [k \in Key |-> 0]
    BY DEF Lifecycle!Init
  <2>1. faults = <<>> /\ DOMAIN faults = {}
    BY DEF Init
  <2>2. Active = {}
    BY <2>1 DEF Active, FaultOpen, OpenRows
  <2>3. \A k \in Key : Stamps(k) = {}
    BY <2>1 DEF Stamps
  <2>4. Latest({}) = 0
    BY LatestIs
  <2>5. QED
    BY <2>2, <2>3, <2>4 DEF Since
<1>2. IInv /\ HasLatest /\ [Next]_vars => [Lifecycle!Next]_<<Active, Since>>
  <2> SUFFICES ASSUME IInv, HasLatest, [Next]_vars PROVE [Lifecycle!Next]_<<Active, Since>>
    OBVIOUS
  <2>1. faults \in Seq(Row) /\ faults' \in Seq(Row)
    BY ShapeInductive DEF IInv, Shape, TypeOK
  <2>2. ASSUME NEW r \in Rule, NEW p \in Point, NEW t \in Nat, Statement(r, p, t)
        PROVE  Lifecycle!Next
    <3> DEFINE k0 == <<r, p>>
    <3>1. k0 \in Key /\ Since[k0] <= t /\ Since' = [Since EXCEPT ![k0] = t]
      BY <2>1, <2>2, StatementLatest
    <3>2. Since'[k0] = t
      BY <3>1 DEF Since
    <3>3. \/ k0 \notin Active /\ Active' = Active \cup {k0}
          \/ k0 \in Active /\ Active' = Active \ {k0}
      BY <2>1, <2>2, StatementActive DEF Statement
    <3> HIDE DEF k0
    <3>4. Lifecycle!Raise(k0, Since'[k0]) \/ Lifecycle!Clear(k0, Since'[k0])
      BY <3>1, <3>2, <3>3 DEF Lifecycle!Raise, Lifecycle!Clear
    <3>5. QED
      BY <3>1, <3>4 DEF Lifecycle!Next, Lifecycle!Transition
  <2>3. QED
    BY <2>1, <2>2, TableSteps, UntouchedViews
<1>3. QED
  BY <1>1, <1>2, IInvInductive, LatestInductive, PTL DEF Spec, ImplementsLifecycle, Lifecycle!Spec
=============================================================================
