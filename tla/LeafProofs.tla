---------------------------- MODULE LeafProofs ----------------------------
(***************************************************************************)
(* Proofs about the components no other module builds on.                  *)
(*                                                                         *)
(* HealthBreaker, for any number of threads, any threshold and any number  *)
(* of attempts, enables and crashes.                                       *)
(* RuleCache, for any number of threads and saves.                         *)
(* OpsStatus, for any components, tables, quiet time and changes.          *)
(* HisSpan, for any span but pastWeek, any zone, clock and years.          *)
(***************************************************************************)
EXTENDS HealthBreaker, RuleCache, OpsStatus, HisSpan, WellFoundedInduction, TLAPS
-----------------------------------------------------------------------------
(* HealthBreaker.                                                          *)

\* Inductive: a thread about to disable the webhook exists whenever the count
\* is at the limit and the flag is not set; a thread started too late has not
\* passed the test, because the flag it will read is still set; and a thread
\* that may attempt has an attempt left.
IInv ==
  /\ TypeOK
  /\ ThresholdEnforced
  /\ \A w \in Worker :
       /\ late[w] => row.disabled /\ pc[w] \in {"idle", "check"}
       /\ pc[w] = "deliver" => tries[w] < MaxAttempts

Row == [failures : 0 .. Threshold, disabled : BOOLEAN]

LEMMA InitIInv == Init => IInv
BY LimitAssumption
   DEF Init, IInv, TypeOK, ThresholdEnforced, NoRow, Pc

\* The steps that leave the row alone and move one thread, not to or from
\* "disable".
LEMMA MovesKeep ==
  ASSUME IInv, NEW w \in Worker, NEW to \in Pc, Go(w, to), to # "disable", pc[w] # "disable",
         UNCHANGED <<row, breaks>>
  PROVE  ThresholdEnforced' /\ pc' \in [Worker -> Pc]
<1>1. pc' \in [Worker -> Pc] /\ \A v \in Worker : v # w => pc'[v] = pc[v]
  BY DEF IInv, TypeOK, Go
<1>2. QED
  BY <1>1 DEF IInv, ThresholdEnforced

LEMMA NextIInv == IInv /\ [Next]_vars => IInv'
<1> SUFFICES ASSUME IInv, [Next]_vars PROVE IInv'
  OBVIOUS
<1> USE LimitAssumption
<1>1. ASSUME NEW w \in Worker, Start(w) PROVE IInv'
  <2>1. "check" \in Pc /\ pc[w] # "disable" /\ Go(w, "check")
    BY <1>1 DEF Start, Pc
  <2>2. ThresholdEnforced' /\ pc' \in [Worker -> Pc]
    BY <1>1, <2>1, MovesKeep DEF Start
  <2>3. QED
    BY <1>1, <2>2 DEF Start, Go, IInv, TypeOK
<1>2. ASSUME NEW w \in Worker, Check(w) PROVE IInv'
  <2> DEFINE to == IF row.disabled THEN "idle" ELSE "deliver"
  <2>1. to \in Pc /\ to # "disable" /\ pc[w] # "disable" /\ Go(w, to)
    BY <1>2 DEF Check, Pc
  <2>2. ThresholdEnforced' /\ pc' \in [Worker -> Pc]
    BY <1>2, <2>1, MovesKeep DEF Check
  <2>3. QED
    BY <1>2, <2>2 DEF Check, Go, IInv, TypeOK
<1>3. ASSUME NEW w \in Worker, Attempt(w) PROVE IInv'
  <2>1. pc[w] = "deliver" /\ tries[w] < MaxAttempts /\ tries[w] \in Nat /\ ~late[w]
    BY <1>3 DEF Attempt, IInv, TypeOK
  <2>2. PICK to \in {"success", "failure", "deliver"} :
          Go(w, to) /\ (to = "deliver" => tries[w] + 1 < MaxAttempts)
    BY <1>3 DEF Attempt
  <2>3. ThresholdEnforced' /\ pc' \in [Worker -> Pc]
    BY <1>3, <2>1, <2>2, MovesKeep DEF Attempt, Pc
  <2>4. tries' \in [Worker -> 0 .. MaxAttempts]
    BY <1>3, <2>1 DEF Attempt, IInv, TypeOK
  <2>5. QED
    BY <1>3, <2>1, <2>2, <2>3, <2>4 DEF Attempt, Go, IInv, TypeOK
<1>4. ASSUME NEW w \in Worker, RecordSuccess(w) PROVE IInv'
  <2>0. row \in Row /\ 0 \in 0 .. Threshold
    BY DEF IInv, TypeOK, Row
  <2>1. row'.failures = 0 /\ row'.disabled = row.disabled /\ row' \in Row
    BY <1>4, <2>0 DEF RecordSuccess, Row
  <2>2. pc' \in [Worker -> Pc]
    BY <1>4 DEF Row, RecordSuccess, Go, IInv, TypeOK, Pc
  <2>3. QED
    BY <1>4, <2>1, <2>2 DEF Row, RecordSuccess, Go, IInv, TypeOK, ThresholdEnforced
<1>5. ASSUME NEW w \in Worker, CountFailure(w) PROVE IInv'
  <2> DEFINE n == IF row.failures < Threshold THEN row.failures + 1 ELSE Threshold
  <2>0. row \in Row /\ row.failures \in 0 .. Threshold
    BY DEF IInv, TypeOK, Row
  <2>0a. n \in 0 .. Threshold
    BY <2>0
  <2>0b. row' = [row EXCEPT !.failures = n]
    BY <1>5 DEF CountFailure
  <2> HIDE DEF n
  <2>1. row' \in Row /\ row'.disabled = row.disabled
    BY <2>0, <2>0a, <2>0b DEF Row
  <2>2. /\ pc' \in [Worker -> Pc] /\ \A v \in Worker : v # w => pc'[v] = pc[v]
        /\ pc'[w] = IF row'.failures >= Threshold THEN "disable" ELSE "idle"
    BY <1>5 DEF CountFailure, Go, IInv, TypeOK, Pc
  <2>3. ThresholdEnforced'
    BY <2>2 DEF ThresholdEnforced
  <2>4. ~late[w]
    BY <1>5 DEF CountFailure, IInv
  <2>5. QED
    BY <1>5, <2>1, <2>2, <2>3, <2>4 DEF Row, CountFailure, IInv, TypeOK
<1>6. ASSUME NEW w \in Worker, Disable(w) PROVE IInv'
  <2>0. row \in Row /\ row.failures \in 0 .. Threshold
    BY DEF IInv, TypeOK, Row
  <2>1. row'.disabled /\ row' \in Row
    BY <1>6, <2>0 DEF Disable, Row
  <2>2. pc' \in [Worker -> Pc] /\ pc'[w] = "idle" /\ \A v \in Worker : v # w => pc'[v] = pc[v]
    BY <1>6 DEF Disable, Go, IInv, TypeOK, Pc
  <2>3. QED
    BY <1>6, <2>1, <2>2 DEF Row, Disable, IInv, TypeOK, ThresholdEnforced
<1>7. CASE Enable
  <2>1. row'.failures = 0 /\ row' \in Row
    BY <1>7 DEF Enable, NoRow, Row
  <2>2. QED
    BY <1>7, <2>1 DEF Row, Enable, IInv, TypeOK, ThresholdEnforced
<1>8. CASE EndpointChanges
  BY <1>8 DEF EndpointChanges, IInv, TypeOK, ThresholdEnforced
<1>9. CASE Crash
  BY <1>9 DEF Crash, Break, IInv, TypeOK, ThresholdEnforced, Pc
<1>r. ASSUME NEW w \in Worker, Raise(w) PROVE IInv'
  <2>1. /\ pc' \in [Worker -> Pc] /\ pc'[w] = "idle" /\ \A v \in Worker : v # w => pc'[v] = pc[v]
        /\ breaks \in Nat /\ breaks' = breaks + 1 /\ breaks' \in 0 .. MaxBreaks
    BY <1>r DEF Raise, Break, Go, IInv, TypeOK, Pc
  <2>2. breaks' # 0
    BY <2>1
  <2>3. TypeOK'
    BY <1>r, <2>1 DEF Raise, IInv, TypeOK
  <2>4. QED
    BY <1>r, <2>1, <2>2, <2>3 DEF Raise, IInv, ThresholdEnforced
<1>10. CASE UNCHANGED vars
  BY <1>10 DEF vars, IInv, TypeOK, ThresholdEnforced
<1>11. QED
  BY <1>1, <1>2, <1>3, <1>4, <1>5, <1>6, <1>7, <1>8, <1>9, <1>r, <1>10 DEF Next, Work

\* The shape of the state, for any constants.
THEOREM TypeCorrect == Spec => []TypeOK
<1>1. IInv => TypeOK
  BY DEF IInv
<1>2. QED
  BY <1>1, InitIInv, NextIInv, PTL DEF Spec

\* Over the limit and not yet disabled means: a thread is about to do it.
THEOREM ThresholdIsEnforced == Spec => []ThresholdEnforced
<1>1. IInv => ThresholdEnforced
  BY DEF IInv
<1>2. QED
  BY <1>1, InitIInv, NextIInv, PTL DEF Spec

\* Nothing is sent to a disabled webhook for an event that came after.
THEOREM DisabledIsLeftAlone == Spec => []DisabledLeftAlone
<1>1. IInv => DisabledLeftAlone
  BY DEF IInv, DisabledLeftAlone
<1>2. QED
  BY <1>1, InitIInv, NextIInv, PTL DEF Spec

\* The only step that takes the flag back is the human's.
THEOREM HumanEnables == Spec => OnlyHumanEnables
<1>1. TypeOK /\ [Next]_vars => [row.disabled /\ ~row'.disabled => enables' = enables + 1]_row
  <2> SUFFICES ASSUME TypeOK, [Next]_vars, row.disabled, ~row'.disabled
               PROVE  enables' = enables + 1
    OBVIOUS
  <2>1. ASSUME NEW w \in Worker, Start(w) \/ Work(w) \/ Raise(w) PROVE row'.disabled
    BY <2>1 DEF Start, Work, Raise, Check, Attempt, RecordSuccess, CountFailure, Disable, TypeOK
  <2>2. QED
    BY <2>1 DEF Next, vars, Enable, EndpointChanges, Crash
<1>2. QED
  BY <1>1, TypeCorrect, PTL DEF Spec, OnlyHumanEnables
-----------------------------------------------------------------------------
(* RuleCache, for any threads that share it.                               *)

\* Inductive: the file's mtime numbers its saves, and nothing is newer than the file.
Numbered ==
  /\ CacheTypeOK /\ file.content = file.mtime
  /\ mtime <= file.content /\ records <= file.content
  /\ \A t \in Thread : /\ since[t] = seen[t] /\ seen[t] <= file.content /\ buf[t] <= file.content
                       /\ step[t] \in {"missing", "dropMtime", "dropRoster"} => seen[t] = 0

\* And when no thread was in get() at the last save, whoever is in it now came after:
\* it has seen the mtime of that save and read its content, and that mtime is never
\* remembered with other records.
Current(t) ==
  /\ step[t] # "idle" => seen[t] = file.content
  /\ step[t] = "setRecords" => buf[t] = file.content
  /\ step[t] \in {"setMtime", "build", "setRoster"} => records = file.content
  /\ step[t] = "idle" /\ since[t] = file.content => records = file.content
Settled ==
  calm => /\ mtime = file.content => records = file.content
          /\ \A t \in Thread : Current(t)

LEMMA CacheStart == CacheInit => Numbered /\ Settled
BY BoundAssumption DEF CacheInit, Numbered, CacheTypeOK, Settled, Current, Version, Step

LEMMA CacheNextNumbered == Numbered /\ [CacheNext]_cacheVars => Numbered'
<1> SUFFICES ASSUME Numbered, [CacheNext]_cacheVars PROVE Numbered'
  OBVIOUS
<1> USE BoundAssumption DEF cache
<1>t. /\ file.content \in Nat /\ file.mtime = file.content /\ mtime \in Nat /\ records \in Nat
      /\ \A t \in Thread : seen[t] \in Nat /\ buf[t] \in Nat /\ since[t] \in Nat
  BY DEF Numbered, CacheTypeOK, Version
<1>1. CASE Save
  <2>1. calm' \in BOOLEAN
    BY <1>1 DEF Save, Quiet
  <2>2. /\ file' \in [content : Version, mtime : Version] /\ file'.content = file.content + 1
        /\ file'.mtime = file'.content
    BY <1>t, <1>1 DEF Save, Numbered, CacheTypeOK, Version
  <2>3. QED
    BY <1>t, <1>1, <2>1, <2>2 DEF Save, Numbered, CacheTypeOK
<1>2. ASSUME NEW t \in Thread, Get(t) PROVE Numbered'
  <2>1. CASE Stat(t)
    BY <1>t, <2>1 DEF Stat, GoOn, Numbered, CacheTypeOK, Step
  <2>2. CASE DropRecords(t)
    BY <1>t, <2>2 DEF DropRecords, GoOn, Numbered, CacheTypeOK, Step, Version
  <2>a. CASE DropMtime(t)
    BY <1>t, <2>a DEF DropMtime, GoOn, Numbered, CacheTypeOK, Step, Version
  <2>b. CASE DropRoster(t)
    BY <1>t, <2>b DEF DropRoster, GoOn, Numbered, CacheTypeOK, Step, Version
  <2>3. CASE Compare(t)
    BY <1>t, <2>3 DEF Compare, GoOn, Numbered, CacheTypeOK, Step
  <2>4. CASE Load(t)
    BY <1>t, <2>4 DEF Load, GoOn, Hold, Numbered, CacheTypeOK, Step
  <2>5. CASE SetRecords(t)
    BY <1>t, <2>5 DEF SetRecords, GoOn, Numbered, CacheTypeOK, Step
  <2>6. CASE SetMtime(t)
    BY <1>t, <2>6 DEF SetMtime, GoOn, Numbered, CacheTypeOK, Step
  <2>7. CASE Build(t)
    BY <1>t, <2>7 DEF Build, GoOn, Hold, Numbered, CacheTypeOK, Step
  <2>8. CASE SetRoster(t)
    BY <1>t, <2>8 DEF SetRoster, GoOn, Numbered, CacheTypeOK, Step
  <2>9. QED
    BY <1>2, <2>1, <2>2, <2>a, <2>b, <2>3, <2>4, <2>5, <2>6, <2>7, <2>8 DEF Get
<1>3. CASE UNCHANGED cacheVars
  BY <1>3 DEF cacheVars, Numbered, CacheTypeOK
<1>4. QED
  BY <1>1, <1>2, <1>3 DEF CacheNext

LEMMA CacheNextSettled == Numbered /\ Settled /\ [CacheNext]_cacheVars => Settled'
<1> SUFFICES ASSUME Numbered, Settled, [CacheNext]_cacheVars, calm'
             PROVE  /\ mtime' = file'.content => records' = file'.content
                    /\ \A t \in Thread : Current(t)'
  BY DEF Settled
<1> USE DEF cache
<1>t. /\ file.content \in Nat /\ file.mtime = file.content /\ mtime \in Nat /\ records \in Nat
      /\ mtime <= file.content /\ records <= file.content
      /\ \A t \in Thread :
           /\ seen[t] \in Nat /\ buf[t] \in Nat /\ since[t] = seen[t] /\ seen[t] <= file.content
           /\ t \in DOMAIN step /\ t \in DOMAIN seen /\ t \in DOMAIN buf /\ t \in DOMAIN since
           /\ step[t] \in {"missing", "dropMtime", "dropRoster"} => seen[t] = 0
  BY BoundAssumption DEF Numbered, CacheTypeOK, Version
<1>1. CASE Save
  <2>1. Quiet
    BY <1>1 DEF Save
  <2>2. \A t \in Thread : step[t] = "idle"
    BY <2>1 DEF Quiet
  <2>3. /\ file'.content = file.content + 1 /\ mtime' = mtime /\ step' = step /\ since' = since
        /\ \A t \in Thread : since[t] <= file.content
    BY <1>t, <1>1 DEF Save
  <2>4. /\ mtime' # file'.content
        /\ \A t \in Thread : step'[t] = "idle" /\ since'[t] # file'.content
    BY <1>t, <2>2, <2>3
  <2>5. QED
    BY <2>4 DEF Current
<1>2. ASSUME NEW t \in Thread, Get(t)
      PROVE  /\ mtime' = file'.content => records' = file'.content
             /\ \A u \in Thread : Current(u)'
  <2>1. calm /\ file' = file
    BY <1>2 DEF Get, Stat, DropRecords, DropMtime, DropRoster, Compare, Load, SetRecords, SetMtime, Build, SetRoster
  <2>2. (mtime = file.content => records = file.content) /\ \A u \in Thread : Current(u)
    BY <2>1 DEF Settled
  <2>3. CASE Stat(t)
    BY <1>t, <2>2, <2>3 DEF Stat, GoOn, Current
  <2>4. CASE DropRecords(t) \/ DropMtime(t) \/ DropRoster(t)
    <3>1. step[t] \in {"missing", "dropMtime", "dropRoster"}
      BY <2>4 DEF DropRecords, DropMtime, DropRoster
    <3>a. step[t] # "idle"
      BY <3>1
    <3>b. seen[t] = 0 /\ seen[t] = file.content
      BY <1>t, <2>2, <3>1, <3>a DEF Current
    <3>c. file.content = 0 /\ records = 0
      BY <1>t, <3>b
    <3>2. QED
      BY <1>t, <2>2, <2>4, <3>c DEF DropRecords, DropMtime, DropRoster, GoOn, Current
  <2>5. CASE Compare(t)
    BY <1>t, <2>2, <2>5 DEF Compare, GoOn, Current
  <2>6. CASE Load(t)
    BY <1>t, <2>2, <2>6 DEF Load, GoOn, Hold, Current
  <2>7. CASE SetRecords(t)
    BY <1>t, <2>2, <2>7 DEF SetRecords, GoOn, Current
  <2>8. CASE SetMtime(t)
    BY <1>t, <2>2, <2>8 DEF SetMtime, GoOn, Current
  <2>9. CASE Build(t)
    BY <1>t, <2>2, <2>9 DEF Build, GoOn, Hold, Current
  <2>10. CASE SetRoster(t)
    BY <1>t, <2>2, <2>10 DEF SetRoster, GoOn, Current
  <2>11. QED
    BY <1>2, <2>3, <2>4, <2>5, <2>6, <2>7, <2>8, <2>9, <2>10 DEF Get
<1>3. CASE UNCHANGED cacheVars
  BY <1>3 DEF cacheVars, Settled, Current
<1>4. QED
  BY <1>1, <1>2, <1>3 DEF CacheNext

\* The shape of the state, for any threads.
THEOREM CacheTypeCorrect == CacheSpec => []CacheTypeOK
<1>1. Numbered => CacheTypeOK
  BY DEF Numbered
<1>2. QED
  BY <1>1, CacheStart, CacheNextNumbered, PTL DEF CacheSpec

\* However many threads share the copy and however their lines interleave, before and
\* after: a save that finds none of them in get() is what every call that begins
\* after it returns, until the next save.
THEOREM CalmSaveIsServed == CacheSpec => []FreshAfterCalmSave
<1> DEFINE Inv == Numbered /\ Settled
<1>1. CacheInit => Inv
  BY CacheStart
<1>2. Inv /\ [CacheNext]_cacheVars => Inv'
  BY CacheNextNumbered, CacheNextSettled
<1>3. Inv => FreshAfterCalmSave
  BY DEF Settled, Current, FreshAfterCalmSave
<1>4. QED
  BY <1>1, <1>2, <1>3, PTL DEF CacheSpec
-----------------------------------------------------------------------------
(* OpsStatus.                                                              *)

Answer == {"ok", "refused", "none"}
Moment == [answers : [Direct -> Answer], db : Seen]

\* What is known of the platform while it is asked: it is at one of the moments of
\* the request, the signals are of another, and each probe's state of a third.
Witnessed ==
  /\ Present \in past
  /\ \E m \in past : building = Signals(m)
  /\ \A c \in DOMAIN results \intersect Direct :
       /\ results[c] \in {"ok", "down"}
       /\ \E m \in past : results[c] = "ok" <=> Reachable(c, m.answers[c])

OpsInv ==
  /\ Present \in Moment /\ past \subseteq Moment
  /\ phase \in {"idle", "probing", "done"}
  /\ phase = "idle" => DOMAIN results = {}
  /\ phase = "probing" => Witnessed /\ DOMAIN results \subseteq Direct
  /\ StatusTruthful

LEMMA OpsStart == OpsInit => OpsInv
<1> SUFFICES ASSUME OpsInit PROVE OpsInv
  OBVIOUS
<1>1. answers \in [Direct -> Answer] /\ db \in Seen
  BY DEF OpsInit, Answer
<1>2. phase = "idle" /\ results = <<>> /\ past = {}
  BY DEF OpsInit, Begin
<1>3. DOMAIN results = {}
  BY <1>2
<1>4. QED
  BY <1>1, <1>2, <1>3 DEF OpsInv, Moment, Present, StatusTruthful

LEMMA SignalsKeep == OpsInv /\ BuildingSignals => OpsInv'
<1> SUFFICES ASSUME OpsInv, BuildingSignals PROVE OpsInv'
  OBVIOUS
<1>1. Present' = Present /\ past' = {Present} /\ building' = Signals(Present) /\ phase' = "probing"
      /\ results' = results /\ DOMAIN results = {}
  BY DEF BuildingSignals, Present, OpsInv
<1>2. Witnessed'
  BY <1>1 DEF Witnessed
<1>3. QED
  BY <1>1, <1>2 DEF OpsInv, StatusTruthful

LEMMA ProbeKeeps == ASSUME NEW c \in Direct PROVE OpsInv /\ ProbeDirect(c) => OpsInv'
<1> SUFFICES ASSUME OpsInv, ProbeDirect(c) PROVE OpsInv'
  OBVIOUS
<1>1. Present' = Present /\ past' = past /\ building' = building /\ phase = "probing" /\ phase' = phase
  BY DEF ProbeDirect, Present
<1>2. /\ DOMAIN results' = DOMAIN results \union {c}
      /\ results'[c] = IF Reachable(c, answers[c]) THEN "ok" ELSE "down"
      /\ \A x \in DOMAIN results : x # c => results'[x] = results[x]
  BY DEF ProbeDirect
<1>3. Witnessed /\ DOMAIN results \subseteq Direct
  BY <1>1 DEF OpsInv
<1>4. Present.answers = answers /\ Present \in past
  BY <1>3 DEF Present, Witnessed
<1>5. ASSUME NEW x \in DOMAIN results' \intersect Direct
      PROVE  /\ results'[x] \in {"ok", "down"}
             /\ \E m \in past : results'[x] = "ok" <=> Reachable(x, m.answers[x])
  <2>1. CASE x = c
    BY <1>2, <1>4, <2>1
  <2>2. CASE x # c
    BY <1>2, <1>3, <2>2 DEF Witnessed
  <2>3. QED
    BY <2>1, <2>2
<1>6. Witnessed'
  BY <1>1, <1>3, <1>5 DEF Witnessed
<1>7. QED
  BY <1>1, <1>2, <1>3, <1>6 DEF OpsInv, StatusTruthful

LEMMA ChangeKeeps == OpsInv /\ Change => OpsInv'
<1> SUFFICES ASSUME OpsInv, Change PROVE OpsInv'
  OBVIOUS
<1>1. /\ phase = "probing" /\ phase' = phase /\ building' = building /\ results' = results
      /\ past' = past \union {Present'}
  BY DEF Change
<1>2. answers \in [Direct -> Answer] /\ db \in Seen
  BY DEF OpsInv, Moment, Present
<1>3. answers' \in [Direct -> Answer] /\ db' \in Seen
  BY <1>2 DEF Change, Answer
<1>4. Present' \in Moment /\ Present' \in past'
  BY <1>1, <1>3 DEF Present, Moment
<1>5. Witnessed'
  BY <1>1, <1>4 DEF OpsInv, Witnessed
<1>6. QED
  BY <1>1, <1>4, <1>5 DEF OpsInv, StatusTruthful

\* The states the answer gives, once every probe has come back.
LEMMA Collected ==
  ASSUME OpsInv, CollectStatus
  PROVE  /\ past' = past /\ building' = building /\ Witnessed
         /\ DOMAIN results' = DOMAIN COMPONENTS
         /\ \A c \in Direct : results'[c] = results[c] /\ c \in DOMAIN results
         /\ \E states : /\ \A p \in Layer("platform") : p \in DOMAIN states /\ states[p] = results[p]
                        /\ \A c \in DOMAIN COMPONENTS \ Direct : results'[c] = Infer(c, states)
         /\ summary' = RankSummary(results')
<1> DEFINE platform == [c \in DOMAIN results \intersect Layer("platform") |-> results[c]]
<1>1. Witnessed /\ DOMAIN results = Direct
  BY DEF OpsInv, CollectStatus, Unprobed
<1>2. \A c \in DOMAIN COMPONENTS : results'[c] = IF c \in Direct THEN results[c] ELSE Infer(c, platform)
  BY DEF CollectStatus
<1>3. Layer("platform") \subseteq Direct
  BY ComponentAssumption DEF Layer
<1>4. \A p \in Layer("platform") : p \in DOMAIN platform /\ platform[p] = results[p]
  BY <1>1, <1>3
<1> HIDE DEF platform
<1>5. Direct \subseteq DOMAIN COMPONENTS
  BY DEF Direct
<1>6. past' = past /\ building' = building /\ DOMAIN results' = DOMAIN COMPONENTS
      /\ summary' = RankSummary(results')
  BY DEF CollectStatus
<1>7. QED
  BY <1>1, <1>2, <1>4, <1>5, <1>6

\* A component of the platform is Direct; a job is not, and has one of three probes.
LEMMA Layers ==
  ASSUME NEW c \in DOMAIN COMPONENTS
  PROVE  /\ c \in Layer("platform") => c \in Direct /\ c \notin Layer("tools")
         /\ c \notin Direct => c \notin Layer("tools") /\ COMPONENTS[c].probe \in Inferred
         /\ c \in Direct /\ c \notin Layer("tools") => c \in Layer("platform")
BY ComponentAssumption DEF Layer, Direct

\* What a job is said to do, given what the platform's parts were found to be.
LEMMA JobState ==
  ASSUME NEW c \in DOMAIN COMPONENTS, c \notin Direct, NEW states,
         {"historian", "live_bus"} \subseteq DOMAIN states
  PROVE  LET probe == COMPONENTS[c].probe
             quiet == building.last = -1 \/ building.last > OPS_QUIET_INGEST_SECONDS
         IN IF states["historian"] # "ok" \/ (probe = "inferred_ingest" /\ states["live_bus"] # "ok")
            THEN Infer(c, states) = "down"
            ELSE /\ probe = "inferred_ingest" => Infer(c, states) = (IF quiet THEN "quiet" ELSE "ok")
                 /\ probe = "inferred_faults" => Infer(c, states) = "ok"
                 /\ probe = "inferred_derivations" =>
                      Infer(c, states) = (IF building.disabled > 0 THEN "degraded" ELSE "ok")
<1>1. COMPONENTS[c].probe \in Inferred
  BY Layers
<1>2. QED
  BY <1>1 DEF Infer, Inferred

LEMMA CollectKeeps == OpsInv /\ CollectStatus => OpsInv'
<1> SUFFICES ASSUME OpsInv, CollectStatus PROVE OpsInv'
  OBVIOUS
<1> DEFINE ranked == {results'[c] : c \in DOMAIN COMPONENTS \ Layer("tools")}
<1>1. /\ past' = past /\ building' = building /\ Witnessed
      /\ DOMAIN results' = DOMAIN COMPONENTS
      /\ \A c \in Direct : results'[c] = results[c] /\ c \in DOMAIN results
      /\ summary' = RankSummary(results')
  BY Collected
<1>2. PICK states :
        /\ \A p \in Layer("platform") : p \in DOMAIN states /\ states[p] = results[p]
        /\ \A c \in DOMAIN COMPONENTS \ Direct : results'[c] = Infer(c, states)
  BY Collected
<1>3. /\ "down" \in ranked <=> summary' = "down"
      /\ summary' = "ok" <=> "down" \notin ranked /\ "degraded" \notin ranked /\ "quiet" \notin ranked
  BY <1>1 DEF RankSummary
<1>4. ASSUME NEW c \in Layer("platform")
      PROVE  /\ c \in DOMAIN COMPONENTS \ Layer("tools") /\ results'[c] = results[c]
             /\ results[c] \in {"ok", "down"}
             /\ \E m \in past : results[c] = "ok" <=> Reachable(c, m.answers[c])
  BY <1>1, Layers DEF Layer, Witnessed
<1>5. summary' = "ok" => \A c \in Layer("platform") : \E m \in past : Reachable(c, m.answers[c])
  BY <1>3, <1>4
<1>6. ASSUME NEW m \in past, past = {m}, m.db.tables = AllTables
      PROVE  /\ summary' = "down" <=> ~PlatformUp(m)
             /\ summary' = "ok" <=> PlatformUp(m) /\ Busy(m)
             /\ m.answers["historian"] = "ok" => (building.orgs = 0 <=> m.db.orgs = 0)
  <2>1. \A c \in Layer("platform") : results[c] = "ok" <=> Reachable(c, m.answers[c])
    BY <1>4, <1>6
  <2>2. building = Signals(m) /\ m \in Moment
    BY <1>1, <1>6 DEF Witnessed, OpsInv
  <2>3. m.db.last \in Nat \union {-1} /\ m.db.disabled \in Nat /\ m.db.orgs \in Nat
    BY <2>2, ComponentAssumption DEF Moment
  <2>4. /\ {"historian", "live_bus"} \subseteq Layer("platform")
        /\ \A a : Reachable("historian", a) <=> a = "ok"
    BY ComponentAssumption DEF Reachable
  <2>5. ASSUME m.answers["historian"] = "ok"
        PROVE  /\ building.last = m.db.last /\ building.disabled = m.db.disabled
               /\ building.orgs = m.db.orgs
    BY <1>6, <2>2, <2>5 DEF Signals, AllTables
  <2>6. {"historian", "live_bus"} \subseteq DOMAIN states
    BY <1>2, <2>4
  <2>7. ASSUME ~PlatformUp(m)
        PROVE  "down" \in ranked
    <3>1. PICK c \in Layer("platform") : ~Reachable(c, m.answers[c])
      BY <2>7 DEF PlatformUp
    <3>2. results'[c] = "down" /\ c \in DOMAIN COMPONENTS \ Layer("tools")
      BY <1>4, <2>1, <3>1
    <3>3. QED
      BY <3>2
  <2>8. ASSUME PlatformUp(m)
        PROVE  "down" \notin ranked /\ (Busy(m) <=> "degraded" \notin ranked /\ "quiet" \notin ranked)
    <3>1. states["historian"] = "ok" /\ states["live_bus"] = "ok" /\ m.answers["historian"] = "ok"
      BY <1>2, <2>1, <2>4, <2>8 DEF PlatformUp
    <3>2. \A c \in Layer("platform") : results'[c] = "ok"
      BY <1>4, <2>1, <2>8 DEF PlatformUp
    <3> DEFINE quiet == m.db.last = -1 \/ m.db.last > OPS_QUIET_INGEST_SECONDS
    <3>3. ASSUME NEW c \in DOMAIN COMPONENTS, c \notin Direct
          PROVE  /\ COMPONENTS[c].probe \in Inferred
                 /\ COMPONENTS[c].probe = "inferred_ingest" => results'[c] = (IF quiet THEN "quiet" ELSE "ok")
                 /\ COMPONENTS[c].probe = "inferred_faults" => results'[c] = "ok"
                 /\ COMPONENTS[c].probe = "inferred_derivations" =>
                      results'[c] = (IF m.db.disabled > 0 THEN "degraded" ELSE "ok")
      BY <1>2, <2>5, <2>6, <3>1, <3>3, Layers, JobState
    <3>4. Busy(m) <=> ~quiet /\ ~(m.db.disabled > 0)
      BY <2>3, ComponentAssumption DEF Busy
    <3> HIDE DEF quiet
    <3>5. \A c \in DOMAIN COMPONENTS \ Layer("tools") :
            /\ results'[c] # "down"
            /\ results'[c] = "quiet" => quiet
            /\ results'[c] = "degraded" => m.db.disabled > 0
      BY <3>2, <3>3, Layers DEF Inferred
    <3>6. PICK i \in DOMAIN COMPONENTS : COMPONENTS[i].probe = "inferred_ingest"
      BY ComponentAssumption
    <3>7. PICK d \in DOMAIN COMPONENTS : COMPONENTS[d].probe = "inferred_derivations"
      BY ComponentAssumption
    <3>8. /\ {i, d} \subseteq DOMAIN COMPONENTS \ Layer("tools")
          /\ quiet => results'[i] = "quiet"
          /\ m.db.disabled > 0 => results'[d] = "degraded"
      BY <3>3, <3>6, <3>7, Layers DEF Direct, Inferred
    <3>9. QED
      BY <3>4, <3>5, <3>8
  <2>9. summary' = "down" <=> ~PlatformUp(m)
    BY <1>3, <2>7, <2>8
  <2>10. summary' = "ok" <=> PlatformUp(m) /\ Busy(m)
    BY <1>3, <2>7, <2>8
  <2>11. QED
    BY <2>5, <2>9, <2>10
<1>7. StatusTruthful'
  BY <1>1, <1>5, <1>6 DEF StatusTruthful
<1>8. Present' = Present /\ phase' = "done"
  BY DEF CollectStatus, Present
<1>9. QED
  BY <1>1, <1>7, <1>8 DEF OpsInv

\* Whatever fails or recovers while it is asked, the status page says "ok" only of
\* parts that answered; and when nothing changed, "down" and "ok" exactly when so.
THEOREM StatusIsTruthful == OpsSpec => []StatusTruthful
<1>1. OpsInv /\ [OpsNext]_opsVars => OpsInv'
  <2>1. OpsInv /\ UNCHANGED opsVars => OpsInv'
    BY DEF opsVars, OpsInv, Present, Witnessed, StatusTruthful
  <2>2. QED
    BY <2>1, SignalsKeep, ProbeKeeps, ChangeKeeps, CollectKeeps DEF OpsNext, Collect
<1>2. OpsInv => StatusTruthful
  BY DEF OpsInv
<1>3. QED
  BY <1>1, <1>2, OpsStart, PTL DEF OpsSpec
-----------------------------------------------------------------------------
(* HisSpan.                                                                *)

Zone == [winter : Int, from : Int, until : Int]

\* What the clocks of a zone show never goes back by a day: an instant is at or
\* after the first of a day if and only if that day, or a later one, is shown.
LEMMA MidnightBegins ==
  ASSUME NEW zone \in Zone, NEW d \in Int, NEW h \in Int
  PROVE  Midnight(zone, d) \in Int /\ LocalDay(zone, h) \in Int
         /\ (Midnight(zone, d) <= h <=> d <= LocalDay(zone, h))
BY DEF Zone, Midnight, LocalDay, Summer, Offset

\* The leap days before year y + 1, and that they do not decrease.
LeapDays(y) == y \div 4 - y \div 100 + y \div 400

LEMMA LeapDaysGrow ==
  ASSUME NEW a \in Int, NEW b \in Int, a <= b
  PROVE  LeapDays(a) <= LeapDays(b)
<1>1. \A n \in Int : n \div 100 = (n \div 4) \div 25 /\ n \div 4 \in Int /\ n \div 400 \in Int
  OBVIOUS
<1>2. \A u, v \in Int : u <= v => u - u \div 25 <= v - v \div 25
  OBVIOUS
<1>3. a \div 4 <= b \div 4 /\ a \div 400 <= b \div 400
  OBVIOUS
<1>4. QED
  BY <1>1, <1>2, <1>3 DEF LeapDays

LEMMA MonthTyped ==
  ASSUME NEW y \in Int, NEW m \in 1..12
  PROVE  Day(y, m, 1) \in Int /\ DaysIn(y, m) \in Int /\ DaysIn(y, m) >= 28
BY DEF Day, DaysIn, BeforeMonth

LEMMA DayOfMonth ==
  ASSUME NEW y \in Int, NEW m \in 1..12, NEW d \in Int
  PROVE  Day(y, m, d) = Day(y, m, 1) + d - 1
BY DEF Day, BeforeMonth

LEMMA NextMonth ==
  ASSUME NEW y \in Int, NEW m \in 1..11
  PROVE  Day(y, m + 1, 1) = Day(y, m, 1) + DaysIn(y, m)
BY DEF Day, DaysIn, BeforeMonth

LEMMA YearEnds ==
  ASSUME NEW y \in Int
  PROVE  /\ Day(y, 1, 1) \in Int /\ Day(y + 1, 1, 1) \in Int /\ DaysIn(y, 12) = 31
         /\ Day(y + 1, 1, 1) = Day(y, 12, 1) + 31
         /\ Day(y, 12, 31) = Day(y + 1, 1, 1) - 1
<1>1. LeapDays(y) = LeapDays(y - 1) + (IF Leap(y) THEN 1 ELSE 0)
  BY DEF Leap, LeapDays
<1>2. Day(y + 1, 1, 1) = Day(y, 12, 1) + 31
  BY <1>1 DEF Day, BeforeMonth, LeapDays
<1>3. Day(y, 12, 31) = Day(y, 12, 1) + 31 - 1
  BY DayOfMonth
<1>4. DaysIn(y, 12) = 31
  BY DEF DaysIn
<1>5. Day(y, 1, 1) \in Int /\ Day(y + 1, 1, 1) \in Int /\ Day(y, 12, 1) \in Int
  BY MonthTyped
<1>6. QED
  BY <1>2, <1>3, <1>4, <1>5

LEMMA YearsGrow ==
  ASSUME NEW a \in Int, NEW b \in Int, a < b
  PROVE  Day(a + 1, 1, 1) <= Day(b, 1, 1)
<1>1. LeapDays(a) <= LeapDays(b - 1)
  BY LeapDaysGrow
<1>2. QED
  BY <1>1 DEF Day, BeforeMonth, LeapDays

\* Within a year, a later month begins after an earlier one has ended, and the
\* year with its last.
LEMMA MonthsOfYear ==
  ASSUME NEW y \in Int, NEW m \in 1..12
  PROVE  /\ \A n \in 1..12 : m < n => Day(y, m, 1) + DaysIn(y, m) <= Day(y, n, 1)
         /\ Day(y, 1, 1) <= Day(y, m, 1) /\ Day(y, m, 1) + DaysIn(y, m) <= Day(y + 1, 1, 1)
<1>1. \A n \in 1..12 : m < n => Day(y, m, 1) + DaysIn(y, m) <= Day(y, n, 1)
  BY DEF Day, DaysIn, BeforeMonth
<1>2. Day(y, 1, 1) <= Day(y, m, 1)
  BY DEF Day, BeforeMonth
<1>3. Day(y, m, 1) + DaysIn(y, m) <= Day(y, 12, 1) + 31
  BY DEF Day, DaysIn, BeforeMonth
<1>4. QED
  BY <1>1, <1>2, <1>3, YearEnds

\* So it is across years: months have no gap and no overlap.
LEMMA MonthsGrow ==
  ASSUME NEW y \in Int, NEW z \in Int, NEW m \in 1..12, NEW n \in 1..12, 12 * y + m < 12 * z + n
  PROVE  Day(y, m, 1) + DaysIn(y, m) <= Day(z, n, 1)
<1>1. CASE y = z
  BY <1>1, MonthsOfYear
<1>2. CASE y < z
  <2>1. Day(y, m, 1) + DaysIn(y, m) <= Day(y + 1, 1, 1) /\ Day(z, 1, 1) <= Day(z, n, 1)
    BY MonthsOfYear
  <2>2. Day(y + 1, 1, 1) <= Day(z, 1, 1)
    BY <1>2, YearsGrow
  <2>3. Day(y, m, 1) \in Int /\ DaysIn(y, m) \in Int /\ Day(z, n, 1) \in Int
    BY MonthTyped
  <2>4. Day(y + 1, 1, 1) \in Int /\ Day(z, 1, 1) \in Int
    BY YearEnds
  <2>5. QED
    BY <2>1, <2>2, <2>3, <2>4
<1>3. QED
  BY <1>1, <1>2

LEMMA LeastOf ==
  ASSUME NEW S \in SUBSET Nat, S # {}
  PROVE  \E m \in S : \A n \in S : m <= n
<1>1. PICK m \in S : \A n \in S : ~ (<<n, m>> \in OpToRel(<, Nat))
  BY WFMin, NatLessThanWellFounded, Zenon
<1>2. \A n \in S : ~ (n < m)
  BY <1>1 DEF OpToRel
<1>3. QED
  BY <1>2

\* The calendar has one date for each of its days, and it is that day's.
LEMMA YearOf ==
  ASSUME NEW o \in DOMAIN Calendar
  PROVE  o \in Int /\ \E y \in FirstYear..LastYear : Day(y, 1, 1) <= o /\ o < Day(y + 1, 1, 1)
<1> DEFINE Before(k) == FirstYear + k <= LastYear /\ o < Day(FirstYear + k + 1, 1, 1)
<1> DEFINE Later == {k \in Nat : Before(k)}
<1> USE CalendarAssumption
<1>0. \A y \in Int : Day(y, 1, 1) \in Int /\ Day(y, 12, 31) = Day(y + 1, 1, 1) - 1
  BY YearEnds
<1>1. o \in Int /\ Day(FirstYear, 1, 1) <= o /\ o < Day(LastYear + 1, 1, 1)
  BY <1>0 DEF Calendar
<1>2. FirstYear <= LastYear
  <2> SUFFICES ASSUME LastYear < FirstYear PROVE FALSE
    OBVIOUS
  <2>1. Day(LastYear + 1, 1, 1) <= Day(FirstYear, 1, 1)
    BY YearsGrow
  <2>2. QED
    BY <1>0, <1>1, <2>1
<1>3. LastYear - FirstYear \in Later
  <2>1. LastYear - FirstYear \in Nat /\ FirstYear + (LastYear - FirstYear) = LastYear
    BY <1>2
  <2>2. QED
    BY <1>1, <2>1
<1>4. PICK k \in Later : \A n \in Later : k <= n
  <2>1. Later \in SUBSET Nat /\ Later # {}
    BY <1>3
  <2> HIDE DEF Later
  <2>2. QED
    BY <2>1, LeastOf
<1>5. Day(FirstYear + k, 1, 1) <= o
  <2>1. CASE k = 0
    BY <1>1, <2>1
  <2>2. CASE k # 0
    <3>1. k - 1 \in Nat /\ k - 1 \notin Later
      BY <1>4, <2>2
    <3>2. FirstYear + (k - 1) <= LastYear /\ FirstYear + (k - 1) + 1 = FirstYear + k
      BY <1>4, <3>1
    <3>3. ~ (o < Day(FirstYear + k, 1, 1))
      BY <3>1, <3>2
    <3>4. QED
      BY <1>0, <1>1, <3>3, <3>1
  <2>3. QED
    BY <2>1, <2>2
<1>6. FirstYear + k \in FirstYear..LastYear
  BY <1>4
<1>7. QED
  BY <1>1, <1>4, <1>5, <1>6

LEMMA MonthOfYear ==
  ASSUME NEW y \in Int, NEW o \in Int, Day(y, 1, 1) <= o, o < Day(y + 1, 1, 1)
  PROVE  \E m \in 1..12 : Day(y, m, 1) <= o /\ o < Day(y, m, 1) + DaysIn(y, m)
<1>1. Day(y, 12, 1) <= o => o < Day(y, 12, 1) + DaysIn(y, 12)
  BY YearEnds
<1>2. ASSUME NEW m \in 1..11, Day(y, m, 1) <= o
      PROVE  o < Day(y, m, 1) + DaysIn(y, m) \/ Day(y, m + 1, 1) <= o
  <2>1. Day(y, m + 1, 1) = Day(y, m, 1) + DaysIn(y, m)
    BY NextMonth
  <2>2. m \in 1..12
    OBVIOUS
  <2>3. Day(y, m, 1) \in Int /\ DaysIn(y, m) \in Int
    BY <2>2, MonthTyped
  <2>4. QED
    BY <1>2, <2>1, <2>3
<1>3. QED
  BY <1>1, <1>2

LEMMA DateIs ==
  ASSUME NEW o \in DOMAIN Calendar
  PROVE  /\ o \in Int /\ Date(o).y \in Int /\ Date(o).m \in 1..12
         /\ Date(o).y \in FirstYear..LastYear
         /\ Day(Date(o).y, Date(o).m, 1) <= o
         /\ o < Day(Date(o).y, Date(o).m, 1) + DaysIn(Date(o).y, Date(o).m)
         /\ Date(o).d = o - Day(Date(o).y, Date(o).m, 1) + 1
<1> DEFINE y == CHOOSE z \in FirstYear..LastYear : Day(z, 1, 1) <= o /\ o <= Day(z, 12, 31)
           m == CHOOSE k \in 1..12 : Day(y, k, 1) <= o /\ o < Day(y, k, 1) + DaysIn(y, k)
<1>1. \E z \in FirstYear..LastYear : Day(z, 1, 1) <= o /\ o <= Day(z, 12, 31)
  <2>1. PICK z \in FirstYear..LastYear : Day(z, 1, 1) <= o /\ o < Day(z + 1, 1, 1)
    BY YearOf
  <2>2. z \in Int /\ o \in Int
    BY YearOf, CalendarAssumption
  <2>3. Day(z, 12, 31) = Day(z + 1, 1, 1) - 1 /\ Day(z + 1, 1, 1) \in Int
    BY <2>2, YearEnds
  <2>4. QED
    BY <2>1, <2>2, <2>3
<1>2. y \in FirstYear..LastYear /\ Day(y, 1, 1) <= o /\ o <= Day(y, 12, 31)
  BY <1>1
<1> HIDE DEF y
<1>3. y \in Int /\ o \in Int
  BY <1>2, YearOf, CalendarAssumption
<1>4. o < Day(y + 1, 1, 1)
  <2>1. Day(y, 12, 31) = Day(y + 1, 1, 1) - 1 /\ Day(y + 1, 1, 1) \in Int
    BY <1>3, YearEnds
  <2>2. QED
    BY <1>2, <1>3, <2>1
<1>5. \E k \in 1..12 : Day(y, k, 1) <= o /\ o < Day(y, k, 1) + DaysIn(y, k)
  BY <1>2, <1>3, <1>4, MonthOfYear
<1>6. m \in 1..12 /\ Day(y, m, 1) <= o /\ o < Day(y, m, 1) + DaysIn(y, m)
  BY <1>5
<1> HIDE DEF m
<1>7. Date(o) = [y |-> y, m |-> m, d |-> o - Day(y, m, 1) + 1]
  BY DEF Date, Calendar, y, m
<1>8. QED
  BY <1>2, <1>3, <1>6, <1>7

\* Whether a day comes after the first of a month is told by its own month.
LEMMA MonthBegins ==
  ASSUME NEW o \in DOMAIN Calendar, NEW y \in Int, NEW m \in 1..12
  PROVE  Day(y, m, 1) <= o <=> 12 * y + m - 1 <= MonthOf(o)
<1> DEFINE z == Date(o).y
           n == Date(o).m
<1>1. /\ o \in Int /\ z \in Int /\ n \in 1..12 /\ MonthOf(o) = 12 * z + n - 1
      /\ Day(z, n, 1) <= o /\ o < Day(z, n, 1) + DaysIn(z, n)
  BY DateIs DEF MonthOf
<1> HIDE DEF z, n
<1>2. /\ Day(y, m, 1) \in Int /\ DaysIn(y, m) \in Int /\ DaysIn(y, m) >= 28
      /\ Day(z, n, 1) \in Int /\ DaysIn(z, n) \in Int /\ DaysIn(z, n) >= 28
  BY <1>1, MonthTyped
<1>3. CASE 12 * y + m = 12 * z + n
  <2>1. y = z /\ m = n
    BY <1>1, <1>3
  <2>2. QED
    BY <1>1, <2>1
<1>4. CASE 12 * y + m < 12 * z + n
  <2>1. Day(y, m, 1) + DaysIn(y, m) <= Day(z, n, 1)
    BY <1>1, <1>4, MonthsGrow
  <2>2. QED
    BY <1>1, <1>2, <1>4, <2>1
<1>5. CASE 12 * z + n < 12 * y + m
  <2>1. Day(z, n, 1) + DaysIn(z, n) <= Day(y, m, 1)
    BY <1>1, <1>5, MonthsGrow
  <2>2. QED
    BY <1>1, <1>2, <1>5, <2>1
<1>6. QED
  BY <1>1, <1>3, <1>4, <1>5

\* The first of month k, counted from the beginning of year 0.
Begins(k) == Day(k \div 12, (k % 12) + 1, 1)

LEMMA BeginsIs ==
  ASSUME NEW y \in Int, NEW m \in 1..12
  PROVE  /\ Day(y, m, 1) = Begins(12 * y + m - 1)
         /\ Day(y, 12, 31) = Begins(12 * y + 12) - 1
         /\ \A n \in Int : AddMonths(y, m, n) = Begins(12 * y + m - 1 + n)
<1>1. (12 * y + m - 1) \div 12 = y /\ ((12 * y + m - 1) % 12) + 1 = m
  OBVIOUS
<1>2. (12 * y + 12) \div 12 = y + 1 /\ ((12 * y + 12) % 12) + 1 = 1
  OBVIOUS
<1>3. ASSUME NEW n \in Int PROVE AddMonths(y, m, n) = Begins(12 * y + m - 1 + n)
  <2>1. (12 * y + m - 1 + n) \div 12 = y + (m - 1 + n) \div 12 /\ (12 * y + m - 1 + n) % 12 = (m - 1 + n) % 12
    OBVIOUS
  <2>2. QED
    BY <2>1 DEF AddMonths, Begins
<1>4. QED
  BY <1>1, <1>2, <1>3, YearEnds DEF Begins

LEMMA BeginsGrow ==
  ASSUME NEW i \in Int, NEW j \in Int
  PROVE  Begins(i) \in Int /\ (i < j => Begins(i) < Begins(j))
<1> DEFINE y == i \div 12
           m == (i % 12) + 1
           z == j \div 12
           n == (j % 12) + 1
<1>1. y \in Int /\ m \in 1..12 /\ z \in Int /\ n \in 1..12 /\ 12 * y + m = i + 1 /\ 12 * z + n = j + 1
  OBVIOUS
<1>2. Begins(i) = Day(y, m, 1) /\ Begins(j) = Day(z, n, 1)
  BY DEF Begins
<1> HIDE DEF y, m, z, n
<1>3. Day(y, m, 1) \in Int /\ DaysIn(y, m) \in Int /\ DaysIn(y, m) >= 28 /\ Day(z, n, 1) \in Int
  BY <1>1, MonthTyped
<1>4. i < j => Day(y, m, 1) + DaysIn(y, m) <= Day(z, n, 1)
  BY <1>1, MonthsGrow
<1>5. QED
  BY <1>2, <1>3, <1>4

LEMMA BeginsDivide ==
  ASSUME NEW k \in Int, NEW o \in DOMAIN Calendar
  PROVE  Begins(k) <= o <=> k <= MonthOf(o)
<1> DEFINE y == k \div 12
           m == (k % 12) + 1
<1>1. y \in Int /\ m \in 1..12 /\ 12 * y + m - 1 = k
  OBVIOUS
<1>2. Begins(k) = Day(y, m, 1)
  BY DEF Begins
<1> HIDE DEF y, m
<1>3. QED
  BY <1>1, <1>2, MonthBegins

\* The days on which a span may be asked for, and the years it may be written of:
\* those from which no span leaves the calendar.
Askable == Day(FirstYear + 2, 1, 1) .. Day(LastYear - 1, 12, 31)
Years == (FirstYear + 1) .. (LastYear - 1)

LEMMA Spare ==
  /\ Day(FirstYear, 1, 1) \in Int /\ Day(LastYear, 12, 31) \in Int
  /\ Day(FirstYear, 1, 1) + 364 <= Day(FirstYear + 1, 1, 1)
  /\ Day(LastYear, 1, 1) + 364 <= Day(LastYear, 12, 31)
<1> USE CalendarAssumption
<1>1. \A y \in Int : Day(y, 1, 1) + 364 <= Day(y, 12, 31) /\ Day(y, 1, 1) \in Int /\ Day(y, 12, 31) \in Int
  BY DEF Day, BeforeMonth
<1>2. Day(FirstYear, 12, 31) = Day(FirstYear + 1, 1, 1) - 1 /\ Day(FirstYear + 1, 1, 1) \in Int
  BY YearEnds
<1>3. QED
  BY <1>1, <1>2

\* What the date of such a day says of the years around it.
LEMMA YearsAround ==
  ASSUME NEW today \in Askable
  PROVE  LET y == Date(today).y
         IN /\ today \in DOMAIN Calendar /\ today \in Int
            /\ y \in (FirstYear + 2) .. (LastYear - 1) /\ Date(today).m \in 1..12
            /\ Day(FirstYear + 1, 1, 1) + 365 <= today /\ today < Day(LastYear, 1, 1)
<1> DEFINE y == Date(today).y
           m == Date(today).m
<1> USE CalendarAssumption
<1>1. \A z \in Int : /\ Day(z, 1, 1) \in Int /\ Day(z, 12, 31) = Day(z + 1, 1, 1) - 1
                     /\ Day(z, 1, 1) + 365 <= Day(z + 1, 1, 1)
  <2>1. \A z \in Int : Day(z, 1, 1) \in Int /\ Day(z, 1, 1) + 364 <= Day(z, 12, 31)
    BY DEF Day, BeforeMonth
  <2>2. QED
    BY <2>1, YearEnds
<1>2. Day(FirstYear + 2, 1, 1) <= today /\ today < Day(LastYear, 1, 1) /\ today \in Int
  BY <1>1 DEF Askable
<1>3. today \in DOMAIN Calendar
  <2>1. Day(FirstYear, 1, 1) <= Day(FirstYear + 2, 1, 1)
    BY <1>1
  <2>2. today <= Day(LastYear, 12, 31)
    BY <1>1, <1>2
  <2>3. QED
    BY <1>1, <1>2, <2>1, <2>2 DEF Calendar
<1>4. y \in Int /\ m \in 1..12 /\ Day(y, m, 1) <= today /\ today < Day(y, m, 1) + DaysIn(y, m)
  BY <1>3, DateIs
<1> HIDE DEF y, m
<1>5. Day(y, 1, 1) <= Day(y, m, 1) /\ Day(y, m, 1) + DaysIn(y, m) <= Day(y + 1, 1, 1)
  BY <1>4, MonthsOfYear
<1>6. Day(y, m, 1) \in Int /\ DaysIn(y, m) \in Int
  BY <1>4, MonthTyped
<1>7. Day(y, 1, 1) <= today /\ today < Day(y + 1, 1, 1)
  BY <1>1, <1>2, <1>4, <1>5, <1>6
<1>8. FirstYear + 2 <= y
  <2> SUFFICES ASSUME y < FirstYear + 2 PROVE FALSE
    BY <1>4
  <2>1. Day(y + 1, 1, 1) <= Day(FirstYear + 2, 1, 1)
    BY <1>4, YearsGrow
  <2>2. QED
    BY <1>1, <1>2, <1>4, <1>7, <2>1
<1>9. y < LastYear
  <2> SUFFICES ASSUME LastYear - 1 < y PROVE FALSE
    BY <1>4
  <2>1. Day((LastYear - 1) + 1, 1, 1) <= Day(y, 1, 1) /\ (LastYear - 1) + 1 = LastYear
    BY <1>4, YearsGrow
  <2>2. QED
    BY <1>1, <1>2, <1>4, <1>7, <2>1
<1>10. Day(FirstYear + 1, 1, 1) + 365 <= Day(FirstYear + 2, 1, 1)
  <2>1. FirstYear + 1 \in Int /\ (FirstYear + 1) + 1 = FirstYear + 2
    OBVIOUS
  <2>2. QED
    BY <1>1, <2>1
<1>11. QED
  BY <1>1, <1>2, <1>3, <1>4, <1>8, <1>9, <1>10 DEF y, m

\* A pair of days is right for what a span names: it is not empty, it lies in the
\* calendar with room to spare, and the days between the two are the ones named.
Right(s, x, today) ==
  /\ s[1] \in Int /\ s[2] \in Int /\ s[1] <= s[2]
  /\ Day(FirstYear + 1, 1, 1) <= s[1] /\ s[2] <= Day(LastYear, 1, 1) + 6
  /\ \A o \in DOMAIN Calendar : s[1] <= o /\ o <= s[2] <=> In(x, o, today)

\* Spans of whole months.
LEMMA SpanOfMonths ==
  ASSUME NEW today, NEW x, NEW i \in Int, NEW j \in Int,
         12 * FirstYear + 12 <= i, i < j, j <= 12 * LastYear,
         \A o \in DOMAIN Calendar : In(x, o, today) <=> i <= MonthOf(o) /\ MonthOf(o) < j
  PROVE  Right(<<Begins(i), Begins(j) - 1>>, x, today)
<1> USE CalendarAssumption
<1>1. Begins(i) \in Int /\ Begins(j) \in Int /\ Begins(i) < Begins(j)
  BY BeginsGrow
<1>2. Day(FirstYear + 1, 1, 1) = Begins(12 * FirstYear + 12) /\ Day(LastYear, 1, 1) = Begins(12 * LastYear)
  <2>1. 12 * (FirstYear + 1) + 1 - 1 = 12 * FirstYear + 12 /\ 12 * LastYear + 1 - 1 = 12 * LastYear
    OBVIOUS
  <2>2. \A y \in Int : Day(y, 1, 1) = Begins(12 * y + 1 - 1)
    BY BeginsIs
  <2>3. QED
    BY <2>1, <2>2
<1>3. Begins(12 * FirstYear + 12) <= Begins(i)
  <2>1. Begins(12 * FirstYear + 12) \in Int
    BY BeginsGrow
  <2>2. CASE i = 12 * FirstYear + 12
    BY <1>1, <2>1, <2>2
  <2>3. CASE 12 * FirstYear + 12 < i
    BY <1>1, <2>1, <2>3, BeginsGrow
  <2>4. QED
    BY <2>2, <2>3
<1>4. Begins(j) <= Begins(12 * LastYear) /\ Begins(12 * LastYear) \in Int
  <2>1. Begins(12 * LastYear) \in Int
    BY BeginsGrow
  <2>2. CASE j = 12 * LastYear
    BY <1>1, <2>1, <2>2
  <2>3. CASE j < 12 * LastYear
    BY <1>1, <2>1, <2>3, BeginsGrow
  <2>4. QED
    BY <2>1, <2>2, <2>3
<1>5. ASSUME NEW o \in DOMAIN Calendar
      PROVE  Begins(i) <= o /\ o <= Begins(j) - 1 <=> i <= MonthOf(o) /\ MonthOf(o) < j
  <2>1. (Begins(i) <= o <=> i <= MonthOf(o)) /\ (Begins(j) <= o <=> j <= MonthOf(o))
    BY BeginsDivide
  <2>2. o \in Int /\ MonthOf(o) \in Int
    BY DateIs DEF MonthOf
  <2>3. QED
    BY <1>1, <2>1, <2>2
<1>6. QED
  BY <1>1, <1>2, <1>3, <1>4, <1>5 DEF Right

\* Spans of days counted from today.
LEMMA SpanOfDays ==
  ASSUME NEW today \in Askable, NEW x, NEW a \in Int, NEW b \in Int,
         -365 <= a, a <= b, b <= 6,
         \A o \in DOMAIN Calendar : In(x, o, today) <=> today + a <= o /\ o <= today + b
  PROVE  Right(<<today + a, today + b>>, x, today)
<1> USE CalendarAssumption
<1>1. /\ today \in Int /\ Day(FirstYear + 1, 1, 1) + 365 <= today /\ today < Day(LastYear, 1, 1)
      /\ Day(FirstYear + 1, 1, 1) \in Int /\ Day(LastYear, 1, 1) \in Int
  BY YearsAround, YearEnds
<1>2. QED
  BY <1>1 DEF Right

LEMMA MonthOfDate ==
  ASSUME NEW o \in DOMAIN Calendar
  PROVE  /\ Date(o).y \in Int /\ Date(o).m \in 1..12 /\ o \in Int
         /\ MonthOf(o) = 12 * Date(o).y + Date(o).m - 1 /\ MonthOf(o) \in Int
         /\ \A y \in Int : Date(o).y = y <=> 12 * y <= MonthOf(o) /\ MonthOf(o) < 12 * y + 12
BY DateIs DEF MonthOf

LEMMA WeekDays ==
  ASSUME NEW a \in Int, NEW b \in Int, NEW c \in Int
  PROVE  (b - 1) \div 7 = (a - 1) \div 7 + c
         <=> a - ((a - 1) % 7) + 7 * c <= b /\ b <= a - ((a - 1) % 7) + 7 * c + 6
<1>1. a - 1 = 7 * ((a - 1) \div 7) + ((a - 1) % 7) /\ (a - 1) \div 7 \in Int /\ ((a - 1) % 7) \in 0..6
  OBVIOUS
<1>2. \A k \in Int : (b - 1) \div 7 = k <=> 7 * k <= b - 1 /\ b - 1 <= 7 * k + 6
  OBVIOUS
<1>3. (b - 1) \div 7 = (a - 1) \div 7 + c
      <=> 7 * ((a - 1) \div 7 + c) <= b - 1 /\ b - 1 <= 7 * ((a - 1) \div 7 + c) + 6
  BY <1>1, <1>2
<1>4. QED
  BY <1>1, <1>3

LEMMA QuarterMonths ==
  ASSUME NEW y \in Int, NEW m \in 1..12, NEW n \in Int, NEW c \in Int
  PROVE  n \div 3 = (12 * y + m - 1) \div 3 + c
         <=> 12 * y + ((m - 1) \div 3) * 3 + 3 * c <= n /\ n < 12 * y + ((m - 1) \div 3) * 3 + 3 * c + 3
<1>1. (12 * y + m - 1) \div 3 = 4 * y + (m - 1) \div 3 /\ (m - 1) \div 3 \in Int
  OBVIOUS
<1>2. \A k \in Int : n \div 3 = k <=> 3 * k <= n /\ n < 3 * k + 3
  OBVIOUS
<1>3. n \div 3 = 4 * y + (m - 1) \div 3 + c
      <=> 3 * (4 * y + (m - 1) \div 3 + c) <= n /\ n < 3 * (4 * y + (m - 1) \div 3 + c) + 3
  BY <1>1, <1>2
<1>4. QED
  BY <1>1, <1>3

\* Each of the names but one, from the ordinal of today and its date alone.
LEMMA NamedIsRight ==
  ASSUME NEW today \in Askable, NEW name \in Named, name # "pastWeek"
  PROVE  Right(NamedSpan(name, today), [kind |-> "named", name |-> name], today)
<1> DEFINE x == [kind |-> "named", name |-> name]
           s == NamedSpan(name, today)
<1> USE CalendarAssumption
<1>1. s = NamedSpanOf(name, today, Date(today))
  BY DEF NamedSpan
<1>2. \A o : In(x, o, today) <=> InNamed(name, o, today)
  BY DEF In
<1>3. PICK y \in Int, m \in 1..12 :
        /\ Date(today).y = y /\ Date(today).m = m /\ MonthOf(today) = 12 * y + m - 1
        /\ FirstYear + 2 <= y /\ y <= LastYear - 1
  BY YearsAround, MonthOfDate
<1>t. today \in DOMAIN Calendar /\ today \in Int
  BY YearsAround
<1>q. PICK q \in 1..10 : q = ((m - 1) \div 3) * 3 + 1 /\ q <= m /\ m <= q + 2
  <2>1. /\ ((m - 1) \div 3) * 3 + 1 \in 1..10
        /\ ((m - 1) \div 3) * 3 + 1 <= m /\ m <= ((m - 1) \div 3) * 3 + 1 + 2
    OBVIOUS
  <2>2. QED
    BY <2>1
<1>w. PICK w \in 0..6 : w = (today - 1) % 7 /\ Weekday(today) = w
  BY <1>t DEF Weekday
<1>5. \A o \in DOMAIN Calendar : /\ o \in Int /\ MonthOf(o) \in Int /\ Date(o).y \in Int
        /\ \A z \in Int : Date(o).y = z <=> 12 * z <= MonthOf(o) /\ MonthOf(o) < 12 * z + 12
  BY MonthOfDate
<1>6. /\ Day(y, m, 1) = Begins(12 * y + m - 1) /\ AddMonths(y, m, 1) = Begins(12 * y + m)
      /\ AddMonths(y, m, -1) = Begins(12 * y + m - 2)
  <2>1. 12 * y + m - 1 + 1 = 12 * y + m /\ 12 * y + m - 1 + (-1) = 12 * y + m - 2
    OBVIOUS
  <2>2. \A n \in Int : AddMonths(y, m, n) = Begins(12 * y + m - 1 + n)
    BY BeginsIs
  <2>3. AddMonths(y, m, 1) = Begins(12 * y + m - 1 + 1) /\ AddMonths(y, m, -1) = Begins(12 * y + m - 1 + (-1))
    BY <2>2
  <2>4. QED
    BY <2>1, <2>3, BeginsIs
<1>7. /\ Day(y, q, 1) = Begins(12 * y + q - 1) /\ AddMonths(y, q, 3) = Begins(12 * y + q + 2)
      /\ AddMonths(y, q, -3) = Begins(12 * y + q - 4)
  <2>1. 12 * y + q - 1 + 3 = 12 * y + q + 2 /\ 12 * y + q - 1 + (-3) = 12 * y + q - 4 /\ q \in 1..12
    OBVIOUS
  <2>2. \A n \in Int : AddMonths(y, q, n) = Begins(12 * y + q - 1 + n)
    BY <2>1, BeginsIs
  <2>3. AddMonths(y, q, 3) = Begins(12 * y + q - 1 + 3) /\ AddMonths(y, q, -3) = Begins(12 * y + q - 1 + (-3))
    BY <2>2
  <2>4. QED
    BY <2>1, <2>3, BeginsIs
<1>8. /\ Day(y, 1, 1) = Begins(12 * y) /\ Day(y, 12, 31) = Begins(12 * y + 12) - 1
      /\ Day(y - 1, 1, 1) = Begins(12 * y - 12) /\ Day(y - 1, 12, 31) = Begins(12 * y) - 1
  <2>1. /\ 12 * y + 1 - 1 = 12 * y /\ 12 * (y - 1) + 1 - 1 = 12 * y - 12
        /\ 12 * (y - 1) + 12 = 12 * y /\ y - 1 \in Int /\ 1 \in 1..12
    OBVIOUS
  <2>2. \A z \in Int : Day(z, 1, 1) = Begins(12 * z + 1 - 1) /\ Day(z, 12, 31) = Begins(12 * z + 12) - 1
    BY <2>1, BeginsIs
  <2>3. /\ Day(y, 1, 1) = Begins(12 * y + 1 - 1) /\ Day(y, 12, 31) = Begins(12 * y + 12) - 1
        /\ Day(y - 1, 1, 1) = Begins(12 * (y - 1) + 1 - 1) /\ Day(y - 1, 12, 31) = Begins(12 * (y - 1) + 12) - 1
    BY <2>1, <2>2
  <2>4. QED
    BY <2>1, <2>3
<1> HIDE DEF x, s
<1>a. CASE name = "today"
  <2>1. s = <<today + 0, today + 0>>
    BY <1>1, <1>t, <1>a DEF NamedSpanOf
  <2>2. ASSUME NEW o \in DOMAIN Calendar
        PROVE  In(x, o, today) <=> today + 0 <= o /\ o <= today + 0
    <3>1. In(x, o, today) <=> InNamed(name, o, today)
      BY <1>2
    <3>2. o \in Int
      BY <1>5
    <3>3. QED
      BY <3>1, <3>2, <1>t, <1>a DEF InNamed
  <2>3. QED
    BY <2>1, <2>2, SpanOfDays DEF x, s
<1>b. CASE name = "yesterday"
  <2>1. s = <<today + (-1), today + (-1)>>
    BY <1>1, <1>t, <1>b DEF NamedSpanOf
  <2>2. ASSUME NEW o \in DOMAIN Calendar
        PROVE  In(x, o, today) <=> today + (-1) <= o /\ o <= today + (-1)
    <3>1. In(x, o, today) <=> InNamed(name, o, today)
      BY <1>2
    <3>2. o \in Int
      BY <1>5
    <3>3. QED
      BY <3>1, <3>2, <1>t, <1>b DEF InNamed
  <2>3. QED
    BY <2>1, <2>2, SpanOfDays DEF x, s
<1>c. CASE name = "thisWeek"
  <2>1. s = <<today + (-w), today + (6 - w)>>
    BY <1>1, <1>t, <1>w, <1>c DEF NamedSpanOf
  <2>2. ASSUME NEW o \in DOMAIN Calendar
        PROVE  In(x, o, today) <=> today + (-w) <= o /\ o <= today + (6 - w)
    <3>1. In(x, o, today) <=> InNamed(name, o, today)
      BY <1>2
    <3>2. o \in Int
      BY <1>5
    <3>3. (o - 1) \div 7 = (today - 1) \div 7 <=> today + (-w) <= o /\ o <= today + (6 - w)
      <4>1. PICK c \in Int : c = 0
        OBVIOUS
      <4>2. (o - 1) \div 7 = (today - 1) \div 7 + c
            <=> today - w + 7 * c <= o /\ o <= today - w + 7 * c + 6
        BY <3>2, <1>t, <1>w, WeekDays
      <4>3. QED
        BY <4>1, <4>2, <3>2, <1>t
    <3>4. QED
      BY <3>1, <3>3, <1>c DEF InNamed, WeekOf
  <2>3. QED
    BY <1>w, <2>1, <2>2, SpanOfDays DEF x, s
<1>d. CASE name = "lastWeek"
  <2>1. s = <<today + (-w - 7), today + (-w - 1)>>
    BY <1>1, <1>t, <1>w, <1>d DEF NamedSpanOf
  <2>2. ASSUME NEW o \in DOMAIN Calendar
        PROVE  In(x, o, today) <=> today + (-w - 7) <= o /\ o <= today + (-w - 1)
    <3>1. In(x, o, today) <=> InNamed(name, o, today)
      BY <1>2
    <3>2. o \in Int
      BY <1>5
    <3>3. (o - 1) \div 7 = (today - 1) \div 7 - 1 <=> today + (-w - 7) <= o /\ o <= today + (-w - 1)
      <4>1. PICK c \in Int : c = -1
        OBVIOUS
      <4>2. (o - 1) \div 7 = (today - 1) \div 7 + c
            <=> today - w + 7 * c <= o /\ o <= today - w + 7 * c + 6
        BY <3>2, <1>t, <1>w, WeekDays
      <4>3. QED
        BY <4>1, <4>2, <3>2, <1>t
    <3>4. QED
      BY <3>1, <3>3, <1>d DEF InNamed, WeekOf
  <2>3. QED
    BY <1>w, <2>1, <2>2, SpanOfDays DEF x, s
<1>f. CASE name = "pastMonth"
  <2>1. s = <<today + (-30), today + 0>>
    BY <1>1, <1>t, <1>f DEF NamedSpanOf
  <2>2. ASSUME NEW o \in DOMAIN Calendar
        PROVE  In(x, o, today) <=> today + (-30) <= o /\ o <= today + 0
    <3>1. In(x, o, today) <=> InNamed(name, o, today)
      BY <1>2
    <3>2. o \in Int
      BY <1>5
    <3>3. QED
      BY <3>1, <3>2, <1>t, <1>f DEF InNamed
  <2>3. QED
    BY <2>1, <2>2, SpanOfDays DEF x, s
<1>g. CASE name = "pastYear"
  <2>1. s = <<today + (-365), today + 0>>
    BY <1>1, <1>t, <1>g DEF NamedSpanOf
  <2>2. ASSUME NEW o \in DOMAIN Calendar
        PROVE  In(x, o, today) <=> today + (-365) <= o /\ o <= today + 0
    <3>1. In(x, o, today) <=> InNamed(name, o, today)
      BY <1>2
    <3>2. o \in Int
      BY <1>5
    <3>3. QED
      BY <3>1, <3>2, <1>t, <1>g DEF InNamed
  <2>3. QED
    BY <2>1, <2>2, SpanOfDays DEF x, s
<1>h. CASE name = "thisMonth"
  <2>1. s = <<Begins(12 * y + m - 1), Begins(12 * y + m) - 1>>
    BY <1>1, <1>6, <1>3, <1>h DEF NamedSpanOf
  <2>2. \A o \in DOMAIN Calendar : In(x, o, today) <=> 12 * y + m - 1 <= MonthOf(o) /\ MonthOf(o) < 12 * y + m
    BY <1>2, <1>3, <1>5, <1>h DEF InNamed
  <2>3. QED
    BY <1>3, <2>1, <2>2, SpanOfMonths DEF x, s
<1>i. CASE name = "lastMonth"
  <2>1. s = <<Begins(12 * y + m - 2), Begins(12 * y + m - 1) - 1>>
    BY <1>1, <1>6, <1>3, <1>i DEF NamedSpanOf
  <2>2. \A o \in DOMAIN Calendar :
          In(x, o, today) <=> 12 * y + m - 2 <= MonthOf(o) /\ MonthOf(o) < 12 * y + m - 1
    BY <1>2, <1>3, <1>5, <1>i DEF InNamed
  <2>3. QED
    BY <1>3, <2>1, <2>2, SpanOfMonths DEF x, s
<1>j. CASE name = "thisQuarter"
  <2>1. s = <<Begins(12 * y + q - 1), Begins(12 * y + q + 2) - 1>>
    BY <1>1, <1>7, <1>3, <1>q, <1>j DEF NamedSpanOf
  <2>2. ASSUME NEW o \in DOMAIN Calendar
        PROVE  In(x, o, today) <=> 12 * y + q - 1 <= MonthOf(o) /\ MonthOf(o) < 12 * y + q + 2
    <3>1. In(x, o, today) <=> MonthOf(o) \div 3 = (12 * y + m - 1) \div 3
      BY <1>2, <1>3, <1>j DEF InNamed, QuarterOf
    <3>2. MonthOf(o) \in Int
      BY <1>5
    <3>3. MonthOf(o) \div 3 = (12 * y + m - 1) \div 3 + (0)
          <=> 12 * y + ((m - 1) \div 3) * 3 + 3 * (0) <= MonthOf(o)
              /\ MonthOf(o) < 12 * y + ((m - 1) \div 3) * 3 + 3 * (0) + 3
      BY <3>2, QuarterMonths
    <3>4. QED
      BY <1>q, <3>1, <3>2, <3>3
  <2>3. QED
    BY <1>3, <1>q, <2>1, <2>2, SpanOfMonths DEF x, s
<1>k. CASE name = "lastQuarter"
  <2>1. s = <<Begins(12 * y + q - 4), Begins(12 * y + q - 1) - 1>>
    BY <1>1, <1>7, <1>3, <1>q, <1>k DEF NamedSpanOf
  <2>2. ASSUME NEW o \in DOMAIN Calendar
        PROVE  In(x, o, today) <=> 12 * y + q - 4 <= MonthOf(o) /\ MonthOf(o) < 12 * y + q - 1
    <3>1. In(x, o, today) <=> MonthOf(o) \div 3 = (12 * y + m - 1) \div 3 - 1
      BY <1>2, <1>3, <1>k DEF InNamed, QuarterOf
    <3>2. MonthOf(o) \in Int
      BY <1>5
    <3>3. MonthOf(o) \div 3 = (12 * y + m - 1) \div 3 + (-1)
          <=> 12 * y + ((m - 1) \div 3) * 3 + 3 * (-1) <= MonthOf(o)
              /\ MonthOf(o) < 12 * y + ((m - 1) \div 3) * 3 + 3 * (-1) + 3
      BY <3>2, QuarterMonths
    <3>4. QED
      BY <1>q, <3>1, <3>2, <3>3
  <2>3. QED
    BY <1>3, <1>q, <2>1, <2>2, SpanOfMonths DEF x, s
<1>l. CASE name = "thisYear"
  <2>1. s = <<Begins(12 * y), Begins(12 * y + 12) - 1>>
    BY <1>1, <1>8, <1>3, <1>l DEF NamedSpanOf
  <2>2. \A o \in DOMAIN Calendar : In(x, o, today) <=> 12 * y <= MonthOf(o) /\ MonthOf(o) < 12 * y + 12
    BY <1>2, <1>3, <1>5, <1>l DEF InNamed
  <2>3. QED
    BY <1>3, <2>1, <2>2, SpanOfMonths DEF x, s
<1>m. CASE name = "lastYear"
  <2>1. s = <<Begins(12 * y - 12), Begins(12 * y) - 1>>
    BY <1>1, <1>8, <1>3, <1>m DEF NamedSpanOf
  <2>2. \A o \in DOMAIN Calendar : In(x, o, today) <=> 12 * y - 12 <= MonthOf(o) /\ MonthOf(o) < 12 * y
    <3>1. 12 * (y - 1) = 12 * y - 12 /\ 12 * (y - 1) + 12 = 12 * y /\ y - 1 \in Int
      BY <1>3
    <3>2. QED
      BY <1>2, <1>5, <1>3, <1>m, <3>1 DEF InNamed
  <2>3. QED
    BY <1>3, <2>1, <2>2, SpanOfMonths DEF x, s
<1>z. QED
  BY <1>a, <1>b, <1>c, <1>d, <1>f, <1>g, <1>h, <1>i, <1>j, <1>k, <1>l, <1>m DEF Named, x, s

\* Of a written span, the years it may name; its month and its day may be wrong.
DateText ==
  {<<y>> : y \in Years} \union {<<p[1], p[2]>> : p \in Years \X Int}
  \union {<<p[1], p[2], p[3]>> : p \in Years \X Int \X Int}

LEMMA WrittenIsRight ==
  ASSUME NEW today, NEW t \in DateText
  PROVE  LET x == [kind |-> "written", date |-> t]
         IN IF Exists(t) THEN Right(WrittenSpan(t), x, today)
                         ELSE \A o \in DOMAIN Calendar : ~In(x, o, today)
<1> DEFINE x == [kind |-> "written", date |-> t]
<1> USE CalendarAssumption
<1>1. \A o : In(x, o, today) <=> InWritten(t, o)
  BY DEF In
<1>2. \A o \in DOMAIN Calendar : /\ o \in Int /\ MonthOf(o) \in Int /\ Date(o).y \in Int /\ Date(o).m \in 1..12
        /\ MonthOf(o) = 12 * Date(o).y + Date(o).m - 1
        /\ \A z \in Int : Date(o).y = z <=> 12 * z <= MonthOf(o) /\ MonthOf(o) < 12 * z + 12
  BY MonthOfDate
<1> HIDE DEF x
<1>3. ASSUME NEW y \in Years, t = <<y>>
      PROVE  Exists(t) /\ Right(WrittenSpan(t), x, today)
  <2>0. y \in Int /\ FirstYear + 1 <= y /\ y <= LastYear - 1
    BY DEF Years
  <2>1. Len(t) = 1 /\ DOMAIN t = {1} /\ t[1] = y
    BY <1>3
  <2>2. Exists(t)
    BY <2>1 DEF Exists
  <2>3. WrittenSpan(t) = <<Begins(12 * y), Begins(12 * y + 12) - 1>>
    <3>1. WrittenSpan(t) = <<Day(y, 1, 1), Day(y, 12, 31)>>
      BY <2>1 DEF WrittenSpan
    <3>2. 12 * y + 1 - 1 = 12 * y /\ 1 \in 1..12
      BY <2>0
    <3>3. Day(y, 1, 1) = Begins(12 * y + 1 - 1) /\ Day(y, 12, 31) = Begins(12 * y + 12) - 1
      BY <2>0, <3>2, BeginsIs
    <3>4. QED
      BY <3>1, <3>2, <3>3
  <2>4. \A o \in DOMAIN Calendar : In(x, o, today) <=> 12 * y <= MonthOf(o) /\ MonthOf(o) < 12 * y + 12
    BY <1>1, <1>2, <2>0, <2>1 DEF InWritten
  <2>5. QED
    BY <2>0, <2>2, <2>3, <2>4, SpanOfMonths
<1>4. ASSUME NEW y \in Years, NEW m \in Int, t = <<y, m>>
      PROVE  IF Exists(t) THEN Right(WrittenSpan(t), x, today)
                          ELSE \A o \in DOMAIN Calendar : ~In(x, o, today)
  <2>0. y \in Int /\ FirstYear + 1 <= y /\ y <= LastYear - 1
    BY DEF Years
  <2>1. Len(t) = 2 /\ DOMAIN t = {1, 2} /\ t[1] = y /\ t[2] = m
    BY <1>4
  <2>2. Exists(t) <=> m \in 1..12
    BY <2>1 DEF Exists
  <2>3. \A o \in DOMAIN Calendar : In(x, o, today) <=> y = Date(o).y /\ m = Date(o).m
    BY <1>1, <2>1 DEF InWritten
  <2>4. CASE m \in 1..12
    <3>1. WrittenSpan(t) = <<Begins(12 * y + m - 1), Begins(12 * y + m) - 1>>
      <4>1. WrittenSpan(t) = <<Day(y, m, 1), AddMonths(y, m, 1) - 1>>
        BY <2>1 DEF WrittenSpan
      <4>2. Day(y, m, 1) = Begins(12 * y + m - 1) /\ AddMonths(y, m, 1) = Begins(12 * y + m - 1 + 1)
        <5>1. /\ Day(y, m, 1) = Begins(12 * y + m - 1)
              /\ \A n \in Int : AddMonths(y, m, n) = Begins(12 * y + m - 1 + n)
          BY <2>0, <2>4, BeginsIs
        <5>2. QED
          BY <5>1
      <4>3. 12 * y + m - 1 + 1 = 12 * y + m
        BY <2>0
      <4>4. QED
        BY <4>1, <4>2, <4>3
    <3>2. \A o \in DOMAIN Calendar :
            In(x, o, today) <=> 12 * y + m - 1 <= MonthOf(o) /\ MonthOf(o) < 12 * y + m
      BY <1>2, <2>0, <2>3, <2>4
    <3>3. QED
      BY <2>0, <2>2, <2>4, <3>1, <3>2, SpanOfMonths
  <2>5. CASE m \notin 1..12
    BY <1>2, <2>2, <2>3, <2>5
  <2>6. QED
    BY <2>4, <2>5
<1>5. ASSUME NEW y \in Years, NEW m \in Int, NEW d \in Int, t = <<y, m, d>>
      PROVE  IF Exists(t) THEN Right(WrittenSpan(t), x, today)
                          ELSE \A o \in DOMAIN Calendar : ~In(x, o, today)
  <2>0. y \in Int /\ FirstYear + 1 <= y /\ y <= LastYear - 1
    BY DEF Years
  <2>1. Len(t) = 3 /\ DOMAIN t = {1, 2, 3} /\ t[1] = y /\ t[2] = m /\ t[3] = d
    BY <1>5
  <2>2. Exists(t) <=> m \in 1..12 /\ d \in 1..DaysIn(y, m)
    BY <2>1 DEF Exists
  <2>3. \A o \in DOMAIN Calendar : In(x, o, today) <=> y = Date(o).y /\ m = Date(o).m /\ d = Date(o).d
    BY <1>1, <2>1 DEF InWritten
  <2>4. ASSUME NEW o \in DOMAIN Calendar, In(x, o, today) PROVE Exists(t)
    <3>1. /\ o \in Int /\ Date(o).m \in 1..12 /\ Day(Date(o).y, Date(o).m, 1) <= o
          /\ o < Day(Date(o).y, Date(o).m, 1) + DaysIn(Date(o).y, Date(o).m)
          /\ Date(o).d = o - Day(Date(o).y, Date(o).m, 1) + 1
      BY DateIs
    <3>2. y = Date(o).y /\ m = Date(o).m /\ d = Date(o).d
      BY <2>3, <2>4
    <3>3. m \in 1..12 /\ Day(y, m, 1) <= o /\ o < Day(y, m, 1) + DaysIn(y, m) /\ d = o - Day(y, m, 1) + 1
      BY <3>1, <3>2
    <3>4. Day(y, m, 1) \in Int /\ DaysIn(y, m) \in Int
      BY <2>0, <3>3, MonthTyped
    <3>5. QED
      BY <2>2, <3>1, <3>3, <3>4
  <2>5. ASSUME Exists(t) PROVE Right(WrittenSpan(t), x, today)
    <3> DEFINE f == Day(y, m, 1)
    <3>1. m \in 1..12 /\ d \in Int /\ 1 <= d /\ d <= DaysIn(y, m) /\ f \in Int /\ DaysIn(y, m) \in Int
      <4>1. m \in 1..12 /\ d \in 1..DaysIn(y, m)
        BY <2>2, <2>5
      <4>2. f \in Int /\ DaysIn(y, m) \in Int
        BY <2>0, <4>1, MonthTyped
      <4>3. QED
        BY <4>1, <4>2
    <3>2. WrittenSpan(t) = <<f + d - 1, f + d - 1>>
      <4>1. WrittenSpan(t) = <<Day(y, m, d), Day(y, m, d)>>
        BY <2>1 DEF WrittenSpan
      <4>2. QED
        BY <2>0, <3>1, <4>1, DayOfMonth
    <3>3. Day(FirstYear + 1, 1, 1) <= f /\ f + DaysIn(y, m) <= Day(LastYear, 1, 1)
      <4>1. Day(y, 1, 1) <= f /\ f + DaysIn(y, m) <= Day(y + 1, 1, 1)
        BY <2>0, <3>1, MonthsOfYear
      <4>2. Day(FirstYear + 1, 1, 1) <= Day(y, 1, 1) /\ Day(y + 1, 1, 1) <= Day(LastYear, 1, 1)
        BY <2>0, YearsGrow
      <4>3. Day(FirstYear + 1, 1, 1) \in Int /\ Day(y, 1, 1) \in Int /\ Day(y + 1, 1, 1) \in Int
            /\ Day(LastYear, 1, 1) \in Int
        BY <2>0, YearEnds
      <4>4. QED
        BY <3>1, <4>1, <4>2, <4>3
    <3>4. Day(FirstYear + 1, 1, 1) \in Int /\ Day(LastYear, 1, 1) \in Int
      BY YearEnds
    <3> HIDE DEF f
    <3>5. ASSUME NEW o \in DOMAIN Calendar
          PROVE  o = f + d - 1 <=> y = Date(o).y /\ m = Date(o).m /\ d = Date(o).d
      <4>1. o \in Int /\ Date(o).y \in Int /\ Date(o).m \in 1..12
            /\ Date(o).d = o - Day(Date(o).y, Date(o).m, 1) + 1
        BY DateIs
      <4>2. ASSUME y = Date(o).y, m = Date(o).m, d = Date(o).d PROVE o = f + d - 1
        BY <3>1, <4>1, <4>2 DEF f
      <4>3. ASSUME o = f + d - 1 PROVE y = Date(o).y /\ m = Date(o).m
        <5>1. f <= o /\ o < f + DaysIn(y, m)
          BY <3>1, <4>3
        <5>2. 12 * y + m - 1 <= MonthOf(o)
          BY <2>0, <3>1, <5>1, MonthBegins DEF f
        <5>3. MonthOf(o) <= 12 * y + m - 1
          <6>1. ~ (12 * y + m < 12 * Date(o).y + Date(o).m)
            <7> SUFFICES ASSUME 12 * y + m < 12 * Date(o).y + Date(o).m PROVE FALSE
              OBVIOUS
            <7>1. f + DaysIn(y, m) <= Day(Date(o).y, Date(o).m, 1)
              BY <2>0, <3>1, <4>1, MonthsGrow DEF f
            <7>2. Day(Date(o).y, Date(o).m, 1) <= o /\ Day(Date(o).y, Date(o).m, 1) \in Int
              BY DateIs, MonthTyped
            <7>3. QED
              BY <3>1, <4>1, <5>1, <7>1, <7>2
          <6>2. QED
            BY <2>0, <3>1, <4>1, <6>1 DEF MonthOf
        <5>4. MonthOf(o) = 12 * Date(o).y + Date(o).m - 1
          BY DEF MonthOf
        <5>5. QED
          BY <2>0, <3>1, <4>1, <5>2, <5>3, <5>4
      <4>4. ASSUME o = f + d - 1 PROVE d = Date(o).d
        <5>1. Date(o).d = o - f + 1
          BY <4>1, <4>3, <4>4 DEF f
        <5>2. QED
          BY <3>1, <4>4, <5>1
      <4>5. QED
        BY <4>2, <4>3, <4>4
    <3>6. \A o \in DOMAIN Calendar : o \in Int
      BY DateIs
    <3>7. QED
      BY <2>3, <3>1, <3>2, <3>3, <3>4, <3>5, <3>6 DEF Right
  <2>6. QED
    BY <2>4, <2>5
<1>6. QED
  BY <1>3, <1>4, <1>5 DEF DateText, x

\* What may be asked: a name, right or wrong, a date, right or wrong, or a range
\* of the two; at any hour of such a day, by the clocks of any zone.
End == [kind : {"named"}, name : STRING] \union [kind : {"written"}, date : DateText]
SpanText == End \union [kind : {"range"}, from : End, to : End]

NamesDays(x) == IF x.kind = "named" THEN x.name \in Named ELSE Exists(x.date)

LEMMA EndIsRight ==
  ASSUME NEW today \in Askable, NEW x \in End, x.kind = "named" => x.name # "pastWeek"
  PROVE  IF NamesDays(x)
         THEN Right(DateSpan(x, today), x, today)
         ELSE \A o \in DOMAIN Calendar : ~In(x, o, today)
<1>1. ASSUME NEW name \in STRING, name # "pastWeek", x = [kind |-> "named", name |-> name]
      PROVE  IF name \in Named THEN Right(DateSpan(x, today), x, today)
                               ELSE \A o \in DOMAIN Calendar : ~In(x, o, today)
  <2>1. CASE name \in Named
    BY <1>1, <2>1, NamedIsRight DEF DateSpan
  <2>2. CASE name \notin Named
    <3>1. \A o : ~InNamed(name, o, today)
      BY <2>2 DEF InNamed, Named
    <3>2. QED
      BY <1>1, <2>2, <3>1 DEF In
  <2>3. QED
    BY <2>1, <2>2
<1>2. ASSUME NEW t \in DateText, x = [kind |-> "written", date |-> t]
      PROVE  IF Exists(t) THEN Right(DateSpan(x, today), x, today)
                          ELSE \A o \in DOMAIN Calendar : ~In(x, o, today)
  BY <1>2, WrittenIsRight DEF DateSpan
<1>3. CASE x \in [kind : {"named"}, name : STRING]
  <2>1. x.kind = "named" /\ x.name \in STRING /\ x.name # "pastWeek" /\ x = [kind |-> "named", name |-> x.name]
    BY <1>3
  <2>2. NamesDays(x) <=> x.name \in Named
    BY <2>1 DEF NamesDays
  <2>3. QED
    BY <1>1, <2>1, <2>2
<1>4. CASE x \in [kind : {"written"}, date : DateText]
  <2>1. x.kind = "written" /\ x.date \in DateText /\ x = [kind |-> "written", date |-> x.date]
    BY <1>4
  <2>2. NamesDays(x) <=> Exists(x.date)
    BY <2>1 DEF NamesDays
  <2>3. QED
    BY <1>2, <2>1, <2>2
<1>5. QED
  BY <1>3, <1>4 DEF End

\* The first day of a span's first end and the last of its last.
LEMMA SpanIsRight ==
  ASSUME NEW today \in Askable, NEW t \in SpanText, ~SaysPastWeek(t)
  PROVE  IF Sound(t)
         THEN LET s == FirstAndLast(t, today)
              IN /\ s[1] \in Int /\ s[2] \in Int
                 /\ Day(FirstYear + 1, 1, 1) <= s[1] /\ s[1] <= Day(LastYear, 1, 1) + 6
                 /\ Day(FirstYear + 1, 1, 1) <= s[2] /\ s[2] <= Day(LastYear, 1, 1) + 6
                 /\ \A o \in DOMAIN Calendar : s[1] <= o /\ o <= s[2] <=> InSpan(t, o, today)
         ELSE \A o \in DOMAIN Calendar : ~InSpan(t, o, today)
<1>1. ASSUME NEW x \in End \cap EndsOf(t)
      PROVE  IF NamesDays(x) THEN Right(DateSpan(x, today), x, today)
                             ELSE \A o \in DOMAIN Calendar : ~In(x, o, today)
  BY EndIsRight DEF SaysPastWeek
<1>2. Sound(t) <=> \A x \in EndsOf(t) : NamesDays(x)
  BY DEF Sound, NamesDays
<1>3. /\ Day(FirstYear + 1, 1, 1) \in Int /\ Day(LastYear, 1, 1) \in Int
      /\ \A o \in Day(FirstYear + 1, 1, 1) .. (Day(LastYear, 1, 1) + 6) : o \in DOMAIN Calendar
      /\ \A o \in DOMAIN Calendar : o \in Int
  <2>1. Day(FirstYear + 1, 1, 1) \in Int /\ Day(LastYear, 1, 1) \in Int
    BY CalendarAssumption, YearEnds
  <2>2. QED
    BY <2>1, Spare DEF Calendar
<1>4. CASE t \in End
  <2>1. t.kind # "range" /\ EndsOf(t) = {t}
    BY <1>4 DEF End, EndsOf
  <2>2. FirstAndLast(t, today) = <<DateSpan(t, today)[1], DateSpan(t, today)[2]>>
    BY <2>1 DEF FirstAndLast
  <2>3. \A o : InSpan(t, o, today) <=> In(t, o, today)
    BY <2>1 DEF InSpan
  <2>4. Sound(t) <=> NamesDays(t)
    BY <1>2, <2>1
  <2>5. CASE NamesDays(t)
    <3>1. Right(DateSpan(t, today), t, today)
      BY <1>1, <1>4, <2>1, <2>5
    <3>2. QED
      BY <1>3, <2>2, <2>3, <2>4, <2>5, <3>1 DEF Right
  <2>6. CASE ~NamesDays(t)
    BY <1>1, <1>4, <2>1, <2>3, <2>4, <2>6
  <2>7. QED
    BY <2>5, <2>6
<1>5. CASE t \in [kind : {"range"}, from : End, to : End]
  <2>1. t.kind = "range" /\ t.from \in End /\ t.to \in End /\ EndsOf(t) = {t.from, t.to}
    BY <1>5 DEF EndsOf
  <2> DEFINE a == DateSpan(t.from, today)
             b == DateSpan(t.to, today)
  <2>2. FirstAndLast(t, today) = <<a[1], b[2]>>
    BY <2>1 DEF FirstAndLast
  <2>3. \A o : InSpan(t, o, today) <=> /\ \E p \in DOMAIN Calendar : p <= o /\ In(t.from, p, today)
                                      /\ \E p \in DOMAIN Calendar : o <= p /\ In(t.to, p, today)
    BY <2>1 DEF InSpan
  <2>4. Sound(t) <=> NamesDays(t.from) /\ NamesDays(t.to)
    BY <1>2, <2>1
  <2> HIDE DEF a, b
  <2>5. CASE NamesDays(t.from) /\ NamesDays(t.to)
    <3>1. Right(a, t.from, today) /\ Right(b, t.to, today)
      BY <1>1, <2>1, <2>5 DEF a, b
    <3>2. /\ a[1] \in Int /\ a[2] \in Int /\ b[1] \in Int /\ b[2] \in Int /\ a[1] <= a[2] /\ b[1] <= b[2]
          /\ Day(FirstYear + 1, 1, 1) <= a[1] /\ a[2] <= Day(LastYear, 1, 1) + 6
          /\ Day(FirstYear + 1, 1, 1) <= b[1] /\ b[2] <= Day(LastYear, 1, 1) + 6
          /\ \A o \in DOMAIN Calendar : a[1] <= o /\ o <= a[2] <=> In(t.from, o, today)
          /\ \A o \in DOMAIN Calendar : b[1] <= o /\ o <= b[2] <=> In(t.to, o, today)
      BY <3>1 DEF Right
    <3>3. a[1] \in DOMAIN Calendar /\ b[2] \in DOMAIN Calendar
      BY <1>3, <3>2
    <3>4. ASSUME NEW o \in DOMAIN Calendar
          PROVE  a[1] <= o <=> \E p \in DOMAIN Calendar : p <= o /\ In(t.from, p, today)
      <4>1. In(t.from, a[1], today)
        BY <3>2, <3>3
      <4>2. \A p \in DOMAIN Calendar : p <= o /\ In(t.from, p, today) => a[1] <= o
        BY <1>3, <3>2
      <4>3. QED
        BY <3>3, <4>1, <4>2
    <3>5. ASSUME NEW o \in DOMAIN Calendar
          PROVE  o <= b[2] <=> \E p \in DOMAIN Calendar : o <= p /\ In(t.to, p, today)
      <4>1. In(t.to, b[2], today)
        BY <3>2, <3>3
      <4>2. \A p \in DOMAIN Calendar : o <= p /\ In(t.to, p, today) => o <= b[2]
        BY <1>3, <3>2
      <4>3. QED
        BY <3>3, <4>1, <4>2
    <3>6. \A o \in DOMAIN Calendar : a[1] <= o /\ o <= b[2] <=> InSpan(t, o, today)
      BY <2>3, <3>4, <3>5
    <3>7. QED
      BY <1>3, <2>2, <2>4, <2>5, <3>2, <3>6
  <2>6. CASE ~(NamesDays(t.from) /\ NamesDays(t.to))
    BY <1>1, <2>1, <2>3, <2>4, <2>6
  <2>7. QED
    BY <2>5, <2>6
<1>6. QED
  BY <1>4, <1>5 DEF SpanText

\* The requests of HisSpan that stay within the calendar.
SpanRequest ==
  /\ input.of = "span" /\ input.text \in SpanText /\ input.now \in Int /\ input.zone \in Zone
  /\ LocalDay(input.zone, input.now) \in Askable

\* For every name but pastWeek, every date and range, zone and clock, a span that is read holds just
\* the instants whose local day it names, and one that names no day is refused.
THEOREM SpanIsExact == SpanRequest => SpanExact
<1> SUFFICES ASSUME SpanRequest, ~SaysPastWeek(input.text)
             PROVE  ExactlyTheDays(input.text, input.now, input.zone)
  BY DEF SpanExact
<1> DEFINE t == input.text
           zone == input.zone
           today == LocalDay(zone, input.now)
           s == FirstAndLast(t, today)
           span == ResolveSpan(t, input.now, zone)
<1>1. zone \in Zone /\ today \in Askable /\ t \in SpanText /\ ~SaysPastWeek(t)
  BY DEF SpanRequest
<1> HIDE DEF t, zone, today
<1>2. span = IF Sound(t) THEN Instants(s, zone) ELSE Refused
  BY DEF ResolveSpan, t, zone, today
<1>3. ~Refused.ok
  BY DEF Refused
<1> HIDE DEF s, span
<1>4. CASE ~Sound(t)
  <2>1. \A o \in DOMAIN Calendar : ~InSpan(t, o, today)
    BY <1>1, <1>4, SpanIsRight
  <2>2. ~span.ok
    BY <1>2, <1>3, <1>4
  <2>3. QED
    BY <2>1, <2>2 DEF ExactlyTheDays, t, zone, today, span
<1>5. CASE Sound(t)
  <2>1. /\ s[1] \in Int /\ s[2] \in Int
        /\ Day(FirstYear + 1, 1, 1) <= s[1] /\ s[1] <= Day(LastYear, 1, 1) + 6
        /\ Day(FirstYear + 1, 1, 1) <= s[2] /\ s[2] <= Day(LastYear, 1, 1) + 6
    BY <1>1, <1>5, SpanIsRight DEF s
  <2>2. \A o \in DOMAIN Calendar : s[1] <= o /\ o <= s[2] <=> InSpan(t, o, today)
    BY <1>1, <1>5, SpanIsRight DEF s
  <2>3. CASE s[2] < s[1]
    <3>1. ~span.ok
      BY <1>2, <1>3, <1>5, <2>3 DEF Instants
    <3>2. \A o \in DOMAIN Calendar : ~InSpan(t, o, today)
      BY <2>1, <2>2, <2>3, DateIs
    <3>3. QED
      BY <3>1, <3>2 DEF ExactlyTheDays, t, zone, today, span
  <2>4. CASE s[1] <= s[2]
    <3>1. span = [ok |-> TRUE, start |-> Midnight(zone, s[1]), end |-> Midnight(zone, s[2] + 1)]
      BY <1>2, <1>5, <2>1, <2>4 DEF Instants
    <3>2. ASSUME NEW h \in Int
          PROVE  span.start <= h /\ h < span.end <=> s[1] <= LocalDay(zone, h) /\ LocalDay(zone, h) <= s[2]
      <4>1. /\ (Midnight(zone, s[1]) <= h <=> s[1] <= LocalDay(zone, h))
            /\ (Midnight(zone, s[2] + 1) <= h <=> s[2] + 1 <= LocalDay(zone, h))
            /\ Midnight(zone, s[2] + 1) \in Int /\ LocalDay(zone, h) \in Int
        BY <1>1, <2>1, MidnightBegins
      <4>2. QED
        BY <2>1, <3>1, <4>1
    <3>3. ASSUME NEW e \in {span.start, span.end}, NEW k \in Around
          PROVE  e + k \in Int /\ LocalDay(zone, e + k) \in DOMAIN Calendar
      <4>1. PICK d \in {s[1], s[2] + 1} : e = Midnight(zone, d)
        BY <3>1
      <4>2. d \in Int /\ Day(FirstYear + 1, 1, 1) <= d /\ d <= Day(LastYear, 1, 1) + 7
        BY <2>1, <4>1, Spare, YearEnds, CalendarAssumption
      <4>3. /\ e \in Int /\ 24 * d - zone.winter - 1 <= e /\ e <= 24 * d - zone.winter
            /\ zone.winter \in Int
        BY <1>1, <4>1, <4>2 DEF Midnight, Zone, Summer
      <4>4. k \in Int /\ -49 <= k /\ k <= 25
        BY DEF Around
      <4>5. LocalDay(zone, e + k) \in Int /\ d - 4 <= LocalDay(zone, e + k) /\ LocalDay(zone, e + k) <= d + 2
        BY <4>2, <4>3, <4>4 DEF LocalDay, Offset
      <4>6. QED
        BY <4>2, <4>3, <4>4, <4>5, Spare, YearEnds, CalendarAssumption DEF Calendar
    <3>4. ASSUME NEW e \in {span.start, span.end}, NEW k \in Around
          PROVE  (span.start <= e + k /\ e + k < span.end) <=> InSpan(t, LocalDay(zone, e + k), today)
      BY <2>2, <3>2, <3>3
    <3>5. span.ok
      BY <3>1
    <3>6. QED
      BY <3>4, <3>5 DEF ExactlyTheDays, t, zone, today, span
  <2>5. QED
    BY <2>1, <2>3, <2>4
<1>6. QED
  BY <1>4, <1>5
=============================================================================
