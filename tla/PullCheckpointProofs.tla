------------------------ MODULE PullCheckpointProofs ------------------------
(***************************************************************************)
(* Proofs about PullCheckpoint for any points, samples, failures and times *)
(* at which the tick is cut short: the checkpoint never passes a sample.   *)
(***************************************************************************)
EXTENDS PullCheckpoint, SequenceTheorems, TLAPS

Flags ==
  conn \in BOOLEAN /\ authenticated \in BOOLEAN /\ again \in BOOLEAN /\ honoured \in BOOLEAN

Sampled == [key : Key, ts : 1..MaxTime, late : BOOLEAN]
HistoryRow == [key : Key, ts : 1..MaxTime]

Shape ==
  /\ kind \in {"haystack", "sql"} /\ clock \in 1..MaxTime
  /\ remote \subseteq Sampled /\ stored \subseteq HistoryRow /\ rows \subseteq HistoryRow
  /\ mark \in [Key -> 0..MaxTime] /\ since \in [Key -> Int]
  /\ pc \in {"sleep", "equip", "list", "mark", "read", "write"}
  /\ now \in 0..MaxTime /\ left \in Seq(Key) /\ start \in Int

Pulling == pc \in {"mark", "read", "write"}

\* The tick's time has passed, and no checkpoint was saved after it was taken.
MarksBehind ==
  /\ now <= clock /\ \A k \in Key : mark[k] <= clock
  /\ Pulling => left # <<>> /\ \A k \in Key : mark[k] <= now
  /\ pc = "list" => \A k \in Key : mark[k] <= now

\* The window starts at the checkpoint, or where the key's history is to start.
WindowFits ==
  pc \in {"read", "write"} =>
    LET m == mark[Head(left)] IN start = IF m = 0 THEN now - Backfill ELSE m

\* What came in time and lies in the window is stored, or among the rows to write.
WindowCovered ==
  pc = "write" =>
    \A s \in remote :
      ~s.late /\ s.key = Head(left) /\ start <= s.ts /\ s.ts < now
        => Row(s.key, s.ts) \in stored \union rows

IInv == Shape /\ MarksBehind /\ WindowFits /\ WindowCovered /\ NoGap

LEMMA Limits ==
  MaxTime \in Nat /\ Backfill \in Nat /\ Source \in Key /\ Roster \in Seq(Key)
<1>1. Roster \in Seq(Point) /\ Point \subseteq Key
  BY PullAssumption DEF Key
<1>2. Roster \in Seq(Key)
  BY <1>1, SeqDef
<1>3. QED
  BY <1>2, PullAssumption DEF Key

LEMMA InitIInv == Init => IInv
<1> SUFFICES ASSUME Init PROVE IInv
  OBVIOUS
<1>1. left \in Seq(Key)
  BY EmptySeq DEF Init
<1>2. MaxTime >= 1
  BY Limits, PullAssumption
<1>3. QED
  BY <1>1, <1>2, Limits DEF Init, IInv, Shape, MarksBehind, Pulling, WindowFits, WindowCovered, NoGap

\* The remote and the world: the clock goes on, a sample that comes in time
\* bears the time of the clock, which no checkpoint and no window has passed.
LEMMA SampleKeeps ==
  ASSUME IInv, NEW s \in Sampled, s.late \/ s.ts = clock, remote' = remote \union {s},
         UNCHANGED <<kind, clock, table, tick, pc>>
  PROVE  IInv'
<1> USE DEF table, tick
<1>1. Shape'
  BY DEF IInv, Shape
<1>2. MarksBehind' /\ WindowFits'
  BY DEF IInv, MarksBehind, WindowFits, Pulling
<1>3. WindowCovered'
  <2>1. now <= clock /\ now \in Int /\ clock \in Int
    BY Limits DEF IInv, MarksBehind, Shape
  <2>2. QED
    BY <2>1 DEF IInv, WindowCovered, Sampled
<1>4. NoGap'
  <2>1. s.key \in Key /\ mark[s.key] <= clock /\ mark[s.key] \in Int /\ clock \in Int
    BY Limits DEF IInv, MarksBehind, Shape, Sampled
  <2>2. QED
    BY <2>1 DEF IInv, NoGap, Sampled
<1>5. QED
  BY <1>1, <1>2, <1>3, <1>4 DEF IInv

\* What does not touch the tick, the tables or the remote keeps them.
LEMMA OthersKeep ==
  ASSUME IInv, clock' \in clock..MaxTime, UNCHANGED <<kind, remote, table, tick, pc>>
  PROVE  IInv'
<1> USE DEF table, tick
<1>1. clock \in Int /\ now \in Int /\ MaxTime \in Int /\ clock <= clock'
  BY Limits DEF IInv, Shape
<1>2. Shape'
  BY <1>1 DEF IInv, Shape
<1>3. MarksBehind'
  <2>1. \A k \in Key : mark[k] \in Int
    BY DEF IInv, Shape
  <2>2. now' <= clock' /\ \A k \in Key : mark'[k] <= clock'
    BY <1>1, <2>1 DEF IInv, MarksBehind
  <2>3. QED
    BY <2>2 DEF IInv, MarksBehind, Pulling
<1>4. WindowFits' /\ WindowCovered' /\ NoGap'
  BY DEF IInv, WindowFits, WindowCovered, NoGap
<1>5. QED
  BY <1>2, <1>3, <1>4 DEF IInv

\* Whatever ends the tick leaves the tables as they are.
LEMMA SleepKeeps ==
  ASSUME IInv, Sleep, UNCHANGED <<kind, remoteVars, table>>
  PROVE  IInv'
<1> USE DEF remoteVars, table
<1>1. left' \in Seq(Key)
  BY EmptySeq DEF Sleep
<1>2. Shape'
  BY <1>1, Limits DEF IInv, Shape, Sleep
<1>3. MarksBehind' /\ WindowFits' /\ WindowCovered' /\ NoGap'
  BY DEF IInv, Shape, Sleep, MarksBehind, WindowFits, WindowCovered, NoGap, Pulling
<1>4. QED
  BY <1>2, <1>3 DEF IInv
-----------------------------------------------------------------------------
(* The steps of the tick.                                                  *)

\* The tick begins, or takes its time, or has its list: no window is open yet.
LEMMA TimeKeeps ==
  ASSUME IInv, now' \in {now, clock}, left' \in Seq(Key), pc' \in {"equip", "list", "mark", "sleep"},
         pc' = "mark" => left' # <<>>,
         pc' \in {"list", "mark"} => now' = clock \/ pc = "list",
         UNCHANGED <<kind, remoteVars, table, start, rows>>
  PROVE  IInv'
<1> USE DEF remoteVars, table
<1>1. clock \in Int /\ clock <= MaxTime /\ clock \in 0..MaxTime
  BY Limits DEF IInv, Shape
<1>2. Shape'
  BY <1>1 DEF IInv, Shape
<1>3. MarksBehind'
  BY <1>1 DEF IInv, Shape, MarksBehind, Pulling
<1>4. WindowFits' /\ WindowCovered' /\ NoGap'
  BY DEF IInv, WindowFits, WindowCovered, NoGap
<1>5. QED
  BY <1>2, <1>3, <1>4 DEF IInv

LEMMA ReadMarkKeeps == ASSUME IInv, ReadMark PROVE IInv'
<1> DEFINE k == Head(left)
           m == mark[k]
<1>1. left # <<>> /\ k \in Key /\ m \in Int /\ now \in Int
  BY Limits, HeadTailProperties DEF IInv, Shape, MarksBehind, Pulling, ReadMark
<1>2. /\ start' = IF m = 0 THEN now - Backfill ELSE m
      /\ pc' \in {"read", "write"} /\ (pc' = "write" => start' >= now)
      /\ rows' = {}
      /\ UNCHANGED <<kind, clock, remote, stored, mark, since, now, left>>
  BY DEF ReadMark, remoteVars, table
<1> HIDE DEF k, m
<1>3. start' \in Int
  BY <1>1, <1>2, Limits
<1>4. Shape'
  BY <1>2, <1>3 DEF IInv, Shape
<1>5. MarksBehind'
  BY <1>2 DEF IInv, MarksBehind, Pulling, ReadMark
<1>6. WindowFits'
  BY <1>2 DEF WindowFits, k, m
<1>7. WindowCovered'
  <2>1. \A s \in remote : s.ts \in Int
    BY DEF IInv, Shape, Sampled
  <2>2. QED
    BY <1>1, <1>2, <1>3, <2>1 DEF WindowCovered
<1>8. NoGap'
  BY <1>2 DEF IInv, NoGap
<1>9. QED
  BY <1>4, <1>5, <1>6, <1>7, <1>8 DEF IInv

LEMMA AnswerHistoryKeeps == ASSUME IInv, AnswerHistory PROVE IInv'
<1> DEFINE k == Head(left)
<1>1. k \in Key
  BY HeadTailProperties DEF IInv, Shape, MarksBehind, Pulling, AnswerHistory
<1>2. PICK closed \in BOOLEAN : rows' = InWindow(k, start, now, closed)
  BY DEF AnswerHistory
<1>3. /\ pc = "read" /\ pc' = "write"
      /\ UNCHANGED <<kind, clock, remote, stored, mark, since, now, left, start>>
  BY DEF AnswerHistory, remoteVars, table
<1>4. rows' \subseteq HistoryRow
  BY <1>1, <1>2 DEF InWindow, Row, HistoryRow, Sampled, IInv, Shape
<1>5. Shape'
  BY <1>3, <1>4 DEF IInv, Shape
<1>6. MarksBehind' /\ WindowFits' /\ NoGap'
  BY <1>3 DEF IInv, MarksBehind, WindowFits, NoGap, Pulling
<1>7. WindowCovered'
  BY <1>2, <1>3 DEF WindowCovered, InWindow
<1>8. QED
  BY <1>5, <1>6, <1>7 DEF IInv

LEMMA WriteRowKeeps == ASSUME IInv, WriteRow PROVE IInv'
<1>1. PICK r \in rows : stored' = stored \union {r} /\ rows' = rows \ {r}
  BY DEF WriteRow
<1>2. /\ pc = "write" /\ UNCHANGED <<kind, clock, remote, mark, since, now, left, start, pc>>
  BY DEF WriteRow, remoteVars
<1>3. Shape'
  BY <1>1, <1>2 DEF IInv, Shape
<1>4. MarksBehind' /\ WindowFits'
  BY <1>2 DEF IInv, MarksBehind, WindowFits, Pulling
<1>5. WindowCovered' /\ NoGap'
  BY <1>1, <1>2 DEF IInv, WindowCovered, NoGap
<1>6. QED
  BY <1>3, <1>4, <1>5 DEF IInv

\* The step the invariant is for: the window that ends here covers what lies
\* between the old checkpoint, or the start of the history, and the new one.
LEMMA SaveMarkKeeps == ASSUME IInv, SaveMark PROVE IInv'
<1> DEFINE k == Head(left)
<1>1. left # <<>> /\ k \in Key /\ Tail(left) \in Seq(Key)
  BY HeadTailProperties DEF IInv, Shape, MarksBehind, Pulling, SaveMark
<1>2. /\ pc = "write" /\ rows = {} /\ mark' = [mark EXCEPT ![k] = now]
      /\ since' = (IF mark[k] = 0 THEN [since EXCEPT ![k] = start] ELSE since)
      /\ left' = Tail(left) /\ pc' = (IF left' = <<>> THEN "sleep" ELSE "mark")
      /\ UNCHANGED <<kind, clock, remote, stored, now, start, rows>>
  BY DEF SaveMark, remoteVars
<1> HIDE DEF k
<1>3. now \in Int /\ now <= clock /\ clock \in Int
      /\ \A j \in Key : mark[j] \in Int /\ mark[j] <= now /\ since[j] \in Int
  BY <1>2, Limits DEF IInv, Shape, MarksBehind, Pulling
<1>4. mark' \in [Key -> 0..MaxTime] /\ since' \in [Key -> Int]
  BY <1>1, <1>2 DEF IInv, Shape
<1>5. Shape'
  BY <1>1, <1>2, <1>4 DEF IInv, Shape
<1>6. \A j \in Key : mark'[j] = (IF j = k THEN now ELSE mark[j])
  BY <1>2 DEF IInv, Shape
<1>7. MarksBehind'
  <2>1. \A j \in Key : mark'[j] <= now'
    BY <1>2, <1>3, <1>6
  <2>2. \A j \in Key : mark'[j] <= clock'
    BY <1>2, <1>3, <1>6
  <2>3. QED
    BY <1>2, <1>3, <2>1, <2>2 DEF MarksBehind, Pulling
<1>8. WindowFits' /\ WindowCovered'
  BY <1>2 DEF WindowFits, WindowCovered
<1>9. NoGap'
  <2> SUFFICES ASSUME NEW s \in remote, ~s.late, since'[s.key] <= s.ts, s.ts < mark'[s.key]
               PROVE  Row(s.key, s.ts) \in stored
    BY <1>2 DEF NoGap
  <2>1. s.key \in Key /\ s.ts \in Int
    BY DEF IInv, Shape, Sampled
  <2>2. CASE s.key # k
    <3>1. mark'[s.key] = mark[s.key] /\ since'[s.key] = since[s.key]
      BY <1>2, <1>6, <2>1, <2>2 DEF IInv, Shape
    <3>2. QED
      BY <3>1 DEF IInv, NoGap
  <2>3. CASE s.key = k
    <3>1. start <= s.ts => Row(s.key, s.ts) \in stored
      BY <1>2, <1>6, <2>1, <2>3 DEF IInv, WindowCovered, k
    <3>2. CASE mark[k] = 0
      <4>1. since'[k] = start
        BY <1>1, <1>2, <3>2 DEF IInv, Shape
      <4>2. QED
        BY <2>3, <3>1, <4>1
    <3>3. CASE mark[k] # 0
      <4>1. since'[k] = since[k] /\ start = mark[k]
        BY <1>2, <3>3 DEF IInv, WindowFits, k
      <4>2. s.ts < mark[k] => Row(s.key, s.ts) \in stored
        BY <2>3, <4>1 DEF IInv, NoGap
      <4>3. QED
        BY <1>1, <1>3, <2>1, <3>1, <4>1, <4>2
    <3>4. QED
      BY <3>2, <3>3
  <2>4. QED
    BY <2>2, <2>3
<1>10. QED
  BY <1>5, <1>7, <1>8, <1>9 DEF IInv

LEMMA NextIInv == IInv /\ [Next]_vars => IInv'
<1> SUFFICES ASSUME IInv, [Next]_vars PROVE IInv'
  OBVIOUS
<1> USE Limits
<1>t. clock \in 1..MaxTime /\ clock \in clock..MaxTime /\ left \in Seq(Key)
  BY DEF IInv, Shape
<1>1. ASSUME NEW k \in Key, Sample(k) PROVE IInv'
  <2> DEFINE s == [key |-> k, ts |-> clock, late |-> FALSE]
  <2>1. s \in Sampled
    BY <1>t DEF Sampled
  <2>2. QED
    BY <1>1, <2>1, SampleKeeps DEF Sample
<1>2. ASSUME NEW k \in Key, LateSample(k) PROVE IInv'
  <2>1. PICK t \in 1..(clock - 1) : remote' = remote \union {[key |-> k, ts |-> t, late |-> TRUE]}
    BY <1>2 DEF LateSample
  <2> DEFINE s == [key |-> k, ts |-> t, late |-> TRUE]
  <2>2. s \in Sampled
    BY <1>t DEF Sampled
  <2>3. QED
    BY <1>2, <2>1, <2>2, SampleKeeps DEF LateSample
<1>3. CASE Tick
  BY <1>3, <1>t, OthersKeep DEF Tick
<1>4. CASE RevokeToken \/ Authenticate \/ Refused \/ LoseConnection
  BY <1>4, <1>t, OthersKeep DEF RevokeToken, Authenticate, Refused, LoseConnection, remoteVars
<1>5. CASE RefusedAgain \/ BrokenPoint \/ Fail \/ StatementFails \/ Restart
  BY <1>5, SleepKeeps DEF RefusedAgain, BrokenPoint, Fail, StatementFails, Restart
<1>6. CASE Wake
  <2>1. CASE kind = "haystack" /\ pc' = "equip" /\ UNCHANGED tick
    BY <1>6, <1>t, <2>1, TimeKeeps DEF Wake, tick
  <2>2. CASE pc' = "mark" /\ now' = clock /\ left' = <<Source>> /\ UNCHANGED <<start, rows>>
    <3>1. left' \in Seq(Key) /\ left' # <<>>
      BY <2>2
    <3>2. QED
      BY <1>6, <2>2, <3>1, TimeKeeps DEF Wake
  <2>3. QED
    BY <1>6, <2>1, <2>2 DEF Wake
<1>7. CASE AnswerEquip
  BY <1>7, <1>t, TimeKeeps DEF AnswerEquip
<1>8. CASE AnswerList
  BY <1>8, TimeKeeps DEF AnswerList
<1>9. CASE UNCHANGED vars
  BY <1>9, <1>t, OthersKeep DEF vars, remoteVars
<1>10. QED
  BY <1>1, <1>2, <1>3, <1>4, <1>5, <1>6, <1>7, <1>8, <1>9,
     ReadMarkKeeps, AnswerHistoryKeeps, WriteRowKeeps, SaveMarkKeeps
     DEF Next, Pull, Pulled, Key

LEMMA NextFlags == Flags /\ [Next]_vars => Flags'
BY Zenon
   DEF Flags, Next, Pull, Wake, Authenticate, Refused, RefusedAgain, AnswerEquip, AnswerList, ReadMark,
       AnswerHistory, WriteRow, SaveMark, BrokenPoint, StatementFails, Sample, LateSample, Tick,
       RevokeToken, Fail, LoseConnection, Restart, Answered, vars, client

\* The variables stay in their types: no row has a time that has not come.
THEOREM TypeCorrect == Spec => []TypeOK
<1>1. Init => Flags
  BY DEF Init, Flags
<1>2. Flags /\ IInv => TypeOK
  BY DEF Flags, IInv, Shape, TypeOK, Sampled, HistoryRow
<1>3. QED
  BY <1>1, <1>2, InitIInv, NextIInv, NextFlags, PTL DEF Spec

\* However ticks are cut short between the rows and the checkpoint, and whatever
\* comes late or at the very time of the tick, the checkpoint never passes a
\* sample that came in time and is not stored (haystack_puller.py:90-93).
THEOREM CheckpointCovers == Spec => []NoGap
<1>1. IInv => NoGap
  BY DEF IInv
<1>2. QED
  BY <1>1, InitIInv, NextIInv, PTL DEF Spec

\* A checkpoint never goes back, although each is written from a time taken
\* when its tick began (haystack_puller.py:68 and 90, sql_puller.py:30 and 52).
THEOREM CheckpointsAdvance == Spec => [][\A k \in Key : mark[k] <= mark'[k]]_vars
<1> DEFINE Advance == \A k \in Key : mark[k] <= mark'[k]
<1>1. IInv /\ [Next]_vars => [Advance]_vars
  <2> SUFFICES ASSUME IInv, Next PROVE Advance
    OBVIOUS
  <2>1. \A k \in Key : mark[k] \in Int
    BY Limits DEF IInv, Shape
  <2>2. CASE SaveMark
    <3>1. now \in Int /\ \A k \in Key : mark[k] <= now
      BY <2>2, Limits DEF SaveMark, IInv, Shape, MarksBehind, Pulling
    <3>2. mark' = [mark EXCEPT ![Head(left)] = now]
      BY <2>2 DEF SaveMark
    <3>3. QED
      BY <2>1, <3>1, <3>2 DEF IInv, Shape
  <2>3. CASE UNCHANGED mark
    BY <2>1, <2>3
  <2>4. SaveMark \/ UNCHANGED mark
    BY DEF Next, Pull, Wake, Authenticate, Refused, RefusedAgain, AnswerEquip, AnswerList, ReadMark,
           AnswerHistory, WriteRow, BrokenPoint, StatementFails, Sample, LateSample, Tick,
           RevokeToken, Fail, LoseConnection, Restart, table
  <2>5. QED
    BY <2>2, <2>3, <2>4
<1>2. QED
  BY <1>1, InitIInv, NextIInv, PTL DEF Spec
=============================================================================
