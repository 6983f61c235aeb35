------------------------- MODULE MqttSessionProofs -------------------------
(***************************************************************************)
(* Proofs about MqttSession for any queue, any number of messages and any  *)
(* failures: what a client with QoS 1 can rely on.                         *)
(***************************************************************************)
EXTENDS MqttSession, SequenceTheorems, TLAPS

\* What is in on_message while the connection holds is still the head of the
\* queue: a new connection is made only after on_message has returned.
InHand == Qos = 1 /\ link /\ busy # 0 => queue # <<>> /\ Head(queue) = busy

Flags ==
  link \in BOOLEAN /\ due \in BOOLEAN /\ started \in BOOLEAN /\ subscribed \in BOOLEAN
Shape ==
  /\ queue \in Seq(1 .. MaxPublished) /\ Len(queue) <= QueueLimit
  /\ busy \in 0 .. MaxPublished /\ published \in 0 .. MaxPublished
  /\ handled \subseteq 1 .. MaxPublished /\ passed \subseteq 1 .. MaxPublished
  /\ breaks \in 0 .. MaxBreaks

IInv == Shape /\ InHand /\ (Qos = 1 => NothingLost)

\* Appending a message adds it to the set; what is in the tail was there.
LEMMA AppendToSet ==
  ASSUME NEW S, NEW s \in Seq(S), NEW e \in S
  PROVE  /\ Append(s, e) \in Seq(S) /\ Len(Append(s, e)) = Len(s) + 1
         /\ ToSet(Append(s, e)) = ToSet(s) \cup {e}
         /\ Append(s, e) # <<>>
         /\ s # <<>> => Head(Append(s, e)) = Head(s)
<1> DEFINE t == Append(s, e)
<1>1. /\ t \in Seq(S) /\ Len(t) = Len(s) + 1 /\ Len(s) \in Nat
      /\ DOMAIN s = 1 .. Len(s) /\ DOMAIN t = 1 .. Len(s) + 1
      /\ \A i \in 1 .. Len(s) : t[i] = s[i]
      /\ t[Len(s) + 1] = e
  BY AppendProperties, LenProperties
<1>2. ToSet(t) = ToSet(s) \cup {e}
  <2>1. ToSet(s) = {s[i] : i \in 1 .. Len(s)} /\ ToSet(t) = {t[i] : i \in 1 .. Len(s) + 1}
    BY <1>1 DEF ToSet
  <2>2. {t[i] : i \in 1 .. Len(s) + 1} = {t[i] : i \in 1 .. Len(s)} \cup {t[Len(s) + 1]}
    BY <1>1
  <2>3. QED
    BY <1>1, <2>1, <2>2
<1>3. t # <<>> /\ (s # <<>> => Head(t) = Head(s))
  BY <1>1, HeadTailProperties, EmptySeq
<1>4. QED
  BY <1>1, <1>2, <1>3

LEMMA TailToSet ==
  ASSUME NEW S, NEW s \in Seq(S), s # <<>>
  PROVE  /\ Tail(s) \in Seq(S) /\ Len(Tail(s)) = Len(s) - 1
         /\ Head(s) \in ToSet(s)
         /\ ToSet(s) = {Head(s)} \cup ToSet(Tail(s))
<1>1. /\ Tail(s) \in Seq(S) /\ Len(Tail(s)) = Len(s) - 1 /\ Len(s) \in Nat \ {0}
      /\ DOMAIN s = 1 .. Len(s) /\ DOMAIN Tail(s) = 1 .. Len(s) - 1
      /\ \A i \in 1 .. Len(Tail(s)) : Tail(s)[i] = s[i + 1]
      /\ Head(s) = s[1]
  BY HeadTailProperties, EmptySeq, LenProperties
<1>2. ToSet(s) \subseteq {Head(s)} \cup ToSet(Tail(s))
  <2> SUFFICES ASSUME NEW i \in 1 .. Len(s), i # 1 PROVE s[i] \in ToSet(Tail(s))
    BY <1>1 DEF ToSet
  <2>1. i - 1 \in DOMAIN Tail(s) /\ Tail(s)[i - 1] = s[i]
    BY <1>1
  <2>2. QED
    BY <2>1 DEF ToSet
<1>3. ToSet(Tail(s)) \subseteq ToSet(s)
  <2> SUFFICES ASSUME NEW i \in DOMAIN Tail(s) PROVE Tail(s)[i] \in ToSet(s)
    BY DEF ToSet
  <2>1. i + 1 \in DOMAIN s /\ Tail(s)[i] = s[i + 1]
    BY <1>1
  <2>2. QED
    BY <2>1 DEF ToSet
<1>4. Head(s) \in ToSet(s)
  BY <1>1 DEF ToSet
<1>5. QED
  BY <1>1, <1>2, <1>3, <1>4

LEMMA Limits == QueueLimit \in Nat \ {0} /\ MaxPublished \in Nat /\ MaxBreaks \in Nat
BY ParameterAssumption

LEMMA InitIInv == SessionInit => IInv
<1> SUFFICES ASSUME SessionInit PROVE IInv
  OBVIOUS
<1>1. queue \in Seq(1 .. MaxPublished) /\ Len(queue) = 0
  BY EmptySeq DEF SessionInit
<1>2. Shape
  BY <1>1, Limits DEF SessionInit, Shape
<1>3. NothingLost
  BY DEF SessionInit, NothingLost
<1>4. QED
  BY <1>2, <1>3 DEF SessionInit, IInv, InHand

\* What a step that forgets the session does to the messages.
LEMMA ForgottenKeeps ==
  ASSUME Shape, Forgotten, UNCHANGED <<published, handled>>
  PROVE  /\ queue' \in Seq(1 .. MaxPublished) /\ Len(queue') <= QueueLimit
         /\ passed' \subseteq 1 .. MaxPublished
         /\ NothingLost => NothingLost'
<1>1. ToSet(queue) \subseteq 1 .. MaxPublished
  <2>1. queue \in Seq(1 .. MaxPublished) /\ DOMAIN queue = 1 .. Len(queue)
    BY LenProperties DEF Shape
  <2>2. \A i \in DOMAIN queue : queue[i] \in 1 .. MaxPublished
    BY <2>1, ElementOfSeq
  <2>3. QED
    BY <2>2 DEF ToSet
<1>2. queue' \in Seq(1 .. MaxPublished) /\ Len(queue') = 0
  BY EmptySeq DEF Forgotten
<1>3. Len(queue') <= QueueLimit
  BY <1>2, Limits
<1>4. passed' \subseteq 1 .. MaxPublished
  BY <1>1 DEF Forgotten, Shape
<1>5. NothingLost => NothingLost'
  BY DEF Forgotten, NothingLost
<1>6. QED
  BY <1>2, <1>3, <1>4, <1>5

LEMMA DisconnectedKeeps ==
  ASSUME Shape, Disconnected, UNCHANGED <<published, handled>>
  PROVE  /\ queue' \in Seq(1 .. MaxPublished) /\ Len(queue') <= QueueLimit
         /\ passed' \subseteq 1 .. MaxPublished
         /\ InHand' /\ (NothingLost => NothingLost')
<1>1. InHand'
  BY DEF Disconnected, InHand
<1>2. CASE CleanSession
  BY <1>1, <1>2, ForgottenKeeps DEF Disconnected
<1>3. CASE ~CleanSession
  BY <1>1, <1>3 DEF Disconnected, Shape, NothingLost
<1>4. QED
  BY <1>2, <1>3

\* A message is appended to the queue, published just now or retained.
LEMMA QueuedKeeps ==
  ASSUME IInv, NEW m \in 1 .. MaxPublished, queue' = Append(queue, m), Len(queue) < QueueLimit,
         UNCHANGED <<link, busy, handled, passed, breaks>>,
         published' \in 0 .. MaxPublished, published' = published \/ (published' = published + 1 /\ m = published')
  PROVE  IInv'
<1>1. queue \in Seq(1 .. MaxPublished) /\ Len(queue) \in Nat
  BY LenProperties DEF IInv, Shape
<1>2. /\ queue' \in Seq(1 .. MaxPublished) /\ Len(queue') = Len(queue) + 1
      /\ ToSet(queue') = ToSet(queue) \cup {m}
      /\ queue' # <<>> /\ (queue # <<>> => Head(queue') = Head(queue))
  <2> DEFINE M == 1 .. MaxPublished
             t == Append(queue, m)
  <2>1. queue \in Seq(M) /\ m \in M /\ queue' = t
    BY <1>1
  <2> HIDE DEF M
  <2>2. /\ t \in Seq(M) /\ Len(t) = Len(queue) + 1 /\ ToSet(t) = ToSet(queue) \cup {m}
        /\ t # <<>> /\ (queue # <<>> => Head(t) = Head(queue))
    BY <2>1, AppendToSet
  <2> HIDE DEF t
  <2>3. QED
    BY <2>1, <2>2 DEF M
<1>3. Shape'
  BY <1>1, <1>2, Limits DEF IInv, Shape
<1>4. InHand'
  BY <1>2 DEF IInv, InHand
<1>5. NothingLost => NothingLost'
  BY <1>2 DEF IInv, Shape, NothingLost
<1>6. QED
  BY <1>3, <1>4, <1>5 DEF IInv

LEMMA NextIInv == IInv /\ [SessionNext]_sessionVars => IInv'
<1> SUFFICES ASSUME IInv, [SessionNext]_sessionVars PROVE IInv'
  OBVIOUS
<1> USE Limits
<1> DEFINE M == 1 .. MaxPublished
<1>q. queue \in Seq(M) /\ Len(queue) \in Nat /\ Len(queue) <= QueueLimit
  BY LenProperties DEF IInv, Shape
<1>1. CASE Publish
  <2>1. published' \in M /\ published' = published + 1
    BY <1>1 DEF Publish, IInv, Shape
  <2>2. CASE Queueable
    BY <1>1, <2>1, <2>2, QueuedKeeps DEF Publish, Queueable
  <2>3. CASE ~Queueable
    <3>1. passed' = passed \cup {published'} /\ UNCHANGED <<link, queue, busy, handled, breaks>>
      BY <1>1, <2>3 DEF Publish
    <3>2. Shape' /\ (NothingLost => NothingLost')
      BY <2>1, <3>1 DEF IInv, Shape, NothingLost
    <3>3. QED
      BY <3>1, <3>2 DEF IInv, InHand
  <2>4. QED
    BY <2>2, <2>3
<1>2. CASE Connect
  <2>1. busy = 0 /\ UNCHANGED <<queue, busy, published, handled, passed, breaks>>
    BY <1>2 DEF Connect
  <2>2. QED
    BY <2>1 DEF IInv, Shape, InHand, NothingLost
<1>3. CASE Subscribe
  <2>1. CASE published > 0 /\ Len(queue) < QueueLimit
    <3>1. published \in M /\ queue' = Append(queue, published)
      BY <1>3, <2>1 DEF Subscribe, IInv, Shape
    <3>2. QED
      BY <1>3, <2>1, <3>1, QueuedKeeps DEF Subscribe
  <2>2. CASE ~(published > 0 /\ Len(queue) < QueueLimit)
    BY <1>3, <2>2 DEF Subscribe, IInv, Shape, InHand, NothingLost
  <2>3. QED
    BY <2>1, <2>2
<1>4. CASE Receive
  <2>1. /\ Head(queue) \in M /\ Tail(queue) \in Seq(M) /\ Len(Tail(queue)) = Len(queue) - 1
    BY <1>4, <1>q, HeadTailProperties DEF Receive
  <2>2. /\ busy' = Head(queue) /\ queue # <<>> /\ queue' = IF Qos = 0 THEN Tail(queue) ELSE queue
        /\ UNCHANGED <<published, handled, passed, breaks>>
    BY <1>4 DEF Receive
  <2>3. queue' \in Seq(M) /\ Len(queue') <= QueueLimit
    <3>1. CASE Qos = 0
      BY <1>q, <2>1, <2>2, <3>1
    <3>2. CASE Qos # 0
      BY <1>q, <2>2, <3>2
    <3>3. QED
      BY <3>1, <3>2
  <2>4. Shape'
    BY <2>1, <2>2, <2>3 DEF IInv, Shape
  <2>5. QED
    BY <2>2, <2>4 DEF IInv, InHand, NothingLost
<1>5. CASE Handle
  <2>0. /\ busy # 0 /\ busy' = 0 /\ handled' = handled \cup {busy}
        /\ UNCHANGED <<published, passed, breaks>>
    BY <1>5 DEF Handle
  <2>1. CASE Qos = 1 /\ link
    <3>1. queue # <<>> /\ Head(queue) = busy /\ queue' = Tail(queue)
      BY <1>5, <2>1 DEF Handle, IInv, InHand
    <3>2. /\ queue' \in Seq(M) /\ Len(queue') = Len(queue) - 1
          /\ ToSet(queue) = {busy} \cup ToSet(queue')
      BY <1>q, <3>1, TailToSet
    <3>3. Shape' /\ (NothingLost => NothingLost')
      BY <1>q, <2>0, <3>2 DEF IInv, Shape, NothingLost
    <3>4. QED
      BY <2>0, <3>3 DEF IInv, InHand
  <2>2. CASE ~(Qos = 1 /\ link)
    <3>1. queue' = queue
      BY <1>5, <2>2 DEF Handle
    <3>2. Shape' /\ (NothingLost => NothingLost')
      BY <2>0, <3>1 DEF IInv, Shape, NothingLost
    <3>3. QED
      BY <2>0, <3>2 DEF IInv, InHand
  <2>3. QED
    BY <2>1, <2>2
<1>6. ASSUME Disconnected, UNCHANGED <<published, handled>>,
             busy' \in {0, busy}, breaks' \in 0 .. MaxBreaks
      PROVE  IInv'
  BY <1>6, DisconnectedKeeps DEF IInv, Shape
<1>7. CASE Raise
  BY <1>6, <1>7 DEF Raise, Restarted, IInv, Shape
<1>8. ASSUME Break PROVE breaks' \in 0 .. MaxBreaks
  BY <1>8 DEF Break, IInv, Shape
<1>9. CASE LinkBreaks
  BY <1>6, <1>8, <1>9 DEF LinkBreaks
<1>10. CASE Crash
  BY <1>6, <1>8, <1>10 DEF Crash, Restarted
<1>11. CASE BrokerForgets
  BY <1>8, <1>11, ForgottenKeeps DEF BrokerForgets, IInv, Shape, InHand
<1>12. CASE UNCHANGED sessionVars
  BY <1>12 DEF sessionVars, IInv, Shape, InHand, NothingLost
<1>13. QED
  BY <1>1, <1>2, <1>3, <1>4, <1>5, <1>7, <1>9, <1>10, <1>11, <1>12 DEF SessionNext, ClientStep

LEMMA NextFlags == Flags /\ [SessionNext]_sessionVars => Flags'
BY Zenon, ParameterAssumption
   DEF Flags, SessionNext, ClientStep, Publish, Connect, Subscribe, Receive, Handle, Raise, LinkBreaks, Crash,
       BrokerForgets, Restarted, Disconnected, Forgotten, sessionVars

\* The variables stay in their types, and the queue within the broker's limit.
THEOREM TypeCorrect == SessionSpec => []SessionTypeOK
<1>1. SessionInit => Flags
  BY DEF SessionInit, Flags
<1>2. Flags /\ IInv => SessionTypeOK
  BY DEF Flags, IInv, Shape, SessionTypeOK
<1>3. QED
  BY <1>1, <1>2, InitIInv, NextIInv, NextFlags, PTL DEF SessionSpec

\* With QoS 1, whether the session is kept or not and however often the client
\* subscribes, no message the broker took for it is lost between the queue and
\* on_message (mqtt_listener.py:31-42).
THEOREM NothingIsLost == ASSUME Qos = 1 PROVE SessionSpec => []NothingLost
<1>1. IInv => NothingLost
  BY DEF IInv
<1>2. QED
  BY <1>1, InitIInv, NextIInv, PTL DEF SessionSpec
=============================================================================
