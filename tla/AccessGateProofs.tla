-------------------------- MODULE AccessGateProofs --------------------------
(***************************************************************************)
(* Proofs about AccessGate for any keys, sessions, limits, windows and     *)
(* zone timeouts, any polls that fail and any restarts of nginx.           *)
(***************************************************************************)
EXTENDS AccessGate, TLAPS

LEMMA Limits ==
  /\ Timeout \in Nat \ {0} /\ Window \in Nat \ {0} /\ MaxLife \in Nat \ {0} /\ MaxFailures \in Nat
  /\ \A t \in Token : Sub(t) \in Subject /\ Limit[t] \in Nat \ {0} /\ t # NoToken
<1>1. \A t \in Token : Sub(t) \in Subject
  BY GateAssumption DEF Sub, Subject, Token
<1>2. QED
  BY <1>1, GateAssumption

\* A subject's requests all have one limit.
LEMMA OneLimit ==
  ASSUME NEW t \in Token, NEW u \in Token, Sub(t) = Sub(u)
  PROVE  Limit[t] = Limit[u]
<1>1. CASE t \in Key
  BY <1>1, GateAssumption DEF Sub, Token
<1>2. CASE t \notin Key
  BY <1>2, GateAssumption DEF Sub, Token
<1>3. QED
  BY <1>1, <1>2

LEMMA LessType == \A n \in Nat : Less(n) \in Nat /\ Less(n) <= n /\ (n > 0 => Less(n) = n - 1)
BY DEF Less

LEMMA LesserType == \A a, b \in Nat : Lesser(a, b) \in Nat /\ Lesser(a, b) <= a /\ Lesser(a, b) <= b
BY DEF Lesser
-----------------------------------------------------------------------------
(* Types.                                                                  *)

Zone == [Subject -> [n : Nat, ttl : 0..Window]]
Counts == [Subject -> [1..Window -> Nat]]

\* TypeOK without its Boolean variables, which the provers take apart from it.
Shape ==
  /\ row \in [Key -> {"none", "live", "revoked"}] /\ life \in [Token -> 0..Forever]
  /\ revoking \in [Key -> {"idle", "update", "insert", "answer"}]
  /\ age \in [Key -> -1..Timeout]
  /\ cache \in [Key -> 0..Timeout] /\ poll \in {"idle", "asked", "answered"}
  /\ jtis \subseteq Key /\ stale \in 0..Timeout
  /\ hits \in Zone /\ recent \in Counts /\ restarts \in [1..Window -> Nat]
  /\ failures \in 0..MaxFailures

Flags == answered \in [Key -> BOOLEAN] /\ slides \in BOOLEAN

LEMMA InitShape == Init => Shape /\ Flags
BY Limits DEF Init, Shape, Flags, Zone, Counts, Forever

LEMMA ShiftedType == ASSUME NEW c \in [1..Window -> Nat] PROVE Shifted(c) \in [1..Window -> Nat]
<1>1. ASSUME NEW i \in 1..Window, i # 1 PROVE c[i - 1] \in Nat
  <2>1. i - 1 \in 1..Window
    BY <1>1, Limits
  <2>2. QED
    BY <2>1
<1>2. QED
  BY <1>1 DEF Shifted

LEMMA OneMoreType == ASSUME NEW c \in [1..Window -> Nat] PROVE OneMore(c) \in [1..Window -> Nat]
<1>1. \A i \in 1..Window : c[i] + 1 \in Nat
  OBVIOUS
<1>2. QED
  BY <1>1 DEF OneMore

LEMMA TickShape == Shape /\ Tick => Shape'
<1> SUFFICES ASSUME Shape, Tick PROVE Shape'
  OBVIOUS
<1> USE Limits
<1>1. life' \in [Token -> 0..Forever]
  <2>1. \A t \in Token : life[t] \in 0..Forever
    BY DEF Shape
  <2>2. \A t \in Token : (IF life[t] = Forever THEN Forever ELSE Less(life[t])) \in 0..Forever
    BY <2>1, LessType DEF Forever, Less
  <2>3. QED
    BY <2>2 DEF Tick
<1>2. age' \in [Key -> -1..Timeout]
  BY DEF Tick, Shape, Denied, Lesser
<1>3. cache' \in [Key -> 0..Timeout] /\ stale' \in 0..Timeout
  BY DEF Tick, Shape, Less, Lesser
<1>4. hits' \in Zone
  <2> DEFINE Entry == [n : Nat, ttl : 0..Window]
             after(s) == IF hits[s].ttl <= 1 THEN [n |-> 0, ttl |-> 0] ELSE [hits[s] EXCEPT !.ttl = @ - 1]
  <2>1. ASSUME NEW s \in Subject PROVE after(s) \in Entry
    <3>1. hits[s] \in Entry
      BY DEF Shape, Zone
    <3>2. CASE hits[s].ttl <= 1
      BY <3>2
    <3>3. CASE ~(hits[s].ttl <= 1)
      BY <3>1, <3>3
    <3>4. QED
      BY <3>2, <3>3
  <2>2. hits' = [s \in Subject |-> after(s)]
    BY DEF Tick
  <2> HIDE DEF after
  <2>3. QED
    BY <2>1, <2>2 DEF Zone
<1>5. recent' \in Counts /\ restarts' \in [1..Window -> Nat]
  <2>1. \A s \in Subject : Shifted(recent[s]) \in [1..Window -> Nat]
    BY ShiftedType DEF Shape, Counts
  <2>2. QED
    BY <2>1, ShiftedType DEF Tick, Shape, Counts
<1>6. failures' \in 0..MaxFailures
  BY DEF Tick, Shape
<1>7. QED
  BY <1>1, <1>2, <1>3, <1>4, <1>5, <1>6 DEF Tick, Shape

LEMMA CountShape == ASSUME Shape, NEW t \in Token, Count(t) PROVE Shape'
<1> DEFINE s == Sub(t)
<1>1. s \in Subject /\ Limit[t] \in Nat /\ Window \in Nat
  BY Limits
<1>2. hits[s].n \in Nat /\ hits[s].ttl \in 0..Window /\ TimeLeft(hits[s]) \in 0..Window
  BY <1>1 DEF Shape, Zone, TimeLeft
<1>3. Lesser(hits[s].n + 1, Limit[t] + 1) \in Nat
  BY <1>1, <1>2 DEF Lesser
<1>4. hits' \in Zone
  <2> DEFINE e == [n |-> Lesser(hits[s].n + 1, Limit[t] + 1), ttl |-> TimeLeft(hits[s])]
  <2>1. e \in [n : Nat, ttl : 0..Window]
    BY <1>2, <1>3
  <2>2. hits \in Zone /\ hits' = [hits EXCEPT ![s] = e]
    BY DEF Count, Shape
  <2> HIDE DEF e
  <2>3. QED
    BY <1>1, <2>1, <2>2 DEF Zone
<1>5. recent' \in Counts
  <2> DEFINE r == recent[s]
             c == OneMore(r)
  <2>1. r \in [1..Window -> Nat] /\ recent \in Counts
    BY <1>1 DEF Shape, Counts
  <2>2. c \in [1..Window -> Nat]
    BY <2>1, OneMoreType
  <2>3. recent' \in {recent, [recent EXCEPT ![s] = c]}
    BY DEF Count
  <2> HIDE DEF c
  <2>4. QED
    BY <1>1, <2>1, <2>2, <2>3 DEF Counts
<1>6. QED
  BY <1>4, <1>5 DEF Count, Shape, accounts, polling

LEMMA NextShape == Shape /\ [Next]_vars => Shape'
<1> SUFFICES ASSUME Shape, [Next]_vars PROVE Shape'
  OBVIOUS
<1>0. OneMore(restarts) \in [1..Window -> Nat]
  BY OneMoreType DEF Shape
<1> USE Limits DEF accounts, polling, counters
<1>1. ASSUME NEW s \in Session, Login(s) PROVE Shape'
  BY <1>1 DEF Login, Shape, Forever, Token
<1>2. ASSUME NEW k \in Key, CreateKey(k) PROVE Shape'
  BY <1>2 DEF CreateKey, Shape, Forever, Token
<1>3. ASSUME NEW k \in Key, Logout(k) PROVE Shape'
  BY <1>3 DEF Logout, Shape
<1>4. ASSUME NEW k \in Key, RevokeSelect(k) PROVE Shape'
  BY <1>4 DEF RevokeSelect, Shape
<1>5. ASSUME NEW k \in Key, Revoke(k) PROVE Shape'
  <2>1. CASE RevokeUpdate(k)
    BY <2>1 DEF RevokeUpdate, Shape
  <2>2. CASE RevokeInsert(k)
    BY <2>2 DEF RevokeInsert, Shape
  <2>3. CASE RevokeAnswer(k)
    BY <2>3 DEF RevokeAnswer, Shape
  <2>4. QED
    BY <1>5, <2>1, <2>2, <2>3 DEF Revoke
<1>6. ASSUME NEW k \in Key, RevokeCut(k) PROVE Shape'
  BY <1>6 DEF RevokeCut, Shape
<1>7. CASE PollServe
  BY <1>7 DEF PollServe, Denied, Shape
<1>8. CASE PollApply
  BY <1>8 DEF PollApply, Shape
<1>9. CASE PollApplyPart \/ PollFail
  <2>1. CASE PollFail
    BY <2>1 DEF PollFail, Shape
  <2>2. CASE PollApplyPart
    <3>1. PICK part \in SUBSET jtis : cache' = [k \in Key |-> IF k \in part THEN Timeout ELSE 0]
      BY <2>2 DEF PollApplyPart
    <3>2. cache' \in [Key -> 0..Timeout]
      BY <3>1
    <3>3. QED
      BY <2>2, <3>2 DEF PollApplyPart, Shape
  <2>3. QED
    BY <1>9, <2>1, <2>2
<1>10. CASE GatewayRestart
  BY <1>0, <1>10 DEF GatewayRestart, Shape, Zone
<1>11. ASSUME NEW t \in Token, NEW route \in Route, Request(t, route) PROVE Shape'
  BY <1>11, CountShape DEF Request, Uncounted, Shape
<1>12. CASE UNCHANGED vars
  BY <1>12 DEF vars, Shape
<1>13. QED
  BY <1>1, <1>2, <1>3, <1>4, <1>5, <1>6, <1>7, <1>8, <1>9, <1>10, <1>11, <1>12, TickShape DEF Next

LEMMA NextFlags == Flags /\ [Next]_vars => Flags'
<1> SUFFICES ASSUME Flags, [Next]_vars PROVE Flags'
  OBVIOUS
<1>1. UNCHANGED answered \/ \E k \in Key : answered' = [answered EXCEPT ![k] = TRUE]
  BY DEF Next, Login, CreateKey, Logout, RevokeSelect, Revoke, RevokeUpdate, RevokeInsert, RevokeAnswer,
         RevokeCut, PollServe, PollApply, PollApplyPart, PollFail, GatewayRestart, Tick, Request, Count, Uncounted,
         vars, accounts
<1>2. UNCHANGED slides
  BY DEF Next, Login, CreateKey, Logout, RevokeSelect, Revoke, RevokeUpdate, RevokeInsert, RevokeAnswer,
         RevokeCut, PollServe, PollApply, PollApplyPart, PollFail, GatewayRestart, Tick, Request, Count, Uncounted,
         vars, Quietly
<1>3. QED
  BY Zenon, <1>1, <1>2 DEF Flags

\* The variables stay in their types.
THEOREM TypeCorrect == Spec => []TypeOK
<1>1. Shape /\ Flags => TypeOK
  BY DEF Shape, Flags, TypeOK, Zone, Counts
<1>2. QED
  BY <1>1, InitShape, NextShape, NextFlags, PTL DEF Spec
-----------------------------------------------------------------------------
(* Revocation.                                                             *)

\* The answer a poll has lacks only what was put on the denylist since it was
\* asked for; and a key that is older there than the last poll applied is in the
\* cache, for as long as the zone's timeout has not passed since.
Cached ==
  /\ poll = "answered" => \A k \in Denied : k \in jtis \/ age[k] = 0
  /\ \A k \in Denied : age[k] <= stale \/ stale = Timeout \/ cache[k] >= Timeout - stale

\* A row of revoked_tokens that is new, or none.
LEMMA DenyingKeeps ==
  ASSUME Shape, Cached, NEW k \in Key, age' \in {age, [age EXCEPT ![k] = 0]}, UNCHANGED polling
  PROVE  Cached'
<1> USE DEF polling
<1>1. CASE age' = age
  BY <1>1 DEF Cached, Denied
<1>2. CASE age' = [age EXCEPT ![k] = 0]
  <2>1. \A j \in Key : age'[j] = IF j = k THEN 0 ELSE age[j]
    BY <1>2 DEF Shape
  <2>2. 0 <= stale
    BY DEF Shape
  <2>3. QED
    BY <2>1, <2>2 DEF Cached, Denied
<1>3. QED
  BY <1>1, <1>2

LEMMA TickCached == Shape /\ Cached /\ Tick => Cached'
<1> SUFFICES ASSUME Shape, Cached, Tick PROVE Cached'
  OBVIOUS
<1>1. poll' # "answered"
  BY DEF Tick
<1>2. ASSUME NEW k \in Key, age'[k] >= 0
      PROVE  age'[k] <= stale' \/ stale' = Timeout \/ cache'[k] >= Timeout - stale'
  <2>1. /\ k \in Denied /\ age'[k] = Lesser(age[k] + 1, Timeout)
        /\ cache'[k] = Less(cache[k]) /\ stale' = Lesser(stale + 1, Timeout)
    BY <1>2 DEF Tick, Denied
  <2>2. age[k] \in Int /\ cache[k] \in Int /\ stale \in Int /\ Timeout \in Int /\ 0 <= cache[k]
    BY Limits DEF Shape
  <2>3. age[k] <= stale \/ stale = Timeout \/ cache[k] >= Timeout - stale
    BY <2>1 DEF Cached
  <2>4. QED
    BY <2>1, <2>2, <2>3 DEF Less, Lesser
<1>3. QED
  BY <1>1, <1>2 DEF Cached, Denied

LEMMA NextCached == Shape /\ Cached /\ [Next]_vars => Cached'
<1> SUFFICES ASSUME Shape, Cached, [Next]_vars PROVE Cached'
  OBVIOUS
<1> USE DEF accounts, polling
<1>1. CASE UNCHANGED <<age, polling>>
  BY <1>1 DEF Cached, Denied
<1>2. ASSUME NEW k \in Key, Logout(k) \/ RevokeInsert(k) PROVE Cached'
  BY <1>2, DenyingKeeps DEF Logout, RevokeInsert
<1>3. CASE PollServe
  BY <1>3 DEF PollServe, Cached, Denied
<1>4. CASE PollApply
  <2>1. /\ poll = "answered" /\ poll' = "idle" /\ stale' = 0 /\ UNCHANGED age
        /\ \A k \in Key : k \in jtis => cache'[k] = Timeout
    BY <1>4 DEF PollApply
  <2>2. QED
    BY <2>1, Limits DEF Cached, Denied
<1>5. CASE PollApplyPart \/ PollFail
  BY <1>5 DEF PollApplyPart, PollFail, Cached, Denied
<1>6. CASE GatewayRestart
  BY <1>6 DEF GatewayRestart, Cached, Denied
<1>7. QED
  BY <1>1, <1>2, <1>3, <1>4, <1>5, <1>6, TickCached
     DEF Next, vars, Login, CreateKey, RevokeSelect, Revoke, RevokeUpdate, RevokeAnswer, RevokeCut,
         Request, Uncounted, Count

\* A step that grants finds the key in no entry of the cache that counts; every
\* other step takes the answer away.
RefusedWhileCached == \A k \in Key : Granted(k) => cache[k] = 0

LEMMA NextRefused == Shape /\ RefusedWhileCached /\ [Next]_vars => RefusedWhileCached'
<1> SUFFICES ASSUME Shape, RefusedWhileCached, [Next]_vars, NEW k \in Key, Granted(k)'
             PROVE  cache'[k] = 0
  BY DEF RefusedWhileCached
<1>1. k # NoToken
  BY Limits DEF Token
<1>2. ~Quietly
  BY <1>1 DEF Quietly, Silent, Granted
<1>3. CASE UNCHANGED vars
  BY <1>3 DEF vars, polling, RefusedWhileCached, Granted
<1>4. ASSUME NEW t \in Token, ~Revoked(t), Count(t) PROVE cache'[k] = 0
  <2>1. t = k /\ UNCHANGED cache
    BY <1>4 DEF Count, Granted, polling
  <2>2. cache[k] \in 0..Timeout /\ ~(cache[k] > 0)
    BY <1>4, <2>1 DEF Revoked, Shape
  <2>3. QED
    BY <2>1, <2>2, Limits
<1>5. QED
  BY <1>2, <1>3, <1>4
     DEF Next, Login, CreateKey, Logout, RevokeSelect, Revoke, RevokeUpdate, RevokeInsert, RevokeAnswer,
         RevokeCut, PollServe, PollApply, PollApplyPart, PollFail, GatewayRestart, Tick, Request, Uncounted

\* A key that has been on the denylist since before the poll applied last was
\* asked for is refused, whatever polls fail from then on, until the zone's
\* timeout has passed without one (main.js:96-98, auth-api-openapi.yaml:152-154).
THEOREM RevokedRefused == Spec => []RevocationHolds
<1>1. Init => Cached /\ RefusedWhileCached
  BY Limits DEF Init, Cached, Denied, RefusedWhileCached
<1>2. Shape /\ Cached /\ RefusedWhileCached => RevocationHolds
  <2> SUFFICES ASSUME Shape, Cached, RefusedWhileCached, NEW k \in Denied, Granted(k)
               PROVE  age[k] <= stale \/ stale = Timeout
    BY DEF RevocationHolds
  <2>1. cache[k] = 0 /\ stale \in 0..Timeout
    BY DEF Denied, RefusedWhileCached, Shape
  <2>2. age[k] <= stale \/ stale = Timeout \/ cache[k] >= Timeout - stale
    BY DEF Cached
  <2>3. QED
    BY <2>1, <2>2, Limits
<1>3. QED
  BY <1>1, <1>2, InitShape, NextShape, NextCached, NextRefused, PTL DEF Spec
-----------------------------------------------------------------------------
(* The rate limit.  c[i] are a subject's grants in the last i intervals, e  *)
(* its entry in the zone, l its limit and q[i] its limit taken once for each *)
(* restart of nginx in the last i intervals.                                *)

Entry == [n : Nat, ttl : 0..Window]
Granting == [1..Window -> Nat]
Later(e) == IF e.ttl <= 1 THEN [n |-> 0, ttl |-> 0] ELSE [e EXCEPT !.ttl = @ - 1]
Hit(e, l) == [n |-> Lesser(e.n + 1, l + 1), ttl |-> TimeLeft(e)]
Times(l, b) == [i \in 1..Window |-> l * b[i]]

\* With windows that end when they end: what the entry has let through lies in
\* the intervals since it began, and what is older in the window's time belongs
\* to one entry before it; an entry lost to a restart counts with the restart.
Fixed(c, e, l, q) ==
  IF e.n = 0 THEN c[1] <= q[1] /\ \A i \in 1..Window : c[i] <= l + q[i]
  ELSE /\ e.ttl \in 1..Window
       /\ \A i \in 1..Window : c[i] <= l + Lesser(e.n, l) + q[i]
       /\ \A i \in 1..Window : i + e.ttl <= Window + 1 => c[i] <= Lesser(e.n, l) + q[i]

\* With windows that each request renews, an entry ends only after a window's
\* time without a request.
Sliding(c, e, l, q) ==
  IF e.n = 0 THEN \A i \in 1..Window : c[i] <= q[i]
  ELSE /\ e.ttl \in 1..Window
       /\ \A i \in 1..Window : c[i] <= Lesser(e.n, l) + q[i]
       /\ \A i \in 1..Window : i + e.ttl <= Window => c[i] <= q[i]

Metered(c, e, l, q) == (slides => Sliding(c, e, l, q)) /\ (~slides => Fixed(c, e, l, q))

\* The bound both give, used where an entry is lost.
LEMMA MeteredBound ==
  ASSUME NEW c \in Granting, NEW e \in Entry, NEW l \in Nat \ {0}, NEW q \in Granting, Metered(c, e, l, q)
  PROVE  /\ \A i \in 1..Window : c[i] <= l + l + q[i]
         /\ c[1] <= l + q[1]
         /\ slides => \A i \in 1..Window : c[i] <= l + q[i]
<1>1. /\ 1 \in 1..Window
      /\ \A i \in 1..Window : c[i] \in Nat /\ q[i] \in Nat
      /\ Lesser(e.n, l) \in Nat /\ Lesser(e.n, l) <= l /\ Window \in Nat
  <2>1. e.n \in Nat /\ l \in Nat
    BY DEF Entry
  <2>2. Lesser(e.n, l) \in Nat /\ Lesser(e.n, l) <= l
    BY <2>1, LesserType
  <2>3. QED
    BY <2>2, Limits DEF Granting
<1> DEFINE m == Lesser(e.n, l)
           a == e.ttl
<1>2. CASE slides
  <2>1. \A i \in 1..Window : c[i] <= m + q[i] \/ c[i] <= q[i]
    BY <1>2 DEF Metered, Sliding
  <2> HIDE DEF m
  <2>2. m \in Nat /\ m <= l
    BY <1>1 DEF m
  <2>3. \A i \in 1..Window : c[i] <= l + q[i] /\ c[i] <= l + l + q[i]
    BY <1>1, <2>1, <2>2
  <2>4. QED
    BY <1>1, <2>3
<1>3. CASE ~slides
  <2>0. Fixed(c, e, l, q)
    BY <1>3 DEF Metered
  <2>1. \A i \in 1..Window : c[i] <= l + m + q[i] \/ c[i] <= l + q[i]
    BY <2>0 DEF Fixed
  <2>2. c[1] <= q[1] \/ c[1] <= m + q[1]
    <3>1. CASE e.n = 0
      BY <2>0, <3>1 DEF Fixed
    <3>2. CASE e.n # 0
      <4>1. a \in 1..Window /\ (1 + a <= Window + 1 => c[1] <= m + q[1])
        BY <1>1, <2>0, <3>2 DEF Fixed
      <4> HIDE DEF a
      <4>2. 1 + a <= Window + 1
        BY <1>1, <4>1
      <4>3. QED
        BY <4>1, <4>2
    <3>3. QED
      BY <3>1, <3>2
  <2> HIDE DEF m
  <2>3. m \in Nat /\ m <= l
    BY <1>1 DEF m
  <2>4. \A i \in 1..Window : c[i] <= l + l + q[i]
    BY <1>1, <2>1, <2>3
  <2>5. c[1] <= l + q[1]
    BY <1>1, <2>2, <2>3
  <2>6. QED
    BY <1>3, <2>4, <2>5
<1>4. QED
  BY <1>2, <1>3

LEMMA TickMetered ==
  ASSUME NEW c \in Granting, NEW e \in Entry, NEW l \in Nat \ {0}, NEW q \in Granting, Metered(c, e, l, q)
  PROVE  Metered(Shifted(c), Later(e), l, Shifted(q))
<1> DEFINE d == Shifted(c)
           p == Shifted(q)
           f == Later(e)
           m == Lesser(e.n, l)
           a == e.ttl
<1>1. /\ Window \in Nat \ {0} /\ l \in Nat \ {0} /\ m \in Nat /\ m <= l
      /\ e.n \in Nat /\ a \in 0..Window
  BY Limits, LesserType DEF Entry
<1>2. /\ d[1] = 0 /\ p[1] = 0 /\ 1 \in 1..Window
      /\ \A i \in 1..Window : i # 1 => i - 1 \in 1..Window /\ d[i] = c[i - 1] /\ p[i] = q[i - 1]
  BY <1>1 DEF Shifted
<1>3. \A i \in 1..Window : c[i] \in Nat /\ q[i] \in Nat
  BY DEF Granting
<1>4. (a <= 1 => f.n = 0) /\ (~(a <= 1) => f.n = e.n /\ f.ttl = a - 1)
  BY DEF Later, Entry
<1>5. ~(a <= 1) => Lesser(f.n, l) = m
  BY <1>4
<1>6. \A i \in 1..Window : d[i] \in Nat /\ p[i] \in Nat
  BY <1>2, <1>3
<1> HIDE DEF d, p, f
<1>7. ASSUME slides PROVE Sliding(d, f, l, p)
  <2>0. Sliding(c, e, l, q)
    BY <1>7 DEF Metered
  <2>1. ASSUME f.n = 0 PROVE \A i \in 1..Window : d[i] <= p[i]
    <3> SUFFICES ASSUME NEW i \in 1..Window, i # 1 PROVE c[i - 1] <= q[i - 1]
      BY <1>2
    <3>1. CASE e.n = 0
      BY <1>2, <2>0, <3>1 DEF Sliding
    <3>2. CASE e.n # 0
      <4>1. a \in 1..Window /\ \A j \in 1..Window : j + a <= Window => c[j] <= q[j]
        BY <2>0, <3>2 DEF Sliding
      <4>2. a <= 1
        BY <1>4, <2>1, <3>2
      <4> HIDE DEF a
      <4>3. i - 1 \in 1..Window /\ (i - 1) + a <= Window
        BY <1>1, <1>2, <4>1, <4>2
      <4>4. QED
        BY <4>1, <4>3
    <3>3. QED
      BY <3>1, <3>2
  <2>2. ASSUME f.n # 0
        PROVE  /\ f.ttl \in 1..Window
               /\ \A i \in 1..Window : d[i] <= m + p[i] /\ (i + f.ttl <= Window => d[i] <= p[i])
    <3>1. ~(a <= 1) /\ e.n # 0
      BY <1>4, <2>2
    <3>2. /\ a \in 1..Window /\ f.ttl = a - 1
          /\ \A j \in 1..Window : c[j] <= m + q[j] /\ (j + a <= Window => c[j] <= q[j])
      BY <1>4, <2>0, <3>1 DEF Sliding
    <3> HIDE DEF a, m
    <3>3. a - 1 \in 1..Window
      BY <1>1, <3>1, <3>2
    <3>4. ASSUME NEW i \in 1..Window
          PROVE  d[i] <= m + p[i] /\ (i + f.ttl <= Window => d[i] <= p[i])
      <4>1. CASE i = 1
        BY <1>1, <1>2, <4>1
      <4>2. CASE i # 1
        <5> DEFINE j == i - 1
        <5>1. j \in 1..Window /\ d[i] = c[j] /\ p[i] = q[j]
          BY <1>2, <4>2
        <5>2. i + f.ttl = j + a
          BY <1>1, <3>2
        <5> HIDE DEF j
        <5>3. QED
          BY <3>2, <5>1, <5>2
      <4>3. QED
        BY <4>1, <4>2
    <3>5. QED
      BY <3>2, <3>3, <3>4
  <2>3. CASE f.n = 0
    BY <2>1, <2>3 DEF Sliding
  <2>4. CASE f.n # 0
    <3>1. ~(a <= 1)
      BY <1>4, <2>4
    <3>2. QED
      BY <1>5, <2>2, <2>4, <3>1 DEF Sliding
  <2>5. QED
    BY <2>3, <2>4
<1>8. ASSUME ~slides PROVE Fixed(d, f, l, p)
  <2>0. Fixed(c, e, l, q)
    BY <1>8 DEF Metered
  <2>1. ASSUME f.n = 0 PROVE d[1] <= p[1] /\ \A i \in 1..Window : d[i] <= l + p[i]
    <3>1. d[1] <= p[1] /\ d[1] <= l + p[1]
      BY <1>1, <1>2
    <3>2. ASSUME NEW i \in 1..Window, i # 1 PROVE c[i - 1] <= l + q[i - 1]
      <4> DEFINE j == i - 1
      <4>1. j \in 1..Window /\ c[j] \in Nat /\ q[j] \in Nat
        BY <1>2, <1>3, <3>2
      <4>2. CASE e.n = 0
        BY <2>0, <4>1, <4>2 DEF Fixed
      <4>3. CASE e.n # 0
        <5>1. a \in 1..Window /\ (j + a <= Window + 1 => c[j] <= m + q[j])
          BY <2>0, <4>1, <4>3 DEF Fixed
        <5>2. a <= 1
          BY <1>4, <2>1, <4>3
        <5> HIDE DEF a, m, j
        <5>3. c[j] <= m + q[j]
          BY <1>1, <4>1, <5>1, <5>2
        <5>4. c[j] <= l + q[j]
          BY <1>1, <4>1, <5>3
        <5>5. QED
          BY <5>4 DEF j
      <4>4. QED
        BY <4>2, <4>3
    <3>3. QED
      BY <1>2, <3>1, <3>2
  <2>2. ASSUME f.n # 0
        PROVE  /\ f.ttl \in 1..Window
               /\ \A i \in 1..Window : /\ d[i] <= l + m + p[i]
                                       /\ (i + f.ttl <= Window + 1 => d[i] <= m + p[i])
    <3>1. ~(a <= 1) /\ e.n # 0
      BY <1>4, <2>2
    <3>2. /\ a \in 1..Window /\ f.ttl = a - 1
          /\ \A j \in 1..Window : c[j] <= l + m + q[j] /\ (j + a <= Window + 1 => c[j] <= m + q[j])
      BY <1>4, <2>0, <3>1 DEF Fixed
    <3> HIDE DEF a, m
    <3>3. a - 1 \in 1..Window
      BY <1>1, <3>1, <3>2
    <3>4. ASSUME NEW i \in 1..Window
          PROVE  d[i] <= l + m + p[i] /\ (i + f.ttl <= Window + 1 => d[i] <= m + p[i])
      <4>1. CASE i = 1
        BY <1>1, <1>2, <4>1
      <4>2. CASE i # 1
        <5> DEFINE j == i - 1
        <5>1. j \in 1..Window /\ d[i] = c[j] /\ p[i] = q[j]
          BY <1>2, <4>2
        <5>2. i + f.ttl = j + a
          BY <1>1, <3>2
        <5> HIDE DEF j
        <5>3. QED
          BY <3>2, <5>1, <5>2
      <4>3. QED
        BY <4>1, <4>2
    <3>5. QED
      BY <3>2, <3>3, <3>4
  <2>3. CASE f.n = 0
    BY <2>1, <2>3 DEF Fixed
  <2>4. CASE f.n # 0
    <3>1. ~(a <= 1)
      BY <1>4, <2>4
    <3>2. QED
      BY <1>5, <2>2, <2>4, <3>1 DEF Fixed
  <2>5. QED
    BY <2>3, <2>4
<1>9. QED
  BY <1>7, <1>8 DEF Metered, d, f, p

LEMMA HitMetered ==
  ASSUME NEW c \in Granting, NEW e \in Entry, NEW l \in Nat \ {0}, NEW q \in Granting, Metered(c, e, l, q)
  PROVE  Metered(IF e.n + 1 <= l THEN OneMore(c) ELSE c, Hit(e, l), l, q)
<1> DEFINE ok == e.n + 1 <= l
           d == IF ok THEN OneMore(c) ELSE c
           f == Hit(e, l)
           m == Lesser(e.n, l)
           k == Lesser(f.n, l)
<1>1. /\ Window \in Nat \ {0} /\ 1 \in 1..Window /\ l \in Nat \ {0} /\ e.n \in Nat /\ e.ttl \in 0..Window
  BY Limits DEF Entry
<1>2. f.n = Lesser(e.n + 1, l + 1) /\ f.ttl = TimeLeft(e)
  BY DEF Hit
<1>3. /\ f.n # 0 /\ m \in Nat /\ k \in Nat
      /\ (ok => k = m + 1) /\ (~ok => k = m)
  BY <1>1, <1>2 DEF Lesser
<1>4. (e.n = 0 => f.ttl = Window) /\ (slides => f.ttl = Window) /\ (e.n # 0 /\ ~slides => f.ttl = e.ttl)
  BY <1>1, <1>2 DEF TimeLeft
<1>5. \A i \in 1..Window : /\ c[i] \in Nat /\ q[i] \in Nat /\ d[i] \in Nat
                           /\ (ok => d[i] = c[i] + 1) /\ (~ok => d[i] = c[i])
  BY DEF Granting, OneMore
<1>6. (e.n = 0 => m = 0) /\ (e.n = 0 => ok)
  BY <1>1 DEF Lesser
<1> HIDE DEF d, f, m, k, ok
<1>7. ASSUME slides PROVE Sliding(d, f, l, q)
  <2>1. \A i \in 1..Window : c[i] <= m + q[i]
    <3>1. Sliding(c, e, l, q)
      BY <1>7 DEF Metered
    <3>2. QED
      BY <1>3, <1>5, <1>6, <3>1 DEF Sliding, m
  <2>2. \A i \in 1..Window : d[i] <= k + q[i]
    BY <1>3, <1>5, <2>1
  <2>3. f.ttl \in 1..Window /\ \A i \in 1..Window : ~(i + f.ttl <= Window)
    BY <1>1, <1>4, <1>7
  <2>4. QED
    BY <1>3, <2>2, <2>3 DEF Sliding, k
<1>8. ASSUME ~slides PROVE Fixed(d, f, l, q)
  <2>0. Fixed(c, e, l, q)
    BY <1>8 DEF Metered
  <2>1. /\ f.ttl \in 1..Window
        /\ \A i \in 1..Window : /\ c[i] <= l + m + q[i]
                                /\ (i + f.ttl <= Window + 1 => c[i] <= m + q[i])
    <3>1. CASE e.n = 0
      <4>1. c[1] <= q[1] /\ \A i \in 1..Window : c[i] <= l + q[i]
        BY <2>0, <3>1 DEF Fixed
      <4>2. f.ttl = Window /\ m = 0
        BY <1>4, <1>6, <3>1
      <4>3. \A i \in 1..Window : i + f.ttl <= Window + 1 => i = 1
        BY <1>1, <4>2
      <4>4. \A i \in 1..Window : c[i] <= l + m + q[i] /\ (i = 1 => c[i] <= m + q[i])
        BY <1>1, <1>5, <4>1, <4>2
      <4>5. QED
        BY <1>1, <4>2, <4>3, <4>4
    <3>2. CASE e.n # 0
      BY <1>4, <1>8, <2>0, <3>2 DEF Fixed, m
    <3>3. QED
      BY <3>1, <3>2
  <2>2. \A i \in 1..Window : /\ d[i] <= l + k + q[i]
                             /\ (i + f.ttl <= Window + 1 => d[i] <= k + q[i])
    <3> SUFFICES ASSUME NEW i \in 1..Window
                 PROVE  d[i] <= l + k + q[i] /\ (i + f.ttl <= Window + 1 => d[i] <= k + q[i])
      OBVIOUS
    <3> DEFINE far == i + f.ttl <= Window + 1
    <3>1. c[i] <= l + m + q[i] /\ (far => c[i] <= m + q[i])
      BY <2>1
    <3> HIDE DEF far
    <3>2. d[i] <= l + k + q[i] /\ (far => d[i] <= k + q[i])
      BY <1>1, <1>3, <1>5, <3>1
    <3>3. QED
      BY <3>2 DEF far
  <2>3. QED
    BY <1>3, <2>1, <2>2 DEF Fixed, k
<1>9. QED
  BY <1>7, <1>8 DEF Metered, d, f, ok

\* A restart costs an entry, and a limit.
LEMMA RestartMetered ==
  ASSUME NEW c \in Granting, NEW e \in Entry, NEW l \in Nat \ {0}, NEW q \in Granting, NEW p \in Granting,
         Metered(c, e, l, q), \A i \in 1..Window : p[i] = q[i] + l
  PROVE  Metered(c, [n |-> 0, ttl |-> 0], l, p)
<1>1. /\ \A i \in 1..Window : c[i] <= l + l + q[i]
      /\ c[1] <= l + q[1]
      /\ slides => \A i \in 1..Window : c[i] <= l + q[i]
  BY MeteredBound
<1>2. 1 \in 1..Window /\ \A i \in 1..Window : c[i] \in Nat /\ q[i] \in Nat /\ p[i] = q[i] + l
  BY Limits DEF Granting
<1>3. /\ \A i \in 1..Window : c[i] <= l + p[i]
      /\ c[1] <= p[1]
      /\ slides => \A i \in 1..Window : c[i] <= p[i]
  BY <1>1, <1>2
<1>4. QED
  BY <1>3 DEF Metered, Sliding, Fixed

LEMMA TimesType ==
  ASSUME NEW l \in Nat \ {0}, NEW b \in [1..Window -> Nat]
  PROVE  /\ Times(l, b) \in Granting
         /\ Shifted(Times(l, b)) = Times(l, Shifted(b))
         /\ \A i \in 1..Window : Times(l, OneMore(b))[i] = Times(l, b)[i] + l
<1>1. \A x \in Nat : l * x \in Nat /\ l * (x + 1) = l * x + l /\ l * 0 = 0
  OBVIOUS
<1>2. Times(l, b) \in Granting
  BY <1>1 DEF Times, Granting
<1>3. Shifted(Times(l, b)) = Times(l, Shifted(b))
  <2>1. \A i \in 1..Window : i # 1 => i - 1 \in 1..Window
    BY Limits
  <2>2. \A i \in 1..Window : (IF i = 1 THEN 0 ELSE Times(l, b)[i - 1]) = l * Shifted(b)[i]
    BY <1>1, <2>1 DEF Times, Shifted
  <2>3. QED
    BY <2>2 DEF Times, Shifted
<1>4. \A i \in 1..Window : Times(l, OneMore(b))[i] = Times(l, b)[i] + l
  BY <1>1 DEF Times, OneMore
<1>5. QED
  BY <1>2, <1>3, <1>4

AllMetered == \A t \in Token : Metered(recent[Sub(t)], hits[Sub(t)], Limit[t], Times(Limit[t], restarts))

LEMMA NextMetered == Shape /\ AllMetered /\ [Next]_vars => AllMetered'
<1> SUFFICES ASSUME Shape, AllMetered, [Next]_vars, NEW t \in Token
             PROVE  Metered(recent[Sub(t)], hits[Sub(t)], Limit[t], Times(Limit[t], restarts))'
  BY DEF AllMetered
<1> DEFINE s == Sub(t)
           c == recent[s]
           e == hits[s]
           l == Limit[t]
           q == Times(l, restarts)
<1>1. s \in Subject /\ c \in Granting /\ e \in Entry /\ l \in Nat \ {0} /\ Window \in Nat \ {0}
  BY Limits DEF Shape, Zone, Counts, Entry, Granting
<1>2. Metered(c, e, l, q) /\ q \in Granting /\ restarts \in [1..Window -> Nat]
  <2>1. restarts \in [1..Window -> Nat]
    BY DEF Shape
  <2>2. QED
    BY <1>1, <2>1, TimesType DEF AllMetered
<1>3. UNCHANGED slides
  BY DEF Next, Login, CreateKey, Logout, RevokeSelect, Revoke, RevokeUpdate, RevokeInsert, RevokeAnswer,
         RevokeCut, PollServe, PollApply, PollApplyPart, PollFail, GatewayRestart, Tick, Request, Count,
         Uncounted, vars, Quietly
<1>4. ASSUME Metered(recent'[s], hits'[s], l, Times(l, restarts'))
      PROVE  Metered(recent[Sub(t)], hits[Sub(t)], Limit[t], Times(Limit[t], restarts))'
  BY <1>3, <1>4 DEF Metered, Sliding, Fixed, Times
<1>5. CASE UNCHANGED counters
  BY <1>2, <1>4, <1>5 DEF counters
<1>6. CASE GatewayRestart
  <2>1. recent'[s] = c /\ hits'[s] = [n |-> 0, ttl |-> 0] /\ restarts' = OneMore(restarts)
    BY <1>1, <1>6 DEF GatewayRestart
  <2>2. Times(l, restarts') \in Granting /\ \A i \in 1..Window : Times(l, restarts')[i] = q[i] + l
    <3>1. OneMore(restarts) \in [1..Window -> Nat]
      BY <1>2, OneMoreType
    <3>2. Times(l, OneMore(restarts)) \in Granting
      BY <1>1, <3>1, TimesType
    <3>3. QED
      BY <1>1, <1>2, <2>1, <3>2, TimesType
  <2> DEFINE p == Times(l, restarts')
  <2>3. p \in Granting /\ \A i \in 1..Window : p[i] = q[i] + l
    BY <2>2
  <2> HIDE DEF p, q, c, e, l
  <2>4. Metered(c, [n |-> 0, ttl |-> 0], l, p)
    BY <1>1, <1>2, <2>3, RestartMetered
  <2>5. QED
    BY <1>4, <2>1, <2>4 DEF p, q, c, e, l
<1>7. CASE Tick
  <2>1. recent'[s] = Shifted(c) /\ hits'[s] = Later(e) /\ restarts' = Shifted(restarts)
    BY <1>1, <1>7 DEF Tick, Later
  <2>2. Metered(Shifted(c), Later(e), l, Shifted(q))
    <3> HIDE DEF q, c, e, l
    <3>1. QED
      BY <1>1, <1>2, TickMetered
  <2>3. Shifted(q) = Times(l, Shifted(restarts))
    BY <1>1, <1>2, TimesType
  <2>4. QED
    BY <1>4, <2>1, <2>2, <2>3
<1>8. ASSUME NEW u \in Token, Count(u)
      PROVE  Metered(recent[Sub(t)], hits[Sub(t)], Limit[t], Times(Limit[t], restarts))'
  <2>0. restarts' = restarts
    BY <1>8 DEF Count
  <2>1. CASE Sub(u) # s
    <3>1. recent'[s] = c /\ hits'[s] = e
      BY <1>8, <2>1 DEF Count, Shape, Zone, Counts
    <3>2. QED
      BY <1>2, <1>4, <2>0, <3>1
  <2>2. CASE Sub(u) = s
    <3>1. Limit[u] = l
      BY <2>2, OneLimit
    <3>2. hits'[s] = Hit(e, l)
      BY <1>1, <1>8, <2>2, <3>1 DEF Count, Shape, Zone, Hit
    <3>3. recent'[s] = IF e.n + 1 <= l THEN OneMore(c) ELSE c
      BY <1>1, <1>8, <2>2, <3>1 DEF Count, Shape, Counts, WithinLimit
    <3>4. Metered(IF e.n + 1 <= l THEN OneMore(c) ELSE c, Hit(e, l), l, q)
      <4> HIDE DEF q, c, e, l
      <4>1. QED
        BY <1>1, <1>2, HitMetered
    <3>5. QED
      BY <1>4, <2>0, <3>2, <3>3, <3>4
  <2>3. QED
    BY <2>1, <2>2
<1>9. QED
  BY <1>5, <1>6, <1>7, <1>8
     DEF Next, Login, CreateKey, Logout, RevokeSelect, Revoke, RevokeUpdate, RevokeInsert, RevokeAnswer,
         RevokeCut, PollServe, PollApply, PollApplyPart, PollFail, Request, Uncounted, vars

\* However requests lie around the end of a window, in either reading of what
\* njs's incr does to a timeout, through any sessions: a subject is granted at
\* most twice its limit in the time of a window (ratelimit.js:11-24), and its
\* limit once more for each restart of nginx in that time.
THEOREM AtMostTwice == Spec => []GrantsBounded
<1>1. Init => AllMetered
  <2> SUFFICES ASSUME Init, NEW t \in Token
               PROVE  Metered(recent[Sub(t)], hits[Sub(t)], Limit[t], Times(Limit[t], restarts))
    BY DEF AllMetered
  <2>1. /\ hits[Sub(t)].n = 0 /\ Limit[t] \in Nat
        /\ \A i \in 1..Window : recent[Sub(t)][i] = 0 /\ restarts[i] = 0
    BY Limits DEF Init
  <2>2. \A i \in 1..Window : Times(Limit[t], restarts)[i] = 0
    BY <2>1 DEF Times
  <2>3. 1 \in 1..Window
    BY Limits
  <2>4. QED
    BY <2>1, <2>2, <2>3 DEF Metered, Sliding, Fixed
<1>2. Shape /\ AllMetered => GrantsBounded
  <2> SUFFICES ASSUME Shape, AllMetered, NEW t \in Token
               PROVE  recent[Sub(t)][Window] <= (2 + restarts[Window]) * Limit[t]
    BY DEF GrantsBounded
  <2> DEFINE c == recent[Sub(t)]
             l == Limit[t]
             q == Times(l, restarts)
             x == restarts[Window]
  <2>1. /\ c \in Granting /\ hits[Sub(t)] \in Entry /\ l \in Nat \ {0} /\ Window \in 1..Window
        /\ restarts \in [1..Window -> Nat] /\ x \in Nat
    BY Limits DEF Shape, Counts, Zone, Entry, Granting
  <2>2. q \in Granting /\ q[Window] = l * x
    BY <2>1, TimesType DEF Times
  <2>3. Metered(c, hits[Sub(t)], l, q)
    BY DEF AllMetered
  <2>4. c[Window] <= l + l + q[Window]
    <3> HIDE DEF c, l, q
    <3>1. QED
      BY <2>1, <2>2, <2>3, MeteredBound
  <2>5. (2 + x) * l = l + l + l * x
    <3> HIDE DEF l, x
    <3>1. QED
      BY <2>1
  <2>6. QED
    BY <2>1, <2>2, <2>4, <2>5
<1>3. QED
  BY <1>1, <1>2, InitShape, NextShape, NextMetered, PTL DEF Spec
=============================================================================
