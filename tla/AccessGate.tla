----------------------------- MODULE AccessGate -----------------------------
(***************************************************************************)
(* Who gets through the gateway: the njs handlers authorize (each request) *)
(* and refreshRevoked (each poll interval), the keys and sessions auth.py  *)
(* issues, and the revocation of a key on its way from an admin's DELETE,  *)
(* over the table revoked_tokens, to the gateway's cache.                  *)
(*                                                                         *)
(* Time goes in poll intervals. Every deadline is kept as the intervals    *)
(* that are left of it, so that behaviours are infinite and states finite. *)
(***************************************************************************)
EXTENDS Integers

CONSTANTS
  Key,          \* API keys
  Session,      \* sessions, each the token of one user's last login
  User,         \* users
  UserOf,       \* Session -> User
  Rank, Limit,  \* ROLE_RANK and LIMITS of the token's role
  MinRank,      \* the ranks that routes ask for
  Timeout,      \* of the zone "revoked", in poll intervals
  Window,       \* WINDOW_MS, in poll intervals
  MaxLife,      \* bound: intervals for which an expiring token is valid
  MaxFailures   \* bound: polls that fail or last too long, revocations cut short, restarts
                \* of nginx

NoToken == "no token"
Token == Key \union Session
Sub(t) == IF t \in Key THEN t ELSE UserOf[t]
Subject == Key \union User
Forever == MaxLife + 1

ASSUME GateAssumption ==
  /\ Key \intersect Session = {} /\ Key \intersect User = {} /\ NoToken \notin Token
  /\ UserOf \in [Session -> User]
  /\ Rank \in [Token -> 1..3] /\ MinRank \subseteq 1..3 /\ Limit \in [Token -> Nat \ {0}]
  \* The limit goes by the role, and nothing changes a user's role.
  /\ \A s, t \in Session : UserOf[s] = UserOf[t] => Limit[s] = Limit[t]
  /\ {Timeout, Window, MaxLife} \subseteq Nat \ {0} /\ MaxFailures \in Nat

VARIABLES
  row,       \* api_keys: "none", "live", or "revoked" once revoked_at is set
  life,      \* intervals until exp; 0 is no token or an expired one
  revoking,  \* place in revoke_api_key, for each key
  answered,  \* observes that a DELETE of the key was answered with 204
  age,       \* revoked_tokens: intervals since the jti's row; -1 is no row
  cache,     \* ngx.shared.revoked: intervals until the entry expires
  poll,      \* refreshRevoked: "idle", "asked" or "answered"
  jtis,      \* the answer it has
  stale,     \* observes the intervals since a poll was applied whole
  hits,      \* ngx.shared.ratelimit
  slides,    \* whether incr renews the timeout of an entry it finds
  recent,    \* observes each subject's grants, in the last 1, 2, .. Window intervals
  restarts,  \* observes the restarts of nginx, in the last 1, 2, .. Window intervals
  reply,     \* what the step answered, if it is a request
  failures

accounts == <<row, life, revoking, answered, age>>
polling == <<cache, poll, jtis, stale>>
counters == <<hits, recent, restarts>>
vars == <<accounts, polling, counters, slides, reply, failures>>

Lesser(a, b) == IF a <= b THEN a ELSE b
Less(n) == IF n > 0 THEN n - 1 ELSE 0
Silent == [token |-> NoToken, outcome |-> "none"]
Quietly == reply' = Silent /\ UNCHANGED slides
Denied == {k \in Key : age[k] >= 0}
-----------------------------------------------------------------------------
(* auth_api: tokens and their revocation.                                  *)

\* login: a session lasts SESSION_TTL_SECONDS.
Login(s) ==
  /\ life' = [life EXCEPT ![s] = MaxLife] /\ life[s] # MaxLife
  /\ Quietly /\ UNCHANGED <<row, revoking, answered, age, polling, counters, failures>>

\* create_api_key: an expires_in_seconds of zero is none.
CreateKey(k) ==
  /\ row[k] = "none" /\ row' = [row EXCEPT ![k] = "live"]
  /\ \E expires_in \in 0..MaxLife :
       life' = [life EXCEPT ![k] = IF expires_in = 0 THEN Forever ELSE expires_in]
  /\ Quietly /\ UNCHANGED <<revoking, answered, age, polling, counters, failures>>

\* logout with an API key: the denylist only. With a session it does nothing.
Logout(k) ==
  /\ life[k] > 0 /\ k \notin Denied
  /\ age' = [age EXCEPT ![k] = 0]
  /\ Quietly /\ UNCHANGED <<row, life, revoking, answered, polling, counters, failures>>

\* revoke_api_key: SELECT, UPDATE, INSERT and the answer, each committed alone.
RevokeSelect(k) ==
  /\ revoking[k] = "idle" /\ row[k] # "none" /\ ~answered[k]
  /\ revoking' = [revoking EXCEPT ![k] = "update"]
  /\ Quietly /\ UNCHANGED <<row, life, answered, age, polling, counters, failures>>

RevokeUpdate(k) ==
  /\ revoking[k] = "update" /\ revoking' = [revoking EXCEPT ![k] = "insert"]
  /\ row' = [row EXCEPT ![k] = "revoked"]
  /\ Quietly /\ UNCHANGED <<life, answered, age, polling, counters, failures>>

\* Mutant: the key is only marked.
RevokeInsertNothing(k) ==
  /\ revoking[k] = "insert" /\ revoking' = [revoking EXCEPT ![k] = "answer"]
  /\ Quietly /\ UNCHANGED <<row, life, answered, age, polling, counters, failures>>

RevokeInsert(k) ==
  /\ revoking[k] = "insert" /\ revoking' = [revoking EXCEPT ![k] = "answer"]
  /\ age' = IF k \in Denied THEN age ELSE [age EXCEPT ![k] = 0]
  /\ Quietly /\ UNCHANGED <<row, life, answered, polling, counters, failures>>

RevokeAnswer(k) ==
  /\ revoking[k] = "answer" /\ revoking' = [revoking EXCEPT ![k] = "idle"]
  /\ answered' = [answered EXCEPT ![k] = TRUE]
  /\ Quietly /\ UNCHANGED <<row, life, age, polling, counters, failures>>

\* A statement fails or the service ends: what was committed stays.
RevokeCut(k) ==
  /\ revoking[k] # "idle" /\ revoking' = [revoking EXCEPT ![k] = "idle"]
  /\ failures < MaxFailures /\ failures' = failures + 1
  /\ Quietly /\ UNCHANGED <<row, life, answered, age, polling, counters>>
-----------------------------------------------------------------------------
(* The gateway: refreshRevoked.                                            *)

\* auth_api answers GET /internal/revoked-jtis.
PollServe ==
  /\ poll = "asked" /\ poll' = "answered" /\ jtis' = Denied
  /\ Quietly /\ UNCHANGED <<accounts, cache, stale, counters, failures>>

\* clear() and set() of each jti, with no other handler in between.
PollApply ==
  /\ poll = "answered" /\ poll' = "idle" /\ jtis' = {}
  /\ cache' = [k \in Key |-> IF k \in jtis THEN Timeout ELSE 0]
  /\ stale' = 0
  /\ Quietly /\ UNCHANGED <<accounts, counters, failures>>

\* A set() throws, the zone being full: what was set before it is all there is.
PollApplyPart ==
  /\ poll = "answered" /\ poll' = "idle" /\ jtis' = {}
  /\ failures < MaxFailures /\ failures' = failures + 1
  /\ \E part \in SUBSET jtis : cache' = [k \in Key |-> IF k \in part THEN Timeout ELSE 0]
  /\ stale' = Timeout
  /\ Quietly /\ UNCHANGED <<accounts, counters>>

\* Mutant: the cache is cleared before the answer is looked at.
PollFailClear ==
  /\ poll # "idle" /\ poll' = "idle" /\ jtis' = {}
  /\ failures < MaxFailures /\ failures' = failures + 1
  /\ cache' = [k \in Key |-> 0]
  /\ Quietly /\ UNCHANGED <<accounts, stale, counters>>

\* auth_api is away or answers with an error: the cache stays.
PollFail ==
  /\ poll # "idle" /\ poll' = "idle" /\ jtis' = {}
  /\ failures < MaxFailures /\ failures' = failures + 1
  /\ Quietly /\ UNCHANGED <<accounts, cache, stale, counters>>

Shifted(c) == [i \in 1..Window |-> IF i = 1 THEN 0 ELSE c[i - 1]]
OneMore(c) == [i \in 1..Window |-> c[i] + 1]

\* nginx is started again: its shared zones are empty.  What was granted stays granted.
GatewayRestart ==
  /\ failures < MaxFailures /\ failures' = failures + 1
  /\ cache' = [k \in Key |-> 0] /\ poll' = "idle" /\ jtis' = {} /\ stale' = Timeout
  /\ hits' = [s \in Subject |-> [n |-> 0, ttl |-> 0]]
  /\ restarts' = OneMore(restarts)
  /\ Quietly /\ UNCHANGED <<accounts, recent>>

\* An interval passes. The next poll begins; one still under way is killed.
Tick ==
  /\ IF poll = "idle" THEN UNCHANGED failures
     ELSE failures < MaxFailures /\ failures' = failures + 1
  /\ poll' = "asked" /\ jtis' = {}
  /\ life' = [t \in Token |-> IF life[t] = Forever THEN Forever ELSE Less(life[t])]
  /\ age' = [k \in Key |-> IF k \in Denied THEN Lesser(age[k] + 1, Timeout) ELSE -1]
  /\ cache' = [k \in Key |-> Less(cache[k])]
  /\ stale' = Lesser(stale + 1, Timeout)
  /\ hits' = [s \in Subject |-> IF hits[s].ttl <= 1 THEN [n |-> 0, ttl |-> 0]
                                ELSE [hits[s] EXCEPT !.ttl = @ - 1]]
  /\ recent' = [s \in Subject |-> Shifted(recent[s])] /\ restarts' = Shifted(restarts)
  /\ Quietly /\ UNCHANGED <<row, revoking, answered>>
-----------------------------------------------------------------------------
(* The gateway: authorize.                                                 *)

\* What policy.resolveRoute finds: nothing, a public route, or the rank of minRole.
Unmapped == -1
Public == 0
Route == {Unmapped, Public} \union MinRank

\* Of an answer only what became of a counted request is told apart: public
\* routes pass, and 401 and 403 touch nothing.
Uncounted == Quietly /\ UNCHANGED <<accounts, polling, counters, failures>>

\* bearerToken and jwt.verify give the claims.
Valid(t) == life[t] > 0

\* A session is never looked up.
Revoked(t) == t \in Key /\ cache[t] > 0

\* Mutant: the request that finds the limit reached is let through.
WithinLimitPlusOne(t, n) == n <= Limit[t] + 1

WithinLimit(t, n) == n <= Limit[t]

\* The timeout of the subject's entry after incr(sub, 1, 0, WINDOW_MS).
TimeLeft(entry) == IF entry.n > 0 /\ ~slides THEN entry.ttl ELSE Window

\* checkRateLimit: every request that comes so far is counted.
Count(t) ==
  LET s == Sub(t)
      n == hits[s].n + 1
      ok == WithinLimit(t, n)
  IN /\ hits' = [hits EXCEPT ![s] = [n |-> Lesser(n, Limit[t] + 1), ttl |-> TimeLeft(hits[s])]]
     /\ recent' = IF ok THEN [recent EXCEPT ![s] = OneMore(@)] ELSE recent
     /\ reply' = [token |-> t, outcome |-> IF ok THEN "granted" ELSE "limited"]
     /\ UNCHANGED <<accounts, polling, restarts, slides, failures>>

Request(t, route) ==
  \/ route = Unmapped /\ Uncounted                                  \* 403
  \/ route = Public /\ Uncounted                                    \* passes
  \/ route \in MinRank /\ ~Valid(t) /\ Uncounted                       \* 401
  \/ route \in MinRank /\ Valid(t) /\ Rank[t] < route /\ Uncounted     \* 403
  \/ /\ route \in MinRank /\ Valid(t) /\ Rank[t] >= route
     /\ IF Revoked(t) THEN Uncounted ELSE Count(t)                   \* 401
-----------------------------------------------------------------------------
Init ==
  /\ row = [k \in Key |-> "none"] /\ life = [t \in Token |-> 0]
  /\ revoking = [k \in Key |-> "idle"] /\ answered = [k \in Key |-> FALSE]
  /\ age = [k \in Key |-> -1]
  /\ cache = [k \in Key |-> 0] /\ poll = "idle" /\ jtis = {} /\ stale = Timeout
  /\ hits = [s \in Subject |-> [n |-> 0, ttl |-> 0]] /\ slides \in BOOLEAN
  /\ recent = [s \in Subject |-> [i \in 1..Window |-> 0]] /\ restarts = [i \in 1..Window |-> 0]
  /\ reply = Silent /\ failures = 0

Revoke(k) == RevokeUpdate(k) \/ RevokeInsert(k) \/ RevokeAnswer(k)

Next ==
  \/ \E s \in Session : Login(s)
  \/ \E k \in Key : CreateKey(k) \/ Logout(k) \/ RevokeSelect(k) \/ Revoke(k) \/ RevokeCut(k)
  \/ PollServe \/ PollApply \/ PollApplyPart \/ PollFail \/ GatewayRestart \/ Tick
  \/ \E t \in Token, route \in Route : Request(t, route)

\* Time passes and auth_api answers. That polls do not fail forever is in MaxFailures.
Fairness == WF_vars(Tick) /\ WF_vars(PollServe) /\ WF_vars(PollApply)
Spec == Init /\ [][Next]_vars /\ Fairness
-----------------------------------------------------------------------------
TypeOK ==
  /\ row \in [Key -> {"none", "live", "revoked"}] /\ life \in [Token -> 0..Forever]
  /\ revoking \in [Key -> {"idle", "update", "insert", "answer"}]
  /\ answered \in [Key -> BOOLEAN] /\ age \in [Key -> -1..Timeout]
  /\ cache \in [Key -> 0..Timeout] /\ poll \in {"idle", "asked", "answered"}
  /\ jtis \subseteq Key /\ stale \in 0..Timeout
  /\ hits \in [Subject -> [n : Nat, ttl : 0..Window]] /\ slides \in BOOLEAN
  /\ recent \in [Subject -> [1..Window -> Nat]] /\ restarts \in [1..Window -> Nat]
  /\ failures \in 0..MaxFailures

Granted(t) == reply = [token |-> t, outcome |-> "granted"]

\* A key on the denylist is refused from the end of the first poll that began
\* after it was put there, whatever polls fail from then on, until the cache
\* has not been refreshed for the zone's timeout: "takes effect gateway-side
\* within one poll interval" (auth-api-openapi.yaml:152-154), and
\* main.js:96-98 on a poll that fails.
RevocationHolds ==
  \A k \in Denied : Granted(k) => age[k] <= stale \/ stale = Timeout

\* A revocation that was answered is seen by every request from some time on,
\* although the statements of the DELETE and the poll know nothing of each other.
RevocationTakesHold ==
  \A k \in Key : <>[](answered[k] => ~Granted(k))

\* However requests are placed around the end of a window, and through however
\* many sessions, a subject is granted at most twice its limit in the time of
\* one window (ratelimit.js:11-24), and once its limit more for each time nginx
\* was started again in it, which empties the zone (nginx.conf:43-44).
GrantsBounded ==
  \A t \in Token : recent[Sub(t)][Window] <= (2 + restarts[Window]) * Limit[t]
=============================================================================
