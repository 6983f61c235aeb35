--------------------------- MODULE PullCheckpoint ---------------------------
(***************************************************************************)
(* A puller: haystack_puller.py, which asks a Haystack server for the      *)
(* history of every point it lists and keeps a checkpoint per point, or    *)
(* sql_puller.py, which asks one query and keeps one for the source.       *)
(*                                                                         *)
(* The checkpoint and the rows it stands for are statements of their own,  *)
(* and anything that raises ends the tick. What the tags of a point do to  *)
(* the graph is in EntityGraph.                                            *)
(***************************************************************************)
EXTENDS Integers, Sequences, FiniteSets

CONSTANTS
  Roster,          \* the points the Haystack server lists, in its order
  Source,          \* the key of the SQL source's checkpoint
  Broken,          \* points whose history the server cannot give
  Backfill,        \* --backfill-days
  MaxTime,         \* bound: the clock
  MaxSamples,      \* bound: samples the remote gets, in time or late
  MaxRevocations,  \* bound: times the server forgets the token
  MaxFailures      \* bound: requests that fail, connections lost, restarts

Point == {Roster[i] : i \in DOMAIN Roster}
Key == Point \union {Source}

ASSUME PullAssumption ==
  /\ Roster \in Seq(Point) /\ Source \notin Point /\ Broken \subseteq Point
  /\ \A i, j \in DOMAIN Roster : Roster[i] = Roster[j] => i = j
  /\ Backfill \in Nat \ {0} /\ MaxTime \in Nat \ {0}
  /\ MaxSamples \in Nat /\ MaxRevocations \in Nat /\ MaxFailures \in Nat

VARIABLES
  kind,           \* which of the two programs this is
  clock,
  remote,         \* samples the remote holds; late if it got them after their time
  stored,         \* rows of point_history
  mark,           \* the checkpoint table; 0 is no row
  since,          \* observes the start of each key's first window
  pc, now, left,  \* place in the tick, its time, keys it has yet to pull
  start, rows,    \* window and rows of the key being pulled
  conn,           \* the connection to PostgreSQL, opened once per process
  authenticated,  \* HaystackClient._authenticated
  again,          \* _get is retrying
  honoured,       \* the server accepts the client's token
  revocations, failures

remoteVars == <<clock, remote>>
client == <<authenticated, again, honoured, revocations>>
table == <<stored, mark, since>>
tick == <<now, left, start, rows>>
vars == <<kind, remoteVars, client, table, tick, pc, conn, failures>>

Row(k, t) == [key |-> k, ts |-> t]
Sleep == pc' = "sleep" /\ left' = <<>> /\ start' = 0 /\ rows' = {} /\ now' = 0
-----------------------------------------------------------------------------
(* The remote and the world.                                               *)

\* A sample reaches the remote at its time.
Sample(k) ==
  /\ Cardinality(remote) < MaxSamples
  /\ remote' = remote \union {[key |-> k, ts |-> clock, late |-> FALSE]}
  /\ UNCHANGED <<kind, clock, client, table, tick, pc, conn, failures>>

\* A sample reaches the remote after its time: a gateway that was offline.
LateSample(k) ==
  /\ Cardinality(remote) < MaxSamples
  /\ \E t \in 1..(clock - 1) :
       remote' = remote \union {[key |-> k, ts |-> t, late |-> TRUE]}
  /\ UNCHANGED <<kind, clock, client, table, tick, pc, conn, failures>>

Tick ==
  /\ clock < MaxTime /\ clock' = clock + 1
  /\ UNCHANGED <<kind, remote, client, table, tick, pc, conn, failures>>

\* The server restarts or the token expires.
RevokeToken ==
  /\ authenticated /\ honoured /\ revocations < MaxRevocations
  /\ honoured' = FALSE /\ revocations' = revocations + 1
  /\ UNCHANGED <<kind, remoteVars, authenticated, again, table, tick, pc, conn, failures>>

\* What the remote gives for a window. It includes the start; whether it
\* includes the end is up to the server.
InWindow(k, from, until, closed) ==
  {Row(k, s.ts) : s \in {x \in remote : /\ x.key = k /\ from <= x.ts
                                        /\ \/ x.ts < until
                                           \/ closed /\ x.ts = until}}
-----------------------------------------------------------------------------
(* HaystackClient._get, as far as the three requests of a tick share it.   *)

Asking == kind = "haystack" /\ pc \in {"equip", "list", "read"}
Answered ==   \* a response with status 200
  /\ authenticated /\ honoured
  /\ again' = FALSE
  /\ UNCHANGED <<authenticated, honoured, revocations>>

\* _authenticate: three exchanges, of which none depends on the old token.
Authenticate ==
  /\ Asking /\ ~authenticated
  /\ authenticated' = TRUE /\ honoured' = TRUE
  /\ UNCHANGED <<kind, remoteVars, again, revocations, table, tick, pc, conn, failures>>

\* Mutant: a 401 is retried with the session as it is.
RefusedKeep ==
  /\ Asking /\ authenticated /\ ~honoured /\ ~again /\ again' = TRUE
  /\ UNCHANGED <<kind, remoteVars, authenticated, honoured, revocations, table, tick, pc, conn, failures>>

\* The first 401: authenticate again and retry.
Refused ==
  /\ Asking /\ authenticated /\ ~honoured /\ ~again
  /\ authenticated' = FALSE /\ again' = TRUE
  /\ UNCHANGED <<kind, remoteVars, honoured, revocations, table, tick, pc, conn, failures>>

\* The second one is raise_for_status's, and the tick's end.
RefusedAgain ==
  /\ Asking /\ authenticated /\ ~honoured /\ again
  /\ again' = FALSE /\ Sleep
  /\ UNCHANGED <<kind, remoteVars, authenticated, honoured, revocations, table, conn, failures>>
-----------------------------------------------------------------------------
(* The tick.                                                               *)

\* pull_once is called. The SQL puller takes the time first.
Wake ==
  /\ pc = "sleep"
  /\ \/ kind = "haystack" /\ pc' = "equip" /\ UNCHANGED tick
     \/ /\ kind = "sql" /\ pc' = "mark"
        /\ now' = clock /\ left' = <<Source>> /\ UNCHANGED <<start, rows>>
  /\ UNCHANGED <<kind, remoteVars, client, table, conn, failures>>

\* pull_equip has its answer; pull_points takes the time and asks for the points.
AnswerEquip ==
  /\ kind = "haystack" /\ pc = "equip" /\ Answered
  /\ pc' = "list" /\ now' = clock
  /\ UNCHANGED <<kind, remoteVars, table, left, start, rows, conn, failures>>

AnswerList ==
  /\ kind = "haystack" /\ pc = "list" /\ Answered
  /\ left' = Roster /\ pc' = IF Roster = <<>> THEN "sleep" ELSE "mark"
  /\ UNCHANGED <<kind, remoteVars, table, now, start, rows, conn, failures>>

\* Mutant: the window starts after the checkpoint.
ReadMarkAfter ==
  /\ pc = "mark" /\ conn
  /\ LET m == mark[Head(left)]
     IN /\ start' = IF m = 0 THEN now - Backfill ELSE m + 1
        /\ pc' = IF kind = "haystack" /\ start' >= now THEN "write" ELSE "read"
  /\ rows' = {}
  /\ UNCHANGED <<kind, remoteVars, client, table, now, left, conn, failures>>

\* get_checkpoint, the default and, for Haystack, the early return of _pull_history.
ReadMark ==
  /\ pc = "mark" /\ conn
  /\ LET m == mark[Head(left)]
     IN /\ start' = IF m = 0 THEN now - Backfill ELSE m
        /\ pc' = IF kind = "haystack" /\ start' >= now THEN "write" ELSE "read"
  /\ rows' = {}
  /\ UNCHANGED <<kind, remoteVars, client, table, now, left, conn, failures>>

\* his_read, or the query on a connection of its own.
AnswerHistory ==
  /\ pc = "read" /\ Head(left) \notin Broken
  /\ IF kind = "haystack" THEN Answered ELSE UNCHANGED client
  /\ \E closed \in BOOLEAN : rows' = InWindow(Head(left), start, now, closed)
  /\ pc' = "write"
  /\ UNCHANGED <<kind, remoteVars, table, now, left, start, conn, failures>>

\* ingest_reading: an upsert on (point, ts). The rows come in the remote's order.
WriteRow ==
  /\ pc = "write" /\ conn
  /\ \E r \in rows : stored' = stored \union {r} /\ rows' = rows \ {r}
  /\ UNCHANGED <<kind, remoteVars, client, mark, since, now, left, start, pc, conn, failures>>

\* Mutant: the checkpoint is the time at which it is saved.
SaveMarkNow ==
  /\ pc = "write" /\ rows = {} /\ conn
  /\ LET k == Head(left)
     IN /\ mark' = [mark EXCEPT ![k] = clock]
        /\ since' = IF mark[k] = 0 THEN [since EXCEPT ![k] = start] ELSE since
  /\ left' = Tail(left) /\ pc' = IF left' = <<>> THEN "sleep" ELSE "mark"
  /\ UNCHANGED <<kind, remoteVars, client, stored, now, start, rows, conn, failures>>

\* set_checkpoint, to the time of the tick.
SaveMark ==
  /\ pc = "write" /\ rows = {} /\ conn
  /\ LET k == Head(left)
     IN /\ mark' = [mark EXCEPT ![k] = now]
        /\ since' = IF mark[k] = 0 THEN [since EXCEPT ![k] = start] ELSE since
  /\ left' = Tail(left) /\ pc' = IF left' = <<>> THEN "sleep" ELSE "mark"
  /\ UNCHANGED <<kind, remoteVars, client, stored, now, start, rows, conn, failures>>
-----------------------------------------------------------------------------
(* What goes wrong. main() catches it and sleeps until the next tick.      *)

\* The server cannot give this point's history: so it is at every tick.
BrokenPoint ==
  /\ pc = "read" /\ Head(left) \in Broken /\ Answered /\ Sleep
  /\ UNCHANGED <<kind, remoteVars, table, conn, failures>>

\* Any request of the tick fails: the remote's, the graph's or a statement.
Fail ==
  /\ pc # "sleep" /\ failures < MaxFailures /\ failures' = failures + 1
  /\ again' = FALSE /\ Sleep
  /\ UNCHANGED <<kind, remoteVars, authenticated, honoured, revocations, table, conn>>

\* PostgreSQL drops the connection. Nothing in the process opens another.
LoseConnection ==
  /\ conn /\ failures < MaxFailures /\ failures' = failures + 1
  /\ conn' = FALSE
  /\ UNCHANGED <<kind, remoteVars, client, table, tick, pc>>

StatementFails ==
  /\ pc \in {"mark", "write"} /\ ~conn /\ Sleep
  /\ UNCHANGED <<kind, remoteVars, client, table, conn, failures>>

\* The process ends and is started again.
Restart ==
  /\ failures < MaxFailures /\ failures' = failures + 1
  /\ conn' = TRUE /\ authenticated' = FALSE /\ again' = FALSE /\ Sleep
  /\ UNCHANGED <<kind, remoteVars, honoured, revocations, table>>
-----------------------------------------------------------------------------
Init ==
  /\ kind \in {"haystack", "sql"}
  /\ clock = 1 /\ remote = {}
  /\ stored = {} /\ mark = [k \in Key |-> 0] /\ since = [k \in Key |-> 0]
  /\ pc = "sleep" /\ now = 0 /\ left = <<>> /\ start = 0 /\ rows = {}
  /\ conn = TRUE /\ authenticated = FALSE /\ again = FALSE /\ honoured = FALSE
  /\ revocations = 0 /\ failures = 0

Pulled == IF kind = "haystack" THEN Point ELSE {Source}

Pull ==
  \/ Wake \/ Authenticate \/ Refused \/ RefusedAgain
  \/ AnswerEquip \/ AnswerList \/ ReadMark \/ AnswerHistory \/ WriteRow \/ SaveMark
  \/ BrokenPoint \/ StatementFails

Next ==
  \/ Pull
  \/ \E k \in Pulled : Sample(k) \/ LateSample(k)
  \/ Tick \/ RevokeToken \/ Fail \/ LoseConnection \/ Restart

Spec == Init /\ [][Next]_vars /\ WF_vars(Pull) /\ WF_vars(Tick)
-----------------------------------------------------------------------------
TypeOK ==
  /\ kind \in {"haystack", "sql"} /\ clock \in 1..MaxTime
  /\ remote \subseteq [key : Key, ts : 1..MaxTime, late : BOOLEAN]
  /\ stored \subseteq [key : Key, ts : 1..MaxTime]
  /\ mark \in [Key -> 0..MaxTime]
  /\ pc \in {"sleep", "equip", "list", "mark", "read", "write"}
  /\ since \in [Key -> Int]
  /\ now \in 0..MaxTime /\ left \in Seq(Key) /\ start \in Int
  /\ rows \subseteq [key : Key, ts : 1..MaxTime]
  /\ conn \in BOOLEAN /\ authenticated \in BOOLEAN
  /\ again \in BOOLEAN /\ honoured \in BOOLEAN

\* Whatever fails, every sample that reached the remote at its time and lies
\* between the start of the key's first window and its checkpoint is in
\* point_history: the checkpoint never passes a sample (haystack_puller.py:90-93).
NoGap ==
  \A s \in remote :
    ~s.late /\ since[s.key] <= s.ts /\ s.ts < mark[s.key] => Row(s.key, s.ts) \in stored

\* While the process has its connection, every sample that came in time is
\* stored in the end, however many ticks fail on the way, for the keys that
\* the server lists before any point it cannot give.
CatchesUp ==
  \A k \in Key, t \in 1..(MaxTime - 1) :
    LET ahead == \/ k = Source
                 \/ \E i \in DOMAIN Roster :
                      Roster[i] = k /\ \A j \in 1..i : Roster[j] \notin Broken
        wanted == /\ [key |-> k, ts |-> t, late |-> FALSE] \in remote
                  /\ ahead /\ t >= MaxTime - Backfill
    IN wanted ~> (Row(k, t) \in stored \/ ~conn)
=============================================================================
