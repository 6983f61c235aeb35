# A formal model of timberdoodle

timberdoodle takes readings of building points from MQTT, HTTP and pollers, keeps their history in
PostgreSQL and what they are in an RDF graph, detects faults, computes derived points and serves all
that behind a gateway. These modules model the parts of it that run concurrently, persist state or
must order work, translated from the code under `src/timberdoodle` (paths below are relative to the
repository's root). TLC checks them on small instances; TLAPS proves the main properties for every
value of the constants.

## The system

| part | state it keeps | operations | talks to | what is hard about it |
|---|---|---|---|---|
| `mqtt_listener.py` | a broker session, none of its own | one callback per message | broker, graph, history | redelivery, a payload that raises |
| `ingest.py`, `ingest_api.py` | graph triples, `point_history`, `_known_points` | readings, tags, equips, links, deletes | graph, PostgreSQL | tags and equips in either order, replays |
| `fault_detector.py` | `faults`, two threads, rule cache | Cur-mode evaluation, His-mode sweep, webhook threads | broker, PostgreSQL, `rules.json`, `webhooks.json` | two writers of one table, crash between commit and notice |
| `fault_api.py`, `faults.py` | rules, webhooks, marks on faults, `webhook_health` | create, delete, acknowledge, snooze, enable | files, PostgreSQL | edits under a running sweep |
| `webhooks.py` and `_deliver_and_record` | `webhook_health` | deliver with retries, record, disable | receivers | any number of deliveries at once |
| `json_store.py` | JSON files, each daemon's copy | load, save, reload on mtime | | two threads share a copy without a lock |
| `derivation_engine.py`, `sandbox.py` | `next_run`, computed rows, graph edges | sweep, message, rollup, order | history, faults, health, graph | chained values, isolation of failures, faults under evaluation |
| `derivation_api.py`, `derivation_health.py` | `derivations.json`, target health | create, test, dry run, enable, delete | files, PostgreSQL | the same breaker as for webhooks |
| `mapping.py`, `autotag.py`, `llm_classifier.py` | Brick types in the graph | classify, reclassify | graph | remove and add are not atomic |
| `haystack_puller.py`, `sql_puller.py`, `haystack_client.py` | a checkpoint per point, a session | list, pull since the checkpoint, authenticate | remote servers, graph, history | the checkpoint and its rows are different statements; a token that expires |
| `auth.py`, `auth_api.py` | orgs, users, keys, `revoked_tokens` | login, create, revoke, list the revoked | PostgreSQL | a revocation is several statements |
| `gateway/` | revocation cache, rate counters | authorize, refresh | auth API | the cache is old by design and its entries expire |
| `hisquery.py`, `brick_vocab.py`, `timeseries.py`, `GET /his` | none | parse, match, expand, describe, read | graph, history | six reads without a snapshot, two class hierarchies, clock changes |
| `ops_status.py`, `GET /status` | none | probe, infer, rank | every part | each part is looked at at another moment |
| `axon_convert.py`, UI, scripts | none | conversions, pages | | I/O and text |

How they interact: the listener and the two daemons each have a session with mosquitto. The daemons
read their configuration from files the APIs replace, compare notes only through PostgreSQL (an open
fault keeps the engine from using a point) and the graph, and each runs paho's callback thread beside
a main loop. The pullers write through `ingest.py` like the listener. The gateway knows of the accounts
only the signature of a token and a list of the revoked it polls. Every database connection the
daemons and APIs write with is in autocommit mode, so a statement is the unit of atomicity.

What makes each part correct, and where it is stated:

* faults: per rule and point, episodes do not overlap, history never changes, each transition is
  announced once and truthfully (`FaultDetector`, implementing `FaultLifecycle`);
* webhooks and targets: the threshold is enforced, a disabled one is left alone, only a human brings
  it back (`HealthBreaker`);
* configuration: whatever two threads do to the copy they share, a save that finds neither of them in
  `get()` is what they evaluate from then on (`RuleCache`);
* messages: what the broker took is kept until it is handled (`MqttSession`);
* derivations: broken ones are skipped and only they, the rest run in order (`DerivationOrder`);
  chained values are fresh, lineage is sound and recorded, faulted points are left out, no failure
  of a function costs another row, none that can be evaluated falls behind its interval
  (`DerivationEngine`);
* the graph: every entity keeps the class its tags call for and no rule's class comes without its
  tags, links come with their inverses, merged equipment shows one set of points (`EntityGraph`);
* pulled history: a checkpoint never passes a sample that is not stored, and what a failed tick left
  out is pulled by a later one (`PullCheckpoint`);
* access: a revocation takes hold and holds, and nobody gets more than twice the limit in the time of
  one window, and once the limit more for each restart of nginx in it (`AccessGate`);
* queries: an expression means what the grammar says (`HisParser`), a span the days it names
  (`HisSpan`), a name every class above or equal to it (`BrickVocab`), and an answer has all that was
  asked for and nothing that was never there (`HisQuery`);
* status: the page says "ok" and "down" of the platform when they are so (`OpsStatus`).

## The modules

`FaultLifecycle` is the abstract specification of the faults table: which pairs of rule and point are
in fault and since when; a pair opens or resolves, never at a time before its last transition.

`FaultDetector` is `fault_detector.py` with the `faults` table and the API's edits. Variables are the
table, the two JSON files, what history holds and shows, the broker's readings, each thread's place
and locals (`cur`, `his`), the webhook threads started (`notices`) and the clock. The callback
thread goes `CurReceive` (payload, time, rules that apply), `CurEvaluate` per rule (one insert or
update), `CurFire` (webhooks.json and the threads); the main thread `SweepStart`, `SweepRule` (the
candidate query), `SweepRead`, `SweepWrite`, `SweepFire`, `SweepNext`. The API's actions, a crash, the
death of the callback thread and a lost QoS 0 message come between any two. Rules of one Brick class share a
fetch of the reported points in the code; in the model each rule reads them for itself.

`HealthBreaker` is one webhook's row of `webhook_health` and the threads that deliver to it: the test of
`disabled`, every attempt, and the one or two statements that record the outcome, any of which may
raise and end its thread.
`derivation_target_health` has the same row and statements.

`RuleCache` is `RuleCache.get` of `json_store.py` and of `fault_detector.py`, a step per line that touches
shared state, for the threads that call it and the API that saves the file. A file's content is the
number of the save that wrote it. `since` and `calm` only observe: what was on disk when a thread entered
`get()`, and whether the last save found no thread in it. `FaultDetector` and `DerivationEngine` read the
files themselves, so what follows from an old copy is stated of `RuleCache` alone. The model's graph
answers: a roster query that fails after the mtime was assigned ends the process, or the callback's
thread, which alone uses the roster.

`MqttSession` is one subscriber, with parameters for the listener (session kept, QoS 1, subscribes in
`on_connect`) and for the two daemons (clean session, QoS 0, subscribes once). The broker is external.

`DerivationOrder` is `_topological_order`, an action per deletion, sort or reported cycle. Which node is
looked at first and which cycle graphlib reports is open.

`DerivationEngine` is the evaluation: `StartTick` to `FinishTick` is a round of `main()`'s loop, `StartMessage`
one of `on_message`; both then take, per derivation, `Begin`, and per row `Check`, `Gate` and `Read` per
input, `Run`, then `RecordFailure` and maybe `DisableTarget`, or `RecordSuccess`, `Write`, `Attach` and a
`Derive` for each point the value was computed from. `RaiseFirst` (`compile_fn`, the select, the edges of the
tree), `RaiseReading` (inside the `try` of the row) and `Raise` (outside of it) are a statement that raises,
`Crash` the end of the process. What a function computes is left out; which readings it was given is kept in `values`. The order of a sweep is any that `DerivationOrder`
allows (`PlanIsReturned` proves that `Plan` has each of them; `Kept` leaves out cycles as well as missing
dependencies). A select gives a message its rows in any order. `ran`, which `OnSchedule` reads, observes
when a derivation was last evaluated, or was due and had to be left out: only what can be evaluated is
owed its interval.

`EntityGraph` is the graph as its clients write it: API threads (`POST /tags`, `/equip/merge`, `/part`,
`/ingest`), the listener, the Haystack puller and the autotag sweep. A client takes a job with one of the
`Start*` actions and goes on request by request: `AddTags`, `ReadRef`, `FindEquip`, `Link`, `LinkBack` are
`ingest.py`; `ReadTypes`, `RemoveType`, `ReadTags`, `AddClass`, `Declare` are `reclassify` and `classify_point`;
`AskModel` and `AddGuess` the LLM fallback; `Identify` and `WriteValue` a reading. `Fail` is a request that
raises, at any of them, and `Restart` the end of a process. `job.there`, `job.alone` and `settled` only observe.

`PullCheckpoint` is the tick of a puller: `Wake`, then for Haystack `AnswerEquip` and `AnswerList`, then per
key `ReadMark`, `AnswerHistory`, `WriteRow` per sample and `SaveMark`. `kind` says which of the two programs it
is; the SQL one has a single key. `Authenticate`, `Refused` and `RefusedAgain` are `HaystackClient._get`, shared
by its three requests. `Fail`, `StatementFails` and `BrokenPoint` raise out of `pull_once` into `main()`, which
sleeps; `LoseConnection` is for good until a `Restart`. The remote gets samples in time (`Sample`) or late
(`LateSample`). `since` only observes.

`AccessGate` is the gateway's `authorize` (`Request`) and `refreshRevoked` (`Tick` asks, `PollServe`, `PollApply`,
`PollApplyPart` when the zone is full, `PollFail`), with `auth.py`'s keys and sessions and `revoke_api_key` statement by statement (`RevokeSelect` to
`RevokeAnswer`, `RevokeCut` when the service ends in between). Deadlines are kept as the poll intervals that
are left. Whether `incr` renews the timeout of a counter it finds is nginx's own, so `slides` is both.
`answered`, `stale`, `recent` and `restarts` only observe; `recent[s][i]` is what a subject was granted in the
last `i` intervals, whether or not nginx was restarted since, and `restarts[i]` how often it was.

`HisParser` is the parser of query expressions over sequences of tokens, as recursive operators, and the
grammar of its docstring as the set of all ways to read a sequence. `HisSpan` is the calendar, `_date_span`
and `resolve_span` in zones with a change of time, and the days each span names, stated apart.
`BrickVocab` is `Vocab` and `GraphVocab`: aliases, subclasses and tags of Brick's file and of the graph's
declarations, and the same as one hierarchy. `HisQuery` composes the three: `Accept`, `ReadVocab`, `Match`,
`ExpandToPoints`, `DescribePoints`, `ReadLabels`, `ReadHistory` are a request's reads, with `Write` of any
client in between. A filter is the set of subjects it selects.

`OpsStatus` is a request to `GET /status`: `BuildingSignals`, `ProbeDirect` for each part, `CollectStatus`, with
`Change` in between.

`MC*` modules give the constants their values for TLC. Three of them put components that do not interact side
by side, each initial state being one of one component, while the others stay as they are: `MCReads` (one
expression, one span, one request to `GET /his` or one to `GET /status`), `MCLeaves` (`HealthBreaker`, `RuleCache`,
`DerivationOrder`; `part` says which) and `MCIngest` (`MqttSession`, `PullCheckpoint`; `way` says which). `*Proofs` modules hold the
theorems. Operators whose comment starts with "Mutant" are the bugs each property was tried against; no
specification uses them.

## The runs

| run | question | bounds |
|---|---|---|
| `detector_safety` | episodes disjoint, history final, each transition announced at most once and truthfully, `FaultLifecycle` implemented, under every failure | a rule of each mode on one point, one webhook, 4 external events, clock 0..2 |
| `detector_live` | the sweep converges, each transition is announced, each reading evaluated, without failures | the same, no clock |
| `leaves` | breaker: threshold, disabled left alone, a dead receiver ends up disabled; cache: what a save heals; order: only the broken skipped, order respected, returns | 3 threads, threshold 2, 2 attempts, 1 enable, 1 crash or broken statement; 2 threads, 3 saves; every graph on 4 ids, of which any may be missing |
| `cache_race` (violation) | `ConvergesToFile` | 2 threads, 2 saves |
| `ingest` | nothing lost, everything before a payload that raises is handled; `NoGap`, `CatchesUp` | 4 messages, queue of 2, 3 failures; either puller, 2 points, the second broken, backfill 1, clock 1..3, 2 samples, 2 expired tokens, 1 failure, lost connection or restart |
| `daemon_reconnect` (violation) | `Resubscribed` for the daemons | 2 messages, 1 failure |
| `engine` | `ChainFresh`, `LineageRecorded`, `GateRespected`, `SweepComplete`, `OnSchedule` | a formula, one chained to it, a rollup of two nodes; 3 points in time, one edit, fault, late reading or enable, one crash or statement that raises (the select, a read, the disable, the write or a link to an input); formulas due at every other tick, the rollup at each; started with everything configured and no fault, without the rollup and with the source faulted, or with a formula still to come |
| `graph` | `ClassKept`, `ClassJustified`, `LoneReclassifyReplaces`, `ReadSideFirst`, `MergedSeeAll`, `RetaggedIsLinked` | a point, two names of an equipment, 2 API threads and one of each other process; 3 jobs, 2 failures, 2 attempts |
| `gate` | `RevocationHolds`, `RevocationTakesHold`, `GrantsBounded` | a key, two sessions of one user, limit 1; zone timeout 3 polls, window 2, tokens of 1; 2 failures |
| `reads` | `ParsesAsGrammar`, `SpanExact`, `QuietExact`, `ReplyBracketed`, `StatusTruthful` | all sequences of 4 tokens, of 5 of the filter's, and of 3 calls after a source; all spans around month ends and changes of time of 2024 in 3 zones; 2 Brick files, 3 extensions, a building of 2 equipments and 2 points, 6 rows, 2 writes during a request; 7 parts of the platform, 1 change |
| `past_week` (violation) | `PastWeekTrails` | the spans of `reads` |
| `missing_tag` (violation) | `MissingTagUnmatched` | the building and the filters of `reads` |

Why the bounds are enough. The fault table is keyed by rule and point and no action relates two keys,
so one rule per thread and one point give every conflict there is; four external events open,
resolve and reopen a pair with an edit in between. In the breaker three threads are one more than a
race needs, and the proofs cover any number. Three saves are an older content, a newer one and one that heals. A queue of
two overflows with four messages. On four ids there are two disjoint cycles, a cycle with a tail and a
missing dependency above a cycle. In the engine two ticks, or a tick and a message, are what two
rows of one point need; `mean` is due at every other tick, so that `chained` meets it due and not. In the
graph three jobs are two that race and a third that finds what they left; the two payloads of the
point are fallbacks that add up to a direct match, and the equipment's are a miss and a direct match.
For the pullers three points in time are a first window, one from its checkpoint and a sample on the
boundary; two expired tokens are a retry that works and one that does not. In the gate two failures
are a poll that fails between two, a zone that times out while polls fail, a cut revocation or a
restart before a failing poll, and two restarts in one window; a window of two intervals and two sessions are what straddling one takes. In
the reads four tokens hold two operators, and five a parenthesis between them; the
two writes of a request are a link that is removed and put back or two that change in turn.

What the violations show, disagreements between the code and a sentence of its docs, comments or tests:

* `cache_race`: two threads of a daemon share a `RuleCache` (json_store.py:40). One loads the older content,
  the other loads and assigns the newer one, the first assigns the older one, both set the mtime: the
  older content stays under the newer mtime until the next save, where json_store.py:22 has the file
  reloaded "only when its mtime changes". What is left is in `leaves`: a save that finds no thread in `get()` heals it.
* `daemon_reconnect`: `fault_detector` and `derivation_engine` subscribe once, in a clean session; after a
  reconnect they run on and receive nothing.
* `past_week`: `pastWeek` is eight days (hisquery.py:843), where his-query.mdx:206 says "the trailing 7 days".
  test_hisquery.py asserts the eight. `SpanExact` is about every other span.
* `missing_tag`: `ref != @x` is true of a subject without that ref (hisquery.py:696-702), where
  his-query.mdx:175-176 and hisquery.py:601-602 have any comparison with a missing tag false, as
  `tag != value` is (705-706). `QuietExact` and `ReplyBracketed` speak of requests whose filter does
  not meet such a tag (`TagsAreThere`), by the documented meaning.

Other things the modelling showed, for which there is no run:

* JSON that is no object raises past the listener's `except` (mqtt_listener.py:60), is redelivered to
  every restarted process and blocks the queue behind it.
* A write that raises (derivation_engine.py:195) ends the derivation for that pass, and the rows after it
  are not come to, although derivation.mdx:139 isolates failures per target.
* The detector's transitions are committed before the webhook threads start: a crash in between loses
  the notice for good, where webhooks.mdx:6 promises one every time.
* A derivation that is due while something it depends on does not exist gets its `next_run` all the same
  (derivation_engine.py:379-381), so it waits a whole interval after the dependency has come.
* An exception in the detector's `on_message` ends paho's network thread while the process goes on
  (`CurThreadDies`); with it, `ReadingsEvaluated` does not hold.
* `record_webhook_failure` counts and disables in two statements: a success or an enable between them is
  followed by a disable with no failure behind it.
* Two overlapping `POST /tags` for a point can leave it two classes, where ingest_api.py:140 has the second
  replace the first: one reads the tags, the other runs from end to end, then the first adds a class
  for the older tags. `LoneReclassifyReplaces` is what holds.
* A puller opens its connection once (haystack_puller.py:143) and catches everything (159-163): after
  PostgreSQL drops it, every tick fails until the process is restarted. And a point whose history the
  server cannot give ends every tick before the points listed after it. `CatchesUp` leaves both out.
* The zone of the gateway's cache times out after 120 s (nginx.conf:43): when polls have failed for that
  long, a revoked key is let in again. `RevocationHolds` says so (`stale = Timeout`). So it is when the zone
  (1m) is full: `set` throws after `clear` and the copy is a part of the list until the next poll.
* A restart of nginx empties its zones: a subject gets its limit once more in the same window, and whoever
  is revoked gets in until the first poll.
* The engine counts a failure and disables the target in two statements, as the webhooks' breaker: a crash
  between them leaves a target over its threshold enabled until it fails again. `OverrunBounded` says how far
  the count can go.
* A rule that is deleted while its fault is open leaves the fault open for good, and with it the
  derivations that read the point.
* `revoke_api_key` cut between its UPDATE and its INSERT leaves a key that is shown as revoked and works;
  `create_org` cut between its two leaves an org without an admin; `expires_in_seconds` 0 makes a key that
  never expires.
* If nginx's `incr` renews the timeout of a counter, a subject that never pauses is refused for good
  once it met its limit, where ratelimit.js:3 has a fixed window.
* A name an extension declares `owl:equivalentClass` to a class of Brick's own finds what has that class
  and not what has one of its subclasses in Brick's file, which `GraphVocab.expand` does not read
  (hisquery.py:530-542). `QuietExact` and `ReplyBracketed` assume no such alias (`AliasesStayOutside`).
* A range that ends in `today` is validated against 2000-01-01, so `2026-09-01..today` is refused and
  `today..2010` is taken and raises later; a rollup by `1day` starts 24 hours apart from the span's start, which is not local midnight after a
  change of time (his-query.mdx:227).
* The status page's signals are one transaction: without the faults table it aborts and a platform with
  organisations is shown as having none.

## Fairness

`FaultDetector`: weak fairness of each thread; paho's loop and the main loop have no other way out than
the failures that are actions. `HealthBreaker`: of a delivery's steps, since its thread runs to its end;
not of `Start`, since events come when the plant has them, nor of `Raise`. `RuleCache`: of each thread's `get`, called on
every message and sweep. `MqttSession`: of connecting, subscribing, receiving and handling (paho's loop, and
Docker's restart policy after a crash). `DerivationOrder`: of the only process there is.
`PullCheckpoint`: of the puller's own steps, since `main()` loops whatever is raised, and of the clock.
`AccessGate`: of the clock (`js_periodic` fires), of auth_api answering and of the handler that applies the
answer; that polls do not fail forever is the bound on failures. Not of the admin's DELETE: only
one that was answered is promised anything. Failures, edits, readings and humans are never fair.
`DerivationEngine`, `EntityGraph` and `MCReads` have safety properties only: their clock, the number of jobs or
the request is bounded.

## The proofs

All are for every value of the constants that satisfies the `ASSUME`s of the module. What those say is
in the code: a roster lists each point once, a limit goes by the user's role, rules and payloads are
finite lists, ids of formulas and rollups differ. Of the status page's list of components: what
is inferred is a job and nothing else is, the historian is asked by a statement and belongs to the
platform, as the bus does. The bounds (`Max*`) are any numbers. Hardly any of the
properties is inductive; each module starts with what has to be added, and every invariant named
here was checked by TLC on the runs' instances before it was proved.

* `FaultDetectorProofs`: `TypeCorrect`, `EpisodesAreDisjoint`, `TransitionsAnnouncedOnce`,
  `NoticesAreTruthful`, `HistoryIsFinal`, `LifecycleImplemented`. The invariant `IInv` adds what the
  threads know: a thread's stamp is not after the clock, and no row of the keys it writes is stamped
  later than it (the two threads write different rules, so each sees its own stamps only); a thread about
  to fire holds a row of the table that is in the state it is going to announce, and no notice of it
  exists. `TableSteps` says what any step may do to the table: nothing, or one statement of one thread
  at a time not before any stamp of its rule. From it follow both the action property and the
  refinement: an insert is `Raise` of `FaultLifecycle`, an update `Clear`, all else a stutter.
* `LeafProofs` holds the proofs of four small modules.
  * `HealthBreaker`: `TypeCorrect`, `ThresholdIsEnforced`, `DisabledIsLeftAlone`, `HumanEnables`, for any number of
    threads. The invariant: a thread about to disable exists whenever the count is at the limit and the
    flag is unset; a thread started after the flag was set has not passed the test; a thread that may
    attempt has an attempt left.
  * `RuleCache`: `CacheTypeCorrect` and `CalmSaveIsServed`, for any threads. The invariant `Settled`, since a
    save that found no thread in `get()`: the mtime of the file is remembered only together with its
    content, and every thread that is in `get()` has found this file and, once past the load, holds its
    content. Without such a save nothing of the kind is true, as `cache_race` shows.
  * `OpsStatus`: `StatusIsTruthful`, for any parts, databases and changes. The invariant `OpsInv`: each
    result has a moment of the request that bears it out (`Witnessed`), and as long as nothing changed
    that moment is the only one, so that the signals and all results speak of it.
  * `HisSpan`: `SpanIsExact`, for any range of years, any zone whose clock changes by an hour, any clock and
    any span but `pastWeek`, as long as the day it is asked on is neither in the first two years of the calendar nor in
    its last (`Askable`). It rests on a
    lemma on midnight (an instant is at or after the midnight of a day exactly when its local day is
    that day or later, also where the change skips or repeats the hour), and on the calendar being in
    order: months follow each other without gap or overlap, whatever is leap.
* `MqttSessionProofs`: `TypeCorrect`, and `NothingIsLost` for QoS 1, whether the session is kept or not. The
  invariant: while the connection holds, what is in `on_message` is still the head of the queue.
* `DerivationOrderProofs`: `TypeCorrect`, `OnlyBrokenAreSkipped`, `OrderIsRespected`, for every finite
  graph. The invariant is that no sound part of the graph (one that is closed and has no cycle) ever
  loses a member: pruning takes only what has a dependency outside, a cycle has none in a sound part,
  as each node of the shared part would need its successor there. `ResultIsReturned` says the same to a
  caller: the order lists each survivor once, after what it depends on.
* `DerivationEngineProofs`: `TypeCorrect`, `KeptOnSchedule`, `FaultedIsAbsent`, `LineageIsRecorded`,
  `SweepIsComplete`, `ChainIsFresh`, `OverrunIsBounded`, `PlanIsReturned`, for any derivations, rows, inputs,
  dependencies and windows. A lemma per
  step says what it does to the thread's job; on these rest one invariant per property, over `Typed`:
  `Scheduled` (a due derivation was evaluated at this tick or is pending; what is not due has its
  `next_run` still to come); `Gated` (`clean` holds every input without a fault now and all that was
  used); `Grounded` and `Attached` (what a thread has used or knows is in the history; a row not yet
  linked has its thread at `attach` or `derive`); `Covered` (each due derivation is pending, done, or under way with the
  rest of its rows to go); `InOrder` and `Fresh`. The last two carry `ChainIsFresh`: what a sweep computed depends
  neither on what it is at nor on what is to come, a message has a time of its own, and so an input
  computed at the time of the sweep is still to be read or was read, and `point_history` has no
  newer row in the window. `OverrunIsBounded` needs `HealthBound`: a count at the threshold is followed by
  the disable, unless a statement breaks or the process dies, which costs at most one disable of each
  thread; once it is disabled, only who is past the test can still fail. `PlanIsReturned` ties the two
  modules: with `DerivationOrder`
  instantiated on the file's dependencies, whatever it returns, restricted to what is due
  (`Restricts`, the list comprehension over the order), is in `Plan`, so the six hold for every order
  graphlib may choose.
* `EntityGraphProofs`: `TypeCorrect`, `ReadersFirst`, `RightfullyClassified`, `ClassIsKept`, `MergedAgree`,
  `LoneReplaces`, `RetaggedLinked`, for any entities, rules, payloads and threads. That `classify_point` finds a
  class is a lemma on its `max` over finitely many rules. The invariants: the first half of a link is
  in the graph when its second is written (`Halves`); tags that were read are still there
  (`SeenStays`); an entity has the class its tags call for or a thread is on its way to add it
  (`KeptOrPending`); a one-sided merge has its writer (`Mutual`); an undisturbed reclassification has
  removed the old classes or has them on its list (`LoneCleared`); a tagged point keeps its way to
  equipment that had come (`OnItsWay`).
* `PullCheckpointProofs`: `TypeCorrect`, `CheckpointCovers`, `CheckpointsAdvance`, for both pullers. The
  invariant: no checkpoint is after the time the tick took (`MarksBehind`), the window starts at the
  checkpoint (`WindowFits`), and all that came in time within it is stored or on the list (`WindowCovered`).
* `AccessGateProofs`: `TypeCorrect`, `RevokedRefused`, `AtMostTwice`, for any keys, sessions, limits, windows and
  timeouts. A key older on the denylist than the poll applied last has an entry in the cache that
  lasts as long as the zone's timeout is off (`Cached`). For the limit, `Metered` relates a subject's
  grants to its counter and to the restarts: with fixed windows all grants of a window's time belong to the counter there
  is and one before it; with renewed ones all belong to the one there is.

Only model-checked:

* everything under fairness: the prover has no `ENABLED`;
* `ParsesAsGrammar`, `QuietExact`, `ReplyBracketed`: the parser and the closures of the vocabulary are recursive
  operators over the input, and induction over data is outside the prover;
* that a graph without cycles has an order at all, so that `Sort` and `StartTick` are never without one:
  an existence by induction over the graph, which `Returns` shows for every graph on 4 ids.

## Not modelled

* `axon_convert.py`: it prints one program text from another and decides nothing else;
* of `hisquery.py`: the characters of tokens, rollups by calendar month, labels that are only shown; the
  query text, since a filter is modelled by what it selects;
* of `auth.py`: organisations, sites, users and passwords;
* Open-Meteo and Energy Star pullers: they keep no checkpoint and upsert what they are given;
* stores, validation, clients, UI, scripts, deployment: I/O, third-party engines or pages;
* time: the clock is taken to be monotone, and two saves of a file to differ in mtime;
* psycopg's own locking of a connection two threads share, `synchronous_commit = off`, threads of timed-out
  functions and webhook retries that pile up without a cap;
* the dry run of a derivation with `depends_on`, which evaluates a list of one and shows an empty trace;
  `_known_points`, which outlives a graph that was cleared; a reading without `ts`, stamped on arrival.

## Plan

1. Done: `FaultLifecycle`, `FaultDetector`, `HealthBreaker`, `RuleCache`, `MqttSession`,
   `DerivationOrder`, `DerivationEngine`, `EntityGraph`.
2. Done: `PullCheckpoint`, `AccessGate`, the read side (`HisParser`, `HisSpan`, `BrickVocab`, `HisQuery`,
   `OpsStatus`).
3. Done: proofs of every safety property a run checks except the three of the parser and the
   vocabulary, of the refinement of `FaultLifecycle`, and of the tie between `DerivationOrder` and
   `DerivationEngine`.
4. Left: what an evaluation on an old copy of the rules does to the faults and the derived values, which
   composes `RuleCache` with the two daemons; the three properties above for every expression and
   vocabulary, which takes a prover with induction.
