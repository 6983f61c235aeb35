----------------------------- MODULE RuleCache -----------------------------
(***************************************************************************)
(* json_store.RuleCache and fault_detector.RuleCache: the copy of a JSON   *)
(* config file a daemon keeps, reloaded when the file's mtime differs from *)
(* the one it remembers.  The daemon's MQTT callback thread and its main   *)
(* thread share one cache and take no lock, so every line of get() that    *)
(* reads or writes shared state is a step.  The other process, fault_api   *)
(* or derivation_api, replaces the file atomically (json_store.save).      *)
(*                                                                         *)
(* A file's content is the number of the save that wrote it, 0 before the  *)
(* first (no file, no rules).  The roster is the number of the content it  *)
(* was built from; the cache of json_store has none.                       *)
(***************************************************************************)
EXTENDS Integers

CONSTANTS
  Thread,     \* the threads that call get()
  MaxSaves    \* bound: saves of the file

ASSUME BoundAssumption == MaxSaves \in Nat \ {0}

VARIABLES
  file,      \* [content, mtime] on disk; mtime 0: no file
  mtime,     \* _mtime; 0 stands for None
  records,   \* _rules / _records
  roster,    \* _brick_roster
  step,      \* where each thread is in get()
  seen,      \* the mtime each thread got from stat()
  buf,       \* what each thread read and has not yet assigned
  since,     \* history: the content on disk when each thread entered get()
  calm       \* history: no thread was in get() when the file was last saved

cacheVars == <<file, mtime, records, roster, step, seen, buf, since, calm>>
cache == <<mtime, records, roster>>

GoOn(t, to) == step' = [step EXCEPT ![t] = to]
Hold(t, x) == buf' = [buf EXCEPT ![t] = x]
Quiet == \A t \in Thread : step[t] = "idle"
-----------------------------------------------------------------------------
\* json_store.save, by the one process that writes the file.  Saves are taken
\* to be further apart than the resolution of mtime.
Save ==
  /\ file.content < MaxSaves
  /\ file' = [content |-> file.content + 1, mtime |-> file.mtime + 1]
  /\ calm' = Quiet
  /\ UNCHANGED <<cache, step, seen, buf, since>>

\* get() begins: os.stat(path).st_mtime, or FileNotFoundError.
Stat(t) ==
  /\ step[t] = "idle"
  /\ GoOn(t, IF file.mtime = 0 THEN "missing" ELSE "compare")
  /\ seen' = [seen EXCEPT ![t] = file.mtime]
  /\ since' = [since EXCEPT ![t] = file.content]
  /\ UNCHANGED <<file, cache, buf, calm>>

\* No file: no rules, and the next get() starts afresh.
DropRecords(t) ==
  /\ step[t] = "missing" /\ GoOn(t, "dropMtime")
  /\ records' = 0
  /\ UNCHANGED <<file, mtime, roster, seen, buf, since, calm>>
DropMtime(t) ==
  /\ step[t] = "dropMtime" /\ GoOn(t, "dropRoster")
  /\ mtime' = 0
  /\ UNCHANGED <<file, records, roster, seen, buf, since, calm>>
DropRoster(t) ==
  /\ step[t] = "dropRoster" /\ GoOn(t, "idle")
  /\ roster' = 0
  /\ UNCHANGED <<file, mtime, records, seen, buf, since, calm>>

\* Mutant: the new mtime is remembered before the file is loaded.
CompareAndMark(t) ==
  /\ step[t] = "compare"
  /\ GoOn(t, IF seen[t] = mtime THEN "idle" ELSE "load")
  /\ mtime' = seen[t]
  /\ UNCHANGED <<file, records, roster, seen, buf, since, calm>>

\* Mutant: the copy is loaded once.
CompareOnce(t) ==
  /\ step[t] = "compare"
  /\ GoOn(t, IF mtime # 0 THEN "idle" ELSE "load")
  /\ UNCHANGED <<file, cache, seen, buf, since, calm>>

\* if mtime != self._mtime
Compare(t) ==
  /\ step[t] = "compare"
  /\ GoOn(t, IF seen[t] = mtime THEN "idle" ELSE "load")
  /\ UNCHANGED <<file, cache, seen, buf, since, calm>>

\* json_store.load(self.path) ...
Load(t) ==
  /\ step[t] = "load" /\ GoOn(t, "setRecords") /\ Hold(t, file.content)
  /\ UNCHANGED <<file, cache, seen, since, calm>>

\* ... assigned to self._rules
SetRecords(t) ==
  /\ step[t] = "setRecords" /\ GoOn(t, "setMtime")
  /\ records' = buf[t]
  /\ UNCHANGED <<file, mtime, roster, seen, buf, since, calm>>

\* self._mtime = mtime
SetMtime(t) ==
  /\ step[t] = "setMtime" /\ GoOn(t, "build")
  /\ mtime' = seen[t]
  /\ UNCHANGED <<file, records, roster, seen, buf, since, calm>>

\* _build_brick_roster reads self._rules and queries the graph ...
Build(t) ==
  /\ step[t] = "build" /\ GoOn(t, "setRoster") /\ Hold(t, records)
  /\ UNCHANGED <<file, cache, seen, since, calm>>

\* ... and its result is assigned to self._brick_roster.
SetRoster(t) ==
  /\ step[t] = "setRoster" /\ GoOn(t, "idle")
  /\ roster' = buf[t]
  /\ UNCHANGED <<file, mtime, records, seen, buf, since, calm>>
-----------------------------------------------------------------------------
CacheInit ==
  /\ file \in {[content |-> n, mtime |-> n] : n \in {0, 1}}
  /\ mtime = 0 /\ records = 0 /\ roster = 0
  /\ step = [t \in Thread |-> "idle"]
  /\ seen = [t \in Thread |-> 0] /\ buf = [t \in Thread |-> 0] /\ since = [t \in Thread |-> 0]
  /\ calm = TRUE

Get(t) ==
  \/ Stat(t) \/ DropRecords(t) \/ DropMtime(t) \/ DropRoster(t) \/ Compare(t) \/ Load(t)
  \/ SetRecords(t) \/ SetMtime(t) \/ Build(t) \/ SetRoster(t)

CacheNext == Save \/ \E t \in Thread : Get(t)

CacheSpec == CacheInit /\ [][CacheNext]_cacheVars

\* Each thread calls get() for ever: the sweep, and a steady flow of messages.
CacheFairSpec == CacheSpec /\ \A t \in Thread : WF_cacheVars(Get(t))
-----------------------------------------------------------------------------
Version == 0 .. MaxSaves
Step == {"idle", "missing", "dropMtime", "dropRoster", "compare", "load", "setRecords", "setMtime",
         "build", "setRoster"}

\* The shape of every variable.
CacheTypeOK ==
  /\ file \in [content : Version, mtime : Version]
  /\ mtime \in Version /\ records \in Version /\ roster \in Version
  /\ step \in [Thread -> Step]
  /\ seen \in [Thread -> Version] /\ buf \in [Thread -> Version] /\ since \in [Thread -> Version]
  /\ calm \in BOOLEAN

\* json_store.py:22, "reloads ... only when its mtime changes": once the file is
\* left alone, every get() returns its content.  Not so with two threads: the one
\* that loaded first may assign its records last.
ConvergesToFile == <>[](Quiet => records = file.content)

\* What is left of that.  A save that finds no thread in get()
\* heals whatever older content was assigned after a newer one: from the first
\* get() that returns after it, every reading is evaluated on what was saved ...
FreshAfterCalmSave ==
  calm => \A t \in Thread : step[t] = "idle" /\ since[t] = file.content => records = file.content

\* ... and if it is the last save, records and roster are its content for good.
SettlesAfterCalmSave ==
  <>[]calm => <>[](Quiet => records = file.content /\ roster = file.content)
=============================================================================
