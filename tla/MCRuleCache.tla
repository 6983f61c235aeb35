---------------------------- MODULE MCRuleCache ----------------------------
(* RuleCache for TLC: the callback thread and the main thread of a daemon, *)
(* started when the file is already there.                                 *)
EXTENDS RuleCache

CONSTANTS callback, main

TwoThreads == {callback, main}

RaceSpec == CacheFairSpec /\ file.mtime # 0
=============================================================================
