---------------------------- MODULE MCEntityGraph ----------------------------
(* EntityGraph for TLC: a point, two names of an equipment, two threads of  *)
(* the API and one of each other process.                                   *)
EXTENDS EntityGraph

CONSTANTS p1, e1, e2, zone, air, fan, api1, api2, lsn, pull, auto

MCPoint == {p1}
MCEquip == {e1, e2}
MCRules == <<{zone, air}, {zone, air, fan}>>
MCEquipRules == <<{fan}>>
MCPayload == {[on |-> p1, tags |-> {zone}, ref |-> e1], [on |-> p1, tags |-> {air, fan}, ref |-> NoRef],
              [on |-> e1, tags |-> {zone}, ref |-> NoRef]}
MCGrouping == {[on |-> e2, tags |-> {fan}, points |-> {p1}]}
MCPair == {<<e1, "sameAs", e2>>, <<e1, "hasPart", e2>>}
MCWorker == {api1, api2, lsn, pull, auto}
MCKind == [w \in MCWorker |-> CASE w \in {api1, api2} -> "api" [] w = lsn -> "listener"
                                [] w = pull -> "puller" [] OTHER -> "autotag"]
=============================================================================
