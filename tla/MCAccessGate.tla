---------------------------- MODULE MCAccessGate ----------------------------
(* An instance of AccessGate for TLC: a key of the role service and two    *)
(* sessions of one viewer.                                                 *)
EXTENDS AccessGate, TLC

CONSTANTS k1, s1, s2, u1

MCUserOf == s1 :> u1 @@ s2 :> u1
MCRank == k1 :> 2 @@ s1 :> 1 @@ s2 :> 1
MCLimit == k1 :> 1 @@ s1 :> 1 @@ s2 :> 1
=============================================================================
