----------------------------- MODULE MCIngest -----------------------------
(***************************************************************************)
(* The two ways a sample takes into the historian, side by side for TLC:   *)
(* an initial state is the listener's session with the broker, or a puller *)
(* of two points, of which the server cannot give the second, or of one    *)
(* SQL source.  The other one stays as it is when nothing happens to it.   *)
(***************************************************************************)
EXTENDS MqttSession, PullCheckpoint

CONSTANTS p1, p2, site

MCRoster == <<p1, p2>>

VARIABLE way
ingestVars == <<way, sessionVars, vars>>

SessionStep(A) == way = "listen" /\ A /\ UNCHANGED <<way, vars>>
PullStep(A) == way = "pull" /\ A /\ UNCHANGED <<way, sessionVars>>

IngestInit ==
  /\ SessionInit /\ Init
  /\ way = "pull" \/ (way = "listen" /\ kind = "sql")

IngestNext == SessionStep(SessionNext) \/ PullStep(Next)

IngestSpec ==
  /\ IngestInit /\ [][IngestNext]_ingestVars
  /\ WF_ingestVars(SessionStep(Connect)) /\ WF_ingestVars(SessionStep(Subscribe))
  /\ WF_ingestVars(SessionStep(Receive)) /\ WF_ingestVars(SessionStep(Handle))
  /\ WF_ingestVars(SessionStep(Raise))
  /\ WF_ingestVars(PullStep(Pull)) /\ WF_ingestVars(PullStep(Tick))
=============================================================================
