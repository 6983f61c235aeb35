---------------------------- MODULE MqttSession ----------------------------
(***************************************************************************)
(* One subscriber of the broker: mqtt_listener.py, which keeps a session   *)
(* (clean_session=False), subscribes with QoS 1 and does so in on_connect; *)
(* or fault_detector.py and derivation_engine.py, which take the defaults  *)
(* of mqtt_util.make_client (a session that ends with the connection, QoS  *)
(* 0) and subscribe once, in main().  paho reconnects by itself.           *)
(*                                                                         *)
(* The messages of one retained topic are numbered in publishing order.    *)
(* The broker is external: what it does with a session is modelled from    *)
(* mosquitto.conf (persistence, max_queued_messages) and from MQTT.        *)
(***************************************************************************)
EXTENDS Integers, Sequences, SequencesExt

CONSTANTS
  CleanSession,  \* the broker forgets the session when the connection ends
  Qos,           \* 0 or 1: the QoS the client subscribes with
  InOnConnect,   \* the client subscribes on every connect, not only at start
  QueueLimit,    \* max_queued_messages
  Poison,        \* messages on_message raises on: JSON, but not as expected
  MaxPublished,  \* bound: messages published
  MaxBreaks      \* bound: broken connections, crashes and losses of the session

ASSUME ParameterAssumption ==
  /\ CleanSession \in BOOLEAN /\ InOnConnect \in BOOLEAN /\ Qos \in {0, 1}
  /\ QueueLimit \in Nat \ {0} /\ MaxPublished \in Nat /\ Poison \subseteq Nat /\ MaxBreaks \in Nat

VARIABLES
  link,        \* the client has a connection
  due,         \* the client is going to send SUBSCRIBE on this connection
  started,     \* main() has sent its SUBSCRIBE since the process started
  subscribed,  \* the broker's session has the subscription
  queue,       \* messages of the session the client has not acknowledged
  busy,        \* the message in on_message, 0 for none
  published,   \* messages published so far, the last one retained
  handled,     \* messages on_message has finished with
  passed,      \* history: messages the broker never queued for this client
  breaks

sessionVars == <<link, due, started, subscribed, queue, busy, published, handled, passed, breaks>>

\* What the broker does with a message for the session: queue it or drop it.
Queueable == subscribed /\ Len(queue) < QueueLimit
-----------------------------------------------------------------------------
\* A source publishes, with retain.
Publish ==
  /\ published < MaxPublished /\ published' = published + 1
  /\ IF Queueable
     THEN queue' = Append(queue, published') /\ UNCHANGED passed
     ELSE passed' = passed \cup {published'} /\ UNCHANGED queue
  /\ UNCHANGED <<link, due, started, subscribed, busy, handled, breaks>>

\* client.connect(), or paho's reconnect, in the thread that runs on_message;
\* on_connect is called on either.
Connect ==
  /\ ~link /\ busy = 0 /\ link' = TRUE
  /\ due' = (InOnConnect \/ ~started)
  /\ UNCHANGED <<started, subscribed, queue, busy, published, handled, passed, breaks>>

\* client.subscribe(): the broker adds the subscription and sends what is retained.
Subscribe ==
  /\ link /\ due
  /\ due' = FALSE /\ started' = TRUE /\ subscribed' = TRUE
  /\ queue' = IF published > 0 /\ Len(queue) < QueueLimit THEN Append(queue, published) ELSE queue
  /\ UNCHANGED <<link, busy, published, handled, passed, breaks>>

\* paho calls on_message.  A QoS 0 message is forgotten once sent.
Receive ==
  /\ link /\ busy = 0 /\ queue # <<>>
  /\ busy' = Head(queue)
  /\ queue' = IF Qos = 0 THEN Tail(queue) ELSE queue
  /\ UNCHANGED <<link, due, started, subscribed, published, handled, passed, breaks>>

\* Mutant: never acknowledged.
HandleUnacked ==
  /\ busy # 0 /\ busy \notin Poison
  /\ handled' = handled \cup {busy} /\ busy' = 0
  /\ UNCHANGED <<link, due, started, subscribed, queue, published, passed, breaks>>

\* on_message returns; paho then acknowledges a QoS 1 message, in vain if the
\* connection is gone.
Handle ==
  /\ busy # 0 /\ busy \notin Poison
  /\ handled' = handled \cup {busy} /\ busy' = 0
  /\ queue' = IF Qos = 1 /\ link THEN Tail(queue) ELSE queue
  /\ UNCHANGED <<link, due, started, subscribed, published, passed, breaks>>

Forgotten == subscribed' = FALSE /\ queue' = <<>> /\ passed' = passed \cup ToSet(queue)

\* The end of a connection, and of the session if it is a clean one.
Disconnected ==
  /\ link' = FALSE /\ due' = FALSE
  /\ IF CleanSession THEN Forgotten ELSE UNCHANGED <<subscribed, queue, passed>>

Break == breaks < MaxBreaks /\ breaks' = breaks + 1

LinkBreaks ==
  /\ Break /\ link /\ Disconnected
  /\ UNCHANGED <<started, busy, published, handled>>

\* The process dies and Docker restarts it.
Restarted == Disconnected /\ started' = FALSE /\ busy' = 0 /\ UNCHANGED <<published, handled>>

Crash == Break /\ Restarted

\* Mutant: acknowledged although on_message raises.
RaiseAcked ==
  /\ busy \in Poison
  /\ queue' = (IF link THEN Tail(queue) ELSE queue)
  /\ link' = FALSE /\ due' = FALSE /\ started' = FALSE /\ busy' = 0
  /\ UNCHANGED <<subscribed, published, handled, passed, breaks>>

\* on_message raises: paho passes the exception on, loop_forever ends and with
\* it the process; nothing has been acknowledged.
Raise == busy \in Poison /\ Restarted /\ UNCHANGED breaks

\* The broker comes back without the session (killed between two saves).
BrokerForgets ==
  /\ Break /\ link' = FALSE /\ due' = FALSE /\ Forgotten
  /\ UNCHANGED <<started, busy, published, handled>>
-----------------------------------------------------------------------------
SessionInit ==
  /\ link = FALSE /\ due = FALSE /\ started = FALSE /\ subscribed = FALSE
  /\ queue = <<>> /\ busy = 0 /\ published = 0
  /\ handled = {} /\ passed = {} /\ breaks = 0

ClientStep == Connect \/ Subscribe \/ Receive \/ Handle \/ Raise

SessionNext == Publish \/ ClientStep \/ LinkBreaks \/ Crash \/ BrokerForgets

SessionSpec == SessionInit /\ [][SessionNext]_sessionVars

\* paho's loop keeps running: it reconnects, reads and calls back, and Docker
\* restarts what has died.
SessionFairSpec ==
  /\ SessionSpec
  /\ WF_sessionVars(Connect) /\ WF_sessionVars(Subscribe) /\ WF_sessionVars(Receive) /\ WF_sessionVars(Handle) /\ WF_sessionVars(Raise)
-----------------------------------------------------------------------------
\* The shape of every variable.
SessionTypeOK ==
  /\ link \in BOOLEAN /\ due \in BOOLEAN /\ started \in BOOLEAN /\ subscribed \in BOOLEAN
  /\ queue \in Seq(1 .. MaxPublished) /\ Len(queue) <= QueueLimit
  /\ busy \in 0 .. MaxPublished /\ published \in 0 .. MaxPublished
  /\ handled \subseteq 1 .. MaxPublished /\ passed \subseteq 1 .. MaxPublished
  /\ breaks \in 0 .. MaxBreaks

\* multi-site.mdx:121: with a session that stays, every message the broker took
\* for the client is dealt with or still kept by the broker, through broken
\* connections and crashes in the middle of on_message.
NothingLost == \A m \in 1 .. published : m \in handled \/ m \in passed \/ m \in ToSet(queue)

\* What the broker keeps for the client is dealt with in the end, whatever breaks
\* in between, up to the first message on_message raises on.
EventuallyHandled ==
  \A m \in 1 .. MaxPublished :
    (\A q \in Poison : m < q) => (m \in ToSet(queue) ~> m \in handled \cup passed)

\* mqtt_listener.py:31, subscribing on every connect "is what actually restores
\* delivery"; multi-site.mdx:126, the daemons with ephemeral sessions "evaluate
\* live telemetry": a client whose connection holds is subscribed.
Resubscribed == <>[]link => <>[]subscribed
=============================================================================
