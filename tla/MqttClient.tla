----------------------------- MODULE MqttClient -----------------------------
(***************************************************************************)
(* broker.py around paho: publish() in the threads that drain, start() and *)
(* stop() in the main thread, and the callbacks in paho's network thread.  *)
(* paho keeps a QoS 1 message until its PUBACK and sends what it keeps     *)
(* again, in order, on every new connection.  The network between them     *)
(* loses whatever is under way when a connection ends.                     *)
(***************************************************************************)
EXTENDS Naturals, Sequences, FiniteSets

CONSTANTS
    Sender,          \* the threads that publish
    MaxMessages,     \* bound of the model: messages handed to paho
    MaxConnections   \* bound of the model: connections attempted

ASSUME MqttBoundsAssumption == {MaxMessages, MaxConnections} \subseteq Nat

VARIABLES
    started,     \* self._started
    event,       \* self._connected is set
    looping,     \* paho's network thread runs
    state,       \* paho's state; is_connected() is state = "connected"
    callbacks,   \* callbacks the network thread has still to run
    pc,          \* where each sender is in publish()
    mine,        \* the message of a sender, 0 before paho has it
    answer,      \* what publish() returned last
    handed,      \* messages paho was given; the next one is handed + 1
    unacked,     \* what paho keeps, oldest first
    current,     \* how many of these the broker has got on this connection
    got,         \* history: messages the broker has received
    connection,  \* the number of the connection
    stamped      \* history: the connection on which sentAt was stamped

control == <<started, looping>>
calls == <<pc, mine, answer>>
broker == <<current, got>>
messages == <<handed, unacked, stamped>>
vars == <<control, event, state, callbacks, calls, messages, broker, connection>>

Init ==
    /\ started = FALSE
    /\ event = FALSE
    /\ looping = FALSE
    /\ state = "new"
    /\ callbacks = <<>>
    /\ pc = [s \in Sender |-> "idle"]
    /\ mine = [s \in Sender |-> 0]
    /\ answer = [s \in Sender |-> FALSE]
    /\ handed = 0
    /\ unacked = <<>>
    /\ current = 0
    /\ got = {}
    /\ connection = 0
    /\ stamped = [m \in 1..MaxMessages |-> 0]

Acknowledged(m) == \A k \in 1..Len(unacked) : unacked[k] # m

-----------------------------------------------------------------------------
(* publish(), in the thread of a sender.                                   *)

Return(s, value) ==
    /\ pc' = [pc EXCEPT ![s] = "idle"]
    /\ mine' = [mine EXCEPT ![s] = 0]
    /\ answer' = [answer EXCEPT ![s] = value]

\* is_connected() asks the event first and paho after that.
CheckEvent(s) ==
    /\ pc[s] = "idle"
    /\ handed < MaxMessages
    /\ IF event
       THEN pc' = [pc EXCEPT ![s] = "checking"] /\ UNCHANGED <<mine, answer>>
       ELSE Return(s, FALSE)
    /\ UNCHANGED <<control, event, state, callbacks, messages, broker, connection>>

CheckState(s) ==
    /\ pc[s] = "checking"
    /\ IF state = "connected"
       THEN pc' = [pc EXCEPT ![s] = "connected"] /\ UNCHANGED <<mine, answer>>
       ELSE Return(s, FALSE)
    /\ UNCHANGED <<control, event, state, callbacks, messages, broker, connection>>

\* Broken variant: two messages go under one number.
HandOverUncounted(s) ==
    /\ pc[s] = "connected"
    /\ handed < MaxMessages
    /\ unacked' = Append(unacked, handed + 1)
    /\ stamped' = [stamped EXCEPT ![handed + 1] = connection]
    /\ mine' = [mine EXCEPT ![s] = handed + 1]
    /\ pc' = [pc EXCEPT ![s] = IF state = "connected" THEN "waiting" ELSE "refused"]
    /\ UNCHANGED <<control, event, state, callbacks, answer, handed, broker,
                   connection>>

\* Broken variant: with qos=0 a message that finds no connection is dropped.
HandOverQos0(s) ==
    /\ pc[s] = "connected"
    /\ handed < MaxMessages
    /\ handed' = handed + 1
    /\ unacked' = IF state = "connected" THEN Append(unacked, handed + 1)
                  ELSE unacked
    /\ stamped' = [stamped EXCEPT ![handed + 1] = connection]
    /\ mine' = [mine EXCEPT ![s] = handed + 1]
    /\ pc' = [pc EXCEPT ![s] = IF state = "connected" THEN "waiting" ELSE "refused"]
    /\ UNCHANGED <<control, event, state, callbacks, answer, broker, connection>>

\* paho.publish() takes the message.  The connection may have ended since it
\* was checked: then rc tells so and publish() returns False, and the message
\* stays with paho all the same.
HandOver(s) ==
    /\ pc[s] = "connected"
    /\ handed < MaxMessages
    /\ handed' = handed + 1
    /\ unacked' = Append(unacked, handed + 1)
    /\ stamped' = [stamped EXCEPT ![handed + 1] = connection]
    /\ mine' = [mine EXCEPT ![s] = handed + 1]
    /\ pc' = [pc EXCEPT ![s] = IF state = "connected" THEN "waiting" ELSE "refused"]
    /\ UNCHANGED <<control, event, state, callbacks, answer, broker, connection>>

Refused(s) ==
    /\ pc[s] = "refused"
    /\ Return(s, FALSE)
    /\ UNCHANGED <<control, event, state, callbacks, messages, broker, connection>>

\* Broken variant: a wait that only the acknowledgement ends.
WakeOnAckOnly(s) ==
    /\ pc[s] = "waiting"
    /\ Acknowledged(mine[s])
    /\ pc' = [pc EXCEPT ![s] = "asking"]
    /\ UNCHANGED <<control, event, state, callbacks, mine, answer, messages,
                   broker, connection>>

\* wait_for_publish ends, with the acknowledgement or with its timeout.
Wake(s) ==
    /\ pc[s] = "waiting"
    /\ pc' = [pc EXCEPT ![s] = "asking"]
    /\ UNCHANGED <<control, event, state, callbacks, mine, answer, messages,
                   broker, connection>>

\* Broken variant: the end of the wait is taken for the acknowledgement.
AskNothing(s) ==
    /\ pc[s] = "asking"
    /\ Return(s, TRUE)
    /\ UNCHANGED <<control, event, state, callbacks, messages, broker, connection>>

\* is_published() decides: a PUBACK that came after the timeout still counts.
Ask(s) ==
    /\ pc[s] = "asking"
    /\ Return(s, Acknowledged(mine[s]))
    /\ UNCHANGED <<control, event, state, callbacks, messages, broker, connection>>

-----------------------------------------------------------------------------
(* The main thread.                                                        *)

\* start() a second time does nothing.
Start ==
    /\ ~started
    /\ ~looping
    /\ started' = TRUE
    /\ looping' = TRUE
    /\ state' = "connecting"
    /\ UNCHANGED <<event, callbacks, calls, messages, broker, connection>>

\* stop(): disconnect(), which takes effect at once ...
Disconnect ==
    /\ started
    /\ started' = FALSE
    /\ state' = "disconnecting"
    /\ current' = 0
    /\ callbacks' = IF state = "connected"
                    THEN Append(callbacks, "disconnected") ELSE callbacks
    /\ UNCHANGED <<event, looping, calls, messages, got, connection>>

\* ... then loop_stop(), which joins the network thread, and clear().
LoopStop ==
    /\ ~started
    /\ looping
    /\ callbacks = <<>>
    /\ looping' = FALSE
    /\ event' = FALSE
    /\ UNCHANGED <<started, state, callbacks, calls, messages, broker, connection>>

-----------------------------------------------------------------------------
(* The network thread.                                                     *)

\* CONNACK: what paho keeps is sent again from its beginning.
Connect ==
    /\ looping
    /\ callbacks = <<>>
    /\ state = "connecting"
    /\ connection < MaxConnections
    /\ connection' = connection + 1
    /\ state' = "connected"
    /\ current' = 0
    /\ callbacks' = <<"connected">>
    /\ UNCHANGED <<control, event, calls, messages, got>>

\* The broker answers with a reason code that is not 0.
ConnectRefused ==
    /\ looping
    /\ callbacks = <<>>
    /\ state = "connecting"
    /\ connection < MaxConnections
    /\ connection' = connection + 1
    /\ callbacks' = <<"refused">>
    /\ UNCHANGED <<control, event, state, calls, messages, broker>>

\* The connection ends, and with it what was under way in either direction.
Drop ==
    /\ looping
    /\ callbacks = <<>>
    /\ state = "connected"
    /\ state' = "connecting"
    /\ current' = 0
    /\ callbacks' = <<"disconnected">>
    /\ UNCHANGED <<control, event, calls, messages, got, connection>>

\* Broken variant: _on_disconnect leaves the event as it is.
CallbackOnlySets ==
    /\ callbacks # <<>>
    /\ event' = (event \/ Head(callbacks) = "connected")
    /\ callbacks' = Tail(callbacks)
    /\ UNCHANGED <<control, state, calls, messages, broker, connection>>

\* _on_connect sets the event or, refused, clears it; _on_disconnect clears it.
Callback ==
    /\ callbacks # <<>>
    /\ event' = (Head(callbacks) = "connected")
    /\ callbacks' = Tail(callbacks)
    /\ UNCHANGED <<control, state, calls, messages, broker, connection>>

\* The next message arrives, for the first time or once more.
BrokerReceives ==
    /\ state = "connected"
    /\ current < Len(unacked)
    /\ got' = got \cup {unacked[current + 1]}
    /\ current' = current + 1
    /\ UNCHANGED <<control, event, state, callbacks, calls, messages, connection>>

\* PUBACK of the oldest.
Acknowledge ==
    /\ looping
    /\ callbacks = <<>>
    /\ state = "connected"
    /\ current > 0
    /\ unacked' = Tail(unacked)
    /\ current' = current - 1
    /\ UNCHANGED <<control, event, state, callbacks, calls, handed, stamped,
                   got, connection>>

-----------------------------------------------------------------------------
Publish(s) ==
    \/ CheckEvent(s)
    \/ CheckState(s)
    \/ HandOver(s)
    \/ Refused(s)
    \/ Wake(s)
    \/ Ask(s)

Network ==
    \/ Connect
    \/ ConnectRefused
    \/ Drop
    \/ Callback
    \/ BrokerReceives
    \/ Acknowledge

Next ==
    \/ \E s \in Sender : Publish(s)
    \/ Start
    \/ Disconnect
    \/ LoopStop
    \/ Network

Spec == Init /\ [][Next]_vars

\* Threads are scheduled, and waits end with their timeout.  Neither the
\* broker nor the network owes anything.
FairSpec ==
    /\ Spec
    /\ \A s \in Sender :
          WF_vars(\/ CheckState(s) \/ HandOver(s) \/ Refused(s) \/ Wake(s)
                  \/ Ask(s))
    /\ WF_vars(Callback)
    /\ WF_vars(LoopStop)

-----------------------------------------------------------------------------
TypeOK ==
    /\ started \in BOOLEAN
    /\ event \in BOOLEAN
    /\ looping \in BOOLEAN
    /\ state \in {"new", "connecting", "connected", "disconnecting"}
    /\ callbacks \in Seq({"connected", "refused", "disconnected"})
    /\ pc \in [Sender -> {"idle", "checking", "connected", "refused", "waiting",
                       "asking"}]
    /\ mine \in [Sender -> 0..handed]
    /\ answer \in [Sender -> BOOLEAN]
    /\ handed \in 0..MaxMessages
    /\ unacked \in Seq(1..handed)
    /\ current \in 0..Len(unacked)
    /\ got \subseteq 1..handed
    /\ connection \in 0..MaxConnections
    /\ stamped \in [1..MaxMessages -> 0..MaxConnections]

\* Messages reach the broker for the first time in the order in which they
\* were handed over, however connections end and whoever still waits.
FirstArrivalsInOrder == \A m \in got : 1..m \subseteq got

\* Between callbacks is_connected() is what paho says: no callback that is
\* late, or that runs beside stop(), leaves the event wrong for good.  A
\* client that took itself for offline would never send anything again.
EventTracksState ==
    callbacks = <<>> => (event <=> state = "connected")

\* publish() ends although the broker never answers, the connection never
\* comes back, or stop() was called under it.
PublishReturns == \A s \in Sender : mine[s] # 0 ~> mine[s] = 0

\* wire.py:82 says of sentAt: "Applied at publish rather than at enqueue so
\* the value is honest about when the message reached the broker".
SentAtIsHonest ==
    [][\A m \in got' \ got : stamped[m] = connection']_vars

\* What paho keeps begins with what the broker has.
Received == Cardinality({k \in 1..Len(unacked) : unacked[k] \in got})

Contract == INSTANCE BrokerContract WITH
                Message   <- 1..MaxMessages,
                NoMessage <- 0,
                sending   <- mine,
                kept      <- [k \in 1..(Len(unacked) - Received) |->
                                 unacked[Received + k]]

\* broker.py:9: publish() "returns True only once the broker has
\* acknowledged the message, never merely because it was handed to the
\* network", also if the timeout and the acknowledgement race.  And with all
\* that is lost and sent again, the client is a queue: what it was given
\* arrives, the oldest next, and nothing is left out.
ContractSpec == Contract!CSpec

=============================================================================
