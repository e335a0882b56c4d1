-------------------------- MODULE MqttClientProofs --------------------------
(***************************************************************************)
(* The MQTT client for any number of senders, messages and connections:    *)
(* the order of first arrivals, the truth of the connected flag, and that  *)
(* broker.py keeps the contract of BrokerClient.                           *)
(***************************************************************************)
EXTENDS MqttClient, SequenceTheorems, FiniteSetTheorems, TLAPS

LEMMA BoundsAreNaturals == MaxMessages \in Nat /\ MaxConnections \in Nat
  BY MqttBoundsAssumption

USE BoundsAreNaturals

-----------------------------------------------------------------------------
(* The invariant.                                                          *)

\* A sender has a message from the hand-over to the answer.
CallsInv ==
    \A s \in Sender :
        pc[s] \in {"refused", "waiting", "asking"} <=> mine[s] # 0

\* How many messages paho was given and keeps no longer.
Settled == handed - Len(unacked)

\* paho keeps the newest messages, without a gap and in order, and the broker
\* has everything before them and the first of them.
PendingInv ==
    /\ Settled >= 0
    /\ \A k \in 1..Len(unacked) : unacked[k] = Settled + k
    /\ 1..(Settled + current) \subseteq got

\* Where paho can be, given what the main thread has done.
StateInv ==
    /\ started => looping
    /\ ~started => state \in {"new", "disconnecting"}

\* The callback that runs last tells the truth, and without one the event does.
LastTellsState ==
    /\ callbacks = <<>> => (event <=> state = "connected")
    /\ callbacks # <<>> =>
          (callbacks[Len(callbacks)] = "connected" <=> state = "connected")

ClientInv ==
    TypeOK /\ CallsInv /\ PendingInv /\ FirstArrivalsInOrder /\ StateInv
    /\ LastTellsState

-----------------------------------------------------------------------------
(* The sequences.                                                          *)

LEMMA Appended ==
    ASSUME NEW S, NEW q \in Seq(S), NEW e \in S
    PROVE  /\ Append(q, e) \in Seq(S)
           /\ Append(q, e) # <<>>
           /\ Len(Append(q, e)) = Len(q) + 1
           /\ Len(q) \in Nat
           /\ \A k \in 1..Len(q) : Append(q, e)[k] = q[k]
           /\ Append(q, e)[Len(q) + 1] = e
  OBVIOUS

LEMMA Shortened ==
    ASSUME NEW S, NEW q \in Seq(S), q # <<>>
    PROVE  /\ Head(q) = q[1] /\ Head(q) \in S
           /\ Tail(q) \in Seq(S)
           /\ Len(q) \in Nat \ {0} /\ Len(Tail(q)) = Len(q) - 1
           /\ \A k \in 1..(Len(q) - 1) : Tail(q)[k] = q[k + 1]
<1>1. /\ Head(q) \in S /\ Tail(q) \in Seq(S)
      /\ Len(Tail(q)) = Len(q) - 1
      /\ \A k \in 1..Len(Tail(q)) : Tail(q)[k] = q[k + 1]
  BY HeadTailProperties
<1>2. Len(q) \in Nat \ {0}
  BY EmptySeq
<1>3. Head(q) = q[1]
  OBVIOUS
<1>4. QED
  BY <1>1, <1>2, <1>3

LEMMA EmptyHasLengthZero ==
    ASSUME NEW S, NEW q \in Seq(S)
    PROVE  q = <<>> <=> Len(q) = 0
  BY EmptySeq

-----------------------------------------------------------------------------
(* Messages.                                                               *)

\* HandOver, Acknowledge and BrokerReceives are all that touches messages.
LEMMA MessageSteps ==
    ASSUME [Next]_vars
    PROVE  \/ \E s \in Sender : HandOver(s)
           \/ Acknowledge
           \/ BrokerReceives
           \/ /\ UNCHANGED <<messages, got>>
              /\ current' = current \/ current' = 0
  BY DEF Next, Publish, CheckEvent, CheckState, Refused, Wake, Ask, Start,
         Disconnect, LoopStop, Network, Connect, ConnectRefused, Drop, Callback,
         vars, messages, broker

LEMMA PendingStep ==
    ASSUME TypeOK, PendingInv, FirstArrivalsInOrder, [Next]_vars
    PROVE  PendingInv' /\ FirstArrivalsInOrder'
<1>1. /\ unacked \in Seq(1..handed) /\ Len(unacked) \in Nat
      /\ handed \in Nat /\ current \in 0..Len(unacked)
      /\ got \subseteq 1..handed
  BY LenProperties DEF TypeOK
<1>2. ASSUME NEW s \in Sender, HandOver(s)
      PROVE  PendingInv' /\ FirstArrivalsInOrder'
  <2>1. /\ handed' = handed + 1
        /\ unacked' = Append(unacked, handed + 1)
        /\ UNCHANGED <<current, got>>
    BY <1>2 DEF HandOver, broker
  <2>2. unacked \in Seq(1..(handed + 1)) /\ handed + 1 \in 1..(handed + 1)
    <3>1. 1..handed \subseteq 1..(handed + 1)
      BY <1>1
    <3>2. QED
      BY <1>1, <3>1, SeqMonotonic
  <2>3. /\ Len(unacked') = Len(unacked) + 1
        /\ \A k \in 1..Len(unacked) : unacked'[k] = unacked[k]
        /\ unacked'[Len(unacked) + 1] = handed + 1
    BY <2>1, <2>2, Appended
  <2>4. handed' - Len(unacked') = handed - Len(unacked)
    BY <1>1, <2>1, <2>3
  <2>5. \A k \in 1..Len(unacked') : unacked'[k] = handed' - Len(unacked') + k
    <3>1. SUFFICES ASSUME NEW k \in 1..(Len(unacked) + 1)
                   PROVE  unacked'[k] = handed - Len(unacked) + k
      BY <2>3, <2>4
    <3>2. CASE k \in 1..Len(unacked)
      BY <2>3, <3>2 DEF PendingInv, Settled
    <3>3. CASE k = Len(unacked) + 1
      BY <1>1, <2>3, <3>3
    <3>4. QED
      BY <1>1, <3>2, <3>3
  <2>6. QED
    BY <2>1, <2>4, <2>5 DEF PendingInv, Settled, FirstArrivalsInOrder
<1>3. CASE Acknowledge
  <2>1. /\ UNCHANGED <<handed, got>>
        /\ current > 0 /\ current' = current - 1
        /\ unacked' = Tail(unacked)
    BY <1>3 DEF Acknowledge
  <2>2. unacked # <<>>
    BY <1>1, <2>1
  <2>3. /\ Len(unacked') = Len(unacked) - 1
        /\ \A k \in 1..(Len(unacked) - 1) : unacked'[k] = unacked[k + 1]
    BY <1>1, <2>1, <2>2, Shortened
  <2>4. \A k \in 1..Len(unacked') : unacked'[k] = handed' - Len(unacked') + k
    <3>1. SUFFICES ASSUME NEW k \in 1..(Len(unacked) - 1)
                   PROVE  unacked'[k] = handed - (Len(unacked) - 1) + k
      BY <2>1, <2>3
    <3>2. k + 1 \in 1..Len(unacked)
      BY <1>1
    <3>3. unacked[k + 1] = handed - Len(unacked) + (k + 1)
      BY <3>2 DEF PendingInv, Settled
    <3>4. QED
      BY <1>1, <2>3, <3>3
  <2>5. /\ handed' - Len(unacked') + current' = handed - Len(unacked) + current
        /\ handed' - Len(unacked') >= 0
    <3>1. handed - Len(unacked) >= 0
      BY DEF PendingInv, Settled
    <3>2. /\ handed' = handed /\ current' = current - 1
          /\ Len(unacked') = Len(unacked) - 1
      BY <2>1, <2>3
    <3>3. current \in Nat
      BY <1>1
    <3>4. QED
      BY <1>1, <3>1, <3>2, <3>3
  <2>6. 1..(handed' - Len(unacked') + current') \subseteq got'
    BY <2>1, <2>5 DEF PendingInv, Settled
  <2>7. PendingInv'
    BY <2>4, <2>5, <2>6 DEF PendingInv, Settled
  <2>8. QED
    BY <2>1, <2>7 DEF FirstArrivalsInOrder
<1>4. CASE BrokerReceives
  <2>1. /\ UNCHANGED <<handed, unacked>>
        /\ current < Len(unacked) /\ current' = current + 1
        /\ got' = got \cup {unacked[current + 1]}
    BY <1>4 DEF BrokerReceives, messages
  <2>2. current + 1 \in 1..Len(unacked)
    BY <1>1, <2>1
  <2>3. unacked[current + 1] = Settled + current + 1 /\ Settled + current \in Nat
    BY <1>1, <2>2 DEF PendingInv, Settled
  <2> DEFINE upto == Settled + current
  <2>4. 1..upto \subseteq got /\ got' = got \cup {upto + 1}
    BY <2>1, <2>3 DEF PendingInv
  <2>5. upto \in Nat
    BY <2>3
  <2>6. Settled' = Settled /\ Settled' + current' = upto + 1
    BY <1>1, <2>1, <2>5 DEF Settled
  <2> HIDE DEF upto
  <2>7. 1..(upto + 1) \subseteq got'
    BY <2>4, <2>5
  <2>8. FirstArrivalsInOrder'
    BY <2>4, <2>7 DEF FirstArrivalsInOrder
  <2>9. QED
    BY <2>1, <2>6, <2>7, <2>8 DEF PendingInv
<1>5. CASE UNCHANGED <<messages, got>> /\ (current' = current \/ current' = 0)
  <2>1. UNCHANGED <<handed, unacked, got>>
    BY <1>5 DEF messages
  <2>2. handed' - Len(unacked') + current' <= handed - Len(unacked) + current
        /\ handed' - Len(unacked') + current' \in Int
        /\ handed - Len(unacked) + current \in Int
    BY <1>1, <1>5, <2>1
  <2>3. QED
    BY <2>1, <2>2 DEF PendingInv, Settled, FirstArrivalsInOrder
<1>6. QED
  BY <1>2, <1>3, <1>4, <1>5, MessageSteps

-----------------------------------------------------------------------------
(* The other parts.                                                        *)

LEMMA CallsStep ==
    ASSUME TypeOK, CallsInv, [Next]_vars
    PROVE  CallsInv'
<1>1. CASE UNCHANGED <<pc, mine>>
  BY <1>1 DEF CallsInv
<1>2. ASSUME NEW s \in Sender, Publish(s)
      PROVE  CallsInv'
  <2>1. /\ pc \in [Sender -> {"idle", "checking", "connected", "refused",
                              "waiting", "asking"}]
        /\ mine \in [Sender -> 0..handed] /\ handed \in Nat
    BY DEF TypeOK
  <2>2. SUFFICES /\ pc'[s] \in {"refused", "waiting", "asking"} <=> mine'[s] # 0
                 /\ \A r \in Sender \ {s} : pc'[r] = pc[r] /\ mine'[r] = mine[r]
    BY DEF CallsInv
  <2>3. pc[s] \in {"refused", "waiting", "asking"} <=> mine[s] # 0
    BY DEF CallsInv
  <2>4. CASE \E value : Return(s, value)
    BY <2>1, <2>4 DEF Return
  <2>5. CASE CheckEvent(s) \/ CheckState(s)
    BY <2>1, <2>3, <2>4, <2>5 DEF CheckEvent, CheckState
  <2>6. CASE HandOver(s)
    BY <2>1, <2>6 DEF HandOver
  <2>7. CASE Refused(s) \/ Ask(s)
    BY <2>4, <2>7 DEF Refused, Ask
  <2>8. CASE Wake(s)
    BY <2>1, <2>3, <2>8 DEF Wake
  <2>9. QED
    BY <1>2, <2>5, <2>6, <2>7, <2>8 DEF Publish
<1>3. QED
  BY <1>1, <1>2 DEF Next, Start, Disconnect, LoopStop, Network, Connect,
     ConnectRefused, Drop, Callback, BrokerReceives, Acknowledge, vars, calls

\* The main thread starts and stops; the network thread only moves between
\* "connecting" and "connected", and only while it runs for a started client.
LEMMA StateStep ==
    ASSUME TypeOK, StateInv, [Next]_vars
    PROVE  StateInv'
<1>1. CASE UNCHANGED <<started, looping, state>>
  BY <1>1 DEF StateInv
<1>2. CASE Start \/ Disconnect \/ LoopStop
  BY <1>2 DEF Start, Disconnect, LoopStop, StateInv
<1>3. CASE Connect \/ Drop
  BY <1>3 DEF Connect, Drop, StateInv, control
<1>4. ASSUME NEW s \in Sender, Publish(s)
      PROVE  UNCHANGED <<started, looping, state>>
  BY <1>4 DEF Publish, CheckEvent, CheckState, HandOver, Refused, Wake, Ask, control
<1>5. QED
  BY <1>1, <1>2, <1>3, <1>4 DEF Next, Network, ConnectRefused, Callback,
     BrokerReceives, Acknowledge, vars, control

LEMMA LastTellsStep ==
    ASSUME TypeOK, StateInv, LastTellsState, [Next]_vars
    PROVE  LastTellsState'
<1>1. /\ callbacks \in Seq({"connected", "refused", "disconnected"})
      /\ event \in BOOLEAN
  BY DEF TypeOK
<1>2. CASE UNCHANGED <<event, state, callbacks>>
  BY <1>2 DEF LastTellsState
<1>3. CASE Start
  <2>1. state \in {"new", "disconnecting"} /\ UNCHANGED <<event, callbacks>>
        /\ state' = "connecting"
    BY <1>3 DEF Start, StateInv
  <2>2. QED
    BY <2>1 DEF LastTellsState
<1>4. CASE Disconnect
  <2>1. CASE state = "connected"
    <3>1. callbacks' = Append(callbacks, "disconnected")
          /\ state' = "disconnecting"
      BY <1>4, <2>1 DEF Disconnect
    <3>2. "disconnected" \in {"connected", "refused", "disconnected"}
      OBVIOUS
    <3>3. callbacks' # <<>> /\ callbacks'[Len(callbacks')] = "disconnected"
      BY <1>1, <3>1, <3>2, Appended
    <3>4. QED
      BY <3>1, <3>3 DEF LastTellsState
  <2>2. CASE state # "connected"
    BY <1>4, <2>2 DEF Disconnect, LastTellsState
  <2>3. QED
    BY <2>1, <2>2
<1>5. CASE LoopStop
  BY <1>5 DEF LoopStop, LastTellsState, StateInv
<1>6. CASE Connect \/ ConnectRefused \/ Drop
  <2>1. \E c \in {"connected", "refused", "disconnected"} :
           /\ callbacks' = <<c>>
           /\ c = "connected" <=> state' = "connected"
    BY <1>6 DEF Connect, ConnectRefused, Drop
  <2>2. PICK c : callbacks' = <<c>> /\ (c = "connected" <=> state' = "connected")
    BY <2>1
  <2>3. callbacks' # <<>> /\ callbacks'[Len(callbacks')] = c
    BY <2>2
  <2>4. QED
    BY <2>2, <2>3 DEF LastTellsState
<1>7. CASE Callback
  <2>1. /\ callbacks # <<>>
        /\ event' = (Head(callbacks) = "connected")
        /\ callbacks' = Tail(callbacks)
        /\ state' = state
    BY <1>7 DEF Callback
  <2>2. callbacks[Len(callbacks)] = "connected" <=> state = "connected"
    BY <2>1 DEF LastTellsState
  <2>3. /\ Head(callbacks) = callbacks[1]
        /\ Tail(callbacks) \in Seq({"connected", "refused", "disconnected"})
        /\ Len(callbacks) \in Nat \ {0}
        /\ Len(Tail(callbacks)) = Len(callbacks) - 1
        /\ \A k \in 1..(Len(callbacks) - 1) : Tail(callbacks)[k] = callbacks[k + 1]
    BY <1>1, <2>1, Shortened
  <2>4. CASE Len(callbacks) = 1
    <3>0. Len(Tail(callbacks)) = 0
      BY <2>3, <2>4
    <3>1. Tail(callbacks) = <<>>
      BY <2>3, <3>0, EmptyHasLengthZero, Zenon
    <3>2. event' <=> state' = "connected"
      BY <2>1, <2>2, <2>3, <2>4
    <3>3. QED
      BY <2>1, <3>1, <3>2 DEF LastTellsState
  <2>5. CASE Len(callbacks) # 1
    <3>0. Len(callbacks') # 0
      BY <2>1, <2>3, <2>5
    <3>1. callbacks' # <<>>
      BY <2>1, <2>3, <3>0, EmptyHasLengthZero, Zenon
    <3>2. callbacks'[Len(callbacks')] = callbacks[Len(callbacks)]
      <4>1. Len(callbacks) - 1 \in 1..(Len(callbacks) - 1)
            /\ (Len(callbacks) - 1) + 1 = Len(callbacks)
        BY <2>3, <2>5
      <4>2. QED
        BY <2>1, <2>3, <4>1
    <3>3. QED
      BY <2>1, <2>2, <3>1, <3>2 DEF LastTellsState
  <2>6. QED
    BY <2>4, <2>5
<1>8. ASSUME NEW s \in Sender, Publish(s)
      PROVE  UNCHANGED <<event, state, callbacks>>
  BY <1>8 DEF Publish, CheckEvent, CheckState, HandOver, Refused, Wake, Ask
<1>9. QED
  BY <1>2, <1>3, <1>4, <1>5, <1>6, <1>7, <1>8 DEF Next, Network,
     BrokerReceives, Acknowledge, vars

-----------------------------------------------------------------------------
(* The types.  CheckEvent leaves room for a message at the time of the      *)
(* check, and HandOver asks again.                                          *)

LEMMA TypesStep ==
    ASSUME ClientInv, [Next]_vars
    PROVE  TypeOK'
<1>1. /\ TypeOK
      /\ unacked \in Seq(1..handed) /\ Len(unacked) \in Nat
      /\ handed \in Nat /\ current \in 0..Len(unacked)
      /\ callbacks \in Seq({"connected", "refused", "disconnected"})
  BY LenProperties DEF TypeOK, ClientInv
<1>2. ASSUME NEW s \in Sender, Publish(s)
      PROVE  TypeOK'
  <2>1. CASE \E value \in BOOLEAN : Return(s, value)
             /\ UNCHANGED <<control, event, state, callbacks, messages, broker,
                            connection>>
    BY <1>1, <2>1 DEF Return, TypeOK, control, messages, broker
  <2>2. CASE CheckEvent(s) \/ CheckState(s) \/ Wake(s)
    BY <1>1, <2>1, <2>2
       DEF CheckEvent, CheckState, Wake, TypeOK, control, messages, broker
  <2>3. CASE Refused(s) \/ Ask(s)
    BY <2>1, <2>3 DEF Refused, Ask, Acknowledged
  <2>4. CASE HandOver(s)
    <3>1. /\ handed < MaxMessages /\ handed' = handed + 1
          /\ unacked' = Append(unacked, handed + 1)
          /\ stamped' = [stamped EXCEPT ![handed + 1] = connection]
          /\ mine' = [mine EXCEPT ![s] = handed + 1]
          /\ pc' = [pc EXCEPT ![s] = IF state = "connected" THEN "waiting"
                                     ELSE "refused"]
          /\ UNCHANGED <<started, looping, event, state, callbacks, answer,
                         current, got, connection>>
      BY <2>4 DEF HandOver, control, broker
    <3>2. 1..handed \subseteq 1..handed' /\ handed' \in 1..handed'
          /\ handed' \in 0..MaxMessages
      BY <1>1, <3>1 DEF TypeOK
    <3>3. unacked \in Seq(1..handed')
      BY <1>1, <3>2, SeqMonotonic
    <3>4. unacked' \in Seq(1..handed') /\ Len(unacked') = Len(unacked) + 1
      BY <3>1, <3>2, <3>3, Appended
    <3>5. mine' \in [Sender -> 0..handed'] /\ got' \subseteq 1..handed'
          /\ current' \in 0..Len(unacked')
      BY <1>1, <3>1, <3>4 DEF TypeOK
    <3>6. stamped' \in [1..MaxMessages -> 0..MaxConnections]
          /\ pc' \in [Sender -> {"idle", "checking", "connected", "refused",
                                 "waiting", "asking"}]
      BY <1>1, <3>1 DEF TypeOK
    <3>7. QED
      BY <1>1, <3>1, <3>2, <3>4, <3>5, <3>6 DEF TypeOK
  <2>5. QED
    BY <1>2, <2>2, <2>3, <2>4 DEF Publish
<1>3. CASE Start \/ LoopStop
  BY <1>1, <1>3 DEF Start, LoopStop, TypeOK, control, calls, messages, broker
<1>4. CASE Disconnect
  <2>1. callbacks' \in Seq({"connected", "refused", "disconnected"})
    <3>1. "disconnected" \in {"connected", "refused", "disconnected"}
      OBVIOUS
    <3>2. Append(callbacks, "disconnected")
             \in Seq({"connected", "refused", "disconnected"})
      BY <1>1, <3>1, Appended
    <3>3. QED
      BY <1>1, <1>4, <3>2 DEF Disconnect
  <2>2. /\ UNCHANGED <<event, looping, pc, mine, answer, handed, unacked,
                        stamped, got, connection>>
        /\ started' = FALSE /\ state' = "disconnecting" /\ current' = 0
    BY <1>4 DEF Disconnect, calls, messages
  <2>3. current' \in 0..Len(unacked')
    BY <1>1, <2>2
  <2>4. QED
    BY <1>1, <2>1, <2>2, <2>3 DEF TypeOK
<1>5. CASE Connect \/ ConnectRefused \/ Drop
  <2>1. \E c \in {"connected", "refused", "disconnected"} : callbacks' = <<c>>
    BY <1>5 DEF Connect, ConnectRefused, Drop
  <2>2. callbacks' \in Seq({"connected", "refused", "disconnected"})
    BY <2>1
  <2>3. connection' \in 0..MaxConnections
    BY <1>1, <1>5 DEF Connect, ConnectRefused, Drop, TypeOK
  <2>4. /\ UNCHANGED <<started, looping, event, pc, mine, answer, handed,
                        unacked, stamped, got>>
        /\ state' \in {"connecting", "connected"}
        /\ current' \in {0, current}
    BY <1>5 DEF Connect, ConnectRefused, Drop, control, calls, messages, broker
  <2>5. current' \in 0..Len(unacked')
    BY <1>1, <2>4
  <2>6. QED
    BY <1>1, <2>2, <2>3, <2>4, <2>5 DEF TypeOK
<1>6. CASE Callback
  <2>1. callbacks' \in Seq({"connected", "refused", "disconnected"})
    BY <1>1, <1>6, HeadTailProperties DEF Callback
  <2>2. QED
    BY <1>1, <1>6, <2>1 DEF Callback, TypeOK, control, calls, messages, broker
<1>7. CASE BrokerReceives
  <2>1. /\ current < Len(unacked) /\ current' = current + 1
        /\ got' = got \cup {unacked[current + 1]}
    BY <1>7 DEF BrokerReceives
  <2>2. unacked[current + 1] \in 1..handed
    BY <1>1, <2>1, ElementOfSeq
  <2>3. got' \subseteq 1..handed /\ current' \in 0..Len(unacked)
    <3>1. got \subseteq 1..handed
      BY <1>1 DEF TypeOK
    <3>2. got' \subseteq 1..handed
      BY <2>1, <2>2, <3>1, Zenon
    <3>3. current' \in 0..Len(unacked)
      BY <1>1, <2>1
    <3>4. QED
      BY <3>2, <3>3
  <2>4. UNCHANGED <<started, looping, event, state, callbacks, pc, mine, answer,
                    handed, unacked, stamped, connection>>
    BY <1>7 DEF BrokerReceives, control, calls, messages
  <2>5. QED
    BY <1>1, <2>3, <2>4 DEF TypeOK
<1>8. CASE Acknowledge
  <2>1. unacked # <<>> /\ unacked' = Tail(unacked) /\ current' = current - 1
        /\ handed' = handed /\ current > 0
    BY <1>1, <1>8 DEF Acknowledge
  <2>2. unacked' \in Seq(1..handed) /\ Len(unacked') = Len(unacked) - 1
    BY <1>1, <2>1, HeadTailProperties
  <2>3. current' \in 0..Len(unacked')
    BY <1>1, <2>1, <2>2
  <2>4. UNCHANGED <<started, looping, event, state, callbacks, pc, mine, answer,
                    handed, stamped, got, connection>>
    BY <1>8 DEF Acknowledge, control, calls
  <2>5. QED
    BY <1>1, <2>2, <2>3, <2>4 DEF TypeOK
<1>9. CASE UNCHANGED vars
  BY <1>1, <1>9 DEF vars, TypeOK, control, calls, messages, broker
<1>10. QED
  BY <1>2, <1>3, <1>4, <1>5, <1>6, <1>7, <1>8, <1>9 DEF Next, Network

-----------------------------------------------------------------------------
(* The specification.                                                      *)

LEMMA ClientInit ==
    ASSUME Init
    PROVE  ClientInv
<1> USE DEF Init
<1>1. Len(unacked) = 0 /\ unacked \in Seq(1..handed) /\ handed = 0
      /\ callbacks \in Seq({"connected", "refused", "disconnected"})
  BY EmptySeq
<1>2. TypeOK
  <2>1. stamped \in [1..MaxMessages -> 0..MaxConnections]
    OBVIOUS
  <2>2. current \in 0..Len(unacked) /\ mine \in [Sender -> 0..handed]
    BY <1>1
  <2>3. pc \in [Sender -> {"idle", "checking", "connected", "refused", "waiting",
                          "asking"}]
        /\ answer \in [Sender -> BOOLEAN]
    OBVIOUS
  <2>4. handed \in 0..MaxMessages /\ connection \in 0..MaxConnections
        /\ got \subseteq 1..handed
    OBVIOUS
  <2>5. /\ started \in BOOLEAN /\ event \in BOOLEAN /\ looping \in BOOLEAN
        /\ state \in {"new", "connecting", "connected", "disconnecting"}
    OBVIOUS
  <2> HIDE DEF Init
  <2>6. QED
    BY <1>1, <2>1, <2>2, <2>3, <2>4, <2>5 DEF TypeOK
<1>3. PendingInv /\ FirstArrivalsInOrder
  BY <1>1 DEF PendingInv, Settled, FirstArrivalsInOrder
<1>4. CallsInv /\ StateInv /\ LastTellsState
  BY DEF CallsInv, StateInv, LastTellsState
<1>5. QED
  BY <1>2, <1>3, <1>4 DEF ClientInv

LEMMA ClientStep ==
    ASSUME ClientInv, [Next]_vars
    PROVE  ClientInv'
  BY TypesStep, CallsStep, PendingStep, StateStep, LastTellsStep DEF ClientInv

\* The invariant holds in every state.
LEMMA ClientAlways == Spec => []ClientInv
  BY ClientInit, ClientStep, PTL DEF Spec

\* Every variable keeps its type, and the bounds hold for each message that
\* the broker or a sender speaks of.
THEOREM ClientTypeCorrect == Spec => []TypeOK
  BY ClientAlways, PTL DEF ClientInv

\* broker.py with paho below: whatever is lost and sent again, a message never
\* reaches the broker before one that was handed over earlier.
THEOREM ArrivalsInOrder == Spec => []FirstArrivalsInOrder
  BY ClientAlways, PTL DEF ClientInv

\* _on_connect, _on_disconnect and stop(): when no callback is pending,
\* is_connected() and paho agree, however many connections came and went.
THEOREM EventTellsState == Spec => []EventTracksState
<1>1. ClientInv => EventTracksState
  BY DEF ClientInv, LastTellsState, EventTracksState
<1>2. QED
  BY <1>1, ClientAlways, PTL

-----------------------------------------------------------------------------
(* The contract of BrokerClient.                                           *)

\* A queue that is one longer at its end, or one shorter at its front.
LEMMA IsAppend ==
    ASSUME NEW S, NEW n \in Nat, NEW e \in S,
           NEW f \in [1..n -> S], NEW g \in [1..(n + 1) -> S],
           \A k \in 1..n : g[k] = f[k], g[n + 1] = e
    PROVE  g = Append(f, e)
<1>1. f \in Seq(S) /\ Len(f) = n
  OBVIOUS
<1>2. g \in Seq(S) /\ Len(g) = n + 1
  OBVIOUS
<1>3. /\ Append(f, e) \in Seq(S) /\ Len(Append(f, e)) = n + 1
      /\ \A k \in 1..n : Append(f, e)[k] = f[k]
      /\ Append(f, e)[n + 1] = e
  BY <1>1, Appended
<1>4. \A k \in 1..(n + 1) : g[k] = Append(f, e)[k]
  BY <1>3
<1>5. QED
  BY <1>2, <1>3, <1>4, SeqEqual

LEMMA IsTail ==
    ASSUME NEW S, NEW n \in Nat \ {0},
           NEW f \in [1..n -> S], NEW g \in [1..(n - 1) -> S],
           \A k \in 1..(n - 1) : g[k] = f[k + 1]
    PROVE  f # <<>> /\ Head(f) = f[1] /\ g = Tail(f)
<1>1. f \in Seq(S) /\ Len(f) = n /\ f # <<>>
  OBVIOUS
<1>2. g \in Seq(S) /\ Len(g) = n - 1
  OBVIOUS
<1>3. /\ Head(f) = f[1] /\ Tail(f) \in Seq(S) /\ Len(Tail(f)) = n - 1
      /\ \A k \in 1..(n - 1) : Tail(f)[k] = f[k + 1]
  BY <1>1, Shortened
<1>4. \A k \in 1..(n - 1) : g[k] = Tail(f)[k]
  BY <1>3
<1>5. QED
  BY <1>1, <1>2, <1>3, <1>4, SeqEqual

\* The messages that arrived are the first of those that a queue keeps, if
\* the queue has the newest in order and each arrived after the ones before.
LEMMA ArrivedAreFirst ==
    ASSUME NEW h \in Nat, NEW q \in Seq(1..h), NEW arrivals \in SUBSET (1..h),
           h - Len(q) >= 0,
           \A k \in 1..Len(q) : q[k] = h - Len(q) + k,
           \A m \in arrivals : 1..m \subseteq arrivals
    PROVE  LET n == Cardinality({k \in 1..Len(q) : q[k] \in arrivals})
           IN  n \in 0..Len(q) /\ \A k \in 1..Len(q) : q[k] \in arrivals <=> k <= n
<1> DEFINE first == {k \in 1..Len(q) : q[k] \in arrivals}
           Gaps  == {m \in 0..Len(q) : m + 1 \notin first}
<1>1. Len(q) \in Nat
  BY LenProperties
<1>2. Gaps \in SUBSET Nat /\ Len(q) \in Gaps
  BY <1>1
<1>3. PICK m \in Gaps : \A j \in Gaps : m <= j
  <2>1. IsWellFoundedOn(OpToRel(<, Nat), Nat)
    BY NatLessThanWellFounded, Zenon
  <2>2. PICK m \in Gaps : \A j \in Gaps : ~ (<<j, m>> \in OpToRel(<, Nat))
    <3> HIDE DEF Gaps
    <3>1. QED
      BY <1>2, <2>1, WFMin
  <2>3. \A j \in Gaps : ~ (j < m)
    BY <1>2, <2>2 DEF OpToRel
  <2>4. QED
    BY <1>2, <2>3
<1>4. m \in 0..Len(q) /\ m + 1 \notin first
  OBVIOUS
<1>5. ASSUME NEW k \in 1..Len(q)
      PROVE  q[k] \in arrivals <=> k <= m
  <2>1. CASE k <= m
    <3>1. k - 1 \in 0..Len(q) /\ ~ (m <= k - 1)
      BY <1>1, <1>4, <2>1
    <3>2. k - 1 \notin Gaps
      <4> HIDE DEF Gaps
      <4>1. QED
        BY <1>3, <3>1
    <3>3. k - 1 + 1 \in first
      BY <3>1, <3>2
    <3>4. k \in first
      BY <3>3
    <3>5. QED
      BY <2>1, <3>4
  <2>2. CASE k > m
    <3>1. m + 1 \in 1..Len(q) /\ q[m + 1] \notin arrivals
      BY <1>1, <1>4, <2>2
    <3>2. q[m + 1] \in 1..q[k]
      BY <1>1, <2>2, <3>1
    <3>3. q[k] \notin arrivals
      BY <3>1, <3>2
    <3>4. QED
      BY <1>1, <1>4, <2>2, <3>3
  <2>3. QED
    BY <1>1, <1>4, <2>1, <2>2
<1>6. first = 1..m
  BY <1>1, <1>4, <1>5
<1>7. Cardinality(first) = m
  <2>1. m \in Nat
    BY <1>1, <1>4
  <2>2. Cardinality(1..m) = m
    BY <2>1, FS_Interval
  <2>3. QED
    BY <1>6, <2>2, Zenon
<1>8. /\ Cardinality(first) \in 0..Len(q)
      /\ \A k \in 1..Len(q) : q[k] \in arrivals <=> k <= Cardinality(first)
  <2> HIDE DEF first, Gaps
  <2>1. QED
    BY <1>4, <1>5, <1>7
<1>9. QED
  BY <1>8, Zenon

\* There is only one such number.
LEMMA OneCut ==
    ASSUME NEW n \in Nat, NEW a \in 0..n, NEW b \in 0..n,
           \A k \in 1..n : k <= a <=> k <= b
    PROVE  a = b
<1>1. CASE a < b
  <2>1. b \in 1..n
    BY <1>1
  <2>2. QED
    BY <1>1, <2>1
<1>2. CASE b < a
  <2>1. a \in 1..n
    BY <1>2
  <2>2. QED
    BY <1>2, <2>1
<1>3. QED
  BY <1>1, <1>2

LEMMA ReceivedCuts ==
    ASSUME ClientInv
    PROVE  /\ Received \in 0..Len(unacked) /\ current <= Received
           /\ \A k \in 1..Len(unacked) : unacked[k] \in got <=> k <= Received
<1>1. /\ unacked \in Seq(1..handed) /\ Len(unacked) \in Nat /\ handed \in Nat
      /\ current \in 0..Len(unacked) /\ got \in SUBSET (1..handed)
      /\ handed - Len(unacked) >= 0
      /\ \A k \in 1..Len(unacked) : unacked[k] = handed - Len(unacked) + k
      /\ \A m \in got : 1..m \subseteq got
      /\ 1..(handed - Len(unacked) + current) \subseteq got
  BY LenProperties
     DEF ClientInv, TypeOK, PendingInv, Settled, FirstArrivalsInOrder
<1>2. /\ Received \in 0..Len(unacked)
      /\ \A k \in 1..Len(unacked) : unacked[k] \in got <=> k <= Received
  BY <1>1, ArrivedAreFirst DEF Received
<1>3. current # 0 => current \in 1..Len(unacked) /\ unacked[current] \in got
  <2>1. current # 0 => current \in 1..Len(unacked)
    BY <1>1
  <2>2. current # 0 => unacked[current] = handed - Len(unacked) + current
    BY <1>1, <2>1
  <2>3. QED
    BY <1>1, <2>1, <2>2
<1>4. QED
  BY <1>1, <1>2, <1>3

LEMMA ReceivedCutsNext ==
    ASSUME ClientInv'
    PROVE  /\ Received' \in 0..Len(unacked')
           /\ \A k \in 1..Len(unacked') : unacked'[k] \in got' <=> k <= Received'
<1>1. /\ unacked' \in Seq(1..handed') /\ handed' \in Nat
      /\ got' \in SUBSET (1..handed')
      /\ handed' - Len(unacked') >= 0
      /\ \A k \in 1..Len(unacked') : unacked'[k] = handed' - Len(unacked') + k
      /\ \A m \in got' : 1..m \subseteq got'
  BY DEF ClientInv, TypeOK, PendingInv, Settled, FirstArrivalsInOrder
<1>2. QED
  BY <1>1, ArrivedAreFirst DEF Received

\* What paho keeps and the broker has not got, oldest first.
Kept == [k \in 1..(Len(unacked) - Received) |-> unacked[Received + k]]

LEMMA ContractInit ==
    ASSUME Init
    PROVE  Contract!CInit
<1>1. unacked = <<>> /\ Len(unacked) = 0 /\ got = {}
  BY DEF Init
<1>2. {k \in 1..Len(unacked) : unacked[k] \in got} = {}
  BY <1>1
<1>3. Received = 0
  BY <1>2, FS_EmptySet, Zenon DEF Received
<1>4. Kept = <<>>
  BY <1>1, <1>3 DEF Kept
<1>5. QED
  BY <1>4 DEF Init, Contract!CInit, Kept

\* What is acknowledged was received: paho drops a message only from the
\* front, and only after the broker got it.
LEMMA AcknowledgedIsGot ==
    ASSUME ClientInv, NEW m \in 1..handed, Acknowledged(m)
    PROVE  m \in got
<1>1. /\ Len(unacked) \in Nat /\ handed \in Nat /\ current \in Nat
      /\ handed - Len(unacked) >= 0
  BY LenProperties DEF ClientInv, TypeOK, PendingInv, Settled
<1>2. CASE m > handed - Len(unacked)
  <2> DEFINE k == m - (handed - Len(unacked))
  <2>1. k \in 1..Len(unacked) /\ m = handed - Len(unacked) + k
    BY <1>1, <1>2
  <2>2. unacked[k] = handed - Len(unacked) + k
    BY <2>1 DEF ClientInv, PendingInv, Settled
  <2> HIDE DEF k
  <2>3. QED
    BY <2>1, <2>2 DEF Acknowledged
<1>3. CASE m <= handed - Len(unacked)
  <2>1. m \in 1..(handed - Len(unacked) + current)
    BY <1>1, <1>3
  <2>2. QED
    BY <2>1 DEF ClientInv, PendingInv, Settled
<1>4. QED
  BY <1>1, <1>2, <1>3

LEMMA KeptIsQueue ==
    ASSUME ClientInv
    PROVE  /\ Len(unacked) - Received \in Nat
           /\ Kept \in [1..(Len(unacked) - Received) -> 1..handed]
<1>1. /\ unacked \in Seq(1..handed) /\ Len(unacked) \in Nat
      /\ Received \in 0..Len(unacked)
  BY LenProperties, ReceivedCuts DEF ClientInv, TypeOK
<1>2. \A k \in 1..(Len(unacked) - Received) : unacked[Received + k] \in 1..handed
  <2>1. \A k \in 1..(Len(unacked) - Received) : Received + k \in 1..Len(unacked)
    BY <1>1
  <2>2. QED
    BY <1>1, <2>1, ElementOfSeq
<1>3. QED
  BY <1>1, <1>2 DEF Kept

\* paho takes a message.
LEMMA HandOverKeeps ==
    ASSUME ClientInv, ClientInv', NEW s \in Sender, HandOver(s)
    PROVE  Kept' = Append(Kept, handed + 1)
<1>1. /\ unacked \in Seq(1..handed) /\ Len(unacked) \in Nat /\ handed \in Nat
      /\ got \subseteq 1..handed
      /\ Received \in 0..Len(unacked) /\ Received' \in 0..Len(unacked')
      /\ \A k \in 1..Len(unacked) : unacked[k] \in got <=> k <= Received
      /\ \A k \in 1..Len(unacked') : unacked'[k] \in got' <=> k <= Received'
  <2>1. unacked \in Seq(1..handed) /\ handed \in Nat /\ got \subseteq 1..handed
    BY DEF ClientInv, TypeOK
  <2>2. QED
    BY <2>1, LenProperties, ReceivedCuts, ReceivedCutsNext
<1>2. handed' = handed + 1 /\ unacked' = Append(unacked, handed + 1) /\ got' = got
  BY DEF HandOver, broker
<1>3. unacked \in Seq(1..(handed + 1)) /\ handed + 1 \in 1..(handed + 1)
  <2>1. 1..handed \subseteq 1..(handed + 1)
    BY <1>1
  <2>2. QED
    BY <1>1, <2>1, SeqMonotonic
<1>4. /\ Len(unacked') = Len(unacked) + 1
      /\ \A k \in 1..Len(unacked) : unacked'[k] = unacked[k]
      /\ unacked'[Len(unacked) + 1] = handed + 1
  BY <1>2, <1>3, Appended
<1>5. Received' \in 0..Len(unacked)
  <2>1. handed + 1 \notin got
    BY <1>1
  <2>2. ~ (Len(unacked) + 1 <= Received')
    BY <1>1, <1>2, <1>4, <2>1
  <2>3. QED
    BY <1>1, <1>4, <2>2
<1>6. Received' = Received
  <2>1. \A k \in 1..Len(unacked) : k <= Received <=> k <= Received'
    BY <1>1, <1>2, <1>4
  <2>2. QED
    BY <1>1, <1>5, <2>1, OneCut
<1> DEFINE n == Len(unacked) - Received
<1>7. /\ n \in Nat /\ Len(unacked') - Received' = n + 1
      /\ Kept \in [1..n -> 1..(handed + 1)]
      /\ Kept' \in [1..(n + 1) -> 1..(handed + 1)]
  <2>1. n \in Nat /\ Len(unacked') - Received' = n + 1
    BY <1>1, <1>4, <1>6
  <2>2. Kept \in [1..n -> 1..handed]
    BY KeptIsQueue
  <2>3. \A k \in 1..(n + 1) : Received + k \in 1..(Len(unacked) + 1)
    BY <1>1
  <2>4. \A k \in 1..(Len(unacked) + 1) : unacked'[k] \in 1..(handed + 1)
    <3>1. unacked' \in Seq(1..(handed + 1))
      BY <1>2, <1>3, Appended
    <3>2. QED
      BY <1>1, <1>4, <3>1, ElementOfSeq
  <2>5. Kept' = [k \in 1..(n + 1) |-> unacked'[Received + k]]
    BY <1>6, <2>1 DEF Kept
  <2>6. 1..handed \subseteq 1..(handed + 1)
    BY <1>1
  <2> HIDE DEF n
  <2>7. Kept \in [1..n -> 1..(handed + 1)]
    BY <2>2, <2>6
  <2>8. Kept' \in [1..(n + 1) -> 1..(handed + 1)]
    BY <2>3, <2>4, <2>5
  <2>9. QED
    BY <2>1, <2>7, <2>8
<1>8. \A k \in 1..n : Kept'[k] = Kept[k]
  BY <1>1, <1>4, <1>6 DEF Kept
<1>9. Kept'[n + 1] = handed + 1
  BY <1>1, <1>4, <1>6 DEF Kept
<1> HIDE DEF n
<1>10. QED
  BY <1>1, <1>3, <1>7, <1>8, <1>9, IsAppend

\* A PUBACK is for a message that the broker has.
LEMMA AcknowledgeKeeps ==
    ASSUME ClientInv, ClientInv', Acknowledge
    PROVE  Kept' = Kept
<1>1. /\ unacked \in Seq(1..handed) /\ Len(unacked) \in Nat
      /\ Received \in 0..Len(unacked) /\ Received' \in 0..Len(unacked')
      /\ current <= Received /\ current \in Nat /\ current > 0
      /\ \A k \in 1..Len(unacked) : unacked[k] \in got <=> k <= Received
      /\ \A k \in 1..Len(unacked') : unacked'[k] \in got' <=> k <= Received'
  <2>1. unacked \in Seq(1..handed) /\ current \in 0..Len(unacked) /\ current > 0
    BY DEF ClientInv, TypeOK, Acknowledge
  <2>2. Len(unacked) \in Nat
    BY <2>1, LenProperties
  <2>3. current \in Nat
    BY <2>1, <2>2
  <2>4. QED
    BY <2>1, <2>2, <2>3, ReceivedCuts, ReceivedCutsNext
<1>2. unacked' = Tail(unacked) /\ got' = got /\ unacked # <<>>
  BY <1>1, EmptyHasLengthZero DEF Acknowledge
<1>3. /\ Len(unacked') = Len(unacked) - 1
      /\ \A k \in 1..(Len(unacked) - 1) : unacked'[k] = unacked[k + 1]
  BY <1>1, <1>2, Shortened
<1>4. Received' = Received - 1
  <2>1. Len(unacked) - 1 \in Nat /\ Received - 1 \in 0..(Len(unacked) - 1)
        /\ Received' \in 0..(Len(unacked) - 1)
    BY <1>1, <1>3
  <2>2. ASSUME NEW k \in 1..(Len(unacked) - 1)
        PROVE  k <= Received - 1 <=> k <= Received'
    <3>1. k + 1 \in 1..Len(unacked) /\ unacked'[k] = unacked[k + 1]
      BY <1>1, <1>3
    <3>2. unacked[k + 1] \in got <=> k + 1 <= Received
      BY <1>1, <3>1
    <3>3. unacked'[k] \in got <=> k <= Received'
      BY <1>1, <1>2, <1>3
    <3>4. k <= Received - 1 <=> k + 1 <= Received
      BY <1>1
    <3>5. QED
      BY <3>1, <3>2, <3>3, <3>4
  <2>3. QED
    BY <2>1, <2>2, OneCut
<1>5. Len(unacked') - Received' = Len(unacked) - Received
  BY <1>1, <1>3, <1>4
<1>6. ASSUME NEW k \in 1..(Len(unacked) - Received)
      PROVE  unacked'[Received' + k] = unacked[Received + k]
  <2>1. Received' + k \in 1..(Len(unacked) - 1) /\ Received' + k + 1 = Received + k
    BY <1>1, <1>4
  <2>2. QED
    BY <1>3, <2>1
<1>7. QED
  BY <1>5, <1>6 DEF Kept

\* A message arrives: again, or as the first of those that had not.
LEMMA ArrivalTakesFirst ==
    ASSUME ClientInv, ClientInv', BrokerReceives
    PROVE  \/ got' = got /\ Kept' = Kept
           \/ Kept # <<>> /\ got' = got \cup {Head(Kept)} /\ Kept' = Tail(Kept)
<1>1. /\ unacked \in Seq(1..handed) /\ Len(unacked) \in Nat /\ current \in Nat
      /\ current < Len(unacked)
      /\ Received \in 0..Len(unacked) /\ Received' \in 0..Len(unacked)
      /\ current <= Received
      /\ \A k \in 1..Len(unacked) : unacked[k] \in got <=> k <= Received
      /\ \A k \in 1..Len(unacked) : unacked[k] \in got' <=> k <= Received'
      /\ unacked' = unacked
      /\ got' = got \cup {unacked[current + 1]}
  <2>1. /\ unacked \in Seq(1..handed) /\ current \in 0..Len(unacked)
        /\ current < Len(unacked) /\ unacked' = unacked
        /\ got' = got \cup {unacked[current + 1]}
    BY DEF ClientInv, TypeOK, BrokerReceives, messages
  <2>2. Len(unacked) \in Nat
    BY <2>1, LenProperties
  <2>3. /\ Received' \in 0..Len(unacked)
        /\ \A k \in 1..Len(unacked) : unacked[k] \in got' <=> k <= Received'
    BY <2>1, ReceivedCutsNext
  <2>4. QED
    BY <2>1, <2>2, <2>3, ReceivedCuts
<1>2. CASE current < Received
  <2>1. got' = got
    BY <1>1, <1>2
  <2>2. Received' = Received
    BY <2>1, <1>1 DEF Received
  <2>3. QED
    BY <1>1, <2>1, <2>2 DEF Kept
<1>3. CASE current = Received
  <2>1. \A k \in 1..Len(unacked) : unacked[k] = unacked[current + 1] => k = current + 1
    <3>1. /\ handed - Len(unacked) \in Int
          /\ \A k \in 1..Len(unacked) : unacked[k] = handed - Len(unacked) + k
      BY <1>1 DEF ClientInv, PendingInv, Settled, TypeOK
    <3>2. QED
      BY <1>1, <3>1
  <2>2. \A k \in 1..Len(unacked) : k <= Received + 1 <=> k <= Received'
    <3>1. ASSUME NEW k \in 1..Len(unacked)
          PROVE  unacked[k] \in got' <=> k <= Received \/ k = Received + 1
      BY <1>1, <1>3, <2>1
    <3>2. \A k \in 1..Len(unacked) :
             k <= Received + 1 <=> k <= Received \/ k = Received + 1
      BY <1>1
    <3>3. QED
      BY <1>1, <3>1, <3>2
  <2>3. Received' = Received + 1
    <3>1. Received + 1 \in 0..Len(unacked)
      BY <1>1, <1>3
    <3>2. QED
      BY <1>1, <2>2, <3>1, OneCut
  <2> DEFINE n == Len(unacked) - Received
  <2>4. n \in Nat \ {0} /\ Kept \in [1..n -> 1..handed]
    BY <1>1, <1>3, KeptIsQueue
  <2>5. Kept' = [k \in 1..(n - 1) |-> unacked[Received + 1 + k]]
    <3>1. Len(unacked') - Received' = n - 1
      BY <1>1, <2>3
    <3>2. QED
      BY <1>1, <2>3, <3>1 DEF Kept
  <2>6. \A k \in 1..(n - 1) : /\ Kept[k + 1] = unacked[Received + 1 + k]
                              /\ Kept[k + 1] \in 1..handed
    <3>1. ASSUME NEW k \in 1..(n - 1)
          PROVE  k + 1 \in 1..n /\ Received + (k + 1) = Received + 1 + k
      BY <1>1, <2>4
    <3>2. QED
      BY <2>4, <3>1 DEF Kept
  <2>7. Kept[1] = unacked[current + 1]
    BY <1>1, <1>3, <2>4 DEF Kept
  <2> HIDE DEF n
  <2>8. Kept' \in [1..(n - 1) -> 1..handed] /\ \A k \in 1..(n - 1) : Kept'[k] = Kept[k + 1]
    BY <2>5, <2>6
  <2>9. Kept # <<>> /\ Head(Kept) = Kept[1] /\ Kept' = Tail(Kept)
    BY <2>4, <2>8, IsTail
  <2>10. QED
    BY <1>1, <2>7, <2>9
<1>4. QED
  BY <1>1, <1>2, <1>3

LEMMA ContractStep ==
    ASSUME ClientInv, ClientInv', [Next]_vars
    PROVE  \/ Contract!Receive
           \/ \E s \in Sender : \/ Contract!Call(s) \/ Contract!ReturnTrue(s)
                                \/ Contract!ReturnFalse(s)
           \/ UNCHANGED <<mine, answer, Kept, got>>
<1> DEFINE Goal == \/ Contract!Receive
                   \/ \E s \in Sender :
                         \/ Contract!Call(s) \/ Contract!ReturnTrue(s)
                         \/ Contract!ReturnFalse(s)
                   \/ UNCHANGED <<mine, answer, Kept, got>>
<1>1. /\ handed \in Nat /\ handed <= MaxMessages
      /\ mine \in [Sender -> 0..handed]
  BY DEF ClientInv, TypeOK
<1>2. UNCHANGED <<unacked, got>> => Kept' = Kept
  BY DEF Kept, Received
<1>3. ASSUME NEW s \in Sender, Publish(s)
      PROVE  Goal
  <2>1. CASE Return(s, FALSE) /\ UNCHANGED <<unacked, got>>
    BY <1>2, <2>1 DEF Return, Contract!ReturnFalse, Kept
  <2>2. CASE Return(s, TRUE) /\ mine[s] \in got /\ UNCHANGED <<unacked, got>>
    BY <1>2, <2>2 DEF Return, Contract!ReturnTrue, Kept
  <2>3. CASE CheckEvent(s) \/ CheckState(s) \/ Refused(s) \/ Wake(s)
    <3>1. UNCHANGED <<unacked, got>>
      BY <2>3 DEF CheckEvent, CheckState, Refused, Wake, broker, messages
    <3>2. Return(s, FALSE) \/ UNCHANGED <<mine, answer>>
      BY <2>3 DEF CheckEvent, CheckState, Refused, Wake
    <3>3. QED
      BY <1>2, <2>1, <3>1, <3>2
  <2>4. CASE HandOver(s)
    <3>1. mine[s] = 0
      BY <2>4 DEF HandOver, ClientInv, CallsInv
    <3>2. handed + 1 \in 1..MaxMessages
      BY <1>1, <2>4 DEF HandOver
    <3>3. Kept' = Append(Kept, handed + 1)
      BY <2>4, HandOverKeeps
    <3>4. Contract!Call(s)
      BY <2>4, <3>1, <3>2, <3>3 DEF HandOver, Contract!Call, broker, Kept
    <3>5. QED
      BY <3>4
  <2>5. CASE Ask(s)
    <3>1. mine[s] \in 1..handed
      <4>1. mine[s] # 0
        BY <2>5 DEF Ask, ClientInv, CallsInv
      <4>2. QED
        BY <1>1, <4>1
    <3>2. UNCHANGED <<unacked, got>>
      BY <2>5 DEF Ask, broker, messages
    <3>3. CASE Acknowledged(mine[s])
      <4>1. Return(s, TRUE)
        BY <2>5, <3>3 DEF Ask, Return, Acknowledged
      <4>2. QED
        BY <2>2, <3>1, <3>2, <3>3, <4>1, AcknowledgedIsGot
    <3>4. CASE ~Acknowledged(mine[s])
      <4>1. Return(s, FALSE)
        BY <2>5, <3>4 DEF Ask, Return, Acknowledged
      <4>2. QED
        BY <2>1, <3>2, <4>1
    <3>5. QED
      BY <3>3, <3>4
  <2>6. QED
    BY <1>3, <2>3, <2>4, <2>5 DEF Publish
<1>4. CASE BrokerReceives
  <2>1. UNCHANGED <<mine, answer>>
    BY <1>4 DEF BrokerReceives, calls
  <2>2. QED
    BY <1>4, <2>1, ArrivalTakesFirst DEF Contract!Receive, Kept
<1>5. CASE Acknowledge
  BY <1>5, AcknowledgeKeeps DEF Acknowledge, calls
<1>6. CASE \/ Start \/ Disconnect \/ LoopStop \/ Connect \/ ConnectRefused
           \/ Drop \/ Callback \/ UNCHANGED vars
  <2>1. UNCHANGED <<mine, answer, unacked, got>>
    BY <1>6 DEF Start, Disconnect, LoopStop, Connect, ConnectRefused, Drop,
                Callback, vars, calls, broker, messages
  <2>2. QED
    BY <1>2, <2>1
<1>7. QED
  BY <1>3, <1>4, <1>5, <1>6 DEF Next, Network

\* broker.py:9: publish() returns True only for a message the broker has, also
\* when the PUBACK and the end of the wait race.  And connections may come and
\* go and paho may send again what it sent: what it was given arrives as from a
\* queue, the oldest next, with nothing left out.
THEOREM ClientKeepsContract == Spec => ContractSpec
<1>1. Init => Contract!CInit
  BY ContractInit
<1>2. ClientInv /\ ClientInv' /\ [Next]_vars
         => [Contract!CNext]_(Contract!contractVars)
  BY ContractStep DEF Contract!CNext, Contract!contractVars, Kept
<1>3. QED
  BY <1>1, <1>2, ClientAlways, PTL DEF Spec, ContractSpec, Contract!CSpec

=============================================================================
