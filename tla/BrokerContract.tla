--------------------------- MODULE BrokerContract ---------------------------
(***************************************************************************)
(* What broker.py promises the publisher (BrokerClient): what it was given *)
(* reaches the broker in the order in which it was given, with nothing     *)
(* left out, while the process lives; publish() ends with True only if the *)
(* broker has the message, and with False at any time - the message may    *)
(* still arrive after that.                                                *)
(*                                                                         *)
(* MqttClient implements this, with connections that come and go.  The     *)
(* simpler client inside Agent implements it, too.                         *)
(***************************************************************************)
EXTENDS Sequences

CONSTANTS
    Sender,    \* the threads that publish
    Message,   \* what they publish
    NoMessage

VARIABLES
    sending,   \* the message that each sender's publish() has handed over
    answer,    \* whether publish() has returned True, until that is used
    kept,      \* what was handed over and the broker has not got, oldest first
    got        \* messages the broker has received

contractVars == <<sending, answer, kept, got>>

CInit ==
    /\ sending = [s \in Sender |-> NoMessage]
    /\ answer = [s \in Sender |-> FALSE]
    /\ kept = <<>>
    /\ got = {}

\* publish() hands a message over.
Call(s) ==
    /\ sending[s] = NoMessage
    /\ \E m \in Message :
          /\ sending' = [sending EXCEPT ![s] = m]
          /\ kept' = Append(kept, m)
    /\ UNCHANGED <<answer, got>>

Receive ==
    /\ kept # <<>>
    /\ got' = got \cup {Head(kept)}
    /\ kept' = Tail(kept)
    /\ UNCHANGED <<sending, answer>>

ReturnTrue(s) ==
    /\ sending[s] \in got
    /\ answer' = [answer EXCEPT ![s] = TRUE]
    /\ sending' = [sending EXCEPT ![s] = NoMessage]
    /\ UNCHANGED <<kept, got>>

ReturnFalse(s) ==
    /\ answer' = [answer EXCEPT ![s] = FALSE]
    /\ sending' = [sending EXCEPT ![s] = NoMessage]
    /\ UNCHANGED <<kept, got>>

\* The process ends, and the client with it.
Reset ==
    /\ sending' = [s \in Sender |-> NoMessage]
    /\ answer' = [s \in Sender |-> FALSE]
    /\ kept' = <<>>
    /\ UNCHANGED got

CNext ==
    \/ Receive
    \/ \E s \in Sender : Call(s) \/ ReturnTrue(s) \/ ReturnFalse(s)
    \/ Reset

CSpec == CInit /\ [][CNext]_contractVars

=============================================================================
