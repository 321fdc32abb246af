-------------------------------- MODULE Mqtt --------------------------------
(***************************************************************************)
(* The MQTT client (core/mqtt.c) with the broker it talks to, as operators *)
(* on a record: the thread of the mosquitto library and the event loop     *)
(* both call them.  The broker keeps the last value published under a name *)
(* and passes it on to whoever subscribes; messages that come back stand   *)
(* in a queue of the kernel until the event loop reads them.               *)
(***************************************************************************)
EXTENDS Integers, Sequences

CONSTANTS Names,        \* the names of endpoints, which are the MQTT topics
          QueueMax      \* how many messages the queue holds (mq_maxmsg)

MqttAssumption == QueueMax \in Nat \ {0}
ASSUME MqttAssumption

Unset == -1             \* the empty string

MqttInit == [up |-> FALSE,              \* the broker is there
             connected |-> FALSE,       \* state = MQTT_ST_CONNECTED
             retained |-> [n \in Names |-> Unset],
             subscribed |-> {},
             inbox |-> <<>>,            \* on its way from the broker
             queue |-> <<>>,            \* mqtt->mq
             lost |-> {}]               \* history: names of messages that found the queue full

CanSend(B) == B.connected /\ B.up

\* mqtt_publish, with the retain flag: an empty value clears what the broker keeps.
mqtt_publish(B, name, value) ==
  IF ~CanSend(B) THEN B
  ELSE [B EXCEPT !.retained[name] = value,
                 !.inbox = IF name \in B.subscribed THEN Append(@, <<name, value>>) ELSE @]

\* mqtt_subscribe: the broker answers with the value it keeps.
mqtt_subscribe(B, name) ==
  IF ~CanSend(B) THEN B
  ELSE [B EXCEPT !.subscribed = @ \cup {name},
                 !.inbox = IF B.retained[name] # Unset THEN Append(@, <<name, B.retained[name]>>) ELSE @]

\* mqtt_on_connect, up to its call of the update handler
mqtt_on_connect(B) == [B EXCEPT !.up = TRUE, !.connected = TRUE]

\* The connection breaks.  A clean session forgets the subscriptions; mqtt_on_disconnect
\* leaves the state as it is and the library, or its timer, connects again.
mqtt_on_disconnect(B) == [B EXCEPT !.up = FALSE, !.subscribed = {}, !.inbox = <<>>]

\* mqtt_on_message: mq_send without waiting
mqtt_on_message(B) ==
  LET name == Head(B.inbox)[1]
      next == [B EXCEPT !.inbox = Tail(@)]
  IN IF Len(B.queue) < QueueMax
     THEN [next EXCEPT !.queue = Append(@, Head(B.inbox)), !.lost = @ \ {name}]
     ELSE [next EXCEPT !.lost = @ \cup {name}]

\* mqtt_msg_recv, up to its call of the update handler
mqtt_msg_recv(B) == [B EXCEPT !.queue = Tail(@)]
=============================================================================
