----------------------------- MODULE Notification -----------------------------
(***************************************************************************)
(* The notification service: a consumer of every topic that records a      *)
(* notification under the key (type, order), unique in its table, and then *)
(* sends it.  The two steps are not one: a stop between them leaves a      *)
(* recorded notification that no redelivery sends.                         *)
(*                                                                         *)
(* The group reads several topics, each with partitions of its own.  All   *)
(* types the services publish are rendered, so none is ignored.            *)
(***************************************************************************)
EXTENDS Domain, TopicConsumer, FiniteSets

CONSTANT MaxStops   \* bound: stops of the workers

VARIABLES
  recorded,   \* keys in the notifications table
  sent,       \* sent[k]: how often the notification k was sent
  sending,    \* sending[w]: w has recorded the message in hand
  stops

notificationVars == <<consumerVars, recorded, sent, sending, stops>>

NotificationInit ==
  /\ ConsumerInit
  /\ recorded = {}
  /\ sent = << >>
  /\ sending = [w \in Workers |-> FALSE]
  /\ stops = 0

FetchMessage(w) ==
  /\ Fetch(w)
  /\ UNCHANGED <<recorded, sent, sending, stops>>

\* render: a payload or an order id that does not parse is a permanent error.
RenderFails(w) ==
  /\ loop[w] = "handle"
  /\ InHand(w).order \notin Orders
  /\ DeadLetter(w)
  /\ UNCHANGED <<recorded, sent, sending, stops>>

\* (mutant: the insert reports a row although the key was there)
IsNewAlways(k) == TRUE

IsNew(k) == k \notin recorded

\* (mutant: a recorded notification counts as delivered)
RecordIfNewOnly(w) ==
  /\ loop[w] = "handle"
  /\ InHand(w).order \in Orders
  /\ recorded' = recorded \cup {InHand(w)}
  /\ Handled(w)
  /\ UNCHANGED <<sent, sending, stops>>

\* INSERT ... ON CONFLICT DO NOTHING
RecordIfNew(w) ==
  /\ loop[w] = "handle"
  /\ InHand(w).order \in Orders
  /\ ~sending[w]
  /\ \/ /\ IsNew(InHand(w))
        /\ recorded' = recorded \cup {InHand(w)}
        /\ sending' = [sending EXCEPT ![w] = TRUE]
        /\ UNCHANGED consumerVars
     \/ /\ ~IsNew(InHand(w))
        /\ Handled(w)
        /\ UNCHANGED <<recorded, sending>>
  /\ UNCHANGED <<sent, stops>>

TimesSent(k) == IF k \in DOMAIN sent THEN sent[k] ELSE 0

Send(w) ==
  /\ loop[w] = "handle"
  /\ sending[w]
  /\ sent' = [k \in DOMAIN sent \cup {InHand(w)} |->
                IF k = InHand(w) THEN TimesSent(k) + 1 ELSE sent[k]]
  /\ sending' = [sending EXCEPT ![w] = FALSE]
  /\ Handled(w)
  /\ UNCHANGED <<recorded, stops>>

CommitMessage(w) ==
  /\ CommitOffset(w)
  /\ UNCHANGED <<recorded, sent, sending, stops>>

\* An error of the database, the sender, a dead letter or a commit; a crash.
StopWorker(w) ==
  /\ stops < MaxStops
  /\ stops' = stops + 1
  /\ loop[w] \in {"handle", "commit"}
  /\ Stop(w)
  /\ sending' = [sending EXCEPT ![w] = FALSE]
  /\ UNCHANGED <<recorded, sent>>

RestartWorker(w) ==
  /\ Restart(w)
  /\ UNCHANGED <<recorded, sent, sending, stops>>

RebalanceWorkers(assignment) ==
  /\ Rebalance(assignment)
  /\ UNCHANGED <<recorded, sent, sending, stops>>

WorkerStep(w) ==
  FetchMessage(w) \/ RenderFails(w) \/ RecordIfNew(w) \/ Send(w) \/ CommitMessage(w)

NotificationNext ==
  \/ \E w \in Workers : WorkerStep(w) \/ StopWorker(w) \/ RestartWorker(w)
  \/ \E assignment \in [Partitions -> Workers] : RebalanceWorkers(assignment)
=============================================================================
