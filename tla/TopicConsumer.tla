---------------------------- MODULE TopicConsumer ----------------------------
(***************************************************************************)
(* The consume loop every worker of the platform runs (order orchestrator  *)
(* and projector, fulfillment and notification consumers): fetch a message *)
(* of an assigned partition, handle it, commit its offset; an error ends   *)
(* Run, the supervisor restarts the process and the group resumes at the   *)
(* committed offsets.  A topic has several partitions and a message goes   *)
(* to the one of its key: the messages of an order follow each other, those *)
(* of two partitions come in any order, and a message that waits for its   *)
(* redelivery holds up its own partition only.                             *)
(*                                                                         *)
(* Kafka itself and kafka-go are external; of them this module keeps the   *)
(* log, for each partition the committed offset, the owner and how far the *)
(* owner's reader is, and the two things a rebalance can do to a worker in *)
(* the middle of a message: it goes on with it, and its later commit is    *)
(* either refused or moves the committed offset, backwards too.            *)
(*                                                                         *)
(* All partitions share one sequence, in the order they were written, and  *)
(* an offset is an index into it: the offsets of one partition have gaps,  *)
(* their order is what counts.                                             *)
(***************************************************************************)
EXTENDS Integers, Sequences

CONSTANTS
  Workers,        \* the processes of one consumer group
  Partitions,     \* the partitions of the topics the group reads
  PartitionOf,    \* PartitionOf[m]: the partition the message m is written to
  MaxRebalances   \* bound: how often the partitions change hands

ASSUME ConsumerAssumption ==
  /\ Workers # {}
  /\ MaxRebalances \in Nat

VARIABLES
  log,           \* the messages of all partitions, in the order written
  committed,     \* committed[p]: offset the group committed for p
  owner,         \* owner[p]: worker p is assigned to
  position,      \* position[p]: last offset of p its owner's reader delivered
  current,       \* current[w]: offset of the message w handles, 0 when none
  loop,          \* loop[w]: where w is in Run
  deadLetters,   \* offsets of the messages routed to the dead-letter topic
  rebalances     \* rebalances so far

consumerVars ==
  <<log, committed, owner, position, current, loop, deadLetters, rebalances>>

LoopState == {"fetch", "handle", "commit", "down"}

ConsumerTypeOK(Message) ==
  /\ log \in Seq(Message)
  /\ committed \in [Partitions -> Nat]
  /\ owner \in [Partitions -> Workers]
  /\ position \in [Partitions -> Nat]
  /\ current \in [Workers -> Nat]
  /\ loop \in [Workers -> LoopState]
  /\ deadLetters \subseteq Nat
  /\ rebalances \in 0..MaxRebalances

ConsumerInit ==
  /\ log = << >>
  /\ committed = [p \in Partitions |-> 0]
  /\ owner \in [Partitions -> Workers]
  /\ position = [p \in Partitions |-> 0]
  /\ current = [w \in Workers |-> 0]
  /\ loop = [w \in Workers |-> "fetch"]
  /\ deadLetters = {}
  /\ rebalances = 0

-----------------------------------------------------------------------------
\* The message w has in hand.
InHand(w) == log[current[w]]

\* The partition of the message at offset i.
PartitionAt(i) == PartitionOf[log[i]]

\* The group is past the message at offset i.
Passed(i) == i <= committed[PartitionAt(i)]

\* The message at offset i is the next one of p to deliver.
IsNext(i, p) ==
  /\ PartitionAt(i) = p
  /\ position[p] < i
  /\ \A j \in 1..(i - 1) : PartitionAt(j) = p => j <= position[p]

\* A producer appends messages to the topic.
Produce(messages) ==
  /\ log' = log \o messages
  /\ UNCHANGED <<committed, owner, position, current, loop, deadLetters, rebalances>>

\* FetchMessage: the next message of p, to its owner only.
FetchFrom(w, p) ==
  /\ loop[w] = "fetch"
  /\ owner[p] = w
  /\ \E i \in DOMAIN log :
       /\ IsNext(i, p)
       /\ position' = [position EXCEPT ![p] = i]
       /\ current' = [current EXCEPT ![w] = i]
  /\ loop' = [loop EXCEPT ![w] = "handle"]
  /\ UNCHANGED <<log, committed, owner, deadLetters, rebalances>>

\* The reader delivers from all its partitions as their messages come in.
Fetch(w) == \E p \in Partitions : FetchFrom(w, p)

\* The handler returned nil, or the message is of a type the worker ignores.
Handled(w) ==
  /\ loop' = [loop EXCEPT ![w] = "commit"]
  /\ UNCHANGED <<log, committed, owner, position, current, deadLetters, rebalances>>

\* A permanent error: dlq.Publish, then the offset is committed as usual.
DeadLetter(w) ==
  /\ deadLetters' = deadLetters \cup {current[w]}
  /\ loop' = [loop EXCEPT ![w] = "commit"]
  /\ UNCHANGED <<log, committed, owner, position, current, rebalances>>

\* CommitMessages.  Taken by a worker that lost the partition it may still be
\* accepted, under the group generation the reader has joined meanwhile.
CommitOffset(w) ==
  /\ loop[w] = "commit"
  /\ committed' = [committed EXCEPT ![PartitionAt(current[w])] = current[w]]
  /\ current' = [current EXCEPT ![w] = 0]
  /\ loop' = [loop EXCEPT ![w] = "fetch"]
  /\ UNCHANGED <<log, owner, position, deadLetters, rebalances>>

\* Run returns an error and the process ends; so does a crash.
Stop(w) ==
  /\ current' = [current EXCEPT ![w] = 0]
  /\ loop' = [loop EXCEPT ![w] = "down"]
  /\ UNCHANGED <<log, committed, owner, position, deadLetters, rebalances>>

\* The broker refuses the commit of a worker that lost the partition.
CommitRefused(w) ==
  /\ loop[w] = "commit"
  /\ owner[PartitionAt(current[w])] # w
  /\ Stop(w)

\* (mutant: the reader goes on where it was, not at the committed offsets)
RestartInPlace(w) ==
  /\ loop[w] = "down"
  /\ loop' = [loop EXCEPT ![w] = "fetch"]
  /\ UNCHANGED <<log, committed, owner, position, current, deadLetters, rebalances>>

\* The supervisor restarts the process, which rejoins the group.
Restart(w) ==
  /\ loop[w] = "down"
  /\ loop' = [loop EXCEPT ![w] = "fetch"]
  /\ position' = [p \in Partitions |-> IF owner[p] = w THEN committed[p] ELSE position[p]]
  /\ UNCHANGED <<log, committed, owner, current, deadLetters, rebalances>>

\* The group assigns the partitions anew, perhaps to the workers that had
\* them; owners read from the committed offsets, the old ones are not told.
Rebalance(assignment) ==
  /\ rebalances < MaxRebalances
  /\ rebalances' = rebalances + 1
  /\ owner' = assignment
  /\ position' = committed
  /\ UNCHANGED <<log, committed, current, loop, deadLetters>>
=============================================================================
