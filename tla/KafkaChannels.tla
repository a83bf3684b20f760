--------------------------- MODULE KafkaChannels ---------------------------
(***************************************************************************)
(* End-to-end encryption of Kafka records (KafkaSecureChannelController).  *)
(* A consumer's node starts a forwarder for each topic partition it        *)
(* fetches; the producer's node opens, through that forwarder, a secure    *)
(* channel with the consumer, remembers it by partition, and encrypts each *)
(* record of a produce request with it.  The record then waits in Kafka.   *)
(* The workers of several client connections share the controller behind   *)
(* one asynchronous lock.                                                  *)
(***************************************************************************)
EXTENDS Integers, Sequences, FiniteSets

CONSTANTS Partitions,   \* topic partitions
          Consumers,    \* consumer nodes
          Trusted,      \* those with the trust context attribute
          Tasks,        \* request workers of the producer's node
          Direct,       \* consumer of ConsumerNodeAddr::Direct, or NoConsumer for Relay
          NoConsumer,
          MaxChannels,  \* bound: channels created
          MaxRecords,   \* bound: records produced
          Losses        \* bound: channels that go away while in use

VARIABLES
  forwarderSet, \* topic_forwarder_set of each consumer's node
  relay,        \* whom the orchestrator forwards a partition's address to
  encryptorMap, \* topic_encryptor_map: channel, or 0
  peer,         \* the consumer at the other end of each channel made
  mine, theirs, \* the registries of the producer and of the consumers
  lock,         \* the task inside the controller's mutex
  task,         \* what each request worker does
  log,          \* the records in Kafka: <<partition, channel, nonce>>
  sent,         \* nonces used, by channel
  seen,         \* nonces the decryptor of a channel has accepted
  read,         \* records decrypted, by index, with how often
  losses

prodVars == <<encryptorMap, peer, lock, task, log, sent>>
vars == <<forwarderSet, relay, prodVars, mine, theirs, seen, read, losses>>

NoTask == "none"
Idle == <<"idle">>
\* Direct consumers share one channel for everything.
Key(p) == IF Direct = NoConsumer THEN p ELSE CHOOSE q \in Partitions : TRUE
Destination(p) == IF Direct = NoConsumer THEN relay[p] ELSE Direct
Channels == 1..Len(peer)

Init ==
  /\ forwarderSet = [c \in Consumers |-> {}] /\ relay = [p \in Partitions |-> NoConsumer]
  /\ encryptorMap = [p \in Partitions |-> 0] /\ peer = <<>> /\ mine = {} /\ theirs = {}
  /\ lock = NoTask /\ task = [t \in Tasks |-> Idle] /\ log = <<>>
  /\ sent = [h \in 1..MaxChannels |-> 0] /\ seen = [h \in 1..MaxChannels |-> {}]
  /\ read = [i \in 1..MaxRecords |-> 0] /\ losses = 0

----------------------------------------------------------------------------
(* The consumer's node. *)

\* start_forwarders_for: nothing to do for a partition already in the set;
\* the orchestrator forwards to the node that asked last.
StartForwarder(c, p) ==
  /\ Direct = NoConsumer /\ p \notin forwarderSet[c]
  /\ relay' = [relay EXCEPT ![p] = c]
  /\ forwarderSet' = [forwarderSet EXCEPT ![c] = @ \cup {p}]
  /\ UNCHANGED <<prodVars, mine, theirs, seen, read, losses>>

\* decrypt_content_for, for a record fetched: the channel must be known by its
\* decryptor's address, its other end authorized, its nonce new.
Decryptable(c, i) == LET h == log[i][2] IN
  h \in theirs /\ peer[h] = c /\ log[i][3] \notin seen[h]
Decrypt(c, i) ==
  /\ i <= Len(log) /\ Decryptable(c, i)
  /\ seen' = [seen EXCEPT ![log[i][2]] = @ \cup {log[i][3]}]
  /\ read' = [read EXCEPT ![i] = @ + 1]
  /\ UNCHANGED <<forwarderSet, relay, prodVars, mine, theirs, losses>>

----------------------------------------------------------------------------
(* The producer's node: encrypt_content_for. *)

Produce(t, p) ==
  /\ task[t] = Idle /\ Len(log) < MaxRecords
  /\ task' = [task EXCEPT ![t] = <<"lock", p>>]
  /\ UNCHANGED <<forwarderSet, relay, encryptorMap, peer, lock, log, sent, mine, theirs, seen, read, losses>>


\* get_or_create_secure_channel_for: the mutex is held to the end.
Lock(t) ==
  /\ task[t][1] = "lock" /\ lock = NoTask
  /\ lock' = t /\ task' = [task EXCEPT ![t] = <<"look", @[2]>>]
  /\ UNCHANGED <<forwarderSet, relay, encryptorMap, peer, log, sent, mine, theirs, seen, read, losses>>

Unlocked == NoTask

Fail(t) == task' = [task EXCEPT ![t] = Idle] /\ lock' = Unlocked

\* Known: the remembered channel must still be in the local registry.
UseKnown(t) == LET h == encryptorMap[Key(task[t][2])] IN
  /\ task[t][1] = "look" /\ h # 0
  /\ \/ h \in mine /\ task' = [task EXCEPT ![t] = <<"encrypt", @[2], h>>] /\ lock' = Unlocked
     \/ h \notin mine /\ Fail(t)
  /\ UNCHANGED <<forwarderSet, relay, encryptorMap, peer, log, sent, mine, theirs, seen, read, losses>>

\* The node manager creates the channel with whoever the address leads to.
CreateChannel(t) == LET p == task[t][2] IN
  /\ task[t][1] = "look" /\ encryptorMap[Key(p)] = 0
  /\ \/ /\ Destination(p) \in Consumers /\ Len(peer) < MaxChannels
        /\ peer' = Append(peer, Destination(p))
        /\ mine' = mine \cup {Len(peer')} /\ theirs' = theirs \cup {Len(peer')}
        /\ task' = [task EXCEPT ![t] = <<"validate", p, Len(peer')>>] /\ lock' = lock
     \/ (Destination(p) = NoConsumer \/ Len(peer) = MaxChannels) /\ Fail(t) /\ UNCHANGED <<peer, mine, theirs>>
  /\ UNCHANGED <<forwarderSet, relay, encryptorMap, log, sent, seen, read, losses>>

\* validate_consumer_credentials: remembered only when authorized, deleted
\* otherwise.
Validate(t) == LET h == task[t][3] IN
  /\ task[t][1] = "validate"
  /\ IF h \in mine /\ peer[h] \in Trusted
     THEN /\ encryptorMap' = [encryptorMap EXCEPT ![Key(task[t][2])] = h]
          /\ task' = [task EXCEPT ![t] = <<"encrypt", @[2], h>>] /\ lock' = Unlocked
          /\ UNCHANGED mine
     ELSE mine' = mine \ {h} /\ Fail(t) /\ UNCHANGED encryptorMap
  /\ UNCHANGED <<forwarderSet, relay, peer, log, sent, theirs, seen, read, losses>>

\* The encryptor's API worker answers, if it is still there, outside the mutex.
Encrypt(t) == LET h == task[t][3] IN
  /\ task[t][1] = "encrypt"
  /\ IF h \in mine /\ Len(log) < MaxRecords
     THEN /\ log' = Append(log, <<task[t][2], h, sent[h]>>)
          /\ sent' = [sent EXCEPT ![h] = @ + 1]
     ELSE UNCHANGED <<log, sent>>
  /\ task' = [task EXCEPT ![t] = Idle]
  /\ UNCHANGED <<forwarderSet, relay, encryptorMap, peer, lock, mine, theirs, seen, read, losses>>

\* The channel is deleted on the producer's node, or the consumer's restarts.
LoseMine == \E h \in mine :
  /\ losses < Losses /\ losses' = losses + 1 /\ mine' = mine \ {h}
  /\ UNCHANGED <<forwarderSet, relay, prodVars, theirs, seen, read>>
ConsumerRestarts(c) ==
  /\ losses < Losses /\ losses' = losses + 1
  /\ theirs' = {h \in theirs : peer[h] # c}
  /\ forwarderSet' = [forwarderSet EXCEPT ![c] = {}]
  /\ relay' = [p \in Partitions |-> IF relay[p] = c THEN NoConsumer ELSE relay[p]]
  /\ UNCHANGED <<prodVars, mine, seen, read>>

TaskStep(t) ==
  Lock(t) \/ UseKnown(t) \/ CreateChannel(t) \/ Validate(t) \/ Encrypt(t)
Next ==
  \/ \E c \in Consumers, p \in Partitions : StartForwarder(c, p)
  \/ \E c \in Consumers, i \in 1..MaxRecords : Decrypt(c, i)
  \/ \E t \in Tasks, p \in Partitions : Produce(t, p)
  \/ \E t \in Tasks : TaskStep(t)
  \/ LoseMine \/ \E c \in Consumers : ConsumerRestarts(c)

Spec == Init /\ [][Next]_vars
\* Workers run, the Kafka client retries a produce that failed, and the
\* consumer fetches.
FairSpec == /\ Spec
            /\ \A t \in Tasks : SF_vars(TaskStep(t))
            /\ \A t \in Tasks, p \in Partitions : WF_vars(Produce(t, p))

----------------------------------------------------------------------------
\* The controller's state is of its type.
TypeOK ==
  /\ relay \in [Partitions -> Consumers \cup {NoConsumer}]
  /\ encryptorMap \in [Partitions -> 0..Len(peer)]
  /\ peer \in Seq(Consumers) /\ mine \subseteq Channels /\ theirs \subseteq Channels
  /\ lock \in Tasks \cup {NoTask}

\* The mutex covers the whole look-up-or-create: with several connections
\* producing to a partition, "the secure channel will be created only once", so
\* no channel to a trusted consumer is made and then forgotten
\* (get_or_create_secure_channel_for).
CreatedOnce ==
  \A h \in mine : peer[h] \in Trusted =>
    \/ \E p \in Partitions : encryptorMap[p] = h
    \/ \E t \in Tasks : task[t][1] = "validate" /\ task[t][3] = h

\* A record is only ever encrypted for a consumer with the attribute: a
\* channel that fails validation is neither used nor left open
\* (validate_consumer_credentials).
OnlyForTrusted ==
  /\ \A i \in 1..Len(log) : peer[log[i][2]] \in Trusted
  /\ \A h \in mine : peer[h] \notin Trusted => \E t \in Tasks : task[t][1] = "validate" /\ task[t][3] = h

\* Two records never carry the same nonce of a channel, and a record is
\* decrypted at most once, in whatever order the consumers fetch them.
NonceOnce ==
  /\ \A i, j \in 1..Len(log) : i # j => <<log[i][2], log[i][3]>> # <<log[j][2], log[j][3]>>
  /\ \A i \in 1..MaxRecords : read[i] <= 1

============================================================================
