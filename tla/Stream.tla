------------------------------- MODULE Stream -------------------------------
(***************************************************************************)
(* The stream client of the Rust library (ockam/src/stream): a producer    *)
(* and a consumer of one stream, talking to the stream and index services. *)
(* The consumer's worker may crash at any point and be connected again     *)
(* with the same client id; the network may lose a message.                *)
(***************************************************************************)
EXTENDS Integers, Sequences, SequencesExt, FiniteSets

CONSTANTS MaxApp,      \* bound: messages of the application
          MaxCrashes,  \* bound: crashes of the consumer
          MaxLost,     \* bound: messages the network loses
          Limit,       \* messages asked for by a PullRequest
          Junk         \* data that is no TransportMessage

(***************************************************************************)
(* The services (Elixir, ockam/lib/ockam/stream): the one that creates a   *)
(* worker for every partition, the stream worker with the in-memory        *)
(* storage, and the index service with its shards.  One stream is modelled. *)
(***************************************************************************)
VARIABLES
  created,    \* partitions that have a stream worker
  storage,    \* messages saved in partition 0, from index 0 on
  shards      \* the saved index of every client, or -1 for :undefined

serviceVars == <<created, storage, shards>>

ServiceInit(Clients) ==
    /\ created = {} /\ storage = <<>>
    /\ shards = [c \in Clients |-> -1]

\* Ockam.Stream.Storage.Internal: save and fetch.
Save(data) == storage' = Append(storage, data)
Fetch(index, limit) ==
    [k \in 1..Cardinality(index..(index + limit - 1) \cap 0..(Len(storage) - 1)) |->
        [index |-> index + k - 1, data |-> storage[index + k]]]

\* Ockam.Stream.Workers.Service: ensure_streams creates the missing workers and
\* every worker, new or old, answers the client.
EnsureStreams(n) ==
    /\ created' = created \cup 0..(n - 1)
    /\ UNCHANGED <<storage, shards>>
InitReplies(n) == [k \in 1..n |-> [type |-> "init", partition |-> k - 1]]

\* Ockam.Stream.Workers.Stream: handle_data.
HandlePush(data) == Save(data) /\ UNCHANGED <<created, shards>>
PullReply(index, limit) == [type |-> "messages", messages |-> Fetch(index, limit)]

\* Ockam.Stream.Index: the shard of a client keeps the largest saved index.
HandleSave(client, index) ==
    /\ shards' = [shards EXCEPT ![client] = IF index > @ THEN index ELSE @]
    /\ UNCHANGED <<created, storage>>
IndexReply(client) == [type |-> "index", index |-> shards[client]]

(***************************************************************************)
(* The client.                                                             *)
(***************************************************************************)
Consumer == "consumer"

VARIABLES
  app,          \* messages 1..app were given to the producer
  ready,        \* StreamProducer.init
  outbox,       \* StreamProducer.outbox
  toStream,     \* requests of the producer on their way
  initReply,    \* the reply to the producer's CreateStreamRequest is on its way
  idx,          \* StreamConsumer.idx
  timer,        \* a fetch event is scheduled
  requests,     \* requests of the consumer on their way to the services
  saves,        \* IndexRequest::save messages on their way
  replies,      \* replies on their way to the consumer
  delivered,    \* indices the consumer has passed on, per incarnation
  crashes, lost

producerVars == <<app, ready, outbox, toStream, initReply>>
consumerVars == <<idx, timer, requests, replies, delivered>>
vars == <<serviceVars, producerVars, consumerVars, saves, crashes, lost>>

CreateRequest == [type |-> "create"]
PullRequest(i) == [type |-> "pull", index |-> i]
IndexGet == [type |-> "get"]

Init ==
    /\ ServiceInit({Consumer})
    /\ app = 0 /\ ready = FALSE /\ outbox = <<>>
    /\ toStream = <<CreateRequest>> /\ initReply = FALSE
    /\ idx = 0 /\ timer = FALSE /\ requests = <<CreateRequest>> /\ replies = <<>>
    /\ delivered = <<<<>>>>
    /\ saves = <<>> /\ crashes = 0 /\ lost = 0

(***************************************************************************)
(* The producer and its requests.                                          *)
(***************************************************************************)
\* StreamProducer::handle_message, for a message of the application.
Produce ==
    /\ app < MaxApp
    /\ app' = app + 1
    /\ IF ready
       THEN toStream' = Append(toStream, [type |-> "push", data |-> app + 1]) /\ UNCHANGED outbox
       ELSE outbox' = Append(outbox, app + 1) /\ UNCHANGED toStream
    /\ UNCHANGED <<serviceVars, ready, initReply, consumerVars, saves, crashes, lost>>

\* handle_response: the stream exists, what was kept goes out.
ProducerReady ==
    /\ initReply
    /\ initReply' = FALSE /\ ready' = TRUE
    /\ toStream' = toStream \o [k \in 1..Len(outbox) |-> [type |-> "push", data |-> outbox[k]]]
    /\ outbox' = <<>>
    /\ UNCHANGED <<serviceVars, app, consumerVars, saves, crashes, lost>>

ServeProducer ==
    /\ toStream # <<>>
    /\ toStream' = Tail(toStream)
    /\ \/ /\ Head(toStream).type = "create"
          /\ EnsureStreams(1) /\ initReply' = TRUE
       \/ /\ Head(toStream).type = "push"
          /\ HandlePush(Head(toStream).data) /\ UNCHANGED initReply
    /\ UNCHANGED <<app, ready, outbox, consumerVars, saves, crashes, lost>>

(***************************************************************************)
(* The consumer and its requests.                                          *)
(***************************************************************************)
ServeConsumer ==
    LET r == Head(requests) IN
    /\ requests # <<>>
    /\ requests' = Tail(requests)
    /\ \/ /\ r.type = "create"
          /\ EnsureStreams(1) /\ replies' = replies \o InitReplies(1)
       \/ /\ r.type = "get"
          /\ replies' = Append(replies, IndexReply(Consumer)) /\ UNCHANGED serviceVars
       \/ /\ r.type = "pull"
          /\ replies' = Append(replies, PullReply(r.index, Limit)) /\ UNCHANGED serviceVars
    /\ UNCHANGED <<producerVars, idx, timer, delivered, saves, crashes, lost>>

ServeSave ==
    /\ saves # <<>>
    /\ saves' = Tail(saves)
    /\ HandleSave(Consumer, Head(saves))
    /\ UNCHANGED <<producerVars, consumerVars, crashes, lost>>

Reply(type) == replies # <<>> /\ Head(replies).type = type /\ replies' = Tail(replies)

\* handle_response: Init and Index.
ConsumerInit ==
    /\ Reply("init")
    /\ requests' = Append(requests, IndexGet)
    /\ UNCHANGED <<serviceVars, producerVars, idx, timer, delivered, saves, crashes, lost>>

ConsumerIndex ==
    /\ Reply("index")
    /\ idx' = IF Head(replies).index = -1 THEN 0 ELSE Head(replies).index
    /\ timer' = TRUE
    /\ UNCHANGED <<serviceVars, producerVars, requests, delivered, saves, crashes, lost>>

\* The messages of a PullResponse that decode are passed on.
Deliver(messages) ==
    delivered' = [delivered EXCEPT ![Len(delivered)] =
        @ \o [k \in 1..Len(messages) |-> messages[k].index]]
Decodes(m) == m.data \notin Junk


\* handle_response: PullResponse.  The index is saved after the messages were
\* passed on, and the next fetch is scheduled.
Pulled ==
    LET messages == Head(replies).messages
        next == IF messages = <<>> THEN idx ELSE Last(messages).index + 1
    IN  /\ Reply("messages")
        /\ idx' = next
        /\ Deliver(SelectSeq(messages, Decodes))
        /\ saves' = IF next # idx THEN Append(saves, next) ELSE saves
        /\ timer' = TRUE
        /\ UNCHANGED <<serviceVars, producerVars, requests, crashes, lost>>

\* handle_cmd: a fetch event.
FetchEvent ==
    /\ timer
    /\ timer' = FALSE
    /\ requests' = Append(requests, PullRequest(idx))
    /\ UNCHANGED <<serviceVars, producerVars, idx, replies, delivered, saves, crashes, lost>>

\* The consumer stops, perhaps in the middle of a PullResponse, and connect()
\* starts another one under a new address: what was sent to the old one is lost.
Crash(k) ==
    /\ crashes < MaxCrashes
    /\ crashes' = crashes + 1
    /\ \/ k = 0 /\ delivered' = Append(delivered, <<>>)
       \/ /\ k > 0 /\ replies # <<>> /\ Head(replies).type = "messages"
          /\ k <= Len(SelectSeq(Head(replies).messages, Decodes))
          /\ delivered' = Append([delivered EXCEPT ![Len(delivered)] =
                @ \o [j \in 1..k |-> SelectSeq(Head(replies).messages, Decodes)[j].index]], <<>>)
    /\ idx' = 0 /\ timer' = FALSE
    /\ replies' = <<>>
    /\ requests' = <<CreateRequest>>
    /\ UNCHANGED <<serviceVars, producerVars, saves, lost>>

\* The network loses a message.
Lose ==
    /\ lost < MaxLost
    /\ lost' = lost + 1
    /\ \/ requests # <<>> /\ requests' = Tail(requests) /\ UNCHANGED <<toStream, saves, replies>>
       \/ saves # <<>> /\ saves' = Tail(saves) /\ UNCHANGED <<toStream, requests, replies>>
       \/ replies # <<>> /\ replies' = Tail(replies) /\ UNCHANGED <<toStream, requests, saves>>
       \/ toStream # <<>> /\ toStream' = Tail(toStream) /\ UNCHANGED <<requests, saves, replies>>
    /\ UNCHANGED <<serviceVars, app, ready, outbox, initReply, idx, timer, delivered, crashes>>

Next ==
    \/ Produce \/ ProducerReady \/ ServeProducer
    \/ ServeConsumer \/ ServeSave
    \/ ConsumerInit \/ ConsumerIndex \/ Pulled \/ FetchEvent
    \/ \E k \in 0..Limit : Crash(k)
    \/ Lose

Spec == Init /\ [][Next]_vars

\* Workers handle the messages in their mailboxes and delayed events fire.
Fairness ==
    /\ WF_vars(ProducerReady) /\ WF_vars(ServeProducer)
    /\ WF_vars(ServeConsumer) /\ WF_vars(ServeSave)
    /\ WF_vars(ConsumerInit) /\ WF_vars(ConsumerIndex)
    /\ WF_vars(Pulled) /\ WF_vars(FetchEvent)

FairSpec == Spec /\ Fairness

(***************************************************************************)
(* Properties.                                                             *)
(***************************************************************************)
TypeOK ==
    /\ idx \in 0..MaxApp /\ timer \in BOOLEAN /\ ready \in BOOLEAN
    /\ shards[Consumer] \in -1..Len(storage)
    /\ \A i \in Range(saves) : i \in 1..Len(storage)
    /\ created \subseteq {0}

\* There is one fetch loop: at any time at most one of the scheduled event, the
\* PullRequest and the PullResponse exists, however the consumer was started
\* (fetch_interval is called at the end of a response only).
OneFetchLoop ==
    Cardinality({k \in 1..Len(requests) : requests[k].type = "pull"})
      + Cardinality({k \in 1..Len(replies) : replies[k].type = "messages"})
      + (IF timer THEN 1 ELSE 0) <= 1

\* No message is skipped: whatever index is saved, on its way to the index
\* service or held by the consumer, every message below it that decodes has been
\* passed on.  A crash between passing on and saving may repeat messages and
\* never drops one.
NoneSkipped ==
    LET reached == {idx, shards[Consumer]} \cup Range(saves)
        passed == UNION {Range(delivered[k]) : k \in 1..Len(delivered)}
    IN  \A r \in reached : \A i \in 0..(r - 1) :
            i < Len(storage) /\ (Decodes([data |-> storage[i + 1]]) => i \in passed)

\* One incarnation of the consumer passes every message on at most once, in the
\* order of the stream.
RunsInOrder ==
    \A k \in 1..Len(delivered) : \A i, j \in 1..Len(delivered[k]) :
        i < j => delivered[k][i] < delivered[k][j]

\* What the producer keeps until the stream exists goes out in front of what it
\* sends afterwards: the stream holds the messages in the order of the
\* application, without the lost ones.
StoredInOrder ==
    \A i, j \in 1..Len(storage) : i < j => storage[i] < storage[j]

\* Without losses every message of the application is passed on by the consumer.
Given(d) == app >= d
Consumed(d) == \E k \in 1..Len(delivered) : (d - 1) \in Range(delivered[k])
EventuallyDelivered == \A d \in (1..MaxApp) \ Junk : Given(d) ~> Consumed(d)

=============================================================================
