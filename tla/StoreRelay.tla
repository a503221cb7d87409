------------------------------ MODULE StoreRelay ------------------------------
(***************************************************************************)
(* Two processes over one collection: the writes made through the          *)
(* SubscribeStore of the producer reach the live query of the consumer by  *)
(* a store relay (createStoreRelayResource of liwi-resources-server,       *)
(* connectStoreRelay of liwi-resources-client).  It replaces the external  *)
(* process of CollectionSubscription, which it extends with the producer,  *)
(* the relay subscription it serves, the connection and the consumer's     *)
(* end; the live query, its queue and its client are those of that module. *)
(*                                                                         *)
(* One store is relayed, and one live query listens to it.  Connections    *)
(* are made and cut as a transport client makes them: the subscription is  *)
(* sent on each, and an answer of an earlier connection is not received.   *)
(* The resyncs of the workload bound the connections that are of use.      *)
(***************************************************************************)
EXTENDS CollectionSubscription

VARIABLES
    producer,   \* the write the producer's store has under way
    served,     \* what the producer keeps for the relay subscription
    link,       \* the state of the consumer's transport client
    channel,    \* messages sent on the connection and not received
    relay,      \* the consumer's end: StoreRelayState, and whether it was closed
    unrelayed   \* history: keys of writes begun before the producer listened

relayVars == <<producer, served, link, channel, relay, unrelayed>>
allVars == <<vars, relayVars>>

NoCall == [phase |-> "idle", key |-> {}, doc |-> NoDoc, emits |-> FALSE]
NotServed == [isListening |-> FALSE, isLingering |-> FALSE, pendingKeys |-> {}]
Initial == [type |-> "initial", keys |-> {}]
Batch(ks) == [type |-> "inserted", keys |-> ks]

RelayTypeOK ==
    /\ TypeOK
    /\ producer \in [phase : {"idle", "writing", "written"}, key : SUBSET Key,
                     doc : State, emits : BOOLEAN]
    /\ served \in [isListening : BOOLEAN, isLingering : BOOLEAN, pendingKeys : SUBSET Key]
    /\ link \in {"disconnected", "connected", "closed"}
    /\ channel \in Seq([type : {"initial", "inserted"}, keys : SUBSET Key])
    /\ relay \in [isLive : BOOLEAN, isClosed : BOOLEAN]
    /\ unrelayed \in SUBSET Key

RelayInit ==
    /\ Init
    /\ producer = NoCall
    /\ served = NotServed
    /\ link = "disconnected"
    /\ channel = <<>>
    /\ relay = [isLive |-> FALSE, isClosed |-> FALSE]
    /\ unrelayed = {}

-----------------------------------------------------------------------------
(* The producer's store.  Another listener than the relay is not modelled:   *)
(* it would only make more of the writes emit.                               *)

\* a subscription of a connection that was cut listens until its server notices
ProducerHasListeners == served.isListening \/ served.isLingering

\* as for any write, whether it emits is decided when it begins
ProducerBegins(k, d) ==
    /\ producer.phase = "idle" /\ budget.foreign > 0
    /\ producer' = [phase |-> "writing", key |-> {k}, doc |-> d, emits |-> ProducerHasListeners]
    /\ UNCHANGED <<vars, served, link, channel, relay, unrelayed>>

ProducerCommits ==
    /\ producer.phase = "writing"
    /\ \E k \in producer.key : Foreign(k, producer.doc)
    /\ producer' = IF producer.emits THEN [producer EXCEPT !.phase = "written"] ELSE NoCall
    /\ unrelayed' = IF ~producer.emits /\ served.isListening
                    THEN unrelayed \cup producer.key ELSE unrelayed
    /\ UNCHANGED <<subVars, served, link, channel, relay>>

\* the command finds nothing to write, or throws
ProducerFails ==
    /\ producer.phase = "writing"
    /\ producer' = NoCall
    /\ UNCHANGED <<vars, served, link, channel, relay, unrelayed>>

\* the listener of subscribeChangedKeys: the keys wait for the flush
PendingWith(s, keys) == IF s.isListening THEN s.pendingKeys \cup keys ELSE {}

ProducerEmits ==
    /\ producer.phase = "written"
    /\ served' = [served EXCEPT !.pendingKeys = PendingWith(served, producer.key)]
    /\ producer' = NoCall
    /\ UNCHANGED <<vars, link, channel, relay, unrelayed>>

-----------------------------------------------------------------------------
(* The relay subscription, on the producer                                   *)

\* It listens, and then says so with its initial result.
Serve ==
    /\ link = "connected" /\ ~relay.isClosed /\ ~served.isListening
    /\ served' = [served EXCEPT !.isListening = TRUE, !.pendingKeys = {}]
    /\ channel' = Append(channel, Initial)
    /\ UNCHANGED <<vars, producer, link, relay, unrelayed>>

\* the timeout of 0 ms that a first pending key starts
Flush ==
    /\ served.isListening /\ served.pendingKeys # {}
    /\ channel' = Append(channel, Batch(served.pendingKeys))
    /\ served' = [served EXCEPT !.pendingKeys = {}]
    /\ UNCHANGED <<vars, producer, link, relay, unrelayed>>

\* the server notices that the connection is gone, or gets the unsubscribe: stop
StopServing ==
    /\ served.isLingering
    /\ served' = [served EXCEPT !.isLingering = FALSE]
    /\ UNCHANGED <<vars, producer, link, channel, relay, unrelayed>>

-----------------------------------------------------------------------------
(* The consumer: its connection, and what it makes of the messages           *)

Connect ==
    /\ link = "disconnected" /\ budget.resyncs > 0
    /\ link' = "connected"
    /\ UNCHANGED <<vars, producer, served, channel, relay, unrelayed>>

\* nothing of the relay subscription is received any more
Abandon ==
    /\ channel' = <<>>
    /\ served' = [isListening |-> FALSE, pendingKeys |-> {},
                  isLingering |-> served.isLingering \/ served.isListening]

\* variant: the state outlives the connection
LiveWhateverLink(state) == relay.isLive
\* listenStateChange: live until the next initial only while connected
LiveAfter(state) == relay.isLive /\ state = "connected"

\* the connection is cut, or the transport client gives up
Leave(state) ==
    /\ link # "closed"
    /\ state = "disconnected" => link = "connected"
    /\ link' = state
    /\ Abandon
    /\ relay' = IF relay.isClosed THEN relay ELSE [relay EXCEPT !.isLive = LiveAfter(state)]
    /\ UNCHANGED <<vars, producer, unrelayed>>

\* close of the relay: the state is not listened to any more
CloseRelay ==
    /\ ~relay.isClosed
    /\ relay' = [relay EXCEPT !.isClosed = TRUE]
    /\ Abandon
    /\ UNCHANGED <<vars, producer, link, unrelayed>>

\* variant: a reconnection goes on without resync
ReceiveInitialSilently ==
    /\ channel # <<>> /\ Head(channel) = Initial
    /\ relay' = [relay EXCEPT !.isLive = TRUE]
    /\ channel' = Tail(channel)
    /\ UNCHANGED <<vars, producer, served, link, unrelayed>>

\* initial: every store refetches, whatever was missed
ReceiveInitial ==
    /\ channel # <<>> /\ Head(channel) = Initial
    /\ EmitResync
    /\ relay' = [relay EXCEPT !.isLive = TRUE]
    /\ channel' = Tail(channel)
    /\ UNCHANGED <<producer, served, link, unrelayed>>

\* inserted: each batch is a call of notifyChanged, which is not waited for
ReceiveBatch ==
    /\ channel # <<>> /\ Head(channel).type = "inserted"
    /\ \E n \in Notifier : NotifyChanged(n, Head(channel).keys)
    /\ channel' = Tail(channel)
    /\ UNCHANGED <<subVars, producer, served, link, relay, unrelayed>>

-----------------------------------------------------------------------------
ProducerStep == ProducerCommits \/ ProducerFails \/ ProducerEmits
NotificationStep == (NotifierStep /\ UNCHANGED subVars) \/ \E n \in Notifier : EmitNotified(n)
ConsumerStep == NotificationStep \/ QueueStep

\* the writes of the consumer, and the end of its live query, are those of
\* CollectionSubscription
RelayNext ==
    \/ \E k \in Key, d \in State : ProducerBegins(k, d)
    \/ ProducerStep
    \/ Serve \/ Flush \/ StopServing
    \/ Connect \/ CloseRelay
    \/ \E state \in {"disconnected", "closed"} : Leave(state)
    \/ ReceiveInitial \/ ReceiveBatch
    \/ (Open \/ ConsumerStep) /\ UNCHANGED relayVars

RelaySpec == RelayInit /\ [][RelayNext]_allVars

(***************************************************************************)
(* Both event loops run what is ready, mongo answers or fails each         *)
(* command, and a message of an open connection arrives.  Nothing says     *)
(* that a connection is made, or kept.                                     *)
(***************************************************************************)
RelayFairness ==
    /\ WF_allVars(ProducerStep)
    /\ WF_allVars(Serve \/ Flush \/ ReceiveInitial \/ ReceiveBatch)
    /\ WF_allVars(ConsumerStep /\ UNCHANGED relayVars)
RelayFairSpec == RelaySpec /\ RelayFairness

-----------------------------------------------------------------------------
(* Properties *)

\* isLive, as its user reads it while the relay is not closed
IsLive == relay.isLive /\ ~relay.isClosed
Watches == Live /\ sub.isReady /\ ~client.hasError

\* what will still make the subscription look at the key k, or show what it has found
Announced(k) ==
    \/ producer.phase = "written" /\ k \in producer.key
    \/ k \in served.pendingKeys
    \/ \E i \in DOMAIN channel : channel[i] = Initial \/ k \in channel[i].keys
    \/ \E n \in Notifier : k \in KeysOf(notifier[n].states)
    \/ \E i \in DOMAIN queue : queue[i].type = "resync" \/ k \in KeysOf(queue[i].states)
    \/ job.kind = "fetch" /\ (~job.findDone \/ job.rows[k] = Found(db)[k])
    \/ job.kind = "reread" /\ k \in job.keys /\ (~job.findDone \/ job.rows[k] = db[k])

\* a notification or a fetch that failed is reported and not made again
Reported(k) == client.hasError \/ k \in Excused({"lost"})

(***************************************************************************)
(* isLive keeps its word at every moment: nothing was missed since the     *)
(* last resync (StoreRelayState).  While it is set, a row that differs     *)
(* from the collection is announced: a key, an initial or a fetch that     *)
(* will bring it is somewhere between the producer's store and the client, *)
(* whatever connections were cut before.  Excused: a write begun before    *)
(* the producer listened, and a notification that was reported as failed.  *)
(***************************************************************************)
LiveMissesNothing ==
    (IsLive /\ Watches) => \A k \in Key : Agrees(k) \/ Announced(k) \/ Reported(k) \/ k \in unrelayed

(***************************************************************************)
(* The invariants of every state: types, and nothing missed while live.    *)
(***************************************************************************)
RelayInv == RelayTypeOK /\ LiveMissesNothing

(***************************************************************************)
(* A write of the producer ends up shown by the consumer's client, when    *)
(* the relay stays live and the subscription open, or an error tells that  *)
(* it does not.                                                            *)
(***************************************************************************)
WritesReachClient ==
    \A k \in Key :
        (IsLive /\ Watches /\ ~Agrees(k))
            ~> (Agrees(k) \/ ~IsLive \/ ~Live \/ Reported(k) \/ k \in unrelayed)

-----------------------------------------------------------------------------
(* A statement of the documentation the code does not keep *)

(***************************************************************************)
(* createStoreRelayResource.ts:74: the initial is sent once listening, so  *)
(* the consumer knows that later writes reach it.  A write decides when it *)
(* begins whether it emits: one begun before the producer listened,        *)
(* committed after the consumer refetched, is relayed by nobody.           *)
(***************************************************************************)
LaterWritesReach ==
    (IsLive /\ Watches) => \A k \in Key : Agrees(k) \/ Announced(k) \/ Reported(k)
=============================================================================
