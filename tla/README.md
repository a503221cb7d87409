# liwi, specified

TLA+ modules, TLC configurations and TLAPS proofs for liwi, a set of packages that carry *live
queries*: a query over a mongo collection whose result is fetched once and then kept up to date,
across a websocket, in the state of a React component. All paths below are relative to the
repository.

The question behind the whole project is the one a user of a live query asks: **is what I see what
a fresh fetch would return?** Everything between a write and the screen may reorder, repeat, lose or
delay; the modules say where that is harmless, the proofs say why, and the findings say where it is
not.

## 1. Inventory

| component | source (`packages/…/src`) | state it keeps | operations |
| --- | --- | --- | --- |
| subscribe store | `liwi-subscribe-store/SubscribeStore.ts` | the set of listeners; per write call, the changes collected so far | the eight write methods, `notifyChanged`, `resync`, `subscribe` |
| mongo store | `liwi-mongo/MongoStore.ts` | none: the collection is the database's | one or two commands per write, `findByKey`, `findAll`, `count` |
| live collection query | `liwi-mongo/MongoQueryCollection.ts` | the closure of `_subscribe`: `sentKeys`, `total`, `isReady`, `isInitializing`, `hasActionDuringInit`, `isStopped` | initial fetch, listener, refetch, re-read, `stop` |
| action queue | `liwi-mongo/createActionQueue.ts` | the tail, a promise | run now, or behind the tail |
| live single-item query | `liwi-mongo/MongoQuerySingleItem.ts` | the item sent, the same flags and queue | as above, for the first document of a sort |
| changes applied by a client | `react-liwi/applyChanges/*` | rows and total | apply `initial`, `inserted`, `updated`, `deleted` |
| message handler | `liwi-resources-server/createMessageHandler.ts` | `openedSubscriptions` | `fetch`, `do`, `subscribe`, `fetchAndSubscribe`, `subscribe:close`, `close` |
| websocket server | `liwi-resources-websocket-server/index.ts` | one message handler and one `isAlive` per socket | upgrade, message, heartbeat, close |
| websocket client | `liwi-resources-websocket-client/createSimpleWebsocketClient.ts` | `ws`, `currentState`, timeouts, backoff, `failureHandled` per socket | connect, close, socket events, visibility |
| websocket transport | `liwi-resources-websocket-client/createWebsocketTransportClient.ts` | `acks`, `subscriptions`, the ids | `send`, `subscribe`, `stop`, state listener |
| store relay | `liwi-resources-server/createStoreRelayResource.ts`, `liwi-resources-client/connectStoreRelay.ts` | whether it was connected before | batches of keys, `resync` |
| React hooks | `react-liwi/useRetrieveResourceAndSubscribe.ts`, `reducer.ts`, … | reducer state, the subscription and its timeouts | subscribe, hide, show, change of parameters, unmount |
| index synchronisation | `liwi-mongo/indexes/*` | none: the indexes are the database's | diff, plan, apply |
| in-memory mongo | `liwi-mongo/memory/*` | documents and indexes | insert, update, delete, find |
| http client and server | `liwi-resources-http-client/createHttpTransportClient.ts`, `liwi-resources-http-server/createHttpRequestHandler.ts` | the state, the abort controller; per request, how far it was read and answered | `connect`, `close`, `send`; checks, body, user, message, answer |
| direct, void and node clients, resources service, mongo connection, store types, extended json, examples | | none that changes, or input and output only | |

How they interact. A *write* awaits its database commands, then calls every listener synchronously.
A *subscription* is such a listener; it fetches, and so runs concurrently with the writes it hears
of, and its queue serialises the two. What it sends travels through the *message handler* of a
connection, the *websocket*, the *transport* and is applied by the *React reducer*. A *relay* is a
listener too: it turns writes of one process into `notifyChanged` of another. An *http request* is one
call with a message handler of its own, beside those of the websocket connections. A *registry*
makes the indexes of the database what its stores declare, while the application writes and other
processes do the same.

What is hard. JavaScript has no data race, but every `await` is a point where any other write,
message, socket event or timeout may run. The hazards, each at its line, are listed in `PROJECT.json`;
in short: a fetch races with the writes it may or may not contain; a re-read overtakes the emission
of an older write; one document of a write of several fails; a window moves when a row leaves it; a
socket fails while its replacement is scheduled; a message crosses the close of its connection; the
parameters of a component change while its page is hidden; two processes apply plans that each made of
the same old indexes.

What makes each component correct:

- subscribe store: a change that is emitted is what is stored, or another emission follows;
- live query: once all is quiet its client shows a fresh fetch; what it believes its client holds is
  what the client holds; nothing overtakes a pending fetch; nothing is sent after `stop`;
- message handler: a running subscription can be found by the message that closes it and by the
  close of its connection; every message is acked;
- websocket client: connected means sending works; one socket at a time; a lost connection is
  attempted again or given up, and is told so once;
- transport: on every connection exactly the held subscriptions are open; no ack waits once nothing that
  could bring it is under way, and over an open connection what is held or was sent is settled (the
  thenable of a subscription that is stopped while disconnected stays pending in the code, and is outside
  these properties);
- single item: its client shows the first document of the sort, whichever write moved it;
- relay: while it says it is live, what differs is announced somewhere on its way;
- React hook: one subscription at most, of the last parameters, and none left behind;
- http: what `send` is told is what happened, whatever is aborted or lost;
- indexes: syncs that end without failure leave what is declared, also when they overlap; a unique index
  owns exactly the keys of its documents.

## 2. Modules

```
SubscribeStore  <- CollectionSubscription <- StoreRelay   (<- MCCollectionSubscription, MCStoreRelay)
                <- SingleItemSubscription                 (<- MCSingleItemSubscription)
MessageHandler  <- WebsocketTransport, also <- ConnectionState (<- MCWebsocketTransport)
                <- HttpTransport                          (<- MCHttpTransport)
ConnectionState <- (INSTANCE) WebsocketClient             (<- MCWebsocketClient)
MemoryCollection <- IndexSync                             (<- MCIndexSync)
ReactResource                                             (<- MCReactResource)

SubscribeStore_proofs  <- LiveQuery_proofs (<- StoreRelay), SingleItemSubscription_proofs
MessageHandler_proofs  <- Websocket_proofs, HttpTransport_proofs
ReactResource_proofs, IndexSync <- IndexSyncInvariants <- IndexSync_proofs
```

An arrow is EXTENDS, from the module extended to the one that extends it, unless it says INSTANCE. The
proofs of a module are in the module of that name with `_proofs`, which extends it; those of
CollectionSubscription and StoreRelay are together in LiveQuery_proofs, and those of the websocket client
(an INSTANCE) and of the transport in Websocket_proofs. IndexSyncInvariants only has definitions: the inductive
invariants of IndexSync, which are long.

### SubscribeStore

`db` is the collection (a key maps to a document or `NoDoc`), `writer` the write call each caller has under
way, `notifier` the calls of `notifyChanged`, `owed` a history: the keys another process has written and
that neither a notification nor a resync has covered since. A document is one of a few states; criteria are
sets of them.

A write is split exactly at its awaits. `Begin` does what a method does before its first await, where
`hasListeners()` is read and decides whether the change will be emitted. `FindKeys` is the read of
`partialUpdateMany` and `deleteMany`. `Commit` is one command that applies, `Miss` one that finds
nothing to apply to; `ReadBack` is the second command of a partial update, `findByKey` after the update;
`CommandFails`, `FindKeysFails`, `ReadBackFails` are the rejections, with what the loop of the method
does with them (`partialUpdateMany` and `deleteMany` stop, `replaceSeveral` waits for the others).
`Return` is the end of the call: what was collected is emitted at that moment, to the listeners of that
moment. `Foreign`, a write of another process, is not code of the repository.

`gaps` is a history variable, never read by a guard. It names the keys for which the code emits nothing
that would bring a listener up to date, and why: *crossed* (another write came between the command of a
write and its emission), *silent* (a write begun before the first listener), *lost* (a read-back or a
notification failed), *missed* (a subscription without initial result whose own fetch differs from its
client's). Convergence is stated outside these gaps; each gap the documentation denies is a configuration of its
own that drops the excuse and is violated.

### CollectionSubscription

Extends the store with one subscription and its client. `sub` is the closure of `_subscribe`, `job` the
tail of the action queue (idle, a fetch, a re-read, or settled with the queue not drained yet), `queue`
the actions behind it, `client` the rows, total and error its callback produced (`applyCollectionChanges`).
`options` is chosen in `Init` among the constant `Options`: initial result or not, skip, limit, criteria
that mingo can test or not (`$text`).

`HandleAction` is the body of `handleAction`, its early returns as disjuncts; `Receive` is the listener,
immediate when nothing is pending and queued when something is. A fetch answers its two commands at two
moments (`FindAnswers`, `CountAnswers`), as `Promise.all` does. `EmitWritten`, `EmitNotified` and
`EmitResync` compose an emission of the store with `Receive`, in one step, because `callSubscribed` is
synchronous. The changes are applied to the client in the step that sends them: the transport keeps
their order (WebsocketTransport), and a connection that is lost opens a new subscription.

### MessageHandler

One handler per connection: `served` (before, open, closed), `opened` (the map of the handler), `call`
(each message with an id). A call awaits its query (`creating`), then its first fetch (`opening`), and
is acked. `Close` stops what the map holds at that moment, as the code does, and looks at nothing else.
`late` is a history field: the call whose query was awaited when its id or its connection was closed.

### WebsocketClient and ConnectionState

`createSimpleWebsocketClient`, every socket it ever created with the closure of its `connect`
(`failureHandled`), the timeout, the attempts left, and the page visibility. `ConnectionState` is its
abstract specification, what a listener of the state may rely on; `ImplementsConnection` is the
refinement, in which *reconnect-scheduled* and *wait-for-visibility* are a lost connection.

### WebsocketTransport

Composes `ConnectionState` (what the transport knows of its connection), `MessageHandler` (the server)
and two FIFO channels per connection. `acks` and `subs` are the two maps of the code; a subscription
is sent once on each connection, so its message is named by the pair. `Subscribing` is the list of the
messages one call of `sendSubscriptions` sends, in the order of the ids. `ServerReceives` hands a message
to the handler's own action, `ServerCalls` adds the ack to the step of a call. A socket may be cut at any
moment: what was on its way to the server is lost, and what was on its way to the client is not read
once the client is no longer connected over it.

### SingleItemSubscription

`MongoQuerySingleItem._subscribe` over the same store, with the same queue, written as one record `job`
and a sequence. The item shown is a set of at most one pair of key and document. Unlike the rows of a
collection, the order is by a field that writes change (`Position`), since which document is first is the
whole question. `Firsts(db)` is what a fetch limited to one may answer, several when nothing orders them.
`seen` is a history of where the item shown came from.

### StoreRelay

Composes CollectionSubscription, as the live query of the consumer, with a producer in place of the
writes of another process. `producer` is its write, which decides when it begins whether it emits;
`served` holds the keys that wait for the timeout of 0 ms; `channel` is what was sent on the connection in
use; `relay` is the state its user reads. `Leave` cuts the connection or gives it up: what is on its way
is not received, and what served it may listen on until its server notices (`isLingering`).
`ReceiveInitial` is the resync of every store, `ReceiveBatch` a call of `notifyChanged` that nobody waits
for. `unrelayed` is a history of the writes begun before the producer listened.

### ReactResource

`useResource`, with subscription or without (chosen in `Init`). A render (`Render`) and its effects are
steps apart, and the page, the timeouts and the answers come between. `requests` are the subscriptions, or
the fetches, the hook started; `refs`, `timers` and `current` its refs, timeouts and closure; `view` the
state of the reducer, `Given` what the component receives. `lapse` is a history: the parameters changed
while the page was hidden.

### MemoryCollection and IndexSync

MemoryCollection is pure: the commands of the in-memory mongo client as operators from a collection to a
result (error code and collection). A document is its id, whether it meets a partial filter, and the set
of values at each field; what is kept exactly is the keys of the unique indexes (`ListEntries`, the
owners), since a write of several documents that is refused half way must leave them consistent. IndexSync
gives the operators a life: `collection` is every collection, `sync` every call of `syncIndexes`, whose
phases are its awaited commands (`List`, `DropIndex`, `CollMod`, `CreateIndexes`, then one by one, then
the recovery of a conflict), with writes and other syncs between any two. An option that is absent is
its default, as normalisation makes it. Selections, orders and overlays of the code's arrays and objects
are by position (`At`, `Nth`, `Over`), so that the lemmas of the proofs can speak of them.

### HttpTransport

Extends MessageHandler: requests are connections that have one call. `request` is the promise of `send`,
with the signal its fetch was given, `signals` the abort controllers, `answer` the server's side: reading,
authenticating, handling, ended. `Post` is one step with the read of the signal, after the headers; a
close cannot reach a request whose headers it awaits. Shapes name the first check that a request fails.
`SocketStep` lets websocket connections run beside.

## 3. Runs

All run with `tlc -workers 2 -config <run>.cfg <module>`. `CHECK_DEADLOCK` is FALSE in all: the bounds
of the inputs (`Workloads`, `MaxConnects`, `MaxCalls`, …) let the system come to rest, and a system at
rest is not a failure here.

| run | module | what it asks |
| --- | --- | --- |
| `CollectionLocal` | MCCollectionSubscription | one key, two writers with every method that writes one document, or a writer and a write of another process, notified or followed by a resync; with and without initial result, with untestable criteria, with another listener. Convergence, held keys, fresh emissions, no overtaking, totals, silence once stopped |
| `CollectionWindows` | MCCollectionSubscription | `limit: 1`, and `skip: 1`, over two keys: a local write crosses one of another process, or two local writes, of several documents too (`replaceSeveral`, `partialUpdateMany`, `deleteMany`), which may fail after the first. Convergence of the window, and of what a failed write had written |
| `SingleItem` | MCSingleItemSubscription | two documents that writes move in the sort, one or several at a time, local or notified; with a sort or without. The item held, and that it is the first |
| `RelayReaches` | MCStoreRelay | one key, one document state, one notifier and a plain query (initial result, no window, criteria mingo tests); two writes of a producer over up to two connections. Nothing is missed while live, writes reach the client, the queue drains |
| `HandlerCalls` | MCHttpTransport | two calls in all, of a websocket connection with two ids or by a request, the client closed, the network failing. Running subscriptions are found, closing stops what was opened, every call is acked; every `send` settles, with what happened |
| `WebsocketReconnects` | MCWebsocketClient | a client connected once: failures, refusals, hidden pages, limited attempts. Refinement of ConnectionState, one open socket, attempts end, and more |
| `TransportResubscribes` | MCWebsocketTransport | two connections, a subscription and an operation. Exactly the held subscriptions are open, no promise is left |
| `ReactHook` | MCReactResource | three requests, two renders with other parameters or skip, three toggles of the page. One subscription, of the last parameters; the latest answer wins; a hidden page releases |
| `IndexSync` | MCIndexSync | two syncs and a dry run of two stores, two writes, and indexes that are missing, changed, renamed, undeclared; a unique index over a text field, and a partial one that updates take documents into and out of. Unique keys are owned, what is declared is there, failures are of duplicates, healthy indexes stay |
| `HandlerClose`, `ReactHidden`, `IndexKept` | | violations, see section 5 |

A type invariant and the main invariant of a module are checked under one name where both fit
(`SingleInv`, `RelayInv`, `HookInv`, `SyncInv`, `ClientInv`, `TransportInv`, `HttpInv`).

Why these bounds suffice. The code treats keys independently except in windows, in a sort and in loops over
several documents, so one key shows every race of a single document (two writers, a fetch, a notification;
`CollectionLocal`), and two keys, with a window or an item of one, show what one document does to another
and what a write of several leaves when it fails in between (`CollectionWindows`, `SingleItem`). Two writes
are the smallest number for which an emission can be overtaken; a third only repeats it. A document that
matches, another that matches and one that does not tell entering, leaving and changing apart. Two
connections are the smallest number for which anything of an old connection can meet a new one; the relay
has a second write on one, or one write and two connections. A component needs a first subscription, one of
other parameters and one after a release; hiding, showing and hiding again leave a timeout of the first
hiding behind. Two syncs, of which one keeps what is not declared, are enough for a plan to be applied over
another's drops and creations. Requests have handlers of their own, so one beside a connection tells what is
shared: the calls, and the order of close and answers. A message and a request, two messages of one
connection, and a request alone are the three ways to spend `MaxCalls`. Symmetry is declared only where no
order distinguishes the values, and in no run that checks liveness.

Fairness. `QueueStep`: the event loop runs a settled promise, and mongo answers or rejects each command.
`CallStep`: a query is created, or its creation fails. `TimerFires` and `SocketProgresses`: timeouts fire, a
socket that opens, fails or was closed has its event, and the server acks a socket that opened. `ReceiveAck`
and `ServerReceives`: an open socket delivers. `Noticed`: a socket that the server closed has its close
event at the client. For the relay: the producer's write ends, a message of a connection in use is sent and
delivered, the consumer's queue runs. For the hook: React runs the effects of a render, timeouts end,
requests are answered. For http: `ClientStep`, in which headers are known or fail, fetches are made and
answers are read, and `ServerStep`, in which a posted request arrives and its body ends or breaks off. No
fairness is assumed of the application, of other processes, of writes, of reconnections or of losses
(`Lost`), and none says that a command succeeds rather than fails.

Each property of a passing run is also shown to depend on the code: `PROJECT.json` names, for each, a
definition and a plausible mistake in it (the operators commented `variant`) with which TLC finds the
property violated.

## 4. Proofs

Every theorem is checked by TLAPS down to its last leaf, for every value of the constants that the
named assumptions of the modules allow (`SubscribeStoreAssumption`, `CollectionAssumption`, …, which TLC
evaluates in each run): any finite set of keys, any number of writers, notifications, connections,
subscriptions, sockets, renders and requests, and any bounds. A theorem that needs more says so in its
statement.

**The live query** (`SubscribeStore_proofs`, `LiveQuery_proofs`).

- `TypeCorrect`; `StoppedIsSilent`, an action property of every step.
- `EmissionsAreFresh`: not inductive by itself. `FreshInv` adds what a call has at each phase (a call that
  has not written has collected nothing; a key being read back or already collected is no longer to do),
  so that the command that writes a key never follows, in the same call, its own emission.
- `HeldKeysAgree`: `HeldBy` and `OpenInv` relate `sentKeys` to the rows of the client before the
  subscription is ready, and a re-read only exists once it is (`RereadInv`), since it applies its result
  without looking at `isReady`. `TotalsFollowRows` follows, with a lemma on cardinalities: the keys
  inserted were not held, those deleted were. `ResultsInOrder` is a step argument over the same facts.
- `ClientConverges`, the theorem the project is about. Its invariant, `FollowInv`, says that there is a
  collection `d` which the client follows: what is shown, or what the pending fetch will show, is what is
  found in `d`, and wherever `d` differs from what is stored the subscription is still to be told. To be
  told of a key is to have it owed by another process, held by a write or a notification under way
  (`Underway`), or settled by the queue (`Settles`: the last action that speaks of the key says what is
  stored, or the pending work has yet to read it). One `d` for all keys, and not a row at a time, is what
  makes windows provable: a window moves as a whole with `d`. With no write, notification or action left
  `d` agrees with the collection, and what is found in it is a fresh fetch.

**The single item** (`SingleItemSubscription_proofs`): `SingleTypeCorrect`, `HeldItemAgrees`, and
`ShowsTheFirst`. The last cannot be proved for one key at a time: the item is wrong when its own document
changed, or when another comes before it. `FollowInv` keeps both apart (`Wrong` keys must still be
*stirred*, reported as no longer what was said; `Missing` ones must still be *told*, reported as they
are), and `QueueInv` says of every action that waits that, if it was overtaken, one behind it says so.
`TwoInv` and `SourceInv` carry the histories that the unsorted case is excused by.

**The relay** (`LiveQuery_proofs`): `RelayImplementsQuery`, a refinement: every step of the consumer's relay
is a step of `Spec`, the producer, its connection and the channel being one more process that notifies; so
`Converged` and `HeldKeys` hold of the consumer (`ConsumerConverges`). `Converged` speaks of a collection in
which nothing is `owed`; a resync clears it, so that the theorem covers a batch lost with a cut: after the
initial of the next connection the client shows a fresh fetch once it is quiet. `LiveRelayMissesNothing` is
proved from `WatchInv`: while the relay is live a row that is not right has its key in the queue, or in one
of the places a batch goes through (`Relayed`). Its hypothesis, `PlainOptions`, leaves out three kinds of
queries, for which the statement of a single key is not inductive: with a window, a row moves because of
another document; a criterion that mingo cannot test ignores what it is told; without initial result, the
client may hold rows of a fetch that the subscription never saw. `RelayReaches` has the plain query only, as
the theorem. Of the last two kinds the statement is false, as TLC shows with that run's instance, since a
change announced is dropped and nothing is announced any more; with `limit: 1` or `skip: 1` TLC finds it
true there (542,192 and 287,404 states), of one key. What is known of all three is `ConsumerConverges`, once
all is quiet, outside its excuses (gap *missed*; nothing is claimed of criteria mingo cannot test).

**Message handler** (`MessageHandler_proofs`): `HandlerTypeCorrect`, `RunningAreFound` and
`ClosedStopsWhatWasOpened`, parts of one invariant, `HandlerInv`, which adds that what the map holds was
opened there under that id (so `close` reaches it), that a call awaiting its query has made no
subscription, and that what still runs, or may, on a closed connection is late.

**Websocket transport** (`Websocket_proofs`): `PromisesAreUnderWay`, `HeldAreResubscribed`,
`NoneIsOrphan` and `CloseEnds`, and `TransportRunsItsParts`, that the composition implements the
specifications of its two parts. `TransportInd` contains `HandlerInv`, whose lemmas are used for the server's
steps, and relates three places in which a subscription is: what the client holds, what a socket
carries, what the server runs. A subscription held was sent on this connection and is a message under way, a
call, or refused (`SentInv`), its promise pending or its thenable settled (`OwedInv`). What is no longer
held, and is still to be opened or runs, is followed by its close: a message *behind* the one that
opens it, so that the order of the socket matters (`CloseFollows`). And nothing has been sent over a
connection that is not established (`FreshInv`), so that what a new connection starts from is nothing.
TLC checked `TransportInd` before: in the run's instance, and with two subscriptions and no operation
(6,305,835 states), where messages of one subscription lie between those of the other.

**Websocket client** (`Websocket_proofs`). The code does not keep its promises to every application:
a socket that `close` leaves behind may end in the connection made since (`WebsocketStaleSocket`). So
the theorems are of `PatientSpec`, in which the application connects again, as often as it likes, once the
sockets it left are gone: `PatientHasOneSocket`, `PatientClientSends`, `PatientClosedIsQuiet`, and the
refinement `PatientImplements` of ConnectionState. Of `Spec` itself the same is proved under
`MaxConnects <= 1`, an application that connects once (`OnceClientSends`, with `WaitsOnlyWhileHidden`, and
`OnceImplements`); it is patient because nothing was used before. `FailuresAnnounceReconnections` needs
neither.

**React hook** (`ReactResource_proofs`): `NeverTwoSubscriptions`, from `OneInv` (the subscription that
lives is the one in the ref, and is of the last query); `ShownComponentSubscribes`, from `PageInv` (the one
timeout is that of the ref, and runs for a hidden page); `ShowsWhatIsCurrent`, from `AnswerInv` (the
answers that wait end with the result of now, or it is shown); `LatestFetchIsShown`, from `FetchInv`.

**Http** (`HttpTransport_proofs`): `CloseAbortsWhatItMust`, `ToldIsWhatHappened`, and `SocketsBesideHttp`,
that what `MessageHandler` keeps is kept beside requests too. `HttpInd` contains `HandlerInv`; it adds
that a request is not a call before its user is known (`AnsweredOnce`), that a body says what became of
the call (`BodyTells`), that a settled send says what the body says, whatever the network lost in between
(`ResultIsBody`), and that the current controller is newer than every aborted one and is that of every
fetch under way (`CurrentIsFresh`).

**Index synchronisation** (`IndexSync_proofs`, its invariants in `IndexSyncInvariants`), for any registry, any declarations, any number of syncs
and any writes between two of their commands.

- `KeysStayOwned`: unique keys, unique ids and the types of a sync. `SyncInv` is not inductive: `IndexInv`
  adds that a collection's fields are what the commands expect and that the owners of *every* index are the
  keys of the documents (`CollectionsGood`), and that a sync's plan only holds descriptions with all
  their options and distinct names, and changes that touch neither name, key nor uniqueness (`SyncsGood`).
  The commands are folds; a fold is unrolled once (`FoldRuns`) into a *run*, the values it goes through,
  and what each command keeps is then an induction on the length of the run, by counting
  (`CountsUp`, from the theorems on finite sets), since induction with an operator as its parameter is out
  of reach. One step of a run is a document that enters, moves or leaves (`KeysEnter`, `KeysMove`,
  `KeysLeave`).
- The assumptions are those of the code: declarations are what the constructor of a store accepts
  (`StoresAssumption`), what is there before was made by such declarations and by inserts
  (`PreexistingAssumption`), and an upsert can always find an id nobody has (`WritesAssumption`,
  `IdsAssumption`).
- `HealthyIndexesStay`: an index that is as declared is never taken away by a sync that no other
  overlaps. `HealthInv` adds to `IndexInv` what such a sync knows between two commands (`PlanInv`): what it
  has left to drop is not as declared, what it has left to make is not there as declared, and its changes
  set what is declared. It survives the writes of the application because they make no index, and it needs the
  history of overlaps (`AloneInv`). The hypothesis, `DistinctDeclarations`, is needed: with two indexes of
  a store on one key the recovery of a conflict may drop the wrong one (section 5).
- `SyncsConverge`: whatever syncs overlap, once all are over and none failed on a collection, what is
  declared is there as declared. An overlap breaks what `PlanInv` says (another sync makes what this one is
  about to make), so `ConvergeInv` states less of each sync and more of them together. Less: it has only declared
  indexes left to make, changes to what is declared left to set, and drops a declared index only with its
  description left to make (`OutlineInv`). That survives the steps of the others since each of them
  *respects* the declarations (`Respects`): it makes an index only as declared and sets an option
  only to its declared value. More: from the first listing of a store by a sync that is no dry run, each
  declared index is there as declared, or some sync at that store still owes it, or one failed there, or the
  collection was dropped (`PromiseInv`). A step passes this on in two halves: the sync that acts keeps or
  pays what is owed (`Serves`), and what the others owe stays owed (a change to what is declared mends an
  index whichever of two syncs sets it first). `DistinctDeclarations` is needed here too: with two
  declarations of a store on one key, a recovery may drop the index of the other after it was found
  healthy, and two stores of one collection each drop what only the other declares.

TLC checked the parts of the three invariants too, in every state of the run's instance (749,859 states).

Only model-checked: all liveness (`EveryCallAcked`, `SendSettles`, `PendingEnds`, `AttemptsEnd`,
`WritesReachClient`, `QueueDrains`, `ReleasedWhenHidden`), which rests on fairness and ENABLED; and,
of IndexSync, `FailsOnDuplicates`. It does not hold of every registry the code accepts, also with distinct
declarations: a sync that keeps what is undeclared fails on a text index when
an undeclared one exists, since it is not found by its key, and on a key that two undeclared indexes have with
different collations, since the first of them may be the one that does not conflict.

## 5. What the code does not keep

Runs that end in a counterexample, each on a statement of the repository:

- `HandlerClose`: a subscription whose query is awaited while its connection closes is opened
  afterwards, runs its hook, and is stopped by nobody.
- `ReactHidden`: when the parameters change while the page is hidden, the subscription that was stopped
  stays in its ref; the page is shown, and the hook takes it for one that runs.
- `IndexKept`: with `--keep-undeclared`, a declared index that conflicts with an undeclared one of the
  same key drops it, and the result does not list it among those dropped.

Further configurations, kept beside the runs, in which TLC finds a statement of the repository violated
(`tlc -config <name>.cfg <module>`):

| configuration | module | statement | what happens |
| --- | --- | --- | --- |
| `CollectionCrossing` | MCCollectionSubscription | `CrossingHarmless`: the comment of `notifyChanged` says a notification crossing a local write is harmless | a local write emits the state it read back; another process overwrote it and a subscription re-read it before, and the older state stays |
| `CollectionReadBack` | MCCollectionSubscription | `SuccessesEmitted`: the README of liwi-subscribe-store says the writes that succeeded are emitted | `partialUpdateMany` applies an update, fails to read it back, and emits nothing for it |
| `RelayBegunBefore` | MCStoreRelay | `LaterWritesReach`: the comment of the initial, `createStoreRelayResource.ts:74`, says later writes reach the consumer | a write begun before the producer listened commits after the resync, and is not emitted |
| `SingleInsert` | MCSingleItemSubscription | `InsertKeepsFirst`: the comment at `MongoQuerySingleItem.ts:103` says it fetches when only the query knows | a document inserted replaces the item shown, though it sorts after it |
| `WebsocketHidden` | MCWebsocketClient | `WaitsOnlyWhileHidden`, for a client that connects again | `close` stops listening to the page visibility and `connect` does not listen again: the client waits for a page it no longer hears of |
| `WebsocketStaleSocket` | MCWebsocketClient | `FailuresAreOfSocketInUse` | the close event of a socket left by `close` is taken for a failure of the connection made meanwhile |

Met while modelling, and excused in the properties or noted as hazards:

- a write begun before the first listener is not emitted to a listener that subscribes before it
  commits, though the README of liwi-subscribe-store says listeners are told of every write (gap
  *silent*);
- a subscription without initial result misses a write between its client's fetch and its own that no
  action reported (gap *missed*; comment at `MongoQueryCollection.ts:185`);
- the rows and the total of one fetch come from two commands, so the total may be off by what was
  written between them (`MongoQueryCollection.ts:148` says the client equals a fresh fetch): totals are
  only claimed to move with the rows between two results;
- a fetch of a single item answers `meta.total` 1 when there is none (`MongoQuerySingleItem.ts:86`), and
  without a sort a batch in which the match moves from one document to another may report that it
  should not match more than one;
- with `reconnectionAttempts` exhausted, `onConnectionFailure` announces a reconnection that never comes
  (`createSimpleWebsocketClient.ts:225` returns without a word): `Exhausted` is excused;
- `stop` of a transport subscription deletes an ack by an id that is not the ack's;
- the close of a relay leaves `isLive` as it was: the properties read it while the relay is open;
- React: a single item that becomes null is never shown as gone (`useRetrieveResourceAndSubscribe.ts:135`,
  excused in `ShowsCurrent`); the timeout of a page hidden before may stop the subscription made since
  (`lapse`); the error of a fetch that is no longer the latest is shown (`useRetrieveResource.ts:54`,
  excused in `LatestFetchWins`); after an error, a new fetch gives initialLoading and initialError at once;
  the refusal of a subscription that was stopped is shown as an error;
- the search for a conflicting index compares keys alone, so a recovery may drop an undeclared index with
  the same key and another partial filter; and where a store declares two indexes on one key with two
  collations, a sync that meets an undeclared third drops the healthy one of the first (found by TLC;
  `DistinctDeclarations` excludes it);
- http: a close while the headers of a request are awaited does not abort that request, since its signal
  is read afterwards (the README of liwi-resources-http-client says close aborts requests in flight);
  an unexpected error of an operation is answered 500 and not logged, since the promise is returned from
  the `try` without being awaited; a result that cannot be encoded is found out after the head of a 200 was
  written, and the caller gets an answer that it cannot read;
- websocket server: an authentication that throws synchronously is not caught
  (`liwi-resources-websocket-server/src/index.ts:188`), and its README says the connection goes on with
  null.

## 6. Not modelled

- Data the properties do not tell apart: timestamps and protected fields of writes, projections,
  transformers, encodings, messages of errors, lengths of delays, users and what they may do.
- Sort orders that writes change, for collections: rows are ordered by a field no write touches (`Rank`);
  SingleItemSubscription models a sort that they do.
- Fallbacks of the subscribe store for a wrapped store without the `WithInfo` methods; no store of the
  repository is one.
- Listeners and hooks that throw: those of the repository do not.
- Messages delivered to a client's socket that is already closing: WebsocketClient assumes there are none,
  but a socket of node's `ws` may still emit one, such as a late ack.
- The refusals a transport subscription is told through its callback, on connections after the one that
  settled it: of refusals, WebsocketTransport follows what the thenable tells.
- The heartbeat of the websocket server but for the close it causes, and the close of the whole server.
- What the resubscription of a transport does to the values its subscriptions carry.
- Several relayed stores, and chains of relays: a relay acts on each store alike, and the consumer of one
  is the producer of the next, whose writes are then `notifyChanged`.
- IndexSync: the command line, `dropIndex` of `_id_`, options the diff compares like the ones it has
  (languages, wildcard projections). MemoryCollection: cursors, aggregations, and what each update
  operator computes, which is taken from mingo.
- React: a first render that is discarded or made twice (StrictMode, a suspended tree): it runs the
  initializer of the reducer, and with it `subscribe`, again, and nothing stops the first. The first render is
  taken as the one that is committed.
- React: `usePaginatedResource` and `useOperation`, a state of two numbers and a promise.
- Components without state that changes or that only do input and output: direct, void and node clients,
  resource registries, mongo connection, store types, extended json, examples.

## 7. Plan

Done: every module of section 2, its runs, and the theorems of section 4; every safety property that a
passing run checks is a theorem, but `FailsOnDuplicates`.

Next, the most important first:

1. `FailsOnDuplicates`, under hypotheses on what was there before that exclude the two cases of section 4;
2. `LiveRelayMissesNothing` for queries with a window, from a collection that is followed as in
   `FollowInv`;
3. the values of subscriptions carried by WebsocketTransport across a reconnection, and a chain of relays.
