# A formal model of rtMessage

rtMessage is a small message bus.  A daemon, `rtrouted`, accepts connections
and forwards messages between them by topic; programs link `rtConnection` to
send, request and listen; `dataProvider` builds a data model (get and set of
named properties) on top of it.  This directory holds TLA+ modules of the parts
whose behaviour is hard to test, the TLC instances that check them, and proofs
that TLAPS checks.

Run from this directory: `tlc -config MCRouted.cfg MCRouted.tla` and so on for
each run listed below; `tlapm RtReaderProofs.tla` and so on for the modules whose
name ends in `Proofs` (`RtSystemProofs` takes about seven minutes, the others
less).

## 1. Inventory

| Component | State | Operations | Who calls it |
|---|---|---|---|
| `rtVector` | block of cells, capacity, count | create, push, remove (by position, by item), at, size | router, routing table |
| `rtRoutingTree` | vector of [expression, context] | add, remove-if, for-each with topic match | router |
| `rtrouted` | vectors of clients and listeners, routing table; per client: descriptor, read state and buffer | accept, read, dispatch (subscribe, hello, print, forward), drop | clients over sockets |
| `rtConnection` | table of 64 listeners, subscription counter, socket, buffers, one pending response | create, add listener, send, request, respond, dispatch, reconnect | applications, provider host |
| `rtMessageHeader`, `rtEncoder` | none | encode, decode | router, `rtConnection` |
| `rtMessage`, `rtBuffer` | JSON tree or bytes, reference count | create, from bytes, get/set, retain, release | everybody |
| `dmProviderHost` | map of providers, map of lists, connection, one thread | start, register, run, request handler (get, set) | applications, dispatching thread |
| `dmProvider` | map of getters and setters, "in a transaction" | get, set, onGet, onSet | provider host |
| `dmProviderDatabase` | objects read from JSON files, the tree of them | load, lookup by object and by property, make a query | client, provider host |
| `dmClient`, `dmcli` | the query under way, its results; the command line | run get, run set, recursively; split the parameters | users |
| `rtSocket`, `rtError`, `rtLog`, `rtDebug` | settings of the log | conversions, output | everybody |

How they interact.  A client's `SendInternal` writes a header and a payload to
its socket.  The router's single thread finds the socket ready with `select`,
takes what bytes there are (`rtConnectedClient_Read`), and when the payload is
complete hands the message to the callback of every route whose expression
matches: the internal route adds routes, a forwarding route writes the message
to its client with the subscription's id in `control_data`.  The receiving
client's `TimedDispatch` finds the listener with that id and calls it.  A
response goes the same way, to the requester's inbox topic, where
`onInboxMessage` leaves it for `SendRequest` to pick up.

What is hard.

* The router changes the vectors it is looping over: clients are removed in the
  loop over clients, routes are added by the callbacks of the loop over routes,
  and descriptor numbers are used again.
* The kernel cuts streams at any byte; a client may hang up at any of them.
* All sockets block: a read with nothing to read, or a send to a client that
  does not read, stops the whole router.
* A connection may break at every point of every call of the library, also
  while the library is putting an earlier break right, with calls that nest.
* Timeouts race late answers; one slot holds the response of any request.
* A provider host uses one connection from two threads, and registers providers
  while requests for them may be coming in.
* Reference counts are changed by threads at the same time.
* The entries of a list change between the requests that ask for them.
* The router and a program may each be sending to the other, and neither reading.

What makes each part correct: the vector is a list and stays in its block; the
match is the match on tokens; the reader delivers each message once, whole, in
order; the router sends a message to exactly the subscribers, in order, and
serves everybody; the connection keeps its listeners known to the router and
gives each what is for it, and a request its own response; a message is freed
exactly once, by its last owner; a host answers every request; a transaction is
taken over whole or not at all; client and host come to the same object for a
name; a command comes to its end and tells the truth about what went wrong;
router and programs do not wait for each other in a circle.

## 2. Modules

| Module | What it is |
|---|---|
| `RtList` | abstract: a list with append and removal of a position |
| `RtVector` | `rtVector.c`, cell by cell, implements `RtList` |
| `RtTopics` | abstract: names as tokens, `*` one token, `>` one or more |
| `RtTopicMatch` | the character loop of `rtRoutingTree_IsTopicMatch` |
| `RtRoutingTable` | what the routing table uses, side by side: `RtVector` and `RtTopicMatch` |
| `RtRoutingTableProofs` | theorems of both |
| `RtStream` | abstract: messages written are delivered once, in order, and all of them |
| `RtMessageHeader` | the header byte by byte, encoded and decoded |
| `RtReader` | `rtConnectedClient_Read` byte by byte, implements `RtStream` |
| `RtReaderProofs` | its theorems and those of the header |
| `RtRouted` | `rtrouted.c` with its routing table, message by message |
| `RtConnection` | `rtConnection.c`; router and network are its environment |
| `RtConnectionProofs` | its theorems |
| `RtSystem` | `RtRouted` with programs like `sample_req.c` and `sample_res.c`, implements `RtRouted` |
| `RtSystemProofs` | theorems of the router and, on these, of the system |
| `RtShared` | abstract: an object is freed once, by its last owner |
| `RtBuffer` | `rtBuffer.c` with threads, implements `RtShared` |
| `RtBufferProofs` | its theorems |
| `RtMessage` | `rtMessage.c`: counts and trees, with threads |
| `RtMessageProofs` | its theorems |
| `DmProvider` | `dmProvider.cpp` with the provider of `sample_provider_wifi.cpp` |
| `DmProviderHost` | `dmProviderHost.cpp` with its two threads, on `DmProvider` |
| `DmProviderHostProofs` | theorems of both |
| `DmDatabase` | `dmProviderDatabase.cpp` with the names of `dmUtility.h` |
| `DmClient` | `dmClient.cpp` under `dmcli.cpp`, on `DmDatabase` |
| `DmClientProofs` | theorems of both |
| `MC*` | instances for TLC |

The models meet at their boundaries: `RtRouted` takes for granted what
`RtVector` (vectors are lists), `RtTopicMatch` (the match is the match on
tokens: its `Match` parameter is given `RtTopics!TokenMatch`) and `RtReader`
(streams are sequences of messages) show.  `RtSystem` extends `RtRouted`: the
programs take the place of its unrestricted clients.  `DmDatabase` holds both
what the client and what the host does with a name.  `RtConnection` and
`DmProviderHost` overlap in `SendInternal`: the first has one thread and a
connection that breaks, the second two threads and one that does not.

**RtVector.**  `data` is the block, `<<>>` for NULL; a cell nobody wrote holds
`Garbage`.  `oob` remembers an access outside the block.  Sizes are those of
the code with the block size as a parameter.  A failing `calloc` is a step of
its own (`PushBackNoMemory`); a failing `realloc`, which loses all items, is
left out: no caller looks at the result.

**RtTopicMatch.**  One step is one turn of the `while` loop; `t` and `e` are the
pointers as positions.  `AfterStar` and `AfterGt` are where the two tests leave
them; the second sees the first's result, as in the code.  `Spells` says that a
string is that of some tokens, given where in it each of them begins.

**RtRoutingTable.**  The vector and the loop, each with its own variables.  A
string is read as tokens by `Tokens`, which begin at `Places`; both are
parameters, so that nothing is said of strings that are not made of tokens.

**RtMessageHeader.**  A header is a record of the C struct's fields, the two
strings as arrays of `TopicSize` bytes.  `Encode` and `Decode` are the chains of
calls of `rtEncoder`, big endian, strings with their length and without their
terminator.  `Decode` takes the header it writes into, because what it does not
write stays: a shorter string leaves the rest of a longer one in its array.

**RtReader.**  The stream is the bytes `Encode` makes and the payloads.
`Recv(k)` takes any number of the bytes there are, up to what is asked for, and
`ReadPreamble`, `ReadHeader` and `ReadPayload` are the three cases of the
switch; `header` is used for one message after the other, as in the code.
`ReadFails` is `recv` answering 0, which it does at the end of the stream and
also when asked for 0 bytes, and a reset, which loses what was not read.

**RtRouted.**  `pc` is the place in `main`'s loop: `select`, the loop over
listeners, the loop over clients (`i`, `n`), and inside it
`rtRoutingTree_ForEach` (`j`, `nr`).  One action is one turn of a loop, one
entry of the table or one library call; clients act between any two.  `fd` maps
clients to descriptors, which are taken from a limited set and used again.
`out` is all that was sent to a client, `taken` how much of it has been read:
their difference is what the kernel holds, and a send waits when that is
`SendCap`.  `rtBool_TRUE` is 0 and `rtBool_FALSE` is 1, as in
`rtRoutingTree.h`, and `RemoveIf` asks the predicate as C does: therefore
dropping any client empties the whole table, which the model does too.
`TableCreated`: at this commit `main` uses the routing table before any
`rtRoutingTree_New` and reads through a NULL subscription while logging, so the
process dies at once.  With `TableCreated = FALSE` the model does just that;
the runs set it to TRUE, which stands for a `main` without the two slips, so
that the rest of the program can be studied.

**RtConnection.**  The calls under way inside the library are a stack
(`frames`): the message a `SendInternal` still has to send, or the position of
the loop over listeners in the `ConnectAndRegister` it has called, whose
`SendMessage`s are frames on top.  `tx` is what the socket has taken and the
router has not read (`RouterReads`): a send waits while that is `SendCap`
messages.  `alive` is whether the other end still holds the connection; a send
on a broken one fails (`SendFails`), or the kernel takes it while there is room
(`SendSucceeds`), and with the socket (`Reconnect`) all is lost that it had
taken.  `rx` is what has been written to the client, where a break may cut the
last message in header or payload.  The
sequence of `TimedDispatch` is `StartDispatch`, `Receive` or `ReceiveFails`,
`Callback`; the loop of `SendRequest` is `StartDispatch` ... `Looking`,
`RequestAnswered` or `RequestUnanswered`, with `RequestTimesOut` wherever the
clock is read.  Router steps (`RouterReads`, `RouterDelivers`, `RouterAnswers`,
`RouterHasNoRoute`, `Break`) are marked external.  Not in the model: a router
that cannot be reached (`connect` then spins, see the hazards), calls made from
a callback, errors other than a broken connection.

**RtSystem.**  Each program has a place (`at`): between `rtConnection_Create`,
its subscriptions and its loop.  A server answers what comes for its topic with
a response to the inbox the request names; a requester sends a request and
dispatches until `onInboxMessage` has a response.  `inq` holds what a program
has written and the router has not read, at most `RecvCap` messages, `out` less
`taken` what the router has written and the program has not read, at most
`SendCap`; who finds no room waits in `send`.  Ids of listeners are those of
`rtConnection_AddListener`, and the header's `control_data` brings them back.

**RtBuffer, RtMessage.**  `held` says which thread has how many references to
release; threads pass them on (`HandOver`) and use what they hold, no more.
Releasing is two steps, `rtAtomicDec` and what follows.  `RtBuffer` decides by
the value the decrement returned, `RtMessage` reads the count again.  A message
is a handle on a JSON tree, of which the model keeps the nodes, where each
hangs and how often it was freed: `SetMessage`, `AddMessage` and `GetMessage`
copy, `GetMessageItem` does not and marks what it makes as an item;
`GetMissing` is `GetMessage` of a field that is not there, which leaves the
memory of a message that nobody was given.  The count
of a message from `FromBytes` or `GetMessageItem` is whatever `malloc` gave
(`Rubbish`), and the properties speak of messages whose count was written.

**DmProvider, DmProviderHost.**  Main starts the host and registers its
providers; the dispatcher takes requests, decodes them, has the provider answer
property by property (`GetNext`, `SetNext`, `SetVirtual`, `RefuseFixed`) and
responds.  Both send through `SendInternal`: the header is encoded into the one
buffer (`send_buffer`), then sent (`SendHeader`), then the payload
(`SendPayload`); the router reads pairs (`RouterReads`) and is `broken` when a
pair does not belong together.  `registerProvider` subscribes first and inserts
into the map after, in two steps that the dispatcher may look between
(`inserting`): then it may find the provider or not.  A set of several
properties sets `isTransaction`; the setters of the sample put their values
aside (`staged`) and `endTransaction` takes them over if all are there.  In the
repository's data model `SSID` cannot be written, so no transaction is ever
whole; the instance lets it be written.  Registering an object the data model
does not have ends the process (`RegisterUnknown`), as the code does.

**DmDatabase, DmClient.**  A name is the sequence of its tokens.  `LoadFile`
takes the files in any order, `BuildProviderTree` follows, `Walk` is the walk
over the tokens in `getProviderByObjectName`: a recursive function on the
beginnings of a name (`Beginnings`) that starts with `WalkBegins` and takes one
token at a time (`WalkToken`).  A dot is put before a token only if there is
something to put it behind (`Lengthen`): of `.Device.WiFi` the first, empty token
is lost, and the name is that of `Device.WiFi`.  `Named` says what the walk is to
find without walking: what the name says without the dots it begins with
(`Bare`).  `DmClient` is `runGet` with its
activations on a stack: `GetOne` for an object, `GetNumber`, `GetIds` and
`GetItem` for a list, `GetKid` for the children of a recursive get, each with
the outcomes a request may have (`Outcomes`).  `SplitParams` is `dmcli`'s
splitting of the command line, one parameter (`SplitNext`) after the other,
with `inbracket` undefined at its start.  A
recursive get of a name the data model does not have reads through a null
pointer (phase `"crashed"`).

A definition named `X_Y`, introduced by "Bug to catch", is `X` with a plausible
mistake.  Nothing uses it; `PROJECT.json` ("mutants") pairs it with the
property that fails when it takes the place of `X`.

## 3. Runs

| Run | Module, cfg | States | Checks |
|---|---|---|---|
| `routing_table` | `MCRoutingTable` | 40,296 | `InBounds`, `ImplementsList`, `AgreesWithTokens`, `PointersStayInside` |
| `router` | `MCRouted` | 771,372 | `TypeOK`, `RecvNeverBlocks`, `NoDanglingRoute`, `LoopsStayInside`, `OnlyToSubscribers`, `InOrder`, `FanOutComplete` |
| `router_live` | `MCRouted`, `MCRoutedLive.cfg` | 36,593 | `EveryMessageRead`, `HangUpsReaped` |
| `router_disconnect` | `MCRouted`, `MCRoutedDisconnect.cfg` | violated | `OtherRoutesSurvive` |
| `reader` | `MCReader` | 39,357 | `InStep`, `HeadersSurvive`, `ImplementsStream` |
| `connection` | `MCConnection` | 833,248 | `ListenersRegistered`, `IdsDistinct`, `CallbacksInOrder`, `DamageBounded`, `SendsReturn` |
| `connection_late` | `MCConnection`, `MCConnectionLate.cfg` | violated | `ResponseIsToRequest` |
| `message` | `MCMessage` | 211,836 | `FreedByLastOwner`, `FreedTwiceOnlyByRace`, `TreesFollowMessages`, `BufferImplementsShared` |
| `provider_host` | `MCProviderHost` | 132,461 | `SingleSetTakesEffect`, `InStepUnlessOverlapped`, `NoHalfTransaction`, `MissedOnlyWhileRegistering`, `EveryRequestAnswered` |
| `client` | `MCClient` | 107,570 | `TreeIsNesting`, `HostAgrees`, `LookupAgrees`, `NotesPerQuery`, `TrueMeansNoError`, `VisitsSubtree`, `Terminates` |
| `client_errors` | `MCClient`, `MCClientErrors.cfg` | violated | `ItemFailureReturned` |
| `system` | `MCSystem` | 361,907 | `AnswersMatch`, `NoCircle`, `EveryRequestServed` |

Bounds.

* `MCRoutingTable`: blocks of 3 cells and up to 7 items, so that the block grows
  twice and removal happens at both ends of a full and of a nearly full block.
  Names of up to three tokens from a, b and ab, expressions of up to three with
  `*` anywhere and `>` last: one token is a prefix of another and every wildcard
  stands first, in the middle and last.  Then all strings of up to four
  characters, for the property that holds for any string.  Vector and loop do
  not meet here, and a behaviour is about one of them.  The loop stops when it
  is done: no deadlock check.
* `MCRouted`: two clients that send two messages each (a subscription with a
  wildcard, a hello, a message, an empty message), and may hang up at any time.
  Two clients are a sender and another subscriber, a client dropped before
  another in the loop, and one accepted while another is connected.
* `MCRoutedLive`: two clients and one descriptor, so that `accept` fails while
  it is taken and the descriptor is used again.
* `MCReader`: one message or two with every combination of shorter and longer
  topic, reply topic and payload, or three with a longer topic and reply topic
  between shorter ones; every cut inside each part and across each border.
  Topics fill at most half of their arrays of four.  Everything may have been
  read: no deadlock check.
* `MCConnection`: the inbox and two listeners, a socket with room for one message
  (so registering three listeners has to wait for the router), two breaks (so the
  second may fall into repairing the first), up to two sends or requests and two
  published messages, three of both together.  A break then loses what the socket
  held and the message of the send that noticed, and two breaks both twice: the
  bound of `DamageBounded` is attained.
  `RtConnection` may wait for ever in `recv`, as the code does: no deadlock check.
  `MCConnectionLate` has no breaks and two requests.
* `MCMessage`: two threads, two messages with four nodes between them and two
  references each; or two buffers with three.  Two threads are in `Release` of
  one message at once with two references; a message put into another, copied
  and both freed needs two messages and four nodes.  A node or handle is never
  used again: the model ends.
* `MCProviderHost`: four objects to register, of which one finds no slot and one
  is unknown; two requests, so that one may be written while the other is
  answered and a transaction may follow another; sets that are whole, that lack
  a value, that have properties of every kind.  The host ends when no more
  requests come: no deadlock check.
* `MCClient`: the data model of the repository with a second file for one object
  and one that is not JSON, all orders of loading; commands of every kind, also a recursive get of a
  property of a list named without its entry; lists of up to two entries, one failure of any request.  The lookup is compared for
  all names of up to five of six tokens, one of which is empty: names that begin
  with dots, end with them, or have them in the middle.  `dmcli` ends: no deadlock check.
* `MCSystem`: a server, two requesters with two requests each, room for one
  message in each direction of each connection.  The requesters are alike, and
  `InOrderOfNames` gives the first name to the one that starts first.  A circle needs a server that
  answers while the router forwards to it: the answer on the way, the one in
  hand, the request that waits for it and the one being forwarded are four
  requests, and `SendRequest_NoWait` shows that two requesters which do not wait
  for their answers make one.  That the programs wait is what keeps them from it;
  with more requesters than there is room for, the circle is possible.

Fairness.

* `RtRouted!FairSpec`: weak fairness of the router's thread as a whole, which
  is one loop, and of each client's reading.  The second is an assumption about
  clients; the code cannot do without it, because the router sends on blocking
  sockets.
* `RtSystem!Fairness`: the router runs, and so does each program that was
  started.  That they read is not assumed: it is what their code does.
* `RtReader!FairSpec`: the router keeps reading; a client that has sent a
  header sends the payload, which is the next statement of `SendInternal`.
  `RtStream` promises delivery as long as the client stays, and the refinement
  includes that.
* `RtConnection!FairSpec`: a call that can go on does, and the router reads what a
  connection it still holds has for it.  The second is needed because `send`
  waits while the socket is full; that the router does come to read is the matter
  of `EveryMessageRead` (as long as clients read) and `NoCircle` (that they do
  not wait for each other).  Nothing is assumed of the application, nor that
  the router answers or forwards anything.
* `RtBuffer!Spec`: a thread inside `Release` goes on.
* `DmProviderHost!FairSpec`: the dispatcher runs and the router reads.  Main and
  the requesters are not assumed to do anything.
* `DmClient!FairSpec`: the client runs, and each request is answered or fails.

What is violated, with the lines, is in `PROJECT.json` ("findings").  A client
that disconnects takes everybody's routes with it.  The late answer to one
request becomes the response to the next.  A recursive get of a list returns
true though the query of an entry failed.

Other departures the models contain and no run is needed for:

* the crash at the start of `rtrouted` (`TableCreated` above);
* a request that nobody serves is never reported: `NoRouteReply` is written for
  an error that `ForEach` never returns, and the requester, whose timeout is
  compiled out, waits.  `EveryRequestServed` speaks of requests with a server;
* a message whose send found the connection broken is reported as sent and is
  not; a callback may be called for a message that stopped short.
  what the broken socket had taken before is lost too.  `DamageBounded` says that
  each break costs no more than what one socket holds and one message more;
* a get for a wildcard nobody knows (`Device.Nowhere.`) returns false and the
  notifier is told nothing (dmClient.cpp:53-58), although the interface has "1
  onResult for non list query" and "1 onError if error for non list"
  (dmClient.h:31-32), and dmcli "for non-list query, expect a single onResult or
  onError" (dmcli.cpp:41).  So `dmcli` prints nothing for it, whereas the same
  name without its last dot is reported as an error.  `NotesPerQuery`, which says
  what these comments say, excepts it; `TrueMeansNoError` covers it;
* `rtMessage_GetMessage` of a field that is not there sets the caller's pointer to
  memory whose tree and count nobody wrote, and returns `RT_FAIL`
  (rtMessage.c:407-422): it must not be released, and nobody frees it;
* if the reply for a request without route is ever written, the inbox loses its
  id and later responses find nobody (`Forgotten`);
* listeners may be subscribed twice when a connection breaks while it is being
  registered again, and are then sent each message twice;
* a message without payload is taken for the end of the stream;
* two threads in `Release` of one message may free it twice
  (`FreedTwiceOnlyByRace`: and only so);
* two threads in `SendInternal` may put the stream out of step
  (`InStepUnlessOverlapped`: and only so);
* a request is answered as if its provider were not there while main is
  registering (`MissedOnlyWhileRegistering`: and only so);
* a recursive get of a property of a list that is named without its entry
  (`Device.WiFi.EndPoint.Alias`) is taken for one of an object: the children of
  the list are then asked for as if they were its entries.  `VisitsSubtree`
  excepts it.

## 4. Proofs

Each module `XProofs` extends `X` and proves `IInv`, a conjunction of named
parts, to be inductive, action by action; the theorems follow from it.

**RtRoutingTableProofs**.  Of the vector: `VectorTypeOK`, `VectorInBounds`,
`VectorVisibleCells`, `VectorImplementsList`, for every block size of at least 2
and every bound.  `InBounds` is not inductive: the invariant adds that the block
is as long as its capacity says and has more cells than items (`count <
Len(data)` once there is a block), because removal reads one cell past the last
item; and that the cells up to `count` hold items.  The refinement maps each
push to an append, each removal to the removal of the same position and a
failed allocation to a stutter.  Of the loop: `MatchStaysInside` for all strings
whatsoever, as each of the two tests stops at a dot or at the terminator; and
`MatchAnswers`, for topics and expressions of any number of tokens of any
length.  Its invariant (`AnswerInv`) is that the loop is in lock-step: both
pointers are in the k-th token of their string, as far behind its beginning as
the other (`AtPlace`), and everything before agrees (`SameSoFar`).  One turn
then moves to the next character of both, to the next token, or to the end
(`Turn`), and where it breaks off the tokens differ.

**RtReaderProofs**, for any messages and any cutting of the stream:
`ReaderTypes`, `ReaderInStep`, `ReaderHeadersSurvive` and
`ReaderImplementsStream` (`RtStream!Safe`, the part without fairness).  First
the bytes: `Decode` of what `Encode` made of a header is that header, with its
length filled in, for all numbers of 32 bits and all strings that leave room
for their terminator; a piece written at a place stands there when more is
written behind it (`Stands`).  Then `ReaderInv`: all that was written is one
sequence of bytes in which message m begins behind `start[m]` (`Written`), and
what is in the buffer and what is on its way are the rest of it from where the
next message begins (`Unread`); the buffer holds the beginning of that message,
and the state says how much of it has been looked at (`Reading`).

**RtSystemProofs**, first part: the router alone, for any set of connections,
messages, expressions and any matching relation.  `RouterTypeCorrect`, `RouterNoDanglingRoute`,
`RouterLoopsStayInside`, `RouterOnlyToSubscribers` need `IInv`: `TypeOK`,
`LoopsStayInside`, `DispatchInv` (a message being dispatched is from the client
whose turn it is, every unread message is from the client it came in on, and no
dispatch has left an error), `RoutesInv` (a forwarding route was subscribed to
and its client is connected) and `OnlyToSubscribers`.  `RoutesInv` holds at a
drop because, at this commit, a drop empties the table: the proof uses what
`RemoveClientSubscription` returns.  `RouterRecvNeverBlocks`, `RouterInOrder`
and `RouterFanOutComplete` need `TurnInv` besides: no two clients of the vector
have one descriptor (`PlacesInv`); a descriptor that `select` reported and
whose turn is still to come belongs to a client that still has something to
read, because nobody else reads for it and a client accepted meanwhile gets a
number that `select` did not report (`ReadyInv`); what was forwarded from a client is older than what is
being dispatched, and that than what is queued (`OrderInv`); and the entries
the loop has passed have been served (`ServedInv`).

**RtConnectionProofs**, for any number of listeners, messages and breaks, and
any nesting of the calls.  `EveryListenerIsRegistered`: a listener with an id
that the router does not know has its SUBSCRIBE, or a loop that has not come to
it, on the stack of calls (`RegisteredInv`, `Due`), through every loop that was
broken off and begun again.  `NoIdIsSharedByListeners`: ids are below the
counter, and only the inbox can lose its id (`IdsInv`).
`CallbacksKeepTheOrder`: one order runs from the callbacks made over the
message in hand to those on their way (`OrderInv`).  `EachBreakCostsOneSocket` is
an accounting (`DamageInv`): messages lost, callbacks for half a message, sends
that a broken loop will pass off as done, a half-read message in hand and, for a
break that is not repaired yet, all that it may still cost (`Broken`) are
together at most `SendCap + 1` for each break there has been.

**RtBufferProofs**: `EveryStepIsOfAShared`, the refinement of `RtShared!Safe`
(the fairness of `RtShared!Spec` is left to TLC).  The count is the number of
references (`CountInv`), one thread at most is between a decrement to zero and
its free (`LastInv`), and nobody refers to what is not there (`FreshInv`).

**RtMessageProofs**: `LastOwnerFrees`, `TwiceOnlyByRace` and
`NoTreeIsLostOrShared`, for any threads, messages and nodes.  `CountInv` is as
for buffers, for messages whose count was written; `TestInv` says of two
threads that both read the count again, or of one that does so after the free,
that they were seen to race; `TreeInv` gives every message a root of its own
and every item a node below a root.

**DmProviderHostProofs**, for any objects, properties and requests.
`InStepWhileApart`: until both threads have been in `SendInternal` the wire is
headers each followed by its payload (`StreamInv`).  `MissedBetweenTheTwo`: who
is subscribed is in the map or the one main is about to insert, from the
SUBSCRIBE on the wire on (`BookInv`).  `OneValueIsSet` and
`TransactionsAreWhole`: the flag is set exactly while a set of several is being
answered, and a value put aside is the last of its property among the
parameters answered, never one of an earlier request (`WorkInv`, `StagedInv`,
`SingleInv`).

**RtSystemProofs**, second part: for any programs, requests and capacities.
`SystemImplementsRouter`: every behaviour of the system is one of `RtRouted`
(with the same variables, the others hidden), so all that is proved of the
router holds of it.  `SystemInv` adds to the router's invariant where each
program is and what it has written by then (`PlaceInv`, `WrittenInv`), that
what is on its way is what was written under its number (`CarriedInv`), and
that there is one route for each subscription taken in, which is older than
what its client has still in the queue (`TableInv`).
`SystemAnswersMatch`: with one server, a request or its response is in one of
four places, as a token (`InFlight`): in a queue to the router, with the router
as long as a matching route is to come, in a queue from it, or in the server's
hands.  `FlightInv` says there is at most one token for a requester, it has the
number of the request it waits for, and there is none when it does not wait;
every action moves tokens or leaves them.  `SystemNoCircle`: in a circle the
server's queues are full, it has a request in hand and the router another one
for it.  That makes `RecvCap + SendCap + 2` tokens, all of different
requesters by `FlightInv`: by the pigeonhole principle there are that many
requesters.  Hence with fewer there is no circle; `MCSystem` has two, where
four would be needed.

**DmClientProofs**, for any files, in any order, and any commands.
`LookupIsNaming`: the walk finds what `Named` says.  A name's walk is that of what
is left without the dots it begins with (`WalkOfBare`); from there both directions
are an
invariant of the walk's steps (`OnTheWay`): after k tokens of a name that is an
object's, lists being followed by one instance each, it stands on the part of
that object's name it has come to; and wherever it stands, the tokens so far
are such a name.  `TreeIsByName`: `BuildProviderTree` hangs each object below
the one object whose name is its own without the last token (`TreeInv`).
`ClientAndHostAgree` is about the operators of names: what the client sends the
request to and what the host takes the properties of are one string, and the
walk of it ends where the client's did.  `NotesCount` (which excepts a get for a
wildcard nobody knows) and `TrueIsSuccess` need
the activations of `runGet`: `StackInv` says what each may hold at each of its
places, and that all but the last are waiting for a child; `AnswerInv` that a
get that does not recurse is one activation, and what its notifier was told is
how far it has come through the entries of its list.

`SubtreeIsVisited` needs all the activations of a recursive get at once.
`VisitInv` says of each what is due to it (`Due`: the object it is to ask for,
or the entries and children it has not come to), that nothing is due to two of
them (`Shared`), and of the names met so far (asked for, lists whose entries
were learned, and due: `Met`) four things (`Progress`): each is the name of
something, the lists among them are those that were learned (`Typed`); no name
that is due begins another that is due or one met before (`Apart`), which is
why nothing is asked for twice; every child and every entry of what was asked
for or learned is met (`Complete`); and nothing else is but the first
(`Reached`).  A step asks for one name that is due and makes its children due
(`AskedOne`), learns the entries of a list (`ListLearned`), hands what is due to
a new activation (`Leaves`) or takes away one to which nothing is due
(`Leaving`).  That a list which cannot be asked for counts as one without
entries is how failures come into it.  At the end nothing is due, and what
remains of the invariant is the property.

Assumptions about constants.  Bounds are naturals.  `KindsAssumption`: one
table says of a property who serves it.  `HostAssumption` and
`SetsAssumption`: what the data model and requests are made of.
`FilesAssumption`: the files are finitely many, each an object whose name has a
dot, as all objects of the repository's data model have, or no JSON.
`ClientAssumption` and `CommandsAssumption`: a command gets or sets, a parameter
names something, and a list has at most as many entries as there are ids,
and no two of one name.
`ScriptsAssumption`: a client numbers its messages from 1, as `SendInternal` does,
the numbers in headers fit 32 bits, strings fit their arrays, and a
message fits the 8 KB of the client's read buffer.
`ProgramsAssumption`: a connection is a server or a requester, and there are
finitely many, as there are descriptors.  `TopicsAssumption`: programs use
names without wildcards and inboxes of their own, as `rtConnection_Create`
makes them from the application's name and the process id.  TLC evaluates all of them.

Forms chosen because they can be reasoned about: references are counted as the
cardinality of a set of tokens, copies on the wire as a sequence with a stated
length, the properties of a set request by their positions.  Where a proof needs
the least member of a set, the well-foundedness of `<` on the naturals gives it
(`LeastOf`, `NthPosition`, `SkipStaysInside`).  The induction theorems of the library take an
operator as a parameter and cannot be used; where a proof goes by induction it
is over a set of numbers, by its least counterexample (`AllNumbers` in
`DmClientProofs`).

Only checked by TLC:

* all liveness, with the liveness half of `ImplementsStream` and
  `BufferImplementsShared`, `Terminates`, `SendsReturn`, `EveryRequestAnswered`
  and so on: fairness and ENABLED are out of the prover's reach;
* the three properties that are violated.

The `TypeOK` of a module that no run lists is there for the proofs; it holds in
the instance of that module.

## 5. Plan

1. Done: vector, topic matching, reader with the real header, router,
   connection; messages and buffers with threads; provider and provider host;
   data model and client; router and programs composed.  Proofs for each of
   them: of every invariant a run checks and of every property of steps.
2. Models to come: a router that stays away, against which `connect` spins.

## 6. Not modelled

Options, pid file, help, logging, string and address conversions (`rtSocket`,
`rtError`, `rtLog`, `rtDebug`), the values of fields in messages and their
getters (cJSON is not part of the source), `rtMessage_SetSendTopic`, several
listening sockets, and lengths that a peer writes other than
`rtMessageHeader_Encode` does.  A message longer than the router's read buffer
of 8 KB, for which `rtConnectedClient_Read` makes no room, is outside the
scripts.  Descriptors above `FD_SETSIZE` and names longer
than the fixed arrays are taken not to occur.  Sockets block, so a `send` that
takes part of a message needs a signal, and the programs install no handlers.  A
`realloc` that fails loses the vector's items and nobody looks at the result.

The functions of `rtBuffer` that read and write fields are stubs, which return
`RT_OK` and do nothing.  A request to a provider host is one that
`dmQueryImpl::makeRequest` builds, with a method, params and a name; the host
compares and cuts what it finds in a request without asking whether it is there
(dmProviderHost.cpp:161-162, 178-184), and one that lacks them ends the process.
No program
comes to `dmProviderHost::stop`; the merging of results in `dmQueryResult` has
no caller; conversions between types of values are left out.  Commands with an
empty parameter (`isWildcard` reads before it), objects whose name has no dot
(each its own parent, so that a recursive get of one would not end) and values
with a dot (a set is cut at the last dot of the whole string, and client and
host then disagree) are outside the instances or excepted by the property.
