# Verification of Server Client App

TLA+ models of the publish/subscribe program in `src/`: a server that forwards
the datagrams of UDP clients to the TCP clients ("subscribers") whose
subscriptions match them, and the UDP client that comes with it. Three models
look at it from three distances:

* `ServerClientApp`: the server and the subscribers, exchanging whole messages;
  shown to implement `PubSub`, what the server promises.
* `Delivery`: the way of one datagram, from its conversion and its matching to
  the bytes on each connection; shown to implement `Mailboxes`, whole messages
  in order.
* `UdpClient`: the load generator, with its command line, sockets, modes and
  pauses; shown to implement `LoadGenerator`, the workload each mode promises.

The models are checked with TLC on small instances; type correctness, every
safety property a run finds to hold and the three refinements are proved with
TLAPS for every value of the constants. Liveness is only model-checked.

## 1. Inventory

### Components and their state

| Component | Source | State | Operations |
|---|---|---|---|
| Server event loop | `Server.cpp` `run`, `check_stdin_data` | `poll_fds`, `num_pollfds`, the `revents` of the last `poll()`, the iterator of the loop, the stream buffer of `cin` | poll, read a console line, dispatch to the handlers, drop a closed client |
| Client registry | `Server.cpp` `manage_connection_request`, `get_client_from_fd`, `manage_subscribe_unsubscribe` | `clients`: id -> (`curr_fd`, `is_connected`, `subscribed_topics`) | register, reconnect, deny, subscribe, unsubscribe, disconnect |
| Fan-out | `manage_udp_message`, `send_msg_if_subscribed` | none of its own | receive a datagram, send it to every connected client that matches |
| Topic matching | `tokenize_topic`, `check_wildcard_topic`, `compare_token_vectors` | pure | match a topic against literal and wildcard subscriptions |
| Payload conversion | `interpret_udp_payload` | pure | format INT, SHORT_REAL, FLOAT, STRING |
| Protocol over TCP | `protocols.h`, `protocols.cpp` | the message being sent or received | `send_efficient`, `recv_efficient` |
| Subscriber | `Subscriber.cpp` | where its thread is, its socket, the line being handled, the `revents` of its last `poll()` | connect, identify, subscribe, unsubscribe, print, exit |
| Kernel (external) | calls in the above | connections, accept queue, descriptors | connect, accept, send, recv, close, poll |
| UDP client | `pcom_hw2_udp_client/` | per run: the parsed arguments, the socket, the position in the loop of its mode | parse, bind, send (`all_once`, `manual`, `random`), sleep, wake up, end, fail |
| Network (external) | what `sendto()` and `recvfrom()` are written against | datagrams on their way | deliver, lose, duplicate, reorder |
| Test driver, build | `test.py`, `Makefile` | - | not modelled |

### Interaction

The server is one thread and each subscriber is one thread; they share nothing
but TCP connections. All calls are blocking: `send_efficient()` blocks when the
peer does not read, `recv_efficient()` blocks until a whole message is there.
The server handles what one `poll()` reported in a fixed order: console, UDP
socket, listening socket, clients in the order of `poll_fds`. A subscriber
handles its console before its socket. Every failing call is a `DIE`, which
ends the process; a `send()` to a connection the peer has reset raises SIGPIPE,
which ends it as well.

Underneath, a message is three fields that `send_efficient()` and
`recv_efficient()` move in as many pieces as the kernel likes, with a length
whose byte order changes in place; the server sends one structure to several
clients, one after the other.

The UDP client shares nothing with the server but datagrams, and nothing with
other runs of it but the ports of the host.

### What is hard

* Two threads at the ends of one connection, each with a request/answer
  protocol multiplexed with unsolicited messages: who receives what?
* `revents` read before a handler and used after it, at both ends.
* Lines that `getline()` has already taken from the console, where `poll()` does
  not see them.
* Four structures of the server that describe the same clients and are updated
  by hand (`clients`, `poll_fds`, `num_pollfds`, open descriptors), one of them
  modified while it is iterated; descriptor numbers that the kernel reuses.
* Processes with one id that race for the session, are killed, come back.
* Full queues: both ends may block in `send()`.
* Any failure of one connection is fatal for the process that notices it.
* Short sends and receives, a process that ends in the middle of a message, a
  structure that is changed while it is sent and sent again.
* A hand-written search for wildcards, and unsigned words printed as signed
  ones.
* For the UDP client: values the parser accepts and a mode cannot use (an empty
  file, a count of 0 or less, a delay below 0), failures after a datagram has
  left, runs that compete for a port, a network that promises nothing.

`PROJECT.json` lists each hazard with its line and the properties that would
catch it going wrong, or why none does.

### What makes each component correct

* Registry and poll set: one entry per connected client, no descriptor leaked,
  no client taken for another, subscriptions changed only by their owner.
* Loop: every reported descriptor is served exactly once per round, and what was
  reported of it is still true then.
* Sessions: at most one subscriber in session per id.
* Delivery: at most once, in order, and consistent with the answers around it;
  whole, in however many pieces; to whoever asked for it; with the number its
  sender meant.
* The service: sessions, subscriptions that outlive them, and datagrams
  forwarded to exactly the subscribed, one atomic step each (`PubSub`).
* UDP client: it sends its workload, all of it if it ends by itself and a
  beginning of it otherwise, in the order of its file, from a port that is its
  own.
* Subscriber: its waits end, unless it and the server block each other; what it
  takes for an answer is an answer.
* Shutdown: `exit` at the server ends every process, once it is read.

## 2. Modules

| Module | Models | Extends |
|---|---|---|
| `Protocols` | command codes and message records (`protocols.h`) | - |
| `Wildcards` | topics and their matching, as recursive functions | - |
| `Sockets` | TCP connections of the kernel: bounded queues of whole messages, end of file, reset, accept queue, descriptor table (external) | `Protocols` |
| `Server` | the server's thread | `Sockets`, `Wildcards` |
| `Subscriber` | the subscribers' threads | `Sockets` |
| `ServerClientApp` | composition with users and UDP clients; specification, fairness | `Server`, `Subscriber` |
| `PubSub` | abstract: sessions, subscriptions, datagrams to forward | - |
| `AppProperties` | types, safety and liveness properties, inductive invariants, the mapping to `PubSub`, what the documentation says | `ServerClientApp`; instantiates `PubSub` |
| `MCApp` | instances for TLC | `AppProperties` |
| `RegistryProofs` | the registry, the poll set and the descriptor table; a round of the server's loop | `AppProperties` |
| `ConnectionProofs` | connections, messages, processes; the theorems that need all three | `RegistryProofs` |
| `SessionProofs` | sessions and ids; the refinement of `PubSub` | `ConnectionProofs` |
| `StreamProofs` | what is on its way to a subscriber: order, waits, subscriptions | `SessionProofs` |
| `Payload` | the conversion of a datagram (`interpret_udp_payload`) | - |
| `Framing` | `send_efficient()` and `recv_efficient()`, byte by byte | - |
| `Mailboxes` | abstract: messages posted to each client and collected by it | - |
| `Delivery` | a datagram's way through conversion, matching and the bytes of every recipient | `Framing`, `Wildcards`, `Payload`, `Protocols` |
| `DeliveryProperties` | types, properties, a reference definition of wildcards, the mapping to `Mailboxes` | `Delivery`; instantiates `Mailboxes` |
| `MCDelivery` | the instance for TLC | `DeliveryProperties` |
| `FramingProofs` | arithmetic of lengths, the tape invariant | `DeliveryProperties` |
| `WildcardProofs` | the matching of topics against what wildcards mean | `DeliveryProperties` |
| `DeliveryProofs` | the theorems of `Delivery`, the refinement of `Mailboxes` | `FramingProofs`, `WildcardProofs` |
| `UnprivPort` | the type of a port on the command line (`unpriv_port.py`) | - |
| `UdpNetwork` | a network that loses, duplicates and reorders (external) | - |
| `UdpClient` | runs of the UDP client (`udp_client.py`); specification, fairness | `UnprivPort`, `UdpNetwork` |
| `LoadGenerator` | abstract: the workload of each mode | - |
| `UdpProperties` | types, properties, inductive invariant, the mapping to `LoadGenerator` | `UdpClient`; instantiates `LoadGenerator` |
| `MCUdp` | the instance for TLC | `UdpProperties` |
| `UdpProofs` | the invariants of the UDP client, the refinement of `LoadGenerator` | `UdpProperties` |

### How state and actions correspond to the code

**`ServerClientApp`.** A step is what a thread does between two points where it may block or where the
other end can see it. In the server these points are `poll()`, `accept()`, the
`recv()` of a handler (one step with everything the handler does to the
registry) and each `send_efficient()`. The sends a handler has left are the
sequence `outbox`; the thread is in a handler while `outbox` is not empty or
`mode` is `"handshake"`, and nothing else of the server runs then. The order of
a fan-out is any order, chosen when it starts, because `clients` is a hash map.

`revents` is the set of descriptors the last `poll()` reported and the round
has not come to; `it` is the loop's iterator. `poll_fds` holds the entries from
index 3 of the vector on; the first three are constant. `fdtab` says which
connection a descriptor refers to, and `accept()` returns the lowest free one.

`console` is what has been typed at the server and not handled; the first
`buffered` lines of it are in the stream buffer of `cin`. `getline()` fills an
empty buffer with any number of the lines there are (one, if the console is a
terminal; all of them, if it is a pipe) and takes one; `poll()` reports the
console only for lines beyond the buffer.

`mode` is `"stopped"` or `"crashed"` after `Halt`, which models the end of the
process: the kernel closes what it held, and everything it knew is gone.

A connection is `[owner, up, upEnd, down, downEnd]`: the queue to the server,
how the subscriber closed its end, the queue to the subscriber, how the server
closed its end. Closing with messages unread, or while messages are on their
way, may reset the connection (`"rst"`): the other end then reads the rest of
its queue and gets -1 instead of 0. Sending to a closed connection may succeed
(the message is lost) or end the sender. What one end has already sent stays
readable for the other.

In `Subscriber`, `spc[p]` names the call process `p` is in. A user's line is an
action; `tcp_ready` keeps what `poll()` said of the socket when the line came.

History that no action of `ServerClientApp` reads: `last` (the number of the last datagram printed),
the number `n` of a datagram, the `topic` of an answer and `owner`.

**`PubSub`.** `session[id]` is the process at the other end of the connection of
a connected id; `topics` is `subscribed_topics`; `outgoing` is the copies of a
datagram that the running handler has not sent. `Admit` is the registration or
reconnection of a client, `Leave` the end of its connection in the poll loop,
`Change` a request, `Forward` the receipt of a datagram, `Send` one call of
`send_efficient()`, `Close` the end of the server. Everything else (accepting,
denying, polling, all that subscribers do) is a stutter.

**`Framing` and `Delivery`.** `stage` and `left` are where `send_efficient()` is:
the field it is sending and the bytes of it that are left; `field`, `got` and
`struct` are the same for each client's `recv_efficient()`. `stream[c]` holds the
bytes between the two, at most `Capacity`. `SendPiece` and `ReceivePiece` are
calls that move less than what is left, in any amount; the others complete a
field and go on. `msg.len` is two bytes in memory, swapped by `htons`/`ntohs`.
`Delivery` adds the handlers around them: `phase` says whether the server polls
or is in a handler, and `todo` which clients its loop has still to send to.
Every action of `ServerClientApp` that moves a whole message (`SendNext`,
`Accepted`, `RecvAnswer`, `RecvTcp`) stands for such a sequence of pieces, which
is what the refinement of `Mailboxes` justifies. `log` is history: each datagram
with the subscriptions it met and its recipients.

**`UdpClient`.** `pc[r]` is where a run is, or how it ended. A step is what a run
does between two points where it may block, be interrupted or meet another run:
the parsing, `bind()`, the start of the mode, each message with its `sendto()`,
the end of each sleep. A message can fail before `sendto()` (payload missing,
not base64 or too long, no IPv4 address of the server) or after it (no
description to print, a delay that `sleep()` refuses). `sent` and the fields
`run` and `n` of a datagram are history.

### Abstractions

In `ServerClientApp` messages are atomic, and a datagram is a topic, a number and
whether its data type is supported. In `Delivery` connections are set up once and
clients identify themselves elsewhere; only the direction from the server to the
clients is byte by byte. Ids, processes and connections are model values; a
topic is the sequence of its levels. A line that is refused, at either console,
changes nothing in the process; in `Subscriber` it is no step. The server is not
restarted: a new server is a new behaviour, in which the subscribers of the old
one do not exist. An `accept()` that fails for other reasons than descriptors,
failures of `poll()`, `malloc()` and socket set-up are left out: the process ends
in all of them.

A printed number is an integer and how many of its digits stand behind the
point; the text of a message is `Text(topic, content)`, bytes that are never
looked into. A byte has `Base` values and an `int` the range of `Half`: both are
parameters, 256 and 2^31 in the program. An entry of the UDP client's file is a
name and what is wrong with it. There is no clock: a sleep ends at some time, and
of a delay it only matters whether `sleep()` takes it (`MaxSleep`).

## 3. Runs

Ten runs use `MCApp`, one `MCDelivery` and one `MCUdp`; six pass, and six
exhibit a behaviour that contradicts what the repository says (section 5).

| Run | Instance | Shows |
|---|---|---|
| `two_clients` | 2 processes, 2 ids, 2 descriptors, queues of 1, 1 datagram | `TypeOK`, `AppInv`, `PollSetMatchesRegistry`, `NeverPlaceholder`, `EveryReadyServed`, `ReportedStaysReady`, `OwnSubscriptionsOnly`, `KeepsService`. Two descriptors are enough for the second client to get the number the first one left, and for the server to run out |
| `same_id` | 2 processes, 1 id, 3 connections, one process may be killed, no datagram | `SingleSession`, `SessionInv`, `NoDescriptorLeak`, `EveryWaitEnds`, `ExitStopsEveryone`. Three connections are both processes' and one whose end the server has not noticed, so that each may be denied because of the other or of itself; datagrams do not touch sessions |
| `one_client` | 1 process, subscriptions `a` and `*`, 2 datagrams | `InOrderOnce`, `StreamMatchesSubscriptions`, `NeverWaitsForNothing`. Two patterns that match one topic are the smallest case in which unsubscribing one must not stop the messages |
| `full_queues` | 1 process that may be killed, 1 connection, queues of 1, 3 datagrams, two lines at the server's console | `EveryWaitEnds`, `ExitStopsEveryone`. The smallest queues and enough datagrams for each end to block in `send()`, and for both to block at once; two lines, of which one may stay in the stream buffer |
| `delivery` | 2 clients, connections of 2 bytes, bytes of 10 values, an `int` of -4..3, one or two datagrams of 11 kinds, 5 wildcard subscriptions, one request, one client and the server may end anywhere | `DeliveryTypeOK`, `LengthKept`, `OnlyWhoAsked`, `EveryoneWhoAsked`, `PrintsWhatWasSent`, `KeepsFrames`, `FanoutEnds`, `EveryMessageArrives` |
| `udp_clients` | 2 runs, one with 38 command lines and 4 files and one that wants one of its ports, interruptions, duplicated and reordered datagrams, lost ones if nobody listens | `UdpTypeOK`, `UdpInv`, `AdvertisedPorts`, `SourceNamesRun`, `ListInOrder`, `KeepsPromise`, `FiniteRunsEnd`, `EverythingArrives` |

In the runs of `MCApp`, `Conns` bounds the connections that exist at once: one
per process and, except in `full_queues`, one or more left by sessions the server
has not noticed the end of. There is no bound on the number of commands, sessions
or console lines: only datagrams are counted (`MaxDatagrams`), queues are bounded as the kernel's
are and `ConsoleCap` bounds the lines that wait. Connections are symmetric in the
runs without liveness; in `two_clients` so
is the pair of processes together with their ids. No symmetry is used for
liveness.

In `delivery` a message is longer than its connection holds, one byte of a
length is not enough for the longest text, and one structure has two recipients:
what can go wrong between two pieces goes wrong with two bytes as with many.
The numbers are those on both sides of the largest and the smallest `int`; the
topics have one level, a level twice, none, and an empty last one, which is
where `tokenize_topic()` and `getline()` disagree with a reader's expectation.
`MaxPosted` (2) bounds the messages to one client, `Mortal` (`c2`) the clients that
may end by themselves.

In `udp_clients` every option takes the values on both sides of every comparison
of the code; delays lie on both sides of 0 and of `MaxSleep` (2), the longest that
`sleep()` takes. `MaxSent` (2) is enough for a workload that ends, or is cut,
after its first message.

### Fairness

`FairSpec` assumes weak fairness of the server's step (one thread, so one
condition) and of each subscriber's own steps: the scheduler of the machine
runs every thread that can run. Nothing is assumed of users, UDP clients and
kills: nobody must type, send or end.

That is not enough for progress, and the liveness properties say what else they
need. When a subscriber and the server are in a blocking `send()` to each other,
both stay there (section 5), and no scheduler helps; only a signal to the
subscriber does. `EveryWaitEnds` and `ExitStopsEveryone` therefore assume
`[]<>NoMutualBlock`: no mutual block lasts forever. One end alone in a blocking
`send()` is no exception: that it goes on is what the properties state. In
`full_queues` all of these states are reached, the mutual block included (TLC
refutes `EveryWaitEnds` there without the premise). A block that a kill ends is
not excluded. `ExitStopsEveryone` also
assumes `[]<>(buffered = 0)`: the stream buffer is emptied again and again. It
excludes the behaviours in which a line stays there because none follows (TLC
refutes the property without this premise as well); as long as lines follow, or the buffer takes one at a
time, exit must be obeyed wherever server and subscribers are. The server may
also end by a failure, which stops everyone as well: that it does not is
`ServerSurvives`, of section 5.

`DeliveryFairSpec` assumes the same of the server and of each client: a thread
inside `send_efficient()` or `recv_efficient()` goes on as soon as the kernel
can move a byte. Datagrams, requests and the ends of processes are not forced.
The clients of `Delivery` always read: they are never in a blocking `send()`, so
the mutual block is outside that model, and `FanoutEnds` and
`EveryMessageArrives` are about such clients.

`UdpFairness` assumes that each run takes the steps that need no user, the end of
a sleep among them. `ReliableSpec`, used for `EverythingArrives`, adds that the
network delivers what it does not lose.

## 4. Proofs

Proved for any sets of processes, ids, connections, descriptors (numbers above
4) and topics and any queue sizes:

| Theorem | States | Module |
|---|---|---|
| `AppInvariant` | `Spec => []AppInv` | `ConnectionProofs` |
| `TypeCorrect` | `Spec => []TypeOK` | `ConnectionProofs` |
| `DescriptorsNotLeaked` | `Spec => []NoDescriptorLeak` | `ConnectionProofs` |
| `LoopServesEveryone` | `Spec => []EveryReadyServed` | `ConnectionProofs` |
| `ReportsStayTrue` | `Spec => []ReportedStaysReady` | `ConnectionProofs` |
| `PollSetCorrect` | `Spec => []PollSetMatchesRegistry` | `RegistryProofs` |
| `PlaceholderUnreached` | `Spec => []NeverPlaceholder` | `RegistryProofs` |
| `SessionInvariant` | `Spec => []SessionInv` | `SessionProofs` |
| `OneSessionPerId` | `Spec => []SingleSession` | `SessionProofs` |
| `OnlyOwnersSubscribe` | `Spec => OwnSubscriptionsOnly` | `SessionProofs` |
| `AppImplementsPubSub` | `Spec => KeepsService` | `SessionProofs` |
| `NumbersInvariant` | `Spec => []NumbersInv` | `StreamProofs` |
| `DatagramsInOrder` | `Spec => []InOrderOnce` | `StreamProofs` |
| `StoryInvariant` | `Spec => []StoryInv` | `StreamProofs` |
| `StreamsTellOneStory` | `Spec => []StreamMatchesSubscriptions` | `StreamProofs` |
| `WaitInvariant` | `Spec => []WaitInv` | `StreamProofs` |
| `NobodyStuck` | `Spec => []NeverWaitsForNothing` | `StreamProofs` |

for any clients, byte size, capacity of a connection, datagrams, texts and
subscriptions:

| Theorem | States | Module |
|---|---|---|
| `FramesImplementMailboxes` | `DeliverySpec => KeepsFrames` | `DeliveryProofs` |
| `DeliveryTypes` | `DeliverySpec => []DeliveryTypeOK` | `DeliveryProofs` |
| `LengthIsKept` | `DeliverySpec => []LengthKept` | `DeliveryProofs` |
| `NumbersPrintAsSent` | a number an `int` can hold is printed as its sender meant it | `DeliveryProofs` |
| `NobodyElse` | `DeliverySpec => []OnlyWhoAsked` | `DeliveryProofs` |
| `NobodyPassedOver` | `DeliverySpec => []EveryoneWhoAsked` | `DeliveryProofs` |
| `PrintedAsSent` | `DeliverySpec => []PrintsWhatWasSent` | `DeliveryProofs` |
| `CompareSound` | a match that is found is one, for any tokens and wildcards | `WildcardProofs` |
| `CompareComplete` | a match is found if the stars have no choice | `WildcardProofs` |

and for any files, command lines, addresses, ports and number of runs:

| Theorem | States | Module |
|---|---|---|
| `UdpInvariant` | `UdpSpec => []UdpInv` | `UdpProofs` |
| `UdpTypes` | `UdpSpec => []UdpTypeOK` | `UdpProofs` |
| `OnlyAdvertisedPorts` | `UdpSpec => []AdvertisedPorts` | `UdpProofs` |
| `SourceAddresses` | `UdpSpec => []SourceNamesRun` | `UdpProofs` |
| `EntriesInOrder` | `UdpSpec => []ListInOrder` | `UdpProofs` |
| `UdpClientImplementsLoad` | `UdpSpec => KeepsPromise` | `UdpProofs` |

### The application

None of these invariants is inductive alone. `AppInv`, which the run
`two_clients` checks as well, has three layers, each proved from those below it:

* `RegistryInv`. That the entry erased for a client is the only one the
  registry has for that descriptor needs `OneOwnerPerFd`; that a new entry is
  new needs the descriptor table (an open descriptor is in the poll set or is
  the one being accepted) and that the descriptor of a handshake is not in the
  poll set; that `accept()` finds a connection needs that a reported listening
  socket has one. `RemoveAtRange` and `AppendRange` say what `erase()` and
  `push_back()` do to the vector.
* `RoundInv`. What is left of `revents` lies at or after the iterator, so
  erasing the current entry without advancing skips nothing; a reported console
  or UDP socket has something to read, since nobody else reads it. That a round
  that is over has served everyone takes the least entry still reported
  (`LeastElement`).
* `ConnectionInv`. Each end holds the connections it believes to hold and no
  connection is held twice (`Descriptors`, `Sessions`), and an identification is
  only ever the first message of a connection that is not in the poll set
  (`RequestsInv`). The last is what types the subscriptions: the server's loop
  takes every message it receives for a request about a topic.

`ReportedStaysReady` adds `ReadyInv` to these: a client's descriptor that is still
in `revents` has a message, or the end of its connection, to read. Subscribers
only add to what is there; a handler takes from the connection of one descriptor,
which is nobody else's, and clears its `revents`; a descriptor that is closed
leaves `revents` before `accept()` can give it to somebody else, so a new entry
has none (`ReadyAdmit`).

`SessionInv`, which the run `same_id` checks, relates the two ends. A process is
*admitted* from the moment the confirmation is in its queue: it will be in
session when it reads it, whatever the server does meanwhile. As long as the
server runs, whoever is admitted is on record (`AdmissionsInv`): its id is
connected, on the descriptor of its connection. Two admitted processes with one
id would then have one connection between them. When the server ends, its
registry is gone, so that part holds only while it runs; that ids stay apart
survives, because nobody is admitted any more. The step that needs most is the
sending of a confirmation: that it goes to the process on record takes that the
handler's messages go to registered clients (`OutboxInv`) and that an id in the
registry is what the process at the other end was started with (`IdsInv`, from
the identification on its way to the entry it makes).

The refinement of `PubSub` then needs no more than these invariants: each action
of the server is one abstract action or none, and each action of a subscriber is
none because the owner of a connection the server holds does not change
(`OwnersStay`). That a fan-out sends to exactly the recipients takes that a
sequence that lists a finite set without repetition has all of it
(`FanOutElements`).

### What a subscriber finds on its connection

The *stream* of a connection (`Stream`) is what lies in the queue to the
subscriber followed by what the running handler has left for it, each message
under a position of its own. The three properties of the run `one_client` are
about it, and none of them is inductive. What a step does to a stream is proved
once, in terms of positions: it stays, or loses what is read at its front
(`Kept`, `TakenStream`), loses what the end of the server cancels (`Cut`), or is
longer by one message at its end (`Added`); a `send_efficient()` only moves a
message from the handler to the queue, and the stream of everyone but the
recipient stays as it is (`SentStream`, `Quiet`). On this rest:

* `NumbersInv`, for `InOrderOnce`. The datagrams that wait at the UDP socket have
  numbers that rise, above those of every stream and of what each process printed
  last (`Behind`). Sessions need no case of their own: a new connection has
  nothing on it (`FreeStream`) and `last` is of the process.
* `WaitInv`, for `NeverWaitsForNothing`. While a line is handled, one message is
  reserved for the socket that `poll()` reported; the wait for the answer is safe
  because there is another one beside it, or a request the server has not
  answered (`Something`, with 1 reserved). The answer may be taken by the second
  wait and a datagram by the first: the counts are the same.
* `StoryInv`, for `StreamMatchesSubscriptions`. What was held at a position is told
  by the first answer about that topic after it, or by the registry if there is
  none (`HeldAt`). An answer added at the end says what was held before it, so
  nothing changes for the positions before (`HeldAtEnd`, `StoryLonger`,
  `AnswerTells`), and reading at the front removes nothing that tells about what
  is left (`StoryKept`). A client that comes back starts from an empty stream,
  because nothing is sent on a connection before its client is registered
  (`Fresh`): old subscriptions need no answer to be told.

The three invariants were checked with TLC on the instances of `one_client`,
`two_clients` and `same_id` before they were proved.

### Messages byte by byte

The messages posted to a client are laid end to end on a *tape*, each with its
length in network order; `ends` are the positions where they end. The invariant
places three things on the tape: the sender (what is left of its field is what
comes after its position), the connection (the bytes between the receiver's and
the sender's position) and the receiver (what it has of its field, in which
message). A step moves one of the positions along the tape; that the message a
receiver completes is the one posted follows from where it is. The positions are
quantified existentially, so no induction over the messages is needed: each step
gives the new ones from the old. TLC cannot enumerate the tapes, so this
invariant is only proved, and `KeepsFrames` is what the run checks. A process that
ends anywhere only stops moving a position.

`LengthKept` is the reason one structure can be sent to several recipients: each
call starts from the length in host order.

### Who gets a datagram, and what is printed

`Matches` says what wildcards mean without an order in which to look: the levels
of a topic can be divided over those of the pattern. `compare_token_vectors()` is
a loop over two iterators, and in the model a recursive function whose value at a
token is one iteration, given those after it (`MatchingFrom`). That the function
is defined by its iterations (`CompareByLoop`), and that an iteration finds only
divisions, or every one if the stars have no choice (`IterationSound`,
`IterationComplete`), is then carried from the last token to the first.

These are inductions over data. The theorem modules state induction for an
operator, which no installed prover can instantiate, but also that a well-founded
relation has minimal elements in every set: `NaturalsBySuccessor`, stated for a
set of numbers and proved from that, takes its place here, as `LeastElement` does
for the loop of the server.

`DecisionsInv` says of every entry of `log` who was sent the datagram and who was
not, in terms of the subscriptions of that moment; the two theorems of matching
make `OnlyWhoAsked` and `EveryoneWhoAsked` of it. That a client that runs is one the
server holds for connected is part of it: nobody else could be passed over.

`PrintInv` says which datagram each posted message is: the messages that carry
one are, in order, the entries of `log` for that client, all of them except the
one whose fan-out has not come to it yet (`Due`). What is delivered is a beginning
of what was posted, by the refinement of `Mailboxes`, and `PrintsWhatWasSent`
follows with `NumbersPrintAsSent`.

### The UDP client

`UdpInv`, which the run checks, says for each run how far it is in its workload
(`Progress`), that its socket conflicts with nobody's (`Bound`), and that the
network carries only what was given to it (`Carried`). The refinement maps a run
to an active workload from the moment its command line is accepted.

### Assumptions

`SocketsAssumption` (the sentinels are outside their sets, client descriptors are
greater than 4, queues hold at least a message), `AppAssumption` (finitely many
ids, `IdOf` gives every process an id, what users subscribe to is a pattern),
`PortAssumption` (words that are no numbers), `UdpAssumption` (the shape of command
lines and files), `FramingAssumption` (a byte can hold the
commands 0 to 9, a connection at least a byte), `PayloadAssumption` (an `int` has
at least two values), `DeliveryAssumption` (topics and subscriptions are
sequences of strings, the fields of a datagram fit their types, its text is a
non-empty sequence of bytes whose length fits its field). TLC evaluates all of them.

### Only model-checked

Liveness (`EveryWaitEnds`, `ExitStopsEveryone`, `FanoutEnds`,
`EveryMessageArrives`, `FiniteRunsEnd`, `EverythingArrives`): it needs fairness and
ENABLED, which are out of the prover's reach. The six properties of section 5 do
not hold, so there is nothing to prove of them.

## 5. Where the code and its description differ

| Run | What happens | Described |
|---|---|---|
| `answer_is_a_datagram` | `Subscriber.cpp:140` takes the next message for the answer; a datagram in between is lost, the user is told "Already subscribed", the answer becomes a "Big error" | `Subscriber.h:22-23` |
| `exit_ends_server` | a subscriber that exits with a message unread or on its way, or before one is sent to it, leaves a connection that is reset, and `DIE` (`Server.cpp:167`, `516`) or SIGPIPE ends the server | `README.md:127-130` |
| `reconnect_denied` | the listening socket is handled before the end of the old session in the same round (`Server.cpp:145`, `301`) | `Server.h:69-71` |
| `handshake_ends_server` | a connection that ends before its id makes `recv_efficient()` return 0, which is not tested (`Server.cpp:262-265`) | `protocols.h:60-61` |
| `descriptors_run_out` | `accept()` fails and `DIE` ends the server (`Server.cpp:252`) | `README.md:24-25`, `150-151` |
| `mutual_block` | both ends in a blocking `send()`, both queues full; needs as many unanswered requests as a queue holds, and each of them a datagram taken for its answer | `README.md:26-28` |

More differences were met that no run exhibits; the properties next to them are
stated for what they do not concern.

* `getline()` (`Server.cpp:205`) reads several lines of a pipe at once, as
  `test.py:133` sets it up, and `poll()` does not see those left in the stream
  buffer: an exit among them waits for one more line. `README.md:54` says that the
  server can be stopped with `exit`; `ExitStopsEveryone` is stated for buffers
  that are emptied (section 3).
* `compare_token_vectors()` (`Server.cpp:579`) takes the first level that equals
  what follows a star and never another: `*/b` misses `a/b/b`, and a wildcard after
  a star is compared as a literal level. `README.md:136-137` says that a star stands
  for an indefinite number of levels. `OnlyWhoAsked` holds without exception;
  `EveryoneWhoAsked` is stated for patterns whose stars have no choice
  (`Unambiguous`), and for stars of at least one level.
* `getline()` (`Server.cpp:529`) drops a last level that is empty: the subscription
  `a/` gets the datagrams of `a`. The properties of matching compare levels as
  `tokenize_topic()` makes them.
* An INT whose magnitude is beyond an `int` is printed modulo 2^32
  (`Server.cpp:440`); `PrintsWhatWasSent` is stated for numbers an `int` can hold.
* The manual mode of the UDP client ends with an exception when the answer to
  its prompt is neither a number nor exit.

## 6. Plan

1. More of the system: the bytes of requests, from the subscribers to the server;
   the stream buffer of a subscriber, together with a user whose next line is
   known.
2. More proofs: what the abstract specifications promise by themselves (that what
   is collected from a mailbox is a beginning of what was posted, that a copy in
   `PubSub` goes to a holder), and the safe half of the liveness properties: the
   measures that the steps of a round and of a handler bring down.

## 7. Not modelled

The test driver (`test.py`: it starts the programs and compares what they print)
and the build. Of the rest: the stream buffer of a subscriber's standard input (a
line is handled as it is typed, which covers one that waits in the buffer and is
handled later; the server's buffer is modelled); how long the UDP client sleeps;
requests byte by byte; the rounding of doubles; the layout of printed text;
memory management; options of the sockets.
