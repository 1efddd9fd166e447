# MimicNet: models, checks and proofs

MimicNet estimates the performance of a large data centre from a simulation of
two clusters. It is an OMNeT++ 4 / INET simulation with its own modules, the
Homa transport, and a pipeline of scripts that generates traffic, records what
crosses the border of a cluster, trains a model of it (a *mimic*) and simulates
many clusters with all but one replaced by mimics. This directory holds TLA+
modules of its event-driven core (the Homa transport, the network layer with its
routing tables, the mimic), the TLC runs that check them and the proofs
that TLAPS checks. `PROJECT.json` maps every definition to the lines it models.

## Inventory

| Component | State it keeps | Operations | What makes it correct |
|---|---|---|---|
| `HomaTransport` (`simulate/homatransport/src/transport`) | the two halves below, `sendTimer`, `socket` | `handleMessage` (application, packet, timers), `handleRecvdPkt` | every message is delivered once, complete |
| `SendController`, `OutboundMessage` | `outboundMsgMap`, `outbndMsgSet`, `outGrantQueue`, byte counters | `processSendMsgFromApp`, `processReceivedGrant`, `sendOrQueue`, `sendPktAndScheduleNext` | the NIC never idles on work; each byte sent once, shortest message first; counters exact |
| `ReceiveScheduler`, `SenderState`, `SchedSenders`, `InboundMessage` | per message what is to be granted, received and in flight; per sender a sorted set of messages and a grant timer; a sorted list of senders with room to its left | `processReceivedPkt`, `processGrantTimers`, `handleBwUtilTimerEvent`, `handleGrantSentEvent` | sorted and complete lists, no failing assertion, grants to the best within the window, nobody forgotten |
| `HomaPkt`, `UnschedByteAllocator`, `PriorityResolver`, `HomaConfigDepot` | none that changes | wire sizes, cutting of messages, priorities, parameters | sums of packets agree with the message |
| `WorkloadEstimator` | size distributions | numerical estimation | - |
| `PseudoIdealPriorityTransport` | incomplete messages | send all at once, reassemble | as `HomaTransport` |
| Applications (`WorkloadSynthesizer`, `MimicSynthesizer`, `MimicEchoSynthesizer`) | send schedule | timers, send, echo | each flow starts once, echoes answer once |
| `MimicDCN` (`simulate/src/mimicdcn`) | the inter-mimic flows still to be loaded, scheduled messages, frames that wait for their latency, when each channel is free, the congestion state of each direction | `loadAndScheduleInterMimicTraffic`, `handleEgress`, `handleIngress`, `handleARPReq`, `routeMsg`, `updateCongesState` | every frame leaves once, by the right gate, never while the gate transmits; the features are those the model was trained on, the congestion label one bin late; a flow gives its bytes and no more |
| LSTM inference, `PythonInterp` | hidden state | predict | - |
| `IFlowRoutingTable`, `ECMPRoutingTable` (`simulate/src/ipv4flow`) | unicast and multicast routes, the routing cache by flow, collected local addresses, router id | look-up, add, remove and change of a route, notifications of interfaces, start and stop | the caches agree with the table and the table with the interfaces |
| `IPv4Flow`, with ARP and `IPv4FragBuf` of INET | service queue, datagrams that wait for an address or with a hook, fragments | `handleMessage`, `endService`, the ARP callbacks, `reinjectQueuedDatagram`, `handleOperationStage` | nothing waits for ever or for nothing, no byte is lost unaccounted or doubled, no overtaking |
| `FeatureRecorder` | a file | record | - |
| `simulate/common/*.py` | files | generate traffic, routes, configurations | - |
| `prepare/*` | files | match packets at the border, bin congestion, normalise | labels by the same rule as the states at run time |
| `train/*`, `tune/*`, `evaluate/*` | files | learning, parsing, plotting | - |
| `run_*.sh`, `simulate_*/run.sh` | `out/lock`, `out/lock2` | build under a lock, simulate | one build at a time |

How they interact. An application hands an `AppMessage` to the transport of its
host. The `SendController` cuts it into a request, unscheduled packets and
scheduled bytes, and sends one packet at a time; the simulated network delivers
packets in any order and may drop them, in a full switch queue or because a
mimic predicts it. The `ReceiveScheduler` of the destination grants the
scheduled bytes; its grants leave through the `SendController` of the same
host. All of this is single-threaded: the OMNeT++ kernel calls one handler at a
time and each runs to its end, so concurrency is the order of the events of
many hosts, and no order of packets is guaranteed. The Homa hosts, and those of TCP,
sit on `IPv4Flow`, which asks `ECMPRoutingTable` for a route per flow, ARP for an
address per next hop, and hears from both, from the interface table and from hooks
by signals and callbacks. A mimic stands for the switches of a cluster: a frame that
comes in is predicted, and goes out by the gate that ECMP would have taken it to.
The pipeline couples the programs through files.

What is hard: two ordered containers whose keys change while elements are in
them; timers that are cancelled on the promise that a packet will come; slots
passed on by a recursion; unsigned counters changed by different handlers; both
directions sharing one NIC; caches of pointers and addresses that every handler
must remember to empty; queues that one module fills and another's signal empties,
across crashes; fragments of fragments; and gates that are computed on one side
and taken apart on the other. The hazards are listed with their lines in
`PROJECT.json`.

## Modules

| Module | Models | State and actions |
|---|---|---|
| `HomaNet` | packets, grants and how a message is cut | constants and operators only |
| `HomaSender` | `SendController`, against receivers that may grant at any time | `AppSend` = `processSendMsgFromApp`, `ReceiveGrant` = `processReceivedGrant`, `SendTimer` = `sendOrQueue` for the timer, `ReceiverGrants` = the grants of one event of a receiver, through `sendOrQueue` |
| `HomaScheduler` | every handler of `ReceiveScheduler`, as functions on the record of one receiver | operators; the modules below apply them |
| `HomaReceiver` | one receiver, with senders that answer every grant | `PktArrives` = `processReceivedPkt`, `GrantTimer` = `processGrantTimers`, `BwUtilTimer` = `handleBwUtilTimerEvent` |
| `HomaTransport` | both halves on every host, and a network that reorders and loses | `AppSend`, `ReceiveGrant`, `SendTimer`, `ReceivePkt`, `GrantTimer`, `BwUtilTimer` = the cases of `handleMessage`; `Lose` = the network |
| `MessageDelivery` | the promise: a message sent is delivered once | `Send`, `Deliver` |
| `FiniteFacts` | least elements and the laws of finite sums, for the proofs | - |
| `HomaSchedulerProofs` | lemmas about messages, packets and their bytes, and about every handler of `HomaScheduler` | - |
| `HomaSenderProofs` | theorems about `HomaSender`: its types, NIC and ready set, its bytes, counters, order and grants | - |
| `HomaReceiverProofs` | theorems about `HomaReceiver`: its types, its bytes and its window, the list of senders, the assertions, the priorities, nobody forgotten, the best granted, the overcommitment | - |
| `HomaTransportProofs` | theorems about `HomaTransport`: what arrives, what is delivered, and the three refinements | - |
| `FlowRoutingTable` | `IFlowRoutingTable` and `ECMPRoutingTable` of one router | `Lookup` = `findBestMatchingRoute`, `AddRoute`, `RemoveRoute`, `RouteKeyChanged`, `RouteFieldChanged` = `routeChanged`, `Purge`, `InterfaceStep` = `receiveChangeNotification` (with `deleteInterfaceRoutes` and `updateNetmaskRoutes`), the multicast routes, `IsLocalAddress` and `IsLocalBroadcastAddress`, `Start`, `Stop` |
| `IPv4Flow` | the network layer of one node, with ARP | `Arrive`, `EndService` (the whole way of a datagram through routing, hooks, fragmentation, reassembly), `Reinject`, `DropQueued`, `ArpPacket`, `ArpExpires`, `RequestTimedOut`, `RegisterProtocol`, `Stop` (shutdown and crash), `Start` |
| `MimicDCN` | one mimic | `LoadStep`, `LoadDone` = `loadAndScheduleInterMimicTraffic`, `HandleEgress`, `HandleIngress`, `HandleARPReq`, `RouteMsg`, `Prescheduled`, `Tick` |
| `FlowRoutingTableProofs` | theorems about `FlowRoutingTable`: its types, pointers, interfaces, addresses and longest prefix | - |
| `IPv4FlowProofs` | theorems about `IPv4Flow`: its types, its ARP queues, its order and its bytes | - |
| `MimicDCNProofs` | theorems about `MimicDCN`: its frames, gates and channels, its flows, the congestion labels it is asked with | - |
| `MC*` | messages, routes, datagrams, frames for TLC | - |

The variables of `HomaSender` carry the names of the code. `outbndMsgSet` keeps
the key an entry was filed under next to the message, because a `std::set` does
not notice a key that changes. The record of a receiver in `HomaScheduler` keeps
`senders` without its leading `NULL`s, whose number is `headIdx`. An assertion or a
`cRuntimeError` of the receiver adds a label to `failed`, and nothing happens
after that; those of the sender are the invariants `IdleMeansDrained`,
`ReadySetExact` and `GrantsFindWork`; those of `IPv4Flow` are part of
`PendingAwaitsArp`. A route in `FlowRoutingTable` is an object at an address that the
allocator may use again, so a cache that holds an address of a deleted route
is a dangling pointer. In `IPv4Flow` a datagram is the range of payload
bytes it carries, and what one event does with it is put together as a
"plan" and carried out at once, since no other event comes between. Definitions marked "Slip" or "A mutant" are
plausible mistakes; each is used to show that a property would notice it.

Abstractions. In the Homa and IP modules time is left out: any pending event may be the next, which covers
every timing. A grant queue serves its grants in any order. The START event
comes before everything else. Messages are numbers that also stand for creation
time and `msgId` where those break ties (a message of one host is created before
a later one; `msgId`s start at a random number, so full ties between hosts
do not occur in practice). The scheme is SRBF and there is one priority for
unscheduled packets, as in `simulate_homa/omnetpp.ini.template`. Statistics,
signals and logging are left out. Wire sizes follow `getBytesOnWire` with small
numbers for the headers and the payload. In `FlowRoutingTable` an address has
`AddrBits` bits and a netmask is its length; the metric is left out because a
look-up sorts its candidates anew by gateway. In `IPv4Flow` the routing table
answers any of the routes a datagram may have; a next hop is an address with
the interface it is behind. In `MimicDCN` time is counted in ticks, because latencies,
bins and busy channels are about time, and a model answers any of a few latencies or a drop.

## Runs

| Run | Question | Result |
|---|---|---|
| `sender` | Do the controllers of two hosts that send to each other keep their queues, counters and order? | 8 properties hold |
| `receiver` | Does one receiver keep its lists, windows and promises with three senders, four messages and two slots? | 10 properties hold |
| `bubble` | The same with the bandwidth check on | 3 properties hold |
| `transport` | Do both halves together deliver everything, and does each half behave as the model of the other assumes? | 3 properties hold |
| `transport_loss` | What survives the loss of one packet or grant? | 3 properties hold |
| `bubble_assert` | Can an assertion fail when a bubble is seen? | yes, see below |
| `small_request` | Is the count of bytes in flight exact for every packet size? | no, see below |
| `flow_routing` | Do the caches of a router survive every order of look-ups, route changes, notifications and restarts? | 5 properties hold |
| `ipv4` | Does the network layer account for every byte, keep the order of its packets and come to rest? | 5 properties hold |
| `mimic_dcn` | Do the frames leave in time by the right gates, which congestion label is the model asked with, and do the flows get no more bytes than they have? | 3 properties hold |
| `ingress_features` | Is the ingress model asked about the host a frame goes to? | no, see below |
| `expired_flows` | Is a flow of the inter-mimic traffic forgotten when it has ended? | no, see below |

Bounds, and why they are enough. *Sender*: three messages, two of one host so
that the shorter overtakes the longer after some of it has gone, one in the other
direction so that grants and data meet in one NIC; one to three grants each, one
of them of a single byte. *Receiver*: three senders for two slots, so that one
waits; one of them with two messages; every message gets one or two grants and
the window `MaxOutstanding` = 8 closes while bytes are left. *Bubble*: two
senders for one slot; a third message is all unscheduled and must not give the
overcommitment back. *Transport*: two hosts send to the third, which sends
to the first. `MaxDrops` bounds the losses: with 1, each packet and grant in
turn is lost. The timer of the bandwidth check runs then, but each of the
two senders to the third host has a slot, so that no bubble is seen: that no assertion fails there says nothing
of the case that `bubble_assert` shows. `Word` = 1000 is the width of the message counters: far above any sum
reached, so that a counter below zero shows as a huge number, as it does in 32
bits. *Routing*: addresses of 3 bits, the loopback and two interfaces, two flows, four
route objects of which at most two are manual: enough for two equal routes over
different gateways, a shorter prefix of them, a default route, one route that
`addRoute` refuses, and an object address that is used again while a cache holds it; two
flows because the cache is kept per flow and emptied as a whole. *IPv4*: two of
eleven inputs of eight kinds arrive in a run (`MaxInputs`), one next hop, links of
28 bytes so that 12 bytes of payload are cut in two, and one fragment that is cut again;
`RetryCount` = 2 gives a retry and a failure; hooks that queue at each point, steal or drop.
Two inputs suffice for a packet to overtake, for a queue of two behind one ARP request,
and for a datagram in two fragments. *Mimic*: two racks of four hosts, two aggregation
switches of two interfaces; two of five frames arrive within 3 ticks, which lets two
meet on one gate; a flow of two messages overlaps one that ends later; `MaxTime` ends the
simulation, frames that wait then still leave. `BinWindow` = 0 and the
threshold let all four congestion states occur.
Runs may stop when everything is delivered, when the simulation is over, and (with the
bound on the routes) `flow_routing`: only there is the deadlock check off.

Fairness. The kernel executes some event as long as there is one; it drops none
and every timer fires. `Fairness` in `HomaReceiver` and `HomaTransport` says
only that (weak fairness of `Next`, with its enabling condition `EventPending`
written out). It is enough because every event that is not a new message uses up
a finite supply. In `HomaTransport` nothing obliges an application to send: `AppSend`
is not an event the kernel owes. `HomaSender` alone needs weak fairness of each
timer, of the grants of each message, and of its receivers; the first two are what the
kernel does, the last is what `transport` checks of real receivers.
`IPv4Flow` needs weak fairness of `EndService` and of `RequestTimedOut` for each next hop:
both are self-messages that are scheduled whenever they are enabled. Nothing else is assumed:
no ARP reply need come, no hook need give a datagram back, no fragment need be
completed; so `EventuallyIdle` is about the service queue and the ARP queues alone.

What the runs show. The receiver is checked against ideal senders and the sender
against ideal receivers. `transport` closes the circle: `SenderRefined` shows the
composition to be a behaviour of `HomaSender` (the bytes let go are computed from
the receivers), `ReceiverRefined` that the host `Self` is a behaviour of
`HomaReceiver` (the run takes the host that two messages go to; the proof, any host), and `DeliversAll` that it implements `MessageDelivery` with its
fairness. `SenderRefined` needs the bandwidth check off: with it on, a promoted
sender may get two grants for one message in an event. With losses nothing is
delivered late and whole: the code retransmits nothing, so `LossIsLocal` only
promises that other destinations do not suffer; `DeliversAtMostOnce` is what is left of
`MessageDelivery` then, everything but that a message must arrive.

What `ipv4` checks is of one node with whatever the routing table may answer;
`flow_routing` checks what it answers. `CachedIsBest` leaves out routes whose destinations have the same
bits: the code takes these for equally good whatever their netmasks (`ECMPRoutingTable.cc:47`), so that of 4/1 and 4/2
the hash of a flow may pick 4/1. The generated routing files have no such pair. `FramesOnTime` is checked with as many aggregation
switches as interfaces of one and with four hosts per rack: it says nothing of other numbers, for which
the gates go wrong.

`FeatureLagsOneBin` is about the congestion feature. `bin_data_by_time.py` writes the state that a bin ends
in on every packet of that bin (`Bins`, `Label`), so a training label looks ahead to the end of the bin. A running mimic
cannot: `predict` reads the state before `updateCongesState` counts the packet. So the feature is not the label of the
training data. The property says what it is: with the same rule and the same borders of bins, the label of the
bin before, and "NO" in the first one; the mimic is late by just one bin.

Four runs show where the code departs from what it says of itself:

* `bubble_assert`: `handleBwUtilTimerEvent` calls `sendAndScheduleGrant` twice
  (`HomaTransport.cc:2432`, `2435`). When the promoted sender needs only one more grant, the second
  call fails the assertion at `HomaTransport.cc:1815`. The check is off by
  default (`linkCheckBytes` = -1).
* `small_request`: `totalBytesInFlight`, "total number of bytes inflight for this
  message including all different header bytes" (`HomaTransport.h:369`), is raised
  for all unscheduled bytes at once and lowered packet by packet. With a request
  packet that is not full the count is too low and may wrap, after which the message is
  never granted. The shipped configuration has full request packets, and there the count is exact (`InFlightExact`).
* `ingress_features`: the comment before `predict` (`MimicDCN.cc:481`) gives the destination
  server and rack as incoming features; `handleIngress` asks with `isIncoming` = false
  (`MimicDCN.cc:894`) and hands over those of the source. The inter-mimic messages of the
  same direction (`MimicDCN.cc:715`) are given to the model with `isIncoming` = true.
* `expired_flows`: the heap of active flows has the flow that ends last in front
  (`MimicDCN.cc:328`), and the loop that should "remove expired flows" looks only at the
  front. A flow that has ended is still given messages until the longest one ends;
  `FlowBytes` shows that none is given after that, nor more bytes than it has.

## Proofs

What is proved holds for every value of the constants that the `ASSUME`s of the modules
allow, not for the small instance alone; where a theorem needs more, its `ASSUME` says so
and this section says why. Two difficulties come back in several modules.

*Sums.* Most counters are sums over a set of packets, and `MapThenSumSet` adds its elements one by one in
an order that a `CHOOSE` picks, which no prover here can follow by induction.
`FiniteFacts` therefore counts units: `Total(f, S)` is the number of pairs `<<x, i>>` with
`x` in `S` and `i` in `1 .. f[x]`, so that the laws of sums are those of cardinalities
(`TotalUnion`, `TotalAdd`, `TotalChange`), and `TotalsAddUp` shows that any function which obeys
the recursion of `MapThenSumSet` is `Total`, by looking at a smallest set where it is not.

*Recursion.* That a recursive function exists at all has to be shown before
anything can be said of it: `CallsExist` (the calls of `HandleGrantSent`) and the
binnings of `MimicDCNProofs` are built for all lengths by taking a least length for which there is
none. `LeastElement` says that the naturals are well-ordered; the induction
theorems of the library cannot be used, so it comes from the well-foundedness of
inclusion on finite sets.

### HomaSender

`HomaSenderProofs` proves, for every set of hosts and messages and all sizes, from
`MsgAssumption` and `SizeAssumption` alone:

* `TypeCorrect`: `Spec => []TypeOK`;
* `IdleNicIsDrained`: `Spec => []IdleMeansDrained`;
* `ReadySetIsExact`: `Spec => []ReadySetExact`.

None of the three is inductive by itself. A grant can only be answered in type
when `bytesToSched` and the grant are numbers, which is `TypeOK`; the set is
exact after a transmission only if it was exact before, and then the entry taken out
is the only one of its message; and an idle NIC may transmit at once only because nothing waited
before. The invariant is the conjunction, and the proof has one lemma per
action, which share two lemmas about `TransmitData` and
`SendOrQueueData`; `NextInv` puts them together.

It also proves, from the same assumptions:

* `GrantsAlwaysFindWork`: `Spec => []GrantsFindWork`;
* `EveryByteSentOnce`: `Spec => []EveryByteOnce`;
* `SentInOrder`: `Spec => SendOrder`;
* `CountersAddUp`: `Spec => []ByteAccounting`.

`EveryByteOnce` says nothing of the counters, so it does not tell why a grant is
never cut short by `std::min`. The strengthening `ByteInv` does: for every message
(`Divided`), the packets sent, the packets ready and the grants on their way are
disjoint sets of bytes whose union is `0 .. offered - 1`; `bytesToSched` is the
number of bytes of the message that are neither sent nor ready, and `bytesLeft`
the number not sent. The bytes of a grant are among the former, so their number
is at most `bytesToSched`, and the message cannot have left `outboundMsgMap`.
Besides, a grant is in one place only (`GrantsPlaced`), so that its arrival takes it
off its way. The lemmas come in three layers: `UnschedPktsDivide` (the packets of
`getReqUnschedDataPkts` cut the unscheduled bytes without gap or overlap, which
takes the arithmetic of division), `DividedStart`, `DividedSched`,
`DividedSent` and `DividedOffer` (what each step does to the division of one
message), and one lemma per action. `SendOrder` needs one thing more, `CleanInv`: the only
packet without bytes is a request that leaves first, so "lowest" picks one packet.
For the totals of a host, `CountInv` has them as `Total`s over its messages, and an
event changes one message (`TotalChange`).

### HomaReceiver

What one event makes of the record of a receiver is proved in `HomaSchedulerProofs`, without
naming a variable, so that it can be used of one receiver and of those of all hosts;
`HomaReceiverProofs` has the theorems. It proves, for any number of senders and messages, with and without the bandwidth check:

* `TypeCorrect`: `Spec => []TypeOK`, from the assumptions of the modules alone;
* `DeliveredOnce`: `Spec => []DeliveredOnceComplete`, when `Countable`;
* `InFlightIsExact`: `Spec => []InFlightExact`, when `Countable`, `FullRequests` and `Wide`;
* `WindowIsRespected`: `Spec => []WindowRespected`, under the same.

A handler of the receiver is a long composition of functions, with branches that call
`HandleGrantSent`. Only three of them change anything but the list of senders:
`Granting`, the cancelling of a timer, and the accounting for a packet. So the proofs are about sets of
receivers: `Closed(G)` says that `G` does not notice the list, labels and settings, and is
kept by `SendAndScheduleGrant`. Then every timer handler and the recursion stay in `G`
(`ProcessGrantTimerIn`, `HandleBwUtilTimerIn`, `HandleGrantSentIn`), and an arrival does if
`HandleInboundPkt` does (`ProcessReceivedPktIn`). This is proved once and used for two sets.

`Filers` (its invariant is `TInv`) are the receivers of the right type whose `mesgsToGrant` hold, for each sender, exactly
the messages with bytes to be granted, sorted by `CompareBytesToGrant` (`FileExact`). This is
why the code may change the key of the first message while it is in the set (a smaller key
keeps it first) and take out any other by its key, and it is needed for types:
`bytesToGrant` stays a natural only because a message that is filed has some left.

`Sound(A)` (invariant `DInv`) are those of them whose counters agree with the packets `A` that have still
to arrive and those that this event's grants will bring: for an open message
`bytesToReceive` is `bytesToGrant` plus the bytes of its packets, `inflightGrants` lists just these
(the unscheduled ones as one entry), a scheduled packet lies between the unscheduled bytes and those not
granted yet, and a message that is not open is either untouched or delivered with nothing to arrive (`MesgData`).
When the accounting is exact, `totalBytesInFlight` and the two totals of the receiver are sums of
wire sizes, below the window and one grant more (`WireData`, `Totals`). That wire sizes of full
packets add up (`OnWireAdd`) is the arithmetic of division again.

The hypotheses are what the code takes for granted. `Countable`: the request carries bytes, and the size of a
message fits the word of `bytesToReceive`; a request without bytes is listed among the hazards.
`FullRequests`: a request is full when other unscheduled packets follow; `small_request` shows
that the count is wrong otherwise. `Wide`: the window counter does not wrap. All hold for the
shipped configuration and for the instance of `receiver`.

It proves, without the bandwidth check (`~LinkCheck`, the default) and when `Countable`:

* `AssertionsHold`: `Spec => []NoAssertFails`;
* `ListsAreExact`: `Spec => []ListsExact`;
* `PrioritiesAlwaysFit`: `Spec => []PrioritiesFit`;
* `NobodyIsForgotten`: `Spec => []NoSenderForgotten`, when also `FullRequests` and `Wide`;
* `BestAreGranted`: `Spec => GrantsGoToTheBest`.

The first four lean on each other, so `LInv` is about all of them at once: `Lined(out, n)` are the
receivers in which nothing has failed, the list holds all senders with bytes to grant but those
in `out`, best message first (`InOrder`), the senders kept granted fit into the priorities
(`Fits`), and the first `n` of the list are tended (`Keeps`): their timer is set or their window is
full. Between two events `rx` is in `Lined({}, NumToKeepGranted)`. An event takes one sender out
(`UnlistStep`, `TakenOut`: to `Lined({s}, NumToKeepGranted - 1)`), changes its messages, which
moves nobody else (the extra conjunct of `Inbounded`), and puts it back where `insPoint` says
(`InsertLined`), with a grant if that is within range. That `insPoint` never moves the list to the
right, which `insert` asserts, is `Fits` of the list before the sender was taken
out: the room it left is still there.

`handleGrantSentEvent` calls itself as long as a slot is passed on, and the model gives it `Cardinality(Msg) + 1`
calls. They are enough because each call but the first follows the grant of the last bytes of
a message: the number of messages that wait for grants (`Left`) falls
(`SentPassing`, `PassOnPassing`, `CallsPass`).

`NoSenderForgotten` also says that a packet of a message with a full window is on its way. This does not
follow from `Lined`, but from `DInv`: the bytes of a window that is full are those of packets that have still to arrive.

`BestAreGranted` is about the grants of one event, of which there can be as many as messages. `Grading(r, b)`
says of the grants so far, when `b[m]` bytes of `m` waited before the first: no message is granted twice, a grant starts where
its message was cut off, and it was `Foremost`: nothing better of its sender waits, and fewer than
`NumToKeepGranted` senders have something better. The message granted is the first of a sender with that few
before it in the list, and the list is in the order of what is left *now* (`TopForemost`). This is the
order of `b` as well only while all grants so far were the last of their messages (`Done`), so `Graded` has that a slot is
passed on in no other case: a sender that still has bytes of the message gets better by the grant and stays in range
(`SendGraded`). The sums of the property turn back into `b` because the packet that arrived is not one of those
that its own event grants (`NeverAgain`).

It also proves, for any setting of the bandwidth check and with no further hypothesis:

* `OvercommitIsReturned`: `Spec => []OvercommitReturned`.

A slot is added when the list is longer than the number of senders kept granted, and given back when a
scheduled message completes. That this balances needs only that the list holds nobody twice and nobody
without bytes to grant, so this is what `Once(out, n, open)` says (and that none but
scheduled messages wait for grants, `Trimmed`), also of the states in which an assertion has failed: the handlers
lead from `Once({}, ...)` to `Once({s}, ...)` and back as above, with the number of senders kept granted and the
messages that are open as parameters. Different senders have different best messages, all open and scheduled
(`ListCovered`), so a slot more is still covered (`BubbleBalanced`), and a scheduled message less
is a slot less (`CompletionBalanced`).

With the bandwidth check on `AssertionsHold` is false (`bubble_assert`), and `PrioritiesAlwaysFit` is not meant:
the senders that are promoted exceed the priorities. `NoSenderForgotten` is checked there by `bubble`.

### HomaTransport

`HomaTransportProofs` proves, for any hosts, messages and number of losses, when `Countable` and without the
bandwidth check:

* `NetworkIsTyped`: `Spec => []TypeOK`;
* `DeliveredIsComplete`: `Spec => []DeliveredComplete`;
* `SenderIsRefined`: `Spec => SenderRefined`;
* `ReceiverIsRefined`: `Spec => ReceiverRefined`, for any host `Self`;
* `PromiseIsKept`: `Spec => DeliversAtMostOnce`.

Each half was proved correct against an ideal other half, and each assumes what the other must
guarantee: the senders, that only the next bytes of a message that needs them are granted; the receivers, that only
packets arrive that were cut as the message was, each once. So neither refinement can be proved first. `JInv` carries both
together: `SInv`, the invariants of `HomaSenderProofs` with the bytes the receivers have let go (`Offered`) for `offered`; and `RInv`,
which says of every host that its record is in `Sound(ToArrive(h))` and `Lined({}, NumToKeepGranted)`, as
`HomaReceiverProofs` says of one receiver, and that a message is open only where it was sent to.

The link between the halves is `ToArrive(h)`, what `h` has still to receive: for a message that was not started its
unscheduled packets, for others the packets that are ready, those sent that have not arrived, and one for each grant on
its way. A sender only moves packets from one of these to another, so its steps leave `ToArrive` as it was
(`SenderStep`, from `Divided`: the packet that answers a grant has just the bytes the grant asked for). An event of a receiver
takes out the packet that arrived and adds one for each grant (`ToArriveStep`), which is what `toArrive` does in
`HomaReceiver`. In the other direction, `Offers` says that the grants of one event are the next bytes of
messages with bytes to be granted, at most one of each (`GradedOffers`, from `Grading`); this is where the bandwidth check has to be
off. So an event of a receiver is a step `ReceiverGrants` of `HomaSender` (`GrantsAreNext`), and with `LeaveStep` the circle closes.
What is lost stays in `ToArrive` for ever, which no safety property notices.

For `DeliveredIsComplete` a message that is delivered has nothing left in `ToArrive` (`MesgData`) and all its bytes let go, so
the packets that arrived are all of them and have all its bytes (`AllArrived`). `PromiseIsKept` needs besides that
messages start by `AppSend` only (`SendOrQueueStarts`), and that an event delivers at most the message of its packet
(`ArrivalDelivers`).

A good part of the module says the same thing twice: `Sender`, `Receiver` and the instance `SP` of `HomaSenderProofs` have each their
copy of the operators of the modules they extend, which are equal by their definitions and have to be shown so, operator by
operator (the lemmas `Same...`).

### FlowRoutingTable

`FlowRoutingTableProofs` proves, from `RoutingAssumption`:

* `TypeCorrect`: `Spec => []TypeOK`;
* `CacheIsSafe`: `Spec => []CacheNeverDangles`;
* `TableFollows`: `Spec => []RoutesFollowInterfaces`;
* `AddressesAreExact`: `Spec => []AddressCachesExact`;
* `CacheIsBest`: `Spec => []CachedIsBest`.

The second and the third hold by one inductive invariant, `Inv`, with the part of `TypeOK` they need.
They lean on each other: deleting an interface empties the cache only when it
removed a route, which is enough because all routes over that interface are removed; and the netmask
routes are rebuilt from those found in the table, which follow the interfaces as
they were before the notification. The addresses and the router id need a step of their own (`AddressStep`)
over that invariant: an interface that is deleted leaves its addresses behind.

For `CacheIsBest` (which uses `PowersOfTwo`: the powers of two of the prefix lengths are
positive, which the SMT solver does not know) the strengthening is `DestsMasked`: the
destination of every route is masked by its own length. With it the first match in the
vector is one of the longest: two prefixes of one address that have the same masked part are
the same destination. A first match exists by `LeastElement`.

### IPv4Flow

`IPv4FlowProofs` proves, from `IPAssumption`:

* `TypeCorrect`: `Spec => []TypeOK`;
* `NothingWaitsForNothing`: `Spec => []PendingAwaitsArp`;
* `OrderKept`: `Spec => NoOvertaking`;
* `EveryByteInOnePlace`: `Spec => []EveryByteOnce`, from `FragmentAssumption` too.

The lemmas follow the code's own layers: every branch of routing, hooks, fragmentation
and delivery returns a well-formed plan; `Carry` of a well-formed plan keeps the invariant
(a packet is appended to `pending` only if it starts or joins a resolution) and
lets nothing overtake (it is appended to `out` only when `pending` is empty, which is
`PendingAwaitsArp`); the ARP events move a whole queue or drop it.

The last theorem counts, for each byte, the places it is in. `Num` of a set is 0, 1 or 2 (for two
elements and more), and `TotalOf` is the sum over all containers. `InOnePlace` says that this sum is
1 for the bytes of the inputs and 0 for all others; no step changes it as long as it is at most 1.
A plan puts each byte of its datagram in one place (`Tracks`): the fragments that `fragmentAndSend` cuts share its bytes
(`FragmentsShare`), and the copies that multicast and broadcast make are of datagrams that the property does not
speak of. Reassembly turns the fragments of a datagram into one whole without a loss (`WholeShare`), and
this is where the strengthening is needed: the code looks only for a first fragment, a last one, and none between that lacks its
successor. That these have no holes (`NoHoles`) follows if every fragment has bytes and only the
last reaches the end of the datagram (`SoundState`), which is what `FragmentAssumption` says of what arrives: the pieces of
one datagram were cut from it once, and no link delivers a unicast packet twice.

### MimicDCN

`MimicDCNProofs` proves, for any frames, flows, hashes, latencies and bounds:

* `FramesLeaveOnTime`: `Spec => []FramesOnTime`, when `NumAggs = NumAggIntfs` and `ServersPerTor = 4`;
* `FlowsGetTheirBytes`: `Spec => []FlowBytes`;
* `FeatureIsLastLabel`: `Spec => []FeatureLagsOneBin`.

The two conditions of the first are needed: the code multiplies by one number where it later divides by the
other, and computes the gate of a host with a 4 that is not the parameter;
`MimicCluster.ned` gives both numbers the value `degree` and leaves `servers_per_tor` at its
default of 4. The invariant adds to `FramesOnTime` what the
waiting frames promise (`Waits`), that a frame is in one place (`Places`), and that `busy` is
past every transmission of its gate (`Channels`). That a gate is taken apart as it was put
together is Euclid's division (`DivMod`).

`FlowInv` has, for every flow that was read, the bytes given plus the bytes left equal to its
size while its direction is loaded (`Used`), and that all but the last message of a flow are full and at
different times, so that the set of messages forgets none. `BinInv` has a witness for each direction: the turns over the whole log
(`IsBinning`, which has one solution, the value of `Bins`), whose last bin is the one that
`updateCongesState` keeps in its counters. That the bin is closed at the same packet by both is the step
`ThisBin`. Two more conjuncts of `BinOf` give the feature: a packet was given the state of the turn before it, and
that is the state of the turn that closed the bin before, which `Label` looks for.

### Not proved

Only model-checked: `NoSenderForgotten` with the bandwidth check on (`bubble`), the invariants of `HomaTransport` with its timer running (`transport_loss`,
where it never sees a bubble: with bubbles the whole transport is not checked, only the receiver), `LossIsLocal`, and all other
liveness (`AllTransmitted`, `AllDelivered`, `EventuallyIdle` and the fair part of `DeliversAll`).
Liveness under fairness and ENABLED are out of the prover's reach. With the bandwidth check on an assertion of the receiver can fail
(`bubble_assert`) and a message can get two grants in one event, so `DeliveredComplete`, which says that none fails, and `SenderRefined` do not hold in general.

## Not modelled

* `HomaTransport`: requests without data (a late one would reopen its message),
  `uint16_t` truncation of grant sizes, workload-driven priorities, the other sender
  scheme, the statistics of RTTs and unscheduled rates.
* `IPv4Flow`: bit errors, ICMP error messages (the datagram is given away), a
  node with `multicastLoop` or `useProxyARP` off, packets to one next hop over
  different interfaces, packets and reinjections while the node is down. Configuration
  errors end the program.
* `IFlowRoutingTable`: parsing of the routing file, the hash of a flow byte by byte, metrics.
* `MimicDCN`: the numeric features of a prediction, the averages they are taken from,
  ECN marks and packet priorities; the parsing of its parameters.
* `PseudoIdealPriorityTransport` and the applications: nothing of theirs outlives a
  message; to the transport an application is `AppSend` at any time.
* `WorkloadEstimator`, LSTM inference, training, tuning: numerical code.
* Feature recording, input generators, trace preparation, evaluation: sequential scripts
  over files. Of `prepare/`, the labels of `bin_data_by_time.py` are the references `Bins` and `Label`.
* The run scripts: their locks are files and traps of the shell.
* The vendored INET and OMNeT++, beyond the ARP cache, the fragment buffer and the
  service queue that `IPv4Flow` cannot do without, and the event loop.
