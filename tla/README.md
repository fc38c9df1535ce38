# WiFiMAC in TLA+

A verification development for the openWNS module *wifimac*: an event-driven
model of IEEE 802.11 (with parts of the draft n and s amendments). The code is C++
under `src/src`, its configuration Python under `src/PyConfig`. The program is
sequential, run by the event scheduler of openWNS, but its units meet in many
orders: receptions overlap, timers race receptions, replies race timeouts, and
every unit keeps a small state machine of its own that the others only know
through notifications. That is what is modelled here.

Every definition follows the code; the lines it stands for are listed in
`PROJECT.json` under "map". Paths below are relative to `src/src`.

## 1. The system

### Units and how they are connected

Outgoing unicast frames go down a chain of functional units, incoming ones up:

    Manager -> Overhead -> Buffer -> DuplicateFilter -> StopAndWaitARQ
      -> RateAdaptation -> TXOP -> frame switch
           ACK                    -> SIFS delay
           data within a TXOP     -> SIFS delay
           below RTS threshold    -> DCF (asks Backoff)
           from the threshold on  -> RTSCTS -> RTS over the DCF, the rest over SIFS
      -> rxFilter -> PreambleGenerator -> TxDurationSetter -> ChannelState
      -> FrameSynchronization -> CRC, ErrorModelling -> PhyUser

With the draft n options the chain is Buffer, BlockACK, Aggregation,
RateAdaptation, TXOP, RTSCTS (with fast link adaptation), BlockUntilReply.
Beacons have a Backoff and DCF of their own. Above all of this forward
MeshForwarding/StationForwarding along the paths of VirtualPathSelection.

Units interact in three ways: compounds passed down and up (pulled by wakeups:
a unit that refuses a compound must wake the upper one later), notifications
(start, end and error of receptions; start and end of own transmissions; channel
busy and idle; NAV busy and idle; transmission failed), and direct calls of
"friends" (the Manager for addresses and lifetimes, the Buffer from BlockACK).

### Inventory

| Component | State | Operations | What makes it correct |
|---|---|---|---|
| ChannelState | own tx, own rx, carrier sense, NAV and its timer, wait for a reply, last notified state, busy time | rx/tx notifications, RSS change, overheard frames, reply received, NAV timeout, measurement period | the NAV covers overheard reservations, timer and NAV agree, observers know the state, the busy fraction is exact |
| FrameSynchronization | Idle/Synchronized/Garbled/waitForFinalDelivery, peer, end of the last frame, timer, training fields | preamble, training field, PSDU, own sending, timeout | every start of a reception is ended, the timer is the frame's own, no known transmission is forgotten |
| PhyUser | sending or not, end of the transmission, antenna factors | send, receive, end of sending | nothing is received while sending |
| PreambleGenerator, LongTrainingFieldGenerator, TxDurationSetter | the pending frame behind a preamble | send preamble, then PSDU | order and durations |
| Backoff, DCF | countdown, counter, window, waiting request, error flag, stopping delays | channel busy/idle, rx error, slot and AIFS timeouts, request | access only after AIFS/EIFS and a finished backoff; no request is left without a timer |
| StopAndWaitARQ | active MSDU, retry counters of MSDU and station, ACK state and timer | hand down, send, ACK, timeout, failure, rx/tx notifications | at most once, in order (with DuplicateFilter), bounded retries, every MSDU ends |
| RTSCTS | pending MPDU, pending RTS, CTS state and timer, the NAV as notified | accept, send RTS, RTS/CTS received, timeout, notifications | an MPDU is sent or its failure reported; no CTS inside a NAV |
| DuplicateFilter | last sequence number of each peer | receive | no duplicate, no loss |
| Buffer | waiting MSDUs | arrive, overflow, lifetime, hand down | bounded, drops what expired |
| BlockACK, TransmissionQueue, ReceptionQueue | frames waiting and on the air, request due, wait for the acknowledgement, next numbers; per sender: window start, stored frames, numbers received | hand down, send frame or request, acknowledgement, timeout, failed RTS; data, request | window and order, nothing confirmed that was lost, nothing stuck |
| Aggregation, DeAggregation | container and next container, timer; fragments to send, container being received | collect, send, take apart, reassemble, timeouts | nothing lost, reordered or sent to another receiver; what is heard is delivered; the end is signalled at the end |
| BlockUntilReply | blocked or not, transmission status, timer | tx start/end, rx start/end/error, data, timeout | never blocked for ever |
| TXOP | remaining duration, receiver | send, close | what is announced covers the next exchange |
| RTSCTSwithFLA, FastLinkFeedback | as RTSCTS, with measured and reported SINR and MIMO factors | as RTSCTS, with the mode computed on both sides | as RTSCTS; a frame goes in the mode its reservation was computed for |
| RateAdaptation with Constant, SINR, PER, ARF and their MIMO variants | mode, successes, threshold, probing flag and timer per peer | mode asked, mode set, result, timeout | a retransmission is not faster, a lower mode is left again |
| Manager | association, own address | lifetime, addressing, filters | only associated peers |
| Beacon | beacon timer, scan, best AP | start, beacon received, scan end | one association, to the best AP |
| VirtualPathSelection | costs, paths, predecessors, portals, proxies, clients | register, link create/update/close, next hop | loop-free shortest paths, up-to-date portals |
| BeaconLinkQualityMeasurement, LinkQualityMeasurement | missed beacons, windows, timers per peer | beacon, timeout | dead links are closed, costs follow losses |
| MeshForwarding, StationForwarding | none: header fields of the frame, paths are asked for | send, receive, forward in the mesh, to the own clients, to other cells, to the backbone; TTL | the right receiver sees the true source; a frame is given up only for a reason; none circulates for ever |
| Information bases, ProtocolCalculator, PhyMode, ErrorModelling, probes | tables, formulas | read, write | arithmetic |

### Hard behaviours

* *Overlapping receptions*: a capture ends one reception with an error and begins
  another at the same instant; own transmissions cut receptions off.
* *Timeout against late answer*: ACK, CTS and block acknowledgement each have a
  timer that is swallowed while a reception goes on, and something else must make
  up for it.
* *Delayed decisions*: the countdown is stopped 1 us after the channel turned busy,
  when it may be idle again.
* *Stale copies*: RTSCTS keeps a copy of the NAV, Backoff one of the channel
  state, BlockACK two places for sequence numbers, path selection cached paths.
* *Loss and repetition*: data, ACK, RTS, CTS, requests and acknowledgements are lost
  independently; acknowledgements carry no number.
* *Partial progress*: a block is acknowledged in part, part of it expires, the
  rest is sent again in front of what waits.
* *Decisions made twice*: TXOP and RTSCTSwithFLA compute the duration of a frame that
  is to come from the rate it would have now; the rate is chosen again when it is sent.
* *Several units for one frame*: a train of aggregated frames passes four units that
  hold one compound each, and each of them notifies starts and ends.
* *Paths that change under a frame*: every hop asks anew.

`PROJECT.json` lists each of them as a hazard with its line and the properties
that cover it.

## 2. Modules

| Module | Models | State and actions |
|---|---|---|
| `ChannelState` | ChannelState, with the NAV as RTSCTS sees it | indicators, NAV, accounting; one action per handler, `Tick` for time |
| `FrameSynchronization` | FrameSynchronization and when PhyUser receives | synchronization, transmissions on the air; one action per handler and per event of the medium |
| `Backoff` | Backoff and DCF | countdown, request, channel; one action per handler; the channel and the frames above are the environment |
| `Link` | the promise of the frame exchange to the layers above | fates of MSDUs, deliveries |
| `FrameExchange` | StopAndWaitARQ, RTSCTS, SIFS delay, DuplicateFilter of two stations over a lossy medium; implements `Link` | one record per station for ARQ and RTSCTS; handlers are functions on it, actions are events of the scheduler |
| `BlockACK` | BlockACK, TransmissionQueue, ReceptionQueue, Buffer | sender's queue, receivers' queues, what lies between |
| `PathSelection` | VirtualPathSelection with PathSelectionOverVPS, the transceivers of Layer2 | link costs, paths, proxies, portals; one action per operation |
| `LinkMeasurement` | BeaconLinkQualityMeasurement of two stations, the beacon timer | entry, timer, link and beacon of each station; one action per handler, `Tick` for time |
| `MeshForwarding` | MeshForwarding and StationForwarding over `PathSelection`, which it extends | one frame with the fields of its header; handlers are functions on it; a step of the path selection may come between any two |
| `FrameTrain` | Aggregation, PreambleGenerator, DeAggregation, LongTrainingFieldGenerator, PhyUser of a sender; synchronization and DeAggregation of a receiver | one record per unit with the compound it holds; one action per handler that a wakeup, a notification or a timer runs |
| `RateAdaptation` | RateAdaptation, all strategies, PhyModeProvider, PERInformationBase, SINR bases | per peer the state of the strategy; `GetPhyMode`, `SetCurrentPhyMode` and `OnResult` are functions on it |
| `TransmissionOpportunity` | TXOP between Buffer, StopAndWaitARQ and `RateAdaptation`, which it extends | queue, retry counters, remaining duration; one action per arrival, acknowledgement, timeout |
| `FastLinkExchange` | RTSCTSwithFLA, BlockUntilReply, information base and SINRwithMIMO of two stations, a foreign station | one record per station; handlers are functions on it, actions are events of the scheduler |
| `LinkMeasurement_proofs`, `FrameSynchronization_proofs`, `FrameExchange_proofs`, `BlockACK_proofs`, `FrameTrain_proofs`, `FastLinkExchange_proofs` | theorems about the module named | |
| `ChannelAndMesh_proofs` | theorems about `ChannelState`, `PathSelection` and `MeshForwarding`, one part for each | |
| `ChannelAccess_proofs` | theorems about `Backoff` and `TransmissionOpportunity` with `RateAdaptation` | |
| `MC*` | values for TLC | |

### Correspondence and abstraction

*Time* is counted in ticks, relative to now, in all modules but `BlockACK`. The
action `Tick` is enabled only when nothing is due at the present instant, as the
scheduler runs all events of an instant before later ones; events of one instant
run in any order unless the code fixes it.

*ChannelState*: powers matter only through the comparison with the threshold
(`phyCS`). `latestNAV` is relative; an instant of the past is -1, which is all the
code distinguishes. `rtsNav`, `navSetter` are the copies kept by RTSCTS
(`RTSCTS.cpp:468-479`). `psdu` is the time until the frame behind a preamble ends.

*FrameSynchronization*: SINR values are ordered levels; the choice of thresholds and
the comparison of the ends with the tolerance of 1 us are kept. `sending` is the
state of PhyUser, which passes nothing up while it transmits.

*Backoff*: the counter is drawn nondeterministically from 0..cw. `graces` are the
scheduled `channelBusyDelay` calls. `aifsStart` is read before it is initialized
(`Backoff.cpp:58`), so its first value is arbitrary. The permission (DCF `sendNow`)
is asked for and used in one event.

*FrameExchange*: MSDUs are numbers, sizes are "short", "equal" and "long" relative
to the RTS threshold: FrameSwitch tests "at least", StopAndWaitARQ "above"
(`StopAndWaitARQ.cpp:240-262`). `disturbed` notes
whether a foreign frame has ended while a reply was waited for: only then may an
assertion about replies fail, and the program stops there. All frames have one duration, with a preamble that
may be missed on its own. The DCF is the guard `Permitted`; the NAV that suppresses
a CTS and the lifetime of an MSDU are arbitrary inputs (`e`, expired). The base
class `StopAndWait` and the SIFS delay (`ConstantDelay`) are not in the repository and are
modelled from their use. The assertions of the code are recorded in `broken`.

*BlockACK*: MSDUs are numbers with a receiver and a size in the unit of the
configuration. Three simplifications are named in the module: lifetimes expire in
the order of arrival; the reply to a request begins before its timeout; and RTS/CTS
covers a block together with its request, which Aggregation gives as long as the
container takes both. `held` is the storage used for other senders, which only matters
in `hasCapacity`; it is chosen anew each time it is read. `fate`, `first` and
`delivered` are history variables.

*PathSelection*: stations stand for their identifiers; `mps` keeps the order of
registration, which is the order of the identifiers and so of the search for a portal.
Costs are naturals with a constant for infinity. One round of Floyd and Warshall is one
function; row and column of the intermediate station do not change in its own
round, so this equals the nested loops. Next hops of unreachable pairs, which the code
leaves from earlier and never reads, are `None`. The lookup of a missing portal
entry (line 672) dereferences the end of a `std::map<int,int>`; with the standard library
it reads a number that is no portal's identifier, so the entry is created, as in
the model. Calls that assertions or early returns refuse (unknown addresses, links
between portals, a second proxy) are guards. Not modelled: `useStaticPS`, which
freezes everything after a time, and `preKnowledge`, which averages costs.

*LinkMeasurement*: time is counted in half beacon intervals, as the first timeout takes
one and a half. The content of a beacon is fixed when it passes the unit
(`doSendData`), up to `MaxAccess` before it is received or lost. Of the window only the age of
the last success matters: the rate is above zero as long as that is younger than the
window. `linkCreated` stands also for the entry in VirtualPathSelection, which is
created, updated and closed together with it; costs are data. An entry starts with 10
misses, the constant of the constructor.

*MeshForwarding*: one frame is followed from its source to its end, as frames do not
influence each other. `origin`, `goal`, `entry`, `hops` and `stable` are history.
Failed assertions are an end of their own (`at = "assertion"`), like drops. A hop is
received or lost; the wired backbone (RANG) is external and gives a frame for a client to
the portal that path selection has announced. Three assumptions on the constants are those of the configuration: a client is
no mesh point; a measured link costs more than zero, so that only wires and links inside a device are
free; a transceiver does not hear its own device, as it is on another channel. `GetNextHop` reads
the matrix of the paths, whose diagonal is never written (`VirtualPathSelection.cpp:85, 629`): it holds
the identifier 0, and identifiers start at 1 (line 761), so that a query for a client of the asking
station itself looks up the address of no station (lines 790-793) and ends the program. `Answered` says which queries
return; `Transmit` and `DoOnDataAP` end in a failed assertion for the others. Only the query of a portal for
a frame that came over the mesh (`MeshForwarding.cpp:159-161`) is ever made for an own client.

*FrameTrain*: units hold at most one compound and pass it on as soon as the next one
accepts, which takes no time (`UnitsSettled` guards `Tick`); every compound on the air
takes whole ticks. Sizes are counted in entries. `Impatient` is FALSE as
configured. `SendSingle` is a frame that is not aggregated. The receiver may miss any fragment,
and a train of the foreign station may capture it. The container that
is begun for another receiver (`StartNext`) gets no timer, and loses the flag when the one before it
is sent, as in the code: it waits for the frames that close it.

*RateAdaptation*: a scheme is its index in the order of the SINR it needs, a mode the
sequence of the schemes of its streams. A scheme that needs more carries more bits, as in the tables of
`PyConfig/wifimac/convergence/PhyMode.py`. The list of ARFwithMIMO, sorted by bits, is a set with the order
`Precedes`, in which `After` and `Before` find the neighbours. Durations and bits are whole numbers, SINR
values integers that avoid the one point where `PhyModeProvider::getMCS` steps before its
first entry (`ReportsAssumption`). The window of PER is a pair of counts from
which a result may leave at any time.

*TransmissionOpportunity*: a frame passes from the buffer to TXOP in one step; lifetimes
expire in the order of arrival. `air.before` and `announced` remember what was announced, or sent
before, and whether conditions (timer of ARF, window of PER, reports of the peer) have
changed since: then nothing is promised. `CountsOwnLosses` says when the number of a transmission counts the losses
of its own receiver: with counters for each frame, or with one receiver.

*FastLinkExchange*: time is not counted; three orders are assumed: a reply begins before
the timeout of its request, no frame is shorter than SIFS, and the 10 ns after a
reception come before anything else. The ARQ above (BlockACK) waits for its reply before
it hands down the next MPDU. Each station has an information base of its own (`sinrMIB`: `SINRwithMIMOInformationBase` and
its base class): the factors it has measured of its peer, and the SINR and the factors its peer has reported. A
reception measures the factors of as many streams as its training fields show (`Trainings`), and entries for
other numbers of streams stay. The phy mode is computed twice, as in the code: by the receiver of an RTS (`PrepareCTS`,
`RTSCTSwithFLA.cpp:519-538`) from its measurements, which it puts in as faked reports, and by the sender (`OnCTS`, lines 195-220) from all
that it has been told so far, after the SINR and the factors in the CTS are put to it. `GetPhyMode` is that of SINRwithMIMO: the best over the numbers
of streams up to the fewer antennas of the two, whose factor is known. Both stations use the strategy with one
configuration, and one registry of antennas (`Manager.cpp:105`). `reserved` is a history variable in the frame.
Left out are the reports in beacons, the faked entries after their own instant, the rate of an MPDU that goes without a CTS, and the validity of an SINR (`knowsMeasuredSINR` is
true where it is asked, as the RTS has just been measured). What is reported to the foreign
station does not matter, as it is not modelled what that does with it.

In both exchanges (*FrameExchange* and *FastLinkExchange*) the end of a reception is processed before the delivery of the same instant, which is the normal
order of these events. `FrameSynchronization.cpp:388-398` could deliver first when a weaker, longer preamble
has extended `lastFrameEnd` (lines 263-272); this corner is not modelled.

## 3. Runs

All bounds are in the cfg files. Two workers need between a second and about three
and a half minutes for a run.

| Run | Question | Bounds and why they are enough |
|---|---|---|
| `channel_state` | Do NAV, timer, observers and busy time stay consistent under every order of handlers? | two peers (one sets the NAV, one replaces it); durations below, at and above a period of 4 ticks, so that reservations extend, replace and outlive each other and busy intervals span periods |
| `frame_synchronization` | Do captures and failed captures confuse the receiver? | three transmitters (a frame, its capture, a third that outlasts both), frames of 1, 2, 4 ticks, SINR levels on each side of each threshold; the peers are symmetric |
| `backoff` | Is every access earned, and does a frame always get one? | 1 us < slot < AIFS < EIFS, a window that doubles twice and is cut off, four transmissions |
| `frame_exchange` | Are retries bounded, and does everything end? | two MSDUs one way (without and with RTS/CTS), one back, so that both stations contend, reply and wait at once; two attempts of each kind |
| `frame_exchange_foreign` | Does the exchange implement `Link`, and is no MSDU forgotten, also with another station's frames? | a foreign frame of the length of a preamble, which may begin at any tick and so ends before, at and after each timeout and reply; an MSDU without RTS/CTS, one of exactly the threshold |
| `block_ack` | Are blocks kept in order, confirmed only when received, and ended? | three MSDUs for one receiver, the third of size 2 and a window of 3, so that the window closes with a frame left over; a fourth for another receiver; a buffer of one, so that it overflows; storage that takes the rest of the capacity away |
| `path_selection` | Are paths, next hops and portals right in every topology? | a ring of two portals (wired), two mesh points and a second transceiver (internal link), so that two ways lead everywhere and two kinds of free links lie in one cycle; each direction of the three wireless links is absent or costs 1 or 2, with all 729 combinations and every order of changes; a client that roams between a portal and two mesh points |
| `link_measurement` | Do links close in time, come back, and never divide by zero? | the configured limits (9 missed beacons, a window of 9 intervals) in full; two stations half an interval apart, beacons delayed by up to half an interval, any loss pattern |
| `mesh_forwarding` | Does a frame get where it should while paths and associations change? | the ring of `path_selection`: two portals joined by a wire, a mesh point with a second transceiver, another mesh point, so that frames cross a wired, an internal and a radio hop and have two ways; links come and go one by one; a client roams between a portal and a mesh point; a TTL of 3 is just enough for a way through all four devices, so that it runs out when paths change under a frame |
| `frame_train` | Are frames collected, fragmented and reassembled without loss or mixing? | three frames for two receivers, so that a container is closed by size, by a request, by the timer and by another receiver; one training field, so that preamble and fragment differ; one foreign train that may capture the receiver anywhere |
| `transmission_opportunity` | Does what is announced hold, and does the rate adaptation recover? | three schemes (an inner one and both ends), two streams, two peers; each of the seven strategies with one peer and the station counters, ARF with both peers and counters per frame, PER with both peers, counters per frame and opportunities for a single receiver; three losses in a row reach the retry limit, after which the next frame may count as the fourth transmission; the peers are alike, and symmetric |
| `fast_link` | Does any interleaving with replies, errors and foreign frames break an assertion or stop a station, and do both stations compute the same mode? | two frames per station, with and without RTS, within and outside of a transmission opportunity; a foreign frame that may disturb the request or the reply; two antennas each, two values of the SINR, and a second training field that may be missed, so that a report differs from what was known before and two streams are worth it at the better SINR only; the stations are alike, and symmetric |

What the properties say, by run:

* `channel_state`: `NavTimerMatches` (the timer is latestNAV), `OwnNavRuns` (the
  abort finds a timer), `ObserversUpToDate` (no change without notification),
  `BusyTimeExact` (the reported fraction is the true one), `ReservationKept`
  (an overheard reservation is covered to its end unless a reply aborts the NAV).
* `frame_synchronization`: `StateAgreesWithTimer`, `StartsTerminated`,
  `DetectedCovered`: the single timer and the remembered end of the last frame belong
  to the right transmissions, and each start of a reception is terminated before the next.
* `backoff`: `GrantIsEarned` (every permission is paid for by a backoff counted to zero after
  the last busy period, in the window of that transmission), `EifsAfterError`,
  `CountdownFollowsChannel`, and the liveness property `NoStall`.
* `frame_exchange`: `RetriesBounded` and the liveness property `EverythingEnds`.
* `frame_exchange_foreign`: `NeverForgotten` (an active MSDU is under way or waited for,
  every wait has a timer, replies come only when they are expected) and the refinement
  `ImplementsLink`, that is, `Link` as a property.
* `block_ack`: `WindowOrdered`, `RepliesAreExpected` (every wait ends, and only a
  wait is ended), `DeliveredInOrder` (with what the receiver stores and why),
  `AckedIsReceived`, `EverythingEnds`.
* `path_selection`: `PathsAreShortest` compares the matrix with the cheapest of all simple
  routes over bidirectional links; `NextHopsReach` follows the hops that the
  stations take one by one, and ends because no cycle of free links is entered;
  `PortalServesClient` relates the cached portal of a client to the present paths. The
  first two hold once a computation has seen all registered stations (`Current`):
  registering a portal computes nothing.
* `link_measurement`: `EntryIsTimed`, `AdvertisedRateIsPositive`, `SilenceCloses` (with a
  bound that is tight: it fails when it is one half interval smaller) and the liveness
  property `LinksComeBack`.
* `mesh_forwarding`: `UndisturbedArrives` (a frame is dropped only
  if its destination had no portal, proxy or path when it entered, or something has changed
  since; the program ends only then too, or because the frame came over the mesh for a client of the portal
  itself, which the run reaches: the exception `AtOwnPortal` is needed; no hop leads from a device to itself), `DeliveredRightly` (the
  receiver is the one meant, and the header shows the true source), `HopsBounded`
  (transmissions made and still allowed are twice the TTL at most: the root of the tree may start a
  frame once more for a client that has left; the bound is tight, one less fails).
* `frame_train`: `TrainsAreUniform`, `EndMeansEnd`, `HeardIsDelivered`.
* `transmission_opportunity`: `NavCoversNext`, `RetryNotFaster`, `ClimbsAgain`.
* `fast_link`: `AssertionsHold`, `NothingStalls`, `ReservedAsSent` (the phy mode in which an MPDU is sent is the one its
  reservation was computed for, although its sender computes it anew from another information base).

Deadlock is checked except where the system may stop: `frame_exchange_foreign` and
`fast_link` (a failed assertion or the last frame), `block_ack` (all MSDUs are done),
`mesh_forwarding` (an assertion ends the program).

Each property of these runs has a mutant: an operator beside the original that
makes a plausible mistake (a dropped guard, a forgotten notification, a wrong
order), with which the property fails.

### Disagreements between code, comments and intent

Met while modelling; the models follow the code.

* *NAV*: `INetworkAllocationVector.hpp` promises indications of the NAV's status. When a
  reply aborts the NAV (`ChannelState.cpp:227-235`) the timer is cancelled without the
  notification that its expiry gives, so RTSCTS goes on believing in a NAV until the
  next one ends, and drops RTS frames.
* *Replies*: a foreign frame that ends while the ACK is waited for moves the state on; the
  ACK then meets the assertion "Received ACK but not waiting for ack". The CTS in
  RTSCTS and the acknowledgement of BlockACK have the same weakness. `NeverForgotten` and
  `RepliesAreExpected` allow these failures, and no others, after `disturbed`.
* *Patience*: BlockACK.hpp says that a patient station sends its request when a frame to a
  different receiver is due; `hasData` never looks, and the buffer's head and the
  unfinished block wait for each other (the run has `Impatient = TRUE`).
* *First frames*: ReceptionQueue.hpp takes a number below waitingSN for one that was
  received before. The queue of a new sender starts with the first frame that arrives,
  so an earlier one that was lost is acknowledged when it is repeated, and discarded.
  `AckedIsReceived` excepts it.
* *Backoff*: `finishedAt` computes with the present error flag.
* *Limits*: `maximumTransmissions` of BlockACK is read from the configuration, whose
  comment says that frames are dropped after it, and never used (`TransmissionQueue.cpp:269`).
* *Receiver*: after an own transmission FrameSynchronization is Idle with `lastFrameEnd`
  reset although a transmission it knew of goes on, so the next preamble
  is judged with the threshold for "no other transmissions are active".
* *Window after a drop*: a comment of StopAndWaitARQ says that the window is reset after a
  drop, but a new MSDU starts with the sum of the station counters plus one
  (`StopAndWaitARQ.cpp:214`). With several peers the first frame to one of them may
  so count as a third transmission, which lets ARF pass by its threshold, tested for
  equality (`ARF.cpp:86`), and take back a step up that TXOP has already announced: `ClimbsAgain` and `NavCoversNext` are stated
  for one receiver or counters per frame (`CountsOwnLosses`).
* *Aggregated results*: BlockACK reports all results of a block before the strategy is asked
  again, so that the count of ARFwithMIMO can pass its threshold in the same way.
* *Rates*: with SINR, a retransmission may be faster than the transmission before when a
  better report has come; with PER the rate may go down after a success when enough
  results are known, so `NavCoversNext` excepts PER. `PERwithMIMO` may raise the bit
  rate when it reduces the number of streams. The threshold of ARF is doubled as long as it is
  below the maximum and so may end above it (64 with a configured maximum of 50). `MCS::setMCS` compares with "BSPK".
* *TXOP*: with `maxOutTXOP` (off unless configured, `TXOP.py:41`) what is announced is what remains, not what is needed, and
  nothing checks that the next exchange fits (`TXOP.cpp:193-203`); `NavCoversNext` is proved without it. A frame
  that is repeated is not the one the announcement was made for, which the comment at
  `TXOP.cpp:136-139` notes.
* *Aggregation*: the first frame of a next container starts no timer, although
  `Aggregation.py` gives each container a maximum delay. When the container before it
  is sent, `getSomethingToSend` resets the flag `sendNow` and cancels the timer (`Aggregation.cpp:181-190`), so that the next
  container, which takes its place, has neither: it waits until more frames fill or close it, for ever when none come.
  The model follows the code; the properties of `frame_train` do not say that a container is sent.
  A receiver that is captured delivers its open container also when it is empty.
* *Mesh*: at a portal that has lost its route, a frame for an unknown client fails an
  assertion where a mesh point would drop it (`MeshForwarding.cpp:384-395`). A frame that
  comes over the mesh to a portal for a client of that portal ends the program at the query of
  lines 159-161, although a comment in `doOnDataFRS` says of a frame that has reached its final mesh destination
  that "it goes ... b) to one of my clients" (lines 314-317).
* *Path selection*: registering a portal in VirtualPathSelection changes costs without marking
  the paths as outdated. `getPortalFor` goes on returning the portal of a client that was
  deregistered, where `IPathSelection.hpp:76-78` promises an invalid address.
* *One-way links*: a comment in `deadPeerMeasurement` counts beacons that the peer did not
  receive, but every beacon of the peer sets the count to zero just before, so a link that
  works in one direction only is never closed by the side whose beacons are lost; the other
  side closes its own, and path selection then uses neither.

## 4. Fairness

Liveness holds under the fairness of an event scheduler: time goes on, and what is
scheduled happens.

* `Backoff`: weak fairness of `Tick`, of the timeout and of the stopping delay. The channel may
  change for ever; `NoStall` therefore promises that a frame is sent or the channel
  becomes busy again and again.
* `FrameExchange`: weak fairness of time, of the timers, of SIFS and of the ends of preambles and
  frames; strong fairness of the two actions that need the permission of the DCF, which
  comes and goes with the channel: `NoStall` of `Backoff` is why a waiting frame gets it.
  Losses are not restricted: the retry limits end every MSDU.
* `LinkMeasurement`: weak fairness of everything but `Stabilise`, that is, of the scheduler. The
  medium may lose beacons for ever; `LinksComeBack` speaks of behaviours in which it
  becomes reliable.
* `BlockACK`: weak fairness of the work of the units and of the timer, strong fairness of
  `Expire`, which time enables again and again. BlockACK never drops a
  frame for its number of transmissions, so only lifetimes end an MSDU that is lost every time;
  without a limit (`msduLifetimeLimit = 0`) `EverythingEnds` would not hold.

## 5. Proofs

A proof module holds the theorems of one component, or of several whose names do not meet; its parts are
separated by lines.

### Channel state

`ChannelAndMesh_proofs` proves, for any peers, durations, SIFS, period and set of active
indicators, that every invariant of the run `channel_state` holds of `ChannelSpec`:
`ChannelTypeCorrect`, `TimerMatches`, `AbortFindsTimer`, `NoMissedNotification`,
`BusyFractionCorrect`, `OverheardIsReserved`, all from the theorem `ChannelInvariance`.

The only assumptions are those of the module: durations and SIFS are naturals and
the period is positive. The inductive invariant `ChannelInv` is the conjunction of the type
invariant and the five others; none of them but the types is inductive alone. A
reservation is kept because the timer expires exactly at the NAV's end
(`NavTimerMatches`); the abort is harmless because the wait for a reply has a timer
(`OwnNavRuns`); the busy time is exact because the observers' last state is the
true one (`ObserversUpToDate`). The argument has three parts: lemmas about
`CheckNewCS`, through which all changes of the channel state pass, lemmas about the
extension of the NAV, and one lemma per action.

### Path selection

The second part of `ChannelAndMesh_proofs` proves the three invariants of the run `path_selection` for any finite set of
stations, portals, transceivers and clients, any order of registration and any costs: `ShortestPaths`,
`HopsReach`, `PortalServes`. The assumptions are those of the module; the one that matters is `CostsAssumption`, that no
simple route is as expensive as "infinity". The inductive invariant `PathsInv` says that the stations are registered in
their order, that wires are free, that the tables are a solution for the present links (`Solved`) unless a station has
been registered since, and that a client's portal is the one the search finds now.

Two things are proved about the algorithm. *The rounds of Floyd and Warshall*, by induction over the number of the round: after
each, the entry of a pair is the cost of the cheapest route through the stations handled so far, and the
predecessor belongs to it. *The next hops*: the search walks back from the destination along predecessors, and the
stations, each by its own matrix, walk forward. With positive costs each hop makes what is left cheaper; but wires and
links inside a device are free, and a cycle of free links could hold a frame for ever. It does not, since of two equally cheap
routes the matrix keeps the one found first. The proof makes this a number: every station gets a *weight*, larger than
that of any path of the earlier rounds, a path has that of the stations on it, and the pair (cost, weight) falls along the next hops in the lexicographic order.

### Mesh forwarding

The third part proves the three invariants of the run `mesh_forwarding` over all behaviours of path selection, for any stations,
clients and TTL: `FramesDeliveredRightly`, `FrameHopsBounded`, and `FramesArrive` for each TTL that allows a path through
all devices (`TTLSuffices`). `FramesArrive` promises what the code keeps: an undisturbed frame is never dropped, and the
query that has no answer, at the portal that is itself the proxy of the client, is the only way in which it ends the program
where the destination can be reached. The TTL of the run is the least that does; a shorter one gives frames up on its own,
as the code intends. The
inductive invariant joins `PathsInv` with two statements about the frame. `Shape` holds however the paths change: on each leg
of its way (from the client, in the mesh, in the backbone, to the client) the header tells the true source and
the receiver that is meant, and the transmissions made and still allowed stay within the budget. Twice the TTL is the bound, since
only the root of the tree gives a frame a new TTL, for a client that has left, and addresses it
to a proxy that is no portal, which never does so again (`Budget`). `Live` holds as long as nothing has changed: the frame is on
a route to the destination its source would choose. A ranking of the devices that falls with every hop (`Descends`) exists because
of the order of the pairs above; it counts devices, not stations, because a hop inside a device costs no TTL.

### Link measurement

`LinkMeasurement_proofs` proves the four invariants of the run `link_measurement` for any offsets,
window, number of allowed misses and access time: `TypeCorrect`, `TimeoutPending`,
`RatePositiveOnAir`, `SilenceBounded`. The assumptions are those of the module; the one that
matters is `WindowAssumption`, that the window is longer than the silence
after which an entry is inactive. The invariants are not inductive: nothing in them
relates the age of the last success to the count of misses. `Paced` does: the age and
the time to the next timeout are together at most the grace time plus one half interval
for each counted miss. Time moves a unit from the timer to the age; a timeout adds two
to both sides; a beacon starts all three anew. `TimedIsLive` bounds the misses of
an entry that still waits. Both bounds of the theorems follow from the two.

### Backoff

`ChannelAccess_proofs` proves the three invariants of the run `backoff` for any slot, spaces, stopping
delay and window: `PermissionIsEarned`, `ErrorCostsEifs`, `CountdownIsRight`. The assumptions
are those of the module: 1 us < slot < AIFS < EIFS in the order of the standard. That a
permission was paid for is a fact about the past; it becomes inductive by what is still
to be paid (`SpaceAhead`): the rest of the timer and the time since the channel became idle make
up the space together. `ErrorRemembered` settles the order of two notifications: a failure is
remembered while the channel is busy, and in the instant of the change to idle the countdown can
still be started again. The closed form of the window (it doubles up to its maximum), which the
code computes with a loop, is compared with that loop by TLC for the values of the run
(`WindowDoubles` in `MCBackoff`).

### Transmission opportunity and rate adaptation

The other part of `ChannelAccess_proofs` proves the three invariants of the run `transmission_opportunity` for any peers,
schemes, antennas, thresholds, reports, lengths and durations, and all seven strategies: `PromisesAreKept` (with the
hypothesis that `maxOutTXOP` is off, see section 3), `RetriesAreNotFaster`, `StationsClimbAgain`. The inductive invariant
`OpportunityInv` relates three times at which a rate is asked for.

* `AirAgrees`: the mode of the transmission under way is the one the strategy had for it, so that what a loss makes of the
  strategy can be compared with it. The comparison rests on lemmas about the strategies: `Lower` and `Higher` are monotone in the
  bit rate (`LowerIs`, `HigherIs`), and with SINR the best of all numbers of streams cannot gain when the SINR falls by the
  same amount for all of them (`SinrMimoFalls`).
* `AnnouncedRight`: what was announced is the exchange of the head of the buffer with the rate it would have now. A
  success may only raise the rate; a higher rate needs no more symbols (`FewerSymbols`).
* `CountsRight`: between two frames the successes of ARF are at most the threshold, and below it as long as a frame is in transmission
  which may be compared (`Below`, `AtMost`). This is where `CountsOwnLosses` is needed.

`RetriesAreNotFaster` has the hypothesis `MinSamples <= 100`; the configured number is 10. PER goes up when the share of losses is below
1 %, and a loss is then in the window: among 100 results or fewer it is no smaller share. If more were asked for, a
retransmission of PER could be faster than the transmission that was lost.

### Frame synchronization

`FrameSynchronization_proofs` proves the invariants of the run `frame_synchronization` for any
peers, durations, levels, thresholds and streams: `StateAndTimerAgree`, `EveryStartTerminated`, and
`NeverIdleTooEarly`. The last one needs two things. What is detected must be on the air
(`DetectedOnAir`), and different ends must differ by the tolerance at least (`Tolerance = 1` in
ticks): with ends closer than the 1 us that the code treats as equal, each of
several captures may shorten what is remembered, and the receiver is idle too early by less than
the tolerance. `DurationsAssumption` asks that no frame is shorter than the time for its delivery.

### Frame exchange

`FrameExchange_proofs` proves `RetriesStayBounded` for any loads, sizes, retry limits and times. The
counters alone are not inductive: the long counter is zero when a short frame ends only because
nobody counts for the MSDU behind its back. The inductive invariant is that there is one copy
of the active MSDU (`Coherent`, `Carried`): it waits to be sent, is held by RTSCTS, waits for
SIFS, is on the air, or its acknowledgement is waited for, and never two of these. There is one
lemma for each handler of ARQ and RTSCTS, and one for each event of the scheduler.

The same module proves that `FrameExchange` implements `Link` (`RefinesLink`): every
MSDU is delivered at most once and in order, and nothing is confirmed that was not
delivered. Acknowledgements carry no number, so the argument is one about time. `AckOK` says: as long as the
acknowledgement of the active MSDU is waited for, one that is under way belongs to it; one that is
late ends before the station that gave up could have sent the next frame, because a
reply has begun, but not ended, when its timeout comes (`TimesAssumption`), and what is left of it
is shorter than any frame. `MediumOK` says that a station either waits for SIFS, transmits or
receives. `HistoryOK` relates the filter of duplicates and the fates of MSDUs with both. Every step is
then a step of `Link` or leaves its variables alone.

Its third theorem, `NothingForgotten`, states `NeverForgotten`. Two of its parts are about time. A CTS or an
ACK meets the state that its assertion expects: as long as its preamble is to come, the station waits longer than
that, or transmits something that ends later, or a frame of another station was taken for the reply (`AnswerOK`). The SIFS
delay accepts every reply: it is empty when a frame of the peer ends, because whatever the peer has sent since was on the air for
longer than SIFS (`SifsOK`). Both need that SIFS is shorter than the PSDU of any frame, which `TimesAssumption` asks beside
the order of reply and timeout (16 us against the 24 us of an ACK). The rest says where the MSDU is when ARQ and
RTSCTS have given it away, and that each state that waits has its timer (`KeptOK`).

### Block acknowledgement

`BlockACK_proofs` proves `EveryWaitEnds`, the property `RepliesAreExpected` of the run `block_ack`, for any
receivers, loads, sizes and limits. Frames of others and own replies move the state of the wait on, so
state and timer are not enough. The inductive invariant sees them together with what the units below
hold. A block is waited for because its request is still in the line, because the timer runs, or because
something is received (`WaitEnds`). The request is the last frame of its line, and the line is empty while
its answer is waited for (`LineOK`). An answer meets the expected state until a frame of another station comes in
between (`ReplyOK`). For this part the proof needs of the data only the fields
of records and that sequences are sequences.

The same module proves the three invariants about the data: `QueuesStayInOrder`, `PassedUpInOrder` and
`ConfirmedWasReceived`. The inductive invariant `DataInv` says that for each receiver there is a numbering
of the MSDUs on which both ends agree (`Peer`): the numbers handed out so far (`NextSN`) went to MSDUs of that
receiver, earlier ones first (`Numbered`); what the receiver stores, has passed up or noted for the next
acknowledgement follows the numbering (`RxData`), and so does what the sender has on air and queued
(`Pending`). Two parts carry the argument. *Nothing that may still be sent has been passed over*: the receiver
moves its number only by a request, whose number is the first on air, so that a frame below what it waits for is
one that it has (`Passed`). *The window*: what the receiver has noted since the last request is either older than
the block or among the first entries that fit on the air together (`InWindow`); when an acknowledgement is waited
for, no more fits, so these are on air, and the walk of the sender through the two sorted lists confirms nothing
else. An acknowledgement that comes too late finds the state idle and is refused (`ReplyData`). `DataInv` is
existential in the numbering, which no variable of the program holds.

The lemmas below this compute with data: what `Selected` picks, what a size adds up to, what the purge of the
reception queue passes up. Each is an induction over a natural number, carried out in the module
itself (`LeastNumber`, `Induction`): a set of numbers that is closed under successors has them all, since
otherwise it would lack a least one. This is why the model selects with a recursive function of its own
(`Selected`) and not with `SelectSeq`, whose definition is closed to the prover.

### Frame trains

`FrameTrain_proofs` proves the three invariants of the run `frame_train` for any receivers, container
sizes, numbers of training fields, frames handed down and trains of the foreign station:
`ContainersAreUniform`, `EndsAreEnds` and `HeardFramesAreDelivered`. Five units hold a piece of a transmission each,
and what a unit may hold depends on what the others do. The inductive invariant therefore names the *stages* of one transmission
(`Stages`: ready, preamble queued, due, on the air, training fields, and each fragment due, on the air or over)
and says in each what every unit holds; the steps of the sender lead from a stage to the next. That
the end of a container is the end of its last fragment, and that no assertion fails, can be read off the stages.
For `HeardIsDelivered` the timers of the receiver are related to what is left of the train (`Left`): whoever is
synchronized to a train is so exactly until its end (`Locked`), because the preamble announces the fragments and
the training fields that the generator inserts; the container holds fragments of that train only and times
out with it (`Filled`); and no own frame that was heard has a number above those that have left the air (`Kept`). The sender and the foreign station appear to the receiver in the same four
moves only: a transmission goes on, waits for its next compound, begins, or ends (`GoesOn`, `Waits`, `Begins`, `Lands`). The
assumptions are types of the constants, that a container has room for two entries, and that `None` differs from compounds, numbers and
the names of senders.

### Fast link adaptation

`FastLinkExchange_proofs` proves the three invariants of the run `fast_link` for any antennas, SINRs, training fields and table of modes, numbers of frames
offered, and numbers of frames of the foreign station: `AssertionsAlwaysHold`, `NothingEverStalls` and `SentAsReserved`.
Two units observe the same transmissions and receptions, and each keeps a state and a timer of its own. The inductive
invariant has four parts. `Local` says of one station that every wait of either unit has the frame, the reception
or the timer that ends it (`Blocking`, `Requesting`), and that the MPDU of the ARQ is in one place (`Awaiting`).
`Flushed` says that `TryToSend` has passed on what could be: above all the CTS, which BlockUntilReply accepts while it
is blocked, and whose place in the SIFS delay is free because a station that has just received neither transmits nor
waits for SIFS. `Cross` relates the two stations: a CTS or a reply is under way only to one who still waits for it.
It is the part that needs the orders assumed in section 2: a timeout would make the next CTS unexpected, so that its assertion
fails, if the reply could begin later. That a reply is the one for the MPDU of its receiver (`Done`) keeps the
ARQ from handing down another MPDU meanwhile.
`Informed` is what the two computations of the mode rest on: the sender has been told of factors only for numbers of streams that the receiver has
measured, too, since the receiver forgets none; every CTS repeats all of them up to the number of the own antennas, which is no less than `MaxNumSS`, so
a report replaces whatever was known before, and lost reports do no harm. With the same SINR and, for all numbers of streams that count, the same factors,
`GetPhyMode` gives both the same mode (`ReservedAsSent`). There is one lemma for each handler of each unit, which
says what it keeps of `Local` before the final `TryToSend` (`Ready`); what it leaves alone of the answers under way
(`Mild`) is enough for `Cross`, so that only the steps that send or receive an answer look at both stations. The
assumptions are those of the module: two stations, positive numbers of antennas and modes, a fastest mode, at least one SINR and training, and that `None` differs from
frames and names of stations.

### Model-checked only

Liveness under fairness, which the prover does not handle: `NoStall`, `EverythingEnds` of both exchanges, `LinksComeBack`. Every
invariant of the runs is the subject of a theorem, and so is the refinement of `Link`. Three
theorems have a hypothesis that the run does not mention, each explained above: `TTLSuffices`, `~MaxOutTXOP` and
`MinSamples <= 100`; where it does not hold, nothing is claimed beyond the run.

## 6. Not modelled

* *Real arithmetic*: error curves (`ErrorModelling`, `ErrorProbability`), received powers, the
  lengths of aggregated PSDUs (`FrameLength`), costs of links from rates. What depends on them
  is a choice in the models: a frame is received or not, a cost is any of a small set.
* *Probes, traces, keys and filters of the evaluation*: they do not influence the protocol.
* *Construction from the configuration* (`Layer2`, `WiFiMAC`, `PyConfig`), except the order in
  which stations and transceivers register.
* *Scanning and association* (`Beacon`, `Manager`): a station associates once with the strongest
  beacon of its scan; roaming is an input of `PathSelection` and `MeshForwarding`.
* `FastLinkFeedback`: its configuration is commented out. `LinkQualityMeasurement`: no
  configuration uses it. `BeaconLinkQualityMeasurementwithMIMO` has the handlers of
  `BeaconLinkQualityMeasurement`; the difference, the formula of the rate, is data.
* `useStaticPS` and `preKnowledge` of VirtualPathSelection, the estimates of `Buffer` and
  `Backoff` for callers outside of the repository.
* External code of openWNS: the base classes StopAndWait, Concatenation and ConstantDelay, the
  scheduler, the physical layer. They are modelled from their use.
