--------------------------- MODULE MeshForwarding ---------------------------
(***************************************************************************)
(* The forwarding of frames over the virtual path selection:               *)
(* MeshForwarding of mesh points and portals, StationForwarding of their   *)
(* clients.  One frame is followed from its source to its end while links, *)
(* paths and associations change; frames do not influence each other.      *)
(* External: the radio (a hop is received or lost) and the wired backbone  *)
(* behind the portals (RANG), which sends a frame for a client down again  *)
(* at the portal that path selection has announced for it.                 *)
(***************************************************************************)
EXTENDS PathSelection

CONSTANT MeshTTL    \* dot11MeshTTL

ASSUME MeshTTLAssumption == MeshTTL \in Nat \ {0}

\* A client is no mesh point.
ASSUME ClientsAssumption == Clients \cap Stations = {}

\* The cost of a measured link is above zero.
ASSUME RadioCostsAssumption == 0 \notin Costs

\* A transceiver, on a channel of its own, does not hear its device.
ASSUME ChannelsAssumption == \A t \in Transceivers : {t, DeviceOf[t]} \notin Radio

VARIABLE frame

fvars == <<mps, linkCosts, pathCosts, paths, proxyOf, portalOf, frame>>

Devices == Stations \ Transceivers

\* The fields of ForwardingCommand; the last line is history: where the frame
\* came from, where it goes, the device at which it entered the mesh, its
\* transmissions in the mesh, and whether the paths and proxies are still those
\* of its entry.
Fresh ==
  [at |-> "nowhere", src |-> None, tgt |-> None,
   ttl |-> 0, toDS |-> FALSE, fromDS |-> FALSE, addressExtension |-> FALSE,
   finalDestination |-> None, originalSource |-> None,
   meshSource |-> None, meshDestination |-> None,
   origin |-> None, goal |-> None, entry |-> None, hops |-> 0, stable |-> TRUE]

\* A copy for forwarding keeps nothing of the command of the original.
CreateForwardingCopy(f) ==
  [Fresh EXCEPT !.origin = f.origin, !.goal = f.goal, !.entry = f.entry,
                !.hops = f.hops, !.stable = f.stable]

Dropped(f) == [f EXCEPT !.at = "dropped"]
Failed(f) == [f EXCEPT !.at = "assertion"]
GiveToRANG(f) == [f EXCEPT !.at = "rang", !.tgt = f.finalDestination]

-----------------------------------------------------------------------------
(* Addresses *)

Device(address) == IF address \in Transceivers THEN DeviceOf[address] ELSE address

IsTransceiverMAC(d, address) == address \in Stations /\ Device(address) = d

HasAssociated(d, address) ==
  address \in Clients /\ IsTransceiverMAC(d, GetProxyFor(address))

Known(address) == IsMeshPoint(address) \/ GetProxyFor(address) # None

\* Mutant: the transceiver is taken for the receiver.
HopToItself(d, destination) ==
  [src |-> d, tgt |-> GetNextHop(d, destination)]

\* The hop of a device towards a destination.  A hop to an own transceiver is
\* none on the air, so the next one, of the transceiver, is taken.
Hop(d, destination) ==
  LET first == GetNextHop(d, destination)
  IN  IF IsTransceiverMAC(d, first)
      THEN [src |-> first, tgt |-> GetNextHop(first, destination)]
      ELSE [src |-> d, tgt |-> first]

Transmit(d, destination, f) ==
  LET hop == Hop(d, destination)
  IN  IF ~Answered(hop.src, destination) THEN Failed(f)
      ELSE IF hop.tgt = None THEN Dropped(f)
      ELSE [f EXCEPT !.at = "air", !.src = hop.src, !.tgt = hop.tgt,
                     !.hops = @ + 1]

-----------------------------------------------------------------------------
(* The three ways to send a frame *)

SendFrameToOwnBSS(f, src, dst) ==
  [CreateForwardingCopy(f) EXCEPT
     !.at = "air", !.fromDS = TRUE, !.originalSource = src,
     !.src = GetProxyFor(dst), !.tgt = dst]

SendFrameToMP(d, f, src, mpDst) ==
  Transmit(d, mpDst,
    [CreateForwardingCopy(f) EXCEPT
       !.ttl = MeshTTL, !.toDS = TRUE, !.fromDS = TRUE,
       !.originalSource = src, !.finalDestination = mpDst])

\* Mutant: the station that forwards is taken for the source.
SendFrameAnew(d, f, src, meshSrc, dst) ==
  IF GetProxyFor(dst) = None THEN Dropped(f)
  ELSE Transmit(d, dst,
         [CreateForwardingCopy(f) EXCEPT
            !.ttl = MeshTTL, !.toDS = TRUE, !.fromDS = TRUE,
            !.addressExtension = TRUE, !.originalSource = meshSrc,
            !.meshSource = meshSrc, !.meshDestination = GetProxyFor(dst),
            !.finalDestination = dst])

SendFrameToOtherBSS(d, f, src, meshSrc, dst) ==
  IF GetProxyFor(dst) = None THEN Dropped(f)
  ELSE Transmit(d, dst,
         [CreateForwardingCopy(f) EXCEPT
            !.ttl = MeshTTL, !.toDS = TRUE, !.fromDS = TRUE,
            !.addressExtension = TRUE, !.originalSource = src,
            !.meshSource = meshSrc, !.meshDestination = GetProxyFor(dst),
            !.finalDestination = dst])

-----------------------------------------------------------------------------
(* The reception of a frame; "refused" is the result FALSE of doOnDataFRS *)

Refused(f) == [f EXCEPT !.at = "refused"]

\* From a client: to another own client, to a mesh point or to the proxy of a
\* client; without an address, to the portal of the client.
OnDataFromSTA(d, received) ==
  LET portal == GetPortalFor(received.src)
      f == IF received.finalDestination # None THEN received
           ELSE [received EXCEPT !.finalDestination = portal]
      dst == f.finalDestination
  IN  IF ~HasAssociated(d, received.src) THEN Failed(f)
      ELSE IF received.finalDestination = None /\ portal = d THEN GiveToRANG(f)
      ELSE IF dst = None THEN Refused(f)
      ELSE IF HasAssociated(d, dst) THEN SendFrameToOwnBSS(f, f.src, dst)
      ELSE IF IsMeshPoint(dst) THEN SendFrameToMP(d, f, f.src, dst)
      ELSE SendFrameToOtherBSS(d, f, f.src, d, dst)

MeshDst(f) == IF f.addressExtension THEN f.meshDestination ELSE f.finalDestination

\* At its mesh destination: for this station, or for one of its clients.
OnDataAtMeshDst(d, f) ==
  IF ~f.addressExtension THEN [f EXCEPT !.at = "upper"]
  ELSE IF HasAssociated(d, f.finalDestination)
  THEN SendFrameToOwnBSS(f, f.originalSource, f.finalDestination)
  ELSE Refused(f)

\* Mutant: a frame is forwarded as often as it comes.
ForwardForEver(d, f) == Transmit(d, MeshDst(f), f)

Forward(d, f) ==
  IF f.ttl - 1 = 0 THEN Dropped(f)
  ELSE Transmit(d, MeshDst(f), [f EXCEPT !.ttl = @ - 1])

DoOnDataFRS(d, f) ==
  IF ~f.fromDS THEN OnDataFromSTA(d, f)
  ELSE IF IsTransceiverMAC(d, MeshDst(f)) THEN OnDataAtMeshDst(d, f)
  ELSE Forward(d, f)

\* A frame that came to the root of the tree although its destination is not
\* here is sent to where the destination is now.
ForwardByRoot(d, f) ==
  IF ~f.addressExtension THEN Failed(f)
  ELSE IF IsMeshPoint(f.finalDestination)
  THEN SendFrameToMP(d, f, f.originalSource, f.finalDestination)
  ELSE LET sent == SendFrameToOtherBSS(d, f, f.originalSource, d, f.finalDestination)
       IN  IF sent.at = "dropped" THEN GiveToRANG(f) ELSE sent

\* The portal first asks for the next hop, also for a frame to a client of its
\* own, with an assertion that there is one; a hop to a portal is wired.
DoOnDataAP(d, f) ==
  LET transit == f.fromDS /\ f.finalDestination # d
      frs == DoOnDataFRS(d, f)
  IN  IF transit /\ ~Answered(d, f.finalDestination) THEN Failed(f)
      ELSE IF transit /\ GetNextHop(d, f.finalDestination) = None THEN Failed(f)
      ELSE IF transit /\ IsPortal(GetNextHop(d, f.finalDestination)) THEN GiveToRANG(f)
      ELSE IF frs.at = "refused" THEN ForwardByRoot(d, f)
      ELSE frs

\* MeshForwarding::doOnData; what the FRS refuses is dropped.
DoOnData(d, f) ==
  IF d \in Portals THEN DoOnDataAP(d, f)
  ELSE LET frs == DoOnDataFRS(d, f)
       IN  IF frs.at = "refused" THEN Dropped(f) ELSE frs

\* StationForwarding::doOnData
StationOnData(f) ==
  IF ~f.fromDS THEN Failed(f) ELSE [f EXCEPT !.at = "upper", !.src = f.originalSource]

\* MeshForwarding::doSendData, after doIsAccepting, which asserts that the
\* destination is known; a portal is not asked to reach a mesh point over
\* another portal.
DoSendData(d, f, to) ==
  LET hop == GetNextHop(d, to)
  IN  IF ~Known(to) THEN Failed(f)
      ELSE IF HasAssociated(d, to) THEN SendFrameToOwnBSS(f, d, to)
      ELSE IF ~IsMeshPoint(to) THEN SendFrameToOtherBSS(d, f, d, d, to)
      ELSE IF d \in Portals /\ (hop = None \/ IsPortal(hop)) THEN Failed(f)
      ELSE SendFrameToMP(d, f, d, to)

-----------------------------------------------------------------------------
Entering(origin, goal, entry) ==
  [Fresh EXCEPT !.origin = origin, !.goal = goal, !.entry = entry]

\* Whether the frame has come to its end; an assertion stops the program.
Ended == frame.at \in {"nowhere", "upper", "dropped"}

\* StationForwarding::doSendData of a client with an association, to another
\* client or, without an address, to the Internet.
ClientSends(c, to) ==
  /\ Ended /\ GetProxyFor(c) # None
  /\ frame' = [Entering(c, to, Device(GetProxyFor(c))) EXCEPT
                 !.at = "air", !.toDS = TRUE, !.finalDestination = to,
                 !.src = c, !.tgt = GetProxyFor(c)]
  /\ UNCHANGED vars

\* Traffic of the mesh point itself.
MeshPointSends(d, to) ==
  /\ Ended
  /\ d # to
  /\ frame' = DoSendData(d, Entering(d, to, d), to)
  /\ UNCHANGED vars

\* The backbone sends down what is for a client: its own traffic, and what a
\* portal gave to it.  It is told of no portal for a mesh point.
RANGSends(c, portal) == frame' = DoSendData(portal, Entering(portal, c, portal), c)

InternetSends(c) ==
  /\ Ended /\ GetPortalFor(c) # None
  /\ RANGSends(c, GetPortalFor(c))
  /\ UNCHANGED vars

RANGForwards ==
  /\ frame.at = "rang"
  /\ IF frame.tgt \in Portals THEN frame' = [frame EXCEPT !.at = "upper"]
     ELSE IF frame.tgt \in Stations THEN frame' = Fresh
     ELSE IF GetPortalFor(frame.tgt) = None THEN frame' = Dropped(frame)
     ELSE RANGSends(frame.tgt, GetPortalFor(frame.tgt))
  /\ UNCHANGED vars

\* The transmission to the receiver; portals do not hear each other.
Receive ==
  /\ frame.at = "air"
  /\ frame.src \in Clients \/ frame.tgt \in Clients \/ {frame.src, frame.tgt} \in Radio
  /\ frame' = IF frame.tgt \in Clients THEN StationOnData(frame)
              ELSE DoOnData(Device(frame.tgt), frame)
  /\ UNCHANGED vars

Lose ==
  /\ frame.at = "air"
  /\ frame' = Fresh
  /\ UNCHANGED vars

\* A step of path selection; a frame at its end is forgotten.
PathsChange ==
  /\ frame.at # "assertion"
  /\ Next
  /\ frame' = IF Ended THEN Fresh
              ELSE [frame EXCEPT !.stable = /\ @ /\ paths' = paths
                                            /\ proxyOf' = proxyOf
                                            /\ portalOf' = portalOf]

ForwardingInit == Init /\ frame = Fresh

ForwardingNext ==
  \/ PathsChange \/ Receive \/ Lose \/ RANGForwards
  \/ /\ AllRegistered /\ Current
     /\ \/ \E c \in Clients, to \in Clients \cup {None} : c # to /\ ClientSends(c, to)
        \/ \E d \in Devices \ Portals, to \in Clients \cup Devices : MeshPointSends(d, to)
        \/ \E c \in Clients : InternetSends(c)

ForwardingSpec == ForwardingInit /\ [][ForwardingNext]_fvars

-----------------------------------------------------------------------------
(* Properties *)

\* DeliveredRightly: through every change of the header on the way (addresses
\* of the hop, of the mesh and of the ends; lines 150-553), what a station or
\* the upper layer of a mesh point gets is for it, and shows its true source.
DeliveredRightly ==
  frame.at = "upper" =>
    /\ IF frame.goal = None THEN Device(frame.tgt) \in Portals
       ELSE Device(frame.tgt) = frame.goal
    /\ frame.origin = IF frame.fromDS /\ frame.tgt \in Stations
                      THEN frame.originalSource ELSE frame.src

\* The mesh point that a frame is bound for: its destination, the proxy of
\* that client, or the portal of the client that sends to the Internet.
Target(f) ==
  LET to == IF f.goal = None THEN portalOf[f.origin] ELSE f.goal
  IN  IF to \in Clients THEN proxyOf[to] ELSE to

\* The destination has no portal, no proxy, or no path from the entry.
Unreachable(f) == Target(f) = None \/ pathCosts[<<f.entry, Target(f)>>] = Inf

\* The frame has come over the air to the portal that is itself the proxy of
\* its client: the query for the next hop ends the program (lines 159-161),
\* before the frame is seen to be for an own client (lines 335-352).
AtOwnPortal(f) ==
  /\ f.goal \in Clients /\ Device(f.tgt) \in Portals
  /\ proxyOf[f.goal] = Device(f.tgt)

\* UndisturbedArrives: a frame is given up (by the TTL, or for an unknown proxy
\* or hop) only if its destination could not be reached when it entered the
\* mesh, or if paths or associations have changed since.  An assertion ends the
\* program only then too, or because of a frame over the air for a client of a
\* portal; and no hop leads from a transceiver to another of the same device.
UndisturbedArrives ==
  /\ frame.at = "dropped" /\ frame.stable => Unreachable(frame)
  /\ frame.at = "assertion" /\ frame.stable => Unreachable(frame) \/ AtOwnPortal(frame)
  /\ frame.at = "air" => Device(frame.src) # Device(frame.tgt)

\* HopsBounded: however the paths change, the transmissions a frame has made in
\* the mesh, and those its TTL still allows, are no more than twice the TTL; the
\* root of the tree, which sends a frame with a new TTL after a client that has
\* left (lines 192-226), does it once.
HopsBounded == frame.at = "air" => frame.hops + frame.ttl - 1 <= 2 * MeshTTL

=============================================================================
