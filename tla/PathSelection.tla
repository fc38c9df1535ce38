--------------------------- MODULE PathSelection ---------------------------
(***************************************************************************)
(* The virtual path selection of the mesh (VirtualPathSelection.cpp), fed   *)
(* by PathSelectionOverVPS of every station: the matrix of link costs, the  *)
(* cheapest paths over bidirectional links, and the portal through which    *)
(* the Internet side reaches every proxied client.                          *)
(***************************************************************************)
EXTENDS Naturals, Sequences, FiniteSets, SequencesExt, FiniteSetsExt

CONSTANTS
  Stations,   \* addresses that take part in the mesh, transceivers included
  Portals,    \* the stations that are access points
  DeviceOf,   \* the device address of each additional transceiver
  Radio,      \* the pairs of stations that may hear each other's beacons
  Costs,      \* the link costs a measurement may yield
  Clients,    \* addresses for which a station may be the proxy
  Masters,    \* the stations each client may associate to
  Order,      \* the order in which the stations are created
  Inf,        \* the infinite metric
  None        \* the invalid address

Transceivers == DOMAIN DeviceOf

ASSUME StationsAssumption ==
  /\ IsFiniteSet(Stations)
  /\ Portals \subseteq Stations
  /\ Transceivers \subseteq Stations \ Portals
  /\ \A t \in Transceivers : DeviceOf[t] \in Stations \ Transceivers
  /\ Masters \in [Clients -> SUBSET Stations]
  /\ \A pair \in Radio : pair \subseteq Stations /\ Cardinality(pair) = 2
  /\ None \notin Stations \cup Clients

ASSUME OrderAssumption ==
  /\ Order \in Seq(Stations)
  /\ ToSet(Order) = Stations /\ Len(Order) = Cardinality(Stations)
  /\ \A i, j \in DOMAIN Order :
       Order[i] \in Transceivers /\ Order[j] = DeviceOf[Order[i]] => j < i

ASSUME CostsAssumption ==
  /\ Costs \subseteq Nat /\ Inf \in Nat \ {0}
  /\ \A c \in Costs : c * Cardinality(Stations) < Inf

VARIABLES
  mps,        \* registered stations, in the order of their ids
  linkCosts,  \* the cost of every directed link
  pathCosts,  \* the cost of the path, of the last computation
  paths,      \* the next hop of the path, None where there is none
  proxyOf,    \* clients2proxies
  portalOf    \* clients2portals

vars == <<mps, linkCosts, pathCosts, paths, proxyOf, portalOf>>

Pairs == Stations \X Stations

Init ==
  /\ mps = <<>>
  /\ linkCosts = [e \in Pairs |-> Inf]
  /\ pathCosts = [e \in Pairs |-> Inf]
  /\ paths = [e \in Pairs |-> None]
  /\ proxyOf = [c \in Clients |-> None]
  /\ portalOf = [c \in Clients |-> None]

-----------------------------------------------------------------------------
(* The computation of the paths *)

\* Mutant: a link counts also without its reverse.
AllCosts(lc) == lc

\* The start of the computation: a link counts when it has its reverse, and
\* the predecessor over a direct link is the source.
DirectCosts(lc) ==
  [e \in Pairs |-> IF lc[<<e[2], e[1]>>] = Inf THEN Inf ELSE lc[e]]

DirectPredecessors(lc) ==
  [e \in Pairs |-> IF e[1] # e[2] /\ lc[e] # Inf THEN e[1] ELSE None]

\* k as an intermediate station makes the path from i to j cheaper.
Shortcut(cost, k, i, j) ==
  /\ cost[<<i, k>>] # Inf /\ cost[<<k, j>>] # Inf
  /\ cost[<<i, k>>] + cost[<<k, j>>] < cost[<<i, j>>]

\* x itself. The comparison makes TLC keep the value, not the expression.
Evaluated(x) == CHOOSE y \in {x} : y = x

\* One round of Floyd and Warshall. The row and the column of k do not change
\* in the round of k, so the order within the round does not matter.
Round(all, k) ==
  LET shorter == {e \in Pairs : Shortcut(all.cost, k, e[1], e[2])}
  IN  IF shorter = {} THEN all
      ELSE Evaluated(
             [cost |-> [e \in Pairs |->
                          IF e \in shorter
                          THEN all.cost[<<e[1], k>>] + all.cost[<<k, e[2]>>]
                          ELSE all.cost[e]],
              pred |-> [e \in Pairs |->
                          IF e \in shorter THEN all.pred[<<k, e[2]>>] ELSE all.pred[e]]])

\* The tables after the rounds of the first n nodes, and of all of them.
AllPairs(nodes, lc) ==
  LET after[n \in 0..Len(nodes)] ==
        IF n = 0
        THEN Evaluated([cost |-> DirectCosts(lc), pred |-> DirectPredecessors(lc)])
        ELSE Round(after[n - 1], nodes[n])
  IN  after[Len(nodes)]

\* Mutant: the station before the destination is taken for the next hop.
LastHops(all) ==
  [e \in Pairs |-> IF e[1] = e[2] \/ all.cost[e] = Inf THEN None ELSE all.pred[e]]

\* The chain of predecessors is followed from the destination to the station
\* whose predecessor is the source.
FirstHopOut(pred, i, j) ==
  LET back[n \in 0..Cardinality(Stations)] ==
        IF n = 0 THEN j
        ELSE LET h == back[n - 1] IN  IF pred[<<i, h>>] = i THEN h ELSE pred[<<i, h>>]
  IN  back[Cardinality(Stations)]

NextHops(all) ==
  [e \in Pairs |-> IF e[1] = e[2] \/ all.cost[e] = Inf THEN None
                   ELSE FirstHopOut(all.pred, e[1], e[2])]

\* The ids of the portals whose path to the proxy does not start at another
\* portal.
EntryPortals(hops, proxy) ==
  {n \in DOMAIN mps : /\ mps[n] \in Portals
                      /\ hops[<<mps[n], proxy>>] # None
                      /\ hops[<<mps[n], proxy>>] \notin Portals}

\* Mutant: a client that has a portal keeps it.
FirstPortal(hops, proxy, old) ==
  LET entries == EntryPortals(hops, proxy)
  IN  IF proxy \in Portals THEN proxy
      ELSE IF old # None \/ entries = {} THEN old ELSE mps[Min(entries)]

\* The portal of a client after a search, the first one in the order of the
\* ids; without a result the old one stays.
BestPortal(hops, proxy, old) ==
  LET entries == EntryPortals(hops, proxy)
  IN  IF proxy \in Portals THEN proxy
      ELSE IF entries = {} THEN old ELSE mps[Min(entries)]

OnNewPathSelectionEntry(nodes, lc) ==
  LET all == AllPairs(nodes, lc)
      hops == NextHops(all)
  IN  /\ pathCosts' = all.cost
      /\ paths' = hops
      /\ portalOf' = [c \in Clients |->
                        IF proxyOf[c] = None THEN portalOf[c]
                        ELSE BestPortal(hops, proxyOf[c], portalOf[c])]

-----------------------------------------------------------------------------
(* The queries of the forwarding *)

IsMeshPoint(address) == address \in ToSet(mps)

IsPortal(address) == IsMeshPoint(address) /\ address \in Portals

GetProxyFor(client) == proxyOf[client]

GetPortalFor(client) == portalOf[client]

\* Where a frame for the destination leaves the mesh.
MeshEnd(finalDestination) ==
  IF IsMeshPoint(finalDestination) THEN finalDestination
  ELSE GetProxyFor(finalDestination)

\* Whether a query for the next hop returns.  It asserts that the destination
\* is known and not here.  A station that asks for a client of its own reads
\* the diagonal of the matrix, which is never written: the identifier 0, that
\* no station has, and the search for its address ends the program.
Answered(current, finalDestination) ==
  MeshEnd(finalDestination) \notin {None, current}

\* The answer: the next hop to a mesh point or to the proxy of a client.
GetNextHop(current, finalDestination) ==
  paths[<<current, MeshEnd(finalDestination)>>]

-----------------------------------------------------------------------------
(* Registration of the stations, before the simulation starts *)

AllRegistered == Len(mps) = Len(Order)

NextStation == Order[Len(mps) + 1]

WithCost(lc, edges, cost) == [e \in Pairs |-> IF e \in edges THEN cost ELSE lc[e]]

\* registerMP for a device that is no access point.
RegisterMP ==
  /\ ~AllRegistered /\ NextStation \notin Portals \cup Transceivers
  /\ mps' = Append(mps, NextStation)
  /\ linkCosts' = WithCost(linkCosts, {<<NextStation, NextStation>>}, 0)
  /\ UNCHANGED <<pathCosts, paths, proxyOf, portalOf>>

\* registerPortal: the wired links to the portals known so far are for free.
\* The paths are not computed anew.
RegisterPortal ==
  LET wired == ToSet(mps) \cap Portals
  IN  /\ ~AllRegistered /\ NextStation \in Portals
      /\ mps' = Append(mps, NextStation)
      /\ linkCosts' = WithCost(linkCosts,
                        {<<NextStation, NextStation>>} \cup (wired \X {NextStation})
                                           \cup ({NextStation} \X wired), 0)
      /\ UNCHANGED <<pathCosts, paths, proxyOf, portalOf>>

\* Layer2::registerManager for an additional transceiver: a mesh point with a
\* free link to its device in both directions.
RegisterTransceiver ==
  LET device == DeviceOf[NextStation]
      costs == WithCost(linkCosts, {<<NextStation, NextStation>>, <<NextStation, device>>,
                                    <<device, NextStation>>}, 0)
  IN  /\ ~AllRegistered /\ NextStation \in Transceivers
      /\ mps' = Append(mps, NextStation)
      /\ linkCosts' = costs
      /\ OnNewPathSelectionEntry(mps', costs)
      /\ UNCHANGED proxyOf

-----------------------------------------------------------------------------
(* Measured links; calls for a pair of portals are ignored *)

Wireless(a, b) ==
  AllRegistered /\ {a, b} \in Radio /\ ~({a, b} \subseteq Portals)

SetLink(a, b, cost) ==
  LET costs == [linkCosts EXCEPT ![<<a, b>>] = cost]
  IN  /\ linkCosts' = costs
      /\ OnNewPathSelectionEntry(mps, costs)
      /\ UNCHANGED <<mps, proxyOf>>

CreatePeerLink(a, b, cost) ==
  /\ Wireless(a, b) /\ linkCosts[<<a, b>>] = Inf
  /\ SetLink(a, b, cost)

UpdatePeerLink(a, b, cost) ==
  /\ Wireless(a, b) /\ linkCosts[<<a, b>>] \notin {Inf, cost}
  /\ SetLink(a, b, cost)

ClosePeerLink(a, b) ==
  /\ Wireless(a, b) /\ linkCosts[<<a, b>>] # Inf
  /\ SetLink(a, b, Inf)

-----------------------------------------------------------------------------
(* Association and disassociation of clients *)

RegisterProxy(proxy, client) ==
  /\ AllRegistered /\ proxyOf[client] = None
  /\ proxyOf' = [proxyOf EXCEPT ![client] = proxy]
  /\ portalOf' = [portalOf EXCEPT ![client] = BestPortal(paths, proxy, @)]
  /\ UNCHANGED <<mps, linkCosts, pathCosts, paths>>

DeRegisterProxy(client) ==
  /\ proxyOf[client] # None
  /\ proxyOf' = [proxyOf EXCEPT ![client] = None]
  /\ UNCHANGED <<mps, linkCosts, pathCosts, paths, portalOf>>

Next ==
  \/ RegisterMP
  \/ RegisterPortal
  \/ RegisterTransceiver
  \/ \E a, b \in Stations, cost \in Costs : CreatePeerLink(a, b, cost)
  \/ \E a, b \in Stations, cost \in Costs : UpdatePeerLink(a, b, cost)
  \/ \E a, b \in Stations : ClosePeerLink(a, b)
  \/ \E client \in Clients : \E proxy \in Masters[client] : RegisterProxy(proxy, client)
  \/ \E client \in Clients : DeRegisterProxy(client)

Spec == Init /\ [][Next]_vars

-----------------------------------------------------------------------------
(* Properties *)

Bidirectional(i, j) == linkCosts[<<i, j>>] # Inf /\ linkCosts[<<j, i>>] # Inf

\* The simple routes between two stations.
Routes ==
  {[ends |-> <<r[1], Last(r)>>, way |-> r] :
     r \in {s \in SeqOf(Stations, Cardinality(Stations)) : Len(s) > 1 /\ IsInjective(s)}}

\* Those that lead only over links in both directions, and their cost.
OpenRoutes ==
  {r \in Routes : \A n \in 2..Len(r.way) : Bidirectional(r.way[n - 1], r.way[n])}

RouteCost(r) ==
  LET upTo[n \in 1..Len(r.way)] ==
        IF n = 1 THEN 0 ELSE upTo[n - 1] + linkCosts[<<r.way[n - 1], r.way[n]>>]
  IN  upTo[Len(r.way)]

\* The last computation knew all the stations that are registered.
Current == \A i \in Range(mps) : pathCosts[<<i, i>>] = 0

\* PathsAreShortest: after every change of a link, the cost of the path
\* between any two stations (lines 566-622) is that of the cheapest simple
\* path over links that exist in both directions, and infinite exactly when
\* there is none.
PathsAreShortest ==
  Current =>
    LET open == OpenRoutes
    IN  /\ \A r \in open : pathCosts[r.ends] # Inf /\ pathCosts[r.ends] <= RouteCost(r)
        /\ \A e \in Pairs : e[1] # e[2] /\ pathCosts[e] # Inf =>
             \E r \in open : r.ends = e /\ RouteCost(r) = pathCosts[e]

\* The station that a frame from i to j is at after n hops.
Position(i, j) ==
  LET at[n \in 0..Cardinality(Stations)] ==
        IF n = 0 THEN i
        ELSE LET h == at[n - 1] IN IF h = j THEN j ELSE paths[<<h, j>>]
  IN  at

\* NextHopsReach: each station forwards by its own row of the matrix (lines
\* 177-220, 624-640). From every station with a finite path the hops of all
\* the stations together end at the destination without a loop, over links in
\* both directions, although wired and internal links cost nothing.
NextHopsReach ==
  \A i, j \in Range(mps) :
    Current /\ i # j /\ pathCosts[<<i, j>>] # Inf =>
      LET hop == paths[<<i, j>>]
      IN  /\ Bidirectional(i, hop)
          /\ pathCosts[<<i, j>>] = linkCosts[<<i, hop>>] + pathCosts[<<hop, j>>]
          /\ Position(i, j)[Cardinality(Stations)] = j

\* PortalServesClient: a client whose proxy is a portal has that portal (the
\* assertion at line 651). Any other client whose proxy can be reached from
\* some portal has a portal whose path to the proxy leaves the wired network
\* at once, and no portal has a cheaper one (lines 376-393, 660-681).
PortalServesClient ==
  \A c \in Clients :
    LET proxy == proxyOf[c]
        portal == portalOf[c]
    IN  proxy # None =>
          /\ proxy \in Portals => portal = proxy
          /\ Current /\ proxy \notin Portals
               /\ (\E p \in Portals : pathCosts[<<p, proxy>>] # Inf)
             => /\ portal # None
                /\ paths[<<portal, proxy>>] \notin Portals
                /\ \A p \in Portals : pathCosts[<<portal, proxy>>] <= pathCosts[<<p, proxy>>]
=============================================================================
