-------------------------- MODULE FastLinkExchange --------------------------
(***************************************************************************)
(* RTS/CTS with fast link adaptation (draftn/RTSCTSwithFLA) above the unit *)
(* that holds frames back until the reply to the last one                  *)
(* (draftn/BlockUntilReply), in two stations that hear each other and a    *)
(* foreign station that each of them may hear.                             *)
(*                                                                         *)
(* The receiver of an RTS measures the link, computes the phy mode that    *)
(* the sender would choose with these measurements, reserves the channel   *)
(* for a frame of this mode and reports the measurements with the CTS.     *)
(* The sender puts them to what it has been told before and computes the   *)
(* mode anew.  What each knows is kept in draftn/SINRwithMIMOInformation-  *)
(* Base and judged by rateAdaptationStrategies/SINRwithMIMO.  Beacons,     *)
(* which write there, too, are not modelled.                               *)
(*                                                                         *)
(* Time is not counted: a reply begins before the timeout of its request,  *)
(* no frame is shorter than SIFS, and the timeout of 10 ns after a         *)
(* reception comes before anything else.                                   *)
(***************************************************************************)
EXTENDS Naturals

CONSTANTS
  Stations,
  Foreign,       \* the foreign station
  Antennas,      \* of each station
  SINRs,
  Trainings,     \* the factors that a preamble with its training fields shows
  ModeFor,       \* the phy mode for so many streams at a SINR with a factor
  MaxFrames,     \* bound: frames each station offers
  MaxForeign,    \* bound: frames of the foreign station
  None

ASSUME StationsAssumption ==
  /\ \E a, b \in Stations : a # b /\ Stations = {a, b}
  /\ Foreign \notin Stations
ASSUME AntennasAssumption == Antennas \in [Stations -> Nat \ {0}]

MaxNumSS == CHOOSE n \in {Antennas[s] : s \in Stations} :
              \A s \in Stations : n <= Antennas[s]

\* A training field follows the one with a stream less; the last ones may be
\* missed.
Factors == UNION {{t[k] : k \in DOMAIN t} : t \in Trainings}
ASSUME TrainingsAssumption ==
  \A t \in Trainings : \E n \in 1..MaxNumSS : t \in [1..n -> Factors]

\* Phy modes are numbered in the order in which the strategy prefers them: by
\* their data bits, then by their streams; one is the fastest.
Slowest == 1
ASSUME ModesAssumption ==
  /\ ModeFor \in [(1..MaxNumSS) \X SINRs \X Factors -> Nat \ {0}]
  /\ \E c \in DOMAIN ModeFor : \A d \in DOMAIN ModeFor : ModeFor[d] <= ModeFor[c]
  /\ SINRs # {} /\ Trainings # {}

\* What is known of the factors of a link: one for each number of streams, up
\* to some number.
Known == UNION {[1..n -> Factors] : n \in 0..MaxNumSS}

\* A CTS reports cqi and mimoFactors.  The phy mode of an MPDU is the one set
\* at a CTS, 0 before; reserved is the mode that the CTS has reserved for, of
\* an MPDU the last one that came for it; a reply is required if reply.
Frames ==
  [type : {"ACK", "DATA", "DATA_TXOP"}, kind : {"RTS", "CTS", "MPDU", "reply"},
   from : Stations \cup {Foreign}, to : Stations \cup {Foreign, None},
   reply : BOOLEAN, cqi : SINRs \cup {None}, mimoFactors : Known,
   phyMode : Nat, reserved : Nat]

ASSUME NoneAssumption ==
  /\ None \notin Frames /\ None \notin Stations /\ None # Foreign

VARIABLES
  mac,       \* of each station: RTSCTSwithFLA, BlockUntilReply, and below
             \* them the frames that wait SIFS (sifs) or for the channel (dcf)
  sinrMIB,   \* of each station: the factors measured of its peer, and the
             \* SINR and the factors that its peer has reported
  air,       \* the frame each station transmits
  rx,        \* whom each station is synchronized to
  offered, heard    \* bounds: frames so far

vars == <<mac, sinrMIB, air, rx, offered, heard>>

Peer(s) == CHOOSE p \in Stations : p # s

Nothing == [k \in 1..0 |-> None]

Frame(type, kind, from, to, reply) ==
  [type |-> type, kind |-> kind, from |-> from, to |-> to, reply |-> reply,
   cqi |-> None, mimoFactors |-> Nothing, phyMode |-> 0, reserved |-> 0]

Init ==
  /\ mac = [s \in Stations |-> [
       blocked |-> FALSE, txStatus |-> "finished", blockTimer |-> "off",
       state |-> "idle", timer |-> "off", pendingRTS |-> None,
       pendingCTS |-> None, pendingMPDU |-> None,
       nav |-> None, sifs |-> None, dcf |-> None,
       awaits |-> FALSE, broken |-> FALSE]]
  /\ sinrMIB = [s \in Stations |->
       [measured |-> Nothing, peerSINR |-> None, peerFactors |-> Nothing]]
  /\ air = [s \in Stations |-> None] /\ rx = [s \in Stations |-> None]
  /\ offered = [s \in Stations |-> 0] /\ heard = 0

-----------------------------------------------------------------------------
(* A handler maps a station, its record in mac, to a station.              *)

Becomes(s, x) == mac' = [mac EXCEPT ![s] = x]

Assure(x, condition) == [x EXCEPT !.broken = @ \/ ~condition]

-----------------------------------------------------------------------------
(* SINRwithMIMOInformationBase and SINRwithMIMO *)

\* Factors for other numbers of streams are kept.
PutFactors(known, factors) ==
  [k \in DOMAIN known \cup DOMAIN factors |->
     IF k \in DOMAIN factors THEN factors[k] ELSE known[k]]

\* Mutant for ReservedAsSent: the measurement is the last one alone.
PutLastFactors(mib, training) == [mib EXCEPT !.measured = training]

PutFactorMeasurement(mib, training) ==
  [mib EXCEPT !.measured = PutFactors(@, training)]

PutReport(mib, cts) ==
  [mib EXCEPT !.peerSINR = cts.cqi,
              !.peerFactors = PutFactors(@, cts.mimoFactors)]

\* The measured factors for as many streams as the own antennas receive.
Reported(me, measured) ==
  [k \in {n \in 1..Antennas[me] : n \in DOMAIN measured} |-> measured[k]]

\* The best mode over all numbers of streams of which the factor is known.
GetPhyMode(sinr, factors) ==
  LET modes == {ModeFor[<<k, sinr, factors[k]>>] :
                  k \in {n \in 1..MaxNumSS : n \in DOMAIN factors}} \cup {Slowest}
  IN  CHOOSE m \in modes : \A n \in modes : n <= m

-----------------------------------------------------------------------------
(* BlockUntilReply: down *)

\* Mutant for AssertionsHold: acknowledgements are blocked, too.
AcceptsWhenFree(x, f) ==
  /\ ~x.blocked
  /\ IF f.type = "DATA" THEN x.dcf = None ELSE x.sifs = None

IsAccepting(x, f) ==
  /\ IF f.type = "ACK" THEN x.txStatus # "transmitting" ELSE ~x.blocked
  /\ IF f.type = "DATA" THEN x.dcf = None ELSE x.sifs = None

SendData(x, f) ==
  LET y == IF f.type = "ACK" THEN x
           ELSE [x EXCEPT !.blocked = TRUE, !.txStatus = "waiting"]
  IN  IF f.type = "DATA" THEN [y EXCEPT !.dcf = f] ELSE [y EXCEPT !.sifs = f]

-----------------------------------------------------------------------------
(* RTSCTSwithFLA: down *)

HasSomethingToSend(x) ==
  IF x.pendingCTS # None THEN x.pendingCTS
  ELSE IF x.pendingRTS # None THEN x.pendingRTS
  ELSE IF x.state = "idle" THEN x.pendingMPDU ELSE None

Taken(x) ==
  IF x.pendingCTS # None THEN [x EXCEPT !.pendingCTS = None]
  ELSE IF x.pendingRTS # None
  THEN [x EXCEPT !.pendingRTS = None, !.state = "transmitRTS"]
  ELSE [x EXCEPT !.pendingMPDU = None]

GetSomethingToSend(x) ==
  LET f == HasSomethingToSend(x)
  IN  IF f # None /\ IsAccepting(x, f)
      THEN SendData(Taken(x), f) ELSE x

\* At most a CTS and one frame after it can leave.
TryToSend(x) == GetSomethingToSend(GetSomethingToSend(x))

\* DATA_TXOP, and what is below the threshold, needs no RTS.
ProcessOutgoing(x, f, large) ==
  LET y == Assure(x, x.pendingMPDU = None /\ x.pendingRTS = None)
  IN  IF f.type = "DATA" /\ large
      THEN [y EXCEPT !.pendingMPDU = [f EXCEPT !.type = "DATA_TXOP"],
                     !.pendingRTS = Frame("DATA", "RTS", f.from, f.to, TRUE)]
      ELSE [y EXCEPT !.pendingMPDU = f]

\* The MPDU comes back to the ARQ.
RtsOnTimeout(x) ==
  IF x.state = "receiveCTS" THEN [x EXCEPT !.timer = "off"]
  ELSE TryToSend([Assure(x, x.state # "idle" /\ x.pendingMPDU # None)
         EXCEPT !.timer = "off", !.state = "idle", !.pendingMPDU = None,
                !.awaits = FALSE])

-----------------------------------------------------------------------------
(* BlockUntilReply: the end of a block *)

Unblock(x) == TryToSend([x EXCEPT !.blocked = FALSE, !.blockTimer = "off"])

Wakeup(x) == IF x.blocked THEN x ELSE TryToSend(x)

BlockOnTimeout(x) == Unblock(Assure(x, x.blocked /\ x.txStatus = "finished"))

\* Waits for the reply after the end of the own transmission.
Waits(x) == x.blocked /\ x.txStatus = "finished"

-----------------------------------------------------------------------------
(* Notifications: both units observe them, in the order of the chain.      *)

OnTxStart(x, f) ==
  IF f.type = "ACK" THEN x
  ELSE [Assure(x, x.txStatus = "waiting") EXCEPT !.txStatus = "transmitting"]

RtsOnTxEnd(x, f) ==
  IF f.kind = "RTS" /\ x.pendingMPDU # None /\ x.state = "transmitRTS"
  THEN [x EXCEPT !.state = "waitForCTS", !.timer = "reply"] ELSE x

BlockOnTxEnd(x, f) ==
  IF f.type = "ACK" THEN x
  ELSE LET y == [Assure(x, x.txStatus = "transmitting")
                   EXCEPT !.txStatus = "finished"]
       IN  IF f.reply
           THEN [Assure(y, y.blockTimer = "off") EXCEPT !.blockTimer = "reply"]
           ELSE IF y.blocked THEN Unblock(y) ELSE y

ArqOnTxEnd(x, f) ==
  IF f.kind = "MPDU" /\ ~f.reply THEN [x EXCEPT !.awaits = FALSE] ELSE x

OnTxEnd(x, f) == BlockOnTxEnd(RtsOnTxEnd(ArqOnTxEnd(x, f), f), f)

RtsOnRxStart(x) ==
  IF x.state = "waitForCTS"
  THEN [Assure(x, x.timer # "off" /\ x.pendingMPDU # None)
          EXCEPT !.state = "receiveCTS"] ELSE x

BlockOnRxStart(x) == IF Waits(x) THEN [x EXCEPT !.blockTimer = "off"] ELSE x

OnRxStart(x) == BlockOnRxStart(RtsOnRxStart(x))

\* Also a mutant of OnRxEnd for NothingStalls: BlockUntilReply waits on.
RtsOnRxEnd(x) ==
  IF x.state = "receiveCTS"
  THEN [Assure(x, x.pendingMPDU # None)
          EXCEPT !.state = "receptionFinished", !.timer = "short"] ELSE x

BlockOnRxEnd(x) ==
  IF Waits(x)
  THEN [Assure(x, x.blockTimer = "off") EXCEPT !.blockTimer = "short"] ELSE x

OnRxEnd(x) == BlockOnRxEnd(RtsOnRxEnd(x))

RtsOnRxError(x) ==
  IF x.state # "receiveCTS" THEN x
  ELSE LET y == [x EXCEPT !.state = "waitForCTS"]
       IN  IF x.timer = "off" THEN RtsOnTimeout(y) ELSE y

BlockOnRxError(x) == IF Waits(x) THEN Unblock(x) ELSE x

OnRxError(x) == BlockOnRxError(RtsOnRxError(x))

-----------------------------------------------------------------------------
(* Frames that come up *)

BlockOnData(x) ==
  IF Waits(x) THEN [x EXCEPT !.blocked = FALSE, !.blockTimer = "off"] ELSE x

\* The answer to an RTS of which this SINR was measured.  For its own instant,
\* what was measured stands in for what the peer has reported, so that the mode
\* is the one the sender of the RTS is to compute; then what was measured is
\* reported.
PrepareCTS(rts, sinr, measured) ==
  [Frame("ACK", "CTS", rts.to, rts.from, FALSE) EXCEPT
     !.cqi = sinr, !.mimoFactors = Reported(rts.to, measured),
     !.reserved = GetPhyMode(sinr, measured)]

OnRTS(x, rts, sinr, measured) ==
  IF x.nav \notin {None, rts.from} THEN x
  ELSE [Assure(x, x.pendingCTS = None /\ measured # Nothing)
          EXCEPT !.pendingCTS = PrepareCTS(rts, sinr, measured)]

\* The report has been put.
OnCTS(x, cts, mib) ==
  LET y == Assure(x, /\ x.pendingMPDU # None
                     /\ x.state \in {"receptionFinished", "receiveCTS"})
      z == [y EXCEPT !.pendingMPDU =
              [@ EXCEPT !.phyMode = GetPhyMode(mib.peerSINR, mib.peerFactors),
                        !.reserved = cts.reserved]]
  IN  IF y.broken THEN y
      ELSE IF cts.from # z.pendingMPDU.to THEN z
      ELSE [z EXCEPT !.state = "idle", !.timer = "off"]

\* BlockACK sends the reply past RTSCTSwithFLA; replies to it come up past it.
OnMPDU(x, f) ==
  LET reply == Frame("ACK", "reply", f.to, f.from, FALSE)
  IN  IF f.reply /\ IsAccepting(x, reply) THEN SendData(x, reply) ELSE x

OnData(x, f, sinr, mib) ==
  LET y == BlockOnData(x)
  IN  CASE f.kind = "RTS" -> TryToSend(OnRTS(y, f, sinr, mib.measured))
        [] f.kind = "CTS" -> TryToSend(OnCTS(y, f, mib))
        [] f.kind = "MPDU" -> TryToSend(OnMPDU(y, f))
        [] f.kind = "reply" -> [y EXCEPT !.awaits = FALSE]

-----------------------------------------------------------------------------
(* Steps *)

Short(x) == x.timer = "short" \/ x.blockTimer = "short"
Settled == \A s \in Stations : ~Short(mac[s])

\* The ARQ hands down an MPDU.  Its phy mode is not followed before a CTS.
Offer(s, type, reply, large) ==
  /\ Settled /\ offered[s] < MaxFrames
  /\ mac[s].pendingMPDU = None /\ ~mac[s].awaits
  /\ type = "DATA_TXOP" => rx[s] = None
  /\ LET f == Frame(type, "MPDU", s, Peer(s), reply)
     IN  Becomes(s, TryToSend(ProcessOutgoing(
                      [mac[s] EXCEPT !.awaits = TRUE], f, large)))
  /\ offered' = [offered EXCEPT ![s] = @ + 1]
  /\ UNCHANGED <<sinrMIB, air, rx, heard>>

\* The own transmission ends a reception; the peer is synchronized to it, by
\* capture if need be, and measures it, or not.
Starts(s, f, x) ==
  LET p == Peer(s)
      y == IF rx[s] # None THEN OnRxError(x) ELSE x
      hears == air[p] = None
  IN  /\ air' = [air EXCEPT ![s] = f]
      /\ \/ rx' = [rx EXCEPT ![s] = None]
            /\ Becomes(s, Wakeup(OnTxStart(y, f)))
            /\ UNCHANGED sinrMIB
         \/ /\ hears
            /\ rx' = [rx EXCEPT ![s] = None, ![p] = s]
            /\ LET u == IF rx[p] # None THEN OnRxError(mac[p]) ELSE mac[p]
                   v == OnRxStart(u)
                   w == Wakeup(OnTxStart(y, f))
               IN  mac' = [mac EXCEPT ![s] = w, ![p] = v]
            /\ \E t \in Trainings :
                 sinrMIB' = [sinrMIB EXCEPT ![p] = PutFactorMeasurement(@, t)]
      /\ UNCHANGED <<offered, heard>>

StartAfterSIFS(s) ==
  /\ Settled /\ mac[s].sifs # None /\ air[s] = None
  /\ Starts(s, mac[s].sifs, [mac[s] EXCEPT !.sifs = None])

ChannelIdle(s) == rx[s] = None /\ air[Peer(s)] = None /\ mac[s].nav = None

StartAfterBackoff(s) ==
  /\ Settled /\ mac[s].dcf # None /\ mac[s].sifs = None /\ air[s] = None
  /\ ChannelIdle(s)
  /\ Starts(s, mac[s].dcf, [mac[s] EXCEPT !.dcf = None])

\* The end of a frame at its receiver: with an error that is signalled before
\* or after the end, or decoded, for it or not.
Garbled(x) == {OnRxEnd(OnRxError(x)), OnRxError(OnRxEnd(x))}

Decoded(x, f, me, sinr, mib) ==
  IF f.to = me THEN OnData(OnRxEnd(x), f, sinr, mib)
  ELSE [OnRxEnd(x) EXCEPT !.nav = f.from]

Ends(s) ==
  LET p == Peer(s)  f == air[s]  w == OnTxEnd(mac[s], f)
      mib == IF f.kind = "CTS" /\ f.to = p THEN PutReport(sinrMIB[p], f)
             ELSE sinrMIB[p]
  IN  /\ Settled /\ f # None
      /\ rx[p] = s => mac[p].sifs = None
      /\ air' = [air EXCEPT ![s] = None]
      /\ \/ /\ rx[p] # s
            /\ Becomes(s, w) /\ UNCHANGED <<rx, sinrMIB>>
         \/ /\ rx[p] = s /\ rx' = [rx EXCEPT ![p] = None]
            /\ \E v \in Garbled(mac[p]) : mac' = [mac EXCEPT ![s] = w, ![p] = v]
            /\ UNCHANGED sinrMIB
         \/ /\ rx[p] = s /\ rx' = [rx EXCEPT ![p] = None]
            /\ \E sinr \in SINRs :
                 mac' = [mac EXCEPT ![s] = w,
                                    ![p] = Decoded(mac[p], f, p, sinr, mib)]
            /\ sinrMIB' = [sinrMIB EXCEPT ![p] = mib]
      /\ UNCHANGED <<offered, heard>>

\* The foreign station is heard by s, by capture if it is synchronized.
ForeignStarts(s) ==
  /\ Settled /\ heard < MaxForeign
  /\ air[s] = None /\ rx[s] # Foreign
  /\ heard' = heard + 1
  /\ rx' = [rx EXCEPT ![s] = Foreign]
  /\ Becomes(s, OnRxStart(IF rx[s] # None THEN OnRxError(mac[s]) ELSE mac[s]))
  /\ UNCHANGED <<sinrMIB, air, offered>>

ForeignFrames(s) ==
  {Frame("DATA", "RTS", Foreign, s, TRUE), Frame("DATA", "MPDU", Foreign, s, TRUE),
   Frame("DATA", "MPDU", Foreign, None, FALSE)}

\* What a station knows of the foreign one: any one measurement, since nobody
\* modelled here receives the report.
OfForeign(mib) == [mib EXCEPT !.measured = CHOOSE t \in Trainings : TRUE]

ForeignEnds(s) ==
  /\ Settled /\ rx[s] = Foreign
  /\ \A q \in Stations : mac[q].sifs = None
  /\ rx' = [rx EXCEPT ![s] = None]
  /\ \/ \E x \in Garbled(mac[s]) : Becomes(s, x)
     \/ LET sinr == CHOOSE q \in SINRs : TRUE
        IN  \E f \in ForeignFrames(s) :
              Becomes(s, Decoded(mac[s], f, s, sinr, OfForeign(sinrMIB[s])))
  /\ UNCHANGED <<sinrMIB, air, offered, heard>>

NavIdle(s) ==
  /\ Settled /\ mac[s].nav # None
  /\ Becomes(s, [mac[s] EXCEPT !.nav = None])
  /\ UNCHANGED <<sinrMIB, air, rx, offered, heard>>

\* Timers of the same start and length expire together, in either order.
Expire(s, kind) ==
  LET x == mac[s]
      Rts(y) == IF y.timer = kind THEN RtsOnTimeout(y) ELSE y
      Block(y) == IF y.blockTimer = kind THEN BlockOnTimeout(y) ELSE y
  IN  /\ kind \in {x.timer, x.blockTimer}
      /\ Becomes(s, Rts(Block(x))) \/ Becomes(s, Block(Rts(x)))
      /\ UNCHANGED <<sinrMIB, air, rx, offered, heard>>

OnShortTimeout(s) == Expire(s, "short")

ReplyComes(s) == mac[Peer(s)].sifs # None /\ mac[Peer(s)].sifs.to = s

OnReplyTimeout(s) == Settled /\ ~ReplyComes(s) /\ Expire(s, "reply")

\* The timer of the ARQ: no reply has come for the MPDU.
Underway(s) ==
  \/ mac[s].pendingMPDU # None
  \/ \E f \in {mac[s].sifs, mac[s].dcf, air[s]} : f # None /\ f.kind = "MPDU"

ArqTimeout(s) ==
  /\ Settled /\ mac[s].awaits /\ ~Underway(s) /\ ~ReplyComes(s)
  /\ rx[s] = None
  /\ mac' = [mac EXCEPT ![s].awaits = FALSE]
  /\ UNCHANGED <<sinrMIB, air, rx, offered, heard>>

Next ==
  \E s \in Stations :
    \/ \E type \in {"DATA", "DATA_TXOP"}, reply, large \in BOOLEAN :
         Offer(s, type, reply, large)
    \/ StartAfterSIFS(s) \/ StartAfterBackoff(s) \/ Ends(s)
    \/ ForeignStarts(s) \/ ForeignEnds(s) \/ NavIdle(s)
    \/ OnShortTimeout(s) \/ OnReplyTimeout(s) \/ ArqTimeout(s)

Spec == Init /\ [][Next]_vars

-----------------------------------------------------------------------------
(* Properties *)

\* AssertionsHold: in no interleaving of own and foreign requests, replies and
\* errors does an assertion of the two units fail; in particular a CTS leaves
\* at the instant it is prepared, even while the station itself is blocked
\* (RTSCTSwithFLA.cpp:163, 225, 239, 340, 396; BlockUntilReply.cpp:131, 145,
\* 167), since the rate it reserves for holds only then.
AssertionsHold ==
  \A s \in Stations : ~mac[s].broken /\ mac[s].pendingCTS = None

\* NothingStalls: a station that is blocked, or waits for a CTS, has a frame
\* below, a transmission, a reception or a timer that will end this; and what
\* could be passed on is not waiting for a wakeup that does not come
\* (BlockUntilReply.cpp:85-125).
NothingStalls ==
  \A s \in Stations : LET m == mac[s] IN
    /\ m.blocked =>
         CASE m.txStatus = "waiting" -> mac[s].sifs # None \/ mac[s].dcf # None
           [] m.txStatus = "transmitting" -> air[s] # None
           [] m.txStatus = "finished" -> m.blockTimer # "off" \/ rx[s] # None
    /\ CASE m.state = "transmitRTS" ->
              \E f \in {mac[s].dcf, air[s]} : f # None /\ f.kind = "RTS"
         [] m.state \in {"waitForCTS", "receptionFinished"} -> m.timer # "off"
         [] m.state = "receiveCTS" -> m.timer # "off" \/ rx[s] # None
         [] OTHER -> TRUE
    /\ TryToSend(mac[s]) = mac[s]

\* ReservedAsSent: a frame for which the channel was reserved by a CTS is sent
\* in the phy mode that the reservation was computed for, although its receiver
\* has computed it from its own measurements, and its sender anew from all that
\* it has been told, over reports that were lost and training fields that were
\* missed (RTSCTSwithFLA.cpp:195-220, 525-538).
ReservedAsSent ==
  \A s \in Stations :
    air[s] # None /\ air[s].kind = "MPDU" /\ air[s].reserved # 0
      => air[s].phyMode = air[s].reserved
=============================================================================
