---------------------------- MODULE FrameExchange ----------------------------
(***************************************************************************)
(* The exchange of unicast frames between two stations (lowerMAC):         *)
(* StopAndWaitARQ with its retry counters, RTSCTS above the transmission   *)
(* opportunities of the DCF and the SIFS delay, and the DuplicateFilter of *)
(* the receiver, over a medium that loses frames and carries the frames of *)
(* other stations as well.                                                 *)
(*                                                                         *)
(* Time passes in ticks; all frames have the same duration on the air.     *)
(* The handlers of one station are functions on its record mac[s]; an      *)
(* action is one event of the scheduler with all the handlers it runs.     *)
(* The short timeout of 10 ns that waits for the delivery of a frame that  *)
(* has ended is a timer of no ticks: a delivery comes with the end itself. *)
(***************************************************************************)
EXTENDS Integers, Sequences

CONSTANTS
    Stations,           \* the two ends of the link
    MaxFrames, Load,    \* bounds: MSDUs of any station, of each station
    Size,               \* of each MSDU, relative to the RTS/CTS threshold
    ShortRetryLimit, LongRetryLimit, BianchiRetryCounter,
    Sifs, Timeout,      \* sifsDuration; ackTimeout and ctsTimeout
    Preamble, Psdu,     \* parts of a frame on the air
    Foreign             \* durations of PSDUs of other stations, if any

MSDUs == 1..MaxFrames

ASSUME StationsAssumption ==
    \E a, b \in Stations : a # b /\ Stations = {a, b}
ASSUME SizeAssumption ==
    MaxFrames \in Nat /\ Size \in [MSDUs -> {"short", "equal", "long"}]
ASSUME LoadAssumption == Load \in [Stations -> 0..MaxFrames]
ASSUME LimitsAssumption ==
    /\ ShortRetryLimit \in Nat \ {0} /\ LongRetryLimit \in Nat \ {0}
    /\ BianchiRetryCounter \in BOOLEAN
(* A reply begins, but does not end, before the timeout; SIFS is shorter   *)
(* than the PSDU of any frame.                                             *)
ASSUME TimesAssumption ==
    /\ Timeout \in Nat
    /\ Sifs \in Nat \ {0} /\ Preamble \in Nat \ {0} /\ Psdu \in Nat \ {0}
    /\ Sifs + Preamble < Timeout /\ Timeout < Sifs + Preamble + Psdu
    /\ Sifs < Psdu
    /\ Foreign \subseteq Nat \ {0}

Off   == -1                                 \* no timer
None  == 0                                  \* no MSDU
NoFrame == [kind |-> "none", sn |-> None]
Idle  == [frame |-> NoFrame, left |-> Off]  \* nothing in the SIFS delay
Quiet == [phase |-> "off", frame |-> NoFrame, left |-> Off]

VARIABLES
    mac,        \* the state of ARQ and RTSCTS of each station
    sifs,       \* the frame that waits for SIFS
    tx,         \* the own transmission: its preamble, then its PSDU
    rx,         \* what the receiver is synchronized to: "none", "peer" ...
    foreignLeft,    \* ... or "foreign", with the ticks until it ends
    last,       \* DuplicateFilter: last sequence number from the peer
    upper,      \* the last MSDU handed down
    fate,       \* history: what became of each MSDU
    delivered,  \* history: the MSDUs of each station its peer delivered
    disturbed,  \* history: stations that took another's frame for the reply
    broken      \* the kind of frame whose assertion has failed, if any

medium  == <<tx, rx, foreignLeft>>
history == <<fate, delivered, disturbed>>
vars == <<mac, sifs, medium, last, upper, history, broken>>

Peer(s) == CHOOSE p \in Stations : p # s

(* FrameSwitch sends what is not below the threshold through RTSCTS, the   *)
(* ARQ counts as long what is above it.                                    *)
UsesRTS(n) == Size[n] # "short"
IsLong(n)  == Size[n] = "long"

Data(n) == [kind |-> "DATA", sn |-> n]
Control(kind) == [kind |-> kind, sn |-> None]

Init ==
    /\ mac = [s \in Stations |->
                [active |-> None, counter |-> 1, sendNow |-> FALSE,
                 ackState |-> "none", ackTimer |-> Off,
                 src |-> 0, lrc |-> 0, ssrc |-> 0, slrc |-> 0,
                 state |-> "idle", ctsTimer |-> Off,
                 pendingRTS |-> FALSE, pendingMPDU |-> None]]
    /\ sifs = [s \in Stations |-> Idle]
    /\ tx = [s \in Stations |-> Quiet]
    /\ rx = [s \in Stations |-> "none"]
    /\ foreignLeft = [s \in Stations |-> Off]
    /\ last = [s \in Stations |-> None]
    /\ upper = [s \in Stations |-> 0]
    /\ fate = [s \in Stations |-> [n \in MSDUs |-> "queued"]]
    /\ delivered = [s \in Stations |-> <<>>]
    /\ disturbed = {}
    /\ broken = "none"

-----------------------------------------------------------------------------
(* Handlers: functions from the record of a station to its new record.     *)

(* The ARQ offers a copy of the active MSDU: a large one is taken by       *)
(* RTSCTS at once if it has none, with an RTS prepared for it.             *)
TryToSend(m) ==
    IF m.sendNow /\ UsesRTS(m.active) /\ m.pendingMPDU = None
    THEN [m EXCEPT !.sendNow = FALSE, !.pendingMPDU = m.active,
                   !.pendingRTS = TRUE]
    ELSE m

ProcessOutgoing(m, n) ==
    TryToSend([m EXCEPT !.active = n, !.sendNow = TRUE,
                        !.counter = IF BianchiRetryCounter THEN 1
                                    ELSE m.ssrc + m.slrc + 1])

Reduced(counter, limit) == IF counter >= limit THEN counter - limit ELSE counter

RetryCounter(m) ==
    1 + IF BianchiRetryCounter THEN m.src + m.lrc
        ELSE Reduced(m.ssrc, ShortRetryLimit) + Reduced(m.slrc, LongRetryLimit)

BeyondLimit(m) ==               \* mutant: off by one
    m.src > ShortRetryLimit \/ m.lrc > LongRetryLimit
AtLimit(m) == m.src = ShortRetryLimit \/ m.lrc = LongRetryLimit

(* Retransmit the active MSDU or, when a limit is reached or its lifetime  *)
(* is over, drop it and start counting anew for the next.                  *)
TransmissionHasFailed(m, expired) ==
    LET n == [m EXCEPT !.ackTimer = Off, !.ackState = "none"]
    IN  IF AtLimit(m) \/ expired
        THEN [n EXCEPT !.src = 0, !.lrc = 0, !.sendNow = FALSE,
                       !.active = None]
        ELSE TryToSend([n EXCEPT !.sendNow = TRUE,
                                 !.counter = RetryCounter(m)])

CountShort(m) == [m EXCEPT !.src = @ + 1, !.ssrc = @ + 1]
CountLong(m)  == [m EXCEPT !.lrc = @ + 1, !.slrc = @ + 1]

ImpatientAck(m, expired) ==     \* mutant: does not wait for the delivery
    TransmissionHasFailed(
        IF IsLong(m.active) THEN CountLong(m) ELSE CountShort(m), expired)

AckTimeout(m, expired) ==
    IF m.ackState = "receiving" THEN [m EXCEPT !.ackTimer = Off]
    ELSE TransmissionHasFailed(
             IF IsLong(m.active) THEN CountLong(m) ELSE CountShort(m), expired)

(* While RTSCTS reports the failure it still holds the MSDU, so the ARQ    *)
(* can hand it down again only afterwards, at the wakeup.                  *)
CtsTimeout(m, expired) ==
    IF m.state = "receiveCTS" THEN [m EXCEPT !.ctsTimer = Off]
    ELSE TryToSend([TransmissionHasFailed(CountShort(m), expired)
                        EXCEPT !.pendingMPDU = None, !.state = "idle",
                               !.ctsTimer = Off])

OnRxStart(m) ==
    [m EXCEPT !.ackState = IF @ = "waitForACK" THEN "receiving" ELSE @,
              !.state = IF @ = "waitForCTS" THEN "receiveCTS" ELSE @]

OnRxEnd(m) ==
    [m EXCEPT
        !.ackState = IF @ = "receiving" THEN "receptionFinished" ELSE @,
        !.ackTimer = IF m.ackState = "receiving" /\ @ = Off THEN 0 ELSE @,
        !.state = IF @ = "receiveCTS" THEN "receptionFinished" ELSE @,
        !.ctsTimer = IF m.state = "receiveCTS" THEN 0 ELSE @]

KeepWaitingACK(m, expired) ==   \* mutant: a timeout that is over is lost
    IF m.ackState # "receiving" THEN m
    ELSE [m EXCEPT !.ackState = "waitForACK"]

OnRxErrorACK(m, expired) ==
    IF m.ackState # "receiving" THEN m
    ELSE LET n == [m EXCEPT !.ackState = "waitForACK"]
         IN  IF m.ackTimer = Off THEN AckTimeout(n, expired) ELSE n

OnRxErrorCTS(m, expired) ==
    IF m.state # "receiveCTS" THEN m
    ELSE LET n == [m EXCEPT !.state = "waitForCTS"]
         IN  IF m.ctsTimer = Off THEN CtsTimeout(n, expired) ELSE n

OnRxError(m, expired) == OnRxErrorCTS(OnRxErrorACK(m, expired), expired)

(* A long frame goes on the air: its CTS has come.                         *)
OnTxStart(m, f) ==
    IF f.kind = "DATA" /\ f.sn = m.active /\ IsLong(f.sn)
    THEN [m EXCEPT !.src = 0, !.ssrc = 0] ELSE m

OnTxEnd(m, f) ==
    IF f.kind = "DATA" /\ f.sn = m.active
    THEN [m EXCEPT !.ackState = "waitForACK", !.ackTimer = Timeout]
    ELSE LET n == [m EXCEPT !.ackState = IF @ = "sendingACK" THEN "none"
                                         ELSE @]
         IN  IF f.kind = "RTS" /\ m.pendingMPDU # None
                               /\ m.state = "transmitRTS"
             THEN [n EXCEPT !.state = "waitForCTS", !.ctsTimer = Timeout]
             ELSE n

(* The acknowledgement confirms the active MSDU, whichever that is.        *)
ReceiveACK(m) ==
    LET n == [m EXCEPT !.active = None, !.ackState = "none", !.ackTimer = Off]
    IN  IF IsLong(m.active) THEN [n EXCEPT !.lrc = 0, !.slrc = 0]
        ELSE [n EXCEPT !.src = 0, !.ssrc = 0]

ReceiveCTS(m) ==
    [m EXCEPT !.state = "idle", !.ctsTimer = Off, !.pendingMPDU = None]

-----------------------------------------------------------------------------
(* What a failure or a success of the active MSDU means for its fate.      *)
Failed(s, expired) ==
    fate' = IF mac[s].active # None /\ mac'[s].active = None
            THEN [fate EXCEPT ![s][mac[s].active] =
                     IF expired THEN "expired" ELSE "exhausted"]
            ELSE fate

Update(s, m) == mac' = [mac EXCEPT ![s] = m]

(* A failed assertion ends the program.                                    *)
Running == broken = "none"

HandDown(s, expired) ==
    LET n == upper[s] + 1
    IN  /\ Running /\ n <= Load[s]
        /\ mac[s].active = None /\ mac[s].ackState # "sendingACK"
        /\ upper' = [upper EXCEPT ![s] = n]
        /\ fate' = [fate EXCEPT ![s][n] =
                       IF expired THEN "expired" ELSE "underway"]
        /\ IF expired THEN UNCHANGED mac
           ELSE Update(s, ProcessOutgoing(mac[s], n))
        /\ UNCHANGED <<sifs, medium, last, delivered, disturbed, broken>>

(* A transmission starts; what was being received is given up.             *)
Transmit(s, m, f, expired) ==
    /\ Running
    /\ tx[s].phase = "off"
    /\ tx' = [tx EXCEPT ![s] = [phase |-> "preamble", frame |-> f,
                                left |-> Preamble]]
    /\ rx' = [rx EXCEPT ![s] = "none"]
    /\ foreignLeft' = [foreignLeft EXCEPT ![s] = Off]
    /\ Update(s, OnTxStart(IF rx[s] = "none" THEN m ELSE OnRxError(m, expired),
                           f))
    /\ Failed(s, expired)
    /\ disturbed' = disturbed \ {s}
    /\ UNCHANGED <<last, upper, delivered, broken>>

(* The DCF grants a transmission, never to a station that is receiving or  *)
(* about to reply: its interframe space is longer than SIFS.               *)
Permitted(s) == rx[s] = "none" /\ sifs[s] = Idle

SendRTS(s) ==
    /\ Permitted(s) /\ mac[s].pendingRTS
    /\ Transmit(s, [mac[s] EXCEPT !.pendingRTS = FALSE,
                                  !.state = "transmitRTS"],
                Control("RTS"), FALSE)
    /\ UNCHANGED sifs

SendData(s) ==
    /\ Permitted(s) /\ mac[s].sendNow /\ ~UsesRTS(mac[s].active)
    /\ Transmit(s, [mac[s] EXCEPT !.sendNow = FALSE],
                Data(mac[s].active), FALSE)
    /\ UNCHANGED sifs

SifsOver(s, expired) ==
    /\ sifs[s].left = 0
    /\ sifs' = [sifs EXCEPT ![s] = Idle]
    /\ Transmit(s, mac[s], sifs[s].frame, expired)

-----------------------------------------------------------------------------
(* Synchronization: a preamble captures the receiver, or does not.         *)
Synchronize(s, expired) ==
    /\ Update(s, OnRxStart(IF rx[s] = "none" THEN mac[s]
                           ELSE OnRxError(mac[s], expired)))
    /\ Failed(s, expired)

PreambleEnds(s, heard, expired) ==
    /\ Running
    /\ tx[s].phase = "preamble" /\ tx[s].left = 0
    /\ tx' = [tx EXCEPT ![s].phase = "psdu", ![s].left = Psdu]
    /\ IF heard /\ tx[Peer(s)].phase = "off"
       THEN /\ rx' = [rx EXCEPT ![Peer(s)] = "peer"]
            /\ foreignLeft' = [foreignLeft EXCEPT ![Peer(s)] = Off]
            /\ Synchronize(Peer(s), expired)
       ELSE UNCHANGED <<rx, foreignLeft, mac, fate>>
    /\ UNCHANGED <<sifs, last, upper, delivered, disturbed, broken>>

ForeignPreamble(s, d, expired) ==
    /\ Running
    /\ tx[s].phase = "off"
    /\ rx' = [rx EXCEPT ![s] = "foreign"]
    /\ foreignLeft' = [foreignLeft EXCEPT ![s] = d]
    /\ Synchronize(s, expired)
    /\ disturbed' = IF OnRxStart(mac[s]) = mac[s] THEN disturbed
                    ELSE disturbed \cup {s}
    /\ UNCHANGED <<sifs, tx, last, upper, delivered, broken>>

ForeignEnds(s, ok, expired) ==
    /\ Running
    /\ rx[s] = "foreign" /\ foreignLeft[s] = 0
    /\ rx' = [rx EXCEPT ![s] = "none"]
    /\ foreignLeft' = [foreignLeft EXCEPT ![s] = Off]
    /\ Update(s, IF ok THEN OnRxEnd(mac[s]) ELSE OnRxError(mac[s], expired))
    /\ Failed(s, expired)
    /\ UNCHANGED <<sifs, tx, last, upper, delivered, disturbed, broken>>

-----------------------------------------------------------------------------
(* Delivery of frame f to station s, whose record is m after the end of    *)
(* the reception; the sender's record is p after the end of transmission.  *)
Records(s, m, p) == mac' = [mac EXCEPT ![s] = m, ![Peer(s)] = p]

Reply(s, f) == sifs' = [sifs EXCEPT ![s] = [frame |-> f, left |-> Sifs]]

(* ... which the callers expect to accept the frame.                       *)
SifsAccepts(s) == broken' = IF sifs[s] = Idle THEN "none" ELSE "SIFS"

DeliverAll(s, f)  == FALSE      \* mutant: no filter
IsDuplicate(s, f) == last[s] = f.sn

DeliverData(s, f, m, p) ==
    /\ Records(s, [m EXCEPT !.ackState = "sendingACK"], p)
    /\ Reply(s, Control("ACK"))
    /\ last' = [last EXCEPT ![s] = f.sn]
    /\ delivered' = IF IsDuplicate(s, f) THEN delivered
                    ELSE [delivered EXCEPT ![Peer(s)] = Append(@, f.sn)]
    /\ SifsAccepts(s)
    /\ UNCHANGED fate

(* An RTS is dropped while the NAV is set by another station.              *)
DeliverRTS(s, m, p, nav) ==
    /\ Records(s, m, p)
    /\ IF nav THEN UNCHANGED <<sifs, broken>>
       ELSE Reply(s, Control("CTS")) /\ SifsAccepts(s)
    /\ UNCHANGED <<last, delivered, fate>>

DeliverCTS(s, m, p) ==
    /\ IF m.pendingMPDU = None \/ m.state # "receptionFinished"
       THEN /\ broken' = "CTS"
            /\ Records(s, m, p) /\ UNCHANGED sifs
       ELSE /\ SifsAccepts(s)
            /\ Records(s, ReceiveCTS(m), p)
            /\ Reply(s, Data(m.pendingMPDU))
    /\ UNCHANGED <<last, delivered, fate>>

DeliverACK(s, m, p) ==
    /\ IF m.active = None \/ m.ackState # "receptionFinished"
       THEN /\ broken' = "ACK"
            /\ Records(s, m, p) /\ UNCHANGED fate
       ELSE /\ Records(s, ReceiveACK(m), p)
            /\ fate' = [fate EXCEPT ![s][m.active] = "confirmed"]
            /\ UNCHANGED broken
    /\ UNCHANGED <<sifs, last, delivered>>

Deliver(s, f, m, p, nav) ==
    \/ f.kind = "DATA" /\ DeliverData(s, f, m, p)
    \/ f.kind = "RTS" /\ DeliverRTS(s, m, p, nav)
    \/ f.kind = "CTS" /\ DeliverCTS(s, m, p)
    \/ f.kind = "ACK" /\ DeliverACK(s, m, p)

(* The end of a transmission, at its sender and at its peer: the frame is  *)
(* delivered, ends with a lost PSDU, or in an error.                       *)
TransmissionEnds(s, outcome, nav, expired) ==
    LET p == Peer(s)
        f == tx[s].frame
        sender == OnTxEnd(mac[s], f)
    IN  /\ Running /\ tx[s].phase = "psdu" /\ tx[s].left = 0
        /\ tx' = [tx EXCEPT ![s] = Quiet]
        /\ rx' = [rx EXCEPT ![p] = IF @ = "peer" THEN "none" ELSE @]
        /\ IF rx[p] = "peer" /\ outcome = "delivered"
           THEN Deliver(p, f, OnRxEnd(mac[p]), sender, nav)
           ELSE /\ Records(p, IF rx[p] # "peer" THEN mac[p]
                              ELSE IF outcome = "lost" THEN OnRxEnd(mac[p])
                              ELSE OnRxError(mac[p], expired), sender)
                /\ Failed(p, expired)
                /\ UNCHANGED <<sifs, last, delivered, broken>>
        /\ UNCHANGED <<foreignLeft, upper, disturbed>>

-----------------------------------------------------------------------------
OnTimeoutACK(s, expired) ==
    /\ Running /\ mac[s].ackTimer = 0
    /\ Update(s, AckTimeout(mac[s], expired))
    /\ Failed(s, expired)
    /\ UNCHANGED <<sifs, medium, last, upper, delivered, disturbed, broken>>

OnTimeoutCTS(s, expired) ==
    /\ Running /\ mac[s].ctsTimer = 0
    /\ Update(s, CtsTimeout(mac[s], expired))
    /\ Failed(s, expired)
    /\ UNCHANGED <<sifs, medium, last, upper, delivered, disturbed, broken>>

Earlier(t) == IF t = Off THEN Off ELSE t - 1

Tick ==
    /\ Running
    /\ \A s \in Stations :
           0 \notin {mac[s].ackTimer, mac[s].ctsTimer, sifs[s].left,
                     tx[s].left, foreignLeft[s]}
    /\ mac' = [s \in Stations |->
                  [mac[s] EXCEPT !.ackTimer = Earlier(@),
                                 !.ctsTimer = Earlier(@)]]
    /\ sifs' = [s \in Stations |-> [sifs[s] EXCEPT !.left = Earlier(@)]]
    /\ tx' = [s \in Stations |-> [tx[s] EXCEPT !.left = Earlier(@)]]
    /\ foreignLeft' = [s \in Stations |-> Earlier(foreignLeft[s])]
    /\ UNCHANGED <<rx, last, upper, history, broken>>

Outcomes == {"delivered", "lost", "error"}

Next ==
    \/ Tick
    \/ \E s \in Stations : SendRTS(s) \/ SendData(s)
    \/ \E s \in Stations, expired \in BOOLEAN :
          \/ HandDown(s, expired) \/ SifsOver(s, expired)
          \/ OnTimeoutACK(s, expired) \/ OnTimeoutCTS(s, expired)
          \/ \E heard \in BOOLEAN : PreambleEnds(s, heard, expired)
          \/ \E d \in Foreign : ForeignPreamble(s, d, expired)
          \/ \E ok \in BOOLEAN : ForeignEnds(s, ok, expired)
          \/ \E outcome \in Outcomes, nav \in BOOLEAN :
                TransmissionEnds(s, outcome, nav, expired)

Spec == Init /\ [][Next]_vars

(* The scheduler runs every event that is due, and time goes on.  The DCF  *)
(* grants a transmission that is permitted again and again: its countdown  *)
(* goes on whenever the channel is idle.                                   *)
Fairness ==
    /\ WF_vars(Tick)
    /\ \A s \in Stations :
          /\ SF_vars(SendRTS(s)) /\ SF_vars(SendData(s))
          /\ WF_vars(\E e \in BOOLEAN : SifsOver(s, e))
          /\ WF_vars(\E e \in BOOLEAN : OnTimeoutACK(s, e))
          /\ WF_vars(\E e \in BOOLEAN : OnTimeoutCTS(s, e))
          /\ WF_vars(\E h, e \in BOOLEAN : PreambleEnds(s, h, e))
          /\ WF_vars(\E ok, e \in BOOLEAN : ForeignEnds(s, ok, e))
          /\ WF_vars(\E o \in Outcomes, nav, e \in BOOLEAN :
                    TransmissionEnds(s, o, nav, e))

FairSpec == Spec /\ Fairness

-----------------------------------------------------------------------------
(* No MSDU gets lost inside a station: what is active waits for a          *)
(* transmission, is on its way through RTS/CTS, SIFS and the transmitter,  *)
(* or its reply is waited for.  Who waits for a reply, or for its          *)
(* delivery, has a timer; a timer has something to retransmit; RTSCTS is   *)
(* waiting only for the MSDU that is the active one of the ARQ, through    *)
(* drops, overlapping exchanges and the re-entry of the ARQ on failures.   *)
(* The SIFS delay takes every reply, and a CTS or an ACK comes only when   *)
(* its reception has just finished (assertions of StopAndWaitARQ and       *)
(* RTSCTS), unless a frame of another station was taken for it.            *)
NeverForgotten ==
    /\ \/ broken = "none"
       \/ broken \in {"CTS", "ACK"} /\ disturbed # {}
    /\ \A s \in Stations : LET m == mac[s] IN
        /\ m.active # None =>
              \/ m.sendNow \/ m.pendingMPDU # None
              \/ sifs[s].frame = Data(m.active) \/ tx[s].frame = Data(m.active)
              \/ m.ackTimer # Off
              \/ m.ackState = "receiving" /\ rx[s] # "none"
        /\ m.ackState \in {"waitForACK", "receptionFinished"} => m.ackTimer # Off
        /\ m.ackTimer # Off \/ m.ackState = "receiving" => m.active # None
        /\ m.state \in {"waitForCTS", "receptionFinished"} => m.ctsTimer # Off
        /\ m.ctsTimer # Off => m.state # "idle"
        /\ m.state # "idle" \/ m.pendingRTS => m.pendingMPDU # None
        /\ m.pendingMPDU # None => m.pendingMPDU = m.active

(* The counters of an MSDU never reach, and so never pass, the limits that *)
(* are tested for equality; the next MSDU starts with fresh ones.          *)
RetriesBounded ==
    \A s \in Stations : LET m == mac[s] IN
        /\ m.src < ShortRetryLimit /\ m.lrc < LongRetryLimit
        /\ m.active = None => m.src = 0 /\ m.lrc = 0

Abstract == INSTANCE Link WITH
    Stations <- Stations, MaxFrames <- MaxFrames,
    fate <- fate, delivered <- delivered

(* The exchange implements the link: at most once, in order, confirmed     *)
(* only if delivered, although acknowledgements carry no number.           *)
ImplementsLink == Abstract!Spec

(* Whatever happens, the station gets rid of an MSDU in the end.           *)
EverythingEnds ==
    \A s \in Stations, n \in MSDUs :
        fate[s][n] = "underway" ~> fate[s][n] # "underway"

=============================================================================
