---------------------------- MODULE ChannelState ----------------------------
(***************************************************************************)
(* The channel state of one transceiver (convergence/ChannelState): the    *)
(* indicators it combines, the network allocation vector (NAV) with its    *)
(* timer, the busy-fraction accounting, and the view that the RTS/CTS unit *)
(* keeps of the NAV from the notifications it gets.                        *)
(*                                                                         *)
(* Time passes in ticks.  latestNAV is kept relative to now: latestNAV = k *)
(* stands for "now + k", and -1 for any instant of the past, which is all  *)
(* that the comparisons of the code can tell apart.  An action is one      *)
(* handler, run to completion by the event scheduler.                      *)
(***************************************************************************)
EXTENDS Integers

CONSTANTS
    Peers,          \* addresses of the other stations
    Durations,      \* frame exchange durations and reply timeouts, in ticks
    Sifs,           \* sifsDuration, in ticks
    Period,         \* channelBusyFractionMeasurementPeriod, in ticks
    Active          \* the indicators that are switched on in the configuration

ASSUME DurationsAssumption == Durations \subseteq Nat
ASSUME SifsAssumption == Sifs \in Nat
ASSUME PeriodAssumption == Period \in Nat \ {0}
ASSUME ActiveAssumption == Active \subseteq {"ownTx", "ownRx", "phyCS", "nav"}

Off == -1           \* the NAV timer is not set
NoPeer == "noPeer"  \* the invalid address a cleared NAV setter holds

VARIABLES
    ownTx, ownRx, phyCS,    \* indicators; phyCS: signal above the threshold
    latestNAV, navTimer,    \* end of the NAV and its timer, both relative
    waitForReply,           \* the NAV was set for the reply to an own frame
    lastCS,                 \* the state the observers were told last
    rtsNav, navSetter,      \* the NAV as the RTS/CTS unit sees it
    busyTime,               \* busy ticks accounted for in this period
    busyAge, periodAge,     \* ticks since the last change to busy, the period
    psdu,                   \* ticks until the frame behind a preamble ends
    overheard,              \* history: ticks left of overheard reservations
    aborted,                \* history: such a reservation has been aborted
    trueBusy                \* history: ticks of this period that were busy

indicators == <<ownTx, ownRx, phyCS>>
navVars    == <<latestNAV, navTimer, waitForReply>>
rtsVars    == <<rtsNav, navSetter>>
csVars     == <<lastCS, busyTime, busyAge>>
clock      == <<periodAge, trueBusy>>
medium     == <<psdu, overheard, aborted>>
channelVars == <<indicators, navVars, rtsVars, csVars, clock, medium>>

Least(a, b)   == IF a <= b THEN a ELSE b
Greatest(a, b) == IF a >= b THEN a ELSE b

ChannelInit ==
    /\ ownTx = FALSE /\ ownRx = FALSE /\ phyCS = FALSE
    /\ latestNAV = 0 /\ navTimer = Off /\ waitForReply = FALSE
    /\ lastCS = "idle"
    /\ rtsNav = FALSE /\ navSetter = NoPeer
    /\ busyTime = 0 /\ busyAge = 0
    /\ periodAge = 0 /\ trueBusy = 0
    /\ psdu = Off /\ overheard = 0 /\ aborted = FALSE

-----------------------------------------------------------------------------
(* The channel state is the OR of the active indicators.                   *)
Busy ==
    \/ "ownTx" \in Active /\ ownTx
    \/ "ownRx" \in Active /\ ownRx
    \/ "phyCS" \in Active /\ phyCS
    \/ "nav" \in Active /\ navTimer # Off

CurrentCS == IF Busy THEN "busy" ELSE "idle"

(* Busy ticks of the current period that end now.                          *)
BusyInPeriod == Least(busyAge, periodAge)

RestartBusy ==  \* mutant: the busy interval begins anew with every check
    /\ lastCS' = CurrentCS'
    /\ busyAge' = IF lastCS' = "busy" THEN 0 ELSE busyAge
    /\ busyTime' = IF lastCS = "busy" /\ lastCS' = "idle"
                   THEN busyTime + BusyInPeriod ELSE busyTime

(* Tell the observers when the state differs from what they were told      *)
(* last, and account for the busy time that a change ends.                 *)
CheckNewCS ==
    /\ lastCS' = CurrentCS'
    /\ busyAge' = IF lastCS = "idle" /\ lastCS' = "busy" THEN 0 ELSE busyAge
    /\ busyTime' = IF lastCS = "busy" /\ lastCS' = "idle"
                   THEN busyTime + BusyInPeriod ELSE busyTime

RestartTimer(d) == navTimer' = d /\ UNCHANGED latestNAV \* mutant
SetNAV(d) == latestNAV' = d /\ navTimer' = d

AnyEnd(d)  == TRUE                                      \* mutant
(* Only what ends after the present NAV changes it.                        *)
Extends(d) == d > latestNAV

-----------------------------------------------------------------------------
(* Own transmissions.                                                      *)
OwnTxStart ==
    /\ ownTx' = TRUE
    /\ psdu' = Off
    /\ UNCHANGED <<ownRx, phyCS, navVars, rtsVars, clock, overheard, aborted>>
    /\ CheckNewCS

(* An outgoing preamble counts as the start of the transmission.           *)
SendPreamble == ~ownTx /\ OwnTxStart

OnTxStart == ownTx /\ "ownTx" \in Active /\ OwnTxStart

(* After a frame that expects more to come, the channel is reserved for    *)
(* the time of the reply.                                                  *)
OnTxEnd(exchange, reply) ==
    /\ ownTx /\ "ownTx" \in Active
    /\ ownTx' = FALSE
    /\ IF (exchange > Sifs \/ reply > 0) /\ Extends(reply)
       THEN SetNAV(reply) /\ waitForReply' = TRUE
       ELSE UNCHANGED navVars
    /\ UNCHANGED <<ownRx, phyCS, rtsVars, clock, medium>>
    /\ CheckNewCS

-----------------------------------------------------------------------------
(* Notifications of the frame synchronization.                             *)
OnRxEnd ==
    /\ "ownRx" \in Active
    /\ ownRx' = FALSE
    /\ UNCHANGED <<ownTx, phyCS, navVars, rtsVars, clock, medium>>
    /\ CheckNewCS

OnRSSChange(above) ==
    /\ "phyCS" \in Active
    /\ phyCS' = above
    /\ UNCHANGED <<ownTx, ownRx, navVars, rtsVars, clock, medium>>
    /\ CheckNewCS

-----------------------------------------------------------------------------
(* Incoming compounds.  The receiver is off during an own transmission.    *)
(* A preamble announces d more ticks of its frame: the synchronization     *)
(* signals the start of a reception and passes the preamble on.            *)
ReceivePreamble(d) ==
    /\ ~ownTx /\ d > 0
    /\ psdu' = d
    /\ ownRx' = IF "ownRx" \in Active THEN TRUE ELSE ownRx
    /\ IF Extends(d) THEN SetNAV(d) ELSE UNCHANGED <<latestNAV, navTimer>>
    /\ UNCHANGED <<waitForReply, ownTx, phyCS, rtsVars, clock, overheard,
                   aborted>>
    /\ CheckNewCS

AbortStillWaiting ==    \* mutant: the wait for a reply is not ended
    IF waitForReply
    THEN /\ latestNAV' = 0 /\ navTimer' = Off
         /\ aborted' = (aborted \/ overheard > 0)
         /\ UNCHANGED waitForReply
         /\ CheckNewCS
    ELSE UNCHANGED <<navVars, csVars, aborted>>

AbortUnnoticed ==       \* mutant: the observers are not told
    IF waitForReply
    THEN /\ latestNAV' = 0 /\ navTimer' = Off /\ waitForReply' = FALSE
         /\ aborted' = (aborted \/ overheard > 0)
         /\ UNCHANGED csVars
    ELSE UNCHANGED <<navVars, csVars, aborted>>

(* A frame for this station ends the wait for a reply, and with it the NAV *)
AbortNAV ==
    IF waitForReply
    THEN /\ latestNAV' = 0 /\ navTimer' = Off /\ waitForReply' = FALSE
         /\ aborted' = (aborted \/ overheard > 0)
         /\ CheckNewCS
    ELSE UNCHANGED <<navVars, csVars, aborted>>

ReceiveForMe ==
    /\ psdu = 0 /\ psdu' = Off
    /\ UNCHANGED <<indicators, rtsVars, clock, overheard>>
    /\ AbortNAV

(* A frame for somebody else.  An RTS reserves the channel only until its  *)
(* data frame should have started, any other frame for its exchange        *)
(* duration, unless that is too short to matter.                           *)
ReceiveForOther(from, d, isRTS) ==
    /\ psdu = 0 /\ psdu' = Off
    /\ IF isRTS THEN d > 0 ELSE d >= Sifs
    /\ overheard' = Greatest(overheard, d)
    /\ UNCHANGED <<waitForReply, indicators, clock, aborted>>
    /\ IF Extends(d)
       THEN /\ SetNAV(d)
            /\ rtsNav' = TRUE /\ navSetter' = from
            /\ CheckNewCS
       ELSE UNCHANGED <<latestNAV, navTimer, rtsVars, csVars>>

(* The NAV has ended.  The request for an update makes the PHY report the  *)
(* received signal strength at once.                                       *)
OnTimeout ==
    /\ navTimer = 0
    /\ navTimer' = Off
    /\ waitForReply' = FALSE
    /\ rtsNav' = FALSE
    /\ IF "phyCS" \in Active THEN phyCS' \in BOOLEAN ELSE UNCHANGED phyCS
    /\ UNCHANGED <<ownTx, ownRx, latestNAV, navSetter, clock, medium>>
    /\ CheckNewCS

(* The periodic measurement closes the period.                             *)
Periodically ==
    /\ periodAge = Period
    /\ periodAge' = 0 /\ busyTime' = 0 /\ trueBusy' = 0
    /\ busyAge' = IF Busy THEN 0 ELSE busyAge
    /\ UNCHANGED <<lastCS, indicators, navVars, rtsVars, medium>>

(* Time passes only when no timer is due.  A frame that is not received    *)
(* when it ends is lost.                                                   *)
Tick ==
    /\ navTimer # 0
    /\ periodAge < Period
    /\ navTimer' = IF navTimer = Off THEN Off ELSE navTimer - 1
    /\ latestNAV' = Greatest(latestNAV - 1, -1)
    /\ psdu' = Greatest(psdu - 1, Off)
    /\ overheard' = Greatest(overheard - 1, 0)
    /\ aborted' = (aborted /\ overheard > 1)
    /\ periodAge' = periodAge + 1
    /\ busyAge' = Least(busyAge + 1, Period)
    /\ trueBusy' = IF lastCS = "busy" THEN trueBusy + 1 ELSE trueBusy
    /\ UNCHANGED <<waitForReply, indicators, rtsVars, lastCS, busyTime>>

ChannelNext ==
    \/ SendPreamble \/ OnTxStart \/ OnRxEnd
    \/ \E exchange, reply \in Durations : OnTxEnd(exchange, reply)
    \/ \E above \in BOOLEAN : OnRSSChange(above)
    \/ \E d \in Durations : ReceivePreamble(d)
    \/ ReceiveForMe
    \/ \E from \in Peers, d \in Durations, isRTS \in BOOLEAN :
           ReceiveForOther(from, d, isRTS)
    \/ OnTimeout \/ Periodically \/ Tick

ChannelSpec == ChannelInit /\ [][ChannelNext]_channelVars

-----------------------------------------------------------------------------
TypeOK ==
    /\ ownTx \in BOOLEAN /\ ownRx \in BOOLEAN /\ phyCS \in BOOLEAN
    /\ latestNAV \in Int /\ latestNAV >= -1
    /\ navTimer \in Int /\ navTimer >= Off
    /\ waitForReply \in BOOLEAN
    /\ lastCS \in {"idle", "busy"}
    /\ rtsNav \in BOOLEAN /\ navSetter \in Peers \cup {NoPeer}
    /\ busyTime \in Nat /\ busyAge \in 0..Period
    /\ periodAge \in 0..Period /\ trueBusy \in 0..periodAge
    /\ psdu \in Int /\ psdu >= Off
    /\ overheard \in Nat /\ aborted \in BOOLEAN

(* A running timer expires exactly at latestNAV, and without a timer the   *)
(* NAV is over: what onTimeout asserts, through extensions, replacements   *)
(* by longer reservations and aborts.                                      *)
NavTimerMatches ==
    IF navTimer = Off THEN latestNAV <= 0 ELSE navTimer = latestNAV

(* The wait for a reply never outlives its timer: the abort cancels a      *)
(* timer without asking whether one is set.                                *)
OwnNavRuns == waitForReply => navTimer # Off

(* After every handler the observers (the backoff above all) have been     *)
(* told the state that the indicators give.                                *)
ObserversUpToDate == lastCS = CurrentCS

(* The busy fraction that the measurement reports is the true one, however *)
(* the busy intervals fall on the boundaries of the periods.               *)
BusyTimeExact ==
    trueBusy = busyTime + (IF lastCS = "busy" THEN BusyInPeriod ELSE 0)

(* An overheard reservation that no reply to an own frame has aborted      *)
(* stays covered by the NAV to its end, whatever else extends, replaces or *)
(* ends the NAV: the station cannot take the channel in the middle of it.  *)
ReservationKept ==
    overheard > 0 /\ ~aborted => navTimer # Off /\ latestNAV >= overheard

=============================================================================
