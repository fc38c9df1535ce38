------------------------ MODULE FrameSynchronization ------------------------
(***************************************************************************)
(* Frame synchronization with capture (convergence/FrameSynchronization):  *)
(* which of several overlapping transmissions the receiver decodes, and    *)
(* the start/end/error notifications it gives to the units above.          *)
(*                                                                         *)
(* Time passes in ticks.  frameEnd is lastFrameEnd relative to now, kept   *)
(* exactly down to the oldest past instant that the code compares with.    *)
(* Transmission ends that are less than Tolerance apart (1 us in the code) *)
(* count as the same.                                                      *)
(***************************************************************************)
EXTENDS Integers

CONSTANTS
    Peers,              \* the stations whose transmissions arrive here
    FrameDurations,     \* durations a preamble announces, in ticks
    Sinrs,              \* levels of the signal to interference ratio
    DetectionThreshold, IdleCapture, SlcCapture, SlgCapture,
    MaxStreams,         \* spatial streams, one training field for each
    Delivery,           \* wait for the final delivery (10 ns in the code)
    Tolerance,          \* ends closer than this are the same (1 us)
    SignalErrorAlthoughNotSynchronized

ASSUME DeliveryAssumption == Delivery \in Nat \ {0}
ASSUME DurationsAssumption ==   \* no frame is over before a final delivery
    FrameDurations \subseteq Nat /\ \A d \in FrameDurations : d >= Delivery
ASSUME ToleranceAssumption == Tolerance \in Nat \ {0}
ASSUME StreamsAssumption == MaxStreams \in Nat \ {0}
ASSUME SinrsAssumption == Sinrs \subseteq Int
ASSUME ThresholdsAssumption ==
    /\ DetectionThreshold \in Int /\ IdleCapture \in Int
    /\ SlcCapture \in Int /\ SlgCapture \in Int

Off == -1                       \* no timer, no transmission
NoPeer == "noPeer"              \* the invalid address
Past == -(Delivery + 1)         \* any instant too old to matter
Ended == -2                     \* a transmission that ended this instant

ASSUME PeersAssumption == NoPeer \notin Peers

VARIABLES
    curState,           \* of the synchronization
    syncTo,             \* synchronizedToAddress
    frameEnd,           \* lastFrameEnd, relative to now
    timer,
    streams,            \* numSpatialStreamsLastPreambleFragment
    sending,            \* the own transmitter: while not off, no reception
    air,                \* air[p]: ticks until the transmission of p ends
    detected,           \* history: peers on the air whose preamble was seen
                        \* since the last own transmission
    rxOpen              \* history: starts signalled since the last end or error

sync  == <<curState, syncTo, frameEnd, timer, streams>>
vars  == <<sync, sending, air, detected, rxOpen>>

Greatest(a, b) == IF a >= b THEN a ELSE b

Init ==
    /\ curState = "Idle" /\ syncTo = NoPeer /\ frameEnd = 0
    /\ timer = Off /\ streams = 0
    /\ sending = "off"
    /\ air = [p \in Peers |-> Off]
    /\ detected = {}
    /\ rxOpen = 0

-----------------------------------------------------------------------------
(* Notifications to the observers of receptions.                           *)
SignalEnd   == rxOpen' = 0
SignalError == rxOpen' = 0
NoSignal    == UNCHANGED rxOpen

NoSignalCapture == NoSignal     \* mutant
(* What ends the decoding of a frame, a capture by another preamble or an  *)
(* own transmission, signals the error of that frame first.                *)
SignalCapture == IF curState = "Synchronized" THEN SignalError ELSE NoSignal
SignalStart   == rxOpen' = 1 + (IF curState = "Synchronized" THEN 0 ELSE rxOpen)

Unsynchronize == syncTo' = NoPeer /\ streams' = 0

(* The own transmission, its preamble first, ends any synchronization.     *)
DoSendData ==
    /\ sending = "off" /\ sending' = "started"
    /\ IF curState = "Idle" THEN UNCHANGED sync
       ELSE /\ curState' = "Idle" /\ frameEnd' = 0 /\ timer' = Off
            /\ Unsynchronize
    /\ SignalCapture
    /\ detected' = {}
    /\ UNCHANGED air

(* The PHY is back in the receiving state.                                 *)
SendingDone ==
    /\ sending = "on" /\ sending' = "off"
    /\ UNCHANGED <<sync, air, detected, rxOpen>>

-----------------------------------------------------------------------------
SyncToLongest(p, d) ==          \* mutant: the timer covers all known frames
    /\ timer' = Greatest(frameEnd, d)
    /\ frameEnd' = IF frameEnd - d < Tolerance THEN d ELSE frameEnd
    /\ syncTo' = p /\ curState' = "Synchronized" /\ streams' = 1

SyncForgetsOthers(p, d) ==      \* mutant: the end of the others is lost
    /\ timer' = d /\ frameEnd' = d
    /\ syncTo' = p /\ curState' = "Synchronized" /\ streams' = 1

SyncToNewPreamble(p, d) ==
    /\ timer' = d
    /\ frameEnd' = IF frameEnd - d < Tolerance THEN d ELSE frameEnd
    /\ syncTo' = p /\ curState' = "Synchronized" /\ streams' = 1

FailedSyncToNewPreamble(d) ==
    /\ IF d > frameEnd THEN frameEnd' = d /\ timer' = d
       ELSE UNCHANGED <<frameEnd, timer>>
    /\ curState' = "Garbled"
    /\ Unsynchronize

CaptureThreshold ==
    CASE curState = "Idle" -> IdleCapture
      [] curState \in {"Synchronized", "waitForFinalDelivery"} -> SlcCapture
      [] curState = "Garbled" -> SlgCapture

(* The first preamble of a transmission that lasts d more ticks.  From the *)
(* station synchronized to, only further training fields are accepted.     *)
ProcessPreamble(p, d, sinr, crcOk) ==
    IF sinr < DetectionThreshold \/ (curState = "Synchronized" /\ syncTo = p)
    THEN UNCHANGED <<sync, rxOpen>>
    ELSE IF sinr > CaptureThreshold
         THEN IF crcOk
              THEN SyncToNewPreamble(p, d) /\ SignalStart
              ELSE FailedSyncToNewPreamble(d) /\ SignalCapture
         ELSE /\ NoSignal
              /\ IF curState \in {"Synchronized", "waitForFinalDelivery"}
                 THEN /\ frameEnd' = Greatest(frameEnd, d)
                      /\ UNCHANGED <<curState, syncTo, timer, streams>>
                 ELSE FailedSyncToNewPreamble(d)

(* A station that is not on the air ends the preamble of a new frame.      *)
ReceivePreamble(p, d, sinr, crcOk) ==
    /\ air[p] = Off
    /\ air' = [air EXCEPT ![p] = d]
    /\ IF sending # "off" THEN UNCHANGED <<sync, detected, rxOpen>>
       ELSE /\ ProcessPreamble(p, d, sinr, crcOk)
            /\ detected' = IF sinr < DetectionThreshold THEN detected
                           ELSE detected \cup {p}
    /\ UNCHANGED sending

(* A further training field of p is delivered if it is the next in line.   *)
ReceiveTrainingField(p, n) ==
    /\ sending = "off" /\ air[p] > 0
    /\ curState = "Synchronized" /\ syncTo = p
    /\ n = streams + 1
    /\ streams' = n
    /\ UNCHANGED <<curState, syncTo, frameEnd, timer, sending, air, detected,
                   rxOpen>>

-----------------------------------------------------------------------------
(* The frame the preamble announced is over: garbled as long as another    *)
(* known transmission lasts, idle otherwise.                               *)
EndOfFrame ==
    /\ Unsynchronize
    /\ UNCHANGED frameEnd
    /\ IF frameEnd > 0
       THEN curState' = "Garbled" /\ timer' = frameEnd
       ELSE curState' = "Idle" /\ timer' = Off

OnTimeout ==
    /\ timer = 0
    /\ IF curState = "Synchronized"
       THEN /\ curState' = "waitForFinalDelivery" /\ timer' = Delivery
            /\ SignalEnd
            /\ UNCHANGED <<syncTo, frameEnd, streams>>
       ELSE EndOfFrame /\ NoSignal
    /\ UNCHANGED <<sending, air, detected>>

(* A PSDU of p: delivered if the receiver is synchronized to p and the     *)
(* checksum is right.  The one that ends the synchronized frame also does  *)
(* what is left of the timeouts.                                           *)
ProcessPSDU(p, crcOk) ==
    LET matches == curState \in {"Synchronized", "waitForFinalDelivery"}
                       /\ syncTo = p
        atEnd   == crcOk /\ curState = "Synchronized" /\ frameEnd < Delivery
    IN  IF matches /\ (atEnd \/ curState = "waitForFinalDelivery")
        THEN /\ EndOfFrame
             /\ IF ~crcOk THEN SignalError
                ELSE IF atEnd THEN SignalEnd ELSE NoSignal
        ELSE /\ UNCHANGED sync
             /\ IF (matches /\ ~crcOk)
                       \/ (~matches /\ SignalErrorAlthoughNotSynchronized)
                THEN SignalError ELSE NoSignal

(* The last PSDU of a transmission ends with it; a transmission that       *)
(* carries several has others before.                                      *)
ReceivePSDU(p, crcOk) ==
    /\ air[p] >= 0
    /\ IF sending # "off" THEN UNCHANGED <<sync, rxOpen>> ELSE ProcessPSDU(p, crcOk)
    /\ IF air[p] = 0
       THEN /\ air' = [air EXCEPT ![p] = Ended]
            /\ detected' = detected \ {p}
       ELSE UNCHANGED <<air, detected>>
    /\ UNCHANGED sending

Tick ==
    /\ timer # 0 /\ \A p \in Peers : air[p] # 0
    /\ timer' = IF timer = Off THEN Off ELSE timer - 1
    /\ frameEnd' = Greatest(frameEnd - 1, Past)
    /\ air' = [p \in Peers |-> IF air[p] < 0 THEN Off ELSE air[p] - 1]
    /\ sending' = IF sending = "started" THEN "on" ELSE sending
    /\ UNCHANGED <<curState, syncTo, streams, detected, rxOpen>>

Next ==
    \/ DoSendData \/ SendingDone
    \/ \E p \in Peers, d \in FrameDurations, s \in Sinrs, ok \in BOOLEAN :
           ReceivePreamble(p, d, s, ok)
    \/ \E p \in Peers, n \in 2..MaxStreams : ReceiveTrainingField(p, n)
    \/ \E p \in Peers, ok \in BOOLEAN : ReceivePSDU(p, ok)
    \/ OnTimeout \/ Tick

Spec == Init /\ [][Next]_vars

-----------------------------------------------------------------------------
(* The assertions of processPreamble, the precondition of cancelTimeout in *)
(* doSendData, and the promise behind the switch of doSendData that the    *)
(* state says everything about the timer: idle means that no known frame   *)
(* is left and no timer runs; any other state has a timer, and one that    *)
(* never runs past the last known frame end (plus the final delivery).     *)
(* While synchronized, it measures the very transmission that is           *)
(* synchronized to: the captures, failed captures and longer frames that   *)
(* overlap it neither cut it short nor extend it, so that its last PSDU    *)
(* comes exactly when the end is signalled.                                *)
StateAgreesWithTimer ==
    /\ curState = "Idle" => timer = Off /\ frameEnd <= 0
    /\ curState # "Idle" => timer # Off
    /\ curState \in {"Synchronized", "Garbled"} => timer <= frameEnd
    /\ curState = "waitForFinalDelivery" =>
           timer <= Delivery /\ frameEnd >= timer - Delivery
    /\ curState = "Synchronized" =>
           /\ syncTo \in Peers
           /\ \/ timer = air[syncTo]
              \/ timer = 0 /\ air[syncTo] = Ended

(* Every start of a reception is terminated, by an end or an error, before *)
(* the next start is signalled, on capture, on failure and on own sending: *)
(* at most the frame synchronized to is open.                              *)
StartsTerminated ==
    rxOpen <= IF curState = "Synchronized" /\ sending = "off" THEN 1 ELSE 0

(* Every transmission detected since the last own one is covered by the    *)
(* remembered frame end, however it overlapped, captured or outlasted the  *)
(* others: the receiver is not idle, with the low capture threshold of a   *)
(* free channel, before the last of them is over.                          *)
DetectedCovered ==
    \A p \in detected : air[p] > 0 => curState # "Idle" /\ air[p] <= frameEnd

=============================================================================
