--------------------- MODULE FrameSynchronization_proofs ---------------------
(***************************************************************************)
(* Proofs about FrameSynchronization, for any stations, frame durations,   *)
(* levels, thresholds and streams.                                         *)
(*                                                                         *)
(* The promises about state, timer and notifications are inductive with    *)
(* the types.  That every detected transmission is covered needs that the  *)
(* detected ones are on the air (DetectedOnAir), and holds when the ends   *)
(* of transmissions that differ do so by the tolerance at least: with      *)
(* ends that are closer, each of several captures may shorten what is      *)
(* remembered, by less than the tolerance.                                 *)
(***************************************************************************)
EXTENDS FrameSynchronization, TLAPS

USE DeliveryAssumption, DurationsAssumption, ToleranceAssumption,
    PeersAssumption

Types ==
    /\ curState \in {"Idle", "Synchronized", "waitForFinalDelivery", "Garbled"}
    /\ frameEnd \in Int
    /\ timer \in Int /\ timer >= Off
    /\ air \in [Peers -> Int]
    /\ \A p \in Peers : air[p] >= Ended
    /\ detected \subseteq Peers
    /\ rxOpen \in Nat

DetectedOnAir == \A p \in detected : air[p] >= 0

(* The invariant for ends that differ by the tolerance or not at all.      *)
CoveredIfDistinct == Tolerance = 1 => DetectedCovered

Inv ==
    /\ Types
    /\ StateAgreesWithTimer
    /\ StartsTerminated
    /\ DetectedOnAir
    /\ CoveredIfDistinct

(* The constructor's state satisfies the invariant.                        *)
LEMMA InitInv == Init => Inv
  BY DEF Init, Inv, Types, StateAgreesWithTimer, StartsTerminated,
         DetectedOnAir, CoveredIfDistinct, DetectedCovered, Off, Ended

(* What leaves the synchronization alone keeps its agreement with the      *)
(* timer, if the transmission synchronized to goes on or just ended.       *)
LEMMA SyncUntouched ==
    ASSUME StateAgreesWithTimer, UNCHANGED sync,
           curState = "Synchronized" =>
               \/ air'[syncTo] = air[syncTo]
               \/ air[syncTo] = 0 /\ air'[syncTo] = Ended
    PROVE  StateAgreesWithTimer'
  <1> USE DEF sync, StateAgreesWithTimer
  <1>1. CASE curState = "Synchronized"
    BY <1>1 DEF Off, Ended
  <1>2. CASE curState # "Synchronized"
    BY <1>2
  <1> QED
    BY <1>1, <1>2

(* Own transmissions end the synchronization, the open start and what is   *)
(* known of the others.                                                    *)
LEMMA SendInv == Inv /\ (DoSendData \/ SendingDone) => Inv'
  <1> SUFFICES ASSUME Inv, DoSendData \/ SendingDone PROVE Inv'
    OBVIOUS
  <1> USE DEF Inv
  <1>1. CASE DoSendData
    <2>0. /\ air' = air /\ detected' = {} /\ curState' = "Idle"
          /\ sending' = "started"
      BY <1>1 DEF DoSendData, sync
    <2>1. frameEnd' \in Int /\ frameEnd' <= 0 /\ timer' = Off
      BY <1>1 DEF DoSendData, sync, StateAgreesWithTimer, Types
    <2>2. rxOpen' = 0
      BY <1>1 DEF DoSendData, SignalCapture, SignalError, NoSignal,
                  StartsTerminated, Types
    <2>3. Types'
      BY <2>0, <2>1, <2>2 DEF Types, Off
    <2>4. StateAgreesWithTimer'
      BY <2>0, <2>1 DEF StateAgreesWithTimer
    <2>5. StartsTerminated' /\ DetectedOnAir' /\ CoveredIfDistinct'
      BY <2>0, <2>2 DEF StartsTerminated, DetectedOnAir, CoveredIfDistinct,
                        DetectedCovered
    <2> QED
      BY <2>3, <2>4, <2>5
  <1>2. CASE SendingDone
    <2>0. /\ UNCHANGED sync /\ UNCHANGED air
          /\ UNCHANGED <<detected, rxOpen>> /\ sending = "on"
      BY <1>2 DEF SendingDone
    <2>1. StateAgreesWithTimer'
      BY <2>0, SyncUntouched
    <2>2. Types' /\ DetectedOnAir' /\ CoveredIfDistinct'
      BY <2>0 DEF Types, DetectedOnAir, CoveredIfDistinct, DetectedCovered,
                  sync
    <2>3. StartsTerminated'
      BY <2>0 DEF StartsTerminated, sync, Types
    <2> QED
      BY <2>1, <2>2, <2>3
  <1> QED
    BY <1>1, <1>2

(* What a preamble of a station not synchronized to can do.                *)
LEMMA PreambleOutcomes ==
    ASSUME NEW p, NEW d, NEW s, NEW ok, ProcessPreamble(p, d, s, ok),
           ~(curState = "Synchronized" /\ syncTo = p)
    PROVE  \/ s < DetectionThreshold /\ UNCHANGED <<sync, rxOpen>>
           \/ SyncToNewPreamble(p, d) /\ SignalStart
           \/ /\ FailedSyncToNewPreamble(d)
              /\ \/ SignalCapture
                 \/ curState # "Synchronized" /\ NoSignal
           \/ /\ curState \in {"Synchronized", "waitForFinalDelivery"}
              /\ frameEnd' = Greatest(frameEnd, d)
              /\ UNCHANGED <<curState, syncTo, timer, streams, rxOpen>>
  BY DEF ProcessPreamble, NoSignal

(* A preamble starts a reception, garbles the channel or extends what is   *)
(* remembered of the others; the frame that is decoded keeps its timer.    *)
LEMMA ReceivePreambleInv ==
    ASSUME Inv, NEW p \in Peers, NEW d \in FrameDurations, NEW s, NEW ok,
           ReceivePreamble(p, d, s, ok)
    PROVE  Inv'
  <1> USE DEF Inv
  <1>0. /\ air[p] = Off /\ air' = [air EXCEPT ![p] = d] /\ sending' = sending
        /\ d \in Nat /\ d >= Delivery
    BY DEF ReceivePreamble
  <1>1. ~(curState = "Synchronized" /\ syncTo = p)
    BY <1>0 DEF StateAgreesWithTimer, Off, Ended
  <1>2. air' \in [Peers -> Int] /\ \A q \in Peers : air'[q] >= Ended
    BY <1>0 DEF Types, Ended
  <1>3. p \notin detected
    BY <1>0 DEF DetectedOnAir, Off
  <1>4. curState = "Synchronized" => air'[syncTo] = air[syncTo]
    BY <1>0, <1>1 DEF StateAgreesWithTimer, Types
  <1>5. /\ \A q \in detected : air'[q] = air[q]
        /\ air'[p] = d
    BY <1>0, <1>3 DEF Types
  <1>6. CASE UNCHANGED sync /\ UNCHANGED <<rxOpen, detected>>
    <2>1. StateAgreesWithTimer'
      BY <1>4, <1>6, SyncUntouched
    <2>2. Types'
      BY <1>2, <1>6 DEF Types, sync
    <2>3. StartsTerminated'
      BY <1>0, <1>6 DEF StartsTerminated, sync
    <2>4. DetectedOnAir' /\ CoveredIfDistinct'
      BY <1>5, <1>6 DEF DetectedOnAir, CoveredIfDistinct, DetectedCovered, sync
    <2> QED
      BY <2>1, <2>2, <2>3, <2>4
  <1>7. CASE ~(UNCHANGED sync /\ UNCHANGED <<rxOpen, detected>>)
    <2>0. /\ sending = "off"
          /\ ProcessPreamble(p, d, s, ok)
          /\ detected' = IF s < DetectionThreshold THEN detected
                         ELSE detected \cup {p}
      BY <1>7 DEF ReceivePreamble
    <2>1. detected' \subseteq detected \cup {p} /\ detected' \subseteq Peers
      BY <2>0 DEF Types
    <2>2. DetectedOnAir'
      BY <1>0, <1>5, <2>1 DEF DetectedOnAir
    <2>3. ASSUME curState' # "Idle",
                 Tolerance = 1 => frameEnd' >= frameEnd /\ frameEnd' >= d,
                 frameEnd' \in Int
          PROVE  CoveredIfDistinct'
      <3> SUFFICES ASSUME Tolerance = 1, NEW q \in detected', air'[q] > 0
                   PROVE  curState' # "Idle" /\ air'[q] <= frameEnd'
        BY DEF CoveredIfDistinct, DetectedCovered
      <3>1. CASE q = p
        BY <1>0, <1>5, <2>3, <3>1
      <3>2. CASE q # p
        <4>1. q \in detected /\ air'[q] = air[q] /\ air[q] \in Int
          BY <1>5, <2>1, <3>2 DEF Types
        <4>2. air[q] <= frameEnd
          BY <4>1 DEF CoveredIfDistinct, DetectedCovered
        <4> QED
          BY <2>3, <4>1, <4>2 DEF Types
      <3> QED
        BY <3>1, <3>2
    <2>4. CASE SyncToNewPreamble(p, d) /\ SignalStart
      <3>1. /\ curState' = "Synchronized" /\ syncTo' = p /\ timer' = d
            /\ frameEnd' = IF frameEnd - d < Tolerance THEN d ELSE frameEnd
            /\ rxOpen' = 1
        BY <2>4 DEF SyncToNewPreamble, SignalStart, StartsTerminated, Types
      <3>2. frameEnd' \in Int /\ frameEnd' >= d
            /\ (Tolerance = 1 => frameEnd' >= frameEnd)
        BY <1>0, <3>1 DEF Types
      <3>3. Types'
        BY <1>0, <1>2, <2>1, <3>1, <3>2 DEF Types, Off
      <3>4. StateAgreesWithTimer'
        BY <1>0, <1>5, <3>1, <3>2 DEF StateAgreesWithTimer, Off
      <3>5. StartsTerminated'
        BY <1>0, <2>0, <3>1 DEF StartsTerminated
      <3> QED
        BY <2>2, <2>3, <3>1, <3>2, <3>3, <3>4, <3>5
    <2>5. CASE /\ FailedSyncToNewPreamble(d)
               /\ SignalCapture \/ (curState # "Synchronized" /\ NoSignal)
      <3>1. curState' = "Garbled" /\ rxOpen' = 0
        BY <2>5 DEF FailedSyncToNewPreamble, SignalCapture, SignalError,
                    NoSignal, StartsTerminated, Types
      <3>2. /\ frameEnd' \in Int /\ frameEnd' >= d /\ frameEnd' >= frameEnd
            /\ timer' \in Int /\ timer' > Off /\ timer' <= frameEnd'
        <4>1. CASE d > frameEnd
          BY <1>0, <2>5, <4>1 DEF FailedSyncToNewPreamble, Types, Off
        <4>2. CASE ~(d > frameEnd)
          <5>1. UNCHANGED <<frameEnd, timer>> /\ frameEnd >= d
            BY <1>0, <2>5, <4>2 DEF FailedSyncToNewPreamble, Types
          <5>2. curState # "Idle"
            BY <1>0, <5>1 DEF StateAgreesWithTimer, Types
          <5>3. timer # Off /\ timer <= frameEnd
            BY <1>0, <5>1, <5>2 DEF StateAgreesWithTimer, Types
          <5> QED
            BY <5>1, <5>3 DEF Types, Off
        <4> QED
          BY <4>1, <4>2
      <3>3. Types'
        BY <1>2, <2>1, <3>1, <3>2 DEF Types, Off
      <3>4. StateAgreesWithTimer'
        BY <3>1, <3>2 DEF StateAgreesWithTimer, Off
      <3>5. StartsTerminated'
        BY <3>1 DEF StartsTerminated
      <3> QED
        BY <2>2, <2>3, <3>1, <3>2, <3>3, <3>4, <3>5
    <2>6. CASE /\ curState \in {"Synchronized", "waitForFinalDelivery"}
               /\ frameEnd' = Greatest(frameEnd, d)
               /\ UNCHANGED <<curState, syncTo, timer, streams, rxOpen>>
      <3>1. frameEnd' \in Int /\ frameEnd' >= d /\ frameEnd' >= frameEnd
        BY <1>0, <2>6 DEF Greatest, Types
      <3>2. Types'
        BY <1>2, <2>1, <2>6, <3>1 DEF Types
      <3>3. StateAgreesWithTimer'
        <4>1. CASE curState = "Synchronized"
          BY <1>4, <2>6, <3>1, <4>1 DEF StateAgreesWithTimer, Types
        <4>2. CASE curState = "waitForFinalDelivery"
          BY <2>6, <3>1, <4>2 DEF StateAgreesWithTimer, Types
        <4> QED
          BY <2>6, <4>1, <4>2
      <3>4. StartsTerminated'
        BY <1>0, <2>6 DEF StartsTerminated
      <3> QED
        BY <2>2, <2>3, <2>6, <3>1, <3>2, <3>3, <3>4
    <2>7. CASE s < DetectionThreshold /\ UNCHANGED <<sync, rxOpen>>
      BY <1>7, <2>0, <2>7
    <2> QED
      BY <1>1, <2>0, <2>4, <2>5, <2>6, <2>7, PreambleOutcomes
  <1> QED
    BY <1>6, <1>7

(* Further training fields count the streams only.                         *)
LEMMA TrainingFieldInv ==
    ASSUME Inv, NEW p, NEW n, ReceiveTrainingField(p, n)
    PROVE  Inv'
  BY DEF Inv, ReceiveTrainingField, Types, StateAgreesWithTimer,
         StartsTerminated, DetectedOnAir, CoveredIfDistinct, DetectedCovered

(* The end of the decoded frame leaves a garbled channel as long as        *)
(* another transmission is known, and the timer on its end.                *)
LEMMA EndOfFrameKeeps ==
    ASSUME Types, EndOfFrame, StartsTerminated, DetectedOnAir,
           CoveredIfDistinct, curState # "Idle",
           rxOpen' = 0, detected' \subseteq detected,
           air' \in [Peers -> Int], \A q \in Peers : air'[q] >= Ended,
           \A q \in detected' : air'[q] = air[q]
    PROVE  Inv'
  <1>1. /\ frameEnd' = frameEnd
        /\ \/ frameEnd > 0 /\ curState' = "Garbled" /\ timer' = frameEnd
           \/ frameEnd <= 0 /\ curState' = "Idle" /\ timer' = Off
    BY DEF EndOfFrame, Types
  <1>2. Types'
    BY <1>1 DEF Types, Off
  <1>3. StateAgreesWithTimer' /\ StartsTerminated' /\ DetectedOnAir'
    BY <1>1 DEF StateAgreesWithTimer, StartsTerminated, DetectedOnAir, Off,
                Types
  <1>4. CoveredIfDistinct'
    BY <1>1 DEF CoveredIfDistinct, DetectedCovered, Types
  <1> QED
    BY <1>2, <1>3, <1>4 DEF Inv

(* The timeouts: the final delivery, and the end of the frame.             *)
LEMMA OnTimeoutInv == Inv /\ OnTimeout => Inv'
  <1> SUFFICES ASSUME Inv, OnTimeout PROVE Inv'
    OBVIOUS
  <1> USE DEF Inv
  <1>0. timer = 0 /\ UNCHANGED <<sending, air, detected>>
    BY DEF OnTimeout
  <1>1. CASE curState = "Synchronized"
    <2>0. /\ curState' = "waitForFinalDelivery" /\ timer' = Delivery
          /\ rxOpen' = 0 /\ frameEnd' = frameEnd /\ frameEnd >= 0
      BY <1>0, <1>1 DEF OnTimeout, SignalEnd, StateAgreesWithTimer
    <2>1. Types'
      BY <1>0, <2>0 DEF Types, Off
    <2>2. StateAgreesWithTimer'
      BY <2>0 DEF StateAgreesWithTimer, Off, Types
    <2>3. StartsTerminated' /\ DetectedOnAir' /\ CoveredIfDistinct'
      BY <1>0, <2>0 DEF StartsTerminated, DetectedOnAir, CoveredIfDistinct,
                        DetectedCovered
    <2> QED
      BY <2>1, <2>2, <2>3
  <1>2. CASE curState # "Synchronized"
    <2>1. EndOfFrame /\ rxOpen' = rxOpen
      BY <1>2 DEF OnTimeout, NoSignal
    <2>2. rxOpen = 0
      BY <1>2 DEF StartsTerminated, Types
    <2>3. curState # "Idle"
      BY <1>0 DEF StateAgreesWithTimer, Off
    <2> QED
      BY <1>0, <2>1, <2>2, <2>3, EndOfFrameKeeps DEF Types
  <1> QED
    BY <1>1, <1>2

(* A PSDU ends the frame synchronized to, or leaves the synchronization.   *)
LEMMA ReceivePSDUInv ==
    ASSUME Inv, NEW p \in Peers, NEW ok, ReceivePSDU(p, ok)
    PROVE  Inv'
  <1> USE DEF Inv
  <1>0. /\ \/ air[p] = 0 /\ air' = [air EXCEPT ![p] = Ended]
              /\ detected' = detected \ {p}
           \/ UNCHANGED <<air, detected>>
        /\ sending' = sending
    BY DEF ReceivePSDU
  <1>1. /\ air' \in [Peers -> Int] /\ \A q \in Peers : air'[q] >= Ended
        /\ detected' \subseteq detected
        /\ \A q \in detected' : air'[q] = air[q]
        /\ \A q \in Peers : \/ air'[q] = air[q]
                            \/ air[q] = 0 /\ air'[q] = Ended
    <2>1. \A q \in Peers : \/ air'[q] = air[q]
                           \/ air[q] = 0 /\ air'[q] = Ended
      BY <1>0 DEF Types
    <2>2. air' \in [Peers -> Int] /\ detected' \subseteq detected
      BY <1>0 DEF Types, Ended
    <2>3. \A q \in Peers : air'[q] >= Ended
      BY <2>1 DEF Types, Ended
    <2>4. ASSUME NEW q \in detected' PROVE air'[q] = air[q]
      <3>1. q \in Peers /\ q \in detected
        BY <2>2 DEF Types
      <3>2. CASE detected' = detected \ {p} /\ air' = [air EXCEPT ![p] = Ended]
        <4>1. q # p
          BY <3>2
        <4> QED
          BY <3>1, <3>2, <4>1 DEF Types
      <3> QED
        BY <1>0, <3>2
    <2> QED
      BY <2>1, <2>2, <2>3, <2>4
  <1>2. CASE EndOfFrame /\ rxOpen' \in {0, rxOpen} /\ curState # "Idle"
             /\ (rxOpen' = 0 \/ curState # "Synchronized")
    <2>1. rxOpen' = 0
      BY <1>2 DEF StartsTerminated, Types
    <2> QED
      BY <1>1, <1>2, <2>1, EndOfFrameKeeps
  <1>3. CASE UNCHANGED sync /\ rxOpen' \in {0, rxOpen}
    <2>1. StateAgreesWithTimer'
      BY <1>1, <1>3, SyncUntouched DEF StateAgreesWithTimer
    <2>2. Types'
      BY <1>1, <1>3 DEF Types, sync
    <2>3. StartsTerminated'
      BY <1>0, <1>3 DEF StartsTerminated, Types, sync
    <2>4. DetectedOnAir' /\ CoveredIfDistinct'
      BY <1>1, <1>3 DEF DetectedOnAir, CoveredIfDistinct, DetectedCovered, sync
    <2> QED
      BY <2>1, <2>2, <2>3, <2>4
  <1>4. \/ EndOfFrame /\ rxOpen' \in {0, rxOpen} /\ curState # "Idle"
           /\ (rxOpen' = 0 \/ curState # "Synchronized")
        \/ UNCHANGED sync /\ rxOpen' \in {0, rxOpen}
    BY DEF ReceivePSDU, ProcessPSDU, SignalError, SignalEnd, NoSignal
  <1> QED
    BY <1>2, <1>3, <1>4

(* All clocks run alike.                                                   *)
LEMMA TickInv == Inv /\ Tick => Inv'
  <1> SUFFICES ASSUME Inv, Tick PROVE Inv'
    OBVIOUS
  <1> USE DEF Inv
  <1>0. /\ UNCHANGED <<curState, syncTo, detected, rxOpen>>
        /\ timer # 0 /\ timer' = IF timer = Off THEN Off ELSE timer - 1
        /\ frameEnd' = Greatest(frameEnd - 1, Past)
        /\ air' = [p \in Peers |-> IF air[p] < 0 THEN Off ELSE air[p] - 1]
        /\ \A p \in Peers : air[p] # 0
        /\ sending' = IF sending = "started" THEN "on" ELSE sending
    BY DEF Tick
  <1>1. /\ timer' \in Int /\ timer' >= Off
        /\ timer = Off => timer' = Off
        /\ timer # Off => timer' = timer - 1 /\ timer' # Off
    BY <1>0 DEF Types, Off
  <1>2. /\ frameEnd' \in Int /\ frameEnd' >= frameEnd - 1
        /\ frameEnd <= 0 => frameEnd' <= 0
    BY <1>0 DEF Types, Greatest, Past
  <1>3. /\ air' \in [Peers -> Int]
        /\ \A p \in Peers : /\ air'[p] >= Ended
                            /\ air[p] > 0 => air'[p] = air[p] - 1
                            /\ air[p] >= 0 => air[p] > 0
                            /\ air'[p] > 0 => air[p] > 0
    BY <1>0 DEF Types, Off, Ended
  <1>4. Types'
    BY <1>0, <1>1, <1>2, <1>3 DEF Types
  <1>5. StateAgreesWithTimer'
    <2>1. CASE curState = "Idle"
      BY <1>0, <1>1, <1>2, <2>1 DEF StateAgreesWithTimer
    <2>2. CASE curState = "Synchronized"
      <3>1. timer = air[syncTo] /\ syncTo \in Peers /\ timer > 0
        BY <1>0, <2>2 DEF StateAgreesWithTimer, Types, Off
      <3>2. timer' = air'[syncTo']
        BY <1>0, <1>1, <1>3, <3>1 DEF Off
      <3> QED
        BY <1>0, <1>1, <1>2, <2>2, <3>1, <3>2 DEF StateAgreesWithTimer, Types
    <2>3. CASE curState \in {"waitForFinalDelivery", "Garbled"}
      BY <1>0, <1>1, <1>2, <2>3 DEF StateAgreesWithTimer, Types
    <2> QED
      BY <2>1, <2>2, <2>3 DEF Types
  <1>6. StartsTerminated'
    BY <1>0 DEF StartsTerminated, Types
  <1>7. DetectedOnAir'
    BY <1>0, <1>3 DEF DetectedOnAir, Types
  <1>8. CoveredIfDistinct'
    <2> SUFFICES ASSUME Tolerance = 1, NEW q \in detected', air'[q] > 0
                 PROVE  curState' # "Idle" /\ air'[q] <= frameEnd'
      BY DEF CoveredIfDistinct, DetectedCovered
    <2>1. q \in detected /\ q \in Peers /\ air[q] > 0 /\ air'[q] = air[q] - 1
      BY <1>0, <1>3 DEF Types
    <2>2. curState # "Idle" /\ air[q] <= frameEnd
      BY <2>1 DEF CoveredIfDistinct, DetectedCovered
    <2> QED
      BY <1>0, <1>2, <2>1, <2>2 DEF Types
  <1> QED
    BY <1>4, <1>5, <1>6, <1>7, <1>8

(* Every handler keeps the invariant.                                      *)
LEMMA NextInv == Inv /\ [Next]_vars => Inv'
  <1> SUFFICES ASSUME Inv, [Next]_vars PROVE Inv'
    OBVIOUS
  <1>1. CASE DoSendData \/ SendingDone
    BY <1>1, SendInv
  <1>2. ASSUME NEW p \in Peers, NEW d \in FrameDurations, NEW s \in Sinrs,
               NEW ok \in BOOLEAN, ReceivePreamble(p, d, s, ok)
        PROVE  Inv'
    BY <1>2, ReceivePreambleInv
  <1>3. ASSUME NEW p \in Peers, NEW n \in 2..MaxStreams,
               ReceiveTrainingField(p, n)
        PROVE  Inv'
    BY <1>3, TrainingFieldInv
  <1>4. ASSUME NEW p \in Peers, NEW ok \in BOOLEAN, ReceivePSDU(p, ok)
        PROVE  Inv'
    BY <1>4, ReceivePSDUInv
  <1>5. CASE OnTimeout
    BY <1>5, OnTimeoutInv
  <1>6. CASE Tick
    BY <1>6, TickInv
  <1>7. CASE UNCHANGED vars
    BY <1>7 DEF vars, sync, Inv, Types, StateAgreesWithTimer,
       StartsTerminated, DetectedOnAir, CoveredIfDistinct, DetectedCovered
  <1> QED
    BY <1>1, <1>2, <1>3, <1>4, <1>5, <1>6, <1>7 DEF Next

-----------------------------------------------------------------------------
(* The conjunction that is inductive.                                      *)
THEOREM Invariance == Spec => []Inv
  BY InitInv, NextInv, PTL DEF Spec

(* The assertions of processPreamble and doSendData: state and timer never *)
(* disagree, and the timer of a synchronized receiver measures the very    *)
(* transmission it decodes.                                                *)
THEOREM StateAndTimerAgree == Spec => []StateAgreesWithTimer
  <1>1. Inv => StateAgreesWithTimer
    BY DEF Inv
  <1> QED
    BY <1>1, Invariance, PTL

(* Every signalled start is ended, by an end or an error, before the next. *)
THEOREM EveryStartTerminated == Spec => []StartsTerminated
  <1>1. Inv => StartsTerminated
    BY DEF Inv
  <1> QED
    BY <1>1, Invariance, PTL

(* The receiver is not idle before the last detected transmission is over, *)
(* if ends that differ do so by the tolerance at least.                    *)
THEOREM NeverIdleTooEarly ==
    ASSUME Tolerance = 1 PROVE Spec => []DetectedCovered
  <1>1. Inv => DetectedCovered
    BY DEF Inv, CoveredIfDistinct
  <1> QED
    BY <1>1, Invariance, PTL

===============================================================================
