------------------------ MODULE ChannelAndMesh_proofs ------------------------
(***************************************************************************)
(* Proofs about ChannelState, about PathSelection and about MeshForwarding *)
(* over it, each for every value of its constants.                         *)
(*                                                                         *)
(* The channel state: ChannelInv is inductive as a whole.  The timer matches the  *)
(* NAV only for the types, a reservation is kept because the timer         *)
(* matches, and the busy time is exact because the observers are up to     *)
(* date.                                                                   *)
(*                                                                         *)
(* The path selection: PathsInv.  The tables are those of routes over links  *)
(* that a weight ranks: of two routes of the same cost the matrix keeps    *)
(* the one it found first, and the weight of an entry grows along it, so   *)
(* that the pair of cost and weight falls with each next hop even where a  *)
(* hop is for free.                                                        *)
(*                                                                         *)
(* The forwarding: MeshInv.  Its header says where a frame comes from and  *)
(* goes whatever the paths do (Shape), and while they stay it is on a way  *)
(* to its target that its TTL allows (Live), because the devices can be    *)
(* ranked such that each hop leads to a lower one.                         *)
(***************************************************************************)
EXTENDS ChannelState, MeshForwarding, FiniteSetTheorems, WellFoundedInduction, TLAPS

-----------------------------------------------------------------------------
(* The channel state                                                        *)

ChannelInv ==
    /\ TypeOK
    /\ NavTimerMatches
    /\ OwnNavRuns
    /\ ObserversUpToDate
    /\ BusyTimeExact
    /\ ReservationKept

(* The types of the flags, and all others.                                 *)
FlagsOK ==
    /\ ownTx \in BOOLEAN /\ ownRx \in BOOLEAN /\ phyCS \in BOOLEAN
    /\ waitForReply \in BOOLEAN /\ rtsNav \in BOOLEAN /\ aborted \in BOOLEAN

RestOK ==
    /\ latestNAV \in Int /\ latestNAV >= -1
    /\ navTimer \in Int /\ navTimer >= Off
    /\ lastCS \in {"idle", "busy"}
    /\ navSetter \in Peers \cup {NoPeer}
    /\ busyTime \in Nat /\ busyAge \in 0..Period
    /\ periodAge \in 0..Period /\ trueBusy \in 0..periodAge
    /\ psdu \in Int /\ psdu >= Off
    /\ overheard \in Nat

USE DurationsAssumption, SifsAssumption, PeriodAssumption

(* After CheckNewCS the observers are up to date and the busy time, exact  *)
(* before, is exact again: what a change ends is accounted for.            *)
LEMMA CheckNewCSKeepsBusyTime ==
    ASSUME TypeOK, BusyTimeExact, CheckNewCS, UNCHANGED clock
    PROVE  /\ lastCS' \in {"idle", "busy"} /\ busyTime' \in Nat
           /\ busyAge' \in 0..Period
           /\ ObserversUpToDate' /\ BusyTimeExact'
  <1>1. BusyInPeriod \in Nat
    BY DEF TypeOK, BusyInPeriod, Least
  <1>2. lastCS' = CurrentCS' /\ lastCS' \in {"idle", "busy"}
    BY DEF CheckNewCS, CurrentCS
  <1>3. ObserversUpToDate'
    BY <1>2 DEF ObserversUpToDate
  <1>4. busyTime' \in Nat /\ busyAge' \in 0..Period
    BY <1>1 DEF CheckNewCS, TypeOK
  <1>5. BusyTimeExact'
    BY <1>2 DEF CheckNewCS, TypeOK, BusyTimeExact, BusyInPeriod, Least, clock
  <1> QED
    BY <1>2, <1>3, <1>4, <1>5

(* When nothing that the channel state depends on changes, the observers   *)
(* stay up to date and the busy time exact.                                *)
LEMMA NothingNew ==
    ASSUME UNCHANGED <<indicators, csVars, clock>>,
           (navTimer = Off) <=> (navTimer' = Off),
           ObserversUpToDate, BusyTimeExact
    PROVE  ObserversUpToDate' /\ BusyTimeExact'
  BY DEF indicators, csVars, clock, ObserversUpToDate, BusyTimeExact,
         CurrentCS, Busy, BusyInPeriod, Least

(* TypeOK falls into the part that Zenon proves and the part that SMT does. *)
LEMMA TypesOK == TypeOK <=> FlagsOK /\ RestOK
  BY DEF TypeOK, FlagsOK, RestOK

(* The constructor's state satisfies the invariant.                        *)
LEMMA ChannelInitInv == ChannelInit => ChannelInv
  <1> SUFFICES ASSUME ChannelInit PROVE ChannelInv
    OBVIOUS
  <1>1. TypeOK
    <2>1. FlagsOK
      BY DEF ChannelInit, FlagsOK
    <2>2. RestOK
      BY DEF ChannelInit, RestOK, Off
    <2> QED
      BY <2>1, <2>2 DEF TypeOK, FlagsOK, RestOK
  <1>2. NavTimerMatches /\ OwnNavRuns /\ ReservationKept
    BY DEF ChannelInit, NavTimerMatches, OwnNavRuns, ReservationKept, Off
  <1>3. ObserversUpToDate
    BY DEF ChannelInit, ObserversUpToDate, CurrentCS, Busy
  <1>4. BusyTimeExact
    BY DEF ChannelInit, BusyTimeExact
  <1> QED
    BY <1>1, <1>2, <1>3, <1>4 DEF ChannelInv

-----------------------------------------------------------------------------
(* The invariants of the NAV alone.                                        *)
NavInv == NavTimerMatches /\ OwnNavRuns /\ ReservationKept

(* What leaves the NAV and the reservations alone keeps their invariants.  *)
LEMMA NavUntouched ==
    ASSUME NavInv, UNCHANGED <<navVars, overheard, aborted>>
    PROVE  NavInv'
  BY DEF NavInv, NavTimerMatches, OwnNavRuns, ReservationKept, navVars

(* A NAV that is set only to extend it keeps every reservation.            *)
LEMMA ExtensionKeepsNav ==
    ASSUME TypeOK, NavInv, NEW d \in Nat, Extends(d), SetNAV(d),
           UNCHANGED aborted,
           waitForReply' \in BOOLEAN,
           overheard' = overheard \/ overheard' = Greatest(overheard, d)
    PROVE  NavInv'
  BY DEF NavInv, NavTimerMatches, OwnNavRuns, ReservationKept, Extends,
         SetNAV, Greatest, TypeOK, Off

(* The start of an own transmission (onTxStart, processOutgoing).          *)
LEMMA OwnTxStartInv == ChannelInv /\ OwnTxStart => ChannelInv'
  <1> SUFFICES ASSUME ChannelInv, OwnTxStart PROVE ChannelInv'
    OBVIOUS
  <1> USE DEF ChannelInv
  <1>1. NavInv'
    BY NavUntouched DEF NavInv, OwnTxStart
  <1>2. lastCS' \in {"idle", "busy"} /\ busyTime' \in Nat /\ busyAge' \in 0..Period
        /\ ObserversUpToDate' /\ BusyTimeExact'
    BY CheckNewCSKeepsBusyTime DEF OwnTxStart
  <1>3. TypeOK'
    <2>1. FlagsOK'
      BY <1>2, TypesOK DEF FlagsOK, OwnTxStart, navVars, rtsVars, clock
    <2>2. RestOK'
      BY <1>2, TypesOK DEF RestOK, OwnTxStart, navVars, rtsVars, clock, Off
    <2> QED
      BY <2>1, <2>2 DEF TypeOK, FlagsOK, RestOK
  <1> QED
    BY <1>1, <1>2, <1>3 DEF NavInv

(* The end of an own transmission: the NAV for the reply only extends.     *)
LEMMA OnTxEndInv ==
    ASSUME ChannelInv, NEW exchange \in Durations, NEW reply \in Durations,
           OnTxEnd(exchange, reply)
    PROVE  ChannelInv'
  <1> USE DEF ChannelInv
  <1>1. NavInv'
    <2>1. CASE (exchange > Sifs \/ reply > 0) /\ Extends(reply)
      BY <2>1, ExtensionKeepsNav DEF OnTxEnd, NavInv, medium
    <2>2. CASE ~((exchange > Sifs \/ reply > 0) /\ Extends(reply))
      BY <2>2, NavUntouched DEF OnTxEnd, NavInv, medium
    <2> QED
      BY <2>1, <2>2
  <1>2. lastCS' \in {"idle", "busy"} /\ busyTime' \in Nat /\ busyAge' \in 0..Period
        /\ ObserversUpToDate' /\ BusyTimeExact'
    BY CheckNewCSKeepsBusyTime DEF OnTxEnd
  <1>3. TypeOK'
    <2>1. FlagsOK'
      BY <1>2, TypesOK DEF FlagsOK, OnTxEnd, SetNAV, navVars, rtsVars, clock,
              medium
    <2>2. RestOK'
      BY <1>2, TypesOK DEF RestOK, OnTxEnd, SetNAV, navVars, rtsVars, clock,
              medium, Off
    <2> QED
      BY <2>1, <2>2 DEF TypeOK, FlagsOK, RestOK
  <1> QED
    BY <1>1, <1>2, <1>3 DEF NavInv

(* The two handlers that only change an indicator.                         *)
LEMMA IndicatorInv ==
    ASSUME ChannelInv, OnRxEnd \/ \E above \in BOOLEAN : OnRSSChange(above)
    PROVE  ChannelInv'
  <1> USE DEF ChannelInv
  <1>0. /\ UNCHANGED <<ownTx, navVars, rtsVars, clock, medium>>
        /\ ownRx' \in BOOLEAN /\ phyCS' \in BOOLEAN
        /\ CheckNewCS
    BY DEF OnRxEnd, OnRSSChange, TypeOK
  <1>1. NavInv'
    BY <1>0, NavUntouched DEF NavInv, medium
  <1>2. lastCS' \in {"idle", "busy"} /\ busyTime' \in Nat /\ busyAge' \in 0..Period
        /\ ObserversUpToDate' /\ BusyTimeExact'
    BY <1>0, CheckNewCSKeepsBusyTime
  <1>3. TypeOK'
    <2>1. FlagsOK'
      BY <1>0, <1>2, TypesOK DEF FlagsOK, navVars, rtsVars, clock, medium
    <2>2. RestOK'
      BY <1>0, <1>2, TypesOK DEF RestOK, navVars, rtsVars, clock, medium, Off
    <2> QED
      BY <2>1, <2>2 DEF TypeOK, FlagsOK, RestOK
  <1> QED
    BY <1>1, <1>2, <1>3 DEF NavInv

(* A received preamble (processIncoming): the NAV only extends.            *)
LEMMA ReceivePreambleInv ==
    ASSUME ChannelInv, NEW d \in Durations, ReceivePreamble(d)
    PROVE  ChannelInv'
  <1> USE DEF ChannelInv
  <1>1. NavInv'
    <2>1. CASE Extends(d)
      BY <2>1, ExtensionKeepsNav DEF ReceivePreamble, NavInv, TypeOK
    <2>2. CASE ~Extends(d)
      BY <2>2, NavUntouched DEF ReceivePreamble, NavInv, navVars
    <2> QED
      BY <2>1, <2>2
  <1>2. lastCS' \in {"idle", "busy"} /\ busyTime' \in Nat /\ busyAge' \in 0..Period
        /\ ObserversUpToDate' /\ BusyTimeExact'
    BY CheckNewCSKeepsBusyTime DEF ReceivePreamble
  <1>3. TypeOK'
    <2>1. FlagsOK'
      BY <1>2, TypesOK DEF FlagsOK, ReceivePreamble, SetNAV, rtsVars, clock
    <2>2. RestOK'
      BY <1>2, TypesOK DEF RestOK, ReceivePreamble, SetNAV, rtsVars, clock,
              Off
    <2> QED
      BY <2>1, <2>2 DEF TypeOK, FlagsOK, RestOK
  <1> QED
    BY <1>1, <1>2, <1>3 DEF NavInv

(* The abort ends the NAV and remembers which reservations that cost.      *)
LEMMA ReceiveForMeInv == ChannelInv /\ ReceiveForMe => ChannelInv'
  <1> SUFFICES ASSUME ChannelInv, ReceiveForMe PROVE ChannelInv'
    OBVIOUS
  <1> USE DEF ChannelInv
  <1>1. CASE waitForReply
    <2>0. /\ latestNAV' = 0 /\ navTimer' = Off /\ waitForReply' = FALSE
          /\ overheard' = overheard
          /\ aborted' = (aborted \/ overheard > 0)
      BY <1>1 DEF ReceiveForMe, AbortNAV
    <2>1. NavInv'
      <3>1. NavTimerMatches'
        BY <2>0 DEF NavTimerMatches
      <3>2. OwnNavRuns'
        BY <2>0 DEF OwnNavRuns
      <3>3. ReservationKept'
        <4>1. overheard' > 0 => aborted'
          BY <2>0
        <4> QED
          BY <4>1 DEF ReservationKept
      <3> QED
        BY <3>1, <3>2, <3>3 DEF NavInv
    <2>2. lastCS' \in {"idle", "busy"} /\ busyTime' \in Nat /\ busyAge' \in 0..Period
          /\ ObserversUpToDate' /\ BusyTimeExact'
      BY <1>1, CheckNewCSKeepsBusyTime DEF ReceiveForMe, AbortNAV
    <2>3. TypeOK'
      <3>1. FlagsOK'
        BY <1>1, <2>2, TypesOK DEF FlagsOK, ReceiveForMe, AbortNAV,
                indicators, rtsVars, clock
      <3>2. RestOK'
        BY <1>1, <2>2, TypesOK DEF RestOK, ReceiveForMe, AbortNAV, indicators,
                rtsVars, clock, Off
      <3> QED
        BY <3>1, <3>2 DEF TypeOK, FlagsOK, RestOK
    <2> QED
      BY <2>1, <2>2, <2>3 DEF NavInv
  <1>2. CASE ~waitForReply
    <2>0. UNCHANGED <<navVars, csVars, aborted, indicators, rtsVars, clock,
                      overheard>> /\ psdu' = Off
      BY <1>2 DEF ReceiveForMe, AbortNAV
    <2>1. NavInv'
      BY <2>0, NavUntouched DEF NavInv
    <2>2. ObserversUpToDate' /\ BusyTimeExact'
      BY <2>0, NothingNew DEF navVars
    <2>3. TypeOK'
      <3>1. FlagsOK'
        BY <2>0, TypesOK DEF FlagsOK, navVars, csVars, indicators, rtsVars,
                clock
      <3>2. RestOK'
        BY <2>0, TypesOK DEF RestOK, navVars, csVars, indicators, rtsVars,
                clock, Off
      <3> QED
        BY <3>1, <3>2 DEF TypeOK, FlagsOK, RestOK
    <2> QED
      BY <2>1, <2>2, <2>3 DEF NavInv
  <1> QED
    BY <1>1, <1>2

(* A frame for another station: the NAV is extended, or covers it already. *)
LEMMA ReceiveForOtherInv ==
    ASSUME ChannelInv, NEW from \in Peers, NEW d \in Durations,
           NEW isRTS \in BOOLEAN, ReceiveForOther(from, d, isRTS)
    PROVE  ChannelInv'
  <1> USE DEF ChannelInv
  <1>0. /\ psdu' = Off /\ overheard' = Greatest(overheard, d)
        /\ overheard' \in Nat
        /\ UNCHANGED <<waitForReply, indicators, clock, aborted>>
    BY DEF ReceiveForOther, TypeOK, Greatest
  <1>1. CASE Extends(d)
    <2>0. SetNAV(d) /\ rtsNav' = TRUE /\ navSetter' = from /\ CheckNewCS
      BY <1>1 DEF ReceiveForOther
    <2>1. NavInv'
      BY <1>0, <1>1, <2>0, ExtensionKeepsNav DEF NavInv, TypeOK
    <2>2. lastCS' \in {"idle", "busy"} /\ busyTime' \in Nat /\ busyAge' \in 0..Period
          /\ ObserversUpToDate' /\ BusyTimeExact'
      BY <1>0, <2>0, CheckNewCSKeepsBusyTime
    <2>3. TypeOK'
      <3>1. FlagsOK'
        BY <1>0, <2>0, <2>2, TypesOK DEF FlagsOK, SetNAV, indicators, clock
      <3>2. RestOK'
        BY <1>0, <2>0, <2>2, TypesOK DEF RestOK, SetNAV, indicators, clock,
                Off
      <3> QED
        BY <3>1, <3>2 DEF TypeOK, FlagsOK, RestOK
    <2> QED
      BY <2>1, <2>2, <2>3 DEF NavInv
  <1>2. CASE ~Extends(d)
    <2>0. UNCHANGED <<latestNAV, navTimer, rtsVars, csVars>>
      BY <1>2 DEF ReceiveForOther
    <2>1. NavInv'
      BY <1>0, <1>2, <2>0 DEF NavInv, NavTimerMatches, OwnNavRuns,
         ReservationKept, Extends, Greatest, TypeOK, Off
    <2>2. ObserversUpToDate' /\ BusyTimeExact'
      BY <1>0, <2>0, NothingNew
    <2>3. TypeOK'
      <3>1. FlagsOK'
        BY <1>0, <2>0, TypesOK DEF FlagsOK, csVars, indicators, rtsVars, clock
      <3>2. RestOK'
        BY <1>0, <2>0, TypesOK DEF RestOK, csVars, indicators, rtsVars, clock,
                Off
      <3> QED
        BY <3>1, <3>2 DEF TypeOK, FlagsOK, RestOK
    <2> QED
      BY <2>1, <2>2, <2>3 DEF NavInv
  <1> QED
    BY <1>1, <1>2

(* The timer is due exactly when no reservation has time left.            *)
LEMMA OnTimeoutInv == ChannelInv /\ OnTimeout => ChannelInv'
  <1> SUFFICES ASSUME ChannelInv, OnTimeout PROVE ChannelInv'
    OBVIOUS
  <1> USE DEF ChannelInv
  <1>1. NavInv'
    BY DEF OnTimeout, NavInv, NavTimerMatches, OwnNavRuns, ReservationKept,
           TypeOK, medium, Off
  <1>2. lastCS' \in {"idle", "busy"} /\ busyTime' \in Nat /\ busyAge' \in 0..Period
        /\ ObserversUpToDate' /\ BusyTimeExact'
    BY CheckNewCSKeepsBusyTime DEF OnTimeout
  <1>3. TypeOK'
    <2>1. FlagsOK'
      BY <1>2, TypesOK DEF FlagsOK, OnTimeout, clock, medium
    <2>2. RestOK'
      BY <1>2, TypesOK DEF RestOK, OnTimeout, clock, medium, Off
    <2> QED
      BY <2>1, <2>2 DEF TypeOK, FlagsOK, RestOK
  <1> QED
    BY <1>1, <1>2, <1>3 DEF NavInv

(* Closing a period restarts the busy time and its history together.      *)
LEMMA PeriodicallyInv == ChannelInv /\ Periodically => ChannelInv'
  <1> SUFFICES ASSUME ChannelInv, Periodically PROVE ChannelInv'
    OBVIOUS
  <1> USE DEF ChannelInv
  <1>1. NavInv'
    BY NavUntouched DEF Periodically, NavInv, medium
  <1>2. ObserversUpToDate'
    BY DEF Periodically, ObserversUpToDate, CurrentCS, Busy, indicators, navVars
  <1>3. TypeOK'
    <2>1. FlagsOK'
      BY TypesOK DEF FlagsOK, Periodically, indicators, navVars, rtsVars,
              medium
    <2>2. RestOK'
      BY TypesOK DEF RestOK, Periodically, indicators, navVars, rtsVars,
              medium, Off
    <2> QED
      BY <2>1, <2>2 DEF TypeOK, FlagsOK, RestOK
  <1>4. BusyTimeExact'
    BY DEF Periodically, BusyTimeExact, ObserversUpToDate, CurrentCS,
           BusyInPeriod, Least, TypeOK
  <1> QED
    BY <1>1, <1>2, <1>3, <1>4 DEF NavInv

(* Time passes in the NAV, its timer and the reservations alike.           *)
LEMMA TickInv == ChannelInv /\ Tick => ChannelInv'
  <1> SUFFICES ASSUME ChannelInv, Tick PROVE ChannelInv'
    OBVIOUS
  <1> USE DEF ChannelInv
  <1>1. NavInv'
    BY DEF Tick, NavInv, NavTimerMatches, OwnNavRuns, ReservationKept, TypeOK,
           Greatest, Off
  <1>2. ObserversUpToDate'
    BY DEF Tick, ObserversUpToDate, CurrentCS, Busy, indicators, TypeOK, Off
  <1>3. TypeOK'
    <2>1. FlagsOK'
      BY TypesOK DEF FlagsOK, Tick, Greatest, Least, indicators, rtsVars
    <2>2. RestOK'
      <3>1. RestOK
        BY TypesOK
      <3>2. latestNAV' \in Int /\ latestNAV' >= -1
            /\ navTimer' \in Int /\ navTimer' >= Off
            /\ psdu' \in Int /\ psdu' >= Off /\ overheard' \in Nat
        BY <3>1 DEF RestOK, Tick, Greatest, Off
      <3>3. busyAge' \in 0..Period /\ periodAge' \in 0..Period
            /\ trueBusy' \in 0..periodAge'
        BY <3>1 DEF RestOK, Tick, Least
      <3> QED
        BY <3>1, <3>2, <3>3 DEF RestOK, Tick, rtsVars
    <2> QED
      BY <2>1, <2>2 DEF TypeOK, FlagsOK, RestOK
  <1>4. BusyTimeExact'
    BY DEF Tick, BusyTimeExact, BusyInPeriod, Least, TypeOK
  <1> QED
    BY <1>1, <1>2, <1>3, <1>4 DEF NavInv

(* A stuttering step changes nothing that the invariant is about.          *)
LEMMA ChannelStutterInv == ChannelInv /\ UNCHANGED channelVars => ChannelInv'
  BY DEF ChannelInv, TypeOK, NavTimerMatches, OwnNavRuns, ReservationKept,
         ObserversUpToDate, CurrentCS, Busy, BusyTimeExact, BusyInPeriod,
         Least, channelVars, indicators, navVars, rtsVars, csVars, clock, medium

-----------------------------------------------------------------------------
(* Every reachable state satisfies the invariant: what each handler of     *)
(* ChannelState.cpp does, in any order, with any frames.                   *)
THEOREM ChannelInvariance == ChannelSpec => []ChannelInv
  <1>1. ChannelInv /\ [ChannelNext]_channelVars => ChannelInv'
    <2> SUFFICES ASSUME ChannelInv, [ChannelNext]_channelVars PROVE ChannelInv'
      OBVIOUS
    <2>1. CASE SendPreamble \/ OnTxStart
      BY <2>1, OwnTxStartInv DEF SendPreamble, OnTxStart
    <2>2. CASE \E exchange, reply \in Durations : OnTxEnd(exchange, reply)
      BY <2>2, OnTxEndInv
    <2>3. CASE OnRxEnd \/ \E above \in BOOLEAN : OnRSSChange(above)
      BY <2>3, IndicatorInv
    <2>4. CASE \E d \in Durations : ReceivePreamble(d)
      BY <2>4, ReceivePreambleInv
    <2>5. CASE ReceiveForMe
      BY <2>5, ReceiveForMeInv
    <2>6. CASE \E from \in Peers, d \in Durations, isRTS \in BOOLEAN :
                   ReceiveForOther(from, d, isRTS)
      BY <2>6, ReceiveForOtherInv
    <2>7. CASE OnTimeout
      BY <2>7, OnTimeoutInv
    <2>8. CASE Periodically
      BY <2>8, PeriodicallyInv
    <2>9. CASE Tick
      BY <2>9, TickInv
    <2>10. CASE UNCHANGED channelVars
      BY <2>10, ChannelStutterInv
    <2> QED
      BY <2>1, <2>2, <2>3, <2>4, <2>5, <2>6, <2>7, <2>8, <2>9, <2>10 DEF ChannelNext
  <1> QED
    BY <1>1, ChannelInitInv, PTL DEF ChannelSpec

(* The variables always hold values of the types the code declares.        *)
THEOREM ChannelTypeCorrect == ChannelSpec => []TypeOK
  <1>1. ChannelInv => TypeOK
    BY DEF ChannelInv
  <1> QED
    BY <1>1, ChannelInvariance, PTL

(* onTimeout's assertion and setNewTimeout's meaning: the timer and the    *)
(* end of the NAV never disagree.                                          *)
THEOREM TimerMatches == ChannelSpec => []NavTimerMatches
  <1>1. ChannelInv => NavTimerMatches
    BY DEF ChannelInv
  <1> QED
    BY <1>1, ChannelInvariance, PTL

(* abortNAV cancels a timer that is set.                                   *)
THEOREM AbortFindsTimer == ChannelSpec => []OwnNavRuns
  <1>1. ChannelInv => OwnNavRuns
    BY DEF ChannelInv
  <1> QED
    BY <1>1, ChannelInvariance, PTL

(* checkNewCS is called by every handler that needs it.                    *)
THEOREM NoMissedNotification == ChannelSpec => []ObserversUpToDate
  <1>1. ChannelInv => ObserversUpToDate
    BY DEF ChannelInv
  <1> QED
    BY <1>1, ChannelInvariance, PTL

(* The accounting of checkNewCS and periodically reports the true time.    *)
THEOREM BusyFractionCorrect == ChannelSpec => []BusyTimeExact
  <1>1. ChannelInv => BusyTimeExact
    BY DEF ChannelInv
  <1> QED
    BY <1>1, ChannelInvariance, PTL

(* An overheard exchange is covered by the NAV until it is over or a reply *)
(* to an own frame aborts the NAV.                                         *)
THEOREM OverheardIsReserved == ChannelSpec => []ReservationKept
  <1>1. ChannelInv => ReservationKept
    BY DEF ChannelInv
  <1> QED
    BY <1>1, ChannelInvariance, PTL

-----------------------------------------------------------------------------
(* Induction over natural numbers, from the fact that every set of them     *)
(* has a least element, and recursive functions on an interval.             *)

(* Every nonempty set of natural numbers has a least element.               *)
LEMMA LeastNumber ==
    ASSUME NEW T \in SUBSET Nat, T # {}
    PROVE  \E n \in T : \A m \in T : n <= m
  <1> DEFINE R == {p \in Nat \X Nat : p[1] < p[2]}
  <1>1. IsWellFoundedOn(R, Nat)
    BY NatLessThanWellFounded DEF OpToRel
  <1> HIDE DEF R
  <1>2. PICK n \in T : \A m \in T : ~(<<m, n>> \in R)
    BY <1>1, WFMin
  <1>3. \A m \in T : ~(m < n)
    BY <1>2 DEF R
  <1> QED
    BY <1>3

(* A set of numbers that has 0, and every n up to N whose predecessor it    *)
(* has, has all numbers up to N.                                            *)
LEMMA Induction ==
    ASSUME NEW N \in Nat, NEW T, 0 \in T,
           \A n \in 1..N : n - 1 \in T => n \in T
    PROVE  0..N \subseteq T
  <1> SUFFICES ASSUME (0..N) \ T # {} PROVE FALSE
    OBVIOUS
  <1>1. PICK n \in (0..N) \ T : \A m \in (0..N) \ T : n <= m
    <2>1. (0..N) \ T \in SUBSET Nat
      OBVIOUS
    <2> QED
      BY <2>1, LeastNumber
  <1>2. n \in 1..N
    BY <1>1
  <1>3. n - 1 \in T
    BY <1>1, <1>2
  <1> QED
    BY <1>1, <1>2, <1>3

(* From a first value and a step there is a sequence of values.             *)
Steps(N, V, b, g) == N \in Nat /\ b \in V /\ g \in [(1..N) \X V -> V]

Run(f, N, V, b, g) ==
    /\ f \in [0..N -> V]
    /\ f[0] = b
    /\ \A n \in 1..N : f[n] = g[<<n, f[n - 1]>>]

LEMMA Recursion ==
    ASSUME NEW N, NEW V, NEW b, NEW g, Steps(N, V, b, g)
    PROVE  \E f : Run(f, N, V, b, g)
  <1> USE DEF Steps
  <1> DEFINE Good(k, f) == /\ f \in [0..k -> V]
                           /\ f[0] = b
                           /\ \A n \in 1..k : f[n] = g[<<n, f[n - 1]>>]
             T == {k \in 0..N : \E f : Good(k, f)}
  <1>1. 0 \in T
    <2> DEFINE f == [n \in 0..0 |-> b]
    <2>1. f \in [0..0 -> V] /\ f[0] = b
      OBVIOUS
    <2> HIDE DEF f
    <2>2. Good(0, f)
      BY <2>1
    <2> QED
      BY <2>2
  <1>2. ASSUME NEW k \in 1..N, k - 1 \in T PROVE k \in T
    <2>1. PICK f : Good(k - 1, f)
      BY <1>2
    <2> DEFINE h == [n \in 0..k |-> IF n = k THEN g[<<k, f[k - 1]>>] ELSE f[n]]
    <2>2. k - 1 \in 0..(k - 1) /\ f[k - 1] \in V /\ g[<<k, f[k - 1]>>] \in V
      BY <2>1
    <2>3. h \in [0..k -> V]
      <3> SUFFICES ASSUME NEW n \in 0..k PROVE h[n] \in V
        OBVIOUS
      <3>1. CASE n = k
        BY <2>2, <3>1
      <3>2. CASE n # k
        BY <2>1, <3>2
      <3> QED
        BY <3>1, <3>2
    <2>4. h[0] = b
      BY <2>1
    <2>5. ASSUME NEW n \in 1..k PROVE h[n] = g[<<n, h[n - 1]>>]
      <3>1. CASE n = k
        <4>1. h[n] = g[<<k, f[k - 1]>>] /\ h[n - 1] = f[k - 1]
          BY <3>1
        <4> HIDE DEF h
        <4> QED
          BY <3>1, <4>1
      <3>2. CASE n # k
        <4>1. n \in 1..(k - 1) /\ h[n] = f[n] /\ h[n - 1] = f[n - 1]
          BY <3>2
        <4> HIDE DEF h
        <4> QED
          BY <2>1, <4>1
      <3> QED
        BY <3>1, <3>2
    <2> HIDE DEF h
    <2>6. Good(k, h)
      BY <2>3, <2>4, <2>5
    <2> QED
      BY <2>6
  <1> HIDE DEF T
  <1>3. N \in T
    BY <1>1, <1>2, Induction
  <1> QED
    BY <1>3 DEF T, Run

(* After as many steps as a set has elements one of them has come twice.    *)
LEMMA Repeats ==
    ASSUME NEW S, IsFiniteSet(S), NEW f \in [0..Cardinality(S) -> S]
    PROVE  \E a, b \in 0..Cardinality(S) : a # b /\ f[a] = f[b]
  <1> DEFINE D == 0..Cardinality(S)
  <1>1. Cardinality(S) \in Nat
    BY FS_CardinalityType
  <1>2. IsFiniteSet(D) /\ Cardinality(S) < Cardinality(D)
    BY <1>1, FS_Interval
  <1>3. f \in [D -> S] /\ IsFiniteSet(S)
    OBVIOUS
  <1> HIDE DEF D
  <1>4. \E a, b \in D : a # b /\ f[a] = f[b]
    <2>1. ASSUME NEW T, IsFiniteSet(T), Cardinality(S) < Cardinality(T), NEW g \in [T -> S]
          PROVE  \E a, b \in T : a # b /\ g[a] = g[b]
      BY <2>1, FS_PigeonHole
    <2> QED
      BY <1>2, <1>3, <2>1
  <1> QED
    BY <1>4 DEF D

(* A sequence in a finite set T of N elements that at every step stays in   *)
(* Stop, or goes to an element with a lower cost, or the same cost and a    *)
(* lower weight, is in Stop after N steps.                                  *)
LEMMA Settles ==
    ASSUME NEW S, IsFiniteSet(S), NEW Stop,
           NEW f \in [0..Cardinality(S) -> S],
           NEW c \in [S -> Nat], NEW w \in [S -> Nat],
           \A n \in 1..Cardinality(S) :
              IF f[n - 1] \in Stop THEN f[n] = f[n - 1]
              ELSE \/ c[f[n]] < c[f[n - 1]]
                   \/ c[f[n]] = c[f[n - 1]] /\ w[f[n]] < w[f[n - 1]]
    PROVE  f[Cardinality(S)] \in Stop
  <1> DEFINE N == Cardinality(S)
  <1>1. N \in Nat
    BY FS_CardinalityType
  <1> HIDE DEF N
  <1> SUFFICES ASSUME f[N] \notin Stop PROVE FALSE
    BY DEF N
  <1>2. \A n \in 0..N : f[n] \notin Stop
    <2> DEFINE T == {n \in 0..N : f[N - n] \notin Stop}
    <2>1. 0 \in T
      BY <1>1
    <2>2. ASSUME NEW n \in 1..N, n - 1 \in T PROVE n \in T
      <3>1. N - n + 1 \in 1..N /\ (N - n + 1) - 1 = N - n /\ N - (n - 1) = N - n + 1
        BY <1>1
      <3>2. f[N - n + 1] \notin Stop
        BY <2>2, <3>1
      <3> QED
        <4>1. N - n \in 0..N /\ N - n + 1 \in 0..N
          BY <1>1
        <4>2. f[N - n] \in Stop => f[N - n + 1] = f[N - n]
          BY <3>1 DEF N
        <4> QED
          BY <3>2, <4>2
    <2> HIDE DEF T
    <2>3. 0..N \subseteq T
      BY <1>1, <2>1, <2>2, Induction
    <2> QED
      <3> SUFFICES ASSUME NEW n \in 0..N PROVE f[n] \notin Stop
        OBVIOUS
      <3>1. N - n \in 0..N /\ N - (N - n) = n
        BY <1>1
      <3> QED
        BY <2>3, <3>1 DEF T
  <1> DEFINE Lower(a, b) == \/ c[f[a]] < c[f[b]]
                            \/ c[f[a]] = c[f[b]] /\ w[f[a]] < w[f[b]]
  <1>3. \A n \in 0..N : c[f[n]] \in Nat /\ w[f[n]] \in Nat
    BY DEF N
  <1>4. \A n \in 1..N : Lower(n, n - 1)
    BY <1>2, <1>1 DEF N
  <1> HIDE DEF Lower
  <1>5. \A n \in 0..N : \A a \in 0..(n - 1) : Lower(n, a)
    <2> DEFINE T == {n \in 0..N : \A a \in 0..(n - 1) : Lower(n, a)}
    <2>1. 0 \in T
      BY <1>1
    <2>2. ASSUME NEW n \in 1..N, n - 1 \in T PROVE n \in T
      <3> SUFFICES ASSUME NEW a \in 0..(n - 1) PROVE Lower(n, a)
        OBVIOUS
      <3>1. CASE a = n - 1
        BY <1>4, <3>1
      <3>2. CASE a # n - 1
        <4>1. a \in 0..((n - 1) - 1) /\ a \in 0..N /\ n - 1 \in 0..N /\ n \in 0..N
          BY <1>1, <3>2
        <4>2. Lower(n - 1, a)
          BY <2>2, <4>1
        <4>3. Lower(n, n - 1)
          BY <1>4
        <4>4. /\ c[f[a]] \in Nat /\ c[f[n - 1]] \in Nat /\ c[f[n]] \in Nat
              /\ w[f[a]] \in Nat /\ w[f[n - 1]] \in Nat /\ w[f[n]] \in Nat
          BY <1>3, <4>1
        <4> QED
          BY <4>2, <4>3, <4>4 DEF Lower
      <3> QED
        BY <3>1, <3>2
    <2> HIDE DEF T
    <2>3. 0..N \subseteq T
      BY <1>1, <2>1, <2>2, Induction
    <2> QED
      BY <2>3 DEF T
  <1>6. PICK a \in 0..N, b \in 0..N : a # b /\ f[a] = f[b]
    BY Repeats DEF N
  <1>7. ~Lower(a, b) /\ ~Lower(b, a)
    BY <1>3, <1>6 DEF Lower
  <1>8. a \in 0..(b - 1) \/ b \in 0..(a - 1)
    BY <1>6
  <1> QED
    BY <1>5, <1>7, <1>8

-----------------------------------------------------------------------------
(* The rounds of the computation                                            *)

(* The links of the registered stations R, as path selection keeps them.    *)
LinksOK(lc, R) ==
    /\ lc \in [Pairs -> 0..Inf]
    /\ R \subseteq Stations
    /\ \A i \in R : lc[<<i, i>>] = 0
    /\ \A i, j \in Stations : lc[<<i, j>>] # Inf => i \in R /\ j \in R

(* The tables of costs and of predecessors.                                 *)
AllTables == [cost : [Pairs -> 0..Inf], pred : [Pairs -> Stations \cup {None}]]

TablesOK(all) == all \in AllTables

(* The path of cost a and weight v is not behind the one of b and w.        *)
NoWorse(a, v, b, w) == a < b \/ (a = b /\ v <= w)

Weights(W, v, B) ==
    /\ W \in [Pairs -> Nat] /\ v \in [Stations -> Nat \ {0}] /\ B \in Nat \ {0}
    /\ \A e \in Pairs : W[e] < B

AtMostDirect(lc, c, W) ==
    \A i, j \in Stations :
      NoWorse(c[<<i, j>>], W[<<i, j>>], DirectCosts(lc)[<<i, j>>], 0)

(* No path is better over a station of K.                                   *)
Triangle(K, c, W, v) ==
    \A i, j \in Stations, k \in K :
      i # j /\ k # i /\ k # j =>
        NoWorse(c[<<i, j>>], W[<<i, j>>], c[<<i, k>>] + c[<<k, j>>],
                W[<<i, k>>] + v[k] + W[<<k, j>>])

(* The last link of the path from i to j comes from h.                      *)
LastFrom(lc, K, c, W, v, i, j, h) ==
    /\ h \in Stations /\ h # j /\ DirectCosts(lc)[<<h, j>>] # Inf
    /\ \/ /\ h = i /\ c[<<i, j>>] = DirectCosts(lc)[<<i, j>>]
          /\ W[<<i, j>>] = 0
       \/ /\ h # i /\ h \in K /\ c[<<i, h>>] # Inf
          /\ c[<<i, j>>] = c[<<i, h>>] + DirectCosts(lc)[<<h, j>>]
          /\ W[<<i, j>>] = W[<<i, h>>] + v[h]

LastLinks(lc, K, c, p, W, v) ==
    \A i, j \in Stations :
      i # j /\ c[<<i, j>>] # Inf => LastFrom(lc, K, c, W, v, i, j, p[<<i, j>>])

Ends(R, c) ==
    /\ \A i \in R : c[<<i, i>>] = 0
    /\ \A i, j \in Stations : c[<<i, j>>] # Inf => i \in R /\ j \in R

(* The tables after the rounds of the stations K: the weight of a path tells *)
(* which of two paths of the same cost has been found first.                 *)
Weighted(lc, R, K, all, W, v, B) ==
    /\ Weights(W, v, B)
    /\ AtMostDirect(lc, all.cost, W)
    /\ Triangle(K, all.cost, W, v)
    /\ LastLinks(lc, K, all.cost, all.pred, W, v)
    /\ Ends(R, all.cost)

AfterRounds(lc, R, K, all) ==
    TablesOK(all) /\ \E W, v, B : Weighted(lc, R, K, all, W, v, B)

LEMMA Once == ASSUME NEW x PROVE Evaluated(x) = x
  BY DEF Evaluated

LEMMA DirectEntries ==
    ASSUME NEW lc, NEW R, LinksOK(lc, R)
    PROVE  /\ DirectCosts(lc) \in [Pairs -> 0..Inf]
           /\ \A i, j \in Stations :
                DirectCosts(lc)[<<i, j>>]
                  = IF lc[<<j, i>>] = Inf THEN Inf ELSE lc[<<i, j>>]
           /\ DirectPredecessors(lc) \in [Pairs -> Stations \cup {None}]
           /\ \A i, j \in Stations :
                DirectPredecessors(lc)[<<i, j>>]
                  = IF i # j /\ lc[<<i, j>>] # Inf THEN i ELSE None
  <1>0. Inf \in Nat \ {0} /\ lc \in [Pairs -> 0..Inf]
    BY CostsAssumption DEF LinksOK
  <1>1. ASSUME NEW e \in Pairs
        PROVE  <<e[2], e[1]>> \in Pairs /\ e[1] \in Stations
    BY DEF Pairs
  <1>2. ASSUME NEW i \in Stations, NEW j \in Stations
        PROVE  <<i, j>> \in Pairs /\ <<i, j>>[1] = i /\ <<i, j>>[2] = j
    BY DEF Pairs
  <1>3. DirectCosts(lc) \in [Pairs -> 0..Inf]
    BY <1>0, <1>1 DEF DirectCosts
  <1>4. DirectPredecessors(lc) \in [Pairs -> Stations \cup {None}]
    BY <1>1 DEF DirectPredecessors
  <1>5. \A i, j \in Stations :
          DirectCosts(lc)[<<i, j>>] = IF lc[<<j, i>>] = Inf THEN Inf ELSE lc[<<i, j>>]
    BY <1>2 DEF DirectCosts
  <1>6. \A i, j \in Stations :
          DirectPredecessors(lc)[<<i, j>>]
            = IF i # j /\ lc[<<i, j>>] # Inf THEN i ELSE None
    BY <1>2 DEF DirectPredecessors
  <1> QED
    BY <1>3, <1>4, <1>5, <1>6

(* What a round does to the entry of every pair.                            *)
LEMMA RoundEntries ==
    ASSUME NEW all, TablesOK(all), NEW m \in Stations
    PROVE  LET c == all.cost
               d == Round(all, m).cost
               p == all.pred
               q == Round(all, m).pred
               Cheaper(i, j) == c[<<i, m>>] + c[<<m, j>>] < c[<<i, j>>]
           IN  /\ TablesOK(Round(all, m))
               /\ \A i, j \in Stations :
                    /\ c[<<i, j>>] \in Nat /\ c[<<i, j>>] <= Inf
                    /\ d[<<i, j>>] = IF Cheaper(i, j)
                                     THEN c[<<i, m>>] + c[<<m, j>>]
                                     ELSE c[<<i, j>>]
                    /\ q[<<i, j>>] = IF Cheaper(i, j)
                                     THEN p[<<m, j>>] ELSE p[<<i, j>>]
               /\ (\A i, j \in Stations : ~Cheaper(i, j)) => Round(all, m) = all
  <1> DEFINE c == all.cost
             p == all.pred
             Cheaper(i, j) == c[<<i, m>>] + c[<<m, j>>] < c[<<i, j>>]
             shorter == {e \in Pairs : Shortcut(c, m, e[1], e[2])}
             next == [cost |-> [e \in Pairs |->
                                  IF e \in shorter
                                  THEN all.cost[<<e[1], m>>] + all.cost[<<m, e[2]>>]
                                  ELSE all.cost[e]],
                      pred |-> [e \in Pairs |->
                                  IF e \in shorter THEN all.pred[<<m, e[2]>>]
                                  ELSE all.pred[e]]]
  <1>0. Inf \in Nat \ {0}
    BY CostsAssumption
  <1>1. ASSUME NEW i \in Stations, NEW j \in Stations
        PROVE  /\ <<i, j>> \in Pairs /\ <<i, j>>[1] = i /\ <<i, j>>[2] = j
               /\ c[<<i, j>>] \in Nat /\ c[<<i, j>>] <= Inf
               /\ p[<<i, j>>] \in Stations \cup {None}
    BY <1>0 DEF Pairs, TablesOK, AllTables
  <1>2. ASSUME NEW i \in Stations, NEW j \in Stations
        PROVE  <<i, j>> \in shorter <=> Cheaper(i, j)
    <2>1. /\ c[<<i, m>>] \in Nat /\ c[<<m, j>>] \in Nat /\ c[<<i, j>>] \in Nat
          /\ c[<<i, j>>] <= Inf
      BY <1>1
    <2>2. <<i, j>> \in shorter <=> Shortcut(c, m, i, j)
      BY <1>1
    <2> QED
      BY <1>0, <2>1, <2>2 DEF Shortcut
  <1>3. Round(all, m) = IF shorter = {} THEN all ELSE next
    BY Once DEF Round
  <1>4. ASSUME NEW e \in Pairs
        PROVE  e[1] \in Stations /\ e[2] \in Stations /\ e = <<e[1], e[2]>>
    BY DEF Pairs
  <1> HIDE DEF shorter
  <1>5. next \in AllTables
    <2>1. ASSUME NEW e \in Pairs PROVE next.cost[e] \in 0..Inf
      <3>1. CASE e \in shorter
        <4>1. Cheaper(e[1], e[2])
          BY <1>2, <1>4, <3>1
        <4>2. /\ c[<<e[1], m>>] \in Nat /\ c[<<m, e[2]>>] \in Nat
              /\ c[<<e[1], e[2]>>] \in Nat /\ c[<<e[1], e[2]>>] <= Inf
          BY <1>1, <1>4
        <4>3. next.cost[e] = c[<<e[1], m>>] + c[<<m, e[2]>>]
          BY <3>1
        <4> QED
          BY <1>0, <4>1, <4>2, <4>3
      <3>2. CASE e \notin shorter
        BY <3>2 DEF TablesOK, AllTables
      <3> QED
        BY <3>1, <3>2
    <2>2. ASSUME NEW e \in Pairs PROVE next.pred[e] \in Stations \cup {None}
      <3>1. p[<<m, e[2]>>] \in Stations \cup {None} /\ p[e] \in Stations \cup {None}
        BY <1>1, <1>4
      <3> QED
        BY <3>1
    <2>3. /\ DOMAIN next.cost = Pairs /\ next.cost = [e \in Pairs |-> next.cost[e]]
          /\ DOMAIN next.pred = Pairs /\ next.pred = [e \in Pairs |-> next.pred[e]]
          /\ next = [cost |-> next.cost, pred |-> next.pred]
      OBVIOUS
    <2> HIDE DEF next
    <2> QED
      BY <2>1, <2>2, <2>3 DEF AllTables
  <1>6. ASSUME NEW i \in Stations, NEW j \in Stations
        PROVE  /\ next.cost[<<i, j>>] = IF Cheaper(i, j)
                                        THEN c[<<i, m>>] + c[<<m, j>>]
                                        ELSE c[<<i, j>>]
               /\ next.pred[<<i, j>>] = IF Cheaper(i, j)
                                        THEN p[<<m, j>>] ELSE p[<<i, j>>]
    BY <1>1, <1>2
  <1>7. CASE shorter = {}
    <2>1. Round(all, m) = all /\ \A i, j \in Stations : ~Cheaper(i, j)
      BY <1>2, <1>3, <1>7
    <2> QED
      BY <1>1, <2>1
  <1>8. CASE shorter # {}
    <2>1. Round(all, m) = next
      BY <1>3, <1>8
    <2>2. \E i, j \in Stations : Cheaper(i, j)
      <3>1. PICK e : e \in shorter
        BY <1>8
      <3>2. e \in Pairs
        BY <3>1 DEF shorter
      <3> QED
        BY <1>2, <1>4, <3>1, <3>2
    <2> HIDE DEF next
    <2>3. TablesOK(next)
      BY <1>5 DEF TablesOK
    <2> QED
      BY <1>1, <1>6, <2>1, <2>2, <2>3
  <1> QED
    BY <1>7, <1>8

(* A round of a station whose round has been made changes nothing, and that *)
(* of another one keeps the tables in order.                                *)
LEMMA RoundKeeps ==
    ASSUME NEW lc, NEW R, LinksOK(lc, R), NEW K \in SUBSET R, NEW m \in R,
           NEW all, AfterRounds(lc, R, K, all)
    PROVE  AfterRounds(lc, R, K \cup {m}, Round(all, m))
  <1> DEFINE c == all.cost
             p == all.pred
             new == Round(all, m)
             cc == new.cost
             pp == new.pred
             dir == DirectCosts(lc)
             Cheaper(i, j) == c[<<i, m>>] + c[<<m, j>>] < c[<<i, j>>]
  <1>0. Inf \in Nat \ {0} /\ m \in Stations /\ K \subseteq Stations
    BY CostsAssumption DEF LinksOK
  <1>1. PICK W, v, B : Weighted(lc, R, K, all, W, v, B)
    BY DEF AfterRounds
  <1>2. TablesOK(all)
    BY DEF AfterRounds
  <1>3. /\ TablesOK(new)
        /\ \A i, j \in Stations :
             /\ c[<<i, j>>] \in Nat /\ c[<<i, j>>] <= Inf
             /\ cc[<<i, j>>] = IF Cheaper(i, j) THEN c[<<i, m>>] + c[<<m, j>>]
                               ELSE c[<<i, j>>]
             /\ pp[<<i, j>>] = IF Cheaper(i, j) THEN p[<<m, j>>] ELSE p[<<i, j>>]
        /\ (\A i, j \in Stations : ~Cheaper(i, j)) => new = all
    BY <1>0, <1>2, RoundEntries
  <1>4. /\ Weights(W, v, B) /\ AtMostDirect(lc, c, W) /\ Triangle(K, c, W, v)
        /\ LastLinks(lc, K, c, p, W, v) /\ Ends(R, c)
    BY <1>1 DEF Weighted
  <1>5. /\ B \in Nat \ {0}
        /\ \A i, j \in Stations : W[<<i, j>>] \in Nat /\ W[<<i, j>>] < B
        /\ \A i \in Stations : v[i] \in Nat \ {0}
    BY <1>4 DEF Weights, Pairs
  <1>6. \A i, j \in Stations : dir[<<i, j>>] \in Nat /\ dir[<<i, j>>] <= Inf
    <2> HIDE DEF dir
    <2>1. dir \in [Pairs -> 0..Inf]
      BY DirectEntries DEF dir
    <2> SUFFICES ASSUME NEW i \in Stations, NEW j \in Stations
                 PROVE  dir[<<i, j>>] \in Nat /\ dir[<<i, j>>] <= Inf
      OBVIOUS
    <2>2. <<i, j>> \in Pairs
      BY DEF Pairs
    <2>3. dir[<<i, j>>] \in 0..Inf
      BY <2>1, <2>2
    <2> QED
      BY <1>0, <2>3
  <1>7. c[<<m, m>>] = 0
    BY <1>4 DEF Ends
  <1> HIDE DEF c, p, new, cc, pp, dir
  <1>8. \A i, j \in Stations : Cheaper(i, j) => i # m /\ j # m /\ i # j
    <2> SUFFICES ASSUME NEW i \in Stations, NEW j \in Stations, Cheaper(i, j)
                 PROVE  i # m /\ j # m /\ i # j
      OBVIOUS
    <2>1. i # m /\ j # m
      BY <1>0, <1>3, <1>7
    <2>2. ASSUME i = j PROVE FALSE
      <3>0. /\ c[<<i, m>>] \in Nat /\ c[<<m, i>>] \in Nat
            /\ c[<<i, i>>] \in Nat /\ c[<<i, i>>] <= Inf
            /\ c[<<i, m>>] + c[<<m, i>>] < c[<<i, i>>]
        BY <1>0, <1>3, <2>2
      <3>1. CASE i \in R
        <4>1. c[<<i, i>>] = 0
          BY <1>4, <3>1 DEF Ends
        <4> QED
          BY <3>0, <4>1
      <3>2. CASE i \notin R
        <4>1. c[<<i, m>>] = Inf
          BY <1>0, <1>4, <3>2 DEF Ends
        <4> QED
          BY <1>0, <3>0, <4>1
      <3> QED
        BY <3>1, <3>2
    <2> QED
      BY <2>1, <2>2
  <1>9. CASE m \in K
    <2>1. \A i, j \in Stations : ~Cheaper(i, j)
      <3> SUFFICES ASSUME NEW i \in Stations, NEW j \in Stations, Cheaper(i, j)
                   PROVE  FALSE
        OBVIOUS
      <3>1. NoWorse(c[<<i, j>>], W[<<i, j>>], c[<<i, m>>] + c[<<m, j>>],
                    W[<<i, m>>] + v[m] + W[<<m, j>>])
        BY <1>4, <1>8, <1>9 DEF Triangle
      <3>2. /\ c[<<i, m>>] \in Nat /\ c[<<m, j>>] \in Nat /\ c[<<i, j>>] \in Nat
        BY <1>0, <1>3
      <3> QED
        BY <3>1, <3>2 DEF NoWorse
    <2>2. new = all /\ K \cup {m} = K
      BY <1>3, <1>9, <2>1
    <2> QED
      BY <2>2 DEF new
  <1>10. CASE m \notin K
    <2> DEFINE X == [e \in Pairs |-> IF Cheaper(e[1], e[2])
                                     THEN W[<<e[1], m>>] + B + W[<<m, e[2]>>]
                                     ELSE W[e]]
               u == [v EXCEPT ![m] = B]
    <2>1. \A i, j \in Stations :
            X[<<i, j>>] = IF Cheaper(i, j) THEN W[<<i, m>>] + B + W[<<m, j>>]
                          ELSE W[<<i, j>>]
      BY DEF Pairs
    <2>2. u[m] = B /\ \A i \in Stations : u[i] \in Nat \ {0} /\ (i # m => u[i] = v[i])
      BY <1>0, <1>4 DEF Weights
    <2>3. u \in [Stations -> Nat \ {0}]
      BY <1>0, <1>4 DEF Weights
    <2>4. X \in [Pairs -> Nat] /\ \A e \in Pairs : X[e] < B + B + B
      <3>1. ASSUME NEW e \in Pairs PROVE X[e] \in Nat /\ X[e] < B + B + B
        <4>1. /\ e[1] \in Stations /\ e[2] \in Stations
              /\ W[e] \in Nat /\ W[e] < B
              /\ X[e] = IF Cheaper(e[1], e[2])
                        THEN W[<<e[1], m>>] + B + W[<<m, e[2]>>] ELSE W[e]
          BY <1>4 DEF Weights, Pairs
        <4> HIDE DEF X
        <4>2. /\ W[<<e[1], m>>] \in Nat /\ W[<<e[1], m>>] < B
              /\ W[<<m, e[2]>>] \in Nat /\ W[<<m, e[2]>>] < B
          BY <1>0, <1>5, <4>1
        <4> QED
          BY <1>5, <4>1, <4>2
      <3>2. DOMAIN X = Pairs /\ X = [e \in Pairs |-> X[e]]
        OBVIOUS
      <3> HIDE DEF X
      <3> QED
        BY <3>1, <3>2
    <2> HIDE DEF X, u
    <2>5. Weights(X, u, B + B + B)
      BY <1>5, <2>3, <2>4 DEF Weights
    <2>6. AtMostDirect(lc, cc, X)
      <3> SUFFICES ASSUME NEW i \in Stations, NEW j \in Stations
                   PROVE  NoWorse(cc[<<i, j>>], X[<<i, j>>], dir[<<i, j>>], 0)
        BY DEF AtMostDirect, dir
      <3>1. NoWorse(c[<<i, j>>], W[<<i, j>>], dir[<<i, j>>], 0)
        BY <1>4 DEF AtMostDirect, dir
      <3>2. /\ c[<<i, m>>] \in Nat /\ c[<<m, j>>] \in Nat /\ c[<<i, j>>] \in Nat
            /\ dir[<<i, j>>] \in Nat
        BY <1>0, <1>3, <1>6
      <3>3. cc[<<i, j>>] = IF Cheaper(i, j) THEN c[<<i, m>>] + c[<<m, j>>]
                           ELSE c[<<i, j>>]
        BY <1>3
      <3>4. X[<<i, j>>] = IF Cheaper(i, j) THEN W[<<i, m>>] + B + W[<<m, j>>]
                          ELSE W[<<i, j>>]
        BY <2>1
      <3> QED
        BY <3>1, <3>2, <3>3, <3>4 DEF NoWorse
    <2>7. Triangle(K \cup {m}, cc, X, u)
      <3> SUFFICES ASSUME NEW i \in Stations, NEW j \in Stations,
                          NEW k \in K \cup {m}, i # j, k # i, k # j
                   PROVE  NoWorse(cc[<<i, j>>], X[<<i, j>>],
                                  cc[<<i, k>>] + cc[<<k, j>>],
                                  X[<<i, k>>] + u[k] + X[<<k, j>>])
        BY DEF Triangle
      <3>0. k \in Stations
        BY <1>0
      <3>1. /\ c[<<i, j>>] \in Nat /\ c[<<i, m>>] \in Nat /\ c[<<m, j>>] \in Nat
            /\ c[<<i, k>>] \in Nat /\ c[<<k, j>>] \in Nat
            /\ c[<<k, m>>] \in Nat /\ c[<<m, k>>] \in Nat
        BY <1>0, <1>3, <3>0
      <3>2. /\ W[<<i, j>>] \in Nat /\ W[<<i, m>>] \in Nat /\ W[<<m, j>>] \in Nat
            /\ W[<<i, k>>] \in Nat /\ W[<<k, j>>] \in Nat
            /\ W[<<k, m>>] \in Nat /\ W[<<m, k>>] \in Nat
            /\ W[<<i, j>>] < B /\ B \in Nat \ {0} /\ v[k] \in Nat \ {0}
        BY <1>0, <1>5, <3>0
      <3>3. /\ cc[<<i, j>>] = IF Cheaper(i, j) THEN c[<<i, m>>] + c[<<m, j>>]
                              ELSE c[<<i, j>>]
            /\ cc[<<i, k>>] = IF Cheaper(i, k) THEN c[<<i, m>>] + c[<<m, k>>]
                              ELSE c[<<i, k>>]
            /\ cc[<<k, j>>] = IF Cheaper(k, j) THEN c[<<k, m>>] + c[<<m, j>>]
                              ELSE c[<<k, j>>]
        BY <1>3, <3>0
      <3>4. /\ X[<<i, j>>] = IF Cheaper(i, j) THEN W[<<i, m>>] + B + W[<<m, j>>]
                              ELSE W[<<i, j>>]
            /\ X[<<i, k>>] = IF Cheaper(i, k) THEN W[<<i, m>>] + B + W[<<m, k>>]
                              ELSE W[<<i, k>>]
            /\ X[<<k, j>>] = IF Cheaper(k, j) THEN W[<<k, m>>] + B + W[<<m, j>>]
                              ELSE W[<<k, j>>]
        BY <2>1, <3>0
      <3>5. CASE k = m
        <4>1. cc[<<i, k>>] = c[<<i, m>>] /\ X[<<i, k>>] = W[<<i, m>>]
          BY <1>8, <3>0, <3>3, <3>4, <3>5
        <4>2. cc[<<k, j>>] = c[<<m, j>>] /\ X[<<k, j>>] = W[<<m, j>>]
          BY <1>8, <3>0, <3>3, <3>4, <3>5
        <4>3. u[k] = B
          BY <2>2, <3>5
        <4> QED
          BY <3>1, <3>2, <3>3, <3>4, <4>1, <4>2, <4>3 DEF NoWorse
      <3>6. CASE k # m
        <4>1. k \in K /\ u[k] = v[k]
          BY <2>2, <3>0, <3>6
        <4>2. NoWorse(c[<<i, j>>], W[<<i, j>>], c[<<i, k>>] + c[<<k, j>>],
                      W[<<i, k>>] + v[k] + W[<<k, j>>])
          BY <1>4, <4>1 DEF Triangle
        <4>3. i # m => NoWorse(c[<<i, m>>], W[<<i, m>>], c[<<i, k>>] + c[<<k, m>>],
                               W[<<i, k>>] + v[k] + W[<<k, m>>])
          BY <1>0, <1>4, <3>6, <4>1 DEF Triangle
        <4>4. j # m => NoWorse(c[<<m, j>>], W[<<m, j>>], c[<<m, k>>] + c[<<k, j>>],
                               W[<<m, k>>] + v[k] + W[<<k, j>>])
          BY <1>0, <1>4, <3>6, <4>1 DEF Triangle
        <4>5. CASE ~Cheaper(i, k) /\ ~Cheaper(k, j)
          BY <3>1, <3>2, <3>3, <3>4, <4>1, <4>2, <4>5 DEF NoWorse
        <4>6. CASE Cheaper(i, k) /\ ~Cheaper(k, j)
          <5>1. /\ cc[<<i, k>>] = c[<<i, m>>] + c[<<m, k>>]
                /\ X[<<i, k>>] = W[<<i, m>>] + B + W[<<m, k>>]
                /\ cc[<<k, j>>] = c[<<k, j>>] /\ X[<<k, j>>] = W[<<k, j>>]
            BY <3>3, <3>4, <4>6
          <5>2. CASE j = m
            <6>1. cc[<<i, j>>] = c[<<i, m>>] /\ X[<<i, j>>] = W[<<i, m>>]
              BY <1>8, <3>3, <3>4, <5>2
            <6> QED
              BY <3>1, <3>2, <4>1, <5>1, <6>1 DEF NoWorse
          <5>3. CASE j # m
            BY <3>1, <3>2, <3>3, <3>4, <4>1, <4>4, <5>1, <5>3 DEF NoWorse
          <5> QED
            BY <5>2, <5>3
        <4>7. CASE ~Cheaper(i, k) /\ Cheaper(k, j)
          <5>1. /\ cc[<<i, k>>] = c[<<i, k>>] /\ X[<<i, k>>] = W[<<i, k>>]
                /\ cc[<<k, j>>] = c[<<k, m>>] + c[<<m, j>>]
                /\ X[<<k, j>>] = W[<<k, m>>] + B + W[<<m, j>>]
            BY <3>3, <3>4, <4>7
          <5>2. CASE i = m
            <6>1. cc[<<i, j>>] = c[<<m, j>>] /\ X[<<i, j>>] = W[<<m, j>>]
              BY <1>8, <3>3, <3>4, <5>2
            <6> QED
              BY <3>1, <3>2, <4>1, <5>1, <6>1 DEF NoWorse
          <5>3. CASE i # m
            <6>1. /\ c[<<i, m>>] <= c[<<i, k>>] + c[<<k, m>>]
                  /\ c[<<i, m>>] = c[<<i, k>>] + c[<<k, m>>]
                       => W[<<i, m>>] <= W[<<i, k>>] + v[k] + W[<<k, m>>]
              BY <3>1, <4>3, <5>3 DEF NoWorse
            <6>2. CASE Cheaper(i, j)
              <7>1. /\ cc[<<i, j>>] = c[<<i, m>>] + c[<<m, j>>]
                    /\ X[<<i, j>>] = W[<<i, m>>] + B + W[<<m, j>>]
                BY <3>3, <3>4, <6>2
              <7> QED
                BY <3>1, <3>2, <4>1, <5>1, <6>1, <7>1 DEF NoWorse
            <6>3. CASE ~Cheaper(i, j)
              <7>1. cc[<<i, j>>] = c[<<i, j>>] /\ X[<<i, j>>] = W[<<i, j>>]
                BY <3>3, <3>4, <6>3
              <7> QED
                BY <3>1, <3>2, <4>1, <5>1, <6>1, <6>3, <7>1 DEF NoWorse
            <6> QED
              BY <6>2, <6>3
          <5> QED
            BY <5>2, <5>3
        <4>8. CASE Cheaper(i, k) /\ Cheaper(k, j)
          <5>1. /\ cc[<<i, k>>] = c[<<i, m>>] + c[<<m, k>>]
                /\ X[<<i, k>>] = W[<<i, m>>] + B + W[<<m, k>>]
                /\ cc[<<k, j>>] = c[<<k, m>>] + c[<<m, j>>]
                /\ X[<<k, j>>] = W[<<k, m>>] + B + W[<<m, j>>]
            BY <3>3, <3>4, <4>8
          <5> QED
            BY <3>1, <3>2, <3>3, <3>4, <4>1, <5>1 DEF NoWorse
        <4> QED
          BY <4>5, <4>6, <4>7, <4>8
      <3> QED
        BY <3>5, <3>6
    <2>8. LastLinks(lc, K \cup {m}, cc, pp, X, u)
      <3> SUFFICES ASSUME NEW i \in Stations, NEW j \in Stations, i # j,
                          cc[<<i, j>>] # Inf
                   PROVE  LastFrom(lc, K \cup {m}, cc, X, u, i, j, pp[<<i, j>>])
        BY DEF LastLinks
      <3> DEFINE h == pp[<<i, j>>]
      <3>1. /\ cc[<<i, j>>] = IF Cheaper(i, j) THEN c[<<i, m>>] + c[<<m, j>>]
                              ELSE c[<<i, j>>]
            /\ h = IF Cheaper(i, j) THEN p[<<m, j>>] ELSE p[<<i, j>>]
            /\ X[<<i, j>>] = IF Cheaper(i, j) THEN W[<<i, m>>] + B + W[<<m, j>>]
                             ELSE W[<<i, j>>]
            /\ c[<<i, j>>] \in Nat /\ c[<<i, j>>] <= Inf
            /\ c[<<i, m>>] \in Nat /\ c[<<m, j>>] \in Nat
            /\ W[<<i, m>>] \in Nat /\ W[<<m, j>>] \in Nat
        BY <1>0, <1>3, <1>5, <2>1
      <3> HIDE DEF h
      <3>2. CASE ~Cheaper(i, j)
        <4>1. LastFrom(lc, K, c, W, v, i, j, h) /\ cc[<<i, j>>] = c[<<i, j>>]
                /\ X[<<i, j>>] = W[<<i, j>>]
          BY <1>4, <3>1, <3>2 DEF LastLinks
        <4>2. CASE h = i
          BY <4>1, <4>2 DEF LastFrom, h
        <4>3. CASE h # i
          <5>1. /\ h \in Stations /\ h # j /\ h \in K /\ c[<<i, h>>] # Inf
                /\ dir[<<h, j>>] # Inf
                /\ c[<<i, j>>] = c[<<i, h>>] + dir[<<h, j>>]
                /\ W[<<i, j>>] = W[<<i, h>>] + v[h]
            BY <4>1, <4>3 DEF LastFrom, dir
          <5>2. /\ c[<<i, h>>] \in Nat /\ c[<<m, h>>] \in Nat /\ c[<<h, j>>] \in Nat
                /\ dir[<<h, j>>] \in Nat
            BY <1>0, <1>3, <1>6, <5>1
          <5>3. ~Cheaper(i, h)
            <6> SUFFICES ASSUME Cheaper(i, h) PROVE FALSE
              OBVIOUS
            <6>1. c[<<i, m>>] + c[<<m, h>>] + dir[<<h, j>>] < c[<<i, j>>]
              BY <3>1, <5>1, <5>2
            <6>2. j # m
              BY <3>1, <5>2, <6>1
            <6>3. h # m /\ h # j
              BY <1>8, <5>1
            <6>4. NoWorse(c[<<m, j>>], W[<<m, j>>], c[<<m, h>>] + c[<<h, j>>],
                          W[<<m, h>>] + v[h] + W[<<h, j>>])
              BY <1>0, <1>4, <5>1, <6>2, <6>3 DEF Triangle
            <6>5. c[<<h, j>>] <= dir[<<h, j>>]
              BY <1>4, <5>1, <5>2 DEF AtMostDirect, NoWorse, dir
            <6>6. c[<<m, j>>] <= c[<<m, h>>] + dir[<<h, j>>]
              BY <3>1, <5>2, <6>4, <6>5 DEF NoWorse
            <6> QED
              BY <3>1, <3>2, <5>2, <6>1, <6>6
          <5>4. cc[<<i, h>>] = c[<<i, h>>] /\ X[<<i, h>>] = W[<<i, h>>] /\ u[h] = v[h]
            BY <1>3, <1>10, <2>1, <2>2, <5>1, <5>3
          <5> QED
            BY <4>1, <4>3, <5>1, <5>4 DEF LastFrom, h, dir
        <4> QED
          BY <4>2, <4>3
      <3>3. CASE Cheaper(i, j)
        <4>1. i # m /\ j # m /\ c[<<i, m>>] # Inf /\ c[<<m, j>>] # Inf
          BY <1>0, <1>8, <3>1, <3>3
        <4>2. LastFrom(lc, K, c, W, v, m, j, h)
          BY <1>0, <1>4, <3>1, <3>3, <4>1 DEF LastLinks
        <4>3. /\ cc[<<i, j>>] = c[<<i, m>>] + c[<<m, j>>]
              /\ X[<<i, j>>] = W[<<i, m>>] + B + W[<<m, j>>]
          BY <3>1, <3>3
        <4>4. CASE h = m
          <5>1. dir[<<m, j>>] # Inf /\ c[<<m, j>>] = dir[<<m, j>>] /\ W[<<m, j>>] = 0
            BY <4>2, <4>4 DEF LastFrom, dir
          <5>2. ~Cheaper(i, m)
            BY <1>0, <1>8
          <5>3. cc[<<i, m>>] = c[<<i, m>>] /\ X[<<i, m>>] = W[<<i, m>>] /\ u[m] = B
            BY <1>0, <1>3, <2>1, <2>2, <5>2
          <5>4. X[<<i, j>>] = W[<<i, m>>] + B
            BY <1>5, <3>1, <4>3, <5>1
          <5> QED
            BY <1>0, <4>1, <4>3, <4>4, <5>1, <5>3, <5>4 DEF LastFrom, h, dir
        <4>5. CASE h # m
          <5>1. /\ h \in Stations /\ h # j /\ h \in K /\ c[<<m, h>>] # Inf
                /\ dir[<<h, j>>] # Inf
                /\ c[<<m, j>>] = c[<<m, h>>] + dir[<<h, j>>]
                /\ W[<<m, j>>] = W[<<m, h>>] + v[h]
            BY <4>2, <4>5 DEF LastFrom, dir
          <5>2. /\ c[<<i, h>>] \in Nat /\ c[<<m, h>>] \in Nat /\ c[<<h, j>>] \in Nat
                /\ dir[<<h, j>>] \in Nat /\ dir[<<i, j>>] \in Nat
                /\ W[<<m, h>>] \in Nat /\ v[h] \in Nat /\ c[<<i, h>>] <= Inf
            BY <1>0, <1>3, <1>5, <1>6, <5>1
          <5>3. c[<<i, m>>] + c[<<m, h>>] + dir[<<h, j>>] < c[<<i, j>>]
            BY <3>1, <3>3, <5>1, <5>2
          <5>4. h # i
            <6>1. c[<<i, j>>] <= dir[<<i, j>>]
              BY <1>4, <3>1, <5>2 DEF AtMostDirect, NoWorse, dir
            <6> QED
              BY <3>1, <5>2, <5>3, <6>1
          <5>5. Cheaper(i, h)
            <6> SUFFICES ASSUME ~Cheaper(i, h) PROVE FALSE
              OBVIOUS
            <6>1. NoWorse(c[<<i, j>>], W[<<i, j>>], c[<<i, h>>] + c[<<h, j>>],
                          W[<<i, h>>] + v[h] + W[<<h, j>>])
              BY <1>4, <5>1, <5>4 DEF Triangle
            <6>2. c[<<h, j>>] <= dir[<<h, j>>]
              BY <1>4, <5>1, <5>2 DEF AtMostDirect, NoWorse, dir
            <6> QED
              BY <3>1, <5>2, <5>3, <6>1, <6>2 DEF NoWorse
          <5>6. /\ cc[<<i, h>>] = c[<<i, m>>] + c[<<m, h>>]
                /\ X[<<i, h>>] = W[<<i, m>>] + B + W[<<m, h>>]
                /\ u[h] = v[h]
            BY <1>3, <1>10, <2>1, <2>2, <5>1, <5>5
          <5>7. cc[<<i, h>>] # Inf
            BY <3>1, <5>2, <5>5, <5>6
          <5>8. /\ cc[<<i, j>>] = cc[<<i, h>>] + dir[<<h, j>>]
                /\ X[<<i, j>>] = X[<<i, h>>] + u[h]
            <6>1. W[<<i, m>>] \in Nat /\ B \in Nat
              BY <1>5, <3>1
            <6>2. cc[<<i, j>>] = cc[<<i, h>>] + dir[<<h, j>>]
              BY <3>1, <4>3, <5>1, <5>2, <5>6
            <6>3. X[<<i, j>>] = W[<<i, m>>] + B + (W[<<m, h>>] + v[h])
              BY <4>3, <5>1
            <6>4. W[<<m, h>>] \in Nat /\ v[h] \in Nat
              BY <5>2
            <6>5. X[<<i, j>>] = (W[<<i, m>>] + B + W[<<m, h>>]) + v[h]
              BY <6>1, <6>3, <6>4
            <6> QED
              BY <5>6, <6>2, <6>5
          <5> QED
            BY <5>1, <5>4, <5>7, <5>8 DEF LastFrom, h, dir
        <4> QED
          BY <4>4, <4>5
      <3> QED
        BY <3>2, <3>3
    <2>9. Ends(R, cc)
      <3>1. ASSUME NEW i \in R PROVE cc[<<i, i>>] = 0
        <4>1. i \in Stations /\ ~Cheaper(i, i)
          BY <1>8 DEF LinksOK
        <4> QED
          BY <1>3, <1>4, <4>1 DEF Ends
      <3>2. ASSUME NEW i \in Stations, NEW j \in Stations, cc[<<i, j>>] # Inf
            PROVE  i \in R /\ j \in R
        <4>1. CASE ~Cheaper(i, j)
          BY <1>3, <1>4, <3>2, <4>1 DEF Ends
        <4>2. CASE Cheaper(i, j)
          <5>1. /\ c[<<i, m>>] \in Nat /\ c[<<m, j>>] \in Nat
                /\ c[<<i, j>>] \in Nat /\ c[<<i, j>>] <= Inf
            BY <1>0, <1>3
          <5>2. c[<<i, m>>] # Inf /\ c[<<m, j>>] # Inf
            BY <1>0, <4>2, <5>1
          <5> QED
            BY <1>0, <1>4, <5>2 DEF Ends
        <4> QED
          BY <4>1, <4>2
      <3> QED
        BY <3>1, <3>2 DEF Ends
    <2>10. Weighted(lc, R, K \cup {m}, new, X, u, B + B + B)
      BY <2>5, <2>6, <2>7, <2>8, <2>9 DEF Weighted, cc, pp
    <2> QED
      BY <1>3, <2>10 DEF AfterRounds, new
  <1> QED
    BY <1>9, <1>10

(* Before the first round there are the direct links.                       *)
LEMMA RoundsStart ==
    ASSUME NEW lc, NEW R, LinksOK(lc, R)
    PROVE  AfterRounds(lc, R, {}, [cost |-> DirectCosts(lc),
                                   pred |-> DirectPredecessors(lc)])
  <1> DEFINE dir == DirectCosts(lc)
             p == DirectPredecessors(lc)
             all == [cost |-> dir, pred |-> p]
             W == [e \in Pairs |-> 0]
             v == [i \in Stations |-> 1]
  <1>0. Inf \in Nat \ {0}
    BY CostsAssumption
  <1>1. /\ dir \in [Pairs -> 0..Inf] /\ p \in [Pairs -> Stations \cup {None}]
        /\ \A i, j \in Stations :
             /\ dir[<<i, j>>] = IF lc[<<j, i>>] = Inf THEN Inf ELSE lc[<<i, j>>]
             /\ p[<<i, j>>] = IF i # j /\ lc[<<i, j>>] # Inf THEN i ELSE None
    BY DirectEntries
  <1> HIDE DEF dir, p
  <1>2. \A i, j \in Stations : <<i, j>> \in Pairs /\ W[<<i, j>>] = 0
    BY DEF Pairs
  <1>3. Weights(W, v, 1)
    BY DEF Weights
  <1> HIDE DEF W, v
  <1>4. TablesOK(all) /\ all.cost = dir /\ all.pred = p
    BY <1>1 DEF TablesOK, AllTables
  <1> HIDE DEF all
  <1>5. AtMostDirect(lc, dir, W)
    <2> SUFFICES ASSUME NEW i \in Stations, NEW j \in Stations
                 PROVE  NoWorse(dir[<<i, j>>], W[<<i, j>>], dir[<<i, j>>], 0)
      BY DEF AtMostDirect, dir
    <2> QED
      BY <1>2 DEF NoWorse
  <1>6. Triangle({}, dir, W, v)
    BY DEF Triangle
  <1>7. LastLinks(lc, {}, dir, p, W, v)
    <2> SUFFICES ASSUME NEW i \in Stations, NEW j \in Stations, i # j,
                        dir[<<i, j>>] # Inf
                 PROVE  LastFrom(lc, {}, dir, W, v, i, j, p[<<i, j>>])
      BY DEF LastLinks
    <2>1. p[<<i, j>>] = i /\ W[<<i, j>>] = 0
      BY <1>1, <1>2
    <2> QED
      BY <2>1 DEF LastFrom, dir
  <1>8. Ends(R, dir)
    <2>1. ASSUME NEW i \in R PROVE dir[<<i, i>>] = 0
      BY <1>0, <1>1 DEF LinksOK
    <2>2. ASSUME NEW i \in Stations, NEW j \in Stations, dir[<<i, j>>] # Inf
          PROVE  i \in R /\ j \in R
      BY <1>1, <2>2 DEF LinksOK
    <2> QED
      BY <2>1, <2>2 DEF Ends
  <1>9. Weighted(lc, R, {}, all, W, v, 1)
    BY <1>3, <1>4, <1>5, <1>6, <1>7, <1>8 DEF Weighted
  <1>10. AfterRounds(lc, R, {}, all)
    BY <1>4, <1>9 DEF AfterRounds
  <1> QED
    BY <1>10 DEF all, dir, p

(* f holds the tables after 0, 1, ... rounds.                               *)
RoundsOf(f, nodes, lc) ==
    f = [n \in 0..Len(nodes) |->
           IF n = 0
           THEN Evaluated([cost |-> DirectCosts(lc), pred |-> DirectPredecessors(lc)])
           ELSE Round(f[n - 1], nodes[n])]

LEMMA AllPairsTables ==
    ASSUME NEW nodes \in Seq(Stations), NEW lc, LinksOK(lc, ToSet(nodes))
    PROVE  AfterRounds(lc, ToSet(nodes), ToSet(nodes), AllPairs(nodes, lc))
  <1> DEFINE N == Len(nodes)
             R == ToSet(nodes)
             start == [cost |-> DirectCosts(lc), pred |-> DirectPredecessors(lc)]
             g == [a \in (1..N) \X AllTables |-> Round(a[2], nodes[a[1]])]
  <1>1. N \in Nat /\ \A n \in 1..N : nodes[n] \in Stations /\ nodes[n] \in R
    BY DEF ToSet
  <1>2. AfterRounds(lc, R, {}, start)
    BY RoundsStart
  <1>3. start \in AllTables
    BY <1>2 DEF AfterRounds, TablesOK
  <1>4. Evaluated(start) = start
    BY Once
  <1> HIDE DEF start
  <1>5. \A n \in 1..N, a \in AllTables :
          g[<<n, a>>] = Round(a, nodes[n]) /\ Round(a, nodes[n]) \in AllTables
    <2> SUFFICES ASSUME NEW n \in 1..N, NEW a \in AllTables
                 PROVE  /\ g[<<n, a>>] = Round(a, nodes[n])
                        /\ Round(a, nodes[n]) \in AllTables
      OBVIOUS
    <2>1. TablesOK(Round(a, nodes[n]))
      BY <1>1, RoundEntries DEF TablesOK
    <2> QED
      BY <2>1 DEF TablesOK
  <1>6. g \in [(1..N) \X AllTables -> AllTables]
    <2>1. g = [a \in (1..N) \X AllTables |-> g[a]]
      OBVIOUS
    <2>2. ASSUME NEW a \in (1..N) \X AllTables PROVE g[a] \in AllTables
      <3>1. a = <<a[1], a[2]>> /\ a[1] \in 1..N /\ a[2] \in AllTables
        OBVIOUS
      <3> HIDE DEF g
      <3> QED
        BY <1>5, <3>1
    <2> HIDE DEF g
    <2> QED
      BY <2>1, <2>2
  <1> HIDE DEF g, N
  <1>7. PICK f \in [0..N -> AllTables] :
          f[0] = start /\ \A n \in 1..N : f[n] = g[<<n, f[n - 1]>>]
    <2>1. Steps(N, AllTables, start, g)
      BY <1>1, <1>3, <1>6 DEF Steps
    <2>2. \E f : Run(f, N, AllTables, start, g)
      BY <2>1, Recursion
    <2> QED
      BY <2>2 DEF Run
  <1>8. f = [n \in 0..N |-> IF n = 0 THEN Evaluated(start)
                            ELSE Round(f[n - 1], nodes[n])]
    <2>1. ASSUME NEW n \in 0..N
          PROVE  f[n] = IF n = 0 THEN Evaluated(start) ELSE Round(f[n - 1], nodes[n])
      <3>1. CASE n = 0
        BY <1>4, <1>7, <3>1
      <3>2. CASE n # 0
        <4>1. n \in 1..N /\ n - 1 \in 0..N
          BY <1>1, <3>2
        <4> QED
          BY <1>5, <1>7, <3>2, <4>1
      <3> QED
        BY <3>1, <3>2
    <2>2. f = [n \in 0..N |-> f[n]]
      BY <1>7
    <2> QED
      BY <2>1, <2>2
  <1>9. RoundsOf(f, nodes, lc)
    BY <1>8 DEF RoundsOf, start, N
  <1> DEFINE h == CHOOSE x : RoundsOf(x, nodes, lc)
  <1>10. RoundsOf(h, nodes, lc)
    BY <1>9
  <1>11. AllPairs(nodes, lc) = h[N]
    BY DEF AllPairs, RoundsOf, N
  <1> HIDE DEF h
  <1>12. h = [n \in 0..N |-> IF n = 0 THEN start ELSE Round(h[n - 1], nodes[n])]
    BY <1>4, <1>10 DEF RoundsOf, start, N
  <1>13. h[0] = start /\ \A n \in 1..N : h[n] = Round(h[n - 1], nodes[n])
    <2> DEFINE e(n) == IF n = 0 THEN start ELSE Round(h[n - 1], nodes[n])
    <2>1. \A n \in 0..N : h[n] = e(n)
      <3> HIDE DEF e
      <3>1. h = [n \in 0..N |-> e(n)]
        BY <1>12 DEF e
      <3> QED
        BY <3>1
    <2>2. h[0] = e(0) /\ \A n \in 1..N : h[n] = e(n)
      BY <1>1, <2>1
    <2> QED
      BY <2>2
  <1> DEFINE K(n) == {nodes[x] : x \in 1..n}
             T == {n \in 0..N : AfterRounds(lc, R, K(n), h[n])}
  <1>14. 0 \in T
    <2>1. K(0) = {}
      OBVIOUS
    <2> HIDE DEF K
    <2>2. AfterRounds(lc, R, K(0), h[0])
      BY <1>2, <1>13, <2>1
    <2> QED
      BY <1>1, <2>2
  <1>15. ASSUME NEW n \in 1..N, n - 1 \in T PROVE n \in T
    <2>1. K(n) = K(n - 1) \cup {nodes[n]} /\ K(n - 1) \subseteq R /\ nodes[n] \in R
      BY <1>1
    <2>2. AfterRounds(lc, R, K(n - 1), h[n - 1])
      BY <1>15
    <2> HIDE DEF K
    <2>3. AfterRounds(lc, R, K(n - 1) \cup {nodes[n]}, Round(h[n - 1], nodes[n]))
      BY <2>1, <2>2, RoundKeeps
    <2>4. AfterRounds(lc, R, K(n), h[n])
      BY <1>13, <2>1, <2>3
    <2> QED
      BY <1>1, <2>4
  <1>16. N \in T
    <2> HIDE DEF T
    <2>1. 0..N \subseteq T
      BY <1>1, <1>14, <1>15, Induction
    <2> QED
      BY <1>1, <2>1
  <1>17. K(N) = R
    BY DEF ToSet, N
  <1> QED
    <2> HIDE DEF K
    <2> QED
      BY <1>11, <1>16, <1>17

-----------------------------------------------------------------------------
(* The next hops                                                            *)

(* What the entries of the tables are.                                      *)
LEMMA EntryTypes ==
    ASSUME NEW lc, NEW R, LinksOK(lc, R), NEW K, NEW all, TablesOK(all),
           NEW W, NEW v, NEW B, Weighted(lc, R, K, all, W, v, B)
    PROVE  /\ Inf \in Nat \ {0} /\ R \subseteq Stations
           /\ \A i, j \in Stations :
                /\ all.cost[<<i, j>>] \in Nat /\ all.cost[<<i, j>>] <= Inf
                /\ W[<<i, j>>] \in Nat
                /\ DirectCosts(lc)[<<i, j>>] \in Nat
                /\ DirectCosts(lc)[<<i, j>>] <= Inf
           /\ \A i \in Stations : v[i] \in Nat \ {0}
  <1> DEFINE dir == DirectCosts(lc)
             c == all.cost
  <1>1. Inf \in Nat \ {0} /\ R \subseteq Stations
    BY CostsAssumption DEF LinksOK
  <1>2. dir \in [Pairs -> 0..Inf] /\ c \in [Pairs -> 0..Inf]
    BY DirectEntries DEF TablesOK, AllTables
  <1>3. W \in [Pairs -> Nat] /\ v \in [Stations -> Nat \ {0}]
    BY DEF Weighted, Weights
  <1> HIDE DEF dir, c
  <1>4. ASSUME NEW i \in Stations, NEW j \in Stations
        PROVE  /\ c[<<i, j>>] \in Nat /\ c[<<i, j>>] <= Inf /\ W[<<i, j>>] \in Nat
               /\ dir[<<i, j>>] \in Nat /\ dir[<<i, j>>] <= Inf
    <2>1. <<i, j>> \in Pairs
      BY DEF Pairs
    <2>2. c[<<i, j>>] \in 0..Inf /\ dir[<<i, j>>] \in 0..Inf /\ W[<<i, j>>] \in Nat
      BY <1>2, <1>3, <2>1
    <2> QED
      BY <1>1, <2>2
  <1> QED
    BY <1>1, <1>3, <1>4 DEF dir, c

(* b is on the path from i to j.                                            *)
OnPath(R, c, W, v, i, j, b) ==
    /\ b \in Stations /\ b # i /\ c[<<i, b>>] # Inf
    /\ b # j => /\ b \in R
                /\ c[<<i, j>>] = c[<<i, b>>] + c[<<b, j>>]
                /\ W[<<i, j>>] = W[<<i, b>>] + v[b] + W[<<b, j>>]

(* So is the station before b, and it is nearer to i.                       *)
LEMMA StepBack ==
    ASSUME NEW lc, NEW R, LinksOK(lc, R), NEW all, TablesOK(all),
           NEW W, NEW v, NEW B, Weighted(lc, R, R, all, W, v, B),
           NEW i \in Stations, NEW j \in Stations, i # j,
           all.cost[<<i, j>>] # Inf,
           NEW b, OnPath(R, all.cost, W, v, i, j, b),
           all.pred[<<i, b>>] # i
    PROVE  LET h == all.pred[<<i, b>>]
               c == all.cost
           IN  /\ OnPath(R, c, W, v, i, j, h)
               /\ \/ c[<<i, h>>] < c[<<i, b>>]
                  \/ c[<<i, h>>] = c[<<i, b>>] /\ W[<<i, h>>] < W[<<i, b>>]
  <1> DEFINE c == all.cost
             h == all.pred[<<i, b>>]
             dir == DirectCosts(lc)
  <1>1. /\ Inf \in Nat \ {0} /\ R \subseteq Stations
        /\ \A x, y \in Stations :
             /\ c[<<x, y>>] \in Nat /\ c[<<x, y>>] <= Inf /\ W[<<x, y>>] \in Nat
             /\ dir[<<x, y>>] \in Nat /\ dir[<<x, y>>] <= Inf
        /\ \A x \in Stations : v[x] \in Nat \ {0}
    BY EntryTypes
  <1>2. /\ AtMostDirect(lc, c, W) /\ Triangle(R, c, W, v)
        /\ LastLinks(lc, R, c, all.pred, W, v) /\ Ends(R, c)
    BY DEF Weighted
  <1>3. b \in Stations /\ b # i /\ c[<<i, b>>] # Inf /\ c[<<i, j>>] # Inf /\ h # i
    BY DEF OnPath
  <1>4. b # j => /\ b \in R /\ c[<<i, j>>] = c[<<i, b>>] + c[<<b, j>>]
                 /\ W[<<i, j>>] = W[<<i, b>>] + v[b] + W[<<b, j>>]
    BY DEF OnPath
  <1>5. LastFrom(lc, R, c, W, v, i, b, h)
    BY <1>2, <1>3 DEF LastLinks
  <1> HIDE DEF c, h, dir
  <1>6. /\ h \in Stations /\ h # b /\ h \in R /\ c[<<i, h>>] # Inf
        /\ c[<<i, b>>] = c[<<i, h>>] + dir[<<h, b>>]
        /\ W[<<i, b>>] = W[<<i, h>>] + v[h]
    BY <1>3, <1>5 DEF LastFrom, dir
  <1>7. /\ c[<<i, j>>] \in Nat /\ c[<<i, b>>] \in Nat /\ c[<<i, h>>] \in Nat
        /\ c[<<h, b>>] \in Nat /\ c[<<b, j>>] \in Nat /\ c[<<h, j>>] \in Nat
        /\ dir[<<h, b>>] \in Nat
        /\ W[<<i, j>>] \in Nat /\ W[<<i, b>>] \in Nat /\ W[<<i, h>>] \in Nat
        /\ W[<<h, b>>] \in Nat /\ W[<<b, j>>] \in Nat /\ W[<<h, j>>] \in Nat
        /\ v[h] \in Nat \ {0} /\ v[b] \in Nat \ {0}
    BY <1>1, <1>3, <1>6
  <1>8. /\ c[<<h, b>>] <= dir[<<h, b>>]
        /\ c[<<h, b>>] = dir[<<h, b>>] => W[<<h, b>>] = 0
    <2>1. NoWorse(c[<<h, b>>], W[<<h, b>>], dir[<<h, b>>], 0)
      BY <1>2, <1>3, <1>6 DEF AtMostDirect, dir
    <2> QED
      BY <1>7, <2>1 DEF NoWorse
  <1>9. \/ c[<<i, h>>] < c[<<i, b>>]
        \/ c[<<i, h>>] = c[<<i, b>>] /\ W[<<i, h>>] < W[<<i, b>>]
    BY <1>6, <1>7
  <1>10. h # j => NoWorse(c[<<i, j>>], W[<<i, j>>], c[<<i, h>>] + c[<<h, j>>],
                          W[<<i, h>>] + v[h] + W[<<h, j>>])
    BY <1>2, <1>3, <1>6 DEF Triangle
  <1>11. CASE b = j
    <2>1. c[<<i, j>>] = c[<<i, h>>] + c[<<h, j>>] /\ c[<<h, j>>] = dir[<<h, j>>]
      BY <1>6, <1>7, <1>8, <1>10, <1>11 DEF NoWorse
    <2>2. W[<<i, j>>] = W[<<i, h>>] + v[h] + W[<<h, j>>]
      BY <1>6, <1>7, <1>8, <1>11, <2>1
    <2> QED
      BY <1>3, <1>6, <1>9, <2>1, <2>2 DEF OnPath, c, h
  <1>12. CASE b # j
    <2>1. h # j
      <3> SUFFICES ASSUME h = j PROVE FALSE
        OBVIOUS
      <3>1. W[<<i, b>>] = W[<<i, j>>] + v[h]
        BY <1>6
      <3>2. W[<<i, j>>] = W[<<i, b>>] + v[b] + W[<<b, j>>]
        BY <1>4, <1>12
      <3> QED
        BY <1>7, <3>1, <3>2
    <2>2. NoWorse(c[<<h, j>>], W[<<h, j>>], c[<<h, b>>] + c[<<b, j>>],
                  W[<<h, b>>] + v[b] + W[<<b, j>>])
      BY <1>2, <1>4, <1>6, <1>12, <2>1 DEF Triangle
    <2>3. /\ c[<<i, j>>] = c[<<i, h>>] + c[<<h, j>>]
          /\ c[<<h, b>>] = dir[<<h, b>>]
          /\ c[<<h, j>>] = c[<<h, b>>] + c[<<b, j>>]
      BY <1>4, <1>6, <1>7, <1>8, <1>10, <1>12, <2>1, <2>2 DEF NoWorse
    <2>4. W[<<h, j>>] <= v[b] + W[<<b, j>>]
      BY <1>7, <1>8, <2>2, <2>3 DEF NoWorse
    <2>5. W[<<i, j>>] <= W[<<i, h>>] + v[h] + W[<<h, j>>]
      BY <1>7, <1>10, <2>1, <2>3 DEF NoWorse
    <2>6. W[<<i, j>>] = W[<<i, h>>] + v[h] + W[<<h, j>>]
      BY <1>4, <1>6, <1>7, <1>12, <2>4, <2>5
    <2> QED
      BY <1>3, <1>6, <1>9, <2>3, <2>6 DEF OnPath, c, h
  <1> QED
    BY <1>11, <1>12

(* f follows the predecessors from j back towards i.                        *)
BackOf(f, pred, i, j) ==
    f = [n \in 0..Cardinality(Stations) |->
           IF n = 0 THEN j
           ELSE LET h == f[n - 1] IN IF pred[<<i, h>>] = i THEN h ELSE pred[<<i, h>>]]

(* x is the first hop of the path from i to j.                              *)
FirstHop(lc, c, W, v, i, j, x) ==
    /\ x \in Stations /\ x # i /\ DirectCosts(lc)[<<i, x>>] # Inf
    /\ c[<<i, j>>] = DirectCosts(lc)[<<i, x>>] + c[<<x, j>>]
    /\ x # j => W[<<i, j>>] = v[x] + W[<<x, j>>]

LEMMA FirstHopFound ==
    ASSUME NEW lc, NEW R, LinksOK(lc, R), NEW all, TablesOK(all),
           NEW W, NEW v, NEW B, Weighted(lc, R, R, all, W, v, B),
           NEW i \in Stations, NEW j \in Stations, i # j,
           all.cost[<<i, j>>] # Inf
    PROVE  FirstHop(lc, all.cost, W, v, i, j, FirstHopOut(all.pred, i, j))
  <1> DEFINE c == all.cost
             pred == all.pred
             dir == DirectCosts(lc)
             N == Cardinality(Stations)
             V == {b \in Stations : OnPath(R, c, W, v, i, j, b)}
             before(h) == IF pred[<<i, h>>] = i THEN h ELSE pred[<<i, h>>]
             g == [a \in (1..N) \X V |-> before(a[2])]
  <1>1. N \in Nat /\ IsFiniteSet(Stations)
    BY StationsAssumption, FS_CardinalityType
  <1>2. /\ Inf \in Nat \ {0} /\ R \subseteq Stations
        /\ \A x, y \in Stations :
             /\ c[<<x, y>>] \in Nat /\ c[<<x, y>>] <= Inf /\ W[<<x, y>>] \in Nat
             /\ dir[<<x, y>>] \in Nat /\ dir[<<x, y>>] <= Inf
        /\ \A x \in Stations : v[x] \in Nat \ {0}
    BY EntryTypes
  <1>3. /\ AtMostDirect(lc, c, W) /\ Triangle(R, c, W, v)
        /\ LastLinks(lc, R, c, pred, W, v) /\ Ends(R, c)
    BY DEF Weighted
  <1>4. \A h \in V : /\ before(h) \in V
                     /\ pred[<<i, h>>] # i =>
                          \/ c[<<i, before(h)>>] < c[<<i, h>>]
                          \/ /\ c[<<i, before(h)>>] = c[<<i, h>>]
                             /\ W[<<i, before(h)>>] < W[<<i, h>>]
    <2> SUFFICES ASSUME NEW h \in V
                 PROVE  /\ before(h) \in V
                        /\ pred[<<i, h>>] # i =>
                             \/ c[<<i, before(h)>>] < c[<<i, h>>]
                             \/ /\ c[<<i, before(h)>>] = c[<<i, h>>]
                                /\ W[<<i, before(h)>>] < W[<<i, h>>]
      OBVIOUS
    <2>1. CASE pred[<<i, h>>] = i
      BY <2>1
    <2>2. CASE pred[<<i, h>>] # i
      <3>1. OnPath(R, c, W, v, i, j, h)
        OBVIOUS
      <3>2. /\ OnPath(R, c, W, v, i, j, before(h))
            /\ \/ c[<<i, before(h)>>] < c[<<i, h>>]
               \/ c[<<i, before(h)>>] = c[<<i, h>>] /\ W[<<i, before(h)>>] < W[<<i, h>>]
        BY <2>2, <3>1, StepBack
      <3>3. before(h) \in Stations
        BY <3>2 DEF OnPath
      <3> QED
        BY <3>2, <3>3
    <2> QED
      BY <2>1, <2>2
  <1>5. j \in V
    BY DEF OnPath
  <1> HIDE DEF c, pred, dir, N, V, before
  <1>6. Steps(N, V, j, g)
    <2>1. ASSUME NEW a \in (1..N) \X V PROVE g[a] \in V
      BY <1>4
    <2> QED
      BY <1>1, <1>5, <2>1 DEF Steps
  <1>7. \A n \in 1..N, b \in V : g[<<n, b>>] = before(b)
    OBVIOUS
  <1> HIDE DEF g
  <1>8. PICK f : Run(f, N, V, j, g)
    BY <1>6, Recursion
  <1>9. f \in [0..N -> V] /\ f[0] = j /\ \A n \in 1..N : f[n] = before(f[n - 1])
    <2>1. f \in [0..N -> V] /\ f[0] = j /\ \A n \in 1..N : f[n] = g[<<n, f[n - 1]>>]
      BY <1>8 DEF Run
    <2>2. \A n \in 1..N : f[n - 1] \in V
      <3>1. \A n \in 1..N : n - 1 \in 0..N
        BY <1>1
      <3> QED
        BY <2>1, <3>1
    <2> QED
      BY <1>7, <2>1, <2>2
  <1>10. BackOf(f, pred, i, j)
    <2>1. ASSUME NEW n \in 0..N
          PROVE  f[n] = IF n = 0 THEN j ELSE before(f[n - 1])
      BY <1>9
    <2>2. f = [n \in 0..N |-> f[n]]
      BY <1>9
    <2>3. f = [n \in 0..N |-> IF n = 0 THEN j ELSE before(f[n - 1])]
      BY <2>1, <2>2
    <2> QED
      BY <2>3 DEF BackOf, before, N
  <1> DEFINE h == CHOOSE x : BackOf(x, pred, i, j)
  <1>11. BackOf(h, pred, i, j)
    BY <1>10
  <1>12. FirstHopOut(pred, i, j) = h[N]
    BY DEF FirstHopOut, BackOf, N
  <1> HIDE DEF h
  <1>13. \A n \in 0..N : h[n] = IF n = 0 THEN j ELSE before(h[n - 1])
    <2> DEFINE e(n) == IF n = 0 THEN j ELSE before(h[n - 1])
    <2>1. h = [n \in 0..N |-> e(n)]
      BY <1>11 DEF BackOf, N, before
    <2> HIDE DEF e
    <2>2. \A n \in 0..N : h[n] = e(n)
      BY <2>1
    <2> QED
      BY <2>2 DEF e
  <1>14. h \in [0..N -> V]
    <2> DEFINE T == {n \in 0..N : h[n] \in V}
    <2>1. 0 \in T
      BY <1>1, <1>5, <1>13
    <2>2. ASSUME NEW n \in 1..N, n - 1 \in T PROVE n \in T
      <3>1. n \in 0..N /\ n # 0 /\ h[n - 1] \in V
        BY <1>1, <2>2
      <3>2. h[n] = before(h[n - 1])
        BY <1>13, <3>1
      <3> QED
        BY <1>4, <3>1, <3>2
    <2> HIDE DEF T
    <2>3. 0..N \subseteq T
      BY <1>1, <2>1, <2>2, Induction
    <2>4. DOMAIN h = 0..N /\ h = [n \in 0..N |-> h[n]]
      BY <1>11 DEF BackOf, N
    <2> QED
      BY <2>3, <2>4 DEF T
  <1> DEFINE Stop == {b \in Stations : pred[<<i, b>>] = i}
             cost == [b \in Stations |-> c[<<i, b>>]]
             weight == [b \in Stations |-> W[<<i, b>>]]
  <1>15. \A b \in V : b \in Stations
    BY DEF V
  <1>16. h[N] \in Stop
    <2>1. h \in [0..N -> Stations]
      BY <1>14, <1>15
    <2>2. cost \in [Stations -> Nat] /\ weight \in [Stations -> Nat]
      BY <1>2
    <2>3. ASSUME NEW n \in 1..N
          PROVE  IF h[n - 1] \in Stop THEN h[n] = h[n - 1]
                 ELSE \/ cost[h[n]] < cost[h[n - 1]]
                      \/ cost[h[n]] = cost[h[n - 1]] /\ weight[h[n]] < weight[h[n - 1]]
      <3>1. n \in 0..N /\ n - 1 \in 0..N /\ n # 0
        BY <1>1
      <3>2. /\ h[n] = before(h[n - 1]) /\ h[n - 1] \in V
            /\ h[n - 1] \in Stations /\ h[n] \in Stations
        BY <1>13, <1>14, <1>15, <3>1
      <3>3. CASE pred[<<i, h[n - 1]>>] = i
        BY <3>2, <3>3 DEF before
      <3>4. CASE pred[<<i, h[n - 1]>>] # i
        <4>1. \/ c[<<i, h[n]>>] < c[<<i, h[n - 1]>>]
              \/ /\ c[<<i, h[n]>>] = c[<<i, h[n - 1]>>]
                 /\ W[<<i, h[n]>>] < W[<<i, h[n - 1]>>]
          BY <1>4, <3>2, <3>4
        <4>2. /\ cost[h[n]] = c[<<i, h[n]>>] /\ cost[h[n - 1]] = c[<<i, h[n - 1]>>]
              /\ weight[h[n]] = W[<<i, h[n]>>]
              /\ weight[h[n - 1]] = W[<<i, h[n - 1]>>]
          BY <3>2
        <4>3. h[n - 1] \notin Stop
          BY <3>4
        <4> HIDE DEF cost, weight, Stop
        <4> QED
          BY <4>1, <4>2, <4>3
      <3> QED
        BY <3>3, <3>4
    <2> HIDE DEF Stop, cost, weight
    <2> QED
      BY <1>1, <2>1, <2>2, <2>3, Settles DEF N
  <1> DEFINE x == h[N]
  <1>17. x \in V /\ x \in Stations /\ pred[<<i, x>>] = i
    BY <1>1, <1>14, <1>16
  <1> HIDE DEF x
  <1>18. OnPath(R, c, W, v, i, j, x)
    BY <1>17 DEF V
  <1>19. LastFrom(lc, R, c, W, v, i, x, i)
    BY <1>3, <1>17, <1>18 DEF LastLinks, OnPath
  <1>20. /\ x # i /\ dir[<<i, x>>] # Inf /\ c[<<i, x>>] = dir[<<i, x>>]
         /\ W[<<i, x>>] = 0
    BY <1>18, <1>19 DEF LastFrom, OnPath, dir
  <1>21. FirstHop(lc, c, W, v, i, j, x)
    <2>1. CASE x = j
      <3>1. j \in R
        BY <1>3, <1>17, <1>18, <2>1 DEF Ends, OnPath
      <3>2. c[<<j, j>>] = 0 /\ c[<<i, j>>] \in Nat
        BY <1>2, <1>3, <3>1 DEF Ends
      <3> QED
        BY <1>17, <1>20, <2>1, <3>2 DEF FirstHop, dir
    <2>2. CASE x # j
      <3>1. /\ c[<<i, j>>] = c[<<i, x>>] + c[<<x, j>>]
            /\ W[<<i, j>>] = W[<<i, x>>] + v[x] + W[<<x, j>>]
        BY <1>18, <2>2 DEF OnPath
      <3>2. v[x] \in Nat /\ W[<<x, j>>] \in Nat
        BY <1>2, <1>17
      <3> QED
        BY <1>17, <1>20, <2>2, <3>1, <3>2 DEF FirstHop, dir
    <2> QED
      BY <2>1, <2>2
  <1> QED
    BY <1>12, <1>21 DEF x, c, pred

(* Every pair that has a path has its first hop.                            *)
HopsOK(lc, c, W, v, p) ==
    /\ p \in [Pairs -> Stations \cup {None}]
    /\ \A i, j \in Stations :
         IF i = j \/ c[<<i, j>>] = Inf THEN p[<<i, j>>] = None
         ELSE FirstHop(lc, c, W, v, i, j, p[<<i, j>>])

(* The costs and next hops c and p are those over the links of the stations *)
(* R.                                                                       *)
SolvedBy(lc, R, c, p, W, v) ==
    /\ W \in [Pairs -> Nat] /\ v \in [Stations -> Nat \ {0}]
    /\ c \in [Pairs -> 0..Inf]
    /\ AtMostDirect(lc, c, W) /\ Triangle(R, c, W, v) /\ Ends(R, c)
    /\ HopsOK(lc, c, W, v, p)

Solved(lc, R, c, p) == \E W, v : SolvedBy(lc, R, c, p, W, v)

LEMMA Computed ==
    ASSUME NEW nodes \in Seq(Stations), NEW lc, LinksOK(lc, ToSet(nodes))
    PROVE  Solved(lc, ToSet(nodes), AllPairs(nodes, lc).cost,
                  NextHops(AllPairs(nodes, lc)))
  <1> DEFINE R == ToSet(nodes)
             all == AllPairs(nodes, lc)
             c == all.cost
             p == NextHops(all)
  <1>1. AfterRounds(lc, R, R, all)
    BY AllPairsTables
  <1>2. PICK W, v, B : Weighted(lc, R, R, all, W, v, B)
    BY <1>1 DEF AfterRounds
  <1>3. TablesOK(all)
    BY <1>1 DEF AfterRounds
  <1>4. c \in [Pairs -> 0..Inf]
    BY <1>3 DEF TablesOK, AllTables
  <1> HIDE DEF all
  <1>5. \A i, j \in Stations :
          p[<<i, j>>] = IF i = j \/ c[<<i, j>>] = Inf THEN None
                        ELSE FirstHopOut(all.pred, i, j)
    BY DEF NextHops, Pairs
  <1>6. DOMAIN p = Pairs /\ p = [e \in Pairs |-> p[e]]
    BY DEF NextHops
  <1> HIDE DEF p
  <1>7. ASSUME NEW i \in Stations, NEW j \in Stations
        PROVE  IF i = j \/ c[<<i, j>>] = Inf THEN p[<<i, j>>] = None
               ELSE FirstHop(lc, c, W, v, i, j, p[<<i, j>>])
    <2>1. CASE i = j \/ c[<<i, j>>] = Inf
      BY <1>5, <2>1
    <2>2. CASE i # j /\ c[<<i, j>>] # Inf
      <3>1. FirstHop(lc, c, W, v, i, j, FirstHopOut(all.pred, i, j))
        BY <1>2, <1>3, <2>2, FirstHopFound
      <3> QED
        BY <1>5, <2>2, <3>1
    <2> QED
      BY <2>1, <2>2
  <1>8. ASSUME NEW e \in Pairs PROVE p[e] \in Stations \cup {None}
    <2>1. e = <<e[1], e[2]>> /\ e[1] \in Stations /\ e[2] \in Stations
      BY DEF Pairs
    <2>2. \/ p[<<e[1], e[2]>>] = None
          \/ FirstHop(lc, c, W, v, e[1], e[2], p[<<e[1], e[2]>>])
      BY <1>7, <2>1
    <2> QED
      BY <2>1, <2>2 DEF FirstHop
  <1>9. HopsOK(lc, c, W, v, p)
    BY <1>6, <1>7, <1>8 DEF HopsOK
  <1>10. SolvedBy(lc, R, c, p, W, v)
    BY <1>2, <1>4, <1>9 DEF SolvedBy, Weighted, Weights
  <1> QED
    BY <1>10 DEF Solved, all, p

-----------------------------------------------------------------------------
(* The inductive invariant                                                  *)

(* The stations are registered in their order.                              *)
OrderInv ==
    /\ mps \in Seq(Stations) /\ Len(mps) <= Len(Order)
    /\ \A n \in 1..Len(mps) : mps[n] = Order[n]

(* The links are between registered stations, and wired links are for free. *)
LinkInv ==
    /\ LinksOK(linkCosts, ToSet(mps))
    /\ \A e \in Pairs : linkCosts[e] \in Costs \cup {0, Inf}
    /\ \A a, b \in Portals \cap ToSet(mps) : linkCosts[<<a, b>>] = 0

(* The tables belong to the links, unless a station has been registered     *)
(* since the last computation.                                              *)
TableInv ==
    /\ pathCosts \in [Pairs -> 0..Inf] /\ paths \in [Pairs -> Stations \cup {None}]
    /\ \A u \in Stations \ ToSet(mps) : pathCosts[<<u, u>>] = Inf
    /\ Current => Solved(linkCosts, ToSet(mps), pathCosts, paths)

(* The portal of a client that has a proxy is the one that a search with    *)
(* the present paths yields.                                                *)
ProxyInv ==
    /\ proxyOf \in [Clients -> Stations \cup {None}]
    /\ portalOf \in [Clients -> Portals \cup {None}]
    /\ \A c \in Clients :
         proxyOf[c] # None =>
           AllRegistered /\ portalOf[c] = BestPortal(paths, proxyOf[c], portalOf[c])

PathsInv == OrderInv /\ LinkInv /\ TableInv /\ ProxyInv

LEMMA Constants ==
    /\ Inf \in Nat \ {0}
    /\ None \notin Stations /\ Portals \subseteq Stations
    /\ \A c \in Costs : Stations # {} => c \in 0..Inf /\ c # Inf
    /\ Order \in Seq(Stations)
    /\ \A n, k \in 1..Len(Order) : n # k => Order[n] # Order[k]
    /\ ToSet(Order) = Stations
    /\ \A a \in Stations : {a, a} \notin Radio
  <1> DEFINE N == Cardinality(Stations)
  <1>1. N \in Nat /\ IsFiniteSet(Stations)
    BY StationsAssumption, FS_CardinalityType
  <1>2. ASSUME NEW c \in Costs, Stations # {} PROVE c \in 0..Inf /\ c # Inf
    <2>1. N # 0
      BY <1>1, <1>2, FS_EmptySet
    <2>2. c \in Nat /\ c * N < Inf /\ Inf \in Nat
      BY CostsAssumption
    <2> HIDE DEF N
    <2>3. c <= c * N
      BY <1>1, <2>1, <2>2
    <2>4. c * N \in Nat
      BY <1>1, <2>2
    <2> QED
      BY <2>2, <2>3, <2>4
  <1>3. ASSUME NEW a \in Stations PROVE {a, a} \notin Radio
    <2>1. Cardinality({a}) = 1 /\ {a, a} = {a}
      BY FS_Singleton
    <2>2. {a} \notin Radio
      BY <2>1, StationsAssumption
    <2> QED
      BY <2>1, <2>2
  <1>4. Order \in Seq(Stations) /\ ToSet(Order) = Stations /\ Len(Order) = N
    BY OrderAssumption
  <1>5. \A n, k \in 1..Len(Order) : n # k => Order[n] # Order[k]
    <2> DEFINE S == 1..N
    <2>1. Order \in [S -> Stations]
      BY <1>4
    <2>2. Order \in Surjection(S, Stations)
      BY <1>4, <2>1 DEF Surjection, ToSet
    <2>3. IsFiniteSet(S) /\ Cardinality(S) = Cardinality(Stations)
      BY <1>1, FS_Interval
    <2> HIDE DEF S
    <2>4. Order \in Injection(S, Stations)
      BY <2>2, <2>3, FS_SurjSameCardinalityImpliesInj
    <2> QED
      BY <1>4, <2>4 DEF Injection, IsInjective, S
  <1> QED
    BY <1>2, <1>3, <1>4, <1>5, StationsAssumption, CostsAssumption

LEMMA InitInv == Init => PathsInv
  <1> SUFFICES ASSUME Init PROVE PathsInv
    OBVIOUS
  <1> DEFINE W == [e \in Pairs |-> 0]
             v == [i \in Stations |-> 1]
  <1>1. /\ Inf \in Nat \ {0} /\ None \notin Stations /\ Len(Order) \in Nat
        /\ \A i, j \in Stations : <<i, j>> \in Pairs
    BY Constants DEF Pairs
  <1>2. mps = <<>> /\ ToSet(mps) = {} /\ Len(mps) = 0
    BY DEF Init, ToSet
  <1>3. \A i, j \in Stations : /\ linkCosts[<<i, j>>] = Inf /\ pathCosts[<<i, j>>] = Inf
                               /\ paths[<<i, j>>] = None
                               /\ W[<<i, j>>] = 0
    BY <1>1 DEF Init
  <1>4. OrderInv
    BY <1>1, <1>2 DEF OrderInv
  <1>5. LinksOK(linkCosts, {})
    BY <1>1, <1>3 DEF LinksOK, Init
  <1>6. LinkInv
    <2>1. linkCosts = [e \in Pairs |-> Inf]
      BY DEF Init
    <2> QED
      BY <1>2, <1>5, <2>1 DEF LinkInv
  <1>7. ProxyInv
    BY DEF ProxyInv, Init
  <1>8. W \in [Pairs -> Nat] /\ v \in [Stations -> Nat \ {0}]
    OBVIOUS
  <1> HIDE DEF W, v
  <1>9. AtMostDirect(linkCosts, pathCosts, W)
    <2> SUFFICES ASSUME NEW i \in Stations, NEW j \in Stations
                 PROVE  NoWorse(pathCosts[<<i, j>>], W[<<i, j>>],
                                DirectCosts(linkCosts)[<<i, j>>], 0)
      BY DEF AtMostDirect
    <2>1. <<i, j>> \in Pairs /\ <<i, j>>[1] = i /\ <<i, j>>[2] = j
      BY DEF Pairs
    <2>2. DirectCosts(linkCosts)[<<i, j>>] = Inf
      BY <1>3, <2>1 DEF DirectCosts
    <2> QED
      BY <1>3, <2>2 DEF NoWorse
  <1>10. SolvedBy(linkCosts, {}, pathCosts, paths, W, v)
    BY <1>1, <1>3, <1>8, <1>9 DEF SolvedBy, Triangle, Ends, HopsOK, Init
  <1>11. TableInv
    <2>1. Solved(linkCosts, ToSet(mps), pathCosts, paths)
      BY <1>2, <1>10 DEF Solved
    <2>2. pathCosts \in [Pairs -> 0..Inf] /\ paths \in [Pairs -> Stations \cup {None}]
      BY <1>1 DEF Init
    <2> QED
      BY <1>3, <2>1, <2>2 DEF TableInv
  <1> QED
    BY <1>4, <1>6, <1>7, <1>11 DEF PathsInv

-----------------------------------------------------------------------------
(* Registration                                                             *)

(* The next station is a new one.                                           *)
LEMMA Registered ==
    ASSUME OrderInv, ~AllRegistered, mps' = Append(mps, NextStation)
    PROVE  /\ NextStation \in Stations \ ToSet(mps)
           /\ ToSet(mps') = ToSet(mps) \cup {NextStation}
           /\ ToSet(mps) \subseteq Stations
           /\ OrderInv' /\ mps' \in Seq(Stations)
  <1> DEFINE N == Len(mps)
             u == NextStation
  <1>1. N \in Nat /\ Len(Order) \in Nat /\ N < Len(Order) /\ mps \in Seq(Stations)
    BY Constants DEF OrderInv, AllRegistered
  <1>2. u = Order[N + 1] /\ N + 1 \in 1..Len(Order) /\ u \in Stations
    BY <1>1, Constants DEF NextStation
  <1>3. \A n \in 1..N : mps[n] = Order[n] /\ n \in 1..Len(Order) /\ n # N + 1
    BY <1>1 DEF OrderInv
  <1>4. \A n \in 1..N : mps[n] # u
    BY <1>2, <1>3, Constants
  <1>5. ToSet(mps) = {mps[n] : n \in 1..N}
    BY <1>1 DEF ToSet
  <1>6. u \notin ToSet(mps) /\ ToSet(mps) \subseteq Stations
    BY <1>1, <1>4, <1>5
  <1> HIDE DEF u
  <1>7. /\ mps' \in Seq(Stations) /\ Len(mps') = N + 1
        /\ \A n \in 1..N : mps'[n] = mps[n]
        /\ mps'[N + 1] = u
    BY <1>1, <1>2 DEF u
  <1>8. ToSet(mps') = {mps'[n] : n \in 1..(N + 1)}
    BY <1>1, <1>7 DEF ToSet
  <1>9. ToSet(mps') = ToSet(mps) \cup {u}
    <2>1. ASSUME NEW x PROVE x \in ToSet(mps') <=> x \in ToSet(mps) \cup {u}
      <3>1. x \in ToSet(mps') <=> \E n \in 1..(N + 1) : x = mps'[n]
        BY <1>8
      <3>2. x \in ToSet(mps) <=> \E n \in 1..N : x = mps[n]
        BY <1>5
      <3>3. 1..(N + 1) = (1..N) \cup {N + 1}
        BY <1>1
      <3> HIDE DEF N
      <3> QED
        BY <1>7, <3>1, <3>2, <3>3
    <2> QED
      BY <2>1
  <1>10. OrderInv'
    <2>1. Len(mps') <= Len(Order)
      BY <1>1, <1>7
    <2>2. \A n \in 1..(N + 1) : mps'[n] = Order[n]
      <3> SUFFICES ASSUME NEW n \in 1..(N + 1) PROVE mps'[n] = Order[n]
        OBVIOUS
      <3>1. CASE n = N + 1
        BY <1>2, <1>7, <3>1
      <3>2. CASE n # N + 1
        <4>1. n \in 1..N
          BY <1>1, <3>2
        <4> QED
          BY <1>3, <1>7, <4>1
      <3> QED
        BY <3>1, <3>2
    <2> QED
      BY <1>7, <2>1, <2>2 DEF OrderInv
  <1> QED
    BY <1>2, <1>6, <1>7, <1>9, <1>10 DEF u

(* Free links E are set between registered stations and u.                  *)
LEMMA FreeLinks ==
    ASSUME NEW R, LinksOK(linkCosts, R), NEW u \in Stations \ R,
           \A e \in Pairs : linkCosts[e] \in Costs \cup {0, Inf},
           NEW E \in SUBSET ((R \cup {u}) \X (R \cup {u})), <<u, u>> \in E
    PROVE  LET lc == WithCost(linkCosts, E, 0)
           IN  /\ LinksOK(lc, R \cup {u})
               /\ \A e \in Pairs : lc[e] \in Costs \cup {0, Inf}
               /\ \A i, j \in Stations :
                    lc[<<i, j>>] = IF <<i, j>> \in E THEN 0 ELSE linkCosts[<<i, j>>]
  <1> DEFINE lc == WithCost(linkCosts, E, 0)
  <1>1. Inf \in Nat \ {0} /\ R \subseteq Stations
        /\ linkCosts \in [Pairs -> 0..Inf]
    BY Constants DEF LinksOK
  <1>2. \A i, j \in Stations :
          /\ <<i, j>> \in Pairs
          /\ lc[<<i, j>>] = IF <<i, j>> \in E THEN 0 ELSE linkCosts[<<i, j>>]
    BY DEF WithCost, Pairs
  <1>3. lc \in [Pairs -> 0..Inf] /\ \A e \in Pairs : lc[e] \in Costs \cup {0, Inf}
    BY <1>1 DEF WithCost
  <1> HIDE DEF lc
  <1>4. \A i, j \in Stations : <<i, j>> \in E => i \in R \cup {u} /\ j \in R \cup {u}
    OBVIOUS
  <1>5. \A i \in R \cup {u} : lc[<<i, i>>] = 0
    BY <1>1, <1>2 DEF LinksOK
  <1>6. \A i, j \in Stations : lc[<<i, j>>] # Inf => i \in R \cup {u} /\ j \in R \cup {u}
    BY <1>2, <1>4 DEF LinksOK
  <1>7. LinksOK(lc, R \cup {u})
    BY <1>1, <1>3, <1>5, <1>6 DEF LinksOK
  <1> QED
    BY <1>2, <1>3, <1>7 DEF lc

(* Before all stations are registered no client has a proxy.                *)
LEMMA NoProxyYet ==
    ASSUME ProxyInv, ~AllRegistered, NEW c \in Clients
    PROVE  proxyOf[c] = None
  BY DEF ProxyInv

LEMMA RegisterMPInv ==
    ASSUME PathsInv, RegisterMP PROVE PathsInv'
  <1> DEFINE u == NextStation
             R == ToSet(mps)
  <1>1. OrderInv /\ LinkInv /\ TableInv /\ ProxyInv
    BY DEF PathsInv
  <1>2. /\ ~AllRegistered /\ u \notin Portals
        /\ mps' = Append(mps, u)
        /\ linkCosts' = WithCost(linkCosts, {<<u, u>>}, 0)
        /\ UNCHANGED <<pathCosts, paths, proxyOf, portalOf>>
    BY DEF RegisterMP
  <1>3. /\ u \in Stations \ R /\ ToSet(mps') = R \cup {u} /\ R \subseteq Stations
        /\ OrderInv'
    BY <1>1, <1>2, Registered
  <1> HIDE DEF u, R
  <1>4. /\ LinksOK(linkCosts', R \cup {u})
        /\ \A e \in Pairs : linkCosts'[e] \in Costs \cup {0, Inf}
        /\ \A i, j \in Stations :
             linkCosts'[<<i, j>>] = IF <<i, j>> \in {<<u, u>>} THEN 0
                                    ELSE linkCosts[<<i, j>>]
    <2> DEFINE E == {<<u, u>>}
               lc == WithCost(linkCosts, E, 0)
    <2>1. E \in SUBSET ((R \cup {u}) \X (R \cup {u})) /\ <<u, u>> \in E
      OBVIOUS
    <2>2. linkCosts' = lc
      BY <1>2
    <2> HIDE DEF E
    <2>3. LinksOK(linkCosts, R) /\ \A e \in Pairs : linkCosts[e] \in Costs \cup {0, Inf}
      BY <1>1 DEF LinkInv, R
    <2>4. /\ LinksOK(lc, R \cup {u})
          /\ \A e \in Pairs : lc[e] \in Costs \cup {0, Inf}
          /\ \A i, j \in Stations :
               lc[<<i, j>>] = IF <<i, j>> \in E THEN 0 ELSE linkCosts[<<i, j>>]
      BY <1>3, <2>1, <2>3, FreeLinks
    <2> HIDE DEF lc
    <2> QED
      BY <2>2, <2>4 DEF E
  <1>5. LinkInv'
    <2>1. ASSUME NEW a \in Portals \cap (R \cup {u}), NEW b \in Portals \cap (R \cup {u})
          PROVE  linkCosts'[<<a, b>>] = 0
      <3>1. a \in Portals \cap R /\ b \in Portals \cap R /\ a # u
        BY <1>2, <1>3
      <3>2. a \in Stations /\ b \in Stations /\ linkCosts[<<a, b>>] = 0
        BY <1>1, <1>3, <3>1 DEF LinkInv, R
      <3> QED
        BY <1>4, <3>1, <3>2
    <2> QED
      BY <1>3, <1>4, <2>1 DEF LinkInv
  <1>6. TableInv'
    <2>1. pathCosts'[<<u, u>>] = Inf /\ Inf # 0
      BY <1>1, <1>2, <1>3, Constants DEF TableInv, R
    <2>2. u \in Range(mps')
      BY <1>3 DEF Range, ToSet
    <2>3. ~Current'
      BY <2>1, <2>2 DEF Current
    <2> QED
      BY <1>1, <1>2, <1>3, <2>3 DEF TableInv, R
  <1>7. ProxyInv'
    BY <1>1, <1>2, NoProxyYet DEF ProxyInv
  <1> QED
    BY <1>3, <1>5, <1>6, <1>7 DEF PathsInv

LEMMA RegisterPortalInv ==
    ASSUME PathsInv, RegisterPortal PROVE PathsInv'
  <1> DEFINE u == NextStation
             R == ToSet(mps)
             wired == ToSet(mps) \cap Portals
             E == {<<u, u>>} \cup (wired \X {u}) \cup ({u} \X wired)
  <1>1. OrderInv /\ LinkInv /\ TableInv /\ ProxyInv
    BY DEF PathsInv
  <1>2. /\ ~AllRegistered /\ u \in Portals
        /\ mps' = Append(mps, u)
        /\ linkCosts' = WithCost(linkCosts, E, 0)
        /\ UNCHANGED <<pathCosts, paths, proxyOf, portalOf>>
    BY DEF RegisterPortal
  <1>3. /\ u \in Stations \ R /\ ToSet(mps') = R \cup {u} /\ R \subseteq Stations
        /\ OrderInv'
    BY <1>1, <1>2, Registered
  <1> HIDE DEF u, R
  <1>4. /\ LinksOK(linkCosts', R \cup {u})
        /\ \A e \in Pairs : linkCosts'[e] \in Costs \cup {0, Inf}
        /\ \A i, j \in Stations :
             linkCosts'[<<i, j>>] = IF <<i, j>> \in E THEN 0
                                    ELSE linkCosts[<<i, j>>]
    <2>1. E \in SUBSET ((R \cup {u}) \X (R \cup {u})) /\ <<u, u>> \in E
      BY DEF R
    <2> HIDE DEF E
    <2>2. /\ LinksOK(linkCosts, R) /\ u \in Stations \ R
          /\ \A e \in Pairs : linkCosts[e] \in Costs \cup {0, Inf}
      BY <1>1, <1>3 DEF LinkInv, R
    <2> DEFINE lc == WithCost(linkCosts, E, 0)
    <2>3. /\ LinksOK(lc, R \cup {u})
          /\ \A e \in Pairs : lc[e] \in Costs \cup {0, Inf}
          /\ \A i, j \in Stations :
               lc[<<i, j>>] = IF <<i, j>> \in E THEN 0 ELSE linkCosts[<<i, j>>]
      BY <2>1, <2>2, FreeLinks
    <2>4. linkCosts' = lc
      BY <1>2
    <2> HIDE DEF lc
    <2> QED
      BY <2>3, <2>4
  <1>5. LinkInv'
    <2>1. ASSUME NEW a \in Portals \cap (R \cup {u}), NEW b \in Portals \cap (R \cup {u})
          PROVE  linkCosts'[<<a, b>>] = 0
      <3>1. a \in Stations /\ b \in Stations
        BY <1>3
      <3>2. CASE a = u \/ b = u
        <4>1. <<a, b>> \in E
          BY <3>2 DEF R
        <4> QED
          BY <1>4, <3>1, <4>1
      <3>3. CASE a # u /\ b # u
        <4>1. linkCosts[<<a, b>>] = 0
          BY <1>1, <3>3 DEF LinkInv, R
        <4> QED
          BY <1>4, <3>1, <4>1
      <3> QED
        BY <3>2, <3>3
    <2> QED
      BY <1>3, <1>4, <2>1 DEF LinkInv
  <1>6. TableInv'
    <2>1. pathCosts'[<<u, u>>] = Inf /\ Inf # 0
      BY <1>1, <1>2, <1>3, Constants DEF TableInv, R
    <2>2. u \in Range(mps')
      BY <1>3 DEF Range, ToSet
    <2>3. ~Current'
      BY <2>1, <2>2 DEF Current
    <2> QED
      BY <1>1, <1>2, <1>3, <2>3 DEF TableInv, R
  <1>7. ProxyInv'
    BY <1>1, <1>2, NoProxyYet DEF ProxyInv
  <1> QED
    BY <1>3, <1>5, <1>6, <1>7 DEF PathsInv

(* A computation over the links lc of the registered stations.              *)
LEMMA NewTables ==
    ASSUME mps' \in Seq(Stations), LinksOK(linkCosts', ToSet(mps')),
           pathCosts' = AllPairs(mps', linkCosts').cost,
           paths' = NextHops(AllPairs(mps', linkCosts'))
    PROVE  TableInv'
  <1> DEFINE R == ToSet(mps')
  <1>1. Solved(linkCosts', R, pathCosts', paths')
    BY Computed
  <1>2. PICK W, v : SolvedBy(linkCosts', R, pathCosts', paths', W, v)
    BY <1>1 DEF Solved
  <1>3. pathCosts' \in [Pairs -> 0..Inf] /\ paths' \in [Pairs -> Stations \cup {None}]
    BY <1>2 DEF SolvedBy, HopsOK
  <1>4. \A x \in Stations \ R : pathCosts'[<<x, x>>] = Inf
    BY <1>2 DEF SolvedBy, Ends
  <1> QED
    BY <1>1, <1>3, <1>4 DEF TableInv

(* The device of a transceiver is registered before it.                     *)
LEMMA DeviceRegistered ==
    ASSUME OrderInv, ~AllRegistered, NextStation \in Transceivers
    PROVE  DeviceOf[NextStation] \in ToSet(mps)
  <1> DEFINE N == Len(mps)
             u == NextStation
             d == DeviceOf[u]
  <1>1. N \in Nat /\ Len(Order) \in Nat /\ N < Len(Order) /\ mps \in Seq(Stations)
    BY Constants DEF OrderInv, AllRegistered
  <1>2. u = Order[N + 1] /\ N + 1 \in DOMAIN Order
    BY <1>1, Constants DEF NextStation
  <1>3. d \in Stations
    BY StationsAssumption
  <1>4. PICK k \in DOMAIN Order : Order[k] = d
    BY <1>3, Constants DEF ToSet
  <1>5. k < N + 1
    BY <1>2, <1>4, OrderAssumption
  <1>6. DOMAIN Order = 1..Len(Order)
    BY Constants
  <1>7. k \in 1..N /\ mps[k] = d
    BY <1>1, <1>4, <1>5, <1>6 DEF OrderInv
  <1> QED
    BY <1>1, <1>7 DEF ToSet

LEMMA RegisterTransceiverInv ==
    ASSUME PathsInv, RegisterTransceiver PROVE PathsInv'
  <1> DEFINE u == NextStation
             R == ToSet(mps)
             d == DeviceOf[u]
             E == {<<u, u>>, <<u, d>>, <<d, u>>}
  <1>1. OrderInv /\ LinkInv /\ TableInv /\ ProxyInv
    BY DEF PathsInv
  <1>2. /\ ~AllRegistered /\ u \in Transceivers
        /\ mps' = Append(mps, u)
        /\ linkCosts' = WithCost(linkCosts, E, 0)
        /\ pathCosts' = AllPairs(mps', linkCosts').cost
        /\ paths' = NextHops(AllPairs(mps', linkCosts'))
        /\ portalOf' = [c \in Clients |->
                          IF proxyOf[c] = None THEN portalOf[c]
                          ELSE BestPortal(paths', proxyOf[c], portalOf[c])]
        /\ proxyOf' = proxyOf
    BY DEF RegisterTransceiver, OnNewPathSelectionEntry
  <1>3. /\ u \in Stations \ R /\ ToSet(mps') = R \cup {u} /\ R \subseteq Stations
        /\ OrderInv' /\ mps' \in Seq(Stations)
    BY <1>1, <1>2, Registered
  <1>4. d \in R /\ u \notin Portals
    BY <1>1, <1>2, DeviceRegistered, StationsAssumption
  <1> HIDE DEF u, R, d
  <1>5. /\ LinksOK(linkCosts', R \cup {u})
        /\ \A e \in Pairs : linkCosts'[e] \in Costs \cup {0, Inf}
        /\ \A i, j \in Stations :
             linkCosts'[<<i, j>>] = IF <<i, j>> \in E THEN 0
                                    ELSE linkCosts[<<i, j>>]
    <2>1. E \in SUBSET ((R \cup {u}) \X (R \cup {u})) /\ <<u, u>> \in E
      BY <1>4
    <2> HIDE DEF E
    <2>2. /\ LinksOK(linkCosts, R) /\ u \in Stations \ R
          /\ \A e \in Pairs : linkCosts[e] \in Costs \cup {0, Inf}
      BY <1>1, <1>3 DEF LinkInv, R
    <2> DEFINE lc == WithCost(linkCosts, E, 0)
    <2>3. /\ LinksOK(lc, R \cup {u})
          /\ \A e \in Pairs : lc[e] \in Costs \cup {0, Inf}
          /\ \A i, j \in Stations :
               lc[<<i, j>>] = IF <<i, j>> \in E THEN 0 ELSE linkCosts[<<i, j>>]
      BY <2>1, <2>2, FreeLinks
    <2>4. linkCosts' = lc
      BY <1>2
    <2> HIDE DEF lc
    <2> QED
      BY <2>3, <2>4
  <1>6. LinkInv'
    <2>1. ASSUME NEW a \in Portals \cap (R \cup {u}), NEW b \in Portals \cap (R \cup {u})
          PROVE  linkCosts'[<<a, b>>] = 0
      <3>1. a \in Stations /\ b \in Stations /\ a # u /\ b # u
        BY <1>3, <1>4
      <3>2. linkCosts[<<a, b>>] = 0
        BY <1>1, <3>1 DEF LinkInv, R
      <3> QED
        BY <1>5, <3>1, <3>2
    <2> QED
      BY <1>3, <1>5, <2>1 DEF LinkInv
  <1>7. TableInv'
    BY <1>2, <1>3, <1>5, NewTables
  <1>8. ProxyInv'
    <2>1. \A c \in Clients : proxyOf[c] = None
      BY <1>1, <1>2, NoProxyYet
    <2>2. portalOf' = portalOf
      <3>1. portalOf = [c \in Clients |-> portalOf[c]]
        BY <1>1 DEF ProxyInv
      <3> QED
        BY <1>2, <2>1, <3>1
    <2> QED
      BY <1>1, <1>2, <2>1, <2>2 DEF ProxyInv
  <1> QED
    BY <1>3, <1>6, <1>7, <1>8 DEF PathsInv

-----------------------------------------------------------------------------
(* Links and associations                                                   *)

(* The portal of a search is a portal, and searching again yields the same. *)
LEMMA PortalFound ==
    ASSUME OrderInv, NEW hops, NEW proxy \in Stations,
           NEW old \in Portals \cup {None}
    PROVE  /\ BestPortal(hops, proxy, old) \in Portals \cup {None}
           /\ BestPortal(hops, proxy, BestPortal(hops, proxy, old))
                = BestPortal(hops, proxy, old)
  <1> DEFINE entries == EntryPortals(hops, proxy)
             least == Min(entries)
  <1>1. ASSUME entries # {} PROVE least \in entries
    <2>1. entries \subseteq 1..Len(mps) /\ entries \in SUBSET Nat
      BY DEF EntryPortals, OrderInv
    <2>2. PICK n \in entries : \A m \in entries : n <= m
      BY <1>1, <2>1, LeastNumber
    <2> QED
      BY <2>2 DEF Min
  <1>2. entries # {} => mps[least] \in Portals
    BY <1>1 DEF EntryPortals
  <1> HIDE DEF entries, least
  <1>3. \A o : BestPortal(hops, proxy, o)
                 = IF proxy \in Portals THEN proxy
                   ELSE IF entries = {} THEN o ELSE mps[least]
    BY DEF BestPortal, entries, least
  <1> QED
    BY <1>2, <1>3

(* A search with the new paths, while the stations stay.                    *)
LEMMA PortalsKept ==
    ASSUME OrderInv, ProxyInv, mps' = mps, proxyOf' = proxyOf,
           portalOf' = [c \in Clients |->
                          IF proxyOf[c] = None THEN portalOf[c]
                          ELSE BestPortal(paths', proxyOf[c], portalOf[c])]
    PROVE  ProxyInv'
  <1>1. /\ proxyOf \in [Clients -> Stations \cup {None}]
        /\ portalOf \in [Clients -> Portals \cup {None}]
    BY DEF ProxyInv
  <1>2. ASSUME NEW c \in Clients, proxyOf[c] # None
        PROVE  /\ proxyOf[c] \in Stations
               /\ portalOf'[c] = BestPortal(paths', proxyOf[c], portalOf[c])
               /\ portalOf'[c] \in Portals \cup {None}
               /\ BestPortal(paths', proxyOf[c], portalOf'[c]) = portalOf'[c]
    <2>1. /\ proxyOf[c] \in Stations /\ portalOf[c] \in Portals \cup {None}
          /\ portalOf'[c] = BestPortal(paths', proxyOf[c], portalOf[c])
      BY <1>1, <1>2
    <2> QED
      BY <2>1, PortalFound
  <1>3. portalOf' \in [Clients -> Portals \cup {None}]
    <2>1. \A c \in Clients : proxyOf[c] = None => portalOf'[c] = portalOf[c]
      OBVIOUS
    <2>2. \A c \in Clients : portalOf'[c] \in Portals \cup {None}
      BY <1>1, <1>2, <2>1
    <2>3. portalOf' = [c \in Clients |-> portalOf'[c]]
      OBVIOUS
    <2> QED
      BY <2>2, <2>3
  <1>4. ASSUME NEW c \in Clients, proxyOf'[c] # None
        PROVE  /\ AllRegistered'
               /\ portalOf'[c] = BestPortal(paths, proxyOf[c], portalOf[c])'
    <2>1. AllRegistered /\ AllRegistered' = AllRegistered
      BY <1>4 DEF ProxyInv, AllRegistered
    <2>2. BestPortal(paths, proxyOf[c], portalOf[c])'
            = BestPortal(paths', proxyOf[c], portalOf'[c])
      BY DEF BestPortal, EntryPortals
    <2> QED
      BY <1>2, <1>4, <2>1, <2>2
  <1> QED
    BY <1>1, <1>3, <1>4 DEF ProxyInv

LEMMA SetLinkInv ==
    ASSUME PathsInv, NEW a \in Stations, NEW b \in Stations, Wireless(a, b),
           NEW cost \in Costs \cup {Inf}, SetLink(a, b, cost)
    PROVE  PathsInv'
  <1> DEFINE R == ToSet(mps)
  <1>1. OrderInv /\ LinkInv /\ TableInv /\ ProxyInv
    BY DEF PathsInv
  <1>2. /\ linkCosts' = [linkCosts EXCEPT ![<<a, b>>] = cost]
        /\ pathCosts' = AllPairs(mps, linkCosts').cost
        /\ paths' = NextHops(AllPairs(mps, linkCosts'))
        /\ portalOf' = [c \in Clients |->
                          IF proxyOf[c] = None THEN portalOf[c]
                          ELSE BestPortal(paths', proxyOf[c], portalOf[c])]
        /\ mps' = mps /\ proxyOf' = proxyOf
    BY DEF SetLink, OnNewPathSelectionEntry
  <1>3. R = Stations
    <2>1. /\ Len(mps) = Len(Order) /\ mps \in Seq(Stations)
          /\ \A n \in 1..Len(mps) : mps[n] = Order[n]
      BY <1>1 DEF Wireless, AllRegistered, OrderInv
    <2>2. \A x \in Stations : \E n \in 1..Len(Order) : x = Order[n]
      BY Constants DEF ToSet
    <2>3. /\ R = {mps[n] : n \in 1..Len(mps)}
          /\ \A n \in 1..Len(mps) : mps[n] \in Stations
      BY <2>1 DEF ToSet
    <2>4. \A x \in Stations : \E n \in 1..Len(mps) : x = mps[n]
      BY <2>1, <2>2
    <2> HIDE DEF R
    <2> QED
      BY <2>3, <2>4
  <1>4. a # b /\ ~(a \in Portals /\ b \in Portals) /\ cost \in 0..Inf
    BY Constants DEF Wireless
  <1>5. /\ LinksOK(linkCosts, R) /\ linkCosts \in [Pairs -> 0..Inf]
        /\ \A e \in Pairs : linkCosts[e] \in Costs \cup {0, Inf}
        /\ \A p, q \in Portals \cap R : linkCosts[<<p, q>>] = 0
    BY <1>1 DEF LinkInv, LinksOK
  <1>6. <<a, b>> \in Pairs /\ \A i, j \in Stations : <<i, j>> \in Pairs
    BY DEF Pairs
  <1>7. \A i, j \in Stations :
          linkCosts'[<<i, j>>] = IF i = a /\ j = b THEN cost ELSE linkCosts[<<i, j>>]
    BY <1>2, <1>5, <1>6
  <1>8. /\ linkCosts' \in [Pairs -> 0..Inf]
        /\ \A e \in Pairs : linkCosts'[e] \in Costs \cup {0, Inf}
    <2>1. linkCosts' \in [Pairs -> 0..Inf]
      BY <1>2, <1>4, <1>5, <1>6
    <2>2. \A e \in Pairs : linkCosts'[e] = IF e = <<a, b>> THEN cost ELSE linkCosts[e]
      BY <1>2, <1>5, <1>6
    <2> QED
      BY <1>5, <2>1, <2>2
  <1>9. LinksOK(linkCosts', R)
    <2> HIDE DEF R
    <2>1. \A i \in Stations : linkCosts[<<i, i>>] = 0
      BY <1>3, <1>5 DEF LinksOK
    <2>2. \A i \in Stations : linkCosts'[<<i, i>>] = 0
      BY <1>4, <1>7, <2>1
    <2> QED
      BY <1>3, <1>8, <2>2 DEF LinksOK
  <1>10. \A p, q \in Portals \cap R : linkCosts'[<<p, q>>] = 0
    BY <1>3, <1>4, <1>5, <1>7
  <1>11. LinkInv'
    BY <1>2, <1>8, <1>9, <1>10 DEF LinkInv
  <1>12. OrderInv'
    BY <1>1, <1>2 DEF OrderInv
  <1>13. TableInv'
    BY <1>2, <1>9, <1>12, NewTables DEF OrderInv
  <1>14. ProxyInv'
    BY <1>1, <1>2, PortalsKept
  <1> QED
    BY <1>11, <1>12, <1>13, <1>14 DEF PathsInv

LEMMA RegisterProxyInv ==
    ASSUME PathsInv, NEW client \in Clients, NEW proxy \in Masters[client],
           RegisterProxy(proxy, client)
    PROVE  PathsInv'
  <1>1. OrderInv /\ LinkInv /\ TableInv /\ ProxyInv
    BY DEF PathsInv
  <1>2. /\ AllRegistered /\ proxyOf[client] = None
        /\ proxyOf' = [proxyOf EXCEPT ![client] = proxy]
        /\ portalOf' = [portalOf EXCEPT
                          ![client] = BestPortal(paths, proxy, portalOf[client])]
        /\ UNCHANGED <<mps, linkCosts, pathCosts, paths>>
    BY DEF RegisterProxy
  <1>3. proxy \in Stations
    BY StationsAssumption
  <1>4. /\ proxyOf \in [Clients -> Stations \cup {None}]
        /\ portalOf \in [Clients -> Portals \cup {None}]
    BY <1>1 DEF ProxyInv
  <1>5. OrderInv' /\ LinkInv' /\ TableInv'
    BY <1>1, <1>2 DEF OrderInv, LinkInv, TableInv, Current
  <1> DEFINE portal == BestPortal(paths, proxy, portalOf[client])
  <1>6. /\ portal \in Portals \cup {None}
        /\ BestPortal(paths, proxy, portal) = portal
    BY <1>1, <1>3, <1>4, PortalFound
  <1> HIDE DEF portal
  <1>7. portalOf' = [portalOf EXCEPT ![client] = portal]
    BY <1>2 DEF portal
  <1>8. /\ proxyOf' \in [Clients -> Stations \cup {None}]
        /\ portalOf' \in [Clients -> Portals \cup {None}]
    BY <1>2, <1>3, <1>4, <1>6, <1>7
  <1>9. ASSUME NEW c \in Clients, proxyOf'[c] # None
        PROVE  /\ AllRegistered'
               /\ portalOf'[c] = BestPortal(paths, proxyOf[c], portalOf[c])'
    <2>1. AllRegistered'
      BY <1>2 DEF AllRegistered
    <2>2. BestPortal(paths, proxyOf[c], portalOf[c])'
            = BestPortal(paths, proxyOf'[c], portalOf'[c])
      BY <1>2 DEF BestPortal, EntryPortals
    <2>3. CASE c = client
      <3>1. proxyOf'[c] = proxy /\ portalOf'[c] = portal
        BY <1>2, <1>4, <1>7, <2>3
      <3> QED
        BY <1>6, <2>1, <2>2, <3>1
    <2>4. CASE c # client
      <3>1. proxyOf'[c] = proxyOf[c] /\ portalOf'[c] = portalOf[c]
        BY <1>2, <1>4, <2>4
      <3> QED
        BY <1>1, <1>9, <2>1, <2>2, <3>1 DEF ProxyInv
    <2> QED
      BY <2>3, <2>4
  <1>10. ProxyInv'
    BY <1>8, <1>9 DEF ProxyInv
  <1> QED
    BY <1>5, <1>10 DEF PathsInv

LEMMA DeRegisterProxyInv ==
    ASSUME PathsInv, NEW client \in Clients, DeRegisterProxy(client)
    PROVE  PathsInv'
  <1>1. OrderInv /\ LinkInv /\ TableInv /\ ProxyInv
    BY DEF PathsInv
  <1>2. /\ proxyOf' = [proxyOf EXCEPT ![client] = None]
        /\ UNCHANGED <<mps, linkCosts, pathCosts, paths, portalOf>>
    BY DEF DeRegisterProxy
  <1>3. OrderInv' /\ LinkInv' /\ TableInv'
    BY <1>1, <1>2 DEF OrderInv, LinkInv, TableInv, Current
  <1>4. /\ proxyOf \in [Clients -> Stations \cup {None}]
        /\ portalOf \in [Clients -> Portals \cup {None}]
    BY <1>1 DEF ProxyInv
  <1>5. ASSUME NEW c \in Clients, proxyOf'[c] # None
        PROVE  /\ AllRegistered'
               /\ portalOf'[c] = BestPortal(paths, proxyOf[c], portalOf[c])'
    <2>1. proxyOf'[c] = proxyOf[c]
      BY <1>2, <1>4, <1>5
    <2>2. BestPortal(paths, proxyOf[c], portalOf[c])'
            = BestPortal(paths, proxyOf'[c], portalOf[c])
      BY <1>2 DEF BestPortal, EntryPortals
    <2> QED
      BY <1>1, <1>2, <1>5, <2>1, <2>2 DEF ProxyInv, AllRegistered
  <1>6. proxyOf' \in [Clients -> Stations \cup {None}]
    BY <1>2, <1>4
  <1>7. ProxyInv'
    BY <1>2, <1>4, <1>5, <1>6 DEF ProxyInv
  <1> QED
    BY <1>3, <1>7 DEF PathsInv

LEMMA StutterInv == PathsInv /\ UNCHANGED vars => PathsInv'
  <1> SUFFICES ASSUME PathsInv, UNCHANGED vars PROVE PathsInv'
    OBVIOUS
  <1>1. /\ mps' = mps /\ linkCosts' = linkCosts /\ pathCosts' = pathCosts
        /\ paths' = paths /\ proxyOf' = proxyOf /\ portalOf' = portalOf
    BY DEF vars
  <1>2. OrderInv' /\ LinkInv' /\ TableInv'
    BY <1>1 DEF PathsInv, OrderInv, LinkInv, TableInv, Current
  <1>3. ProxyInv'
    <2>1. \A c \in Clients :
            BestPortal(paths, proxyOf[c], portalOf[c])'
              = BestPortal(paths, proxyOf[c], portalOf[c])
      BY <1>1 DEF BestPortal, EntryPortals
    <2>2. AllRegistered' = AllRegistered
      BY <1>1 DEF AllRegistered
    <2>3. ProxyInv
      BY DEF PathsInv
    <2> QED
      BY <1>1, <2>1, <2>2, <2>3 DEF ProxyInv
  <1> QED
    BY <1>2, <1>3 DEF PathsInv

LEMMA StepInv == PathsInv /\ [Next]_vars => PathsInv'
  <1> SUFFICES ASSUME PathsInv, [Next]_vars PROVE PathsInv'
    OBVIOUS
  <1>1. CASE RegisterMP
    BY <1>1, RegisterMPInv
  <1>2. CASE RegisterPortal
    BY <1>2, RegisterPortalInv
  <1>3. CASE RegisterTransceiver
    BY <1>3, RegisterTransceiverInv
  <1>4. ASSUME NEW a \in Stations, NEW b \in Stations, NEW cost \in Costs,
               CreatePeerLink(a, b, cost)
        PROVE  PathsInv'
    BY <1>4, SetLinkInv DEF CreatePeerLink
  <1>5. ASSUME NEW a \in Stations, NEW b \in Stations, NEW cost \in Costs,
               UpdatePeerLink(a, b, cost)
        PROVE  PathsInv'
    BY <1>5, SetLinkInv DEF UpdatePeerLink
  <1>6. ASSUME NEW a \in Stations, NEW b \in Stations, ClosePeerLink(a, b)
        PROVE  PathsInv'
    BY <1>6, SetLinkInv DEF ClosePeerLink
  <1>7. ASSUME NEW client \in Clients, NEW proxy \in Masters[client],
               RegisterProxy(proxy, client)
        PROVE  PathsInv'
    BY <1>7, RegisterProxyInv
  <1>8. ASSUME NEW client \in Clients, DeRegisterProxy(client)
        PROVE  PathsInv'
    BY <1>8, DeRegisterProxyInv
  <1>9. CASE UNCHANGED vars
    BY <1>9, StutterInv
  <1> QED
    BY <1>1, <1>2, <1>3, <1>4, <1>5, <1>6, <1>7, <1>8, <1>9 DEF Next

-----------------------------------------------------------------------------
(* What follows for the paths of a state                                    *)

Tables(W, v) == SolvedBy(linkCosts, ToSet(mps), pathCosts, paths, W, v)

LEMMA TableEntries ==
    ASSUME PathsInv, NEW W, NEW v, Tables(W, v)
    PROVE  /\ Inf \in Nat \ {0} /\ ToSet(mps) \subseteq Stations
           /\ \A i, j \in Stations :
                /\ pathCosts[<<i, j>>] \in Nat /\ pathCosts[<<i, j>>] <= Inf
                /\ linkCosts[<<i, j>>] \in Nat /\ linkCosts[<<i, j>>] <= Inf
                /\ W[<<i, j>>] \in Nat /\ v[i] \in Nat \ {0}
                /\ DirectCosts(linkCosts)[<<i, j>>]
                     = IF linkCosts[<<j, i>>] = Inf THEN Inf ELSE linkCosts[<<i, j>>]
                /\ pathCosts[<<i, j>>] # Inf => i \in ToSet(mps) /\ j \in ToSet(mps)
           /\ \A i \in ToSet(mps) : pathCosts[<<i, i>>] = 0
  <1>1. LinksOK(linkCosts, ToSet(mps))
    BY DEF PathsInv, LinkInv
  <1>2. Inf \in Nat \ {0} /\ ToSet(mps) \subseteq Stations
    BY <1>1, Constants DEF LinksOK
  <1>3. /\ linkCosts \in [Pairs -> 0..Inf] /\ pathCosts \in [Pairs -> 0..Inf]
        /\ W \in [Pairs -> Nat] /\ v \in [Stations -> Nat \ {0}]
    BY <1>1 DEF LinksOK, Tables, SolvedBy
  <1>4. \A i, j \in Stations : <<i, j>> \in Pairs
    BY DEF Pairs
  <1>5. \A i, j \in Stations :
          DirectCosts(linkCosts)[<<i, j>>]
            = IF linkCosts[<<j, i>>] = Inf THEN Inf ELSE linkCosts[<<i, j>>]
    BY <1>1, DirectEntries
  <1>6. Ends(ToSet(mps), pathCosts)
    BY DEF Tables, SolvedBy
  <1> QED
    BY <1>2, <1>3, <1>4, <1>5, <1>6 DEF Ends

(* The next hop of a path.                                                  *)
LEMMA HopOut ==
    ASSUME PathsInv, NEW W, NEW v, Tables(W, v),
           NEW i \in Stations, NEW j \in Stations, i # j, pathCosts[<<i, j>>] # Inf
    PROVE  LET hop == paths[<<i, j>>]
           IN  /\ hop \in Stations /\ Bidirectional(i, hop)
               /\ pathCosts[<<i, j>>] = linkCosts[<<i, hop>>] + pathCosts[<<hop, j>>]
               /\ pathCosts[<<hop, j>>] # Inf
               /\ hop # j => W[<<i, j>>] = v[hop] + W[<<hop, j>>]
  <1> DEFINE hop == paths[<<i, j>>]
  <1>1. FirstHop(linkCosts, pathCosts, W, v, i, j, hop)
    BY DEF Tables, SolvedBy, HopsOK
  <1> HIDE DEF hop
  <1>2. /\ hop \in Stations /\ DirectCosts(linkCosts)[<<i, hop>>] # Inf
        /\ pathCosts[<<i, j>>]
             = DirectCosts(linkCosts)[<<i, hop>>] + pathCosts[<<hop, j>>]
        /\ hop # j => W[<<i, j>>] = v[hop] + W[<<hop, j>>]
    BY <1>1 DEF FirstHop
  <1>3. /\ Inf \in Nat
        /\ pathCosts[<<i, j>>] \in Nat /\ pathCosts[<<i, j>>] <= Inf
        /\ pathCosts[<<hop, j>>] \in Nat /\ pathCosts[<<hop, j>>] <= Inf
        /\ linkCosts[<<i, hop>>] \in Nat
        /\ DirectCosts(linkCosts)[<<i, hop>>]
             = IF linkCosts[<<hop, i>>] = Inf THEN Inf ELSE linkCosts[<<i, hop>>]
    BY <1>2, TableEntries
  <1>4. /\ linkCosts[<<hop, i>>] # Inf /\ linkCosts[<<i, hop>>] # Inf
        /\ DirectCosts(linkCosts)[<<i, hop>>] = linkCosts[<<i, hop>>]
    BY <1>2, <1>3
  <1> HIDE DEF DirectCosts
  <1>5. pathCosts[<<hop, j>>] # Inf
    BY <1>2, <1>3, <1>4
  <1> QED
    BY <1>2, <1>4, <1>5 DEF hop, Bidirectional

(* The stations from which j can be reached, and the step of a frame to j.  *)
Reaching(j) == {b \in Stations : b = j \/ pathCosts[<<b, j>>] # Inf}

Step(j, b) == IF b = j THEN j ELSE paths[<<b, j>>]

(* b is cheaper than a on the way to j, or as cheap and lighter.            *)
Nearer(W, j, b, a) ==
    \/ pathCosts[<<b, j>>] < pathCosts[<<a, j>>]
    \/ /\ pathCosts[<<b, j>>] = pathCosts[<<a, j>>]
       /\ b = j \/ W[<<b, j>>] < W[<<a, j>>]

LEMMA StepNearer ==
    ASSUME PathsInv, NEW W, NEW v, Tables(W, v), NEW j \in ToSet(mps),
           NEW b \in Reaching(j)
    PROVE  Step(j, b) \in Reaching(j) /\ (b # j => Nearer(W, j, Step(j, b), b))
  <1>1. b \in Stations /\ j \in Stations /\ pathCosts[<<j, j>>] = 0
    BY TableEntries DEF Reaching
  <1>2. CASE b = j
    BY <1>1, <1>2 DEF Reaching, Step
  <1>3. CASE b # j
    <2> DEFINE hop == paths[<<b, j>>]
    <2>1. /\ hop \in Stations
          /\ pathCosts[<<b, j>>] = linkCosts[<<b, hop>>] + pathCosts[<<hop, j>>]
          /\ pathCosts[<<hop, j>>] # Inf
          /\ hop # j => W[<<b, j>>] = v[hop] + W[<<hop, j>>]
      BY <1>1, <1>3, HopOut DEF Reaching
    <2> HIDE DEF hop
    <2>2. /\ linkCosts[<<b, hop>>] \in Nat /\ pathCosts[<<hop, j>>] \in Nat
          /\ pathCosts[<<b, j>>] \in Nat
          /\ v[hop] \in Nat \ {0} /\ W[<<hop, j>>] \in Nat /\ W[<<b, j>>] \in Nat
      BY <1>1, <2>1, TableEntries
    <2>3. hop \in Reaching(j)
      BY <2>1 DEF Reaching
    <2>4. Nearer(W, j, hop, b)
      BY <2>1, <2>2 DEF Nearer
    <2> QED
      BY <1>3, <2>3, <2>4 DEF Step, hop
  <1> QED
    BY <1>2, <1>3

(* The stations of a frame on its way from i to j.                          *)
Walk(at, i, j) ==
    /\ at \in [0..Cardinality(Stations) -> Reaching(j)]
    /\ at[0] = i
    /\ \A n \in 1..Cardinality(Stations) : at[n] = Step(j, at[n - 1])

PositionIs(at, i, j) ==
    at = [n \in 0..Cardinality(Stations) |->
            IF n = 0 THEN i
            ELSE LET h == at[n - 1] IN IF h = j THEN j ELSE paths[<<h, j>>]]

LEMMA PositionWalks ==
    ASSUME PathsInv, NEW W, NEW v, Tables(W, v), NEW j \in ToSet(mps),
           NEW i \in Reaching(j)
    PROVE  Walk(Position(i, j), i, j)
  <1> DEFINE N == Cardinality(Stations)
             V == Reaching(j)
             g == [a \in (1..N) \X V |-> Step(j, a[2])]
  <1>1. N \in Nat
    BY StationsAssumption, FS_CardinalityType
  <1>2. \A b \in V : Step(j, b) \in V
    BY StepNearer
  <1> HIDE DEF N, V
  <1>3. Steps(N, V, i, g)
    <2>1. \A a \in (1..N) \X V : g[a] \in V
      BY <1>2
    <2> QED
      BY <1>1, <2>1 DEF Steps, V
  <1>4. \A n \in 1..N, b \in V : g[<<n, b>>] = Step(j, b)
    OBVIOUS
  <1> HIDE DEF g
  <1>5. PICK f : Run(f, N, V, i, g)
    BY <1>3, Recursion
  <1>6. PositionIs(f, i, j)
    <2>1. f \in [0..N -> V] /\ f[0] = i /\ \A n \in 1..N : f[n] = g[<<n, f[n - 1]>>]
      BY <1>5 DEF Run
    <2>2. \A n \in 1..N : n - 1 \in 0..N /\ f[n - 1] \in V
      BY <1>1, <2>1
    <2>3. ASSUME NEW n \in 0..N
          PROVE  f[n] = IF n = 0 THEN i ELSE Step(j, f[n - 1])
      <3>1. CASE n = 0
        BY <2>1, <3>1
      <3>2. CASE n # 0
        <4>1. n \in 1..N
          BY <1>1, <3>2
        <4> QED
          BY <1>4, <2>1, <2>2, <3>2, <4>1
      <3> QED
        BY <3>1, <3>2
    <2>4. f = [n \in 0..N |-> f[n]]
      BY <2>1
    <2>5. f = [n \in 0..N |-> IF n = 0 THEN i ELSE Step(j, f[n - 1])]
      BY <2>3, <2>4
    <2> QED
      BY <2>5 DEF PositionIs, Step, N
  <1> DEFINE h == CHOOSE x : PositionIs(x, i, j)
  <1>7. PositionIs(h, i, j)
    BY <1>6
  <1>8. Position(i, j) = h
    BY DEF Position, PositionIs
  <1> HIDE DEF h
  <1>9. \A n \in 0..N : h[n] = IF n = 0 THEN i ELSE Step(j, h[n - 1])
    <2> DEFINE e(n) == IF n = 0 THEN i ELSE Step(j, h[n - 1])
    <2>1. h = [n \in 0..N |-> e(n)]
      BY <1>7 DEF PositionIs, N, Step
    <2> HIDE DEF e
    <2>2. \A n \in 0..N : h[n] = e(n)
      BY <2>1
    <2> QED
      BY <2>2 DEF e
  <1>10. h \in [0..N -> V]
    <2> DEFINE T == {n \in 0..N : h[n] \in V}
    <2>1. 0 \in T
      BY <1>1, <1>9 DEF V
    <2>2. ASSUME NEW n \in 1..N, n - 1 \in T PROVE n \in T
      <3>1. n \in 0..N /\ n # 0 /\ h[n - 1] \in V
        BY <1>1, <2>2
      <3>2. h[n] = Step(j, h[n - 1])
        BY <1>9, <3>1
      <3> QED
        BY <1>2, <3>1, <3>2
    <2> HIDE DEF T
    <2>3. 0..N \subseteq T
      BY <1>1, <2>1, <2>2, Induction
    <2>4. DOMAIN h = 0..N /\ h = [n \in 0..N |-> h[n]]
      BY <1>7 DEF PositionIs, N
    <2> QED
      BY <2>3, <2>4 DEF T
  <1>11. h[0] = i /\ \A n \in 1..N : h[n] = Step(j, h[n - 1])
    <2>1. 0 \in 0..N /\ \A n \in 1..N : n \in 0..N /\ n # 0
      BY <1>1
    <2> QED
      BY <1>9, <2>1
  <1> QED
    BY <1>8, <1>10, <1>11 DEF Walk, N, V

(* As long as it is not at j, the frame gets nearer with every step.        *)
LEMMA WalkNearer ==
    ASSUME PathsInv, NEW W, NEW v, Tables(W, v), NEW j \in ToSet(mps),
           NEW i, NEW at, Walk(at, i, j),
           NEW M \in 0..Cardinality(Stations), \A a \in 0..(M - 1) : at[a] # j
    PROVE  \A n \in 0..M : \A a \in 0..(n - 1) : at[n] # at[a]
  <1> DEFINE N == Cardinality(Stations)
             T == {n \in 0..M : \A a \in 0..(n - 1) : Nearer(W, j, at[n], at[a])}
  <1>1. N \in Nat /\ M \in 0..N
    BY StationsAssumption, FS_CardinalityType
  <1>2. \A n \in 0..N : at[n] \in Reaching(j) /\ at[n] \in Stations
    BY DEF Walk, Reaching
  <1>3. \A n \in 0..N : /\ pathCosts[<<at[n], j>>] \in Nat
                        /\ W[<<at[n], j>>] \in Nat
    <2>1. j \in Stations
      BY TableEntries
    <2> QED
      BY <1>2, <2>1, TableEntries
  <1> HIDE DEF N
  <1>4. 0 \in T
    BY <1>1
  <1>5. ASSUME NEW n \in 1..M, n - 1 \in T PROVE n \in T
    <2>1. n \in 1..N /\ n \in 0..M /\ n - 1 \in 0..(M - 1) /\ n - 1 \in 0..N /\ n \in 0..N
      BY <1>1
    <2>2. Nearer(W, j, at[n], at[n - 1])
      <3>1. at[n] = Step(j, at[n - 1]) /\ at[n - 1] # j
        BY <2>1 DEF Walk, N
      <3> QED
        BY <1>2, <2>1, <3>1, StepNearer
    <2> SUFFICES ASSUME NEW a \in 0..(n - 1) PROVE Nearer(W, j, at[n], at[a])
      BY <2>1
    <2>3. CASE a = n - 1
      BY <2>2, <2>3
    <2>4. CASE a # n - 1
      <3>1. a \in 0..((n - 1) - 1) /\ a \in 0..N /\ a \in 0..(M - 1)
        BY <1>1, <2>1, <2>4
      <3>2. Nearer(W, j, at[n - 1], at[a])
        BY <1>5, <3>1
      <3>3. at[n - 1] # j /\ at[a] # j
        BY <2>1, <3>1
      <3>4. /\ pathCosts[<<at[n], j>>] \in Nat /\ W[<<at[n], j>>] \in Nat
            /\ pathCosts[<<at[n - 1], j>>] \in Nat /\ W[<<at[n - 1], j>>] \in Nat
            /\ pathCosts[<<at[a], j>>] \in Nat /\ W[<<at[a], j>>] \in Nat
        BY <1>3, <2>1, <3>1
      <3> QED
        BY <2>2, <3>2, <3>3, <3>4 DEF Nearer
    <2> QED
      BY <2>3, <2>4
  <1> HIDE DEF T
  <1>6. 0..M \subseteq T
    BY <1>1, <1>4, <1>5, Induction
  <1> SUFFICES ASSUME NEW n \in 0..M, NEW a \in 0..(n - 1) PROVE at[n] # at[a]
    OBVIOUS
  <1>7. Nearer(W, j, at[n], at[a])
    BY <1>6 DEF T
  <1>8. a \in 0..N /\ a \in 0..(M - 1)
    BY <1>1
  <1>9. at[a] # j /\ pathCosts[<<at[a], j>>] \in Nat /\ W[<<at[a], j>>] \in Nat
    BY <1>3, <1>8
  <1> QED
    BY <1>7, <1>9 DEF Nearer

(* The frame is at j after fewer steps than there are stations, and has not *)
(* been anywhere twice.                                                     *)
Arrives(at, j, M) ==
    /\ M \in Nat /\ M < Cardinality(Stations)
    /\ at[M] = j /\ \A a \in 0..(M - 1) : at[a] # j
    /\ \A n \in 0..M : \A a \in 0..(n - 1) : at[n] # at[a]

LEMMA WalkArrives ==
    ASSUME PathsInv, NEW W, NEW v, Tables(W, v), NEW j \in ToSet(mps),
           NEW i, NEW at, Walk(at, i, j)
    PROVE  \E M : Arrives(at, j, M)
  <1> DEFINE N == Cardinality(Stations)
             T == {n \in 0..N : at[n] = j}
  <1>1. N \in Nat /\ IsFiniteSet(Stations)
    BY StationsAssumption, FS_CardinalityType
  <1>2. at \in [0..N -> Stations]
    BY DEF Walk, Reaching
  <1>3. PICK a \in 0..N, b \in 0..N : a # b /\ at[a] = at[b]
    BY <1>1, <1>2, Repeats
  <1> HIDE DEF N
  <1>4. a \in 0..(b - 1) \/ b \in 0..(a - 1)
    BY <1>1, <1>3
  <1>5. ASSUME NEW M \in 0..N, \A n \in 0..(M - 1) : at[n] # j
        PROVE  M # N /\ \A n \in 0..M : \A m \in 0..(n - 1) : at[n] # at[m]
    <2>1. \A n \in 0..M : \A m \in 0..(n - 1) : at[n] # at[m]
      BY <1>5, WalkNearer DEF N
    <2> QED
      BY <1>3, <1>4, <2>1
  <1>6. T # {}
    <2> SUFFICES ASSUME \A n \in 0..N : at[n] # j PROVE FALSE
      OBVIOUS
    <2>1. N \in 0..N /\ \A n \in 0..(N - 1) : n \in 0..N
      BY <1>1
    <2> QED
      BY <1>5, <2>1
  <1>7. PICK M \in T : \A m \in T : M <= m
    <2>1. T \in SUBSET Nat
      BY <1>1
    <2> QED
      BY <1>6, <2>1, LeastNumber
  <1>8. \A n \in 0..(M - 1) : at[n] # j
    <2>1. \A n \in 0..(M - 1) : n \in 0..N /\ ~(M <= n)
      BY <1>1
    <2> QED
      BY <1>7, <2>1
  <1>9. M \in 0..N /\ at[M] = j
    OBVIOUS
  <1>10. Arrives(at, j, M)
    BY <1>1, <1>5, <1>8, <1>9 DEF Arrives, N
  <1> QED
    BY <1>10

(* Once at j the frame stays there.                                         *)
LEMMA ArrivedStays ==
    ASSUME NEW j, NEW i, NEW at, Walk(at, i, j), NEW M, Arrives(at, j, M)
    PROVE  at[Cardinality(Stations)] = j
  <1> DEFINE N == Cardinality(Stations)
             T == {n \in 0..N : n < M \/ at[n] = j}
  <1>1. N \in Nat /\ M \in Nat /\ M < N /\ at[M] = j
    BY StationsAssumption, FS_CardinalityType DEF Arrives
  <1>2. \A n \in 1..N : at[n] = Step(j, at[n - 1])
    BY DEF Walk
  <1> HIDE DEF N
  <1>3. 0 \in T
    BY <1>1
  <1>4. ASSUME NEW n \in 1..N, n - 1 \in T PROVE n \in T
    <2>1. n - 1 < M => n < M \/ n = M
      BY <1>1
    <2>2. at[n - 1] = j => at[n] = j
      BY <1>2 DEF Step
    <2>3. n \in 0..N
      BY <1>1
    <2> QED
      BY <1>1, <1>4, <2>1, <2>2, <2>3
  <1> HIDE DEF T
  <1>5. 0..N \subseteq T
    BY <1>1, <1>3, <1>4, Induction
  <1> QED
    BY <1>1, <1>5 DEF T, N

LEMMA NextHopsReached == PathsInv => NextHopsReach
  <1> SUFFICES ASSUME PathsInv, Current,
                      NEW i \in Range(mps), NEW j \in Range(mps), i # j,
                      pathCosts[<<i, j>>] # Inf
               PROVE  /\ Bidirectional(i, paths[<<i, j>>])
                      /\ pathCosts[<<i, j>>]
                           = linkCosts[<<i, paths[<<i, j>>]>>]
                             + pathCosts[<<paths[<<i, j>>], j>>]
                      /\ Position(i, j)[Cardinality(Stations)] = j
    BY DEF NextHopsReach
  <1>1. PICK W, v : Tables(W, v)
    BY DEF PathsInv, TableInv, Solved, Tables
  <1>2. i \in ToSet(mps) /\ j \in ToSet(mps)
    BY DEF Range, ToSet
  <1>3. i \in Stations /\ j \in Stations
    BY <1>1, <1>2, TableEntries
  <1>4. i \in Reaching(j)
    BY <1>3 DEF Reaching
  <1>5. Walk(Position(i, j), i, j)
    BY <1>1, <1>2, <1>4, PositionWalks
  <1>6. PICK M : Arrives(Position(i, j), j, M)
    BY <1>1, <1>2, <1>5, WalkArrives
  <1>7. Position(i, j)[Cardinality(Stations)] = j
    BY <1>5, <1>6, ArrivedStays
  <1> QED
    BY <1>1, <1>3, <1>7, HopOut

(* The stations are all registered when there are as many as in the order.  *)
LEMMA AllStations ==
    ASSUME OrderInv, AllRegistered PROVE ToSet(mps) = Stations
  <1>1. /\ Len(mps) = Len(Order) /\ mps \in Seq(Stations)
        /\ \A n \in 1..Len(mps) : mps[n] = Order[n]
    BY DEF AllRegistered, OrderInv
  <1>2. \A x \in Stations : \E n \in 1..Len(Order) : x = Order[n]
    BY Constants DEF ToSet
  <1>3. /\ ToSet(mps) = {mps[n] : n \in 1..Len(mps)}
        /\ \A n \in 1..Len(mps) : mps[n] \in Stations
    BY <1>1 DEF ToSet
  <1>4. \A x \in Stations : \E n \in 1..Len(mps) : x = mps[n]
    BY <1>1, <1>2
  <1> QED
    BY <1>3, <1>4

(* The portals are as far as each other from a station that is none, and    *)
(* the lightest path from a portal leaves the wired network at once.        *)
LEMMA PortalsAlike ==
    ASSUME PathsInv, AllRegistered, NEW W, NEW v, Tables(W, v),
           NEW x \in Stations \ Portals, NEW p \in Portals, NEW q \in Portals
    PROVE  pathCosts[<<p, x>>] = pathCosts[<<q, x>>]
  <1>1. ToSet(mps) = Stations /\ Portals \subseteq Stations
    BY AllStations, Constants DEF PathsInv
  <1>2. ASSUME NEW a \in Portals, NEW b \in Portals
        PROVE  pathCosts[<<a, x>>] <= pathCosts[<<b, x>>]
    <2>1. /\ a \in Stations /\ b \in Stations /\ Inf # 0
          /\ linkCosts[<<a, b>>] = 0 /\ linkCosts[<<b, a>>] = 0
      BY <1>1, Constants DEF PathsInv, LinkInv
    <2>2. DirectCosts(linkCosts)[<<a, b>>] = 0
      BY <2>1, TableEntries
    <2>3. /\ pathCosts[<<a, b>>] \in Nat /\ pathCosts[<<a, x>>] \in Nat
          /\ pathCosts[<<b, x>>] \in Nat
      BY <2>1, TableEntries
    <2>4. NoWorse(pathCosts[<<a, b>>], W[<<a, b>>],
                  DirectCosts(linkCosts)[<<a, b>>], 0)
      BY <2>1 DEF Tables, SolvedBy, AtMostDirect
    <2>5. pathCosts[<<a, b>>] = 0
      BY <2>2, <2>3, <2>4 DEF NoWorse
    <2>6. CASE a = b
      BY <2>3, <2>6
    <2>7. CASE a # b
      <3>1. NoWorse(pathCosts[<<a, x>>], W[<<a, x>>],
                    pathCosts[<<a, b>>] + pathCosts[<<b, x>>],
                    W[<<a, b>>] + v[b] + W[<<b, x>>])
        BY <1>1, <2>1, <2>7 DEF Tables, SolvedBy, Triangle
      <3> QED
        BY <2>3, <2>5, <3>1 DEF NoWorse
    <2> QED
      BY <2>6, <2>7
  <1>3. pathCosts[<<p, x>>] \in Nat /\ pathCosts[<<q, x>>] \in Nat
    BY <1>1, TableEntries
  <1> QED
    BY <1>2, <1>3

LEMMA PortalServed == PathsInv => PortalServesClient
  <1> SUFFICES ASSUME PathsInv, NEW c \in Clients, proxyOf[c] # None
               PROVE  /\ proxyOf[c] \in Portals => portalOf[c] = proxyOf[c]
                      /\ Current /\ proxyOf[c] \notin Portals
                           /\ (\E p \in Portals : pathCosts[<<p, proxyOf[c]>>] # Inf)
                         => /\ portalOf[c] # None
                            /\ paths[<<portalOf[c], proxyOf[c]>>] \notin Portals
                            /\ \A p \in Portals : pathCosts[<<portalOf[c], proxyOf[c]>>]
                                                    <= pathCosts[<<p, proxyOf[c]>>]
    BY DEF PortalServesClient
  <1> DEFINE x == proxyOf[c]
             entries == EntryPortals(paths, x)
             least == Min(entries)
  <1>1. /\ x \in Stations /\ AllRegistered
        /\ portalOf[c] = BestPortal(paths, x, portalOf[c])
    BY DEF PathsInv, ProxyInv
  <1>2. ToSet(mps) = Stations /\ Portals \subseteq Stations /\ None \notin Stations
    BY <1>1, AllStations, Constants DEF PathsInv
  <1>3. portalOf[c] = IF x \in Portals THEN x
                      ELSE IF entries = {} THEN portalOf[c] ELSE mps[least]
    BY <1>1 DEF BestPortal
  <1> HIDE DEF x, entries, least
  <1>4. ASSUME Current, x \notin Portals,
               NEW o \in Portals, pathCosts[<<o, x>>] # Inf
        PROVE  /\ portalOf[c] # None /\ paths[<<portalOf[c], x>>] \notin Portals
               /\ \A p \in Portals : pathCosts[<<portalOf[c], x>>] <= pathCosts[<<p, x>>]
    <2>1. PICK W, v : Tables(W, v)
      BY <1>4 DEF PathsInv, TableInv, Solved, Tables
    <2>2. \A p, q \in Portals : pathCosts[<<p, x>>] = pathCosts[<<q, x>>]
      BY <1>1, <1>4, <2>1, PortalsAlike
    <2>3. \A p \in Portals : /\ pathCosts[<<p, x>>] # Inf /\ W[<<p, x>>] \in Nat
                             /\ pathCosts[<<p, x>>] \in Nat
      BY <1>1, <1>2, <1>4, <2>1, <2>2, TableEntries
    <2>4. PICK p \in Portals : \A q \in Portals : W[<<p, x>>] <= W[<<q, x>>]
      <3> DEFINE T == {W[<<q, x>>] : q \in Portals}
      <3>1. T \in SUBSET Nat /\ T # {}
        BY <1>4, <2>3
      <3>2. PICK n \in T : \A m \in T : n <= m
        BY <3>1, LeastNumber
      <3> QED
        BY <3>2
    <2> DEFINE hop == paths[<<p, x>>]
    <2>5. /\ hop \in Stations
          /\ hop # x => W[<<p, x>>] = v[hop] + W[<<hop, x>>]
      <3>1. p \in Stations /\ p # x /\ pathCosts[<<p, x>>] # Inf
        BY <1>2, <1>4, <2>3
      <3>2. ASSUME NEW a \in Stations, NEW b \in Stations, a # b,
                   pathCosts[<<a, b>>] # Inf
            PROVE  LET h == paths[<<a, b>>]
                   IN  /\ h \in Stations /\ Bidirectional(a, h)
                       /\ pathCosts[<<a, b>>] = linkCosts[<<a, h>>] + pathCosts[<<h, b>>]
                       /\ pathCosts[<<h, b>>] # Inf
                       /\ h # b => W[<<a, b>>] = v[h] + W[<<h, b>>]
        BY <2>1, <3>2, HopOut
      <3> QED
        BY <1>1, <3>1, <3>2
    <2>6. hop \notin Portals
      <3> SUFFICES ASSUME hop \in Portals PROVE FALSE
        OBVIOUS
      <3>1. W[<<p, x>>] <= W[<<hop, x>>] /\ W[<<p, x>>] = v[hop] + W[<<hop, x>>]
        BY <1>4, <2>4, <2>5
      <3>2. v[hop] \in Nat \ {0} /\ W[<<hop, x>>] \in Nat
        BY <1>1, <2>1, <2>5, TableEntries
      <3> HIDE DEF hop
      <3> QED
        BY <3>1, <3>2
    <2> HIDE DEF hop
    <2>7. PICK n \in DOMAIN mps : mps[n] = p
      BY <1>2 DEF ToSet
    <2>8. n \in entries
      <3>1. paths[<<mps[n], x>>] = hop
        BY <2>7 DEF hop
      <3> QED
        BY <1>2, <2>4, <2>5, <2>6, <2>7, <3>1 DEF entries, EntryPortals
    <2>9. least \in entries
      <3>1. entries \in SUBSET Nat
        <4>1. DOMAIN mps = 1..Len(mps) /\ Len(mps) \in Nat
          BY DEF PathsInv, OrderInv
        <4>2. entries \subseteq DOMAIN mps
          BY DEF entries, EntryPortals
        <4> QED
          BY <4>1, <4>2
      <3>2. PICK m \in entries : \A k \in entries : m <= k
        BY <2>8, <3>1, LeastNumber
      <3> QED
        BY <3>2 DEF Min, least
    <2>10. /\ portalOf[c] = mps[least] /\ mps[least] \in Portals
           /\ paths[<<mps[least], x>>] \notin Portals
      BY <1>3, <1>4, <2>9 DEF entries, EntryPortals
    <2> QED
      BY <1>2, <2>2, <2>3, <2>10
  <1> QED
    BY <1>3, <1>4 DEF x

(* A route is a sequence of stations, all of them different.                *)
OpenWay(way, m) ==
    /\ m \in 2..Cardinality(Stations) /\ way \in [1..m -> Stations]
    /\ \A a, b \in 1..m : way[a] = way[b] => a = b
    /\ \A n \in 2..m : Bidirectional(way[n - 1], way[n])

LEMMA RouteParts ==
    ASSUME NEW r \in OpenRoutes
    PROVE  \E m : OpenWay(r.way, m) /\ r.ends = <<r.way[1], r.way[m]>>
  <1>1. Cardinality(Stations) \in Nat
    BY StationsAssumption, FS_CardinalityType
  <1>2. PICK s \in SeqOf(Stations, Cardinality(Stations)) :
          /\ Len(s) > 1 /\ IsInjective(s)
          /\ r = [ends |-> <<s[1], Last(s)>>, way |-> s]
    BY DEF OpenRoutes, Routes
  <1>3. PICK m \in 0..Cardinality(Stations) : s \in [1..m -> Stations]
    BY DEF SeqOf
  <1>4. Len(s) = m /\ m \in 2..Cardinality(Stations) /\ DOMAIN s = 1..m
    <2>1. m \in Nat
      BY <1>1
    <2>2. Len(s) = m
      BY <1>3, <2>1
    <2> QED
      BY <1>1, <1>2, <1>3, <2>2
  <1>5. r.way = s /\ r.ends = <<s[1], s[m]>>
    BY <1>2, <1>4 DEF Last
  <1>6. \A n \in 2..m : Bidirectional(s[n - 1], s[n])
    <2>1. \A n \in 2..Len(r.way) : Bidirectional(r.way[n - 1], r.way[n])
      BY DEF OpenRoutes
    <2> QED
      BY <1>4, <1>5, <2>1
  <1>7. OpenWay(s, m)
    BY <1>2, <1>3, <1>4, <1>6 DEF OpenWay, IsInjective
  <1> QED
    BY <1>5, <1>7

LEMMA RouteMade ==
    ASSUME NEW way, NEW m, OpenWay(way, m)
    PROVE  [ends |-> <<way[1], way[m]>>, way |-> way] \in OpenRoutes
  <1> DEFINE r == [ends |-> <<way[1], way[m]>>, way |-> way]
  <1>1. /\ Cardinality(Stations) \in Nat /\ m \in 2..Cardinality(Stations)
        /\ way \in [1..m -> Stations]
    BY StationsAssumption, FS_CardinalityType DEF OpenWay
  <1>2. m \in Nat /\ m \in 0..Cardinality(Stations)
    BY <1>1
  <1>3. Len(way) = m /\ DOMAIN way = 1..m
    BY <1>1, <1>2
  <1>4. IsInjective(way)
    BY <1>3 DEF OpenWay, IsInjective
  <1>5. way \in SeqOf(Stations, Cardinality(Stations))
    BY <1>1, <1>2 DEF SeqOf
  <1>6. Len(way) > 1 /\ Last(way) = way[m]
    BY <1>1, <1>3 DEF Last
  <1>7. r \in Routes
    BY <1>4, <1>5, <1>6 DEF Routes
  <1>8. \A n \in 2..Len(r.way) : Bidirectional(r.way[n - 1], r.way[n])
    BY <1>3 DEF OpenWay
  <1> QED
    BY <1>7, <1>8 DEF OpenRoutes

(* The cost of a route up to each of its stations.                          *)
Sums(f, way, m) ==
    /\ f \in [1..m -> Nat] /\ f[1] = 0
    /\ \A n \in 2..m : f[n] = f[n - 1] + linkCosts[<<way[n - 1], way[n]>>]

SumsAre(f, r) ==
    f = [n \in 1..Len(r.way) |->
           IF n = 1 THEN 0 ELSE f[n - 1] + linkCosts[<<r.way[n - 1], r.way[n]>>]]

LEMMA RouteSums ==
    ASSUME PathsInv, NEW r, NEW m, OpenWay(r.way, m)
    PROVE  \E f : Sums(f, r.way, m) /\ RouteCost(r) = f[m]
  <1> DEFINE way == r.way
             link(n) == linkCosts[<<way[n - 1], way[n]>>]
             N == m - 1
             g == [a \in (1..N) \X Nat |-> a[2] + link(a[1] + 1)]
  <1>1. m \in Nat /\ m > 1 /\ way \in [1..m -> Stations] /\ N \in Nat
    BY StationsAssumption, FS_CardinalityType DEF OpenWay
  <1>2. \A n \in 2..m : link(n) \in Nat
    <2>1. linkCosts \in [Pairs -> 0..Inf] /\ Inf \in Nat
      BY Constants DEF PathsInv, LinkInv, LinksOK
    <2>2. ASSUME NEW n \in 2..m PROVE <<way[n - 1], way[n]>> \in Pairs
      <3>1. n - 1 \in 1..m /\ n \in 1..m
        BY <1>1
      <3> QED
        BY <1>1, <3>1 DEF Pairs
    <2> QED
      BY <2>1, <2>2
  <1>3. Len(r.way) = m
    BY <1>1
  <1> HIDE DEF way, link
  <1>4. Steps(N, Nat, 0, g)
    <2>1. ASSUME NEW a \in (1..N) \X Nat PROVE g[a] \in Nat
      <3>1. a[2] \in Nat /\ a[1] + 1 \in 2..m
        BY <1>1
      <3> QED
        BY <1>2, <3>1
    <2> QED
      BY <1>1, <2>1 DEF Steps
  <1>5. \A n \in 1..N, b \in Nat : g[<<n, b>>] = b + link(n + 1)
    OBVIOUS
  <1> HIDE DEF g
  <1>6. PICK e : Run(e, N, Nat, 0, g)
    BY <1>4, Recursion
  <1> DEFINE u == [n \in 1..m |-> e[n - 1]]
  <1>7. SumsAre(u, r)
    <2>1. e \in [0..N -> Nat] /\ e[0] = 0 /\ \A n \in 1..N : e[n] = g[<<n, e[n - 1]>>]
      BY <1>6 DEF Run
    <2>2. ASSUME NEW n \in 1..m
          PROVE  u[n] = IF n = 1 THEN 0 ELSE u[n - 1] + link(n)
      <3>1. CASE n = 1
        BY <2>1, <3>1
      <3>2. CASE n # 1
        <4>1. /\ n - 1 \in 1..N /\ (n - 1) + 1 = n /\ n - 1 \in 1..m
              /\ (n - 1) - 1 \in 0..N
          BY <1>1, <3>2
        <4>2. e[n - 1] = e[(n - 1) - 1] + link(n)
          BY <1>5, <2>1, <4>1
        <4> QED
          BY <3>2, <4>1, <4>2
      <3> QED
        BY <3>1, <3>2
    <2>3. u = [n \in 1..m |-> u[n]]
      OBVIOUS
    <2> HIDE DEF u
    <2>4. u = [n \in 1..m |-> IF n = 1 THEN 0 ELSE u[n - 1] + link(n)]
      BY <2>2, <2>3
    <2> QED
      BY <1>3, <2>4 DEF SumsAre, link, way
  <1> HIDE DEF u
  <1> DEFINE h == CHOOSE x : SumsAre(x, r)
  <1>8. SumsAre(h, r)
    BY <1>7
  <1>9. RouteCost(r) = h[m]
    BY <1>3 DEF RouteCost, SumsAre
  <1> HIDE DEF h
  <1>10. /\ DOMAIN h = 1..m /\ h = [n \in 1..m |-> h[n]]
         /\ \A n \in 1..m : h[n] = IF n = 1 THEN 0 ELSE h[n - 1] + link(n)
    <2> DEFINE t(n) == IF n = 1 THEN 0 ELSE h[n - 1] + link(n)
    <2>1. h = [n \in 1..m |-> t(n)]
      BY <1>3, <1>8 DEF SumsAre, link, way
    <2> HIDE DEF t
    <2>2. DOMAIN h = 1..m /\ \A n \in 1..m : h[n] = t(n)
      BY <2>1
    <2>3. h = [n \in 1..m |-> h[n]]
      BY <2>1
    <2> QED
      BY <2>2, <2>3 DEF t
  <1>11. h[1] = 0 /\ \A n \in 2..m : h[n] = h[n - 1] + link(n)
    <2>1. 1 \in 1..m /\ \A n \in 2..m : n \in 1..m /\ n # 1
      BY <1>1
    <2> QED
      BY <1>10, <2>1
  <1>12. \A n \in 1..m : h[n] \in Nat
    <2> DEFINE T == {n \in 0..N : h[n + 1] \in Nat}
    <2>1. 0 \in T
      BY <1>1, <1>11
    <2>2. ASSUME NEW n \in 1..N, n - 1 \in T PROVE n \in T
      <3>1. n + 1 \in 2..m /\ (n + 1) - 1 = n /\ (n - 1) + 1 = n /\ n \in 0..N
        BY <1>1
      <3>2. h[n] \in Nat
        BY <2>2, <3>1
      <3>3. h[n + 1] = h[n] + link(n + 1)
        BY <1>11, <3>1
      <3> QED
        BY <1>2, <3>1, <3>2, <3>3
    <2> HIDE DEF T, N
    <2>3. 0..N \subseteq T
      BY <1>1, <2>1, <2>2, Induction
    <2> SUFFICES ASSUME NEW n \in 1..m PROVE h[n] \in Nat
      OBVIOUS
    <2>4. n - 1 \in 0..N /\ (n - 1) + 1 = n
      BY <1>1 DEF N
    <2> QED
      BY <2>3, <2>4 DEF T
  <1>13. Sums(h, way, m)
    BY <1>10, <1>11, <1>12 DEF Sums, link
  <1> QED
    BY <1>9, <1>13 DEF way

(* The path to each station of a route is not dearer than the route.        *)
LEMMA RouteNotCheaper ==
    ASSUME PathsInv, NEW W, NEW v, Tables(W, v), NEW way, NEW m, OpenWay(way, m),
           NEW f, Sums(f, way, m)
    PROVE  \A n \in 1..m : pathCosts[<<way[1], way[n]>>] <= f[n]
  <1> DEFINE N == m - 1
             T == {n \in 0..N : pathCosts[<<way[1], way[n + 1]>>] <= f[n + 1]}
             R == ToSet(mps)
  <1>1. m \in Nat /\ m > 1 /\ way \in [1..m -> Stations] /\ N \in Nat
    BY StationsAssumption, FS_CardinalityType DEF OpenWay
  <1>2. \A n \in 1..m : way[n] \in Stations /\ f[n] \in Nat
    BY <1>1 DEF Sums
  <1>3. ASSUME NEW n \in 2..m
        PROVE  /\ n - 1 \in 1..m /\ n \in 1..m
               /\ DirectCosts(linkCosts)[<<way[n - 1], way[n]>>]
                    = linkCosts[<<way[n - 1], way[n]>>]
               /\ pathCosts[<<way[n - 1], way[n]>>] <= linkCosts[<<way[n - 1], way[n]>>]
               /\ way[n - 1] \in R /\ way[n - 1] # way[n]
    <2>1. n - 1 \in 1..m /\ n \in 1..m /\ n - 1 # n
      BY <1>1
    <2>2. way[n - 1] \in Stations /\ way[n] \in Stations
      BY <1>2, <2>1
    <2>3. /\ linkCosts[<<way[n - 1], way[n]>>] # Inf
          /\ linkCosts[<<way[n], way[n - 1]>>] # Inf
      BY DEF OpenWay, Bidirectional
    <2>4. DirectCosts(linkCosts)[<<way[n - 1], way[n]>>]
            = linkCosts[<<way[n - 1], way[n]>>]
      BY <2>2, <2>3, TableEntries
    <2>5. NoWorse(pathCosts[<<way[n - 1], way[n]>>], W[<<way[n - 1], way[n]>>],
                  DirectCosts(linkCosts)[<<way[n - 1], way[n]>>], 0)
      BY <2>2 DEF Tables, SolvedBy, AtMostDirect
    <2>6. /\ pathCosts[<<way[n - 1], way[n]>>] \in Nat
          /\ linkCosts[<<way[n - 1], way[n]>>] \in Nat
          /\ W[<<way[n - 1], way[n]>>] \in Nat
      BY <2>2, TableEntries
    <2>7. pathCosts[<<way[n - 1], way[n]>>] <= linkCosts[<<way[n - 1], way[n]>>]
      BY <2>4, <2>5, <2>6 DEF NoWorse
    <2>8. way[n - 1] \in R
      BY <2>2, <2>3 DEF PathsInv, LinkInv, LinksOK
    <2>9. way[n - 1] # way[n]
      BY <2>1 DEF OpenWay
    <2> QED
      BY <2>1, <2>4, <2>7, <2>8, <2>9
  <1>4. 0 \in T
    <2>1. 2 \in 2..m /\ 2 - 1 = 1 /\ 1 \in 1..m
      BY <1>1
    <2>2. way[1] \in R
      BY <1>3, <2>1
    <2>3. pathCosts[<<way[1], way[1]>>] = 0
      BY <2>2, TableEntries
    <2> QED
      BY <1>1, <2>3 DEF Sums
  <1>5. ASSUME NEW n \in 1..N, n - 1 \in T PROVE n \in T
    <2> DEFINE k == way[n]
               j == way[n + 1]
               i == way[1]
    <2>1. /\ n + 1 \in 2..m /\ (n + 1) - 1 = n /\ (n - 1) + 1 = n /\ n \in 0..N
          /\ 1 \in 1..m /\ n \in 1..m /\ n + 1 \in 1..m
      BY <1>1
    <2>2. /\ pathCosts[<<k, j>>] <= linkCosts[<<k, j>>] /\ k \in R
          /\ f[n + 1] = f[n] + linkCosts[<<k, j>>]
      BY <1>3, <2>1 DEF Sums
    <2>3. pathCosts[<<i, k>>] <= f[n]
      BY <1>5, <2>1
    <2>4. /\ i \in Stations /\ j \in Stations /\ k \in Stations
          /\ f[n] \in Nat /\ f[n + 1] \in Nat
      BY <1>2, <2>1
    <2>5. /\ n # n + 1 /\ 1 # n + 1
          /\ k # j /\ i # j
      BY <2>1 DEF OpenWay
    <2> HIDE DEF i, j, k, R
    <2>6. /\ pathCosts[<<i, k>>] \in Nat /\ pathCosts[<<k, j>>] \in Nat
          /\ pathCosts[<<i, j>>] \in Nat /\ linkCosts[<<k, j>>] \in Nat
      BY <2>4, TableEntries
    <2>7. pathCosts[<<i, j>>] <= f[n + 1]
      <3>1. CASE k = i
        BY <2>2, <2>4, <2>6, <3>1
      <3>2. CASE k # i
        <4>1. NoWorse(pathCosts[<<i, j>>], W[<<i, j>>],
                      pathCosts[<<i, k>>] + pathCosts[<<k, j>>],
                      W[<<i, k>>] + v[k] + W[<<k, j>>])
          BY <2>2, <2>4, <2>5, <3>2 DEF Tables, SolvedBy, Triangle, R
        <4>2. pathCosts[<<i, j>>] <= pathCosts[<<i, k>>] + pathCosts[<<k, j>>]
          BY <2>6, <4>1 DEF NoWorse
        <4> QED
          BY <2>2, <2>3, <2>4, <2>6, <4>2
      <3> QED
        BY <3>1, <3>2
    <2> QED
      BY <2>1, <2>7 DEF i, j
  <1> HIDE DEF T
  <1>6. 0..N \subseteq T
    BY <1>1, <1>4, <1>5, Induction
  <1> SUFFICES ASSUME NEW n \in 1..m PROVE pathCosts[<<way[1], way[n]>>] <= f[n]
    OBVIOUS
  <1>7. n - 1 \in 0..N /\ (n - 1) + 1 = n
    BY <1>1
  <1> QED
    BY <1>6, <1>7 DEF T

(* An open route is cheaper than the infinite metric.                       *)
LEMMA RouteFinite ==
    ASSUME PathsInv, NEW way, NEW m, OpenWay(way, m), NEW f, Sums(f, way, m)
    PROVE  f[m] < Inf
  <1> DEFINE C == Cardinality(Stations)
             N == m - 1
             T == {n \in 0..N : f[n + 1] * C <= n * Inf}
  <1>1. /\ C \in Nat /\ m \in 2..C /\ m \in Nat /\ N \in Nat /\ Inf \in Nat \ {0}
        /\ way \in [1..m -> Stations]
    BY StationsAssumption, FS_CardinalityType, Constants DEF OpenWay
  <1> HIDE DEF C
  <1>2. \A n \in 1..m : way[n] \in Stations /\ f[n] \in Nat
    BY <1>1 DEF Sums
  <1>3. ASSUME NEW n \in 2..m
        PROVE  /\ linkCosts[<<way[n - 1], way[n]>>] \in Nat
               /\ linkCosts[<<way[n - 1], way[n]>>] * C <= Inf
    <2> DEFINE l == linkCosts[<<way[n - 1], way[n]>>]
    <2>1. n - 1 \in 1..m /\ n \in 1..m
      BY <1>1
    <2>2. <<way[n - 1], way[n]>> \in Pairs
      BY <1>2, <2>1 DEF Pairs
    <2>3. l \in Costs \cup {0, Inf} /\ l # Inf
      BY <2>2 DEF PathsInv, LinkInv, OpenWay, Bidirectional
    <2> HIDE DEF l
    <2>4. CASE l = 0
      BY <1>1, <2>4 DEF l
    <2>5. CASE l \in Costs
      <3>1. l \in Nat /\ l * C < Inf
        BY <2>5, CostsAssumption DEF C
      <3>2. l * C \in Nat
        BY <1>1, <3>1
      <3> QED
        BY <1>1, <3>1, <3>2 DEF l
    <2> QED
      BY <2>3, <2>4, <2>5
  <1>4. 0 \in T
    BY <1>1 DEF Sums
  <1>5. ASSUME NEW n \in 1..N, n - 1 \in T PROVE n \in T
    <2> DEFINE l == linkCosts[<<way[n], way[n + 1]>>]
               a == f[n]
               b == f[n + 1]
    <2>1. /\ n + 1 \in 2..m /\ (n + 1) - 1 = n /\ (n - 1) + 1 = n /\ n \in 0..N
          /\ n \in 1..m /\ n + 1 \in 1..m /\ n \in Nat
      BY <1>1
    <2>2. l \in Nat /\ l * C <= Inf
      BY <1>3, <2>1
    <2>3. b = a + l /\ a \in Nat
      BY <1>2, <2>1 DEF Sums
    <2>4. a * C <= (n - 1) * Inf
      BY <1>5, <2>1
    <2> HIDE DEF l, a, b
    <2>5. b * C = a * C + l * C
      BY <1>1, <2>2, <2>3
    <2>6. a * C \in Nat /\ l * C \in Nat /\ (n - 1) * Inf \in Int
      BY <1>1, <2>1, <2>2, <2>3
    <2>7. (n - 1) * Inf + Inf = n * Inf /\ n * Inf \in Nat
      BY <1>1, <2>1
    <2>8. b * C <= n * Inf
      BY <1>1, <2>2, <2>4, <2>5, <2>6, <2>7
    <2> QED
      BY <2>1, <2>8 DEF b
  <1> HIDE DEF T
  <1>6. 0..N \subseteq T
    BY <1>1, <1>4, <1>5, Induction
  <1> DEFINE s == f[m]
  <1>7. s \in Nat /\ s * C <= N * Inf
    <2>1. N \in 0..N /\ N + 1 = m /\ m \in 1..m
      BY <1>1
    <2> QED
      BY <1>2, <1>6, <2>1 DEF T
  <1> HIDE DEF s
  <1> SUFFICES ASSUME Inf <= s PROVE FALSE
    BY <1>1, <1>7 DEF s
  <1>8. Inf * C <= s * C
    BY <1>1, <1>7
  <1>9. N + 1 <= C
    BY <1>1
  <1> HIDE DEF N
  <1>10. (N + 1) * Inf <= C * Inf
    BY <1>1, <1>9
  <1>11. (N + 1) * Inf = N * Inf + Inf /\ C * Inf = Inf * C
    BY <1>1
  <1>12. N * Inf \in Nat /\ Inf * C \in Nat /\ s * C \in Nat
    BY <1>1, <1>7
  <1> QED
    BY <1>1, <1>7, <1>8, <1>10, <1>11, <1>12

(* The stations of a frame on its way are an open route of the cost of the  *)
(* path.                                                                    *)
LEMMA WalkIsRoute ==
    ASSUME PathsInv, NEW W, NEW v, Tables(W, v), NEW j \in ToSet(mps),
           NEW i \in Reaching(j), i # j
    PROVE  \E r \in OpenRoutes : r.ends = <<i, j>> /\ RouteCost(r) = pathCosts[<<i, j>>]
  <1> DEFINE at == Position(i, j)
             C == Cardinality(Stations)
  <1>1. Walk(at, i, j)
    BY PositionWalks
  <1> HIDE DEF at
  <1>2. PICK M : Arrives(at, j, M)
    BY <1>1, WalkArrives
  <1> DEFINE m == M + 1
             way == [n \in 1..m |-> at[n - 1]]
             r == [ends |-> <<way[1], way[m]>>, way |-> way]
  <1>3. C \in Nat /\ M \in Nat /\ M < C
    BY <1>2, StationsAssumption, FS_CardinalityType DEF Arrives
  <1>4. at[0] = i /\ at[M] = j /\ M # 0
    BY <1>1, <1>2 DEF Walk, Arrives
  <1>5. m \in 2..C /\ m \in Nat
    BY <1>3, <1>4
  <1>6. /\ \A n \in 0..M : at[n] \in Stations /\ at[n] \in Reaching(j)
        /\ \A n \in 1..M : at[n] = Step(j, at[n - 1])
    <2>1. \A n \in 0..M : n \in 0..C
      BY <1>3
    <2>2. \A n \in 1..M : n \in 1..C
      BY <1>3
    <2> QED
      BY <1>1, <2>1, <2>2 DEF Walk, Reaching
  <1>7. /\ \A a \in 0..(M - 1) : at[a] # j
        /\ \A n \in 0..M : \A a \in 0..(n - 1) : at[n] # at[a]
    BY <1>2 DEF Arrives
  <1>8. j \in Stations /\ pathCosts[<<j, j>>] = 0
    BY TableEntries
  <1> HIDE DEF C
  <1>9. way \in [1..m -> Stations] /\ way[1] = i /\ way[m] = j
    <2>1. \A n \in 1..m : n - 1 \in 0..M
      BY <1>3
    <2>2. 1 \in 1..m /\ m \in 1..m /\ 1 - 1 = 0 /\ m - 1 = M
      BY <1>3
    <2> HIDE DEF m
    <2> QED
      BY <1>4, <1>6, <2>1, <2>2
  <1>10. ASSUME NEW n \in 2..m
         PROVE  /\ way[n - 1] = at[n - 2] /\ way[n] = at[n - 1]
                /\ Bidirectional(way[n - 1], way[n])
                /\ pathCosts[<<way[n - 1], j>>]
                     = linkCosts[<<way[n - 1], way[n]>>] + pathCosts[<<way[n], j>>]
    <2> DEFINE a == at[n - 2]
               b == at[n - 1]
    <2>1. /\ n - 1 \in 1..m /\ n \in 1..m /\ (n - 1) - 1 = n - 2
          /\ n - 1 \in 1..M /\ n - 2 \in 0..(M - 1) /\ n - 2 \in 0..M
      BY <1>3
    <2> HIDE DEF m
    <2>2. way[n - 1] = a /\ way[n] = b
      BY <2>1
    <2> HIDE DEF way
    <2>3. /\ a # j /\ a \in Stations /\ a \in Reaching(j) /\ b = Step(j, a)
      BY <1>6, <1>7, <2>1
    <2> HIDE DEF a, b
    <2>4. b = paths[<<a, j>>] /\ pathCosts[<<a, j>>] # Inf
      BY <2>3 DEF Step, Reaching
    <2>5. LET hop == paths[<<a, j>>]
          IN  /\ hop \in Stations /\ Bidirectional(a, hop)
              /\ pathCosts[<<a, j>>] = linkCosts[<<a, hop>>] + pathCosts[<<hop, j>>]
              /\ pathCosts[<<hop, j>>] # Inf
              /\ hop # j => W[<<a, j>>] = v[hop] + W[<<hop, j>>]
      BY <1>8, <2>3, <2>4, HopOut
    <2> QED
      BY <2>2, <2>4, <2>5 DEF a, b
  <1>11. \A a, b \in 1..m : way[a] = way[b] => a = b
    <2> SUFFICES ASSUME NEW a \in 1..m, NEW b \in 1..m, way[a] = way[b], a # b
                 PROVE  FALSE
      OBVIOUS
    <2>1. /\ a - 1 \in 0..M /\ b - 1 \in 0..M
          /\ (a - 1 \in 0..((b - 1) - 1) \/ b - 1 \in 0..((a - 1) - 1))
      BY <1>3
    <2>2. at[a - 1] = at[b - 1]
      OBVIOUS
    <2> HIDE DEF way, m
    <2> QED
      BY <1>7, <2>1, <2>2
  <1>12. OpenWay(way, m)
    <2> HIDE DEF m, way
    <2> QED
      BY <1>5, <1>9, <1>10, <1>11 DEF OpenWay, C
  <1>13. r \in OpenRoutes /\ r.way = way /\ r.ends = <<i, j>>
    <2>1. r \in OpenRoutes
      BY <1>12, RouteMade
    <2> HIDE DEF way, m
    <2> QED
      BY <1>9, <2>1
  <1> HIDE DEF r
  <1>14. PICK f : Sums(f, way, m) /\ RouteCost(r) = f[m]
    <2> HIDE DEF way, m
    <2>1. OpenWay(r.way, m)
      BY <1>12, <1>13
    <2>2. \E f : Sums(f, r.way, m) /\ RouteCost(r) = f[m]
      BY <2>1, RouteSums
    <2> QED
      BY <1>13, <2>2
  <1>15. f \in [1..m -> Nat] /\ f[1] = 0
         /\ \A n \in 2..m : f[n] = f[n - 1] + linkCosts[<<way[n - 1], way[n]>>]
    BY <1>14 DEF Sums
  <1> DEFINE T == {n \in 0..M : f[n + 1] + pathCosts[<<way[n + 1], j>>] = pathCosts[<<i, j>>]}
  <1>16. \A n \in 1..m : /\ pathCosts[<<way[n], j>>] \in Nat /\ f[n] \in Nat
    <2> HIDE DEF way, m
    <2> QED
      BY <1>8, <1>9, <1>15, TableEntries
  <1>17. 0 \in T
    <2>1. 1 \in 1..m /\ 0 + 1 = 1 /\ 0 \in 0..M
      BY <1>3
    <2> HIDE DEF way, m
    <2> QED
      BY <1>9, <1>15, <1>16, <2>1
  <1>18. ASSUME NEW n \in 1..M, n - 1 \in T PROVE n \in T
    <2>1. /\ n + 1 \in 2..m /\ (n + 1) - 1 = n /\ (n - 1) + 1 = n
          /\ n \in 1..m /\ n + 1 \in 1..m /\ n \in 0..M
      BY <1>3
    <2> HIDE DEF way, m
    <2>2. f[n] + pathCosts[<<way[n], j>>] = pathCosts[<<i, j>>]
      BY <1>18, <2>1
    <2>3. /\ pathCosts[<<way[n], j>>]
               = linkCosts[<<way[n], way[n + 1]>>] + pathCosts[<<way[n + 1], j>>]
          /\ f[n + 1] = f[n] + linkCosts[<<way[n], way[n + 1]>>]
      BY <1>10, <1>15, <2>1
    <2>4. /\ way[n] \in Stations /\ way[n + 1] \in Stations
      BY <1>9, <2>1
    <2>5. linkCosts[<<way[n], way[n + 1]>>] \in Nat
      BY <2>4, TableEntries
    <2>6. /\ f[n] \in Nat /\ pathCosts[<<way[n + 1], j>>] \in Nat
      BY <1>16, <2>1
    <2> QED
      BY <2>1, <2>2, <2>3, <2>5, <2>6
  <1> HIDE DEF T
  <1>19. 0..M \subseteq T
    BY <1>3, <1>17, <1>18, Induction
  <1>20. f[m] = pathCosts[<<i, j>>]
    <2>1. M \in 0..M /\ m \in 1..m /\ M + 1 = m
      BY <1>3
    <2>2. f[m] + pathCosts[<<way[m], j>>] = pathCosts[<<i, j>>]
      BY <1>19, <2>1 DEF T
    <2> HIDE DEF way, m
    <2> QED
      BY <1>8, <1>9, <1>16, <2>1, <2>2
  <1> QED
    BY <1>13, <1>14, <1>20

LEMMA PathsShortest == PathsInv => PathsAreShortest
  <1> SUFFICES ASSUME PathsInv, Current
               PROVE  /\ \A r \in OpenRoutes : /\ pathCosts[r.ends] # Inf
                                               /\ pathCosts[r.ends] <= RouteCost(r)
                      /\ \A e \in Pairs : e[1] # e[2] /\ pathCosts[e] # Inf =>
                           \E r \in OpenRoutes :
                             r.ends = e /\ RouteCost(r) = pathCosts[e]
    BY DEF PathsAreShortest
  <1>1. PICK W, v : Tables(W, v)
    BY DEF PathsInv, TableInv, Solved, Tables
  <1>2. ASSUME NEW r \in OpenRoutes
        PROVE  pathCosts[r.ends] # Inf /\ pathCosts[r.ends] <= RouteCost(r)
    <2>1. PICK m : OpenWay(r.way, m) /\ r.ends = <<r.way[1], r.way[m]>>
      BY <1>2, RouteParts
    <2>2. PICK f : Sums(f, r.way, m) /\ RouteCost(r) = f[m]
      BY <2>1, RouteSums
    <2>3. \A n \in 1..m : pathCosts[<<r.way[1], r.way[n]>>] <= f[n]
      BY <1>1, <2>1, <2>2, RouteNotCheaper
    <2>4. f[m] < Inf
      BY <2>1, <2>2, RouteFinite
    <2>5. /\ m \in 1..m /\ 1 \in 1..m /\ f[m] \in Nat
          /\ r.way[1] \in Stations /\ r.way[m] \in Stations
      <3>1. Cardinality(Stations) \in Nat /\ m \in 2..Cardinality(Stations)
        BY <2>1, StationsAssumption, FS_CardinalityType DEF OpenWay
      <3>2. m \in 1..m /\ 1 \in 1..m
        BY <3>1
      <3> QED
        BY <2>1, <2>2, <3>2 DEF OpenWay, Sums
    <2>6. pathCosts[r.ends] \in Nat /\ Inf \in Nat
      <3>1. /\ Inf \in Nat
            /\ \A a, b \in Stations : pathCosts[<<a, b>>] \in Nat
        BY <1>1, TableEntries
      <3> QED
        BY <2>1, <2>5, <3>1
    <2>7. pathCosts[r.ends] <= f[m]
      BY <2>1, <2>3, <2>5
    <2> QED
      BY <2>2, <2>4, <2>5, <2>6, <2>7
  <1>3. ASSUME NEW e \in Pairs, e[1] # e[2], pathCosts[e] # Inf
        PROVE  \E r \in OpenRoutes : r.ends = e /\ RouteCost(r) = pathCosts[e]
    <2> DEFINE i == e[1]
               j == e[2]
    <2>1. e = <<i, j>> /\ i \in Stations /\ j \in Stations
      BY DEF Pairs
    <2> HIDE DEF i, j
    <2>2. j \in ToSet(mps) /\ i \in Reaching(j) /\ i # j
      BY <1>1, <1>3, <2>1, TableEntries DEF Reaching, i, j
    <2>3. \E r \in OpenRoutes : r.ends = <<i, j>> /\ RouteCost(r) = pathCosts[<<i, j>>]
      BY <1>1, <2>2, WalkIsRoute
    <2> QED
      BY <2>1, <2>3
  <1> QED
    BY <1>2, <1>3

(* In every state of path selection the tables belong to the links.         *)
THEOREM TablesInvariance == Spec => []PathsInv
  BY InitInv, StepInv, PTL DEF Spec

(* PathsAreShortest, for all stations, links and costs: after every change  *)
(* of a link the costs of the matrix (lines 566-622 of                      *)
(* VirtualPathSelection.cpp) are those of the cheapest routes over links in *)
(* both directions.                                                         *)
THEOREM ShortestPaths == Spec => []PathsAreShortest
  BY TablesInvariance, PathsShortest, PTL

(* NextHopsReach, for all stations, links and costs: the stations together  *)
(* forward along the next hops of their own rows (lines 177-220, 624-640)   *)
(* without a loop, although wired and internal links are for free.          *)
THEOREM HopsReach == Spec => []NextHopsReach
  BY TablesInvariance, NextHopsReached, PTL

(* PortalServesClient, for all stations, portals and clients: the portal of *)
(* a client is never farther from the proxy than another one and its path   *)
(* leaves the wired network at once (lines 376-393, 660-681).               *)
THEOREM PortalServes == Spec => []PortalServesClient
  BY TablesInvariance, PortalServed, PTL

-----------------------------------------------------------------------------
(* The links of the mesh                                                    *)

Wired(a, b) == a \in Portals /\ b \in Portals

(* A link between a transceiver and its device.                             *)
Internal(a, b) ==
    \/ a \in Transceivers /\ b = DeviceOf[a]
    \/ b \in Transceivers /\ a = DeviceOf[b]

OnRadio(a, b) == linkCosts[<<a, b>>] \in Costs

(* Every link is a wired, an internal or a measured one, and a registered   *)
(* transceiver has its internal links.                                      *)
LinkKinds ==
    /\ \A a, b \in Stations :
         a # b /\ linkCosts[<<a, b>>] # Inf =>
           Wired(a, b) \/ Internal(a, b) \/ OnRadio(a, b)
    /\ \A t \in Transceivers \cap ToSet(mps) :
         linkCosts[<<t, DeviceOf[t]>>] = 0 /\ linkCosts[<<DeviceOf[t], t>>] = 0

(* The constants, as the lemmas below need them.                            *)
LEMMA Addresses ==
    /\ Transceivers \subseteq Stations /\ Transceivers \cap Portals = {}
    /\ Portals \subseteq Devices /\ Devices \subseteq Stations
    /\ \A t \in Transceivers : DeviceOf[t] \in Devices
    /\ \A a \in Stations : Device(a) \in Devices
    /\ \A d \in Devices : Device(d) = d
    /\ Clients \cap Stations = {} /\ None \notin Stations \cup Clients
    /\ IsFiniteSet(Devices)
    /\ \A c \in Clients : Device(c) = c
  <1>1. IsFiniteSet(Devices)
    BY StationsAssumption, FS_Subset DEF Devices
  <1> QED
    BY <1>1, StationsAssumption, ClientsAssumption DEF Devices, Device

LEMMA KindsInit == ASSUME Init PROVE LinkKinds
  <1>1. \A a, b \in Stations : linkCosts[<<a, b>>] = Inf
    BY DEF Init, Pairs
  <1>2. ToSet(mps) = {}
    BY DEF Init, ToSet
  <1> QED
    BY <1>1, <1>2 DEF LinkKinds

LEMMA KindsRegisterMP ==
    ASSUME PathsInv, LinkKinds, RegisterMP PROVE LinkKinds'
  <1>1. /\ NextStation \notin Transceivers
        /\ linkCosts' = WithCost(linkCosts, {<<NextStation, NextStation>>}, 0)
    BY DEF RegisterMP
  <1>2. /\ NextStation \in Stations
        /\ ToSet(mps') = ToSet(mps) \cup {NextStation}
    BY Registered DEF RegisterMP, PathsInv
  <1>3. \A a, b \in Stations :
          a # b => linkCosts'[<<a, b>>] = linkCosts[<<a, b>>]
    BY <1>1 DEF WithCost, Pairs
  <1>4. \A t \in Transceivers : t \in Stations /\ DeviceOf[t] \in Stations
                                /\ t # DeviceOf[t]
    BY Addresses DEF Devices
  <1> QED
    BY <1>1, <1>2, <1>3, <1>4 DEF LinkKinds, OnRadio

LEMMA KindsRegisterPortal ==
    ASSUME PathsInv, LinkKinds, RegisterPortal PROVE LinkKinds'
  <1> DEFINE u == NextStation
             wired == ToSet(mps) \cap Portals
             E == {<<u, u>>} \cup (wired \X {u}) \cup ({u} \X wired)
  <1>1. u \in Portals /\ linkCosts' = WithCost(linkCosts, E, 0)
    BY DEF RegisterPortal
  <1>2. ToSet(mps') = ToSet(mps) \cup {u}
    BY Registered DEF RegisterPortal, PathsInv
  <1>3. \A a, b \in Stations :
          /\ <<a, b>> \in E /\ a # b => Wired(a, b)
          /\ linkCosts'[<<a, b>>]
               = IF <<a, b>> \in E THEN 0 ELSE linkCosts[<<a, b>>]
    <2>1. \A a, b \in Stations : <<a, b>> \in E /\ a # b => Wired(a, b)
      BY <1>1 DEF Wired
    <2> DEFINE lc == WithCost(linkCosts, E, 0)
    <2> HIDE DEF E
    <2>2. \A a, b \in Stations :
            lc[<<a, b>>] = IF <<a, b>> \in E THEN 0 ELSE linkCosts[<<a, b>>]
      BY DEF WithCost, Pairs
    <2>3. linkCosts' = lc
      BY <1>1
    <2> HIDE DEF lc
    <2> QED
      BY <2>1, <2>2, <2>3
  <1> HIDE DEF E, u
  <1>4. \A t \in Transceivers : /\ t \in Stations /\ DeviceOf[t] \in Stations
                                /\ t # DeviceOf[t]
                                /\ ~Wired(t, DeviceOf[t]) /\ ~Wired(DeviceOf[t], t)
    BY Addresses DEF Devices, Wired
  <1>5. ASSUME NEW a \in Stations, NEW b \in Stations, a # b,
               linkCosts'[<<a, b>>] # Inf
        PROVE  Wired(a, b) \/ Internal(a, b) \/ OnRadio(a, b)'
    BY <1>3, <1>5 DEF LinkKinds, OnRadio
  <1>6. ASSUME NEW t \in Transceivers \cap ToSet(mps')
        PROVE  /\ linkCosts'[<<t, DeviceOf[t]>>] = 0
               /\ linkCosts'[<<DeviceOf[t], t>>] = 0
    <2>1. t \in ToSet(mps)
      BY <1>1, <1>2, Addresses
    <2> QED
      BY <1>3, <1>4, <2>1 DEF LinkKinds
  <1> QED
    BY <1>5, <1>6 DEF LinkKinds

LEMMA KindsRegisterTransceiver ==
    ASSUME PathsInv, LinkKinds, RegisterTransceiver PROVE LinkKinds'
  <1> DEFINE u == NextStation
             d == DeviceOf[u]
             E == {<<u, u>>, <<u, d>>, <<d, u>>}
  <1>1. u \in Transceivers /\ linkCosts' = WithCost(linkCosts, E, 0)
    BY DEF RegisterTransceiver
  <1>2. ToSet(mps') = ToSet(mps) \cup {u}
    BY Registered DEF RegisterTransceiver, PathsInv
  <1>3. \A a, b \in Stations :
          /\ <<a, b>> \in E /\ a # b => Internal(a, b)
          /\ linkCosts'[<<a, b>>]
               = IF <<a, b>> \in E THEN 0 ELSE linkCosts[<<a, b>>]
    <2>1. \A a, b \in Stations : <<a, b>> \in E /\ a # b => Internal(a, b)
      BY <1>1 DEF Internal
    <2> DEFINE lc == WithCost(linkCosts, E, 0)
    <2> HIDE DEF E
    <2>2. \A a, b \in Stations :
            lc[<<a, b>>] = IF <<a, b>> \in E THEN 0 ELSE linkCosts[<<a, b>>]
      BY DEF WithCost, Pairs
    <2>3. linkCosts' = lc
      BY <1>1
    <2> HIDE DEF lc
    <2> QED
      BY <2>1, <2>2, <2>3
  <1>4. \A t \in Transceivers : t \in Stations /\ DeviceOf[t] \in Stations
    BY Addresses
  <1>5. ASSUME NEW a \in Stations, NEW b \in Stations, a # b,
               linkCosts'[<<a, b>>] # Inf
        PROVE  Wired(a, b) \/ Internal(a, b) \/ OnRadio(a, b)'
    <2> HIDE DEF E, u
    <2> QED
      BY <1>3, <1>5 DEF LinkKinds, OnRadio
  <1>6. ASSUME NEW t \in Transceivers \cap ToSet(mps')
        PROVE  /\ linkCosts'[<<t, DeviceOf[t]>>] = 0
               /\ linkCosts'[<<DeviceOf[t], t>>] = 0
    <2>1. CASE t = u
      BY <1>1, <1>3, <1>4, <2>1
    <2>2. CASE t # u
      <3>1. t \in ToSet(mps)
        BY <1>2, <2>2
      <3> HIDE DEF E, u
      <3> QED
        BY <1>3, <1>4, <3>1 DEF LinkKinds
    <2> QED
      BY <2>1, <2>2
  <1> QED
    BY <1>5, <1>6 DEF LinkKinds

(* Only a measured link changes.                                            *)
LEMMA KindsSetLink ==
    ASSUME PathsInv, LinkKinds, NEW a \in Stations, NEW b \in Stations,
           Wireless(a, b), NEW cost \in Costs \cup {Inf}, SetLink(a, b, cost)
    PROVE  LinkKinds'
  <1>1. linkCosts' = [linkCosts EXCEPT ![<<a, b>>] = cost] /\ mps' = mps
    BY DEF SetLink
  <1>2. linkCosts \in [Pairs -> 0..Inf]
    BY DEF PathsInv, LinkInv, LinksOK
  <1>3. \A i, j \in Stations :
          linkCosts'[<<i, j>>] = IF i = a /\ j = b THEN cost ELSE linkCosts[<<i, j>>]
    BY <1>1, <1>2 DEF Pairs
  <1>4. \A t \in Transceivers : t \in Stations /\ DeviceOf[t] \in Stations
                                /\ t # DeviceOf[t]
    BY Addresses DEF Devices
  <1>5. ~Internal(a, b)
    BY ChannelsAssumption DEF Wireless, Internal
  <1>6. ASSUME NEW i \in Stations, NEW j \in Stations, i # j,
               linkCosts'[<<i, j>>] # Inf
        PROVE  Wired(i, j) \/ Internal(i, j) \/ OnRadio(i, j)'
    BY <1>3, <1>6 DEF LinkKinds, OnRadio
  <1>7. ASSUME NEW t \in Transceivers \cap ToSet(mps')
        PROVE  /\ linkCosts'[<<t, DeviceOf[t]>>] = 0
               /\ linkCosts'[<<DeviceOf[t], t>>] = 0
    <2>1. ~(t = a /\ DeviceOf[t] = b) /\ ~(DeviceOf[t] = a /\ t = b)
      BY <1>5 DEF Internal
    <2> QED
      BY <1>1, <1>3, <1>4, <2>1 DEF LinkKinds
  <1> QED
    BY <1>6, <1>7 DEF LinkKinds

LEMMA KindsStep ==
    ASSUME PathsInv, LinkKinds, [Next]_vars PROVE LinkKinds'
  <1>1. CASE RegisterMP
    BY <1>1, KindsRegisterMP
  <1>2. CASE RegisterPortal
    BY <1>2, KindsRegisterPortal
  <1>3. CASE RegisterTransceiver
    BY <1>3, KindsRegisterTransceiver
  <1>4. ASSUME NEW a \in Stations, NEW b \in Stations, NEW cost \in Costs,
               CreatePeerLink(a, b, cost) \/ UpdatePeerLink(a, b, cost)
        PROVE  LinkKinds'
    BY <1>4, KindsSetLink DEF CreatePeerLink, UpdatePeerLink
  <1>5. ASSUME NEW a \in Stations, NEW b \in Stations, ClosePeerLink(a, b)
        PROVE  LinkKinds'
    BY <1>5, KindsSetLink DEF ClosePeerLink
  <1>6. ASSUME UNCHANGED <<mps, linkCosts>> PROVE LinkKinds'
    BY <1>6 DEF LinkKinds, OnRadio
  <1>7. ASSUME NEW client \in Clients, NEW proxy \in Masters[client],
               RegisterProxy(proxy, client)
        PROVE  LinkKinds'
    BY <1>6, <1>7 DEF RegisterProxy
  <1>8. ASSUME NEW client \in Clients, DeRegisterProxy(client)
        PROVE  LinkKinds'
    BY <1>6, <1>8 DEF DeRegisterProxy
  <1>9. CASE UNCHANGED vars
    BY <1>6, <1>9 DEF vars
  <1> QED
    BY <1>1, <1>2, <1>3, <1>4, <1>5, <1>7, <1>8, <1>9 DEF Next

-----------------------------------------------------------------------------
(* The hops of the devices                                                  *)

(* The paths of a simulation that runs.                                     *)
Running == AllRegistered /\ Current

Steady == PathsInv /\ LinkKinds /\ Running

LEMMA RunningTables ==
    ASSUME Steady
    PROVE  /\ ToSet(mps) = Stations
           /\ \A a : IsMeshPoint(a) <=> a \in Stations
           /\ \E W, v : Tables(W, v)
  <1>1. ToSet(mps) = Stations
    BY AllStations DEF Steady, PathsInv, Running
  <1>2. \E W, v : Tables(W, v)
    BY DEF Steady, Running, PathsInv, TableInv, Solved, Tables
  <1> QED
    BY <1>1, <1>2 DEF IsMeshPoint

(* The stations stay registered, and known to the tables.                   *)
LEMMA RunningStays ==
    ASSUME PathsInv, Running, [Next]_vars
    PROVE  Running' /\ mps' = mps
  <1>1. ~RegisterMP /\ ~RegisterPortal /\ ~RegisterTransceiver
    BY DEF Running, RegisterMP, RegisterPortal, RegisterTransceiver
  <1>2. ASSUME NEW a \in Stations, NEW b \in Stations, NEW cost \in Costs \cup {Inf},
               Wireless(a, b), SetLink(a, b, cost)
        PROVE  Running' /\ mps' = mps
    <2>1. mps' = mps /\ PathsInv'
      BY <1>2, SetLinkInv DEF SetLink
    <2>2. \A i \in Range(mps') : pathCosts'[<<i, i>>] = 0
      <3>1. /\ linkCosts' = [linkCosts EXCEPT ![<<a, b>>] = cost]
            /\ pathCosts' = AllPairs(mps, linkCosts').cost
            /\ paths' = NextHops(AllPairs(mps, linkCosts'))
        BY <1>2 DEF SetLink, OnNewPathSelectionEntry
      <3>2. mps \in Seq(Stations) /\ LinksOK(linkCosts', ToSet(mps))
        BY <2>1 DEF PathsInv, OrderInv, LinkInv
      <3>3. Solved(linkCosts', ToSet(mps), pathCosts', paths')
        BY <3>1, <3>2, Computed
      <3>4. \A i \in ToSet(mps) : pathCosts'[<<i, i>>] = 0
        BY <3>3 DEF Solved, SolvedBy, Ends
      <3> QED
        BY <2>1, <3>4 DEF Range, ToSet
    <2> QED
      BY <2>1, <2>2 DEF Running, AllRegistered, Current
  <1>3. ASSUME UNCHANGED <<mps, pathCosts>> PROVE Running' /\ mps' = mps
    BY <1>3 DEF Running, AllRegistered, Current
  <1>4. ASSUME NEW a \in Stations, NEW b \in Stations, NEW cost \in Costs,
               CreatePeerLink(a, b, cost) \/ UpdatePeerLink(a, b, cost)
        PROVE  Running' /\ mps' = mps
    BY <1>2, <1>4 DEF CreatePeerLink, UpdatePeerLink
  <1>5. ASSUME NEW a \in Stations, NEW b \in Stations, ClosePeerLink(a, b)
        PROVE  Running' /\ mps' = mps
    BY <1>2, <1>5 DEF ClosePeerLink
  <1>6. ASSUME NEW client \in Clients, NEW proxy \in Masters[client],
               RegisterProxy(proxy, client)
        PROVE  Running' /\ mps' = mps
    BY <1>3, <1>6 DEF RegisterProxy
  <1>7. ASSUME NEW client \in Clients, DeRegisterProxy(client)
        PROVE  Running' /\ mps' = mps
    BY <1>3, <1>7 DEF DeRegisterProxy
  <1>8. CASE UNCHANGED vars
    BY <1>3, <1>8 DEF vars
  <1> QED
    BY <1>1, <1>4, <1>5, <1>6, <1>7, <1>8 DEF Next

(* What the lemmas use of the tables: b and x have a path, its next hop, and *)
(* how near the stations are.                                                *)
HasPath(b, x) == paths[<<b, x>>] # None

(* b is nearer to x than a: cheaper, or as cheap and lighter.               *)
Weight(W, x, b) == IF b = x THEN 0 ELSE W[<<b, x>>] + 1

Closer(W, x, b, a) ==
    \/ pathCosts[<<b, x>>] < pathCosts[<<a, x>>]
    \/ /\ pathCosts[<<b, x>>] = pathCosts[<<a, x>>]
       /\ Weight(W, x, b) < Weight(W, x, a)

LEMMA PathEntries ==
    ASSUME Steady, NEW W, NEW v, Tables(W, v)
    PROVE  /\ \A a, x \in Stations :
                /\ pathCosts[<<a, x>>] \in Nat /\ W[<<a, x>>] \in Nat
                /\ linkCosts[<<a, x>>] \in Nat
                /\ pathCosts[<<a, a>>] = 0
                /\ paths[<<a, x>>] \in Stations \cup {None}
                /\ a # x => (HasPath(a, x) <=> pathCosts[<<a, x>>] # Inf)
           /\ Inf \in Nat \ {0}
  <1>0. PathsInv /\ ToSet(mps) = Stations
    BY RunningTables DEF Steady
  <1>1. ASSUME NEW a \in Stations, NEW x \in Stations
        PROVE  /\ pathCosts[<<a, x>>] \in Nat /\ W[<<a, x>>] \in Nat
               /\ linkCosts[<<a, x>>] \in Nat
               /\ pathCosts[<<a, a>>] = 0
    BY <1>0, TableEntries
  <1>2. ASSUME NEW a \in Stations, NEW x \in Stations
        PROVE  paths[<<a, x>>] \in Stations \cup {None}
    BY <1>0 DEF PathsInv, TableInv, Pairs
  <1>3. ASSUME NEW a \in Stations, NEW x \in Stations, a # x
        PROVE  HasPath(a, x) <=> pathCosts[<<a, x>>] # Inf
    <2>1. IF a = x \/ pathCosts[<<a, x>>] = Inf THEN paths[<<a, x>>] = None
          ELSE FirstHop(linkCosts, pathCosts, W, v, a, x, paths[<<a, x>>])
      BY DEF Tables, SolvedBy, HopsOK
    <2>2. None \notin Stations
      BY Constants
    <2> QED
      BY <1>3, <2>1, <2>2 DEF FirstHop, HasPath
  <1> QED
    BY <1>1, <1>2, <1>3, Constants

(* The next hop of a path is nearer than its start.                         *)
LEMMA NextIsCloser ==
    ASSUME Steady, NEW W, NEW v, Tables(W, v),
           NEW a \in Stations, NEW x \in Stations, a # x, HasPath(a, x)
    PROVE  LET hop == paths[<<a, x>>]
           IN  /\ hop \in Stations /\ hop # a
               /\ linkCosts[<<a, hop>>] # Inf
               /\ pathCosts[<<a, x>>] = linkCosts[<<a, hop>>] + pathCosts[<<hop, x>>]
               /\ pathCosts[<<hop, x>>] # Inf
               /\ Closer(W, x, hop, a)
  <1> DEFINE hop == paths[<<a, x>>]
  <1>1. pathCosts[<<a, x>>] # Inf /\ PathsInv
    BY PathEntries DEF Steady
  <1>2. /\ hop \in Stations /\ Bidirectional(a, hop)
        /\ pathCosts[<<a, x>>] = linkCosts[<<a, hop>>] + pathCosts[<<hop, x>>]
        /\ pathCosts[<<hop, x>>] # Inf
        /\ hop # x => W[<<a, x>>] = v[hop] + W[<<hop, x>>]
    BY <1>1, HopOut
  <1> HIDE DEF hop
  <1>3. /\ linkCosts[<<a, hop>>] \in Nat /\ pathCosts[<<hop, x>>] \in Nat
        /\ pathCosts[<<a, x>>] \in Nat /\ W[<<a, x>>] \in Nat
        /\ W[<<hop, x>>] \in Nat /\ v[hop] \in Nat \ {0}
    BY <1>1, <1>2, PathEntries, TableEntries
  <1>4. Weight(W, x, hop) < Weight(W, x, a)
    BY <1>2, <1>3 DEF Weight
  <1>5. Closer(W, x, hop, a)
    BY <1>2, <1>3, <1>4 DEF Closer
  <1>6. hop # a
    BY <1>3, <1>4 DEF Weight
  <1> QED
    BY <1>2, <1>5, <1>6 DEF Bidirectional, hop

(* A free link in both directions: its ends are as far from every station.  *)
LEMMA FreeStep ==
    ASSUME Steady, NEW W, NEW v, Tables(W, v),
           NEW a \in Stations, NEW b \in Stations, NEW x \in Stations,
           linkCosts[<<a, b>>] = 0, linkCosts[<<b, a>>] = 0
    PROVE  pathCosts[<<a, x>>] <= pathCosts[<<b, x>>]
  <1>1. ToSet(mps) = Stations /\ PathsInv
    BY RunningTables DEF Steady
  <1>2. /\ pathCosts[<<a, b>>] \in Nat /\ pathCosts[<<a, x>>] \in Nat
        /\ pathCosts[<<b, x>>] \in Nat /\ Inf \in Nat \ {0}
        /\ pathCosts[<<b, b>>] = 0 /\ pathCosts[<<a, a>>] = 0
    BY PathEntries
  <1>3. DirectCosts(linkCosts)[<<a, b>>] = 0
    BY <1>1, <1>2, TableEntries
  <1>4. NoWorse(pathCosts[<<a, b>>], W[<<a, b>>], DirectCosts(linkCosts)[<<a, b>>], 0)
    BY DEF Tables, SolvedBy, AtMostDirect
  <1>5. pathCosts[<<a, b>>] = 0
    BY <1>2, <1>3, <1>4 DEF NoWorse
  <1>6. CASE x # a /\ x # b /\ a # b
    <2>1. NoWorse(pathCosts[<<a, x>>], W[<<a, x>>],
                  pathCosts[<<a, b>>] + pathCosts[<<b, x>>],
                  W[<<a, b>>] + v[b] + W[<<b, x>>])
      BY <1>1, <1>6 DEF Tables, SolvedBy, Triangle
    <2> QED
      BY <1>2, <1>5, <2>1 DEF NoWorse
  <1> QED
    BY <1>2, <1>5, <1>6

(* The transceivers of a device are as far from every station.              *)
LEMMA SameDevice ==
    ASSUME Steady, NEW W, NEW v, Tables(W, v),
           NEW a \in Stations, NEW b \in Stations, NEW x \in Stations,
           Device(a) = Device(b)
    PROVE  pathCosts[<<a, x>>] = pathCosts[<<b, x>>]
  <1>1. ASSUME NEW t \in Stations
        PROVE  pathCosts[<<t, x>>] = pathCosts[<<Device(t), x>>]
    <2>1. CASE t \in Transceivers
      <3> DEFINE d == Device(t)
      <3>1. d \in Stations /\ d = DeviceOf[t]
        BY <2>1, Addresses DEF Device
      <3>2. linkCosts[<<t, d>>] = 0 /\ linkCosts[<<d, t>>] = 0
        BY <2>1, <3>1, RunningTables DEF Steady, LinkKinds
      <3> HIDE DEF d
      <3>3. /\ pathCosts[<<t, x>>] <= pathCosts[<<d, x>>]
            /\ pathCosts[<<d, x>>] <= pathCosts[<<t, x>>]
        BY <3>1, <3>2, FreeStep
      <3>4. pathCosts[<<t, x>>] \in Nat /\ pathCosts[<<d, x>>] \in Nat
        BY <3>1, PathEntries
      <3> QED
        BY <3>3, <3>4 DEF d
    <2>2. CASE t \notin Transceivers
      BY <2>2 DEF Device
    <2> QED
      BY <2>1, <2>2
  <1> QED
    BY <1>1

(* A hop over a measured link leaves the device.                            *)
LEMMA RadioHop ==
    ASSUME Steady, NEW W, NEW v, Tables(W, v),
           NEW a \in Stations, NEW x \in Stations, a # x, HasPath(a, x),
           OnRadio(a, paths[<<a, x>>])
    PROVE  LET hop == paths[<<a, x>>]
           IN  /\ pathCosts[<<Device(hop), x>>] = pathCosts[<<hop, x>>]
               /\ pathCosts[<<hop, x>>] < pathCosts[<<a, x>>]
               /\ Device(hop) # Device(a)
  <1> DEFINE hop == paths[<<a, x>>]
  <1>1. /\ hop \in Stations
        /\ pathCosts[<<a, x>>] = linkCosts[<<a, hop>>] + pathCosts[<<hop, x>>]
    BY NextIsCloser
  <1>2. linkCosts[<<a, hop>>] # 0
    BY RadioCostsAssumption DEF OnRadio
  <1> HIDE DEF hop
  <1>3. /\ linkCosts[<<a, hop>>] \in Nat /\ pathCosts[<<hop, x>>] \in Nat
        /\ pathCosts[<<a, x>>] \in Nat
    BY <1>1, PathEntries
  <1>4. pathCosts[<<hop, x>>] < pathCosts[<<a, x>>]
    BY <1>1, <1>2, <1>3
  <1>5. Device(hop) \in Stations /\ Device(Device(hop)) = Device(hop)
    BY <1>1, Addresses
  <1>6. pathCosts[<<Device(hop), x>>] = pathCosts[<<hop, x>>]
    BY <1>1, <1>5, SameDevice
  <1>7. Device(hop) # Device(a)
    <2> SUFFICES ASSUME Device(hop) = Device(a) PROVE FALSE
      OBVIOUS
    <2>1. pathCosts[<<hop, x>>] = pathCosts[<<a, x>>]
      BY <1>1, SameDevice
    <2> QED
      BY <1>3, <1>4, <2>1
  <1> QED
    BY <1>4, <1>6, <1>7 DEF hop

(* The next hop of the device itself: wired, to an own transceiver or over   *)
(* the air.                                                                 *)
LEMMA FirstStep ==
    ASSUME Steady, NEW W, NEW v, Tables(W, v),
           NEW d \in Devices, NEW x \in Stations, d # x, HasPath(d, x)
    PROVE  LET hop == paths[<<d, x>>]
           IN  \/ Wired(d, hop) /\ Device(hop) = hop
               \/ hop \in Transceivers /\ Device(hop) = d
               \/ OnRadio(d, hop)
  <1> DEFINE hop == paths[<<d, x>>]
  <1>1. d \in Stations /\ d \notin Transceivers
    BY Addresses DEF Devices
  <1>2. /\ hop \in Stations /\ hop # d /\ linkCosts[<<d, hop>>] # Inf
    BY <1>1, NextIsCloser
  <1> HIDE DEF hop
  <1>3. Wired(d, hop) \/ Internal(d, hop) \/ OnRadio(d, hop)
    BY <1>1, <1>2 DEF Steady, LinkKinds
  <1>4. CASE Wired(d, hop)
    BY <1>4, Addresses DEF Wired, Device, hop
  <1>5. CASE Internal(d, hop)
    BY <1>1, <1>5 DEF Internal, Device, hop
  <1> QED
    BY <1>3, <1>4, <1>5 DEF hop

(* The next hop of an own transceiver that is the first hop of a device goes *)
(* over the air.                                                            *)
LEMMA SecondStep ==
    ASSUME Steady, NEW W, NEW v, Tables(W, v),
           NEW d \in Devices, NEW x \in Stations, Device(x) # d, HasPath(d, x),
           paths[<<d, x>>] \in Transceivers, Device(paths[<<d, x>>]) = d
    PROVE  LET t == paths[<<d, x>>]
           IN  /\ t \in Stations /\ t # x /\ HasPath(t, x)
               /\ OnRadio(t, paths[<<t, x>>])
  <1> DEFINE t == paths[<<d, x>>]
             hop == paths[<<t, x>>]
  <1>1. d \in Stations /\ d \notin Transceivers /\ d # x
    BY Addresses DEF Devices
  <1>2. /\ t \in Stations /\ Closer(W, x, t, d) /\ pathCosts[<<t, x>>] # Inf
    BY <1>1, NextIsCloser
  <1>3. t \in Transceivers /\ Device(t) = d
    OBVIOUS
  <1> HIDE DEF t
  <1>4. t # x /\ HasPath(t, x)
    BY <1>2, <1>3, PathEntries
  <1>5. hop \in Stations /\ hop # t /\ linkCosts[<<t, hop>>] # Inf /\ Closer(W, x, hop, t)
    BY <1>2, <1>4, NextIsCloser
  <1> HIDE DEF hop
  <1>6. hop # d
    <2> SUFFICES ASSUME hop = d PROVE FALSE
      OBVIOUS
    <2>1. /\ pathCosts[<<d, x>>] \in Nat /\ pathCosts[<<t, x>>] \in Nat
          /\ W[<<d, x>>] \in Nat /\ W[<<t, x>>] \in Nat
      BY <1>1, <1>2, PathEntries
    <2>2. Weight(W, x, d) \in Nat /\ Weight(W, x, t) \in Nat
      BY <2>1 DEF Weight
    <2> QED
      BY <1>2, <1>5, <2>1, <2>2 DEF Closer
  <1>7. Wired(t, hop) \/ Internal(t, hop) \/ OnRadio(t, hop)
    BY <1>2, <1>5 DEF Steady, LinkKinds
  <1>8. ~Wired(t, hop)
    BY <1>3, Addresses DEF Wired
  <1>9. ~Internal(t, hop)
    <2>1. \A s \in Transceivers : DeviceOf[s] \notin Transceivers
      BY Addresses DEF Devices
    <2> QED
      BY <1>3, <1>6, <2>1 DEF Internal, Device
  <1> QED
    BY <1>2, <1>4, <1>7, <1>8, <1>9 DEF t, hop

LEMMA NextHopIs ==
    ASSUME Steady, NEW a \in Stations, NEW x \in Stations, a # x
    PROVE  GetNextHop(a, x) = paths[<<a, x>>]
  BY RunningTables DEF GetNextHop, MeshEnd

(* A query at any other station than the one asked for is answered.         *)
LEMMA AnsweredElsewhere ==
    ASSUME Steady, NEW a \in Stations, NEW x \in Stations, a # x
    PROVE  Answered(a, x)
  BY RunningTables, Addresses DEF Answered, MeshEnd

(* A frame at the device is at the one of x, or has a path to x.            *)
Towards(d, x) == Device(x) = d \/ HasPath(d, x)

(* The hop of a device towards a station of another one.                    *)
LEMMA DeviceHop ==
    ASSUME Steady, NEW W, NEW v, Tables(W, v),
           NEW d \in Devices, NEW x \in Stations, Device(x) # d
    PROVE  /\ ~HasPath(d, x) => Hop(d, x) = [src |-> d, tgt |-> None]
           /\ HasPath(d, x) =>
                LET hop == Hop(d, x)
                IN  /\ hop.src \in Stations /\ Device(hop.src) = d
                    /\ hop.tgt \in Stations /\ Device(hop.tgt) # d
                    /\ Towards(Device(hop.tgt), x)
                    /\ Closer(W, x, Device(hop.tgt), d)
  <1> DEFINE first == paths[<<d, x>>]
  <1>1. d \in Stations /\ Device(d) = d /\ d # x
    BY Addresses
  <1>2. GetNextHop(d, x) = first
    BY <1>1, NextHopIs
  <1>3. Hop(d, x) = IF IsTransceiverMAC(d, first)
                    THEN [src |-> first, tgt |-> GetNextHop(first, x)]
                    ELSE [src |-> d, tgt |-> first]
    BY <1>2 DEF Hop
  <1>4. CASE ~HasPath(d, x)
    <2>1. first = None
      BY <1>4 DEF HasPath
    <2>2. ~IsTransceiverMAC(d, None)
      BY Addresses DEF IsTransceiverMAC
    <2> QED
      BY <1>3, <1>4, <2>1, <2>2
  <1>5. ASSUME NEW b \in Stations, Device(b) # d, pathCosts[<<b, x>>] # Inf,
               pathCosts[<<Device(b), x>>] = pathCosts[<<b, x>>]
        PROVE  Towards(Device(b), x)
    <2>1. Device(b) \in Stations
      BY Addresses
    <2>2. CASE Device(b) = x
      BY <2>1, <2>2, Addresses DEF Towards
    <2>3. CASE Device(b) # x
      BY <1>5, <2>1, <2>3, PathEntries DEF Towards
    <2> QED
      BY <2>2, <2>3
  <1>6. CASE HasPath(d, x)
    <2>1. /\ first \in Stations /\ Closer(W, x, first, d)
          /\ pathCosts[<<first, x>>] # Inf
      BY <1>1, <1>6, NextIsCloser
    <2>2. \/ Wired(d, first) /\ Device(first) = first
          \/ first \in Transceivers /\ Device(first) = d
          \/ OnRadio(d, first)
      BY <1>1, <1>6, FirstStep
    <2>3. CASE Wired(d, first) /\ Device(first) = first
      <3>1. first # d
        BY <1>1, <1>6, NextIsCloser
      <3>2. Hop(d, x) = [src |-> d, tgt |-> first]
        BY <1>3, <2>3, <3>1 DEF IsTransceiverMAC
      <3>3. Towards(first, x)
        BY <1>5, <2>1, <2>3, <3>1
      <3> HIDE DEF first
      <3> QED
        BY <1>1, <1>6, <2>1, <2>3, <3>1, <3>2, <3>3
    <2>4. CASE OnRadio(d, first)
      <3>1. /\ pathCosts[<<Device(first), x>>] = pathCosts[<<first, x>>]
            /\ pathCosts[<<first, x>>] < pathCosts[<<d, x>>]
            /\ Device(first) # Device(d)
        BY <1>1, <1>6, <2>4, RadioHop
      <3>2. Hop(d, x) = [src |-> d, tgt |-> first]
        BY <1>1, <1>3, <3>1 DEF IsTransceiverMAC
      <3>3. Towards(Device(first), x)
        BY <1>1, <1>5, <2>1, <3>1
      <3>4. Closer(W, x, Device(first), d)
        BY <3>1 DEF Closer
      <3> HIDE DEF first
      <3> QED
        BY <1>1, <1>6, <2>1, <3>1, <3>2, <3>3, <3>4
    <2>5. CASE first \in Transceivers /\ Device(first) = d
      <3> DEFINE hop == paths[<<first, x>>]
      <3>1. first # x /\ HasPath(first, x) /\ OnRadio(first, hop)
        BY <1>6, <2>5, SecondStep
      <3>2. /\ pathCosts[<<Device(hop), x>>] = pathCosts[<<hop, x>>]
            /\ pathCosts[<<hop, x>>] < pathCosts[<<first, x>>]
            /\ Device(hop) # Device(first)
        BY <2>1, <3>1, RadioHop
      <3>3. hop \in Stations /\ pathCosts[<<hop, x>>] # Inf
        BY <2>1, <3>1, NextIsCloser
      <3>4. GetNextHop(first, x) = hop
        BY <2>1, <3>1, NextHopIs
      <3>5. Hop(d, x) = [src |-> first, tgt |-> hop]
        BY <1>3, <2>1, <2>5, <3>4 DEF IsTransceiverMAC
      <3>6. pathCosts[<<first, x>>] = pathCosts[<<d, x>>]
        BY <1>1, <2>1, <2>5, SameDevice
      <3> HIDE DEF hop, first
      <3>7. Towards(Device(hop), x)
        BY <1>5, <2>5, <3>2, <3>3
      <3>8. Closer(W, x, Device(hop), d)
        BY <3>2, <3>6 DEF Closer
      <3> QED
        BY <1>6, <2>1, <2>5, <3>2, <3>3, <3>5, <3>7, <3>8
    <2> QED
      BY <2>2, <2>3, <2>4, <2>5
  <1> QED
    BY <1>4, <1>6

(* The devices can be ranked such that every hop leads to a lower one.      *)
Descends(r, x) ==
    \A d \in Devices :
      Device(x) # d /\ HasPath(d, x) => r[Device(Hop(d, x).tgt)] < r[d]

Ranks == [Devices -> 0..(Cardinality(Devices) - 1)]

LEMMA Ranking ==
    ASSUME Steady, NEW x \in Stations
    PROVE  \E r \in Ranks : Descends(r, x)
  <1>1. PICK W, v : Tables(W, v)
    BY RunningTables
  <1> DEFINE Before(d) == {y \in Devices : Closer(W, x, y, d)}
             r == [d \in Devices |-> Cardinality(Before(d))]
  <1>2. /\ Devices \subseteq Stations /\ IsFiniteSet(Devices)
        /\ Cardinality(Devices) \in Nat
    BY Addresses, FS_CardinalityType
  <1>3. ASSUME NEW y \in Devices
        PROVE  /\ pathCosts[<<y, x>>] \in Nat /\ W[<<y, x>>] \in Nat
               /\ Weight(W, x, y) \in Nat
    <2>1. pathCosts[<<y, x>>] \in Nat /\ W[<<y, x>>] \in Nat
      BY <1>1, <1>2, PathEntries
    <2> QED
      BY <2>1 DEF Weight
  <1>4. ASSUME NEW d \in Devices
        PROVE  IsFiniteSet(Before(d)) /\ Cardinality(Before(d)) \in 0..(Cardinality(Devices) - 1)
    <2>1. d \notin Before(d) /\ Before(d) \subseteq Devices
      BY <1>3 DEF Closer
    <2>2. Before(d) # Devices
      BY <2>1
    <2> HIDE DEF Before
    <2>3. /\ IsFiniteSet(Before(d)) /\ Cardinality(Before(d)) <= Cardinality(Devices)
          /\ Cardinality(Before(d)) # Cardinality(Devices)
      BY <1>2, <2>1, <2>2, FS_Subset
    <2>4. Cardinality(Before(d)) \in Nat /\ Cardinality(Devices) \in Nat
      BY <1>2, <2>3, FS_CardinalityType
    <2> QED
      BY <2>3, <2>4
  <1>5. ASSUME NEW a \in Devices, NEW b \in Devices, Closer(W, x, b, a)
        PROVE  Cardinality(Before(b)) < Cardinality(Before(a))
    <2>1. Before(b) \subseteq Before(a)
      <3> SUFFICES ASSUME NEW y \in Devices, Closer(W, x, y, b)
                   PROVE  Closer(W, x, y, a)
        OBVIOUS
      <3>1. /\ pathCosts[<<y, x>>] \in Nat /\ Weight(W, x, y) \in Nat
            /\ pathCosts[<<a, x>>] \in Nat /\ Weight(W, x, a) \in Nat
            /\ pathCosts[<<b, x>>] \in Nat /\ Weight(W, x, b) \in Nat
        BY <1>3
      <3> QED
        BY <1>5, <3>1 DEF Closer
    <2>2. b \in Before(a) /\ b \notin Before(b)
      <3>1. pathCosts[<<b, x>>] \in Nat /\ Weight(W, x, b) \in Nat
        BY <1>3
      <3> QED
        BY <1>5, <3>1 DEF Closer
    <2>3. Before(b) # Before(a)
      BY <2>2
    <2>4. /\ IsFiniteSet(Before(a))
          /\ Cardinality(Before(a)) \in Nat /\ Cardinality(Before(b)) \in Nat
      <3> HIDE DEF Before
      <3> QED
        BY <1>2, <1>4
    <2> HIDE DEF Before
    <2>5. /\ Cardinality(Before(b)) <= Cardinality(Before(a))
          /\ Cardinality(Before(b)) # Cardinality(Before(a))
      BY <2>1, <2>3, <2>4, FS_Subset
    <2> QED
      BY <2>4, <2>5
  <1>6. r \in Ranks
    BY <1>4 DEF Ranks
  <1>7. Descends(r, x)
    <2> SUFFICES ASSUME NEW d \in Devices, Device(x) # d, HasPath(d, x)
                 PROVE  r[Device(Hop(d, x).tgt)] < r[d]
      BY DEF Descends
    <2>1. Hop(d, x).tgt \in Stations /\ Closer(W, x, Device(Hop(d, x).tgt), d)
      BY <1>1, DeviceHop
    <2>2. Device(Hop(d, x).tgt) \in Devices
      BY <2>1, Addresses
    <2> HIDE DEF Before
    <2> QED
      BY <1>5, <2>1, <2>2
  <1> QED
    BY <1>6, <1>7

(* A portal reaches what is behind another portal over a portal.            *)
LEMMA WiredFirst ==
    ASSUME Steady, NEW d \in Portals, NEW x \in Stations,
           Device(x) \in Portals, Device(x) # d
    PROVE  HasPath(d, x) /\ paths[<<d, x>>] \in Portals
  <1>1. PICK W, v : Tables(W, v)
    BY RunningTables
  <1> DEFINE e == Device(x)
             hop == paths[<<d, x>>]
  <1>2. /\ d \in Stations /\ e \in Stations /\ d \in Devices /\ d # x
        /\ Device(e) = Device(x) /\ Device(d) = d
    BY Addresses
  <1>3. linkCosts[<<d, e>>] = 0 /\ linkCosts[<<e, d>>] = 0
    BY <1>2, RunningTables DEF Steady, PathsInv, LinkInv
  <1> HIDE DEF e
  <1>4. pathCosts[<<d, x>>] <= pathCosts[<<e, x>>]
    BY <1>1, <1>2, <1>3, FreeStep
  <1>5. pathCosts[<<e, x>>] = pathCosts[<<x, x>>]
    BY <1>1, <1>2, SameDevice
  <1>6. pathCosts[<<d, x>>] \in Nat /\ pathCosts[<<x, x>>] = 0 /\ Inf \in Nat \ {0}
    BY <1>1, <1>2, PathEntries
  <1>7. pathCosts[<<d, x>>] = 0
    BY <1>4, <1>5, <1>6
  <1>8. HasPath(d, x)
    BY <1>1, <1>2, <1>6, <1>7, PathEntries
  <1>9. hop \in Stations
    BY <1>1, <1>2, <1>8, NextIsCloser
  <1>10. ~OnRadio(d, hop)
    <2> SUFFICES ASSUME OnRadio(d, hop) PROVE FALSE
      OBVIOUS
    <2>1. pathCosts[<<hop, x>>] < pathCosts[<<d, x>>]
      BY <1>1, <1>2, <1>8, RadioHop
    <2>2. pathCosts[<<hop, x>>] \in Nat
      BY <1>1, <1>9, PathEntries
    <2> QED
      BY <1>7, <2>1, <2>2
  <1>11. ~(hop \in Transceivers /\ Device(hop) = d)
    <2> SUFFICES ASSUME hop \in Transceivers, Device(hop) = d PROVE FALSE
      OBVIOUS
    <2> DEFINE next == paths[<<hop, x>>]
    <2>1. hop # x /\ HasPath(hop, x) /\ OnRadio(hop, next)
      BY <1>1, <1>2, <1>8, SecondStep DEF e
    <2>2. pathCosts[<<next, x>>] < pathCosts[<<hop, x>>]
      BY <1>1, <1>9, <2>1, RadioHop
    <2>3. pathCosts[<<hop, x>>] = pathCosts[<<d, x>>]
      BY <1>1, <1>2, <1>9, SameDevice
    <2>4. next \in Stations
      BY <1>1, <1>9, <2>1, NextIsCloser
    <2>5. pathCosts[<<next, x>>] \in Nat
      BY <1>1, <2>4, PathEntries
    <2> QED
      BY <1>7, <2>2, <2>3, <2>5
  <1>12. Wired(d, hop)
    BY <1>1, <1>2, <1>8, <1>10, <1>11, FirstStep
  <1> QED
    BY <1>8, <1>12 DEF Wired

(* A device has a path to its transceivers.                                 *)
LEMMA OwnPath ==
    ASSUME Steady, NEW d \in Devices, NEW x \in Stations, Towards(d, x), d # x
    PROVE  HasPath(d, x)
  <1>1. PICK W, v : Tables(W, v)
    BY RunningTables
  <1>2. d \in Stations /\ Device(d) = d
    BY Addresses
  <1>3. CASE Device(x) = d
    <2>1. pathCosts[<<d, x>>] = pathCosts[<<x, x>>]
      BY <1>1, <1>2, <1>3, SameDevice
    <2>2. pathCosts[<<x, x>>] = 0 /\ Inf # 0
      BY <1>1, PathEntries
    <2> QED
      BY <1>1, <1>2, <2>1, <2>2, PathEntries
  <1> QED
    BY <1>3 DEF Towards

(* The hop towards a client is the one towards its proxy.                   *)
LEMMA ProxyHop ==
    ASSUME Steady, NEW c \in Clients
    PROVE  /\ \A a : \/ /\ GetNextHop(a, c) = GetNextHop(a, proxyOf[c])
                        /\ Answered(a, c) <=> Answered(a, proxyOf[c])
                     \/ proxyOf[c] = None
           /\ \A d : Hop(d, c) = Hop(d, proxyOf[c]) \/ proxyOf[c] = None
           /\ proxyOf[c] \in Stations \cup {None}
           /\ portalOf[c] \in Portals \cup {None}
           /\ ~IsMeshPoint(c)
  <1>1. /\ proxyOf[c] \in Stations \cup {None} /\ portalOf[c] \in Portals \cup {None}
        /\ ~IsMeshPoint(c)
    BY RunningTables, Addresses DEF Steady, PathsInv, ProxyInv
  <1>2. proxyOf[c] # None => IsMeshPoint(proxyOf[c])
    BY <1>1, RunningTables
  <1>3. \A a : \/ /\ GetNextHop(a, c) = GetNextHop(a, proxyOf[c])
                  /\ Answered(a, c) <=> Answered(a, proxyOf[c])
               \/ proxyOf[c] = None
    BY <1>1, <1>2 DEF GetNextHop, Answered, MeshEnd, GetProxyFor
  <1> QED
    BY <1>1, <1>3 DEF Hop

(* A client has a portal when its proxy can be reached from one.            *)
LEMMA PortalKnown ==
    ASSUME Steady, NEW c \in Clients, proxyOf[c] # None, NEW p \in Portals,
           p = proxyOf[c] \/ HasPath(p, proxyOf[c])
    PROVE  portalOf[c] # None
  <1> DEFINE x == proxyOf[c]
  <1>1. x \in Stations /\ p \in Stations /\ None \notin Stations
    BY ProxyHop, Addresses
  <1>2. PICK W, v : Tables(W, v)
    BY RunningTables
  <1>3. PortalServesClient /\ Current
    BY PortalServed DEF Steady, Running
  <1>4. CASE x \in Portals
    BY <1>1, <1>3, <1>4 DEF PortalServesClient
  <1>5. CASE x \notin Portals
    <2>1. pathCosts[<<p, x>>] # Inf
      BY <1>1, <1>2, <1>5, PathEntries
    <2> QED
      BY <1>3, <1>5, <2>1 DEF PortalServesClient
  <1> QED
    BY <1>4, <1>5

-----------------------------------------------------------------------------
(* The frame                                                                *)

Addressable == Stations \cup Clients \cup {None}

Places == {"nowhere", "air", "rang", "upper", "dropped", "assertion", "refused"}

Frames ==
    [at : Places, src : Addressable, tgt : Addressable,
     ttl : Nat, toDS : BOOLEAN, fromDS : BOOLEAN, addressExtension : BOOLEAN,
     finalDestination : Addressable, originalSource : Addressable,
     meshSource : Addressable, meshDestination : Addressable,
     origin : Addressable, goal : Addressable, entry : Addressable,
     hops : Nat, stable : BOOLEAN]

(* Where a frame comes from and goes.                                       *)
Journey(f) ==
    /\ f.origin \in Clients \cup Devices /\ f.entry \in Devices
    /\ f.goal \in Clients \cup Devices \cup {None}
    /\ f.goal = None => f.origin \in Clients

(* On the air from a client to its proxy.                                   *)
FromClient(f) ==
    /\ ~f.fromDS /\ ~f.addressExtension /\ f.src \in Clients /\ f.origin = f.src
    /\ f.tgt \in Stations /\ f.entry = Device(f.tgt)
    /\ f.goal \in Clients \cup {None} /\ f.finalDestination = f.goal
    /\ f.hops = 0 /\ f.ttl = 0

(* On the air from the proxy to the client that it is for.                  *)
ToClient(f) ==
    /\ f.fromDS /\ f.src \in Stations /\ f.tgt \in Clients /\ f.goal = f.tgt
    /\ f.originalSource = f.origin
    /\ f.ttl = 0 /\ f.hops <= 2 * MeshTTL

(* The addresses of a frame in the mesh: to a client by its proxy, or to a  *)
(* device, which is a portal for what goes to the Internet.                 *)
Addressed(f) ==
    /\ f.fromDS /\ f.originalSource = f.origin
    /\ f.addressExtension =>
         /\ f.finalDestination \in Clients /\ f.goal = f.finalDestination
         /\ f.meshDestination \in Stations
    /\ ~f.addressExtension =>
         /\ f.finalDestination \in Devices
         /\ f.goal = f.finalDestination
              \/ (f.goal = None /\ f.finalDestination \in Portals)

(* With n transmissions, made or still allowed: more than the TTL only when *)
(* the root has sent it to a proxy that is no portal.                       *)
Budget(f, n) ==
    /\ n <= 2 * MeshTTL
    /\ n > MeshTTL => f.addressExtension /\ Device(f.meshDestination) \notin Portals

InMesh(f) ==
    /\ Addressed(f)
    /\ f.src \in Stations /\ f.tgt \in Stations /\ Device(f.src) # Device(f.tgt)
    /\ f.ttl \in 1..MeshTTL /\ Budget(f, f.hops + f.ttl - 1)

(* In the backbone, for a client or for what is behind a portal.            *)
AtRANG(f) ==
    /\ f.tgt \in Clients => f.goal = f.tgt
    /\ f.tgt \notin Clients =>
         /\ f.tgt \in Devices
         /\ f.goal = f.tgt \/ (f.goal = None /\ f.tgt \in Portals)
    /\ f.origin = IF f.fromDS THEN f.originalSource ELSE f.src

Delivered(f) ==
    /\ IF f.goal = None THEN Device(f.tgt) \in Portals ELSE Device(f.tgt) = f.goal
    /\ f.origin = IF f.fromDS /\ f.tgt \in Stations THEN f.originalSource ELSE f.src

(* What holds of a frame however the paths change.                          *)
Shape(f) ==
    /\ f \in Frames /\ f.at # "refused"
    /\ f.at # "nowhere" => Journey(f)
    /\ f.at = "air" => FromClient(f) \/ ToClient(f) \/ InMesh(f)
    /\ f.at = "rang" => AtRANG(f)
    /\ f.at = "upper" => Delivered(f)

(* The TTL allows a path through all the devices.                           *)
TTLSuffices == Cardinality(Devices) <= MeshTTL + 1

Reachable(f) ==
    /\ Target(f) # None
    /\ f.entry = Target(f) \/ HasPath(f.entry, Target(f))

(* The frame is on a way to x that the TTL allows.                          *)
TTLCovers(d, x, ttl) ==
    TTLSuffices => \E r \in [Devices -> Nat] : Descends(r, x) /\ r[d] <= ttl

OnRoute(f) ==
    /\ MeshDst(f) = Target(f)
    /\ Towards(Device(f.tgt), MeshDst(f))
    /\ TTLCovers(Device(f.tgt), MeshDst(f), f.ttl - 1)

(* What holds of a frame as long as neither paths nor associations change.  *)
Live(f) ==
    f.stable =>
      /\ f.at = "air" /\ ~f.fromDS => proxyOf[f.src] = f.tgt
      /\ f.at = "air" /\ f.fromDS /\ f.tgt \notin Clients /\ Reachable(f) => OnRoute(f)
      /\ f.at = "rang" /\ f.tgt \in Clients /\ Reachable(f) => portalOf[f.tgt] # None
      /\ TTLSuffices /\ f.at = "dropped" => ~Reachable(f)
      /\ TTLSuffices /\ f.at = "assertion" => ~Reachable(f) \/ AtOwnPortal(f)

Good(f) == Shape(f) /\ Live(f)

MeshInv ==
    /\ PathsInv /\ LinkKinds
    /\ frame.at # "nowhere" => Running
    /\ Good(frame)

-----------------------------------------------------------------------------
(* Frames that end                                                          *)

LEMMA TargetIs ==
    ASSUME Steady, NEW f \in Frames, Journey(f)
    PROVE  /\ Target(f) \in Stations \cup {None}
           /\ f.goal \in Clients => Target(f) = proxyOf[f.goal]
           /\ f.goal \in Devices => Target(f) = f.goal
           /\ f.goal = None => Target(f) = portalOf[f.origin]
  <1>1. \A c \in Clients : /\ proxyOf[c] \in Stations \cup {None}
                           /\ portalOf[c] \in Portals \cup {None}
    BY ProxyHop
  <1> QED
    BY <1>1, Addresses DEF Target, Journey

LEMMA ReachableIs ==
    ASSUME Steady, NEW f \in Frames, Journey(f)
    PROVE  Reachable(f) <=> ~Unreachable(f)
  <1>1. PICK W, v : Tables(W, v)
    BY RunningTables
  <1> DEFINE x == Target(f)
             d == f.entry
  <1>2. x \in Stations \cup {None} /\ d \in Stations
    BY TargetIs, Addresses DEF Journey
  <1> HIDE DEF x, d
  <1>3. CASE x = None
    BY <1>3 DEF Reachable, Unreachable, x
  <1>4. CASE x # None
    <2>1. /\ pathCosts[<<d, d>>] = 0 /\ Inf # 0
          /\ d # x => (HasPath(d, x) <=> pathCosts[<<d, x>>] # Inf)
      BY <1>1, <1>2, <1>4, PathEntries
    <2> QED
      BY <1>4, <2>1 DEF Reachable, Unreachable, x, d
  <1> QED
    BY <1>3, <1>4

(* A frame of the same journey: its target, and whether it is reachable.    *)
SameJourney(f, g) ==
    f.origin = g.origin /\ f.goal = g.goal /\ f.entry = g.entry /\ f.stable = g.stable

LEMMA SameReach ==
    ASSUME NEW f, NEW g, SameJourney(f, g)
    PROVE  /\ Target(f) = Target(g) /\ (Reachable(f) <=> Reachable(g))
           /\ Journey(f) <=> Journey(g)
  <1>1. Target(f) = Target(g)
    BY DEF SameJourney, Target
  <1> QED
    BY <1>1 DEF SameJourney, Reachable, Journey

LEMMA EndGood ==
    ASSUME NEW f \in Frames, Journey(f), f.stable /\ TTLSuffices => ~Reachable(f)
    PROVE  Good(Dropped(f)) /\ Good(Failed(f))
  <1> DEFINE g == Dropped(f)
             h == Failed(f)
  <1>1. /\ g \in Frames /\ g.at = "dropped" /\ SameJourney(g, f)
        /\ h \in Frames /\ h.at = "assertion" /\ SameJourney(h, f)
    BY DEF Frames, Dropped, Failed, SameJourney, Places
  <1> HIDE DEF g, h
  <1>2. /\ Journey(g) /\ Journey(h)
        /\ Reachable(g) <=> Reachable(f)
        /\ Reachable(h) <=> Reachable(f)
        /\ g.stable = f.stable /\ h.stable = f.stable
    BY <1>1, SameReach DEF SameJourney
  <1>3. Good(g) /\ Good(h)
    BY <1>1, <1>2 DEF Good, Shape, Live
  <1> QED
    BY <1>3 DEF g, h

(* The failing query of a portal for its own client.                        *)
LEMMA OwnPortalGood ==
    ASSUME NEW f \in Frames, Journey(f), AtOwnPortal(f) PROVE Good(Failed(f))
  <1> DEFINE h == Failed(f)
  <1>1. /\ h \in Frames /\ h.at = "assertion" /\ SameJourney(h, f) /\ h.tgt = f.tgt
    BY DEF Frames, Failed, SameJourney, Places
  <1> HIDE DEF h
  <1>2. Journey(h) /\ AtOwnPortal(h)
    BY <1>1, SameReach DEF SameJourney, AtOwnPortal
  <1>3. Good(h)
    BY <1>1, <1>2 DEF Good, Shape, Live
  <1> QED
    BY <1>3 DEF h

-----------------------------------------------------------------------------
(* Frames that are sent                                                     *)

LEMMA Copied ==
    ASSUME NEW f \in Frames
    PROVE  LET g == CreateForwardingCopy(f)
           IN  /\ g \in Frames /\ SameJourney(g, f) /\ g.hops = f.hops
               /\ g.ttl = 0 /\ ~g.addressExtension
  <1> DEFINE g == CreateForwardingCopy(f)
  <1>1. g \in Frames
    <2>1. Fresh \in Frames
      BY DEF Frames, Places, Fresh, Addressable
    <2> QED
      BY <2>1 DEF CreateForwardingCopy, Frames
  <1>2. /\ SameJourney(g, f) /\ g.hops = f.hops /\ g.ttl = 0 /\ ~g.addressExtension
    BY DEF Frames, CreateForwardingCopy, Fresh, SameJourney
  <1> QED
    BY <1>1, <1>2

OnAir(g, hop) ==
    [g EXCEPT !.at = "air", !.src = hop.src, !.tgt = hop.tgt, !.hops = @ + 1]

LEMMA OnAirFields ==
    ASSUME NEW g \in Frames, NEW hop, hop.src \in Addressable, hop.tgt \in Addressable
    PROVE  LET sent == OnAir(g, hop)
           IN  /\ sent \in Frames /\ sent.at = "air" /\ SameJourney(sent, g)
               /\ sent.src = hop.src /\ sent.tgt = hop.tgt /\ sent.hops = g.hops + 1
               /\ sent.ttl = g.ttl /\ sent.fromDS = g.fromDS
               /\ sent.originalSource = g.originalSource
               /\ sent.addressExtension = g.addressExtension
               /\ sent.finalDestination = g.finalDestination
               /\ sent.meshDestination = g.meshDestination
  <1> DEFINE n == g.hops + 1
             s == hop.src
             t == hop.tgt
             sent == [g EXCEPT !.at = "air", !.src = s, !.tgt = t, !.hops = n]
  <1>1. n \in Nat
    BY DEF Frames
  <1>2. OnAir(g, hop) = sent
    BY DEF Frames, OnAir
  <1> HIDE DEF n, s, t
  <1>3. s \in Addressable /\ t \in Addressable
    BY DEF s, t
  <1>4. sent \in Frames
    BY <1>1, <1>3 DEF Frames, Places
  <1>5. /\ sent.at = "air" /\ sent.src = s /\ sent.tgt = t /\ sent.hops = n
        /\ sent.ttl = g.ttl /\ sent.fromDS = g.fromDS
        /\ sent.originalSource = g.originalSource
        /\ sent.addressExtension = g.addressExtension
        /\ sent.finalDestination = g.finalDestination
        /\ sent.meshDestination = g.meshDestination
        /\ sent.origin = g.origin /\ sent.goal = g.goal /\ sent.entry = g.entry
        /\ sent.stable = g.stable
    BY DEF Frames
  <1> HIDE DEF sent
  <1> QED
    BY <1>2, <1>4, <1>5 DEF SameJourney, n, s, t

(* A transmission from d to x in the mesh.                                  *)
LEMMA TransmitGood ==
    ASSUME Steady, NEW g \in Frames, Journey(g), Addressed(g),
           NEW d \in Devices, NEW x \in Stations, x = MeshDst(g), Device(x) # d,
           NEW to, Hop(d, to) = Hop(d, x),
           \A a : Answered(a, to) <=> Answered(a, x),
           g.ttl \in 1..MeshTTL, Budget(g, g.hops + g.ttl),
           g.stable /\ Reachable(g) =>
             x = Target(g) /\ HasPath(d, x) /\ TTLCovers(d, x, g.ttl)
    PROVE  Good(Transmit(d, to, g))
  <1>1. PICK W, v : Tables(W, v)
    BY RunningTables
  <1> DEFINE hop == Hop(d, x)
             sent == OnAir(g, hop)
  <1>0. hop.src \in Stations /\ Device(hop.src) = d
    BY <1>1, DeviceHop, Addresses
  <1>2. Transmit(d, to, g) = IF hop.tgt = None THEN Dropped(g) ELSE sent
    <2>1. Answered(hop.src, to)
      BY <1>0, AnsweredElsewhere
    <2> QED
      BY <2>1 DEF Transmit, OnAir
  <1>3. CASE ~HasPath(d, x)
    <2>1. hop.tgt = None
      BY <1>1, <1>3, DeviceHop
    <2>2. Good(Dropped(g))
      BY <1>3, EndGood
    <2> QED
      BY <1>2, <2>1, <2>2
  <1>4. CASE HasPath(d, x)
    <2>1. /\ hop.src \in Stations /\ Device(hop.src) = d
          /\ hop.tgt \in Stations /\ Device(hop.tgt) # d
          /\ Towards(Device(hop.tgt), x)
      BY <1>1, <1>4, DeviceHop
    <2>2. hop.tgt # None /\ hop.tgt \notin Clients /\ Device(hop.tgt) \in Devices
      BY <2>1, Addresses
    <2> HIDE DEF hop
    <2>3. /\ sent \in Frames /\ sent.at = "air" /\ SameJourney(sent, g)
          /\ sent.src = hop.src /\ sent.tgt = hop.tgt /\ sent.hops = g.hops + 1
          /\ sent.ttl = g.ttl /\ sent.fromDS = g.fromDS
          /\ sent.originalSource = g.originalSource
          /\ sent.addressExtension = g.addressExtension
          /\ sent.finalDestination = g.finalDestination
          /\ sent.meshDestination = g.meshDestination
      BY <2>1, OnAirFields DEF Addressable
    <2> HIDE DEF sent
    <2>4. /\ Journey(sent) /\ Target(sent) = Target(g)
          /\ Reachable(sent) <=> Reachable(g)
          /\ sent.stable = g.stable /\ sent.goal = g.goal /\ sent.origin = g.origin
      BY <2>3, SameReach DEF SameJourney
    <2>5. MeshDst(sent) = x
      BY <2>3 DEF MeshDst
    <2>6. sent.hops + sent.ttl - 1 = g.hops + g.ttl
      <3>1. g.hops \in Nat /\ g.ttl \in Nat
        BY DEF Frames
      <3> QED
        BY <2>3, <3>1
    <2>7. InMesh(sent)
      <3>1. Addressed(sent)
        BY <2>3, <2>4 DEF Addressed
      <3>2. Budget(sent, sent.hops + sent.ttl - 1)
        BY <2>3, <2>6 DEF Budget
      <3> QED
        BY <2>1, <2>3, <3>1, <3>2 DEF InMesh
    <2>8. Shape(sent)
      BY <2>3, <2>4, <2>7 DEF Shape
    <2>9. ASSUME g.stable, Reachable(g), TTLSuffices
          PROVE  \E r \in [Devices -> Nat] :
                   Descends(r, x) /\ r[Device(hop.tgt)] <= g.ttl - 1
      <3>1. PICK r \in [Devices -> Nat] : Descends(r, x) /\ r[d] <= g.ttl
        BY <2>9 DEF TTLCovers
      <3>2. r[Device(hop.tgt)] < r[d]
        BY <1>4, <3>1 DEF Descends, hop
      <3>3. r[Device(hop.tgt)] \in Nat /\ r[d] \in Nat /\ g.ttl \in Nat
        BY <2>2, <3>1 DEF Frames
      <3> QED
        BY <3>1, <3>2, <3>3
    <2>10. Live(sent)
      <3>1. sent.fromDS
        BY <2>3 DEF Addressed
      <3>2. ASSUME sent.stable, Reachable(sent) PROVE OnRoute(sent)
        BY <2>1, <2>3, <2>4, <2>5, <2>9, <3>2 DEF OnRoute, TTLCovers
      <3> QED
        BY <2>3, <3>1, <3>2 DEF Live
    <2> QED
      BY <1>2, <2>2, <2>8, <2>10 DEF Good
  <1> QED
    BY <1>3, <1>4

(* The TTL of a frame that enters the mesh covers its way.                  *)
LEMMA FullTTL ==
    ASSUME Steady, NEW d \in Devices, NEW x \in Stations
    PROVE  TTLCovers(d, x, MeshTTL)
  <1> SUFFICES ASSUME TTLSuffices
               PROVE  \E r \in [Devices -> Nat] : Descends(r, x) /\ r[d] <= MeshTTL
    BY DEF TTLCovers
  <1>1. PICK r \in Ranks : Descends(r, x)
    BY Ranking
  <1>2. Cardinality(Devices) \in Nat /\ MeshTTL \in Nat
    BY Addresses, FS_CardinalityType, MeshTTLAssumption
  <1>3. r \in [Devices -> Nat] /\ r[d] <= Cardinality(Devices) - 1 /\ r[d] \in Nat
    BY <1>1, <1>2 DEF Ranks
  <1> QED
    BY <1>1, <1>2, <1>3 DEF TTLSuffices

LEMMA ToOwnBSSGood ==
    ASSUME Steady, NEW f \in Frames, Journey(f), NEW dst \in Clients,
           f.goal = dst, proxyOf[dst] \in Stations, f.hops <= 2 * MeshTTL
    PROVE  Good(SendFrameToOwnBSS(f, f.origin, dst))
  <1> DEFINE g == SendFrameToOwnBSS(f, f.origin, dst)
             copy == CreateForwardingCopy(f)
             x == proxyOf[dst]
             s == f.origin
             sent == [copy EXCEPT !.at = "air", !.fromDS = TRUE, !.originalSource = s,
                                  !.src = x, !.tgt = dst]
  <1>0. copy \in Frames /\ SameJourney(copy, f) /\ copy.hops = f.hops /\ copy.ttl = 0
    BY Copied
  <1>1. /\ g \in Frames /\ g.at = "air" /\ SameJourney(g, f)
        /\ g.src = proxyOf[dst] /\ g.tgt = dst /\ g.originalSource = f.origin
        /\ g.fromDS /\ g.ttl = 0 /\ g.hops = f.hops
    <2>1. g = sent
      BY DEF SendFrameToOwnBSS, GetProxyFor
    <2>2. x \in Addressable /\ dst \in Addressable /\ s \in Addressable
      BY DEF Addressable, Frames
    <2> HIDE DEF copy, x, s, g
    <2>3. sent \in Frames
      BY <1>0, <2>2 DEF Frames, Places
    <2>4. /\ sent.at = "air" /\ sent.fromDS /\ sent.originalSource = s
          /\ sent.src = x /\ sent.tgt = dst /\ sent.ttl = copy.ttl
          /\ sent.hops = copy.hops /\ SameJourney(sent, copy)
      BY <1>0 DEF Frames, SameJourney
    <2> HIDE DEF sent
    <2> QED
      BY <1>0, <2>1, <2>3, <2>4 DEF SameJourney, x, s
  <1> HIDE DEF g
  <1>2. Journey(g) /\ g.goal = dst /\ g.origin = f.origin
    BY <1>1, SameReach DEF SameJourney
  <1>3. ToClient(g)
    BY <1>1, <1>2 DEF ToClient
  <1>4. Good(g)
    BY <1>1, <1>2, <1>3 DEF Good, Shape, Live
  <1> QED
    BY <1>4 DEF g

LEMMA ToMPGood ==
    ASSUME Steady, NEW f \in Frames, Journey(f), f.hops = 0,
           NEW d \in Devices, NEW mp \in Devices, mp # d,
           f.goal = mp \/ (f.goal = None /\ mp \in Portals),
           f.stable /\ Reachable(f) => mp = Target(f) /\ f.entry = d
    PROVE  Good(SendFrameToMP(d, f, f.origin, mp))
  <1> DEFINE copy == CreateForwardingCopy(f)
             s == f.origin
             g == [copy EXCEPT !.ttl = MeshTTL, !.toDS = TRUE, !.fromDS = TRUE,
                               !.originalSource = s, !.finalDestination = mp]
  <1>1. mp \in Stations /\ Device(mp) = mp /\ MeshTTL \in Nat \ {0}
    BY Addresses, MeshTTLAssumption
  <1>2. /\ g \in Frames /\ SameJourney(g, f) /\ g.ttl = MeshTTL /\ g.hops = 0
        /\ g.fromDS /\ ~g.addressExtension
        /\ g.originalSource = f.origin /\ g.finalDestination = mp
    <2>1. /\ copy \in Frames /\ SameJourney(copy, f) /\ copy.hops = f.hops
          /\ ~copy.addressExtension
      BY Copied
    <2>2. mp \in Addressable /\ s \in Addressable
      BY <1>1 DEF Addressable, Frames
    <2> HIDE DEF copy, s
    <2>3. g \in Frames
      BY <1>1, <2>1, <2>2 DEF Frames
    <2>4. /\ g.ttl = MeshTTL /\ g.fromDS /\ g.originalSource = s
          /\ g.finalDestination = mp /\ g.hops = copy.hops
          /\ g.addressExtension = copy.addressExtension /\ SameJourney(g, copy)
      BY <2>1 DEF Frames, SameJourney
    <2> HIDE DEF g
    <2> QED
      BY <2>1, <2>3, <2>4 DEF SameJourney, s
  <1>3. SendFrameToMP(d, f, f.origin, mp) = Transmit(d, mp, g)
    BY DEF SendFrameToMP
  <1> HIDE DEF g
  <1>4. /\ Journey(g) /\ Target(g) = Target(f) /\ (Reachable(g) <=> Reachable(f))
        /\ g.goal = f.goal /\ g.origin = f.origin /\ g.stable = f.stable
        /\ g.entry = f.entry
    BY <1>2, SameReach DEF SameJourney
  <1>5. Addressed(g) /\ MeshDst(g) = mp
    BY <1>2, <1>4 DEF Addressed, MeshDst
  <1>6. g.ttl \in 1..MeshTTL /\ Budget(g, g.hops + g.ttl)
    BY <1>1, <1>2 DEF Budget
  <1>7. ASSUME g.stable, Reachable(g)
        PROVE  mp = Target(g) /\ HasPath(d, mp) /\ TTLCovers(d, mp, g.ttl)
    <2>1. TTLCovers(d, mp, MeshTTL)
      BY <1>1, FullTTL
    <2> QED
      BY <1>2, <1>4, <1>7, <2>1 DEF Reachable
  <1> QED
    BY <1>1, <1>2, <1>3, <1>4, <1>5, <1>6, <1>7, TransmitGood

LEMMA ToOtherBSSGood ==
    ASSUME Steady, NEW f \in Frames, Journey(f),
           NEW d \in Devices, NEW dst \in Clients, f.goal = dst,
           ~HasAssociated(d, dst),
           f.hops = 0 \/ (f.hops <= MeshTTL /\ Device(proxyOf[dst]) \notin Portals),
           f.stable /\ Reachable(f) => f.entry = d
    PROVE  Good(SendFrameToOtherBSS(d, f, f.origin, d, dst))
  <1> DEFINE x == proxyOf[dst]
             s == f.origin
             copy == CreateForwardingCopy(f)
             g == [copy EXCEPT !.ttl = MeshTTL, !.toDS = TRUE, !.fromDS = TRUE,
                               !.addressExtension = TRUE, !.originalSource = s,
                               !.meshSource = d, !.meshDestination = x,
                               !.finalDestination = dst]
  <1>1. /\ x \in Stations \cup {None} /\ d \in Stations /\ MeshTTL \in Nat \ {0}
        /\ f.hops \in Nat
    BY ProxyHop, Addresses, MeshTTLAssumption DEF Frames
  <1>2. Target(f) = x
    BY TargetIs
  <1>3. CASE x = None
    <2>1. ~Reachable(f)
      BY <1>2, <1>3 DEF Reachable
    <2>2. Good(Dropped(f))
      BY <2>1, EndGood
    <2> QED
      BY <1>3, <2>2 DEF SendFrameToOtherBSS, GetProxyFor
  <1>4. CASE x # None
    <2>1. /\ x \in Stations /\ Hop(d, dst) = Hop(d, x) /\ Device(x) # d /\ x # d
          /\ \A a : Answered(a, dst) <=> Answered(a, x)
      BY <1>1, <1>4, ProxyHop, Addresses
      DEF HasAssociated, IsTransceiverMAC, GetProxyFor
    <2>2. SendFrameToOtherBSS(d, f, f.origin, d, dst) = Transmit(d, dst, g)
      BY <1>4 DEF SendFrameToOtherBSS, GetProxyFor
    <2>3. /\ g \in Frames /\ SameJourney(g, f) /\ g.ttl = MeshTTL /\ g.hops = f.hops
          /\ g.fromDS /\ g.addressExtension /\ g.meshDestination = x
          /\ g.originalSource = f.origin /\ g.finalDestination = dst
      <3>1. copy \in Frames /\ SameJourney(copy, f) /\ copy.hops = f.hops
        BY Copied
      <3>2. /\ dst \in Addressable /\ s \in Addressable /\ x \in Addressable
            /\ d \in Addressable
        BY <1>1 DEF Addressable, Frames
      <3> HIDE DEF copy, s, x
      <3>3. g \in Frames
        BY <1>1, <3>1, <3>2 DEF Frames
      <3>4. /\ g.ttl = MeshTTL /\ g.fromDS /\ g.originalSource = s
            /\ g.finalDestination = dst /\ g.hops = copy.hops
            /\ g.addressExtension /\ g.meshDestination = x /\ SameJourney(g, copy)
        BY <3>1 DEF Frames, SameJourney
      <3> HIDE DEF g
      <3> QED
        BY <3>1, <3>3, <3>4 DEF SameJourney, s
    <2> HIDE DEF g, x
    <2>4. /\ Journey(g) /\ Target(g) = x /\ (Reachable(g) <=> Reachable(f))
          /\ g.goal = f.goal /\ g.origin = f.origin /\ g.stable = f.stable
          /\ g.entry = f.entry
      BY <1>2, <2>3, SameReach DEF SameJourney
    <2>5. Addressed(g) /\ MeshDst(g) = x
      BY <2>1, <2>3, <2>4 DEF Addressed, MeshDst
    <2>6. g.ttl \in 1..MeshTTL /\ Budget(g, g.hops + g.ttl)
      BY <1>1, <2>3 DEF Budget, x
    <2>7. ASSUME g.stable, Reachable(g)
          PROVE  x = Target(g) /\ HasPath(d, x) /\ TTLCovers(d, x, g.ttl)
      <3>1. TTLCovers(d, x, MeshTTL)
        BY <2>1, FullTTL
      <3> QED
        BY <2>1, <2>3, <2>4, <2>7, <3>1 DEF Reachable
    <2>8. Good(Transmit(d, dst, g))
      BY <2>1, <2>3, <2>4, <2>5, <2>6, <2>7, TransmitGood
    <2> QED
      BY <2>2, <2>8
  <1> QED
    BY <1>3, <1>4

-----------------------------------------------------------------------------
(* Steps that change neither paths nor associations                         *)

LEMMA GoodStays ==
    ASSUME UNCHANGED <<mps, paths, proxyOf, portalOf>>, Good(frame')
    PROVE  Good(frame)'
  <1>1. \A a, x : HasPath(a, x)' <=> HasPath(a, x)
    BY DEF HasPath
  <1>2. \A d, x : Hop(d, x)' = Hop(d, x)
    BY DEF Hop, GetNextHop, MeshEnd, IsMeshPoint, GetProxyFor
  <1>3. \A d, x, k : TTLCovers(d, x, k)' <=> TTLCovers(d, x, k)
    BY <1>1, <1>2 DEF TTLCovers, Descends
  <1>4. Target(frame)' = Target(frame')
    BY DEF Target
  <1>5. Reachable(frame)' <=> Reachable(frame')
    BY <1>1, <1>4 DEF Reachable
  <1>6. OnRoute(frame)' <=> OnRoute(frame')
    BY <1>1, <1>3, <1>4 DEF OnRoute, Towards
  <1>7. Live(frame)'
    BY <1>5, <1>6 DEF Good, Live, AtOwnPortal
  <1>8. Shape(frame)'
    BY DEF Good
  <1> QED
    BY <1>7, <1>8 DEF Good

-----------------------------------------------------------------------------
(* The reception of a frame                                                 *)

LEMMA RANGGood ==
    ASSUME Steady, NEW f \in Frames, Journey(f), NEW dst, dst = f.finalDestination,
           dst \in Clients => f.goal = dst,
           dst \notin Clients =>
             dst \in Devices /\ (f.goal = dst \/ (f.goal = None /\ dst \in Portals)),
           f.origin = IF f.fromDS THEN f.originalSource ELSE f.src,
           f.stable /\ Reachable(f) /\ dst \in Clients => portalOf[dst] # None
    PROVE  Good(GiveToRANG(f))
  <1> DEFINE g == GiveToRANG(f)
  <1>1. dst \in Addressable
    BY DEF Frames
  <1>2. g \in Frames
    BY <1>1 DEF GiveToRANG, Frames, Places
  <1>3. /\ g.at = "rang" /\ g.tgt = dst /\ SameJourney(g, f)
        /\ g.fromDS = f.fromDS /\ g.originalSource = f.originalSource /\ g.src = f.src
    BY DEF GiveToRANG, Frames, SameJourney
  <1> HIDE DEF g
  <1>4. /\ Journey(g) /\ (Reachable(g) <=> Reachable(f))
        /\ g.goal = f.goal /\ g.origin = f.origin /\ g.stable = f.stable
    BY <1>3, SameReach DEF SameJourney
  <1>5. AtRANG(g)
    BY <1>3, <1>4 DEF AtRANG
  <1>6. Good(g)
    BY <1>2, <1>3, <1>4, <1>5 DEF Good, Shape, Live
  <1> QED
    BY <1>6 DEF g

(* A client is heard by its proxy.                                          *)
LEMMA FromSTAGood ==
    ASSUME Steady, NEW f \in Frames, Journey(f), FromClient(f),
           f.stable => proxyOf[f.src] = f.tgt,
           NEW d \in Devices, d = Device(f.tgt)
    PROVE  LET g == OnDataFromSTA(d, f)
           IN  \/ Good(g)
               \/ g.at = "refused" /\ ~Reachable(f)
  <1> DEFINE portal == portalOf[f.src]
             e == IF f.finalDestination # None THEN f
                  ELSE [f EXCEPT !.finalDestination = portal]
             dst == e.finalDestination
             g == OnDataFromSTA(d, f)
  <1>1. /\ f.src \in Clients /\ f.origin = f.src /\ f.tgt \in Stations /\ f.hops = 0
        /\ f.goal \in Clients \cup {None} /\ f.finalDestination = f.goal
        /\ f.entry = d /\ ~f.fromDS /\ ~f.addressExtension
    BY DEF FromClient
  <1>2. portal \in Portals \cup {None} /\ portal \in Addressable
    BY <1>1, ProxyHop, Addresses DEF Addressable
  <1>3. g = IF ~HasAssociated(d, f.src) THEN Failed(e)
            ELSE IF f.finalDestination = None /\ portal = d THEN GiveToRANG(e)
            ELSE IF dst = None THEN Refused(e)
            ELSE IF HasAssociated(d, dst) THEN SendFrameToOwnBSS(e, e.src, dst)
            ELSE IF IsMeshPoint(dst) THEN SendFrameToMP(d, e, e.src, dst)
            ELSE SendFrameToOtherBSS(d, e, e.src, d, dst)
    BY DEF OnDataFromSTA, GetPortalFor
  <1> HIDE DEF g
  <1> SUFFICES Good(g) \/ (g.at = "refused" /\ ~Reachable(f))
    BY DEF g
  <1>4. /\ e \in Frames /\ SameJourney(e, f) /\ e.hops = 0 /\ e.src = f.src
        /\ ~e.fromDS /\ ~e.addressExtension
        /\ dst = IF f.goal = None THEN portal ELSE f.goal
    <2> HIDE DEF portal
    <2>1. CASE f.finalDestination # None
      BY <1>1, <2>1 DEF SameJourney
    <2>2. CASE f.finalDestination = None
      <3> DEFINE h == [f EXCEPT !.finalDestination = portal]
      <3>1. h \in Frames
        BY <1>2 DEF Frames
      <3>2. /\ SameJourney(h, f) /\ h.hops = f.hops /\ h.src = f.src
            /\ h.fromDS = f.fromDS /\ h.addressExtension = f.addressExtension
            /\ h.finalDestination = portal
        BY DEF Frames, SameJourney
      <3>3. e = h
        BY <2>2
      <3> HIDE DEF h, e
      <3> QED
        BY <1>1, <2>2, <3>1, <3>2, <3>3
    <2> QED
      BY <2>1, <2>2
  <1> HIDE DEF e, dst
  <1>5. /\ Journey(e) /\ (Reachable(e) <=> Reachable(f)) /\ Target(e) = Target(f)
        /\ e.goal = f.goal /\ e.origin = f.origin /\ e.stable = f.stable
        /\ e.entry = d
    BY <1>1, <1>4, SameReach DEF SameJourney
  <1>6. Target(f) = IF f.goal = None THEN portal ELSE proxyOf[f.goal]
    BY <1>1, TargetIs
  <1>7. /\ f.goal # None => f.goal \in Clients
        /\ portal # None => portal \in Portals
        /\ dst # None => dst \in Clients \cup Portals
    BY <1>1, <1>2, <1>4
  <1>8. CASE ~HasAssociated(d, f.src)
    <2>1. ~f.stable
      BY <1>1, <1>8 DEF HasAssociated, IsTransceiverMAC, GetProxyFor
    <2>2. Good(Failed(e))
      BY <1>4, <1>5, <2>1, EndGood
    <2> QED
      BY <1>3, <1>8, <2>2
  <1>9. CASE HasAssociated(d, f.src) /\ f.finalDestination = None /\ portal = d
    <2>1. /\ dst = portal /\ dst \in Portals /\ dst \in Devices /\ dst \notin Clients
          /\ f.goal = None
      BY <1>1, <1>4, <1>7, <1>9, Addresses
    <2>2. Good(GiveToRANG(e))
      BY <1>1, <1>4, <1>5, <2>1, RANGGood DEF dst
    <2> QED
      BY <1>3, <1>9, <2>2
  <1>10. CASE dst = None /\ HasAssociated(d, f.src) /\ ~(f.finalDestination = None /\ portal = d)
    <2>1. Target(f) = None
      BY <1>4, <1>6, <1>10
    <2>2. g = Refused(e)
      BY <1>3, <1>10
    <2>3. g.at = "refused"
      BY <1>4, <2>2 DEF Refused, Frames
    <2> QED
      BY <2>1, <2>3 DEF Reachable
  <1>11. CASE /\ dst # None /\ HasAssociated(d, f.src)
              /\ ~(f.finalDestination = None /\ portal = d)
    <2>1. CASE HasAssociated(d, dst)
      <3>1. dst \in Clients /\ proxyOf[dst] \in Stations
        BY <2>1 DEF HasAssociated, IsTransceiverMAC, GetProxyFor
      <3>2. dst = e.goal
        BY <1>4, <1>5, <1>7, <1>11, <3>1, Addresses
      <3>3. e.hops <= 2 * MeshTTL
        BY <1>4, MeshTTLAssumption
      <3>4. Good(SendFrameToOwnBSS(e, e.origin, dst))
        BY <1>4, <1>5, <3>1, <3>2, <3>3, ToOwnBSSGood
      <3> QED
        BY <1>1, <1>3, <1>4, <1>5, <1>11, <2>1, <3>4
    <2>2. CASE ~HasAssociated(d, dst) /\ IsMeshPoint(dst)
      <3>1. dst \in Stations
        BY <2>2, RunningTables
      <3>2. dst \in Portals /\ dst = portal /\ f.goal = None /\ dst # d /\ dst \in Devices
        BY <1>1, <1>4, <1>7, <1>11, <3>1, Addresses
      <3>3. Good(SendFrameToMP(d, e, e.origin, dst))
        BY <1>4, <1>5, <1>6, <3>2, ToMPGood
      <3> QED
        BY <1>1, <1>3, <1>4, <1>5, <1>11, <2>2, <3>3
    <2>3. CASE ~HasAssociated(d, dst) /\ ~IsMeshPoint(dst)
      <3>1. dst \in Clients
        BY <1>7, <1>11, <2>3, RunningTables, Addresses
      <3>2. dst = e.goal
        BY <1>4, <1>5, <1>7, <1>11, <3>1, Addresses
      <3>3. Good(SendFrameToOtherBSS(d, e, e.origin, d, dst))
        BY <1>4, <1>5, <2>3, <3>1, <3>2, ToOtherBSSGood
      <3> QED
        BY <1>1, <1>3, <1>4, <1>5, <1>11, <2>3, <3>3
    <2> QED
      BY <2>1, <2>2, <2>3
  <1> QED
    BY <1>8, <1>9, <1>10, <1>11

(* A frame in the mesh at its mesh destination: it is refused only when its *)
(* client is not here any more.                                             *)
LEMMA AtMeshDstGood ==
    ASSUME Steady, NEW f \in Frames, Journey(f), InMesh(f), f.at = "air", Live(f),
           NEW d \in Devices, d = Device(f.tgt), IsTransceiverMAC(d, MeshDst(f))
    PROVE  LET g == OnDataAtMeshDst(d, f)
           IN  \/ Good(g)
               \/ /\ g.at = "refused" /\ f.addressExtension
                  /\ ~HasAssociated(d, f.finalDestination)
                  /\ f.stable => ~Reachable(f)
  <1> DEFINE dst == f.finalDestination
  <1>1. Addressed(f) /\ f.tgt \in Stations /\ f.ttl \in 1..MeshTTL
        /\ Budget(f, f.hops + f.ttl - 1) /\ f.hops \in Nat
    BY DEF InMesh, Frames
  <1>2. CASE ~f.addressExtension
    <2> DEFINE g == [f EXCEPT !.at = "upper"]
    <2>1. g \in Frames
      BY DEF Frames, Places
    <2>2. /\ g.at = "upper" /\ SameJourney(g, f) /\ g.tgt = f.tgt /\ g.fromDS = f.fromDS
          /\ g.originalSource = f.originalSource
      BY DEF Frames, SameJourney
    <2>3. OnDataAtMeshDst(d, f) = g
      BY <1>2 DEF OnDataAtMeshDst
    <2> HIDE DEF g
    <2>4. Journey(g) /\ g.goal = f.goal /\ g.origin = f.origin
      BY <2>2, SameReach DEF SameJourney
    <2>5. dst = d
      BY <1>1, <1>2, Addresses DEF Addressed, MeshDst, IsTransceiverMAC
    <2>6. Delivered(g)
      BY <1>1, <1>2, <2>2, <2>4, <2>5, Addresses DEF Addressed, Delivered
    <2>7. Good(g)
      BY <2>1, <2>2, <2>4, <2>6 DEF Good, Shape, Live
    <2> QED
      BY <2>3, <2>7
  <1>3. CASE f.addressExtension /\ HasAssociated(d, dst)
    <2>1. /\ dst \in Clients /\ f.goal = dst /\ proxyOf[dst] \in Stations
          /\ f.originalSource = f.origin
      BY <1>1, <1>3 DEF Addressed, HasAssociated, IsTransceiverMAC, GetProxyFor
    <2>2. f.hops <= 2 * MeshTTL
      BY <1>1, MeshTTLAssumption DEF Budget
    <2>3. Good(SendFrameToOwnBSS(f, f.origin, dst))
      BY <2>1, <2>2, ToOwnBSSGood
    <2> QED
      BY <1>3, <2>1, <2>3 DEF OnDataAtMeshDst
  <1>4. CASE f.addressExtension /\ ~HasAssociated(d, dst)
    <2>1. OnDataAtMeshDst(d, f).at = "refused"
      BY <1>4 DEF OnDataAtMeshDst, Refused, Frames
    <2>2. ASSUME f.stable, Reachable(f) PROVE FALSE
      <3>1. f.fromDS /\ f.tgt \notin Clients /\ dst \in Clients /\ f.goal = dst
        BY <1>1, <1>4, Addresses DEF Addressed
      <3>2. MeshDst(f) = Target(f)
        BY <2>2, <3>1 DEF Live, OnRoute
      <3>3. Target(f) = proxyOf[dst]
        BY <3>1, TargetIs
      <3> QED
        BY <1>4, <3>1, <3>2, <3>3 DEF HasAssociated, GetProxyFor
    <2> QED
      BY <1>4, <2>1, <2>2
  <1> QED
    BY <1>2, <1>3, <1>4

(* A frame on its way: as long as nothing changes the TTL lasts.            *)
LEMMA ForwardGood ==
    ASSUME Steady, NEW f \in Frames, Journey(f), InMesh(f), f.at = "air", Live(f),
           NEW d \in Devices, d = Device(f.tgt), ~IsTransceiverMAC(d, MeshDst(f))
    PROVE  Good(Forward(d, f))
  <1> DEFINE x == MeshDst(f)
             k == f.ttl - 1
             g == [f EXCEPT !.ttl = k]
  <1>1. /\ Addressed(f) /\ f.tgt \in Stations /\ f.ttl \in 1..MeshTTL
        /\ Budget(f, f.hops + f.ttl - 1) /\ f.hops \in Nat /\ f.fromDS
        /\ f.tgt \notin Clients /\ MeshTTL \in Nat
    BY Addresses, MeshTTLAssumption DEF InMesh, Frames, Addressed
  <1>2. x \in Stations /\ Device(x) # d
    BY <1>1, Addresses DEF Addressed, MeshDst, IsTransceiverMAC
  <1>3. ASSUME f.stable, Reachable(f)
        PROVE  x = Target(f) /\ HasPath(d, x) /\ TTLCovers(d, x, k)
    <2>1. OnRoute(f)
      BY <1>1, <1>3 DEF Live
    <2> QED
      BY <1>2, <2>1 DEF OnRoute, Towards
  <1>4. Forward(d, f) = IF k = 0 THEN Dropped(f) ELSE Transmit(d, x, g)
    BY DEF Forward
  <1>5. CASE k = 0
    <2>1. ASSUME f.stable, Reachable(f), TTLSuffices PROVE FALSE
      <3>1. PICK r \in [Devices -> Nat] : Descends(r, x) /\ r[d] <= k
        BY <1>3, <2>1 DEF TTLCovers
      <3>2. r[Device(Hop(d, x).tgt)] < r[d]
        BY <1>2, <1>3, <2>1, <3>1 DEF Descends
      <3>3. PICK W, v : Tables(W, v)
        BY RunningTables
      <3>4. Hop(d, x).tgt \in Stations
        BY <1>2, <1>3, <2>1, <3>3, DeviceHop
      <3>5. r[Device(Hop(d, x).tgt)] \in Nat /\ r[d] \in Nat
        BY <3>1, <3>4, Addresses
      <3> QED
        BY <1>5, <3>1, <3>2, <3>5
    <2>2. Good(Dropped(f))
      BY <2>1, EndGood
    <2> QED
      BY <1>4, <1>5, <2>2
  <1>6. CASE k # 0
    <2>1. k \in 1..MeshTTL
      BY <1>1, <1>6
    <2> HIDE DEF k
    <2>2. g \in Frames
      BY <2>1 DEF Frames
    <2>3. /\ SameJourney(g, f) /\ g.ttl = k /\ g.hops = f.hops /\ g.fromDS = f.fromDS
          /\ g.originalSource = f.originalSource
          /\ g.addressExtension = f.addressExtension
          /\ g.finalDestination = f.finalDestination
          /\ g.meshDestination = f.meshDestination
      BY DEF Frames, SameJourney
    <2> HIDE DEF g
    <2>4. /\ Journey(g) /\ Target(g) = Target(f) /\ (Reachable(g) <=> Reachable(f))
          /\ g.goal = f.goal /\ g.origin = f.origin /\ g.stable = f.stable
      BY <2>3, SameReach DEF SameJourney
    <2>5. Addressed(g) /\ MeshDst(g) = x
      BY <1>1, <2>3, <2>4 DEF Addressed, MeshDst
    <2>6. Budget(g, g.hops + g.ttl)
      <3>1. g.hops + g.ttl = f.hops + f.ttl - 1
        BY <1>1, <2>3 DEF k
      <3> QED
        BY <1>1, <2>3, <3>1 DEF Budget
    <2>7. g.stable /\ Reachable(g) => x = Target(g) /\ HasPath(d, x) /\ TTLCovers(d, x, g.ttl)
      BY <1>3, <2>3, <2>4
    <2> HIDE DEF x
    <2>8. Good(Transmit(d, x, g))
      BY <1>2, <2>1, <2>2, <2>3, <2>4, <2>5, <2>6, <2>7, TransmitGood
    <2> QED
      BY <1>4, <1>6, <2>8
  <1> QED
    BY <1>5, <1>6

(* The root sends on what its client tree does not have any more: at most   *)
(* once, because a portal has a wired way to what is behind a portal.       *)
LEMMA RootGood ==
    ASSUME Steady, NEW f \in Frames, Journey(f),
           NEW d \in Portals, d = Device(f.tgt),
           \/ ~f.addressExtension /\ ~Reachable(f)
           \/ /\ f.addressExtension /\ InMesh(f) /\ IsTransceiverMAC(d, MeshDst(f))
              /\ ~HasAssociated(d, f.finalDestination)
              /\ ~IsPortal(GetNextHop(d, f.finalDestination))
              /\ f.stable => ~Reachable(f)
    PROVE  Good(ForwardByRoot(d, f))
  <1> DEFINE dst == f.finalDestination
             sent == SendFrameToOtherBSS(d, f, f.originalSource, d, dst)
  <1>1. CASE ~f.addressExtension
    <2>1. Good(Failed(f))
      BY <1>1, EndGood
    <2> QED
      BY <1>1, <2>1 DEF ForwardByRoot
  <1>2. CASE f.addressExtension
    <2>1. /\ InMesh(f) /\ Addressed(f) /\ f.fromDS /\ f.originalSource = f.origin
          /\ dst \in Clients /\ f.goal = dst
          /\ Device(f.meshDestination) = d /\ f.ttl \in 1..MeshTTL
          /\ Budget(f, f.hops + f.ttl - 1) /\ f.hops \in Nat /\ MeshTTL \in Nat
          /\ ~HasAssociated(d, dst) /\ (f.stable => ~Reachable(f))
          /\ ~IsPortal(GetNextHop(d, dst))
      BY <1>2, MeshTTLAssumption
      DEF InMesh, Addressed, MeshDst, IsTransceiverMAC, Frames
    <2>2. ~IsMeshPoint(dst) /\ d \in Devices
      BY <2>1, ProxyHop, Addresses
    <2>3. f.hops <= MeshTTL
      BY <2>1 DEF Budget
    <2>4. CASE proxyOf[dst] = None
      <3>1. sent = Dropped(f)
        BY <2>4 DEF SendFrameToOtherBSS, GetProxyFor
      <3>2. sent.at = "dropped"
        BY <3>1 DEF Dropped, Frames
      <3>3. Good(GiveToRANG(f))
        BY <2>1, RANGGood
      <3> QED
        BY <1>2, <2>2, <3>2, <3>3 DEF ForwardByRoot
    <2>5. CASE proxyOf[dst] # None
      <3> DEFINE x == proxyOf[dst]
      <3>1. x \in Stations /\ GetNextHop(d, dst) = GetNextHop(d, x)
        BY <2>1, <2>5, ProxyHop
      <3>2. Device(x) # d /\ x # d
        BY <2>1, <2>2, <3>1, Addresses DEF HasAssociated, IsTransceiverMAC, GetProxyFor
      <3>3. Device(x) \notin Portals
        <4> SUFFICES ASSUME Device(x) \in Portals PROVE FALSE
          OBVIOUS
        <4>1. paths[<<d, x>>] \in Portals
          BY <3>1, <3>2, WiredFirst
        <4>2. GetNextHop(d, x) = paths[<<d, x>>]
          BY <2>2, <3>1, <3>2, NextHopIs, Addresses
        <4> QED
          BY <2>1, <3>1, <4>1, <4>2, RunningTables, Addresses DEF IsPortal
      <3>4. Good(SendFrameToOtherBSS(d, f, f.origin, d, dst))
        BY <2>1, <2>2, <2>3, <3>3, ToOtherBSSGood
      <3>5. Good(sent)
        BY <2>1, <3>4
      <3>6. Good(GiveToRANG(f))
        BY <2>1, RANGGood
      <3> HIDE DEF sent
      <3> QED
        BY <1>2, <2>2, <3>5, <3>6 DEF ForwardByRoot, sent
    <2> QED
      BY <2>4, <2>5
  <1> QED
    BY <1>1, <1>2

(* What a device receives from a client or from another device.             *)
LEMMA FRSGood ==
    ASSUME Steady, NEW f \in Frames, Journey(f), f.at = "air", Live(f),
           FromClient(f) \/ InMesh(f), NEW d \in Devices, d = Device(f.tgt)
    PROVE  LET g == DoOnDataFRS(d, f)
           IN  \/ Good(g)
               \/ /\ g.at = "refused"
                  /\ \/ ~f.addressExtension /\ ~Reachable(f)
                     \/ /\ f.addressExtension /\ InMesh(f) /\ IsTransceiverMAC(d, MeshDst(f))
                        /\ ~HasAssociated(d, f.finalDestination)
                        /\ f.stable => ~Reachable(f)
  <1>1. CASE FromClient(f)
    <2>1. ~f.fromDS /\ ~f.addressExtension
      BY <1>1 DEF FromClient
    <2>2. f.stable => proxyOf[f.src] = f.tgt
      BY <2>1 DEF Live
    <2>3. DoOnDataFRS(d, f) = OnDataFromSTA(d, f)
      BY <2>1 DEF DoOnDataFRS
    <2>4. LET g == OnDataFromSTA(d, f)
          IN  \/ Good(g)
              \/ g.at = "refused" /\ ~Reachable(f)
      BY <1>1, <2>2, FromSTAGood
    <2> QED
      BY <2>1, <2>3, <2>4
  <1>2. CASE InMesh(f)
    <2>1. f.fromDS
      BY <1>2 DEF InMesh, Addressed
    <2>2. CASE IsTransceiverMAC(d, MeshDst(f))
      <3>1. DoOnDataFRS(d, f) = OnDataAtMeshDst(d, f)
        BY <2>1, <2>2 DEF DoOnDataFRS
      <3>2. LET g == OnDataAtMeshDst(d, f)
            IN  \/ Good(g)
                \/ /\ g.at = "refused" /\ f.addressExtension
                   /\ ~HasAssociated(d, f.finalDestination)
                   /\ f.stable => ~Reachable(f)
        BY <1>2, <2>2, AtMeshDstGood
      <3> QED
        BY <1>2, <2>2, <3>1, <3>2
    <2>3. CASE ~IsTransceiverMAC(d, MeshDst(f))
      <3>1. DoOnDataFRS(d, f) = Forward(d, f)
        BY <2>1, <2>3 DEF DoOnDataFRS
      <3>2. Good(Forward(d, f))
        BY <1>2, <2>3, ForwardGood
      <3> QED
        BY <3>1, <3>2
    <2> QED
      BY <2>2, <2>3
  <1> QED
    BY <1>1, <1>2

(* A portal that a frame passes: the destination is known, and reached, as  *)
(* long as nothing has changed; the query fails for an own client.          *)
LEMMA TransitKnown ==
    ASSUME Steady, NEW f \in Frames, Journey(f), f.at = "air", Live(f), InMesh(f),
           NEW d \in Portals, d = Device(f.tgt), f.finalDestination # d,
           f.stable, Reachable(f)
    PROVE  LET dst == f.finalDestination
           IN  /\ \/ AtOwnPortal(f)
                  \/ Answered(d, dst) /\ GetNextHop(d, dst) # None
               /\ dst \in Clients => proxyOf[dst] # None
                                     /\ (d = proxyOf[dst] \/ HasPath(d, proxyOf[dst]))
  <1> DEFINE dst == f.finalDestination
             x == Target(f)
  <1>1. /\ Addressed(f) /\ f.fromDS /\ f.tgt \notin Clients
        /\ d \in Stations /\ d \in Devices
        /\ None \notin Stations /\ None \notin Clients
    BY Addresses DEF InMesh, Addressed
  <1>2. x \in Stations /\ MeshDst(f) = x /\ Towards(d, x)
    BY <1>1, TargetIs DEF Live, OnRoute, Reachable
  <1>3. d = x \/ HasPath(d, x)
    BY <1>1, <1>2, OwnPath
  <1>4. d # x => Answered(d, x) /\ GetNextHop(d, x) # None
    BY <1>1, <1>2, <1>3, NextHopIs, AnsweredElsewhere DEF HasPath
  <1>5. CASE f.addressExtension
    <2>1. dst \in Clients /\ f.goal = dst /\ x = proxyOf[dst]
      BY <1>1, <1>5, TargetIs DEF Addressed
    <2>2. /\ proxyOf[dst] # None /\ GetNextHop(d, dst) = GetNextHop(d, x)
          /\ Answered(d, dst) <=> Answered(d, x)
      BY <1>1, <1>2, <2>1, ProxyHop
    <2>3. d = x => AtOwnPortal(f)
      BY <2>1 DEF AtOwnPortal
    <2> QED
      BY <1>3, <1>4, <2>1, <2>2, <2>3
  <1>6. CASE ~f.addressExtension
    <2>1. dst = x /\ dst \notin Clients
      BY <1>1, <1>2, <1>6, Addresses DEF MeshDst
    <2> QED
      BY <1>4, <2>1
  <1> QED
    BY <1>5, <1>6

LEMMA DoOnDataGood ==
    ASSUME Steady, NEW f \in Frames, Journey(f), f.at = "air", Live(f),
           FromClient(f) \/ InMesh(f), NEW d \in Devices, d = Device(f.tgt)
    PROVE  Good(DoOnData(d, f))
  <1> DEFINE dst == f.finalDestination
             frs == DoOnDataFRS(d, f)
             transit == f.fromDS /\ dst # d
  <1>1. \/ Good(frs)
        \/ /\ frs.at = "refused"
           /\ \/ ~f.addressExtension /\ ~Reachable(f)
              \/ /\ f.addressExtension /\ InMesh(f) /\ IsTransceiverMAC(d, MeshDst(f))
                 /\ ~HasAssociated(d, dst)
                 /\ f.stable => ~Reachable(f)
    BY FRSGood
  <1>2. Good(frs) => frs.at # "refused"
    BY DEF Good, Shape
  <1> HIDE DEF frs
  <1>3. CASE d \notin Portals
    <2>1. CASE frs.at = "refused"
      <3>1. Good(Dropped(f))
        BY <1>1, <1>2, <2>1, EndGood
      <3> QED
        BY <1>3, <2>1, <3>1 DEF DoOnData, frs
    <2>2. CASE frs.at # "refused"
      BY <1>1, <1>3, <2>2 DEF DoOnData, frs
    <2> QED
      BY <2>1, <2>2
  <1>4. CASE d \in Portals
    <2>1. transit => InMesh(f)
      BY DEF FromClient
    <2>2. ASSUME transit, f.stable, Reachable(f)
          PROVE  /\ \/ AtOwnPortal(f)
                    \/ Answered(d, dst) /\ GetNextHop(d, dst) # None
                 /\ dst \in Clients => proxyOf[dst] # None
                                       /\ (d = proxyOf[dst] \/ HasPath(d, proxyOf[dst]))
      BY <1>4, <2>1, <2>2, TransitKnown
    <2> HIDE DEF transit
    <2>3. CASE transit /\ (~Answered(d, dst) \/ GetNextHop(d, dst) = None)
      <3>1. Good(Failed(f))
        BY <2>2, <2>3, EndGood, OwnPortalGood
      <3> QED
        BY <1>4, <2>3, <3>1 DEF DoOnData, DoOnDataAP, transit
    <2>4. CASE transit /\ Answered(d, dst) /\ GetNextHop(d, dst) # None
               /\ IsPortal(GetNextHop(d, dst))
      <3>1. Addressed(f)
        BY <2>1, <2>4 DEF InMesh
      <3>2. f.stable /\ Reachable(f) /\ dst \in Clients => portalOf[dst] # None
        BY <1>4, <2>2, <2>4, PortalKnown
      <3>3. Good(GiveToRANG(f))
        BY <3>1, <3>2, RANGGood, Addresses DEF Addressed
      <3> QED
        BY <1>4, <2>4, <3>3 DEF DoOnData, DoOnDataAP, transit
    <2>5. CASE ~transit \/ (/\ Answered(d, dst) /\ GetNextHop(d, dst) # None
                            /\ ~IsPortal(GetNextHop(d, dst)))
      <3>1. DoOnData(d, f) = IF frs.at = "refused" THEN ForwardByRoot(d, f) ELSE frs
        BY <1>4, <2>5 DEF DoOnData, DoOnDataAP, transit, frs
      <3>2. CASE frs.at = "refused"
        <4>1. InMesh(f) /\ f.addressExtension => transit
          BY Addresses DEF InMesh, Addressed, transit
        <4>2. Good(ForwardByRoot(d, f))
          BY <1>1, <1>2, <1>4, <2>5, <3>2, <4>1, RootGood
        <4> QED
          BY <3>1, <3>2, <4>2
      <3>3. CASE frs.at # "refused"
        BY <1>1, <3>1, <3>3
      <3> QED
        BY <3>2, <3>3
    <2> QED
      BY <2>3, <2>4, <2>5
  <1> QED
    BY <1>3, <1>4

(* A client gets what is for it.                                            *)
LEMMA StationGood ==
    ASSUME Steady, NEW f \in Frames, Journey(f), ToClient(f)
    PROVE  Good(StationOnData(f))
  <1> DEFINE s == f.originalSource
             g == [f EXCEPT !.at = "upper", !.src = s]
  <1>1. StationOnData(f) = g
    BY DEF StationOnData, ToClient
  <1>2. s \in Addressable
    BY DEF Frames
  <1>3. g \in Frames
    BY <1>2 DEF Frames, Places
  <1>4. /\ g.at = "upper" /\ g.src = s /\ g.tgt = f.tgt /\ SameJourney(g, f)
    BY DEF Frames, SameJourney
  <1> HIDE DEF g
  <1>5. Journey(g) /\ g.goal = f.tgt /\ g.origin = s /\ f.tgt \in Clients
    BY <1>4, SameReach DEF SameJourney, ToClient
  <1>6. Delivered(g)
    BY <1>4, <1>5, Addresses DEF Delivered
  <1> QED
    BY <1>1, <1>3, <1>4, <1>5, <1>6 DEF Good, Shape, Live

(* A frame enters the mesh.                                                 *)
LEMMA EnteringIs ==
    ASSUME NEW o \in Clients \cup Devices, NEW to \in Clients \cup Devices \cup {None},
           NEW e \in Devices, to = None => o \in Clients
    PROVE  LET f == Entering(o, to, e)
           IN  /\ f \in Frames /\ Journey(f) /\ f.hops = 0 /\ f.ttl = 0
               /\ ~f.fromDS /\ ~f.addressExtension /\ f.stable
               /\ f.origin = o /\ f.goal = to /\ f.entry = e
  <1> DEFINE f == Entering(o, to, e)
  <1>1. o \in Addressable /\ to \in Addressable /\ e \in Addressable
    BY Addresses DEF Addressable
  <1>2. f \in Frames
    <2>1. Fresh \in Frames
      BY DEF Frames, Places, Fresh, Addressable
    <2> HIDE DEF Fresh
    <2> QED
      BY <1>1, <2>1 DEF Entering, Frames
  <1>3. /\ f.hops = 0 /\ f.ttl = 0 /\ ~f.fromDS /\ ~f.addressExtension /\ f.stable
        /\ f.origin = o /\ f.goal = to /\ f.entry = e
    BY DEF Entering, Fresh
  <1> HIDE DEF f
  <1>4. Journey(f)
    BY <1>3 DEF Journey
  <1> QED
    BY <1>2, <1>3, <1>4 DEF f

(* What a mesh point sends itself, and what a portal sends for the backbone *)
(* to a client.                                                             *)
LEMMA SendGood ==
    ASSUME Steady, NEW d \in Devices, NEW to \in Clients \cup Devices, d # to,
           to \in Clients \/ d \notin Portals
    PROVE  Good(DoSendData(d, Entering(d, to, d), to))
  <1> DEFINE f == Entering(d, to, d)
  <1>1. /\ f \in Frames /\ Journey(f) /\ f.hops = 0 /\ f.stable
        /\ f.origin = d /\ f.goal = to /\ f.entry = d
    BY EnteringIs, Addresses
  <1> HIDE DEF f
  <1>2. to \in Clients => /\ Target(f) = proxyOf[to] /\ ~IsMeshPoint(to)
                          /\ proxyOf[to] \in Stations \cup {None}
    BY <1>1, TargetIs, ProxyHop
  <1>3. to \notin Clients => /\ Target(f) = to /\ IsMeshPoint(to) /\ d \notin Portals
    BY <1>1, TargetIs, RunningTables, Addresses
  <1>4. CASE ~Known(to)
    <2>1. Target(f) = None
      BY <1>2, <1>3, <1>4 DEF Known, GetProxyFor
    <2>2. Good(Failed(f))
      BY <1>1, <2>1, EndGood DEF Reachable
    <2> QED
      BY <1>4, <2>2 DEF DoSendData, f
  <1>5. CASE Known(to) /\ HasAssociated(d, to)
    <2>1. to \in Clients /\ proxyOf[to] \in Stations
      BY <1>5 DEF HasAssociated, IsTransceiverMAC, GetProxyFor
    <2>2. f.hops <= 2 * MeshTTL
      BY <1>1, MeshTTLAssumption
    <2>3. Good(SendFrameToOwnBSS(f, f.origin, to))
      BY <1>1, <2>1, <2>2, ToOwnBSSGood
    <2> QED
      BY <1>1, <1>5, <2>3 DEF DoSendData, f
  <1>6. CASE Known(to) /\ ~HasAssociated(d, to) /\ to \in Clients
    <2>1. Good(SendFrameToOtherBSS(d, f, f.origin, d, to))
      BY <1>1, <1>6, ToOtherBSSGood
    <2> QED
      BY <1>1, <1>2, <1>6, <2>1 DEF DoSendData, f
  <1>7. CASE Known(to) /\ ~HasAssociated(d, to) /\ to \notin Clients
    <2>1. Good(SendFrameToMP(d, f, f.origin, to))
      BY <1>1, <1>3, <1>7, ToMPGood
    <2> QED
      BY <1>1, <1>3, <1>7, <2>1 DEF DoSendData, f
  <1> QED
    BY <1>4, <1>5, <1>6, <1>7

-----------------------------------------------------------------------------
(* The steps of the frame                                                   *)

LEMMA FreshGood == Good(Fresh)
  BY DEF Good, Shape, Live, Fresh, Frames, Places, Addressable

LEMMA Quiet ==
    ASSUME MeshInv, UNCHANGED vars, frame'.at # "nowhere" => Running, Good(frame')
    PROVE  MeshInv'
  <1>1. PathsInv' /\ LinkKinds'
    BY StepInv, KindsStep DEF MeshInv
  <1>2. Running' <=> Running
    BY DEF Running, AllRegistered, Current, vars
  <1>3. UNCHANGED <<mps, paths, proxyOf, portalOf>>
    BY DEF vars
  <1>4. Good(frame)'
    BY <1>3, GoodStays
  <1> QED
    BY <1>1, <1>2, <1>4 DEF MeshInv

LEMMA ClientSendsInv ==
    ASSUME MeshInv, Running, NEW c \in Clients, NEW to \in Clients \cup {None},
           ClientSends(c, to)
    PROVE  MeshInv'
  <1> DEFINE x == proxyOf[c]
             d == Device(x)
             e == Entering(c, to, d)
             g == [e EXCEPT !.at = "air", !.toDS = TRUE, !.finalDestination = to,
                            !.src = c, !.tgt = x]
  <1>1. frame' = g /\ UNCHANGED vars /\ x # None
    BY DEF ClientSends, GetProxyFor
  <1>2. Steady
    BY DEF MeshInv, Steady
  <1>3. x \in Stations /\ d \in Devices
    BY <1>1, <1>2, ProxyHop, Addresses
  <1>4. /\ e \in Frames /\ Journey(e) /\ e.hops = 0 /\ e.ttl = 0
        /\ ~e.fromDS /\ ~e.addressExtension /\ e.stable
        /\ e.origin = c /\ e.goal = to /\ e.entry = d
    BY <1>3, EnteringIs
  <1>5. c \in Addressable /\ x \in Addressable /\ to \in Addressable
    BY <1>3 DEF Addressable
  <1> HIDE DEF e, x, d
  <1>6. g \in Frames
    BY <1>4, <1>5 DEF Frames, Places
  <1>7. /\ g.at = "air" /\ g.finalDestination = to /\ g.src = c /\ g.tgt = x
        /\ g.hops = e.hops /\ g.ttl = e.ttl /\ g.fromDS = e.fromDS
        /\ g.addressExtension = e.addressExtension /\ SameJourney(g, e)
    BY <1>4 DEF Frames, SameJourney
  <1> HIDE DEF g
  <1>8. Journey(g) /\ g.origin = c /\ g.goal = to /\ g.entry = d
    BY <1>4, <1>7, SameReach DEF SameJourney
  <1>9. FromClient(g)
    BY <1>3, <1>4, <1>7, <1>8 DEF FromClient, d
  <1>10. Good(g)
    BY <1>4, <1>6, <1>7, <1>8, <1>9 DEF Good, Shape, Live, x
  <1> QED
    BY <1>1, <1>10, Quiet

LEMMA MeshPointSendsInv ==
    ASSUME MeshInv, Running, NEW d \in Devices \ Portals, NEW to \in Clients \cup Devices,
           MeshPointSends(d, to)
    PROVE  MeshInv'
  <1>1. Steady
    BY DEF MeshInv, Steady
  <1>2. Good(DoSendData(d, Entering(d, to, d), to))
    BY <1>1, SendGood DEF MeshPointSends
  <1> QED
    BY <1>2, Quiet DEF MeshPointSends

LEMMA RANGSendsInv ==
    ASSUME MeshInv, Running, NEW c \in Clients, GetPortalFor(c) # None,
           RANGSends(c, GetPortalFor(c)), UNCHANGED vars
    PROVE  MeshInv'
  <1> DEFINE p == portalOf[c]
  <1>1. Steady
    BY DEF MeshInv, Steady
  <1>2. p \in Portals /\ p \in Devices /\ p # c
    BY <1>1, ProxyHop, Addresses DEF GetPortalFor
  <1> HIDE DEF p
  <1>3. Good(DoSendData(p, Entering(p, c, p), c))
    BY <1>1, <1>2, SendGood
  <1> QED
    BY <1>3, Quiet DEF RANGSends, GetPortalFor, p

LEMMA RANGForwardsInv ==
    ASSUME MeshInv, RANGForwards PROVE MeshInv'
  <1> DEFINE t == frame.tgt
  <1>1. /\ frame.at = "rang" /\ UNCHANGED vars /\ Running
        /\ frame \in Frames /\ Journey(frame) /\ AtRANG(frame) /\ Live(frame)
    BY DEF RANGForwards, MeshInv, Good, Shape
  <1>2. CASE t \in Portals
    <2> DEFINE g == [frame EXCEPT !.at = "upper"]
    <2>1. g \in Frames
      BY <1>1 DEF Frames, Places
    <2>2. /\ g.at = "upper" /\ SameJourney(g, frame) /\ g.tgt = t
          /\ g.fromDS = frame.fromDS /\ g.src = frame.src
          /\ g.originalSource = frame.originalSource
      BY <1>1 DEF Frames, SameJourney
    <2> HIDE DEF g
    <2>3. Journey(g) /\ g.goal = frame.goal /\ g.origin = frame.origin
      BY <1>1, <2>2, SameReach DEF SameJourney
    <2>4. Delivered(g)
      BY <1>1, <1>2, <2>2, <2>3, Addresses DEF AtRANG, Delivered
    <2>5. Good(g)
      BY <2>1, <2>2, <2>3, <2>4 DEF Good, Shape, Live
    <2>6. frame' = g
      BY <1>2 DEF RANGForwards, g
    <2> QED
      BY <1>1, <2>5, <2>6, Quiet
  <1>3. CASE t \notin Portals /\ t \in Stations
    <2>1. frame' = Fresh
      BY <1>3 DEF RANGForwards
    <2> QED
      BY <1>1, <2>1, FreshGood, Quiet
  <1>4. CASE t \notin Stations
    <2>1. t \in Clients /\ t \notin Portals
      BY <1>1, <1>4, Addresses DEF AtRANG
    <2>2. CASE GetPortalFor(t) = None
      <3>1. frame' = Dropped(frame)
        BY <1>4, <2>1, <2>2 DEF RANGForwards
      <3>2. Good(Dropped(frame))
        BY <1>1, <2>1, <2>2, EndGood DEF Live, GetPortalFor
      <3> QED
        BY <1>1, <3>1, <3>2, Quiet
    <2>3. CASE GetPortalFor(t) # None
      <3>1. RANGSends(t, GetPortalFor(t))
        BY <1>4, <2>1, <2>3 DEF RANGForwards
      <3> QED
        BY <1>1, <2>1, <2>3, <3>1, RANGSendsInv
    <2> QED
      BY <2>2, <2>3
  <1> QED
    BY <1>2, <1>3, <1>4

LEMMA ReceiveInv ==
    ASSUME MeshInv, Receive PROVE MeshInv'
  <1>1. /\ frame.at = "air" /\ UNCHANGED vars /\ Running /\ Steady
        /\ frame \in Frames /\ Journey(frame) /\ Live(frame)
        /\ FromClient(frame) \/ ToClient(frame) \/ InMesh(frame)
    BY DEF Receive, MeshInv, Good, Shape, Steady
  <1>2. CASE frame.tgt \in Clients
    <2>1. ToClient(frame)
      BY <1>1, <1>2, Addresses DEF FromClient, InMesh
    <2>2. Good(StationOnData(frame))
      BY <1>1, <2>1, StationGood
    <2>3. frame' = StationOnData(frame)
      BY <1>2 DEF Receive
    <2> QED
      BY <1>1, <2>2, <2>3, Quiet
  <1>3. CASE frame.tgt \notin Clients
    <2>1. (FromClient(frame) \/ InMesh(frame)) /\ Device(frame.tgt) \in Devices
      BY <1>1, <1>3, Addresses DEF FromClient, ToClient, InMesh
    <2>2. Good(DoOnData(Device(frame.tgt), frame))
      BY <1>1, <2>1, DoOnDataGood
    <2>3. frame' = DoOnData(Device(frame.tgt), frame)
      BY <1>3 DEF Receive
    <2> QED
      BY <1>1, <2>2, <2>3, Quiet
  <1> QED
    BY <1>2, <1>3

(* The paths change while the frame is on its way.                          *)
LEMMA PathsChangeInv ==
    ASSUME MeshInv, PathsChange PROVE MeshInv'
  <1> DEFINE b == /\ frame.stable /\ paths' = paths
                  /\ proxyOf' = proxyOf /\ portalOf' = portalOf
             g == [frame EXCEPT !.stable = b]
  <1>1. /\ PathsInv' /\ LinkKinds' /\ frame \in Frames
        /\ Shape(frame) /\ Live(frame)
    BY StepInv, KindsStep DEF PathsChange, MeshInv, Good, Shape
  <1>2. CASE Ended
    <2>1. frame' = Fresh
      BY <1>2 DEF PathsChange
    <2>2. Fresh.at = "nowhere"
      BY DEF Fresh
    <2>3. Shape(Fresh)
      BY FreshGood DEF Good
    <2>4. Good(frame)'
      BY <2>1, <2>2, <2>3 DEF Good, Live, Shape
    <2> QED
      BY <1>1, <2>1, <2>2, <2>4 DEF MeshInv
  <1>3. CASE ~Ended
    <2>1. frame' = g /\ Running
      BY <1>3 DEF PathsChange, MeshInv, Ended
    <2>2. Running' /\ mps' = mps
      BY <2>1, RunningStays DEF PathsChange, MeshInv
    <2>3. b \in BOOLEAN
      OBVIOUS
    <2> HIDE DEF b
    <2>4. g \in Frames
      BY <1>1, <2>3 DEF Frames
    <2>5. /\ g.stable = b
          /\ \A n \in DOMAIN frame : n # "stable" => g[n] = frame[n]
      BY <1>1 DEF Frames
    <2>6. /\ g.at = frame.at /\ g.src = frame.src /\ g.tgt = frame.tgt
          /\ g.ttl = frame.ttl /\ g.fromDS = frame.fromDS
          /\ g.addressExtension = frame.addressExtension
          /\ g.finalDestination = frame.finalDestination
          /\ g.originalSource = frame.originalSource
          /\ g.meshDestination = frame.meshDestination
          /\ g.origin = frame.origin /\ g.goal = frame.goal
          /\ g.entry = frame.entry /\ g.hops = frame.hops
      BY <1>1 DEF Frames
    <2> HIDE DEF g
    <2>7. Shape(g)
      BY <1>1, <2>4, <2>6
      DEF Shape, Journey, FromClient, ToClient, InMesh, Addressed, Budget, MeshDst,
          AtRANG, Delivered
    <2>8. CASE b
      <3>1. /\ frame.stable /\ UNCHANGED <<mps, paths, proxyOf, portalOf>>
        BY <2>2, <2>8 DEF b
      <3>2. Target(g) = Target(frame)
        BY <2>6 DEF Target
      <3>3. Reachable(g) <=> Reachable(frame)
        BY <2>6, <3>2 DEF Reachable
      <3>4. OnRoute(g) <=> OnRoute(frame)
        BY <2>6, <3>2 DEF OnRoute, MeshDst
      <3>5. Live(g)
        BY <1>1, <2>5, <2>6, <3>1, <3>3, <3>4 DEF Live, PathsChange
      <3>6. Good(frame')
        BY <2>1, <2>7, <3>5 DEF Good
      <3>7. Good(frame)'
        BY <3>1, <3>6, GoodStays
      <3> QED
        BY <1>1, <2>2, <3>7 DEF MeshInv
    <2>9. CASE ~b
      <3>1. ~frame'.stable
        BY <2>1, <2>5, <2>9
      <3>2. Live(frame)'
        BY <3>1 DEF Live
      <3>3. Shape(frame)'
        BY <2>1, <2>7
      <3> QED
        BY <1>1, <2>2, <3>2, <3>3 DEF MeshInv, Good
    <2> QED
      BY <2>8, <2>9
  <1> QED
    BY <1>2, <1>3

LEMMA MeshInitInv == ForwardingInit => MeshInv
  <1> SUFFICES ASSUME ForwardingInit PROVE MeshInv
    OBVIOUS
  <1>1. PathsInv /\ LinkKinds
    BY InitInv, KindsInit DEF ForwardingInit
  <1>2. frame.at = "nowhere"
    BY DEF ForwardingInit, Fresh
  <1> QED
    BY <1>1, <1>2, FreshGood DEF ForwardingInit, MeshInv

LEMMA MeshStepInv == MeshInv /\ [ForwardingNext]_fvars => MeshInv'
  <1> SUFFICES ASSUME MeshInv, [ForwardingNext]_fvars PROVE MeshInv'
    OBVIOUS
  <1>1. CASE PathsChange
    BY <1>1, PathsChangeInv
  <1>2. CASE Receive
    BY <1>2, ReceiveInv
  <1>3. CASE Lose
    <2>1. frame'.at = "nowhere"
      BY <1>3 DEF Lose, Fresh
    <2> QED
      BY <1>3, <2>1, FreshGood, Quiet DEF Lose
  <1>4. CASE RANGForwards
    BY <1>4, RANGForwardsInv
  <1>5. ASSUME AllRegistered, Current, NEW c \in Clients, NEW to \in Clients \cup {None},
               ClientSends(c, to)
        PROVE  MeshInv'
    BY <1>5, ClientSendsInv DEF Running
  <1>6. ASSUME AllRegistered, Current, NEW d \in Devices \ Portals,
               NEW to \in Clients \cup Devices, MeshPointSends(d, to)
        PROVE  MeshInv'
    BY <1>6, MeshPointSendsInv DEF Running
  <1>7. ASSUME AllRegistered, Current, NEW c \in Clients, InternetSends(c)
        PROVE  MeshInv'
    BY <1>7, RANGSendsInv DEF Running, InternetSends
  <1>8. CASE UNCHANGED fvars
    <2>1. UNCHANGED vars /\ frame' = frame
      BY <1>8 DEF fvars, vars
    <2> QED
      BY <2>1, Quiet DEF MeshInv
  <1> QED
    BY <1>1, <1>2, <1>3, <1>4, <1>5, <1>6, <1>7, <1>8 DEF ForwardingNext

LEMMA Delivers == MeshInv => DeliveredRightly
  BY DEF MeshInv, Good, Shape, Delivered, DeliveredRightly

LEMMA Bounds == MeshInv => HopsBounded
  <1> SUFFICES ASSUME MeshInv, frame.at = "air"
               PROVE  frame.hops + frame.ttl - 1 <= 2 * MeshTTL
    BY DEF HopsBounded
  <1>1. /\ frame.hops \in Nat /\ frame.ttl \in Nat /\ MeshTTL \in Nat
        /\ FromClient(frame) \/ ToClient(frame) \/ InMesh(frame)
    BY MeshTTLAssumption DEF MeshInv, Good, Shape, Frames
  <1> QED
    BY <1>1 DEF FromClient, ToClient, InMesh, Budget

LEMMA FrameArrives == ASSUME TTLSuffices, MeshInv PROVE UndisturbedArrives
  <1>1. ASSUME frame.at \in {"dropped", "assertion"}, frame.stable
        PROVE  \/ Unreachable(frame)
               \/ frame.at = "assertion" /\ AtOwnPortal(frame)
    <2>1. /\ Steady /\ frame \in Frames /\ Journey(frame)
          /\ ~Reachable(frame) \/ (frame.at = "assertion" /\ AtOwnPortal(frame))
      BY <1>1 DEF MeshInv, Steady, Good, Shape, Live
    <2> QED
      BY <2>1, ReachableIs
  <1>2. ASSUME frame.at = "air"
        PROVE  Device(frame.src) # Device(frame.tgt)
    BY <1>2, Addresses DEF MeshInv, Good, Shape, FromClient, ToClient, InMesh
  <1> QED
    BY <1>1, <1>2 DEF UndisturbedArrives

-----------------------------------------------------------------------------
(* MeshInv, for all stations, portals, clients, links and TTLs: the header  *)
(* of the frame (lines 105-553 of MeshForwarding.cpp) always fits where the *)
(* frame comes from and goes, and as long as neither paths nor associations *)
(* change its next device has a way to its target.                          *)
THEOREM ForwardingInvariance == ForwardingSpec => []MeshInv
  BY MeshInitInv, MeshStepInv, PTL DEF ForwardingSpec

(* DeliveredRightly, for all stations, clients and TTLs: through every      *)
(* change of the header on the way (lines 150-553), what a station or the   *)
(* upper layer of a mesh point gets is for it, and shows its true source.   *)
THEOREM FramesDeliveredRightly == ForwardingSpec => []DeliveredRightly
  BY ForwardingInvariance, Delivers, PTL

(* HopsBounded, for all stations and TTLs: however the paths change, a      *)
(* frame makes at most twice TTL transmissions, since the root that sends   *)
(* it after a client (lines 192-226) sends it to no other portal.           *)
THEOREM FrameHopsBounded == ForwardingSpec => []HopsBounded
  BY ForwardingInvariance, Bounds, PTL

(* UndisturbedArrives, for all stations and clients and each TTL that       *)
(* allows a path through all the devices: while neither paths nor           *)
(* associations change, no frame that could reach its target when it        *)
(* entered the mesh is given up, neither by the TTL (line 388) nor for an   *)
(* unknown hop (lines 470-553), an assertion fails only because of a frame  *)
(* that has come over the air to the portal that is the proxy of its client *)
(* (lines 159-161), and none goes from a device to itself.                  *)
THEOREM FramesArrive == ForwardingSpec => [](TTLSuffices => UndisturbedArrives)
  <1>1. MeshInv => (TTLSuffices => UndisturbedArrives)
    BY FrameArrives
  <1> QED
    BY <1>1, ForwardingInvariance, PTL

=============================================================================
