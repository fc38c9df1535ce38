----------------------- MODULE LinkMeasurement_proofs -----------------------
(***************************************************************************)
(* Proofs about LinkMeasurement, for any offsets, windows, numbers of      *)
(* allowed misses and access times.                                        *)
(*                                                                         *)
(* The core is Paced: the age of the last success and the time until the   *)
(* next timeout are together at most the first grace time and one half     *)
(* interval per counted miss. A timeout adds an interval to the one side   *)
(* and two misses to the other; a beacon starts both anew.                 *)
(***************************************************************************)
EXTENDS LinkMeasurement, TLAPS

Paced ==
  \A s \in Stations : timer[s] # None => success[s] + timer[s] <= Grace + missed[s]

\* While a timeout is awaited the limit is exceeded by one miss at most.
TimedIsLive ==
  \A s \in Stations : timer[s] # None => missed[s] <= MaxMissedBeacons + 1

Inv ==
  /\ TypeOK
  /\ EntryIsTimed
  /\ Paced
  /\ TimedIsLive
  /\ AdvertisedRateIsPositive

USE TimesAssumption, WindowAssumption, NoneAssumption

\* What the count of misses and the timer allow to conclude of the age.
LEMMA PacedBounds ==
  ASSUME Inv, NEW s \in Stations
  PROVE  /\ known[s] /\ Active(missed[s]) => success[s] < Window
         /\ linkCreated[s] => success[s] <= Silence
  <1>1. missed[s] \in Nat /\ success[s] \in 0..Window /\ timer[s] \in 0..Grace \cup {None}
    BY DEF Inv, TypeOK
  <1>2. timer[s] # None => timer[s] \in Nat /\ success[s] <= Grace + missed[s]
    BY <1>1 DEF Inv, Paced, Grace
  <1>3. ASSUME known[s], Active(missed[s])
        PROVE  success[s] < Window
    <2>1. timer[s] # None
      BY <1>3 DEF Inv, EntryIsTimed
    <2> QED
      BY <2>1, <1>1, <1>2, <1>3 DEF Active, Grace, Window, Interval
  <1>4. ASSUME linkCreated[s]
        PROVE  success[s] <= Silence
    <2>1. timer[s] # None /\ missed[s] <= MaxMissedBeacons + 1
      BY <1>4 DEF Inv, EntryIsTimed, TimedIsLive
    <2> QED
      BY <2>1, <1>1, <1>2 DEF Silence, Grace
  <1> QED
    BY <1>3, <1>4

LEMMA InvInit == Init => Inv
  <1> SUFFICES ASSUME Init PROVE Inv
    OBVIOUS
  <1>1. TypeOK
    <2>1. Window \in 0..Window
      BY DEF Window, Interval
    <2>2. due \in [Stations -> 0..Interval]
      BY DEF Init, Interval
    <2>3. success \in [Stations -> 0..Window] /\ missed \in [Stations -> {10}]
      BY <2>1 DEF Init
    <2> QED
      BY <2>2, <2>3 DEF Init, TypeOK
  <1>2. EntryIsTimed /\ Paced /\ TimedIsLive /\ AdvertisedRateIsPositive
    BY DEF Init, EntryIsTimed, Paced, TimedIsLive, AdvertisedRateIsPositive
  <1> QED
    BY <1>1, <1>2 DEF Inv

\* What concerns the entries alone is kept when the entries are.
LEMMA EntriesKept ==
  ASSUME Inv, UNCHANGED link
  PROVE  EntryIsTimed' /\ Paced' /\ TimedIsLive'
  BY DEF Inv, link, EntryIsTimed, Paced, TimedIsLive

\* No beacon is added, so none advertises a rate that is not positive.
LEMMA NoNewBeacon ==
  ASSUME Inv, NEW p, air' = [air EXCEPT ![p] = None]
  PROVE  AdvertisedRateIsPositive'
  BY DEF Inv, TypeOK, AdvertisedRateIsPositive

LEMMA InvSend ==
  ASSUME Inv, NEW s \in Stations, DoSendData(s)
  PROVE  Inv'
  <1>1. PICK wait \in 0..MaxAccess :
          air' = [air EXCEPT ![s] = [listed |-> known[s] /\ Active(missed[s]),
                                     positive |-> RatePositive(s), wait |-> wait]]
    BY DEF DoSendData
  <1>2. known[s] \in BOOLEAN /\ Active(missed[s]) \in BOOLEAN /\ RatePositive(s) \in BOOLEAN
    BY DEF Inv, TypeOK, Active, RatePositive
  <1>3. air' \in [Stations -> Beacons \cup {None}]
    BY <1>1, <1>2 DEF Inv, TypeOK, Beacons
  <1>4. TypeOK'
    BY <1>3 DEF Inv, TypeOK, DoSendData, link, Interval
  <1>5. EntryIsTimed' /\ Paced' /\ TimedIsLive'
    BY EntriesKept DEF DoSendData
  <1>6. known[s] /\ Active(missed[s]) => RatePositive(s)
    BY PacedBounds DEF RatePositive
  <1>7. AdvertisedRateIsPositive'
    BY <1>1, <1>6 DEF Inv, TypeOK, AdvertisedRateIsPositive
  <1> QED
    BY <1>4, <1>5, <1>7 DEF Inv

LEMMA InvReceive ==
  ASSUME Inv, NEW s \in Stations, DoOnData(s)
  PROVE  Inv'
  <1>1. /\ missed' \in [Stations -> 0..(MaxMissedBeacons + 2) \cup {10}]
        /\ missed' = [missed EXCEPT ![s] = missed'[s]] /\ missed'[s] \in {0, 1}
    BY DEF Inv, TypeOK, DoOnData, AfterDead
  <1>2. linkCreated' \in [Stations -> BOOLEAN] /\ proxied' \in [Stations -> BOOLEAN]
    BY DEF Inv, TypeOK, DoOnData, StaysCreated
  <1>3. linkCreated' = [linkCreated EXCEPT ![s] = linkCreated'[s]]
    BY DEF Inv, TypeOK, DoOnData
  <1>4. /\ known' = [known EXCEPT ![s] = TRUE]
        /\ timer' = [timer EXCEPT ![s] = Grace]
        /\ success' = [success EXCEPT ![s] = 0]
    BY DEF DoOnData
  <1>5. air' \in [Stations -> Beacons \cup {None}]
    BY DEF Inv, TypeOK, DoOnData
  <1>6. TypeOK'
    BY <1>1, <1>2, <1>4, <1>5 DEF Inv, TypeOK, DoOnData, Grace, Window, Interval
  <1>7. EntryIsTimed'
    BY <1>1, <1>3, <1>4 DEF Inv, TypeOK, EntryIsTimed, Grace
  <1>8. Paced'
    BY <1>1, <1>4 DEF Inv, TypeOK, Paced, Grace
  <1>9. TimedIsLive'
    BY <1>1, <1>4 DEF Inv, TypeOK, TimedIsLive
  <1>10. AdvertisedRateIsPositive'
    BY NoNewBeacon DEF DoOnData
  <1> QED
    BY <1>6, <1>7, <1>8, <1>9, <1>10 DEF Inv

LEMMA InvLose ==
  ASSUME Inv, NEW s \in Stations, Lose(s)
  PROVE  Inv'
  <1>1. TypeOK'
    BY DEF Inv, TypeOK, Lose, link
  <1>2. EntryIsTimed' /\ Paced' /\ TimedIsLive'
    BY EntriesKept DEF Lose
  <1>3. AdvertisedRateIsPositive'
    BY NoNewBeacon DEF Lose
  <1> QED
    BY <1>1, <1>2, <1>3 DEF Inv

LEMMA InvTimeout ==
  ASSUME Inv, NEW s \in Stations, OnTimeout(s)
  PROVE  Inv'
  <1> DEFINE count == missed[s] + 1
  <1>1. missed[s] \in Nat /\ count = AfterDead(missed[s]) /\ timer[s] = 0
    BY DEF Inv, TypeOK, AfterDead, OnTimeout
  <1>2. linkCreated' = [linkCreated EXCEPT ![s] = linkCreated[s] /\ Active(count)]
    BY <1>1 DEF OnTimeout, StaysCreated
  <1>3. UNCHANGED <<known, success, proxied, due, air, reliable>>
    BY DEF OnTimeout
  <1>4. success[s] <= Grace + missed[s] /\ success[s] \in Nat
    BY <1>1 DEF Inv, TypeOK, Paced, Grace
  <1>5. AdvertisedRateIsPositive'
    BY <1>3 DEF Inv, AdvertisedRateIsPositive
  <1>6. linkCreated' \in [Stations -> BOOLEAN]
    BY <1>2 DEF Inv, TypeOK, Active
  <1>7. CASE Active(count)
    <2>1. timer' = [timer EXCEPT ![s] = Interval] /\ missed' = [missed EXCEPT ![s] = count + 1]
      BY <1>1, <1>7 DEF OnTimeout
    <2>2. count + 1 \in 0..(MaxMissedBeacons + 2) /\ count + 1 <= MaxMissedBeacons + 1
      BY <1>1, <1>7 DEF Active
    <2>3. TypeOK'
      BY <1>3, <1>6, <2>1, <2>2 DEF Inv, TypeOK, Interval, Grace
    <2>4. EntryIsTimed'
      BY <1>2, <1>3, <2>1 DEF Inv, TypeOK, EntryIsTimed, Interval
    <2>5. Paced'
      BY <1>1, <1>3, <1>4, <2>1 DEF Inv, TypeOK, Paced, Interval, Grace
    <2>6. TimedIsLive'
      BY <2>1, <2>2 DEF Inv, TypeOK, TimedIsLive
    <2> QED
      BY <1>5, <2>3, <2>4, <2>5, <2>6 DEF Inv
  <1>8. CASE ~Active(count)
    <2>1. timer' = [timer EXCEPT ![s] = None] /\ missed' = [missed EXCEPT ![s] = count]
      BY <1>1, <1>8 DEF OnTimeout
    <2>2. count \in 0..(MaxMissedBeacons + 2)
      BY <1>1 DEF Inv, TimedIsLive
    <2>3. TypeOK'
      BY <1>3, <1>6, <2>1, <2>2 DEF Inv, TypeOK
    <2>4. EntryIsTimed'
      BY <1>2, <1>3, <1>8, <2>1 DEF Inv, TypeOK, EntryIsTimed
    <2>5. Paced' /\ TimedIsLive'
      BY <1>3, <2>1 DEF Inv, TypeOK, Paced, TimedIsLive
    <2> QED
      BY <1>5, <2>3, <2>4, <2>5 DEF Inv
  <1> QED
    BY <1>7, <1>8

LEMMA InvTick ==
  ASSUME Inv, Tick
  PROVE  Inv'
  <1>1. UNCHANGED <<known, missed, linkCreated, proxied, reliable>>
    BY DEF Tick
  <1>2. \A s \in Stations :
          /\ timer'[s] = IF timer[s] = None THEN None ELSE timer[s] - 1
          /\ timer[s] # None => timer[s] \in 1..Grace
    BY DEF Inv, TypeOK, Tick, Grace
  <1>3. \A s \in Stations :
          success'[s] = IF success[s] < Window THEN success[s] + 1 ELSE Window
    BY DEF Tick
  <1>4. timer' \in [Stations -> 0..Grace \cup {None}]
    BY <1>2 DEF Tick, Grace
  <1>5. success' \in [Stations -> 0..Window]
    BY DEF Inv, TypeOK, Tick, Window, Interval
  <1>6. due' \in [Stations -> 0..Interval]
    BY DEF Inv, TypeOK, Tick, Interval
  <1>7. air' \in [Stations -> Beacons \cup {None}]
    <2> SUFFICES ASSUME NEW s \in Stations, air[s] # None
                 PROVE  [air[s] EXCEPT !.wait = @ - 1] \in Beacons
      BY DEF Tick
    <2>1. air[s] \in Beacons /\ air[s].wait # 0
      BY DEF Inv, TypeOK, Tick
    <2> QED
      BY <2>1 DEF Beacons
  <1>8. TypeOK'
    BY <1>1, <1>4, <1>5, <1>6, <1>7 DEF Inv, TypeOK
  <1>9. EntryIsTimed'
    BY <1>1, <1>2 DEF Inv, EntryIsTimed, Grace
  <1>10. Paced'
    <2> SUFFICES ASSUME NEW s \in Stations, timer'[s] # None
                 PROVE  success'[s] + timer'[s] <= Grace + missed'[s]
      BY DEF Paced
    <2>1. timer[s] \in 1..Grace /\ timer'[s] = timer[s] - 1
      BY <1>2
    <2>2. success[s] + timer[s] <= Grace + missed[s] /\ missed'[s] = missed[s]
      BY <1>1, <1>2 DEF Inv, Paced
    <2>3. success[s] \in 0..Window /\ missed[s] \in Nat
      BY DEF Inv, TypeOK
    <2>4. success'[s] \in Nat /\ success'[s] <= success[s] + 1
      BY <1>3, <2>3 DEF Window, Interval
    <2> QED
      BY <2>1, <2>2, <2>3, <2>4 DEF Grace
  <1>11. TimedIsLive'
    BY <1>1, <1>2 DEF Inv, TimedIsLive
  <1>12. AdvertisedRateIsPositive'
    <2> SUFFICES ASSUME NEW s \in Stations, air'[s] # None, air'[s].listed
                 PROVE  air'[s].positive
      BY DEF AdvertisedRateIsPositive
    <2>1. air[s] # None /\ air'[s] = [air[s] EXCEPT !.wait = @ - 1]
      BY DEF Tick
    <2>2. air[s] \in Beacons
      BY <2>1 DEF Inv, TypeOK
    <2>3. air'[s].listed = air[s].listed /\ air'[s].positive = air[s].positive
      BY <2>1, <2>2 DEF Beacons
    <2> QED
      BY <2>1, <2>3 DEF Inv, AdvertisedRateIsPositive
  <1> QED
    BY <1>8, <1>9, <1>10, <1>11, <1>12 DEF Inv

LEMMA InvStabilise ==
  ASSUME Inv, Stabilise
  PROVE  Inv'
  BY EntriesKept DEF Inv, TypeOK, AdvertisedRateIsPositive, Stabilise, link

LEMMA InvStutter ==
  ASSUME Inv, UNCHANGED vars
  PROVE  Inv'
  BY EntriesKept DEF Inv, TypeOK, AdvertisedRateIsPositive, vars, link

LEMMA InvNext == Inv /\ [Next]_vars => Inv'
  <1> SUFFICES ASSUME Inv, [Next]_vars PROVE Inv'
    OBVIOUS
  <1>1. ASSUME NEW s \in Stations, DoSendData(s) PROVE Inv'
    BY <1>1, InvSend
  <1>2. ASSUME NEW s \in Stations, DoOnData(s) PROVE Inv'
    BY <1>2, InvReceive
  <1>3. ASSUME NEW s \in Stations, Lose(s) PROVE Inv'
    BY <1>3, InvLose
  <1>4. ASSUME NEW s \in Stations, OnTimeout(s) PROVE Inv'
    BY <1>4, InvTimeout
  <1>5. CASE Tick
    BY <1>5, InvTick
  <1>6. CASE Stabilise
    BY <1>6, InvStabilise
  <1>7. CASE UNCHANGED vars
    BY <1>7, InvStutter
  <1> QED
    BY <1>1, <1>2, <1>3, <1>4, <1>5, <1>6, <1>7 DEF Next, System

LEMMA Invariance == Spec => []Inv
  BY InvInit, InvNext, PTL DEF Spec

\* Every variable of the measurement keeps its type (lines 53-78, 108-226).
THEOREM TypeCorrect == Spec => []TypeOK
  <1>1. Inv => TypeOK
    BY DEF Inv
  <1> QED
    BY <1>1, Invariance, PTL

\* An active entry and a created link always wait for a timeout
\* (lines 108-118, 209-226).
THEOREM TimeoutPending == Spec => []EntryIsTimed
  <1>1. Inv => EntryIsTimed
    BY DEF Inv
  <1> QED
    BY <1>1, Invariance, PTL

\* No beacon ever leads to a division by zero in newPeerMeasurement (line 132),
\* provided only that the window outlasts the allowed misses.
THEOREM RatePositiveOnAir == Spec => []AdvertisedRateIsPositive
  <1>1. Inv => AdvertisedRateIsPositive
    BY DEF Inv
  <1> QED
    BY <1>1, Invariance, PTL

\* A link does not outlive the beacons for longer than the timeouts need to
\* count the allowed misses (lines 194-226).
THEOREM SilenceBounded == Spec => []SilenceCloses
  <1>1. Inv => SilenceCloses
    BY PacedBounds DEF SilenceCloses
  <1> QED
    BY <1>1, Invariance, PTL
=============================================================================
