-------------------------- MODULE LinkMeasurement --------------------------
(***************************************************************************)
(* The measurement of links by beacons (BeaconLinkQualityMeasurement.cpp):  *)
(* two stations that hear each other's beacons or not. A beacon lists the   *)
(* stations whose beacons its sender receives, with their success rates; a  *)
(* station creates its link to the sender when it finds itself listed, and  *)
(* closes it when the beacons stop.                                         *)
(*                                                                         *)
(* Time is counted in half beacon intervals.                                *)
(***************************************************************************)
EXTENDS Naturals

CONSTANTS
  Stations,         \* the two stations
  Offset,           \* the first beacon of each station, in half intervals
  WindowLength,     \* intervals a sample counts in the success rate
  MaxMissedBeacons, \* misses in a row up to which a link is active
  MaxAccess,        \* bound: half intervals a beacon waits for the channel
  None              \* no timer, no beacon

\* A beacon interval, and the one and a half that are given to the next beacon.
Interval == 2
Grace == 3

ASSUME StationsAssumption == \E a, b \in Stations : a # b /\ Stations = {a, b}
ASSUME TimesAssumption ==
  /\ Offset \in [Stations -> 0..(Interval - 1)]
  /\ WindowLength \in Nat \ {0} /\ MaxMissedBeacons \in Nat
  /\ MaxAccess \in 0..(Interval - 1)

Window == WindowLength * Interval

\* The configured window outlasts the silence after which an entry is inactive.
ASSUME WindowAssumption == Grace + MaxMissedBeacons < Window

ASSUME NoneAssumption == None \notin Nat

VARIABLES
  known,       \* the station has an entry for the other
  missed,      \* missedBeaconsInRow of the entry
  timer,       \* half intervals until its timeout
  success,     \* age of the last successful sample, up to Window
  linkCreated, \* the link to the other is registered at the path selection
  proxied,     \* the station is registered as its own proxy
  due,         \* half intervals until the next beacon of the station
  air,         \* its beacon that waits or is on the air
  reliable     \* from now on no beacon is lost

link == <<known, missed, timer, success, linkCreated>>
vars == <<known, missed, timer, success, linkCreated, proxied, due, air, reliable>>

Peer(s) == CHOOSE x \in Stations : x # s

\* listed: the other station is in the maps of the beacon; positive: its
\* success rate is above zero; wait: time the channel may still take.
Beacons == [listed : BOOLEAN, positive : BOOLEAN, wait : 0..MaxAccess]

TypeOK ==
  /\ known \in [Stations -> BOOLEAN]
  /\ missed \in [Stations -> 0..(MaxMissedBeacons + 2) \cup {10}]
  /\ timer \in [Stations -> 0..(Grace) \cup {None}]
  /\ success \in [Stations -> 0..Window]
  /\ linkCreated \in [Stations -> BOOLEAN]
  /\ proxied \in [Stations -> BOOLEAN]
  /\ due \in [Stations -> 0..Interval]
  /\ air \in [Stations -> Beacons \cup {None}]
  /\ reliable \in BOOLEAN

\* The count of an entry starts with 10; no beacon was received.
Init ==
  /\ known = [s \in Stations |-> FALSE]
  /\ missed = [s \in Stations |-> 10]
  /\ timer = [s \in Stations |-> None]
  /\ success = [s \in Stations |-> Window]
  /\ linkCreated = [s \in Stations |-> FALSE]
  /\ proxied = [s \in Stations |-> FALSE]
  /\ due = Offset
  /\ air = [s \in Stations |-> None]
  /\ reliable = FALSE

Active(count) == count <= MaxMissedBeacons

\* getSuccessRate is above zero: of the samples in the window one succeeded.
RatePositive(s) == Active(missed[s]) /\ success[s] < Window

-----------------------------------------------------------------------------
(* Beacons *)

\* Mutant: a beacon lists only the stations to which a link was created.
SendLinkedOnly(s) ==
  /\ due[s] = 0
  /\ due' = [due EXCEPT ![s] = Interval]
  /\ \E wait \in 0..MaxAccess :
       air' = [air EXCEPT ![s] = [listed |-> linkCreated[s],
                                  positive |-> RatePositive(s), wait |-> wait]]
  /\ UNCHANGED <<link, proxied, reliable>>

\* The periodic timer of Beacon.cpp; a beacon that still waits is replaced.
\* The maps are filled when the beacon passes the measurement unit.
DoSendData(s) ==
  /\ due[s] = 0
  /\ due' = [due EXCEPT ![s] = Interval]
  /\ \E wait \in 0..MaxAccess :
       air' = [air EXCEPT ![s] =
                 [listed |-> known[s] /\ Active(missed[s]),
                  positive |-> RatePositive(s), wait |-> wait]]
  /\ UNCHANGED <<link, proxied, reliable>>

\* deadPeerMeasurement for a count of misses: one more, and the link closes
\* when the entry is not active any more.
AfterDead(count) == count + 1

\* Mutant: the test comes before the count.
StaysUncounted(s, count) == linkCreated[s] /\ Active(count)

StaysCreated(s, count) == linkCreated[s] /\ Active(AfterDead(count))

\* A beacon of the other station: newBeacon, then newPeerMeasurement when the
\* station is listed and deadPeerMeasurement when it is not.
DoOnData(s) ==
  LET beacon == air[Peer(s)]
  IN  /\ beacon # None /\ beacon.wait = 0
      /\ air' = [air EXCEPT ![Peer(s)] = None]
      /\ known' = [known EXCEPT ![s] = TRUE]
      /\ timer' = [timer EXCEPT ![s] = Grace]
      /\ success' = [success EXCEPT ![s] = 0]
      /\ \/ /\ beacon.listed
            /\ missed' = [missed EXCEPT ![s] = 0]
            /\ linkCreated' = [linkCreated EXCEPT ![s] = TRUE]
            /\ proxied' = [proxied EXCEPT ![s] = TRUE]
         \/ /\ ~beacon.listed
            /\ missed' = [missed EXCEPT ![s] = AfterDead(0)]
            /\ linkCreated' = [linkCreated EXCEPT ![s] = StaysCreated(s, 0)]
            /\ UNCHANGED proxied
      /\ UNCHANGED <<due, reliable>>

Lose(s) ==
  /\ ~reliable /\ air[s] # None /\ air[s].wait = 0
  /\ air' = [air EXCEPT ![s] = None]
  /\ UNCHANGED <<link, proxied, due, reliable>>

\* Mutants: a timeout does not start the timer; it counts the miss of the
\* peer only.
TimeoutOnce(s) ==
  /\ timer[s] = 0
  /\ linkCreated' = [linkCreated EXCEPT ![s] = StaysCreated(s, missed[s])]
  /\ timer' = [timer EXCEPT ![s] = None]
  /\ missed' = [missed EXCEPT ![s] = AfterDead(@)]
  /\ UNCHANGED <<known, success, proxied, due, air, reliable>>

TimeoutCountsOne(s) ==
  /\ timer[s] = 0
  /\ linkCreated' = [linkCreated EXCEPT ![s] = StaysCreated(s, missed[s])]
  /\ timer' = [timer EXCEPT ![s] = IF Active(AfterDead(missed[s])) THEN Interval ELSE None]
  /\ missed' = [missed EXCEPT ![s] = AfterDead(@)]
  /\ UNCHANGED <<known, success, proxied, due, air, reliable>>

\* The next beacon is late: a miss of the peer is counted, and one of the own
\* as long as the entry is active.
OnTimeout(s) ==
  LET count == AfterDead(missed[s])
  IN  /\ timer[s] = 0
      /\ linkCreated' = [linkCreated EXCEPT ![s] = StaysCreated(s, missed[s])]
      /\ \/ /\ Active(count)
            /\ timer' = [timer EXCEPT ![s] = Interval]
            /\ missed' = [missed EXCEPT ![s] = count + 1]
         \/ /\ ~Active(count)
            /\ timer' = [timer EXCEPT ![s] = None]
            /\ missed' = [missed EXCEPT ![s] = count]
      /\ UNCHANGED <<known, success, proxied, due, air, reliable>>

-----------------------------------------------------------------------------
(* Time and the medium *)

Tick ==
  /\ \A s \in Stations :
       due[s] # 0 /\ timer[s] # 0 /\ (air[s] # None => air[s].wait # 0)
  /\ due' = [s \in Stations |-> due[s] - 1]
  /\ timer' = [s \in Stations |-> IF timer[s] = None THEN None ELSE timer[s] - 1]
  /\ success' = [s \in Stations |->
                   IF success[s] < Window THEN success[s] + 1 ELSE Window]
  /\ air' = [s \in Stations |->
               IF air[s] = None THEN None ELSE [air[s] EXCEPT !.wait = @ - 1]]
  /\ UNCHANGED <<known, missed, linkCreated, proxied, reliable>>

Stabilise ==
  /\ ~reliable /\ reliable' = TRUE
  /\ UNCHANGED <<link, proxied, due, air>>

System ==
  \/ \E s \in Stations : DoSendData(s)
  \/ \E s \in Stations : DoOnData(s)
  \/ \E s \in Stations : Lose(s)
  \/ \E s \in Stations : OnTimeout(s)
  \/ Tick

Next == System \/ Stabilise

\* Time goes on: what is due happens and the clock advances. The medium never
\* has to become reliable.
Spec == Init /\ [][Next]_vars /\ WF_vars(System)

-----------------------------------------------------------------------------
(* Properties *)

\* EntryIsTimed: an entry that is active, or whose link still exists, waits
\* for its timeout; without it nobody would ever close the link
\* (lines 108-118, 209-226).
EntryIsTimed ==
  \A s \in Stations :
    (known[s] /\ Active(missed[s])) \/ linkCreated[s] => timer[s] # None

\* AdvertisedRateIsPositive: a beacon lists a station only with a success
\* rate above zero, since the receiver divides by it (line 132). The misses
\* must run out before the last success leaves the window (lines 58, 83-92).
AdvertisedRateIsPositive ==
  \A s \in Stations : air[s] # None /\ air[s].listed => air[s].positive

\* SilenceCloses: a link exists only while beacons come. The timeouts count two
\* misses for each interval of silence, so it is closed when as many half
\* intervals as misses are allowed have passed after the first timeout
\* (lines 194-226).
Silence == Grace + MaxMissedBeacons + 1

SilenceCloses ==
  \A s \in Stations : linkCreated[s] => success[s] <= Silence

\* LinksComeBack: whatever was lost before, when no beacon is lost any more
\* the links in both directions are created at last and never closed again
\* (lines 285-394): a beacon comes before the timeout although both drift
\* with the access to the channel.
LinksComeBack ==
  <>reliable => <>[](\A s \in Stations : linkCreated[s])
=============================================================================
