----------------------------- MODULE FrameTrain -----------------------------
(***************************************************************************)
(* Aggregated frames of draft n, from the frames that BlockACK hands down  *)
(* to the containers another station delivers upwards: Aggregation,        *)
(* PreambleGenerator, DeAggregation, LongTrainingFieldGenerator and        *)
(* PhyUser of one sender; synchronization and DeAggregation of one         *)
(* receiver; and a foreign station whose trains may capture the receiver.  *)
(*                                                                         *)
(* Each unit holds at most one compound and passes it on as soon as the    *)
(* next one accepts: these steps take no time.  Every compound on the air  *)
(* takes whole ticks.  External: the base class Concatenation, and the     *)
(* medium access, which grants a transmission at any time.                 *)
(***************************************************************************)
EXTENDS Integers, Sequences, FiniteSets

CONSTANTS
  Receivers,      \* of the sender's frames
  MaxFrames,      \* bound: frames handed down
  MaxForeign,     \* bound: trains of the foreign station
  MaxEntries,     \* of a container
  Impatient,      \* impatientTransmission
  TrainingFields, \* additional streams, one training field for each
  None

ASSUME EntriesAssumption == MaxEntries \in Nat /\ MaxEntries > 1
ASSUME TrainingAssumption == TrainingFields \in Nat
ASSUME ImpatientAssumption == Impatient \in BOOLEAN

Frames == [id : Int, to : Receivers \cup {None}, request : BOOLEAN]

Compounds ==
  [kind : {"preamble", "ltf", "frame"}, time : Nat, span : Int,
   single : BOOLEAN, final : BOOLEAN, entries : Seq(Frames), train : Int]

ASSUME NoneAssumption ==
  /\ None \notin Compounds /\ None \notin Int /\ None \notin {"own", "foreign"}

VARIABLES
  offered,    \* history: how many frames were handed down
  agg,        \* Aggregation: containers, sendNow, timer
  pg, deagg, ltf, phy,   \* the units below and what they hold
  foreign,    \* the foreign station: compounds still to come, their number
  lock,       \* whom the receiver is synchronized to, and for how long
  rx,         \* DeAggregation of the receiver: container, timer
  heard, delivered,      \* history: entries decoded, and delivered upwards
  broken      \* history: an assertion of the code failed

sender == <<offered, agg, pg, deagg, ltf>>
receiver == <<lock, rx, heard, delivered>>
vars == <<sender, phy, foreign, receiver, broken>>

\* Fields of the commands of DeAggregation and PreambleGenerator that a
\* compound carries; a container has the entries, a fragment its entry.
Compound(kind, time, span, single, final, entries, train) ==
  [kind |-> kind, time |-> time, span |-> span,
   single |-> single, final |-> final, entries |-> entries, train |-> train]

Off == -1
NoContainer == [train |-> None, entries |-> <<>>, timer |-> Off]

Init ==
  /\ offered = 0
  /\ agg = [current |-> <<>>, next |-> <<>>, closed |-> FALSE,
            sendNow |-> FALSE, timer |-> FALSE]
  /\ pg = [preamble |-> None, compound |-> None]
  /\ deagg = [queue |-> <<>>, compound |-> None, signalStart |-> FALSE,
              status |-> "finished"]
  /\ ltf = [compound |-> None, left |-> 0]
  /\ phy = [compound |-> None, left |-> 0]
  /\ foreign = [air |-> <<>>, left |-> 0, trains |-> 0]
  /\ lock = [who |-> None, left |-> Off]
  /\ rx = NoContainer
  /\ heard = <<>> /\ delivered = <<>>
  /\ broken = FALSE

-----------------------------------------------------------------------------
(* Aggregation.  A frame is its number, its receiver, and whether it is a  *)
(* request, which needs a direct reply.                                    *)

Frame(n, to, request) == [id |-> n, to |-> to, request |-> request]

\* Concatenation: one container waits, a next one only when it is closed.
HasCapacity(a) ==
  a.next = <<>> /\ ~a.closed /\ Len(a.current) < MaxEntries

\* A frame that needs a direct reply closes the container: it is the last
\* entry that the pretended number of entries leaves room for.
AppendEntry(a, f) ==
  [a EXCEPT !.current = Append(@, f), !.closed = @ \/ f.request,
            !.sendNow = \/ @ \/ f.request \/ Impatient
                        \/ Len(a.current) + 1 = MaxEntries]

StartNext(a, f) == [a EXCEPT !.next = <<f>>, !.sendNow = TRUE]

StartContainer(a, f) ==
  [a EXCEPT !.current = <<f>>, !.sendNow = Impatient, !.timer = ~Impatient]

\* Mutant: the receiver is not looked at.
AppendRegardless(a, f) ==
  IF a.current = <<>> THEN StartContainer(a, f) ELSE AppendEntry(a, f)

AggregationProcessOutgoing(a, f) ==
  IF a.current = <<>> THEN StartContainer(a, f)
  ELSE IF f.to = a.current[1].to THEN AppendEntry(a, f)
  ELSE StartNext(a, f)

SendData(to, request) ==
  /\ offered < MaxFrames /\ HasCapacity(agg)
  /\ offered' = offered + 1
  /\ agg' = AggregationProcessOutgoing(agg, Frame(offered + 1, to, request))
  /\ UNCHANGED <<pg, deagg, ltf, phy, foreign, receiver, broken>>

AggregationTimeout ==
  /\ agg.timer
  /\ agg' = [agg EXCEPT !.sendNow = TRUE, !.timer = FALSE]
  /\ UNCHANGED <<offered, pg, deagg, ltf, phy, foreign, receiver, broken>>

AggregationGetSomethingToSend(a) ==
  [a EXCEPT !.current = a.next, !.next = <<>>, !.closed = FALSE,
            !.sendNow = FALSE, !.timer = FALSE]

-----------------------------------------------------------------------------
(* The units of the sender below the medium access *)

PreambleTime == 1
Preamble(c) == Compound("preamble", PreambleTime, c.time, c.single, FALSE, <<>>, c.train)

\* PreambleGenerator: takes a container (or a single frame, such as an
\* acknowledgement) and puts the preamble before it.
PreambleProcessOutgoing(c) ==
  pg' = [preamble |-> Preamble(c), compound |-> c]

\* The medium access lets a container pass that is due.
SendContainer ==
  /\ agg.sendNow /\ agg.current # <<>> /\ pg.compound = None
  /\ deagg.status = "finished"
  /\ PreambleProcessOutgoing(
       Compound("frame", Len(agg.current), 0, FALSE, FALSE, agg.current, agg.current[1].id))
  /\ agg' = AggregationGetSomethingToSend(agg)
  /\ deagg' = [deagg EXCEPT !.status = "waiting"]
  /\ UNCHANGED <<offered, ltf, phy, foreign, receiver, broken>>

SendSingle ==
  /\ pg.compound = None /\ deagg.status = "finished"
  /\ PreambleProcessOutgoing(Compound("frame", 1, 0, TRUE, FALSE, <<>>, 0))
  /\ deagg' = [deagg EXCEPT !.status = "waiting"]
  /\ UNCHANGED <<offered, agg, ltf, phy, foreign, receiver, broken>>

\* DeAggregation splits a container: each fragment takes its share of time.
Fragments(c) ==
  IF c.single THEN <<c>>
  ELSE [i \in 1..Len(c.entries) |->
          Compound("frame", 1, 0, FALSE, i = Len(c.entries), <<c.entries[i]>>, c.train)]

DeAggregationProcessOutgoing(c) ==
  /\ broken' = (broken \/ deagg.compound # None \/ deagg.queue # <<>>)
  /\ deagg' = IF c.kind = "preamble" THEN [deagg EXCEPT !.queue = <<c>>]
              ELSE [deagg EXCEPT !.queue = Fragments(c), !.compound = c,
                                 !.signalStart = TRUE]

\* LongTrainingFieldGenerator: training fields follow the preamble, which
\* announces a frame that much later.
LTFHasCapacityAnytime == ltf.compound = None   \* mutant: also while sending
LTFHasCapacity == ltf.compound = None /\ phy.compound = None

AnnounceTrainingFields(c) == [c EXCEPT !.span = @ + TrainingFields]

LTFProcessOutgoing(c) ==
  ltf' = IF c.kind = "preamble"
         THEN [compound |-> AnnounceTrainingFields(c), left |-> TrainingFields]
         ELSE [ltf EXCEPT !.compound = c]

DeAggregationSettled == deagg.queue = <<>> \/ ~LTFHasCapacity

DeAggregationDown ==
  /\ LTFHasCapacity /\ deagg.queue # <<>>
  /\ LTFProcessOutgoing(Head(deagg.queue))
  /\ deagg' = [deagg EXCEPT !.queue = Tail(@)]
  /\ UNCHANGED <<offered, agg, pg, phy, foreign, receiver, broken>>

NextTrainingField(c) == [c EXCEPT !.kind = "ltf", !.time = 1, !.span = @ - 1]

LTFGetSomethingToSend ==
  ltf' = IF ltf.left = 0 THEN [ltf EXCEPT !.compound = None]
         ELSE [compound |-> NextTrainingField(ltf.compound), left |-> ltf.left - 1]

\* DeAggregation signals the start of its first fragment, for which
\* BlockUntilReply waits; PhyUser signals no start of preambles.
DeAggregationOnTxStart ==
  /\ broken' = (broken \/ (deagg.signalStart /\ deagg.status # "waiting"))
  /\ deagg' = IF deagg.signalStart
              THEN [deagg EXCEPT !.signalStart = FALSE, !.status = "transmitting"]
              ELSE deagg

LTFSettled == ltf.compound = None \/ phy.compound # None

PhyDoSendData ==
  /\ phy.compound = None /\ ltf.compound # None
  /\ phy' = [compound |-> ltf.compound, left |-> ltf.compound.time]
  /\ LTFGetSomethingToSend
  /\ IF ltf.compound.kind = "frame" THEN DeAggregationOnTxStart
     ELSE UNCHANGED <<deagg, broken>>
  /\ UNCHANGED <<offered, agg, pg, foreign, receiver>>

\* A unit passes on what it can before the unit above sends it more.
PreambleDown ==
  /\ deagg.compound = None /\ pg.compound # None
  /\ DeAggregationSettled /\ LTFSettled
  /\ IF pg.preamble # None
     THEN /\ DeAggregationProcessOutgoing(pg.preamble)
          /\ pg' = [pg EXCEPT !.preamble = None]
     ELSE /\ DeAggregationProcessOutgoing(pg.compound)
          /\ pg' = [pg EXCEPT !.compound = None]
  /\ UNCHANGED <<offered, agg, ltf, phy, foreign, receiver>>

DeAggregationOnTxEnd ==
  deagg' = IF deagg.queue = <<>> /\ deagg.compound # None
           THEN [deagg EXCEPT !.compound = None, !.status = "finished"]
           ELSE deagg

-----------------------------------------------------------------------------
(* The receiver *)

Deliver(entries) == delivered' = delivered \o entries

\* Mutant: a capture throws the old container away.
ForgetOld(c) ==
  /\ rx' = [train |-> c.train, entries |-> <<>>, timer |-> c.span]
  /\ UNCHANGED delivered

\* A preamble begins a container; that of a capture delivers the old one.
OpenContainer(c) ==
  /\ rx' = [train |-> c.train, entries |-> <<>>, timer |-> c.span]
  /\ IF rx.train # None THEN Deliver(rx.entries) ELSE UNCHANGED delivered

AppendFragment(c) ==
  /\ broken' = (broken \/ rx.train = None)
  /\ IF c.final
     THEN Deliver(rx.entries \o c.entries) /\ rx' = NoContainer
     ELSE rx' = [rx EXCEPT !.entries = @ \o c.entries] /\ UNCHANGED delivered

DeAggregationProcessIncoming(c) ==
  IF c.single THEN UNCHANGED <<rx, delivered, broken>>
  ELSE IF c.kind = "preamble" THEN OpenContainer(c) /\ UNCHANGED broken
  ELSE AppendFragment(c)

\* FrameSynchronization: a first preamble may be taken, also as a capture of
\* another station's; training fields are dropped by their generator; of the
\* frames those of the station synchronized to are decoded or fail.
Receive(who, c) ==
  CASE c.kind = "preamble" ->
         \/ UNCHANGED <<receiver, broken>>
         \/ /\ lock.who # who
            /\ lock' = [who |-> who, left |-> c.span]
            /\ DeAggregationProcessIncoming(c)
            /\ UNCHANGED heard
    [] c.kind = "ltf" -> UNCHANGED <<receiver, broken>>
    [] OTHER ->
         \/ UNCHANGED <<receiver, broken>>
         \/ /\ lock.who = who
            /\ heard' = heard \o c.entries
            /\ DeAggregationProcessIncoming(c)
            /\ UNCHANGED lock

DeAggregationOnTimeout ==
  /\ rx.timer = 0
  /\ Deliver(rx.entries) /\ rx' = NoContainer
  /\ UNCHANGED <<sender, phy, foreign, lock, heard, broken>>

LockEnds ==
  /\ lock.left = 0
  /\ lock' = [who |-> None, left |-> Off]
  /\ UNCHANGED <<sender, phy, foreign, rx, heard, delivered, broken>>

-----------------------------------------------------------------------------
(* The ends of transmissions, which come before the timers of the receiver *)
(* at the same instant (10 ns later), and time.                            *)

PhyOnTimeout ==
  /\ phy.compound # None /\ phy.left = 0
  /\ phy' = [phy EXCEPT !.compound = None]
  /\ IF phy.compound.kind = "frame" THEN DeAggregationOnTxEnd ELSE UNCHANGED deagg
  /\ Receive("own", phy.compound)
  /\ UNCHANGED <<offered, agg, pg, ltf, foreign>>

\* A train of the foreign station, without training fields.
ForeignTrain(n, single) ==
  LET c == Compound("frame", n, 0, single, FALSE, [i \in 1..n |-> Frame(-i, None, FALSE)],
                    -(foreign.trains + 1))
  IN  <<Preamble(c)>> \o
      (IF single THEN <<[c EXCEPT !.entries = <<>>]>> ELSE Fragments(c))

ForeignStarts(n, single) ==
  /\ foreign.air = <<>> /\ foreign.trains < MaxForeign
  /\ foreign' = [air |-> ForeignTrain(n, single), left |-> PreambleTime,
                 trains |-> foreign.trains + 1]
  /\ UNCHANGED <<sender, phy, receiver, broken>>

ForeignEnds ==
  /\ foreign.air # <<>> /\ foreign.left = 0
  /\ foreign' = [foreign EXCEPT !.air = Tail(@),
                   !.left = IF Tail(foreign.air) = <<>> THEN 0
                            ELSE foreign.air[2].time]
  /\ Receive("foreign", Head(foreign.air))
  /\ UNCHANGED <<sender, phy>>

AirDue == (phy.compound # None /\ phy.left = 0) \/ (foreign.air # <<>> /\ foreign.left = 0)

UnitsSettled ==
  /\ pg.compound = None \/ deagg.compound # None
  /\ DeAggregationSettled /\ LTFSettled

Down(t) == IF t > 0 THEN t - 1 ELSE t

Tick ==
  /\ ~AirDue /\ UnitsSettled /\ rx.timer # 0 /\ lock.left # 0
  /\ phy.compound # None \/ foreign.air # <<>> \/ rx.timer > 0 \/ lock.left > 0
  /\ phy' = [phy EXCEPT !.left = Down(@)]
  /\ foreign' = [foreign EXCEPT !.left = Down(@)]
  /\ lock' = [lock EXCEPT !.left = Down(@)]
  /\ rx' = [rx EXCEPT !.timer = Down(@)]
  /\ UNCHANGED <<sender, heard, delivered, broken>>

ReceiverTimers == ~AirDue /\ (DeAggregationOnTimeout \/ LockEnds)

Next ==
  \/ \E to \in Receivers, request \in BOOLEAN : SendData(to, request)
  \/ AggregationTimeout \/ SendContainer \/ SendSingle
  \/ PreambleDown \/ DeAggregationDown \/ PhyDoSendData \/ PhyOnTimeout
  \/ \E n \in 1..2, single \in BOOLEAN : ForeignStarts(n, single)
  \/ ForeignEnds \/ ReceiverTimers \/ Tick

Spec == Init /\ [][Next]_vars

-----------------------------------------------------------------------------
(* Properties *)

\* The numbers of the sender's own frames; those of the foreign station are
\* negative.
Increasing(s) ==
  \A i, j \in DOMAIN s : i < j /\ s[i].id > 0 /\ s[j].id > 0 => s[i].id < s[j].id

\* The frames in the units of the sender, in the order of transmission.
InPreambleGenerator == IF pg.compound = None THEN <<>> ELSE pg.compound.entries

Waiting == InPreambleGenerator \o agg.current \o agg.next

\* TrainsAreUniform: collecting loses, repeats and reorders nothing, puts
\* frames of one receiver only into a container, however container, next
\* container, pretended entries and lower units follow each other
\* (Aggregation.cpp:69-205).
TrainsAreUniform ==
  /\ \A i \in DOMAIN Waiting : Waiting[i].id = offered - Len(Waiting) + i
  /\ \A c \in {InPreambleGenerator, agg.current, agg.next} :
       \A i, j \in DOMAIN c : c[i].to = c[j].to

\* EndMeansEnd: the end of a container is signalled to the units above only
\* when its last fragment has left the air, and its start only once
\* (DeAggregation.cpp:307-328); in between no assertion of the code fails.
EndMeansEnd ==
  /\ ~broken
  /\ deagg.status = "finished" =>
       /\ deagg.queue = <<>> /\ deagg.compound = None
       /\ pg.compound = None /\ ltf.compound = None
       /\ phy.compound = None

\* HeardIsDelivered: what the receiver has decoded is delivered, in order, or
\* still in the container, which holds fragments of one train only, whatever
\* fragments are lost and whoever captures the receiver
\* (DeAggregation.cpp:74-151); and a container is never kept past the end of
\* its train.
HeardIsDelivered ==
  /\ heard = delivered \o rx.entries
  /\ \A i \in DOMAIN rx.entries : rx.entries[i].id < 0 <=> rx.train < 0
  /\ rx.train = None => rx.entries = <<>> /\ rx.timer = Off
  /\ Increasing(heard)

=============================================================================
