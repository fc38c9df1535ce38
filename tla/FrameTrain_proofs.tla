-------------------------- MODULE FrameTrain_proofs --------------------------
(***************************************************************************)
(* Proofs about FrameTrain, for any receivers, container sizes, numbers of *)
(* training fields and of foreign trains.                                  *)
(*                                                                         *)
(* A transmission of the sender is in one of the Stages, which tell what   *)
(* each unit holds: no assertion of DeAggregation fails, and the stage is  *)
(* Idle when the end of the container has been signalled.  The receiver    *)
(* has no knowledge of these stages, only timers that it set when the      *)
(* preamble came; Locked and Filled relate them to what is left of the     *)
(* train (Left) whose preamble it was: they expire with its last fragment, *)
(* so that a fragment is decoded only when the container of its own train  *)
(* is open.  Each step of a sender is, for the receiver, a move of its     *)
(* train (Moved) or the passing of time.                                   *)
(***************************************************************************)
EXTENDS FrameTrain, SequenceTheorems, TLAPS

USE TrainingAssumption

-----------------------------------------------------------------------------
(* The frames *)

\* Frames of one receiver whose numbers go on to n.
Batch(s, n) ==
  /\ s \in Seq(Frames) /\ Len(s) <= n
  /\ \A i \in 1..Len(s) : s[i].id = n - Len(s) + i /\ s[i].to = s[1].to

Aggregations ==
  [current : Seq(Frames), next : Seq(Frames), closed : BOOLEAN,
   sendNow : BOOLEAN, timer : BOOLEAN]

Collected ==
  /\ offered \in Nat /\ agg \in Aggregations
  /\ Batch(agg.next, offered)
  /\ Batch(agg.current, offered - Len(agg.next))

\* How many frames have left Aggregation.
Passed == offered - Len(agg.next) - Len(agg.current)

SingleFrame == Compound("frame", 1, 0, TRUE, FALSE, <<>>, 0)

Container(s) == Compound("frame", Len(s), 0, FALSE, FALSE, s, s[1].id)

\* What is handed down: a single frame, or a container of the frames that
\* left Aggregation last.
Cargo(c) ==
  \/ c = SingleFrame
  \/ \E s \in Seq(Frames) : s # <<>> /\ Batch(s, Passed) /\ c = Container(s)

-----------------------------------------------------------------------------
(* The stages of a transmission of the sender *)

NoField == [compound |-> None, left |-> 0]
NoTransmission == [compound |-> None, left |-> 0]

FieldsLeft == IF ltf.compound = None THEN 0 ELSE ltf.left + 1

Fields ==
  /\ ltf \in [compound : Compounds \cup {None}, left : Nat]
  /\ IF ltf.compound = None THEN ltf.left = 0
     ELSE ltf.compound.kind = "ltf" /\ ltf.compound.time = 1

Announcement(c) == AnnounceTrainingFields(Preamble(c))

Idle ==
  /\ pg = [preamble |-> None, compound |-> None]
  /\ deagg = [queue |-> <<>>, compound |-> None, signalStart |-> FALSE,
              status |-> "finished"]
  /\ ltf = NoField /\ phy = NoTransmission

\* The compound is in PreambleGenerator, its preamble there or below.
Above(c, preamble, queue) ==
  /\ Cargo(c)
  /\ pg = [preamble |-> preamble, compound |-> c]
  /\ deagg = [queue |-> queue, compound |-> None, signalStart |-> FALSE,
              status |-> "waiting"]

Ready(c) ==
  Above(c, Preamble(c), <<>>) /\ ltf = NoField /\ phy = NoTransmission

PreambleQueued(c) ==
  Above(c, None, <<Preamble(c)>>) /\ ltf = NoField /\ phy = NoTransmission

PreambleDue(c) ==
  /\ Above(c, None, <<>>) /\ phy = NoTransmission
  /\ ltf = [compound |-> Announcement(c), left |-> TrainingFields]

PreambleStarted(c) ==
  /\ Above(c, None, <<>>)
  /\ Fields /\ FieldsLeft = TrainingFields
  /\ phy = [compound |-> Announcement(c), left |-> 1]

\* The compound is in DeAggregation, all but n of its fragments are queued.
Below(c, n, signalStart) ==
  /\ Cargo(c) /\ n \in 0..Len(Fragments(c))
  /\ pg = [preamble |-> None, compound |-> None]
  /\ deagg = [queue |-> SubSeq(Fragments(c), n + 1, Len(Fragments(c))),
              compound |-> c, signalStart |-> signalStart,
              status |-> IF signalStart THEN "waiting" ELSE "transmitting"]

PreambleOnAir(c) ==
  /\ Below(c, 0, TRUE)
  /\ Fields /\ FieldsLeft = TrainingFields
  /\ phy \in [compound : {Announcement(c)}, left : 0..1]

FieldOnAir ==
  phy \in [compound : Compounds, left : 0..1] /\ phy.compound.kind = "ltf"

Training(c) ==
  Below(c, 0, TRUE) /\ Fields /\ (phy = NoTransmission \/ FieldOnAir)

FragmentDue(c, n) ==
  /\ Below(c, n, n = 1) /\ n > 0 /\ phy = NoTransmission
  /\ ltf = [compound |-> Fragments(c)[n], left |-> 0]

FragmentOnAir(c, n) ==
  /\ Below(c, n, FALSE) /\ n > 0 /\ ltf = NoField
  /\ phy \in [compound : {Fragments(c)[n]}, left : 0..1]

FragmentOver(c, n) ==
  /\ Below(c, n, FALSE) /\ n > 0 /\ n < Len(Fragments(c))
  /\ ltf = NoField /\ phy = NoTransmission

Stages ==
  \/ Idle
  \/ \E c \in Compounds :
       \/ Ready(c) \/ PreambleQueued(c) \/ PreambleDue(c) \/ PreambleStarted(c)
       \/ PreambleOnAir(c) \/ Training(c)
       \/ \E n \in Nat : FragmentDue(c, n) \/ FragmentOnAir(c, n) \/ FragmentOver(c, n)

-----------------------------------------------------------------------------
(* What the receiver depends on *)

\* The rest of a foreign train.
Coming(air, trains) ==
  \A i \in 1..Len(air) :
    /\ air[i].single = air[1].single
    /\ air[i].time > 0
    /\ air[i].kind \in {"preamble", "frame"}
    /\ air[i].kind = "preamble" => i = 1 /\ Len(air) > 1
    /\ air[i].kind = "preamble" =>
         air[i].span = IF air[i].single THEN air[2].time ELSE Len(air) - 1
    /\ air[i].kind = "frame" /\ air[i].single => i = Len(air) /\ air[i].entries = <<>>
    /\ air[i].kind = "frame" /\ ~air[i].single =>
         /\ air[i].time = 1
         /\ air[i].final <=> i = Len(air)
         /\ \A k \in 1..Len(air[i].entries) : air[i].entries[k].id < 0
    /\ ~air[i].single => air[i].train = -trains /\ trains > 0

ForeignStages ==
  /\ foreign \in [air : Seq(Compounds), left : Nat, trains : Nat]
  /\ Coming(foreign.air, foreign.trains)
  /\ foreign.air = <<>> => foreign.left = 0

Senders == {"own", "foreign"}

\* The preamble of the train is over, the train is not.
Flying(who) ==
  IF who = "own"
  THEN /\ deagg.compound # None
       /\ phy.compound = None \/ phy.compound.kind # "preamble"
  ELSE foreign.air # <<>> /\ foreign.air[1].kind # "preamble"

Left(who) ==
  IF who = "own" THEN phy.left + FieldsLeft + Len(deagg.queue)
  ELSE foreign.left + Len(foreign.air) - 1

Due(who) ==
  IF who = "own" THEN phy.compound # None /\ phy.left = 0
  ELSE foreign.air # <<>> /\ foreign.left = 0

Single(who) ==
  IF who = "own" THEN deagg.compound.single ELSE foreign.air[1].single
Train(who) ==
  IF who = "own" THEN deagg.compound.train ELSE foreign.air[1].train

\* The lock is kept until the end of the train, whose container is open.
Locked ==
  /\ lock \in [who : Senders \cup {None}, left : Int]
  /\ lock.who = None => lock.left = Off
  /\ \A who \in Senders : lock.who = who =>
       IF Flying(who)
       THEN lock.left = Left(who) /\ (~Single(who) => rx.train = Train(who))
       ELSE lock.left = 0 /\ ~Due(who)

Origin(train) == IF train > 0 THEN "own" ELSE "foreign"

Filled ==
  /\ rx \in [train : Int \cup {None}, entries : Seq(Frames), timer : Int]
  /\ rx.train = None => rx = NoContainer
  /\ rx.train # 0
  /\ \A who \in Senders : rx.train # None /\ Origin(rx.train) = who =>
       IF Flying(who)
       THEN rx.timer = Left(who) /\ rx.train = Train(who) /\ ~Single(who)
       ELSE rx.timer = 0 /\ ~Due(who)

\* How many of the own frames have left the air.
Gone ==
  IF pg.compound # None THEN Passed - Len(pg.compound.entries)
  ELSE IF deagg.compound # None /\ ~deagg.compound.single
  THEN Passed - Len(deagg.queue) -
         (IF \/ phy.compound # None /\ phy.compound.kind = "frame"
             \/ ltf.compound # None /\ ltf.compound.kind = "frame"
          THEN 1 ELSE 0)
  ELSE Passed

Kept ==
  /\ heard \in Seq(Frames) /\ delivered \in Seq(Frames)
  /\ heard = delivered \o rx.entries
  /\ \A i \in 1..Len(rx.entries) : rx.entries[i].id < 0 <=> rx.train < 0
  /\ Increasing(heard)
  /\ \A i \in 1..Len(heard) : heard[i].id <= Gone

Inv ==
  /\ Collected /\ Stages /\ ForeignStages
  /\ Locked /\ Filled /\ Kept
  /\ broken = FALSE

-----------------------------------------------------------------------------
(* The frames and compounds of a transmission *)

LEMMA PassedNat ==
    ASSUME Collected
    PROVE  /\ Passed \in Nat
           /\ Len(agg.current) \in Nat /\ Len(agg.next) \in Nat /\ offered \in Nat
  <1>1. agg.current \in Seq(Frames) /\ agg.next \in Seq(Frames)
    BY DEF Collected, Aggregations
  <1>2. Len(agg.current) \in Nat /\ Len(agg.next) \in Nat
    BY <1>1, LenProperties
  <1>3. offered \in Nat /\ Len(agg.current) <= offered - Len(agg.next)
    BY DEF Collected, Batch
  <1>4. \A a, b, o \in Nat : a <= o - b => o - b - a \in Nat
    OBVIOUS
  <1> QED
    BY <1>2, <1>3, <1>4 DEF Passed

LEMMA CargoFacts ==
    ASSUME Passed \in Nat, NEW c, Cargo(c)
    PROVE  /\ c \in Compounds /\ c.kind = "frame" /\ c.time \in Nat /\ c.time > 0
           /\ c.single => c = SingleFrame /\ c.train = 0 /\ c.time = 1 /\ c.entries = <<>>
           /\ ~c.single =>
                /\ c.train \in Nat /\ c.train > 0 /\ c.entries \in Seq(Frames)
                /\ Len(c.entries) = c.time /\ c.time <= Passed
                /\ \A i \in 1..c.time :
                     c.entries[i] \in Frames /\ c.entries[i].id = Passed - c.time + i
  <1>1. CASE c = SingleFrame
    <2>1. <<>> \in Seq(Frames)
      BY EmptySeq
    <2> QED
      BY <1>1, <2>1 DEF SingleFrame, Compound, Compounds
  <1>2. ASSUME NEW s \in Seq(Frames), s # <<>>, Batch(s, Passed), c = Container(s)
        PROVE  /\ c \in Compounds /\ c.kind = "frame" /\ c.time \in Nat /\ c.time > 0
               /\ ~c.single
               /\ c.train \in Nat /\ c.train > 0 /\ c.entries \in Seq(Frames)
               /\ Len(c.entries) = c.time /\ c.time <= Passed
               /\ \A i \in 1..c.time :
                    c.entries[i] \in Frames /\ c.entries[i].id = Passed - c.time + i
    <2>1. Len(s) \in Nat /\ Len(s) > 0 /\ Len(s) <= Passed
      BY <1>2, EmptySeq DEF Batch
    <2>2. \A i \in 1..Len(s) : s[i] \in Frames /\ s[i].id = Passed - Len(s) + i
      BY <1>2, ElementOfSeq DEF Batch
    <2>3. s[1].id = Passed - Len(s) + 1
      BY <2>1, <2>2
    <2> QED
      BY <1>2, <2>1, <2>2, <2>3 DEF Container, Compound, Compounds
  <1> QED
    BY <1>1, <1>2 DEF Cargo, SingleFrame, Compound

LEMMA PreambleFacts ==
    ASSUME Passed \in Nat, NEW c, Cargo(c)
    PROVE  /\ Preamble(c) \in Compounds /\ Preamble(c).kind = "preamble"
           /\ Announcement(c) \in Compounds /\ Announcement(c).kind = "preamble"
           /\ Announcement(c).time = 1 /\ Announcement(c).span = c.time + TrainingFields
           /\ Announcement(c).single = c.single /\ Announcement(c).train = c.train
           /\ Announcement(c) = AnnounceTrainingFields(Preamble(c))
  <1>1. c.time \in Nat /\ c.single \in BOOLEAN /\ c.train \in Int
    BY CargoFacts DEF Compounds
  <1>2. <<>> \in Seq(Frames)
    BY EmptySeq
  <1>3. Preamble(c) = [kind |-> "preamble", time |-> 1, span |-> c.time,
                       single |-> c.single, final |-> FALSE, entries |-> <<>>,
                       train |-> c.train]
    BY DEF Preamble, PreambleTime, Compound
  <1>4. Preamble(c) \in Compounds
    BY <1>1, <1>2, <1>3 DEF Compounds
  <1>5. ASSUME NEW p \in Compounds
        PROVE  LET a == AnnounceTrainingFields(p)
               IN  /\ a \in Compounds /\ a.kind = p.kind /\ a.time = p.time
                   /\ a.span = p.span + TrainingFields
                   /\ a.single = p.single /\ a.train = p.train
    BY DEF AnnounceTrainingFields, Compounds
  <1> QED
    BY <1>3, <1>4, <1>5 DEF Announcement

LEMMA FragmentFacts ==
    ASSUME Passed \in Nat, NEW c, Cargo(c)
    PROVE  /\ Fragments(c) \in Seq(Compounds) /\ Len(Fragments(c)) = c.time
           /\ \A i \in 1..c.time :
                LET f == Fragments(c)[i]
                IN  /\ f \in Compounds /\ f.kind = "frame" /\ f.time = 1
                    /\ f.single = c.single /\ f.train = c.train
                    /\ c.single => f.entries = <<>>
                    /\ ~c.single => /\ f.final <=> i = c.time
                                    /\ f.entries = <<c.entries[i]>>
  <1>0. c \in Compounds
    BY CargoFacts
  <1>1. CASE c.single
    <2>1. Fragments(c) = <<c>> /\ c = SingleFrame /\ c.time = 1
      BY <1>1, CargoFacts DEF Fragments
    <2>2. c.kind = "frame" /\ c.entries = <<>>
      BY <2>1 DEF SingleFrame, Compound
    <2>3. Fragments(c) \in Seq(Compounds) /\ Len(Fragments(c)) = 1 /\ Fragments(c)[1] = c
      BY <1>0, <2>1
    <2>4. \A i \in 1..c.time : Fragments(c)[i] = c
      BY <2>1, <2>3
    <2>5. c.single = TRUE /\ c.time = 1
      BY <2>1 DEF SingleFrame, Compound
    <2> QED
      BY <1>0, <2>2, <2>3, <2>4, <2>5
  <1>2. CASE ~c.single
    <2> DEFINE F(i) == Compound("frame", 1, 0, FALSE, i = c.time, <<c.entries[i]>>, c.train)
    <2>1. Len(c.entries) = c.time /\ c.time \in Nat /\ c.train \in Int
      BY <1>2, CargoFacts
    <2>2. Fragments(c) = [i \in 1..c.time |-> F(i)]
      BY <1>2, <2>1 DEF Fragments
    <2>3. \A i \in 1..c.time : c.entries[i] \in Frames
      BY <1>2, CargoFacts
    <2>4. \A i \in 1..c.time : <<c.entries[i]>> \in Seq(Frames)
      BY <2>3
    <2>5. \A i \in 1..c.time : F(i) \in Compounds
      BY <2>1, <2>4 DEF Compound, Compounds
    <2>6. \A i \in 1..c.time :
            /\ F(i).kind = "frame" /\ F(i).time = 1 /\ F(i).single = FALSE
            /\ F(i).train = c.train /\ (F(i).final <=> i = c.time)
            /\ F(i).entries = <<c.entries[i]>>
      BY DEF Compound
    <2> HIDE DEF F
    <2>7. Fragments(c) \in Seq(Compounds) /\ Len(Fragments(c)) = c.time
      BY <2>1, <2>2, <2>5
    <2>8. \A i \in 1..c.time : Fragments(c)[i] = F(i)
      BY <2>2
    <2>9. ASSUME NEW i \in 1..c.time
          PROVE  LET f == Fragments(c)[i]
                 IN  /\ f \in Compounds /\ f.kind = "frame" /\ f.time = 1
                     /\ f.single = c.single /\ f.train = c.train
                     /\ c.single => f.entries = <<>>
                     /\ ~c.single => /\ f.final <=> i = c.time
                                     /\ f.entries = <<c.entries[i]>>
      <3>1. Fragments(c)[i] = F(i) /\ F(i) \in Compounds
        BY <2>5, <2>8
      <3>2. F(i).single = c.single
        BY <1>2, <1>0, <2>6 DEF Compounds
      <3> QED
        BY <1>2, <2>6, <3>1, <3>2
    <2> QED
      BY <2>7, <2>9
  <1>3. c.single \in BOOLEAN
    BY <1>0 DEF Compounds
  <1> QED
    BY <1>1, <1>2, <1>3

-----------------------------------------------------------------------------
(* What a stage means for the receiver *)

\* The number of the last frame that has left the air when n fragments have.
Rest(c, n) == IF c.single THEN Passed ELSE Passed - c.time + n

Resting(gone) == ~Flying("own") /\ ~Due("own") /\ Gone = gone

Airborne(c, left, gone) ==
  /\ Flying("own") /\ Left("own") = left
  /\ Single("own") = c.single /\ Train("own") = c.train
  /\ Gone = gone

Views ==
  Passed \in Nat =>
    /\ Idle => Resting(Passed)
    /\ \A c : Ready(c) \/ PreambleQueued(c) \/ PreambleDue(c) \/ PreambleStarted(c)
              => Resting(Rest(c, 0))
    /\ \A c : PreambleOnAir(c) =>
         ~Flying("own") /\ (Due("own") <=> phy.left = 0) /\ Gone = Rest(c, 0)
    /\ \A c : Training(c) =>
         Airborne(c, phy.left + FieldsLeft + c.time, Rest(c, 0)) /\ c.time > 0
    /\ \A c, n : FragmentDue(c, n) => Airborne(c, 1 + c.time - n, Rest(c, n - 1))
    /\ \A c, n : FragmentOnAir(c, n) =>
         /\ Airborne(c, phy.left + c.time - n, Rest(c, n - 1))
         /\ Due("own") <=> phy.left = 0
    /\ \A c, n : FragmentOver(c, n) => Airborne(c, c.time - n, Rest(c, n)) /\ ~Due("own")

LEMMA Differences ==
    \A p, t, m \in Int : /\ p - (t - m) - 1 = p - t + (m - 1)
                          /\ p - (t - m) - 0 = p - t + m
                          /\ (t - m > 0 <=> m < t) /\ t - 0 = t
  OBVIOUS

LEMMA CompoundsAreSome == \A c \in Compounds : c # None
  BY NoneAssumption

\* What the units hold when n fragments have left DeAggregation.
LEMMA QueueFacts ==
    ASSUME Passed \in Nat, NEW c, Cargo(c), NEW n \in 0..c.time
    PROVE  LET q == SubSeq(Fragments(c), n + 1, Len(Fragments(c)))
           IN  /\ q \in Seq(Compounds) /\ Len(q) = c.time - n
               /\ n = c.time => q = <<>>
               /\ n < c.time => /\ q # <<>> /\ Head(q) = Fragments(c)[n + 1]
                                /\ Tail(q) = SubSeq(Fragments(c), n + 2, Len(Fragments(c)))
  <1> DEFINE F == Fragments(c)
             q == SubSeq(F, n + 1, Len(F))
  <1>1. c.time \in Nat /\ c.time > 0
    BY CargoFacts
  <1>2. F \in Seq(Compounds) /\ Len(F) = c.time
    BY FragmentFacts
  <1> HIDE DEF F
  <1>3. \A i \in n + 1 .. c.time : F[i] \in Compounds
    BY <1>1, <1>2, ElementOfSeq
  <1>4. /\ SubSeq(F, n + 1, c.time) \in Seq(Compounds)
        /\ Len(SubSeq(F, n + 1, c.time)) = IF n + 1 <= c.time THEN c.time - (n + 1) + 1 ELSE 0
    BY <1>1, <1>3, SubSeqProperties
  <1>5. q \in Seq(Compounds) /\ Len(q) = c.time - n
    BY <1>1, <1>2, <1>4
  <1>6. n = c.time => q = <<>>
    BY <1>1, <1>2, SubSeqEmpty
  <1>7. ASSUME n < c.time
        PROVE  Head(q) = F[n + 1] /\ Tail(q) = SubSeq(F, n + 2, Len(F))
    <2>1. n + 1 \in 1..Len(F) /\ Len(F) \in (n + 1)..Len(F)
      BY <1>1, <1>2, <1>7
    <2>2. /\ Head(SubSeq(F, n + 1, Len(F))) = F[n + 1]
          /\ Tail(SubSeq(F, n + 1, Len(F))) = SubSeq(F, (n + 1) + 1, Len(F))
      BY <1>2, <2>1, HeadTailOfSubSeq
    <2>3. (n + 1) + 1 = n + 2
      OBVIOUS
    <2> QED
      BY <2>2, <2>3
  <1>8. ASSUME n < c.time PROVE q # <<>>
    <2>1. Len(q) > 0
      BY <1>1, <1>5, <1>8, Differences
    <2> HIDE DEF q
    <2> QED
      BY <2>1, EmptySeq
  <1> HIDE DEF q
  <1> QED
    BY <1>5, <1>6, <1>7, <1>8 DEF F, q

LEMMA StageViews == Views
  <1> SUFFICES ASSUME Passed \in Nat
               PROVE  /\ Idle => Resting(Passed)
                      /\ \A c : Ready(c) \/ PreambleQueued(c) \/ PreambleDue(c) \/ PreambleStarted(c)
                                => Resting(Rest(c, 0))
                      /\ \A c : PreambleOnAir(c) =>
                           ~Flying("own") /\ (Due("own") <=> phy.left = 0) /\ Gone = Rest(c, 0)
                      /\ \A c : Training(c) =>
                           Airborne(c, phy.left + FieldsLeft + c.time, Rest(c, 0)) /\ c.time > 0
                      /\ \A c, n : FragmentDue(c, n) => Airborne(c, 1 + c.time - n, Rest(c, n - 1))
                      /\ \A c, n : FragmentOnAir(c, n) =>
                           /\ Airborne(c, phy.left + c.time - n, Rest(c, n - 1))
                           /\ Due("own") <=> phy.left = 0
                      /\ \A c, n : FragmentOver(c, n) =>
                           Airborne(c, c.time - n, Rest(c, n)) /\ ~Due("own")
    BY DEF Views
  <1>1. ASSUME Idle PROVE Resting(Passed)
    BY <1>1 DEF Idle, Resting, Flying, Due, Gone, NoTransmission
  <1>2. ASSUME NEW c, NEW p, NEW q, Above(c, p, q)
        PROVE  ~Flying("own") /\ Gone = Rest(c, 0)
    <2>1. Cargo(c) /\ pg.compound = c /\ deagg.compound = None
      BY <1>2 DEF Above
    <2>2. c \in Compounds /\ c # None
      BY <2>1, CargoFacts, CompoundsAreSome
    <2>3. Gone = Passed - Len(c.entries)
      BY <2>1, <2>2 DEF Gone
    <2>4. CASE c.single
      <3>1. Len(c.entries) = 0
        BY <2>1, <2>4, CargoFacts
      <3> QED
        BY <2>1, <2>3, <2>4, <3>1 DEF Flying, Rest
    <2>5. CASE ~c.single
      <3>1. Len(c.entries) = c.time /\ c.time \in Nat
        BY <2>1, <2>5, CargoFacts
      <3> QED
        BY <2>1, <2>3, <2>5, <3>1 DEF Flying, Rest
    <2> QED
      BY <2>4, <2>5
  <1>3. ASSUME NEW c, Ready(c) \/ PreambleQueued(c) \/ PreambleDue(c) \/ PreambleStarted(c)
        PROVE  Resting(Rest(c, 0))
    <2>1. ~Flying("own") /\ Gone = Rest(c, 0)
      BY <1>2, <1>3 DEF Ready, PreambleQueued, PreambleDue, PreambleStarted
    <2>2. phy = NoTransmission \/ phy = [compound |-> Announcement(c), left |-> 1]
      BY <1>3 DEF Ready, PreambleQueued, PreambleDue, PreambleStarted
    <2> QED
      BY <2>1, <2>2 DEF Resting, Due, NoTransmission
  <1>4. ASSUME NEW c, NEW n, NEW signalStart, Below(c, n, signalStart)
        PROVE  /\ Cargo(c) /\ c \in Compounds /\ c # None /\ n \in 0..c.time /\ c.time \in Nat
               /\ pg.compound = None /\ deagg.compound = c
               /\ Len(deagg.queue) = c.time - n
               /\ n = 0 => Len(deagg.queue) = c.time
               /\ c.time > 0
    <2>1. Cargo(c) /\ n \in 0..Len(Fragments(c))
      BY <1>4 DEF Below
    <2>2. c \in Compounds /\ c # None /\ Len(Fragments(c)) = c.time /\ c.time \in Nat /\ c.time > 0
      BY <2>1, CargoFacts, FragmentFacts, CompoundsAreSome
    <2>3. Len(SubSeq(Fragments(c), n + 1, Len(Fragments(c)))) = c.time - n
      BY <2>1, <2>2, QueueFacts
    <2>4. c.time - 0 = c.time
      BY <2>2, Differences
    <2> QED
      BY <1>4, <2>1, <2>2, <2>3, <2>4 DEF Below
  <1>5. ASSUME NEW c, PreambleOnAir(c)
        PROVE  ~Flying("own") /\ (Due("own") <=> phy.left = 0) /\ Gone = Rest(c, 0)
    <2>1. Below(c, 0, TRUE) /\ phy.compound = Announcement(c)
      BY <1>5 DEF PreambleOnAir
    <2>6. Cargo(c)
      BY <1>4, <2>1
    <2>2. phy.compound # None /\ phy.compound.kind = "preamble"
      BY <2>1, <2>6, PreambleFacts, CompoundsAreSome
    <2>3. ltf.compound = None \/ ltf.compound.kind = "ltf"
      BY <1>5 DEF PreambleOnAir, Fields
    <2>4. deagg.compound = c /\ pg.compound = None /\ c # None /\ c.time \in Nat
          /\ Len(deagg.queue) = c.time - 0
      BY <1>4, <2>1
    <2>5. Gone = Rest(c, 0)
      BY <2>2, <2>3, <2>4 DEF Gone, Rest
    <2> QED
      BY <2>2, <2>5 DEF Flying, Due
  <1>6. ASSUME NEW c, Training(c)
        PROVE  Airborne(c, phy.left + FieldsLeft + c.time, Rest(c, 0)) /\ c.time > 0
    <2>1. Below(c, 0, TRUE)
      BY <1>6 DEF Training
    <2>2. phy.compound = None \/ phy.compound.kind = "ltf"
      BY <1>6 DEF Training, NoTransmission, FieldOnAir
    <2>3. ltf.compound = None \/ ltf.compound.kind = "ltf"
      BY <1>6 DEF Training, Fields
    <2>4. deagg.compound = c /\ pg.compound = None /\ c # None /\ c.time \in Nat
          /\ Len(deagg.queue) = c.time /\ c.time > 0
      BY <1>4, <2>1
    <2>5. Gone = Rest(c, 0)
      BY <2>2, <2>3, <2>4 DEF Gone, Rest
    <2> QED
      BY <2>2, <2>4, <2>5 DEF Airborne, Flying, Left, Single, Train
  <1>7. ASSUME NEW c, NEW n, FragmentDue(c, n)
        PROVE  Airborne(c, 1 + c.time - n, Rest(c, n - 1))
    <2>1. Below(c, n, n = 1) /\ n > 0 /\ phy = NoTransmission
          /\ ltf = [compound |-> Fragments(c)[n], left |-> 0]
      BY <1>7 DEF FragmentDue
    <2>2. Cargo(c) /\ n \in 0..c.time /\ c.time \in Nat /\ deagg.compound = c
          /\ pg.compound = None /\ c # None /\ Len(deagg.queue) = c.time - n
      BY <1>4, <2>1
    <2>3. ltf.compound # None /\ ltf.compound.kind = "frame" /\ ltf.left = 0
      BY <2>1, <2>2, FragmentFacts, CompoundsAreSome
    <2>4. phy.compound = None /\ phy.left = 0
      BY <2>1 DEF NoTransmission
    <2>5. Gone = Rest(c, n - 1)
      <3>1. Gone = IF c.single THEN Passed ELSE Passed - (c.time - n) - 1
        BY <2>2, <2>3, <2>4 DEF Gone
      <3>2. n \in Nat /\ c.time \in Nat
        BY <2>2
      <3>3. Passed - (c.time - n) - 1 = Passed - c.time + (n - 1)
        BY <3>2, Differences
      <3> QED
        BY <3>1, <3>3 DEF Rest
    <2>6. FieldsLeft = 1
      BY <2>3 DEF FieldsLeft
    <2>7. Left("own") = 1 + c.time - n
      BY <2>2, <2>4, <2>6 DEF Left
    <2> QED
      BY <2>2, <2>4, <2>5, <2>7 DEF Airborne, Flying, Single, Train
  <1>8. ASSUME NEW c, NEW n, FragmentOnAir(c, n)
        PROVE  /\ Airborne(c, phy.left + c.time - n, Rest(c, n - 1))
               /\ Due("own") <=> phy.left = 0
    <2>1. Below(c, n, FALSE) /\ n > 0 /\ ltf = NoField /\ phy.left \in 0..1
          /\ phy.compound = Fragments(c)[n]
      BY <1>8 DEF FragmentOnAir
    <2>2. Cargo(c) /\ n \in 0..c.time /\ c.time \in Nat /\ deagg.compound = c
          /\ pg.compound = None /\ c # None /\ Len(deagg.queue) = c.time - n
      BY <1>4, <2>1
    <2>3. phy.compound # None /\ phy.compound.kind = "frame"
      BY <2>1, <2>2, FragmentFacts, CompoundsAreSome
    <2>4. ltf.compound = None /\ FieldsLeft = 0
      BY <2>1 DEF NoField, FieldsLeft
    <2>5. Gone = Rest(c, n - 1)
      <3>1. Gone = IF c.single THEN Passed ELSE Passed - (c.time - n) - 1
        BY <2>2, <2>3, <2>4 DEF Gone
      <3>2. n \in Nat /\ c.time \in Nat
        BY <2>2
      <3>3. Passed - (c.time - n) - 1 = Passed - c.time + (n - 1)
        BY <3>2, Differences
      <3> QED
        BY <3>1, <3>3 DEF Rest
    <2>6. Left("own") = phy.left + c.time - n
      BY <2>1, <2>2, <2>4 DEF Left
    <2> QED
      BY <2>2, <2>3, <2>5, <2>6 DEF Airborne, Flying, Single, Train, Due
  <1>9. ASSUME NEW c, NEW n, FragmentOver(c, n)
        PROVE  Airborne(c, c.time - n, Rest(c, n)) /\ ~Due("own")
    <2>1. Below(c, n, FALSE) /\ n > 0 /\ ltf = NoField /\ phy = NoTransmission
      BY <1>9 DEF FragmentOver
    <2>2. Cargo(c) /\ n \in 0..c.time /\ c.time \in Nat /\ deagg.compound = c
          /\ pg.compound = None /\ c # None /\ Len(deagg.queue) = c.time - n
      BY <1>4, <2>1
    <2>3. phy.compound = None /\ phy.left = 0 /\ ltf.compound = None /\ FieldsLeft = 0
      BY <2>1 DEF NoField, NoTransmission, FieldsLeft
    <2>4. Gone = Rest(c, n)
      BY <2>2, <2>3 DEF Gone, Rest
    <2>5. Left("own") = c.time - n
      BY <2>2, <2>3 DEF Left
    <2> QED
      BY <2>2, <2>3, <2>4, <2>5 DEF Airborne, Flying, Single, Train, Due
  <1> QED
    BY <1>1, <1>3, <1>5, <1>6, <1>7, <1>8, <1>9

LEMMA StageViewsNext == Views'
  BY StageViews, PTL

-----------------------------------------------------------------------------
(* What a step of a sender is for the receiver *)

\* A train goes on; its preamble comes nearer; the preamble ends; its last
\* fragment ends.
GoesOn(who) ==
  /\ Flying(who) /\ Flying(who)'
  /\ Left(who)' = Left(who) /\ Single(who)' = Single(who) /\ Train(who)' = Train(who)

Waits(who) == ~Flying(who) /\ ~Flying(who)' /\ (Due(who)' => Due(who))

Begins(who) == ~Flying(who) /\ Due(who)

Lands(who) == Flying(who) /\ Left(who) = 0 /\ ~Flying(who)' /\ ~Due(who)'

Moved(who) == GoesOn(who) \/ Waits(who) \/ Begins(who) \/ Lands(who)

LEMMA LockKept ==
    ASSUME Locked, NEW who \in Senders, Moved(who), lock' = lock, rx'.train = rx.train,
           lock.who = who
    PROVE  IF Flying(who)'
           THEN /\ lock'.left = Left(who)'
                /\ ~Single(who)' => rx'.train = Train(who)'
           ELSE lock'.left = 0 /\ ~Due(who)'
  BY DEF Locked, Moved, GoesOn, Waits, Begins, Lands

LEMMA ContainerKept ==
    ASSUME Filled, NEW who \in Senders, Moved(who), rx'.train = rx.train,
           rx'.timer = rx.timer, rx.train # None, Origin(rx.train) = who
    PROVE  IF Flying(who)'
           THEN rx'.timer = Left(who)' /\ rx'.train = Train(who)' /\ ~Single(who)'
           ELSE rx'.timer = 0 /\ ~Due(who)'
  BY DEF Filled, Moved, GoesOn, Waits, Begins, Lands

LEMMA ReceiverKept ==
    ASSUME Locked, Filled, Moved("own"), Moved("foreign"), UNCHANGED <<lock, rx>>
    PROVE  Locked' /\ Filled'
  <1>1. \A who \in Senders : Moved(who)
    BY DEF Senders
  <1>2. ASSUME NEW who \in Senders, lock'.who = who
        PROVE  IF Flying(who)'
               THEN lock'.left = Left(who)' /\ (~Single(who)' => rx'.train = Train(who)')
               ELSE lock'.left = 0 /\ ~Due(who)'
    BY <1>1, <1>2, LockKept
  <1>3. Locked'
    BY <1>2 DEF Locked
  <1>4. ASSUME NEW who \in Senders, rx'.train # None, Origin(rx'.train) = who
        PROVE  IF Flying(who)'
               THEN rx'.timer = Left(who)' /\ rx'.train = Train(who)' /\ ~Single(who)'
               ELSE rx'.timer = 0 /\ ~Due(who)'
    BY <1>1, <1>4, ContainerKept
  <1>5. Filled'
    BY <1>4 DEF Filled
  <1> QED
    BY <1>3, <1>5

LEMMA KeptSame ==
    ASSUME Kept, UNCHANGED <<heard, delivered, rx>>, Gone' = Gone PROVE Kept'
  BY DEF Kept

\* The foreign station does nothing.
LEMMA ForeignWaits ==
    ASSUME UNCHANGED foreign
    PROVE  /\ Flying("foreign")' <=> Flying("foreign")
           /\ Left("foreign")' = Left("foreign") /\ (Due("foreign")' <=> Due("foreign"))
           /\ Single("foreign")' = Single("foreign") /\ Train("foreign")' = Train("foreign")
           /\ Moved("foreign")
  <1>1. /\ Flying("foreign")' <=> Flying("foreign")
        /\ Left("foreign")' = Left("foreign") /\ (Due("foreign")' <=> Due("foreign"))
        /\ Single("foreign")' = Single("foreign") /\ Train("foreign")' = Train("foreign")
    BY DEF Flying, Left, Due, Single, Train
  <1> QED
    BY <1>1 DEF Moved, GoesOn, Waits

LEMMA OwnWaits ==
    ASSUME UNCHANGED <<pg, deagg, ltf, phy>>
    PROVE  /\ Flying("own")' <=> Flying("own")
           /\ Left("own")' = Left("own") /\ (Due("own")' <=> Due("own"))
           /\ Single("own")' = Single("own") /\ Train("own")' = Train("own")
           /\ Moved("own")
  <1>1. /\ Flying("own")' <=> Flying("own")
        /\ Left("own")' = Left("own") /\ (Due("own")' <=> Due("own"))
        /\ Single("own")' = Single("own") /\ Train("own")' = Train("own")
    BY DEF Flying, Left, Due, Single, Train, FieldsLeft
  <1> QED
    BY <1>1 DEF Moved, GoesOn, Waits

\* A step in the units of the sender.
LEMMA SenderStep ==
    ASSUME Inv, UNCHANGED <<foreign, receiver, broken>>, Collected', Stages',
           Moved("own"), Gone' = Gone
    PROVE  Inv'
  <1>1. ForeignStages'
    BY DEF Inv, ForeignStages
  <1>2. Moved("foreign")
    BY ForeignWaits
  <1>3. Locked' /\ Filled'
    BY <1>2, ReceiverKept DEF Inv, receiver
  <1>4. Kept'
    BY KeptSame DEF Inv, receiver
  <1> QED
    BY <1>1, <1>3, <1>4 DEF Inv

-----------------------------------------------------------------------------
(* Aggregation *)

LEMMA BatchEmpty == ASSUME NEW n \in Nat PROVE Batch(<<>>, n)
  BY EmptySeq DEF Batch

LEMMA BatchOne ==
    ASSUME NEW n \in Nat, n > 0, NEW f \in Frames, f.id = n
    PROVE  Batch(<<f>>, n)
  <1>1. <<f>> \in Seq(Frames) /\ Len(<<f>>) = 1 /\ <<f>>[1] = f
    OBVIOUS
  <1> QED
    BY <1>1 DEF Batch

LEMMA BatchAppend ==
    ASSUME NEW n \in Nat, NEW s, s # <<>>, Batch(s, n),
           NEW f \in Frames, f.id = n + 1, f.to = s[1].to
    PROVE  Batch(Append(s, f), n + 1)
  <1> DEFINE t == Append(s, f)
  <1>1. s \in Seq(Frames) /\ Len(s) \in Nat /\ Len(s) > 0 /\ Len(s) <= n
    BY EmptySeq DEF Batch
  <1>2. /\ t \in Seq(Frames) /\ Len(t) = Len(s) + 1
        /\ \A i \in 1..Len(s) : t[i] = s[i]
        /\ t[Len(s) + 1] = f
    BY <1>1, AppendProperties
  <1>3. \A i \in 1..Len(s) : s[i].id = n - Len(s) + i /\ s[i].to = s[1].to
    BY DEF Batch
  <1> HIDE DEF t
  <1>4. t[1] = s[1]
    BY <1>1, <1>2
  <1>5. ASSUME NEW i \in 1..Len(t)
        PROVE  t[i].id = (n + 1) - Len(t) + i /\ t[i].to = t[1].to
    <2>1. CASE i = Len(s) + 1
      BY <1>1, <1>2, <1>4, <2>1
    <2>2. CASE i # Len(s) + 1
      <3>1. i \in 1..Len(s)
        BY <1>1, <1>2, <2>2
      <3>2. t[i].id = n - Len(s) + i /\ t[i].to = t[1].to
        BY <1>2, <1>3, <1>4, <3>1
      <3> QED
        BY <1>1, <1>2, <3>2
    <2> QED
      BY <2>1, <2>2
  <1>6. Len(t) <= n + 1
    BY <1>1, <1>2
  <1> QED
    BY <1>2, <1>5, <1>6 DEF Batch, t

\* The units below Aggregation hold what they held.
LEMMA StagesKept ==
    ASSUME Stages, UNCHANGED <<pg, deagg, ltf, phy>>, Passed' = Passed
    PROVE  Stages' /\ Gone' = Gone /\ Moved("own")
  <1>1. \A c : Cargo(c) <=> Cargo(c)'
    BY DEF Cargo
  <1>2. Stages'
    BY <1>1 DEF Stages, Idle, Ready, PreambleQueued, PreambleDue, PreambleStarted,
       PreambleOnAir, Training, FragmentDue, FragmentOnAir, FragmentOver, Above, Below,
       Fields, FieldsLeft, FieldOnAir
  <1>3. Gone' = Gone
    BY DEF Gone
  <1>4. Moved("own")
    BY OwnWaits
  <1> QED
    BY <1>2, <1>3, <1>4

\* In every stage as many frames are gone as a number can tell.
LEMMA GoneInt == ASSUME Collected, Stages PROVE Gone \in 0..Passed /\ Gone \in Int
  <1>1. Passed \in Nat
    BY PassedNat
  <1>2. ASSUME NEW c, Cargo(c), NEW n \in 0..c.time
        PROVE  Rest(c, n) \in 0..Passed
    <2>1. c.time \in Nat /\ (~c.single => c.time <= Passed)
      BY <1>1, <1>2, CargoFacts
    <2> QED
      BY <1>1, <2>1 DEF Rest
  <1>3. CASE Idle
    BY <1>1, <1>3, StageViews DEF Views, Resting
  <1>4. ASSUME NEW c, Cargo(c),
               Ready(c) \/ PreambleQueued(c) \/ PreambleDue(c) \/ PreambleStarted(c)
                 \/ PreambleOnAir(c) \/ Training(c)
        PROVE  Gone \in 0..Passed
    <2>1. Gone = Rest(c, 0)
      BY <1>1, <1>4, StageViews DEF Views, Resting, Airborne
    <2>2. 0 \in 0..c.time
      BY <1>1, <1>4, CargoFacts
    <2> QED
      BY <1>2, <1>4, <2>1, <2>2
  <1>5. ASSUME NEW c, NEW n \in Nat, Cargo(c), n > 0, n <= c.time,
               FragmentDue(c, n) \/ FragmentOnAir(c, n) \/ FragmentOver(c, n)
        PROVE  Gone \in 0..Passed
    <2>1. Gone = Rest(c, n) \/ Gone = Rest(c, n - 1)
      BY <1>1, <1>5, StageViews DEF Views, Airborne
    <2>2. n \in 0..c.time /\ n - 1 \in 0..c.time
      BY <1>1, <1>5, CargoFacts
    <2> QED
      BY <1>2, <1>5, <2>1, <2>2
  <1>6. ASSUME NEW c,
               Ready(c) \/ PreambleQueued(c) \/ PreambleDue(c) \/ PreambleStarted(c)
                 \/ PreambleOnAir(c) \/ Training(c)
        PROVE  Cargo(c)
    BY <1>6 DEF Ready, PreambleQueued, PreambleDue, PreambleStarted,
       PreambleOnAir, Training, Above, Below
  <1>7. ASSUME NEW c, NEW n \in Nat,
               FragmentDue(c, n) \/ FragmentOnAir(c, n) \/ FragmentOver(c, n)
        PROVE  Cargo(c) /\ n > 0 /\ n <= c.time
    <2>1. Cargo(c) /\ n > 0 /\ n \in 0..Len(Fragments(c))
      BY <1>7 DEF FragmentDue, FragmentOnAir, FragmentOver, Below
    <2> QED
      BY <1>1, <2>1, FragmentFacts, CargoFacts
  <1>8. Gone \in 0..Passed
    BY <1>3, <1>4, <1>5, <1>6, <1>7 DEF Stages
  <1> QED
    BY <1>1, <1>8

LEMMA GoneIntNext == Collected' /\ Stages' => Gone' \in 0..Passed' /\ Gone' \in Int
  <1> DEFINE F == Collected /\ Stages => Gone \in 0..Passed /\ Gone \in Int
  <1>1. F
    BY GoneInt
  <1>2. F'
    BY <1>1, PTL
  <1> QED
    BY <1>2

LEMMA SendDataInv ==
    ASSUME Inv, NEW to \in Receivers, NEW request \in BOOLEAN, SendData(to, request)
    PROVE  Inv'
  <1> DEFINE f == Frame(offered + 1, to, request)
  <1>1. /\ offered' = offered + 1 /\ agg' = AggregationProcessOutgoing(agg, f)
        /\ agg.next = <<>>
        /\ UNCHANGED <<pg, deagg, ltf, phy, foreign, receiver, broken>>
    BY DEF SendData, HasCapacity
  <1>2. /\ offered \in Nat /\ agg \in Aggregations
        /\ Batch(agg.next, offered) /\ Batch(agg.current, offered - Len(agg.next))
    BY DEF Inv, Collected
  <1>3. Len(agg.next) = 0 /\ offered - Len(agg.next) = offered
    BY <1>1, <1>2
  <1>4. Batch(agg.current, offered)
    BY <1>2, <1>3
  <1>5. f \in Frames /\ f.id = offered + 1 /\ f.to = to
    BY <1>2 DEF Frame, Frames
  <1>6. agg.current \in Seq(Frames) /\ agg.next \in Seq(Frames) /\ Len(agg.current) \in Nat
    BY <1>2, LenProperties DEF Aggregations
  <1> HIDE DEF f
  <1>0. <<f>> \in Seq(Frames) /\ <<>> \in Seq(Frames)
    BY <1>5
  <1>7. /\ agg' \in Aggregations
        /\ Batch(agg'.next, offered + 1)
        /\ Batch(agg'.current, (offered + 1) - Len(agg'.next))
        /\ Len(agg'.current) + Len(agg'.next) = Len(agg.current) + 1
        /\ Len(agg'.current) \in Nat /\ Len(agg'.next) \in Nat
    <2>1. CASE agg.current = <<>>
      <3>1. agg' = StartContainer(agg, f)
        BY <1>1, <2>1 DEF AggregationProcessOutgoing
      <3>2. /\ agg' \in Aggregations /\ agg'.current = <<f>> /\ agg'.next = <<>>
        BY <1>0, <1>1, <1>2, <3>1, ImpatientAssumption DEF StartContainer, Aggregations
      <3>3. Len(agg'.current) = 1 /\ Len(agg'.next) = 0 /\ Len(agg.current) = 0
            /\ (offered + 1) - 0 = offered + 1 /\ offered + 1 \in Nat /\ offered + 1 > 0
        BY <1>2, <2>1, <3>2
      <3>4. Batch(<<f>>, offered + 1) /\ Batch(<<>>, offered + 1)
        BY <1>5, <3>3, BatchOne, BatchEmpty
      <3> QED
        BY <3>2, <3>3, <3>4
    <2>2. CASE agg.current # <<>> /\ f.to = agg.current[1].to
      <3>1. agg' = AppendEntry(agg, f)
        BY <1>1, <2>2 DEF AggregationProcessOutgoing
      <3>2. Append(agg.current, f) \in Seq(Frames)
            /\ Len(Append(agg.current, f)) = Len(agg.current) + 1
        BY <1>5, <1>6, AppendProperties
      <3>3. agg'.current = Append(agg.current, f) /\ agg'.next = <<>> /\ agg' \in Aggregations
        BY <1>1, <1>2, <3>1, <3>2, ImpatientAssumption DEF AppendEntry, Aggregations
      <3>4. Batch(Append(agg.current, f), offered + 1)
        BY <1>2, <1>4, <1>5, <2>2, BatchAppend
      <3>5. Len(agg'.next) = 0 /\ (offered + 1) - 0 = offered + 1 /\ offered + 1 \in Nat
        BY <1>2, <3>3
      <3>6. Batch(<<>>, offered + 1)
        BY <3>5, BatchEmpty
      <3> QED
        BY <1>6, <3>2, <3>3, <3>4, <3>5, <3>6
    <2>3. CASE agg.current # <<>> /\ f.to # agg.current[1].to
      <3>1. agg' = StartNext(agg, f)
        BY <1>1, <2>3 DEF AggregationProcessOutgoing
      <3>2. agg' \in Aggregations /\ agg'.current = agg.current /\ agg'.next = <<f>>
        BY <1>0, <1>2, <3>1 DEF StartNext, Aggregations
      <3>3. Len(agg'.next) = 1 /\ (offered + 1) - 1 = offered /\ offered + 1 \in Nat /\ offered + 1 > 0
        BY <1>2, <3>2
      <3>4. Batch(<<f>>, offered + 1)
        BY <1>5, <3>3, BatchOne
      <3> QED
        BY <1>4, <1>6, <3>2, <3>3, <3>4
    <2> QED
      BY <2>1, <2>2, <2>3
  <1>8. Collected'
    <2>1. offered' = offered + 1 /\ offered' \in Nat
      BY <1>1, <1>2
    <2>2. Batch(agg'.next, offered')
      BY <1>7, <2>1
    <2>3. Batch(agg'.current, offered' - Len(agg'.next))
      BY <1>7, <2>1
    <2> QED
      BY <1>7, <2>1, <2>2, <2>3 DEF Collected
  <1>9. Passed' = Passed
    <2>2. Passed = offered - 0 - Len(agg.current)
      BY <1>3 DEF Passed
    <2>3. Passed' = (offered + 1) - Len(agg'.next) - Len(agg'.current)
      <3>1. Passed' = offered' - Len(agg'.next) - Len(agg'.current)
        BY DEF Passed
      <3> QED
        BY <1>1, <3>1
    <2>4. Len(agg'.current) + Len(agg'.next) = Len(agg.current) + 1
      BY <1>7
    <2>5. /\ offered \in Nat /\ Len(agg.current) \in Nat
          /\ Len(agg'.current) \in Nat /\ Len(agg'.next) \in Nat
      BY <1>2, <1>6, <1>7
    <2>6. (offered + 1) - Len(agg'.next) - Len(agg'.current) = offered - 0 - Len(agg.current)
      <3> DEFINE a == Len(agg'.current)
                 b == Len(agg'.next)
                 k == Len(agg.current)
      <3>1. a \in Nat /\ b \in Nat /\ k \in Nat /\ a + b = k + 1 /\ offered \in Nat
        BY <2>4, <2>5
      <3> HIDE DEF a, b, k
      <3>2. (offered + 1) - b - a = offered - 0 - k
        BY <3>1
      <3> QED
        BY <3>2 DEF a, b, k
    <2> QED
      BY <2>2, <2>3, <2>6
  <1>10. Stages' /\ Gone' = Gone /\ Moved("own")
    BY <1>1, <1>9, StagesKept DEF Inv
  <1> QED
    BY <1>1, <1>8, <1>10, SenderStep

LEMMA AggregationTimeoutInv ==
    ASSUME Inv, AggregationTimeout PROVE Inv'
  <1>1. /\ agg' \in Aggregations /\ agg'.current = agg.current /\ agg'.next = agg.next
        /\ UNCHANGED <<offered, pg, deagg, ltf, phy, foreign, receiver, broken>>
    BY DEF AggregationTimeout, Inv, Collected, Aggregations
  <1>2. Collected' /\ Passed' = Passed
    BY <1>1 DEF Inv, Collected, Passed
  <1>3. Stages' /\ Gone' = Gone /\ Moved("own")
    BY <1>1, <1>2, StagesKept DEF Inv
  <1> QED
    BY <1>1, <1>2, <1>3, SenderStep

-----------------------------------------------------------------------------
(* From Aggregation down to the air *)

LEMMA FinishedIsIdle == ASSUME Stages, deagg.status = "finished" PROVE Idle
  <1>1. ASSUME NEW c, NEW p, NEW q, Above(c, p, q) PROVE FALSE
    BY <1>1 DEF Above
  <1>2. ASSUME NEW c, NEW n, NEW signalStart, Below(c, n, signalStart) PROVE FALSE
    BY <1>2 DEF Below
  <1> QED
    BY <1>1, <1>2 DEF Stages, Ready, PreambleQueued, PreambleDue, PreambleStarted,
       PreambleOnAir, Training, FragmentDue, FragmentOnAir, FragmentOver

\* Nothing is in PreambleGenerator below, or all is.
LEMMA CargoKept ==
    ASSUME Passed' = Passed, NEW c PROVE Cargo(c)' <=> Cargo(c)
  BY DEF Cargo

LEMMA PassedNatNext == Collected' => Passed' \in Nat
  <1> DEFINE F == Collected => Passed \in Nat
  <1>1. F
    BY PassedNat
  <1>2. F'
    BY <1>1, PTL
  <1> QED
    BY <1>2

LEMMA CargoFactsNext == \A c : Passed' \in Nat /\ Cargo(c)' => c \in Compounds
  <1> DEFINE F == \A c : Passed \in Nat /\ Cargo(c) => c \in Compounds
  <1>1. F
    BY CargoFacts
  <1>2. F'
    BY <1>1, PTL
  <1> QED
    BY <1>2

\* The sender takes a container or a single frame.
LEMMA Readied ==
    ASSUME Inv, Idle, Collected', NEW c, Cargo(c)', Rest(c, 0)' = Passed,
           pg' = [preamble |-> Preamble(c), compound |-> c],
           deagg' = [deagg EXCEPT !.status = "waiting"],
           UNCHANGED <<ltf, phy, foreign, receiver, broken>>
    PROVE  Inv'
  <1>1. Passed \in Nat
    BY PassedNat DEF Inv
  <1>2. Passed' \in Nat
    BY PassedNatNext
  <1>3. Ready(c)'
    BY DEF Idle, Ready, Above, NoField, NoTransmission
  <1>4. c \in Compounds
    BY <1>2, CargoFactsNext
  <1>5. Stages'
    BY <1>3, <1>4 DEF Stages
  <1>6. Resting(Passed) /\ Resting(Rest(c, 0))'
    BY <1>1, <1>2, <1>3, StageViews, StageViewsNext DEF Views
  <1>7. Moved("own") /\ Gone' = Gone
    BY <1>6 DEF Resting, Moved, Waits
  <1> QED
    BY <1>1, <1>5, <1>7, SenderStep

LEMMA SendContainerInv == ASSUME Inv, SendContainer PROVE Inv'
  <1>0. PICK s, c : s = agg.current /\ c = Container(s)
    OBVIOUS
  <1>1. /\ s # <<>> /\ deagg.status = "finished"
        /\ agg' = AggregationGetSomethingToSend(agg)
        /\ pg' = [preamble |-> Preamble(c), compound |-> c]
        /\ deagg' = [deagg EXCEPT !.status = "waiting"]
        /\ UNCHANGED <<offered, ltf, phy, foreign, receiver, broken>>
    BY <1>0 DEF SendContainer, PreambleProcessOutgoing, Container
  <1>2. Idle
    BY <1>1, FinishedIsIdle DEF Inv
  <1>3. /\ offered \in Nat /\ agg \in Aggregations
        /\ Batch(agg.next, offered) /\ Batch(s, offered - Len(agg.next))
    BY <1>0 DEF Inv, Collected
  <1>4. s \in Seq(Frames) /\ Len(s) \in Nat /\ Len(agg.next) \in Nat
    BY <1>0, <1>3, LenProperties DEF Aggregations
  <1>5. /\ agg' \in Aggregations /\ agg'.current = agg.next /\ agg'.next = <<>>
    BY <1>1, <1>3, <1>4, EmptySeq DEF AggregationGetSomethingToSend, Aggregations
  <1>6. offered - 0 = offered /\ Len(agg'.next) = 0
    BY <1>3, <1>5
  <1>7. Batch(agg'.next, offered) /\ Batch(agg'.current, offered - Len(agg'.next))
    BY <1>3, <1>5, <1>6, BatchEmpty
  <1>8. Collected'
    BY <1>1, <1>3, <1>5, <1>7 DEF Collected
  <1>9. Passed' = offered - Len(agg.next) /\ Passed = offered - Len(agg.next) - Len(s)
    BY <1>0, <1>1, <1>5, <1>6 DEF Passed
  <1>10. Cargo(c)'
    BY <1>0, <1>1, <1>3, <1>4, <1>9 DEF Cargo
  <1>11. Rest(c, 0)' = Passed
    <2>1. c.single = FALSE /\ c.time = Len(s)
      BY <1>0 DEF Container, Compound
    <2>2. Rest(c, 0)' = Passed' - Len(s) + 0
      BY <2>1 DEF Rest
    <2>3. \A o, n, k \in Nat : o - n - k + 0 = o - n - k
      OBVIOUS
    <2> QED
      BY <1>3, <1>4, <1>9, <2>2, <2>3
  <1> QED
    BY <1>1, <1>2, <1>8, <1>10, <1>11, Readied

LEMMA SendSingleInv == ASSUME Inv, SendSingle PROVE Inv'
  <1> DEFINE c == SingleFrame
  <1>1. /\ deagg.status = "finished"
        /\ pg' = [preamble |-> Preamble(c), compound |-> c]
        /\ deagg' = [deagg EXCEPT !.status = "waiting"]
        /\ UNCHANGED <<offered, agg, ltf, phy, foreign, receiver, broken>>
    BY DEF SendSingle, PreambleProcessOutgoing, SingleFrame
  <1>2. Idle
    BY <1>1, FinishedIsIdle DEF Inv
  <1>3. Collected' /\ Passed' = Passed
    BY <1>1 DEF Inv, Collected, Passed
  <1>4. Cargo(c)'
    BY DEF Cargo
  <1>5. Rest(c, 0)' = Passed
    BY <1>3 DEF Rest, SingleFrame, Compound
  <1> HIDE DEF c
  <1> QED
    BY <1>1, <1>2, <1>3, <1>4, <1>5, Readied

LEMMA PreambleDownInv == ASSUME Inv, PreambleDown PROVE Inv'
  <1>1. /\ deagg.compound = None /\ pg.compound # None
        /\ deagg.queue = <<>> \/ ~LTFHasCapacity
        /\ ltf.compound = None \/ phy.compound # None
        /\ UNCHANGED <<offered, agg, ltf, phy, foreign, receiver>>
    BY DEF PreambleDown, DeAggregationSettled, LTFSettled
  <1>2. Collected /\ Collected' /\ Passed' = Passed /\ Passed \in Nat /\ broken = FALSE
        /\ Stages
    BY <1>1, PassedNat DEF Inv, Collected, Passed
  <1>3. ASSUME NEW c \in Compounds, Ready(c) PROVE Inv'
    <2>1. pg.preamble = Preamble(c) /\ Cargo(c) /\ pg.compound = c
          /\ deagg.queue = <<>>
      BY <1>3 DEF Ready, Above
    <2>2. Preamble(c) # None /\ Preamble(c).kind = "preamble"
      BY <1>2, <2>1, PreambleFacts, CompoundsAreSome
    <2>3. /\ deagg' = [deagg EXCEPT !.queue = <<Preamble(c)>>]
          /\ pg' = [pg EXCEPT !.preamble = None]
          /\ broken' = FALSE
      BY <1>1, <1>2, <2>1, <2>2 DEF PreambleDown, DeAggregationProcessOutgoing
    <2>4. Cargo(c)'
      BY <1>2, <2>1, CargoKept
    <2>5. PreambleQueued(c)'
      <3>1. /\ deagg' = [queue |-> <<Preamble(c)>>, compound |-> None, signalStart |-> FALSE,
                         status |-> "waiting"]
            /\ pg' = [preamble |-> None, compound |-> c]
        BY <1>3, <2>3 DEF Ready, Above
      <3>2. ltf' = NoField /\ phy' = NoTransmission
        BY <1>1, <1>3 DEF Ready
      <3> QED
        BY <2>4, <3>1, <3>2 DEF PreambleQueued, Above, NoField, NoTransmission
    <2>6. Stages'
      BY <2>5 DEF Stages
    <2>7. Resting(Rest(c, 0)) /\ Resting(Rest(c, 0))'
      BY <1>2, <1>3, <2>5, StageViews, StageViewsNext DEF Views
    <2>8. Moved("own") /\ Gone' = Gone
      BY <1>2, <2>7 DEF Resting, Moved, Waits, Rest
    <2>9. broken' = broken
      BY <1>2, <2>3
    <2> QED
      BY <1>1, <1>2, <2>6, <2>8, <2>9, SenderStep
  <1>4. ASSUME NEW c \in Compounds, PreambleStarted(c) PROVE Inv'
    <2>1. pg.preamble = None /\ Cargo(c) /\ pg.compound = c /\ deagg.queue = <<>>
          /\ phy = [compound |-> Announcement(c), left |-> 1]
      BY <1>4 DEF PreambleStarted, Above
    <2>2. c.kind = "frame" /\ Announcement(c) # None
      BY <1>2, <2>1, CargoFacts, PreambleFacts, CompoundsAreSome
    <2>3. /\ deagg' = [deagg EXCEPT !.queue = Fragments(c), !.compound = c,
                                    !.signalStart = TRUE]
          /\ pg' = [pg EXCEPT !.compound = None]
          /\ broken' = FALSE
      BY <1>1, <1>2, <2>1, <2>2 DEF PreambleDown, DeAggregationProcessOutgoing
    <2>4. Cargo(c)'
      BY <1>2, <2>1, CargoKept
    <2>5. /\ SubSeq(Fragments(c), 0 + 1, Len(Fragments(c))) = Fragments(c)
          /\ 0 \in 0..Len(Fragments(c))
      <3>1. Fragments(c) \in Seq(Compounds)
        BY <1>2, <2>1, FragmentFacts
      <3>2. SubSeq(Fragments(c), 1, Len(Fragments(c))) = Fragments(c)
        BY <3>1, SubSeqFull
      <3>3. Len(Fragments(c)) \in Nat
        BY <3>1, LenProperties
      <3> QED
        BY <3>2, <3>3
    <2>6. /\ deagg' = [queue |-> Fragments(c), compound |-> c, signalStart |-> TRUE,
                       status |-> "waiting"]
          /\ pg' = [preamble |-> None, compound |-> None]
      BY <1>4, <2>3 DEF PreambleStarted, Above
    <2>7. Below(c, 0, TRUE)'
      BY <2>4, <2>5, <2>6 DEF Below
    <2>8. PreambleOnAir(c)'
      <3>1. Fields' /\ FieldsLeft' = TrainingFields
        BY <1>1, <1>4 DEF PreambleStarted, Fields, FieldsLeft
      <3>2. phy' \in [compound : {Announcement(c)}, left : 0..1]
        BY <1>1, <2>1
      <3> QED
        BY <2>7, <3>1, <3>2 DEF PreambleOnAir
    <2>9. Stages'
      BY <2>8 DEF Stages
    <2>10. Resting(Rest(c, 0)) /\ ~Flying("own")' /\ (Due("own")' <=> phy'.left = 0)
           /\ Gone' = Rest(c, 0)'
      BY <1>2, <1>4, <2>8, StageViews, StageViewsNext DEF Views
    <2>11. Moved("own") /\ Gone' = Gone
      BY <1>1, <1>2, <2>1, <2>10 DEF Resting, Moved, Waits, Rest
    <2>12. broken' = broken
      BY <1>2, <2>3
    <2> QED
      BY <1>1, <1>2, <2>9, <2>11, <2>12, SenderStep
  <1>5. ASSUME NEW c, PreambleQueued(c) PROVE FALSE
    BY <1>1, <1>5 DEF PreambleQueued, Above, NoField, NoTransmission, LTFHasCapacity
  <1>6. ASSUME NEW c \in Compounds, PreambleDue(c) PROVE FALSE
    <2>1. Announcement(c) # None
      BY <1>2, <1>6, PreambleFacts, CompoundsAreSome DEF PreambleDue, Above
    <2> QED
      BY <1>1, <1>6, <2>1 DEF PreambleDue, NoTransmission
  <1>7. ASSUME NEW c, NEW n, NEW signalStart, Below(c, n, signalStart) PROVE FALSE
    BY <1>1, <1>7 DEF Below
  <1>8. ~Idle
    BY <1>1 DEF Idle
  <1>9. \E c \in Compounds : Ready(c) \/ PreambleStarted(c)
    BY <1>2, <1>5, <1>6, <1>7, <1>8 DEF Stages, PreambleOnAir, Training, FragmentDue,
       FragmentOnAir, FragmentOver
  <1> QED
    BY <1>3, <1>4, <1>9

LEMMA BelowFacts ==
    ASSUME Passed \in Nat, NEW c, NEW n, NEW signalStart, Below(c, n, signalStart)
    PROVE  /\ Cargo(c) /\ c # None /\ c.time \in Nat /\ c.time > 0
           /\ Len(Fragments(c)) = c.time /\ n \in 0..c.time
           /\ deagg.compound = c /\ pg = [preamble |-> None, compound |-> None]
           /\ deagg = [queue |-> deagg.queue, compound |-> c, signalStart |-> signalStart,
                       status |-> IF signalStart THEN "waiting" ELSE "transmitting"]
           /\ deagg.queue = <<>> <=> n = c.time
           /\ n < c.time => /\ Head(deagg.queue) = Fragments(c)[n + 1]
                            /\ Tail(deagg.queue)
                                 = SubSeq(Fragments(c), n + 2, Len(Fragments(c)))
  <1>1. Cargo(c) /\ n \in 0..Len(Fragments(c))
    BY DEF Below
  <1>2. c \in Compounds /\ c # None /\ c.time \in Nat /\ c.time > 0
    BY <1>1, CargoFacts, CompoundsAreSome
  <1>3. Len(Fragments(c)) = c.time
    BY <1>1, FragmentFacts
  <1>4. n \in 0..c.time
    BY <1>1, <1>3
  <1>5. deagg.queue = SubSeq(Fragments(c), n + 1, Len(Fragments(c)))
    BY DEF Below
  <1>6. n < c.time \/ n = c.time
    BY <1>2, <1>4
  <1>7. /\ n = c.time => deagg.queue = <<>>
        /\ n < c.time => /\ deagg.queue # <<>> /\ Head(deagg.queue) = Fragments(c)[n + 1]
                         /\ Tail(deagg.queue)
                              = SubSeq(Fragments(c), n + 2, Len(Fragments(c)))
    BY <1>1, <1>4, <1>5, QueueFacts
  <1>8. ~(n < c.time /\ n = c.time)
    BY <1>2
  <1> QED
    BY <1>1, <1>2, <1>3, <1>4, <1>6, <1>7, <1>8 DEF Below

\* The next fragment moves down.
LEMMA FragmentDown ==
    ASSUME Passed \in Nat, Passed' = Passed, NEW c \in Compounds, NEW n \in Nat,
           n < c.time, NEW signalStart, Below(c, n, signalStart), signalStart <=> n = 0,
           signalStart \in BOOLEAN,
           ltf = NoField, phy = NoTransmission, DeAggregationDown
    PROVE  FragmentDue(c, n + 1)'
  <1> DEFINE f == Fragments(c)[n + 1]
  <1>1. /\ Cargo(c) /\ c.time \in Nat /\ Len(Fragments(c)) = c.time
        /\ Head(deagg.queue) = f
        /\ Tail(deagg.queue) = SubSeq(Fragments(c), n + 2, Len(Fragments(c)))
    BY BelowFacts
  <1>2. n + 1 \in 1..c.time
    BY <1>1
  <1>3. f.kind = "frame"
    BY <1>1, <1>2, FragmentFacts
  <1>4. /\ ltf' = [compound |-> f, left |-> 0]
        /\ deagg' = [deagg EXCEPT !.queue = Tail(deagg.queue)]
        /\ UNCHANGED <<pg, phy>>
    BY <1>1, <1>3 DEF DeAggregationDown, LTFProcessOutgoing, NoField
  <1>5. (n + 1) + 1 = n + 2 /\ n + 1 > 0 /\ (n + 1 = 1 <=> n = 0) /\ n + 1 \in 0..Len(Fragments(c))
    BY <1>1, <1>2
  <1>6. deagg' = [queue |-> SubSeq(Fragments(c), (n + 1) + 1, Len(Fragments(c))),
                  compound |-> c, signalStart |-> n + 1 = 1,
                  status |-> IF n + 1 = 1 THEN "waiting" ELSE "transmitting"]
    <2>1. signalStart = (n + 1 = 1)
      BY <1>5
    <2>4. PICK q, status :
            /\ deagg = [queue |-> q, compound |-> c, signalStart |-> signalStart,
                        status |-> status]
            /\ status = IF signalStart THEN "waiting" ELSE "transmitting"
      BY DEF Below
    <2>5. deagg' = [queue |-> Tail(deagg.queue), compound |-> c, signalStart |-> signalStart,
                    status |-> status]
      BY <1>4, <2>4
    <2>2. deagg' = [queue |-> Tail(deagg.queue), compound |-> c, signalStart |-> signalStart,
                    status |-> IF signalStart THEN "waiting" ELSE "transmitting"]
      BY <2>4, <2>5
    <2>3. Tail(deagg.queue) = SubSeq(Fragments(c), (n + 1) + 1, Len(Fragments(c)))
      BY <1>1, <1>5
    <2> QED
      BY <2>1, <2>2, <2>3
  <1>7. Cargo(c)'
    BY <1>1, CargoKept
  <1>8. pg' = [preamble |-> None, compound |-> None]
    BY <1>4, BelowFacts
  <1>9. Below(c, n + 1, n + 1 = 1)'
    BY <1>5, <1>6, <1>7, <1>8 DEF Below
  <1> QED
    BY <1>4, <1>5, <1>9 DEF FragmentDue

LEMMA DeAggregationDownInv == ASSUME Inv, DeAggregationDown PROVE Inv'
  <1>1. /\ ltf.compound = None /\ phy.compound = None /\ deagg.queue # <<>>
        /\ LTFProcessOutgoing(Head(deagg.queue))
        /\ deagg' = [deagg EXCEPT !.queue = Tail(deagg.queue)]
        /\ UNCHANGED <<offered, agg, pg, phy, foreign, receiver, broken>>
    BY DEF DeAggregationDown, LTFHasCapacity
  <1>2. Collected' /\ Passed' = Passed /\ Passed \in Nat /\ Stages
    BY <1>1, PassedNat DEF Inv, Collected, Passed
  <1>3. ASSUME NEW c \in Compounds, PreambleQueued(c) PROVE Inv'
    <2>1. Cargo(c) /\ deagg.queue = <<Preamble(c)>> /\ phy = NoTransmission /\ ltf = NoField
      BY <1>3 DEF PreambleQueued, Above
    <2>2. Preamble(c).kind = "preamble"
      BY <1>2, <2>1, PreambleFacts
    <2>3. Head(deagg.queue) = Preamble(c) /\ Tail(deagg.queue) = <<>>
      BY <2>1
    <2>4. ltf' = [compound |-> Announcement(c), left |-> TrainingFields]
      BY <1>1, <2>2, <2>3 DEF LTFProcessOutgoing, Announcement
    <2>5. deagg' = [queue |-> <<>>, compound |-> None, signalStart |-> FALSE,
                    status |-> "waiting"]
      BY <1>1, <1>3, <2>3 DEF PreambleQueued, Above
    <2>6. Cargo(c)'
      BY <1>2, <2>1, CargoKept
    <2>7. pg' = [preamble |-> None, compound |-> c] /\ phy' = NoTransmission
      BY <1>1, <1>3 DEF PreambleQueued, Above
    <2>8. PreambleDue(c)'
      BY <2>4, <2>5, <2>6, <2>7 DEF PreambleDue, Above, NoTransmission
    <2>9. Stages'
      BY <2>8 DEF Stages
    <2>10. Resting(Rest(c, 0)) /\ Resting(Rest(c, 0))'
      BY <1>2, <1>3, <2>8, StageViews, StageViewsNext DEF Views
    <2>11. Moved("own") /\ Gone' = Gone
      BY <1>2, <2>10 DEF Resting, Moved, Waits, Rest
    <2> QED
      BY <1>1, <1>2, <2>9, <2>11, SenderStep
  <1>4. ASSUME NEW c \in Compounds, Training(c) PROVE Inv'
    <2>1. Below(c, 0, TRUE) /\ Fields /\ (phy = NoTransmission \/ FieldOnAir)
      BY <1>4 DEF Training
    <2>2. phy = NoTransmission
      <3>1. FieldOnAir => phy.compound # None
        BY CompoundsAreSome DEF FieldOnAir
      <3> QED
        BY <1>1, <2>1, <3>1
    <2>3. ltf = NoField
      BY <1>1, <2>1 DEF Fields, NoField
    <2>4. 0 < c.time /\ c.time \in Nat
      BY <1>2, <2>1, BelowFacts
    <2>5. FragmentDue(c, 0 + 1)'
      BY <1>2, <2>1, <2>2, <2>3, <2>4, FragmentDown
    <2>6. FragmentDue(c, 1)'
      BY <2>5
    <2>7. Stages'
      BY <2>6 DEF Stages
    <2>8. /\ Airborne(c, phy.left + FieldsLeft + c.time, Rest(c, 0))
          /\ Airborne(c, 1 + c.time - 1, Rest(c, 1 - 1))'
      BY <1>2, <1>4, <2>6, StageViews, StageViewsNext DEF Views
    <2>9. phy.left + FieldsLeft + c.time = 1 + c.time - 1
      BY <2>2, <2>3, <2>4 DEF NoTransmission, NoField, FieldsLeft
    <2>10. Rest(c, 1 - 1)' = Rest(c, 0)
      BY <1>2 DEF Rest
    <2>11. Moved("own") /\ Gone' = Gone
      BY <2>8, <2>9, <2>10 DEF Airborne, Moved, GoesOn
    <2> QED
      BY <1>1, <1>2, <2>7, <2>11, SenderStep
  <1>5. ASSUME NEW c \in Compounds, NEW n \in Nat, FragmentOver(c, n) PROVE Inv'
    <2>1. /\ Below(c, n, FALSE) /\ n > 0 /\ n < Len(Fragments(c))
          /\ ltf = NoField /\ phy = NoTransmission
      BY <1>5 DEF FragmentOver
    <2>2. n < c.time /\ c.time \in Nat
      BY <1>2, <2>1, BelowFacts
    <2>3. FragmentDue(c, n + 1)'
      <3>1. (FALSE <=> n = 0) /\ FALSE \in BOOLEAN
        BY <2>1
      <3> QED
        BY <1>2, <2>1, <2>2, <3>1, FragmentDown
    <2>4. Stages'
      BY <2>3 DEF Stages
    <2>5. Airborne(c, c.time - n, Rest(c, n))
          /\ Airborne(c, 1 + c.time - (n + 1), Rest(c, (n + 1) - 1))'
      BY <1>2, <1>5, <2>3, StageViews, StageViewsNext DEF Views
    <2>6. 1 + c.time - (n + 1) = c.time - n /\ (n + 1) - 1 = n
      BY <2>2
    <2>7. Rest(c, (n + 1) - 1)' = Rest(c, n)
      BY <1>2, <2>6 DEF Rest
    <2>8. Moved("own") /\ Gone' = Gone
      BY <2>5, <2>6, <2>7 DEF Airborne, Moved, GoesOn
    <2> QED
      BY <1>1, <1>2, <2>4, <2>8, SenderStep
  <1>6. ASSUME NEW c, NEW p, Above(c, p, <<>>) PROVE FALSE
    BY <1>1, <1>6 DEF Above
  <1>7. ASSUME NEW c, NEW n, Below(c, n, TRUE) \/ Below(c, n, FALSE) PROVE Cargo(c)
    BY <1>7 DEF Below
  <1>8. ASSUME NEW c, PreambleOnAir(c) PROVE FALSE
    <2>1. Cargo(c) /\ phy.compound = Announcement(c)
      BY <1>7, <1>8 DEF PreambleOnAir
    <2> QED
      BY <1>1, <1>2, <2>1, PreambleFacts, CompoundsAreSome
  <1>9. ASSUME NEW c, NEW n, FragmentDue(c, n) \/ FragmentOnAir(c, n) PROVE FALSE
    <2>1. /\ Cargo(c) /\ n \in 0..Len(Fragments(c)) /\ n > 0
          /\ ltf.compound = Fragments(c)[n] \/ phy.compound = Fragments(c)[n]
      BY <1>9 DEF FragmentDue, FragmentOnAir, Below
    <2>2. Fragments(c)[n] \in Compounds
      BY <1>2, <2>1, FragmentFacts
    <2> QED
      BY <1>1, <2>1, <2>2, CompoundsAreSome
  <1>10. ~Idle
    BY <1>1 DEF Idle
  <1> QED
    BY <1>2, <1>3, <1>4, <1>5, <1>6, <1>8, <1>9, <1>10
       DEF Stages, Ready, PreambleDue, PreambleStarted


LEMMA FieldFacts ==
    ASSUME NEW c \in Compounds
    PROVE  /\ NextTrainingField(c) \in Compounds
           /\ NextTrainingField(c).kind = "ltf" /\ NextTrainingField(c).time = 1
  <1>1. PICK k \in {"preamble", "ltf", "frame"}, t \in Nat, p \in Int, s \in BOOLEAN,
             f \in BOOLEAN, e \in Seq(Frames), r \in Int :
          c = [kind |-> k, time |-> t, span |-> p, single |-> s, final |-> f,
               entries |-> e, train |-> r]
    BY DEF Compounds
  <1>2. NextTrainingField(c) =
          [kind |-> "ltf", time |-> 1, span |-> p - 1, single |-> s, final |-> f,
           entries |-> e, train |-> r]
    <2>1. PICK c1 : c1 = [c EXCEPT !.kind = "ltf"]
      OBVIOUS
    <2>2. PICK c2 : c2 = [c1 EXCEPT !.time = 1]
      OBVIOUS
    <2>3. c1 = [kind |-> "ltf", time |-> t, span |-> p, single |-> s, final |-> f,
                entries |-> e, train |-> r]
      BY <1>1, <2>1
    <2>4. c2 = [kind |-> "ltf", time |-> 1, span |-> p, single |-> s, final |-> f,
                entries |-> e, train |-> r]
      BY <2>2, <2>3
    <2>5. c.span = p
      BY <1>1
    <2>6. [c2 EXCEPT !.span = c.span - 1]
            = [kind |-> "ltf", time |-> 1, span |-> p - 1, single |-> s, final |-> f,
               entries |-> e, train |-> r]
      BY <2>4, <2>5
    <2> QED
      BY <2>1, <2>2, <2>6 DEF NextTrainingField
  <1> QED
    BY <1>2 DEF Compounds

\* The field generator passes on a compound; what follows are fields.
LEMMA FieldsFollow ==
    ASSUME NEW n \in Nat, NEW c \in Compounds, ltf = [compound |-> c, left |-> n],
           LTFGetSomethingToSend
    PROVE  Fields' /\ FieldsLeft' = n
  <1>1. CASE n = 0
    <2>1. ltf' = [compound |-> None, left |-> 0]
      BY <1>1 DEF LTFGetSomethingToSend
    <2> QED
      BY <1>1, <2>1 DEF Fields, FieldsLeft
  <1>2. CASE n # 0
    <2>1. ltf' = [compound |-> NextTrainingField(c), left |-> n - 1]
      BY <1>2 DEF LTFGetSomethingToSend
    <2>2. NextTrainingField(c) # None /\ NextTrainingField(c) \in Compounds
      BY FieldFacts, CompoundsAreSome
    <2>3. n - 1 \in Nat /\ n - 1 + 1 = n
      BY <1>2
    <2> HIDE DEF LTFGetSomethingToSend
    <2> QED
      BY <2>1, <2>2, <2>3, FieldFacts DEF Fields, FieldsLeft
  <1> QED
    BY <1>1, <1>2

LEMMA PhyDoSendDataInv == ASSUME Inv, PhyDoSendData PROVE Inv'
  <1>1. /\ phy.compound = None /\ ltf.compound # None
        /\ phy' = [compound |-> ltf.compound, left |-> ltf.compound.time]
        /\ LTFGetSomethingToSend
        /\ ltf.compound.kind = "frame" => DeAggregationOnTxStart
        /\ ltf.compound.kind # "frame" => UNCHANGED <<deagg, broken>>
        /\ UNCHANGED <<offered, agg, pg, foreign, receiver>>
    BY DEF PhyDoSendData
  <1>2. Collected' /\ Passed' = Passed /\ Passed \in Nat /\ Stages /\ broken = FALSE
    BY <1>1, PassedNat DEF Inv, Collected, Passed
  <1>3. ASSUME NEW c \in Compounds, PreambleDue(c) PROVE Inv'
    <2>1. Cargo(c) /\ Above(c, None, <<>>) /\ ltf = [compound |-> Announcement(c), left |-> TrainingFields]
      BY <1>3 DEF PreambleDue, Above
    <2>2. Announcement(c) \in Compounds /\ Announcement(c).kind = "preamble" /\ Announcement(c).time = 1
      BY <1>2, <2>1, PreambleFacts
    <2>3. Fields' /\ FieldsLeft' = TrainingFields
      BY <1>1, <2>1, <2>2, FieldsFollow
    <2>4. phy' = [compound |-> Announcement(c), left |-> 1]
          /\ UNCHANGED <<deagg, broken>>
      BY <1>1, <2>1, <2>2
    <2>5. Cargo(c)'
      BY <1>2, <2>1, CargoKept
    <2>6. Above(c, None, <<>>)'
      BY <1>1, <2>1, <2>4, <2>5 DEF Above
    <2>7. PreambleStarted(c)'
      BY <2>3, <2>4, <2>6 DEF PreambleStarted
    <2>8. Stages'
      BY <2>7 DEF Stages
    <2>9. Resting(Rest(c, 0)) /\ Resting(Rest(c, 0))'
      BY <1>2, <1>3, <2>7, StageViews, StageViewsNext DEF Views
    <2>10. Moved("own") /\ Gone' = Gone
      BY <1>2, <2>9 DEF Resting, Moved, Waits, Rest
    <2>11. broken' = broken
      BY <2>4
    <2> QED
      BY <1>1, <1>2, <2>8, <2>10, <2>11, SenderStep
  <1>4. ASSUME NEW c \in Compounds, Training(c) PROVE Inv'
    <2>1. /\ Below(c, 0, TRUE) /\ Fields
          /\ ltf.compound \in Compounds /\ ltf.compound.kind = "ltf" /\ ltf.compound.time = 1
          /\ ltf.left \in Nat
      BY <1>1, <1>4 DEF Training, Fields
    <2>2. phy = NoTransmission
      <3>1. FieldOnAir => phy.compound # None
        BY CompoundsAreSome DEF FieldOnAir
      <3> QED
        BY <1>1, <1>4, <3>1 DEF Training
    <2>3. Fields' /\ FieldsLeft' = ltf.left
      <3>1. PICK f, n : f = ltf.compound /\ n = ltf.left
        OBVIOUS
      <3>2. ltf = [compound |-> f, left |-> n]
        BY <2>1, <3>1 DEF Fields
      <3>3. f \in Compounds /\ n \in Nat
        BY <2>1, <3>1
      <3> QED
        BY <1>1, <3>1, <3>2, <3>3, FieldsFollow
    <2>4. phy' = [compound |-> ltf.compound, left |-> 1] /\ UNCHANGED <<deagg, broken>>
      BY <1>1, <2>1
    <2>5. FieldOnAir'
      BY <2>1, <2>4 DEF FieldOnAir
    <2>6. Cargo(c)'
      <3>1. Cargo(c)
        BY <2>1 DEF Below
      <3> QED
        BY <1>2, <3>1, CargoKept
    <2>7. Below(c, 0, TRUE)'
      BY <1>1, <2>1, <2>4, <2>6 DEF Below
    <2>8. Training(c)'
      BY <2>3, <2>5, <2>7 DEF Training
    <2>9. Stages'
      BY <2>8 DEF Stages
    <2>10. /\ Airborne(c, phy.left + FieldsLeft + c.time, Rest(c, 0))
           /\ Airborne(c, phy.left + FieldsLeft + c.time, Rest(c, 0))'
      BY <1>2, <1>4, <2>8, StageViews, StageViewsNext DEF Views
    <2>11. phy'.left + FieldsLeft' + c.time = phy.left + FieldsLeft + c.time
      <3>1. FieldsLeft = ltf.left + 1 /\ phy.left = 0 /\ phy'.left = 1
        BY <1>1, <2>2, <2>4 DEF FieldsLeft, NoTransmission
      <3> QED
        BY <2>1, <2>3, <3>1
    <2>12. Moved("own") /\ Gone' = Gone
      BY <1>2, <2>10, <2>11 DEF Airborne, Moved, GoesOn, Rest
    <2>13. broken' = broken
      BY <2>4
    <2> QED
      BY <1>1, <1>2, <2>9, <2>12, <2>13, SenderStep
  <1>5. ASSUME NEW c \in Compounds, NEW n \in Nat, FragmentDue(c, n) PROVE Inv'
    <2> DEFINE f == Fragments(c)[n]
    <2>1. Below(c, n, n = 1) /\ n > 0 /\ ltf = [compound |-> f, left |-> 0]
      BY <1>5 DEF FragmentDue
    <2>2. Cargo(c) /\ n \in 0..c.time /\ Len(Fragments(c)) = c.time
      BY <1>2, <2>1, BelowFacts
    <2>3. f.kind = "frame" /\ f.time = 1
      BY <1>2, <2>1, <2>2, FragmentFacts
    <2>4. /\ ltf' = NoField /\ phy' = [compound |-> f, left |-> 1]
          /\ DeAggregationOnTxStart
      BY <1>1, <2>1, <2>3 DEF LTFGetSomethingToSend, NoField
    <2>5. PICK q, status :
            /\ deagg = [queue |-> q, compound |-> c, signalStart |-> n = 1,
                        status |-> status]
            /\ status = IF n = 1 THEN "waiting" ELSE "transmitting"
            /\ q = SubSeq(Fragments(c), n + 1, Len(Fragments(c)))
      BY <2>1 DEF Below
    <2>6. /\ deagg' = [queue |-> q, compound |-> c, signalStart |-> FALSE,
                       status |-> "transmitting"]
          /\ broken' = FALSE
      BY <1>2, <2>4, <2>5 DEF DeAggregationOnTxStart
    <2>7. Cargo(c)'
      BY <1>2, <2>2, CargoKept
    <2>8. Below(c, n, FALSE)'
      <3>1. n \in 0..Len(Fragments(c)) /\ pg' = [preamble |-> None, compound |-> None]
        BY <1>1, <2>1 DEF Below
      <3> QED
        BY <2>5, <2>6, <2>7, <3>1 DEF Below
    <2>9. phy' \in [compound : {f}, left : 0..1]
      BY <2>4
    <2>10. FragmentOnAir(c, n)'
      BY <2>1, <2>4, <2>8, <2>9 DEF FragmentOnAir, NoField
    <2>11. Stages'
      BY <2>10 DEF Stages
    <2>12. /\ Airborne(c, 1 + c.time - n, Rest(c, n - 1))
           /\ Airborne(c, phy.left + c.time - n, Rest(c, n - 1))'
      BY <1>2, <1>5, <2>10, StageViews, StageViewsNext DEF Views
    <2>13. phy'.left = 1
      BY <2>4
    <2>14. Moved("own") /\ Gone' = Gone
      BY <1>2, <2>12, <2>13 DEF Airborne, Moved, GoesOn, Rest
    <2>15. broken' = broken
      BY <1>2, <2>6
    <2> QED
      BY <1>1, <1>2, <2>11, <2>14, <2>15, SenderStep
  <1>6. ASSUME NEW c, PreambleOnAir(c) PROVE FALSE
    <2>1. Cargo(c) /\ phy.compound = Announcement(c)
      BY <1>6 DEF PreambleOnAir, Below
    <2> QED
      BY <1>1, <1>2, <2>1, PreambleFacts, CompoundsAreSome
  <1>7. ASSUME NEW c, PreambleStarted(c) PROVE FALSE
    <2>1. Cargo(c) /\ phy.compound = Announcement(c)
      BY <1>7 DEF PreambleStarted, Above
    <2> QED
      BY <1>1, <1>2, <2>1, PreambleFacts, CompoundsAreSome
  <1>8. ASSUME NEW c, NEW n, ltf = NoField PROVE FALSE
    BY <1>1, <1>8 DEF NoField
  <1> QED
    BY <1>2, <1>3, <1>4, <1>5, <1>6, <1>7, <1>8
       DEF Stages, Idle, Ready, PreambleQueued, FragmentOnAir, FragmentOver

-----------------------------------------------------------------------------
(* The receiver *)

\* A preamble comes in, and the rest of its train follows.
Announces(who, c) ==
  /\ Begins(who) /\ Flying(who)'
  /\ Left(who)' = c.span /\ Single(who)' = c.single
  /\ ~c.single => /\ Train(who)' = c.train /\ c.train \in Int \ {0}
                  /\ Origin(c.train) = who
  /\ Gone' = Gone

\* A single frame or a fragment comes in; the last one ends its train.
Brings(who, c) ==
  /\ Flying(who) /\ Single(who) = c.single
  /\ c.single => c.entries = <<>>
  /\ ~c.single =>
       /\ Train(who) = c.train /\ c.train \in Int
       /\ c.entries \in Seq(Frames)
       /\ IF c.final THEN Lands(who) ELSE GoesOn(who)
       /\ \/ /\ c.train < 0
             /\ \A k \in 1..Len(c.entries) : c.entries[k].id < 0
          \/ /\ c.train > 0
             /\ Len(c.entries) = 1 /\ c.entries[1].id = Gone + 1 /\ Gone' = Gone + 1

LEMMA FrameIds == \A s \in Seq(Frames) : \A i \in 1..Len(s) : s[i].id \in Int
  <1>1. \A f \in Frames : f.id \in Int
    BY DEF Frames
  <1> QED
    BY <1>1, ElementOfSeq

LEMMA KeptGrows ==
    ASSUME Kept, Gone \in Int, Gone' \in Int, Gone <= Gone',
           UNCHANGED <<heard, delivered, rx>>
    PROVE  Kept'
  <1>1. ASSUME NEW i \in 1..Len(heard) PROVE heard[i].id <= Gone'
    <2>1. heard[i].id \in Int /\ heard[i].id <= Gone
      BY FrameIds DEF Kept
    <2> QED
      BY <2>1
  <1> QED
    BY <1>1 DEF Kept

\* What is heard stays in order when frames of the foreign station, or the
\* next of the own ones, are added.
LEMMA HeardGrows ==
    ASSUME NEW h \in Seq(Frames), NEW e \in Seq(Frames), NEW g \in Nat, NEW m \in Int,
           g <= m,
           Increasing(h), \A i \in 1..Len(h) : h[i].id <= g,
           \/ \A k \in 1..Len(e) : e[k].id < 0
           \/ Len(e) = 1 /\ e[1].id = g + 1 /\ m = g + 1
    PROVE  /\ h \o e \in Seq(Frames) /\ Increasing(h \o e)
           /\ \A i \in 1..Len(h \o e) : (h \o e)[i].id <= m
  <1> DEFINE t == h \o e
  <1>1. /\ t \in Seq(Frames) /\ Len(t) = Len(h) + Len(e)
        /\ \A i \in 1..Len(t) : t[i] = IF i <= Len(h) THEN h[i] ELSE e[i - Len(h)]
    BY ConcatProperties
  <1>2. Len(h) \in Nat /\ Len(e) \in Nat /\ DOMAIN t = 1..Len(t) /\ DOMAIN h = 1..Len(h)
    BY <1>1, LenProperties
  <1>3. \A i \in 1..Len(h) : h[i].id \in Int /\ h[i].id <= g
    BY FrameIds
  <1>4. \A k \in 1..Len(e) : e[k].id \in Int /\ (e[k].id < 0 \/ (e[k].id = g + 1 /\ m = g + 1 /\ k = Len(e)))
    <2>1. \A k \in 1..Len(e) : e[k].id \in Int
      BY FrameIds
    <2>2. CASE \A k \in 1..Len(e) : e[k].id < 0
      BY <2>1, <2>2
    <2>3. CASE Len(e) = 1 /\ e[1].id = g + 1 /\ m = g + 1
      <3>1. ASSUME NEW k \in 1..Len(e) PROVE k = 1 /\ k = Len(e)
        BY <2>3
      <3> QED
        BY <2>1, <2>3, <3>1
    <2> QED
      BY <2>2, <2>3
  <1> HIDE DEF t
  <1>5. \A i \in 1..Len(t) : \/ i \in 1..Len(h) /\ t[i] = h[i]
                             \/ i > Len(h) /\ i - Len(h) \in 1..Len(e) /\ t[i] = e[i - Len(h)]
    BY <1>1, <1>2
  <1>6. \A i \in 1..Len(t) : t[i].id \in Int /\ t[i].id <= m
    BY <1>3, <1>4, <1>5, SMTT(30)
  <1>7. ASSUME NEW i \in 1..Len(t), NEW j \in 1..Len(t), i < j, t[i].id > 0, t[j].id > 0
        PROVE  t[i].id < t[j].id
    <2>1. CASE j \in 1..Len(h) /\ t[j] = h[j]
      <3>1. i \in 1..Len(h) /\ t[i] = h[i]
        BY <1>2, <1>5, <1>7, <2>1
      <3> QED
        BY <1>2, <1>7, <2>1, <3>1 DEF Increasing
    <2>2. CASE j > Len(h) /\ j - Len(h) \in 1..Len(e) /\ t[j] = e[j - Len(h)]
      <3>1. t[j].id = g + 1 /\ j - Len(h) = Len(e)
        <4>1. PICK k \in 1..Len(e) : k = j - Len(h) /\ t[j] = e[k]
          BY <2>2
        <4>2. e[k].id \in Int /\ e[k].id > 0
          BY <1>4, <1>7, <4>1
        <4>3. e[k].id < 0 \/ (e[k].id = g + 1 /\ m = g + 1 /\ k = Len(e))
          BY <1>4
        <4>4. ~(e[k].id < 0)
          BY <4>2
        <4>5. e[k].id = g + 1 /\ k = Len(e)
          BY <4>3, <4>4
        <4> QED
          BY <4>1, <4>5
      <3>2. i \in 1..Len(h) /\ t[i] = h[i]
        <4>1. Len(e) = 1 /\ j = Len(h) + 1
          <5>1. t[j].id > 0 /\ t[j] = e[j - Len(h)] /\ j - Len(h) \in 1..Len(e)
            BY <1>7, <2>2
          <5>2. t[j].id \in Int
            BY <1>6
          <5>3. ~\A k \in 1..Len(e) : e[k].id < 0
            BY <5>1, <5>2
          <5>4. Len(e) = 1
            BY <5>3
          <5> QED
            BY <1>2, <3>1, <5>4
        <4> QED
          BY <1>2, <1>5, <1>7, <4>1
      <3> QED
        BY <1>3, <3>1, <3>2
    <2> QED
      BY <1>5, <2>1, <2>2
  <1>8. Increasing(t)
    BY <1>2, <1>7 DEF Increasing
  <1> QED
    BY <1>1, <1>6, <1>8 DEF t

LEMMA Received ==
    ASSUME Locked, Filled, Kept, broken = FALSE, Gone \in Nat, Gone' \in Nat, Gone <= Gone',
           \A w \in Senders : Moved(w),
           NEW who \in Senders, NEW c \in Compounds, Receive(who, c),
           c.kind = "preamble" => Announces(who, c),
           c.kind = "frame" => Brings(who, c)
    PROVE  Locked' /\ Filled' /\ Kept' /\ broken' = FALSE
  <1>0. /\ lock \in [who : Senders \cup {None}, left : Int]
        /\ rx \in [train : Int \cup {None}, entries : Seq(Frames), timer : Int]
        /\ heard \in Seq(Frames) /\ delivered \in Seq(Frames) /\ rx.entries \in Seq(Frames)
    BY DEF Locked, Filled, Kept
  <1>1. ASSUME UNCHANGED <<lock, rx>> PROVE Locked' /\ Filled'
    BY <1>1, ReceiverKept DEF Senders
  <1>2. CASE UNCHANGED <<receiver, broken>>
    <2>1. Kept'
      BY <1>2, KeptGrows DEF receiver
    <2>2. broken' = FALSE
      BY <1>2
    <2> QED
      BY <1>1, <1>2, <2>1, <2>2 DEF receiver
  <1>3. CASE /\ c.kind = "preamble" /\ lock' = [who |-> who, left |-> c.span]
             /\ DeAggregationProcessIncoming(c) /\ UNCHANGED heard
    <2>1. Announces(who, c)
      BY <1>3
    <2>2. c.span \in Int /\ who # None
      BY NoneAssumption DEF Compounds, Senders
    <2>3. lock'.who = who /\ lock'.left = c.span
          /\ lock' \in [who : Senders \cup {None}, left : Int]
      BY <1>3, <2>2
    <2>4. CASE c.single
      <3>1. UNCHANGED <<rx, delivered, broken>>
        BY <1>3, <2>4 DEF DeAggregationProcessIncoming
      <3>2. Locked'
        BY <2>1, <2>2, <2>3, <2>4 DEF Locked, Announces
      <3>3. ASSUME NEW w \in Senders, rx'.train # None, Origin(rx'.train) = w
            PROVE  IF Flying(w)'
                   THEN rx'.timer = Left(w)' /\ rx'.train = Train(w)' /\ ~Single(w)'
                   ELSE rx'.timer = 0 /\ ~Due(w)'
        BY <3>1, <3>3, ContainerKept
      <3>4. Filled'
        BY <3>1, <3>3 DEF Filled
      <3>5. Kept'
        BY <1>3, <3>1, KeptGrows
      <3>6. broken' = FALSE
        BY <3>1
      <3> QED
        BY <3>2, <3>4, <3>5, <3>6
    <2>5. CASE ~c.single
      <3>1. rx' = [train |-> c.train, entries |-> <<>>, timer |-> c.span]
            /\ broken' = broken
            /\ IF rx.train # None THEN delivered' = delivered \o rx.entries
               ELSE delivered' = delivered
        BY <1>3, <2>5 DEF DeAggregationProcessIncoming, OpenContainer, Deliver
      <3>2. /\ Train(who)' = c.train /\ c.train \in Int /\ c.train # 0 /\ Origin(c.train) = who
            /\ c.train # None /\ Left(who)' = c.span /\ ~Single(who)' /\ Flying(who)'
        BY <2>1, <2>5, NoneAssumption DEF Announces
      <3>3. Locked'
        BY <2>2, <2>3, <3>1, <3>2 DEF Locked
      <3>4. Filled'
        <4>1. rx' \in [train : Int \cup {None}, entries : Seq(Frames), timer : Int]
          BY <2>2, <3>1, <3>2, EmptySeq
        <4> QED
          BY <3>1, <3>2, <4>1 DEF Filled
      <3>5. delivered' = heard
        <4>1. CASE rx.train # None
          BY <3>1, <4>1 DEF Kept
        <4>2. CASE rx.train = None
          <5>1. rx.entries = <<>>
            BY <4>2 DEF Filled, NoContainer
          <5>2. delivered \o <<>> = delivered
            BY <1>0, ConcatEmptySeq
          <5> QED
            BY <3>1, <4>2, <5>1, <5>2 DEF Kept
        <4> QED
          BY <4>1, <4>2
      <3>6. heard' = delivered' \o rx'.entries
        <4>1. rx'.entries = <<>>
          BY <3>1
        <4>2. heard \o <<>> = heard
          BY <1>0, ConcatEmptySeq
        <4> QED
          BY <1>3, <3>5, <4>1, <4>2
      <3>7. \A i \in 1..Len(rx'.entries) : FALSE
        BY <3>1
      <3>8. Gone' = Gone
        BY <2>1 DEF Announces
      <3>9. Kept'
        <4>1. Increasing(heard') /\ \A i \in 1..Len(heard') : heard'[i].id <= Gone'
          BY <1>3, <3>8 DEF Kept
        <4>2. heard' \in Seq(Frames) /\ delivered' \in Seq(Frames)
          BY <1>0, <1>3, <3>5
        <4> QED
          BY <3>6, <3>7, <4>1, <4>2 DEF Kept
      <3>10. broken' = FALSE
        BY <3>1
      <3> QED
        BY <3>3, <3>4, <3>9, <3>10
    <2> QED
      BY <2>4, <2>5
  <1>4. CASE /\ c.kind = "frame" /\ lock.who = who
             /\ heard' = heard \o c.entries
             /\ DeAggregationProcessIncoming(c) /\ UNCHANGED lock
    <2>1. Brings(who, c)
      BY <1>4
    <2>2. CASE c.single
      <3>1. UNCHANGED <<rx, delivered, broken>>
        BY <1>4, <2>2 DEF DeAggregationProcessIncoming
      <3>2. heard' = heard
        <4>1. heard \o <<>> = heard
          BY <1>0, ConcatEmptySeq
        <4> QED
          BY <1>4, <2>1, <2>2, <4>1 DEF Brings
      <3>3. Kept'
        BY <3>1, <3>2, KeptGrows
      <3>4. broken' = FALSE
        BY <3>1
      <3> QED
        BY <1>1, <1>4, <3>1, <3>3, <3>4
    <2>3. CASE ~c.single
      <3>1. AppendFragment(c)
        BY <1>4, <2>3 DEF DeAggregationProcessIncoming
      <3>2. /\ rx.train = c.train /\ c.train \in Int /\ c.train # None
            /\ c.entries \in Seq(Frames) /\ lock.left = Left(who)
        BY <1>4, <2>1, <2>3, NoneAssumption DEF Brings, Locked
      <3>3. broken' = FALSE
        BY <3>1, <3>2 DEF AppendFragment
      <3>4. /\ heard' \in Seq(Frames) /\ Increasing(heard')
            /\ \A i \in 1..Len(heard') : heard'[i].id <= Gone'
        <4>1. PICK h, e, g, m : h = heard /\ e = c.entries /\ g = Gone /\ m = Gone'
          OBVIOUS
        <4>2. /\ h \in Seq(Frames) /\ e \in Seq(Frames) /\ g \in Nat /\ m \in Int /\ g <= m
              /\ Increasing(h) /\ \A i \in 1..Len(h) : h[i].id <= g
          BY <1>0, <3>2, <4>1 DEF Kept
        <4>3. \/ \A k \in 1..Len(e) : e[k].id < 0
              \/ Len(e) = 1 /\ e[1].id = g + 1 /\ m = g + 1
          BY <2>1, <2>3, <4>1 DEF Brings
        <4>4. /\ h \o e \in Seq(Frames) /\ Increasing(h \o e)
              /\ \A i \in 1..Len(h \o e) : (h \o e)[i].id <= m
          BY <4>2, <4>3, HeardGrows
        <4>5. heard' = h \o e
          BY <1>4, <4>1
        <4> QED
          BY <4>1, <4>4, <4>5
      <3>5. heard' = delivered \o (rx.entries \o c.entries)
        <4>1. PICK d, r, e : d = delivered /\ r = rx.entries /\ e = c.entries
          OBVIOUS
        <4>2. d \in Seq(Frames) /\ r \in Seq(Frames) /\ e \in Seq(Frames)
          BY <1>0, <3>2, <4>1
        <4>3. (d \o r) \o e = d \o (r \o e)
          BY <4>2, ConcatAssociative
        <4> QED
          BY <1>4, <4>1, <4>3 DEF Kept
      <3>6. rx.entries \o c.entries \in Seq(Frames)
        BY <1>0, <3>2, ConcatProperties
      <3>7. CASE c.final
        <4>1. delivered' = delivered \o (rx.entries \o c.entries) /\ rx' = NoContainer
          BY <3>1, <3>7 DEF AppendFragment, Deliver
        <4>2. Lands(who)
          BY <2>1, <2>3, <3>7 DEF Brings
        <4>3. Locked'
          BY <1>4, <3>2, <4>2 DEF Locked, Lands
        <4>4. rx'.train = None /\ rx'.entries = <<>> /\ rx' = NoContainer /\ NoContainer' = NoContainer
          BY <4>1 DEF NoContainer
        <4>5. rx' \in [train : Int \cup {None}, entries : Seq(Frames), timer : Int]
          BY <4>1, EmptySeq DEF NoContainer, Off
        <4>6. Filled'
          <5>1. None # 0
            BY NoneAssumption
          <5> QED
            BY <4>4, <4>5, <5>1 DEF Filled
        <4>7. heard' = delivered' \o rx'.entries /\ delivered' \in Seq(Frames)
          <5>1. delivered' = heard'
            BY <3>5, <4>1
          <5>2. heard' \o <<>> = heard'
            BY <3>4, ConcatEmptySeq
          <5> QED
            BY <3>4, <4>4, <5>1, <5>2
        <4>8. \A i \in 1..Len(rx'.entries) : FALSE
          BY <4>4
        <4>9. Kept'
          BY <3>4, <4>7, <4>8 DEF Kept
        <4> QED
          BY <3>3, <4>3, <4>6, <4>9
      <3>8. CASE ~c.final
        <4>1. delivered' = delivered /\ rx' = [rx EXCEPT !.entries = rx.entries \o c.entries]
          BY <3>1, <3>8 DEF AppendFragment
        <4>2. /\ rx'.train = rx.train /\ rx'.timer = rx.timer
              /\ rx'.entries = rx.entries \o c.entries
              /\ rx' \in [train : Int \cup {None}, entries : Seq(Frames), timer : Int]
          BY <1>0, <3>6, <4>1
        <4>3. ASSUME NEW w \in Senders, lock'.who = w
              PROVE  IF Flying(w)'
                     THEN lock'.left = Left(w)' /\ (~Single(w)' => rx'.train = Train(w)')
                     ELSE lock'.left = 0 /\ ~Due(w)'
          BY <1>4, <4>2, <4>3, LockKept
        <4>4. Locked'
          BY <1>4, <4>3 DEF Locked
        <4>5. ASSUME NEW w \in Senders, rx'.train # None, Origin(rx'.train) = w
              PROVE  IF Flying(w)'
                     THEN rx'.timer = Left(w)' /\ rx'.train = Train(w)' /\ ~Single(w)'
                     ELSE rx'.timer = 0 /\ ~Due(w)'
          BY <4>2, <4>5, ContainerKept
        <4>6. Filled'
          BY <3>2, <4>2, <4>5 DEF Filled
        <4>7. ASSUME NEW i \in 1..Len(rx'.entries)
              PROVE  rx'.entries[i].id < 0 <=> rx'.train < 0
          <5>1. /\ Len(rx'.entries) = Len(rx.entries) + Len(c.entries)
                /\ rx'.entries[i] = IF i <= Len(rx.entries) THEN rx.entries[i]
                                    ELSE c.entries[i - Len(rx.entries)]
            BY <1>0, <3>2, <4>2, ConcatProperties
          <5>2. Len(rx.entries) \in Nat /\ Len(c.entries) \in Nat
            BY <1>0, <3>2, LenProperties
          <5>3. CASE i <= Len(rx.entries)
            BY <4>2, <5>1, <5>2, <5>3 DEF Kept
          <5>4. CASE ~(i <= Len(rx.entries))
            <6> DEFINE k == i - Len(rx.entries)
            <6>1. k \in 1..Len(c.entries) /\ rx'.entries[i] = c.entries[k]
              <7>1. PICK a \in Nat, b \in Nat : a = Len(rx.entries) /\ b = Len(c.entries)
                BY <5>2
              <7>2. i \in 1..(a + b)
                BY <5>1, <7>1
              <7>3. ~(i <= a)
                BY <5>4, <7>1
              <7>4. i - a \in 1..b
                BY <7>2, <7>3
              <7> QED
                BY <5>1, <5>4, <7>1, <7>4
            <6> HIDE DEF k
            <6>2. k = 1 \/ c.train < 0
              BY <2>1, <2>3, <6>1 DEF Brings
            <6>3. c.entries[k].id < 0 <=> c.train < 0
              <7>1. Gone + 1 > 0
                OBVIOUS
              <7> QED
                BY <2>1, <2>3, <6>1, <6>2, <7>1 DEF Brings
            <6> QED
              BY <3>2, <4>2, <6>1, <6>3
          <5> QED
            BY <5>3, <5>4
        <4>8. Kept'
          BY <1>0, <3>4, <3>5, <4>1, <4>2, <4>7 DEF Kept
        <4> QED
          BY <3>3, <4>4, <4>6, <4>8
      <3> QED
        BY <3>7, <3>8
    <2> QED
      BY <2>2, <2>3
  <1>5. c.kind \in {"preamble", "ltf", "frame"}
    BY DEF Compounds
  <1> QED
    BY <1>2, <1>3, <1>4, <1>5 DEF Receive

\* A compound of the sender comes in.
LEMMA OwnReceived ==
    ASSUME Inv, UNCHANGED foreign, Collected', Stages', Moved("own"), Gone <= Gone',
           NEW c \in Compounds, Receive("own", c),
           c.kind = "preamble" => Announces("own", c),
           c.kind = "frame" => Brings("own", c)
    PROVE  Inv'
  <1>1. Gone \in Nat /\ Gone' \in Nat
    <2>1. Passed \in Nat /\ Passed' \in Nat
      BY PassedNat, PassedNatNext DEF Inv
    <2>2. Gone \in 0..Passed /\ Gone' \in 0..Passed'
      BY GoneInt, GoneIntNext DEF Inv
    <2> QED
      BY <2>1, <2>2
  <1>2. \A w \in Senders : Moved(w)
    BY ForeignWaits DEF Senders
  <1>3. "own" \in Senders
    BY DEF Senders
  <1>4. Locked' /\ Filled' /\ Kept' /\ broken' = FALSE
    BY <1>1, <1>2, <1>3, Received DEF Inv
  <1>5. ForeignStages'
    BY DEF Inv, ForeignStages
  <1> QED
    BY <1>4, <1>5 DEF Inv

LEMMA PhyOnTimeoutInv == ASSUME Inv, PhyOnTimeout PROVE Inv'
  <1>1. /\ phy.compound # None /\ phy.left = 0
        /\ phy' = [phy EXCEPT !.compound = None]
        /\ phy.compound.kind = "frame" => DeAggregationOnTxEnd
        /\ phy.compound.kind # "frame" => UNCHANGED deagg
        /\ Receive("own", phy.compound)
        /\ UNCHANGED <<offered, agg, pg, ltf, foreign>>
    BY DEF PhyOnTimeout
  <1>2. Collected' /\ Passed' = Passed /\ Passed \in Nat /\ Passed' \in Nat /\ Stages
        /\ Gone \in Int
    BY <1>1, PassedNat, GoneInt DEF Inv, Collected, Passed
  <1>3. ASSUME NEW S, phy \in [compound : S, left : 0..1] PROVE phy' = NoTransmission
    <2>1. PICK p, l : phy = [compound |-> p, left |-> l]
      BY <1>3
    <2>2. l = 0
      BY <1>1, <2>1
    <2> QED
      BY <1>1, <2>1, <2>2 DEF NoTransmission
  <1>4. ASSUME NEW c \in Compounds, PreambleOnAir(c) PROVE Inv'
    <2>1. Cargo(c) /\ Below(c, 0, TRUE) /\ Fields /\ FieldsLeft = TrainingFields
          /\ phy \in [compound : {Announcement(c)}, left : 0..1]
      BY <1>4 DEF PreambleOnAir, Below
    <2>2. PICK p : p = phy.compound /\ p = Announcement(c)
      BY <2>1
    <2>3. p \in Compounds /\ p.kind = "preamble" /\ p.span = c.time + TrainingFields
          /\ p.single = c.single /\ p.train = c.train
      BY <1>2, <2>1, <2>2, PreambleFacts
    <2>4. phy' = NoTransmission /\ UNCHANGED deagg
      BY <1>1, <1>3, <2>1, <2>2, <2>3
    <2>5. Cargo(c)'
      BY <1>2, <2>1, CargoKept
    <2>6. Below(c, 0, TRUE)'
      BY <1>1, <2>1, <2>4, <2>5 DEF Below
    <2>7. Fields' /\ FieldsLeft' = TrainingFields
      BY <1>1, <2>1 DEF Fields, FieldsLeft
    <2>8. Training(c)'
      BY <2>4, <2>6, <2>7 DEF Training, NoTransmission
    <2>9. Stages'
      BY <2>8 DEF Stages
    <2>10. /\ ~Flying("own") /\ Due("own") /\ Gone = Rest(c, 0)
           /\ Airborne(c, phy.left + FieldsLeft + c.time, Rest(c, 0))'
      BY <1>1, <1>2, <1>4, <2>8, StageViews, StageViewsNext DEF Views
    <2>11. Gone' = Gone
      BY <1>2, <2>10 DEF Airborne, Rest
    <2>12. phy'.left + FieldsLeft' + c.time = p.span
      <3>1. phy'.left = 0 /\ c.time \in Nat
        BY <1>2, <2>1, <2>4, CargoFacts DEF NoTransmission
      <3> QED
        BY <2>3, <2>7, <3>1
    <2>13. ~c.single => c.train \in Nat /\ c.train > 0
      BY <1>2, <2>1, CargoFacts
    <2>14. Announces("own", p)
      BY <2>3, <2>10, <2>11, <2>12, <2>13 DEF Announces, Begins, Airborne, Origin
    <2>15. Moved("own")
      BY <2>14 DEF Announces, Moved
    <2>16. Receive("own", p)
      BY <1>1, <2>2
    <2> QED
      BY <1>1, <1>2, <2>3, <2>9, <2>11, <2>14, <2>15, <2>16, OwnReceived
  <1>5. ASSUME NEW c \in Compounds, Training(c) PROVE Inv'
    <2>1. Cargo(c) /\ Below(c, 0, TRUE) /\ Fields /\ FieldOnAir
      BY <1>1, <1>5 DEF Training, Below, NoTransmission
    <2>2. PICK p : p = phy.compound
      OBVIOUS
    <2>3. p \in Compounds /\ p.kind = "ltf" /\ phy \in [compound : Compounds, left : 0..1]
      BY <2>1, <2>2 DEF FieldOnAir
    <2>4. phy' = NoTransmission /\ UNCHANGED deagg
      BY <1>1, <1>3, <2>2, <2>3
    <2>5. Cargo(c)'
      BY <1>2, <2>1, CargoKept
    <2>6. Below(c, 0, TRUE)'
      BY <1>1, <2>1, <2>4, <2>5 DEF Below
    <2>7. Fields' /\ FieldsLeft' = FieldsLeft
      BY <1>1, <2>1 DEF Fields, FieldsLeft
    <2>8. Training(c)'
      BY <2>4, <2>6, <2>7 DEF Training, NoTransmission
    <2>9. Stages'
      BY <2>8 DEF Stages
    <2>10. /\ Airborne(c, phy.left + FieldsLeft + c.time, Rest(c, 0))
           /\ Airborne(c, phy.left + FieldsLeft + c.time, Rest(c, 0))'
      BY <1>2, <1>5, <2>8, StageViews, StageViewsNext DEF Views
    <2>11. phy'.left = phy.left
      BY <1>1, <2>4 DEF NoTransmission
    <2>12. Moved("own") /\ Gone' = Gone
      BY <1>2, <2>7, <2>10, <2>11 DEF Airborne, Moved, GoesOn, Rest
    <2>13. Receive("own", p)
      BY <1>1, <2>2
    <2> QED
      BY <1>1, <1>2, <2>3, <2>9, <2>12, <2>13, OwnReceived
  <1>6. ASSUME NEW c \in Compounds, NEW n \in Nat, FragmentOnAir(c, n) PROVE Inv'
    <2>1. /\ Below(c, n, FALSE) /\ n > 0 /\ ltf = NoField
          /\ phy \in [compound : {Fragments(c)[n]}, left : 0..1]
      BY <1>6 DEF FragmentOnAir
    <2>2. PICK p : p = phy.compound /\ p = Fragments(c)[n]
      BY <2>1
    <2>3. /\ Cargo(c) /\ c.time \in Nat /\ Len(Fragments(c)) = c.time /\ n \in 0..c.time
          /\ deagg.compound = c /\ c # None
          /\ deagg.queue = <<>> <=> n = c.time
          /\ pg = [preamble |-> None, compound |-> None]
      BY <1>2, <2>1, BelowFacts
    <2>4. n \in 1..c.time
      BY <2>1, <2>3
    <2>5. /\ p \in Compounds /\ p.kind = "frame" /\ p.single = c.single /\ p.train = c.train
          /\ c.single => p.entries = <<>>
          /\ ~c.single => (p.final <=> n = c.time) /\ p.entries = <<c.entries[n]>>
      BY <1>2, <2>2, <2>3, <2>4, FragmentFacts
    <2>6. phy' = NoTransmission /\ DeAggregationOnTxEnd
      BY <1>1, <1>3, <2>1, <2>2, <2>5
    <2>7. Airborne(c, phy.left + c.time - n, Rest(c, n - 1))
      BY <1>2, <1>6, StageViews DEF Views
    <2>8. /\ c.single => c.time = 1
          /\ ~c.single => /\ c.train \in Nat /\ c.train > 0
                          /\ c.entries[n] \in Frames /\ c.entries[n].id = Passed - c.time + n
      BY <1>2, <2>3, <2>4, CargoFacts
    <2>9. ASSUME ~c.single
          PROVE  /\ p.entries \in Seq(Frames) /\ Len(p.entries) = 1
                 /\ p.entries[1].id = Gone + 1 /\ Rest(c, n) = Gone + 1
      <3>1. p.entries = <<c.entries[n]>> /\ c.entries[n] \in Frames
        BY <2>5, <2>8, <2>9
      <3>2. p.entries \in Seq(Frames) /\ Len(p.entries) = 1 /\ p.entries[1] = c.entries[n]
        BY <3>1
      <3>3. Gone = Passed - c.time + (n - 1) /\ Rest(c, n) = Passed - c.time + n
        BY <2>7, <2>9 DEF Airborne, Rest
      <3>4. Passed - c.time + n = (Passed - c.time + (n - 1)) + 1
        BY <1>2, <2>3
      <3> QED
        BY <2>8, <2>9, <3>2, <3>3, <3>4
    <2>10. ASSUME c.single PROVE Rest(c, n) = Gone /\ n = c.time
      <3>1. Rest(c, n) = Gone
        BY <2>7, <2>10 DEF Airborne, Rest
      <3> QED
        BY <2>4, <2>8, <2>10, <3>1
    <2>11. Receive("own", p)
      BY <1>1, <2>2
    <2>12. Rest(c, n)' = Rest(c, n) /\ Gone <= Rest(c, n) /\ c.single \in BOOLEAN
           /\ (c.single => Rest(c, n) = Gone) /\ (~c.single => Rest(c, n) = Gone + 1)
      <3>1. Rest(c, n)' = Rest(c, n) /\ c.single \in BOOLEAN
        BY <1>2 DEF Rest, Compounds
      <3>2. Gone <= Gone /\ Gone <= Gone + 1
        BY <1>2
      <3> QED
        BY <2>9, <2>10, <3>1, <3>2
    <2>13. phy.left = 0
      BY <1>1
    <2>14. CASE n < c.time
      <3>1. n # c.time /\ deagg.queue # <<>>
        BY <2>3, <2>14
      <3>2. UNCHANGED deagg
        BY <2>6, <3>1 DEF DeAggregationOnTxEnd
      <3>3. Cargo(c)'
        BY <1>2, <2>3, CargoKept
      <3>4. Below(c, n, FALSE)'
        BY <1>1, <2>1, <3>2, <3>3 DEF Below
      <3>5. FragmentOver(c, n)'
        BY <1>1, <2>1, <2>3, <2>6, <2>14, <3>4 DEF FragmentOver, NoTransmission, NoField
      <3>6. Stages'
        BY <3>5 DEF Stages
      <3>7. Airborne(c, c.time - n, Rest(c, n))'
        BY <1>2, <3>5, StageViewsNext DEF Views
      <3>8. GoesOn("own") /\ Gone' = Rest(c, n)
        <4>1. phy.left + c.time - n = c.time - n
          BY <2>3, <2>13
        <4> QED
          BY <2>7, <2>12, <3>7, <4>1 DEF Airborne, GoesOn
      <3>9. ~c.single
        BY <2>10, <3>1
      <3>10. Brings("own", p)
        <4>1. p.final = FALSE \/ ~p.final
          BY <2>5, <3>1, <3>9
        <4>2. p.train > 0 /\ p.train \in Int
          BY <2>5, <2>8, <3>9
        <4>3. Gone' = Gone + 1
          BY <2>12, <3>8, <3>9
        <4>4. Flying("own") /\ Single("own") = p.single /\ Train("own") = p.train
          BY <2>5, <2>7 DEF Airborne
        <4> QED
          BY <2>5, <2>9, <3>8, <3>9, <4>1, <4>2, <4>3, <4>4 DEF Brings
      <3>11. Moved("own")
        BY <3>8 DEF Moved
      <3>12. Gone <= Gone'
        BY <2>12, <3>8
      <3> QED
        BY <1>1, <1>2, <2>5, <2>11, <3>6, <3>10, <3>11, <3>12, OwnReceived
    <2>15. CASE n = c.time
      <3>1. PICK status : deagg = [queue |-> <<>>, compound |-> c, signalStart |-> FALSE,
                                   status |-> status]
        BY <2>1, <2>3, <2>15 DEF Below
      <3>2. deagg' = [deagg EXCEPT !.compound = None, !.status = "finished"]
        BY <2>3, <2>6, <2>15 DEF DeAggregationOnTxEnd
      <3>3. deagg' = [queue |-> <<>>, compound |-> None, signalStart |-> FALSE,
                      status |-> "finished"]
        BY <3>1, <3>2
      <3>4. Idle'
        BY <1>1, <2>1, <2>3, <2>6, <3>3 DEF Idle, NoField, NoTransmission
      <3>5. Stages'
        BY <3>4 DEF Stages
      <3>6. Resting(Passed)'
        BY <1>2, <3>4, StageViewsNext DEF Views
      <3>7. Rest(c, n) = Passed
        <4>1. Passed - c.time + c.time = Passed
          BY <1>2, <2>3
        <4> QED
          BY <2>15, <4>1 DEF Rest
      <3>8. Lands("own") /\ Gone' = Rest(c, n)
        <4>1. phy.left + c.time - n = 0
          BY <2>3, <2>13, <2>15
        <4> QED
          BY <1>2, <2>7, <3>6, <3>7, <4>1 DEF Airborne, Lands, Resting
      <3>9. Brings("own", p)
        <4>1. Flying("own") /\ Single("own") = p.single /\ Train("own") = p.train
          BY <2>5, <2>7 DEF Airborne
        <4>2. CASE p.single
          BY <2>5, <4>1, <4>2 DEF Brings
        <4>3. CASE ~p.single
          <5>1. ~c.single
            BY <2>5, <4>3
          <5>2. p.final
            BY <2>5, <2>15, <5>1
          <5>3. p.train > 0 /\ p.train \in Int
            BY <2>5, <2>8, <5>1
          <5>4. Gone' = Gone + 1
            BY <2>12, <3>8, <5>1
          <5> QED
            BY <2>9, <3>8, <4>1, <4>3, <5>1, <5>2, <5>3, <5>4 DEF Brings
        <4> QED
          BY <4>2, <4>3
      <3>10. Moved("own")
        BY <3>8 DEF Moved
      <3>11. Gone <= Gone'
        BY <2>12, <3>8
      <3> QED
        BY <1>1, <1>2, <2>5, <2>11, <3>5, <3>9, <3>10, <3>11, OwnReceived
    <2> QED
      BY <2>3, <2>14, <2>15
  <1>7. ASSUME NEW c, PreambleStarted(c) PROVE FALSE
    BY <1>1, <1>7 DEF PreambleStarted
  <1>8. ASSUME phy = NoTransmission PROVE FALSE
    BY <1>1, <1>8 DEF NoTransmission
  <1> QED
    BY <1>2, <1>4, <1>5, <1>6, <1>7, <1>8
       DEF Stages, Idle, Ready, PreambleQueued, PreambleDue, FragmentDue, FragmentOver

-----------------------------------------------------------------------------
(* The foreign station, and time *)

LEMMA ForeignFrames ==
    ASSUME NEW n \in 1..2
    PROVE  LET E == [i \in 1..n |-> Frame(-i, None, FALSE)]
           IN  /\ E \in Seq(Frames) /\ Len(E) = n
               /\ \A i \in 1..n : E[i] \in Frames /\ E[i].id < 0
  <1> DEFINE G(i) == Frame(-i, None, FALSE)
  <1>1. \A i \in 1..n : G(i) \in Frames /\ G(i).id < 0
    BY DEF Frame, Frames
  <1>2. n \in Nat
    OBVIOUS
  <1> HIDE DEF G
  <1> DEFINE E == [i \in 1..n |-> G(i)]
  <1>3. E \in Seq(Frames) /\ Len(E) = n /\ \A i \in 1..n : E[i] = G(i)
    BY <1>1, <1>2
  <1>4. E \in Seq(Frames) /\ Len(E) = n /\ \A i \in 1..n : E[i] \in Frames /\ E[i].id < 0
    BY <1>1, <1>3
  <1> QED
    BY <1>4 DEF G

ForeignFragments(f, n, m) ==
  /\ f \in Seq(Compounds) /\ Len(f) = n
  /\ \A i \in 1..n :
       /\ f[i].kind = "frame" /\ f[i].time = 1 /\ f[i].single = FALSE
       /\ f[i].final <=> i = n
       /\ f[i].train = -m
       /\ \A k \in 1..Len(f[i].entries) : f[i].entries[k].id < 0

Opening(p, n, m) ==
  /\ p \in Compounds /\ p.kind = "preamble" /\ p.single = FALSE
  /\ p.time = 1 /\ p.span = n /\ p.train = -m

\* A preamble with a single frame, or with the fragments of a container.
LEMMA SingleComing ==
    ASSUME NEW p \in Compounds, NEW s \in Compounds, p.kind = "preamble", p.single = TRUE,
           p.time = 1, p.span = s.time, s.time > 0, s.kind = "frame", s.single = TRUE,
           s.entries = <<>>, NEW m
    PROVE  LET air == <<p>> \o <<s>>
           IN  /\ air \in Seq(Compounds) /\ air # <<>> /\ air[1] = p /\ Coming(air, m)
  <1>1. PICK air : air = <<p>> \o <<s>>
    OBVIOUS
  <1>2. <<p>> \in Seq(Compounds) /\ <<s>> \in Seq(Compounds) /\ Len(<<p>>) = 1 /\ Len(<<s>>) = 1
        /\ <<p>>[1] = p /\ <<s>>[1] = s
    OBVIOUS
  <1>3. /\ air \in Seq(Compounds) /\ Len(air) = 2
        /\ \A i \in 1..2 : air[i] = IF i <= 1 THEN <<p>>[i] ELSE <<s>>[i - 1]
    BY <1>1, <1>2, ConcatProperties
  <1>4. air[1] = p /\ air[2] = s
    BY <1>2, <1>3
  <1>5. air # <<>>
    <2>1. Len(air) > 0
      BY <1>3
    <2> QED
      BY <2>1
  <1>6. ASSUME NEW i \in 1..Len(air) PROVE i \in {1, 2}
    BY <1>3
  <1>7. ASSUME NEW i \in 1..Len(air)
        PROVE  /\ air[i].time > 0 /\ air[i].single = TRUE
               /\ \/ i = 1 /\ air[i].kind = "preamble" /\ air[i].span = air[2].time
                  \/ i = 2 /\ air[i].kind = "frame" /\ air[i].entries = <<>>
    <2>1. CASE i = 1
      BY <1>4, <2>1
    <2>2. CASE i = 2
      BY <1>4, <2>2
    <2> QED
      BY <1>6, <2>1, <2>2
  <1>8. air[1].single = TRUE /\ Len(air) = 2
    BY <1>3, <1>4
  <1>9. ASSUME NEW i \in 1..Len(air)
        PROVE  /\ air[i].single = air[1].single /\ air[i].single
               /\ air[i].kind \in {"preamble", "frame"}
               /\ air[i].kind = "preamble" => i = 1 /\ air[i].span = air[2].time
               /\ air[i].kind = "frame" => i = Len(air) /\ air[i].entries = <<>>
    <2>1. CASE i = 1 /\ air[i].kind = "preamble" /\ air[i].span = air[2].time
      BY <1>7, <1>8, <2>1
    <2>2. CASE i = 2 /\ air[i].kind = "frame" /\ air[i].entries = <<>>
      BY <1>7, <1>8, <2>2
    <2> QED
      BY <1>7, <2>1, <2>2
  <1>10. \A i \in 1..Len(air) : air[i].time > 0
    BY <1>7
  <1>11. Len(air) > 1
    BY <1>8
  <1>12. Coming(air, m)
    BY <1>9, <1>10, <1>11 DEF Coming
  <1> QED
    BY <1>1, <1>3, <1>4, <1>5, <1>12

LEMMA ContainerComing ==
    ASSUME NEW n \in Nat, n > 0, NEW m \in Nat, m > 0, NEW p, Opening(p, n, m), NEW f, ForeignFragments(f, n, m)
    PROVE  LET air == <<p>> \o f
           IN  /\ air \in Seq(Compounds) /\ air # <<>> /\ air[1] = p /\ Coming(air, m)
  <1>1. PICK air : air = <<p>> \o f
    OBVIOUS
  <1>2. <<p>> \in Seq(Compounds) /\ Len(<<p>>) = 1 /\ <<p>>[1] = p
    BY DEF Opening
  <1>3. /\ air \in Seq(Compounds) /\ Len(air) = 1 + n
        /\ \A i \in 1..Len(air) : air[i] = IF i <= 1 THEN <<p>>[i] ELSE f[i - 1]
    BY <1>1, <1>2, ConcatProperties DEF ForeignFragments
  <1>4. air[1] = p
    BY <1>2, <1>3
  <1>5. air # <<>>
    <2>1. Len(air) > 0
      BY <1>3
    <2> QED
      BY <2>1
  <1>6. ASSUME NEW i \in 1..Len(air), i # 1
        PROVE  i - 1 \in 1..n /\ air[i] = f[i - 1] /\ (i - 1 = n <=> i = Len(air))
    BY <1>3, <1>6
  <1>7. ASSUME NEW i \in 1..Len(air)
        PROVE  /\ air[i].time > 0 /\ air[i].single = FALSE /\ air[i].train = -m
               /\ air[i].kind \in {"preamble", "frame"}
               /\ air[i].kind = "preamble" => i = 1 /\ Len(air) > 1
               /\ air[i].kind = "preamble" => air[i].span = Len(air) - 1
               /\ air[i].kind = "frame" =>
                    /\ air[i].time = 1
                    /\ air[i].final <=> i = Len(air)
                    /\ \A k \in 1..Len(air[i].entries) : air[i].entries[k].id < 0
    <2>1. CASE i = 1
      BY <1>3, <1>4, <2>1 DEF Opening
    <2>2. CASE i # 1
      <3>1. PICK j \in 1..n : air[i] = f[j] /\ (j = n <=> i = Len(air))
        BY <1>6, <2>2
      <3>2. /\ f[j].kind = "frame" /\ f[j].time = 1 /\ f[j].single = FALSE
            /\ f[j].final <=> j = n
            /\ f[j].train = -m
            /\ \A k \in 1..Len(f[j].entries) : f[j].entries[k].id < 0
        BY DEF ForeignFragments
      <3> QED
        BY <3>1, <3>2
    <2> QED
      BY <2>1, <2>2
  <1>8. 1 \in 1..Len(air)
    BY <1>3
  <1>9. Coming(air, m)
    BY <1>7, <1>8 DEF Coming
  <1> QED
    BY <1>1, <1>3, <1>4, <1>5, <1>9

LEMMA ForeignTrainFacts ==
    ASSUME NEW n \in 1..2, NEW single \in BOOLEAN, foreign.trains \in Nat
    PROVE  LET air == ForeignTrain(n, single)
           IN  /\ air \in Seq(Compounds) /\ air # <<>> /\ air[1].kind = "preamble"
               /\ Coming(air, foreign.trains + 1)
  <1>1. PICK m \in Nat : m = foreign.trains + 1 /\ m > 0
    OBVIOUS
  <1>2. PICK E : E = [i \in 1..n |-> Frame(-i, None, FALSE)]
    OBVIOUS
  <1>3. /\ E \in Seq(Frames) /\ Len(E) = n
        /\ \A i \in 1..n : E[i] \in Frames /\ E[i].id < 0
    BY <1>2, ForeignFrames
  <1>4. PICK c : c = Compound("frame", n, 0, single, FALSE, E, -m)
    OBVIOUS
  <1>5. PICK p : p = Preamble(c)
    OBVIOUS
  <1>6. PICK s : s = [c EXCEPT !.entries = <<>>]
    OBVIOUS
  <1>7. c = [kind |-> "frame", time |-> n, span |-> 0, single |-> single,
             final |-> FALSE, entries |-> E, train |-> -m]
    BY <1>4 DEF Compound
  <1>8. p = [kind |-> "preamble", time |-> 1, span |-> n, single |-> single,
             final |-> FALSE, entries |-> <<>>, train |-> -m]
    BY <1>5, <1>7 DEF Compound, Preamble, PreambleTime
  <1>9. s = [kind |-> "frame", time |-> n, span |-> 0, single |-> single,
             final |-> FALSE, entries |-> <<>>, train |-> -m]
    BY <1>6, <1>7
  <1>10. p \in Compounds /\ s \in Compounds
    <2>1. <<>> \in Seq(Frames) /\ -m \in Int /\ n \in Nat /\ n \in Int
      OBVIOUS
    <2> QED
      BY <1>8, <1>9, <2>1 DEF Compounds
  <1>11. PICK air : air = ForeignTrain(n, single)
    OBVIOUS
  <1>12. air = <<p>> \o (IF single THEN <<s>> ELSE Fragments(c))
    <2>1. c = Compound("frame", n, 0, single, FALSE, [i \in 1..n |-> Frame(-i, None, FALSE)],
                       -(foreign.trains + 1))
      BY <1>1, <1>2, <1>4
    <2> QED
      BY <1>5, <1>6, <1>11, <2>1 DEF ForeignTrain
  <1>13. CASE single
    <2>1. air = <<p>> \o <<s>> /\ single = TRUE
      BY <1>12, <1>13
    <2>2. p.kind = "preamble" /\ p.single = TRUE /\ p.time = 1 /\ p.span = n
      BY <1>8, <2>1
    <2>3. s.time = n /\ s.kind = "frame" /\ s.single = TRUE /\ s.entries = <<>> /\ n > 0
      BY <1>9, <2>1
    <2>4. LET t == <<p>> \o <<s>>
          IN  t \in Seq(Compounds) /\ t # <<>> /\ t[1] = p /\ Coming(t, m)
      BY <1>10, <2>2, <2>3, SingleComing
    <2> QED
      BY <1>1, <1>11, <2>1, <2>2, <2>4
  <1>14. CASE ~single
    <2>1. air = <<p>> \o Fragments(c) /\ single = FALSE
      BY <1>12, <1>14
    <2> DEFINE F(i) == Compound("frame", 1, 0, FALSE, i = n, <<E[i]>>, -m)
    <2>2. Fragments(c) = [i \in 1..n |-> F(i)]
      <3>1. c.single = FALSE /\ c.entries = E /\ c.train = -m
        BY <1>7, <2>1
      <3> QED
        BY <1>3, <3>1 DEF Fragments
    <2>3. \A i \in 1..n : <<E[i]>> \in Seq(Frames) /\ Len(<<E[i]>>) = 1 /\ <<E[i]>>[1] = E[i]
      BY <1>3
    <2>4. \A i \in 1..n : F(i) \in Compounds
      BY <2>3 DEF Compounds, Compound
    <2>5. \A i \in 1..n :
            /\ F(i).kind = "frame" /\ F(i).time = 1 /\ F(i).single = FALSE
            /\ F(i).final <=> i = n
            /\ F(i).entries = <<E[i]>> /\ F(i).train = -m
      BY DEF Compound
    <2> HIDE DEF F
    <2>6. n \in Nat /\ n > 0
      OBVIOUS
    <2>7. PICK f : f = Fragments(c)
      OBVIOUS
    <2>8. f \in Seq(Compounds) /\ Len(f) = n /\ \A i \in 1..n : f[i] = F(i)
      BY <2>2, <2>4, <2>6, <2>7
    <2>9. ASSUME NEW i \in 1..n, NEW k \in 1..Len(f[i].entries)
          PROVE  f[i].entries[k].id < 0
      <3>1. f[i].entries = <<E[i]>>
        BY <2>5, <2>8
      <3>2. k \in 1..1
        BY <2>3, <3>1
      <3>3. k = 1
        BY <3>2
      <3> QED
        BY <1>3, <2>3, <3>1, <3>3
    <2>10. \A i \in 1..n :
             /\ f[i].kind = "frame" /\ f[i].time = 1 /\ f[i].single = FALSE
             /\ f[i].final <=> i = n
             /\ f[i].train = -m
             /\ \A k \in 1..Len(f[i].entries) : f[i].entries[k].id < 0
      BY <2>5, <2>8, <2>9
    <2>11. p.kind = "preamble" /\ p.single = FALSE /\ p.time = 1 /\ p.span = n /\ p.train = -m
      BY <1>8, <2>1
    <2>12. <<p>> \o f \in Seq(Compounds) /\ <<p>> \o f # <<>> /\ (<<p>> \o f)[1] = p
           /\ Coming(<<p>> \o f, m)
      <3>1. ForeignFragments(f, n, m)
        BY <2>8, <2>10 DEF ForeignFragments
      <3> QED
        <4>1. Opening(p, n, m)
          BY <1>10, <2>11 DEF Opening
        <4> QED
          BY <1>1, <2>6, <3>1, <4>1, ContainerComing
    <2> QED
      BY <1>1, <1>11, <2>1, <2>7, <2>11, <2>12
  <1> QED
    BY <1>13, <1>14

\* The foreign station takes a step in which nothing comes in.
LEMMA ForeignStep ==
    ASSUME Inv, UNCHANGED <<sender, phy, receiver, broken>>, ForeignStages', Moved("foreign")
    PROVE  Inv'
  <1>1. Collected' /\ Passed' = Passed
    BY DEF Inv, Collected, Passed, sender
  <1>2. Stages' /\ Gone' = Gone /\ Moved("own")
    BY <1>1, StagesKept DEF Inv, sender
  <1>3. Locked' /\ Filled'
    BY <1>2, ReceiverKept DEF Inv, receiver
  <1>4. Kept'
    BY <1>2, KeptSame DEF Inv, receiver
  <1>5. broken' = FALSE
    BY DEF Inv
  <1> QED
    BY <1>1, <1>2, <1>3, <1>4, <1>5 DEF Inv

LEMMA ForeignStartsInv ==
    ASSUME Inv, NEW n \in 1..2, NEW single \in BOOLEAN, ForeignStarts(n, single)
    PROVE  Inv'
  <1>1. /\ foreign.air = <<>>
        /\ foreign' = [air |-> ForeignTrain(n, single), left |-> PreambleTime,
                       trains |-> foreign.trains + 1]
        /\ UNCHANGED <<sender, phy, receiver, broken>>
    BY DEF ForeignStarts
  <1>2. foreign.trains \in Nat
    BY DEF Inv, ForeignStages
  <1>3. PICK air : air = ForeignTrain(n, single)
    OBVIOUS
  <1>4. /\ air \in Seq(Compounds) /\ air # <<>> /\ air[1].kind = "preamble"
        /\ Coming(air, foreign.trains + 1)
    BY <1>2, <1>3, ForeignTrainFacts
  <1>5. /\ foreign'.air = air /\ foreign'.left = 1 /\ foreign'.trains = foreign.trains + 1
        /\ foreign' \in [air : Seq(Compounds), left : Nat, trains : Nat]
    BY <1>1, <1>2, <1>3, <1>4 DEF PreambleTime
  <1>6. ForeignStages'
    BY <1>4, <1>5 DEF ForeignStages
  <1>7. Waits("foreign")
    BY <1>1, <1>4, <1>5 DEF Waits, Flying, Due
  <1> QED
    BY <1>1, <1>6, <1>7, ForeignStep DEF Moved

LEMMA TailFacts ==
    ASSUME NEW air \in Seq(Compounds), air # <<>>
    PROVE  /\ Head(air) = air[1] /\ air[1] \in Compounds /\ Len(air) \in Nat /\ Len(air) > 0
           /\ Tail(air) \in Seq(Compounds) /\ Len(Tail(air)) = Len(air) - 1
           /\ \A i \in 1..Len(Tail(air)) : i + 1 \in 2..Len(air) /\ Tail(air)[i] = air[i + 1]
           /\ Tail(air) = <<>> <=> Len(air) = 1
  <1>1. Head(air) = air[1] /\ air[1] \in Compounds
    BY HeadTailProperties, ElementOfSeq
  <1>2. Len(air) \in Nat /\ Len(air) > 0
    BY EmptySeq
  <1>3. Tail(air) \in Seq(Compounds) /\ Len(Tail(air)) = Len(air) - 1
        /\ \A i \in 1..Len(Tail(air)) : Tail(air)[i] = air[i + 1]
    BY HeadTailProperties
  <1>4. Tail(air) = <<>> <=> Len(air) = 1
    <2>1. PICK t : t = Tail(air)
      OBVIOUS
    <2>2. t \in Seq(Compounds) /\ Len(t) = Len(air) - 1
      BY <1>3, <2>1
    <2>3. CASE t = <<>>
      <3>1. Len(t) = 0
        BY <2>3
      <3>2. Len(air) = 1
        BY <1>2, <2>2, <3>1
      <3> QED
        BY <2>1, <2>3, <3>2
    <2>4. CASE t # <<>>
      <3>1. Len(t) > 0
        BY <2>2, <2>4, EmptySeq
      <3>2. \A m, k \in Nat : k = m - 1 /\ k > 0 => m # 1
        OBVIOUS
      <3>3. Len(t) \in Nat
        BY <2>2, LenProperties
      <3>4. Len(air) # 1
        BY <1>2, <2>2, <3>1, <3>2, <3>3
      <3> QED
        BY <2>1, <2>4, <3>4
    <2> QED
      BY <2>3, <2>4
  <1>5. \A i \in 1..Len(Tail(air)) : i + 1 \in 2..Len(air)
    BY <1>2, <1>3
  <1> QED
    BY <1>1, <1>2, <1>3, <1>4, <1>5

\* What remains of a foreign train is still the rest of one.
LEMMA TailComing ==
    ASSUME NEW air \in Seq(Compounds), air # <<>>, NEW m, Coming(air, m)
    PROVE  Coming(Tail(air), m)
  <1>1. PICK t : t = Tail(air)
    OBVIOUS
  <1>2. /\ t \in Seq(Compounds) /\ Len(t) = Len(air) - 1 /\ Len(air) \in Nat /\ Len(air) > 0
        /\ \A i \in 1..Len(t) : i + 1 \in 2..Len(air) /\ t[i] = air[i + 1]
    BY <1>1, TailFacts
  <1>3. ASSUME NEW i \in 1..Len(t)
        PROVE  /\ t[i].single = t[1].single
               /\ t[i].time > 0
               /\ t[i].kind = "frame"
               /\ t[i].single => i = Len(t) /\ t[i].entries = <<>>
               /\ ~t[i].single =>
                    /\ t[i].time = 1
                    /\ t[i].final <=> i = Len(t)
                    /\ \A k \in 1..Len(t[i].entries) : t[i].entries[k].id < 0
               /\ ~t[i].single => t[i].train = -m /\ m > 0
    <2>1. PICK j \in 2..Len(air) : j = i + 1 /\ t[i] = air[j]
      BY <1>2
    <2>2. j \in 1..Len(air) /\ j # 1 /\ (j = Len(air) <=> i = Len(t))
      BY <1>2, <2>1
    <2>3. /\ air[j].single = air[1].single /\ air[j].time > 0
          /\ air[j].kind \in {"preamble", "frame"}
          /\ air[j].kind = "preamble" => j = 1
          /\ air[j].kind = "frame" /\ air[j].single => j = Len(air) /\ air[j].entries = <<>>
          /\ air[j].kind = "frame" /\ ~air[j].single =>
               /\ air[j].time = 1
               /\ air[j].final <=> j = Len(air)
               /\ \A k \in 1..Len(air[j].entries) : air[j].entries[k].id < 0
          /\ ~air[j].single => air[j].train = -m /\ m > 0
      BY <2>2 DEF Coming
    <2>4. t[1].single = air[1].single
      <3>1. 1 \in 1..Len(t)
        BY <1>2
      <3>2. t[1] = air[1 + 1] /\ 1 + 1 \in 1..Len(air)
        BY <1>2, <3>1
      <3> QED
        BY <3>2 DEF Coming
    <2> QED
      BY <2>1, <2>2, <2>3, <2>4
  <1>4. Coming(t, m)
    BY <1>3 DEF Coming
  <1> QED
    BY <1>1, <1>4

LEMMA ForeignEndsInv == ASSUME Inv, ForeignEnds PROVE Inv'
  <1>1. /\ foreign.air # <<>> /\ foreign.left = 0
        /\ foreign' = [foreign EXCEPT !.air = Tail(@),
                         !.left = IF Tail(foreign.air) = <<>> THEN 0
                                  ELSE foreign.air[2].time]
        /\ Receive("foreign", Head(foreign.air))
        /\ UNCHANGED <<sender, phy>>
    BY DEF ForeignEnds
  <1>2. Collected' /\ Passed' = Passed
    BY <1>1 DEF Inv, Collected, Passed, sender
  <1>3. Stages' /\ Gone' = Gone /\ Moved("own")
    BY <1>1, <1>2, StagesKept DEF Inv, sender
  <1>4. PICK air, m : air = foreign.air /\ m = foreign.trains
    OBVIOUS
  <1>5. /\ foreign \in [air : Seq(Compounds), left : Nat, trains : Nat]
        /\ air \in Seq(Compounds) /\ m \in Nat /\ air # <<>> /\ Coming(air, m)
    BY <1>1, <1>4 DEF Inv, ForeignStages
  <1>6. PICK t, l : t = Tail(air) /\ l = IF t = <<>> THEN 0 ELSE air[2].time
    OBVIOUS
  <1>7. foreign' = [air |-> t, left |-> l, trains |-> m]
    <2>1. PICK l0 : foreign = [air |-> air, left |-> l0, trains |-> m]
      BY <1>4, <1>5
    <2>2. foreign' = [foreign EXCEPT !.air = t, !.left = l]
      BY <1>1, <1>4, <1>6
    <2> QED
      BY <2>1, <2>2
  <1>8. PICK c : c = air[1]
    OBVIOUS
  <1>9. /\ Head(air) = c /\ c \in Compounds /\ Len(air) \in Nat /\ Len(air) > 0
        /\ t \in Seq(Compounds) /\ Len(t) = Len(air) - 1
        /\ t = <<>> <=> Len(air) = 1
        /\ Len(air) > 1 => t[1] = air[2] /\ 2 \in 1..Len(air) /\ air[2] \in Compounds
                            /\ air[2].time \in Nat
        /\ Len(air) = 1 \/ Len(air) > 1
    <2>1. Len(air) > 1 => t[1] = air[2] /\ 2 \in 1..Len(air)
      <3>1. ASSUME Len(air) > 1 PROVE 1 \in 1..Len(Tail(air))
        BY <1>5, <3>1, TailFacts
      <3>2. ASSUME Len(air) > 1 PROVE t[1] = air[1 + 1] /\ 1 + 1 \in 2..Len(air)
        BY <1>5, <1>6, <3>1, <3>2, TailFacts
      <3>3. 1 + 1 = 2 /\ \A i \in 2..Len(air) : i \in 1..Len(air)
        BY <1>5, TailFacts
      <3> QED
        BY <3>2, <3>3
    <2>2. Len(air) > 1 => air[2] \in Compounds /\ air[2].time \in Nat
      <3>1. \A d \in Compounds : d.time \in Nat
        BY DEF Compounds
      <3> QED
        BY <1>5, <2>1, <3>1, ElementOfSeq
    <2>3. /\ Head(air) = c /\ c \in Compounds /\ Len(air) \in Nat /\ Len(air) > 0
          /\ t \in Seq(Compounds) /\ Len(t) = Len(air) - 1
          /\ t = <<>> <=> Len(air) = 1
      BY <1>5, <1>6, <1>8, TailFacts
    <2>4. Len(air) = 1 \/ Len(air) > 1
      BY <2>3
    <2> QED
      BY <2>1, <2>2, <2>3, <2>4
  <1>10. 1 \in 1..Len(air)
    BY <1>9
  <1>11. Receive("foreign", c)
    BY <1>1, <1>4, <1>9
  <1>12. ForeignStages'
    <2>1. l \in Nat
      BY <1>6, <1>9
    <2>2. Coming(t, m)
      BY <1>5, <1>6, TailComing
    <2>3. foreign'.air = t /\ foreign'.left = l /\ foreign'.trains = m
          /\ foreign' \in [air : Seq(Compounds), left : Nat, trains : Nat]
      BY <1>5, <1>7, <1>9, <2>1
    <2> QED
      BY <1>6, <2>2, <2>3 DEF ForeignStages
  <1>13. Due("foreign") /\ (Flying("foreign") <=> c.kind # "preamble")
         /\ Left("foreign") = Len(air) - 1 /\ Single("foreign") = c.single
         /\ Train("foreign") = c.train
    BY <1>1, <1>4, <1>5, <1>8, <1>9 DEF Due, Flying, Left, Single, Train
  <1>14. (t = <<>> => ~Flying("foreign")' /\ ~Due("foreign")')
         /\ (Flying("foreign")' <=> t # <<>> /\ t[1].kind # "preamble")
         /\ Left("foreign")' = l + Len(t) - 1
         /\ Single("foreign")' = t[1].single /\ Train("foreign")' = t[1].train
    BY <1>7 DEF Due, Flying, Left, Single, Train
  <1>15. /\ c.time > 0 /\ c.kind \in {"preamble", "frame"}
         /\ c.kind = "preamble" => Len(air) > 1
         /\ c.kind = "preamble" =>
              c.span = IF c.single THEN air[2].time ELSE Len(air) - 1
         /\ c.kind = "frame" /\ c.single => 1 = Len(air) /\ c.entries = <<>>
         /\ c.kind = "frame" /\ ~c.single =>
              /\ c.final <=> 1 = Len(air)
              /\ \A k \in 1..Len(c.entries) : c.entries[k].id < 0
         /\ ~c.single => c.train = -m /\ m > 0
    BY <1>5, <1>8, <1>10 DEF Coming
  <1>16. ASSUME Len(air) > 1
         PROVE  /\ t # <<>> /\ t[1].kind = "frame" /\ t[1].single = c.single
                /\ l = air[2].time /\ l \in Nat
                /\ t[1].single => Len(air) = 2
                /\ ~t[1].single => l = 1 /\ t[1].train = -m
    <2>1. t[1] = air[2] /\ 2 \in 1..Len(air) /\ t # <<>> /\ l = air[2].time /\ l \in Nat
      <3>1. Len(air) # 1
        BY <1>9, <1>16
      <3> QED
        BY <1>6, <1>9, <1>16, <3>1
    <2>2. /\ air[2].single = air[1].single
          /\ air[2].kind \in {"preamble", "frame"}
          /\ air[2].kind = "preamble" => 2 = 1
          /\ air[2].kind = "frame" /\ air[2].single => 2 = Len(air)
          /\ air[2].kind = "frame" /\ ~air[2].single => air[2].time = 1
          /\ ~air[2].single => air[2].train = -m
      BY <1>5, <2>1 DEF Coming
    <2> QED
      BY <1>8, <2>1, <2>2
  <1>17. "foreign" \in Senders
    BY DEF Senders
  <1>18. Gone \in Nat /\ Gone' \in Nat /\ Gone <= Gone'
    <2>1. Passed \in Nat
      BY PassedNat DEF Inv
    <2>2. Gone \in 0..Passed
      BY GoneInt DEF Inv
    <2> QED
      BY <1>3, <2>1, <2>2
  <1>19. ASSUME c.kind = "preamble" PROVE Announces("foreign", c) /\ Moved("foreign")
    <2>1. Len(air) > 1
      BY <1>15, <1>19
    <2>2. Begins("foreign") /\ Flying("foreign")'
      BY <1>13, <1>14, <1>16, <1>19, <2>1 DEF Begins
    <2>3. l + Len(t) - 1 = c.span
      <3>1. CASE c.single
        <4>1. Len(t) = 1
          <5>1. Len(air) = 2
            BY <1>16, <2>1, <3>1
          <5> QED
            BY <1>9, <5>1
        <4>2. l + 1 - 1 = l
          BY <1>16, <2>1
        <4> QED
          BY <1>15, <1>16, <1>19, <2>1, <3>1, <4>1, <4>2
      <3>2. CASE ~c.single
        <4>1. l = 1 /\ Len(t) = Len(air) - 1 /\ c.span = Len(air) - 1
          BY <1>9, <1>15, <1>16, <1>19, <2>1, <3>2
        <4>2. 1 + (Len(air) - 1) - 1 = Len(air) - 1
          BY <1>9
        <4> QED
          BY <4>1, <4>2
      <3> QED
        BY <3>1, <3>2
    <2>4. ASSUME ~c.single
          PROVE  Train("foreign")' = c.train /\ c.train \in Int \ {0} /\ Origin(c.train) = "foreign"
      <3>1. c.train = -m /\ m > 0 /\ t[1].train = -m
        BY <1>15, <1>16, <2>1, <2>4
      <3>2. c.train \in Int \ {0} /\ ~(c.train > 0)
        BY <1>5, <3>1
      <3> QED
        BY <1>14, <3>1, <3>2 DEF Origin
    <2>5. Single("foreign")' = c.single
      BY <1>14, <1>16, <2>1
    <2> QED
      BY <1>3, <1>14, <2>2, <2>3, <2>4, <2>5 DEF Announces, Moved
  <1>20. ASSUME c.kind = "frame" PROVE Brings("foreign", c) /\ Moved("foreign")
    <2>1. Flying("foreign")
      BY <1>13, <1>20
    <2>2. CASE Len(air) = 1
      <3>1. Lands("foreign")
        BY <1>9, <1>13, <1>14, <2>1, <2>2 DEF Lands
      <3>2. ~c.single => c.final
        BY <1>15, <1>20, <2>2
      <3>3. ~c.single => /\ c.train < 0 /\ c.train \in Int /\ c.entries \in Seq(Frames)
                         /\ \A k \in 1..Len(c.entries) : c.entries[k].id < 0
        BY <1>5, <1>9, <1>15, <1>20 DEF Compounds
      <3> QED
        BY <1>13, <1>15, <1>20, <2>1, <3>1, <3>2, <3>3 DEF Brings, Moved
    <2>3. CASE Len(air) # 1
      <3>1. Len(air) > 1
        BY <1>9, <2>3
      <3>2. ~c.single /\ ~c.final
        BY <1>15, <1>20, <2>3
      <3>3. GoesOn("foreign")
        <4>1. l = 1 /\ t[1].train = c.train /\ Len(t) = Len(air) - 1
          BY <1>9, <1>15, <1>16, <3>1, <3>2
        <4>2. 1 + (Len(air) - 1) - 1 = Len(air) - 1
          BY <1>9
        <4>3. Flying("foreign")' /\ Single("foreign")' = Single("foreign")
          BY <1>13, <1>14, <1>16, <3>1
        <4> QED
          BY <1>13, <1>14, <2>1, <4>1, <4>2, <4>3 DEF GoesOn
      <3>4. /\ c.train < 0 /\ c.train \in Int /\ c.entries \in Seq(Frames)
            /\ \A k \in 1..Len(c.entries) : c.entries[k].id < 0
        BY <1>5, <1>9, <1>15, <1>20, <3>2 DEF Compounds
      <3> QED
        BY <1>13, <2>1, <3>2, <3>3, <3>4 DEF Brings, Moved
    <2> QED
      BY <2>2, <2>3
  <1>21. \A w \in Senders : Moved(w)
    BY <1>3, <1>15, <1>19, <1>20 DEF Senders
  <1>22. Locked' /\ Filled' /\ Kept' /\ broken' = FALSE
    BY <1>9, <1>11, <1>17, <1>18, <1>19, <1>20, <1>21, Received DEF Inv
  <1> QED
    BY <1>2, <1>3, <1>12, <1>22 DEF Inv

\* A train in the air has time left, or ends now.
LEMMA OwnFlying ==
    ASSUME Collected, Stages, Flying("own")
    PROVE  \E c \in Compounds :
             /\ Cargo(c) /\ Single("own") = c.single /\ Train("own") = c.train
             /\ \/ Training(c) /\ Left("own") = phy.left + FieldsLeft + c.time /\ c.time > 0
                \/ \E n \in 0..c.time :
                     \/ FragmentDue(c, n) /\ Left("own") = 1 + c.time - n
                     \/ FragmentOnAir(c, n) /\ Left("own") = phy.left + c.time - n
                     \/ FragmentOver(c, n) /\ Left("own") = c.time - n /\ n < c.time
  <1>1. Passed \in Nat
    BY PassedNat
  <1>2. Views
    BY StageViews
  <1>3. ~Idle
    BY <1>1, <1>2 DEF Views, Resting
  <1>4. ASSUME NEW c PROVE ~(Ready(c) \/ PreambleQueued(c) \/ PreambleDue(c) \/ PreambleStarted(c))
                           /\ ~PreambleOnAir(c)
    BY <1>1, <1>2 DEF Views, Resting
  <1>5. ASSUME NEW c \in Compounds, Training(c)
        PROVE  /\ Cargo(c) /\ Single("own") = c.single /\ Train("own") = c.train
               /\ Left("own") = phy.left + FieldsLeft + c.time /\ c.time > 0
    <2>1. Cargo(c)
      BY <1>5 DEF Training, Below
    <2> QED
      BY <1>1, <1>2, <1>5, <2>1 DEF Views, Airborne
  <1>6. ASSUME NEW c \in Compounds, NEW n \in Nat,
               FragmentDue(c, n) \/ FragmentOnAir(c, n) \/ FragmentOver(c, n)
        PROVE  /\ Cargo(c) /\ Single("own") = c.single /\ Train("own") = c.train
               /\ n \in 0..c.time
               /\ \/ FragmentDue(c, n) /\ Left("own") = 1 + c.time - n
                  \/ FragmentOnAir(c, n) /\ Left("own") = phy.left + c.time - n
                  \/ FragmentOver(c, n) /\ Left("own") = c.time - n /\ n < c.time
    <2>1. Cargo(c) /\ n \in 0..Len(Fragments(c))
          /\ (FragmentOver(c, n) => n < Len(Fragments(c)))
      BY <1>6 DEF FragmentDue, FragmentOnAir, FragmentOver, Below
    <2>2. Len(Fragments(c)) = c.time
      BY <1>1, <2>1, FragmentFacts
    <2> QED
      BY <1>1, <1>2, <1>6, <2>1, <2>2 DEF Views, Airborne
  <1> QED
    BY <1>3, <1>4, <1>5, <1>6 DEF Stages

LEMMA FlyingFacts ==
    ASSUME Collected, Stages, ForeignStages, NEW who \in Senders, Flying(who)
    PROVE  /\ Left(who) \in Nat /\ (Left(who) = 0 => Due(who))
           /\ ~Single(who) => /\ Train(who) \in Int /\ Train(who) # 0
                              /\ Origin(Train(who)) = who
  <1>1. Passed \in Nat
    BY PassedNat
  <1>2. CASE who = "own"
    <2>1. PICK c \in Compounds :
            /\ Cargo(c) /\ Single("own") = c.single /\ Train("own") = c.train
            /\ \/ Training(c) /\ Left("own") = phy.left + FieldsLeft + c.time /\ c.time > 0
               \/ \E n \in 0..c.time :
                    \/ FragmentDue(c, n) /\ Left("own") = 1 + c.time - n
                    \/ FragmentOnAir(c, n) /\ Left("own") = phy.left + c.time - n
                    \/ FragmentOver(c, n) /\ Left("own") = c.time - n /\ n < c.time
      BY <1>2, OwnFlying
    <2>2. c.time \in Nat /\ (~c.single => c.train \in Nat /\ c.train > 0)
      BY <1>1, <2>1, CargoFacts
    <2>3. ~Single("own") => /\ Train("own") \in Int /\ Train("own") # 0
                            /\ Origin(Train("own")) = "own"
      BY <2>1, <2>2 DEF Origin
    <2>4. CASE Training(c) /\ Left("own") = phy.left + FieldsLeft + c.time /\ c.time > 0
      <3>1. phy.left \in Nat
        <4>1. phy = NoTransmission => phy.left = 0
          BY DEF NoTransmission
        <4>2. FieldOnAir => phy.left \in 0..1
          BY DEF FieldOnAir
        <4> QED
          BY <2>4, <4>1, <4>2 DEF Training
      <3>2. FieldsLeft \in Nat
        BY <2>4 DEF Training, Fields, FieldsLeft
      <3>3. \A a, b, d \in Nat : d > 0 => a + b + d \in Nat /\ a + b + d # 0
        OBVIOUS
      <3> QED
        BY <1>2, <2>2, <2>3, <2>4, <3>1, <3>2, <3>3
    <2>5. ASSUME NEW n \in 0..c.time, FragmentDue(c, n), Left("own") = 1 + c.time - n
          PROVE  Left("own") \in Nat /\ Left("own") # 0
      BY <2>2, <2>5
    <2>6. ASSUME NEW n \in 0..c.time, FragmentOnAir(c, n), Left("own") = phy.left + c.time - n
          PROVE  Left("own") \in Nat /\ (Left("own") = 0 => Due("own"))
      <3>1. phy.left \in 0..1
        BY <2>6 DEF FragmentOnAir
      <3>2. n \in Nat
        OBVIOUS
      <3>3. Due("own") <=> phy.left = 0
        BY <1>1, <2>6, <3>2, StageViews DEF Views
      <3> QED
        BY <2>2, <2>6, <3>1, <3>3
    <2>7. ASSUME NEW n \in 0..c.time, FragmentOver(c, n), Left("own") = c.time - n, n < c.time
          PROVE  Left("own") \in Nat /\ Left("own") # 0
      BY <2>2, <2>7
    <2> QED
      BY <1>2, <2>1, <2>3, <2>4, <2>5, <2>6, <2>7
  <1>3. CASE who = "foreign"
    <2>1. foreign.air # <<>> /\ foreign.left \in Nat /\ foreign.air \in Seq(Compounds)
          /\ foreign.trains \in Nat /\ Coming(foreign.air, foreign.trains)
      BY <1>3 DEF Flying, ForeignStages
    <2>2. Len(foreign.air) \in Nat /\ Len(foreign.air) > 0
      BY <2>1, TailFacts
    <2>3. 1 \in 1..Len(foreign.air)
      BY <2>2
    <2>4. ~foreign.air[1].single => foreign.air[1].train = -foreign.trains /\ foreign.trains > 0
      BY <2>1, <2>3 DEF Coming
    <2>5. Left(who) = foreign.left + Len(foreign.air) - 1 /\ Single(who) = foreign.air[1].single
          /\ Train(who) = foreign.air[1].train /\ (Due(who) <=> foreign.left = 0)
      BY <1>3, <2>1 DEF Left, Single, Train, Due
    <2>6. Left(who) \in Nat /\ (Left(who) = 0 => Due(who))
      <3>1. \A a, b \in Nat : b > 0 => /\ a + b - 1 \in Nat
                                       /\ (a + b - 1 = 0 => a = 0)
        OBVIOUS
      <3> QED
        BY <2>1, <2>2, <2>5, <3>1
    <2>7. ~Single(who) => Train(who) \in Int /\ Train(who) # 0 /\ ~(Train(who) > 0)
      BY <2>1, <2>4, <2>5
    <2> QED
      BY <1>3, <2>6, <2>7 DEF Origin
  <1> QED
    BY <1>2, <1>3 DEF Senders

LEMMA DeAggregationOnTimeoutInv ==
    ASSUME Inv, ~AirDue, DeAggregationOnTimeout PROVE Inv'
  <1>1. /\ rx.timer = 0 /\ delivered' = delivered \o rx.entries /\ rx' = NoContainer
        /\ UNCHANGED <<sender, phy, foreign, lock, heard, broken>>
    BY DEF DeAggregationOnTimeout, Deliver
  <1>2. Collected' /\ Passed' = Passed /\ broken' = FALSE
    BY <1>1 DEF Inv, Collected, Passed, sender
  <1>3. Stages' /\ Gone' = Gone
    BY <1>1, <1>2, StagesKept DEF Inv, sender
  <1>4. ForeignStages'
    BY <1>1 DEF Inv, ForeignStages
  <1>5. \A who \in Senders : ~Due(who)
    BY DEF AirDue, Due, Senders
  <1>6. /\ Flying("own")' <=> Flying("own")
        /\ Left("own")' = Left("own") /\ (Due("own")' <=> Due("own"))
        /\ Single("own")' = Single("own")
    BY <1>1, OwnWaits DEF sender
  <1>7. /\ Flying("foreign")' <=> Flying("foreign")
        /\ Left("foreign")' = Left("foreign") /\ (Due("foreign")' <=> Due("foreign"))
        /\ Single("foreign")' = Single("foreign")
    BY <1>1, ForeignWaits
  \* A station whose container has expired has no train in the air.
  <1>8. ASSUME NEW who \in Senders, lock.who = who, Flying(who) PROVE Single(who)
    <2>1. SUFFICES ASSUME ~Single(who) PROVE FALSE
      OBVIOUS
    <2>2. rx.train = Train(who)
      BY <1>8, <2>1 DEF Inv, Locked
    <2>3. Train(who) \in Int /\ Origin(Train(who)) = who /\ Left(who) \in Nat
          /\ (Left(who) = 0 => Due(who))
      BY <1>8, <2>1, FlyingFacts DEF Inv
    <2>4. rx.train # None
      BY <2>2, <2>3, NoneAssumption
    <2>5. rx.timer = Left(who)
      BY <1>8, <2>2, <2>3, <2>4 DEF Inv, Filled
    <2> QED
      BY <1>1, <1>5, <2>3, <2>5
  <1>9. ASSUME NEW who \in Senders, lock'.who = who
        PROVE  IF Flying(who)'
               THEN lock'.left = Left(who)' /\ (~Single(who)' => rx'.train = Train(who)')
               ELSE lock'.left = 0 /\ ~Due(who)'
    <2>1. lock.who = who /\ lock'.left = lock.left
      BY <1>1, <1>9
    <2>2. IF Flying(who) THEN lock.left = Left(who) /\ Single(who) ELSE lock.left = 0 /\ ~Due(who)
      BY <1>8, <2>1 DEF Inv, Locked
    <2> QED
      BY <1>6, <1>7, <2>1, <2>2 DEF Senders
  <1>10. Locked'
    BY <1>1, <1>9 DEF Inv, Locked
  <1>11. rx'.train = None /\ rx'.entries = <<>> /\ NoContainer' = NoContainer
         /\ rx' \in [train : Int \cup {None}, entries : Seq(Frames), timer : Int]
    BY <1>1, EmptySeq DEF NoContainer, Off
  <1>12. Filled'
    <2>1. None # 0
      BY NoneAssumption
    <2> QED
      BY <1>1, <1>11, <2>1 DEF Filled
  <1>13. Kept'
    <2>1. heard \in Seq(Frames) /\ heard = delivered \o rx.entries
          /\ Increasing(heard) /\ \A i \in 1..Len(heard) : heard[i].id <= Gone
      BY DEF Inv, Kept
    <2>2. delivered' = heard /\ heard' = heard
      BY <1>1, <2>1
    <2>3. heard' = delivered' \o rx'.entries
      <3>1. heard \o <<>> = heard
        BY <2>1, ConcatEmptySeq
      <3> QED
        BY <1>11, <2>2, <3>1
    <2>4. \A i \in 1..Len(rx'.entries) : FALSE
      BY <1>11
    <2>5. /\ heard' \in Seq(Frames) /\ delivered' \in Seq(Frames)
          /\ Increasing(heard') /\ \A i \in 1..Len(heard') : heard'[i].id <= Gone'
      BY <1>3, <2>1, <2>2
    <2> QED
      BY <2>3, <2>4, <2>5 DEF Kept
  <1> QED
    BY <1>2, <1>3, <1>4, <1>10, <1>12, <1>13 DEF Inv

LEMMA LockEndsInv == ASSUME Inv, LockEnds PROVE Inv'
  <1>1. /\ lock' = [who |-> None, left |-> Off]
        /\ UNCHANGED <<sender, phy, foreign, rx, heard, delivered, broken>>
    BY DEF LockEnds
  <1>2. Collected' /\ Passed' = Passed /\ broken' = FALSE
    BY <1>1 DEF Inv, Collected, Passed, sender
  <1>3. Stages' /\ Gone' = Gone /\ Moved("own")
    BY <1>1, <1>2, StagesKept DEF Inv, sender
  <1>4. ForeignStages'
    BY <1>1 DEF Inv, ForeignStages
  <1>5. \A who \in Senders : None # who
    BY NoneAssumption DEF Senders
  <1>6. Locked'
    <2>1. lock'.who = None /\ lock'.left = Off
          /\ lock' \in [who : Senders \cup {None}, left : Int]
      BY <1>1 DEF Off
    <2> QED
      BY <1>5, <2>1 DEF Locked
  <1>7. Moved("foreign")
    BY <1>1, ForeignWaits
  <1>8. ASSUME NEW w \in Senders, rx'.train # None, Origin(rx'.train) = w
        PROVE  IF Flying(w)'
               THEN rx'.timer = Left(w)' /\ rx'.train = Train(w)' /\ ~Single(w)'
               ELSE rx'.timer = 0 /\ ~Due(w)'
    <2>1. Moved(w)
      BY <1>3, <1>7 DEF Senders
    <2> QED
      BY <1>1, <1>8, <2>1, ContainerKept DEF Inv
  <1>9. Filled'
    BY <1>1, <1>8 DEF Inv, Filled
  <1>10. Kept'
    BY <1>1, <1>3, KeptSame DEF Inv
  <1> QED
    BY <1>2, <1>3, <1>4, <1>6, <1>9, <1>10 DEF Inv

\* Time passes for the sender only when something is on the air.
LEMMA OwnTicks ==
    ASSUME Collected, Stages, ~AirDue, UnitsSettled, UNCHANGED sender,
           phy' = [phy EXCEPT !.left = Down(@)]
    PROVE  /\ Stages' /\ Gone' = Gone
           /\ Flying("own")' <=> Flying("own")
           /\ Single("own")' = Single("own") /\ Train("own")' = Train("own")
           /\ Flying("own") => Left("own")' = Left("own") - 1
  <1>1. Passed \in Nat /\ Passed' = Passed
    BY PassedNat DEF Passed, sender
  <1>2. UNCHANGED <<pg, deagg, ltf>>
    BY DEF sender
  <1>3. \A c : Cargo(c) <=> Cargo(c)'
    BY <1>1, CargoKept
  <1>4. phy.compound # None => phy.left # 0
    BY DEF AirDue
  <1>5. ASSUME NEW S, phy \in [compound : S, left : 0..1], phy.compound # None
        PROVE  /\ phy' \in [compound : S, left : 0..1] /\ phy'.compound = phy.compound
               /\ phy'.left = phy.left - 1 /\ phy.left = 1
    <2>1. PICK p \in S, l \in 0..1 : phy = [compound |-> p, left |-> l]
      BY <1>5
    <2>2. l = 1
      BY <1>4, <1>5, <2>1
    <2>3. Down(l) = 0
      BY <2>2 DEF Down
    <2>4. phy' = [compound |-> p, left |-> 0]
      BY <2>1, <2>3
    <2> QED
      BY <2>1, <2>2, <2>4
  <1>6. CASE phy = NoTransmission
    <2>1. phy' = phy
      <3>1. phy = [compound |-> None, left |-> 0] /\ Down(0) = 0
        BY <1>6 DEF NoTransmission, Down
      <3> QED
        BY <3>1
    <2>2. Stages' /\ Gone' = Gone
      BY <1>1, <1>2, <2>1, StagesKept
    <2>3. /\ Flying("own")' <=> Flying("own")
          /\ Single("own")' = Single("own") /\ Train("own")' = Train("own")
      BY <1>2, <2>1, OwnWaits
    <2>4. ~Flying("own")
      <3>1. SUFFICES ASSUME Flying("own") PROVE FALSE
        OBVIOUS
      <3>2. phy.compound = None
        BY <1>6 DEF NoTransmission
      <3>3. ltf.compound = None /\ deagg.queue = <<>>
        BY <3>2 DEF UnitsSettled, DeAggregationSettled, LTFSettled, LTFHasCapacity
      <3>4. PICK c \in Compounds :
              /\ Cargo(c)
              /\ \/ Training(c) /\ c.time > 0
                 \/ \E n \in 0..c.time :
                      \/ FragmentDue(c, n)
                      \/ FragmentOnAir(c, n)
                      \/ FragmentOver(c, n) /\ n < c.time
        BY <3>1, OwnFlying
      <3>5. c.time \in Nat /\ Len(Fragments(c)) = c.time
        BY <1>1, <3>4, CargoFacts, FragmentFacts
      <3>6. CASE Training(c) /\ c.time > 0
        <4>1. Below(c, 0, TRUE)
          BY <3>6 DEF Training
        <4>2. 0 = c.time
          BY <1>1, <3>3, <4>1, BelowFacts
        <4> QED
          BY <3>5, <3>6, <4>2
      <3>7. ASSUME NEW n \in 0..c.time, FragmentDue(c, n) \/ FragmentOnAir(c, n) PROVE FALSE
        <4>1. n \in 1..c.time /\ (ltf.compound = Fragments(c)[n] \/ phy.compound = Fragments(c)[n])
          <5>1. n > 0
            BY <3>7 DEF FragmentDue, FragmentOnAir
          <5>2. n \in 1..c.time
            BY <3>5, <5>1
          <5>3. FragmentDue(c, n) => ltf.compound = Fragments(c)[n]
            BY DEF FragmentDue
          <5>4. FragmentOnAir(c, n) => phy.compound = Fragments(c)[n]
            BY DEF FragmentOnAir
          <5> QED
            BY <3>7, <5>2, <5>3, <5>4
        <4>2. Fragments(c)[n] \in Compounds
          BY <1>1, <3>4, <4>1, FragmentFacts
        <4> QED
          BY <3>2, <3>3, <4>1, <4>2, CompoundsAreSome
      <3>8. ASSUME NEW n \in 0..c.time, FragmentOver(c, n), n < c.time PROVE FALSE
        <4>1. Below(c, n, FALSE)
          BY <3>8 DEF FragmentOver
        <4>2. n = c.time
          BY <1>1, <3>3, <4>1, BelowFacts
        <4> QED
          BY <3>5, <3>8, <4>2
      <3> QED
        BY <3>4, <3>6, <3>7, <3>8
    <2> QED
      BY <2>2, <2>3, <2>4
  <1>7. ASSUME phy.compound # None, NEW S, phy \in [compound : S, left : 0..1]
        PROVE  /\ Gone' = Gone
               /\ Flying("own")' <=> Flying("own")
               /\ Single("own")' = Single("own") /\ Train("own")' = Train("own")
               /\ Flying("own") => Left("own")' = Left("own") - 1
    <2>1. phy'.compound = phy.compound /\ phy'.left = phy.left - 1 /\ phy.left = 1
      BY <1>5, <1>7
    <2>2. Gone' = Gone
      BY <1>1, <1>2, <2>1 DEF Gone
    <2>3. /\ Flying("own")' <=> Flying("own")
          /\ Single("own")' = Single("own") /\ Train("own")' = Train("own")
      BY <1>2, <2>1 DEF Flying, Single, Train
    <2>4. ASSUME Flying("own") PROVE Left("own")' = Left("own") - 1
      <3>1. Left("own") \in Nat
        <4>1. PICK c \in Compounds :
            /\ Cargo(c)
            /\ \/ Training(c) /\ Left("own") = phy.left + FieldsLeft + c.time /\ c.time > 0
               \/ \E n \in 0..c.time :
                    \/ FragmentDue(c, n) /\ Left("own") = 1 + c.time - n
                    \/ FragmentOnAir(c, n) /\ Left("own") = phy.left + c.time - n
                    \/ FragmentOver(c, n) /\ Left("own") = c.time - n /\ n < c.time
          BY <2>4, OwnFlying
        <4>2. c.time \in Nat
          BY <1>1, <4>1, CargoFacts
        <4>3. Training(c) => FieldsLeft \in Nat
          BY DEF Training, Fields, FieldsLeft
        <4> QED
          BY <2>1, <4>1, <4>2, <4>3
      <3>2. Left("own") = phy.left + FieldsLeft + Len(deagg.queue)
            /\ Left("own")' = phy'.left + FieldsLeft + Len(deagg.queue)
        BY <1>2 DEF Left, FieldsLeft
      <3>3. FieldsLeft \in Nat /\ Len(deagg.queue) \in Nat
        <4>1. Fields \/ ltf = NoField
          <5>1. PICK c \in Compounds : Training(c) \/ \E n \in 0..c.time :
                   FragmentDue(c, n) \/ FragmentOnAir(c, n) \/ FragmentOver(c, n)
            BY <2>4, OwnFlying
          <5>2. \A n : ~FragmentDue(c, n) /\ ~FragmentOver(c, n)
            <6>1. phy # NoTransmission
              BY <1>7 DEF NoTransmission
            <6> QED
              BY <6>1 DEF FragmentDue, FragmentOver
          <5> QED
            BY <5>1, <5>2 DEF Training, FragmentOnAir
        <4>2. FieldsLeft \in Nat
          BY <4>1 DEF Fields, NoField, FieldsLeft
        <4>3. deagg.queue \in Seq(Compounds)
          <5>1. PICK c \in Compounds : Cargo(c) /\ (Training(c) \/ \E n \in 0..c.time :
                   FragmentDue(c, n) \/ FragmentOnAir(c, n) \/ FragmentOver(c, n))
            BY <2>4, OwnFlying
          <5>2. 0 \in 0..c.time
            BY <1>1, <5>1, CargoFacts
          <5>3. PICK n \in 0..c.time :
                  deagg.queue = SubSeq(Fragments(c), n + 1, Len(Fragments(c)))
            BY <5>1, <5>2 DEF Training, FragmentDue, FragmentOnAir, FragmentOver, Below
          <5> QED
            BY <1>1, <5>1, <5>3, QueueFacts
        <4> QED
          BY <4>2, <4>3, LenProperties
      <3>4. \A a, b \in Nat : 0 + a + b = 1 + a + b - 1
        OBVIOUS
      <3>5. phy'.left = 0
        BY <2>1
      <3> QED
        BY <2>1, <3>2, <3>3, <3>4, <3>5
    <2> QED
      BY <2>2, <2>3, <2>4
  <1>8. ASSUME NEW c \in Compounds, PreambleStarted(c) PROVE FALSE
    <2>1. pg.compound = c /\ deagg.compound = None
      BY <1>8 DEF PreambleStarted, Above
    <2> QED
      BY <2>1, CompoundsAreSome DEF UnitsSettled
  <1>9. ASSUME NEW c \in Compounds, PreambleOnAir(c)
        PROVE  Stages' /\ phy.compound # None /\ \E S : phy \in [compound : S, left : 0..1]
    <2>1. /\ Below(c, 0, TRUE) /\ Fields /\ FieldsLeft = TrainingFields
          /\ phy \in [compound : {Announcement(c)}, left : 0..1]
      BY <1>9 DEF PreambleOnAir
    <2>2. Cargo(c)
      BY <2>1 DEF Below
    <2>3. phy.compound # None
      BY <1>1, <2>1, <2>2, PreambleFacts, CompoundsAreSome
    <2>4. phy' \in [compound : {Announcement(c)}, left : 0..1]
      BY <1>5, <2>1, <2>3
    <2>5. Below(c, 0, TRUE)' /\ Fields' /\ FieldsLeft' = TrainingFields
      BY <1>2, <1>3, <2>1 DEF Below, Fields, FieldsLeft
    <2>6. PreambleOnAir(c)'
      BY <2>4, <2>5 DEF PreambleOnAir
    <2>7. Stages'
      BY <2>6 DEF Stages
    <2> QED
      BY <2>1, <2>3, <2>7
  <1>10. ASSUME NEW c \in Compounds, Training(c), phy # NoTransmission
         PROVE  Stages' /\ phy.compound # None /\ \E S : phy \in [compound : S, left : 0..1]
    <2>1. /\ Below(c, 0, TRUE) /\ Fields
          /\ phy \in [compound : Compounds, left : 0..1] /\ phy.compound.kind = "ltf"
      BY <1>10 DEF Training, FieldOnAir
    <2>2. phy.compound # None
      BY <2>1, CompoundsAreSome
    <2>3. phy' \in [compound : Compounds, left : 0..1] /\ phy'.compound.kind = "ltf"
      BY <1>5, <2>1, <2>2
    <2>4. Below(c, 0, TRUE)' /\ Fields'
      BY <1>2, <1>3, <2>1 DEF Below, Fields, FieldsLeft
    <2>5. Training(c)'
      BY <2>3, <2>4 DEF Training, FieldOnAir
    <2>6. Stages'
      BY <2>5 DEF Stages
    <2> QED
      BY <2>1, <2>2, <2>6
  <1>11. ASSUME NEW c \in Compounds, NEW n \in Nat, FragmentOnAir(c, n)
         PROVE  Stages' /\ phy.compound # None /\ \E S : phy \in [compound : S, left : 0..1]
    <2>1. /\ Below(c, n, FALSE) /\ n > 0 /\ ltf = NoField
          /\ phy \in [compound : {Fragments(c)[n]}, left : 0..1]
      BY <1>11 DEF FragmentOnAir
    <2>2. Cargo(c) /\ n \in 0..c.time
      BY <1>1, <2>1, BelowFacts
    <2>3. n \in 1..c.time
      BY <2>1, <2>2
    <2>4. phy.compound # None
      BY <1>1, <2>1, <2>2, <2>3, FragmentFacts, CompoundsAreSome
    <2>5. phy' \in [compound : {Fragments(c)[n]}, left : 0..1]
      BY <1>5, <2>1, <2>4
    <2>6. Below(c, n, FALSE)' /\ ltf' = NoField
      BY <1>2, <1>3, <2>1 DEF Below
    <2>7. FragmentOnAir(c, n)'
      BY <2>1, <2>5, <2>6 DEF FragmentOnAir, NoField
    <2>8. Stages'
      BY <2>7 DEF Stages
    <2> QED
      BY <2>1, <2>4, <2>8
  <1>12. CASE phy # NoTransmission
    <2>1. Stages' /\ phy.compound # None /\ \E S : phy \in [compound : S, left : 0..1]
      BY <1>8, <1>9, <1>10, <1>11, <1>12
         DEF Stages, Idle, Ready, PreambleQueued, PreambleDue, FragmentDue, FragmentOver
    <2>2. PICK S : phy \in [compound : S, left : 0..1]
      BY <2>1
    <2> QED
      BY <1>7, <2>1, <2>2
  <1> QED
    BY <1>6, <1>12

LEMMA ForeignTicks ==
    ASSUME ForeignStages, ~AirDue, foreign' = [foreign EXCEPT !.left = Down(@)]
    PROVE  /\ ForeignStages'
           /\ Flying("foreign")' <=> Flying("foreign")
           /\ Single("foreign")' = Single("foreign") /\ Train("foreign")' = Train("foreign")
           /\ Flying("foreign") => Left("foreign")' = Left("foreign") - 1
  <1>1. PICK air \in Seq(Compounds), l \in Nat, m \in Nat :
          foreign = [air |-> air, left |-> l, trains |-> m]
    BY DEF ForeignStages
  <1>2. foreign' = [air |-> air, left |-> Down(l), trains |-> m] /\ Down(l) \in Nat
    BY <1>1 DEF Down
  <1>3. ForeignStages'
    <2>1. Coming(air, m) /\ (air = <<>> => l = 0)
      BY <1>1 DEF ForeignStages
    <2>2. air = <<>> => Down(l) = 0
      BY <2>1 DEF Down
    <2> QED
      BY <1>2, <2>1, <2>2 DEF ForeignStages
  <1>4. /\ Flying("foreign")' <=> Flying("foreign")
        /\ Single("foreign")' = Single("foreign") /\ Train("foreign")' = Train("foreign")
    BY <1>1, <1>2 DEF Flying, Single, Train
  <1>5. ASSUME Flying("foreign") PROVE Left("foreign")' = Left("foreign") - 1
    <2>1. air # <<>> /\ l # 0
      BY <1>1, <1>5 DEF Flying, AirDue
    <2>2. Down(l) = l - 1
      BY <2>1 DEF Down
    <2>3. Left("foreign") = l + Len(air) - 1 /\ Left("foreign")' = (l - 1) + Len(air) - 1
      BY <1>1, <1>2, <2>2 DEF Left
    <2>4. Len(air) \in Nat
      BY LenProperties
    <2>5. \A a, b \in Nat : (a - 1) + b - 1 = (a + b - 1) - 1
      OBVIOUS
    <2> QED
      BY <2>3, <2>4, <2>5
  <1> QED
    BY <1>3, <1>4, <1>5

LEMMA TickInv == ASSUME Inv, Tick PROVE Inv'
  <1>1. /\ ~AirDue /\ UnitsSettled /\ rx.timer # 0 /\ lock.left # 0
        /\ phy' = [phy EXCEPT !.left = Down(@)]
        /\ foreign' = [foreign EXCEPT !.left = Down(@)]
        /\ lock' = [lock EXCEPT !.left = Down(@)]
        /\ rx' = [rx EXCEPT !.timer = Down(@)]
        /\ UNCHANGED <<sender, heard, delivered, broken>>
    BY DEF Tick
  <1>2. Collected' /\ broken' = FALSE
    BY <1>1 DEF Inv, Collected, sender
  <1>3. /\ Stages' /\ Gone' = Gone
        /\ Flying("own")' <=> Flying("own")
        /\ Single("own")' = Single("own") /\ Train("own")' = Train("own")
        /\ Flying("own") => Left("own")' = Left("own") - 1
    BY <1>1, OwnTicks DEF Inv
  <1>4. /\ ForeignStages'
        /\ Flying("foreign")' <=> Flying("foreign")
        /\ Single("foreign")' = Single("foreign") /\ Train("foreign")' = Train("foreign")
        /\ Flying("foreign") => Left("foreign")' = Left("foreign") - 1
    BY <1>1, ForeignTicks DEF Inv
  <1>5. ASSUME NEW w \in Senders
        PROVE  /\ Flying(w)' <=> Flying(w)
               /\ Single(w)' = Single(w) /\ Train(w)' = Train(w)
               /\ Flying(w) => Left(w)' = Left(w) - 1
               /\ Flying(w) => Left(w) \in Nat
    <2>1. Flying(w) => Left(w) \in Nat
      BY FlyingFacts DEF Inv
    <2> QED
      BY <1>3, <1>4, <2>1 DEF Senders
  <1>6. \A n \in Nat : n # 0 => Down(n) = n - 1
    BY DEF Down
  <1>7. Down(Off) = Off
    BY DEF Down, Off
  <1>8. /\ lock \in [who : Senders \cup {None}, left : Int]
        /\ rx \in [train : Int \cup {None}, entries : Seq(Frames), timer : Int]
    BY DEF Inv, Locked, Filled
  <1>9. \A n \in Int : Down(n) \in Int
    BY DEF Down
  <1>10. /\ lock'.who = lock.who /\ lock'.left = Down(lock.left)
         /\ lock' \in [who : Senders \cup {None}, left : Int]
    BY <1>1, <1>8, <1>9
  <1>11. /\ rx'.train = rx.train /\ rx'.entries = rx.entries /\ rx'.timer = Down(rx.timer)
         /\ rx' \in [train : Int \cup {None}, entries : Seq(Frames), timer : Int]
    BY <1>1, <1>8, <1>9
  <1>12. Locked'
    <2>1. lock'.who = None => lock'.left = Off
      BY <1>7, <1>10 DEF Inv, Locked
    <2>2. ASSUME NEW w \in Senders, lock'.who = w
          PROVE  /\ Flying(w)' /\ lock'.left = Left(w)'
                 /\ ~Single(w)' => rx'.train = Train(w)'
      <3>1. Flying(w) /\ lock.left = Left(w) /\ (~Single(w) => rx.train = Train(w))
        BY <1>1, <1>10, <2>2 DEF Inv, Locked
      <3>2. lock'.left = Left(w) - 1
        BY <1>1, <1>5, <1>6, <1>10, <3>1
      <3> QED
        BY <1>5, <1>11, <3>1, <3>2
    <2> QED
      BY <1>10, <2>1, <2>2 DEF Locked
  <1>13. Filled'
    <2>1. rx'.train = None => rx' = NoContainer
      <3>1. ASSUME rx.train = None PROVE rx' = NoContainer
        <4>1. rx = [train |-> None, entries |-> <<>>, timer |-> Off]
          BY <3>1 DEF Inv, Filled, NoContainer
        <4>2. rx' = [train |-> None, entries |-> <<>>, timer |-> Off]
          BY <1>1, <1>7, <4>1
        <4> QED
          BY <4>2 DEF NoContainer
      <3> QED
        BY <1>11, <3>1
    <2>2. ASSUME NEW w \in Senders, rx'.train # None, Origin(rx'.train) = w
          PROVE  /\ Flying(w)'
                 /\ rx'.timer = Left(w)' /\ rx'.train = Train(w)' /\ ~Single(w)'
      <3>1. Flying(w) /\ rx.timer = Left(w) /\ rx.train = Train(w) /\ ~Single(w)
        BY <1>1, <1>11, <2>2 DEF Inv, Filled
      <3>2. rx'.timer = Left(w) - 1
        BY <1>1, <1>5, <1>6, <1>11, <3>1
      <3> QED
        BY <1>5, <1>11, <3>1, <3>2
    <2>3. rx'.train # 0
      BY <1>11 DEF Inv, Filled
    <2> QED
      BY <1>11, <2>1, <2>2, <2>3 DEF Filled, NoContainer
  <1>14. Kept'
    BY <1>1, <1>3, <1>11 DEF Inv, Kept
  <1> QED
    BY <1>2, <1>3, <1>4, <1>12, <1>13, <1>14 DEF Inv

-----------------------------------------------------------------------------
(* The invariant *)

LEMMA InitInv == ASSUME Init PROVE Inv
  <1>1. <<>> \in Seq(Frames) /\ Len(<<>>) = 0 /\ <<>> \in Seq(Compounds)
    BY EmptySeq
  <1>2. Collected
    <2>1. agg \in Aggregations /\ offered \in Nat /\ agg.next = <<>> /\ agg.current = <<>>
          /\ offered - 0 = 0 /\ offered = 0
      BY <1>1 DEF Init, Aggregations
    <2>2. Batch(<<>>, 0)
      BY BatchEmpty
    <2> QED
      BY <1>1, <2>1, <2>2 DEF Collected
  <1>3. Idle
    BY DEF Init, Idle, NoField, NoTransmission
  <1>4. Stages
    BY <1>3 DEF Stages
  <1>5. ForeignStages
    <2>1. foreign.air = <<>> /\ foreign.left = 0
          /\ foreign \in [air : Seq(Compounds), left : Nat, trains : Nat]
      BY <1>1 DEF Init
    <2>2. Coming(<<>>, foreign.trains)
      BY DEF Coming
    <2> QED
      BY <2>1, <2>2 DEF ForeignStages
  <1>6. Locked
    <2>1. \A who \in Senders : None # who
      BY NoneAssumption DEF Senders
    <2>2. lock.who = None /\ lock.left = Off /\ lock \in [who : Senders \cup {None}, left : Int]
      BY DEF Init, Off
    <2> QED
      BY <2>1, <2>2 DEF Locked
  <1>7. Filled
    <2>1. rx = NoContainer /\ rx.train = None /\ None # 0
          /\ rx \in [train : Int \cup {None}, entries : Seq(Frames), timer : Int]
      BY <1>1, NoneAssumption DEF Init, NoContainer, Off
    <2> QED
      BY <2>1 DEF Filled
  <1>8. Kept
    <2>1. heard = <<>> /\ delivered = <<>> /\ rx.entries = <<>>
      BY DEF Init, NoContainer
    <2>2. <<>> \o <<>> = <<>>
      BY <1>1, ConcatEmptySeq
    <2>3. \A i \in 1..Len(<<>>) : FALSE
      BY <1>1
    <2>4. Increasing(<<>>)
      BY DEF Increasing
    <2> QED
      BY <1>1, <2>1, <2>2, <2>3, <2>4 DEF Kept
  <1>9. broken = FALSE
    BY DEF Init
  <1> QED
    BY <1>2, <1>4, <1>5, <1>6, <1>7, <1>8, <1>9 DEF Inv

LEMMA NextInv == ASSUME Inv, [Next]_vars PROVE Inv'
  <1>1. ASSUME NEW to \in Receivers, NEW request \in BOOLEAN, SendData(to, request) PROVE Inv'
    BY <1>1, SendDataInv
  <1>2. CASE AggregationTimeout
    BY <1>2, AggregationTimeoutInv
  <1>3. CASE SendContainer
    BY <1>3, SendContainerInv
  <1>4. CASE SendSingle
    BY <1>4, SendSingleInv
  <1>5. CASE PreambleDown
    BY <1>5, PreambleDownInv
  <1>6. CASE DeAggregationDown
    BY <1>6, DeAggregationDownInv
  <1>7. CASE PhyDoSendData
    BY <1>7, PhyDoSendDataInv
  <1>8. CASE PhyOnTimeout
    BY <1>8, PhyOnTimeoutInv
  <1>9. ASSUME NEW n \in 1..2, NEW single \in BOOLEAN, ForeignStarts(n, single) PROVE Inv'
    BY <1>9, ForeignStartsInv
  <1>10. CASE ForeignEnds
    BY <1>10, ForeignEndsInv
  <1>11. CASE ReceiverTimers
    BY <1>11, DeAggregationOnTimeoutInv, LockEndsInv DEF ReceiverTimers
  <1>12. CASE Tick
    BY <1>12, TickInv
  <1>13. CASE UNCHANGED vars
    <2>1. UNCHANGED <<sender, phy, foreign, receiver, broken>>
      BY <1>13 DEF vars
    <2>2. ForeignStages'
      BY <2>1 DEF Inv, ForeignStages
    <2>3. Moved("foreign")
      BY <2>1, ForeignWaits
    <2> QED
      BY <2>1, <2>2, <2>3, ForeignStep
  <1> QED
    BY <1>1, <1>2, <1>3, <1>4, <1>5, <1>6, <1>7, <1>8, <1>9, <1>10, <1>11, <1>12, <1>13
       DEF Next

\* TrainInvariance: every reachable state has its sender in a stage of a
\* transmission, and the receiver's lock and container run out with the train
\* whose preamble set them (DeAggregation.cpp:74-151, 307-328).
THEOREM TrainInvariance == Spec => []Inv
  <1>1. Init => Inv
    BY InitInv
  <1>2. Inv /\ [Next]_vars => Inv'
    BY NextInv
  <1> QED
    BY <1>1, <1>2, PTL DEF Spec

\* EndsAreEnds: the end of a container is signalled only when none of it is
\* left in a unit or on the air, and no assertion of DeAggregation fails, for
\* any number of training fields (DeAggregation.cpp:307-328).
THEOREM EndsAreEnds == Spec => []EndMeansEnd
  <1>1. Inv => EndMeansEnd
    <2>1. ASSUME Inv, deagg.status = "finished" PROVE Idle
      BY <2>1, FinishedIsIdle DEF Inv
    <2>2. Idle => /\ deagg.queue = <<>> /\ deagg.compound = None
                  /\ pg.compound = None /\ ltf.compound = None /\ phy.compound = None
      BY DEF Idle, NoField, NoTransmission
    <2>3. Inv => ~broken
      BY DEF Inv
    <2> QED
      BY <2>1, <2>2, <2>3 DEF EndMeansEnd
  <1> QED
    BY <1>1, TrainInvariance, PTL

\* HeardFramesAreDelivered: what the receiver decoded it delivers, in order,
\* or holds in the one open container, whatever it loses and whoever captures
\* it (DeAggregation.cpp:74-151).
THEOREM HeardFramesAreDelivered == Spec => []HeardIsDelivered
  <1>1. Inv => HeardIsDelivered
    <2>1. ASSUME Inv
          PROVE  /\ heard = delivered \o rx.entries /\ Increasing(heard)
                 /\ \A i \in DOMAIN rx.entries : rx.entries[i].id < 0 <=> rx.train < 0
                 /\ rx.train = None => rx.entries = <<>> /\ rx.timer = Off
      <3>1. rx.entries \in Seq(Frames)
        BY <2>1 DEF Inv, Filled
      <3>2. DOMAIN rx.entries = 1..Len(rx.entries)
        BY <3>1, LenProperties
      <3> QED
        BY <2>1, <3>2 DEF Inv, Filled, Kept, NoContainer
    <2> QED
      BY <2>1 DEF HeardIsDelivered
  <1> QED
    BY <1>1, TrainInvariance, PTL

\* Numbers that go on to n.
GoesTo(w, n) == \A i \in DOMAIN w : w[i].id = n - Len(w) + i

\* Frames that wait for a preamble, or have it, and those of both containers.
LEMMA WaitingFacts ==
    ASSUME Collected, NEW a \in Seq(Frames), NEW b \in Seq(Frames), NEW c \in Seq(Frames),
           b = agg.current /\ c = agg.next, a = <<>> \/ Batch(a, Passed),
           NEW w, w = (a \o b) \o c
    PROVE  GoesTo(w, offered)
  <1>0. PICK ab : ab = a \o b
    OBVIOUS
  <1>1. w = ab \o c
    BY <1>0
  <1>2. /\ ab \in Seq(Frames) /\ Len(ab) = Len(a) + Len(b)
        /\ \A i \in 1..Len(ab) : ab[i] = IF i <= Len(a) THEN a[i] ELSE b[i - Len(a)]
    BY <1>0, ConcatProperties
  <1>21. ab \in Seq(Frames)
    BY <1>2
  <1>3. /\ w \in Seq(Frames) /\ Len(w) = Len(ab) + Len(c)
        /\ \A i \in 1..Len(w) : w[i] = IF i <= Len(ab) THEN ab[i] ELSE c[i - Len(ab)]
    BY <1>1, <1>21, ConcatProperties
  <1>4. PICK x \in Nat, y \in Nat, z \in Nat : x = Len(a) /\ y = Len(b) /\ z = Len(c)
    BY LenProperties
  <1>5. Len(ab) = x + y /\ Len(w) = (x + y) + z
    BY <1>2, <1>3, <1>4
  <1>6. offered \in Nat /\ Passed = offered - z - y
    BY <1>4 DEF Collected, Passed
  <1>7. \A i \in 1..x : a[i].id = (offered - z - y) - x + i
    <2>1. CASE a = <<>>
      BY <1>4, <2>1
    <2>2. CASE Batch(a, Passed)
      BY <1>4, <1>6, <2>2 DEF Batch
    <2> QED
      BY <2>1, <2>2
  <1>8. \A i \in 1..y : b[i].id = (offered - z) - y + i
    BY <1>4 DEF Collected, Batch
  <1>9. \A i \in 1..z : c[i].id = offered - z + i
    BY <1>4 DEF Collected, Batch
  <1>10. ASSUME NEW i \in 1..((x + y) + z) PROVE w[i].id = offered - ((x + y) + z) + i
    <2>1. CASE i <= x
      <3>1. i \in 1..Len(w) /\ i <= Len(ab) /\ i \in 1..Len(ab) /\ i \in 1..x
        BY <1>5, <2>1
      <3>2. w[i] = a[i]
        BY <1>2, <1>3, <1>4, <2>1, <3>1
      <3>3. a[i].id = (offered - z - y) - x + i
        BY <1>7, <3>1
      <3>4. (offered - z - y) - x + i = offered - ((x + y) + z) + i
        BY <1>6
      <3> QED
        BY <3>2, <3>3, <3>4
    <2>2. CASE x < i /\ i <= x + y
      <3>1. PICK k \in 1..y : k = i - x
        BY <2>2
      <3>2. i \in 1..Len(w) /\ i <= Len(ab) /\ i \in 1..Len(ab) /\ ~(i <= Len(a))
        <4>1. i \in Nat /\ ~(i <= x) /\ i \in 1..(x + y) /\ i \in 1..((x + y) + z)
          BY <2>2
        <4> QED
          BY <1>4, <1>5, <2>2, <4>1
      <3>3. w[i] = b[k]
        BY <1>2, <1>3, <1>4, <3>1, <3>2
      <3>4. b[k].id = (offered - z) - y + k
        BY <1>8
      <3>5. (offered - z) - y + k = offered - ((x + y) + z) + i
        BY <1>6, <3>1
      <3> QED
        BY <3>3, <3>4, <3>5
    <2>3. CASE x + y < i
      <3>1. PICK k \in 1..z : k = i - (x + y)
        BY <2>3
      <3>2. i \in 1..Len(w) /\ ~(i <= Len(ab))
        BY <1>5, <2>3
      <3>3. w[i] = c[k]
        BY <1>3, <1>5, <3>1, <3>2
      <3>4. c[k].id = offered - z + k
        BY <1>9
      <3>5. offered - z + k = offered - ((x + y) + z) + i
        BY <1>6, <3>1
      <3> QED
        BY <3>3, <3>4, <3>5
    <2>4. i <= x \/ (x < i /\ i <= x + y) \/ x + y < i
      OBVIOUS
    <2> QED
      BY <2>1, <2>2, <2>3, <2>4
  <1>11. DOMAIN w = 1..((x + y) + z)
    BY <1>3, <1>5, LenProperties
  <1> QED
    BY <1>5, <1>10, <1>11 DEF GoesTo

LEMMA BatchUniform ==
    ASSUME NEW n, NEW s, Batch(s, n)
    PROVE  \A i, j \in DOMAIN s : s[i].to = s[j].to
  <1>1. DOMAIN s = 1..Len(s)
    BY LenProperties DEF Batch
  <1> QED
    BY <1>1 DEF Batch

\* ContainersAreUniform: Aggregation and the preamble generator lose, repeat
\* and reorder no frame, and a container is for one receiver
\* (Aggregation.cpp:69-205).
THEOREM ContainersAreUniform == Spec => []TrainsAreUniform
  <1>1. ASSUME Inv PROVE TrainsAreUniform
    <2>1. Collected /\ Stages /\ Passed \in Nat
      BY <1>1, PassedNat DEF Inv
    <2>2. PICK a : a = InPreambleGenerator
      OBVIOUS
    <2>3. a = <<>> \/ (Batch(a, Passed) /\ a \in Seq(Frames))
      <3>1. CASE pg.compound = None
        BY <2>2, <3>1 DEF InPreambleGenerator
      <3>2. CASE pg.compound # None
        <4>1. ASSUME NEW c, NEW n, NEW signalStart, Below(c, n, signalStart) PROVE FALSE
          BY <3>2, <4>1 DEF Below
        <4>2. ~Idle
          BY <3>2 DEF Idle
        <4>3. PICK c \in Compounds :
                Ready(c) \/ PreambleQueued(c) \/ PreambleDue(c) \/ PreambleStarted(c)
          BY <2>1, <4>1, <4>2 DEF Stages, PreambleOnAir, Training, FragmentDue,
             FragmentOnAir, FragmentOver
        <4>4. Cargo(c) /\ pg.compound = c
          BY <4>3 DEF Ready, PreambleQueued, PreambleDue, PreambleStarted, Above
        <4>5. a = c.entries
          BY <2>2, <3>2, <4>4 DEF InPreambleGenerator
        <4>6. CASE c = SingleFrame
          BY <4>5, <4>6 DEF SingleFrame, Compound
        <4>7. ASSUME NEW s \in Seq(Frames), Batch(s, Passed), c = Container(s)
              PROVE  a = s
          BY <4>5, <4>7 DEF Container, Compound
        <4> QED
          BY <4>4, <4>6, <4>7 DEF Cargo
      <3> QED
        BY <3>1, <3>2
    <2>4. PICK b, c : b = agg.current /\ c = agg.next
      OBVIOUS
    <2>5. a \in Seq(Frames) /\ b \in Seq(Frames) /\ c \in Seq(Frames)
      BY <2>1, <2>3, <2>4, EmptySeq DEF Collected, Batch
    <2>6. PICK w : w = (a \o b) \o c /\ w = Waiting
      BY <2>2, <2>4 DEF Waiting
    <2>7. \A i \in DOMAIN w : w[i].id = offered - Len(w) + i
      <3>1. a = <<>> \/ Batch(a, Passed)
        BY <2>3
      <3>2. w = (a \o b) \o c /\ Collected
        BY <2>1, <2>6
      <3>3. GoesTo(w, offered)
        BY <2>4, <2>5, <3>1, <3>2, WaitingFacts
      <3> QED
        BY <3>3 DEF GoesTo
    <2>8. \A s \in {a, b, c} : \A i, j \in DOMAIN s : s[i].to = s[j].to
      <3>1. \A i, j \in DOMAIN a : a[i].to = a[j].to
        <4>1. Batch(<<>>, 0)
          BY BatchEmpty
        <4> QED
          BY <2>3, <4>1, BatchUniform
      <3>2. \A i, j \in DOMAIN b : b[i].to = b[j].to
        BY <2>1, <2>4, BatchUniform DEF Collected
      <3>3. \A i, j \in DOMAIN c : c[i].to = c[j].to
        BY <2>1, <2>4, BatchUniform DEF Collected
      <3> QED
        BY <3>1, <3>2, <3>3
    <2> QED
      BY <2>2, <2>4, <2>6, <2>7, <2>8 DEF TrainsAreUniform
  <1> QED
    BY <1>1, TrainInvariance, PTL
=============================================================================
