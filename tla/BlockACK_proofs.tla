--------------------------- MODULE BlockACK_proofs ---------------------------
(***************************************************************************)
(* Proofs about BlockACK, for any receivers, loads, sizes and limits.      *)
(*                                                                         *)
(* First, every wait for an acknowledgement ends, and only a wait is       *)
(* ended.  Frames of other stations and own replies move the state of the  *)
(* wait on, so that state, timer and what the units below hold must be     *)
(* seen together: a block is waited for because its request is still in    *)
(* the line, because the timer runs, or because something is received      *)
(* (WaitEnds); the request is the last frame of its line, and nothing is   *)
(* in the line while its answer is waited for (LineOK); and an answer that *)
(* is on its way is that of the receiver that was asked (ReplyOK).         *)
(*                                                                         *)
(* Second, the data: for each receiver there is a numbering of the MSDUs   *)
(* on which both ends agree (Peer).  The sender repeats, gives up and      *)
(* drops frames, so that the receiver may see any of them again or never;  *)
(* what keeps it from passing one up twice or out of order is that a       *)
(* request moves it only to the first number on air, and that no frame     *)
(* still queued is below what it waits for unless it has it (Pending).     *)
(* An acknowledgement confirms only what is on air because what the        *)
(* receiver has noted lies in the window (InWindow), which all that is on  *)
(* air fills when it is waited for.                                        *)
(***************************************************************************)
EXTENDS BlockACK, SequenceTheorems, WellFoundedInduction, TLAPS

States == {"idle", "waitForACK", "receiving", "receptionFinished"}
Timers == {"off", "ack", "short"}

IsSeq(s)    == \E S : s \in Seq(S)
Requests(s) == {i \in 1..Len(s) : s[i].kind = "BAREQ"}

(* The fields that a record has; what the queues hold does not matter.     *)
BaShape(m) ==
    DOMAIN m = {"baState", "timer", "queue", "nextTransmissionSN", "fate"}
QueueShape(q) ==
    DOMAIN q = {"to", "nextSN", "txQueue", "onAir", "waitForACK",
                "baReqRequired"}

(* A block that waits, or may still end, has been sent in part at least.   *)
QueueOK(q) ==
    /\ QueueShape(q) /\ IsSeq(q.onAir)
    /\ q.waitForACK \in BOOLEAN /\ q.baReqRequired \in BOOLEAN
    /\ q.baReqRequired => ~q.waitForACK
    /\ q.waitForACK \/ q.baReqRequired => q.onAir # <<>>

(* State and timer are those of a queue that waits.                        *)
Consistent(state, timer, q) ==
    /\ QueueOK(q) /\ state \in States /\ timer \in Timers
    /\ timer # "off" \/ state # "idle" => q.waitForACK
    /\ state \in {"waitForACK", "receptionFinished"} => timer # "off"

BaOK == BaShape(ba) /\ Consistent(ba.baState, ba.timer, ba.queue)

LineOK ==
    /\ IsSeq(line) /\ Requests(line) \subseteq {Len(line)}
    /\ Requests(line) # {} => ba.queue.waitForACK
    /\ ba.timer # "off" \/ ba.baState # "idle" => line = <<>>

WaitEnds ==
    /\ ba.queue.waitForACK =>
          \/ Requests(line) # {}
          \/ ba.timer # "off"
          \/ ba.baState = "receiving"
    /\ ba.baState = "receiving" => rx # "none"

(* Until another frame comes in between, the answer meets the state in     *)
(* which it is expected.                                                   *)
ReplyOK ==
    /\ reply.phase = "sifs" =>
          /\ ba.timer = "ack" /\ ba.baState # "idle"
          /\ reply.from = ba.queue.to
          /\ ~disturbed => ba.baState \in {"waitForACK", "receiving"}
    /\ rx = "BA" =>
          /\ reply.phase = "air"
          /\ ~disturbed =>
                ba.baState = "receiving" /\ reply.from = ba.queue.to
    /\ broken => disturbed

Flags ==
    /\ rx \in {"none", "BA", "foreign"}
    /\ DOMAIN reply = {"from", "ackSNs", "phase"}
    /\ disturbed \in BOOLEAN /\ broken \in BOOLEAN

Inv == Flags /\ BaOK /\ LineOK /\ WaitEnds /\ ReplyOK

-----------------------------------------------------------------------------
(* Sequences of frames.                                                    *)

(* A frame that is added at the end is a request or not.                   *)
LEMMA AppendLine ==
    ASSUME NEW s, IsSeq(s), NEW e
    PROVE  LET t == Append(s, e)
           IN  /\ IsSeq(t) /\ t # <<>> /\ Len(t) = Len(s) + 1
               /\ e.kind # "BAREQ" => Requests(t) = Requests(s)
               /\ e.kind = "BAREQ" /\ Requests(s) = {} =>
                      Requests(t) = {Len(t)}
  <1> DEFINE t == Append(s, e)
  <1>1. PICK S : s \in Seq(S)
    BY DEF IsSeq
  <1>2. s \in Seq(S \cup {e}) /\ e \in S \cup {e}
    BY <1>1, SeqMonotonic
  <1>3. /\ t \in Seq(S \cup {e}) /\ Len(t) = Len(s) + 1
        /\ Len(s) \in Nat
        /\ \A i \in 1..Len(s) : t[i] = s[i]
        /\ t[Len(s) + 1] = e
    BY <1>2, AppendProperties, LenProperties
  <1>4. IsSeq(t) /\ t # <<>>
    BY <1>3 DEF IsSeq
  <1> HIDE DEF t
  <1>5. e.kind # "BAREQ" => Requests(t) = Requests(s)
    BY <1>3 DEF Requests
  <1>6. e.kind = "BAREQ" /\ Requests(s) = {} => Requests(t) = {Len(t)}
    BY <1>3 DEF Requests
  <1> QED
    BY <1>3, <1>4, <1>5, <1>6 DEF t

(* The first frame leaves the line; a request is followed by nothing.      *)
LEMMA TailLine ==
    ASSUME NEW s, IsSeq(s), s # <<>>, Requests(s) \subseteq {Len(s)}
    PROVE  LET t == Tail(s)
           IN  /\ IsSeq(t) /\ Requests(t) \subseteq {Len(t)}
               /\ Requests(t) # {} => Requests(s) # {}
               /\ Head(s).kind = "BAREQ" => t = <<>> /\ Requests(s) # {}
               /\ Head(s).kind # "BAREQ" /\ Requests(s) # {} =>
                      Requests(t) # {}
  <1> DEFINE t == Tail(s)
  <1>1. PICK S : s \in Seq(S)
    BY DEF IsSeq
  <1>2. /\ t \in Seq(S) /\ Len(t) = Len(s) - 1
        /\ \A i \in 1..Len(t) : t[i] = s[i + 1]
    BY <1>1, HeadTailProperties
  <1>3. Len(s) \in Nat \ {0} /\ Head(s) = s[1]
    BY <1>1, EmptySeq
  <1>4. IsSeq(t)
    BY <1>2 DEF IsSeq
  <1> HIDE DEF t
  <1>5. \A i \in 1..Len(t) : i \in Requests(t) => i + 1 \in Requests(s)
    BY <1>2, <1>3 DEF Requests
  <1>6. Requests(t) \subseteq {Len(t)}
    <2> SUFFICES ASSUME NEW i \in Requests(t) PROVE i = Len(t)
      OBVIOUS
    <2>1. i \in 1..Len(t)
      BY DEF Requests
    <2>2. i + 1 = Len(s)
      BY <1>5, <2>1
    <2> QED
      BY <1>2, <1>3, <2>1, <2>2
  <1>7. Requests(t) # {} => Requests(s) # {}
    BY <1>5 DEF Requests
  <1>8. ASSUME Head(s).kind = "BAREQ" PROVE t = <<>> /\ Requests(s) # {}
    <2>1. 1 \in Requests(s)
      BY <1>3, <1>8 DEF Requests
    <2>2. Len(t) = 0
      BY <1>2, <1>3, <2>1
    <2> QED
      BY <1>2, <2>1, <2>2, EmptySeq
  <1>9. ASSUME Head(s).kind # "BAREQ", Requests(s) # {}
        PROVE  Requests(t) # {}
    <2>1. PICK i \in 1..Len(s) : s[i].kind = "BAREQ"
      BY <1>9 DEF Requests
    <2>2. i # 1
      BY <1>3, <1>9, <2>1
    <2>3. i - 1 \in 1..Len(t) /\ (i - 1) + 1 = i
      BY <1>2, <1>3, <2>2
    <2>4. t[i - 1] = s[i]
      BY <1>2, <2>3
    <2> QED
      BY <2>1, <2>3, <2>4 DEF Requests
  <1> QED
    BY <1>4, <1>6, <1>7, <1>8, <1>9 DEF t

LEMMA NothingInLine == IsSeq(<<>>) /\ Requests(<<>>) = {}
  <1>1. <<>> \in Seq({}) /\ Len(<<>>) = 0
    BY EmptySeq
  <1> QED
    BY <1>1 DEF IsSeq, Requests

-----------------------------------------------------------------------------
(* What the handlers do to state, timer and queue.                         *)

(* Record r has the state, timer and queue given.                          *)
Has(r, state, timer, q) ==
    BaShape(r) /\ r.baState = state /\ r.timer = timer /\ r.queue = q

(* Nothing is waited for.                                                  *)
Ended(r) ==
    /\ BaShape(r) /\ r.baState = "idle" /\ r.timer = "off"
    /\ QueueOK(r.queue) /\ ~r.queue.waitForACK

LEMMA Fields ==
    ASSUME NEW m, BaShape(m), NEW s, NEW t, NEW q, NEW f, NEW n
    PROVE  /\ Has([m EXCEPT !.baState = s], s, m.timer, m.queue)
           /\ Has([m EXCEPT !.timer = t], m.baState, t, m.queue)
           /\ Has([m EXCEPT !.queue = q], m.baState, m.timer, q)
           /\ Has([m EXCEPT !.fate = f], m.baState, m.timer, m.queue)
           /\ Has([m EXCEPT !.nextTransmissionSN = n],
                  m.baState, m.timer, m.queue)
  BY DEF Has, BaShape

(* Only the fate of MSDUs that are dropped changes.                        *)
LEMMA DroppedKeeps ==
    ASSUME NEW m, BaShape(m), NEW lost
    PROVE  Has(Dropped(m, lost), m.baState, m.timer, m.queue)
  BY DEF Has, BaShape, Dropped

(* Reporting a block that waits, or that never got out, ends the wait.     *)
LEMMA AckEndsWait ==
    ASSUME NEW m, BaShape(m), QueueOK(m.queue), ~m.queue.baReqRequired,
           NEW S
    PROVE  Ended(ProcessIncomingACKSNs(m, S))
  <1> DEFINE sns  == Matched(m.queue, S)
             lost == {m.queue.onAir[i].id : i \in
                        {j \in Unacked(m.queue, sns) :
                            LifetimeExpired(m.queue.onAir[j].id)}}
             d    == Dropped(m, lost)
             n    == [d EXCEPT
                        !.timer = "off", !.baState = "idle",
                        !.fate = [k \in MSDUs |->
                                    IF k \in AckedIn(m.queue, sns)
                                    THEN "confirmed" ELSE @[k]]]
             q    == ProcessIncomingACK(m.queue, sns)
             r    == Released(n, q)
  <1>1. BaShape(d) /\ d.queue = m.queue
    BY DroppedKeeps DEF Has
  <1>2. BaShape(n) /\ n.baState = "idle" /\ n.timer = "off"
    <2> HIDE DEF d
    <2> QED
      BY <1>1 DEF BaShape
  <1>3. QueueShape(q) /\ q.onAir = <<>> /\ q.waitForACK = FALSE
          /\ q.baReqRequired = m.queue.baReqRequired
    <2> HIDE DEF sns
    <2> QED
      BY DEF QueueOK, QueueShape, ProcessIncomingACK
  <1>4. QueueOK(q)
    <2> HIDE DEF q
    <2> QED
      BY <1>3, NothingInLine DEF QueueOK
  <1>5. QueueOK(NoQueue) /\ ~NoQueue.waitForACK
    BY NothingInLine DEF QueueOK, QueueShape, NoQueue
  <1> HIDE DEF n, q
  <1>6. /\ BaShape(r) /\ r.baState = "idle" /\ r.timer = "off"
        /\ r.queue \in {q, NoQueue}
    <2>1. CASE q.txQueue # <<>>
      <3>1. r = [n EXCEPT !.queue = q]
        BY <2>1 DEF Released
      <3> HIDE DEF r
      <3> QED
        BY <1>2, <3>1 DEF BaShape
    <2>2. CASE q.txQueue = <<>>
      BY <1>2, <2>2 DEF Released, BaShape
    <2> QED
      BY <2>1, <2>2
  <1>7. Ended(r)
    BY <1>3, <1>4, <1>5, <1>6 DEF Ended
  <1> QED
    BY <1>7 DEF n, q, ProcessIncomingACKSNs

(* The timeout during a reception is swallowed, every other ends the wait. *)
LEMMA TimeoutOutcome ==
    ASSUME NEW m, BaShape(m), Consistent(m.baState, m.timer, m.queue),
           m.queue.waitForACK
    PROVE  /\ m.baState = "receiving" =>
                  Has(Timeout(m), "receiving", "off", m.queue)
           /\ m.baState # "receiving" => Ended(Timeout(m))
  <1>1. QueueOK(m.queue) /\ ~m.queue.baReqRequired
    BY DEF Consistent, QueueOK
  <1>2. ASSUME m.baState = "receiving"
        PROVE  Has(Timeout(m), "receiving", "off", m.queue)
    <2>1. Timeout(m) = [m EXCEPT !.timer = "off"]
      BY <1>2 DEF Timeout
    <2> QED
      BY <1>2, <2>1, Fields, ZenonT(30)
  <1>3. ASSUME m.baState # "receiving" PROVE Ended(Timeout(m))
    <2>1. Timeout(m) = ProcessIncomingACKSNs(m, {})
      BY <1>3 DEF Timeout
    <2> QED
      BY <1>1, <2>1, AckEndsWait
  <1> QED
    BY <1>2, <1>3

(* The start of a reception moves a wait on.                               *)
LEMMA RxStartOutcome ==
    ASSUME NEW m, BaShape(m)
    PROVE  Has(OnRxStart(m), IF m.baState = "waitForACK" THEN "receiving"
                             ELSE m.baState, m.timer, m.queue)
  BY DEF OnRxStart, BaShape, Has

(* The end of a reception keeps or starts the timer.                       *)
LEMMA RxEndOutcome ==
    ASSUME NEW m, BaShape(m)
    PROVE  /\ m.baState # "receiving" => OnRxEnd(m) = m
           /\ m.baState = "receiving" =>
                  Has(OnRxEnd(m), "receptionFinished",
                      IF m.timer = "off" THEN "short" ELSE m.timer, m.queue)
  BY DEF OnRxEnd, BaShape, Has

(* An error goes back to the wait, or ends it when its time is over.       *)
LEMMA RxErrorOutcome ==
    ASSUME NEW m, BaShape(m), Consistent(m.baState, m.timer, m.queue)
    PROVE  /\ m.baState # "receiving" => OnRxError(m) = m
           /\ m.baState = "receiving" /\ m.timer # "off" =>
                  Has(OnRxError(m), "waitForACK", m.timer, m.queue)
           /\ m.baState = "receiving" /\ m.timer = "off" =>
                  Ended(OnRxError(m))
  <1>1. m.baState # "receiving" => OnRxError(m) = m
    BY DEF OnRxError
  <1> DEFINE n == [m EXCEPT !.baState = "waitForACK"]
  <1>2. Has(n, "waitForACK", m.timer, m.queue)
    BY Fields
  <1> HIDE DEF n
  <1>3. ASSUME m.baState = "receiving", m.timer # "off"
        PROVE  OnRxError(m) = n
    BY <1>3 DEF OnRxError, n
  <1>4. ASSUME m.baState = "receiving", m.timer = "off"
        PROVE  OnRxError(m) = ProcessIncomingACKSNs(n, {})
    <2>1. n.baState # "receiving"
      BY <1>2 DEF Has
    <2>2. OnRxError(m) = Timeout(n)
      BY <1>4 DEF OnRxError, n
    <2> QED
      BY <2>1, <2>2 DEF Timeout
  <1>5. ASSUME m.baState = "receiving"
        PROVE  BaShape(n) /\ QueueOK(n.queue) /\ ~n.queue.baReqRequired
    BY <1>2, <1>5 DEF Has, Consistent, QueueOK
  <1>6. ASSUME m.baState = "receiving", m.timer = "off"
        PROVE  Ended(OnRxError(m))
    <2>1. BaShape(n) /\ QueueOK(n.queue) /\ ~n.queue.baReqRequired
      BY <1>5, <1>6
    <2> QED
      BY <1>4, <1>6, <2>1, AckEndsWait
  <1> QED
    BY <1>1, <1>2, <1>3, <1>6

(* The start of a frame captures the reception before, as an error.        *)
LEMMA InterruptedOutcome ==
    ASSUME Inv
    PROVE  LET r == OnRxStart(Interrupted(ba))
           IN  \/ /\ ba.baState \in {"waitForACK", "receiving"}
                  /\ ba.timer # "off"
                  /\ Has(r, "receiving", ba.timer, ba.queue)
               \/ /\ ba.baState = "receiving" /\ ba.timer = "off"
                  /\ Ended(r)
               \/ /\ ba.baState \in {"idle", "receptionFinished"}
                  /\ Has(r, ba.baState, ba.timer, ba.queue)
  <1> DEFINE n == Interrupted(ba)
             r == OnRxStart(n)
  <1>1. /\ BaShape(ba) /\ Consistent(ba.baState, ba.timer, ba.queue)
        /\ ba.baState \in States
        /\ ba.baState = "waitForACK" => ba.timer # "off"
    BY DEF Inv, BaOK, Consistent
  <1>2. n = IF rx = "none" THEN ba ELSE OnRxError(ba)
    BY DEF Interrupted
  <1>3. ba.baState = "receiving" => n = OnRxError(ba)
    BY <1>2 DEF Inv, WaitEnds
  <1> HIDE DEF n
  <1>4. ASSUME ba.baState # "receiving" PROVE n = ba
    BY <1>1, <1>2, <1>4, RxErrorOutcome
  <1>5. CASE ba.baState # "receiving"
    <2>1. n = ba
      BY <1>4, <1>5
    <2>2. Has(r, IF ba.baState = "waitForACK" THEN "receiving"
                 ELSE ba.baState, ba.timer, ba.queue)
      BY <1>1, <2>1, RxStartOutcome
    <2> HIDE DEF r
    <2>3. \/ /\ ba.baState = "waitForACK" /\ ba.timer # "off"
             /\ Has(r, "receiving", ba.timer, ba.queue)
          \/ /\ ba.baState \in {"idle", "receptionFinished"}
             /\ Has(r, ba.baState, ba.timer, ba.queue)
      BY <1>1, <1>5, <2>2 DEF States
    <2> QED
      BY <2>3 DEF r, n
  <1>6. CASE ba.baState = "receiving" /\ ba.timer # "off"
    <2>1. Has(n, "waitForACK", ba.timer, ba.queue)
      BY <1>1, <1>3, <1>6, RxErrorOutcome
    <2>2. BaShape(n) /\ n.baState = "waitForACK"
            /\ n.timer = ba.timer /\ n.queue = ba.queue
      BY <2>1 DEF Has
    <2>3. Has(r, "receiving", ba.timer, ba.queue)
      BY <2>2, RxStartOutcome
    <2> QED
      BY <1>6, <2>3 DEF n
  <1>7. CASE ba.baState = "receiving" /\ ba.timer = "off"
    <2>1. Ended(n)
      BY <1>1, <1>3, <1>7, RxErrorOutcome
    <2>2. Has(r, n.baState, n.timer, n.queue)
      BY <2>1, RxStartOutcome DEF Ended
    <2> HIDE DEF r
    <2>3. Ended(r)
      BY <2>1, <2>2 DEF Ended, Has
    <2> QED
      BY <1>7, <2>3 DEF r, n
  <1> QED
    BY <1>5, <1>6, <1>7

-----------------------------------------------------------------------------
(* The steps.                                                              *)

(* What the steps of the sender's queues leave alone.                      *)
RestSame ==
    /\ reply' = reply /\ rx' = rx
    /\ disturbed' = disturbed /\ broken' = broken

(* Steps that change neither the wait nor the line.                        *)
LEMMA WaitSame ==
    ASSUME Inv, RestSame, line' = line,
           Has(ba', ba.baState, ba.timer, ba.queue)
    PROVE  Inv'
  <1>1. Flags'
    BY DEF Inv, RestSame, Flags
  <1>2. BaOK'
    BY DEF Inv, BaOK, Has
  <1>3. LineOK' /\ WaitEnds' /\ ReplyOK'
    BY DEF Inv, RestSame, LineOK, WaitEnds, ReplyOK, Has
  <1> QED
    BY <1>1, <1>2, <1>3 DEF Inv

(* As long as nothing is waited for, a queue may grow, and its receiver    *)
(* may be chosen.                                                          *)
LEMMA QueueGrows ==
    ASSUME Inv, RestSame, NEW q, QueueOK(q),
           Has(ba', ba.baState, ba.timer, q), ~ba.queue.waitForACK,
           IsSeq(line'), Requests(line') \subseteq {Len(line')},
           q.waitForACK <=> Requests(line') # {}
    PROVE  Inv'
  <1>1. ba.timer = "off" /\ ba.baState = "idle"
    BY DEF Inv, BaOK, Consistent
  <1>2. Flags'
    BY DEF Inv, RestSame, Flags
  <1>3. BaOK'
    BY <1>1 DEF Inv, BaOK, Has, Consistent
  <1>4. LineOK' /\ WaitEnds'
    BY <1>1 DEF LineOK, WaitEnds, Has
  <1>5. reply.phase # "sifs" /\ (rx = "BA" => disturbed)
    BY <1>1 DEF Inv, ReplyOK
  <1>6. ReplyOK'
    BY <1>5 DEF Inv, ReplyOK, RestSame
  <1> QED
    BY <1>2, <1>3, <1>4, <1>6 DEF Inv

(* A wait is ended when no request is in the line and no answer comes.     *)
LEMMA WaitIsOver ==
    ASSUME Inv, Ended(ba'), line' = <<>>, reply'.phase # "sifs",
           rx' = "BA" => disturbed', Flags', broken' => disturbed',
           rx' = "BA" => reply'.phase = "air"
    PROVE  Inv'
  <1>1. BaOK'
    BY DEF Ended, BaOK, Consistent, States, Timers
  <1>2. LineOK' /\ WaitEnds'
    BY NothingInLine DEF Ended, LineOK, WaitEnds
  <1>3. ReplyOK'
    BY DEF ReplyOK
  <1> QED
    BY <1>1, <1>2, <1>3 DEF Inv

LEMMA ArriveInv == Inv /\ Arrive => Inv'
  <1> SUFFICES ASSUME Inv, Arrive PROVE Inv'
    OBVIOUS
  <1> DEFINE n == arrived + 1
             m == [ba EXCEPT !.fate[n] = "buffered"]
             lost == (MSDUsIn(buffer) \cup {n})
                        \ MSDUsIn(Kept(Append(Alive(buffer), n)))
  <1>1. ba' = Dropped(m, lost) /\ line' = line /\ RestSame
    BY DEF Arrive, RestSame
  <1>2. BaShape(m) /\ m.baState = ba.baState /\ m.timer = ba.timer
          /\ m.queue = ba.queue
    BY DEF Inv, BaOK, BaShape
  <1> HIDE DEF m, lost
  <1>3. Has(ba', ba.baState, ba.timer, ba.queue)
    BY <1>1, <1>2, DroppedKeeps
  <1> QED
    BY <1>1, <1>3, WaitSame

LEMMA ExpireInv == Inv /\ Expire => Inv'
  <1> SUFFICES ASSUME Inv, Expire PROVE Inv'
    OBVIOUS
  <1>1. ba' = ba /\ line' = line /\ RestSame
    BY DEF Expire, RestSame
  <1>2. Has(ba', ba.baState, ba.timer, ba.queue)
    BY <1>1 DEF Inv, BaOK, Has
  <1> QED
    BY <1>1, <1>2, WaitSame

(* Only a queue that does not wait has capacity.                           *)
LEMMA HandDownInv ==
    ASSUME Inv, NEW held, HandDown(held) PROVE Inv'
  <1> DEFINE n == Head(buffer)
             b == ProcessOutgoing(ba, n)
             lost == MSDUsIn(Tail(buffer)) \ MSDUsIn(Alive(Tail(buffer)))
             old == IF ba.queue # NoQueue THEN ba.queue
                    ELSE [NoQueue EXCEPT
                            !.to = To[n],
                            !.nextSN = ba.nextTransmissionSN[To[n]]]
             q == Enqueue(old, n)
  <1>1. ba' = Dropped(b, lost) /\ line' = line /\ RestSame
    BY DEF HandDown, RestSame
  <1>2. ~ba.queue.waitForACK
    BY DEF HandDown, Accepts, HasCapacity
  <1>3. BaShape(ba) /\ QueueOK(ba.queue)
    BY DEF Inv, BaOK, Consistent
  <1>4. Requests(line) = {} /\ IsSeq(line)
    BY <1>2 DEF Inv, LineOK
  <1>5. QueueOK(old) /\ ~old.waitForACK
    BY <1>2, <1>3, NothingInLine DEF QueueOK, QueueShape, NoQueue
  <1> HIDE DEF old
  <1>6. QueueShape(q) /\ q.onAir = old.onAir
          /\ q.waitForACK = old.waitForACK
          /\ q.baReqRequired = old.baReqRequired
    BY <1>5 DEF QueueOK, QueueShape, Enqueue
  <1> HIDE DEF q
  <1>7. QueueOK(q) /\ ~q.waitForACK
    BY <1>5, <1>6 DEF QueueOK
  <1>8. CASE LifetimeExpired(n)
    <2>1. b = Dropped(ba, {n})
      BY <1>8 DEF ProcessOutgoing
    <2>2. Has(b, ba.baState, ba.timer, ba.queue)
      BY <1>3, <2>1, DroppedKeeps
    <2> HIDE DEF b, lost
    <2>3. Has(ba', ba.baState, ba.timer, ba.queue)
      BY <1>1, <2>2, DroppedKeeps DEF Has
    <2> QED
      BY <1>1, <2>3, WaitSame
  <1>9. CASE ~LifetimeExpired(n)
    <2>1. b = [ba EXCEPT !.queue = q, !.fate[n] = "queued"]
      BY <1>9 DEF ProcessOutgoing, q, old
    <2>2. Has(b, ba.baState, ba.timer, q)
      BY <1>3, <2>1 DEF BaShape, Has
    <2> HIDE DEF b, lost
    <2>3. Has(ba', ba.baState, ba.timer, q)
      BY <1>1, <2>2, DroppedKeeps DEF Has
    <2>4. /\ IsSeq(line') /\ Requests(line') \subseteq {Len(line')}
          /\ q.waitForACK <=> Requests(line') # {}
      BY <1>1, <1>4, <1>7
    <2> QED
      BY <1>1, <1>2, <1>7, <2>3, <2>4, QueueGrows
  <1> QED
    BY <1>8, <1>9

(* A frame may follow as long as the queue does not wait; the request is   *)
(* the last one.                                                           *)
LEMMA SendDownInv ==
    ASSUME Inv, NEW held, SendDown(held) PROVE Inv'
  <1>1. RestSame /\ ~ba.queue.waitForACK
    BY DEF SendDown, RestSame, HasData
  <1>2. BaShape(ba) /\ QueueOK(ba.queue)
    BY DEF Inv, BaOK, Consistent
  <1>3. IsSeq(line) /\ Requests(line) = {}
    BY <1>1 DEF Inv, LineOK
  <1>4. CASE Fits(ba.queue)
    <2> DEFINE e == Head(ba.queue.txQueue)
               f == [kind |-> "I", id |-> e.id, sn |-> e.sn]
               q == [ba.queue EXCEPT !.txQueue = Tail(@),
                                     !.onAir = Append(@, e),
                                     !.baReqRequired = TRUE]
    <2>1. line' = Append(line, f) /\ ba' = [ba EXCEPT !.queue = q]
      BY <1>4 DEF SendDown, SendFrame
    <2>2. f.kind # "BAREQ"
      OBVIOUS
    <2> HIDE DEF f, e
    <2>3. QueueShape(q) /\ q.onAir = Append(ba.queue.onAir, e)
            /\ q.waitForACK = ba.queue.waitForACK
            /\ q.baReqRequired = TRUE
      BY <1>2 DEF QueueOK, QueueShape
    <2> HIDE DEF q
    <2>4. IsSeq(q.onAir) /\ q.onAir # <<>>
      BY <1>2, <2>3, AppendLine DEF QueueOK
    <2>5. QueueOK(q) /\ ~q.waitForACK
      <3>1. q.waitForACK = FALSE
        BY <1>1, <1>2, <2>3 DEF QueueOK
      <3> QED
        BY <2>3, <2>4, <3>1 DEF QueueOK
    <2>6. Has(ba', ba.baState, ba.timer, q)
      BY <1>2, <2>1, Fields
    <2>7. IsSeq(line') /\ Requests(line') = {}
      BY <1>3, <2>1, <2>2, AppendLine
    <2> QED
      BY <1>1, <2>5, <2>6, <2>7, QueueGrows
  <1>5. CASE ~Fits(ba.queue)
    <2> DEFINE f == [kind |-> "BAREQ", id |-> 0,
                     sn |-> Head(ba.queue.onAir).sn]
               q == [ba.queue EXCEPT !.baReqRequired = FALSE,
                                     !.waitForACK = TRUE]
    <2>1. line' = Append(line, f)
            /\ ba' = [ba EXCEPT !.queue.baReqRequired = FALSE,
                                !.queue.waitForACK = TRUE]
      BY <1>5 DEF SendDown, SendBAreq
    <2>2. f.kind = "BAREQ"
      OBVIOUS
    <2> HIDE DEF f
    <2>3. ba.queue.baReqRequired
      BY <1>5 DEF SendDown, HasData, BAreqIsDue
    <2>4. QueueShape(q) /\ q.onAir = ba.queue.onAir
            /\ q.waitForACK = TRUE /\ q.baReqRequired = FALSE
      BY <1>2 DEF QueueOK, QueueShape
    <2>5. Has(ba', ba.baState, ba.timer, q)
      BY <1>2, <2>1 DEF Has, BaShape
    <2> HIDE DEF q
    <2>6. QueueOK(q)
      BY <1>2, <2>3, <2>4 DEF QueueOK
    <2>7. IsSeq(line') /\ Requests(line') = {Len(line')}
      BY <1>3, <2>1, <2>2, AppendLine
    <2>8. q.waitForACK <=> Requests(line') # {}
      BY <2>4, <2>7
    <2> QED
      BY <1>1, <2>5, <2>6, <2>7, <2>8, QueueGrows
  <1> QED
    BY <1>4, <1>5

(* A transmission finds the block idle; the request starts its timer.      *)
LEMMA TransmitInv ==
    ASSUME Inv, NEW ok, Transmit(ok) PROVE Inv'
  <1> DEFINE f == Head(line)
  <1>1. /\ line # <<>> /\ line' = Tail(line)
        /\ rx = "none" /\ reply = NoReply /\ rx' = rx
        /\ disturbed' = FALSE /\ broken' = broken /\ ~broken
    BY DEF Transmit, Running
  <1>2. BaShape(ba) /\ QueueOK(ba.queue)
          /\ ba.timer = "off" /\ ba.baState = "idle"
    BY <1>1 DEF Inv, BaOK, Consistent, LineOK
  <1>3. IsSeq(line) /\ Requests(line) \subseteq {Len(line)}
          /\ (Requests(line) # {} <=> ba.queue.waitForACK)
    BY <1>2 DEF Inv, LineOK, WaitEnds
  <1>4. /\ IsSeq(line') /\ Requests(line') \subseteq {Len(line')}
        /\ Requests(line') # {} => Requests(line) # {}
        /\ f.kind = "BAREQ" => line' = <<>> /\ Requests(line) # {}
        /\ f.kind # "BAREQ" /\ Requests(line) # {} => Requests(line') # {}
    BY <1>1, <1>3, TailLine
  <1>5. Has(OnTxStart(ba), "idle", "off", ba.queue)
    BY <1>2, Fields DEF OnTxStart
  <1>6. CASE TransmitData(ok)
    <2>1. f.kind # "BAREQ" /\ ba' = OnTxStart(ba) /\ reply' = reply
      BY <1>6 DEF TransmitData
    <2>2. Has(ba', "idle", "off", ba.queue)
      BY <1>5, <2>1
    <2>3. Flags'
      BY <1>1, <2>1 DEF Inv, Flags
    <2>4. BaOK'
      BY <1>2, <2>2 DEF BaOK, Has, Consistent, States, Timers
    <2>5. LineOK' /\ WaitEnds'
      BY <1>3, <1>4, <2>1, <2>2 DEF LineOK, WaitEnds, Has
    <2>6. ReplyOK'
      BY <1>1, <2>1 DEF ReplyOK, NoReply
    <2> QED
      BY <2>3, <2>4, <2>5, <2>6 DEF Inv
  <1>7. CASE TransmitBAreq(ok)
    <2>1. f.kind = "BAREQ" /\ ba' = OnTxEndOfBAreq(OnTxStart(ba))
      BY <1>7 DEF TransmitBAreq
    <2>2. Has(ba', "waitForACK", "ack", ba.queue)
      <3> DEFINE m == OnTxStart(ba)
      <3>1. BaShape(m) /\ m.queue = ba.queue
        BY <1>5 DEF Has
      <3> HIDE DEF m
      <3>2. Has(OnTxEndOfBAreq(m), "waitForACK", "ack", ba.queue)
        BY <3>1 DEF OnTxEndOfBAreq, Has, BaShape
      <3> QED
        BY <2>1, <3>2 DEF m
    <2>3. reply' = reply \/ reply' = [from |-> ba.queue.to,
                              ackSNs |-> AckSNs(rxQueue[ba.queue.to], f.sn),
                              phase |-> "sifs"]
      BY <1>7 DEF TransmitBAreq
    <2>4. /\ DOMAIN reply' = {"from", "ackSNs", "phase"}
          /\ reply'.phase = "sifs" => reply'.from = ba.queue.to
      BY <1>1, <2>3 DEF NoReply
    <2>5. Flags'
      BY <1>1, <2>4 DEF Inv, Flags
    <2>6. ba.queue.waitForACK /\ line' = <<>>
      BY <1>3, <1>4, <2>1
    <2>7. BaOK'
      BY <1>2, <2>2, <2>6 DEF BaOK, Has, Consistent, States, Timers
    <2>8. LineOK' /\ WaitEnds'
      BY <2>2, <2>6, NothingInLine DEF LineOK, WaitEnds, Has
    <2>9. ReplyOK'
      BY <1>1, <2>2, <2>4 DEF ReplyOK, Has
    <2> QED
      BY <2>5, <2>7, <2>8, <2>9 DEF Inv
  <1> QED
    BY <1>6, <1>7 DEF Transmit

(* A failed RTS empties the line together with the block.                  *)
LEMMA FailedInv == Inv /\ OnTransmissionHasFailed => Inv'
  <1> SUFFICES ASSUME Inv, OnTransmissionHasFailed PROVE Inv'
    OBVIOUS
  <1> DEFINE m == OnTxStart(ba)
  <1>1. /\ line # <<>> /\ line[Len(line)].kind = "BAREQ"
        /\ rx = "none" /\ reply = NoReply /\ line' = <<>>
        /\ ba' = ProcessIncomingACKSNs(m, {}) /\ RestSame
    BY DEF OnTransmissionHasFailed, RestSame, Last
  <1>2. Len(line) \in 1..Len(line)
    <2>1. PICK S : line \in Seq(S)
      BY DEF Inv, LineOK, IsSeq
    <2> QED
      BY <1>1, <2>1, EmptySeq
  <1>3. ba.queue.waitForACK
    BY <1>1, <1>2 DEF Inv, LineOK, Requests
  <1>4. BaShape(ba) /\ QueueOK(ba.queue) /\ ~ba.queue.baReqRequired
    BY <1>3 DEF Inv, BaOK, Consistent, QueueOK
  <1>5. Has(m, "idle", ba.timer, ba.queue)
    BY <1>4, Fields DEF OnTxStart
  <1> HIDE DEF m
  <1>6. Ended(ba')
    BY <1>1, <1>4, <1>5, AckEndsWait DEF Has
  <1>7. Flags' /\ (broken' => disturbed')
    BY <1>1 DEF Inv, Flags, ReplyOK, RestSame
  <1> QED
    BY <1>1, <1>6, <1>7, WaitIsOver DEF RestSame, NoReply

(* An answer that is expected finds the state in which it is.              *)
LEMMA ReplyStartsInv ==
    ASSUME Inv, NEW heard, ReplyStarts(heard) PROVE Inv'
  <1>1. /\ reply.phase = "sifs" /\ reply' = [reply EXCEPT !.phase = "air"]
        /\ line' = line /\ disturbed' = disturbed /\ broken' = broken
    BY DEF ReplyStarts
  <1>2. /\ DOMAIN reply' = {"from", "ackSNs", "phase"}
        /\ reply'.phase = "air" /\ reply'.from = reply.from
    BY <1>1 DEF Inv, Flags
  <1>3. /\ ba.timer = "ack" /\ ba.baState # "idle"
        /\ reply.from = ba.queue.to /\ rx # "BA"
        /\ ~disturbed => ba.baState \in {"waitForACK", "receiving"}
    BY <1>1 DEF Inv, ReplyOK
  <1>4. line = <<>> /\ ba.queue.waitForACK /\ BaShape(ba)
          /\ Consistent(ba.baState, ba.timer, ba.queue)
    BY <1>3 DEF Inv, LineOK, BaOK, Consistent
  <1>5. CASE heard
    <2>1. rx' = "BA" /\ ba' = OnRxStart(Interrupted(ba))
      BY <1>5 DEF ReplyStarts
    <2>2. \/ /\ ba.baState \in {"waitForACK", "receiving"}
             /\ Has(ba', "receiving", "ack", ba.queue)
          \/ /\ ba.baState = "receptionFinished"
             /\ Has(ba', "receptionFinished", "ack", ba.queue)
      BY <1>3, <2>1, InterruptedOutcome
    <2>3. Flags'
      BY <1>1, <1>2, <2>1 DEF Inv, Flags
    <2>4. BaOK'
      BY <1>4, <2>2 DEF BaOK, Has, Consistent, States, Timers
    <2>5. LineOK' /\ WaitEnds'
      BY <1>1, <1>4, <2>1, <2>2, NothingInLine DEF LineOK, WaitEnds, Has
    <2>6. ReplyOK'
      BY <1>1, <1>2, <1>3, <2>1, <2>2 DEF Inv, ReplyOK, Has
    <2> QED
      BY <2>3, <2>4, <2>5, <2>6 DEF Inv
  <1>6. CASE ~heard
    <2>1. rx' = rx /\ ba' = ba
      BY <1>6 DEF ReplyStarts
    <2>2. Flags'
      BY <1>1, <1>2, <2>1 DEF Inv, Flags
    <2>3. BaOK' /\ LineOK' /\ WaitEnds'
      BY <1>1, <2>1 DEF Inv, BaOK, LineOK, WaitEnds
    <2>4. ReplyOK'
      BY <1>1, <1>2, <1>3, <2>1 DEF Inv, ReplyOK
    <2> QED
      BY <2>2, <2>3, <2>4 DEF Inv
  <1> QED
    BY <1>5, <1>6

(* The end of a reception during a wait: the timer runs on or is started,  *)
(* or the wait ends.                                                       *)
LEMMA ReceptionOver ==
    ASSUME Inv, rx' = "none", line' = line, Flags',
           reply'.phase \in {reply.phase, "none"},
           reply'.from = reply.from \/ reply'.phase = "none",
           reply'.phase = "sifs" => disturbed',
           broken' => disturbed',
           ba' \in {OnRxEnd(ba), OnRxError(ba)}
    PROVE  Inv'
  <1>1. BaShape(ba) /\ Consistent(ba.baState, ba.timer, ba.queue)
    BY DEF Inv, BaOK
  <1>2. ASSUME ba.baState = "receiving"
        PROVE  line = <<>> /\ ba.queue.waitForACK
    BY <1>1, <1>2 DEF Inv, LineOK, Consistent
  <1>3. CASE ba.baState # "receiving"
    <2>1. ba' = ba
      BY <1>1, <1>3, RxEndOutcome, RxErrorOutcome
    <2>2. BaOK' /\ LineOK' /\ WaitEnds'
      BY <1>3, <2>1 DEF Inv, BaOK, LineOK, WaitEnds
    <2>3. ReplyOK'
      BY <2>1 DEF Inv, ReplyOK
    <2> QED
      BY <2>2, <2>3 DEF Inv
  <1>4. CASE ba.baState = "receiving"
    <2>1. \/ \E s \in {"waitForACK", "receptionFinished"},
                t \in {"ack", "short"} :
               /\ Has(ba', s, t, ba.queue)
               /\ ba.timer # "off" => t = ba.timer
          \/ ba.timer = "off" /\ Ended(ba')
      <3>1. ba.timer \in Timers
        BY <1>1 DEF Consistent
      <3>2. CASE ba' = OnRxEnd(ba)
        <4>1. Has(ba', "receptionFinished",
                  IF ba.timer = "off" THEN "short" ELSE ba.timer, ba.queue)
          BY <1>1, <1>4, <3>2, RxEndOutcome
        <4> QED
          BY <3>1, <4>1 DEF Timers
      <3>3. CASE ba' = OnRxError(ba)
        <4>1. CASE ba.timer = "off"
          BY <1>1, <1>4, <3>3, <4>1, RxErrorOutcome
        <4>2. CASE ba.timer # "off"
          <5>1. Has(ba', "waitForACK", ba.timer, ba.queue)
            BY <1>1, <1>4, <3>3, <4>2, RxErrorOutcome
          <5> QED
            BY <3>1, <4>2, <5>1 DEF Timers
        <4> QED
          BY <4>1, <4>2
      <3> QED
        BY <3>2, <3>3
    <2>2. CASE ba.timer = "off" /\ Ended(ba')
      <3>1. reply'.phase # "sifs"
        BY <2>2 DEF Inv, ReplyOK
      <3>2. line' = <<>>
        BY <1>2, <1>4
      <3> QED
        BY <2>2, <3>1, <3>2, WaitIsOver
    <2>3. ASSUME NEW s \in {"waitForACK", "receptionFinished"},
                 NEW t \in {"ack", "short"},
                 Has(ba', s, t, ba.queue),
                 ba.timer # "off" => t = ba.timer
          PROVE  Inv'
      <3>1. BaOK'
        BY <1>1, <1>2, <1>4, <2>3
           DEF BaOK, Has, Consistent, States, Timers
      <3>2. LineOK' /\ WaitEnds'
        BY <1>2, <1>4, <2>3, NothingInLine DEF LineOK, WaitEnds, Has
      <3>3. ReplyOK'
        BY <2>3 DEF Inv, ReplyOK, Has
      <3> QED
        BY <3>1, <3>2, <3>3 DEF Inv
    <2> QED
      BY <2>1, <2>2, <2>3
  <1> QED
    BY <1>3, <1>4

(* An answer that ends is taken for what it is, unless a foreign frame has *)
(* moved the state on.                                                     *)
LEMMA ReplyEndsInv ==
    ASSUME Inv, NEW outcome, ReplyEnds(outcome) PROVE Inv'
  <1>1. /\ reply.phase = "air" /\ reply' = NoReply
        /\ rx' = (IF rx = "BA" THEN "none" ELSE rx)
        /\ line' = line /\ disturbed' = disturbed /\ ~broken
    BY DEF ReplyEnds, Running
  <1>2. reply'.phase = "none"
          /\ DOMAIN reply' = {"from", "ackSNs", "phase"}
    BY <1>1 DEF NoReply
  <1>3. BaShape(ba) /\ Consistent(ba.baState, ba.timer, ba.queue)
    BY DEF Inv, BaOK
  <1>4. CASE rx # "BA"
    <2>1. ba' = ba /\ rx' = rx /\ broken' = broken
      BY <1>1, <1>4 DEF ReplyEnds
    <2>2. Flags'
      BY <1>1, <1>2, <2>1 DEF Inv, Flags
    <2>3. BaOK' /\ LineOK' /\ WaitEnds'
      BY <1>1, <2>1 DEF Inv, BaOK, LineOK, WaitEnds
    <2>4. ReplyOK'
      BY <1>1, <1>2, <1>4, <2>1 DEF Inv, ReplyOK
    <2> QED
      BY <2>2, <2>3, <2>4 DEF Inv
  <1>5. CASE rx = "BA" /\ outcome # "delivered"
    <2>1. ba' \in {OnRxEnd(ba), OnRxError(ba)} /\ broken' = broken
      BY <1>5 DEF ReplyEnds
    <2>2. Flags' /\ rx' = "none"
      BY <1>1, <1>2, <1>5, <2>1 DEF Inv, Flags
    <2>3. reply'.phase # "sifs" /\ reply'.phase \in {reply.phase, "none"}
      BY <1>2
    <2>4. broken' => disturbed'
      BY <1>1, <2>1
    <2> QED
      BY <1>1, <1>2, <2>1, <2>2, <2>3, <2>4, ReceptionOver
  <1>6. CASE rx = "BA" /\ outcome = "delivered"
    <2> DEFINE m == OnRxEnd(ba)
    <2>1. /\ broken' = ~Expected(m, reply.from)
          /\ ba' = IF Expected(m, reply.from)
                   THEN ProcessIncomingACKSNs(m, reply.ackSNs) ELSE m
      BY <1>6 DEF ReplyEnds, ReplyDelivered
    <2>2. /\ ba.baState # "receiving" => m = ba
          /\ ba.baState = "receiving" =>
                Has(m, "receptionFinished",
                    IF ba.timer = "off" THEN "short" ELSE ba.timer, ba.queue)
      BY <1>3, RxEndOutcome
    <2>3. ASSUME ~disturbed PROVE Expected(m, reply.from)
      <3>1. ba.baState = "receiving" /\ reply.from = ba.queue.to
        BY <1>6, <2>3 DEF Inv, ReplyOK
      <3>2. ba.queue.waitForACK /\ ba.queue.onAir # <<>>
        BY <1>3, <3>1 DEF Consistent, QueueOK
      <3>3. m.baState = "receptionFinished" /\ m.queue = ba.queue
        BY <2>2, <3>1 DEF Has
      <3> QED
        BY <3>1, <3>2, <3>3 DEF Expected
    <2>4. BaShape(m) /\ m.queue = ba.queue
      BY <1>3, <2>2 DEF Has
    <2> HIDE DEF m
    <2>5. (broken' => disturbed') /\ broken' \in BOOLEAN
      BY <1>1, <2>1, <2>3
    <2>6. Flags' /\ rx' = "none"
      BY <1>1, <1>2, <1>6, <2>5 DEF Inv, Flags
    <2>7. CASE Expected(m, reply.from)
      <3>1. ba.queue.waitForACK
        BY <2>4, <2>7 DEF Expected
      <3>2. QueueOK(m.queue) /\ ~m.queue.baReqRequired
        BY <1>3, <2>4, <3>1 DEF Consistent, QueueOK
      <3>3. Ended(ba')
        BY <2>1, <2>4, <2>7, <3>2, AckEndsWait
      <3>4. line' = <<>>
        <4>1. ba.baState # "idle"
          <5>1. m.baState \in {"receptionFinished", "receiving"}
            BY <2>7 DEF Expected
          <5>2. ba.baState # "receiving" => m.baState = ba.baState
            BY <2>2
          <5> QED
            BY <5>1, <5>2
        <4> QED
          BY <1>1, <4>1 DEF Inv, LineOK
      <3> QED
        BY <1>2, <2>5, <2>6, <3>3, <3>4, WaitIsOver
    <2>8. CASE ~Expected(m, reply.from)
      <3>1. ba' \in {OnRxEnd(ba), OnRxError(ba)}
        BY <2>1, <2>8 DEF m
      <3> QED
        BY <1>1, <1>2, <2>5, <2>6, <3>1, ReceptionOver
    <2> QED
      BY <2>7, <2>8
  <1> QED
    BY <1>4, <1>5, <1>6

(* A frame of another station may be taken for the start of the answer.    *)
LEMMA ForeignStartsInv == Inv /\ ForeignStarts => Inv'
  <1> SUFFICES ASSUME Inv, ForeignStarts PROVE Inv'
    OBVIOUS
  <1>1. /\ ba.baState # "idle" /\ rx' = "foreign"
        /\ ba' = OnRxStart(Interrupted(ba))
        /\ line' = line /\ reply' = reply
        /\ disturbed' = disturbed /\ broken' = broken
    BY DEF ForeignStarts
  <1>2. Flags'
    BY <1>1 DEF Inv, Flags
  <1>3. line = <<>> /\ ba.queue.waitForACK
          /\ Consistent(ba.baState, ba.timer, ba.queue)
    BY <1>1 DEF Inv, LineOK, BaOK, Consistent
  <1>4. \/ /\ ba.baState \in {"waitForACK", "receiving"}
           /\ ba.timer # "off"
           /\ Has(ba', "receiving", ba.timer, ba.queue)
        \/ /\ ba.timer = "off" /\ Ended(ba')
        \/ /\ ba.baState = "receptionFinished"
           /\ Has(ba', "receptionFinished", ba.timer, ba.queue)
    BY <1>1, InterruptedOutcome
  <1>5. CASE ba.timer = "off" /\ Ended(ba')
    <2>1. reply'.phase # "sifs" /\ (broken' => disturbed')
      BY <1>1, <1>5 DEF Inv, ReplyOK
    <2>2. line' = <<>> /\ rx' # "BA"
      BY <1>1, <1>3
    <2> QED
      BY <1>2, <1>5, <2>1, <2>2, WaitIsOver
  <1>6. CASE /\ ba.baState \in {"waitForACK", "receiving"}
             /\ ba.timer # "off"
             /\ Has(ba', "receiving", ba.timer, ba.queue)
    <2>1. BaOK'
      BY <1>3, <1>6 DEF BaOK, Has, Consistent, States
    <2>2. LineOK' /\ WaitEnds'
      BY <1>1, <1>3, <1>6, NothingInLine DEF LineOK, WaitEnds, Has
    <2>3. ReplyOK'
      BY <1>1, <1>6 DEF Inv, ReplyOK, Has
    <2> QED
      BY <1>2, <2>1, <2>2, <2>3 DEF Inv
  <1>7. CASE /\ ba.baState = "receptionFinished"
             /\ Has(ba', "receptionFinished", ba.timer, ba.queue)
    <2>1. BaOK'
      BY <1>3, <1>7 DEF BaOK, Has, Consistent, States
    <2>2. LineOK' /\ WaitEnds'
      BY <1>1, <1>3, <1>7, NothingInLine
         DEF LineOK, WaitEnds, Has, Consistent
    <2>3. ReplyOK'
      BY <1>1, <1>7 DEF Inv, ReplyOK, Has
    <2> QED
      BY <1>2, <2>1, <2>2, <2>3 DEF Inv
  <1> QED
    BY <1>4, <1>5, <1>6, <1>7

LEMMA ForeignEndsInv ==
    ASSUME Inv, NEW ok, ForeignEnds(ok) PROVE Inv'
  <1>1. /\ rx' = "none" /\ line' = line /\ reply' = reply
        /\ broken' = broken /\ ~broken
        /\ disturbed' = (disturbed \/ reply.phase = "sifs")
        /\ ba' \in {OnRxEnd(ba), OnRxError(ba)}
    BY DEF ForeignEnds, Running
  <1>2. Flags'
    BY <1>1 DEF Inv, Flags
  <1>3. /\ reply'.phase \in {reply.phase, "none"}
        /\ reply'.from = reply.from \/ reply'.phase = "none"
        /\ reply'.phase = "sifs" => disturbed'
        /\ broken' => disturbed'
    BY <1>1
  <1> QED
    BY <1>1, <1>2, <1>3, ReceptionOver

(* The own reply leaves the timer running.                                 *)
LEMMA OwnReplyInv == Inv /\ OwnReply => Inv'
  <1> SUFFICES ASSUME Inv, OwnReply PROVE Inv'
    OBVIOUS
  <1>1. /\ ba.baState = "receptionFinished" /\ reply.phase # "sifs"
        /\ rx' = "none" /\ ba' = OnTxStart(Interrupted(ba))
        /\ line' = line /\ reply' = reply
        /\ disturbed' = disturbed /\ broken' = broken
    BY DEF OwnReply
  <1>2. BaShape(ba) /\ Consistent(ba.baState, ba.timer, ba.queue)
    BY DEF Inv, BaOK
  <1>3. Interrupted(ba) = ba
    BY <1>1, <1>2, RxErrorOutcome DEF Interrupted
  <1>4. Has(ba', "idle", ba.timer, ba.queue)
    BY <1>1, <1>2, <1>3, Fields DEF OnTxStart
  <1>5. ba.timer # "off" /\ ba.queue.waitForACK
    BY <1>1, <1>2 DEF Consistent
  <1>6. Flags'
    BY <1>1 DEF Inv, Flags
  <1>7. BaOK'
    BY <1>2, <1>4, <1>5 DEF BaOK, Has, Consistent, States
  <1>8. LineOK' /\ WaitEnds'
    BY <1>1, <1>4, <1>5 DEF Inv, LineOK, WaitEnds, Has
  <1>9. ReplyOK'
    BY <1>1 DEF Inv, ReplyOK
  <1> QED
    BY <1>6, <1>7, <1>8, <1>9 DEF Inv

(* The timeout ends the wait, or leaves it to the reception that goes on.  *)
LEMMA TimeoutInv == Inv /\ OnTimeout => Inv'
  <1> SUFFICES ASSUME Inv, OnTimeout PROVE Inv'
    OBVIOUS
  <1>1. /\ ba.timer # "off" /\ ba' = Timeout(ba)
        /\ ba.timer = "ack" => reply.phase # "sifs"
        /\ line' = line /\ RestSame
    BY DEF OnTimeout, RestSame
  <1>2. BaShape(ba) /\ Consistent(ba.baState, ba.timer, ba.queue)
          /\ ba.queue.waitForACK /\ line = <<>>
    BY <1>1 DEF Inv, BaOK, LineOK, Consistent
  <1>3. reply.phase # "sifs"
    BY <1>1 DEF Inv, ReplyOK
  <1>4. Flags'
    BY <1>1 DEF Inv, Flags, RestSame
  <1>5. CASE ba.baState = "receiving"
    <2>1. Has(ba', "receiving", "off", ba.queue)
      BY <1>1, <1>2, <1>5, TimeoutOutcome
    <2>2. BaOK'
      BY <1>2, <2>1 DEF BaOK, Has, Consistent, States, Timers
    <2>3. LineOK' /\ WaitEnds'
      BY <1>1, <1>2, <1>5, <2>1, NothingInLine
         DEF Inv, LineOK, WaitEnds, Has, RestSame
    <2>4. ReplyOK'
      BY <1>1, <1>3, <2>1 DEF Inv, ReplyOK, Has, RestSame
    <2> QED
      BY <1>4, <2>2, <2>3, <2>4 DEF Inv
  <1>6. CASE ba.baState # "receiving"
    <2>1. Ended(ba')
      BY <1>1, <1>2, <1>6, TimeoutOutcome
    <2>2. /\ rx' = "BA" => disturbed' /\ reply'.phase = "air"
          /\ broken' => disturbed'
      BY <1>1, <1>6 DEF Inv, ReplyOK, RestSame
    <2>3. line' = <<>> /\ reply'.phase # "sifs"
      BY <1>1, <1>2, <1>3 DEF RestSame
    <2> QED
      BY <1>4, <2>1, <2>2, <2>3, WaitIsOver
  <1> QED
    BY <1>5, <1>6

-----------------------------------------------------------------------------
LEMMA InitInv == Init => Inv
  <1> SUFFICES ASSUME Init PROVE Inv
    OBVIOUS
  <1>1. QueueOK(NoQueue) /\ ~NoQueue.waitForACK
    BY NothingInLine DEF QueueOK, QueueShape, NoQueue
  <1>2. BaShape(ba) /\ ba.baState = "idle" /\ ba.timer = "off"
          /\ ba.queue = NoQueue
    BY DEF Init, BaShape
  <1>3. BaOK
    BY <1>1, <1>2 DEF BaOK, Consistent, States, Timers
  <1>4. LineOK /\ WaitEnds
    BY <1>1, <1>2, NothingInLine DEF Init, LineOK, WaitEnds
  <1>5. Flags /\ ReplyOK
    BY DEF Init, Flags, ReplyOK, NoReply
  <1> QED
    BY <1>3, <1>4, <1>5 DEF Inv

LEMMA NextInv == Inv /\ [Next]_vars => Inv'
  <1> SUFFICES ASSUME Inv, [Next]_vars PROVE Inv'
    OBVIOUS
  <1>1. CASE Arrive \/ Expire
    BY <1>1, ArriveInv, ExpireInv
  <1>2. CASE Work
    <2>1. CASE \E held \in Held : HandDown(held) \/ SendDown(held)
      BY <2>1, HandDownInv, SendDownInv
    <2>2. CASE OnTimeout
      BY <2>2, TimeoutInv
    <2>3. CASE \E ok \in BOOLEAN : Transmit(ok) \/ ForeignEnds(ok)
      BY <2>3, TransmitInv, ForeignEndsInv
    <2>4. CASE \E heard \in BOOLEAN : ReplyStarts(heard)
      BY <2>4, ReplyStartsInv
    <2>5. CASE \E outcome \in {"delivered", "lost", "error"} :
                  ReplyEnds(outcome)
      BY <2>5, ReplyEndsInv
    <2> QED
      BY <1>2, <2>1, <2>2, <2>3, <2>4, <2>5 DEF Work
  <1>3. CASE OnTransmissionHasFailed \/ ForeignStarts \/ OwnReply
    BY <1>3, FailedInv, ForeignStartsInv, OwnReplyInv
  <1>4. CASE UNCHANGED vars
    BY <1>4 DEF vars, Inv, Flags, BaOK, LineOK, WaitEnds, ReplyOK
  <1> QED
    BY <1>1, <1>2, <1>3, <1>4 DEF Next

(* State, timer, line and answers of the sender belong together.           *)
THEOREM Invariance == Spec => []Inv
  BY InitInv, NextInv, PTL DEF Spec

(* Every wait for an acknowledgement is ended by something that is under   *)
(* way, a timer runs only for a wait, and an acknowledgement comes only    *)
(* when its queue waits, unless a foreign frame was taken for it.          *)
THEOREM EveryWaitEnds == Spec => []RepliesAreExpected
  <1>1. Inv => RepliesAreExpected
    <2> SUFFICES ASSUME Inv PROVE RepliesAreExpected
      OBVIOUS
    <2>1. Requests(line) # {} =>
             \E i \in 1..Len(line) : line[i].kind = "BAREQ"
      BY DEF Requests
    <2> QED
      BY <2>1 DEF Inv, BaOK, Consistent, WaitEnds, ReplyOK,
                  RepliesAreExpected
  <1> QED
    BY <1>1, Invariance, PTL

-----------------------------------------------------------------------------
(* Induction over natural numbers, from the fact that every set of them    *)
(* has a least element, and what Selected yields: the chosen elements, in  *)
(* their order.                                                            *)

(* Every nonempty set of natural numbers has a least element.              *)
LEMMA LeastNumber ==
    ASSUME NEW T \in SUBSET Nat, T # {}
    PROVE  \E n \in T : \A m \in T : n <= m
  <1> DEFINE R == {p \in Nat \X Nat : p[1] < p[2]}
  <1>1. IsWellFoundedOn(R, Nat)
    BY NatLessThanWellFounded DEF OpToRel
  <1> HIDE DEF R
  <1>2. PICK n \in T : \A m \in T : ~(<<m, n>> \in R)
    BY <1>1, WFMin
  <1>3. \A m \in T : ~(m < n)
    BY <1>2 DEF R
  <1> QED
    BY <1>3

(* A set of numbers that has 0, and every n up to N whose predecessor it   *)
(* has, has all numbers up to N.                                           *)
LEMMA Induction ==
    ASSUME NEW N \in Nat, NEW T, 0 \in T,
           \A n \in 1..N : n - 1 \in T => n \in T
    PROVE  0..N \subseteq T
  <1> SUFFICES ASSUME (0..N) \ T # {} PROVE FALSE
    OBVIOUS
  <1>1. PICK n \in (0..N) \ T : \A m \in (0..N) \ T : n <= m
    <2>1. (0..N) \ T \in SUBSET Nat
      OBVIOUS
    <2> QED
      BY <2>1, LeastNumber
  <1>2. n \in 1..N
    BY <1>1
  <1>3. n - 1 \in T
    BY <1>1, <1>2
  <1> QED
    BY <1>1, <1>2, <1>3

(* f holds the selections from the first 0, 1, ..., k elements.            *)
SelectsUpTo(f, s, I, k) ==
    f = [n \in 0..k |->
            IF n = 0 THEN <<>>
            ELSE IF n \in I THEN Append(f[n - 1], s[n]) ELSE f[n - 1]]

(* Selected is the last value of a function that starts with the empty     *)
(* sequence and takes one element after the other.                         *)
LEMMA SelectedFunction ==
    ASSUME NEW S, NEW s \in Seq(S), NEW I
    PROVE  \E f : SelectsUpTo(f, s, I, Len(s)) /\ Selected(s, I) = f[Len(s)]
  <1> DEFINE N == Len(s)
             T == {k \in 0..N : \E f : SelectsUpTo(f, s, I, k)}
  <1>1. N \in Nat
    BY LenProperties
  <1> HIDE DEF N
  <1>2. 0 \in T
    <2> DEFINE f == [n \in 0..0 |-> <<>>]
    <2>1. SelectsUpTo(f, s, I, 0)
      BY DEF SelectsUpTo
    <2> HIDE DEF f
    <2> QED
      BY <1>1, <2>1
  <1>3. ASSUME NEW k \in 1..N, k - 1 \in T PROVE k \in T
    <2>1. PICK f : SelectsUpTo(f, s, I, k - 1)
      BY <1>3
    <2> DEFINE x == IF k \in I THEN Append(f[k - 1], s[k]) ELSE f[k - 1]
               h == [n \in 0..k |-> IF n = k THEN x ELSE f[n]]
               e == [n \in 0..k |->
                        IF n = 0 THEN <<>>
                        ELSE IF n \in I THEN Append(h[n - 1], s[n])
                             ELSE h[n - 1]]
    <2>2. \A n \in 0..k : h[n] = e[n]
      <3> TAKE n \in 0..k
      <3>1. CASE n = k
        <4>1. h[n] = x /\ h[n - 1] = f[n - 1] /\ n # 0
          BY <1>1, <3>1
        <4> QED
          BY <3>1, <4>1
      <3>2. CASE n # k
        <4>1. n \in 0..(k - 1) /\ h[n] = f[n]
          BY <1>1, <3>2
        <4>2. f[n] = IF n = 0 THEN <<>>
                     ELSE IF n \in I THEN Append(f[n - 1], s[n])
                          ELSE f[n - 1]
          BY <2>1, <4>1 DEF SelectsUpTo
        <4>3. n # 0 => h[n - 1] = f[n - 1]
          BY <1>1, <4>1
        <4> QED
          BY <4>1, <4>2, <4>3
      <3> QED
        BY <3>1, <3>2
    <2>3. h = e
      <3>1. h = [n \in 0..k |-> h[n]] /\ e = [n \in 0..k |-> e[n]]
        OBVIOUS
      <3> HIDE DEF h, e
      <3> QED
        BY <2>2, <3>1
    <2>4. SelectsUpTo(h, s, I, k)
      <3> HIDE DEF h
      <3> QED
        BY <2>3 DEF SelectsUpTo
    <2> HIDE DEF h
    <2> QED
      BY <2>4
  <1>4. N \in T
    <2> HIDE DEF T
    <2>1. 0..N \subseteq T
      BY <1>1, <1>2, <1>3, Induction
    <2> QED
      BY <1>1, <2>1
  <1>5. \E f : SelectsUpTo(f, s, I, N)
    BY <1>4
  <1> DEFINE c == CHOOSE f : SelectsUpTo(f, s, I, N)
  <1>6. SelectsUpTo(c, s, I, N)
    BY <1>5
  <1>7. Selected(s, I) = c[N]
    BY DEF Selected, SelectsUpTo, N
  <1> QED
    BY <1>6, <1>7 DEF N

(* The values of that function.                                            *)
LEMMA SelectsUpToStep ==
    ASSUME NEW f, NEW s, NEW I, NEW N \in Nat, SelectsUpTo(f, s, I, N)
    PROVE  /\ f[0] = <<>>
           /\ \A n \in 1..N :
                f[n] = IF n \in I THEN Append(f[n - 1], s[n]) ELSE f[n - 1]
  <1> DEFINE e(n) == IF n = 0 THEN <<>>
                     ELSE IF n \in I THEN Append(f[n - 1], s[n])
                          ELSE f[n - 1]
  <1>1. f = [n \in 0..N |-> e(n)]
    BY DEF SelectsUpTo
  <1>2. \A n \in 0..N : f[n] = e(n)
    <2> HIDE DEF e
    <2> QED
      BY <1>1
  <1>3. f[0] = e(0) /\ \A n \in 1..N : f[n] = e(n)
    BY <1>2
  <1> QED
    BY <1>3

(* t is the selection of the elements of s at the positions in J, in their *)
(* order: h tells where each of them is taken from.                        *)
IsSelection(t, h, s, J) ==
    /\ h \in [1..Len(t) -> J]
    /\ \A i \in 1..Len(t) : t[i] = s[h[i]]
    /\ \A i, j \in 1..Len(t) : i < j => h[i] < h[j]
    /\ \A j \in J : \E i \in 1..Len(t) : h[i] = j

(* What is selected is what was chosen, in its order.                      *)
LEMMA SelectedFacts ==
    ASSUME NEW S, NEW s \in Seq(S), NEW I
    PROVE  /\ Selected(s, I) \in Seq(S)
           /\ \E h : IsSelection(Selected(s, I), h, s, I \cap 1..Len(s))
  <1> DEFINE N == Len(s)
  <1>1. N \in Nat
    BY LenProperties
  <1>2. PICK f : SelectsUpTo(f, s, I, N) /\ Selected(s, I) = f[N]
    BY SelectedFunction
  <1> DEFINE Good(k) == /\ f[k] \in Seq(S)
                        /\ \E h : IsSelection(f[k], h, s, I \cap 1..k)
             T == {k \in 0..N : Good(k)}
  <1> HIDE DEF Good
  <1>3. 0 \in T
    <2>1. f[0] = <<>>
      BY <1>1, <1>2, SelectsUpToStep
    <2>2. IsSelection(<<>>, <<>>, s, {})
      <3>1. Len(<<>>) = 0 /\ <<>> \in [1..0 -> {}]
        BY EmptySeq
      <3> QED
        BY <3>1 DEF IsSelection
    <2>3. I \cap 1..0 = {} /\ <<>> \in Seq(S)
      BY EmptySeq
    <2>4. Good(0)
      BY <2>1, <2>2, <2>3 DEF Good
    <2> QED
      BY <1>1, <2>4
  <1>4. ASSUME NEW k \in 1..N, k - 1 \in T PROVE k \in T
    <2>1. f[k] = IF k \in I THEN Append(f[k - 1], s[k]) ELSE f[k - 1]
      BY <1>1, <1>2, SelectsUpToStep
    <2>2. f[k - 1] \in Seq(S)
      BY <1>4 DEF Good
    <2>3. PICK h : IsSelection(f[k - 1], h, s, I \cap 1..(k - 1))
      BY <1>4 DEF Good
    <2>4. CASE k \notin I
      <3>1. I \cap 1..k = I \cap 1..(k - 1)
        BY <1>1, <2>4
      <3>2. f[k] = f[k - 1]
        BY <2>1, <2>4
      <3>3. Good(k)
        BY <2>2, <2>3, <3>1, <3>2 DEF Good
      <3> QED
        BY <1>1, <3>3
    <2>5. CASE k \in I
      <3> DEFINE u == f[k - 1]  t == Append(u, s[k])
                 g == [i \in 1..Len(t) |-> IF i = Len(t) THEN k ELSE h[i]]
      <3>1. /\ t \in Seq(S) /\ Len(t) = Len(u) + 1 /\ Len(u) \in Nat
            /\ \A i \in 1..Len(u) : t[i] = u[i]
            /\ t[Len(u) + 1] = s[k]
        <4>1. s[k] \in S
          BY <1>4, ElementOfSeq
        <4> QED
          BY <2>2, <4>1, AppendProperties, LenProperties
      <3> HIDE DEF t, u
      <3>2. /\ \A i \in 1..Len(u) : g[i] = h[i] /\ h[i] \in I \cap 1..(k - 1)
            /\ g[Len(t)] = k
            /\ \A i \in 1..Len(t) : i = Len(t) \/ i \in 1..Len(u)
        <4>1. h \in [1..Len(u) -> I \cap 1..(k - 1)]
          BY <2>3 DEF IsSelection, u
        <4>2. Len(t) = Len(u) + 1 /\ Len(u) \in Nat
          BY <3>1
        <4>3. \A i \in 1..Len(t) : g[i] = IF i = Len(t) THEN k ELSE h[i]
          OBVIOUS
        <4> HIDE DEF g
        <4>4. \A i \in 1..Len(u) : h[i] \in I \cap 1..(k - 1)
          BY <4>1
        <4>5. \A i \in 1..Len(u) : i \in 1..Len(t) /\ i # Len(t)
          BY <4>2
        <4>6. Len(t) \in 1..Len(t)
                /\ \A i \in 1..Len(t) : i = Len(t) \/ i \in 1..Len(u)
          BY <4>2
        <4> QED
          BY <4>3, <4>4, <4>5, <4>6
      <3>3. g \in [1..Len(t) -> I \cap 1..k]
        <4>1. \A i \in 1..Len(t) : g[i] \in I \cap 1..k
          <5>1. k \in I \cap 1..k /\ 1..(k - 1) \subseteq 1..k
            BY <1>1, <2>5
          <5> HIDE DEF g
          <5> QED
            BY <3>2, <5>1
        <4> QED
          BY <4>1
      <3> HIDE DEF g
      <3>4. \A i \in 1..Len(t) : t[i] = s[g[i]]
        <4>1. \A i \in 1..Len(u) : u[i] = s[h[i]]
          BY <2>3 DEF IsSelection, u
        <4> QED
          BY <3>1, <3>2, <4>1
      <3>5. \A i, j \in 1..Len(t) : i < j => g[i] < g[j]
        <4> SUFFICES ASSUME NEW i \in 1..Len(t), NEW j \in 1..Len(t), i < j
                     PROVE  g[i] < g[j]
          OBVIOUS
        <4>1. i \in 1..Len(u) /\ g[i] = h[i] /\ h[i] \in 1..(k - 1)
          BY <3>1, <3>2
        <4>2. CASE j = Len(t)
          BY <1>1, <3>2, <4>1, <4>2
        <4>3. CASE j \in 1..Len(u)
          <5>1. h[i] < h[j]
            BY <2>3, <4>1, <4>3 DEF IsSelection, u
          <5> QED
            BY <3>2, <4>1, <4>3, <5>1
        <4> QED
          BY <3>2, <4>2, <4>3
      <3>6. \A j \in I \cap 1..k : \E i \in 1..Len(t) : g[i] = j
        <4> TAKE j \in I \cap 1..k
        <4>1. CASE j = k
          BY <3>1, <3>2, <4>1
        <4>2. CASE j # k
          <5>1. j \in I \cap 1..(k - 1)
            BY <1>1, <4>2
          <5>2. PICK i \in 1..Len(u) : h[i] = j
            BY <2>3, <5>1 DEF IsSelection, u
          <5> QED
            BY <3>1, <3>2, <5>2
        <4> QED
          BY <4>1, <4>2
      <3>7. IsSelection(t, g, s, I \cap 1..k)
        BY <3>3, <3>4, <3>5, <3>6 DEF IsSelection
      <3>8. f[k] = t
        BY <2>1, <2>5 DEF t, u
      <3>9. Good(k)
        BY <3>1, <3>7, <3>8 DEF Good
      <3> QED
        BY <1>1, <3>9
    <2> QED
      BY <2>4, <2>5
  <1>5. N \in T
    <2> HIDE DEF T
    <2>1. 0..N \subseteq T
      BY <1>1, <1>3, <1>4, Induction
    <2> QED
      BY <1>1, <2>1
  <1> QED
    BY <1>2, <1>5 DEF Good

(* What is selected from the end of a sequence is its end.                 *)
LEMMA SelectedEnd ==
    ASSUME NEW S, NEW s \in Seq(S), NEW k \in 0..Len(s)
    PROVE  Selected(s, (k + 1)..Len(s)) = SubSeq(s, k + 1, Len(s))
  <1> DEFINE N == Len(s)  I == (k + 1)..Len(s)
  <1>1. N \in Nat
    BY LenProperties
  <1>2. PICK f : SelectsUpTo(f, s, I, N) /\ Selected(s, I) = f[N]
    BY SelectedFunction
  <1> DEFINE Same(n) == f[n] = SubSeq(s, k + 1, n)
             T == {n \in 0..N : Same(n)}
  <1> HIDE DEF Same
  <1>3. 0 \in T
    <2>1. f[0] = <<>>
      BY <1>1, <1>2, SelectsUpToStep
    <2>2. SubSeq(s, k + 1, 0) = <<>>
      BY <1>1, SubSeqEmpty
    <2>3. Same(0)
      BY <2>1, <2>2 DEF Same
    <2> QED
      BY <1>1, <2>3
  <1>4. ASSUME NEW n \in 1..N, n - 1 \in T PROVE n \in T
    <2>1. f[n] = IF n \in I THEN Append(f[n - 1], s[n]) ELSE f[n - 1]
      BY <1>1, <1>2, SelectsUpToStep
    <2>2. f[n - 1] = SubSeq(s, k + 1, n - 1)
      BY <1>4 DEF Same
    <2>3. CASE n \in I
      <3>1. Append(SubSeq(s, k + 1, n - 1), s[n]) = SubSeq(s, k + 1, n)
        <4> DEFINE t == SubSeq(s, k + 1, n)  u == SubSeq(s, k + 1, n - 1)
        <4>1. /\ t \in Seq(S) /\ Len(t) = n - k
              /\ \A i \in 1..(n - k) : t[i] = s[k + i]
          BY <1>1, <2>3, SubSeqProperties
        <4>2. /\ u \in Seq(S) /\ Len(u) = n - 1 - k
              /\ \A i \in 1..(n - 1 - k) : u[i] = s[k + i]
          BY <1>1, <2>3, SubSeqProperties
        <4> HIDE DEF t, u
        <4>3. s[n] \in S
          BY <1>1, ElementOfSeq
        <4>4. /\ Append(u, s[n]) \in Seq(S) /\ Len(Append(u, s[n])) = n - k
              /\ \A i \in 1..(n - 1 - k) : Append(u, s[n])[i] = u[i]
              /\ Append(u, s[n])[n - k] = s[n]
          BY <1>1, <2>3, <4>2, <4>3, AppendProperties
        <4>5. \A i \in 1..(n - k) : Append(u, s[n])[i] = t[i]
          <5> TAKE i \in 1..(n - k)
          <5>1. CASE i = n - k
            BY <1>1, <2>3, <4>1, <4>4, <5>1
          <5>2. CASE i # n - k
            BY <1>1, <2>3, <4>1, <4>2, <4>4, <5>2
          <5> QED
            BY <5>1, <5>2
        <4>6. Append(u, s[n]) = t
          BY <4>1, <4>4, <4>5, SeqEqual
        <4> QED
          BY <4>6 DEF t, u
      <3>2. Same(n)
        BY <2>1, <2>2, <2>3, <3>1 DEF Same
      <3> QED
        BY <3>2
    <2>4. CASE n \notin I
      <3>1. n <= k
        BY <1>1, <2>4
      <3>2. SubSeq(s, k + 1, n - 1) = <<>> /\ SubSeq(s, k + 1, n) = <<>>
        BY <1>1, <3>1, SubSeqEmpty
      <3>3. Same(n)
        BY <2>1, <2>2, <2>4, <3>2 DEF Same
      <3> QED
        BY <3>3
    <2> QED
      BY <2>3, <2>4
  <1>5. N \in T
    <2> HIDE DEF T
    <2>1. 0..N \subseteq T
      BY <1>1, <1>3, <1>4, Induction
    <2> QED
      BY <1>1, <2>1
  <1> QED
    BY <1>2, <1>5 DEF Same

-----------------------------------------------------------------------------
(* Sizes of sequences of entries.                                          *)

(* An entry of a queue or of the storage.                                  *)
Entries == [id : MSDUs, sn : Nat]

(* f holds the sizes of the first 0, 1, ..., k entries.                    *)
SumsUpTo(f, s, k) ==
    f = [i \in 0..k |-> IF i = 0 THEN 0 ELSE f[i - 1] + Size[s[i].id]]

(* f yields the sizes that SizeOf adds up.                                 *)
Sums(f, s) == SumsUpTo(f, s, Len(s)) /\ SizeOf(s) = f[Len(s)]

(* Such sums exist for every sequence of entries.                          *)
LEMMA SizeFunction ==
    ASSUME NEW s \in Seq(Entries)
    PROVE  \E f : Sums(f, s)
  <1> DEFINE N == Len(s)
             T == {k \in 0..N : \E f : SumsUpTo(f, s, k)}
  <1>1. N \in Nat
    BY LenProperties
  <1> HIDE DEF N
  <1>2. 0 \in T
    <2> DEFINE f == [n \in 0..0 |-> 0]
    <2>1. SumsUpTo(f, s, 0)
      BY DEF SumsUpTo
    <2> HIDE DEF f
    <2> QED
      BY <1>1, <2>1
  <1>3. ASSUME NEW k \in 1..N, k - 1 \in T PROVE k \in T
    <2>1. PICK f : SumsUpTo(f, s, k - 1)
      BY <1>3
    <2> DEFINE x == f[k - 1] + Size[s[k].id]
               h == [n \in 0..k |-> IF n = k THEN x ELSE f[n]]
               e == [n \in 0..k |->
                        IF n = 0 THEN 0 ELSE h[n - 1] + Size[s[n].id]]
    <2>2. \A n \in 0..k : h[n] = e[n]
      <3> TAKE n \in 0..k
      <3>1. CASE n = k
        <4>1. h[n] = x /\ h[n - 1] = f[n - 1] /\ n # 0
          BY <1>1, <3>1
        <4> QED
          BY <3>1, <4>1
      <3>2. CASE n # k
        <4>1. n \in 0..(k - 1) /\ h[n] = f[n]
          BY <1>1, <3>2
        <4>2. f[n] = IF n = 0 THEN 0 ELSE f[n - 1] + Size[s[n].id]
          BY <2>1, <4>1 DEF SumsUpTo
        <4>3. n # 0 => h[n - 1] = f[n - 1]
          BY <1>1, <4>1
        <4> QED
          BY <4>1, <4>2, <4>3
      <3> QED
        BY <3>1, <3>2
    <2>3. h = e
      <3>1. h = [n \in 0..k |-> h[n]] /\ e = [n \in 0..k |-> e[n]]
        OBVIOUS
      <3> HIDE DEF h, e
      <3> QED
        BY <2>2, <3>1
    <2>4. SumsUpTo(h, s, k)
      <3> HIDE DEF h
      <3> QED
        BY <2>3 DEF SumsUpTo
    <2> HIDE DEF h
    <2> QED
      BY <2>4
  <1>4. N \in T
    <2> HIDE DEF T
    <2>1. 0..N \subseteq T
      BY <1>1, <1>2, <1>3, Induction
    <2> QED
      BY <1>1, <2>1
  <1>5. \E f : SumsUpTo(f, s, N)
    BY <1>4
  <1> DEFINE c == CHOOSE f : SumsUpTo(f, s, N)
  <1>6. SumsUpTo(c, s, N)
    BY <1>5
  <1>7. SizeOf(s) = c[N]
    BY DEF SizeOf, SumsUpTo, N
  <1>8. Sums(c, s)
    BY <1>6, <1>7 DEF N, Sums
  <1> QED
    BY <1>8

(* The sizes are natural numbers and add up.                               *)
LEMMA SumsUpToStep ==
    ASSUME NEW f, NEW s \in Seq(Entries), Sums(f, s)
    PROVE  /\ f[0] = 0 /\ SizeOf(s) = f[Len(s)]
           /\ \A i \in 1..Len(s) : f[i] = f[i - 1] + Size[s[i].id]
           /\ \A i \in 0..Len(s) : f[i] \in Nat
           /\ \A i \in 1..Len(s) : Size[s[i].id] \in Nat
  <1> DEFINE N == Len(s)
             e(n) == IF n = 0 THEN 0 ELSE f[n - 1] + Size[s[n].id]
  <1>1. N \in Nat
    BY LenProperties
  <1>2. f = [n \in 0..N |-> e(n)]
    BY DEF Sums, SumsUpTo
  <1>3. \A n \in 0..N : f[n] = e(n)
    <2> HIDE DEF e
    <2> QED
      BY <1>2
  <1>4. f[0] = 0 /\ \A i \in 1..N : f[i] = f[i - 1] + Size[s[i].id]
    BY <1>1, <1>3
  <1>5. \A i \in 1..N : Size[s[i].id] \in Nat
    <2> TAKE i \in 1..N
    <2>1. s[i] \in Entries
      BY ElementOfSeq
    <2> QED
      BY <2>1, LoadAssumption DEF Entries
  <1> DEFINE T == {i \in 0..N : f[i] \in Nat}
  <1>6. 0 \in T
    BY <1>1, <1>4
  <1>7. ASSUME NEW i \in 1..N, i - 1 \in T PROVE i \in T
    BY <1>4, <1>5, <1>7
  <1>8. 0..N \subseteq T
    <2> HIDE DEF T
    <2> QED
      BY <1>1, <1>6, <1>7, Induction
  <1> QED
    BY <1>4, <1>5, <1>8 DEF Sums

(* Sizes are natural numbers, and those of parts add up.                   *)
LEMMA SizeNat == ASSUME NEW s \in Seq(Entries) PROVE SizeOf(s) \in Nat
  <1>1. PICK f : Sums(f, s)
    BY SizeFunction
  <1>2. SizeOf(s) = f[Len(s)] /\ \A i \in 0..Len(s) : f[i] \in Nat
    BY <1>1, SumsUpToStep
  <1>3. Len(s) \in 0..Len(s)
    BY LenProperties
  <1> QED
    BY <1>1, <1>2, <1>3

(* Nothing has no size.                                                    *)
LEMMA SizeEmpty == SizeOf(<<>>) = 0
  <1>1. <<>> \in Seq(Entries) /\ Len(<<>>) = 0
    BY EmptySeq
  <1>2. PICK f : Sums(f, <<>>)
    BY <1>1, SizeFunction
  <1>3. f[0] = 0 /\ SizeOf(<<>>) = f[Len(<<>>)]
    BY <1>1, <1>2, SumsUpToStep
  <1> QED
    BY <1>1, <1>2, <1>3

(* Two sequences together are as large as one and the other.               *)
LEMMA SizeConcat ==
    ASSUME NEW s \in Seq(Entries), NEW t \in Seq(Entries)
    PROVE  SizeOf(s \o t) = SizeOf(s) + SizeOf(t)
  <1> DEFINE u == s \o t  L == Len(s)  M == Len(t)
  <1>1. /\ u \in Seq(Entries) /\ Len(u) = L + M /\ L \in Nat /\ M \in Nat
        /\ \A i \in 1..L + M : u[i] = IF i <= L THEN s[i] ELSE t[i - L]
    BY ConcatProperties, LenProperties
  <1>2. PICK f : Sums(f, s)
    BY SizeFunction
  <1>3. PICK g : Sums(g, t)
    BY SizeFunction
  <1> HIDE DEF u
  <1>4. PICK h : Sums(h, u)
    BY <1>1, SizeFunction
  <1>5. /\ f[0] = 0 /\ SizeOf(s) = f[L]
        /\ \A i \in 1..L : f[i] = f[i - 1] + Size[s[i].id]
        /\ \A i \in 0..L : f[i] \in Nat
    BY <1>2, SumsUpToStep
  <1>6. /\ g[0] = 0 /\ SizeOf(t) = g[M]
        /\ \A i \in 1..M : g[i] = g[i - 1] + Size[t[i].id]
        /\ \A i \in 0..M : g[i] \in Nat
        /\ \A i \in 1..M : Size[t[i].id] \in Nat
    BY <1>3, SumsUpToStep
  <1>7. /\ h[0] = 0 /\ SizeOf(u) = h[L + M]
        /\ \A i \in 1..(L + M) : h[i] = h[i - 1] + Size[u[i].id]
    <2>1. /\ h[0] = 0 /\ SizeOf(u) = h[Len(u)]
          /\ \A i \in 1..Len(u) : h[i] = h[i - 1] + Size[u[i].id]
      BY <1>1, <1>4, SumsUpToStep
    <2> HIDE DEF L, M
    <2> QED
      BY <1>1, <2>1
  <1> HIDE DEF L, M
  <1> DEFINE T == {i \in 0..L : h[i] = f[i]}
  <1>8. 0..L \subseteq T
    <2>1. 0 \in T
      BY <1>1, <1>5, <1>7
    <2>2. ASSUME NEW i \in 1..L, i - 1 \in T PROVE i \in T
      <3>1. u[i] = s[i] /\ i \in 1..(L + M)
        BY <1>1
      <3> QED
        BY <1>5, <1>7, <2>2, <3>1
    <2> HIDE DEF T
    <2> QED
      BY <1>1, <2>1, <2>2, Induction
  <1> DEFINE V == {i \in 0..M : h[L + i] = f[L] + g[i]}
  <1>9. 0..M \subseteq V
    <2>1. 0 \in V
      <3>1. h[L] = f[L] /\ f[L] \in Nat /\ L + 0 = L
        BY <1>1, <1>5, <1>8
      <3> QED
        BY <1>1, <1>6, <3>1
    <2>2. ASSUME NEW i \in 1..M, i - 1 \in V PROVE i \in V
      <3>1. L + i \in 1..(L + M) /\ ~(L + i <= L) /\ (L + i) - L = i
              /\ (L + i) - 1 = L + (i - 1)
        BY <1>1
      <3>2. u[L + i] = t[i]
        BY <1>1, <3>1
      <3>3. h[L + i] = h[L + (i - 1)] + Size[t[i].id]
        BY <1>7, <3>1, <3>2
      <3>4. h[L + (i - 1)] = f[L] + g[i - 1]
        BY <2>2
      <3>5. g[i] = g[i - 1] + Size[t[i].id] /\ g[i - 1] \in Nat
              /\ Size[t[i].id] \in Nat /\ f[L] \in Nat
        BY <1>1, <1>5, <1>6
      <3> QED
        BY <3>3, <3>4, <3>5
    <2> HIDE DEF V
    <2> QED
      BY <1>1, <2>1, <2>2, Induction
  <1>10. h[L + M] = f[L] + g[M]
    BY <1>1, <1>9
  <1> QED
    BY <1>5, <1>6, <1>7, <1>10 DEF u

(* One more entry adds its size.                                           *)
LEMMA SizeAppend ==
    ASSUME NEW s \in Seq(Entries), NEW e \in Entries
    PROVE  SizeOf(Append(s, e)) = SizeOf(s) + Size[e.id]
  <1> DEFINE u == Append(s, e)  L == Len(s)
  <1>1. /\ u \in Seq(Entries) /\ Len(u) = L + 1 /\ L \in Nat
        /\ \A i \in 1..L : u[i] = s[i]
        /\ u[L + 1] = e
    BY AppendProperties, LenProperties
  <1>2. PICK f : Sums(f, s)
    BY SizeFunction
  <1> HIDE DEF u
  <1>3. PICK h : Sums(h, u)
    BY <1>1, SizeFunction
  <1>4. /\ f[0] = 0 /\ SizeOf(s) = f[L]
        /\ \A i \in 1..L : f[i] = f[i - 1] + Size[s[i].id]
    BY <1>2, SumsUpToStep
  <1>5. /\ h[0] = 0 /\ SizeOf(u) = h[L + 1]
        /\ \A i \in 1..(L + 1) : h[i] = h[i - 1] + Size[u[i].id]
    BY <1>1, <1>3, SumsUpToStep
  <1> HIDE DEF L
  <1> DEFINE T == {i \in 0..L : h[i] = f[i]}
  <1>6. 0..L \subseteq T
    <2>1. 0 \in T
      BY <1>1, <1>4, <1>5
    <2>2. ASSUME NEW i \in 1..L, i - 1 \in T PROVE i \in T
      <3>1. u[i] = s[i] /\ i \in 1..(L + 1)
        BY <1>1
      <3> QED
        BY <1>4, <1>5, <2>2, <3>1
    <2> HIDE DEF T
    <2> QED
      BY <1>1, <2>1, <2>2, Induction
  <1>7. h[L] = f[L] /\ h[L + 1] = h[L] + Size[e.id]
    <2>1. L \in 0..L /\ L + 1 \in 1..(L + 1) /\ (L + 1) - 1 = L
      BY <1>1
    <2> QED
      BY <1>1, <1>5, <1>6, <2>1
  <1> QED
    BY <1>4, <1>5, <1>7 DEF u

-----------------------------------------------------------------------------
(* Entries as sets of frames, and when their sequence numbers ascend.      *)

(* The entries as a set, and whether their numbers ascend.                 *)
Frames(s)    == {s[i] : i \in 1..Len(s)}
Ascending(s) == \A i, j \in 1..Len(s) : i < j => s[i].sn < s[j].sn

(* Numbers and MSDUs of a sequence are those of its frames.                *)
LEMMA FramesIn ==
    ASSUME NEW s \in Seq(Entries)
    PROVE  /\ Frames(s) \subseteq Entries
           /\ MSDUsIn(Ids(s)) = {e.id : e \in Frames(s)}
           /\ SNs(s) = {e.sn : e \in Frames(s)}
           /\ Ids(s) \in Seq(MSDUs) /\ Len(Ids(s)) = Len(s)
           /\ \A i \in 1..Len(s) : Ids(s)[i] = s[i].id
           /\ s = <<>> => Frames(s) = {}
           /\ s # <<>> => s[1] \in Frames(s)
  <1>1. Len(s) \in Nat /\ \A i \in 1..Len(s) : s[i] \in Entries
    BY LenProperties, ElementOfSeq
  <1>2. Frames(s) \subseteq Entries
    BY <1>1 DEF Frames
  <1> DEFINE t == Ids(s)
  <1>3. t \in Seq(MSDUs)
    <2>1. t = [i \in 1..Len(s) |-> s[i].id]
      BY DEF Ids
    <2>2. \A i \in 1..Len(s) : s[i].id \in MSDUs
      BY <1>1 DEF Entries
    <2>3. t \in [1..Len(s) -> MSDUs]
      BY <2>1, <2>2
    <2> HIDE DEF t
    <2> QED
      BY <1>1, <2>3, SeqDef
  <1>4. Len(t) = Len(s)
    <2>1. DOMAIN t = 1..Len(s) /\ DOMAIN t = 1..Len(t) /\ Len(t) \in Nat
      BY <1>3, LenProperties DEF Ids
    <2> HIDE DEF t
    <2> QED
      BY <1>1, <2>1
  <1>5. \A i \in 1..Len(s) : t[i] = s[i].id
    BY DEF Ids
  <1>6. MSDUsIn(t) = {e.id : e \in Frames(s)}
    <2> HIDE DEF t
    <2> QED
      BY <1>4, <1>5 DEF MSDUsIn, Frames
  <1>7. SNs(s) = {e.sn : e \in Frames(s)}
    BY DEF SNs, Frames
  <1>8. s = <<>> => Frames(s) = {}
    BY EmptySeq DEF Frames
  <1>9. s # <<>> => s[1] \in Frames(s)
    <2>1. s # <<>> => Len(s) \in Nat \ {0}
      BY EmptySeq
    <2> QED
      BY <2>1 DEF Frames
  <1> QED
    BY <1>2, <1>3, <1>4, <1>5, <1>6, <1>7, <1>8, <1>9

(* A concatenation ascends when its parts do and the first is below the    *)
(* second.                                                                 *)
LEMMA ConcatFrames ==
    ASSUME NEW s \in Seq(Entries), NEW t \in Seq(Entries)
    PROVE  /\ s \o t \in Seq(Entries)
           /\ Frames(s \o t) = Frames(s) \cup Frames(t)
           /\ Ascending(s) /\ Ascending(t)
              /\ (\A e \in Frames(s), f \in Frames(t) : e.sn < f.sn)
                  => Ascending(s \o t)
           /\ Ascending(s \o t) =>
                 /\ Ascending(s) /\ Ascending(t)
                 /\ \A e \in Frames(s), f \in Frames(t) : e.sn < f.sn
  <1> DEFINE u == s \o t  L == Len(s)  M == Len(t)
  <1>1. /\ u \in Seq(Entries) /\ Len(u) = L + M /\ L \in Nat /\ M \in Nat
        /\ \A i \in 1..L + M : u[i] = IF i <= L THEN s[i] ELSE t[i - L]
    BY ConcatProperties, LenProperties
  <1> HIDE DEF u, L, M
  <1>2. /\ \A i \in 1..L : i \in 1..(L + M) /\ u[i] = s[i]
        /\ \A i \in 1..M : i + L \in 1..(L + M) /\ u[i + L] = t[i]
    <2>1. \A i \in 1..M : i + L \in 1..(L + M) /\ ~(i + L <= L)
                            /\ (i + L) - L = i
      BY <1>1
    <2> QED
      BY <1>1, <2>1
  <1>3. \A i \in 1..(L + M) : i \in 1..L \/ \E j \in 1..M : i = j + L
    <2> TAKE i \in 1..(L + M)
    <2>1. i \in 1..L \/ (i - L \in 1..M /\ i = (i - L) + L)
      BY <1>1
    <2> QED
      BY <2>1
  <1>4. Frames(u) = Frames(s) \cup Frames(t)
    <2>1. Frames(u) = {u[i] : i \in 1..(L + M)}
            /\ Frames(s) = {s[i] : i \in 1..L}
            /\ Frames(t) = {t[i] : i \in 1..M}
      BY <1>1 DEF Frames, L, M
    <2>2. \A x : x \in Frames(u) => x \in Frames(s) \cup Frames(t)
      <3> TAKE x
      <3> HAVE x \in Frames(u)
      <3>1. PICK i \in 1..(L + M) : x = u[i]
        BY <2>1
      <3> QED
        BY <1>2, <1>3, <2>1, <3>1
    <2>3. \A x : x \in Frames(s) \cup Frames(t) => x \in Frames(u)
      BY <1>2, <2>1
    <2> QED
      BY <2>2, <2>3
  <1>5. ASSUME Ascending(s), Ascending(t),
               \A e \in Frames(s), f \in Frames(t) : e.sn < f.sn
        PROVE  Ascending(u)
    <2> SUFFICES ASSUME NEW i \in 1..(L + M), NEW j \in 1..(L + M), i < j
                 PROVE  u[i].sn < u[j].sn
      BY <1>1 DEF Ascending
    <2>1. CASE i \in 1..L /\ j \in 1..L
      BY <1>2, <1>5, <2>1 DEF Ascending, L
    <2>2. CASE i \in 1..L /\ \E k \in 1..M : j = k + L
      <3>1. PICK k \in 1..M : j = k + L
        BY <2>2
      <3>2. u[i] \in Frames(s) /\ u[j] \in Frames(t)
        BY <1>2, <2>2, <3>1 DEF Frames, L, M
      <3> QED
        BY <1>5, <3>2
    <2>3. CASE (\E k \in 1..M : i = k + L) /\ (\E k \in 1..M : j = k + L)
      <3>1. PICK h \in 1..M, k \in 1..M : i = h + L /\ j = k + L
        BY <2>3
      <3>2. h < k
        BY <1>1, <3>1
      <3>3. t[h].sn < t[k].sn
        BY <1>5, <3>2 DEF Ascending, M
      <3> QED
        BY <1>2, <3>1, <3>3
    <2>4. CASE (\E k \in 1..M : i = k + L) /\ j \in 1..L
      BY <1>1, <2>4
    <2> QED
      BY <1>3, <2>1, <2>2, <2>3, <2>4
  <1>6. ASSUME Ascending(u)
        PROVE  /\ Ascending(s) /\ Ascending(t)
               /\ \A e \in Frames(s), f \in Frames(t) : e.sn < f.sn
    <2>1. \A i, j \in 1..(L + M) : i < j => u[i].sn < u[j].sn
      BY <1>1, <1>6 DEF Ascending
    <2>2. Ascending(s)
      BY <1>2, <2>1 DEF Ascending, L
    <2>3. Ascending(t)
      <3> SUFFICES ASSUME NEW i \in 1..M, NEW j \in 1..M, i < j
                   PROVE  t[i].sn < t[j].sn
        BY DEF Ascending, M
      <3>1. i + L < j + L
        BY <1>1
      <3> QED
        BY <1>2, <2>1, <3>1
    <2>4. ASSUME NEW e \in Frames(s), NEW f \in Frames(t) PROVE e.sn < f.sn
      <3>1. PICK i \in 1..L : e = s[i]
        BY DEF Frames, L
      <3>2. PICK j \in 1..M : f = t[j]
        BY DEF Frames, M
      <3>3. i < j + L
        BY <1>1
      <3> QED
        BY <1>2, <2>1, <3>1, <3>2, <3>3
    <2> QED
      BY <2>2, <2>3, <2>4
  <1> QED
    BY <1>1, <1>4, <1>5, <1>6 DEF u

(* A selection of entries has the chosen ones and still ascends.           *)
LEMMA SelectedFrames ==
    ASSUME NEW s \in Seq(Entries), NEW I \in SUBSET (1..Len(s))
    PROVE  LET t == Selected(s, I)
           IN  /\ t \in Seq(Entries)
               /\ Frames(t) = {s[i] : i \in I}
               /\ Ascending(s) => Ascending(t)
  <1> DEFINE t == Selected(s, I)
  <1>1. t \in Seq(Entries) /\ \E h : IsSelection(t, h, s, I \cap 1..Len(s))
    BY SelectedFacts
  <1>2. I \cap 1..Len(s) = I
    OBVIOUS
  <1> HIDE DEF t
  <1>3. PICK h : IsSelection(t, h, s, I)
    BY <1>1, <1>2
  <1>4. /\ \A i \in 1..Len(t) : h[i] \in I /\ t[i] = s[h[i]]
        /\ \A i, j \in 1..Len(t) : i < j => h[i] < h[j]
        /\ \A j \in I : \E i \in 1..Len(t) : h[i] = j
    BY <1>3 DEF IsSelection
  <1>5. Frames(t) = {s[i] : i \in I}
    <2>1. \A x \in Frames(t) : \E i \in I : x = s[i]
      <3> TAKE x \in Frames(t)
      <3>1. PICK k \in 1..Len(t) : x = t[k]
        BY DEF Frames
      <3>2. h[k] \in I /\ x = s[h[k]]
        BY <1>4, <3>1
      <3> QED
        BY <3>2
    <2>2. \A i \in I : s[i] \in Frames(t)
      <3> TAKE i \in I
      <3>1. PICK k \in 1..Len(t) : h[k] = i
        BY <1>4
      <3>2. t[k] = s[i]
        BY <1>4, <3>1
      <3> QED
        BY <3>2 DEF Frames
    <2> QED
      BY <2>1, <2>2
  <1>6. ASSUME Ascending(s) PROVE Ascending(t)
    <2> SUFFICES ASSUME NEW i \in 1..Len(t), NEW j \in 1..Len(t), i < j
                 PROVE  t[i].sn < t[j].sn
      BY DEF Ascending
    <2>1. h[i] \in 1..Len(s) /\ h[j] \in 1..Len(s) /\ h[i] < h[j]
      BY <1>4
    <2>2. s[h[i]].sn < s[h[j]].sn
      BY <1>6, <2>1 DEF Ascending
    <2> QED
      BY <1>4, <2>2
  <1> QED
    BY <1>1, <1>5, <1>6 DEF t

(* The storage is split by number in two parts that ascend.                *)
LEMMA BelowFrom ==
    ASSUME NEW s \in Seq(Entries), Ascending(s), NEW n \in Nat
    PROVE  /\ Below(s, n) \in Seq(Entries) /\ From(s, n) \in Seq(Entries)
           /\ Ascending(Below(s, n)) /\ Ascending(From(s, n))
           /\ Frames(Below(s, n)) = {e \in Frames(s) : e.sn < n}
           /\ Frames(From(s, n)) = {e \in Frames(s) : e.sn >= n}
  <1> DEFINE I == {i \in 1..Len(s) : s[i].sn < n}
             J == {i \in 1..Len(s) : s[i].sn >= n}
  <1>1. Below(s, n) = Selected(s, I) /\ From(s, n) = Selected(s, J)
    BY DEF Below, From
  <1>2. /\ {s[i] : i \in I} = {e \in Frames(s) : e.sn < n}
        /\ {s[i] : i \in J} = {e \in Frames(s) : e.sn >= n}
    BY DEF Frames
  <1>3. I \in SUBSET (1..Len(s)) /\ J \in SUBSET (1..Len(s))
    OBVIOUS
  <1> HIDE DEF I, J
  <1> QED
    BY <1>1, <1>2, <1>3, SelectedFrames

(* Storing an entry of a new number keeps the order of the storage.        *)
LEMMA StoreFrames ==
    ASSUME NEW s \in Seq(Entries), Ascending(s), NEW e \in Entries,
           e.sn \notin SNs(s)
    PROVE  /\ Store(s, e) \in Seq(Entries) /\ Ascending(Store(s, e))
           /\ Frames(Store(s, e)) = Frames(s) \cup {e}
  <1> DEFINE b == Below(s, e.sn)  f == From(s, e.sn)  c == <<e>>
  <1>1. e.sn \in Nat
    BY DEF Entries
  <1>2. /\ b \in Seq(Entries) /\ f \in Seq(Entries)
        /\ Ascending(b) /\ Ascending(f)
        /\ Frames(b) = {x \in Frames(s) : x.sn < e.sn}
        /\ Frames(f) = {x \in Frames(s) : x.sn >= e.sn}
    BY <1>1, BelowFrom
  <1>3. c \in Seq(Entries) /\ Frames(c) = {e} /\ Ascending(c)
    BY DEF Frames, Ascending
  <1>4. Store(s, e) = (b \o c) \o f
    BY DEF Store
  <1>5. \A x \in Frames(s) : x.sn \in Nat /\ x.sn # e.sn
    BY FramesIn DEF Entries
  <1> HIDE DEF b, c, f
  <1>6. /\ b \o c \in Seq(Entries) /\ Ascending(b \o c)
        /\ Frames(b \o c) = Frames(b) \cup {e}
    BY <1>2, <1>3, ConcatFrames
  <1>7. \A x \in Frames(b \o c), y \in Frames(f) : x.sn < y.sn
    BY <1>1, <1>2, <1>5, <1>6
  <1>8. /\ (b \o c) \o f \in Seq(Entries) /\ Ascending((b \o c) \o f)
        /\ Frames((b \o c) \o f) = (Frames(b) \cup {e}) \cup Frames(f)
    BY <1>2, <1>6, <1>7, ConcatFrames
  <1>9. Frames(b) \cup Frames(f) = Frames(s)
    BY <1>1, <1>2, <1>5
  <1> QED
    BY <1>4, <1>8, <1>9

-----------------------------------------------------------------------------
(* The receiver. g gives the MSDU of each number that the sender has       *)
(* handed out so far, N of them.                                           *)

(* The states of a reception queue.                                        *)
RxQueues == [known : BOOLEAN, waitingForSN : Nat, rxStorage : Seq(Entries),
             rxSNs : SUBSET Nat, first : Nat, delivered : Seq(MSDUs)]

(* The MSDUs of one receiver in the order of their numbers 0, ..., N - 1.  *)
Numbers(g, N) ==
    /\ N \in Nat /\ g \in [0..(N - 1) -> MSDUs]
    /\ \A x, y \in 0..(N - 1) : x < y => g[x] < g[y]

(* Whether the receiver has n, or came to know the sender too late for it. *)
Got(q, n) ==
    n < q.first \/ n \in MSDUsIn(q.delivered) \/ n \in MSDUsIn(Ids(q.rxStorage))

(* The MSDUs passed up are in order and have numbers below w.              *)
Delivers(d, g, w) ==
    /\ \A i, j \in 1..Len(d) : i < j => d[i] < d[j]
    /\ \A n \in MSDUsIn(d) : \E x \in 0..(w - 1) : n = g[x]

(* A reception queue agrees with g: the storage ascends, is not below the  *)
(* number waited for, and holds what g says; the first MSDU known is one   *)
(* of g; what is noted for the next acknowledgement has been got.          *)
RxLoose(q, g, N) ==
    /\ q \in RxQueues /\ q.waitingForSN <= N
    /\ Ascending(q.rxStorage)
    /\ \A e \in Frames(q.rxStorage) :
          q.waitingForSN <= e.sn /\ e.sn < N /\ g[e.sn] = e.id
    /\ Delivers(q.delivered, g, q.waitingForSN)
    /\ q.first = 0 \/ \E x \in 0..(N - 1) : q.first = g[x]
    /\ \A x \in q.waitingForSN..(N - 1) : g[x] >= q.first
    /\ ~q.known => /\ q.rxStorage = <<>> /\ q.delivered = <<>>
                   /\ q.rxSNs = {} /\ q.waitingForSN = 0 /\ q.first = 0
    /\ \A s \in q.rxSNs : s < N /\ Got(q, g[s])

(* Between two frames, nothing stored is next in line.                     *)
RxData(q, g, N) ==
    /\ RxLoose(q, g, N)
    /\ \A e \in Frames(q.rxStorage) : e.sn # q.waitingForSN

(* Stored entries of consecutive windows can be passed up in their order.  *)
LEMMA DeliverMore ==
    ASSUME NEW g, NEW N, Numbers(g, N), NEW d \in Seq(MSDUs),
           NEW w \in Nat, NEW v \in Nat, w <= v, v <= N, Delivers(d, g, w),
           NEW t \in Seq(Entries), Ascending(t),
           \A e \in Frames(t) : w <= e.sn /\ e.sn < v /\ g[e.sn] = e.id
    PROVE  /\ d \o Ids(t) \in Seq(MSDUs)
           /\ Delivers(d \o Ids(t), g, v)
           /\ MSDUsIn(d \o Ids(t)) = MSDUsIn(d) \cup MSDUsIn(Ids(t))
  <1> DEFINE u == Ids(t)  c == d \o u  L == Len(d)  M == Len(t)
  <1>1. /\ u \in Seq(MSDUs) /\ Len(u) = M
        /\ \A i \in 1..M : u[i] = t[i].id
        /\ \A i \in 1..M : t[i] \in Entries /\ t[i] \in Frames(t)
    <2>1. \A i \in 1..M : t[i] \in Frames(t)
      BY DEF Frames
    <2>2. \A i \in 1..M : t[i] \in Entries
      BY ElementOfSeq
    <2>3. u \in Seq(MSDUs) /\ Len(u) = M /\ \A i \in 1..M : u[i] = t[i].id
      BY FramesIn
    <2> HIDE DEF u, M
    <2> QED
      BY <2>1, <2>2, <2>3
  <1> HIDE DEF u
  <1>2. /\ c \in Seq(MSDUs) /\ Len(c) = L + M /\ L \in Nat /\ M \in Nat
        /\ \A i \in 1..L + M : c[i] = IF i <= L THEN d[i] ELSE u[i - L]
    <2>1. u \in Seq(MSDUs) /\ Len(u) = M
      BY <1>1
    <2>2. L \in Nat /\ Len(u) \in Nat
      BY <2>1, LenProperties
    <2>3. /\ c \in Seq(MSDUs) /\ Len(c) = L + Len(u)
          /\ \A i \in 1..L + Len(u) : c[i] = IF i <= L THEN d[i] ELSE u[i - L]
      BY <2>1, ConcatProperties
    <2> HIDE DEF c, L, M
    <2> QED
      BY <2>1, <2>2, <2>3
  <1> HIDE DEF c, L, M
  <1>3. /\ \A i \in 1..L : i \in 1..(L + M) /\ c[i] = d[i]
        /\ \A i \in 1..M : i + L \in 1..(L + M) /\ c[i + L] = u[i]
    <2>1. \A i \in 1..M : i + L \in 1..(L + M) /\ ~(i + L <= L)
                            /\ (i + L) - L = i
      BY <1>2
    <2> QED
      BY <1>2, <2>1
  <1>4. \A i \in 1..(L + M) : i \in 1..L \/ \E j \in 1..M : i = j + L
    <2> TAKE i \in 1..(L + M)
    <2>1. i \in 1..L \/ (i - L \in 1..M /\ i = (i - L) + L)
      BY <1>2
    <2> QED
      BY <2>1
  <1>5. \A i \in 1..L : \E x \in 0..(w - 1) : d[i] = g[x]
    BY DEF Delivers, MSDUsIn, L
  <1>6. \A i \in 1..M : /\ t[i].sn \in w..(v - 1)
                        /\ u[i] = g[t[i].sn]
    BY <1>1 DEF Entries
  <1>7. MSDUsIn(c) = MSDUsIn(d) \cup MSDUsIn(u)
    <2>1. MSDUsIn(c) = {c[i] : i \in 1..(L + M)}
            /\ MSDUsIn(d) = {d[i] : i \in 1..L}
            /\ MSDUsIn(u) = {u[i] : i \in 1..M}
      BY <1>1, <1>2 DEF MSDUsIn, L, M
    <2>2. \A x : x \in MSDUsIn(c) => x \in MSDUsIn(d) \cup MSDUsIn(u)
      <3> TAKE x
      <3> HAVE x \in MSDUsIn(c)
      <3>1. PICK i \in 1..(L + M) : x = c[i]
        BY <2>1
      <3> QED
        BY <1>3, <1>4, <2>1, <3>1
    <2>3. \A x : x \in MSDUsIn(d) \cup MSDUsIn(u) => x \in MSDUsIn(c)
      BY <1>3, <2>1
    <2> QED
      BY <2>2, <2>3
  <1>8. \A n \in MSDUsIn(c) : \E x \in 0..(v - 1) : n = g[x]
    <2> TAKE n \in MSDUsIn(c)
    <2>1. CASE n \in MSDUsIn(d)
      <3>1. PICK x \in 0..(w - 1) : n = g[x]
        BY <2>1 DEF Delivers
      <3> QED
        BY <3>1
    <2>2. CASE n \in MSDUsIn(u)
      <3>1. PICK i \in 1..M : n = u[i]
        BY <1>1, <2>2 DEF MSDUsIn
      <3>2. t[i].sn \in 0..(v - 1)
        BY <1>6
      <3> QED
        BY <1>6, <3>1, <3>2
    <2> QED
      BY <1>7, <2>1, <2>2
  <1>9. ASSUME NEW i \in 1..(L + M), NEW j \in 1..(L + M), i < j
        PROVE  c[i] < c[j]
    <2>1. CASE i \in 1..L /\ j \in 1..L
      BY <1>3, <1>9, <2>1 DEF Delivers, L
    <2>2. CASE i \in 1..L /\ \E k \in 1..M : j = k + L
      <3>1. PICK k \in 1..M : j = k + L
        BY <2>2
      <3>2. PICK x \in 0..(w - 1) : d[i] = g[x]
        BY <1>5, <2>2
      <3>3. t[k].sn \in w..(v - 1) /\ u[k] = g[t[k].sn]
        BY <1>6
      <3>4. g[x] < g[t[k].sn]
        <4>1. x \in 0..(N - 1) /\ t[k].sn \in 0..(N - 1) /\ x < t[k].sn
          BY <3>2, <3>3 DEF Numbers
        <4> QED
          BY <4>1 DEF Numbers
      <3> QED
        BY <1>3, <2>2, <3>1, <3>2, <3>3, <3>4
    <2>3. CASE (\E k \in 1..M : i = k + L) /\ (\E k \in 1..M : j = k + L)
      <3>1. PICK h \in 1..M, k \in 1..M : i = h + L /\ j = k + L
        BY <2>3
      <3>2. h < k
        BY <1>2, <1>9, <3>1
      <3>3. t[h].sn < t[k].sn
        BY <3>2 DEF Ascending, M
      <3>4. t[h].sn \in w..(v - 1) /\ t[k].sn \in w..(v - 1)
        BY <1>6
      <3>5. g[t[h].sn] < g[t[k].sn]
        <4>1. t[h].sn \in 0..(N - 1) /\ t[k].sn \in 0..(N - 1)
          BY <3>4, SMTT(30) DEF Numbers
        <4> QED
          BY <3>3, <4>1 DEF Numbers
      <3> QED
        BY <1>3, <1>6, <3>1, <3>5
    <2>4. CASE (\E k \in 1..M : i = k + L) /\ j \in 1..L
      BY <1>2, <1>9, <2>4
    <2> QED
      BY <1>4, <2>1, <2>2, <2>3, <2>4
  <1>10. Delivers(c, g, v)
    BY <1>2, <1>8, <1>9 DEF Delivers
  <1> QED
    BY <1>2, <1>7, <1>10 DEF c, u

(* The MSDU that is waited for can be passed up.                           *)
LEMMA DeliverOne ==
    ASSUME NEW g, NEW N, Numbers(g, N), NEW d \in Seq(MSDUs),
           NEW w \in Nat, w < N, Delivers(d, g, w)
    PROVE  /\ Append(d, g[w]) \in Seq(MSDUs)
           /\ Delivers(Append(d, g[w]), g, w + 1)
           /\ MSDUsIn(Append(d, g[w])) = MSDUsIn(d) \cup {g[w]}
  <1> DEFINE t == <<[id |-> g[w], sn |-> w]>>
  <1>1. g[w] \in MSDUs /\ N \in Nat
    BY DEF Numbers
  <1>2. t \in Seq(Entries) /\ Len(t) = 1 /\ t[1].id = g[w] /\ t[1].sn = w
    BY <1>1 DEF Entries
  <1> HIDE DEF t
  <1>3. Ascending(t) /\ \A e \in Frames(t) : e.sn = w /\ e.id = g[w]
    BY <1>2 DEF Ascending, Frames
  <1>4. Ids(t) \in Seq(MSDUs) /\ Len(Ids(t)) = 1 /\ Ids(t)[1] = g[w]
    BY <1>2, FramesIn
  <1>5. Ids(t) = <<g[w]>>
    <2>1. <<g[w]>> \in Seq(MSDUs) /\ Len(<<g[w]>>) = 1 /\ <<g[w]>>[1] = g[w]
      BY <1>1
    <2> DEFINE a == Ids(t)  b == <<g[w]>>
    <2>2. a \in Seq(MSDUs) /\ b \in Seq(MSDUs) /\ Len(a) = Len(b)
            /\ \A i \in 1..Len(a) : a[i] = b[i]
      BY <1>4, <2>1
    <2> HIDE DEF a, b
    <2>3. a = b
      BY <2>2, SeqEqual
    <2> QED
      BY <2>3 DEF a, b
  <1>6. d \o Ids(t) = Append(d, g[w])
    BY <1>1, <1>5, AppendIsConcat
  <1>7. MSDUsIn(Ids(t)) = {g[w]}
    BY <1>4 DEF MSDUsIn
  <1>8. w <= w + 1 /\ w + 1 <= N /\ w + 1 \in Nat
        /\ \A e \in Frames(t) : w <= e.sn /\ e.sn < w + 1 /\ g[e.sn] = e.id
    BY <1>1, <1>3
  <1> QED
    <2> DEFINE c == d \o Ids(t)
    <2>1. /\ c \in Seq(MSDUs) /\ Delivers(c, g, w + 1)
          /\ MSDUsIn(c) = MSDUsIn(d) \cup MSDUsIn(Ids(t))
      BY <1>2, <1>3, <1>8, DeliverMore
    <2> QED
      BY <1>6, <1>7, <2>1

-----------------------------------------------------------------------------
(* Passing up what has become next in line (purgeRxStorage).               *)

(* Outcome of the loop that passes up what is next in line.                *)
LEMMA PurgeOutcome ==
    ASSUME NEW q \in RxQueues, Ascending(q.rxStorage)
    PROVE  \E k \in 0..Len(q.rxStorage) :
              /\ \A i \in 1..k : q.rxStorage[i].sn = q.waitingForSN + i - 1
              /\ \/ k = Len(q.rxStorage)
                 \/ q.rxStorage[k + 1].sn # q.waitingForSN + k
              /\ PurgeRxStorage(q) =
                    [q EXCEPT !.delivered = @ \o Ids(SubSeq(q.rxStorage, 1, k)),
                              !.rxStorage = SubSeq(q.rxStorage, k + 1, Len(q.rxStorage)),
                              !.waitingForSN = @ + k]
  <1> DEFINE s == q.rxStorage  w == q.waitingForSN  L == Len(s)
             Stops(j) == j = L \/ s[j + 1].sn # w + j
             Run(j) == \A i \in 1..j : s[i].sn = w + i - 1
             T == {j \in 0..L : Stops(j)}
  <1>1. s \in Seq(Entries) /\ L \in Nat /\ w \in Nat
    BY LenProperties DEF RxQueues
  <1> HIDE DEF s, w, L
  <1>2. PICK k \in T : \A j \in T : k <= j
    <2>1. L \in T /\ T \in SUBSET Nat
      BY <1>1
    <2> HIDE DEF T
    <2> QED
      BY <2>1, LeastNumber
  <1>3. Run(k)
    <2> SUFFICES ASSUME NEW i \in 1..k PROVE s[i].sn = w + i - 1
      OBVIOUS
    <2>1. i - 1 \in 0..L /\ ~(k <= i - 1) /\ k \in 0..L
      BY <1>1, <1>2
    <2>2. ~Stops(i - 1)
      <3> HIDE DEF Stops
      <3> QED
        BY <1>2, <2>1
    <2>3. s[(i - 1) + 1].sn = w + (i - 1) /\ (i - 1) + 1 = i
      BY <1>1, <2>1, <2>2
    <2> QED
      BY <1>1, <2>3
  <1> DEFINE c == CHOOSE j \in 0..L : Run(j) /\ Stops(j)
  <1>4. c \in 0..L /\ Run(c) /\ Stops(c)
    <2>1. k \in 0..L /\ Run(k) /\ Stops(k)
      BY <1>2, <1>3
    <2> HIDE DEF Run, Stops
    <2> QED
      BY <2>1
  <1>5. PurgeRxStorage(q) =
            [q EXCEPT !.delivered = @ \o Ids(SubSeq(s, 1, c)),
                      !.rxStorage = SubSeq(s, c + 1, L),
                      !.waitingForSN = @ + c]
    BY DEF PurgeRxStorage, s, w, L
  <1> HIDE DEF c
  <1> QED
    BY <1>4, <1>5 DEF s, w, L

(* A sequence is a first part and the rest.                                *)
LEMMA SplitAt ==
    ASSUME NEW S, NEW s \in Seq(S), NEW k \in 0..Len(s)
    PROVE  LET a == SubSeq(s, 1, k)
               b == SubSeq(s, k + 1, Len(s))
           IN  /\ a \in Seq(S) /\ b \in Seq(S)
               /\ s = a \o b
               /\ Len(a) = k /\ Len(b) = Len(s) - k
               /\ \A i \in 1..k : a[i] = s[i]
               /\ \A i \in 1..(Len(s) - k) : b[i] = s[k + i]
  <1> DEFINE a == SubSeq(s, 1, k)  b == SubSeq(s, k + 1, Len(s))
  <1>1. Len(s) \in Nat /\ \A i \in 1..Len(s) : s[i] \in S
    BY LenProperties, ElementOfSeq
  <1>2. /\ a \in Seq(S) /\ Len(a) = k
        /\ \A i \in 1..k : a[i] = s[i]
    <2>1. \A i \in 1..k : s[i] \in S
      BY <1>1
    <2>2. /\ a \in Seq(S) /\ Len(a) = IF 1 <= k THEN k - 1 + 1 ELSE 0
          /\ \A i \in 1..(k - 1 + 1) : a[i] = s[1 + i - 1]
      BY <1>1, <2>1, SubSeqProperties
    <2>3. k - 1 + 1 = k /\ \A i \in 1..k : 1 + i - 1 = i
      BY <1>1
    <2> HIDE DEF a
    <2> QED
      BY <1>1, <2>2, <2>3
  <1>3. /\ b \in Seq(S) /\ Len(b) = Len(s) - k
        /\ \A i \in 1..(Len(s) - k) : b[i] = s[k + i]
    <2>1. \A i \in (k + 1)..Len(s) : s[i] \in S
      BY <1>1
    <2>2. /\ b \in Seq(S)
          /\ Len(b) = IF k + 1 <= Len(s) THEN Len(s) - (k + 1) + 1 ELSE 0
          /\ \A i \in 1..(Len(s) - (k + 1) + 1) : b[i] = s[(k + 1) + i - 1]
      BY <1>1, <2>1, SubSeqProperties
    <2>3. Len(s) - (k + 1) + 1 = Len(s) - k
            /\ \A i \in 1..(Len(s) - k) : (k + 1) + i - 1 = k + i
      BY <1>1
    <2> HIDE DEF b
    <2>4. Len(b) = Len(s) - k
      BY <1>1, <2>2
    <2>5. \A i \in 1..(Len(s) - k) : b[i] = s[k + i]
      BY <2>2, <2>3
    <2> QED
      BY <2>2, <2>4, <2>5
  <1>4. s = a \o b
    <2>1. SubSeq(s, 1, k) \o SubSeq(s, k + 1, Len(s)) = SubSeq(s, 1, Len(s))
      <3>1. 1 \in 1..Len(s) + 1 /\ k \in (1 - 1)..Len(s)
              /\ Len(s) \in k..Len(s)
        BY <1>1
      <3> QED
        BY <3>1, ConcatAdjacentSubSeq
    <2> QED
      BY <2>1, SubSeqFull
  <1> QED
    BY <1>2, <1>3, <1>4

(* The same for entries.                                                   *)
LEMMA SplitFrames ==
    ASSUME NEW s \in Seq(Entries), NEW k \in 0..Len(s)
    PROVE  LET a == SubSeq(s, 1, k)
               b == SubSeq(s, k + 1, Len(s))
           IN  /\ a \in Seq(Entries) /\ b \in Seq(Entries)
               /\ s = a \o b
               /\ Len(a) = k /\ Len(b) = Len(s) - k
               /\ \A i \in 1..k : a[i] = s[i]
               /\ \A i \in 1..(Len(s) - k) : b[i] = s[k + i]
  BY SplitAt, Zenon

(* The loop keeps the agreement with g, and leaves nothing stored that is  *)
(* next in line.                                                           *)
LEMMA PurgeData ==
    ASSUME NEW g, NEW N, Numbers(g, N), NEW q, RxLoose(q, g, N), q.known
    PROVE  LET p == PurgeRxStorage(q)
           IN  /\ RxData(p, g, N)
               /\ p.rxSNs = q.rxSNs
               /\ \A n : Got(q, n) => Got(p, n)
               /\ \A x \in 0..(N - 1) :
                     x >= q.waitingForSN => x >= p.waitingForSN \/ Got(p, g[x])
  <1> DEFINE s == q.rxStorage  w == q.waitingForSN  p == PurgeRxStorage(q)
  <1>1. /\ q \in RxQueues /\ s \in Seq(Entries) /\ w \in Nat /\ Ascending(s)
        /\ q.delivered \in Seq(MSDUs) /\ w <= N /\ N \in Nat
    BY DEF RxLoose, RxQueues, Numbers
  <1>2. PICK k \in 0..Len(s) :
              /\ \A i \in 1..k : s[i].sn = w + i - 1
              /\ k = Len(s) \/ s[k + 1].sn # w + k
              /\ p = [q EXCEPT !.delivered = @ \o Ids(SubSeq(s, 1, k)),
                               !.rxStorage = SubSeq(s, k + 1, Len(s)),
                               !.waitingForSN = @ + k]
    BY <1>1, PurgeOutcome
  <1> DEFINE a == SubSeq(s, 1, k)  b == SubSeq(s, k + 1, Len(s))
  <1>3. /\ a \in Seq(Entries) /\ b \in Seq(Entries) /\ s = a \o b
        /\ Len(a) = k /\ Len(b) = Len(s) - k
        /\ \A i \in 1..k : a[i] = s[i]
        /\ \A i \in 1..(Len(s) - k) : b[i] = s[k + i]
    BY <1>1, SplitFrames
  <1>4. Len(s) \in Nat /\ k \in Nat
    BY <1>1, LenProperties
  <1> HIDE DEF a, b, p
  <1>5. p = [q EXCEPT !.delivered = @ \o Ids(a), !.rxStorage = b,
                      !.waitingForSN = @ + k]
    BY <1>2 DEF a, b
  <1>6. /\ Ascending(a) /\ Ascending(b)
        /\ Frames(s) = Frames(a) \cup Frames(b)
    BY <1>1, <1>3, ConcatFrames
  <1>7. \A e \in Frames(s) : w <= e.sn /\ e.sn < N /\ g[e.sn] = e.id
                               /\ e \in Entries
    BY <1>1, FramesIn DEF RxLoose
  <1>8. \A i \in 1..k : a[i].sn = w + i - 1 /\ a[i] \in Frames(a)
    BY <1>2, <1>3 DEF Frames
  <1>9. \A e \in Frames(a) : w <= e.sn /\ e.sn < w + k
    <2> TAKE e \in Frames(a)
    <2>1. PICK i \in 1..k : e = a[i]
      BY <1>3 DEF Frames
    <2> QED
      BY <1>1, <1>4, <1>8, <2>1
  <1>10. \A e \in Frames(b) : w + k < e.sn
    <2> TAKE e \in Frames(b)
    <2>1. PICK i \in 1..Len(b) : e = b[i]
      BY DEF Frames
    <2>2. i \in 1..(Len(s) - k) /\ k + 1 \in 1..Len(s) /\ k + i \in 1..Len(s)
      BY <1>3, <1>4, <2>1
    <2>3. e = s[k + i] /\ s[k + 1] \in Frames(s) /\ e \in Frames(s)
      BY <1>3, <2>1, <2>2 DEF Frames
    <2>4. s[k + 1].sn # w + k
      BY <1>2, <1>4, <2>2
    <2>5. s[k + 1].sn >= w + k
      <3>1. CASE k = 0
        BY <1>1, <1>7, <2>3, <3>1 DEF Entries
      <3>2. CASE k # 0
        <4>1. k \in 1..k /\ k \in 1..Len(s) /\ k < k + 1
          BY <1>4, <2>2, <3>2
        <4>2. s[k].sn < s[k + 1].sn
          BY <1>1, <2>2, <4>1 DEF Ascending
        <4>3. s[k].sn = w + k - 1
          BY <1>2, <4>1
        <4> QED
          <5>1. s[k + 1].sn \in Nat
            BY <1>7, <2>3 DEF Entries
          <5> QED
            BY <1>1, <1>4, <4>2, <4>3, <5>1, SMTT(30)
      <3> QED
        BY <3>1, <3>2
    <2>6. e.sn >= s[k + 1].sn
      <3>1. CASE i = 1
        BY <1>7, <2>3, <3>1 DEF Entries
      <3>2. CASE i # 1
        <4>1. k + 1 < k + i
          BY <1>4, <2>2, <3>2
        <4>2. s[k + 1].sn < s[k + i].sn
          BY <1>1, <2>2, <4>1 DEF Ascending
        <4> QED
          BY <1>7, <2>3, <4>2 DEF Entries
      <3> QED
        BY <3>1, <3>2
    <2>7. e.sn \in Nat /\ s[k + 1].sn \in Nat
      BY <1>7, <2>3 DEF Entries
    <2> QED
      BY <1>1, <1>4, <2>4, <2>5, <2>6, <2>7, SMTT(30)
  <1>11. w + k \in Nat /\ w <= w + k /\ w + k <= N
    <2>1. CASE k = 0
      BY <1>1, <2>1
    <2>2. CASE k # 0
      <3>1. k \in 1..k
        BY <1>4, <2>2
      <3>2. a[k].sn = w + k - 1 /\ a[k].sn < N
        BY <1>6, <1>7, <1>8, <3>1
      <3> QED
        BY <1>1, <1>4, <3>2
    <2> QED
      BY <2>1, <2>2
  <1> DEFINE d == q.delivered  c == d \o Ids(a)
  <1>12. /\ c \in Seq(MSDUs) /\ Delivers(c, g, w + k)
         /\ MSDUsIn(c) = MSDUsIn(d) \cup MSDUsIn(Ids(a))
    <2>1. \A e \in Frames(a) : w <= e.sn /\ e.sn < w + k /\ g[e.sn] = e.id
      BY <1>6, <1>7, <1>9
    <2>2. Delivers(d, g, w)
      BY DEF RxLoose
    <2>3. d \in Seq(MSDUs)
      BY <1>1
    <2> HIDE DEF d, w
    <2>4. w \in Nat
      BY <1>1
    <2> QED
      BY <1>3, <1>6, <1>11, <2>1, <2>2, <2>3, <2>4, DeliverMore
  <1> HIDE DEF c
  <1>13. /\ p \in RxQueues /\ p.delivered = c /\ p.rxStorage = b
         /\ p.waitingForSN = w + k /\ p.rxSNs = q.rxSNs
         /\ p.first = q.first /\ p.known = q.known
    BY <1>1, <1>3, <1>5, <1>11, <1>12 DEF RxQueues, c
  <1>14. MSDUsIn(Ids(s)) = MSDUsIn(Ids(a)) \cup MSDUsIn(Ids(b))
    <2>1. /\ MSDUsIn(Ids(s)) = {e.id : e \in Frames(s)}
          /\ MSDUsIn(Ids(a)) = {e.id : e \in Frames(a)}
          /\ MSDUsIn(Ids(b)) = {e.id : e \in Frames(b)}
      BY <1>1, <1>3, FramesIn
    <2> QED
      BY <1>6, <2>1
  <1>15. \A n : Got(q, n) => Got(p, n)
    BY <1>12, <1>13, <1>14 DEF Got
  <1>16. RxLoose(p, g, N)
    <2>1. \A e \in Frames(b) : w + k <= e.sn /\ e.sn < N /\ g[e.sn] = e.id
      <3> TAKE e \in Frames(b)
      <3>1. e \in Frames(s)
        BY <1>6
      <3>2. e.sn \in Nat
        BY <1>7, <3>1 DEF Entries
      <3> QED
        BY <1>7, <1>10, <1>11, <3>1, <3>2
    <2>2. \A x \in (w + k)..(N - 1) : g[x] >= q.first
      <3>1. \A x \in w..(N - 1) : g[x] >= q.first
        BY DEF RxLoose
      <3> QED
        BY <1>1, <1>4, <3>1
    <2>3. \A x \in q.rxSNs : x < N /\ Got(p, g[x])
      BY <1>15 DEF RxLoose
    <2>4. q.first = 0 \/ \E x \in 0..(N - 1) : q.first = g[x]
      BY DEF RxLoose
    <2> QED
      BY <1>6, <1>11, <1>12, <1>13, <2>1, <2>2, <2>3, <2>4 DEF RxLoose
  <1>17. RxData(p, g, N)
    <2>1. \A e \in Frames(b) : e.sn # w + k
      <3> TAKE e \in Frames(b)
      <3>1. e.sn \in Nat
        BY <1>6, <1>7 DEF Entries
      <3> QED
        BY <1>10, <1>11, <3>1
    <2> QED
      BY <1>13, <1>16, <2>1 DEF RxData
  <1>18. ASSUME NEW x \in 0..(N - 1), x >= w
         PROVE  x >= w + k \/ Got(p, g[x])
    <2> SUFFICES ASSUME x < w + k PROVE Got(p, g[x])
      BY <1>1, <1>4
    <2> DEFINE i == x - w + 1
    <2>1. i \in 1..k /\ w + i - 1 = x
      BY <1>1, <1>4, <1>18
    <2>2. a[i].sn = x /\ a[i] \in Frames(a)
      BY <1>8, <2>1
    <2>3. g[x] = a[i].id
      BY <1>6, <1>7, <2>2
    <2>4. g[x] \in MSDUsIn(Ids(a))
      <3>1. MSDUsIn(Ids(a)) = {e.id : e \in Frames(a)}
        BY <1>3, FramesIn
      <3> QED
        BY <2>2, <2>3, <3>1
    <2> QED
      BY <1>12, <1>13, <2>4 DEF Got
  <1> QED
    BY <1>13, <1>15, <1>17, <1>18 DEF p

-----------------------------------------------------------------------------
(* What a data frame and a request do to the receiver.                     *)

(* A receiver has every MSDU of number x that it does not wait for.        *)
Passed(q, g, x) == x >= q.waitingForSN \/ Got(q, g[x])

(* The first frame of a sender only sets where to begin.                   *)
LEMMA KnownData ==
    ASSUME NEW g, NEW N, Numbers(g, N), NEW q, RxData(q, g, N),
           NEW f, f.sn \in 0..(N - 1), f.id = g[f.sn] \/ f.id = 0
    PROVE  LET p == Known(q, f)
           IN  /\ RxData(p, g, N) /\ p.known /\ p.rxSNs = q.rxSNs
               /\ \A n \in MSDUs : Got(q, n) => Got(p, n)
               /\ \A x \in 0..(N - 1) : x >= f.sn \/ f.id # 0 =>
                    (Passed(q, g, x) => Passed(p, g, x))
  <1> DEFINE p == Known(q, f)
  <1>1. /\ q \in RxQueues /\ N \in Nat /\ f.sn \in Nat /\ f.sn < N
        /\ g[f.sn] \in MSDUs
    BY DEF RxData, RxLoose, Numbers
  <1>2. CASE q.known
    BY <1>2 DEF Known
  <1>3. CASE ~q.known
    <2>1. p = [q EXCEPT !.known = TRUE, !.waitingForSN = f.sn, !.first = f.id]
      BY <1>3 DEF Known
    <2>2. f.id \in Nat
      BY <1>1 DEF MSDUs
    <2> HIDE DEF p
    <2>3. /\ p \in RxQueues /\ p.known /\ p.waitingForSN = f.sn
          /\ p.first = f.id /\ p.rxSNs = q.rxSNs
          /\ p.rxStorage = q.rxStorage /\ p.delivered = q.delivered
      BY <1>1, <2>1, <2>2 DEF RxQueues
    <2>4. /\ q.rxStorage = <<>> /\ q.delivered = <<>>
          /\ q.rxSNs = {} /\ q.waitingForSN = 0 /\ q.first = 0
      BY <1>3 DEF RxData, RxLoose
    <2>5. \A x, y \in 0..(N - 1) : x < y => g[x] < g[y]
      BY DEF Numbers
    <2>6. Frames(<<>>) = {} /\ MSDUsIn(<<>>) = {} /\ Ascending(<<>>)
            /\ MSDUsIn(Ids(<<>>)) = {}
      <3>1. Frames(<<>>) = {} /\ MSDUsIn(<<>>) = {} /\ Ascending(<<>>)
        BY EmptySeq DEF Frames, MSDUsIn, Ascending
      <3>2. <<>> \in Seq(Entries)
        BY EmptySeq
      <3> QED
        BY <3>1, <3>2, FramesIn
    <2>7. \A x \in f.sn..(N - 1) : g[x] >= f.id
      <3> TAKE x \in f.sn..(N - 1)
      <3>1. x \in 0..(N - 1) /\ g[x] \in Nat
        BY <1>1 DEF Numbers, MSDUs
      <3>2. CASE f.id = 0
        BY <3>1, <3>2
      <3>3. CASE f.id = g[f.sn]
        <4>1. x = f.sn \/ g[f.sn] < g[x]
          BY <1>1, <2>5, <3>1
        <4>2. g[f.sn] \in Nat
          BY <1>1 DEF MSDUs
        <4> QED
          BY <3>1, <3>3, <4>1, <4>2
      <3> QED
        BY <3>2, <3>3
    <2>8. Delivers(<<>>, g, f.sn)
      <3>1. Len(<<>>) = 0
        BY EmptySeq
      <3> QED
        BY <2>6, <3>1 DEF Delivers
    <2>9. p.first = 0 \/ \E x \in 0..(N - 1) : p.first = g[x]
      BY <2>3
    <2>10. RxLoose(p, g, N)
      BY <1>1, <2>3, <2>4, <2>6, <2>7, <2>8, <2>9 DEF RxLoose
    <2>11. RxData(p, g, N)
      BY <2>3, <2>4, <2>6, <2>10 DEF RxData
    <2>12. \A n \in MSDUs : ~Got(q, n)
      BY <2>4, <2>6 DEF Got, MSDUs
    <2>13. ASSUME NEW x \in 0..(N - 1), x >= f.sn \/ f.id # 0
           PROVE  Passed(p, g, x)
      <3> SUFFICES ASSUME x < f.sn, f.id = g[f.sn] PROVE g[x] < p.first
        BY <1>1, <2>3, <2>13 DEF Passed, Got
      <3> QED
        BY <1>1, <2>3, <2>5
    <2> QED
      BY <2>3, <2>11, <2>12, <2>13 DEF p
  <1> QED
    BY <1>2, <1>3

(* A frame is passed up, stored or known already.                          *)
LEMMA IncomingData ==
    ASSUME NEW g, NEW N, Numbers(g, N), NEW old, RxData(old, g, N),
           NEW f, f.sn \in 0..(N - 1), f.id = g[f.sn],
           Passed(old, g, f.sn)
    PROVE  LET p == ProcessIncomingData(old, f)
           IN  /\ RxData(p, g, N)
               /\ p.rxSNs = old.rxSNs \cup {f.sn}
               /\ \A n \in MSDUs : Got(old, n) => Got(p, n)
               /\ \A x \in 0..(N - 1) : Passed(old, g, x) => Passed(p, g, x)
  <1> DEFINE k == Known(old, f)
             q == [k EXCEPT !.rxSNs = @ \cup {f.sn}]
             m == [q EXCEPT !.waitingForSN = @ + 1,
                            !.delivered = Append(@, f.id)]
             e == [id |-> f.id, sn |-> f.sn]
             t == [q EXCEPT !.rxStorage = Store(@, e)]
             p == ProcessIncomingData(old, f)
  <1>1. /\ N \in Nat /\ f.sn \in Nat /\ f.sn < N /\ f.id \in MSDUs
        /\ f.id \in Nat /\ f.id # 0
        /\ \A x \in 0..(N - 1) : g[x] \in MSDUs
    BY DEF Numbers, MSDUs
  <1>2. /\ RxData(k, g, N) /\ k.known /\ k.rxSNs = old.rxSNs
        /\ \A n \in MSDUs : Got(old, n) => Got(k, n)
        /\ \A x \in 0..(N - 1) : Passed(old, g, x) => Passed(k, g, x)
    BY <1>1, KnownData
  <1> HIDE DEF k
  <1>3. /\ k \in RxQueues /\ k.waitingForSN \in Nat
        /\ k.delivered \in Seq(MSDUs) /\ k.rxStorage \in Seq(Entries)
        /\ Ascending(k.rxStorage) /\ Delivers(k.delivered, g, k.waitingForSN)
        /\ k.waitingForSN <= N
    BY <1>2 DEF RxData, RxLoose, RxQueues
  <1>4. /\ q \in RxQueues /\ q.known = k.known
        /\ q.waitingForSN = k.waitingForSN /\ q.rxStorage = k.rxStorage
        /\ q.first = k.first /\ q.delivered = k.delivered
        /\ q.rxSNs = k.rxSNs \cup {f.sn}
    BY <1>1, <1>3 DEF RxQueues
  <1> HIDE DEF q
  <1>5. \A n : Got(k, n) <=> Got(q, n)
    BY <1>4 DEF Got
  <1>6. CASE f.sn = k.waitingForSN
    <2>1. p = PurgeRxStorage(m)
      BY <1>4, <1>6 DEF ProcessIncomingData, q, k
    <2>2. /\ Append(k.delivered, f.id) \in Seq(MSDUs)
          /\ Delivers(Append(k.delivered, f.id), g, k.waitingForSN + 1)
          /\ MSDUsIn(Append(k.delivered, f.id)) =
                MSDUsIn(k.delivered) \cup {f.id}
      <3>1. k.waitingForSN < N /\ g[k.waitingForSN] = f.id
        BY <1>1, <1>6
      <3> DEFINE w == k.waitingForSN  d == k.delivered
      <3>2. w \in Nat /\ d \in Seq(MSDUs) /\ Delivers(d, g, w) /\ w < N
        BY <1>3, <3>1
      <3> HIDE DEF w, d
      <3>3. /\ Append(d, g[w]) \in Seq(MSDUs)
            /\ Delivers(Append(d, g[w]), g, w + 1)
            /\ MSDUsIn(Append(d, g[w])) = MSDUsIn(d) \cup {g[w]}
        BY <3>2, DeliverOne
      <3> QED
        BY <3>1, <3>3 DEF w, d
    <2>3. /\ m \in RxQueues /\ m.known = k.known
          /\ m.waitingForSN = k.waitingForSN + 1
          /\ m.rxStorage = k.rxStorage /\ m.first = k.first
          /\ m.delivered = Append(k.delivered, f.id)
          /\ m.rxSNs = k.rxSNs \cup {f.sn}
      <3> DEFINE w == k.waitingForSN + 1  d == Append(k.delivered, f.id)
      <3>1. m = [q EXCEPT !.waitingForSN = w, !.delivered = d]
        BY <1>4
      <3>2. w \in Nat /\ d \in Seq(MSDUs)
        BY <1>3, <2>2
      <3> HIDE DEF w, d, m
      <3>3. m \in RxQueues /\ m.waitingForSN = w /\ m.delivered = d
              /\ m.known = q.known /\ m.rxStorage = q.rxStorage
              /\ m.first = q.first /\ m.rxSNs = q.rxSNs
        BY <1>4, <3>1, <3>2 DEF RxQueues
      <3> QED
        BY <1>4, <3>3 DEF w, d
    <2> HIDE DEF m, p
    <2>4. Got(m, f.id) /\ \A n : Got(k, n) => Got(m, n)
      BY <2>2, <2>3 DEF Got
    <2>5. RxLoose(m, g, N)
      <3>1. \A i \in Frames(k.rxStorage) :
                k.waitingForSN + 1 <= i.sn /\ i.sn < N /\ g[i.sn] = i.id
        <4> TAKE i \in Frames(k.rxStorage)
        <4>1. i.sn \in Nat
          BY <1>3, FramesIn DEF Entries
        <4>2. k.waitingForSN <= i.sn /\ i.sn < N /\ g[i.sn] = i.id
                /\ i.sn # k.waitingForSN
          BY <1>2 DEF RxData, RxLoose
        <4> QED
          BY <1>3, <4>1, <4>2
      <3>2. \A x \in (k.waitingForSN + 1)..(N - 1) : g[x] >= k.first
        <4>1. \A x \in k.waitingForSN..(N - 1) : g[x] >= k.first
          BY <1>2 DEF RxData, RxLoose
        <4> QED
          BY <1>1, <1>3, <4>1
      <3>3. \A s \in m.rxSNs : s < N /\ Got(m, g[s])
        BY <1>1, <1>2, <2>3, <2>4 DEF RxData, RxLoose
      <3>4. k.first = 0 \/ \E x \in 0..(N - 1) : k.first = g[x]
        BY <1>2 DEF RxData, RxLoose
      <3>5. m.waitingForSN <= N
        BY <1>1, <1>6, <2>3
      <3> QED
        BY <1>2, <1>3, <2>2, <2>3, <3>1, <3>2, <3>3, <3>4, <3>5 DEF RxLoose
    <2>6. /\ RxData(p, g, N) /\ p.rxSNs = m.rxSNs
          /\ \A n : Got(m, n) => Got(p, n)
          /\ \A x \in 0..(N - 1) :
                x >= m.waitingForSN => x >= p.waitingForSN \/ Got(p, g[x])
      <3>1. m.known
        BY <1>2, <2>3
      <3> QED
        BY <2>1, <2>5, <3>1, PurgeData
    <2>7. ASSUME NEW x \in 0..(N - 1), Passed(k, g, x) PROVE Passed(p, g, x)
      <3>1. CASE Got(k, g[x])
        BY <2>4, <2>6, <3>1 DEF Passed
      <3>2. CASE x >= k.waitingForSN /\ x # f.sn
        BY <1>1, <1>3, <1>6, <2>3, <2>6, <3>2 DEF Passed
      <3>3. CASE x = f.sn
        BY <2>4, <2>6, <3>3 DEF Passed
      <3> QED
        BY <2>7, <3>1, <3>2, <3>3 DEF Passed
    <2> QED
      BY <1>2, <2>3, <2>4, <2>6, <2>7 DEF p
  <1>7. ASSUME f.sn # k.waitingForSN, Got(k, g[f.sn]), p = q
        PROVE  /\ RxData(p, g, N)
               /\ p.rxSNs = old.rxSNs \cup {f.sn}
               /\ \A n \in MSDUs : Got(old, n) => Got(p, n)
               /\ \A x \in 0..(N - 1) : Passed(old, g, x) => Passed(p, g, x)
    <2>1. \A s \in q.rxSNs : s < N /\ Got(q, g[s])
      BY <1>1, <1>2, <1>4, <1>5, <1>7 DEF RxData, RxLoose
    <2>2. RxLoose(q, g, N)
      BY <1>2, <1>4, <2>1 DEF RxData, RxLoose
    <2>3. RxData(q, g, N)
      BY <1>2, <1>4, <2>2 DEF RxData
    <2>4. \A x : Passed(k, g, x) => Passed(q, g, x)
      BY <1>4, <1>5 DEF Passed
    <2> QED
      BY <1>2, <1>4, <1>5, <1>7, <2>3, <2>4
  <1>8. CASE f.sn # k.waitingForSN
             /\ (f.sn < k.waitingForSN \/ f.sn \in SNs(k.rxStorage))
    <2>1. p = q
      BY <1>4, <1>8 DEF ProcessIncomingData, q, k
    <2>2. CASE f.sn < k.waitingForSN
      <3>1. ~(f.sn >= k.waitingForSN)
        BY <1>1, <1>3, <2>2
      <3>2. Passed(k, g, f.sn)
        BY <1>2
      <3> QED
        BY <1>7, <1>8, <2>1, <3>1, <3>2 DEF Passed
    <2>3. CASE f.sn \in SNs(k.rxStorage)
      <3>1. PICK i \in Frames(k.rxStorage) : i.sn = f.sn
        BY <1>3, <2>3, FramesIn, SMTT(30)
      <3>2. i.id = g[f.sn]
        BY <1>2, <3>1 DEF RxData, RxLoose
      <3>3. i.id \in MSDUsIn(Ids(k.rxStorage))
        BY <1>3, FramesIn
      <3> QED
        BY <1>7, <1>8, <2>1, <3>2, <3>3 DEF Got
    <2> QED
      BY <1>8, <2>2, <2>3
  <1>9. CASE ~(f.sn < k.waitingForSN) /\ f.sn # k.waitingForSN
             /\ f.sn \notin SNs(k.rxStorage)
    <2>1. p = t
      BY <1>4, <1>9 DEF ProcessIncomingData, q, k
    <2>2. e \in Entries /\ e.sn = f.sn /\ e.id = f.id
      BY <1>1 DEF Entries
    <2> HIDE DEF e
    <2> DEFINE s == Store(k.rxStorage, e)
    <2>3. /\ s \in Seq(Entries) /\ Ascending(s)
          /\ Frames(s) = Frames(k.rxStorage) \cup {e}
      BY <1>3, <1>9, <2>2, StoreFrames
    <2> HIDE DEF s
    <2>4. /\ t \in RxQueues /\ t.known = k.known
          /\ t.waitingForSN = k.waitingForSN /\ t.rxStorage = s
          /\ t.first = k.first /\ t.delivered = k.delivered
          /\ t.rxSNs = k.rxSNs \cup {f.sn}
      BY <1>3, <1>4, <2>3 DEF RxQueues, s
    <2> HIDE DEF t
    <2>5. MSDUsIn(Ids(s)) = MSDUsIn(Ids(k.rxStorage)) \cup {f.id}
      <3>1. /\ MSDUsIn(Ids(s)) = {i.id : i \in Frames(s)}
            /\ MSDUsIn(Ids(k.rxStorage)) = {i.id : i \in Frames(k.rxStorage)}
        BY <1>3, <2>3, FramesIn
      <3> QED
        BY <2>2, <2>3, <3>1
    <2>6. Got(t, f.id) /\ \A n : Got(k, n) => Got(t, n)
      BY <2>4, <2>5 DEF Got
    <2>7. RxLoose(t, g, N)
      <3>1. \A i \in Frames(s) :
                k.waitingForSN <= i.sn /\ i.sn < N /\ g[i.sn] = i.id
        BY <1>1, <1>2, <1>3, <1>9, <2>2, <2>3 DEF RxData, RxLoose
      <3>2. \A x \in k.waitingForSN..(N - 1) : g[x] >= k.first
        BY <1>2 DEF RxData, RxLoose
      <3>3. \A x \in t.rxSNs : x < N /\ Got(t, g[x])
        BY <1>1, <1>2, <2>4, <2>6 DEF RxData, RxLoose
      <3>4. k.first = 0 \/ \E x \in 0..(N - 1) : k.first = g[x]
        BY <1>2 DEF RxData, RxLoose
      <3> QED
        BY <1>2, <1>3, <2>3, <2>4, <3>1, <3>2, <3>3, <3>4 DEF RxLoose
    <2>8. RxData(t, g, N)
      BY <1>2, <1>9, <2>2, <2>3, <2>4, <2>7 DEF RxData
    <2>9. \A x : Passed(k, g, x) => Passed(t, g, x)
      BY <2>4, <2>6 DEF Passed
    <2> QED
      BY <1>2, <2>1, <2>4, <2>6, <2>8, <2>9 DEF p
  <1> QED
    BY <1>6, <1>8, <1>9

(* A request passes up what is stored below its number and gives up what   *)
(* is missing there.                                                       *)
LEMMA IncomingACKreq ==
    ASSUME NEW g, NEW N, Numbers(g, N), NEW old, RxData(old, g, N),
           NEW f, f.sn \in 0..(N - 1), f.id = 0
    PROVE  LET p == ProcessIncomingACKreq(old, f)
           IN  /\ RxData(p, g, N) /\ p.rxSNs = {}
               /\ \A n \in MSDUs : Got(old, n) => Got(p, n)
               /\ \A x \in 0..(N - 1) : x >= f.sn =>
                     (Passed(old, g, x) => Passed(p, g, x))
  <1> DEFINE k == Known(old, f)
             s == k.rxStorage  w == k.waitingForSN
             v == IF f.sn > w THEN f.sn ELSE w
             b == Below(s, f.sn)  r == From(s, f.sn)
             c == k.delivered \o Ids(b)
             m == [k EXCEPT !.delivered = @ \o Ids(Below(k.rxStorage, f.sn)),
                            !.rxStorage = From(@, f.sn),
                            !.waitingForSN = IF f.sn > @ THEN f.sn ELSE @,
                            !.rxSNs = {}]
             p == ProcessIncomingACKreq(old, f)
  <1>1. /\ N \in Nat /\ f.sn \in Nat /\ f.sn < N
        /\ \A x \in 0..(N - 1) : g[x] \in MSDUs
    BY DEF Numbers
  <1>2. /\ RxData(k, g, N) /\ k.known
        /\ \A n \in MSDUs : Got(old, n) => Got(k, n)
        /\ \A x \in 0..(N - 1) : x >= f.sn =>
              (Passed(old, g, x) => Passed(k, g, x))
    BY <1>1, KnownData
  <1>3. p = PurgeRxStorage(m)
    BY DEF ProcessIncomingACKreq
  <1> HIDE DEF k, p
  <1>4. /\ k \in RxQueues /\ w \in Nat /\ k.delivered \in Seq(MSDUs)
        /\ s \in Seq(Entries) /\ Ascending(s) /\ Delivers(k.delivered, g, w)
        /\ w <= N
    BY <1>2 DEF RxData, RxLoose, RxQueues
  <1>5. \A e \in Frames(s) : e.sn \in Nat /\ w < e.sn /\ e.sn < N
                               /\ g[e.sn] = e.id
    <2> TAKE e \in Frames(s)
    <2>1. e.sn \in Nat
      BY <1>4, FramesIn DEF Entries
    <2>2. w <= e.sn /\ e.sn < N /\ g[e.sn] = e.id /\ e.sn # w
      BY <1>2 DEF RxData, RxLoose
    <2> QED
      BY <1>4, <2>1, <2>2
  <1>6. /\ b \in Seq(Entries) /\ r \in Seq(Entries)
        /\ Ascending(b) /\ Ascending(r)
        /\ Frames(b) = {e \in Frames(s) : e.sn < f.sn}
        /\ Frames(r) = {e \in Frames(s) : e.sn >= f.sn}
    BY <1>1, <1>4, BelowFrom
  <1>7. v \in Nat /\ w <= v /\ v <= N /\ f.sn <= v
    BY <1>1, <1>4
  <1> HIDE DEF b, r, v
  <1>8. /\ c \in Seq(MSDUs) /\ Delivers(c, g, v)
        /\ MSDUsIn(c) = MSDUsIn(k.delivered) \cup MSDUsIn(Ids(b))
    <2>1. \A e \in Frames(b) : w <= e.sn /\ e.sn < v /\ g[e.sn] = e.id
      BY <1>1, <1>4, <1>5, <1>6, <1>7
    <2> HIDE DEF w
    <2> QED
      BY <1>4, <1>6, <1>7, <2>1, DeliverMore
  <1> HIDE DEF c
  <1>9. /\ m \in RxQueues /\ m.known = k.known /\ m.waitingForSN = v
        /\ m.rxStorage = r /\ m.first = k.first /\ m.delivered = c
        /\ m.rxSNs = {}
    BY <1>4, <1>6, <1>7, <1>8 DEF RxQueues, b, r, c, v
  <1> HIDE DEF m
  <1>10. MSDUsIn(Ids(s)) = MSDUsIn(Ids(b)) \cup MSDUsIn(Ids(r))
    <2>1. /\ MSDUsIn(Ids(s)) = {e.id : e \in Frames(s)}
          /\ MSDUsIn(Ids(b)) = {e.id : e \in Frames(b)}
          /\ MSDUsIn(Ids(r)) = {e.id : e \in Frames(r)}
      BY <1>4, <1>6, FramesIn
    <2>2. Frames(s) = Frames(b) \cup Frames(r)
      BY <1>1, <1>5, <1>6
    <2> QED
      BY <2>1, <2>2
  <1>11. \A n : Got(k, n) => Got(m, n)
    BY <1>8, <1>9, <1>10 DEF Got
  <1>12. RxLoose(m, g, N)
    <2>1. \A e \in Frames(r) : v <= e.sn /\ e.sn < N /\ g[e.sn] = e.id
      BY <1>1, <1>4, <1>5, <1>6 DEF v
    <2>2. \A x \in v..(N - 1) : g[x] >= k.first
      <3>1. \A x \in w..(N - 1) : g[x] >= k.first
        BY <1>2 DEF RxData, RxLoose
      <3> QED
        BY <1>1, <1>4, <1>7, <3>1
    <2>3. k.first = 0 \/ \E x \in 0..(N - 1) : k.first = g[x]
      BY <1>2 DEF RxData, RxLoose
    <2> QED
      BY <1>2, <1>6, <1>7, <1>8, <1>9, <2>1, <2>2, <2>3 DEF RxLoose
  <1>13. /\ RxData(p, g, N) /\ p.rxSNs = m.rxSNs
         /\ \A n : Got(m, n) => Got(p, n)
         /\ \A x \in 0..(N - 1) :
               x >= m.waitingForSN => x >= p.waitingForSN \/ Got(p, g[x])
    BY <1>2, <1>3, <1>9, <1>12, PurgeData
  <1>14. ASSUME NEW x \in 0..(N - 1), x >= f.sn, Passed(k, g, x)
         PROVE  Passed(p, g, x)
    <2>1. CASE Got(k, g[x])
      BY <1>11, <1>13, <2>1 DEF Passed
    <2>2. CASE x >= w
      <3>1. x >= v
        BY <1>14, <2>2 DEF v
      <3> QED
        BY <1>9, <1>13, <3>1 DEF Passed
    <2> QED
      BY <1>14, <2>1, <2>2 DEF Passed
  <1> QED
    BY <1>2, <1>9, <1>11, <1>13, <1>14 DEF p

-----------------------------------------------------------------------------
(* The invariant of the data: what is numbered, what is in the window, and *)
(* what the receiver knows.                                                *)

(* What can become of an MSDU.                                             *)
Fates == {"new", "buffered", "queued", "confirmed", "dropped"}

(* All that the sender has not given up or seen acknowledged.              *)
All(q) == q.onAir \o q.txQueue

(* The buffer holds MSDUs that have arrived, in their order.               *)
SourceData ==
    /\ arrived \in 0..Load /\ expired \in 0..arrived
    /\ buffer \in Seq(MSDUs)
    /\ \A i, j \in 1..Len(buffer) : i < j => buffer[i] < buffer[j]
    /\ \A n \in MSDUsIn(buffer) : n <= arrived

(* The queue ascends, is below the next number, and what is on air fits in *)
(* the window; a block is waited for only when no more fits.               *)
QueueData(q) ==
    /\ q.txQueue \in Seq(Entries) /\ q.onAir \in Seq(Entries)
    /\ q.nextSN \in Nat
    /\ q = NoQueue \/ (q.to \in Receivers /\ All(q) # <<>>)
    /\ Ascending(All(q)) /\ \A e \in Frames(All(q)) : e.sn < q.nextSN
    /\ SizeOf(q.onAir) <= MaxOnAir
    /\ q.waitForACK => ~Fits(q)

(* What is confirmed has been got by its receiver.                         *)
BaData ==
    /\ ba.fate \in [MSDUs -> Fates]
    /\ ba.nextTransmissionSN \in [Receivers -> Nat]
    /\ rxQueue \in [Receivers -> RxQueues]
    /\ QueueData(ba.queue)
    /\ \A n \in MSDUs : ba.fate[n] = "confirmed" => Got(rxQueue[To[n]], n)

(* A frame in the line is one on air, or the request with the first number *)
(* on air.                                                                 *)
InLine(f, onAir) ==
    \/ f.kind = "I" /\ \E e \in Frames(onAir) : f.id = e.id /\ f.sn = e.sn
    \/ f.kind = "BAREQ" /\ f.id = 0 /\ onAir # <<>> /\ f.sn = onAir[1].sn

(* The line holds only such frames.                                        *)
LineData == \A i \in 1..Len(line) : InLine(line[i], ba.queue.onAir)

(* While it is waited for, an answer acknowledges only what is on air and  *)
(* has been got.                                                           *)
ReplyData ==
    reply.phase # "none" =>
        /\ reply.from \in Receivers /\ rxQueue[reply.from].rxSNs = {}
        /\ ba.baState # "idle" =>
              /\ reply.from = ba.queue.to
              /\ reply.ackSNs \subseteq SNs(ba.queue.onAir)
              /\ \A e \in Frames(ba.queue.onAir) :
                    e.sn \in reply.ackSNs => Got(rxQueue[reply.from], e.id)

(* The next number for r, from the queue or as saved by the last.          *)
NextSN(r) ==
    IF ba.queue.to = r THEN ba.queue.nextSN ELSE ba.nextTransmissionSN[r]

(* The numbers of r went to MSDUs for r that have left the buffer, and     *)
(* every MSDU still in the buffer is later.                                *)
Numbered(r, g) ==
    \A x \in 0..(NextSN(r) - 1) :
        /\ To[g[x]] = r /\ g[x] <= arrived
        /\ ba.fate[g[x]] \in {"queued", "confirmed", "dropped"}
        /\ \A n \in MSDUsIn(buffer) : g[x] < n

(* Number s is among the first entries that fit in the window together.    *)
InWindow(all, s) ==
    \E j \in 1..Len(all) :
        all[j].sn = s /\ SizeOf(SubSeq(all, 1, j)) <= MaxOnAir

(* What is still queued for r has the MSDUs of g, and r does not believe   *)
(* it passed; what r has noted is in the window or older.                  *)
Pending(r, g) ==
    LET all == All(ba.queue)
    IN  /\ \A e \in Frames(all) :
              g[e.sn] = e.id /\ Passed(rxQueue[r], g, e.sn)
        /\ \A s \in rxQueue[r].rxSNs : s >= all[1].sn => InWindow(all, s)

(* g is the numbering on which sender and receiver r agree.                *)
Peer(r, g) ==
    /\ Numbers(g, NextSN(r)) /\ Numbered(r, g)
    /\ RxData(rxQueue[r], g, NextSN(r))
    /\ ba.queue.to = r => Pending(r, g)

(* There is such a numbering for each receiver.                            *)
Peers == \A r \in Receivers : \E g : Peer(r, g)

(* The invariant of the data.                                              *)
DataInv == SourceData /\ BaData /\ LineData /\ ReplyData /\ Peers

-----------------------------------------------------------------------------
(* The queue of one receiver.                                              *)

(* The entries of the queue have the MSDUs of g.                           *)
LEMMA QueueFacts ==
    ASSUME NEW q, QueueData(q), NEW g, NEW N, Numbers(g, N),
           \A e \in Frames(All(q)) : g[e.sn] = e.id, q.nextSN = N
    PROVE  /\ All(q) \in Seq(Entries)
           /\ Frames(All(q)) = Frames(q.onAir) \cup Frames(q.txQueue)
           /\ \A e \in Frames(All(q)) :
                 e \in Entries /\ e.sn \in 0..(N - 1) /\ e.id = g[e.sn]
  <1>1. /\ All(q) \in Seq(Entries)
        /\ Frames(All(q)) = Frames(q.onAir) \cup Frames(q.txQueue)
    BY ConcatFrames DEF QueueData, All
  <1>2. Frames(All(q)) \subseteq Entries
    BY <1>1, FramesIn
  <1>3. \A e \in Frames(All(q)) : e.sn \in Nat /\ e.sn < N /\ N \in Nat
    BY <1>2 DEF QueueData, Entries, Numbers
  <1> QED
    BY <1>1, <1>2, <1>3

(* The order of integers is transitive.                                    *)
LEMMA AtMost == \A a, b, c \in Int : a <= b /\ b <= c => a <= c
  OBVIOUS

(* A longer prefix is no smaller.                                          *)
LEMMA SizePrefix ==
    ASSUME NEW s \in Seq(Entries), NEW i \in 0..Len(s), NEW j \in i..Len(s)
    PROVE  SizeOf(SubSeq(s, 1, i)) <= SizeOf(SubSeq(s, 1, j))
  <1>1. Len(s) \in Nat /\ \A n \in 1..Len(s) : s[n] \in Entries
    BY LenProperties, ElementOfSeq
  <1>2. SubSeq(s, 1, i) \in Seq(Entries) /\ SubSeq(s, i + 1, j) \in Seq(Entries)
    <2>1. (\A n \in 1..i : s[n] \in Entries)
            /\ (\A n \in (i + 1)..j : s[n] \in Entries)
            /\ i \in Int /\ j \in Int
      BY <1>1
    <2> QED
      BY <2>1, SubSeqProperties
  <1>3. SubSeq(s, 1, j) = SubSeq(s, 1, i) \o SubSeq(s, i + 1, j)
    <2>1. 1 \in 1..(Len(s) + 1) /\ i \in (1 - 1)..Len(s) /\ j \in i..Len(s)
      BY <1>1
    <2> QED
      BY <2>1, ConcatAdjacentSubSeq
  <1>4. /\ SizeOf(SubSeq(s, 1, i)) \in Nat
        /\ SizeOf(SubSeq(s, i + 1, j)) \in Nat
        /\ SizeOf(SubSeq(s, 1, j)) =
              SizeOf(SubSeq(s, 1, i)) + SizeOf(SubSeq(s, i + 1, j))
    BY <1>2, <1>3, SizeNat, SizeConcat
  <1> QED
    BY <1>4

(* The first frames of a concatenation.                                    *)
LEMMA ConcatPrefix ==
    ASSUME NEW s \in Seq(Entries), NEW t \in Seq(Entries),
           NEW j \in 1..Len(s)
    PROVE  /\ (s \o t)[j] = s[j] /\ j \in 1..Len(s \o t)
           /\ SubSeq(s \o t, 1, j) = SubSeq(s, 1, j)
  <1>1. Len(s) \in Nat /\ Len(t) \in Nat /\ Len(s \o t) = Len(s) + Len(t)
    BY LenProperties, ConcatProperties
  <1>2. j \in 1..(Len(s) + Len(t)) /\ j <= Len(s)
    BY <1>1
  <1>3. (s \o t)[j] = s[j]
    BY <1>2, ConcatProperties
  <1>4. 1 \in 1..Len(s)
    BY <1>1
  <1>5. SubSeq(s \o t, 1, j) = SubSeq(s, 1, j)
    BY <1>4, SubSeqOfConcat1
  <1> QED
    BY <1>1, <1>2, <1>3, <1>5

(* What is on the air is within the window.                                *)
LEMMA OnAirInWindow ==
    ASSUME NEW q, QueueData(q), NEW e \in Frames(q.onAir)
    PROVE  InWindow(All(q), e.sn)
  <1> DEFINE s == q.onAir  t == q.txQueue
  <1>1. s \in Seq(Entries) /\ t \in Seq(Entries) /\ SizeOf(s) <= MaxOnAir
    BY DEF QueueData
  <1> HIDE DEF s, t
  <1>2. PICK j \in 1..Len(s) : e = s[j]
    BY DEF Frames, s
  <1>3. /\ (s \o t)[j] = s[j] /\ j \in 1..Len(s \o t)
        /\ SubSeq(s \o t, 1, j) = SubSeq(s, 1, j)
    BY <1>1, ConcatPrefix
  <1>4. SizeOf(SubSeq(s, 1, j)) <= MaxOnAir
    <2>1. Len(s) \in Nat
      BY <1>1, LenProperties
    <2>2. j \in 0..Len(s) /\ Len(s) \in j..Len(s)
      BY <2>1
    <2>3. SizeOf(SubSeq(s, 1, j)) <= SizeOf(SubSeq(s, 1, Len(s)))
      BY <1>1, <2>2, SizePrefix
    <2>4. SubSeq(s, 1, Len(s)) = s
      BY <1>1, SubSeqFull
    <2>5. SizeOf(SubSeq(s, 1, j)) \in Nat /\ SizeOf(s) \in Nat
      <3>1. SubSeq(s, 1, j) \in Seq(Entries)
        <4>1. \A n \in 1..j : s[n] \in Entries
          BY <1>1, <2>1, ElementOfSeq
        <4> QED
          BY <4>1, SubSeqProperties
      <3> QED
        BY <1>1, <3>1, SizeNat
    <2>6. MaxOnAir \in Nat
      BY CapacityAssumption
    <2>7. SizeOf(SubSeq(s, 1, j)) <= SizeOf(s) /\ SizeOf(s) <= MaxOnAir
      BY <1>1, <2>3, <2>4
    <2>8. SizeOf(SubSeq(s, 1, j)) \in Int /\ SizeOf(s) \in Int /\ MaxOnAir \in Int
      BY <2>5, <2>6
    <2> QED
      BY <2>7, <2>8, AtMost
  <1>5. InWindow(s \o t, e.sn)
    BY <1>2, <1>3, <1>4 DEF InWindow
  <1> QED
    BY <1>5 DEF All, s, t

(* When nothing more fits, what is within the window is on the air.        *)
LEMMA WindowOnAir ==
    ASSUME NEW q, QueueData(q), ~Fits(q), NEW n, InWindow(All(q), n)
    PROVE  n \in SNs(q.onAir)
  <1> DEFINE s == q.onAir  t == q.txQueue  u == s \o t
  <1>1. s \in Seq(Entries) /\ t \in Seq(Entries)
    BY DEF QueueData
  <1>2. PICK j \in 1..Len(u) : u[j].sn = n /\ SizeOf(SubSeq(u, 1, j)) <= MaxOnAir
    BY DEF InWindow, All
  <1>3. ~(t # <<>> /\ SizeOf(s) + Size[Head(t).id] <= MaxOnAir)
    BY DEF Fits
  <1> HIDE DEF s, t
  <1>4. Len(s) \in Nat /\ Len(t) \in Nat /\ Len(u) = Len(s) + Len(t)
          /\ u \in Seq(Entries)
    BY <1>1, LenProperties, ConcatProperties
  <1>5. ASSUME j \notin 1..Len(s) PROVE FALSE
    <2>1. t # <<>> /\ Len(t) >= 1
      <3>1. Len(t) # 0
        BY <1>4, <1>5
      <3> QED
        BY <1>4, <3>1, EmptySeq
    <2> DEFINE h == Head(t)  v == Append(s, h)
    <2>2. h \in Entries /\ h = t[1]
      BY <1>1, <2>1, HeadTailProperties
    <2>3. SubSeq(u, 1, Len(s) + 1) = v
      <3> DEFINE p == SubSeq(u, 1, Len(s) + 1)
      <3>2. /\ p \in Seq(Entries) /\ Len(p) = Len(s) + 1
            /\ \A i \in 1..(Len(s) + 1) : p[i] = u[i]
        <4>1. Len(s) + 1 \in 0..Len(u)
          BY <1>4, <2>1
        <4> QED
          BY <1>4, <4>1, SplitFrames
      <3>3. /\ v \in Seq(Entries) /\ Len(v) = Len(s) + 1
            /\ \A i \in 1..Len(s) : v[i] = s[i]
            /\ v[Len(s) + 1] = h
        BY <1>1, <2>2, AppendProperties
      <3>4. \A i \in 1..Len(s) : u[i] = s[i]
        BY <1>1, ConcatPrefix
      <3>5. u[Len(s) + 1] = h
        <4>1. Len(s) + 1 \in 1..(Len(s) + Len(t)) /\ ~(Len(s) + 1 <= Len(s))
                /\ Len(s) + 1 - Len(s) = 1
          BY <1>4, <2>1
        <4> QED
          BY <1>1, <2>2, <4>1, ConcatProperties
      <3> HIDE DEF p, v, u, h
      <3>6. \A i \in 1..Len(p) : p[i] = v[i]
        <4> TAKE i \in 1..Len(p)
        <4>1. i \in 1..Len(s) \/ i = Len(s) + 1
          BY <1>4, <3>2
        <4> QED
          BY <1>4, <3>2, <3>3, <3>4, <3>5, <4>1
      <3>7. p = v
        BY <3>2, <3>3, <3>6, SeqEqual
      <3> QED
        BY <3>7 DEF p
    <2>4. SizeOf(v) = SizeOf(s) + Size[h.id]
      BY <1>1, <2>2, SizeAppend
    <2>5. SizeOf(SubSeq(u, 1, Len(s) + 1)) <= SizeOf(SubSeq(u, 1, j))
      <3>1. Len(s) + 1 \in 0..Len(u) /\ j \in (Len(s) + 1)..Len(u)
        BY <1>4, <1>5, <2>1
      <3> QED
        BY <1>4, <3>1, SizePrefix
    <2>6. SizeOf(SubSeq(u, 1, j)) \in Nat /\ SizeOf(v) \in Nat
      <3>1. SubSeq(u, 1, j) \in Seq(Entries)
        <4>1. \A i \in 1..j : u[i] \in Entries
          BY <1>4, ElementOfSeq
        <4> QED
          BY <4>1, SubSeqProperties
      <3>2. v \in Seq(Entries)
        BY <1>1, <2>2, AppendProperties
      <3> QED
        BY <3>1, <3>2, SizeNat
    <2>7. SizeOf(v) <= MaxOnAir
      <3>1. MaxOnAir \in Nat
        BY CapacityAssumption
      <3>2. SizeOf(SubSeq(u, 1, j)) <= MaxOnAir
        BY <1>2
      <3>3. SizeOf(v) <= SizeOf(SubSeq(u, 1, j))
        BY <2>3, <2>5
      <3>4. /\ SizeOf(v) \in Int /\ SizeOf(SubSeq(u, 1, j)) \in Int
            /\ MaxOnAir \in Int
        BY <2>6, <3>1
      <3> QED
        BY <3>2, <3>3, <3>4, AtMost
    <2> QED
      BY <1>3, <2>1, <2>4, <2>7
  <1>6. u[j] = s[j]
    BY <1>1, <1>5, ConcatPrefix
  <1> QED
    BY <1>2, <1>5, <1>6 DEF SNs, s

-----------------------------------------------------------------------------
(* Numbering one more MSDU, and the order of the buffer.                   *)

(* The numbering g, with n as the MSDU of number N.                        *)
Extended(g, N, n) == [x \in 0..N |-> IF x = N THEN n ELSE g[x]]

(* A new number is given to an MSDU after all those that have one.         *)
LEMMA RxExtend ==
    ASSUME NEW g, NEW N, Numbers(g, N), NEW n \in MSDUs,
           \A x \in 0..(N - 1) : g[x] < n
    PROVE  LET h == Extended(g, N, n)
           IN  /\ Numbers(h, N + 1) /\ h[N] = n
               /\ \A x \in 0..(N - 1) : h[x] = g[x]
               /\ \A q : RxData(q, g, N) => RxData(q, h, N + 1)
  <1> DEFINE h == Extended(g, N, n)
  <1>1. N \in Nat /\ N + 1 \in Nat /\ (N + 1) - 1 = N /\ MSDUs \subseteq Nat
          /\ \A x : x \in 0..(N - 1) <=> x \in 0..N /\ x # N
    BY LoadAssumption DEF Numbers, MSDUs
  <1>2. h[N] = n /\ \A x \in 0..(N - 1) : h[x] = g[x]
    BY <1>1 DEF Extended
  <1>3. Numbers(h, N + 1)
    <2>1. h \in [0..N -> MSDUs]
      BY <1>1 DEF Extended, Numbers
    <2> HIDE DEF h
    <2>2. \A x, y \in 0..N : x < y => h[x] < h[y]
      <3> SUFFICES ASSUME NEW x \in 0..N, NEW y \in 0..N, x < y
                   PROVE  h[x] < h[y]
        OBVIOUS
      <3>1. x \in 0..(N - 1)
        BY <1>1
      <3>2. CASE y = N
        BY <1>2, <3>1, <3>2
      <3>3. CASE y # N
        BY <1>1, <1>2, <3>1, <3>3 DEF Numbers
      <3> QED
        BY <3>2, <3>3
    <2> QED
      BY <1>1, <2>1, <2>2 DEF Numbers
  <1> HIDE DEF h
  <1>4. ASSUME NEW q, RxData(q, g, N) PROVE RxData(q, h, N + 1)
    <2>1. /\ q \in RxQueues /\ q.waitingForSN <= N /\ q.waitingForSN \in Nat
          /\ q.rxStorage \in Seq(Entries) /\ q.rxSNs \subseteq Nat
          /\ q.first \in Nat
      BY <1>4 DEF RxData, RxLoose, RxQueues
    <2>2. q.waitingForSN <= N + 1
      BY <1>1, <2>1
    <2>3. \A e \in Frames(q.rxStorage) :
             q.waitingForSN <= e.sn /\ e.sn < N + 1 /\ h[e.sn] = e.id
      <3> SUFFICES ASSUME NEW e \in Frames(q.rxStorage)
                   PROVE  q.waitingForSN <= e.sn /\ e.sn < N + 1 /\ h[e.sn] = e.id
        OBVIOUS
      <3>1. e.sn \in Nat
        BY <2>1, FramesIn DEF Entries
      <3>2. q.waitingForSN <= e.sn /\ e.sn < N /\ g[e.sn] = e.id
        BY <1>4 DEF RxData, RxLoose
      <3>3. e.sn \in 0..(N - 1)
        BY <1>1, <3>1, <3>2
      <3> QED
        BY <1>1, <1>2, <3>1, <3>2, <3>3
    <2>4. Delivers(q.delivered, h, q.waitingForSN)
      <3>1. Delivers(q.delivered, g, q.waitingForSN)
        BY <1>4 DEF RxData, RxLoose
      <3>2. \A x \in 0..(q.waitingForSN - 1) : x \in 0..(N - 1)
        BY <1>1, <2>1
      <3> QED
        BY <1>2, <3>1, <3>2 DEF Delivers
    <2>5. q.first = 0 \/ \E x \in 0..N : q.first = h[x]
      <3>1. q.first = 0 \/ \E x \in 0..(N - 1) : q.first = g[x]
        BY <1>4 DEF RxData, RxLoose
      <3> QED
        BY <1>1, <1>2, <3>1
    <2>6. q.first <= n
      <3>1. q.first = 0 \/ \E x \in 0..(N - 1) : q.first = g[x]
        BY <1>4 DEF RxData, RxLoose
      <3>2. n \in Nat /\ \A x \in 0..(N - 1) : g[x] \in Nat
        BY <1>1 DEF Numbers
      <3> QED
        BY <2>1, <3>1, <3>2
    <2>7. \A x \in q.waitingForSN..N : h[x] >= q.first
      <3>1. \A x \in q.waitingForSN..(N - 1) : g[x] >= q.first
        BY <1>4 DEF RxData, RxLoose
      <3>2. n \in Nat /\ n >= q.first
        BY <1>1, <2>1, <2>6
      <3> SUFFICES ASSUME NEW x \in q.waitingForSN..N PROVE h[x] >= q.first
        OBVIOUS
      <3>3. CASE x = N
        BY <1>2, <3>2, <3>3
      <3>4. CASE x # N
        BY <1>1, <1>2, <2>1, <3>1, <3>4
      <3> QED
        BY <3>3, <3>4
    <2>8. \A s \in q.rxSNs : s < N + 1 /\ Got(q, h[s])
      <3> SUFFICES ASSUME NEW s \in q.rxSNs PROVE s < N + 1 /\ Got(q, h[s])
        OBVIOUS
      <3>1. s \in Nat /\ s < N /\ Got(q, g[s])
        BY <1>4, <2>1 DEF RxData, RxLoose
      <3>2. s \in 0..(N - 1)
        BY <1>1, <3>1
      <3> QED
        BY <1>1, <1>2, <3>1, <3>2
    <2>9. Ascending(q.rxStorage)
          /\ (~q.known => /\ q.rxStorage = <<>> /\ q.delivered = <<>>
                          /\ q.rxSNs = {} /\ q.waitingForSN = 0 /\ q.first = 0)
          /\ \A e \in Frames(q.rxStorage) : e.sn # q.waitingForSN
      BY <1>4 DEF RxData, RxLoose
    <2>10. RxLoose(q, h, N + 1)
      BY <1>1, <2>1, <2>2, <2>3, <2>4, <2>5, <2>7, <2>8, <2>9 DEF RxLoose
    <2> QED
      BY <2>9, <2>10 DEF RxData
  <1> QED
    BY <1>2, <1>3, <1>4 DEF h

-----------------------------------------------------------------------------
(* The buffer holds its MSDUs in the order of arrival.                     *)
Rising(b) ==
    b \in Seq(MSDUs) /\ \A i, j \in 1..Len(b) : i < j => b[i] < b[j]

(* Dropping the expired, appending a later MSDU, dropping the last, and    *)
(* taking the first away keep the buffer in order.                         *)
LEMMA AliveRises ==
    ASSUME NEW b, Rising(b)
    PROVE  Rising(Alive(b)) /\ MSDUsIn(Alive(b)) \subseteq MSDUsIn(b)
  <1> DEFINE I == {i \in 1..Len(b) : ~LifetimeExpired(b[i])}
             t == Selected(b, I)
             J == I \cap 1..Len(b)
  <1>1. t \in Seq(MSDUs) /\ \E h : IsSelection(t, h, b, J)
    BY SelectedFacts DEF Rising
  <1>2. J \subseteq 1..Len(b)
    OBVIOUS
  <1> HIDE DEF t, J
  <1>3. PICK h : IsSelection(t, h, b, J)
    BY <1>1
  <1>4. \A i \in 1..Len(t) : h[i] \in 1..Len(b) /\ t[i] = b[h[i]]
    <2>1. h \in [1..Len(t) -> J] /\ \A i \in 1..Len(t) : t[i] = b[h[i]]
      BY <1>3 DEF IsSelection
    <2> QED
      BY <1>2, <2>1
  <1>5. Rising(t)
    <2> SUFFICES ASSUME NEW i \in 1..Len(t), NEW j \in 1..Len(t), i < j
                 PROVE  t[i] < t[j]
      BY <1>1 DEF Rising
    <2>1. h[i] < h[j]
      BY <1>3 DEF IsSelection
    <2>2. h[i] \in 1..Len(b) /\ h[j] \in 1..Len(b) /\ t[i] = b[h[i]] /\ t[j] = b[h[j]]
      BY <1>4
    <2> QED
      BY <2>1, <2>2 DEF Rising
  <1>6. MSDUsIn(t) \subseteq MSDUsIn(b)
    BY <1>4 DEF MSDUsIn
  <1> QED
    BY <1>5, <1>6 DEF Alive, t

(* The MSDU that arrives is later than those that wait.                    *)
LEMMA AppendRises ==
    ASSUME NEW b, Rising(b), NEW n \in MSDUs, \A m \in MSDUsIn(b) : m < n
    PROVE  Rising(Append(b, n)) /\ MSDUsIn(Append(b, n)) = MSDUsIn(b) \cup {n}
  <1> DEFINE t == Append(b, n)
  <1>1. b \in Seq(MSDUs) /\ Len(b) \in Nat
    BY LenProperties DEF Rising
  <1>2. /\ t \in Seq(MSDUs) /\ Len(t) = Len(b) + 1
        /\ \A i \in 1..Len(b) : t[i] = b[i]
        /\ t[Len(b) + 1] = n
    BY <1>1, AppendProperties
  <1> HIDE DEF t
  <1>3. \A i, j \in 1..Len(t) : i < j => t[i] < t[j]
    <2> SUFFICES ASSUME NEW i \in 1..Len(t), NEW j \in 1..Len(t), i < j
                 PROVE  t[i] < t[j]
      OBVIOUS
    <2>1. i \in 1..Len(b)
      BY <1>1, <1>2
    <2>2. CASE j = Len(b) + 1
      BY <1>2, <2>1, <2>2 DEF MSDUsIn
    <2>3. CASE j # Len(b) + 1
      <3>1. j \in 1..Len(b)
        BY <1>1, <1>2, <2>3
      <3> QED
        BY <1>2, <2>1, <3>1 DEF Rising
    <2> QED
      BY <2>2, <2>3
  <1>4. MSDUsIn(t) = MSDUsIn(b) \cup {n}
    <2>1. \A i \in 1..Len(t) : i \in 1..Len(b) \/ i = Len(b) + 1
      BY <1>1, <1>2
    <2>2. Len(b) + 1 \in 1..Len(t) /\ 1..Len(b) \subseteq 1..Len(t)
      BY <1>1, <1>2
    <2>3. MSDUsIn(t) \subseteq MSDUsIn(b) \cup {n}
      BY <1>2, <2>1 DEF MSDUsIn
    <2>4. MSDUsIn(b) \subseteq MSDUsIn(t)
      BY <1>2, <2>2 DEF MSDUsIn
    <2>5. n \in MSDUsIn(t)
      BY <1>2, <2>2 DEF MSDUsIn
    <2> QED
      BY <2>3, <2>4, <2>5
  <1> QED
    BY <1>2, <1>3, <1>4 DEF Rising, t

(* The last MSDU may be dropped.                                           *)
LEMMA KeptRises ==
    ASSUME NEW b, Rising(b)
    PROVE  Rising(Kept(b)) /\ MSDUsIn(Kept(b)) \subseteq MSDUsIn(b)
  <1>1. CASE ~(Len(b) > MaxSize)
    BY <1>1 DEF Kept
  <1>2. CASE Len(b) > MaxSize
    <2> DEFINE t == Front(b)
    <2>1. b \in Seq(MSDUs) /\ Len(b) \in Nat /\ Len(b) >= 1
      <3>1. MaxSize \in Nat
        BY CapacityAssumption
      <3> QED
        BY <1>2, <3>1, LenProperties DEF Rising
    <2>2. Len(b) - 1 \in 0..Len(b) /\ t = SubSeq(b, 1, Len(b) - 1)
      BY <2>1 DEF Front
    <2> HIDE DEF t
    <2>3. t \in Seq(MSDUs) /\ Len(t) = Len(b) - 1
            /\ \A i \in 1..(Len(b) - 1) : t[i] = b[i]
      BY <2>1, <2>2, SplitAt, ZenonT(30)
    <2>5. (\A i \in 1..Len(t) : t[i] = b[i]) /\ 1..Len(t) \subseteq 1..Len(b)
      BY <2>1, <2>3
    <2>6. Rising(t)
      BY <2>3, <2>5 DEF Rising
    <2>7. MSDUsIn(t) \subseteq MSDUsIn(b)
      BY <2>5 DEF MSDUsIn
    <2> QED
      BY <1>2, <2>6, <2>7 DEF Kept, t
  <1> QED
    BY <1>1, <1>2

(* The first MSDU of the buffer is before all others.                      *)
LEMMA TailRises ==
    ASSUME NEW b, Rising(b), b # <<>>
    PROVE  /\ Rising(Tail(b)) /\ Head(b) \in MSDUsIn(b) /\ Head(b) \in MSDUs
           /\ \A n \in MSDUsIn(Tail(b)) : n \in MSDUsIn(b) /\ Head(b) < n
  <1> DEFINE t == Tail(b)
  <1>1. b \in Seq(MSDUs) /\ Len(b) \in Nat
    BY LenProperties DEF Rising
  <1>2. /\ t \in Seq(MSDUs) /\ Len(t) = Len(b) - 1
        /\ \A i \in 1..Len(t) : t[i] = b[i + 1]
    BY <1>1, HeadTailProperties
  <1>3. Len(b) >= 1 /\ Head(b) = b[1] /\ 1 \in 1..Len(b)
    <2>1. Len(b) # 0
      BY <1>1, EmptySeq
    <2> QED
      BY <1>1, <2>1
  <1> HIDE DEF t
  <1>4. \A i \in 1..Len(t) : i + 1 \in 1..Len(b) /\ 1 < i + 1
    BY <1>1, <1>2
  <1>5. Rising(t)
    <2>1. \A i, j \in 1..Len(t) : i < j => i + 1 < j + 1
      BY <1>1, <1>2
    <2> QED
      BY <1>2, <1>4, <2>1 DEF Rising
  <1>6. \A n \in MSDUsIn(t) : n \in MSDUsIn(b) /\ Head(b) < n
    BY <1>2, <1>3, <1>4 DEF Rising, MSDUsIn
  <1>7. Head(b) \in MSDUsIn(b) /\ Head(b) \in MSDUs
    <2>1. b[1] \in MSDUs
      BY <1>1, <1>3, ElementOfSeq
    <2> QED
      BY <1>3, <2>1 DEF MSDUsIn
  <1> QED
    BY <1>5, <1>6, <1>7 DEF t

-----------------------------------------------------------------------------
(* The end of a wait: what is acknowledged leaves, what has expired is     *)
(* dropped, and the rest is queued in front, in its old order.             *)

(* Same queue, fates and saved numbers.                                    *)
SameQueue(p, m) ==
    /\ p.queue = m.queue /\ p.fate = m.fate
    /\ p.nextTransmissionSN = m.nextTransmissionSN

(* Same data, and no new wait.                                             *)
Keeps(p, m) ==
    SameQueue(p, m) /\ (m.baState = "idle" => p.baState = "idle")

(* Steps that keep the queue keep the data.                                *)
LEMMA DataSame ==
    ASSUME DataInv, SameQueue(ba', ba),
           arrived' = arrived, expired' \in 0..arrived, buffer' = buffer,
           rxQueue' = rxQueue, LineData',
           reply'.phase # "none" =>
              /\ reply.phase # "none"
              /\ reply'.from = reply.from /\ reply'.ackSNs = reply.ackSNs
              /\ ba.baState = "idle" => ba'.baState = "idle"
    PROVE  DataInv'
  <1>1. /\ ba'.queue = ba.queue /\ ba'.fate = ba.fate
        /\ ba'.nextTransmissionSN = ba.nextTransmissionSN
    BY DEF SameQueue
  <1>2. SourceData'
    BY DEF DataInv, SourceData
  <1>3. BaData'
    BY <1>1 DEF DataInv, BaData
  <1>5. ReplyData'
    BY <1>1 DEF DataInv, ReplyData
  <1>6. Peers'
    <2> SUFFICES ASSUME NEW r \in Receivers PROVE \E g : Peer(r, g)'
      BY DEF Peers
    <2>1. PICK g : Peer(r, g)
      BY DEF DataInv, Peers
    <2>2. NextSN(r)' = NextSN(r)
      BY <1>1 DEF NextSN
    <2>3. Numbered(r, g)'
      BY <1>1, <2>1, <2>2 DEF Peer, Numbered
    <2>4. ba'.queue.to = r => Pending(r, g)'
      BY <1>1, <2>1 DEF Peer, Pending
    <2>5. Peer(r, g)'
      BY <2>1, <2>2, <2>3, <2>4 DEF Peer
    <2> QED
      BY <2>5
  <1> QED
    BY <1>2, <1>3, <1>5, <1>6 DEF DataInv

-----------------------------------------------------------------------------
(* Reporting a block.                                                      *)
After(q, tx) ==
    IF tx # <<>> THEN [q EXCEPT !.txQueue = tx, !.onAir = <<>>, !.waitForACK = FALSE]
    ELSE NoQueue

(* The queue, the saved numbers and the fates after an acknowledgement of  *)
(* S.                                                                      *)
LEMMA AckOutcome ==
    ASSUME NEW m, BaShape(m), m.fate \in [MSDUs -> Fates], NEW S,
           NEW q, q = m.queue, QueueShape(q), q.onAir \in Seq(Entries)
    PROVE  LET tx == Requeue(q, Matched(q, S))
               p  == ProcessIncomingACKSNs(m, S)
           IN  /\ p.queue = After(q, tx) /\ p.baState = "idle"
               /\ p.nextTransmissionSN =
                    IF tx # <<>> THEN m.nextTransmissionSN
                    ELSE [m.nextTransmissionSN EXCEPT ![q.to] = q.nextSN]
               /\ p.fate \in [MSDUs -> Fates]
               /\ \A n \in MSDUs : p.fate[n] \in {m.fate[n], "confirmed", "dropped"}
               /\ \A n \in MSDUs : p.fate[n] = "confirmed" =>
                     \/ m.fate[n] = "confirmed"
                     \/ \E e \in Frames(q.onAir) : e.sn \in S /\ n = e.id
  <1> DEFINE sns  == Matched(q, S)
             tx   == Requeue(q, sns)
             lost == {q.onAir[i].id : i \in
                        {j \in Unacked(q, sns) :
                            LifetimeExpired(q.onAir[j].id)}}
             d    == Dropped(m, lost)
             n    == [d EXCEPT
                        !.timer = "off", !.baState = "idle",
                        !.fate = [k \in MSDUs |->
                                    IF k \in AckedIn(q, sns)
                                    THEN "confirmed" ELSE @[k]]]
             u    == ProcessIncomingACK(q, sns)
             p    == Released(n, u)
  <1>1. p = ProcessIncomingACKSNs(m, S)
    BY DEF ProcessIncomingACKSNs
  <1>2. sns \subseteq S
    BY DEF Matched
  <1> HIDE DEF sns, lost
  <1>3. /\ BaShape(d) /\ d.nextTransmissionSN = m.nextTransmissionSN
        /\ d.fate = [k \in MSDUs |-> IF k \in lost THEN "dropped" ELSE m.fate[k]]
    BY DEF Dropped, BaShape
  <1> HIDE DEF d
  <1>4. /\ BaShape(n) /\ n.nextTransmissionSN = m.nextTransmissionSN
        /\ n.baState = "idle"
        /\ n.fate = [k \in MSDUs |-> IF k \in AckedIn(q, sns) THEN "confirmed"
                                     ELSE d.fate[k]]
    BY <1>3 DEF BaShape
  <1>5. u = [q EXCEPT !.txQueue = tx, !.onAir = <<>>, !.waitForACK = FALSE]
    BY DEF ProcessIncomingACK
  <1> HIDE DEF tx
  <1>6. u.txQueue = tx /\ u.to = q.to /\ u.nextSN = q.nextSN
    BY <1>5 DEF QueueShape
  <1> HIDE DEF n, u
  <1>7. /\ p.queue = After(q, tx) /\ p.baState = "idle"
        /\ p.nextTransmissionSN =
             IF tx # <<>> THEN m.nextTransmissionSN
             ELSE [m.nextTransmissionSN EXCEPT ![q.to] = q.nextSN]
        /\ p.fate = n.fate
    <2>1. CASE tx # <<>>
      <3>1. p = [n EXCEPT !.queue = u]
        BY <1>6, <2>1 DEF Released
      <3> HIDE DEF p
      <3> QED
        BY <1>4, <1>5, <2>1, <3>1 DEF BaShape, After
    <2>2. CASE tx = <<>>
      <3>1. p = [n EXCEPT !.queue = NoQueue, !.nextTransmissionSN[q.to] = q.nextSN]
        BY <1>6, <2>2 DEF Released
      <3> HIDE DEF p
      <3> QED
        BY <1>4, <2>2, <3>1 DEF BaShape, After
    <2> QED
      BY <2>1, <2>2
  <1> HIDE DEF p
  <1>8. d.fate \in [MSDUs -> Fates]
          /\ \A k \in MSDUs : d.fate[k] \in {m.fate[k], "dropped"}
    BY <1>3 DEF Fates
  <1>9. /\ p.fate \in [MSDUs -> Fates]
        /\ \A k \in MSDUs : p.fate[k] \in {m.fate[k], "confirmed", "dropped"}
    BY <1>4, <1>7, <1>8 DEF Fates
  <1>10. ASSUME NEW k \in MSDUs, p.fate[k] = "confirmed"
         PROVE  \/ m.fate[k] = "confirmed"
                \/ \E e \in Frames(q.onAir) : e.sn \in S /\ k = e.id
    <2>1. CASE k \in AckedIn(q, sns)
      BY <1>2, <2>1 DEF AckedIn, Frames
    <2>2. CASE k \notin AckedIn(q, sns)
      BY <1>4, <1>7, <1>8, <1>10, <2>2
    <2> QED
      BY <2>1, <2>2
  <1> QED
    BY <1>1, <1>7, <1>9, <1>10 DEF tx, sns

-----------------------------------------------------------------------------
(* Of a block that nobody has answered an end is left.                     *)
LEMMA ExpiredFirst ==
    ASSUME NEW s \in Seq(Entries), NEW x \in Nat,
           \A i, j \in 1..Len(s) : i < j => s[i].id < s[j].id
    PROVE  \E k \in 0..Len(s) :
              {i \in 1..Len(s) : ~(s[i].id <= x)} = (k + 1)..Len(s)
  <1> DEFINE T == {i \in 1..Len(s) : ~(s[i].id <= x)}
  <1>1. Len(s) \in Nat /\ \A i \in 1..Len(s) : s[i].id \in Nat
    <2>1. \A i \in 1..Len(s) : s[i] \in Entries
      BY ElementOfSeq
    <2> QED
      BY <2>1, LenProperties, LoadAssumption DEF Entries, MSDUs
  <1>2. CASE T = {}
    <2>1. Len(s) \in 0..Len(s) /\ T = (Len(s) + 1)..Len(s)
      BY <1>1, <1>2
    <2> QED
      BY <2>1
  <1>3. CASE T # {}
    <2>1. PICK n \in T : \A m \in T : n <= m
      <3>1. T \in SUBSET Nat
        BY <1>1
      <3> HIDE DEF T
      <3> QED
        BY <1>3, <3>1, LeastNumber
    <2>2. n \in 1..Len(s) /\ n - 1 \in 0..Len(s) /\ (n - 1) + 1 = n
      BY <1>1, <2>1
    <2>3. \A i \in n..Len(s) : i \in T
      <3> SUFFICES ASSUME NEW i \in n..Len(s), i # n PROVE i \in T
        BY <2>1
      <3>1. i \in 1..Len(s) /\ n < i
        BY <1>1, <2>2
      <3>2. s[n].id < s[i].id /\ s[n].id > x
        BY <1>1, <2>1, <2>2, <3>1
      <3> QED
        BY <1>1, <2>2, <3>1, <3>2
    <2>4. \A i \in T : i \in n..Len(s)
      BY <1>1, <2>1, <2>2
    <2>5. T = ((n - 1) + 1)..Len(s)
      <3> HIDE DEF T
      <3> QED
        BY <2>2, <2>3, <2>4
    <2> QED
      BY <2>2, <2>5
  <1> QED
    BY <1>2, <1>3

(* The end of s, followed by t, is the end of both.                        *)
LEMMA SuffixConcat ==
    ASSUME NEW s \in Seq(Entries), NEW t \in Seq(Entries), NEW k \in 0..Len(s)
    PROVE  SubSeq(s, k + 1, Len(s)) \o t = SubSeq(s \o t, k + 1, Len(s \o t))
  <1> DEFINE u == s \o t  a == SubSeq(s, k + 1, Len(s))
             b == SubSeq(u, k + 1, Len(u))  c == a \o t
  <1>1. /\ u \in Seq(Entries) /\ Len(s) \in Nat /\ Len(t) \in Nat
        /\ Len(u) = Len(s) + Len(t)
        /\ \A i \in 1..Len(u) : u[i] = IF i <= Len(s) THEN s[i] ELSE t[i - Len(s)]
    BY ConcatProperties, LenProperties
  <1>2. /\ a \in Seq(Entries) /\ Len(a) = Len(s) - k
        /\ \A i \in 1..(Len(s) - k) : a[i] = s[k + i]
    BY SplitFrames, Zenon
  <1> HIDE DEF u, a
  <1>3. k \in 0..Len(u)
    BY <1>1
  <1>4. /\ b \in Seq(Entries) /\ Len(b) = Len(u) - k
        /\ \A i \in 1..(Len(u) - k) : b[i] = u[k + i]
    BY <1>1, <1>3, SplitFrames, Zenon
  <1>5. /\ c \in Seq(Entries) /\ Len(c) = Len(a) + Len(t)
        /\ \A i \in 1..(Len(a) + Len(t)) :
              c[i] = IF i <= Len(a) THEN a[i] ELSE t[i - Len(a)]
    BY <1>2, ConcatProperties
  <1> HIDE DEF b, c
  <1>6. Len(c) = Len(b)
    BY <1>1, <1>2, <1>4, <1>5
  <1>7. \A i \in 1..Len(c) : c[i] = b[i]
    <2> TAKE i \in 1..Len(c)
    <2>1. /\ k + i \in 1..Len(u) /\ i \in 1..(Len(u) - k)
          /\ i <= Len(a) <=> k + i <= Len(s)
          /\ i - Len(a) = (k + i) - Len(s)
          /\ i <= Len(a) => i \in 1..(Len(s) - k)
      BY <1>1, <1>2, <1>5
    <2>2. b[i] = u[k + i]
      BY <1>4, <2>1
    <2>3. CASE i <= Len(a)
      BY <1>1, <1>2, <1>5, <2>1, <2>2, <2>3
    <2>4. CASE ~(i <= Len(a))
      BY <1>1, <1>5, <2>1, <2>2, <2>4
    <2> QED
      BY <2>3, <2>4
  <1>8. c = b
    BY <1>4, <1>5, <1>6, <1>7, SeqEqual
  <1> QED
    BY <1>8 DEF a, b, c, u

(* What is within the window stays so when its beginning is given up.      *)
LEMMA WindowSuffix ==
    ASSUME NEW u \in Seq(Entries), Ascending(u), NEW k \in 0..(Len(u) - 1),
           NEW n \in Nat, InWindow(u, n), n >= u[k + 1].sn
    PROVE  InWindow(SubSeq(u, k + 1, Len(u)), n)
  <1> DEFINE b == SubSeq(u, k + 1, Len(u))
  <1>1. Len(u) \in Nat /\ k \in 0..Len(u)
    BY LenProperties
  <1>2. /\ b \in Seq(Entries) /\ Len(b) = Len(u) - k
        /\ \A i \in 1..(Len(u) - k) : b[i] = u[k + i]
        /\ u = SubSeq(u, 1, k) \o b
    BY <1>1, SplitFrames, Zenon
  <1>3. PICK j \in 1..Len(u) : u[j].sn = n /\ SizeOf(SubSeq(u, 1, j)) <= MaxOnAir
    BY DEF InWindow
  <1>4. j >= k + 1
    <2>1. k + 1 \in 1..Len(u)
      BY <1>1
    <2>2. j < k + 1 => u[j].sn < u[k + 1].sn
      BY <2>1 DEF Ascending
    <2>3. u[k + 1].sn \in Nat
      <3>1. u[k + 1] \in Entries
        BY <2>1, ElementOfSeq
      <3> QED
        BY <3>1 DEF Entries
    <2>4. ~(n < u[k + 1].sn)
      BY <2>3
    <2>5. ~(j < k + 1)
      BY <1>3, <2>2, <2>4
    <2> QED
      BY <1>1, <2>5
  <1> DEFINE i == j - k
  <1>5. i \in 1..Len(b) /\ k + i = j /\ b[i] = u[j]
    BY <1>1, <1>2, <1>4
  <1> HIDE DEF b
  <1>6. SizeOf(SubSeq(b, 1, i)) <= SizeOf(SubSeq(u, 1, j))
    <2> DEFINE v == SubSeq(u, 1, j)  a == SubSeq(v, 1, k)  c == SubSeq(v, k + 1, Len(v))
               d == SubSeq(b, 1, i)
    <2>1. j \in 0..Len(u) /\ i \in 0..Len(b)
      BY <1>1, <1>2, <1>5
    <2>2. v \in Seq(Entries) /\ Len(v) = j /\ \A x \in 1..j : v[x] = u[x]
      BY <2>1, SplitFrames, Zenon
    <2> HIDE DEF v
    <2>3. k \in 0..Len(v)
      BY <1>1, <1>4, <2>2
    <2>4. /\ a \in Seq(Entries) /\ c \in Seq(Entries) /\ v = a \o c
          /\ Len(c) = Len(v) - k /\ \A x \in 1..(Len(v) - k) : c[x] = v[k + x]
      BY <2>2, <2>3, SplitFrames, Zenon
    <2>5. d \in Seq(Entries) /\ Len(d) = i /\ \A x \in 1..i : d[x] = b[x]
      BY <1>2, <2>1, SplitFrames, Zenon
    <2> HIDE DEF a, c, d
    <2>6. d = c
      <3>1. Len(d) = Len(c)
        BY <2>2, <2>4, <2>5
      <3>2. \A x \in 1..Len(d) : d[x] = c[x]
        <4> TAKE x \in 1..Len(d)
        <4>1. /\ x \in 1..i /\ x \in 1..(Len(v) - k) /\ k + x \in 1..j
              /\ x \in 1..(Len(u) - k)
          BY <1>1, <1>2, <1>5, <2>1, <2>2, <2>5
        <4> QED
          BY <1>2, <2>2, <2>4, <2>5, <4>1
      <3> QED
        BY <2>4, <2>5, <3>1, <3>2, SeqEqual
    <2>7. SizeOf(v) = SizeOf(a) + SizeOf(c)
      BY <2>4, SizeConcat
    <2>8. SizeOf(a) \in Nat /\ SizeOf(c) \in Nat
      BY <2>4, SizeNat
    <2>9. SizeOf(c) <= SizeOf(v)
      BY <2>7, <2>8
    <2> QED
      BY <2>6, <2>9 DEF d, v
  <1>7. SizeOf(SubSeq(b, 1, i)) <= MaxOnAir
    <2>1. SubSeq(b, 1, i) \in Seq(Entries) /\ SubSeq(u, 1, j) \in Seq(Entries)
      <3>1. i \in 0..Len(b) /\ j \in 0..Len(u)
        BY <1>1, <1>2, <1>5
      <3> QED
        BY <1>2, <3>1, SplitFrames, Zenon
    <2>2. SizeOf(SubSeq(b, 1, i)) \in Nat /\ SizeOf(SubSeq(u, 1, j)) \in Nat
      BY <2>1, SizeNat
    <2>3. /\ SizeOf(SubSeq(b, 1, i)) \in Int /\ SizeOf(SubSeq(u, 1, j)) \in Int
          /\ MaxOnAir \in Int
      BY <2>2, CapacityAssumption
    <2> QED
      BY <1>3, <1>6, <2>3, AtMost
  <1> QED
    BY <1>3, <1>5, <1>7 DEF InWindow, b

-----------------------------------------------------------------------------
(* The window after a block without acknowledgement, and the report of an  *)
(* acknowledgement to the queue.                                           *)

(* After a block without acknowledgement, the window begins no earlier and *)
(* still holds what it held from there on.                                 *)
LEMMA Unanswered ==
    ASSUME NEW q, q.onAir \in Seq(Entries), q.txQueue \in Seq(Entries),
           Ascending(All(q)), expired \in Nat,
           \A i, j \in 1..Len(q.onAir) : i < j => q.onAir[i].id < q.onAir[j].id,
           Requeue(q, {}) # <<>>,
           NEW n \in Nat, n >= Requeue(q, {})[1].sn
    PROVE  /\ n >= All(q)[1].sn
           /\ InWindow(All(q), n) => InWindow(Requeue(q, {}), n)
  <1> DEFINE s == q.onAir  t == q.txQueue  tx == Requeue(q, {})  u == s \o t
             I == {i \in 1..Len(s) : ~(s[i].id <= expired)}
  <1>1. s \in Seq(Entries) /\ t \in Seq(Entries) /\ Ascending(u) /\ tx # <<>>
          /\ n >= tx[1].sn /\ All(q) = u
    BY DEF All
  <1>2. tx = Selected(s, I) \o t
    <2>1. {i \in Unacked(q, {}) : ~LifetimeExpired(q.onAir[i].id)} = I
      BY DEF Unacked, LifetimeExpired
    <2> QED
      BY <2>1 DEF Requeue, Failed
  <1>3. PICK k \in 0..Len(s) : I = (k + 1)..Len(s)
    <2>1. \A i, j \in 1..Len(s) : i < j => s[i].id < s[j].id
      OBVIOUS
    <2> HIDE DEF s
    <2> QED
      BY <1>1, <2>1, ExpiredFirst
  <1> HIDE DEF s, t, tx, I
  <1>4. tx = SubSeq(s, k + 1, Len(s)) \o t
    <2>1. Selected(s, (k + 1)..Len(s)) = SubSeq(s, k + 1, Len(s))
      BY <1>1, SelectedEnd, Zenon
    <2> QED
      BY <1>2, <1>3, <2>1
  <1>5. tx = SubSeq(u, k + 1, Len(u))
    BY <1>1, <1>4, SuffixConcat
  <1>6. /\ u \in Seq(Entries) /\ Len(u) = Len(s) + Len(t)
        /\ Len(s) \in Nat /\ Len(t) \in Nat
    BY <1>1, ConcatProperties, LenProperties
  <1> HIDE DEF u
  <1>7. k \in 0..Len(u)
    BY <1>6
  <1>8. /\ tx \in Seq(Entries) /\ Len(tx) = Len(u) - k
        /\ \A i \in 1..(Len(u) - k) : tx[i] = u[k + i]
    BY <1>5, <1>6, <1>7, SplitFrames, Zenon
  <1>9. k \in 0..(Len(u) - 1) /\ tx[1] = u[k + 1]
    <2>1. Len(tx) # 0
      BY <1>1, <1>8, EmptySeq
    <2>2. k \in 0..(Len(u) - 1) /\ 1 \in 1..(Len(u) - k)
      BY <1>6, <1>7, <1>8, <2>1
    <2> QED
      BY <1>8, <2>2
  <1>10. n >= u[1].sn
    <2>1. 1 \in 1..Len(u) /\ k + 1 \in 1..Len(u) /\ (k = 0 \/ 1 < k + 1)
      BY <1>6, <1>9
    <2>2. u[1] \in Entries /\ u[k + 1] \in Entries
      BY <1>6, <2>1, ElementOfSeq
    <2>3. u[1].sn \in Int /\ u[k + 1].sn \in Int /\ n \in Int
      BY <2>2 DEF Entries
    <2>4. k = 0 \/ u[1].sn < u[k + 1].sn
      BY <1>1, <2>1 DEF Ascending
    <2>5. u[1].sn <= u[k + 1].sn
      <3>1. k = 0 => k + 1 = 1
        OBVIOUS
      <3> QED
        BY <2>3, <2>4, <3>1
    <2>6. u[k + 1].sn <= n
      BY <1>1, <1>9
    <2> QED
      BY <2>3, <2>5, <2>6, AtMost
  <1>11. InWindow(u, n) => InWindow(tx, n)
    BY <1>1, <1>5, <1>6, <1>9, WindowSuffix
  <1> QED
    BY <1>1, <1>10, <1>11 DEF tx

(* Ids rise with the numbers.                                              *)
LEMMA IdsRise ==
    ASSUME NEW g, NEW N, Numbers(g, N), NEW s \in Seq(Entries), Ascending(s),
           \A e \in Frames(s) : e.sn \in 0..(N - 1) /\ e.id = g[e.sn]
    PROVE  \A i, j \in 1..Len(s) : i < j => s[i].id < s[j].id
  <1> SUFFICES ASSUME NEW i \in 1..Len(s), NEW j \in 1..Len(s), i < j
               PROVE  s[i].id < s[j].id
    OBVIOUS
  <1>1. s[i] \in Frames(s) /\ s[j] \in Frames(s)
    BY DEF Frames
  <1>2. s[i].sn < s[j].sn
    BY DEF Ascending
  <1> QED
    BY <1>1, <1>2 DEF Numbers

(* No queue at all satisfies what is said of queues.                       *)
LEMMA NoQueueData == QueueData(NoQueue) /\ All(NoQueue) = <<>>
  <1>1. /\ NoQueue.txQueue = <<>> /\ NoQueue.onAir = <<>>
        /\ NoQueue.nextSN = 0 /\ NoQueue.waitForACK = FALSE
    BY DEF NoQueue
  <1>2. <<>> \in Seq(Entries) /\ Len(<<>>) = 0
    BY EmptySeq
  <1>3. <<>> \o <<>> = <<>>
    BY <1>2, ConcatEmptySeq
  <1>4. All(NoQueue) = <<>>
    BY <1>1, <1>3 DEF All
  <1>5. Ascending(<<>>) /\ Frames(<<>>) = {}
    <2>1. 1..Len(<<>>) = {}
      BY <1>2
    <2> QED
      BY <2>1 DEF Ascending, Frames
  <1>6. SizeOf(<<>>) <= MaxOnAir
    BY SizeEmpty, CapacityAssumption
  <1> QED
    BY <1>1, <1>2, <1>4, <1>5, <1>6 DEF QueueData

(* An acknowledgement of frames that have been got, or of none, preserves  *)
(* the data invariant.                                                     *)
LEMMA ReportData ==
    ASSUME Inv, DataInv, NEW m, BaShape(m), Keeps(m, ba), NEW S,
           ba.queue.onAir # <<>>,
           \A e \in Frames(ba.queue.onAir) :
              e.sn \in S => Got(rxQueue[ba.queue.to], e.id),
           S = {} \/ rxQueue[ba.queue.to].rxSNs = {},
           Keeps(ba', ProcessIncomingACKSNs(m, S)),
           arrived' = arrived, expired' = expired, buffer' = buffer,
           rxQueue' = rxQueue, line' = <<>>,
           reply'.phase # "none" =>
              reply.phase # "none" /\ reply'.from = reply.from
    PROVE  DataInv'
  <1> DEFINE q == ba.queue  sns == Matched(q, S)  f == Failed(q, sns)
             t == q.txQueue  tx == Requeue(q, sns)  p == After(q, tx)
             N == q.nextSN  all == All(q)
  <1>1. /\ QueueShape(q) /\ QueueData(q) /\ q.onAir # <<>> /\ q.to \in Receivers
        /\ q.onAir \in Seq(Entries) /\ t \in Seq(Entries) /\ all # <<>>
        /\ N \in Nat /\ expired \in Nat
    <2>1. QueueShape(q)
      BY DEF Inv, BaOK, Consistent, QueueOK
    <2>2. QueueData(q) /\ expired \in Nat
      BY DEF DataInv, BaData, SourceData
    <2>3. q # NoQueue
      BY DEF NoQueue
    <2> QED
      BY <2>1, <2>2, <2>3 DEF QueueData
  <1>2. PICK g : Peer(q.to, g)
    BY <1>1 DEF DataInv, Peers
  <1>3. Numbers(g, N) /\ Numbered(q.to, g) /\ Pending(q.to, g)
          /\ RxData(rxQueue[q.to], g, N)
    BY <1>2 DEF Peer, NextSN
  <1>4. \A e \in Frames(all) : g[e.sn] = e.id
    BY <1>3 DEF Pending
  <1>5. /\ all \in Seq(Entries) /\ Frames(all) = Frames(q.onAir) \cup Frames(t)
        /\ \A e \in Frames(all) : e \in Entries /\ e.sn \in 0..(N - 1) /\ e.id = g[e.sn]
    <2> HIDE DEF all, q
    <2> QED
      BY <1>1, <1>3, <1>4, QueueFacts DEF all
  <1>6. Ascending(q.onAir) /\ Ascending(t)
          /\ \A a \in Frames(q.onAir), b \in Frames(t) : a.sn < b.sn
    BY <1>1, ConcatFrames DEF QueueData, All
  <1>7. f \in Seq(Entries) /\ Frames(f) \subseteq Frames(q.onAir) /\ Ascending(f)
    <2> DEFINE I == {i \in Unacked(q, sns) : ~LifetimeExpired(q.onAir[i].id)}
    <2>1. I \in SUBSET (1..Len(q.onAir))
      BY DEF Unacked
    <2> HIDE DEF I
    <2> DEFINE v == Selected(q.onAir, I)
    <2>2. v \in Seq(Entries) /\ Frames(v) = {q.onAir[i] : i \in I} /\ Ascending(v)
      BY <1>1, <1>6, <2>1, SelectedFrames
    <2> HIDE DEF v
    <2>3. Frames(v) \subseteq Frames(q.onAir)
      BY <2>1, <2>2 DEF Frames
    <2>4. f = v
      BY DEF Failed, I, v
    <2> QED
      BY <2>2, <2>3, <2>4
  <1>8. tx = f \o t
    BY DEF Requeue
  <1>9. tx \in Seq(Entries) /\ Ascending(tx) /\ Frames(tx) \subseteq Frames(all)
    <2> HIDE DEF f, t, tx, all, q
    <2> QED
      BY <1>1, <1>5, <1>6, <1>7, <1>8, ConcatFrames
  <1>10. /\ ba'.queue = p /\ ba'.baState = "idle"
         /\ ba'.nextTransmissionSN =
              IF tx # <<>> THEN ba.nextTransmissionSN
              ELSE [ba.nextTransmissionSN EXCEPT ![q.to] = q.nextSN]
         /\ ba'.fate \in [MSDUs -> Fates]
         /\ \A n \in MSDUs : ba'.fate[n] \in {ba.fate[n], "confirmed", "dropped"}
         /\ \A n \in MSDUs : ba'.fate[n] = "confirmed" =>
               \/ ba.fate[n] = "confirmed"
               \/ \E e \in Frames(q.onAir) : e.sn \in S /\ n = e.id
    <2>1. q = m.queue /\ m.fate = ba.fate /\ m.nextTransmissionSN = ba.nextTransmissionSN
      BY DEF Keeps, SameQueue
    <2>2. m.fate \in [MSDUs -> Fates]
      BY <2>1 DEF DataInv, BaData
    <2> DEFINE r == ProcessIncomingACKSNs(m, S)
    <2>3. /\ r.queue = p /\ r.baState = "idle"
          /\ r.nextTransmissionSN =
               IF tx # <<>> THEN m.nextTransmissionSN
               ELSE [m.nextTransmissionSN EXCEPT ![q.to] = q.nextSN]
          /\ r.fate \in [MSDUs -> Fates]
          /\ \A n \in MSDUs : r.fate[n] \in {m.fate[n], "confirmed", "dropped"}
          /\ \A n \in MSDUs : r.fate[n] = "confirmed" =>
                \/ m.fate[n] = "confirmed"
                \/ \E e \in Frames(q.onAir) : e.sn \in S /\ n = e.id
      <3> HIDE DEF q
      <3> QED
        BY <1>1, <2>1, <2>2, AckOutcome
    <2>4. /\ ba'.queue = r.queue /\ ba'.fate = r.fate
          /\ ba'.nextTransmissionSN = r.nextTransmissionSN
          /\ r.baState = "idle" => ba'.baState = "idle"
      BY DEF Keeps, SameQueue
    <2> HIDE DEF r, p, tx, q
    <2> QED
      BY <2>1, <2>3, <2>4
  <1>11. /\ All(p) = tx /\ QueueData(p)
         /\ p.to = IF tx # <<>> THEN q.to ELSE Nobody
         /\ tx # <<>> => p.nextSN = N
    <2>1. CASE tx = <<>>
      <3>1. p = NoQueue /\ NoQueue.to = Nobody
        BY <2>1 DEF After, NoQueue
      <3> HIDE DEF p, tx, q
      <3> QED
        BY <2>1, <3>1, NoQueueData
    <2>2. CASE tx # <<>>
      <3> HIDE DEF tx
      <3>1. p = [q EXCEPT !.txQueue = tx, !.onAir = <<>>, !.waitForACK = FALSE]
        BY <2>2 DEF After
      <3> HIDE DEF p
      <3>2. /\ p.txQueue = tx /\ p.onAir = <<>> /\ p.waitForACK = FALSE
            /\ p.to = q.to /\ p.nextSN = N
        BY <1>1, <3>1 DEF QueueShape
      <3> HIDE DEF q
      <3>3. All(p) = tx
        BY <1>9, <3>2, ConcatEmptySeq DEF All
      <3>4. SizeOf(<<>>) <= MaxOnAir /\ <<>> \in Seq(Entries)
        BY SizeEmpty, CapacityAssumption, EmptySeq
      <3>5. \A e \in Frames(tx) : e.sn < N
        <4>1. \A e \in Frames(tx) : e.sn \in 0..(N - 1)
          BY <1>5, <1>9
        <4> HIDE DEF N
        <4> QED
          BY <1>1, <4>1
      <3> QED
        BY <1>1, <1>9, <2>2, <3>2, <3>3, <3>4, <3>5 DEF QueueData
    <2> QED
      BY <2>1, <2>2
  <1> HIDE DEF p, tx, t, f, all
  <1>12. SourceData'
    BY DEF DataInv, SourceData
  <1>13. BaData'
    <2>1. QueueData(ba'.queue)
      BY <1>10, <1>11
    <2>2. ba'.nextTransmissionSN \in [Receivers -> Nat]
      <3>1. ba.nextTransmissionSN \in [Receivers -> Nat]
        BY DEF DataInv, BaData
      <3> HIDE DEF q
      <3> QED
        BY <1>1, <1>10, <3>1
    <2>3. ASSUME NEW n \in MSDUs, ba'.fate[n] = "confirmed"
          PROVE  Got(rxQueue[To[n]], n)
      <3>1. CASE ba.fate[n] = "confirmed"
        BY <3>1 DEF DataInv, BaData
      <3>2. CASE \E e \in Frames(q.onAir) : e.sn \in S /\ n = e.id
        <4>1. PICK e \in Frames(q.onAir) : e.sn \in S /\ n = e.id
          BY <3>2
        <4>2. Got(rxQueue[q.to], n)
          BY <4>1
        <4>3. To[n] = q.to
          BY <1>3, <1>5, <4>1 DEF Numbered, NextSN
        <4> QED
          BY <4>2, <4>3
      <3> QED
        BY <1>10, <2>3, <3>1, <3>2
    <2> QED
      BY <1>10, <2>1, <2>2, <2>3 DEF DataInv, BaData
  <1>14. LineData'
    <2>1. 1..Len(line') = {}
      BY EmptySeq
    <2> QED
      BY <2>1 DEF LineData
  <1>15. ReplyData'
    BY <1>10 DEF DataInv, ReplyData
  <1>16. \A r \in Receivers : NextSN(r)' = NextSN(r)
    <2> SUFFICES ASSUME NEW r \in Receivers PROVE NextSN(r)' = NextSN(r)
      OBVIOUS
    <2>1. NextSN(r) = IF q.to = r THEN N ELSE ba.nextTransmissionSN[r]
      BY DEF NextSN
    <2>2. NextSN(r)' = IF p.to = r THEN p.nextSN ELSE ba'.nextTransmissionSN[r]
      BY <1>10 DEF NextSN
    <2>3. r # Nobody
      BY ReceiversAssumption
    <2>4. ba.nextTransmissionSN \in [Receivers -> Nat]
      BY DEF DataInv, BaData
    <2> HIDE DEF q
    <2> QED
      BY <1>1, <1>10, <1>11, <2>1, <2>2, <2>3, <2>4
  <1>17. \A n \in MSDUs : ba.fate[n] \in {"queued", "confirmed", "dropped"} =>
            ba'.fate[n] \in {"queued", "confirmed", "dropped"}
    BY <1>10
  <1>18. Peers'
    <2> SUFFICES ASSUME NEW r \in Receivers PROVE \E h : Peer(r, h)'
      BY DEF Peers
    <2>1. PICK h : Peer(r, h)
      BY DEF DataInv, Peers
    <2>2. NextSN(r)' = NextSN(r)
      BY <1>16
    <2>3. Numbered(r, h)'
      <3>1. \A x \in 0..(NextSN(r) - 1) : h[x] \in MSDUs
        BY <2>1 DEF Peer, Numbers
      <3> QED
        BY <1>17, <2>1, <2>2, <3>1 DEF Peer, Numbered
    <2>4. ASSUME ba'.queue.to = r PROVE Pending(r, h)'
      <3>1. tx # <<>> /\ q.to = r
        BY <1>10, <1>11, <2>4, ReceiversAssumption
      <3>2. Pending(r, h)
        BY <2>1, <3>1 DEF Peer
      <3>3. \A e \in Frames(tx) : h[e.sn] = e.id /\ Passed(rxQueue[r], h, e.sn)
        BY <1>9, <3>2 DEF Pending, all
      <3>4. ASSUME NEW n \in rxQueue[r].rxSNs, n >= tx[1].sn
            PROVE  InWindow(tx, n)
        <4>1. S = {}
          BY <3>1, <3>4
        <4>2. sns = {}
          BY <4>1 DEF Matched
        <4>3. n \in Nat
          BY DEF DataInv, BaData, RxQueues
        <4>4. \A i, j \in 1..Len(q.onAir) : i < j => q.onAir[i].id < q.onAir[j].id
          <5> HIDE DEF q
          <5> QED
            BY <1>1, <1>3, <1>5, <1>6, IdsRise
        <4>5. Ascending(All(q))
          BY <1>1 DEF QueueData
        <4>6. tx = Requeue(q, {})
          BY <4>2 DEF tx
        <4>7. n >= all[1].sn /\ (InWindow(all, n) => InWindow(tx, n))
          <5> HIDE DEF q
          <5> QED
            BY <1>1, <3>1, <3>4, <4>3, <4>4, <4>5, <4>6, Unanswered DEF all, t
        <4>8. InWindow(all, n)
          BY <3>2, <4>7 DEF Pending, all
        <4> QED
          BY <4>7, <4>8
      <3>5. All(ba'.queue) = tx
        BY <1>10, <1>11
      <3> QED
        BY <3>3, <3>4, <3>5 DEF Pending
    <2>5. Peer(r, h)'
      BY <2>1, <2>2, <2>3, <2>4 DEF Peer
    <2> QED
      BY <2>5
  <1> QED
    BY <1>12, <1>13, <1>14, <1>15, <1>18 DEF DataInv

-----------------------------------------------------------------------------
(* Steps that leave the data alone or end the wait.                        *)

(* What the handlers do to the data.                                       *)
KeepsOrGivesUp(p, m) ==
    \/ Keeps(p, m)
    \/ /\ m.baState # "idle" \/ m.timer # "off"
       /\ \E n : /\ BaShape(n) /\ Keeps(n, m)
                 /\ Keeps(p, ProcessIncomingACKSNs(n, {}))

(* The handlers of the wait leave the data alone.                          *)
LEMMA HandlersKeep ==
    ASSUME NEW m, BaShape(m)
    PROVE  /\ Keeps(m, m)
           /\ Keeps(OnTxStart(m), m) /\ Keeps(OnRxStart(m), m)
           /\ Keeps(OnRxEnd(m), m)
           /\ SameQueue(OnTxEndOfBAreq(OnTxStart(m)), m)
           /\ OnTxEndOfBAreq(OnTxStart(m)).baState = "waitForACK"
           /\ BaShape(OnTxStart(m)) /\ BaShape(OnRxEnd(m))
  <1>1. Keeps(m, m) /\ Keeps(OnTxStart(m), m) /\ BaShape(OnTxStart(m))
    BY DEF BaShape, Keeps, SameQueue, OnTxStart
  <1>2. Keeps(OnRxStart(m), m)
    BY DEF BaShape, Keeps, SameQueue, OnRxStart
  <1>3. Keeps(OnRxEnd(m), m) /\ BaShape(OnRxEnd(m))
    BY DEF BaShape, Keeps, SameQueue, OnRxEnd
  <1>4. SameQueue(OnTxEndOfBAreq(OnTxStart(m)), m)
          /\ OnTxEndOfBAreq(OnTxStart(m)).baState = "waitForACK"
    BY DEF BaShape, SameQueue, OnTxStart, OnTxEndOfBAreq
  <1> QED
    BY <1>1, <1>2, <1>3, <1>4

(* Handlers may follow each other.                                         *)
LEMMA StillKeeps ==
    ASSUME NEW p, NEW m, KeepsOrGivesUp(p, m), NEW u, Keeps(u, p)
    PROVE  KeepsOrGivesUp(u, m)
  <1>1. \A v : Keeps(p, v) => Keeps(u, v)
    BY DEF Keeps, SameQueue
  <1> QED
    BY <1>1 DEF KeepsOrGivesUp

(* A failed reception, a timeout, and a frame that comes in between leave  *)
(* the data alone or end the wait without acknowledgement.                 *)
LEMMA ErrorKeeps ==
    ASSUME NEW m, BaShape(m)
    PROVE  KeepsOrGivesUp(OnRxError(m), m)
  <1> DEFINE n == [m EXCEPT !.baState = "waitForACK"]
  <1>1. BaShape(n) /\ SameQueue(n, m) /\ n.baState = "waitForACK"
    BY DEF BaShape, SameQueue
  <1> HIDE DEF n
  <1>2. CASE m.baState # "receiving"
    BY <1>2, HandlersKeep DEF OnRxError, KeepsOrGivesUp
  <1>3. CASE m.baState = "receiving" /\ m.timer # "off"
    BY <1>1, <1>3 DEF OnRxError, n, KeepsOrGivesUp, Keeps
  <1>4. CASE m.baState = "receiving" /\ m.timer = "off"
    <2>1. OnRxError(m) = ProcessIncomingACKSNs(n, {})
      BY <1>1, <1>4 DEF OnRxError, Timeout, n
    <2>2. Keeps(n, m) /\ Keeps(OnRxError(m), OnRxError(m))
      BY <1>1, <1>4 DEF Keeps, SameQueue
    <2> QED
      BY <1>1, <1>4, <2>1, <2>2 DEF KeepsOrGivesUp
  <1> QED
    BY <1>2, <1>3, <1>4

(* The timeout is such a step.                                             *)
LEMMA TimeoutKeeps ==
    ASSUME NEW m, BaShape(m), m.timer # "off"
    PROVE  KeepsOrGivesUp(Timeout(m), m)
  <1>1. CASE m.baState = "receiving"
    <2>1. Timeout(m) = [m EXCEPT !.timer = "off"]
      BY <1>1 DEF Timeout
    <2>2. Keeps(Timeout(m), m)
      BY <2>1 DEF BaShape, Keeps, SameQueue
    <2> QED
      BY <2>2 DEF KeepsOrGivesUp
  <1>2. CASE m.baState # "receiving"
    <2>1. Timeout(m) = ProcessIncomingACKSNs(m, {})
      BY <1>2 DEF Timeout
    <2>2. Keeps(m, m) /\ Keeps(Timeout(m), Timeout(m))
      BY DEF Keeps, SameQueue
    <2> QED
      BY <2>1, <2>2 DEF KeepsOrGivesUp
  <1> QED
    BY <1>1, <1>2

(* So is a frame that begins before the short timeout.                     *)
LEMMA InterruptedKeeps ==
    ASSUME Inv
    PROVE  /\ KeepsOrGivesUp(OnRxStart(Interrupted(ba)), ba)
           /\ KeepsOrGivesUp(OnTxStart(Interrupted(ba)), ba)
  <1> DEFINE m == Interrupted(ba)
  <1>1. BaShape(ba) /\ Consistent(ba.baState, ba.timer, ba.queue)
    BY DEF Inv, BaOK
  <1>2. BaShape(OnRxError(ba))
    BY <1>1, RxErrorOutcome DEF Has, Ended
  <1>3. BaShape(m) /\ KeepsOrGivesUp(m, ba)
    <2>1. m \in {ba, OnRxError(ba)}
      BY DEF Interrupted
    <2>2. KeepsOrGivesUp(ba, ba) /\ KeepsOrGivesUp(OnRxError(ba), ba)
      BY <1>1, HandlersKeep, ErrorKeeps DEF KeepsOrGivesUp
    <2> HIDE DEF m
    <2> QED
      BY <1>1, <1>2, <2>1, <2>2
  <1> HIDE DEF m
  <1>4. Keeps(OnRxStart(m), m) /\ Keeps(OnTxStart(m), m)
    BY <1>3, HandlersKeep
  <1> QED
    BY <1>3, <1>4, StillKeeps DEF m

(* The line stays right when neither it nor the queue changes.             *)
LEMMA SameLine == ASSUME DataInv, SameQueue(ba', ba), line' = line PROVE LineData'
  <1>1. ba'.queue = ba.queue
    BY DEF SameQueue
  <1> QED
    BY <1>1 DEF DataInv, LineData

(* All such steps preserve the data invariant.                             *)
LEMMA WaitData ==
    ASSUME Inv, DataInv, KeepsOrGivesUp(ba', ba),
           arrived' = arrived, expired' = expired, buffer' = buffer,
           rxQueue' = rxQueue, line' = line,
           reply'.phase # "none" =>
              /\ reply.phase # "none"
              /\ reply'.from = reply.from /\ reply'.ackSNs = reply.ackSNs
    PROVE  DataInv'
  <1>1. CASE Keeps(ba', ba)
    <2>1. SameQueue(ba', ba) /\ (ba.baState = "idle" => ba'.baState = "idle")
      BY <1>1 DEF Keeps
    <2>2. expired' \in 0..arrived
      BY DEF DataInv, SourceData
    <2>3. LineData'
      BY <2>1, SameLine
    <2> QED
      BY <2>1, <2>2, <2>3, DataSame
  <1>2. CASE ~Keeps(ba', ba)
    <2>1. ba.baState # "idle" \/ ba.timer # "off"
      BY <1>2 DEF KeepsOrGivesUp
    <2>2. PICK n : /\ BaShape(n) /\ Keeps(n, ba)
                   /\ Keeps(ba', ProcessIncomingACKSNs(n, {}))
      BY <1>2 DEF KeepsOrGivesUp
    <2>3. line = <<>> /\ ba.queue.onAir # <<>>
      BY <2>1 DEF Inv, LineOK, BaOK, Consistent, QueueOK
    <2> QED
      BY <2>2, <2>3, ReportData
  <1> QED
    BY <1>1, <1>2

-----------------------------------------------------------------------------
(* The steps of a wait.                                                    *)
LEMMA ExpireData == Inv /\ DataInv /\ Expire => DataInv'
  <1> SUFFICES ASSUME Inv, DataInv, Expire PROVE DataInv'
    OBVIOUS
  <1>1. SameQueue(ba', ba) /\ line' = line
    BY DEF Expire, SameQueue
  <1>2. expired' \in 0..arrived
    BY DEF Expire, DataInv, SourceData
  <1>3. LineData'
    BY <1>1, SameLine
  <1> QED
    BY <1>1, <1>2, <1>3, DataSame DEF Expire

(* The steps in which only the wait goes on or ends.                       *)
LEMMA WaitStepsData ==
    ASSUME Inv, DataInv, NEW outcome, NEW ok, NEW heard,
           \/ OnTimeout \/ OwnReply \/ ForeignStarts \/ ForeignEnds(ok)
           \/ ReplyStarts(heard)
           \/ ReplyEnds(outcome) /\ ~(rx = "BA" /\ outcome = "delivered")
    PROVE  DataInv'
  <1>1. BaShape(ba)
    BY DEF Inv, BaOK
  <1>2. \A p : Keeps(p, ba) => KeepsOrGivesUp(p, ba)
    BY DEF KeepsOrGivesUp
  <1>3. /\ KeepsOrGivesUp(ba, ba)
        /\ KeepsOrGivesUp(OnRxEnd(ba), ba)
        /\ KeepsOrGivesUp(OnRxError(ba), ba)
    BY <1>1, <1>2, HandlersKeep, ErrorKeeps
  <1>4. CASE OnTimeout
    <2>1. KeepsOrGivesUp(ba', ba)
      BY <1>1, <1>4, TimeoutKeeps DEF OnTimeout
    <2> QED
      BY <1>4, <2>1, WaitData DEF OnTimeout, source
  <1>5. CASE OwnReply
    <2>1. KeepsOrGivesUp(ba', ba)
      BY <1>5, InterruptedKeeps DEF OwnReply
    <2> QED
      BY <1>5, <2>1, WaitData DEF OwnReply, source
  <1>6. CASE ForeignStarts
    <2>1. KeepsOrGivesUp(ba', ba)
      BY <1>6, InterruptedKeeps DEF ForeignStarts
    <2> QED
      BY <1>6, <2>1, WaitData DEF ForeignStarts, source
  <1>7. CASE ForeignEnds(ok)
    <2>1. KeepsOrGivesUp(ba', ba)
      BY <1>3, <1>7 DEF ForeignEnds
    <2> QED
      BY <1>7, <2>1, WaitData DEF ForeignEnds, source
  <1>8. DOMAIN reply = {"from", "ackSNs", "phase"}
    BY DEF Inv, Flags
  <1>9. CASE ReplyStarts(heard)
    <2>1. KeepsOrGivesUp(ba', ba)
      BY <1>3, <1>9, InterruptedKeeps DEF ReplyStarts
    <2>2. reply' = [reply EXCEPT !.phase = "air"] /\ reply.phase = "sifs"
      BY <1>9 DEF ReplyStarts
    <2>3. reply'.from = reply.from /\ reply'.ackSNs = reply.ackSNs
      BY <1>8, <2>2
    <2> QED
      BY <1>9, <2>1, <2>2, <2>3, WaitData DEF ReplyStarts, source
  <1>10. CASE ReplyEnds(outcome) /\ ~(rx = "BA" /\ outcome = "delivered")
    <2>1. KeepsOrGivesUp(ba', ba)
      BY <1>3, <1>10 DEF ReplyEnds
    <2>2. reply'.phase = "none"
      BY <1>10 DEF ReplyEnds, NoReply
    <2> QED
      BY <1>10, <2>1, <2>2, WaitData DEF ReplyEnds, source
  <1> QED
    BY <1>4, <1>5, <1>6, <1>7, <1>9, <1>10

(* The acknowledgement is delivered.                                       *)
LEMMA DeliveredData ==
    ASSUME Inv, DataInv, ReplyEnds("delivered"), rx = "BA"
    PROVE  DataInv'
  <1> DEFINE m == OnRxEnd(ba)
  <1>1. BaShape(ba) /\ BaShape(m) /\ Keeps(m, ba)
    BY HandlersKeep DEF Inv, BaOK
  <1>2. /\ ba' = IF Expected(m, reply.from)
                 THEN ProcessIncomingACKSNs(m, reply.ackSNs) ELSE m
        /\ arrived' = arrived /\ expired' = expired /\ buffer' = buffer
        /\ rxQueue' = rxQueue /\ line' = line /\ reply'.phase = "none"
        /\ reply.phase = "air"
    BY DEF ReplyEnds, ReplyDelivered, NoReply, source
  <1>3. CASE ~Expected(m, reply.from)
    <2>1. KeepsOrGivesUp(ba', ba)
      BY <1>1, <1>2, <1>3 DEF KeepsOrGivesUp
    <2> HIDE DEF m
    <2> QED
      BY <1>2, <2>1, WaitData
  <1>4. CASE Expected(m, reply.from)
    <2>1. /\ m.queue = ba.queue /\ m.baState # "idle"
          /\ m.queue.to = reply.from /\ m.queue.onAir # <<>>
      BY <1>1, <1>4 DEF Expected, Keeps, SameQueue
    <2>2. ba.baState # "idle"
      BY <1>1, <2>1 DEF Keeps
    <2>3. line = <<>>
      BY <2>2 DEF Inv, LineOK
    <2>4. /\ rxQueue[reply.from].rxSNs = {}
          /\ \A e \in Frames(ba.queue.onAir) :
                e.sn \in reply.ackSNs => Got(rxQueue[reply.from], e.id)
      BY <1>2, <2>2 DEF DataInv, ReplyData
    <2>5. ba' = ProcessIncomingACKSNs(m, reply.ackSNs) /\ Keeps(ba', ba')
      BY <1>2, <1>4 DEF Keeps, SameQueue
    <2> HIDE DEF m
    <2> QED
      BY <1>1, <1>2, <2>1, <2>3, <2>4, <2>5, ReportData
  <1> QED
    BY <1>3, <1>4

(* The units below give up the request.                                    *)
LEMMA FailedData == Inv /\ DataInv /\ OnTransmissionHasFailed => DataInv'
  <1> SUFFICES ASSUME Inv, DataInv, OnTransmissionHasFailed PROVE DataInv'
    OBVIOUS
  <1> DEFINE m == OnTxStart(ba)
  <1>1. BaShape(ba) /\ BaShape(m) /\ Keeps(m, ba)
    BY HandlersKeep DEF Inv, BaOK
  <1>2. line # <<>> /\ Last(line).kind = "BAREQ" /\ IsSeq(line)
    BY DEF OnTransmissionHasFailed, Inv, LineOK
  <1>3. Len(line) \in Requests(line)
    <2>1. PICK T : line \in Seq(T)
      BY <1>2 DEF IsSeq
    <2>2. Len(line) \in 1..Len(line)
      <3>1. Len(line) \in Nat /\ Len(line) # 0
        BY <1>2, <2>1, LenProperties, EmptySeq
      <3> QED
        BY <3>1
    <2> QED
      BY <1>2, <2>2 DEF Requests, Last
  <1>4. ba.queue.onAir # <<>>
    BY <1>3 DEF Inv, LineOK, BaOK, Consistent, QueueOK
  <1>5. ba' = ProcessIncomingACKSNs(m, {}) /\ Keeps(ba', ba')
    BY DEF OnTransmissionHasFailed, Keeps, SameQueue
  <1> HIDE DEF m
  <1>6. /\ arrived' = arrived /\ expired' = expired /\ buffer' = buffer
        /\ rxQueue' = rxQueue /\ line' = <<>> /\ reply' = reply
    BY DEF OnTransmissionHasFailed, source
  <1> QED
    BY <1>1, <1>4, <1>5, <1>6, ReportData

-----------------------------------------------------------------------------
(* Frames that reach the receiver.                                         *)

(* The receiver that is sent to.                                           *)
RxStep(r, g, p) ==
    /\ RxData(p, g, NextSN(r))
    /\ \A n \in MSDUs : Got(rxQueue[r], n) => Got(p, n)
    /\ \A e \in Frames(All(ba.queue)) : Passed(p, g, e.sn)
    /\ \A s \in p.rxSNs : s >= All(ba.queue)[1].sn => InWindow(All(ba.queue), s)

(* A change of the receiver that is sent to.                               *)
LEMMA RxChange ==
    ASSUME DataInv, SameQueue(ba', ba), UNCHANGED <<arrived, expired, buffer>>,
           NEW r, r = ba.queue.to, r \in Receivers,
           NEW p \in RxQueues, rxQueue' = [rxQueue EXCEPT ![r] = p],
           \A g : Peer(r, g) => RxStep(r, g, p),
           LineData', ReplyData'
    PROVE  DataInv'
  <1>1. /\ ba'.queue = ba.queue /\ ba'.fate = ba.fate
        /\ ba'.nextTransmissionSN = ba.nextTransmissionSN
    BY DEF SameQueue
  <1>2. SourceData'
    BY DEF DataInv, SourceData
  <1>3. /\ rxQueue \in [Receivers -> RxQueues]
        /\ rxQueue' \in [Receivers -> RxQueues]
        /\ rxQueue'[r] = p
        /\ \A u \in Receivers : u # r => rxQueue'[u] = rxQueue[u]
    BY DEF DataInv, BaData
  <1>4. PICK g : Peer(r, g)
    BY DEF DataInv, Peers
  <1>5. RxStep(r, g, p)
    BY <1>4
  <1>6. BaData'
    <2>1. \A n \in MSDUs : ba.fate[n] = "confirmed" => Got(rxQueue'[To[n]], n)
      <3> SUFFICES ASSUME NEW n \in MSDUs, ba.fate[n] = "confirmed"
                   PROVE  Got(rxQueue'[To[n]], n)
        OBVIOUS
      <3>1. Got(rxQueue[To[n]], n) /\ To[n] \in Receivers
        BY LoadAssumption DEF DataInv, BaData
      <3>2. CASE To[n] = r
        BY <1>3, <1>5, <3>1, <3>2 DEF RxStep
      <3>3. CASE To[n] # r
        BY <1>3, <3>1, <3>3
      <3> QED
        BY <3>2, <3>3
    <2> QED
      BY <1>1, <1>3, <2>1 DEF DataInv, BaData
  <1>7. Peers'
    <2> SUFFICES ASSUME NEW u \in Receivers PROVE \E h : Peer(u, h)'
      BY DEF Peers
    <2>1. PICK h : Peer(u, h)
      BY DEF DataInv, Peers
    <2>2. NextSN(u)' = NextSN(u)
      BY <1>1 DEF NextSN
    <2>3. Numbered(u, h)'
      BY <1>1, <2>1, <2>2 DEF Peer, Numbered
    <2>4. RxData(rxQueue[u], h, NextSN(u))'
      <3>1. CASE u = r
        BY <1>3, <2>1, <2>2, <3>1 DEF RxStep
      <3>2. CASE u # r
        BY <1>3, <2>1, <2>2, <3>2 DEF Peer
      <3> QED
        BY <3>1, <3>2
    <2>5. ASSUME ba'.queue.to = u PROVE Pending(u, h)'
      <3>1. u = r /\ Pending(u, h) /\ RxStep(u, h, p)
        BY <1>1, <2>1, <2>5 DEF Peer
      <3>2. All(ba'.queue) = All(ba.queue)
        BY <1>1
      <3> QED
        BY <1>3, <3>1, <3>2 DEF Pending, RxStep
    <2>6. Peer(u, h)'
      BY <2>1, <2>2, <2>3, <2>4, <2>5 DEF Peer
    <2> QED
      BY <2>6
  <1> QED
    BY <1>2, <1>6, <1>7 DEF DataInv

(* The queue that sends, and what its numbers stand for.                   *)
LEMMA SenderFacts ==
    ASSUME DataInv, ba.queue.onAir # <<>>, NEW g, Peer(ba.queue.to, g)
    PROVE  LET q == ba.queue  N == q.nextSN
           IN  /\ q # NoQueue /\ q.to \in Receivers /\ QueueData(q)
               /\ N = NextSN(q.to) /\ Numbers(g, N)
               /\ RxData(rxQueue[q.to], g, N) /\ Pending(q.to, g)
               /\ q.onAir \in Seq(Entries)
               /\ Frames(q.onAir) \subseteq Frames(All(q))
               /\ All(q)[1] = q.onAir[1] /\ q.onAir[1] \in Frames(q.onAir)
               /\ \A e \in Frames(All(q)) :
                     /\ e \in Entries /\ e.sn \in 0..(N - 1) /\ e.id = g[e.sn]
                     /\ e.sn >= q.onAir[1].sn
  <1> DEFINE q == ba.queue  N == q.nextSN  s == q.onAir  t == q.txQueue
  <1>1. QueueData(q) /\ q # NoQueue /\ q.to \in Receivers
          /\ s \in Seq(Entries) /\ t \in Seq(Entries) /\ Ascending(All(q))
    BY DEF DataInv, BaData, QueueData, NoQueue
  <1>2. N = NextSN(q.to) /\ Numbers(g, N)
          /\ RxData(rxQueue[q.to], g, N) /\ Pending(q.to, g)
    BY DEF Peer, NextSN
  <1>3. \A e \in Frames(All(q)) : g[e.sn] = e.id
    BY <1>2 DEF Pending
  <1> HIDE DEF q, N
  <1>4. /\ All(q) \in Seq(Entries)
        /\ Frames(All(q)) = Frames(s) \cup Frames(t)
        /\ \A e \in Frames(All(q)) :
              e \in Entries /\ e.sn \in 0..(N - 1) /\ e.id = g[e.sn]
    <2>1. q.nextSN = N
      BY DEF N, q
    <2> QED
      BY <1>1, <1>2, <1>3, <2>1, QueueFacts
  <1>5. Len(s) \in Nat /\ 1 \in 1..Len(s)
    <2>1. s # <<>>
      BY DEF q
    <2>2. Len(s) \in Nat /\ Len(s) # 0
      BY <1>1, <2>1, LenProperties, EmptySeq
    <2> QED
      BY <2>2
  <1>6. All(q)[1] = s[1] /\ s[1] \in Frames(s)
    <2>1. (s \o t)[1] = s[1]
      BY <1>1, <1>5, ConcatPrefix
    <2> QED
      BY <1>5, <2>1 DEF All, Frames
  <1>7. \A e \in Frames(All(q)) : e.sn >= s[1].sn
    <2> TAKE e \in Frames(All(q))
    <2>1. PICK i \in 1..Len(All(q)) : e = All(q)[i]
      BY DEF Frames
    <2>2. Len(All(q)) \in Nat
      BY <1>4, LenProperties
    <2>3. 1 \in 1..Len(All(q)) /\ (i = 1 \/ 1 < i)
      BY <2>1, <2>2
    <2>4. i = 1 \/ s[1].sn < e.sn
      BY <1>1, <1>6, <2>1, <2>3 DEF Ascending
    <2>5. e.sn \in Int /\ s[1].sn \in Int
      <3>1. e \in Entries /\ s[1] \in Entries
        BY <1>4, <1>6
      <3> QED
        BY <3>1 DEF Entries
    <2>6. i = 1 => e.sn = s[1].sn
      BY <1>6, <2>1
    <2> QED
      BY <2>4, <2>5, <2>6
  <1> QED
    BY <1>1, <1>2, <1>4, <1>6, <1>7 DEF q, N

(* The frame that is sent is right, and so is the rest of the line.        *)
LEMMA TransmitLine ==
    ASSUME Inv, DataInv, line # <<>>, line' = Tail(line), SameQueue(ba', ba)
    PROVE  /\ InLine(Head(line), ba.queue.onAir) /\ LineData'
           /\ ba.queue.onAir # <<>> /\ BaShape(ba)
           /\ Head(line).kind = "BAREQ" => ba.queue.waitForACK
  <1>1. PICK T : line \in Seq(T)
    BY DEF Inv, LineOK, IsSeq
  <1>2. /\ Len(line') = Len(line) - 1 /\ Head(line) = line[1]
        /\ \A i \in 1..Len(line') : line'[i] = line[i + 1]
    BY <1>1, HeadTailProperties
  <1>3. Len(line) \in Nat \ {0}
    BY <1>1, EmptySeq
  <1>4. ba'.queue = ba.queue
    BY DEF SameQueue
  <1>5. InLine(Head(line), ba.queue.onAir)
    <2>1. 1 \in 1..Len(line)
      BY <1>3
    <2> QED
      BY <1>2, <2>1 DEF DataInv, LineData
  <1>6. LineData'
    <2>1. \A i \in 1..Len(line') : i + 1 \in 1..Len(line)
      BY <1>2, <1>3
    <2> QED
      BY <1>2, <1>4, <2>1 DEF DataInv, LineData
  <1>7. ba.queue.onAir # <<>>
    <2>1. CASE Frames(ba.queue.onAir) # {}
      <3>1. PICK i \in 1..Len(ba.queue.onAir) : TRUE
        BY <2>1 DEF Frames
      <3>2. Len(<<>>) = 0
        BY EmptySeq
      <3> QED
        BY <3>1, <3>2
    <2>2. CASE Frames(ba.queue.onAir) = {}
      BY <1>5, <2>2 DEF InLine
    <2> QED
      BY <2>1, <2>2
  <1>8. Head(line).kind = "BAREQ" => ba.queue.waitForACK
    <2>1. Head(line).kind = "BAREQ" => 1 \in Requests(line)
      BY <1>2, <1>3 DEF Requests
    <2> QED
      BY <2>1 DEF Inv, LineOK
  <1>9. BaShape(ba)
    BY DEF Inv, BaOK
  <1> QED
    BY <1>5, <1>6, <1>7, <1>8, <1>9

(* A data frame is received or lost.                                       *)
LEMMA TransmitIdata ==
    ASSUME Inv, DataInv, NEW ok, Transmit(ok), TransmitData(ok)
    PROVE  DataInv'
  <1> DEFINE q == ba.queue  r == q.to  f == Head(line)  N == q.nextSN
             old == rxQueue[r]  p == ProcessIncomingData(old, f)
  <1>1. /\ arrived' = arrived /\ expired' = expired /\ buffer' = buffer
        /\ line # <<>> /\ line' = Tail(line) /\ ba' = OnTxStart(ba)
        /\ reply' = reply /\ reply.phase = "none" /\ f.kind = "I"
        /\ rxQueue' = IF ok THEN [rxQueue EXCEPT ![r] = p] ELSE rxQueue
    BY DEF Transmit, TransmitData, NoReply, source
  <1>2. SameQueue(ba', ba)
    BY <1>1, HandlersKeep DEF Inv, BaOK, Keeps
  <1>3. InLine(f, q.onAir) /\ LineData' /\ q.onAir # <<>>
    BY <1>1, <1>2, TransmitLine
  <1>4. expired' \in 0..arrived
    BY <1>1 DEF DataInv, SourceData
  <1>5. CASE ~ok
    <2>1. rxQueue' = rxQueue /\ reply'.phase = "none"
      BY <1>1, <1>5
    <2> QED
      BY <1>1, <1>2, <1>3, <1>4, <2>1, DataSame
  <1>6. CASE ok
    <2>1. PICK e \in Frames(q.onAir) : f.id = e.id /\ f.sn = e.sn
      BY <1>1, <1>3 DEF InLine
    <2>2. ASSUME NEW g, Peer(r, g) PROVE RxStep(r, g, p)
      <3>1. /\ r \in Receivers /\ QueueData(q) /\ N = NextSN(r) /\ Numbers(g, N)
            /\ RxData(old, g, N) /\ Pending(r, g)
            /\ Frames(q.onAir) \subseteq Frames(All(q))
            /\ \A d \in Frames(All(q)) :
                  d \in Entries /\ d.sn \in 0..(N - 1) /\ d.id = g[d.sn]
        BY <1>3, <2>2, SenderFacts
      <3>2. f.sn \in 0..(N - 1) /\ f.id = g[f.sn] /\ Passed(old, g, f.sn)
        BY <2>1, <3>1 DEF Pending
      <3> HIDE DEF f, old
      <3>3. /\ RxData(p, g, N) /\ p.rxSNs = old.rxSNs \cup {f.sn}
            /\ \A n \in MSDUs : Got(old, n) => Got(p, n)
            /\ \A x \in 0..(N - 1) : Passed(old, g, x) => Passed(p, g, x)
        BY <3>1, <3>2, IncomingData
      <3> HIDE DEF p, N
      <3>4. \A d \in Frames(All(q)) : Passed(p, g, d.sn)
        <4>1. \A d \in Frames(All(q)) : Passed(old, g, d.sn)
          BY <3>1 DEF Pending, old
        <4> QED
          BY <3>1, <3>3, <4>1
      <3>5. \A s \in p.rxSNs : s >= All(q)[1].sn => InWindow(All(q), s)
        <4>1. InWindow(All(q), f.sn)
          <5>1. InWindow(All(q), e.sn)
            BY <2>1, <3>1, OnAirInWindow
          <5> QED
            BY <2>1, <5>1
        <4>2. \A s \in old.rxSNs : s >= All(q)[1].sn => InWindow(All(q), s)
          BY <3>1 DEF Pending, old
        <4> QED
          BY <3>3, <4>1, <4>2
      <3> QED
        BY <3>1, <3>3, <3>4, <3>5 DEF RxStep, old
    <2>3. r \in Receivers
      BY <1>3 DEF DataInv, BaData, QueueData, NoQueue
    <2>4. PICK g : Peer(r, g)
      BY <2>3 DEF DataInv, Peers
    <2>5. p \in RxQueues
      BY <2>2, <2>4 DEF RxStep, RxData, RxLoose
    <2>6. ReplyData'
      BY <1>1 DEF ReplyData
    <2> HIDE DEF p
    <2> QED
      BY <1>1, <1>2, <1>3, <1>6, <2>2, <2>3, <2>5, <2>6, RxChange
  <1> QED
    BY <1>5, <1>6

(* A request is received or lost.                                          *)
LEMMA TransmitRequest ==
    ASSUME Inv, DataInv, NEW ok, Transmit(ok), TransmitBAreq(ok)
    PROVE  DataInv'
  <1> DEFINE q == ba.queue  r == q.to  f == Head(line)  N == q.nextSN
             old == rxQueue[r]  p == ProcessIncomingACKreq(old, f)
             acks == AckSNs(old, f.sn)
  <1>1. /\ arrived' = arrived /\ expired' = expired /\ buffer' = buffer
        /\ line # <<>> /\ line' = Tail(line)
        /\ ba' = OnTxEndOfBAreq(OnTxStart(ba))
        /\ reply.phase = "none" /\ f.kind = "BAREQ"
        /\ IF ok THEN /\ rxQueue' = [rxQueue EXCEPT ![r] = p]
                      /\ reply' = [from |-> r, ackSNs |-> acks, phase |-> "sifs"]
                 ELSE rxQueue' = rxQueue /\ reply' = reply
    BY DEF Transmit, TransmitBAreq, NoReply, source
  <1>2. SameQueue(ba', ba)
    BY <1>1, HandlersKeep DEF Inv, BaOK
  <1>3. InLine(f, q.onAir) /\ LineData' /\ q.onAir # <<>> /\ q.waitForACK
    BY <1>1, <1>2, TransmitLine
  <1>4. expired' \in 0..arrived
    BY <1>1 DEF DataInv, SourceData
  <1>5. CASE ~ok
    <2>1. rxQueue' = rxQueue /\ reply'.phase = "none"
      BY <1>1, <1>5
    <2> QED
      BY <1>1, <1>2, <1>3, <1>4, <2>1, DataSame
  <1>6. CASE ok
    <2>1. f.id = 0 /\ f.sn = q.onAir[1].sn
      BY <1>1, <1>3 DEF InLine
    <2>2. ASSUME NEW g, Peer(r, g)
          PROVE  /\ RxStep(r, g, p) /\ p.rxSNs = {}
                 /\ acks \subseteq SNs(q.onAir)
                 /\ \A e \in Frames(q.onAir) : e.sn \in acks => Got(p, e.id)
      <3>1. /\ r \in Receivers /\ QueueData(q) /\ N = NextSN(r) /\ Numbers(g, N)
            /\ RxData(old, g, N) /\ Pending(r, g)
            /\ Frames(q.onAir) \subseteq Frames(All(q))
            /\ All(q)[1] = q.onAir[1] /\ q.onAir[1] \in Frames(q.onAir)
            /\ \A d \in Frames(All(q)) :
                  /\ d \in Entries /\ d.sn \in 0..(N - 1) /\ d.id = g[d.sn]
                  /\ d.sn >= q.onAir[1].sn
        BY <1>3, <2>2, SenderFacts
      <3>2. f.sn \in 0..(N - 1) /\ All(q)[1].sn = f.sn
        BY <2>1, <3>1
      <3> HIDE DEF f, old
      <3>3. /\ RxData(p, g, N) /\ p.rxSNs = {}
            /\ \A n \in MSDUs : Got(old, n) => Got(p, n)
            /\ \A x \in 0..(N - 1) : x >= f.sn =>
                  (Passed(old, g, x) => Passed(p, g, x))
        BY <2>1, <3>1, <3>2, IncomingACKreq
      <3> HIDE DEF p, N
      <3>4. \A d \in Frames(All(q)) : Passed(p, g, d.sn)
        <4>1. \A d \in Frames(All(q)) : Passed(old, g, d.sn)
          BY <3>1 DEF Pending, old
        <4> QED
          BY <2>1, <3>1, <3>3, <4>1
      <3>5. RxStep(r, g, p)
        BY <3>1, <3>3, <3>4 DEF RxStep, old
      <3>6. ASSUME NEW s \in acks PROVE s \in SNs(q.onAir) /\ s \in old.rxSNs
        <4>1. s \in old.rxSNs /\ s >= All(q)[1].sn
          BY <3>2, <3>6 DEF AckSNs
        <4>2. InWindow(All(q), s)
          BY <3>1, <4>1 DEF Pending, old
        <4>3. ~Fits(q)
          BY <1>3, <3>1 DEF QueueData
        <4> QED
          BY <3>1, <4>1, <4>2, <4>3, WindowOnAir
      <3>7. ASSUME NEW e \in Frames(q.onAir), e.sn \in acks PROVE Got(p, e.id)
        <4>1. Got(old, g[e.sn])
          BY <3>1, <3>6, <3>7 DEF RxData, RxLoose
        <4>2. g[e.sn] = e.id /\ e.id \in MSDUs
          BY <3>1 DEF Entries
        <4> QED
          BY <3>3, <4>1, <4>2
      <3> QED
        BY <3>3, <3>5, <3>6, <3>7
    <2>3. r \in Receivers
      BY <1>3 DEF DataInv, BaData, QueueData, NoQueue
    <2>4. PICK g : Peer(r, g)
      BY <2>3 DEF DataInv, Peers
    <2>5. /\ p \in RxQueues /\ p.rxSNs = {} /\ acks \subseteq SNs(q.onAir)
          /\ \A e \in Frames(q.onAir) : e.sn \in acks => Got(p, e.id)
      BY <2>2, <2>4 DEF RxStep, RxData, RxLoose
    <2>6. ReplyData'
      <3>1. reply'.from = r /\ reply'.ackSNs = acks /\ rxQueue' = [rxQueue EXCEPT ![r] = p]
        BY <1>1, <1>6
      <3>2. rxQueue'[r] = p
        BY <2>3, <3>1 DEF DataInv, BaData
      <3>3. ba'.queue = q
        BY <1>2 DEF SameQueue
      <3> HIDE DEF p, acks, q
      <3> QED
        BY <2>3, <2>5, <3>1, <3>2, <3>3 DEF ReplyData
    <2>7. rxQueue' = [rxQueue EXCEPT ![r] = p]
      BY <1>1, <1>6
    <2>8. \A gg : Peer(r, gg) => RxStep(r, gg, p)
      BY <2>2
    <2> HIDE DEF p
    <2> QED
      BY <1>1, <1>2, <1>3, <2>3, <2>5, <2>6, <2>7, <2>8, RxChange
  <1> QED
    BY <1>5, <1>6

-----------------------------------------------------------------------------
(* Frames that move to the air, and MSDUs that arrive.                     *)

(* Frames move within the queue.                                           *)
LEMMA QueueChange ==
    ASSUME DataInv, UNCHANGED <<arrived, expired, buffer, rxQueue>>,
           ba'.fate = ba.fate, ba'.nextTransmissionSN = ba.nextTransmissionSN,
           NEW p, ba'.queue = p, QueueData(p),
           p.to = ba.queue.to, p.nextSN = ba.queue.nextSN,
           All(p) = All(ba.queue),
           LineData', ReplyData'
    PROVE  DataInv'
  <1>1. SourceData'
    BY DEF DataInv, SourceData
  <1>2. BaData'
    BY DEF DataInv, BaData
  <1>3. Peers'
    <2> SUFFICES ASSUME NEW r \in Receivers PROVE \E g : Peer(r, g)'
      BY DEF Peers
    <2>1. PICK g : Peer(r, g)
      BY DEF DataInv, Peers
    <2>2. NextSN(r)' = NextSN(r)
      BY DEF NextSN
    <2>3. Numbered(r, g)'
      BY <2>1, <2>2 DEF Peer, Numbered
    <2>4. ASSUME ba'.queue.to = r PROVE Pending(r, g)'
      <3>1. Pending(r, g) /\ All(ba'.queue) = All(ba.queue)
        BY <2>1, <2>4 DEF Peer
      <3> QED
        BY <3>1 DEF Pending
    <2>5. Peer(r, g)'
      BY <2>1, <2>2, <2>3, <2>4 DEF Peer
    <2> QED
      BY <2>5
  <1> QED
    BY <1>1, <1>2, <1>3 DEF DataInv

(* A frame is added to the line.                                           *)
LEMMA LineGrows ==
    ASSUME Inv, DataInv, NEW f, line' = Append(line, f),
           InLine(f, ba'.queue.onAir),
           \A i \in 1..Len(line) : InLine(line[i], ba'.queue.onAir)
    PROVE  LineData'
  <1>1. PICK T : line \in Seq(T)
    BY DEF Inv, LineOK, IsSeq
  <1>2. line \in Seq(T \cup {f}) /\ f \in T \cup {f}
    BY <1>1, SeqMonotonic
  <1>3. /\ Len(line') = Len(line) + 1 /\ Len(line) \in Nat
        /\ \A i \in 1..Len(line) : line'[i] = line[i]
        /\ line'[Len(line) + 1] = f
    BY <1>2, AppendProperties, LenProperties
  <1> SUFFICES ASSUME NEW i \in 1..Len(line')
               PROVE  InLine(line'[i], ba'.queue.onAir)
    BY DEF LineData
  <1>4. i \in 1..Len(line) \/ i = Len(line) + 1
    BY <1>3
  <1> QED
    BY <1>3, <1>4

(* The first queued entry becomes the last on air.                         *)
LEMMA MoveFrame ==
    ASSUME NEW s \in Seq(Entries), NEW t \in Seq(Entries), t # <<>>
    PROVE  LET e == Head(t)  v == Append(s, e)  u == Tail(t)
           IN  /\ e \in Entries /\ v \in Seq(Entries) /\ u \in Seq(Entries)
               /\ v \o u = s \o t
               /\ Frames(s) \subseteq Frames(v) /\ e \in Frames(v)
               /\ s # <<>> => v[1] = s[1]
  <1> DEFINE e == Head(t)  v == Append(s, e)  u == Tail(t)  c == v \o u  d == s \o t
  <1>1. Len(s) \in Nat /\ Len(t) \in Nat /\ Len(t) >= 1
    <2>1. Len(s) \in Nat /\ Len(t) \in Nat /\ Len(t) # 0
      BY LenProperties, EmptySeq
    <2> QED
      BY <2>1
  <1>2. /\ e \in Entries /\ e = t[1]
        /\ u \in Seq(Entries) /\ Len(u) = Len(t) - 1
        /\ \A i \in 1..Len(u) : u[i] = t[i + 1]
    BY HeadTailProperties
  <1> HIDE DEF e, u
  <1>3. /\ v \in Seq(Entries) /\ Len(v) = Len(s) + 1
        /\ \A i \in 1..Len(s) : v[i] = s[i]
        /\ v[Len(s) + 1] = e
    BY <1>2, AppendProperties
  <1> HIDE DEF v
  <1>4. /\ c \in Seq(Entries) /\ Len(c) = Len(v) + Len(u)
        /\ \A i \in 1..(Len(v) + Len(u)) :
              c[i] = IF i <= Len(v) THEN v[i] ELSE u[i - Len(v)]
    BY <1>2, <1>3, ConcatProperties
  <1>5. /\ d \in Seq(Entries) /\ Len(d) = Len(s) + Len(t)
        /\ \A i \in 1..(Len(s) + Len(t)) :
              d[i] = IF i <= Len(s) THEN s[i] ELSE t[i - Len(s)]
    BY ConcatProperties
  <1> HIDE DEF c, d
  <1>6. Len(c) = Len(d)
    BY <1>1, <1>2, <1>3, <1>4, <1>5
  <1>7. \A i \in 1..Len(c) : c[i] = d[i]
    <2> TAKE i \in 1..Len(c)
    <2>4. i \in 1..(Len(v) + Len(u)) /\ i \in 1..(Len(s) + Len(t))
      BY <1>4, <1>5, <1>6
    <2>1. CASE i <= Len(s)
      <3>1. i \in 1..Len(s) /\ i <= Len(v)
        BY <1>1, <1>3, <2>1, <2>4
      <3>2. c[i] = v[i] /\ d[i] = s[i]
        BY <1>4, <1>5, <2>1, <2>4, <3>1
      <3> QED
        BY <1>3, <3>1, <3>2
    <2>2. CASE i = Len(s) + 1
      <3>1. i <= Len(v) /\ ~(i <= Len(s)) /\ i - Len(s) = 1
        BY <1>1, <1>3, <2>2
      <3>2. c[i] = v[i] /\ d[i] = t[i - Len(s)]
        BY <1>4, <1>5, <2>4, <3>1
      <3> QED
        BY <1>2, <1>3, <2>2, <3>1, <3>2
    <2>3. CASE i > Len(s) + 1
      <3>1. /\ ~(i <= Len(v)) /\ ~(i <= Len(s))
            /\ i - Len(v) \in 1..Len(u) /\ (i - Len(v)) + 1 = i - Len(s)
        BY <1>1, <1>2, <1>3, <1>4, <2>3
      <3>2. c[i] = u[i - Len(v)] /\ d[i] = t[i - Len(s)]
        BY <1>1, <1>2, <1>3, <1>4, <1>5, <3>1
      <3> QED
        BY <1>2, <3>1, <3>2
    <2> QED
      BY <1>1, <2>1, <2>2, <2>3
  <1>8. c = d
    BY <1>4, <1>5, <1>6, <1>7, SeqEqual
  <1>9. Frames(s) \subseteq Frames(v) /\ e \in Frames(v)
    <2>1. 1..Len(s) \subseteq 1..Len(v) /\ Len(s) + 1 \in 1..Len(v)
      BY <1>1, <1>3
    <2> QED
      BY <1>3, <2>1 DEF Frames
  <1>10. s # <<>> => v[1] = s[1]
    <2>1. s # <<>> => 1 \in 1..Len(s)
      <3>1. s # <<>> => Len(s) # 0
        BY EmptySeq
      <3> QED
        BY <1>1, <3>1
    <2> QED
      BY <1>3, <2>1
  <1> QED
    BY <1>2, <1>3, <1>8, <1>9, <1>10 DEF c, d, e, u, v

(* A frame is handed to the units below.                                   *)
LEMMA SendData ==
    ASSUME Inv, DataInv, NEW held, SendDown(held)
    PROVE  DataInv'
  <1> DEFINE q == ba.queue  s == q.onAir  t == q.txQueue
  <1>1. /\ q # NoQueue /\ ~q.waitForACK
        /\ arrived' = arrived /\ expired' = expired /\ buffer' = buffer
        /\ rxQueue' = rxQueue /\ reply' = reply
    BY DEF SendDown, HasData, source
  <1>2. /\ BaShape(ba) /\ QueueShape(q) /\ ba.baState = "idle"
        /\ q.baReqRequired => s # <<>>
    BY <1>1 DEF Inv, BaOK, Consistent, QueueOK
  <1>3. QueueData(q) /\ s \in Seq(Entries) /\ t \in Seq(Entries)
    BY DEF DataInv, BaData, QueueData
  <1>4. CASE Fits(q)
    <2> DEFINE e == Head(t)  v == Append(s, e)
               f == [kind |-> "I", id |-> e.id, sn |-> e.sn]
               p == [q EXCEPT !.txQueue = Tail(@), !.onAir = Append(@, e),
                              !.baReqRequired = TRUE]
    <2>1. line' = Append(line, f) /\ ba' = [ba EXCEPT !.queue = p]
      BY <1>4 DEF SendDown, SendFrame
    <2>2. t # <<>> /\ SizeOf(s) + Size[e.id] <= MaxOnAir
      BY <1>4 DEF Fits
    <2>3. /\ e \in Entries /\ v \in Seq(Entries) /\ Tail(t) \in Seq(Entries)
          /\ v \o Tail(t) = s \o t
          /\ Frames(s) \subseteq Frames(v) /\ e \in Frames(v)
          /\ s # <<>> => v[1] = s[1]
      <3> HIDE DEF s, t
      <3> QED
        BY <1>3, <2>2, MoveFrame
    <2>4. /\ p.txQueue = Tail(t) /\ p.onAir = v /\ p.to = q.to
          /\ p.nextSN = q.nextSN /\ p.waitForACK = q.waitForACK
      BY <1>2 DEF QueueShape
    <2>5. SizeOf(v) <= MaxOnAir
      BY <1>3, <2>2, <2>3, SizeAppend
    <2> HIDE DEF v, e, p
    <2>6. All(p) = All(q)
      BY <2>3, <2>4 DEF All
    <2>7. v # <<>>
      <3>1. Frames(<<>>) = {}
        <4>1. 1..Len(<<>>) = {}
          BY EmptySeq
        <4> QED
          BY <4>1 DEF Frames
      <3> QED
        BY <2>3, <3>1
    <2>8. QueueData(p)
      <3>1. q.to \in Receivers /\ All(q) # <<>> /\ q.nextSN \in Nat /\ Ascending(All(q))
              /\ \A d \in Frames(All(q)) : d.sn < q.nextSN
        BY <1>1, <1>3 DEF QueueData
      <3> QED
        BY <1>1, <2>3, <2>4, <2>5, <2>6, <3>1 DEF QueueData
    <2>9. ba'.queue = p /\ ba'.fate = ba.fate /\ ba'.baState = "idle"
            /\ ba'.nextTransmissionSN = ba.nextTransmissionSN
      BY <1>2, <2>1 DEF BaShape
    <2>10. LineData'
      <3>1. InLine(f, v)
        BY <2>3 DEF InLine
      <3>2. \A i \in 1..Len(line) : InLine(line[i], v)
        <4> TAKE i \in 1..Len(line)
        <4>1. InLine(line[i], s)
          BY DEF DataInv, LineData
        <4> QED
          BY <2>3, <2>7, <4>1 DEF InLine
      <3> HIDE DEF f
      <3> QED
        BY <2>1, <2>4, <2>9, <3>1, <3>2, LineGrows
    <2>11. ReplyData'
      BY <1>1, <2>9 DEF DataInv, ReplyData
    <2> QED
      BY <1>1, <2>4, <2>6, <2>8, <2>9, <2>10, <2>11, QueueChange
  <1>5. CASE ~Fits(q)
    <2> DEFINE f == [kind |-> "BAREQ", id |-> 0, sn |-> Head(s).sn]
               p == [q EXCEPT !.baReqRequired = FALSE, !.waitForACK = TRUE]
    <2>1. line' = Append(line, f) /\ ba' = [ba EXCEPT !.queue = p]
      <3>1. line' = Append(line, f) /\ ba' = [ba EXCEPT !.queue.baReqRequired = FALSE,
                                                        !.queue.waitForACK = TRUE]
        BY <1>5 DEF SendDown, SendBAreq
      <3> QED
        BY <1>2, <3>1 DEF BaShape, QueueShape
    <2>2. s # <<>> /\ Head(s) = s[1]
      <3>1. q.baReqRequired
        BY <1>5 DEF SendDown, HasData, BAreqIsDue
      <3>2. s # <<>>
        BY <1>2, <3>1
      <3> QED
        BY <1>3, <3>2, HeadTailProperties
    <2>3. /\ p.txQueue = t /\ p.onAir = s /\ p.to = q.to
          /\ p.nextSN = q.nextSN /\ p.waitForACK = TRUE
      BY <1>2 DEF QueueShape
    <2> HIDE DEF p
    <2>4. All(p) = All(q) /\ ~Fits(p)
      BY <1>5, <2>3 DEF All, Fits
    <2>5. QueueData(p)
      <3>1. q.to \in Receivers /\ All(q) # <<>> /\ q.nextSN \in Nat /\ Ascending(All(q))
              /\ (\A d \in Frames(All(q)) : d.sn < q.nextSN) /\ SizeOf(s) <= MaxOnAir
        BY <1>1, <1>3 DEF QueueData
      <3> QED
        BY <1>3, <2>3, <2>4, <3>1 DEF QueueData
    <2>6. ba'.queue = p /\ ba'.fate = ba.fate /\ ba'.baState = "idle"
            /\ ba'.nextTransmissionSN = ba.nextTransmissionSN
      BY <1>2, <2>1 DEF BaShape
    <2>7. LineData'
      <3>1. InLine(f, s)
        BY <2>2 DEF InLine
      <3>2. \A i \in 1..Len(line) : InLine(line[i], s)
        BY DEF DataInv, LineData
      <3> HIDE DEF f
      <3> QED
        BY <2>1, <2>3, <2>6, <3>1, <3>2, LineGrows
    <2>8. ReplyData'
      BY <1>1, <2>6 DEF DataInv, ReplyData
    <2> QED
      BY <1>1, <2>3, <2>4, <2>5, <2>6, <2>7, <2>8, QueueChange
  <1> QED
    BY <1>4, <1>5

-----------------------------------------------------------------------------
(* MSDUs arrive and are dropped.                                           *)
LEMMA RisingMSDUs ==
    ASSUME NEW b, Rising(b)
    PROVE  \A n \in MSDUsIn(b) : n \in MSDUs /\ n \in Nat
  <1>1. \A i \in 1..Len(b) : b[i] \in MSDUs
    BY ElementOfSeq DEF Rising
  <1> QED
    BY <1>1 DEF MSDUsIn, MSDUs

(* The buffer loses, and MSDUs arrive.                                     *)
LEMMA FateChange ==
    ASSUME DataInv, UNCHANGED <<expired, rxQueue, line, reply>>,
           ba'.queue = ba.queue, ba'.nextTransmissionSN = ba.nextTransmissionSN,
           ba'.baState = ba.baState,
           ba'.fate \in [MSDUs -> Fates],
           arrived' \in arrived..Load,
           \A n \in MSDUs :
              \/ ba'.fate[n] \in {ba.fate[n], "dropped"}
              \/ n > arrived /\ ba'.fate[n] = "buffered",
           Rising(buffer'),
           \A n \in MSDUsIn(buffer') :
              n <= arrived' /\ (n \in MSDUsIn(buffer) \/ n > arrived)
    PROVE  DataInv'
  <1>1. arrived \in Nat /\ expired \in 0..arrived /\ arrived' \in Nat
          /\ arrived <= arrived' /\ arrived' <= Load /\ Load \in Nat
    BY LoadAssumption DEF DataInv, SourceData
  <1>2. SourceData'
    BY <1>1 DEF DataInv, SourceData, Rising
  <1>3. BaData'
    BY DEF DataInv, BaData
  <1>4. LineData'
    BY DEF DataInv, LineData
  <1>5. ReplyData'
    BY DEF DataInv, ReplyData
  <1>6. Peers'
    <2> SUFFICES ASSUME NEW r \in Receivers PROVE \E g : Peer(r, g)'
      BY DEF Peers
    <2>1. PICK g : Peer(r, g)
      BY DEF DataInv, Peers
    <2>2. NextSN(r)' = NextSN(r)
      BY DEF NextSN
    <2>3. Numbered(r, g)'
      <3> SUFFICES ASSUME NEW x \in 0..(NextSN(r) - 1)
                   PROVE  /\ To[g[x]] = r /\ g[x] <= arrived'
                          /\ ba'.fate[g[x]] \in {"queued", "confirmed", "dropped"}
                          /\ \A n \in MSDUsIn(buffer') : g[x] < n
        BY <2>2 DEF Numbered
      <3>1. g[x] \in MSDUs /\ g[x] \in Nat
        BY <2>1 DEF Peer, Numbers, MSDUs
      <3>2. /\ To[g[x]] = r /\ g[x] <= arrived
            /\ ba.fate[g[x]] \in {"queued", "confirmed", "dropped"}
            /\ \A n \in MSDUsIn(buffer) : g[x] < n
        BY <2>1 DEF Peer, Numbered
      <3>3. ~(g[x] > arrived) /\ g[x] <= arrived'
        BY <1>1, <3>1, <3>2
      <3>4. ba'.fate[g[x]] \in {"queued", "confirmed", "dropped"}
        BY <3>1, <3>2, <3>3
      <3>5. \A n \in MSDUsIn(buffer') : g[x] < n
        <4> TAKE n \in MSDUsIn(buffer')
        <4>1. n \in Nat
          BY RisingMSDUs
        <4> QED
          BY <1>1, <3>1, <3>2, <4>1
      <3> QED
        BY <3>2, <3>3, <3>4, <3>5
    <2>4. ba'.queue.to = r => Pending(r, g)'
      BY <2>1 DEF Peer, Pending
    <2>5. Peer(r, g)'
      BY <2>1, <2>2, <2>3, <2>4 DEF Peer
    <2> QED
      BY <2>5
  <1> QED
    BY <1>2, <1>3, <1>4, <1>5, <1>6 DEF DataInv

(* An MSDU arrives.                                                        *)
LEMMA ArriveData == Inv /\ DataInv /\ Arrive => DataInv'
  <1> SUFFICES ASSUME Inv, DataInv, Arrive PROVE DataInv'
    OBVIOUS
  <1> DEFINE n == arrived + 1  b == Append(Alive(buffer), n)  kept == Kept(b)
             lost == (MSDUsIn(buffer) \cup {n}) \ MSDUsIn(kept)
  <1>1. /\ n <= Load /\ arrived' = n /\ buffer' = kept
        /\ ba' = Dropped([ba EXCEPT !.fate[n] = "buffered"], lost)
        /\ UNCHANGED <<expired, rxQueue, line, reply>>
    BY DEF Arrive
  <1>2. arrived \in Nat /\ n \in MSDUs /\ n \in Nat
    BY <1>1, LoadAssumption DEF DataInv, SourceData, MSDUs
  <1>3. Rising(buffer) /\ \A m \in MSDUsIn(buffer) : m <= arrived
    BY DEF DataInv, SourceData, Rising
  <1>4. Rising(Alive(buffer)) /\ MSDUsIn(Alive(buffer)) \subseteq MSDUsIn(buffer)
    BY <1>3, AliveRises
  <1>5. \A m \in MSDUsIn(Alive(buffer)) : m < n
    <2> TAKE m \in MSDUsIn(Alive(buffer))
    <2>1. m \in Nat /\ m <= arrived
      BY <1>3, <1>4, RisingMSDUs
    <2> QED
      BY <1>2, <2>1
  <1> HIDE DEF n
  <1>6. Rising(b) /\ MSDUsIn(b) = MSDUsIn(Alive(buffer)) \cup {n}
    BY <1>2, <1>4, <1>5, AppendRises
  <1> HIDE DEF b
  <1>7. Rising(kept) /\ MSDUsIn(kept) \subseteq MSDUsIn(b)
    BY <1>6, KeptRises
  <1> HIDE DEF kept, lost
  <1>8. BaShape(ba) /\ ba.fate \in [MSDUs -> Fates]
    BY DEF Inv, BaOK, DataInv, BaData
  <1>9. /\ ba'.queue = ba.queue /\ ba'.nextTransmissionSN = ba.nextTransmissionSN
        /\ ba'.baState = ba.baState
        /\ ba'.fate = [m \in MSDUs |-> IF m \in lost THEN "dropped"
                                       ELSE [ba.fate EXCEPT ![n] = "buffered"][m]]
    BY <1>1, <1>8 DEF Dropped, BaShape
  <1>10. /\ ba'.fate \in [MSDUs -> Fates]
         /\ \A m \in MSDUs :
              \/ ba'.fate[m] \in {ba.fate[m], "dropped"}
              \/ m = n /\ ba'.fate[m] = "buffered"
    BY <1>8, <1>9 DEF Fates
  <1>11. n > arrived /\ arrived' \in arrived..Load
    BY <1>1, <1>2, LoadAssumption DEF n
  <1>12. \A m \in MSDUsIn(buffer') :
            m <= arrived' /\ (m \in MSDUsIn(buffer) \/ m > arrived)
    <2> TAKE m \in MSDUsIn(buffer')
    <2>1. m \in MSDUsIn(Alive(buffer)) \/ m = n
      BY <1>1, <1>6, <1>7
    <2>2. CASE m = n
      BY <1>1, <1>2, <1>11, <2>2
    <2>3. CASE m \in MSDUsIn(Alive(buffer))
      <3>1. m < n /\ m \in MSDUsIn(buffer) /\ m \in Nat
        BY <1>4, <1>5, <2>3, RisingMSDUs
      <3> QED
        BY <1>1, <1>2, <3>1
    <2> QED
      BY <2>1, <2>2, <2>3
  <1> QED
    BY <1>1, <1>7, <1>9, <1>10, <1>11, <1>12, FateChange

-----------------------------------------------------------------------------
(* MSDUs that are handed to BlockACK and numbered.                         *)

(* A queue, possibly a new one, takes one more.                            *)
Open(q) ==
    /\ QueueShape(q) /\ q.to \in Receivers /\ q.nextSN \in Nat
    /\ q.txQueue \in Seq(Entries) /\ q.onAir \in Seq(Entries)
    /\ Ascending(All(q)) /\ \A e \in Frames(All(q)) : e.sn < q.nextSN
    /\ SizeOf(q.onAir) <= MaxOnAir /\ q.waitForACK = FALSE

(* A single entry.                                                         *)
LEMMA OneFrame ==
    ASSUME NEW e \in Entries
    PROVE  <<e>> \in Seq(Entries) /\ Ascending(<<e>>) /\ Frames(<<e>>) = {e}
  <1>1. <<e>> \in Seq(Entries) /\ Len(<<e>>) = 1 /\ <<e>>[1] = e
    OBVIOUS
  <1> DEFINE s == <<e>>
  <1> HIDE DEF s
  <1>2. s \in Seq(Entries) /\ Len(s) = 1 /\ s[1] = e /\ 1..Len(s) = {1}
    BY <1>1 DEF s
  <1>3. Ascending(s) /\ Frames(s) = {e}
    BY <1>2 DEF Ascending, Frames
  <1> QED
    BY <1>2, <1>3 DEF s

(* The queue with one more entry.                                          *)
LEMMA EnqueueData ==
    ASSUME NEW q, Open(q), NEW n \in MSDUs
    PROVE  LET p == Enqueue(q, n)  e == [id |-> n, sn |-> q.nextSN]
           IN  /\ p.to = q.to /\ p.nextSN = q.nextSN + 1 /\ p.onAir = q.onAir
               /\ e \in Entries /\ All(q) \in Seq(Entries)
               /\ All(p) = All(q) \o <<e>>
               /\ Frames(All(p)) = Frames(All(q)) \cup {e}
               /\ QueueData(p)
  <1> DEFINE p == Enqueue(q, n)  e == [id |-> n, sn |-> q.nextSN]
  <1>1. /\ p.to = q.to /\ p.nextSN = q.nextSN + 1 /\ p.onAir = q.onAir
        /\ p.txQueue = Append(q.txQueue, e) /\ p.waitForACK = FALSE
    BY DEF Open, QueueShape, Enqueue
  <1>2. e \in Entries /\ e.sn = q.nextSN /\ q.nextSN \in Nat
    BY DEF Open, Entries
  <1>3. q.onAir \in Seq(Entries) /\ q.txQueue \in Seq(Entries)
    BY DEF Open
  <1> HIDE DEF p, e
  <1> DEFINE o == <<e>>
  <1>4. o \in Seq(Entries) /\ Ascending(o) /\ Frames(o) = {e}
    BY <1>2, OneFrame
  <1>5. All(q) \in Seq(Entries)
    BY <1>3, ConcatFrames DEF All
  <1>6. /\ p.txQueue = q.txQueue \o o /\ p.txQueue \in Seq(Entries)
        /\ p.txQueue # <<>>
    BY <1>1, <1>2, <1>3, AppendIsConcat, AppendProperties
  <1> HIDE DEF o
  <1>7. All(p) = All(q) \o o
    <2> DEFINE s == q.onAir  t == q.txQueue
    <2>2. s \in Seq(Entries) /\ t \in Seq(Entries) /\ o \in Seq(Entries)
      BY <1>3, <1>4
    <2> HIDE DEF s, t
    <2>3. (s \o t) \o o = s \o (t \o o)
      BY <2>2, ConcatAssociative
    <2>1. (q.onAir \o q.txQueue) \o o = q.onAir \o (q.txQueue \o o)
      BY <2>3 DEF s, t
    <2> QED
      BY <1>1, <1>6, <2>1 DEF All
  <1>8. Ascending(All(q)) /\ (\A d \in Frames(All(q)) : d.sn < q.nextSN)
          /\ q.to \in Receivers /\ SizeOf(q.onAir) <= MaxOnAir
    BY DEF Open
  <1>9. Frames(All(p)) = Frames(All(q)) \cup {e} /\ Ascending(All(p))
    BY <1>2, <1>4, <1>5, <1>7, <1>8, ConcatFrames
  <1>10. \A d \in Frames(All(p)) : d.sn < p.nextSN
    <2> SUFFICES ASSUME NEW d \in Frames(All(p)) PROVE d.sn < p.nextSN
      OBVIOUS
    <2>1. d \in Entries
      BY <1>2, <1>5, <1>9, FramesIn
    <2>2. d.sn \in Nat
      BY <2>1 DEF Entries
    <2>3. d.sn < q.nextSN \/ d.sn = q.nextSN
      BY <1>2, <1>8, <1>9
    <2> QED
      BY <1>1, <1>2, <2>2, <2>3
  <1>11. All(p) # <<>>
    <2>1. e \in Frames(All(p))
      BY <1>9
    <2>2. Frames(<<>>) = {}
      <3>1. 1..Len(<<>>) = {}
        BY EmptySeq
      <3> QED
        BY <3>1 DEF Frames
    <2> QED
      BY <2>1, <2>2
  <1>12. QueueData(p)
    BY <1>1, <1>2, <1>3, <1>6, <1>8, <1>9, <1>10, <1>11 DEF QueueData
  <1> QED
    BY <1>1, <1>2, <1>5, <1>7, <1>9, <1>12 DEF p, e, o

(* A new queue to r that begins with number k.                             *)
QueueFor(r, k) == [NoQueue EXCEPT !.to = r, !.nextSN = k]

(* A new queue can take entries.                                           *)
LEMMA NewQueue ==
    ASSUME NEW r \in Receivers, NEW k \in Nat, NEW q, q = QueueFor(r, k)
    PROVE  Open(q) /\ All(q) = <<>> /\ q.to = r /\ q.nextSN = k /\ q.onAir = <<>>
  <1>1. /\ QueueShape(q) /\ q.to = r /\ q.nextSN = k
        /\ q.onAir = <<>> /\ q.txQueue = <<>> /\ q.waitForACK = FALSE
    BY DEF NoQueue, QueueShape, QueueFor
  <1>2. /\ NoQueue.txQueue = <<>> /\ NoQueue.onAir = <<>>
    BY DEF NoQueue
  <1>3. All(q) = <<>> /\ QueueData(NoQueue) /\ All(NoQueue) = <<>>
    BY <1>1, <1>2, NoQueueData DEF All
  <1>4. 1..Len(<<>>) = {}
    BY EmptySeq
  <1>5. Frames(<<>>) = {}
    BY <1>4 DEF Frames
  <1>6. Open(q)
    BY <1>1, <1>2, <1>3, <1>5 DEF Open, QueueData
  <1> QED
    BY <1>1, <1>3, <1>6

(* What is within the window stays so when a frame is added.               *)
LEMMA WindowGrows ==
    ASSUME NEW u \in Seq(Entries), NEW t \in Seq(Entries), NEW k,
           InWindow(u, k)
    PROVE  InWindow(u \o t, k) /\ (u \o t)[1] = u[1]
  <1>1. PICK j \in 1..Len(u) : u[j].sn = k /\ SizeOf(SubSeq(u, 1, j)) <= MaxOnAir
    BY DEF InWindow
  <1>2. /\ (u \o t)[j] = u[j] /\ j \in 1..Len(u \o t)
        /\ SubSeq(u \o t, 1, j) = SubSeq(u, 1, j)
    BY <1>1, ConcatPrefix
  <1>3. 1 \in 1..Len(u)
    BY <1>1, LenProperties
  <1>4. (u \o t)[1] = u[1]
    BY <1>3, ConcatPrefix
  <1> DEFINE v == u \o t
  <1> HIDE DEF v
  <1>5. InWindow(v, k)
    BY <1>1, <1>2 DEF InWindow, v
  <1> QED
    BY <1>4, <1>5 DEF v

-----------------------------------------------------------------------------
(* An MSDU leaves the buffer, gets the next number and is queued.          *)
LEMMA EnqueuedData ==
    ASSUME Inv, DataInv, UNCHANGED <<arrived, expired, line, rxQueue, reply>>,
           NEW n \in MSDUs, n \in MSDUsIn(buffer), NEW r, r = To[n],
           ba.queue = NoQueue \/ ba.queue.to = r, ~ba.queue.waitForACK,
           NEW q, ba.queue # NoQueue => q = ba.queue,
           ba.queue = NoQueue => q = QueueFor(r, ba.nextTransmissionSN[r]),
           ba'.queue = Enqueue(q, n),
           ba'.nextTransmissionSN = ba.nextTransmissionSN,
           ba'.baState = ba.baState,
           ba'.fate \in [MSDUs -> Fates], ba'.fate[n] = "queued",
           \A m \in MSDUs : m # n => ba'.fate[m] \in {ba.fate[m], "dropped"},
           Rising(buffer'),
           \A m \in MSDUsIn(buffer') : m \in MSDUsIn(buffer) /\ n < m
    PROVE  DataInv'
  <1> DEFINE N == q.nextSN  p == Enqueue(q, n)  e == [id |-> n, sn |-> N]
  <1>1. r \in Receivers /\ n \in Nat /\ r # Nobody
    BY LoadAssumption, ReceiversAssumption DEF MSDUs
  <1>2. ba.nextTransmissionSN \in [Receivers -> Nat] /\ QueueData(ba.queue)
          /\ QueueShape(ba.queue) /\ ba.queue.waitForACK = FALSE
    BY DEF DataInv, BaData, Inv, BaOK, Consistent, QueueOK
  <1>3. /\ Open(q) /\ q.to = r /\ N = NextSN(r) /\ q.onAir = ba.queue.onAir
        /\ All(q) = All(ba.queue)
        /\ ba.queue = NoQueue => All(q) = <<>>
    <2>1. CASE ba.queue = NoQueue
      <3>1. /\ Open(q) /\ All(q) = <<>> /\ q.to = r
            /\ N = ba.nextTransmissionSN[r] /\ q.onAir = <<>>
        <4> DEFINE k == ba.nextTransmissionSN[r]
        <4>1. k \in Nat /\ q = QueueFor(r, k)
          BY <1>1, <1>2, <2>1
        <4> HIDE DEF k
        <4>2. Open(q) /\ All(q) = <<>> /\ q.to = r /\ q.nextSN = k /\ q.onAir = <<>>
          BY <1>1, <4>1, NewQueue
        <4> QED
          BY <4>2 DEF k, N
      <3>2. NoQueue.to = Nobody /\ NoQueue.onAir = <<>> /\ All(NoQueue) = <<>>
        BY NoQueueData DEF NoQueue
      <3>3. NextSN(r) = ba.nextTransmissionSN[r]
        BY <1>1, <2>1, <3>2 DEF NextSN
      <3> HIDE DEF N
      <3> QED
        BY <2>1, <3>1, <3>2, <3>3
    <2>2. CASE ba.queue # NoQueue
      <3>1. q = ba.queue /\ q.to = r
        BY <2>2
      <3>2. Open(q) /\ N = NextSN(r)
        BY <1>1, <1>2, <2>2, <3>1 DEF Open, QueueData, NextSN
      <3> HIDE DEF N
      <3> QED
        BY <2>2, <3>1, <3>2
    <2> QED
      BY <2>1, <2>2
  <1>4. /\ p.to = q.to /\ p.nextSN = N + 1 /\ p.onAir = q.onAir
        /\ e \in Entries /\ All(q) \in Seq(Entries)
        /\ All(p) = All(q) \o <<e>>
        /\ Frames(All(p)) = Frames(All(q)) \cup {e}
        /\ QueueData(p)
    BY <1>3, EnqueueData
  <1>5. e.id = n /\ e.sn = N /\ N \in Nat
    BY <1>3 DEF Open
  <1>6. ba'.queue = p
    OBVIOUS
  <1> HIDE DEF p, e, N
  <1>7. SourceData'
    <2>1. \A m \in MSDUsIn(buffer') : m <= arrived
      BY DEF DataInv, SourceData
    <2> QED
      BY <2>1 DEF DataInv, SourceData, Rising
  <1>8. BaData'
    <2>1. \A m \in MSDUs : ba'.fate[m] = "confirmed" => ba.fate[m] = "confirmed"
      OBVIOUS
    <2> QED
      BY <1>4, <1>6, <2>1 DEF DataInv, BaData
  <1>9. ba'.queue.onAir = ba.queue.onAir
    BY <1>3, <1>4, <1>6
  <1>10. LineData'
    BY <1>9 DEF DataInv, LineData
  <1>11. ReplyData'
    <2>1. ba.baState = "idle"
      BY DEF Inv, BaOK, Consistent
    <2> QED
      BY <2>1 DEF DataInv, ReplyData
  <1>12. ASSUME NEW m \in MSDUs, m # n,
                ba.fate[m] \in {"queued", "confirmed", "dropped"}
         PROVE  ba'.fate[m] \in {"queued", "confirmed", "dropped"}
    <2>1. ba'.fate[m] \in {ba.fate[m], "dropped"}
      BY <1>12
    <2> QED
      BY <1>12, <2>1
  <1>13. Peers'
    <2> SUFFICES ASSUME NEW u \in Receivers PROVE \E g : Peer(u, g)'
      BY DEF Peers
    <2>1. PICK g : Peer(u, g)
      BY DEF DataInv, Peers
    <2>2. CASE u = r
      <3> DEFINE h == Extended(g, N, n)
      <3>1. /\ Numbers(g, N) /\ Numbered(r, g) /\ RxData(rxQueue[r], g, N)
            /\ ba.queue.to = r => Pending(r, g)
        BY <1>3, <2>1, <2>2 DEF Peer
      <3>2. \A x \in 0..(N - 1) :
               /\ To[g[x]] = r /\ g[x] <= arrived /\ g[x] < n /\ g[x] \in MSDUs
               /\ ba.fate[g[x]] \in {"queued", "confirmed", "dropped"}
               /\ \A m \in MSDUsIn(buffer) : g[x] < m
        BY <1>3, <3>1 DEF Numbered, Numbers
      <3>3. /\ Numbers(h, N + 1) /\ h[N] = n
            /\ \A x \in 0..(N - 1) : h[x] = g[x]
            /\ RxData(rxQueue[r], h, N + 1)
        BY <3>1, <3>2, RxExtend
      <3> HIDE DEF h
      <3>4. NextSN(r)' = N + 1
        BY <1>3, <1>4, <1>6 DEF NextSN
      <3>5. Numbered(r, h)'
        <4> SUFFICES ASSUME NEW x \in 0..N
                     PROVE  /\ To[h[x]] = r /\ h[x] <= arrived
                            /\ ba'.fate[h[x]] \in {"queued", "confirmed", "dropped"}
                            /\ \A m \in MSDUsIn(buffer') : h[x] < m
          BY <1>5, <3>4 DEF Numbered
        <4>1. CASE x = N
          <5>1. n <= arrived
            BY DEF DataInv, SourceData
          <5> QED
            BY <3>3, <4>1, <5>1
        <4>2. CASE x # N
          <5>1. x \in 0..(N - 1)
            BY <1>5, <4>2
          <5>2. h[x] = g[x] /\ g[x] \in MSDUs /\ g[x] # n
            BY <1>1, <3>2, <3>3, <5>1
          <5> QED
            BY <1>12, <3>2, <5>1, <5>2
        <4> QED
          BY <4>1, <4>2
      <3>6. ASSUME NEW d \in Frames(All(p))
            PROVE  h[d.sn] = d.id /\ Passed(rxQueue[r], h, d.sn)
        <4>1. CASE d = e
          <5>1. rxQueue[r].waitingForSN <= N
            BY <3>1 DEF RxData, RxLoose
          <5>2. rxQueue[r].waitingForSN \in Nat
            BY <3>1 DEF RxData, RxLoose, RxQueues
          <5> QED
            BY <1>5, <3>3, <4>1, <5>1, <5>2 DEF Passed
        <4>2. CASE d \in Frames(All(q))
          <5>1. ba.queue # NoQueue
            <6>1. Frames(<<>>) = {}
              <7>1. 1..Len(<<>>) = {}
                BY EmptySeq
              <7> QED
                BY <7>1 DEF Frames
            <6> QED
              BY <1>3, <4>2, <6>1
          <5>2. g[d.sn] = d.id /\ Passed(rxQueue[r], g, d.sn)
            BY <1>3, <3>1, <4>2, <5>1 DEF Pending
          <5>3. d.sn \in 0..(N - 1)
            <6>1. d \in Entries /\ d.sn < N
              BY <1>3, <1>4, <4>2, FramesIn DEF Open, N
            <6> QED
              BY <1>5, <6>1 DEF Entries
          <5>4. h[d.sn] = g[d.sn]
            BY <3>3, <5>3
          <5> QED
            BY <5>2, <5>4 DEF Passed
        <4> QED
          BY <1>4, <3>6, <4>1, <4>2
      <3>7. ASSUME NEW s \in rxQueue[r].rxSNs, s >= All(p)[1].sn
            PROVE  InWindow(All(p), s)
        <4>1. <<e>> \in Seq(Entries)
          BY <1>4, OneFrame
        <4>2. CASE ba.queue = NoQueue
          <5>1. All(p) = <<e>>
            BY <1>3, <1>4, <4>1, <4>2, ConcatEmptySeq
          <5>2. All(p)[1] = e
            BY <5>1
          <5>3. s < N /\ s \in Nat
            BY <3>1, <3>7 DEF RxData, RxLoose, RxQueues
          <5> QED
            BY <1>5, <3>7, <5>2, <5>3
        <4>3. CASE ba.queue # NoQueue
          <5>1. Pending(r, g) /\ All(q) # <<>>
            BY <1>2, <1>3, <3>1, <4>3 DEF QueueData
          <5>2. All(p)[1] = All(q)[1]
            <6>1. 1 \in 1..Len(All(q))
              <7>1. Len(All(q)) \in Nat /\ Len(All(q)) # 0
                BY <1>4, <5>1, LenProperties, EmptySeq
              <7> QED
                BY <7>1
            <6> QED
              BY <1>4, <4>1, <6>1, ConcatPrefix
          <5>3. InWindow(All(q), s)
            BY <1>3, <3>7, <5>1, <5>2 DEF Pending
          <5>4. InWindow(All(q) \o <<e>>, s)
            BY <1>4, <4>1, <5>3, WindowGrows, Zenon
          <5> QED
            BY <1>4, <5>4
        <4> QED
          BY <4>2, <4>3
      <3>8. Pending(r, h)'
        BY <1>6, <3>6, <3>7 DEF Pending
      <3>9. Peer(r, h)'
        BY <3>3, <3>4, <3>5, <3>8 DEF Peer
      <3> QED
        BY <2>2, <3>9
    <2>3. CASE u # r
      <3>1. ba.queue.to # u /\ p.to # u
        <4>1. NoQueue.to = Nobody
          BY DEF NoQueue
        <4> QED
          BY <1>3, <1>4, <2>3, <4>1, ReceiversAssumption
      <3>2. NextSN(u)' = NextSN(u)
        BY <1>6, <3>1 DEF NextSN
      <3>3. Numbered(u, g)'
        <4> SUFFICES ASSUME NEW x \in 0..(NextSN(u) - 1)
                     PROVE  /\ To[g[x]] = u /\ g[x] <= arrived
                            /\ ba'.fate[g[x]] \in {"queued", "confirmed", "dropped"}
                            /\ \A m \in MSDUsIn(buffer') : g[x] < m
          BY <3>2 DEF Numbered
        <4>1. /\ To[g[x]] = u /\ g[x] <= arrived /\ g[x] \in MSDUs
              /\ ba.fate[g[x]] \in {"queued", "confirmed", "dropped"}
              /\ \A m \in MSDUsIn(buffer) : g[x] < m
          BY <2>1 DEF Peer, Numbered, Numbers
        <4>2. g[x] # n
          BY <2>3, <4>1
        <4> QED
          BY <1>12, <4>1, <4>2
      <3>4. Peer(u, g)'
        BY <1>6, <2>1, <3>1, <3>2, <3>3 DEF Peer
      <3> QED
        BY <3>4
    <2> QED
      BY <2>2, <2>3
  <1> QED
    BY <1>7, <1>8, <1>10, <1>11, <1>13 DEF DataInv

(* BlockACK takes the first MSDU of the buffer.                            *)
LEMMA HandDownData ==
    ASSUME Inv, DataInv, NEW held, HandDown(held)
    PROVE  DataInv'
  <1> DEFINE n == Head(buffer)  t == Tail(buffer)
             lost == MSDUsIn(t) \ MSDUsIn(Alive(t))
             m == ProcessOutgoing(ba, n)
  <1>1. /\ buffer # <<>> /\ Accepts(ba.queue, n, held)
        /\ buffer' = Alive(t) /\ ba' = Dropped(m, lost)
        /\ UNCHANGED <<arrived, expired, line, rxQueue, reply>>
    BY DEF HandDown, source
  <1>2. Rising(buffer)
    BY DEF DataInv, SourceData, Rising
  <1>3. /\ Rising(t) /\ n \in MSDUsIn(buffer) /\ n \in MSDUs
        /\ \A k \in MSDUsIn(t) : k \in MSDUsIn(buffer) /\ n < k
    BY <1>1, <1>2, TailRises
  <1>4. Rising(Alive(t)) /\ MSDUsIn(Alive(t)) \subseteq MSDUsIn(t)
    BY <1>3, AliveRises
  <1>5. BaShape(ba) /\ ba.fate \in [MSDUs -> Fates]
    BY DEF Inv, BaOK, DataInv, BaData
  <1>6. n \notin lost
    <2>1. n \in Nat
      BY <1>3 DEF MSDUs
    <2> QED
      BY <1>3, <2>1
  <1> HIDE DEF n, t, lost
  <1>7. CASE LifetimeExpired(n)
    <2>1. m = Dropped(ba, {n})
      BY <1>7 DEF ProcessOutgoing
    <2>2. /\ ba'.queue = ba.queue /\ ba'.nextTransmissionSN = ba.nextTransmissionSN
          /\ ba'.baState = ba.baState
          /\ ba'.fate = [k \in MSDUs |-> IF k \in lost THEN "dropped"
                                         ELSE IF k \in {n} THEN "dropped" ELSE ba.fate[k]]
      <3>1. /\ BaShape(m) /\ m.queue = ba.queue
            /\ m.nextTransmissionSN = ba.nextTransmissionSN /\ m.baState = ba.baState
            /\ m.fate = [k \in MSDUs |-> IF k \in {n} THEN "dropped" ELSE ba.fate[k]]
        BY <1>5, <2>1 DEF Dropped, BaShape
      <3> HIDE DEF m
      <3> QED
        BY <1>1, <3>1 DEF Dropped, BaShape
    <2>3. /\ ba'.fate \in [MSDUs -> Fates]
          /\ \A k \in MSDUs : ba'.fate[k] \in {ba.fate[k], "dropped"}
      BY <1>5, <2>2 DEF Fates
    <2>4. arrived' \in arrived..Load
      BY <1>1, LoadAssumption DEF DataInv, SourceData
    <2>5. \A k \in MSDUsIn(buffer') : k <= arrived' /\ k \in MSDUsIn(buffer)
      BY <1>1, <1>3, <1>4 DEF DataInv, SourceData
    <2> HIDE DEF m
    <2> QED
      BY <1>1, <1>4, <2>2, <2>3, <2>4, <2>5, FateChange
  <1>8. CASE ~LifetimeExpired(n)
    <2> DEFINE q == IF ba.queue # NoQueue THEN ba.queue
                    ELSE [NoQueue EXCEPT !.to = To[n],
                                         !.nextSN = ba.nextTransmissionSN[To[n]]]
    <2>1. m = [ba EXCEPT !.queue = Enqueue(q, n), !.fate[n] = "queued"]
      BY <1>8 DEF ProcessOutgoing
    <2> HIDE DEF q
    <2>2. /\ ba'.queue = Enqueue(q, n) /\ ba'.nextTransmissionSN = ba.nextTransmissionSN
          /\ ba'.baState = ba.baState
          /\ ba'.fate = [k \in MSDUs |-> IF k \in lost THEN "dropped"
                                         ELSE [ba.fate EXCEPT ![n] = "queued"][k]]
      <3>1. /\ BaShape(m) /\ m.queue = Enqueue(q, n)
            /\ m.nextTransmissionSN = ba.nextTransmissionSN /\ m.baState = ba.baState
            /\ m.fate = [ba.fate EXCEPT ![n] = "queued"]
        BY <1>5, <2>1 DEF BaShape
      <3> HIDE DEF m
      <3> QED
        BY <1>1, <3>1 DEF Dropped, BaShape
    <2>3. /\ ba'.fate \in [MSDUs -> Fates] /\ ba'.fate[n] = "queued"
          /\ \A k \in MSDUs : k # n => ba'.fate[k] \in {ba.fate[k], "dropped"}
      BY <1>3, <1>5, <1>6, <2>2 DEF Fates
    <2>4. PICK r : r = To[n]
      OBVIOUS
    <2>5. (ba.queue = NoQueue \/ ba.queue.to = r) /\ ~ba.queue.waitForACK
      BY <1>1, <2>4 DEF Accepts, HasCapacity
    <2>6. Rising(buffer') /\ \A k \in MSDUsIn(buffer') : k \in MSDUsIn(buffer) /\ n < k
      BY <1>1, <1>3, <1>4
    <2>7. /\ ba.queue # NoQueue => q = ba.queue
          /\ ba.queue = NoQueue => q = QueueFor(r, ba.nextTransmissionSN[r])
      BY <2>4 DEF q, QueueFor
    <2>8. UNCHANGED <<arrived, expired, line, rxQueue, reply>>
      BY <1>1
    <2> HIDE DEF m
    <2> QED
      BY <1>3, <2>2, <2>3, <2>4, <2>5, <2>6, <2>7, <2>8, EnqueuedData
  <1> QED
    BY <1>7, <1>8

-----------------------------------------------------------------------------
(* The invariant of the data, and what follows from it.                    *)

(* The data invariant holds initially.                                     *)
LEMMA InitData == Init => DataInv
  <1> SUFFICES ASSUME Init PROVE DataInv
    OBVIOUS
  <1>1. /\ <<>> \in Seq(MSDUs) /\ <<>> \in Seq(Entries) /\ 1..Len(<<>>) = {}
    BY EmptySeq
  <1>2. ba.queue = NoQueue /\ ba.nextTransmissionSN = [r \in Receivers |-> 0]
          /\ ba.fate = [n \in MSDUs |-> "new"] /\ line = <<>> /\ buffer = <<>>
          /\ reply.phase = "none"
    BY DEF Init, NoReply
  <1>3. SourceData
    BY <1>1, <1>2, LoadAssumption DEF Init, SourceData, MSDUsIn
  <1> DEFINE q == [known |-> FALSE, waitingForSN |-> 0, rxStorage |-> <<>>,
                   rxSNs |-> {}, first |-> 0, delivered |-> <<>>]
  <1>4. rxQueue = [r \in Receivers |-> q]
    BY DEF Init
  <1>5. q \in RxQueues
    BY <1>1 DEF RxQueues
  <1>6. BaData
    <2>1. rxQueue \in [Receivers -> RxQueues]
      BY <1>4, <1>5
    <2>2. QueueData(ba.queue)
      BY <1>2, NoQueueData
    <2>3. ba.fate \in [MSDUs -> Fates] /\ ba.nextTransmissionSN \in [Receivers -> Nat]
            /\ \A n \in MSDUs : ba.fate[n] = "new"
      BY <1>2 DEF Fates
    <2> QED
      BY <2>1, <2>2, <2>3 DEF BaData
  <1>7. LineData
    BY <1>1, <1>2 DEF LineData
  <1>8. ReplyData
    BY <1>2 DEF ReplyData
  <1>9. Peers
    <2> SUFFICES ASSUME NEW r \in Receivers PROVE \E g : Peer(r, g)
      BY DEF Peers
    <2> DEFINE g == [x \in {} |-> 1]
    <2>1. NextSN(r) = 0 /\ ba.queue.to # r
      BY <1>2, ReceiversAssumption DEF NextSN, NoQueue
    <2>2. 0..(0 - 1) = {}
      OBVIOUS
    <2>3. Numbers(g, 0)
      BY <2>2 DEF Numbers
    <2>4. Numbered(r, g)
      BY <2>1, <2>2 DEF Numbered
    <2>5. RxData(q, g, 0)
      <3>1. /\ q.waitingForSN = 0 /\ q.rxStorage = <<>> /\ q.delivered = <<>>
            /\ q.rxSNs = {} /\ q.first = 0
        OBVIOUS
      <3> HIDE DEF q, g
      <3>2. Ascending(<<>>) /\ Frames(<<>>) = {} /\ Delivers(<<>>, g, 0)
        BY <1>1 DEF Ascending, Frames, Delivers, MSDUsIn
      <3> QED
        BY <1>5, <2>2, <3>1, <3>2 DEF RxData, RxLoose
    <2>6. rxQueue[r] = q
      BY <1>4
    <2> HIDE DEF q, g
    <2>7. Peer(r, g)
      BY <2>1, <2>3, <2>4, <2>5, <2>6 DEF Peer
    <2> QED
      BY <2>7
  <1> QED
    BY <1>3, <1>6, <1>7, <1>8, <1>9 DEF DataInv

(* Every step preserves it.                                                *)
LEMMA NextData == Inv /\ DataInv /\ [Next]_vars => DataInv'
  <1> SUFFICES ASSUME Inv, DataInv, [Next]_vars PROVE DataInv'
    OBVIOUS
  <1>1. CASE Arrive
    BY <1>1, ArriveData
  <1>2. CASE Expire
    BY <1>2, ExpireData
  <1>3. CASE \E held \in Held : HandDown(held) \/ SendDown(held)
    BY <1>3, HandDownData, SendData
  <1>4. CASE \E ok \in BOOLEAN : Transmit(ok)
    <2>1. PICK ok \in BOOLEAN : Transmit(ok)
      BY <1>4
    <2>2. TransmitData(ok) \/ TransmitBAreq(ok)
      BY <2>1 DEF Transmit
    <2> QED
      BY <2>1, <2>2, TransmitIdata, TransmitRequest
  <1>5. CASE \/ OnTimeout \/ OwnReply \/ ForeignStarts
             \/ \E ok \in BOOLEAN : ForeignEnds(ok)
             \/ \E heard \in BOOLEAN : ReplyStarts(heard)
    BY <1>5, WaitStepsData
  <1>6. CASE \E outcome \in {"delivered", "lost", "error"} : ReplyEnds(outcome)
    <2>1. PICK outcome \in {"delivered", "lost", "error"} : ReplyEnds(outcome)
      BY <1>6
    <2>2. CASE rx = "BA" /\ outcome = "delivered"
      BY <2>1, <2>2, DeliveredData
    <2>3. CASE ~(rx = "BA" /\ outcome = "delivered")
      BY <2>1, <2>3, WaitStepsData
    <2> QED
      BY <2>2, <2>3
  <1>7. CASE OnTransmissionHasFailed
    BY <1>7, FailedData
  <1>8. CASE UNCHANGED vars
    <2>1. /\ ba' = ba /\ arrived' = arrived /\ expired' = expired
          /\ buffer' = buffer /\ rxQueue' = rxQueue /\ line' = line /\ reply' = reply
      BY <1>8 DEF vars, source
    <2>2. KeepsOrGivesUp(ba', ba)
      BY <2>1 DEF KeepsOrGivesUp, Keeps, SameQueue
    <2> QED
      BY <2>1, <2>2, WaitData
  <1> QED
    BY <1>1, <1>2, <1>3, <1>4, <1>5, <1>6, <1>7, <1>8 DEF Next, Work

(* Sender and receivers always agree on the MSDU of each number; what is   *)
(* queued, in the window, noted or acknowledged follows that numbering,    *)
(* whatever is lost, misheard, timed out or dropped.                       *)
THEOREM DataInvariance == Spec => [](Inv /\ DataInv)
  <1>1. Init => Inv /\ DataInv
    BY InitInv, InitData
  <1>2. Inv /\ DataInv /\ [Next]_vars => (Inv /\ DataInv)'
    BY NextInv, NextData
  <1> QED
    BY <1>1, <1>2, PTL DEF Spec

(* What is on air and queued stays ascending in sequence number and within *)
(* the limit on what may be on air, however often frames are requeued      *)
(* (TransmissionQueue::processIncomingACK).                                *)
THEOREM QueuesStayInOrder == Spec => []WindowOrdered
  <1>1. Inv /\ DataInv => WindowOrdered
    <2> SUFFICES ASSUME Inv, DataInv PROVE WindowOrdered
      OBVIOUS
    <2> DEFINE q == ba.queue  all == All(q)
    <2>1. QueueData(q)
      BY DEF DataInv, BaData
    <2>2. /\ \A i, j \in 1..Len(all) :
                i < j => all[i].sn < all[j].sn /\ all[i].id < all[j].id
          /\ \A i \in 1..Len(all) :
                all[i].sn < q.nextSN /\ To[all[i].id] = q.to
      <3>1. CASE q = NoQueue
        <4>1. 1..Len(all) = {}
          BY <3>1, NoQueueData, EmptySeq
        <4> QED
          BY <4>1
      <3>2. CASE q # NoQueue
        <4> DEFINE N == q.nextSN
        <4>1. q.to \in Receivers
          BY <2>1, <3>2 DEF QueueData
        <4>2. PICK g : Peer(q.to, g)
          BY <4>1 DEF DataInv, Peers
        <4>3. /\ Numbers(g, N) /\ Numbered(q.to, g) /\ N = NextSN(q.to)
              /\ \A e \in Frames(all) : g[e.sn] = e.id
          BY <4>2 DEF Peer, NextSN, Pending
        <4>4. /\ all \in Seq(Entries) /\ Ascending(all)
              /\ \A e \in Frames(all) :
                    e \in Entries /\ e.sn \in 0..(N - 1) /\ e.id = g[e.sn]
          BY <2>1, <4>3, QueueFacts DEF QueueData
        <4>5. \A i \in 1..Len(all) : all[i] \in Frames(all)
          BY DEF Frames
        <4> HIDE DEF all
        <4>6. \A i, j \in 1..Len(all) : i < j => all[i].id < all[j].id
          BY <4>3, <4>4, IdsRise
        <4>7. \A e \in Frames(all) : e.sn < N /\ To[e.id] = q.to
          <5> TAKE e \in Frames(all)
          <5>1. To[g[e.sn]] = q.to
            BY <4>3, <4>4 DEF Numbered
          <5>2. e.sn < N
            BY <2>1 DEF QueueData, all
          <5> QED
            BY <4>4, <5>1, <5>2
        <4> QED
          BY <4>4, <4>5, <4>6, <4>7 DEF Ascending
      <3> QED
        BY <3>1, <3>2
    <2>3. (q # NoQueue => all # <<>>) /\ SizeOf(q.onAir) <= MaxOnAir
      BY <2>1 DEF QueueData
    <2>4. \A i \in 1..Len(line) :
             IF line[i].kind = "I" THEN line[i].sn \in SNs(q.onAir)
             ELSE i = Len(line) /\ line[i].sn = Head(q.onAir).sn
      <3> SUFFICES ASSUME NEW i \in 1..Len(line)
                   PROVE  IF line[i].kind = "I" THEN line[i].sn \in SNs(q.onAir)
                          ELSE i = Len(line) /\ line[i].sn = Head(q.onAir).sn
        OBVIOUS
      <3>1. InLine(line[i], q.onAir)
        BY DEF DataInv, LineData
      <3>2. q.onAir \in Seq(Entries)
        BY <2>1 DEF QueueData
      <3>3. CASE line[i].kind = "I"
        <4>1. SNs(q.onAir) = {e.sn : e \in Frames(q.onAir)}
          BY <3>2, FramesIn
        <4> QED
          BY <3>1, <3>3, <4>1 DEF InLine
      <3>4. CASE line[i].kind # "I"
        <4>1. line[i].kind = "BAREQ" /\ q.onAir # <<>> /\ line[i].sn = q.onAir[1].sn
          BY <3>1, <3>4 DEF InLine
        <4>2. i = Len(line)
          BY <4>1 DEF Inv, LineOK, Requests
        <4>3. Head(q.onAir) = q.onAir[1]
          BY <3>2, <4>1, HeadTailProperties
        <4> QED
          BY <3>4, <4>1, <4>2, <4>3
      <3> QED
        BY <3>3, <3>4
    <2>5. (reply.phase = "sifs" \/ rx = "BA") /\ ~disturbed =>
             reply.ackSNs \subseteq SNs(q.onAir)
      BY DEF Inv, ReplyOK, DataInv, ReplyData
    <2> QED
      BY <2>2, <2>3, <2>4, <2>5 DEF WindowOrdered, All
  <1> QED
    BY <1>1, DataInvariance, PTL

(* A receiver passes up MSDUs in the order in which they were sent and     *)
(* none twice, although frames are lost, repeated and given up             *)
(* (ReceptionQueue::processIncomingData and processIncomingACKreq).        *)
THEOREM PassedUpInOrder == Spec => []DeliveredInOrder
  <1>1. DataInv => DeliveredInOrder
    <2> SUFFICES ASSUME DataInv, NEW r \in Receivers
                 PROVE  LET d == rxQueue[r].delivered IN
                        /\ \A i, j \in 1..Len(d) : i < j => d[i] < d[j]
                        /\ \A n \in MSDUsIn(Ids(rxQueue[r].rxStorage)) :
                             \E k \in 1..(n - 1) :
                               /\ To[k] = r /\ ba.fate[k] \in {"queued", "dropped"}
                               /\ ~Received(k)
      BY DEF DeliveredInOrder
    <2> DEFINE p == rxQueue[r]  N == NextSN(r)  w == p.waitingForSN
    <2>1. PICK g : Peer(r, g)
      BY DEF DataInv, Peers
    <2>2. Numbers(g, N) /\ Numbered(r, g) /\ RxData(p, g, N)
      BY <2>1 DEF Peer
    <2>3. \A i, j \in 1..Len(p.delivered) : i < j => p.delivered[i] < p.delivered[j]
      BY <2>2 DEF RxData, RxLoose, Delivers
    <2>4. ASSUME NEW n \in MSDUsIn(Ids(p.rxStorage))
          PROVE  \E k \in 1..(n - 1) :
                   /\ To[k] = r /\ ba.fate[k] \in {"queued", "dropped"}
                   /\ ~Received(k)
      <3>1. p.rxStorage \in Seq(Entries) /\ w \in Nat /\ N \in Nat /\ p.first \in Nat
        BY <2>2 DEF RxData, RxLoose, RxQueues, Numbers
      <3>2. PICK e \in Frames(p.rxStorage) : n = e.id
        BY <2>4, <3>1, FramesIn
      <3>3. /\ w <= e.sn /\ e.sn < N /\ g[e.sn] = e.id /\ e.sn # w
        BY <2>2 DEF RxData, RxLoose
      <3>4. e.sn \in Nat
        <4>1. e \in Entries
          BY <3>1, FramesIn
        <4> QED
          BY <4>1 DEF Entries
      <3>5. w \in 0..(N - 1) /\ e.sn \in 0..(N - 1) /\ w < e.sn
        BY <3>1, <3>3, <3>4
      <3> DEFINE k == g[w]
      <3>6. k < n /\ k \in MSDUs /\ n \in MSDUs
        BY <2>2, <3>2, <3>3, <3>5 DEF Numbers
      <3>7. k \in 1..(n - 1) /\ k \in Nat
        BY <3>6 DEF MSDUs
      <3>8. To[k] = r /\ ba.fate[k] \in {"queued", "confirmed", "dropped"}
        BY <2>2, <3>5 DEF Numbered
      <3>9. k \notin MSDUsIn(p.delivered)
        <4> SUFFICES ASSUME k \in MSDUsIn(p.delivered) PROVE FALSE
          OBVIOUS
        <4>1. PICK x \in 0..(w - 1) : k = g[x]
          BY <2>2 DEF RxData, RxLoose, Delivers
        <4>2. x \in 0..(N - 1) /\ x < w
          BY <3>1, <3>5
        <4>3. g[x] < g[w]
          BY <2>2, <3>5, <4>2 DEF Numbers
        <4> QED
          BY <3>7, <4>1, <4>3
      <3>10. k \notin MSDUsIn(Ids(p.rxStorage))
        <4> SUFFICES ASSUME k \in MSDUsIn(Ids(p.rxStorage)) PROVE FALSE
          OBVIOUS
        <4>1. PICK d \in Frames(p.rxStorage) : k = d.id
          BY <3>1, FramesIn
        <4>2. d \in Entries /\ w <= d.sn /\ d.sn < N /\ g[d.sn] = k /\ d.sn # w
          BY <2>2, <3>1, <4>1, FramesIn DEF RxData, RxLoose
        <4>3. d.sn \in 0..(N - 1) /\ w < d.sn
          BY <3>1, <4>2 DEF Entries
        <4>4. g[w] < g[d.sn]
          BY <2>2, <3>5, <4>3 DEF Numbers
        <4> QED
          BY <3>7, <4>2, <4>4
      <3>11. ~(k < p.first)
        <4>1. k >= p.first
          <5>1. w \in w..(N - 1)
            BY <3>1, <3>5
          <5> QED
            BY <2>2, <5>1 DEF RxData, RxLoose
        <4> QED
          BY <3>1, <3>7, <4>1
      <3>12. ~Got(p, k)
        BY <3>9, <3>10, <3>11 DEF Got
      <3>13. ba.fate[k] # "confirmed"
        BY <3>6, <3>8, <3>12 DEF DataInv, BaData
      <3>14. ~Received(k)
        BY <3>8, <3>9, <3>10 DEF Received
      <3> QED
        BY <3>7, <3>8, <3>13, <3>14
    <2> QED
      BY <2>3, <2>4
  <1> QED
    BY <1>1, DataInvariance, PTL

(* An MSDU that the sender takes for acknowledged has been received,       *)
(* unless the receiver learnt of the sender only after it                  *)
(* (TransmissionQueue::processIncomingACK).                                *)
THEOREM ConfirmedWasReceived == Spec => []AckedIsReceived
  <1>1. DataInv => AckedIsReceived
    BY DEF DataInv, BaData, AckedIsReceived, Got, Received
  <1> QED
    BY <1>1, DataInvariance, PTL

=============================================================================
