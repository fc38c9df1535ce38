------------------------------- MODULE BlockACK -------------------------------
(***************************************************************************)
(* Block acknowledgement (draftn: BlockACK, TransmissionQueue and          *)
(* ReceptionQueue) under the send buffer (lowerMAC/Buffer): one station    *)
(* sends blocks of MSDUs to several receivers, each block closed by a      *)
(* request (BAreq) and answered by the block acknowledgement (BA).         *)
(*                                                                         *)
(* The units below keep the order of what they are given and lose any part *)
(* of it.  Time is not counted: an MSDU expires in the order of arrival,   *)
(* and the only race that durations decide is that the reply to a request  *)
(* begins before the timeout.  The timeout of 10 ns after a reception is   *)
(* "short": nothing else happens before it.                                *)
(***************************************************************************)
EXTENDS Integers, Sequences, SequencesExt

CONSTANTS
    Receivers,
    Load, To, Size,     \* number of MSDUs, the receiver and size of each
    MaxSize,            \* of the buffer, which counts MSDUs
    Capacity, MaxOnAir, \* of BlockACK, in the unit of Size
    Impatient,          \* impatientBAreqTransmission
    Held                \* sizes of what may be stored from other senders

MSDUs == 1..Load

ASSUME LoadAssumption ==
    /\ Load \in Nat /\ To \in [MSDUs -> Receivers]
    /\ Size \in [MSDUs -> Nat \ {0}]
ASSUME CapacityAssumption ==
    /\ MaxSize \in Nat \ {0} /\ MaxOnAir \in Nat \ {0}
    /\ \A n \in MSDUs : Size[n] <= MaxOnAir
    /\ Held \subseteq Nat /\ 0 \in Held
    /\ Capacity \in Nat /\ \A h \in Held : h < Capacity
ASSUME FlagsAssumption == Impatient \in BOOLEAN

Nobody == "nobody"
ASSUME ReceiversAssumption == Nobody \notin Receivers

NoQueue == [to |-> Nobody, nextSN |-> 0, txQueue |-> <<>>, onAir |-> <<>>,
            waitForACK |-> FALSE, baReqRequired |-> FALSE]
NoReply == [from |-> Nobody, ackSNs |-> {}, phase |-> "none"]

VARIABLES
    arrived, expired,   \* MSDUs so far; the first ones are past their lifetime
    buffer,             \* Buffer: the MSDUs that wait
    ba,                 \* BlockACK: state, timer, currentTxQueue, ...
    line,               \* frames handed to the units below
    rxQueue,            \* the reception queue of each receiver
    reply,              \* the BA on its way back
    rx,                 \* what the sender receives: "none", "BA", "foreign"
    disturbed,          \* history: another's frame was taken for the BA
    broken              \* an assertion about BAs has failed

source == <<arrived, expired>>
vars == <<source, buffer, ba, line, rxQueue, reply, rx, disturbed, broken>>

Init ==
    /\ arrived = 0 /\ expired = 0
    /\ buffer = <<>>
    /\ ba = [baState |-> "idle", timer |-> "off", queue |-> NoQueue,
             nextTransmissionSN |-> [r \in Receivers |-> 0],
             fate |-> [n \in MSDUs |-> "new"]]      \* history
    /\ line = <<>>
    /\ rxQueue = [r \in Receivers |->
                    [known |-> FALSE, waitingForSN |-> 0, rxStorage |-> <<>>,
                     rxSNs |-> {},
                     first |-> 0, delivered |-> <<>>]]  \* history
    /\ reply = NoReply
    /\ rx = "none"
    /\ disturbed = FALSE /\ broken = FALSE

(* A failed assertion ends the program; the delivery of a frame that has   *)
(* ended comes within 10 ns, before anything else.                         *)
Running == ~broken /\ ba.timer # "short"

-----------------------------------------------------------------------------
SizeOf(entries) ==
    LET sum[i \in 0..Len(entries)] ==
            IF i = 0 THEN 0 ELSE sum[i - 1] + Size[entries[i].id]
    IN  sum[Len(entries)]
SNs(entries) == {entries[i].sn : i \in 1..Len(entries)}
Ids(entries) == [i \in 1..Len(entries) |-> entries[i].id]
MSDUsIn(s)   == {s[i] : i \in 1..Len(s)}
LifetimeExpired(n) == n <= expired

QueueSize(q) == SizeOf(q.txQueue) + SizeOf(q.onAir)

(* What is stored from other senders, held, uses up capacity as well.      *)
HasCapacity(q, held) ==
    /\ QueueSize(q) + held < Capacity
    /\ ~q.waitForACK
    /\ QueueSize(q) < MaxOnAir

Accepts(q, n, held) ==
    (q = NoQueue \/ q.to = To[n]) /\ HasCapacity(q, held)

(* The elements of s at the positions in I, in their order.  A recursive   *)
(* function, since nothing can be proved about the standard SelectSeq.     *)
Selected(s, I) ==
    LET upTo[n \in 0..Len(s)] ==
            IF n = 0 THEN <<>>
            ELSE IF n \in I THEN Append(upTo[n - 1], s[n]) ELSE upTo[n - 1]
    IN  upTo[Len(s)]

(* The buffer drops the MSDUs that have expired and, on overflow, the last *)
(* one.                                                                    *)
Alive(b) == Selected(b, {i \in 1..Len(b) : ~LifetimeExpired(b[i])})

Dropped(m, lost) ==
    [m EXCEPT !.fate = [n \in MSDUs |-> IF n \in lost THEN "dropped" ELSE @[n]]]

Kept(b) == IF Len(b) > MaxSize THEN Front(b) ELSE b

Arrive ==
    LET n    == arrived + 1
        kept == Kept(Append(Alive(buffer), n))
    IN  /\ n <= Load /\ Running
        /\ arrived' = n
        /\ buffer' = kept
        /\ ba' = Dropped([ba EXCEPT !.fate[n] = "buffered"],
                         (MSDUsIn(buffer) \cup {n}) \ MSDUsIn(kept))
        /\ UNCHANGED <<expired, line, rxQueue, reply, rx, disturbed, broken>>

(* Lifetimes are the same for all and begin with the arrival.              *)
Expire ==
    /\ expired < arrived /\ Running
    /\ expired' = expired + 1
    /\ UNCHANGED <<arrived, buffer, ba, line, rxQueue, reply, rx, disturbed, broken>>

-----------------------------------------------------------------------------
(* Outgoing MSDUs.                                                         *)
Enqueue(q, n) ==
    [q EXCEPT !.nextSN = @ + 1, !.txQueue = Append(@, [id |-> n, sn |-> q.nextSN])]

ProcessOutgoing(m, n) ==
    IF LifetimeExpired(n) THEN Dropped(m, {n})
    ELSE LET q == IF m.queue # NoQueue THEN m.queue
                  ELSE [NoQueue EXCEPT !.to = To[n],
                                       !.nextSN = m.nextTransmissionSN[To[n]]]
         IN  [m EXCEPT !.queue = Enqueue(q, n), !.fate[n] = "queued"]

HandDown(held) ==
    /\ buffer # <<>> /\ Running
    /\ Accepts(ba.queue, Head(buffer), held)
    /\ buffer' = Alive(Tail(buffer))
    /\ ba' = Dropped(ProcessOutgoing(ba, Head(buffer)),
                     MSDUsIn(Tail(buffer)) \ MSDUsIn(Alive(Tail(buffer))))
    /\ UNCHANGED <<source, line, rxQueue, reply, rx, disturbed, broken>>

-----------------------------------------------------------------------------
(* Frames for the units below: the next one that fits, or the request.     *)
Fits(q) ==
    q.txQueue # <<>> /\ SizeOf(q.onAir) + Size[Head(q.txQueue).id] <= MaxOnAir

BAreqIsDue(q) ==
    /\ q.baReqRequired /\ ~Fits(q)
    /\ Impatient \/ q.txQueue # <<>> \/ SizeOf(q.onAir) = MaxOnAir

(* BlockACK delays while the buffer has more for the same receiver.        *)
MoreToCome(q, held) ==
    buffer # <<>> /\ q.to = To[Head(buffer)] /\ HasCapacity(q, held)

HasData(q, held) ==
    ~q.waitForACK /\ ~MoreToCome(q, held) /\ (Fits(q) \/ BAreqIsDue(q))

SendFrame(q) ==
    LET e == Head(q.txQueue)
    IN  /\ line' = Append(line, [kind |-> "I", id |-> e.id, sn |-> e.sn])
        /\ ba' = [ba EXCEPT !.queue = [q EXCEPT !.txQueue = Tail(@),
                                                !.onAir = Append(@, e),
                                                !.baReqRequired = TRUE]]

SendBAreq(q) ==
    /\ line' = Append(line, [kind |-> "BAREQ", id |-> 0, sn |-> Head(q.onAir).sn])
    /\ ba' = [ba EXCEPT !.queue.baReqRequired = FALSE,
                        !.queue.waitForACK = TRUE]

SendDown(held) ==
    /\ ba.queue # NoQueue /\ HasData(ba.queue, held) /\ Running
    /\ IF Fits(ba.queue) THEN SendFrame(ba.queue) ELSE SendBAreq(ba.queue)
    /\ UNCHANGED <<source, buffer, rxQueue, reply, rx, disturbed, broken>>

-----------------------------------------------------------------------------
(* The walk with one iterator over the frames on the air and one over the  *)
(* acknowledged numbers: a number that is not on the air stops the second. *)
Matched(q, ackSNs) ==
    {s \in ackSNs : \A t \in ackSNs : t <= s => t \in SNs(q.onAir)}

AckedIn(q, sns) ==
    {q.onAir[i].id : i \in {j \in 1..Len(q.onAir) : q.onAir[j].sn \in sns}}

Unacked(q, sns) == {i \in 1..Len(q.onAir) : q.onAir[i].sn \notin sns}

(* What failed is sent again, unless it has expired.                       *)
Failed(q, sns) ==
    Selected(q.onAir, {i \in Unacked(q, sns) : ~LifetimeExpired(q.onAir[i].id)})

RequeueBehind(q, sns) == q.txQueue \o Failed(q, sns)

(* It comes first and in order.                                            *)
Requeue(q, sns) == Failed(q, sns) \o q.txQueue

ProcessIncomingACK(q, sns) ==
    [q EXCEPT !.txQueue = Requeue(q, sns), !.onAir = <<>>, !.waitForACK = FALSE]

(* A queue that is empty is deleted; the receiver keeps its next number.   *)
ReleasedUnsaved(m, q) ==
    [m EXCEPT !.queue = IF q.txQueue # <<>> THEN q ELSE NoQueue]

Released(m, q) ==
    IF q.txQueue # <<>> THEN [m EXCEPT !.queue = q]
    ELSE [m EXCEPT !.queue = NoQueue, !.nextTransmissionSN[q.to] = q.nextSN]

ProcessIncomingACKSNs(m, ackSNs) ==
    LET sns  == Matched(m.queue, ackSNs)
        lost == {m.queue.onAir[i].id : i \in
                    {j \in Unacked(m.queue, sns) : LifetimeExpired(m.queue.onAir[j].id)}}
        n    == [Dropped(m, lost) EXCEPT
                    !.timer = "off", !.baState = "idle",
                    !.fate = [k \in MSDUs |-> IF k \in AckedIn(m.queue, sns)
                                              THEN "confirmed" ELSE @[k]]]
    IN  Released(n, ProcessIncomingACK(m.queue, sns))

ImpatientTimeout(m) == ProcessIncomingACKSNs(m, {})

Timeout(m) ==
    IF m.baState = "receiving" THEN [m EXCEPT !.timer = "off"]
    ELSE ProcessIncomingACKSNs(m, {})

OnTxStart(m) == [m EXCEPT !.baState = "idle"]

OnTxEndOfBAreq(m) == [m EXCEPT !.baState = "waitForACK", !.timer = "ack"]

OnRxStart(m) ==
    [m EXCEPT !.baState = IF @ = "waitForACK" THEN "receiving" ELSE @]

OnRxEnd(m) ==
    IF m.baState # "receiving" THEN m
    ELSE [m EXCEPT !.baState = "receptionFinished",
                   !.timer = IF @ = "off" THEN "short" ELSE @]

OnRxErrorWaits(m) ==
    IF m.baState = "receiving" THEN [m EXCEPT !.baState = "waitForACK"] ELSE m

OnRxError(m) ==
    IF m.baState # "receiving" THEN m
    ELSE LET n == [m EXCEPT !.baState = "waitForACK"]
         IN  IF m.timer = "off" THEN Timeout(n) ELSE n

-----------------------------------------------------------------------------
(* Reception queues.                                                       *)
Known(q, f) ==
    IF q.known THEN q
    ELSE [q EXCEPT !.known = TRUE, !.waitingForSN = f.sn, !.first = f.id]

(* Deliver from the storage what is next in line.                          *)
PurgeRxStorage(q) ==
    LET s == q.rxStorage
        k == CHOOSE j \in 0..Len(s) :
                /\ \A i \in 1..j : s[i].sn = q.waitingForSN + i - 1
                /\ j = Len(s) \/ s[j + 1].sn # q.waitingForSN + j
    IN  [q EXCEPT !.delivered = @ \o Ids(SubSeq(s, 1, k)),
                  !.rxStorage = SubSeq(s, k + 1, Len(s)),
                  !.waitingForSN = @ + k]

Below(s, sn) == Selected(s, {i \in 1..Len(s) : s[i].sn < sn})
From(s, sn)  == Selected(s, {i \in 1..Len(s) : s[i].sn >= sn})

(* Only what is not stored yet is stored.                                  *)
Store(s, e) == Below(s, e.sn) \o <<e>> \o From(s, e.sn)

StoreOldData(old, f) ==
    LET q == [Known(old, f) EXCEPT !.rxSNs = @ \cup {f.sn}]
    IN  IF f.sn = q.waitingForSN
        THEN PurgeRxStorage([q EXCEPT !.waitingForSN = @ + 1,
                                      !.delivered = Append(@, f.id)])
        ELSE IF f.sn \in SNs(q.rxStorage) THEN q
        ELSE [q EXCEPT !.rxStorage = Store(@, [id |-> f.id, sn |-> f.sn])]

ProcessIncomingData(old, f) ==
    LET q == [Known(old, f) EXCEPT !.rxSNs = @ \cup {f.sn}]
    IN  IF f.sn = q.waitingForSN
        THEN PurgeRxStorage([q EXCEPT !.waitingForSN = @ + 1,
                                      !.delivered = Append(@, f.id)])
        ELSE IF f.sn < q.waitingForSN \/ f.sn \in SNs(q.rxStorage) THEN q
        ELSE [q EXCEPT !.rxStorage = Store(@, [id |-> f.id, sn |-> f.sn])]

(* The request gives up what is below its number: the stored frames are    *)
(* delivered with gaps and old numbers are not acknowledged.               *)
ProcessIncomingACKreq(old, f) ==
    LET minSN == f.sn
        q == Known(old, f)
    IN  PurgeRxStorage(
            [q EXCEPT !.delivered = @ \o Ids(Below(q.rxStorage, minSN)),
                      !.rxStorage = From(@, minSN),
                      !.waitingForSN = IF minSN > @ THEN minSN ELSE @,
                      !.rxSNs = {}])

AckSNs(old, minSN) == {s \in old.rxSNs : s >= minSN}

-----------------------------------------------------------------------------
(* Transmissions of the sender: the first frame of the line.               *)
TransmitData(ok) ==
    LET f == Head(line)  r == ba.queue.to
    IN  /\ f.kind = "I"
        /\ ba' = OnTxStart(ba)
        /\ rxQueue' = IF ok THEN [rxQueue EXCEPT ![r] = ProcessIncomingData(@, f)]
                      ELSE rxQueue
        /\ UNCHANGED reply

TransmitBAreq(ok) ==
    LET f == Head(line)  r == ba.queue.to
    IN  /\ f.kind = "BAREQ"
        /\ ba' = OnTxEndOfBAreq(OnTxStart(ba))
        /\ IF ok
           THEN /\ rxQueue' = [rxQueue EXCEPT ![r] = ProcessIncomingACKreq(@, f)]
                /\ reply' = [from |-> r, ackSNs |-> AckSNs(rxQueue[r], f.sn),
                             phase |-> "sifs"]
           ELSE UNCHANGED <<rxQueue, reply>>

Transmit(ok) ==
    /\ line # <<>> /\ line' = Tail(line)
    /\ rx = "none" /\ reply = NoReply /\ Running
    /\ TransmitData(ok) \/ TransmitBAreq(ok)
    /\ disturbed' = FALSE
    /\ UNCHANGED <<source, buffer, rx, broken>>

(* RTS/CTS fails for the block as a whole, request included.               *)
OnTransmissionHasFailed ==
    /\ line # <<>> /\ Last(line).kind = "BAREQ"
    /\ rx = "none" /\ reply = NoReply /\ Running
    /\ line' = <<>>
    /\ ba' = ProcessIncomingACKSNs(OnTxStart(ba), {})
    /\ UNCHANGED <<source, buffer, rxQueue, reply, rx, disturbed, broken>>

-----------------------------------------------------------------------------
(* Receptions of the sender.                                               *)
Interrupted(m) == IF rx = "none" THEN m ELSE OnRxError(m)

ReplyStarts(heard) ==
    /\ reply.phase = "sifs" /\ Running
    /\ reply' = [reply EXCEPT !.phase = "air"]
    /\ IF heard THEN rx' = "BA" /\ ba' = OnRxStart(Interrupted(ba))
       ELSE UNCHANGED <<rx, ba>>
    /\ UNCHANGED <<source, buffer, line, rxQueue, disturbed, broken>>

Expected(m, from) ==
    m.queue.to = from /\ m.queue.waitForACK /\ m.queue.onAir # <<>>
        /\ m.baState \in {"receptionFinished", "receiving"}

ReplyDelivered ==
    LET m == OnRxEnd(ba)
    IN  /\ broken' = ~Expected(m, reply.from)
        /\ ba' = IF Expected(m, reply.from)
                 THEN ProcessIncomingACKSNs(m, reply.ackSNs) ELSE m

ReplyEnds(outcome) ==
    /\ reply.phase = "air" /\ Running
    /\ reply' = NoReply
    /\ rx' = IF rx = "BA" THEN "none" ELSE rx
    /\ IF rx = "BA" /\ outcome = "delivered" THEN ReplyDelivered
       ELSE /\ ba' = IF rx # "BA" THEN ba
                     ELSE IF outcome = "lost" THEN OnRxEnd(ba) ELSE OnRxError(ba)
            /\ UNCHANGED broken
    /\ UNCHANGED <<source, buffer, line, rxQueue, disturbed>>

(* Frames of other stations, while a BA is waited for.  At most one ends   *)
(* within the SIFS before the BA.                                          *)
ForeignStarts ==
    /\ ba.baState # "idle" /\ Running
    /\ rx' = "foreign"
    /\ ba' = OnRxStart(Interrupted(ba))
    /\ UNCHANGED <<source, buffer, line, rxQueue, reply, disturbed, broken>>

ForeignEnds(ok) ==
    /\ rx = "foreign" /\ Running
    /\ reply.phase = "sifs" => ~disturbed
    /\ rx' = "none"
    /\ ba' = IF ok THEN OnRxEnd(ba) ELSE OnRxError(ba)
    /\ disturbed' = (disturbed \/ reply.phase = "sifs")
    /\ UNCHANGED <<source, buffer, line, rxQueue, reply, broken>>

(* The own reply to such a frame: too late to meet the start of the BA.    *)
OwnReply ==
    /\ ba.baState = "receptionFinished"
    /\ reply.phase # "sifs" /\ Running
    /\ rx' = "none"
    /\ ba' = OnTxStart(Interrupted(ba))
    /\ UNCHANGED <<source, buffer, line, rxQueue, reply, disturbed, broken>>

OnTimeout ==
    /\ ~broken /\ ba.timer # "off" /\ (ba.timer = "ack" => reply.phase # "sifs")
    /\ ba' = Timeout(ba)
    /\ UNCHANGED <<source, buffer, line, rxQueue, reply, rx, disturbed, broken>>

(* What goes on without anything new from outside.                         *)
Work ==
    \/ \E held \in Held : HandDown(held) \/ SendDown(held)
    \/ OnTimeout
    \/ \E ok \in BOOLEAN : Transmit(ok) \/ ForeignEnds(ok)
    \/ \E heard \in BOOLEAN : ReplyStarts(heard)
    \/ \E outcome \in {"delivered", "lost", "error"} : ReplyEnds(outcome)

Next ==
    \/ Arrive \/ Expire \/ Work
    \/ OnTransmissionHasFailed \/ ForeignStarts \/ OwnReply

Spec == Init /\ [][Next]_vars

(* Lifetimes end, and the scheduler goes on: the units below accept and    *)
(* transmit what they are offered, receptions end and timers expire.       *)
Fairness == SF_vars(Expire) /\ WF_vars(Work) /\ WF_vars(OnTimeout)

FairSpec == Spec /\ Fairness

-----------------------------------------------------------------------------
(* Through retransmissions, expiry and partial acknowledgements the frames *)
(* on the air, and behind them those that wait, stay in the order of their *)
(* numbers (an assertion of processIncomingACK), within the window; a      *)
(* request is the last frame of its block and names the first on the air.  *)
(* Every number in a BA that the sender may still hear belongs to a frame  *)
(* on the air, so that the walk over both never stops early: what the      *)
(* receiver has got of this block is confirmed, not sent again.            *)
WindowOrdered ==
    LET q == ba.queue  all == q.onAir \o q.txQueue
    IN  /\ \A i, j \in 1..Len(all) :
              i < j => all[i].sn < all[j].sn /\ all[i].id < all[j].id
        /\ \A i \in 1..Len(all) :
              all[i].sn < q.nextSN /\ To[all[i].id] = q.to
        /\ q # NoQueue => all # <<>>
        /\ SizeOf(q.onAir) <= MaxOnAir
        /\ \A i \in 1..Len(line) :
              IF line[i].kind = "I" THEN line[i].sn \in SNs(q.onAir)
              ELSE i = Len(line) /\ line[i].sn = Head(q.onAir).sn
        /\ (reply.phase = "sifs" \/ rx = "BA") /\ ~disturbed =>
              reply.ackSNs \subseteq SNs(q.onAir)

(* Every wait ends, and only a wait is ended.  While the queue is blocked  *)
(* by waitForACK something is under way that unblocks it: the request, the *)
(* timer, or a reception that must end; the timer never runs for nothing   *)
(* (assertions of onTimeout and onTxEnd); and a BA comes only while its    *)
(* queue waits for it (assertions of processIncoming and                   *)
(* processIncomingACK), also when frames of other stations and own replies *)
(* have come in between.                                                   *)
RepliesAreExpected ==
    /\ ba.queue.waitForACK =>
          \/ \E i \in 1..Len(line) : line[i].kind = "BAREQ"
          \/ ba.timer # "off"
          \/ ba.baState = "receiving" /\ rx # "none"
    /\ (ba.timer # "off" \/ ba.baState # "idle") => ba.queue.waitForACK
    /\ ba.baState = "waitForACK" => ba.timer # "off"
    /\ broken => disturbed

Received(n) ==
    LET q == rxQueue[To[n]]
    IN  n \in MSDUsIn(q.delivered) \cup MSDUsIn(Ids(q.rxStorage))

(* The receiver passes MSDUs up in order and at most once, whatever blocks *)
(* are lost, repeated, cut by expiry or interleaved with other receivers.  *)
(* A stored MSDU waits for one that the sender still holds or has dropped, *)
(* never for one that is confirmed or that was never sent.                 *)
DeliveredInOrder ==
    \A r \in Receivers : LET d == rxQueue[r].delivered IN
        /\ \A i, j \in 1..Len(d) : i < j => d[i] < d[j]
        /\ \A n \in MSDUsIn(Ids(rxQueue[r].rxStorage)) : \E k \in 1..(n - 1) :
              /\ To[k] = r /\ ba.fate[k] \in {"queued", "dropped"}
              /\ ~Received(k)

(* What the sender counts as confirmed has been received, except an MSDU   *)
(* older than the first one this receiver ever got from the sender.        *)
AckedIsReceived ==
    \A n \in MSDUs :
        ba.fate[n] = "confirmed" => Received(n) \/ n < rxQueue[To[n]].first

(* Again and again nothing is left, every MSDU being confirmed or dropped: *)
(* no loss, overlapping reception or change of receiver stops the queues   *)
(* for ever.                                                               *)
EverythingEnds ==
    []<>(broken \/ \A n \in MSDUs : ba.fate[n] \notin {"buffered", "queued"})

=============================================================================
