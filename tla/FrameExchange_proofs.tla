------------------------- MODULE FrameExchange_proofs -------------------------
(***************************************************************************)
(* Proofs about FrameExchange, for any loads, sizes, limits and times: the *)
(* retry counters stay below their limits, the exchange implements the     *)
(* link, and no MSDU is forgotten.                                         *)
(*                                                                         *)
(* Inv: That the counters stay below their limits is no matter of the      *)
(* counters alone.  The counter of the other kind of frame is zero when an *)
(* MSDU ends because there is one copy of it only: it waits to be sent, is *)
(* held by RTSCTS, waits for SIFS, is on the air, or its acknowledgement   *)
(* is waited for, and never two of these at once (Coherent and Carried).   *)
(* So a failure is counted for the MSDU it belongs to, the start of a long *)
(* frame clears its short counter, and an acknowledgement finds that zero. *)
(*                                                                         *)
(* LinkInv: Acknowledgements carry no number, so what they confirm is a    *)
(* matter of time: one that ends after the timeout ends before the station *)
(* that gave up could have sent another frame (AckOK).                     *)
(*                                                                         *)
(* KeptInv: That a CTS or an ACK finds a station that waits for it is a    *)
(* matter of time as well: the preamble of the reply ends before the       *)
(* timeout, and before anything the station could have sent meanwhile      *)
(* (AnswerOK).  The SIFS delay is empty when a frame ends because nothing  *)
(* is sent, except by the peer, in less than SIFS (SifsOK).                *)
(***************************************************************************)
EXTENDS FrameExchange, TLAPS

USE StationsAssumption, SizeAssumption, LoadAssumption, LimitsAssumption,
    TimesAssumption

Ticks == {t \in Int : t >= Off}
Kinds == {"none", "DATA", "RTS", "CTS", "ACK"}
Frames == [kind : Kinds, sn : MSDUs \cup {None}]

MacTypes ==
    [active : MSDUs \cup {None}, counter : Nat, sendNow : BOOLEAN,
     ackState : {"none", "sendingACK", "waitForACK", "receiving",
                 "receptionFinished"},
     ackTimer : Ticks,
     src : Nat, lrc : Nat, ssrc : Nat, slrc : Nat,
     state : {"idle", "transmitRTS", "waitForCTS", "receiveCTS",
              "receptionFinished"},
     ctsTimer : Ticks, pendingRTS : BOOLEAN, pendingMPDU : MSDUs \cup {None}]

(* The acknowledgement of the active MSDU is waited for.                   *)
AwaitsACK(m) ==
    \/ m.ackTimer # Off
    \/ m.ackState \in {"waitForACK", "receiving", "receptionFinished"}

(* One copy of the active MSDU inside the ARQ and RTSCTS, at most.         *)
OneCopy(m) ==
    /\ m.sendNow => m.active # None /\ m.pendingMPDU = None /\ ~AwaitsACK(m)
    /\ AwaitsACK(m) => m.active # None /\ m.pendingMPDU = None
    /\ m.pendingMPDU # None => m.pendingMPDU = m.active
    /\ m.state # "idle" => m.pendingMPDU # None /\ ~m.pendingRTS
    /\ m.pendingRTS => m.pendingMPDU # None
    /\ m.ctsTimer # Off => m.state # "idle"

Counted(m) ==
    /\ m.src < ShortRetryLimit /\ m.lrc < LongRetryLimit
    /\ m.active = None => m.src = 0 /\ m.lrc = 0
    /\ m.active # None /\ ~IsLong(m.active) => m.lrc = 0
    /\ AwaitsACK(m) /\ IsLong(m.active) => m.src = 0

Coherent(m) == m \in MacTypes /\ OneCopy(m) /\ Counted(m)

(* The ARQ and RTSCTS hold no copy of the active MSDU.                     *)
GaveAway(m) ==
    m.active # None /\ ~m.sendNow /\ m.pendingMPDU = None /\ ~AwaitsACK(m)

(* A copy that waits for SIFS or is on the air is the only one.            *)
Carried(m, waiting, onAir) ==
    /\ waiting.kind = "DATA" \/ onAir.kind = "DATA" => GaveAway(m)
    /\ waiting.kind = "DATA" => waiting.sn = m.active /\ onAir.kind # "DATA"
    /\ onAir.kind = "DATA" =>
           onAir.sn = m.active /\ (IsLong(m.active) => m.src = 0)

Types ==
    /\ mac \in [Stations -> MacTypes]
    /\ sifs \in [Stations -> [frame : Frames, left : Ticks]]
    /\ tx \in [Stations ->
                  [phase : {"off", "preamble", "psdu"}, frame : Frames,
                   left : Ticks]]
    /\ upper \in [Stations -> Nat]

Inv ==
    /\ Types
    /\ \A s \in Stations : /\ Coherent(mac[s])
                           /\ Carried(mac[s], sifs[s].frame, tx[s].frame)

-----------------------------------------------------------------------------
(* The handlers keep a station coherent.                                   *)

(* No timer and no MSDU are of the types of timers and MSDUs.              *)
LEMMA NothingTyped == Off \in Ticks /\ None \in MSDUs \cup {None}
  BY DEF Ticks, Off

(* TryToSend moves the only copy from the ARQ to RTSCTS.                   *)
LEMMA TryToSendCoherent ==
    ASSUME NEW m, Coherent(m)
    PROVE  Coherent(TryToSend(m)) /\ TryToSend(m).active = m.active
  <1> USE DEF Coherent
  <1>1. CASE m.sendNow /\ UsesRTS(m.active) /\ m.pendingMPDU = None
    <2> DEFINE r == [m EXCEPT !.sendNow = FALSE, !.pendingMPDU = m.active,
                              !.pendingRTS = TRUE]
    <2>1. TryToSend(m) = r
      BY <1>1 DEF TryToSend
    <2>2. r \in MacTypes
      BY DEF MacTypes
    <2>3. /\ r.sendNow = FALSE /\ r.pendingMPDU = m.active
          /\ r.pendingRTS = TRUE
          /\ r.active = m.active /\ r.ackTimer = m.ackTimer
          /\ r.ackState = m.ackState /\ r.state = m.state
          /\ r.ctsTimer = m.ctsTimer /\ r.src = m.src /\ r.lrc = m.lrc
      BY DEF MacTypes
    <2>4. OneCopy(r)
      BY <1>1, <2>3 DEF OneCopy, AwaitsACK
    <2>5. Counted(r)
      BY <2>3 DEF Counted, AwaitsACK
    <2> QED
      BY <2>1, <2>2, <2>3, <2>4, <2>5
  <1>2. CASE ~(m.sendNow /\ UsesRTS(m.active) /\ m.pendingMPDU = None)
    BY <1>2 DEF TryToSend
  <1> QED
    BY <1>1, <1>2

(* A new MSDU finds the ARQ without another and the counters at zero.      *)
LEMMA ProcessOutgoingCoherent ==
    ASSUME NEW m, Coherent(m), m.active = None, NEW n \in MSDUs
    PROVE  Coherent(ProcessOutgoing(m, n))
  <1> DEFINE c == IF BianchiRetryCounter THEN 1 ELSE m.ssrc + m.slrc + 1
             r == [m EXCEPT !.active = n, !.sendNow = TRUE, !.counter = c]
  <1> USE DEF Coherent
  <1>0. c \in Nat
    BY DEF MacTypes
  <1> HIDE DEF c
  <1>1. r \in MacTypes
    BY <1>0 DEF MacTypes
  <1>2. /\ r.sendNow = TRUE /\ r.active = n /\ r.pendingMPDU = m.pendingMPDU
        /\ r.pendingRTS = m.pendingRTS /\ r.ackTimer = m.ackTimer
        /\ r.ackState = m.ackState /\ r.state = m.state
        /\ r.ctsTimer = m.ctsTimer /\ r.src = m.src /\ r.lrc = m.lrc
    BY DEF MacTypes
  <1>3. n # None /\ n \in Nat
    BY DEF MSDUs, None
  <1>4. OneCopy(r)
    BY <1>2, <1>3 DEF OneCopy, AwaitsACK
  <1>5. Counted(r)
    BY <1>2, <1>3 DEF Counted, OneCopy, AwaitsACK
  <1>6. ProcessOutgoing(m, n) = TryToSend(r)
    BY DEF ProcessOutgoing, c
  <1> HIDE DEF r
  <1>7. Coherent(TryToSend(r))
    BY <1>1, <1>4, <1>5, TryToSendCoherent
  <1> QED
    BY <1>6, <1>7

(* What a failure leaves, before another copy is offered.                  *)
LEMMA FailureCoherent ==
    ASSUME NEW m \in MacTypes, m.active # None,
           m.src <= ShortRetryLimit, m.lrc <= LongRetryLimit,
           ~IsLong(m.active) => m.lrc = 0,
           m.state = "idle", ~m.pendingRTS, m.pendingMPDU = None,
           m.ctsTimer = Off, m.ackTimer = Off, m.ackState = "none"
    PROVE  /\ ~AtLimit(m) =>
                 \A c \in Nat :
                    Coherent([m EXCEPT !.sendNow = TRUE, !.counter = c])
           /\ Coherent([m EXCEPT !.src = 0, !.lrc = 0, !.sendNow = FALSE,
                                 !.active = None])
  <1>1. ASSUME ~AtLimit(m), NEW c \in Nat
        PROVE  Coherent([m EXCEPT !.sendNow = TRUE, !.counter = c])
    <2> DEFINE r == [m EXCEPT !.sendNow = TRUE, !.counter = c]
    <2>1. r \in MacTypes
      BY DEF MacTypes
    <2>2. /\ r.sendNow = TRUE /\ r.active = m.active
          /\ r.pendingMPDU = m.pendingMPDU
          /\ r.pendingRTS = m.pendingRTS /\ r.ackTimer = m.ackTimer
          /\ r.ackState = m.ackState /\ r.state = m.state
          /\ r.ctsTimer = m.ctsTimer /\ r.src = m.src /\ r.lrc = m.lrc
      BY DEF MacTypes
    <2>3. OneCopy(r)
      BY <2>2 DEF OneCopy, AwaitsACK
    <2>4. m.src < ShortRetryLimit /\ m.lrc < LongRetryLimit
      BY <1>1 DEF AtLimit, MacTypes
    <2>5. Counted(r)
      BY <2>2, <2>4 DEF Counted, AwaitsACK
    <2> QED
      BY <2>1, <2>3, <2>5 DEF Coherent
  <1>2. Coherent([m EXCEPT !.src = 0, !.lrc = 0, !.sendNow = FALSE,
                           !.active = None])
    <2> DEFINE r == [m EXCEPT !.src = 0, !.lrc = 0, !.sendNow = FALSE,
                              !.active = None]
    <2>1. r \in MacTypes
      BY DEF MacTypes
    <2>2. /\ r.sendNow = FALSE /\ r.active = None
          /\ r.pendingMPDU = m.pendingMPDU
          /\ r.pendingRTS = m.pendingRTS /\ r.ackTimer = m.ackTimer
          /\ r.ackState = m.ackState /\ r.state = m.state
          /\ r.ctsTimer = m.ctsTimer /\ r.src = 0 /\ r.lrc = 0
      BY DEF MacTypes
    <2>3. OneCopy(r)
      BY <2>2 DEF OneCopy, AwaitsACK
    <2>4. Counted(r)
      BY <2>2 DEF Counted, AwaitsACK
    <2> QED
      BY <2>1, <2>3, <2>4 DEF Coherent
  <1> QED
    BY <1>1, <1>2

(* The retry counter that is written into the command.                     *)
LEMMA RetryCounterType ==
    ASSUME NEW m \in MacTypes PROVE RetryCounter(m) \in Nat
  BY DEF MacTypes, RetryCounter, Reduced

(* A failure adds one to the counter of its kind, and to no other.         *)
LEMMA CountFields ==
    ASSUME NEW m \in MacTypes
    PROVE  /\ CountShort(m) \in MacTypes /\ CountLong(m) \in MacTypes
           /\ CountShort(m).src = m.src + 1 /\ CountShort(m).lrc = m.lrc
           /\ CountLong(m).src = m.src /\ CountLong(m).lrc = m.lrc + 1
  <1>1. CountShort(m) \in MacTypes /\ CountLong(m) \in MacTypes
    <2>1. /\ m.src + 1 \in Nat /\ m.ssrc + 1 \in Nat
          /\ m.lrc + 1 \in Nat /\ m.slrc + 1 \in Nat
      BY DEF MacTypes
    <2>2. /\ CountShort(m) = [m EXCEPT !.src = m.src + 1, !.ssrc = m.ssrc + 1]
          /\ CountLong(m) = [m EXCEPT !.lrc = m.lrc + 1, !.slrc = m.slrc + 1]
      BY DEF CountShort, CountLong, MacTypes
    <2> QED
      BY <2>1, <2>2, ZenonT(30) DEF MacTypes
  <1>2. CountShort(m).src = m.src + 1 /\ CountShort(m).lrc = m.lrc
    BY DEF CountShort, MacTypes
  <1>3. CountLong(m).src = m.src /\ CountLong(m).lrc = m.lrc + 1
    BY DEF CountLong, MacTypes
  <1> QED
    BY <1>1, <1>2, <1>3

(* A failure is counted: the MSDU is offered again, or is dropped.         *)
LEMMA TransmissionHasFailedCoherent ==
    ASSUME NEW m \in MacTypes, NEW expired, m.active # None,
           m.src <= ShortRetryLimit, m.lrc <= LongRetryLimit,
           ~IsLong(m.active) => m.lrc = 0,
           m.state = "idle", ~m.pendingRTS, m.pendingMPDU = None,
           m.ctsTimer = Off
    PROVE  Coherent(TransmissionHasFailed(m, expired))
  <1> DEFINE n == [m EXCEPT !.ackTimer = Off, !.ackState = "none"]
             c == RetryCounter(m)
  <1>1. n \in MacTypes
    BY NothingTyped DEF MacTypes
  <1>2. /\ n.ackTimer = Off /\ n.ackState = "none"
        /\ n.active = m.active /\ n.src = m.src /\ n.lrc = m.lrc
        /\ n.state = m.state /\ n.pendingRTS = m.pendingRTS
        /\ n.pendingMPDU = m.pendingMPDU /\ n.ctsTimer = m.ctsTimer
    BY DEF MacTypes
  <1>3. AtLimit(n) <=> AtLimit(m)
    BY <1>2 DEF AtLimit
  <1>4. c \in Nat
    BY RetryCounterType
  <1>5. TransmissionHasFailed(m, expired) =
            IF AtLimit(m) \/ expired
            THEN [n EXCEPT !.src = 0, !.lrc = 0, !.sendNow = FALSE,
                           !.active = None]
            ELSE TryToSend([n EXCEPT !.sendNow = TRUE, !.counter = c])
    BY DEF TransmissionHasFailed
  <1> HIDE DEF n, c
  <1>6. Coherent([n EXCEPT !.src = 0, !.lrc = 0, !.sendNow = FALSE,
                           !.active = None])
    BY <1>1, <1>2, FailureCoherent
  <1>7. CASE AtLimit(m) \/ expired
    BY <1>5, <1>6, <1>7
  <1>8. CASE ~(AtLimit(m) \/ expired)
    <2>1. Coherent([n EXCEPT !.sendNow = TRUE, !.counter = c])
      BY <1>1, <1>2, <1>3, <1>4, <1>8, FailureCoherent
    <2> QED
      BY <1>5, <1>8, <2>1, TryToSendCoherent
  <1> QED
    BY <1>7, <1>8

(* The timeout of the acknowledgement.                                     *)
LEMMA AckTimeoutCoherent ==
    ASSUME NEW m, Coherent(m), AwaitsACK(m), NEW expired
    PROVE  Coherent(AckTimeout(m, expired))
  <1> USE DEF Coherent
  <1>1. CASE m.ackState = "receiving"
    <2> DEFINE r == [m EXCEPT !.ackTimer = Off]
    <2>1. r \in MacTypes
      BY NothingTyped DEF MacTypes
    <2>2. /\ r.ackTimer = Off /\ r.active = m.active
          /\ r.sendNow = m.sendNow /\ r.pendingMPDU = m.pendingMPDU
          /\ r.pendingRTS = m.pendingRTS
          /\ r.ackState = m.ackState /\ r.state = m.state
          /\ r.ctsTimer = m.ctsTimer /\ r.src = m.src /\ r.lrc = m.lrc
      BY DEF MacTypes
    <2>3. OneCopy(r)
      BY <1>1, <2>2 DEF OneCopy, AwaitsACK
    <2>4. Counted(r)
      BY <1>1, <2>2 DEF Counted, AwaitsACK
    <2> QED
      BY <1>1, <2>1, <2>3, <2>4 DEF AckTimeout
  <1>2. CASE m.ackState # "receiving"
    <2> DEFINE c == IF IsLong(m.active) THEN CountLong(m) ELSE CountShort(m)
    <2>1. c \in MacTypes
      BY CountFields
    <2>2. /\ c.src <= ShortRetryLimit /\ c.lrc <= LongRetryLimit
          /\ ~IsLong(m.active) => c.lrc = 0
      <3>1. /\ m.src \in Nat /\ m.lrc \in Nat
            /\ m.src < ShortRetryLimit /\ m.lrc < LongRetryLimit
            /\ ~IsLong(m.active) => m.lrc = 0
        BY DEF MacTypes, Counted, OneCopy
      <3>2. CASE IsLong(m.active)
        BY <3>1, <3>2, CountFields
      <3>3. CASE ~IsLong(m.active)
        BY <3>1, <3>3, CountFields
      <3> QED
        BY <3>2, <3>3
    <2>3. /\ c.active = m.active /\ c.state = m.state
          /\ c.pendingRTS = m.pendingRTS /\ c.pendingMPDU = m.pendingMPDU
          /\ c.ctsTimer = m.ctsTimer
      BY DEF CountShort, CountLong, MacTypes
    <2>4. /\ m.active # None /\ m.state = "idle" /\ ~m.pendingRTS
          /\ m.pendingMPDU = None /\ m.ctsTimer = Off
      BY DEF OneCopy
    <2>5. AckTimeout(m, expired) = TransmissionHasFailed(c, expired)
      BY <1>2 DEF AckTimeout
    <2> HIDE DEF c
    <2>6. Coherent(TransmissionHasFailed(c, expired))
      BY <2>1, <2>2, <2>3, <2>4, TransmissionHasFailedCoherent
    <2> QED
      BY <2>5, <2>6
  <1> QED
    BY <1>1, <1>2

(* The timeout of the CTS: RTSCTS releases its copy after the ARQ has      *)
(* counted the failure, and only then the ARQ can offer the MSDU again.    *)
LEMMA CtsTimeoutCoherent ==
    ASSUME NEW m, Coherent(m), m.state # "idle", NEW expired
    PROVE  Coherent(CtsTimeout(m, expired))
  <1> USE DEF Coherent
  <1>1. CASE m.state = "receiveCTS"
    <2> DEFINE r == [m EXCEPT !.ctsTimer = Off]
    <2>1. r \in MacTypes
      BY NothingTyped DEF MacTypes
    <2>2. /\ r.ctsTimer = Off /\ r.active = m.active
          /\ r.sendNow = m.sendNow /\ r.pendingMPDU = m.pendingMPDU
          /\ r.pendingRTS = m.pendingRTS /\ r.ackTimer = m.ackTimer
          /\ r.ackState = m.ackState /\ r.state = m.state
          /\ r.src = m.src /\ r.lrc = m.lrc
      BY DEF MacTypes
    <2>3. OneCopy(r)
      BY <2>2 DEF OneCopy, AwaitsACK
    <2>4. Counted(r)
      BY <2>2 DEF Counted, AwaitsACK
    <2> QED
      BY <1>1, <2>1, <2>3, <2>4 DEF CtsTimeout
  <1>2. CASE m.state # "receiveCTS"
    <2> DEFINE c == CountShort(m)
               d == RetryCounter(c)
               n == [c EXCEPT !.ackTimer = Off, !.ackState = "none"]
               k == [n EXCEPT !.pendingMPDU = None, !.state = "idle",
                              !.ctsTimer = Off]
               dropped == [k EXCEPT !.src = 0, !.lrc = 0, !.sendNow = FALSE,
                                    !.active = None]
               again == [k EXCEPT !.sendNow = TRUE, !.counter = d]
    <2>0. /\ m.pendingMPDU # None /\ m.active = m.pendingMPDU /\ ~m.pendingRTS
      BY DEF OneCopy
    <2>1. c \in MacTypes /\ c.src = m.src + 1 /\ c.lrc = m.lrc
      BY CountFields
    <2>2. /\ c.active = m.active /\ c.pendingRTS = m.pendingRTS
          /\ c.pendingMPDU = m.pendingMPDU
      BY DEF CountShort, MacTypes
    <2>3. d \in Nat
      BY <2>1, RetryCounterType
    <2> HIDE DEF c, d
    <2>4. n \in MacTypes /\ k \in MacTypes
      <3>1. Off \in Ticks /\ None \in MSDUs \cup {None}
        BY DEF Ticks, Off
      <3>2. n \in MacTypes
        BY <2>1, <3>1 DEF MacTypes
      <3> HIDE DEF n
      <3> QED
        BY <3>1, <3>2 DEF MacTypes
    <2>5. /\ k.active = c.active /\ k.src = c.src /\ k.lrc = c.lrc
          /\ k.pendingRTS = c.pendingRTS
          /\ k.pendingMPDU = None /\ k.state = "idle" /\ k.ctsTimer = Off
          /\ k.ackTimer = Off /\ k.ackState = "none"
          /\ n.pendingMPDU = c.pendingMPDU
      BY <2>1 DEF MacTypes
    <2>6. /\ k.active # None
          /\ k.src <= ShortRetryLimit /\ k.lrc <= LongRetryLimit
          /\ ~IsLong(k.active) => k.lrc = 0
      BY <2>0, <2>1, <2>2, <2>5 DEF Counted, MacTypes
    <2>7. Coherent(dropped) /\ (~AtLimit(c) => Coherent(again))
      <3>1. AtLimit(k) <=> AtLimit(c)
        BY <2>5 DEF AtLimit
      <3> HIDE DEF k
      <3> QED
        BY <2>0, <2>2, <2>3, <2>4, <2>5, <2>6, <3>1, FailureCoherent
    <2>8. CASE AtLimit(c) \/ expired
      <3>1. TransmissionHasFailed(c, expired) =
                [n EXCEPT !.src = 0, !.lrc = 0, !.sendNow = FALSE,
                          !.active = None]
        BY <2>8 DEF TransmissionHasFailed
      <3>2. [TransmissionHasFailed(c, expired) EXCEPT
                !.pendingMPDU = None, !.state = "idle", !.ctsTimer = Off]
            = dropped
        BY <2>4, <3>1 DEF MacTypes
      <3>3. CtsTimeout(m, expired) = TryToSend(dropped)
        BY <1>2, <3>2 DEF CtsTimeout, c
      <3> HIDE DEF dropped
      <3> QED
        BY <2>7, <3>3, TryToSendCoherent
    <2>9. CASE ~(AtLimit(c) \/ expired)
      <3> DEFINE a == [n EXCEPT !.sendNow = TRUE, !.counter = d]
      <3>1. TransmissionHasFailed(c, expired) = TryToSend(a)
        BY <2>9 DEF TransmissionHasFailed, d
      <3>2. a.pendingMPDU # None
        BY <2>0, <2>2, <2>4, <2>5 DEF MacTypes
      <3>3. TryToSend(a) = a
        BY <3>2 DEF TryToSend
      <3>4. [a EXCEPT !.pendingMPDU = None, !.state = "idle", !.ctsTimer = Off]
            = again
        BY <2>4 DEF MacTypes
      <3>5. CtsTimeout(m, expired) = TryToSend(again)
        BY <1>2, <3>1, <3>3, <3>4 DEF CtsTimeout, c
      <3> HIDE DEF again
      <3> QED
        BY <2>7, <2>9, <3>5, TryToSendCoherent
    <2> QED
      BY <2>8, <2>9
  <1> QED
    BY <1>1, <1>2

-----------------------------------------------------------------------------
(* Receptions, and the relation of a station to its frames.                *)

(* A station that still holds its copy carries none.                       *)
LEMMA NothingCarried ==
    ASSUME NEW m, NEW w, NEW t, Carried(m, w, t), ~GaveAway(m)
    PROVE  w.kind # "DATA" /\ t.kind # "DATA" /\ \A n : Carried(n, w, t)
  BY DEF Carried

(* The start of a reception is taken for the start of the reply.           *)
LEMMA OnRxStartCoherent ==
    ASSUME NEW m, Coherent(m), NEW w, NEW t, Carried(m, w, t)
    PROVE  Coherent(OnRxStart(m)) /\ Carried(OnRxStart(m), w, t)
  <1> DEFINE r == OnRxStart(m)
  <1> USE DEF Coherent
  <1>1. r \in MacTypes
    BY DEF MacTypes, OnRxStart
  <1>2. /\ r.active = m.active /\ r.sendNow = m.sendNow
        /\ r.pendingMPDU = m.pendingMPDU /\ r.pendingRTS = m.pendingRTS
        /\ r.ackTimer = m.ackTimer /\ r.ctsTimer = m.ctsTimer
        /\ r.src = m.src /\ r.lrc = m.lrc
        /\ r.ackState = IF m.ackState = "waitForACK" THEN "receiving"
                        ELSE m.ackState
        /\ r.state = IF m.state = "waitForCTS" THEN "receiveCTS" ELSE m.state
    BY DEF MacTypes, OnRxStart
  <1> HIDE DEF r
  <1>3. AwaitsACK(r) <=> AwaitsACK(m)
    BY <1>2 DEF AwaitsACK
  <1>4. OneCopy(r)
    BY <1>2, <1>3 DEF OneCopy
  <1>5. Counted(r)
    BY <1>2, <1>3 DEF Counted
  <1>6. Carried(r, w, t)
    BY <1>2, <1>3 DEF Carried, GaveAway
  <1> QED
    BY <1>1, <1>4, <1>5, <1>6 DEF r

(* The reception is over; the reply is expected in this instant.           *)
LEMMA OnRxEndCoherent ==
    ASSUME NEW m, Coherent(m), NEW w, NEW t, Carried(m, w, t)
    PROVE  Coherent(OnRxEnd(m)) /\ Carried(OnRxEnd(m), w, t)
  <1> DEFINE r == OnRxEnd(m)
  <1> USE DEF Coherent
  <1>1. r \in MacTypes
    <2> DEFINE ackTimer ==
                   IF m.ackState = "receiving" /\ m.ackTimer = Off THEN 0
                   ELSE m.ackTimer
               ctsTimer == IF m.state = "receiveCTS" THEN 0 ELSE m.ctsTimer
    <2>1. ackTimer \in Ticks /\ ctsTimer \in Ticks
      BY DEF MacTypes, Ticks, Off
    <2>2. r = [m EXCEPT
                  !.ackState = IF m.ackState = "receiving"
                               THEN "receptionFinished" ELSE m.ackState,
                  !.ackTimer = ackTimer,
                  !.state = IF m.state = "receiveCTS"
                            THEN "receptionFinished" ELSE m.state,
                  !.ctsTimer = ctsTimer]
      BY DEF OnRxEnd, MacTypes
    <2> HIDE DEF ackTimer, ctsTimer, r
    <2> QED
      BY <2>1, <2>2 DEF MacTypes
  <1>2. /\ r.active = m.active /\ r.sendNow = m.sendNow
        /\ r.pendingMPDU = m.pendingMPDU /\ r.pendingRTS = m.pendingRTS
        /\ r.src = m.src /\ r.lrc = m.lrc
        /\ r.ackState = IF m.ackState = "receiving" THEN "receptionFinished"
                        ELSE m.ackState
        /\ r.state = IF m.state = "receiveCTS" THEN "receptionFinished"
                     ELSE m.state
        /\ m.ackState # "receiving" => r.ackTimer = m.ackTimer
        /\ m.state # "receiveCTS" => r.ctsTimer = m.ctsTimer
    BY DEF MacTypes, OnRxEnd
  <1> HIDE DEF r
  <1>3. AwaitsACK(r) <=> AwaitsACK(m)
    BY <1>2 DEF AwaitsACK
  <1>4. OneCopy(r)
    BY <1>2, <1>3 DEF OneCopy
  <1>5. Counted(r)
    BY <1>2, <1>3 DEF Counted
  <1>6. Carried(r, w, t)
    BY <1>2, <1>3 DEF Carried, GaveAway
  <1> QED
    BY <1>1, <1>4, <1>5, <1>6 DEF r

(* An error of the reception: the wait goes on, or its timeout, which is   *)
(* over, takes effect.                                                     *)
LEMMA OnRxErrorACKCoherent ==
    ASSUME NEW m, Coherent(m), NEW expired
    PROVE  Coherent(OnRxErrorACK(m, expired))
  <1> USE DEF Coherent
  <1>1. CASE m.ackState # "receiving"
    BY <1>1 DEF OnRxErrorACK
  <1>2. CASE m.ackState = "receiving"
    <2> DEFINE r == [m EXCEPT !.ackState = "waitForACK"]
    <2>1. r \in MacTypes
      BY DEF MacTypes
    <2>2. /\ r.ackTimer = m.ackTimer /\ r.active = m.active
          /\ r.sendNow = m.sendNow /\ r.pendingMPDU = m.pendingMPDU
          /\ r.pendingRTS = m.pendingRTS
          /\ r.ackState = "waitForACK" /\ r.state = m.state
          /\ r.ctsTimer = m.ctsTimer /\ r.src = m.src /\ r.lrc = m.lrc
      BY DEF MacTypes
    <2>3. OnRxErrorACK(m, expired) =
              IF m.ackTimer = Off THEN AckTimeout(r, expired) ELSE r
      BY <1>2 DEF OnRxErrorACK
    <2> HIDE DEF r
    <2>4. AwaitsACK(r) /\ AwaitsACK(m)
      BY <1>2, <2>2 DEF AwaitsACK
    <2>5. OneCopy(r)
      BY <2>2, <2>4 DEF OneCopy
    <2>6. Counted(r)
      BY <2>2, <2>4 DEF Counted
    <2>7. Coherent(AckTimeout(r, expired))
      BY <2>1, <2>4, <2>5, <2>6, AckTimeoutCoherent
    <2> QED
      BY <2>1, <2>3, <2>5, <2>6, <2>7
  <1> QED
    BY <1>1, <1>2

LEMMA OnRxErrorCTSCoherent ==
    ASSUME NEW m, Coherent(m), NEW expired
    PROVE  Coherent(OnRxErrorCTS(m, expired))
  <1> USE DEF Coherent
  <1>1. CASE m.state # "receiveCTS"
    BY <1>1 DEF OnRxErrorCTS
  <1>2. CASE m.state = "receiveCTS"
    <2> DEFINE r == [m EXCEPT !.state = "waitForCTS"]
    <2>1. r \in MacTypes
      BY DEF MacTypes
    <2>2. /\ r.ackTimer = m.ackTimer /\ r.active = m.active
          /\ r.sendNow = m.sendNow /\ r.pendingMPDU = m.pendingMPDU
          /\ r.pendingRTS = m.pendingRTS
          /\ r.ackState = m.ackState /\ r.state = "waitForCTS"
          /\ r.ctsTimer = m.ctsTimer /\ r.src = m.src /\ r.lrc = m.lrc
      BY DEF MacTypes
    <2>3. OnRxErrorCTS(m, expired) =
              IF m.ctsTimer = Off THEN CtsTimeout(r, expired) ELSE r
      BY <1>2 DEF OnRxErrorCTS
    <2> HIDE DEF r
    <2>4. AwaitsACK(r) <=> AwaitsACK(m)
      BY <2>2 DEF AwaitsACK
    <2>5. OneCopy(r)
      BY <1>2, <2>2, <2>4 DEF OneCopy
    <2>6. Counted(r)
      BY <2>2, <2>4 DEF Counted
    <2>7. Coherent(CtsTimeout(r, expired))
      BY <2>1, <2>2, <2>5, <2>6, CtsTimeoutCoherent
    <2> QED
      BY <2>1, <2>3, <2>5, <2>6, <2>7
  <1> QED
    BY <1>1, <1>2

LEMMA OnRxErrorCoherent ==
    ASSUME NEW m, Coherent(m), NEW w, NEW t, Carried(m, w, t), NEW expired
    PROVE  /\ Coherent(OnRxError(m, expired))
           /\ Carried(OnRxError(m, expired), w, t)
  <1>1. Coherent(OnRxError(m, expired))
    BY OnRxErrorACKCoherent, OnRxErrorCTSCoherent DEF OnRxError
  <1>2. CASE GaveAway(m)
    <2>1. m.ackState # "receiving" /\ m.state # "receiveCTS"
      BY <1>2 DEF GaveAway, AwaitsACK, Coherent, OneCopy
    <2>2. OnRxError(m, expired) = m
      BY <2>1 DEF OnRxError, OnRxErrorACK, OnRxErrorCTS
    <2> QED
      BY <1>1, <2>2
  <1>3. CASE ~GaveAway(m)
    BY <1>1, <1>3, NothingCarried
  <1> QED
    BY <1>2, <1>3

-----------------------------------------------------------------------------
(* Transmissions and their replies.                                        *)

(* A frame goes on the air; the start of a long one clears the counter of  *)
(* its RTS frames.                                                         *)
LEMMA OnTxStartCoherent ==
    ASSUME NEW m, Coherent(m), NEW f, NEW w, w.kind # "DATA",
           f.kind = "DATA" => GaveAway(m) /\ f.sn = m.active
    PROVE  Coherent(OnTxStart(m, f)) /\ Carried(OnTxStart(m, f), w, f)
  <1> USE DEF Coherent
  <1>1. CASE f.kind = "DATA" /\ IsLong(m.active)
    <2> DEFINE r == [m EXCEPT !.src = 0, !.ssrc = 0]
    <2>1. OnTxStart(m, f) = r
      BY <1>1 DEF OnTxStart
    <2>2. r \in MacTypes
      BY DEF MacTypes
    <2>3. /\ r.ackTimer = m.ackTimer /\ r.active = m.active
          /\ r.sendNow = m.sendNow /\ r.pendingMPDU = m.pendingMPDU
          /\ r.pendingRTS = m.pendingRTS
          /\ r.ackState = m.ackState /\ r.state = m.state
          /\ r.ctsTimer = m.ctsTimer /\ r.src = 0 /\ r.lrc = m.lrc
      BY DEF MacTypes
    <2> HIDE DEF r
    <2>4. AwaitsACK(r) <=> AwaitsACK(m)
      BY <2>3 DEF AwaitsACK
    <2>5. OneCopy(r)
      BY <2>3, <2>4 DEF OneCopy
    <2>6. Counted(r)
      BY <2>3, <2>4 DEF Counted
    <2>7. Carried(r, w, f)
      BY <1>1, <2>3, <2>4 DEF Carried, GaveAway
    <2> QED
      BY <2>1, <2>2, <2>5, <2>6, <2>7
  <1>2. CASE ~(f.kind = "DATA" /\ IsLong(m.active))
    <2>1. OnTxStart(m, f) = m
      BY <1>2 DEF OnTxStart
    <2> QED
      BY <1>2, <2>1 DEF Carried
  <1> QED
    BY <1>1, <1>2

(* The transmission is over: the wait for the acknowledgement, or for the  *)
(* CTS, begins.                                                            *)
LEMMA OnTxEndCoherent ==
    ASSUME NEW m, Coherent(m), NEW f, NEW w, Carried(m, w, f)
    PROVE  Coherent(OnTxEnd(m, f)) /\ Carried(OnTxEnd(m, f), w, NoFrame)
  <1> USE DEF Coherent
  <1>0. NoFrame.kind # "DATA" /\ Timeout \in Ticks /\ Timeout # Off
    BY DEF NoFrame, Ticks, Off
  <1>1. CASE f.kind = "DATA"
    <2> DEFINE r == [m EXCEPT !.ackState = "waitForACK", !.ackTimer = Timeout]
    <2>1. f.sn = m.active /\ GaveAway(m) /\ w.kind # "DATA"
          /\ (IsLong(m.active) => m.src = 0)
      BY <1>1 DEF Carried
    <2>2. OnTxEnd(m, f) = r
      BY <1>1, <2>1 DEF OnTxEnd
    <2>3. r \in MacTypes
      BY <1>0 DEF MacTypes
    <2>4. /\ r.ackTimer = Timeout /\ r.active = m.active
          /\ r.sendNow = m.sendNow /\ r.pendingMPDU = m.pendingMPDU
          /\ r.pendingRTS = m.pendingRTS
          /\ r.ackState = "waitForACK" /\ r.state = m.state
          /\ r.ctsTimer = m.ctsTimer /\ r.src = m.src /\ r.lrc = m.lrc
      BY DEF MacTypes
    <2> HIDE DEF r
    <2>5. AwaitsACK(r)
      BY <2>4 DEF AwaitsACK
    <2>6. OneCopy(r)
      BY <2>1, <2>4, <2>5 DEF OneCopy, GaveAway
    <2>7. Counted(r)
      BY <2>1, <2>4, <2>5 DEF Counted
    <2>8. Carried(r, w, NoFrame)
      BY <1>0, <2>1 DEF Carried
    <2> QED
      BY <2>2, <2>3, <2>6, <2>7, <2>8
  <1>2. CASE f.kind # "DATA"
    <2> DEFINE n == [m EXCEPT !.ackState = IF m.ackState = "sendingACK"
                                           THEN "none" ELSE m.ackState]
               r == [n EXCEPT !.state = "waitForCTS", !.ctsTimer = Timeout]
    <2>1. n \in MacTypes /\ r \in MacTypes
      BY <1>0 DEF MacTypes
    <2>2. /\ n.ackTimer = m.ackTimer /\ n.active = m.active
          /\ n.sendNow = m.sendNow /\ n.pendingMPDU = m.pendingMPDU
          /\ n.pendingRTS = m.pendingRTS
          /\ n.ackState = IF m.ackState = "sendingACK" THEN "none"
                          ELSE m.ackState
          /\ n.state = m.state
          /\ n.ctsTimer = m.ctsTimer /\ n.src = m.src /\ n.lrc = m.lrc
      BY DEF MacTypes
    <2>3. /\ r.ackTimer = n.ackTimer /\ r.active = n.active
          /\ r.sendNow = n.sendNow /\ r.pendingMPDU = n.pendingMPDU
          /\ r.pendingRTS = n.pendingRTS
          /\ r.ackState = n.ackState /\ r.state = "waitForCTS"
          /\ r.src = n.src /\ r.lrc = n.lrc
      BY <2>1 DEF MacTypes
    <2>4. OnTxEnd(m, f) =
              IF f.kind = "RTS" /\ m.pendingMPDU # None
                                /\ m.state = "transmitRTS"
              THEN r ELSE n
      BY <1>2 DEF OnTxEnd, MacTypes
    <2> HIDE DEF n, r
    <2>5. (AwaitsACK(n) <=> AwaitsACK(m)) /\ (AwaitsACK(r) <=> AwaitsACK(m))
      BY <2>2, <2>3 DEF AwaitsACK
    <2>6. OneCopy(n) /\ Counted(n)
      BY <2>2, <2>5 DEF OneCopy, Counted
    <2>7. m.state = "transmitRTS" => OneCopy(r) /\ Counted(r)
      BY <2>2, <2>3, <2>5 DEF OneCopy, Counted
    <2>8. Carried(n, w, NoFrame) /\ Carried(r, w, NoFrame)
      BY <1>0, <1>2, <2>2, <2>3, <2>5 DEF Carried, GaveAway
    <2> QED
      BY <2>1, <2>4, <2>6, <2>7, <2>8
  <1> QED
    BY <1>1, <1>2

(* An acknowledgement ends the exchange with both counters at zero: the    *)
(* one of the other kind was zero before.                                  *)
LEMMA ReceiveACKCoherent ==
    ASSUME NEW m, Coherent(m), m.ackState = "receptionFinished"
    PROVE  Coherent(ReceiveACK(m)) /\ ~GaveAway(m)
  <1> USE DEF Coherent
  <1> DEFINE n == [m EXCEPT !.active = None, !.ackState = "none",
                            !.ackTimer = Off]
             r == ReceiveACK(m)
  <1>0. /\ AwaitsACK(m) /\ m.active # None /\ m.pendingMPDU = None
        /\ ~m.sendNow /\ m.state = "idle" /\ ~m.pendingRTS
        /\ m.ctsTimer = Off
    BY DEF AwaitsACK, OneCopy
  <1>1. n \in MacTypes
    BY NothingTyped DEF MacTypes
  <1>2. r = IF IsLong(m.active) THEN [n EXCEPT !.lrc = 0, !.slrc = 0]
            ELSE [n EXCEPT !.src = 0, !.ssrc = 0]
    BY DEF ReceiveACK
  <1>3. /\ n.active = None /\ n.ackState = "none" /\ n.ackTimer = Off
        /\ n.sendNow = m.sendNow /\ n.pendingMPDU = m.pendingMPDU
        /\ n.pendingRTS = m.pendingRTS /\ n.state = m.state
        /\ n.ctsTimer = m.ctsTimer /\ n.src = m.src /\ n.lrc = m.lrc
    BY DEF MacTypes
  <1> HIDE DEF n
  <1>4. /\ r \in MacTypes
        /\ r.active = None /\ r.ackState = "none" /\ r.ackTimer = Off
        /\ r.sendNow = m.sendNow /\ r.pendingMPDU = m.pendingMPDU
        /\ r.pendingRTS = m.pendingRTS /\ r.state = m.state
        /\ r.ctsTimer = m.ctsTimer
    <2>1. [n EXCEPT !.lrc = 0, !.slrc = 0] \in MacTypes
          /\ LET x == [n EXCEPT !.lrc = 0, !.slrc = 0]
             IN  /\ x.active = n.active /\ x.ackState = n.ackState
                 /\ x.ackTimer = n.ackTimer /\ x.sendNow = n.sendNow
                 /\ x.pendingMPDU = n.pendingMPDU
                 /\ x.pendingRTS = n.pendingRTS /\ x.state = n.state
                 /\ x.ctsTimer = n.ctsTimer
      BY <1>1 DEF MacTypes
    <2>2. [n EXCEPT !.src = 0, !.ssrc = 0] \in MacTypes
          /\ LET x == [n EXCEPT !.src = 0, !.ssrc = 0]
             IN  /\ x.active = n.active /\ x.ackState = n.ackState
                 /\ x.ackTimer = n.ackTimer /\ x.sendNow = n.sendNow
                 /\ x.pendingMPDU = n.pendingMPDU
                 /\ x.pendingRTS = n.pendingRTS /\ x.state = n.state
                 /\ x.ctsTimer = n.ctsTimer
      BY <1>1 DEF MacTypes
    <2> QED
      BY <1>2, <1>3, <2>1, <2>2
  <1>5. r.src = 0 /\ r.lrc = 0
    <2>1. CASE IsLong(m.active)
      <3>1. m.src = 0
        BY <1>0, <2>1 DEF Counted
      <3> QED
        BY <1>1, <1>2, <1>3, <2>1, <3>1 DEF MacTypes
    <2>2. CASE ~IsLong(m.active)
      <3>1. m.lrc = 0
        BY <1>0, <2>2 DEF Counted
      <3> QED
        BY <1>1, <1>2, <1>3, <2>2, <3>1 DEF MacTypes
    <2> QED
      BY <2>1, <2>2
  <1> HIDE DEF r
  <1>6. ~AwaitsACK(r)
    BY <1>4 DEF AwaitsACK
  <1>7. OneCopy(r) /\ Counted(r)
    BY <1>0, <1>4, <1>5, <1>6 DEF OneCopy, Counted
  <1> QED
    BY <1>0, <1>4, <1>7 DEF r, GaveAway

(* A CTS releases the copy of RTSCTS, which then waits for SIFS.           *)
LEMMA ReceiveCTSCoherent ==
    ASSUME NEW m, Coherent(m), m.state = "receptionFinished"
    PROVE  /\ Coherent(ReceiveCTS(m)) /\ ~GaveAway(m)
           /\ GaveAway(ReceiveCTS(m))
           /\ ReceiveCTS(m).active = m.pendingMPDU
  <1> USE DEF Coherent
  <1> DEFINE r == ReceiveCTS(m)
  <1>0. /\ m.pendingMPDU # None /\ m.pendingMPDU = m.active
        /\ ~m.pendingRTS /\ ~m.sendNow /\ ~AwaitsACK(m)
    BY DEF OneCopy
  <1>1. r \in MacTypes
    BY NothingTyped DEF MacTypes, ReceiveCTS
  <1>2. /\ r.ackTimer = m.ackTimer /\ r.active = m.active
        /\ r.sendNow = m.sendNow /\ r.pendingMPDU = None
        /\ r.pendingRTS = m.pendingRTS
        /\ r.ackState = m.ackState /\ r.state = "idle"
        /\ r.ctsTimer = Off /\ r.src = m.src /\ r.lrc = m.lrc
    BY DEF MacTypes, ReceiveCTS
  <1> HIDE DEF r
  <1>3. ~AwaitsACK(r)
    BY <1>0, <1>2 DEF AwaitsACK
  <1>4. OneCopy(r) /\ Counted(r)
    BY <1>0, <1>2, <1>3 DEF OneCopy, Counted
  <1> QED
    BY <1>0, <1>1, <1>2, <1>3, <1>4 DEF r, GaveAway

(* A data frame is acknowledged, whatever the ARQ was waiting for.         *)
LEMMA SendingACKCoherent ==
    ASSUME NEW m, Coherent(m), NEW w, NEW t, Carried(m, w, t),
           NEW u, u.kind # "DATA"
    PROVE  /\ Coherent([m EXCEPT !.ackState = "sendingACK"])
           /\ Carried([m EXCEPT !.ackState = "sendingACK"], u, t)
  <1> USE DEF Coherent
  <1> DEFINE r == [m EXCEPT !.ackState = "sendingACK"]
  <1>1. r \in MacTypes
    BY DEF MacTypes
  <1>2. /\ r.ackTimer = m.ackTimer /\ r.active = m.active
        /\ r.sendNow = m.sendNow /\ r.pendingMPDU = m.pendingMPDU
        /\ r.pendingRTS = m.pendingRTS
        /\ r.ackState = "sendingACK" /\ r.state = m.state
        /\ r.ctsTimer = m.ctsTimer /\ r.src = m.src /\ r.lrc = m.lrc
    BY DEF MacTypes
  <1> HIDE DEF r
  <1>3. AwaitsACK(r) => AwaitsACK(m)
    BY <1>2 DEF AwaitsACK
  <1>4. OneCopy(r) /\ Counted(r)
    BY <1>2, <1>3 DEF OneCopy, Counted
  <1>5. Carried(r, u, t)
    BY <1>2, <1>3 DEF Carried, GaveAway
  <1> QED
    BY <1>1, <1>4, <1>5 DEF r

-----------------------------------------------------------------------------
(* The actions.                                                            *)

LEMMA PeerFacts ==
    ASSUME NEW s \in Stations
    PROVE  Peer(s) \in Stations /\ Peer(s) # s /\ Peer(Peer(s)) = s
  <1>1. \A q \in Stations : Peer(q) \in Stations /\ Peer(q) # q
    <2> SUFFICES ASSUME NEW q \in Stations
                 PROVE  Peer(q) \in Stations /\ Peer(q) # q
      OBVIOUS
    <2>1. \E p \in Stations : p # q
      OBVIOUS
    <2> QED
      BY <2>1 DEF Peer
  <1>2. Peer(s) \in Stations /\ Peer(s) # s
    BY <1>1
  <1>3. Peer(Peer(s)) \in Stations /\ Peer(Peer(s)) # Peer(s)
    BY <1>1, <1>2
  <1> QED
    BY <1>2, <1>3

(* What the frames of a station are may not change elsewhere.              *)
FramesKept(S) ==
    \A q \in S : sifs'[q].frame = sifs[q].frame /\ tx'[q].frame = tx[q].frame

RestTyped ==
    /\ sifs' \in [Stations -> [frame : Frames, left : Ticks]]
    /\ tx' \in [Stations ->
                   [phase : {"off", "preamble", "psdu"}, frame : Frames,
                    left : Ticks]]
    /\ upper' \in [Stations -> Nat]

(* An action that changes the record of one station.                       *)
LEMMA OneStation ==
    ASSUME Inv, RestTyped, NEW s \in Stations, NEW m, Update(s, m),
           Coherent(m), Carried(m, sifs'[s].frame, tx'[s].frame),
           FramesKept(Stations \ {s})
    PROVE  Inv'
  <1>1. mac' \in [Stations -> MacTypes]
    BY DEF Inv, Types, Update, Coherent
  <1>2. mac'[s] = m /\ \A q \in Stations \ {s} : mac'[q] = mac[q]
    BY DEF Inv, Types, Update
  <1>3. ASSUME NEW q \in Stations
        PROVE  Coherent(mac'[q])
               /\ Carried(mac'[q], sifs'[q].frame, tx'[q].frame)
    <2>1. CASE q = s
      BY <1>2, <2>1
    <2>2. CASE q # s
      <3>1. /\ mac'[q] = mac[q] /\ sifs'[q].frame = sifs[q].frame
            /\ tx'[q].frame = tx[q].frame
        BY <1>2, <2>2 DEF FramesKept
      <3> QED
        BY <3>1 DEF Inv
    <2> QED
      BY <2>1, <2>2
  <1> QED
    BY <1>1, <1>3 DEF Inv, Types, RestTyped, Coherent, OneCopy, Counted,
       Carried, GaveAway, AwaitsACK

(* A transmission: the record is m or, if a reception is given up, what    *)
(* its error makes of m.                                                   *)
LEMMA TransmitInv ==
    ASSUME Inv, NEW s \in Stations, NEW m, NEW f \in Frames, NEW expired,
           Transmit(s, m, f, expired), NEW w, NEW t,
           Coherent(m), Carried(m, w, t),
           f.kind = "DATA" => GaveAway(m) /\ f.sn = m.active,
           rx[s] # "none" /\ f.kind = "DATA" => w = f,
           sifs' \in [Stations -> [frame : Frames, left : Ticks]],
           sifs'[s] = Idle,
           \A q \in Stations \ {s} : sifs'[q] = sifs[q]
    PROVE  Inv'
  <1> DEFINE r == IF rx[s] = "none" THEN m ELSE OnRxError(m, expired)
  <1>1. Coherent(r) /\ (f.kind = "DATA" => GaveAway(r) /\ f.sn = r.active)
    <2>1. CASE rx[s] = "none"
      BY <2>1
    <2>2. CASE rx[s] # "none"
      <3>1. Coherent(r) /\ Carried(r, w, t)
        BY <2>2, OnRxErrorCoherent
      <3> QED
        BY <2>2, <3>1 DEF Carried
    <2> QED
      BY <2>1, <2>2
  <1>2. Update(s, OnTxStart(r, f))
    BY DEF Transmit
  <1> HIDE DEF r
  <1>3. sifs'[s].frame = NoFrame /\ NoFrame.kind # "DATA"
    BY DEF Idle, NoFrame
  <1>4. Coherent(OnTxStart(r, f)) /\ Carried(OnTxStart(r, f), NoFrame, f)
    BY <1>1, <1>3, OnTxStartCoherent
  <1>5. /\ tx' = [tx EXCEPT ![s] = [phase |-> "preamble", frame |-> f,
                                    left |-> Preamble]]
        /\ upper' = upper
    BY DEF Transmit
  <1>6. Preamble \in Ticks
    BY DEF Ticks, Off
  <1>7. tx'[s].frame = f /\ \A q \in Stations \ {s} : tx'[q] = tx[q]
    BY <1>5 DEF Inv, Types
  <1>8. tx' \in [Stations -> [phase : {"off", "preamble", "psdu"},
                              frame : Frames, left : Ticks]]
    BY <1>5, <1>6 DEF Inv, Types
  <1>9. RestTyped /\ FramesKept(Stations \ {s})
    BY <1>5, <1>7, <1>8 DEF RestTyped, FramesKept, Inv, Types
  <1> QED
    BY <1>2, <1>3, <1>4, <1>7, <1>9, OneStation

(* An RTS goes out for the copy that RTSCTS holds.                         *)
LEMMA SendRTSInv ==
    ASSUME Inv, NEW s \in Stations, SendRTS(s)
    PROVE  Inv'
  <1> DEFINE m == mac[s]
             r == [m EXCEPT !.pendingRTS = FALSE, !.state = "transmitRTS"]
  <1>0. /\ Coherent(m) /\ m.pendingRTS /\ rx[s] = "none" /\ sifs[s] = Idle
        /\ Transmit(s, r, Control("RTS"), FALSE) /\ sifs' = sifs
        /\ Carried(m, sifs[s].frame, tx[s].frame)
    BY DEF Inv, SendRTS, Permitted
  <1>1. Control("RTS") \in Frames /\ Control("RTS").kind # "DATA"
    BY NothingTyped DEF Control, Frames, Kinds
  <1> HIDE DEF m
  <1>2. r \in MacTypes
    BY <1>0 DEF Coherent, MacTypes
  <1>3. /\ r.ackTimer = m.ackTimer /\ r.active = m.active
        /\ r.sendNow = m.sendNow /\ r.pendingMPDU = m.pendingMPDU
        /\ r.pendingRTS = FALSE
        /\ r.ackState = m.ackState /\ r.state = "transmitRTS"
        /\ r.ctsTimer = m.ctsTimer /\ r.src = m.src /\ r.lrc = m.lrc
    BY <1>0 DEF Coherent, MacTypes
  <1> HIDE DEF r
  <1>4. AwaitsACK(r) <=> AwaitsACK(m)
    BY <1>3 DEF AwaitsACK
  <1>5. OneCopy(r) /\ Counted(r)
    BY <1>0, <1>3, <1>4 DEF Coherent, OneCopy, Counted
  <1>6. Coherent(r) /\ Carried(r, sifs[s].frame, tx[s].frame)
    BY <1>0, <1>2, <1>3, <1>4, <1>5 DEF Coherent, Carried, GaveAway
  <1> QED
    BY <1>0, <1>1, <1>6, TransmitInv DEF Inv, Types

(* The copy of the ARQ goes on the air.                                    *)
LEMMA SendDataInv ==
    ASSUME Inv, NEW s \in Stations, SendData(s)
    PROVE  Inv'
  <1> DEFINE m == mac[s]
             r == [m EXCEPT !.sendNow = FALSE]
             f == Data(m.active)
  <1>0. /\ Coherent(m) /\ m.sendNow /\ rx[s] = "none" /\ sifs[s] = Idle
        /\ Transmit(s, r, f, FALSE) /\ sifs' = sifs
    BY DEF Inv, SendData, Permitted
  <1> HIDE DEF m
  <1>1. f \in Frames /\ f.sn = m.active
    BY <1>0 DEF Coherent, MacTypes, Data, Frames, Kinds
  <1>2. r \in MacTypes
    BY <1>0 DEF Coherent, MacTypes
  <1>3. /\ r.ackTimer = m.ackTimer /\ r.active = m.active
        /\ r.sendNow = FALSE /\ r.pendingMPDU = m.pendingMPDU
        /\ r.pendingRTS = m.pendingRTS
        /\ r.ackState = m.ackState /\ r.state = m.state
        /\ r.ctsTimer = m.ctsTimer /\ r.src = m.src /\ r.lrc = m.lrc
    BY <1>0 DEF Coherent, MacTypes
  <1> HIDE DEF r, f
  <1>4. AwaitsACK(r) <=> AwaitsACK(m)
    BY <1>3 DEF AwaitsACK
  <1>5. OneCopy(r) /\ Counted(r)
    BY <1>0, <1>3, <1>4 DEF Coherent, OneCopy, Counted
  <1>6. GaveAway(r)
    BY <1>0, <1>3, <1>4 DEF Coherent, OneCopy, GaveAway
  <1>7. Coherent(r) /\ Carried(r, NoFrame, NoFrame)
    BY <1>2, <1>5 DEF Coherent, Carried, NoFrame
  <1>8. /\ sifs' \in [Stations -> [frame : Frames, left : Ticks]]
        /\ sifs'[s] = Idle /\ \A q \in Stations \ {s} : sifs'[q] = sifs[q]
    BY <1>0 DEF Inv, Types
  <1>9. /\ f.kind = "DATA" => GaveAway(r) /\ f.sn = r.active
        /\ ~(rx[s] # "none" /\ f.kind = "DATA")
    BY <1>0, <1>1, <1>3, <1>6
  <1> QED
    BY <1>0, <1>1, <1>7, <1>8, <1>9, TransmitInv

(* What waited for SIFS goes on the air.                                   *)
LEMMA SifsOverInv ==
    ASSUME Inv, NEW s \in Stations, NEW expired, SifsOver(s, expired)
    PROVE  Inv'
  <1>0. /\ sifs' = [sifs EXCEPT ![s] = Idle]
        /\ Transmit(s, mac[s], sifs[s].frame, expired)
        /\ Coherent(mac[s])
        /\ Carried(mac[s], sifs[s].frame, tx[s].frame)
    BY DEF Inv, SifsOver
  <1>1. NoFrame \in Frames /\ Idle \in [frame : Frames, left : Ticks]
    BY NothingTyped DEF Idle, NoFrame, Frames, Kinds
  <1>2. /\ sifs' \in [Stations -> [frame : Frames, left : Ticks]]
        /\ sifs'[s] = Idle /\ \A q \in Stations \ {s} : sifs'[q] = sifs[q]
        /\ sifs[s].frame \in Frames
    BY <1>0, <1>1 DEF Inv, Types
  <1>3. sifs[s].frame.kind = "DATA" =>
            GaveAway(mac[s]) /\ sifs[s].frame.sn = mac[s].active
    BY <1>0 DEF Carried
  <1> QED
    BY <1>0, <1>2, <1>3, TransmitInv

(* The layer above hands an MSDU down to an ARQ without one.               *)
LEMMA HandDownInv ==
    ASSUME Inv, NEW s \in Stations, NEW expired, HandDown(s, expired)
    PROVE  Inv'
  <1> DEFINE n == upper[s] + 1
             m == mac[s]
  <1>0. /\ n <= Load[s] /\ m.active = None
        /\ upper' = [upper EXCEPT ![s] = n]
        /\ IF expired THEN mac' = mac ELSE Update(s, ProcessOutgoing(m, n))
        /\ sifs' = sifs /\ tx' = tx
        /\ Coherent(m) /\ Carried(m, sifs[s].frame, tx[s].frame)
    BY DEF Inv, HandDown, medium
  <1>1. upper[s] \in Nat /\ upper' \in [Stations -> Nat]
    BY <1>0 DEF Inv, Types
  <1>2. n \in MSDUs
    BY <1>0, <1>1 DEF MSDUs
  <1>3. RestTyped /\ FramesKept(Stations)
    BY <1>0, <1>1 DEF RestTyped, FramesKept, Inv, Types
  <1>4. CASE expired
    BY <1>0, <1>3, <1>4 DEF Inv, Types, RestTyped
  <1>5. CASE ~expired
    <2>1. Coherent(ProcessOutgoing(m, n))
      BY <1>0, <1>2, ProcessOutgoingCoherent
    <2>2. ~GaveAway(m)
      BY <1>0 DEF GaveAway
    <2>3. Carried(ProcessOutgoing(m, n), sifs'[s].frame, tx'[s].frame)
      BY <1>0, <2>2, NothingCarried
    <2>4. FramesKept(Stations \ {s})
      BY <1>3 DEF FramesKept
    <2> QED
      BY <1>0, <1>3, <1>5, <2>1, <2>3, <2>4, OneStation
  <1> QED
    BY <1>4, <1>5

(* An action that changes no record.                                       *)
LEMMA NoStation ==
    ASSUME Inv, RestTyped, mac' = mac, FramesKept(Stations)
    PROVE  Inv'
  <1>1. ASSUME NEW q \in Stations
        PROVE  Coherent(mac'[q])
               /\ Carried(mac'[q], sifs'[q].frame, tx'[q].frame)
    BY DEF Inv, FramesKept
  <1> QED
    BY <1>1 DEF Inv, Types, RestTyped, Coherent, OneCopy, Counted,
       Carried, GaveAway, AwaitsACK

(* The receiver is captured, from another reception perhaps.               *)
LEMMA SynchronizeInv ==
    ASSUME Inv, RestTyped, FramesKept(Stations),
           NEW s \in Stations, NEW expired, Synchronize(s, expired)
    PROVE  Inv'
  <1> DEFINE m == mac[s]
             r == IF rx[s] = "none" THEN m ELSE OnRxError(m, expired)
             w == sifs[s].frame
             t == tx[s].frame
  <1>1. Coherent(m) /\ Carried(m, w, t) /\ Update(s, OnRxStart(r))
    BY DEF Inv, Synchronize
  <1> HIDE DEF m
  <1>2. Coherent(r) /\ Carried(r, w, t)
    BY <1>1, OnRxErrorCoherent
  <1> HIDE DEF r
  <1>3. Coherent(OnRxStart(r)) /\ Carried(OnRxStart(r), w, t)
    BY <1>2, OnRxStartCoherent
  <1>4. FramesKept(Stations \ {s}) /\ w = sifs'[s].frame /\ t = tx'[s].frame
    BY DEF FramesKept
  <1> HIDE DEF w, t
  <1> QED
    BY <1>1, <1>3, <1>4, OneStation

LEMMA PreambleEndsInv ==
    ASSUME Inv, NEW s \in Stations, NEW heard, NEW expired,
           PreambleEnds(s, heard, expired)
    PROVE  Inv'
  <1>1. /\ tx' = [tx EXCEPT ![s].phase = "psdu", ![s].left = Psdu]
        /\ sifs' = sifs /\ upper' = upper
        /\ Synchronize(Peer(s), expired) \/ mac' = mac
    BY DEF PreambleEnds
  <1>2. Psdu \in Ticks /\ Peer(s) \in Stations
    BY PeerFacts DEF Ticks, Off
  <1>3. /\ tx' \in [Stations -> [phase : {"off", "preamble", "psdu"},
                                 frame : Frames, left : Ticks]]
        /\ \A q \in Stations : tx'[q].frame = tx[q].frame
    BY <1>1, <1>2 DEF Inv, Types
  <1>4. RestTyped /\ FramesKept(Stations)
    BY <1>1, <1>3 DEF RestTyped, FramesKept, Inv, Types
  <1> QED
    BY <1>1, <1>2, <1>4, NoStation, SynchronizeInv

LEMMA ForeignPreambleInv ==
    ASSUME Inv, NEW s \in Stations, NEW d, NEW expired,
           ForeignPreamble(s, d, expired)
    PROVE  Inv'
  <1>1. /\ tx' = tx /\ sifs' = sifs /\ upper' = upper
        /\ Synchronize(s, expired)
    BY DEF ForeignPreamble
  <1>2. RestTyped /\ FramesKept(Stations)
    BY <1>1 DEF RestTyped, FramesKept, Inv, Types
  <1> QED
    BY <1>1, <1>2, SynchronizeInv

LEMMA ForeignEndsInv ==
    ASSUME Inv, NEW s \in Stations, NEW ok, NEW expired,
           ForeignEnds(s, ok, expired)
    PROVE  Inv'
  <1> DEFINE m == mac[s]
             w == sifs[s].frame
             t == tx[s].frame
             r == IF ok THEN OnRxEnd(m) ELSE OnRxError(m, expired)
  <1>1. /\ tx' = tx /\ sifs' = sifs /\ upper' = upper
        /\ Coherent(m) /\ Carried(m, w, t) /\ Update(s, r)
    BY DEF ForeignEnds, Inv
  <1> HIDE DEF m
  <1>2. Coherent(r) /\ Carried(r, w, t)
    BY <1>1, OnRxEndCoherent, OnRxErrorCoherent
  <1> HIDE DEF r
  <1>3. RestTyped /\ FramesKept(Stations \ {s})
        /\ w = sifs'[s].frame /\ t = tx'[s].frame
    BY <1>1 DEF RestTyped, FramesKept, Inv, Types
  <1> HIDE DEF w, t
  <1> QED
    BY <1>1, <1>2, <1>3, OneStation

(* A timeout comes to a station whose only copy is waited for, so nothing  *)
(* of it is carried any more.                                              *)
LEMMA OnTimeoutACKInv ==
    ASSUME Inv, NEW s \in Stations, NEW expired, OnTimeoutACK(s, expired)
    PROVE  Inv'
  <1> DEFINE m == mac[s]
             r == AckTimeout(m, expired)
             w == sifs[s].frame
             t == tx[s].frame
  <1>1. /\ tx' = tx /\ sifs' = sifs /\ upper' = upper
        /\ Coherent(m) /\ Carried(m, w, t) /\ Update(s, r) /\ m.ackTimer = 0
    BY DEF OnTimeoutACK, Inv, medium
  <1> HIDE DEF m
  <1>2. AwaitsACK(m) /\ ~GaveAway(m)
    BY <1>1 DEF AwaitsACK, GaveAway, Off
  <1>3. Coherent(r)
    BY <1>1, <1>2, AckTimeoutCoherent
  <1> HIDE DEF r
  <1>4. Carried(r, w, t)
    BY <1>1, <1>2, NothingCarried
  <1>5. RestTyped /\ FramesKept(Stations \ {s})
        /\ w = sifs'[s].frame /\ t = tx'[s].frame
    BY <1>1 DEF RestTyped, FramesKept, Inv, Types
  <1> HIDE DEF w, t
  <1> QED
    BY <1>1, <1>3, <1>4, <1>5, OneStation

LEMMA OnTimeoutCTSInv ==
    ASSUME Inv, NEW s \in Stations, NEW expired, OnTimeoutCTS(s, expired)
    PROVE  Inv'
  <1> DEFINE m == mac[s]
             r == CtsTimeout(m, expired)
             w == sifs[s].frame
             t == tx[s].frame
  <1>1. /\ tx' = tx /\ sifs' = sifs /\ upper' = upper
        /\ Coherent(m) /\ Carried(m, w, t) /\ Update(s, r) /\ m.ctsTimer = 0
    BY DEF OnTimeoutCTS, Inv, medium
  <1> HIDE DEF m
  <1>2. m.state # "idle" /\ m.pendingMPDU # None
    BY <1>1 DEF Coherent, OneCopy, Off
  <1>3. ~GaveAway(m)
    BY <1>2 DEF GaveAway
  <1>4. Coherent(r)
    BY <1>1, <1>2, CtsTimeoutCoherent
  <1> HIDE DEF r
  <1>5. Carried(r, w, t)
    BY <1>1, <1>3, NothingCarried
  <1>6. RestTyped /\ FramesKept(Stations \ {s})
        /\ w = sifs'[s].frame /\ t = tx'[s].frame
    BY <1>1 DEF RestTyped, FramesKept, Inv, Types
  <1> HIDE DEF w, t
  <1> QED
    BY <1>1, <1>4, <1>5, <1>6, OneStation

(* Time moves the timers that run and starts or stops none.                *)
LEMMA TickInv ==
    ASSUME Inv, Tick
    PROVE  Inv'
  <1>0. \A x \in Ticks : x # 0 => /\ Earlier(x) \in Ticks
                                  /\ Earlier(x) = Off <=> x = Off
    BY DEF Ticks, Earlier, Off
  <1>1. ASSUME NEW s \in Stations
        PROVE  /\ Coherent(mac'[s])
               /\ Carried(mac'[s], sifs[s].frame, tx[s].frame)
    <2> DEFINE m == mac[s]
               r == [m EXCEPT !.ackTimer = Earlier(@), !.ctsTimer = Earlier(@)]
    <2>1. /\ mac'[s] = r /\ m.ackTimer # 0 /\ m.ctsTimer # 0
          /\ Coherent(m) /\ Carried(m, sifs[s].frame, tx[s].frame)
      BY DEF Tick, Inv
    <2> HIDE DEF m
    <2>2. m.ackTimer \in Ticks /\ m.ctsTimer \in Ticks
      BY <2>1 DEF Coherent, MacTypes
    <2>3. /\ Earlier(m.ackTimer) \in Ticks /\ Earlier(m.ctsTimer) \in Ticks
          /\ Earlier(m.ackTimer) = Off <=> m.ackTimer = Off
          /\ Earlier(m.ctsTimer) = Off <=> m.ctsTimer = Off
      BY <1>0, <2>1, <2>2
    <2>4. r \in MacTypes
      BY <2>1, <2>3 DEF Coherent, MacTypes
    <2>5. /\ r.ackTimer = Earlier(m.ackTimer) /\ r.active = m.active
          /\ r.sendNow = m.sendNow /\ r.pendingMPDU = m.pendingMPDU
          /\ r.pendingRTS = m.pendingRTS
          /\ r.ackState = m.ackState /\ r.state = m.state
          /\ r.ctsTimer = Earlier(m.ctsTimer)
          /\ r.src = m.src /\ r.lrc = m.lrc
      BY <2>1 DEF Coherent, MacTypes
    <2> HIDE DEF r
    <2>6. AwaitsACK(r) <=> AwaitsACK(m)
      BY <2>3, <2>5 DEF AwaitsACK
    <2>7. OneCopy(r) /\ Counted(r)
      BY <2>1, <2>3, <2>5, <2>6 DEF Coherent, OneCopy, Counted
    <2>8. Carried(r, sifs[s].frame, tx[s].frame)
      BY <2>1, <2>5, <2>6 DEF Carried, GaveAway
    <2> QED
      BY <2>1, <2>4, <2>7, <2>8 DEF Coherent
  <1>2. /\ sifs' \in [Stations -> [frame : Frames, left : Ticks]]
        /\ \A s \in Stations : sifs'[s].frame = sifs[s].frame
    <2>1. \A s \in Stations : /\ sifs[s] \in [frame : Frames, left : Ticks]
                              /\ Earlier(sifs[s].left) \in Ticks
      BY <1>0 DEF Tick, Inv, Types
    <2>2. sifs' = [s \in Stations |->
                      [sifs[s] EXCEPT !.left = Earlier(sifs[s].left)]]
      BY DEF Tick
    <2> QED
      BY <2>1, <2>2
  <1>3. /\ tx' \in [Stations -> [phase : {"off", "preamble", "psdu"},
                                 frame : Frames, left : Ticks]]
        /\ \A s \in Stations : tx'[s].frame = tx[s].frame
    <2>1. \A s \in Stations :
              /\ tx[s] \in [phase : {"off", "preamble", "psdu"},
                            frame : Frames, left : Ticks]
              /\ Earlier(tx[s].left) \in Ticks
      BY <1>0 DEF Tick, Inv, Types
    <2>2. tx' = [s \in Stations |->
                    [tx[s] EXCEPT !.left = Earlier(tx[s].left)]]
      BY DEF Tick
    <2> QED
      BY <2>1, <2>2
  <1>4. /\ mac' \in [Stations -> MacTypes] /\ upper' = upper
    <2>1. mac' = [s \in Stations |->
                     [mac[s] EXCEPT !.ackTimer = Earlier(@),
                                    !.ctsTimer = Earlier(@)]]
      BY DEF Tick
    <2>2. \A s \in Stations : mac'[s] \in MacTypes
      BY <1>1 DEF Coherent
    <2> QED
      BY <2>1, <2>2 DEF Tick
  <1>5. \A s \in Stations :
            Carried(mac'[s], sifs'[s].frame, tx'[s].frame)
    BY <1>1, <1>2, <1>3
  <1>6. Types'
    BY <1>2, <1>3, <1>4 DEF Inv, Types
  <1> QED
    BY <1>1, <1>5, <1>6 DEF Inv, Coherent, OneCopy, Counted,
       Carried, GaveAway, AwaitsACK

(* The end of a transmission changes the records of both stations.         *)
LEMMA TwoStations ==
    ASSUME Inv, RestTyped, NEW p \in Stations, NEW m, NEW n,
           Records(p, m, n), Coherent(m), Coherent(n),
           Carried(m, sifs'[p].frame, tx'[p].frame),
           Carried(n, sifs'[Peer(p)].frame, tx'[Peer(p)].frame)
    PROVE  Inv'
  <1>0. Peer(p) \in Stations /\ Peer(p) # p
    BY PeerFacts
  <1>1. \A q \in Stations : q = p \/ q = Peer(p)
    BY <1>0
  <1>2. /\ mac' \in [Stations -> MacTypes]
        /\ mac'[p] = m /\ mac'[Peer(p)] = n
    BY <1>0 DEF Inv, Types, Records, Coherent
  <1>3. ASSUME NEW q \in Stations
        PROVE  Coherent(mac'[q])
               /\ Carried(mac'[q], sifs'[q].frame, tx'[q].frame)
    BY <1>1, <1>2
  <1> QED
    BY <1>2, <1>3 DEF Inv, Types, RestTyped, Coherent, OneCopy, Counted,
       Carried, GaveAway, AwaitsACK

(* What a delivery makes of the receiver p, and of its SIFS delay; x is    *)
(* the record of p at the end of the reception, n that of the sender.      *)
LEMMA DeliverInv ==
    ASSUME Inv, NEW p \in Stations, NEW f, NEW x, NEW n, NEW nav,
           Coherent(x), Coherent(n), tx' \in [Stations ->
              [phase : {"off", "preamble", "psdu"}, frame : Frames,
               left : Ticks]],
           upper' = upper, Deliver(p, f, x, n, nav),
           Carried(x, sifs[p].frame, tx'[p].frame),
           Carried(n, sifs[Peer(p)].frame, tx'[Peer(p)].frame)
    PROVE  Inv'
  <1> DEFINE w == sifs[p].frame
             t == tx'[p].frame
  <1>0. /\ Peer(p) \in Stations /\ Peer(p) # p
        /\ Sifs \in Ticks
        /\ sifs \in [Stations -> [frame : Frames, left : Ticks]]
        /\ upper' \in [Stations -> Nat]
    BY PeerFacts DEF Inv, Types, Ticks, Off
  (* A reply replaces the frame that waits at p.                           *)
  <1>1. ASSUME NEW u \in Frames, Reply(p, u), NEW r, Coherent(r),
               Records(p, r, n), Carried(r, u, t)
        PROVE  Inv'
    <2>1. sifs' = [sifs EXCEPT ![p] = [frame |-> u, left |-> Sifs]]
      BY <1>1 DEF Reply
    <2>2. /\ sifs' \in [Stations -> [frame : Frames, left : Ticks]]
          /\ sifs'[p].frame = u /\ sifs'[Peer(p)] = sifs[Peer(p)]
      BY <1>0, <2>1
    <2>3. RestTyped
      BY <1>0, <2>2 DEF RestTyped
    <2> QED
      BY <1>1, <2>2, <2>3, TwoStations
  <1>2. ASSUME sifs' = sifs, NEW r, Coherent(r), Records(p, r, n),
               Carried(r, w, t)
        PROVE  Inv'
    <2>1. RestTyped
      BY <1>0, <1>2 DEF RestTyped
    <2> QED
      BY <1>2, <2>1, TwoStations
  <1>3. \A kind \in {"ACK", "CTS"} :
            Control(kind) \in Frames /\ Control(kind).kind # "DATA"
    BY NothingTyped DEF Control, Frames, Kinds
  <1>4. CASE DeliverData(p, f, x, n)
    <2> DEFINE r == [x EXCEPT !.ackState = "sendingACK"]
    <2>1. Records(p, r, n) /\ Reply(p, Control("ACK"))
      BY <1>4 DEF DeliverData
    <2>2. Coherent(r) /\ Carried(r, Control("ACK"), t)
      BY <1>3, SendingACKCoherent
    <2> HIDE DEF r
    <2> QED
      BY <1>1, <1>3, <2>1, <2>2
  <1>5. CASE DeliverRTS(p, x, n, nav)
    <2>1. CASE nav
      BY <1>2, <1>5, <2>1 DEF DeliverRTS
    <2>2. CASE ~nav
      <3>1. Records(p, x, n) /\ Reply(p, Control("CTS"))
        BY <1>5, <2>2 DEF DeliverRTS
      <3>2. Carried(x, Control("CTS"), t)
        BY <1>3 DEF Carried
      <3> QED
        BY <1>1, <1>3, <3>1, <3>2
    <2> QED
      BY <2>1, <2>2
  <1>6. CASE DeliverCTS(p, x, n)
    <2>1. CASE x.pendingMPDU = None \/ x.state # "receptionFinished"
      BY <1>2, <1>6, <2>1 DEF DeliverCTS
    <2>2. CASE ~(x.pendingMPDU = None \/ x.state # "receptionFinished")
      <3> DEFINE r == ReceiveCTS(x)
                 u == Data(x.pendingMPDU)
      <3>1. Records(p, r, n) /\ Reply(p, u)
        BY <1>6, <2>2 DEF DeliverCTS
      <3>2. Coherent(r) /\ ~GaveAway(x) /\ GaveAway(r)
            /\ r.active = x.pendingMPDU
        BY <2>2, ReceiveCTSCoherent
      <3>3. t.kind # "DATA"
        BY <3>2, NothingCarried
      <3>4. u \in Frames /\ u.sn = x.pendingMPDU
        BY DEF Data, Frames, Kinds, Coherent, MacTypes
      <3>5. Carried(r, u, t)
        BY <3>2, <3>3, <3>4 DEF Carried
      <3> HIDE DEF r, u
      <3> QED
        BY <1>1, <3>1, <3>2, <3>4, <3>5
    <2> QED
      BY <2>1, <2>2
  <1>7. CASE DeliverACK(p, x, n)
    <2>1. CASE x.active = None \/ x.ackState # "receptionFinished"
      BY <1>2, <1>7, <2>1 DEF DeliverACK
    <2>2. CASE ~(x.active = None \/ x.ackState # "receptionFinished")
      <3>1. Records(p, ReceiveACK(x), n) /\ sifs' = sifs
        BY <1>7, <2>2 DEF DeliverACK
      <3>2. Coherent(ReceiveACK(x)) /\ ~GaveAway(x)
        BY <2>2, ReceiveACKCoherent
      <3>3. Carried(ReceiveACK(x), w, t)
        BY <3>2, NothingCarried
      <3> QED
        BY <1>2, <3>1, <3>2, <3>3
    <2> QED
      BY <2>1, <2>2
  <1> QED
    BY <1>4, <1>5, <1>6, <1>7 DEF Deliver

LEMMA TransmissionEndsInv ==
    ASSUME Inv, NEW s \in Stations, NEW outcome, NEW nav, NEW expired,
           TransmissionEnds(s, outcome, nav, expired)
    PROVE  Inv'
  <1> DEFINE p == Peer(s)
             f == tx[s].frame
             n == OnTxEnd(mac[s], f)
             m == mac[p]
             w == sifs[p].frame
             t == tx[p].frame
  <1>0. p \in Stations /\ p # s /\ Peer(p) = s
    BY PeerFacts
  <1>1. /\ tx' = [tx EXCEPT ![s] = Quiet] /\ upper' = upper
        /\ Coherent(mac[s]) /\ Carried(mac[s], sifs[s].frame, f)
        /\ Coherent(m) /\ Carried(m, w, t)
    BY <1>0 DEF TransmissionEnds, Inv
  <1>2. Quiet \in [phase : {"off", "preamble", "psdu"}, frame : Frames,
                   left : Ticks] /\ Quiet.frame = NoFrame
    BY NothingTyped DEF Quiet, NoFrame, Frames, Kinds
  <1>3. /\ tx' \in [Stations -> [phase : {"off", "preamble", "psdu"},
                                 frame : Frames, left : Ticks]]
        /\ tx'[s].frame = NoFrame /\ tx'[p].frame = t
    BY <1>0, <1>1, <1>2 DEF Inv, Types
  <1>4. Coherent(n) /\ Carried(n, sifs[s].frame, NoFrame)
    BY <1>1, OnTxEndCoherent
  <1>5. \/ Deliver(p, f, OnRxEnd(m), n, nav)
        \/ /\ sifs' = sifs
           /\ \E r \in {m, OnRxEnd(m), OnRxError(m, expired)} :
                 Records(p, r, n)
    BY DEF TransmissionEnds
  <1>6. /\ Coherent(OnRxEnd(m)) /\ Carried(OnRxEnd(m), w, t)
        /\ Coherent(OnRxError(m, expired))
        /\ Carried(OnRxError(m, expired), w, t)
    BY <1>1, OnRxEndCoherent, OnRxErrorCoherent
  <1> HIDE DEF n, m, f
  <1>7. CASE Deliver(p, f, OnRxEnd(m), n, nav)
    BY <1>0, <1>1, <1>3, <1>4, <1>6, <1>7, DeliverInv
  <1>8. ASSUME sifs' = sifs,
               NEW r \in {m, OnRxEnd(m), OnRxError(m, expired)},
               Records(p, r, n)
        PROVE  Inv'
    <2>1. Coherent(r) /\ Carried(r, w, t)
      BY <1>1, <1>6, <1>8
    <2>2. RestTyped
      BY <1>1, <1>3, <1>8 DEF RestTyped, Inv, Types
    <2> QED
      BY <1>0, <1>3, <1>4, <1>8, <2>1, <2>2, TwoStations
  <1> QED
    BY <1>5, <1>7, <1>8

-----------------------------------------------------------------------------
(* Initially no station has an MSDU.                                       *)
LEMMA InitInv == Init => Inv
  <1> SUFFICES ASSUME Init PROVE Inv
    OBVIOUS
  <1> DEFINE r == [active |-> None, counter |-> 1, sendNow |-> FALSE,
                   ackState |-> "none", ackTimer |-> Off,
                   src |-> 0, lrc |-> 0, ssrc |-> 0, slrc |-> 0,
                   state |-> "idle", ctsTimer |-> Off,
                   pendingRTS |-> FALSE, pendingMPDU |-> None]
  <1>1. r \in MacTypes
    BY NothingTyped DEF MacTypes
  <1>2. /\ r.ackTimer = Off /\ r.active = None /\ r.sendNow = FALSE
        /\ r.pendingMPDU = None /\ r.pendingRTS = FALSE
        /\ r.ackState = "none" /\ r.state = "idle" /\ r.ctsTimer = Off
        /\ r.src = 0 /\ r.lrc = 0
    OBVIOUS
  <1>3. mac = [s \in Stations |-> r]
    BY DEF Init
  <1> HIDE DEF r
  <1>4. ~AwaitsACK(r)
    BY <1>2 DEF AwaitsACK
  <1>5. Coherent(r)
    BY <1>1, <1>2, <1>4 DEF Coherent, OneCopy, Counted
  <1>6. /\ NoFrame \in Frames /\ Idle \in [frame : Frames, left : Ticks]
        /\ Quiet \in [phase : {"off", "preamble", "psdu"}, frame : Frames,
                      left : Ticks]
        /\ Idle.frame = NoFrame /\ Quiet.frame = NoFrame
        /\ NoFrame.kind # "DATA"
    BY NothingTyped DEF Idle, Quiet, NoFrame, Frames, Kinds
  <1>7. Types
    <2>1. /\ sifs = [s \in Stations |-> Idle]
          /\ tx = [s \in Stations |-> Quiet]
          /\ upper = [s \in Stations |-> 0]
      BY DEF Init
    <2>2. mac \in [Stations -> MacTypes]
      BY <1>1, <1>3
    <2>3. /\ sifs \in [Stations -> [frame : Frames, left : Ticks]]
          /\ tx \in [Stations -> [phase : {"off", "preamble", "psdu"},
                                   frame : Frames, left : Ticks]]
          /\ upper \in [Stations -> Nat]
      BY <1>6, <2>1
    <2> QED
      BY <2>2, <2>3 DEF Types
  <1>8. ASSUME NEW s \in Stations
        PROVE  Coherent(mac[s]) /\ Carried(mac[s], sifs[s].frame, tx[s].frame)
    <2>1. mac[s] = r /\ sifs[s].frame = NoFrame /\ tx[s].frame = NoFrame
      BY <1>3, <1>6 DEF Init
    <2> QED
      BY <1>5, <1>6, <2>1 DEF Carried
  <1> QED
    BY <1>7, <1>8 DEF Inv

LEMMA NextInv == Inv /\ [Next]_vars => Inv'
  <1> SUFFICES ASSUME Inv, [Next]_vars PROVE Inv'
    OBVIOUS
  <1>1. CASE Tick
    BY <1>1, TickInv
  <1>2. ASSUME NEW s \in Stations, SendRTS(s) \/ SendData(s) PROVE Inv'
    BY <1>2, SendRTSInv, SendDataInv
  <1>3. ASSUME NEW s \in Stations, NEW expired \in BOOLEAN,
               \/ HandDown(s, expired) \/ SifsOver(s, expired)
               \/ OnTimeoutACK(s, expired) \/ OnTimeoutCTS(s, expired)
        PROVE  Inv'
    BY <1>3, HandDownInv, SifsOverInv, OnTimeoutACKInv, OnTimeoutCTSInv
  <1>4. ASSUME NEW s \in Stations, NEW expired \in BOOLEAN,
               \/ \E heard \in BOOLEAN : PreambleEnds(s, heard, expired)
               \/ \E d \in Foreign : ForeignPreamble(s, d, expired)
               \/ \E ok \in BOOLEAN : ForeignEnds(s, ok, expired)
        PROVE  Inv'
    BY <1>4, PreambleEndsInv, ForeignPreambleInv, ForeignEndsInv
  <1>5. ASSUME NEW s \in Stations, NEW expired \in BOOLEAN,
               NEW outcome \in Outcomes, NEW nav \in BOOLEAN,
               TransmissionEnds(s, outcome, nav, expired)
        PROVE  Inv'
    BY <1>5, TransmissionEndsInv
  <1>6. CASE vars' = vars
    <2>1. mac' = mac /\ sifs' = sifs /\ tx' = tx /\ upper' = upper
      BY <1>6 DEF vars, medium
    <2>2. RestTyped /\ FramesKept(Stations)
      BY <2>1 DEF RestTyped, FramesKept, Inv, Types
    <2> QED
      BY <2>1, <2>2, NoStation
  <1> QED
    BY <1>1, <1>2, <1>3, <1>4, <1>5, <1>6 DEF Next

(* Every station is coherent, and what is carried for it is its only copy. *)
THEOREM Invariance == Spec => []Inv
  <1> QED
    BY InitInv, NextInv, PTL DEF Spec

(* The retry counters of an MSDU stay below their limits, through failures *)
(* of the RTS and of the data, interrupted receptions and overlapping      *)
(* exchanges, and the next MSDU starts with fresh ones.                    *)
THEOREM RetriesStayBounded == Spec => []RetriesBounded
  <1>1. Inv => RetriesBounded
    BY DEF Inv, Coherent, Counted, RetriesBounded
  <1> QED
    BY <1>1, Invariance, PTL

-----------------------------------------------------------------------------
(* The acknowledgements in time, and the history.                          *)

(* What is on the air lasts for so long, and an acknowledgement of the     *)
(* station with SIFS delay w and transmission t takes so long to end.      *)
AirLeft(t) == IF t.phase = "preamble" THEN t.left + Psdu ELSE t.left
HasAck(w, t) == w.frame.kind = "ACK" \/ t.frame.kind = "ACK"
AckLeft(w, t) ==
    IF w.frame.kind = "ACK" THEN w.left + Preamble + Psdu ELSE AirLeft(t)

(* How much later than the timeout an acknowledgement ends.                *)
Slack == Sifs + Preamble + Psdu - Timeout

(* A station waits for SIFS, transmits, or receives.                       *)
MediumOK(w, t, x) ==
    /\ w.frame.kind # "none" => w.left >= 0 /\ t.phase = "off"
    /\ t.phase = "off" => t.frame.kind = "none"
    /\ t.phase # "off" => t.left >= 0
    /\ x = "peer" => t.phase = "off"

(* m and v are the record and the transmission of a station whose peer has *)
(* w and t and has delivered l last: an acknowledgement that comes after   *)
(* the timeout ends before the station could have sent anything else, and  *)
(* one that comes in time is for the active MSDU.                          *)
AckOK(m, v, w, t, l) ==
    HasAck(w, t) =>
        /\ AckLeft(w, t) <= Slack + (IF m.ackTimer # Off THEN m.ackTimer
                                     ELSE 0)
        /\ v.frame.kind = "DATA" => AckLeft(w, t) < AirLeft(v)
        /\ AwaitsACK(m) => l = m.active

(* Only the active MSDU is underway, and l is what was delivered of it.    *)
HistoryOK(m, n, f, d, l) ==
    /\ m.active # None => m.active = n
    /\ \A k \in MSDUs : /\ f[k] = "queued" <=> k > n
                        /\ f[k] = "underway" <=> k = m.active
    /\ \A i \in 1..Len(d) : d[i] <= n /\ (d[i] = m.active => l = d[i])
    /\ l # None => \E i \in 1..Len(d) : d[i] = l

Fates == {"queued", "underway", "confirmed", "exhausted", "expired"}

MoreTypes ==
    /\ rx \in [Stations -> {"none", "peer", "foreign"}]
    /\ last \in [Stations -> MSDUs \cup {None}]
    /\ fate \in [Stations -> [MSDUs -> Fates]]
    /\ delivered \in [Stations -> Seq(MSDUs)]

MediumAt(s) == MediumOK(sifs[s], tx[s], rx[s])
AckAt(s) ==
    AckOK(mac[s], tx[s], sifs[Peer(s)], tx[Peer(s)], last[Peer(s)])
HistoryAt(s) ==
    HistoryOK(mac[s], upper[s], fate[s], delivered[s], last[Peer(s)])

LinkInv ==
    /\ MoreTypes
    /\ \A s \in Stations : MediumAt(s) /\ AckAt(s) /\ HistoryAt(s)

LinkStep == Abstract!Next \/ UNCHANGED <<fate, delivered>>

-----------------------------------------------------------------------------
(* What the handlers do to an exchange: they may end the wait for an       *)
(* acknowledgement, and before the timeout they do so only if the station  *)
(* has got it.                                                             *)
Calm(m, r) ==
    /\ r.active \in {m.active, None}
    /\ AwaitsACK(r) => AwaitsACK(m) /\ r.active = m.active
    /\ m.ackTimer > 0 => r.ackTimer >= m.ackTimer

LEMMA TimerType ==
    ASSUME NEW m, Coherent(m)
    PROVE  m.ackTimer \in Int /\ m.ackTimer >= Off /\ Off = -1
  BY DEF Coherent, MacTypes, Ticks, Off

LEMMA CalmSteps ==
    ASSUME NEW m, Coherent(m), NEW n, Coherent(n), NEW r, Coherent(r),
           Calm(m, n), Calm(n, r)
    PROVE  Calm(m, r)
  <1>1. /\ m.ackTimer \in Int /\ n.ackTimer \in Int /\ r.ackTimer \in Int
    BY TimerType
  <1>2. m.ackTimer > 0 => r.ackTimer >= m.ackTimer
    BY <1>1 DEF Calm
  <1> QED
    BY <1>2 DEF Calm

LEMMA CalmSelf ==
    ASSUME NEW m, Coherent(m) PROVE Calm(m, m)
  BY TimerType DEF Calm

(* TryToSend does not touch what is waited for.                            *)
LEMMA TryToSendFields ==
    ASSUME NEW m \in MacTypes
    PROVE  /\ TryToSend(m) \in MacTypes
           /\ TryToSend(m).active = m.active
           /\ TryToSend(m).ackTimer = m.ackTimer
           /\ TryToSend(m).ackState = m.ackState
  BY DEF TryToSend, MacTypes

(* A failure ends the wait for the acknowledgement.                        *)
LEMMA FailedFields ==
    ASSUME NEW m \in MacTypes, NEW expired
    PROVE  /\ TransmissionHasFailed(m, expired) \in MacTypes
           /\ TransmissionHasFailed(m, expired).active \in {m.active, None}
           /\ ~AwaitsACK(TransmissionHasFailed(m, expired))
  <1> DEFINE n == [m EXCEPT !.ackTimer = Off, !.ackState = "none"]
             a == [n EXCEPT !.src = 0, !.lrc = 0, !.sendNow = FALSE,
                            !.active = None]
             b == [n EXCEPT !.sendNow = TRUE, !.counter = RetryCounter(m)]
  <1>1. n \in MacTypes
    BY NothingTyped DEF MacTypes
  <1>2. a \in MacTypes /\ b \in MacTypes
    BY <1>1, RetryCounterType, NothingTyped DEF MacTypes
  <1>3. /\ a.active = None /\ a.ackTimer = Off /\ a.ackState = "none"
        /\ b.active = m.active /\ b.ackTimer = Off /\ b.ackState = "none"
    BY DEF MacTypes
  <1>4. TransmissionHasFailed(m, expired) \in {a, TryToSend(b)}
    BY DEF TransmissionHasFailed
  <1> HIDE DEF a, b
  <1>5. /\ TryToSend(b).active = m.active /\ TryToSend(b).ackTimer = Off
        /\ TryToSend(b).ackState = "none" /\ TryToSend(b) \in MacTypes
    BY <1>2, <1>3, TryToSendFields
  <1> QED
    BY <1>2, <1>3, <1>4, <1>5 DEF AwaitsACK

LEMMA CalmAckTimeout ==
    ASSUME NEW m, Coherent(m), NEW expired, ~(m.ackTimer > 0)
    PROVE  Calm(m, AckTimeout(m, expired))
  <1>1. m \in MacTypes
    BY DEF Coherent
  <1>2. CASE m.ackState = "receiving"
    <2>1. AckTimeout(m, expired) = [m EXCEPT !.ackTimer = Off]
      BY <1>2 DEF AckTimeout
    <2>2. /\ AckTimeout(m, expired).active = m.active
          /\ AckTimeout(m, expired).ackState = "receiving"
      BY <1>1, <1>2, <2>1 DEF MacTypes
    <2> QED
      BY <1>2, <2>2 DEF Calm, AwaitsACK
  <1>3. CASE m.ackState # "receiving"
    <2> DEFINE c == IF IsLong(m.active) THEN CountLong(m) ELSE CountShort(m)
    <2>1. AckTimeout(m, expired) = TransmissionHasFailed(c, expired)
      BY <1>3 DEF AckTimeout
    <2>2. c \in MacTypes /\ c.active = m.active
      BY <1>1, CountFields DEF CountLong, CountShort, MacTypes
    <2> QED
      BY <2>1, <2>2, FailedFields DEF Calm
  <1> QED
    BY <1>2, <1>3

(* The timeout of the CTS comes while no acknowledgement is waited for.    *)
LEMMA CalmCtsTimeout ==
    ASSUME NEW m, Coherent(m), m.state # "idle", NEW expired
    PROVE  Calm(m, CtsTimeout(m, expired))
  <1>1. m \in MacTypes /\ ~AwaitsACK(m) /\ ~(m.ackTimer > 0)
    <2>1. m \in MacTypes /\ ~AwaitsACK(m)
      BY DEF Coherent, OneCopy
    <2> QED
      BY <2>1 DEF AwaitsACK, Off
  <1>2. CASE m.state = "receiveCTS"
    <2>1. CtsTimeout(m, expired) = [m EXCEPT !.ctsTimer = Off]
      BY <1>2 DEF CtsTimeout
    <2>2. /\ CtsTimeout(m, expired).active = m.active
          /\ CtsTimeout(m, expired).ackState = m.ackState
          /\ CtsTimeout(m, expired).ackTimer = m.ackTimer
      BY <1>1, <2>1 DEF MacTypes
    <2> QED
      BY <1>1, <2>2 DEF Calm, AwaitsACK
  <1>3. CASE m.state # "receiveCTS"
    <2> DEFINE c == CountShort(m)
               h == TransmissionHasFailed(c, expired)
               g == [h EXCEPT !.pendingMPDU = None, !.state = "idle",
                              !.ctsTimer = Off]
    <2>1. CtsTimeout(m, expired) = TryToSend(g)
      BY <1>3 DEF CtsTimeout
    <2>2. c \in MacTypes /\ c.active = m.active
      BY <1>1, CountFields DEF CountShort, MacTypes
    <2>3. h.active \in {m.active, None} /\ ~AwaitsACK(h) /\ h \in MacTypes
      BY <2>2, FailedFields
    <2> HIDE DEF h
    <2>4. /\ g \in MacTypes /\ g.active = h.active /\ g.ackState = h.ackState
          /\ g.ackTimer = h.ackTimer
      BY <2>3, NothingTyped DEF MacTypes
    <2> HIDE DEF g
    <2>5. /\ TryToSend(g).active \in {m.active, None}
          /\ ~AwaitsACK(TryToSend(g))
      BY <2>3, <2>4, TryToSendFields DEF AwaitsACK
    <2> QED
      BY <1>1, <2>1, <2>5 DEF Calm
  <1> QED
    BY <1>2, <1>3

LEMMA CalmOnRxStart ==
    ASSUME NEW m, Coherent(m)
    PROVE  Calm(m, OnRxStart(m))
  <1> DEFINE r == OnRxStart(m)
  <1>1. /\ r.active = m.active /\ r.ackTimer = m.ackTimer
        /\ r.ackState = IF m.ackState = "waitForACK" THEN "receiving"
                        ELSE m.ackState
    BY DEF OnRxStart, Coherent, MacTypes
  <1>2. m.ackTimer \in Int
    BY TimerType
  <1> HIDE DEF r
  <1>3. Calm(m, r)
    BY <1>1, <1>2 DEF Calm, AwaitsACK
  <1> QED
    BY <1>3 DEF r

(* A timeout that is made up for was over before.                          *)
LEMMA CalmOnRxEnd ==
    ASSUME NEW m, Coherent(m)
    PROVE  /\ Calm(m, OnRxEnd(m)) /\ OnRxEnd(m).active = m.active
           /\ OnRxEnd(m).ackState = "receptionFinished" => AwaitsACK(m)
  <1> DEFINE r == OnRxEnd(m)
  <1>1. /\ r.active = m.active
        /\ r.ackTimer = IF m.ackState = "receiving" /\ m.ackTimer = Off
                        THEN 0 ELSE m.ackTimer
        /\ r.ackState = IF m.ackState = "receiving" THEN "receptionFinished"
                        ELSE m.ackState
    BY DEF OnRxEnd, Coherent, MacTypes
  <1>2. m.ackTimer \in Int
    BY TimerType
  <1> HIDE DEF r
  <1>3. m.ackTimer > 0 => r.ackTimer >= m.ackTimer
    BY <1>1, <1>2 DEF Off
  <1>4. AwaitsACK(r) => AwaitsACK(m)
    BY <1>1 DEF AwaitsACK
  <1> QED
    BY <1>1, <1>3, <1>4 DEF Calm, AwaitsACK, r

LEMMA CalmOnRxError ==
    ASSUME NEW m, Coherent(m), NEW expired
    PROVE  Calm(m, OnRxError(m, expired))
  <1> DEFINE n == OnRxErrorACK(m, expired)
  <1>1. Coherent(n) /\ Calm(m, n)
    <2> DEFINE k == [m EXCEPT !.ackState = "waitForACK"]
    <2>1. Coherent(n)
      BY OnRxErrorACKCoherent
    <2>2. CASE m.ackState # "receiving"
      BY <2>1, <2>2, CalmSelf DEF OnRxErrorACK
    <2>3. CASE m.ackState = "receiving"
      <3>1. /\ k \in MacTypes /\ k.active = m.active
            /\ k.ackTimer = m.ackTimer /\ k.ackState = "waitForACK"
            /\ k.sendNow = m.sendNow /\ k.pendingMPDU = m.pendingMPDU
            /\ k.pendingRTS = m.pendingRTS /\ k.state = m.state
            /\ k.ctsTimer = m.ctsTimer /\ k.src = m.src /\ k.lrc = m.lrc
        BY DEF Coherent, MacTypes
      <3>2. n = IF m.ackTimer = Off THEN AckTimeout(k, expired) ELSE k
        BY <2>3 DEF OnRxErrorACK
      <3> HIDE DEF k, n
      <3>3. AwaitsACK(m) /\ AwaitsACK(k)
        BY <2>3, <3>1 DEF AwaitsACK
      <3>4. Coherent(k)
        BY <3>1, <3>3 DEF Coherent, OneCopy, Counted
      <3>5. Calm(m, k)
        BY <3>1, <3>3, TimerType DEF Calm
      <3>6. CASE m.ackTimer = Off
        <4>1. ~(k.ackTimer > 0)
          BY <3>1, <3>6 DEF Off
        <4> QED
          BY <2>1, <3>2, <3>4, <3>5, <3>6, <4>1, CalmAckTimeout, CalmSteps
      <3>7. CASE m.ackTimer # Off
        BY <2>1, <3>2, <3>5, <3>7
      <3> QED
        BY <3>6, <3>7
    <2> QED
      BY <2>2, <2>3
  <1>2. OnRxError(m, expired) = OnRxErrorCTS(n, expired)
    BY DEF OnRxError
  <1> HIDE DEF n
  <1>3. Coherent(OnRxErrorCTS(n, expired))
    BY <1>1, OnRxErrorCTSCoherent
  <1>4. CASE n.state # "receiveCTS"
    BY <1>1, <1>2, <1>4 DEF OnRxErrorCTS
  <1>5. CASE n.state = "receiveCTS"
    <2> DEFINE k == [n EXCEPT !.state = "waitForCTS"]
    <2>1. /\ k \in MacTypes /\ k.active = n.active
          /\ k.ackTimer = n.ackTimer /\ k.ackState = n.ackState
          /\ k.sendNow = n.sendNow /\ k.pendingMPDU = n.pendingMPDU
          /\ k.pendingRTS = n.pendingRTS /\ k.state = "waitForCTS"
          /\ k.ctsTimer = n.ctsTimer /\ k.src = n.src /\ k.lrc = n.lrc
      BY <1>1 DEF Coherent, MacTypes
    <2>2. OnRxErrorCTS(n, expired) =
              IF n.ctsTimer = Off THEN CtsTimeout(k, expired) ELSE k
      BY <1>5, <2>1 DEF OnRxErrorCTS
    <2> HIDE DEF k
    <2>3. AwaitsACK(k) <=> AwaitsACK(n)
      BY <2>1 DEF AwaitsACK
    <2>4. Coherent(k)
      BY <1>1, <1>5, <2>1, <2>3 DEF Coherent, OneCopy, Counted
    <2>5. Calm(n, k)
      BY <1>1, <2>1, <2>3, TimerType DEF Calm
    <2>6. CASE n.ctsTimer = Off
      <3>1. Calm(k, CtsTimeout(k, expired))
        BY <2>1, <2>4, CalmCtsTimeout
      <3> QED
        BY <1>1, <1>2, <1>3, <2>2, <2>4, <2>5, <2>6, <3>1, CalmSteps
    <2>7. CASE n.ctsTimer # Off
      BY <1>1, <1>2, <1>3, <2>2, <2>5, <2>7, CalmSteps
    <2> QED
      BY <2>6, <2>7
  <1> QED
    BY <1>4, <1>5

LEMMA CalmOnTxStart ==
    ASSUME NEW m, Coherent(m), NEW f
    PROVE  Calm(m, OnTxStart(m, f))
  <1> DEFINE r == OnTxStart(m, f)
  <1>1. /\ r.active = m.active /\ r.ackTimer = m.ackTimer
        /\ r.ackState = m.ackState
    BY DEF OnTxStart, Coherent, MacTypes
  <1> HIDE DEF r
  <1>2. Calm(m, r)
    BY <1>1, TimerType DEF Calm, AwaitsACK
  <1> QED
    BY <1>2 DEF r

LEMMA CalmOnTxEnd ==
    ASSUME NEW m, Coherent(m), NEW f, f.kind # "DATA"
    PROVE  Calm(m, OnTxEnd(m, f))
  <1> DEFINE r == OnTxEnd(m, f)
  <1>1. /\ r.active = m.active /\ r.ackTimer = m.ackTimer
        /\ r.ackState = IF m.ackState = "sendingACK" THEN "none"
                        ELSE m.ackState
    BY DEF OnTxEnd, Coherent, MacTypes
  <1> HIDE DEF r
  <1>2. Calm(m, r)
    BY <1>1, TimerType DEF Calm, AwaitsACK
  <1> QED
    BY <1>2 DEF r

LEMMA CalmReply ==
    ASSUME NEW m, Coherent(m)
    PROVE  /\ Calm(m, [m EXCEPT !.ackState = "sendingACK"])
           /\ Calm(m, ReceiveCTS(m))
  <1> DEFINE r == [m EXCEPT !.ackState = "sendingACK"]
             n == ReceiveCTS(m)
  <1>1. /\ r.active = m.active /\ r.ackTimer = m.ackTimer
        /\ r.ackState = "sendingACK"
        /\ n.active = m.active /\ n.ackTimer = m.ackTimer
        /\ n.ackState = m.ackState
    BY DEF ReceiveCTS, Coherent, MacTypes
  <1> HIDE DEF r, n
  <1>2. Calm(m, r) /\ Calm(m, n)
    BY <1>1, TimerType DEF Calm, AwaitsACK
  <1> QED
    BY <1>2 DEF r, n

-----------------------------------------------------------------------------
(* What calm handlers preserve.                                            *)
LEMMA CalmAckOK ==
    ASSUME NEW m, Coherent(m), NEW r, Coherent(r), Calm(m, r),
           NEW v, NEW w, NEW t, NEW l, AckLeft(w, t) \in Int,
           AckOK(m, v, w, t, l)
    PROVE  AckOK(r, v, w, t, l)
  <1> SUFFICES ASSUME HasAck(w, t)
               PROVE  /\ AckLeft(w, t) <= Slack + (IF r.ackTimer # Off
                                                   THEN r.ackTimer ELSE 0)
                      /\ v.frame.kind = "DATA" => AckLeft(w, t) < AirLeft(v)
                      /\ AwaitsACK(r) => l = r.active
    BY DEF AckOK
  <1> DEFINE before == IF m.ackTimer # Off THEN m.ackTimer ELSE 0
             after == IF r.ackTimer # Off THEN r.ackTimer ELSE 0
  <1>1. /\ AckLeft(w, t) <= Slack + before
        /\ v.frame.kind = "DATA" => AckLeft(w, t) < AirLeft(v)
        /\ AwaitsACK(m) => l = m.active
    BY DEF AckOK
  <1>2. before <= after /\ before \in Int /\ after \in Int /\ Slack \in Int
    BY TimerType DEF Calm, Slack
  <1> HIDE DEF before, after
  <1>3. AckLeft(w, t) <= Slack + after
    BY <1>1, <1>2
  <1> QED
    BY <1>1, <1>3 DEF Calm, after

(* ... and with what Failed says of the fates.                             *)
Outcome(m, r, f, g) ==
    \/ g = f /\ ~(m.active # None /\ r.active = None)
    \/ /\ m.active # None /\ r.active = None
       /\ \E x \in {"expired", "exhausted"} : g = [f EXCEPT ![m.active] = x]

LEMMA CalmHistory ==
    ASSUME NEW m, Coherent(m), NEW r, Coherent(r), Calm(m, r),
           NEW n \in Nat, NEW f \in [MSDUs -> Fates], NEW g, NEW d, NEW l,
           HistoryOK(m, n, f, d, l), Outcome(m, r, f, g),
           \A i \in 1..Len(d) : d[i] \in MSDUs
    PROVE  HistoryOK(r, n, g, d, l) /\ g \in [MSDUs -> Fates]
  <1>0. m.active \in MSDUs \cup {None} /\ \A k \in MSDUs : k # None
    BY DEF Coherent, MacTypes, MSDUs, None
  <1>1. CASE g = f /\ r.active = m.active
    BY <1>1 DEF HistoryOK
  <1>2. ASSUME m.active # None, r.active = None,
               NEW x \in {"expired", "exhausted"},
               g = [f EXCEPT ![m.active] = x]
        PROVE  HistoryOK(r, n, g, d, l) /\ g \in [MSDUs -> Fates]
    <2>1. m.active \in MSDUs /\ m.active = n /\ n <= n
      BY <1>0, <1>2 DEF HistoryOK
    <2>2. g \in [MSDUs -> Fates]
      BY <1>2, <2>1 DEF Fates
    <2>3. \A k \in MSDUs : g[k] = IF k = n THEN x ELSE f[k]
      BY <1>2, <2>1
    <2>4. ASSUME NEW k \in MSDUs
          PROVE  /\ g[k] = "queued" <=> k > n
                 /\ g[k] = "underway" <=> k = r.active
      <3>1. /\ f[k] = "queued" <=> k > n
            /\ f[k] = "underway" <=> k = m.active
        BY DEF HistoryOK
      <3>2. CASE k = n
        BY <1>0, <1>2, <2>3, <3>2 DEF MSDUs
      <3>3. CASE k # n
        BY <1>0, <1>2, <2>1, <2>3, <3>1, <3>3
      <3> QED
        BY <3>2, <3>3
    <2>5. \A i \in 1..Len(d) : d[i] <= n /\ (d[i] = r.active => l = d[i])
      BY <1>0, <1>2 DEF HistoryOK
    <2> QED
      BY <1>2, <2>2, <2>4, <2>5 DEF HistoryOK
  <1> QED
    BY <1>1, <1>2 DEF Outcome, Calm

-----------------------------------------------------------------------------
(* The exchange, step by step.                                             *)

LEMMA LeftType ==
    ASSUME NEW w \in [frame : Frames, left : Ticks],
           NEW t \in [phase : {"off", "preamble", "psdu"}, frame : Frames,
                      left : Ticks]
    PROVE  AckLeft(w, t) \in Int /\ AirLeft(t) \in Int
  BY DEF AckLeft, AirLeft, Ticks

(* A failure is a step of the link that gives up, or no step at all.       *)
LEMMA FailedStep ==
    ASSUME Inv, LinkInv, NEW s \in Stations, NEW r, mac'[s] = r,
           Coherent(r), Calm(mac[s], r), NEW expired, Failed(s, expired),
           delivered' = delivered
    PROVE  /\ LinkStep /\ fate' \in [Stations -> [MSDUs -> Fates]]
           /\ \A q \in Stations \ {s} : fate'[q] = fate[q]
           /\ HistoryOK(r, upper[s], fate'[s], delivered[s], last[Peer(s)])
  <1> DEFINE m == mac[s]
  <1>1. /\ Coherent(m) /\ upper[s] \in Nat /\ Peer(s) \in Stations
        /\ fate \in [Stations -> [MSDUs -> Fates]]
        /\ fate[s] \in [MSDUs -> Fates]
        /\ HistoryOK(m, upper[s], fate[s], delivered[s], last[Peer(s)])
    BY PeerFacts DEF Inv, Types, LinkInv, MoreTypes, HistoryAt
  <1>2. \A i \in 1..Len(delivered[s]) : delivered[s][i] \in MSDUs
    <2>1. delivered[s] \in Seq(MSDUs)
      BY DEF LinkInv, MoreTypes
    <2> QED
      BY <2>1
  <1>3. CASE m.active # None /\ r.active = None
    <2> DEFINE n == m.active
               x == IF expired THEN "expired" ELSE "exhausted"
    <2>1. fate' = [fate EXCEPT ![s][n] = x] /\ x \in {"expired", "exhausted"}
      BY <1>3 DEF Failed
    <2>2. n \in MSDUs
      BY <1>1, <1>3 DEF Coherent, MacTypes
    <2>3. fate[s][n] = "underway"
      BY <1>1, <2>2 DEF HistoryOK
    <2> HIDE DEF x
    <2>4. /\ fate'[s] = [fate[s] EXCEPT ![n] = x]
          /\ \A q \in Stations \ {s} : fate'[q] = fate[q]
          /\ fate' \in [Stations -> [MSDUs -> Fates]]
      BY <1>1, <2>1, <2>2 DEF Fates
    <2>5. Outcome(m, r, fate[s], fate'[s])
      BY <1>3, <2>1, <2>4 DEF Outcome
    <2>6. HistoryOK(r, upper[s], fate'[s], delivered[s], last[Peer(s)])
      BY <1>1, <1>2, <2>5, CalmHistory
    <2>7. Abstract!GiveUp(s, n)
      BY <2>1, <2>3 DEF Abstract!GiveUp, Abstract!Become
    <2>8. LinkStep
      BY <2>2, <2>7 DEF LinkStep, Abstract!Next, Abstract!MSDUs, MSDUs
    <2> QED
      BY <2>4, <2>6, <2>8
  <1>4. CASE ~(m.active # None /\ r.active = None)
    <2>1. fate' = fate
      BY <1>4 DEF Failed
    <2>2. Outcome(m, r, fate[s], fate'[s])
      BY <1>4, <2>1 DEF Outcome
    <2>3. HistoryOK(r, upper[s], fate'[s], delivered[s], last[Peer(s)])
      BY <1>1, <1>2, <2>2, CalmHistory
    <2> QED
      BY <1>1, <2>1, <2>3 DEF LinkStep
  <1> QED
    BY <1>3, <1>4

(* What the frames on the air do to the acknowledgements, with the records *)
(* as they were.                                                           *)
AckMoved(q) ==
    AckOK(mac[q], tx'[q], sifs'[Peer(q)], tx'[Peer(q)], last[Peer(q)])

MediumMoved ==
    /\ rx' \in [Stations -> {"none", "peer", "foreign"}]
    /\ \A q \in Stations : MediumAt(q)'

LEMMA LeftAt ==
    ASSUME Inv, NEW q \in Stations
    PROVE  AckLeft(sifs[q], tx[q]) \in Int /\ AirLeft(tx[q]) \in Int
  <1>1. /\ sifs[q] \in [frame : Frames, left : Ticks]
        /\ tx[q] \in [phase : {"off", "preamble", "psdu"}, frame : Frames,
                      left : Ticks]
    BY DEF Inv, Types
  <1> QED
    BY <1>1, LeftType

LEMMA LeftAtNext ==
    ASSUME Inv', NEW q \in Stations
    PROVE  AckLeft(sifs'[q], tx'[q]) \in Int /\ AirLeft(tx'[q]) \in Int
  <1>1. /\ sifs'[q] \in [frame : Frames, left : Ticks]
        /\ tx'[q] \in [phase : {"off", "preamble", "psdu"}, frame : Frames,
                      left : Ticks]
    BY DEF Inv, Types
  <1> QED
    BY <1>1, LeftType

(* An action that changes one record, calmly.                              *)
LEMMA OneCalm ==
    ASSUME Inv, Inv', LinkInv, MediumMoved, NEW s \in Stations, NEW r,
           Update(s, r), Calm(mac[s], r), NEW expired, Failed(s, expired),
           upper' = upper, delivered' = delivered, last' = last,
           \A q \in Stations : AckMoved(q)
    PROVE  LinkInv' /\ LinkStep
  <1>1. /\ mac'[s] = r /\ \A q \in Stations \ {s} : mac'[q] = mac[q]
        /\ Coherent(mac[s]) /\ Coherent(mac'[s])
    BY DEF Inv, Types, Update
  <1>2. /\ LinkStep /\ fate' \in [Stations -> [MSDUs -> Fates]]
        /\ \A q \in Stations \ {s} : fate'[q] = fate[q]
        /\ HistoryOK(r, upper[s], fate'[s], delivered[s], last[Peer(s)])
    BY <1>1, FailedStep
  <1>3. ASSUME NEW q \in Stations
        PROVE  AckAt(q)' /\ HistoryAt(q)'
    <2>1. /\ AckOK(mac[q], tx'[q], sifs'[Peer(q)], tx'[Peer(q)], last[Peer(q)])
          /\ HistoryOK(mac[q], upper[q], fate[q], delivered[q], last[Peer(q)])
          /\ Peer(q) \in Stations
          /\ AckLeft(sifs'[Peer(q)], tx'[Peer(q)]) \in Int
      BY LeftAtNext, PeerFacts DEF AckMoved, LinkInv, HistoryAt
    <2>2. CASE q = s
      <3>1. AckOK(r, tx'[q], sifs'[Peer(q)], tx'[Peer(q)], last[Peer(q)])
        BY <1>1, <2>1, <2>2, CalmAckOK
      <3> QED
        BY <1>1, <1>2, <2>2, <3>1 DEF AckAt, HistoryAt
    <2>3. CASE q # s
      <3>1. mac'[q] = mac[q] /\ fate'[q] = fate[q]
        BY <1>1, <1>2, <2>3
      <3> QED
        BY <2>1, <3>1 DEF AckAt, HistoryAt
    <2> QED
      BY <2>2, <2>3
  <1>4. MoreTypes'
    BY <1>2 DEF MediumMoved, LinkInv, MoreTypes
  <1> QED
    BY <1>2, <1>3, <1>4 DEF MediumMoved, LinkInv

(* What is where, for a station and its peer.                              *)
LEMMA At ==
    ASSUME Inv, LinkInv, NEW q \in Stations
    PROVE  /\ Coherent(mac[q])
           /\ Carried(mac[q], sifs[q].frame, tx[q].frame)
           /\ sifs[q] \in [frame : Frames, left : Ticks]
           /\ tx[q] \in [phase : {"off", "preamble", "psdu"}, frame : Frames,
                         left : Ticks]
           /\ rx[q] \in {"none", "peer", "foreign"}
           /\ MediumOK(sifs[q], tx[q], rx[q])
           /\ AckOK(mac[q], tx[q], sifs[Peer(q)], tx[Peer(q)], last[Peer(q)])
           /\ HistoryOK(mac[q], upper[q], fate[q], delivered[q],
                        last[Peer(q)])
  BY DEF Inv, Types, LinkInv, MoreTypes, MediumAt, AckAt, HistoryAt

(* A transmission starts: not of data as long as an acknowledgement comes, *)
(* unless that ends first.                                                 *)
LEMMA TransmitLink ==
    ASSUME Inv, Inv', LinkInv, NEW s \in Stations, NEW m, Coherent(m),
           NEW f \in Frames, NEW expired, Transmit(s, m, f, expired),
           Calm(mac[s], m), m.active = mac[s].active,
           f.kind = "DATA" => ~AwaitsACK(mac[s]),
           \/ sifs[s] = Idle /\ sifs' = sifs /\ f.kind # "ACK"
           \/ /\ sifs[s].left = 0 /\ f = sifs[s].frame
              /\ sifs' = [sifs EXCEPT ![s] = Idle]
    PROVE  LinkInv' /\ LinkStep
  <1> DEFINE p == Peer(s)
             r == IF rx[s] = "none" THEN m ELSE OnRxError(m, expired)
             t == [phase |-> "preamble", frame |-> f, left |-> Preamble]
  <1>0. /\ p \in Stations /\ p # s /\ Peer(p) = s
        /\ \A q \in Stations : q = s \/ q = p
        /\ Idle.frame.kind = "none" /\ Idle.left = Off /\ Off = -1
    BY PeerFacts DEF Idle, NoFrame, Off
  <1>1. /\ tx' = [tx EXCEPT ![s] = t] /\ tx[s].phase = "off"
        /\ rx' = [rx EXCEPT ![s] = "none"]
        /\ Update(s, OnTxStart(r, f)) /\ Failed(s, expired)
        /\ last' = last /\ upper' = upper /\ delivered' = delivered
    BY DEF Transmit
  <1>2. /\ tx'[s] = t /\ tx'[p] = tx[p]
        /\ sifs'[s] = Idle /\ sifs'[p] = sifs[p]
    BY <1>0, <1>1 DEF Inv, Types
  <1>3. Calm(mac[s], OnTxStart(r, f))
    <2>1. Coherent(mac[s]) /\ Coherent(r) /\ Calm(m, r)
      <3>1. CASE rx[s] = "none"
        BY <3>1, CalmSelf DEF Inv
      <3>2. CASE rx[s] # "none"
        <4>1. Coherent(OnRxError(m, expired))
          BY OnRxErrorACKCoherent, OnRxErrorCTSCoherent DEF OnRxError
        <4> QED
          BY <3>2, <4>1, CalmOnRxError DEF Inv
      <3> QED
        BY <3>1, <3>2
    <2> HIDE DEF r
    <2>2. Calm(mac[s], r) /\ Calm(r, OnTxStart(r, f))
      BY <2>1, CalmSteps, CalmOnTxStart
    <2>3. Coherent(OnTxStart(r, f))
      <3>1. mac'[s] = OnTxStart(r, f)
        BY <1>1 DEF Update, Inv, Types
      <3> QED
        BY <3>1 DEF Inv
    <2> QED
      BY <2>1, <2>2, <2>3, CalmSteps
  <1> HIDE DEF r
  <1>4. MediumMoved
    <2>1. rx' \in [Stations -> {"none", "peer", "foreign"}]
          /\ rx'[s] = "none" /\ rx'[p] = rx[p]
      BY <1>0, <1>1 DEF LinkInv, MoreTypes
    <2>2. MediumOK(sifs'[p], tx'[p], rx'[p])
      BY <1>0, <1>2, <2>1, At
    <2>3. MediumOK(Idle, t, "none")
      BY <1>0 DEF MediumOK
    <2> QED
      BY <1>0, <1>2, <2>1, <2>2, <2>3 DEF MediumMoved, MediumAt
  <1>5. AckMoved(s)
    <2>1. /\ AckOK(mac[s], tx[s], sifs[p], tx[p], last[p])
          /\ AckLeft(sifs[p], tx[p]) \in Int
      BY <1>0, At, LeftAt
    <2>2. ASSUME f.kind = "DATA", HasAck(sifs[p], tx[p])
          PROVE  AckLeft(sifs[p], tx[p]) < AirLeft(t)
      <3>1. mac[s].ackTimer = Off
        BY <2>2 DEF AwaitsACK
      <3>2. AckLeft(sifs[p], tx[p]) <= Slack
        BY <2>1, <2>2, <3>1 DEF AckOK, Slack
      <3>3. Slack < Psdu /\ Slack \in Int
        BY DEF Slack
      <3>4. AirLeft(t) = Preamble + Psdu
        BY DEF AirLeft
      <3> QED
        BY <2>1, <3>2, <3>3, <3>4
    <2>3. AckOK(mac[s], t, sifs[p], tx[p], last[p])
      BY <2>1, <2>2 DEF AckOK
    <2> QED
      BY <1>2, <2>3 DEF AckMoved
  <1>6. AckMoved(p)
    <2>1. /\ AckOK(mac[p], tx[p], sifs[s], tx[s], last[s])
          /\ MediumOK(sifs[s], tx[s], rx[s])
      BY <1>0, At
    <2>2. ASSUME HasAck(Idle, t)
          PROVE  /\ HasAck(sifs[s], tx[s])
                 /\ AckLeft(Idle, t) = AckLeft(sifs[s], tx[s])
      BY <1>0, <2>2 DEF HasAck, AckLeft, AirLeft
    <2>3. AckOK(mac[p], tx[p], Idle, t, last[s])
      BY <2>1, <2>2 DEF AckOK
    <2> QED
      BY <1>0, <1>2, <2>3 DEF AckMoved
  <1>7. \A q \in Stations : AckMoved(q)
    BY <1>0, <1>5, <1>6
  <1> QED
    BY <1>1, <1>3, <1>4, <1>7, OneCalm

LEMMA SendRTSLink ==
    ASSUME Inv, Inv', LinkInv, NEW s \in Stations, SendRTS(s)
    PROVE  LinkInv' /\ LinkStep
  <1> DEFINE m == mac[s]
             r == [m EXCEPT !.pendingRTS = FALSE, !.state = "transmitRTS"]
             f == Control("RTS")
  <1>1. /\ Coherent(m) /\ m.pendingRTS /\ rx[s] = "none" /\ sifs[s] = Idle
        /\ Transmit(s, r, f, FALSE) /\ sifs' = sifs
    BY DEF Inv, SendRTS, Permitted
  <1>2. f \in Frames /\ f.kind = "RTS"
    BY NothingTyped DEF Control, Frames, Kinds
  <1> HIDE DEF m, f
  <1>3. /\ r \in MacTypes /\ r.ackTimer = m.ackTimer /\ r.active = m.active
        /\ r.sendNow = m.sendNow /\ r.pendingMPDU = m.pendingMPDU
        /\ r.pendingRTS = FALSE
        /\ r.ackState = m.ackState /\ r.state = "transmitRTS"
        /\ r.ctsTimer = m.ctsTimer /\ r.src = m.src /\ r.lrc = m.lrc
    BY <1>1 DEF Coherent, MacTypes
  <1> HIDE DEF r
  <1>4. AwaitsACK(r) <=> AwaitsACK(m)
    BY <1>3 DEF AwaitsACK
  <1>5. Coherent(r)
    BY <1>1, <1>3, <1>4 DEF Coherent, OneCopy, Counted
  <1>6. Calm(m, r)
    BY <1>1, <1>3, <1>4, TimerType DEF Calm
  <1> QED
    BY <1>1, <1>2, <1>3, <1>5, <1>6, TransmitLink DEF m

LEMMA SendDataLink ==
    ASSUME Inv, Inv', LinkInv, NEW s \in Stations, SendData(s)
    PROVE  LinkInv' /\ LinkStep
  <1> DEFINE m == mac[s]
             r == [m EXCEPT !.sendNow = FALSE]
             f == Data(m.active)
  <1>1. /\ Coherent(m) /\ m.sendNow /\ rx[s] = "none" /\ sifs[s] = Idle
        /\ Transmit(s, r, f, FALSE) /\ sifs' = sifs
    BY DEF Inv, SendData, Permitted
  <1> HIDE DEF m
  <1>2. f \in Frames /\ f.kind = "DATA"
    BY <1>1 DEF Data, Frames, Kinds, Coherent, MacTypes
  <1> HIDE DEF f
  <1>3. /\ r \in MacTypes /\ r.ackTimer = m.ackTimer /\ r.active = m.active
        /\ r.sendNow = FALSE /\ r.pendingMPDU = m.pendingMPDU
        /\ r.pendingRTS = m.pendingRTS
        /\ r.ackState = m.ackState /\ r.state = m.state
        /\ r.ctsTimer = m.ctsTimer /\ r.src = m.src /\ r.lrc = m.lrc
    BY <1>1 DEF Coherent, MacTypes
  <1> HIDE DEF r
  <1>4. (AwaitsACK(r) <=> AwaitsACK(m)) /\ ~AwaitsACK(m)
    BY <1>1, <1>3 DEF AwaitsACK, Coherent, OneCopy
  <1>5. Coherent(r)
    BY <1>1, <1>3, <1>4 DEF Coherent, OneCopy, Counted
  <1>6. Calm(m, r)
    BY <1>1, <1>3, <1>4, TimerType DEF Calm
  <1> QED
    BY <1>1, <1>2, <1>3, <1>4, <1>5, <1>6, TransmitLink DEF m

LEMMA SifsOverLink ==
    ASSUME Inv, Inv', LinkInv, NEW s \in Stations, NEW expired,
           SifsOver(s, expired)
    PROVE  LinkInv' /\ LinkStep
  <1> DEFINE m == mac[s]
             f == sifs[s].frame
  <1>1. /\ sifs' = [sifs EXCEPT ![s] = Idle] /\ sifs[s].left = 0
        /\ Transmit(s, m, f, expired)
        /\ Coherent(m) /\ Carried(m, f, tx[s].frame) /\ f \in Frames
    BY At DEF SifsOver
  <1>2. f.kind = "DATA" => ~AwaitsACK(m)
    BY <1>1 DEF Carried, GaveAway
  <1>3. Calm(m, m)
    BY <1>1, CalmSelf
  <1> QED
    BY <1>1, <1>2, <1>3, TransmitLink

(* An action that changes no record.                                       *)
LEMMA NoneMoved ==
    ASSUME Inv, LinkInv, MediumMoved, \A q \in Stations : AckMoved(q),
           mac' = mac, fate' = fate,
           upper' = upper, delivered' = delivered, last' = last
    PROVE  LinkInv' /\ LinkStep
  <1>1. \A q \in Stations : AckAt(q)' /\ HistoryAt(q)'
    BY DEF LinkInv, AckMoved, AckAt, HistoryAt
  <1>2. MoreTypes'
    BY DEF LinkInv, MoreTypes, MediumMoved
  <1> QED
    BY <1>1, <1>2 DEF LinkInv, LinkStep, MediumMoved

(* The frames on the air stay what they are.                               *)
LEMMA AirStays ==
    ASSUME Inv, LinkInv, tx' = tx, sifs' = sifs
    PROVE  \A q \in Stations : AckMoved(q)
  BY DEF LinkInv, AckAt, AckMoved

LEMMA SynchronizeLink ==
    ASSUME Inv, Inv', LinkInv, MediumMoved, \A q \in Stations : AckMoved(q),
           NEW s \in Stations, NEW expired, Synchronize(s, expired),
           upper' = upper, delivered' = delivered, last' = last
    PROVE  LinkInv' /\ LinkStep
  <1> DEFINE r == IF rx[s] = "none" THEN mac[s] ELSE OnRxError(mac[s], expired)
  <1>1. Coherent(mac[s]) /\ Update(s, OnRxStart(r)) /\ Failed(s, expired)
    BY DEF Inv, Synchronize
  <1>2. Coherent(r) /\ Calm(mac[s], r)
    <2>1. Coherent(OnRxError(mac[s], expired))
      BY <1>1, OnRxErrorACKCoherent, OnRxErrorCTSCoherent DEF OnRxError
    <2> QED
      BY <1>1, <2>1, CalmSelf, CalmOnRxError
  <1> HIDE DEF r
  <1>3. Coherent(OnRxStart(r))
    <2>1. mac'[s] = OnRxStart(r)
      BY <1>1 DEF Update, Inv, Types
    <2> QED
      BY <2>1 DEF Inv
  <1>4. Calm(mac[s], OnRxStart(r))
    BY <1>1, <1>2, <1>3, CalmOnRxStart, CalmSteps
  <1> QED
    BY <1>1, <1>4, OneCalm

LEMMA PreambleEndsLink ==
    ASSUME Inv, Inv', LinkInv, NEW s \in Stations, NEW heard, NEW expired,
           PreambleEnds(s, heard, expired)
    PROVE  LinkInv' /\ LinkStep
  <1> DEFINE p == Peer(s)
             t == [tx[s] EXCEPT !.phase = "psdu", !.left = Psdu]
  <1>0. /\ p \in Stations /\ p # s /\ Peer(p) = s
        /\ \A q \in Stations : q = s \/ q = p
    BY PeerFacts
  <1>1. /\ tx' = [tx EXCEPT ![s].phase = "psdu", ![s].left = Psdu]
        /\ tx[s].phase = "preamble" /\ tx[s].left = 0
        /\ sifs' = sifs /\ upper' = upper /\ delivered' = delivered
        /\ last' = last
        /\ \/ /\ tx[p].phase = "off" /\ rx' = [rx EXCEPT ![p] = "peer"]
              /\ Synchronize(p, expired)
           \/ rx' = rx /\ mac' = mac /\ fate' = fate
    BY DEF PreambleEnds
  <1>2. tx'[s] = t /\ tx'[p] = tx[p]
    BY <1>0, <1>1 DEF Inv, Types
  <1>3. /\ t.phase = "psdu" /\ t.left = Psdu /\ t.frame = tx[s].frame
        /\ AirLeft(t) = AirLeft(tx[s])
    BY <1>1, At DEF AirLeft
  <1> HIDE DEF t
  <1>4. AckMoved(s) /\ AckMoved(p)
    <2>1. /\ AckOK(mac[s], tx[s], sifs[p], tx[p], last[p])
          /\ AckOK(mac[p], tx[p], sifs[s], tx[s], last[s])
      BY <1>0, At
    <2>2. AckOK(mac[s], t, sifs[p], tx[p], last[p])
      BY <1>3, <2>1 DEF AckOK
    <2>3. AckOK(mac[p], tx[p], sifs[s], t, last[s])
      BY <1>3, <2>1 DEF AckOK, HasAck, AckLeft
    <2> QED
      BY <1>0, <1>1, <1>2, <2>2, <2>3 DEF AckMoved
  <1>5. \A q \in Stations : AckMoved(q)
    BY <1>0, <1>4
  <1>6. MediumMoved
    <2>1. /\ MediumOK(sifs[s], tx[s], rx[s])
          /\ MediumOK(sifs[p], tx[p], rx[p])
      BY <1>0, At
    <2>2. /\ rx' \in [Stations -> {"none", "peer", "foreign"}]
          /\ rx'[s] = rx[s]
          /\ (rx'[p] = rx[p] \/ (rx'[p] = "peer" /\ tx[p].phase = "off"))
      BY <1>0, <1>1 DEF LinkInv, MoreTypes
    <2>3. MediumOK(sifs'[s], tx'[s], rx'[s])
      BY <1>1, <1>2, <1>3, <2>1, <2>2 DEF MediumOK
    <2>4. MediumOK(sifs'[p], tx'[p], rx'[p])
      BY <1>1, <1>2, <2>1, <2>2 DEF MediumOK
    <2> QED
      BY <1>0, <2>2, <2>3, <2>4 DEF MediumMoved, MediumAt
  <1> QED
    BY <1>0, <1>1, <1>5, <1>6, NoneMoved, SynchronizeLink

LEMMA ForeignPreambleLink ==
    ASSUME Inv, Inv', LinkInv, NEW s \in Stations, NEW d, NEW expired,
           ForeignPreamble(s, d, expired)
    PROVE  LinkInv' /\ LinkStep
  <1>1. /\ tx' = tx /\ sifs' = sifs /\ upper' = upper /\ last' = last
        /\ delivered' = delivered /\ rx' = [rx EXCEPT ![s] = "foreign"]
        /\ Synchronize(s, expired)
    BY DEF ForeignPreamble
  <1>2. /\ rx' \in [Stations -> {"none", "peer", "foreign"}]
        /\ \A q \in Stations : rx'[q] \in {rx[q], "foreign"}
    BY <1>1 DEF LinkInv, MoreTypes
  <1>3. MediumMoved
    BY <1>1, <1>2 DEF MediumMoved, MediumAt, MediumOK, LinkInv
  <1> QED
    BY <1>1, <1>3, AirStays, SynchronizeLink

LEMMA ForeignEndsLink ==
    ASSUME Inv, Inv', LinkInv, NEW s \in Stations, NEW ok, NEW expired,
           ForeignEnds(s, ok, expired)
    PROVE  LinkInv' /\ LinkStep
  <1> DEFINE r == IF ok THEN OnRxEnd(mac[s]) ELSE OnRxError(mac[s], expired)
  <1>1. /\ tx' = tx /\ sifs' = sifs /\ upper' = upper /\ last' = last
        /\ delivered' = delivered /\ rx' = [rx EXCEPT ![s] = "none"]
        /\ Update(s, r) /\ Failed(s, expired)
    BY DEF ForeignEnds
  <1>2. /\ rx' \in [Stations -> {"none", "peer", "foreign"}]
        /\ \A q \in Stations : rx'[q] \in {rx[q], "none"}
    BY <1>1 DEF LinkInv, MoreTypes
  <1>3. MediumMoved
    BY <1>1, <1>2 DEF MediumMoved, MediumAt, MediumOK, LinkInv
  <1>4. Calm(mac[s], r)
    BY At, CalmOnRxEnd, CalmOnRxError
  <1> HIDE DEF r
  <1> QED
    BY <1>1, <1>3, <1>4, AirStays, OneCalm

(* A timeout leaves the medium alone.                                      *)
LEMMA TimeoutLink ==
    ASSUME Inv, Inv', LinkInv, NEW s \in Stations, NEW expired,
           OnTimeoutACK(s, expired) \/ OnTimeoutCTS(s, expired)
    PROVE  LinkInv' /\ LinkStep
  <1>1. /\ tx' = tx /\ sifs' = sifs /\ rx' = rx /\ upper' = upper
        /\ last' = last /\ delivered' = delivered /\ Failed(s, expired)
    BY DEF OnTimeoutACK, OnTimeoutCTS, medium
  <1>2. MediumMoved
    BY <1>1 DEF MediumMoved, MediumAt, LinkInv, MoreTypes
  <1>3. CASE OnTimeoutACK(s, expired)
    <2>1. /\ mac[s].ackTimer = 0 /\ Update(s, AckTimeout(mac[s], expired))
      BY <1>3 DEF OnTimeoutACK
    <2>2. Coherent(mac[s]) /\ ~(mac[s].ackTimer > 0)
      BY <2>1, At
    <2>3. Calm(mac[s], AckTimeout(mac[s], expired))
      BY <2>2, CalmAckTimeout
    <2> QED
      BY <1>1, <1>2, <2>1, <2>3, AirStays, OneCalm
  <1>4. CASE OnTimeoutCTS(s, expired)
    <2>1. /\ mac[s].ctsTimer = 0 /\ Update(s, CtsTimeout(mac[s], expired))
      BY <1>4 DEF OnTimeoutCTS
    <2>2. Coherent(mac[s]) /\ mac[s].state # "idle"
      BY <2>1, At DEF Coherent, OneCopy, Off
    <2>3. Calm(mac[s], CtsTimeout(mac[s], expired))
      BY <2>2, CalmCtsTimeout
    <2> QED
      BY <1>1, <1>2, <2>1, <2>3, AirStays, OneCalm
  <1> QED
    BY <1>3, <1>4

(* An MSDU is accepted.                                                    *)
LEMMA HandDownLink ==
    ASSUME Inv, Inv', LinkInv, NEW s \in Stations, NEW expired,
           HandDown(s, expired)
    PROVE  LinkInv' /\ LinkStep
  <1> DEFINE m == mac[s]
             n == upper[s] + 1
             x == IF expired THEN "expired" ELSE "underway"
  <1>0. /\ n <= Load[s] /\ m.active = None
        /\ upper' = [upper EXCEPT ![s] = n]
        /\ fate' = [fate EXCEPT ![s][n] = x]
        /\ IF expired THEN mac' = mac ELSE Update(s, ProcessOutgoing(m, n))
        /\ sifs' = sifs /\ tx' = tx /\ rx' = rx /\ last' = last
        /\ delivered' = delivered
    BY DEF HandDown, medium
  <1>1. upper[s] \in Nat /\ fate[s] \in [MSDUs -> Fates]
        /\ fate \in [Stations -> [MSDUs -> Fates]]
    BY DEF Inv, Types, LinkInv, MoreTypes
  <1>2. n \in MSDUs /\ n # None
    BY <1>0, <1>1 DEF MSDUs, None
  <1>3. /\ HistoryOK(m, upper[s], fate[s], delivered[s], last[Peer(s)])
        /\ Coherent(m)
    BY At
  <1>4. x \in Fates /\ x # "queued"
    BY DEF Fates
  <1>5. /\ upper'[s] = n /\ fate'[s] = [fate[s] EXCEPT ![n] = x]
        /\ fate' \in [Stations -> [MSDUs -> Fates]]
        /\ \A q \in Stations \ {s} : fate'[q] = fate[q] /\ upper'[q] = upper[q]
    BY <1>0, <1>1, <1>2, <1>4 DEF Inv, Types
  <1>6. /\ \A q \in Stations \ {s} : mac'[q] = mac[q]
        /\ Coherent(mac'[s])
        /\ mac'[s].active = IF expired THEN None ELSE n
        /\ mac'[s].ackTimer = m.ackTimer /\ mac'[s].ackState = m.ackState
    <2>1. CASE expired
      BY <1>0, <1>3, <2>1
    <2>2. CASE ~expired
      <3> DEFINE c == IF BianchiRetryCounter THEN 1 ELSE m.ssrc + m.slrc + 1
                 k == [m EXCEPT !.active = n, !.sendNow = TRUE, !.counter = c]
      <3>1. c \in Nat
        BY <1>3 DEF Coherent, MacTypes
      <3>2. k \in MacTypes /\ k.active = n /\ k.ackTimer = m.ackTimer
            /\ k.ackState = m.ackState
        BY <1>2, <1>3, <3>1 DEF Coherent, MacTypes
      <3>3. ProcessOutgoing(m, n) = TryToSend(k)
        BY DEF ProcessOutgoing
      <3> HIDE DEF k, c
      <3>4. /\ mac'[s] = TryToSend(k)
            /\ \A q \in Stations \ {s} : mac'[q] = mac[q]
        BY <1>0, <2>2, <3>3 DEF Update, Inv, Types
      <3> QED
        BY <2>2, <3>2, <3>4, TryToSendFields DEF Inv
    <2> QED
      BY <2>1, <2>2
  <1>7. HistoryOK(mac'[s], n, fate'[s], delivered[s], last[Peer(s)])
    <2>1. \A k \in MSDUs : fate'[s][k] = IF k = n THEN x ELSE fate[s][k]
      BY <1>1, <1>2, <1>5
    <2>2. ASSUME NEW k \in MSDUs
          PROVE  /\ fate'[s][k] = "queued" <=> k > n
                 /\ fate'[s][k] = "underway" <=> k = mac'[s].active
      <3>1. /\ fate[s][k] = "queued" <=> k > upper[s]
            /\ fate[s][k] # "underway"
        BY <1>0, <1>3 DEF HistoryOK, MSDUs, None
      <3>2. CASE k = n
        BY <1>2, <1>4, <1>6, <2>1, <3>2 DEF MSDUs
      <3>3. CASE k # n
        BY <1>1, <1>6, <2>1, <3>1, <3>3 DEF MSDUs, None
      <3> QED
        BY <3>2, <3>3
    <2>3. ASSUME NEW i \in 1..Len(delivered[s])
          PROVE  /\ delivered[s][i] <= n
                 /\ delivered[s][i] = mac'[s].active =>
                        last[Peer(s)] = delivered[s][i]
      <3>1. delivered[s][i] \in MSDUs /\ delivered[s][i] <= upper[s]
        BY <1>3 DEF HistoryOK, LinkInv, MoreTypes
      <3> QED
        BY <1>1, <1>6, <3>1 DEF MSDUs, None
    <2> QED
      BY <1>3, <1>6, <2>2, <2>3 DEF HistoryOK
  <1>8. ASSUME NEW q \in Stations
        PROVE  AckAt(q)' /\ HistoryAt(q)' /\ MediumAt(q)'
    <2>1. AckOK(mac[q], tx[q], sifs[Peer(q)], tx[Peer(q)], last[Peer(q)])
      BY At
    <2>2. CASE q = s
      <3>1. m.sendNow \/ m.active = None
        BY <1>0
      <3>2. ~AwaitsACK(m)
        BY <1>0, <1>3 DEF Coherent, OneCopy
      <3>3. AckOK(mac'[s], tx[q], sifs[Peer(q)], tx[Peer(q)], last[Peer(q)])
        BY <1>6, <2>1, <2>2, <3>2 DEF AckOK, AwaitsACK
      <3> QED
        BY <1>0, <1>5, <1>7, <2>2, <3>3
           DEF AckAt, HistoryAt, MediumAt, LinkInv
    <2>3. CASE q # s
      <3>1. mac'[q] = mac[q] /\ fate'[q] = fate[q] /\ upper'[q] = upper[q]
        BY <1>5, <1>6, <2>3
      <3> QED
        BY <1>0, <2>1, <3>1, At DEF AckAt, HistoryAt, MediumAt
    <2> QED
      BY <2>2, <2>3
  <1>9. LinkInv'
    BY <1>0, <1>5, <1>8 DEF LinkInv, MoreTypes
  <1>10. Abstract!Accept(s, n)
    <2>1. ASSUME NEW k \in MSDUs
          PROVE  IF k < n THEN fate[s][k] \notin {"queued", "underway"}
                 ELSE fate[s][k] = "queued"
      BY <1>0, <1>1, <1>3 DEF HistoryOK, MSDUs, None
    <2> QED
      BY <1>0, <2>1 DEF Abstract!Accept, Abstract!Become, Abstract!MSDUs,
         MSDUs
  <1> QED
    BY <1>2, <1>9, <1>10
       DEF LinkStep, Abstract!Next, Abstract!MSDUs, MSDUs

(* Time brings the acknowledgement, the timeout and the end of what is on  *)
(* the air nearer, all at once.                                            *)
LEMMA TickLink ==
    ASSUME Inv, Inv', LinkInv, Tick
    PROVE  LinkInv' /\ LinkStep
  <1>0. /\ Off = -1
        /\ \A x \in Ticks :
              x # 0 => Earlier(x) = IF x = Off THEN Off ELSE x - 1
    BY DEF Off, Earlier
  <1>1. /\ rx' = rx /\ last' = last /\ upper' = upper
        /\ fate' = fate /\ delivered' = delivered
    BY DEF Tick, history
  <1>2. ASSUME NEW q \in Stations
        PROVE  /\ sifs'[q].frame = sifs[q].frame /\ tx'[q].frame = tx[q].frame
               /\ tx'[q].phase = tx[q].phase
               /\ sifs'[q].left = Earlier(sifs[q].left)
               /\ tx'[q].left = Earlier(tx[q].left)
               /\ mac'[q].ackTimer = Earlier(mac[q].ackTimer)
               /\ mac'[q].active = mac[q].active
               /\ mac'[q].ackState = mac[q].ackState
               /\ sifs[q].left # 0 /\ tx[q].left # 0 /\ mac[q].ackTimer # 0
               /\ sifs[q].left \in Ticks /\ tx[q].left \in Ticks
               /\ mac[q].ackTimer \in Ticks
    <2>1. /\ sifs[q] \in [frame : Frames, left : Ticks]
          /\ tx[q] \in [phase : {"off", "preamble", "psdu"}, frame : Frames,
                        left : Ticks]
          /\ mac[q] \in MacTypes
      BY At DEF Coherent
    <2>2. /\ sifs'[q] = [sifs[q] EXCEPT !.left = Earlier(sifs[q].left)]
          /\ tx'[q] = [tx[q] EXCEPT !.left = Earlier(tx[q].left)]
          /\ mac'[q] = [mac[q] EXCEPT
                           !.ackTimer = Earlier(mac[q].ackTimer),
                           !.ctsTimer = Earlier(mac[q].ctsTimer)]
          /\ sifs[q].left # 0 /\ tx[q].left # 0 /\ mac[q].ackTimer # 0
      BY DEF Tick
    <2> QED
      BY <2>1, <2>2 DEF MacTypes
  <1>3. ASSUME NEW q \in Stations
        PROVE  MediumOK(sifs'[q], tx'[q], rx'[q])
    <2>1. MediumOK(sifs[q], tx[q], rx[q])
      BY At
    <2> QED
      BY <1>0, <1>1, <1>2, <2>1 DEF MediumOK, Ticks
  <1>4. ASSUME NEW q \in Stations
        PROVE  AckOK(mac'[q], tx'[q], sifs'[Peer(q)], tx'[Peer(q)],
                     last'[Peer(q)])
    <2> DEFINE p == Peer(q)
               before == IF mac[q].ackTimer # Off THEN mac[q].ackTimer ELSE 0
               after == IF mac'[q].ackTimer # Off THEN mac'[q].ackTimer ELSE 0
    <2>0. p \in Stations
      BY PeerFacts
    <2>1. AckOK(mac[q], tx[q], sifs[p], tx[p], last[p])
      BY At
    <2>2. ASSUME HasAck(sifs[p], tx[p])
          PROVE  AckLeft(sifs'[p], tx'[p]) = AckLeft(sifs[p], tx[p]) - 1
      <3>1. MediumOK(sifs[p], tx[p], rx[p])
        BY <2>0, At
      <3>2. CASE sifs[p].frame.kind = "ACK"
        <4>1. sifs[p].left >= 0
          BY <3>1, <3>2 DEF MediumOK
        <4> QED
          BY <1>0, <1>2, <2>0, <3>2, <4>1 DEF AckLeft, Ticks
      <3>3. CASE sifs[p].frame.kind # "ACK"
        <4>1. tx[p].left >= 0
          BY <2>2, <3>1, <3>3 DEF MediumOK, HasAck
        <4> QED
          BY <1>0, <1>2, <2>0, <3>3, <4>1 DEF AckLeft, AirLeft, Ticks
      <3> QED
        BY <3>2, <3>3
    <2>3. ASSUME tx[q].frame.kind = "DATA"
          PROVE  AirLeft(tx'[q]) = AirLeft(tx[q]) - 1
      <3>1. tx[q].left >= 0
        BY <2>3, At DEF MediumOK
      <3> QED
        BY <1>0, <1>2, <3>1 DEF AirLeft, Ticks
    <2>4. before - 1 <= after /\ before \in Int /\ after \in Int
      BY <1>0, <1>2 DEF Ticks
    <2>5. /\ AckLeft(sifs[p], tx[p]) \in Int /\ AirLeft(tx[q]) \in Int
          /\ Slack \in Int
      BY <2>0, LeftAt DEF Slack
    <2> HIDE DEF before, after
    <2>6. ASSUME HasAck(sifs'[p], tx'[p])
          PROVE  /\ AckLeft(sifs'[p], tx'[p]) <= Slack + after
                 /\ tx'[q].frame.kind = "DATA" =>
                        AckLeft(sifs'[p], tx'[p]) < AirLeft(tx'[q])
                 /\ AwaitsACK(mac'[q]) => last'[p] = mac'[q].active
      <3>1. HasAck(sifs[p], tx[p])
        BY <1>2, <2>0, <2>6 DEF HasAck
      <3>2. /\ AckLeft(sifs[p], tx[p]) <= Slack + before
            /\ tx[q].frame.kind = "DATA" =>
                   AckLeft(sifs[p], tx[p]) < AirLeft(tx[q])
            /\ AwaitsACK(mac[q]) => last[p] = mac[q].active
        BY <2>1, <3>1 DEF AckOK, before
      <3>3. AckLeft(sifs'[p], tx'[p]) <= Slack + after
        BY <2>2, <2>4, <2>5, <3>1, <3>2
      <3>4. tx'[q].frame.kind = "DATA" =>
                AckLeft(sifs'[p], tx'[p]) < AirLeft(tx'[q])
        BY <1>2, <2>2, <2>3, <2>5, <3>1, <3>2
      <3>5. AwaitsACK(mac'[q]) => AwaitsACK(mac[q])
        BY <1>0, <1>2 DEF AwaitsACK
      <3>6. AwaitsACK(mac'[q]) => last'[p] = mac'[q].active
        BY <1>1, <1>2, <3>2, <3>5
      <3> QED
        BY <3>3, <3>4, <3>6
    <2> QED
      BY <2>6 DEF AckOK, after
  <1>5. ASSUME NEW q \in Stations
        PROVE  HistoryAt(q)'
    <2>1. HistoryOK(mac[q], upper[q], fate[q], delivered[q], last[Peer(q)])
      BY At
    <2>2. HistoryOK(mac'[q], upper[q], fate[q], delivered[q], last[Peer(q)])
      BY <1>2, <2>1 DEF HistoryOK
    <2> QED
      BY <1>1, <2>2 DEF HistoryAt
  <1>6. MoreTypes'
    BY <1>1 DEF LinkInv, MoreTypes
  <1> QED
    BY <1>1, <1>3, <1>4, <1>5, <1>6 DEF LinkInv, AckAt, MediumAt, LinkStep

(* A delivery of the active MSDU, the first or a later one.                *)
LEMMA DeliveredHistory ==
    ASSUME NEW m, NEW n \in Nat, NEW f, NEW d \in Seq(MSDUs), NEW l,
           HistoryOK(m, n, f, d, l), m.active \in MSDUs
    PROVE  /\ l = m.active => HistoryOK(m, n, f, d, m.active)
           /\ l # m.active =>
                  /\ HistoryOK(m, n, f, Append(d, m.active), m.active)
                  /\ ~\E i \in 1..Len(d) : d[i] = m.active
  <1>1. m.active # None /\ m.active = n
    BY DEF HistoryOK, MSDUs, None
  <1>2. ASSUME l # m.active
        PROVE  HistoryOK(m, n, f, Append(d, m.active), m.active)
    <2> DEFINE g == Append(d, m.active)
    <2>1. /\ Len(g) = Len(d) + 1 /\ g[Len(g)] = m.active /\ Len(d) \in Nat
          /\ \A i \in 1..Len(d) : g[i] = d[i]
      OBVIOUS
    <2> HIDE DEF g
    <2>2. ASSUME NEW i \in 1..Len(g)
          PROVE  g[i] <= n /\ (g[i] = m.active => m.active = g[i])
      <3>1. CASE i = Len(g)
        BY <1>1, <2>1, <3>1
      <3>2. CASE i # Len(g)
        <4>1. i \in 1..Len(d)
          BY <2>1, <3>2
        <4> QED
          BY <2>1, <4>1 DEF HistoryOK
      <3> QED
        BY <3>1, <3>2
    <2>3. \E i \in 1..Len(g) : g[i] = m.active
      <3>1. Len(g) \in 1..Len(g)
        BY <2>1
      <3> QED
        BY <2>1, <3>1
    <2>4. HistoryOK(m, n, f, g, m.active)
      BY <2>2, <2>3 DEF HistoryOK
    <2> QED
      BY <2>4 DEF g
  <1>3. l # m.active => ~\E i \in 1..Len(d) : d[i] = m.active
    BY DEF HistoryOK
  <1> QED
    BY <1>2, <1>3

(* The end of a transmission of s, at s itself.                            *)
LEMMA SenderEnds ==
    ASSUME Inv, LinkInv, NEW s \in Stations, tx[s].phase = "psdu",
           tx[s].left = 0, NEW f, f = tx[s].frame
    PROVE  /\ OnTxEnd(mac[s], f).active = mac[s].active
           /\ AckOK(OnTxEnd(mac[s], f), Quiet, sifs[Peer(s)], tx[Peer(s)],
                    last[Peer(s)])
           /\ f.kind = "DATA" =>
                  /\ f.sn = mac[s].active /\ mac[s].active # None
                  /\ OnTxEnd(mac[s], f).ackTimer = Timeout
  <1> DEFINE p == Peer(s)
             m == mac[s]
             r == OnTxEnd(m, f)
  <1>1. /\ p \in Stations /\ Coherent(m) /\ m \in MacTypes
        /\ Carried(m, sifs[s].frame, f)
        /\ AckOK(m, tx[s], sifs[p], tx[p], last[p])
        /\ MediumOK(sifs[p], tx[p], rx[p])
        /\ AckLeft(sifs[p], tx[p]) \in Int
    BY PeerFacts, At, LeftAt DEF Coherent
  <1>2. Quiet.frame.kind # "DATA"
    BY DEF Quiet, NoFrame
  <1>3. CASE f.kind = "DATA"
    <2>1. f.sn = m.active /\ m.active # None
      BY <1>1, <1>3 DEF Carried, GaveAway
    <2>2. r = [m EXCEPT !.ackState = "waitForACK", !.ackTimer = Timeout]
      BY <1>3, <2>1 DEF OnTxEnd
    <2>3. r.active = m.active /\ r.ackTimer = Timeout
      BY <1>1, <2>2 DEF MacTypes
    <2>4. ~HasAck(sifs[p], tx[p])
      <3> SUFFICES ASSUME HasAck(sifs[p], tx[p]) PROVE FALSE
        OBVIOUS
      <3>1. AckLeft(sifs[p], tx[p]) < AirLeft(tx[s])
        BY <1>1, <1>3 DEF AckOK
      <3>2. AirLeft(tx[s]) = 0
        BY DEF AirLeft
      <3>3. /\ sifs[p].left \in Int /\ tx[p].left \in Int
            /\ sifs[p].frame.kind = "ACK" => sifs[p].left >= 0
            /\ sifs[p].frame.kind # "ACK" => tx[p].left >= 0
        BY <1>1, At DEF MediumOK, HasAck, Ticks
      <3>4. AckLeft(sifs[p], tx[p]) >= 0
        BY <3>3 DEF AckLeft, AirLeft
      <3> QED
        BY <1>1, <3>1, <3>2, <3>4
    <2>5. AckOK(r, Quiet, sifs[p], tx[p], last[p])
      BY <2>4 DEF AckOK
    <2> QED
      BY <2>1, <2>3, <2>5
  <1>4. CASE f.kind # "DATA"
    <2>1. Calm(m, r) /\ Coherent(r)
      BY <1>1, <1>4, CalmOnTxEnd, OnTxEndCoherent
    <2>2. r.active = m.active
      BY <1>1, <1>4 DEF OnTxEnd, MacTypes
    <2> HIDE DEF r, m
    <2>3. AckOK(r, tx[s], sifs[p], tx[p], last[p])
      BY <1>1, <2>1, CalmAckOK
    <2>4. AckOK(r, Quiet, sifs[p], tx[p], last[p])
      BY <1>2, <2>3 DEF AckOK
    <2> QED
      BY <1>4, <2>2, <2>4 DEF r, m
  <1> QED
    BY <1>3, <1>4

(* ... and what remains to be shown about its peer p, with record r.       *)
LEMMA BothEnd ==
    ASSUME Inv, Inv', LinkInv, NEW s \in Stations, NEW p, p = Peer(s),
           NEW r, NEW n, Records(p, r, n),
           tx' = [tx EXCEPT ![s] = Quiet], tx[s].phase # "off",
           rx' = [rx EXCEPT ![p] = IF @ = "peer" THEN "none" ELSE @],
           upper' = upper, sifs'[s] = sifs[s], MoreTypes',
           MediumOK(sifs'[p], tx[p], rx'[p]),
           AckOK(n, Quiet, sifs'[p], tx[p], last'[p]),
           HistoryOK(r, upper[p], fate'[p], delivered'[p], last'[s]),
           HistoryOK(n, upper[s], fate'[s], delivered'[s], last'[p])
    PROVE  LinkInv'
  <1>0. /\ p \in Stations /\ p # s /\ Peer(p) = s
        /\ \A q \in Stations : q = s \/ q = p
    BY PeerFacts
  <1>1. /\ mac'[p] = r /\ mac'[s] = n
        /\ tx'[s] = Quiet /\ tx'[p] = tx[p] /\ rx'[s] = rx[s]
    BY <1>0 DEF Records, Inv, Types, LinkInv, MoreTypes
  <1>2. /\ Quiet.phase = "off" /\ Quiet.frame.kind = "none"
        /\ sifs[s].frame.kind = "none"
    BY At DEF Quiet, NoFrame, MediumOK
  <1>3. MediumOK(sifs'[s], tx'[s], rx'[s])
    BY <1>1, <1>2 DEF MediumOK
  <1>4. AckOK(mac'[p], tx'[p], sifs'[s], tx'[s], last'[s])
    BY <1>1, <1>2 DEF AckOK, HasAck
  <1>5. /\ AckAt(s)' /\ MediumAt(s)' /\ HistoryAt(s)'
        /\ AckAt(p)' /\ MediumAt(p)' /\ HistoryAt(p)'
    BY <1>0, <1>1, <1>3, <1>4 DEF AckAt, MediumAt, HistoryAt
  <1> QED
    BY <1>0, <1>5 DEF LinkInv

LEMMA TransmissionEndsLink ==
    ASSUME Inv, Inv', LinkInv, NEW s \in Stations, NEW outcome, NEW nav,
           NEW expired, TransmissionEnds(s, outcome, nav, expired)
    PROVE  LinkInv' /\ LinkStep
  <1> DEFINE p == Peer(s)
             f == tx[s].frame
             n == OnTxEnd(mac[s], f)
             m == mac[p]
             x == OnRxEnd(m)
  <1>0. /\ p \in Stations /\ p # s /\ Peer(p) = s
        /\ \A q \in Stations : q = s \/ q = p
    BY PeerFacts
  <1>1. /\ tx' = [tx EXCEPT ![s] = Quiet] /\ upper' = upper
        /\ tx[s].phase = "psdu" /\ tx[s].left = 0
        /\ rx' = [rx EXCEPT ![p] = IF @ = "peer" THEN "none" ELSE @]
        /\ \/ rx[p] = "peer" /\ Deliver(p, f, x, n, nav)
           \/ /\ \E r \in {m, x, OnRxError(m, expired)} : Records(p, r, n)
              /\ Failed(p, expired) /\ sifs' = sifs /\ last' = last
              /\ delivered' = delivered
    BY DEF TransmissionEnds
  <1>2. /\ n.active = mac[s].active
        /\ AckOK(n, Quiet, sifs[p], tx[p], last[p])
        /\ f.kind = "DATA" => /\ f.sn = mac[s].active
                              /\ mac[s].active # None
                              /\ n.ackTimer = Timeout
    BY <1>1, SenderEnds
  <1>3. /\ Coherent(m) /\ Coherent(mac[s])
        /\ Carried(m, sifs[p].frame, tx[p].frame)
        /\ MediumOK(sifs[p], tx[p], rx[p])
        /\ AckOK(m, tx[p], sifs[s], tx[s], last[s])
        /\ HistoryOK(m, upper[p], fate[p], delivered[p], last[s])
        /\ HistoryOK(mac[s], upper[s], fate[s], delivered[s], last[p])
        /\ rx[p] \in {"none", "peer", "foreign"}
    BY <1>0, At
  <1>4. HistoryOK(n, upper[s], fate[s], delivered[s], last[p])
    BY <1>2, <1>3 DEF HistoryOK
  <1>5. /\ rx' \in [Stations -> {"none", "peer", "foreign"}]
        /\ rx'[p] = IF rx[p] = "peer" THEN "none" ELSE rx[p]
    BY <1>0, <1>1 DEF LinkInv, MoreTypes
  <1>6. /\ last \in [Stations -> MSDUs \cup {None}]
        /\ fate \in [Stations -> [MSDUs -> Fates]]
        /\ delivered \in [Stations -> Seq(MSDUs)]
        /\ upper[s] \in Nat /\ upper[p] \in Nat
    BY <1>0 DEF LinkInv, MoreTypes, Inv, Types
  <1>7. /\ Coherent(x) /\ Calm(m, x) /\ x.active = m.active
        /\ x.ackState = "receptionFinished" => AwaitsACK(m)
    BY <1>3, CalmOnRxEnd, OnRxEndCoherent
  <1>8. ASSUME NEW r, Records(p, r, n)
        PROVE  mac'[p] = r /\ Coherent(r)
    <2>1. mac'[p] = r
      BY <1>0, <1>8 DEF Records, Inv, Types
    <2> QED
      BY <1>0, <2>1 DEF Inv
  <1> HIDE DEF n, m, f, x, p
  (* Nothing is delivered: the station p may have given up on its MSDU.    *)
  <1>9. ASSUME NEW r \in {m, x, OnRxError(m, expired)}, Records(p, r, n),
               Failed(p, expired), sifs' = sifs, last' = last,
               delivered' = delivered
        PROVE  LinkInv' /\ LinkStep
    <2>1. mac'[p] = r /\ Coherent(r)
      BY <1>8, <1>9
    <2>2. Calm(m, r)
      BY <1>3, <1>7, <1>9, CalmSelf, CalmOnRxError
    <2>3. /\ LinkStep /\ fate' \in [Stations -> [MSDUs -> Fates]]
          /\ \A q \in Stations \ {p} : fate'[q] = fate[q]
          /\ HistoryOK(r, upper[p], fate'[p], delivered[p], last[s])
      BY <1>0, <1>9, <2>1, <2>2, FailedStep DEF m
    <2>4. MoreTypes'
      BY <1>5, <1>6, <1>9, <2>3 DEF MoreTypes
    <2>5. MediumOK(sifs'[p], tx[p], rx'[p])
      BY <1>3, <1>5, <1>9 DEF MediumOK
    <2>6. fate'[s] = fate[s] /\ sifs'[s] = sifs[s]
      BY <1>0, <1>9, <2>3
    <2> QED
      BY <1>0, <1>1, <1>2, <1>4, <1>9, <2>3, <2>4, <2>5, <2>6, BothEnd DEF p
  (* A delivery that leaves data and fates alone.                          *)
  <1>10. ASSUME NEW r, Records(p, r, n), r.active = m.active, rx[p] = "peer",
                \/ sifs' = sifs
                \/ \E u : /\ sifs' = [sifs EXCEPT ![p] =
                                         [frame |-> u, left |-> Sifs]]
                          /\ u.kind # "ACK",
                last' = last, delivered' = delivered, fate' = fate
         PROVE  LinkInv' /\ LinkStep
    <2>1. HistoryOK(r, upper[p], fate[p], delivered[p], last[s])
      BY <1>3, <1>10 DEF HistoryOK
    <2>2. MoreTypes'
      BY <1>5, <1>6, <1>10 DEF MoreTypes
    <2>3. tx[p].phase = "off" /\ tx[p].frame.kind = "none" /\ rx'[p] = "none"
      BY <1>3, <1>5, <1>10 DEF MediumOK
    <2>4. /\ sifs'[s] = sifs[s]
          /\ MediumOK(sifs'[p], tx[p], rx'[p])
          /\ AckOK(n, Quiet, sifs'[p], tx[p], last[p])
      <3>1. CASE sifs' = sifs
        BY <1>2, <1>3, <2>3, <3>1 DEF MediumOK
      <3>2. ASSUME NEW u, u.kind # "ACK",
                   sifs' = [sifs EXCEPT ![p] = [frame |-> u, left |-> Sifs]]
            PROVE  /\ sifs'[s] = sifs[s]
                   /\ MediumOK(sifs'[p], tx[p], rx'[p])
                   /\ AckOK(n, Quiet, sifs'[p], tx[p], last[p])
        <4>1. /\ sifs'[s] = sifs[s] /\ sifs'[p].frame = u
              /\ sifs'[p].left = Sifs
          BY <1>0, <3>2 DEF Inv, Types
        <4> QED
          BY <2>3, <3>2, <4>1 DEF MediumOK, AckOK, HasAck
      <3> QED
        BY <1>10, <3>1, <3>2
    <2> QED
      BY <1>0, <1>1, <1>4, <1>10, <2>1, <2>2, <2>4, BothEnd DEF p, LinkStep
  <1>11. CASE f.kind = "DATA" /\ rx[p] = "peer" /\ DeliverData(p, f, x, n)
    <2> DEFINE r == [x EXCEPT !.ackState = "sendingACK"]
               k == mac[s].active
    <2>1. /\ Records(p, r, n)
          /\ sifs' = [sifs EXCEPT ![p] = [frame |-> Control("ACK"),
                                          left |-> Sifs]]
          /\ last' = [last EXCEPT ![p] = k] /\ fate' = fate
          /\ delivered' = IF last[p] = k THEN delivered
                          ELSE [delivered EXCEPT ![s] =
                                   Append(delivered[s], k)]
      BY <1>0, <1>2, <1>11 DEF DeliverData, Reply, IsDuplicate
    <2>2. r.active = m.active
      BY <1>7 DEF Coherent, MacTypes
    <2> HIDE DEF r
    <2>3. HistoryOK(r, upper[p], fate[p], delivered[p], last[s])
      BY <1>3, <2>2 DEF HistoryOK
    <2>4. k \in MSDUs /\ fate[s][k] = "underway"
      <3>1. k \in MSDUs
        BY <1>2, <1>3, <1>11 DEF Coherent, MacTypes
      <3> QED
        BY <1>3, <3>1 DEF HistoryOK
    <2>5. /\ last'[p] = k /\ last'[s] = last[s]
          /\ last' \in [Stations -> MSDUs \cup {None}]
      BY <1>0, <1>6, <2>1, <2>4
    <2>6. /\ last[p] = k =>
                HistoryOK(mac[s], upper[s], fate[s], delivered[s], k)
          /\ last[p] # k =>
                /\ HistoryOK(mac[s], upper[s], fate[s],
                             Append(delivered[s], k), k)
                /\ ~\E i \in 1..Len(delivered[s]) : delivered[s][i] = k
      <3>1. /\ HistoryOK(mac[s], upper[s], fate[s], delivered[s], last[p])
            /\ delivered[s] \in Seq(MSDUs) /\ upper[s] \in Nat
        BY <1>3, <1>6
      <3> QED
        BY <2>4, <3>1, DeliveredHistory
    <2>7. /\ delivered' \in [Stations -> Seq(MSDUs)]
          /\ delivered'[p] = delivered[p]
          /\ delivered'[s] = IF last[p] = k THEN delivered[s]
                             ELSE Append(delivered[s], k)
      <3>1. Append(delivered[s], k) \in Seq(MSDUs)
        BY <1>6, <2>4
      <3> HIDE DEF k
      <3> QED
        BY <1>0, <1>6, <2>1, <3>1
    <2>8. HistoryOK(n, upper[s], fate[s], delivered'[s], k)
      BY <1>2, <2>6, <2>7 DEF HistoryOK
    <2>9. LinkStep
      <3>1. CASE last[p] = k
        BY <2>1, <3>1 DEF LinkStep
      <3>2. CASE last[p] # k
        <4>1. Abstract!Deliver(s, k)
          BY <2>1, <2>4, <2>6, <3>2 DEF Abstract!Deliver, Abstract!Got
        <4> QED
          BY <2>4, <4>1 DEF LinkStep, Abstract!Next, Abstract!MSDUs, MSDUs
      <3> QED
        BY <3>1, <3>2
    <2>10. /\ sifs'[s] = sifs[s] /\ sifs'[p].left = Sifs
           /\ sifs'[p].frame = Control("ACK")
           /\ Control("ACK").kind = "ACK"
      BY <1>0, <2>1 DEF Inv, Types, Control
    <2>11. tx[p].phase = "off" /\ tx[p].frame.kind = "none"
      BY <1>3, <1>11 DEF MediumOK
    <2>12. MediumOK(sifs'[p], tx[p], rx'[p])
      BY <2>10, <2>11 DEF MediumOK
    <2>13. AckOK(n, Quiet, sifs'[p], tx[p], last'[p])
      <3>1. n.ackTimer = Timeout /\ Timeout # Off /\ n.active = k
        BY <1>2, <1>11 DEF Off
      <3>2. AckLeft(sifs'[p], tx[p]) = Slack + Timeout
        BY <2>10 DEF AckLeft, Slack
      <3>3. Slack + Timeout <= Slack + Timeout
        BY DEF Slack
      <3>4. Quiet.frame.kind # "DATA"
        BY DEF Quiet, NoFrame
      <3> QED
        BY <2>5, <3>1, <3>2, <3>3, <3>4 DEF AckOK
    <2>14. MoreTypes'
      BY <1>5, <1>6, <2>1, <2>5, <2>7 DEF MoreTypes
    <2>15. /\ HistoryOK(r, upper[p], fate'[p], delivered'[p], last'[s])
           /\ HistoryOK(n, upper[s], fate'[s], delivered'[s], last'[p])
      BY <2>1, <2>3, <2>5, <2>7, <2>8
    <2>16. Records(p, r, n) /\ tx[s].phase # "off"
      BY <1>1, <2>1
    <2> HIDE DEF k
    <2> QED
      BY <1>1, <2>9, <2>10, <2>12, <2>13, <2>14, <2>15, <2>16, BothEnd DEF p
  <1>12. CASE rx[p] = "peer" /\ DeliverRTS(p, x, n, nav)
    <2>1. Control("CTS").kind # "ACK"
      BY DEF Control
    <2> QED
      BY <1>7, <1>10, <1>12, <2>1 DEF DeliverRTS, Reply
  <1>13. CASE rx[p] = "peer" /\ DeliverCTS(p, x, n)
    <2>1. ReceiveCTS(x).active = x.active
      BY <1>7 DEF ReceiveCTS, Coherent, MacTypes
    <2>2. Data(x.pendingMPDU).kind # "ACK"
      BY DEF Data
    <2> QED
      BY <1>7, <1>10, <1>13, <2>1, <2>2 DEF DeliverCTS, Reply
  <1>14. CASE /\ f.kind = "ACK" /\ rx[p] = "peer"
              /\ DeliverACK(p, x, n)
    <2>1. CASE x.active = None \/ x.ackState # "receptionFinished"
      BY <1>7, <1>10, <1>14, <2>1 DEF DeliverACK
    <2>2. CASE ~(x.active = None \/ x.ackState # "receptionFinished")
      <3> DEFINE r == ReceiveACK(x)
                 k == m.active
      <3>1. /\ Records(p, r, n) /\ sifs' = sifs /\ last' = last
            /\ delivered' = delivered
            /\ fate' = [fate EXCEPT ![p][k] = "confirmed"]
        BY <1>7, <1>14, <2>2 DEF DeliverACK
      <3>2. k # None /\ AwaitsACK(m) /\ k \in MSDUs
        BY <1>3, <1>7, <2>2 DEF Coherent, MacTypes
      <3>3. last[s] = k
        <4>1. HasAck(sifs[s], tx[s])
          BY <1>14 DEF HasAck, f
        <4> QED
          BY <1>3, <3>2, <4>1 DEF AckOK
      <3>4. /\ fate[p][k] = "underway"
            /\ \E i \in 1..Len(delivered[p]) : delivered[p][i] = k
        BY <1>3, <3>2, <3>3 DEF HistoryOK
      <3>5. Abstract!Confirm(p, k)
        BY <3>1, <3>4 DEF Abstract!Confirm, Abstract!Got, Abstract!Become
      <3>6. LinkStep
        BY <1>0, <3>2, <3>5
           DEF LinkStep, Abstract!Next, Abstract!MSDUs, MSDUs
      <3>7. r.active = None
        BY <1>7 DEF ReceiveACK, Coherent, MacTypes
      <3> HIDE DEF r
      <3>8. /\ fate' \in [Stations -> [MSDUs -> Fates]]
            /\ fate'[s] = fate[s]
            /\ \A j \in MSDUs : fate'[p][j] = IF j = k THEN "confirmed"
                                              ELSE fate[p][j]
        <4> HIDE DEF k
        <4> QED
          BY <1>0, <1>6, <3>1, <3>2 DEF Fates
      <3>9. HistoryOK(r, upper[p], fate'[p], delivered[p], last[s])
        <4>1. ASSUME NEW j \in MSDUs
              PROVE  /\ fate'[p][j] = "queued" <=> j > upper[p]
                     /\ fate'[p][j] = "underway" <=> j = r.active
          <5>1. /\ fate[p][j] = "queued" <=> j > upper[p]
                /\ fate[p][j] = "underway" <=> j = k
                /\ j # None /\ k = upper[p]
            BY <1>3, <3>2 DEF HistoryOK, MSDUs, None
          <5>2. CASE j = k
            BY <1>6, <3>7, <3>8, <5>1, <5>2
          <5>3. CASE j # k
            BY <3>7, <3>8, <5>1, <5>3
          <5> QED
            BY <5>2, <5>3
        <4>2. \A i \in 1..Len(delivered[p]) :
                  /\ delivered[p][i] <= upper[p]
                  /\ delivered[p][i] = r.active => last[s] = delivered[p][i]
          <5>1. \A i \in 1..Len(delivered[p]) :
                    delivered[p][i] \in MSDUs /\ delivered[p][i] <= upper[p]
            BY <1>0, <1>3, <1>6 DEF HistoryOK
          <5> QED
            BY <3>7, <5>1 DEF MSDUs, None
        <4> QED
          BY <1>3, <3>7, <4>1, <4>2 DEF HistoryOK
      <3>10. MoreTypes'
        BY <1>5, <1>6, <3>1, <3>8 DEF MoreTypes
      <3>11. MediumOK(sifs'[p], tx[p], rx'[p])
        BY <1>3, <1>5, <3>1 DEF MediumOK
      <3> QED
        BY <1>0, <1>1, <1>2, <1>4, <3>1, <3>6, <3>8, <3>9, <3>10, <3>11,
           BothEnd DEF p
    <2> QED
      BY <2>1, <2>2
  <1> QED
    BY <1>1, <1>9, <1>11, <1>12, <1>13, <1>14 DEF Deliver

-----------------------------------------------------------------------------
(* Initially nothing was handed down, is on the air or was delivered.      *)
LEMMA LinkInit == Init => LinkInv /\ Abstract!Init
  <1> SUFFICES ASSUME Init PROVE LinkInv /\ Abstract!Init
    OBVIOUS
  <1>1. /\ rx = [s \in Stations |-> "none"]
        /\ sifs = [s \in Stations |-> Idle]
        /\ tx = [s \in Stations |-> Quiet]
        /\ last = [s \in Stations |-> None]
        /\ upper = [s \in Stations |-> 0]
        /\ fate = [s \in Stations |-> [n \in MSDUs |-> "queued"]]
        /\ delivered = [s \in Stations |-> <<>>]
        /\ \A s \in Stations : mac[s].active = None
    BY DEF Init
  <1>2. MoreTypes
    BY <1>1 DEF MoreTypes, Fates
  <1>3. ASSUME NEW s \in Stations
        PROVE  MediumAt(s) /\ AckAt(s) /\ HistoryAt(s)
    <2>1. /\ sifs[s] = Idle /\ tx[s] = Quiet /\ rx[s] = "none"
          /\ Peer(s) \in Stations
          /\ sifs[Peer(s)] = Idle /\ tx[Peer(s)] = Quiet
          /\ last[Peer(s)] = None
      BY <1>1, PeerFacts
    <2>2. /\ Idle.frame.kind = "none" /\ Quiet.frame.kind = "none"
          /\ Quiet.phase = "off"
      BY DEF Idle, Quiet, NoFrame
    <2>3. MediumAt(s) /\ AckAt(s)
      BY <2>1, <2>2 DEF MediumAt, MediumOK, AckAt, AckOK, HasAck
    <2>4. /\ mac[s].active = None /\ upper[s] = 0 /\ delivered[s] = <<>>
          /\ \A k \in MSDUs : fate[s][k] = "queued" /\ k > 0
      BY <1>1 DEF MSDUs
    <2>5. \A k \in MSDUs : k # None
      BY DEF MSDUs, None
    <2>6. HistoryOK(mac[s], upper[s], fate[s], delivered[s], last[Peer(s)])
      BY <2>1, <2>4, <2>5 DEF HistoryOK
    <2> QED
      BY <2>3, <2>6 DEF HistoryAt
  <1>4. Abstract!Init
    BY <1>1 DEF Abstract!Init, Abstract!MSDUs, MSDUs
  <1> QED
    BY <1>2, <1>3, <1>4 DEF LinkInv

LEMMA LinkNext ==
    Inv /\ Inv' /\ LinkInv /\ [Next]_vars => LinkInv' /\ LinkStep
  <1> SUFFICES ASSUME Inv, Inv', LinkInv, [Next]_vars
               PROVE  LinkInv' /\ LinkStep
    OBVIOUS
  <1>1. CASE Tick
    BY <1>1, TickLink
  <1>2. ASSUME NEW s \in Stations, SendRTS(s) \/ SendData(s)
        PROVE  LinkInv' /\ LinkStep
    BY <1>2, SendRTSLink, SendDataLink
  <1>3. ASSUME NEW s \in Stations, NEW expired \in BOOLEAN,
               \/ HandDown(s, expired) \/ SifsOver(s, expired)
               \/ OnTimeoutACK(s, expired) \/ OnTimeoutCTS(s, expired)
        PROVE  LinkInv' /\ LinkStep
    BY <1>3, HandDownLink, SifsOverLink, TimeoutLink
  <1>4. ASSUME NEW s \in Stations, NEW expired \in BOOLEAN,
               \/ \E heard \in BOOLEAN : PreambleEnds(s, heard, expired)
               \/ \E d \in Foreign : ForeignPreamble(s, d, expired)
               \/ \E ok \in BOOLEAN : ForeignEnds(s, ok, expired)
        PROVE  LinkInv' /\ LinkStep
    BY <1>4, PreambleEndsLink, ForeignPreambleLink, ForeignEndsLink
  <1>5. ASSUME NEW s \in Stations, NEW expired \in BOOLEAN,
               NEW outcome \in Outcomes, NEW nav \in BOOLEAN,
               TransmissionEnds(s, outcome, nav, expired)
        PROVE  LinkInv' /\ LinkStep
    BY <1>5, TransmissionEndsLink
  <1>6. CASE vars' = vars
    <2>1. /\ mac' = mac /\ sifs' = sifs /\ tx' = tx /\ rx' = rx
          /\ last' = last /\ upper' = upper /\ fate' = fate
          /\ delivered' = delivered
      BY <1>6 DEF vars, medium, history
    <2>2. MediumMoved
      BY <2>1 DEF MediumMoved, MediumAt, LinkInv, MoreTypes
    <2> QED
      BY <2>1, <2>2, AirStays, NoneMoved
  <1> QED
    BY <1>1, <1>2, <1>3, <1>4, <1>5, <1>6 DEF Next

(* The timing of the acknowledgements and the history are inductive        *)
(* together with the invariant of FrameExchange_proofs.                    *)
THEOREM LinkInvariance == Spec => []LinkInv
  <1>1. Init => LinkInv
    BY LinkInit
  <1>2. Inv /\ Inv' /\ LinkInv /\ [Next]_vars => LinkInv'
    BY LinkNext
  <1> QED
    BY <1>1, <1>2, Invariance, PTL DEF Spec

(* The exchange of frames with RTS, CTS, acknowledgements without numbers, *)
(* timeouts, retransmissions and a filter of duplicates implements a link  *)
(* that delivers every MSDU at most once, in order, and confirms none that *)
(* was not delivered.                                                      *)
THEOREM RefinesLink == Spec => ImplementsLink
  <1>1. Init => Abstract!Init
    BY LinkInit
  <1>2. Inv /\ Inv' /\ LinkInv /\ [Next]_vars
            => [Abstract!Next]_(Abstract!vars)
    BY LinkNext DEF LinkStep, Abstract!vars
  <1> QED
    BY <1>1, <1>2, Invariance, LinkInvariance, PTL
       DEF Spec, ImplementsLink, Abstract!Spec

-----------------------------------------------------------------------------
(* Nothing is forgotten: the wait for a reply, and the reply.              *)

(* Who waits for an acknowledgement, or for its delivery, has a timer; the *)
(* same for a CTS.                                                         *)
AckTimed(m) ==
    m.ackState \in {"waitForACK", "receptionFinished"} => m.ackTimer # Off
CtsTimed(m) ==
    /\ m.state \in {"waitForCTS", "receptionFinished"} => m.ctsTimer # Off
    /\ m.state = "transmitRTS" => m.ctsTimer = Off
Timed(m) == AckTimed(m) /\ CtsTimed(m)

(* What a handler that is not about own frames makes of m: it does not     *)
(* give away the MSDU, and begins neither a reception nor an RTS.          *)
Settles(m, r) ==
    /\ Timed(r)
    /\ GaveAway(r) => GaveAway(m) /\ r.active = m.active
    /\ r.ackState = "receiving" => m.ackState = "receiving"
    /\ m.state = "transmitRTS" => r.state = "transmitRTS"

(* What the ARQ offers is with itself or with RTSCTS.                      *)
LEMMA TryToSendKeeps ==
    ASSUME NEW m \in MacTypes
    PROVE  /\ TryToSend(m).state = m.state
           /\ TryToSend(m).ctsTimer = m.ctsTimer
           /\ GaveAway(TryToSend(m)) => ~m.sendNow
           /\ TryToSend(m).sendNow => m.sendNow
           /\ m.pendingMPDU # None => TryToSend(m) = m
  <1>1. CASE m.sendNow /\ UsesRTS(m.active) /\ m.pendingMPDU = None
    <2> DEFINE r == [m EXCEPT !.sendNow = FALSE, !.pendingMPDU = m.active,
                              !.pendingRTS = TRUE]
    <2>1. TryToSend(m) = r
      BY <1>1 DEF TryToSend
    <2>2. /\ r.state = m.state /\ r.ctsTimer = m.ctsTimer
          /\ r.pendingMPDU = m.active /\ r.active = m.active
          /\ r.sendNow = FALSE
      BY DEF MacTypes
    <2> HIDE DEF r
    <2> QED
      BY <1>1, <2>1, <2>2 DEF GaveAway
  <1>2. CASE ~(m.sendNow /\ UsesRTS(m.active) /\ m.pendingMPDU = None)
    BY <1>2 DEF TryToSend, GaveAway
  <1> QED
    BY <1>1, <1>2

LEMMA FailedKeeps ==
    ASSUME NEW m \in MacTypes, NEW expired
    PROVE  LET h == TransmissionHasFailed(m, expired)
           IN  /\ h.state = m.state /\ h.ctsTimer = m.ctsTimer
               /\ h.ackState = "none" /\ h.ackTimer = Off
               /\ h.active \in {m.active, None}
               /\ ~GaveAway(h)
               /\ m.pendingMPDU # None => h.active = None \/ h.sendNow
  <1> DEFINE n == [m EXCEPT !.ackTimer = Off, !.ackState = "none"]
             a == [n EXCEPT !.src = 0, !.lrc = 0, !.sendNow = FALSE,
                            !.active = None]
             b == [n EXCEPT !.sendNow = TRUE, !.counter = RetryCounter(m)]
             h == TransmissionHasFailed(m, expired)
  <1>1. n \in MacTypes
    BY NothingTyped DEF MacTypes
  <1>2. a \in MacTypes /\ b \in MacTypes
    BY <1>1, RetryCounterType, NothingTyped DEF MacTypes
  <1>3. /\ a.active = None /\ a.ackTimer = Off /\ a.ackState = "none"
        /\ b.active = m.active /\ b.ackTimer = Off /\ b.ackState = "none"
        /\ b.sendNow = TRUE /\ b.pendingMPDU = m.pendingMPDU
        /\ a.state = m.state /\ b.state = m.state
        /\ a.ctsTimer = m.ctsTimer /\ b.ctsTimer = m.ctsTimer
    BY DEF MacTypes
  <1>4. h \in {a, TryToSend(b)}
    BY DEF TransmissionHasFailed
  <1> HIDE DEF a, b, h
  <1>5. /\ TryToSend(b).active = m.active /\ TryToSend(b).ackTimer = Off
        /\ TryToSend(b).ackState = "none" /\ TryToSend(b).state = m.state
        /\ TryToSend(b).ctsTimer = m.ctsTimer
        /\ ~GaveAway(TryToSend(b))
        /\ m.pendingMPDU # None => TryToSend(b) = b
    BY <1>2, <1>3, TryToSendFields, TryToSendKeeps
  <1>6. ~GaveAway(a)
    BY <1>3 DEF GaveAway
  <1>7. /\ h.state = m.state /\ h.ctsTimer = m.ctsTimer
        /\ h.ackState = "none" /\ h.ackTimer = Off
        /\ h.active \in {m.active, None}
        /\ ~GaveAway(h)
        /\ m.pendingMPDU # None => h.active = None \/ h.sendNow
    BY <1>3, <1>4, <1>5, <1>6
  <1> QED
    BY <1>7 DEF h

LEMMA AckTimeoutSettles ==
    ASSUME NEW m \in MacTypes, NEW expired, CtsTimed(m)
    PROVE  Settles(m, AckTimeout(m, expired))
  <1>1. CASE m.ackState = "receiving"
    <2> DEFINE r == [m EXCEPT !.ackTimer = Off]
    <2>1. AckTimeout(m, expired) = r
      BY <1>1 DEF AckTimeout
    <2>2. /\ r.ackState = "receiving" /\ r.state = m.state
          /\ r.ctsTimer = m.ctsTimer
      BY <1>1 DEF MacTypes
    <2> HIDE DEF r
    <2> QED
      BY <1>1, <2>1, <2>2
         DEF Settles, Timed, AckTimed, CtsTimed, GaveAway, AwaitsACK
  <1>2. CASE m.ackState # "receiving"
    <2> DEFINE c == IF IsLong(m.active) THEN CountLong(m) ELSE CountShort(m)
    <2>1. AckTimeout(m, expired) = TransmissionHasFailed(c, expired)
      BY <1>2 DEF AckTimeout
    <2>2. c \in MacTypes /\ c.state = m.state /\ c.ctsTimer = m.ctsTimer
      BY CountFields DEF CountLong, CountShort, MacTypes
    <2> HIDE DEF c
    <2> DEFINE h == TransmissionHasFailed(c, expired)
    <2>3. /\ h.state = m.state /\ h.ctsTimer = m.ctsTimer
          /\ h.ackState = "none" /\ ~GaveAway(h)
      BY <2>2, FailedKeeps
    <2> HIDE DEF h
    <2>4. Settles(m, h)
      BY <2>3 DEF Settles, Timed, AckTimed, CtsTimed
    <2> QED
      BY <2>1, <2>4 DEF h
  <1> QED
    BY <1>1, <1>2

LEMMA CtsTimeoutSettles ==
    ASSUME NEW m, Coherent(m), NEW expired, AckTimed(m),
           m.state \notin {"idle", "transmitRTS"}
    PROVE  Settles(m, CtsTimeout(m, expired))
  <1>0. m \in MacTypes /\ m.pendingMPDU # None
    BY DEF Coherent, OneCopy
  <1>1. CASE m.state = "receiveCTS"
    <2> DEFINE r == [m EXCEPT !.ctsTimer = Off]
    <2>1. CtsTimeout(m, expired) = r
      BY <1>1 DEF CtsTimeout
    <2>2. /\ r.ackState = m.ackState /\ r.state = m.state
          /\ r.ackTimer = m.ackTimer /\ r.pendingMPDU = m.pendingMPDU
      BY <1>0 DEF MacTypes
    <2> HIDE DEF r
    <2>3. Settles(m, r)
      BY <1>0, <1>1, <2>2 DEF Settles, Timed, AckTimed, CtsTimed, GaveAway
    <2> QED
      BY <2>1, <2>3
  <1>2. CASE m.state # "receiveCTS"
    <2> DEFINE c == CountShort(m)
               h == TransmissionHasFailed(c, expired)
               g == [h EXCEPT !.pendingMPDU = None, !.state = "idle",
                              !.ctsTimer = Off]
    <2>1. CtsTimeout(m, expired) = TryToSend(g)
      BY <1>2 DEF CtsTimeout
    <2>2. c \in MacTypes /\ c.pendingMPDU = m.pendingMPDU
      BY <1>0, CountFields DEF CountShort, MacTypes
    <2> HIDE DEF c
    <2>3. /\ h \in MacTypes /\ h.ackState = "none"
          /\ h.active = None \/ h.sendNow
      BY <1>0, <2>2, FailedFields, FailedKeeps
    <2> HIDE DEF h
    <2>4. /\ g \in MacTypes /\ g.active = h.active /\ g.ackState = "none"
          /\ g.sendNow = h.sendNow /\ g.state = "idle"
      BY <2>3, NothingTyped DEF MacTypes
    <2> HIDE DEF g
    <2>5. /\ TryToSend(g).state = "idle" /\ TryToSend(g).ackState = "none"
          /\ TryToSend(g).active = g.active
          /\ GaveAway(TryToSend(g)) => ~g.sendNow
      BY <2>4, TryToSendFields, TryToSendKeeps
    <2>6. ~GaveAway(TryToSend(g))
      BY <2>3, <2>4, <2>5 DEF GaveAway
    <2>7. Settles(m, TryToSend(g))
      BY <2>5, <2>6 DEF Settles, Timed, AckTimed, CtsTimed
    <2> QED
      BY <2>1, <2>7
  <1> QED
    BY <1>1, <1>2

LEMMA SettlesSteps ==
    ASSUME NEW m, NEW n, NEW r, Settles(m, n), Settles(n, r)
    PROVE  Settles(m, r)
  BY DEF Settles

LEMMA OnRxErrorSettles ==
    ASSUME NEW m, Coherent(m), Timed(m), NEW expired
    PROVE  /\ Settles(m, OnRxError(m, expired))
           /\ OnRxError(m, expired).ackState # "receiving"
           /\ m.ackState # "receiving" /\ m.state # "receiveCTS" =>
                 OnRxError(m, expired) = m
  <1> DEFINE n == OnRxErrorACK(m, expired)
             r == OnRxErrorCTS(n, expired)
  <1>1. Coherent(n) /\ m \in MacTypes
    BY OnRxErrorACKCoherent DEF Coherent
  <1>2. Settles(m, n) /\ n.ackState # "receiving"
    <2>1. CASE m.ackState # "receiving"
      BY <2>1 DEF OnRxErrorACK, Settles
    <2>2. CASE m.ackState = "receiving"
      <3> DEFINE k == [m EXCEPT !.ackState = "waitForACK"]
      <3>1. /\ k \in MacTypes /\ k.ackState = "waitForACK"
            /\ k.ackTimer = m.ackTimer /\ k.state = m.state
            /\ k.ctsTimer = m.ctsTimer /\ k.active = m.active
        BY <1>1 DEF MacTypes
      <3>2. n = IF m.ackTimer = Off THEN AckTimeout(k, expired) ELSE k
        BY <2>2 DEF OnRxErrorACK
      <3> HIDE DEF k, n
      <3>3. CtsTimed(k) /\ AwaitsACK(k)
        BY <3>1 DEF Timed, CtsTimed, AwaitsACK
      <3>4. CASE m.ackTimer = Off
        <4>1. Settles(k, AckTimeout(k, expired))
          BY <3>1, <3>3, AckTimeoutSettles
        <4>2. ~GaveAway(k) /\ k.ackState # "receiving"
          BY <3>1, <3>3 DEF GaveAway
        <4> QED
          BY <3>1, <3>2, <3>4, <4>1, <4>2 DEF Settles
      <3>5. CASE m.ackTimer # Off
        <4>1. Settles(m, k)
          BY <3>1, <3>3, <3>5 DEF Settles, Timed, AckTimed, GaveAway
        <4> QED
          BY <3>1, <3>2, <3>5, <4>1
      <3> QED
        BY <3>4, <3>5
    <2> QED
      BY <2>1, <2>2
  <1>3. Timed(n)
    BY <1>2 DEF Settles
  <1>4. m.ackState # "receiving" => n = m
    BY DEF OnRxErrorACK
  <1> HIDE DEF n
  <1>5. Settles(n, r) /\ r.ackState # "receiving"
    <2>1. CASE n.state # "receiveCTS"
      BY <1>2, <1>3, <2>1 DEF OnRxErrorCTS, Settles
    <2>2. CASE n.state = "receiveCTS"
      <3> DEFINE k == [n EXCEPT !.state = "waitForCTS"]
      <3>1. /\ k \in MacTypes /\ k.state = "waitForCTS"
            /\ k.ackTimer = n.ackTimer /\ k.ackState = n.ackState
            /\ k.ctsTimer = n.ctsTimer /\ k.active = n.active
            /\ k.sendNow = n.sendNow /\ k.pendingMPDU = n.pendingMPDU
            /\ k.pendingRTS = n.pendingRTS
            /\ k.src = n.src /\ k.lrc = n.lrc
        BY <1>1 DEF Coherent, MacTypes
      <3>2. r = IF n.ctsTimer = Off THEN CtsTimeout(k, expired) ELSE k
        BY <2>2 DEF OnRxErrorCTS
      <3> HIDE DEF k, r
      <3>3. /\ AwaitsACK(k) <=> AwaitsACK(n)
            /\ GaveAway(k) <=> GaveAway(n)
        BY <3>1 DEF AwaitsACK, GaveAway
      <3>4. Coherent(k) /\ AckTimed(k)
        BY <1>1, <1>3, <2>2, <3>1, <3>3
           DEF Coherent, OneCopy, Counted, Timed, AckTimed
      <3>5. CASE n.ctsTimer = Off
        <4>1. Settles(k, CtsTimeout(k, expired))
          BY <3>1, <3>4, CtsTimeoutSettles
        <4> QED
          BY <1>2, <2>2, <3>1, <3>2, <3>3, <3>5, <4>1 DEF Settles
      <3>6. CASE n.ctsTimer # Off
        <4>1. Settles(n, k)
          BY <2>2, <3>1, <3>3, <3>4, <3>6 DEF Settles, Timed, CtsTimed
        <4> QED
          BY <1>2, <3>1, <3>2, <3>6, <4>1
      <3> QED
        BY <3>5, <3>6
    <2> QED
      BY <2>1, <2>2
  <1>6. n.state # "receiveCTS" => r = n
    BY DEF OnRxErrorCTS
  <1>7. OnRxError(m, expired) = r
    BY DEF OnRxError, n
  <1> HIDE DEF r
  <1> QED
    BY <1>2, <1>4, <1>5, <1>6, <1>7, SettlesSteps

LEMMA OnRxEndSettles ==
    ASSUME NEW m, Coherent(m), Timed(m)
    PROVE  LET r == OnRxEnd(m)
           IN  /\ Settles(m, r) /\ r.ackState # "receiving"
               /\ m.ackState = "receiving" => r.ackState = "receptionFinished"
               /\ m.ackState # "receiving" =>
                     r.ackState = m.ackState /\ r.ackTimer = m.ackTimer
               /\ m.state = "receiveCTS" => r.state = "receptionFinished"
               /\ m.state # "receiveCTS" =>
                     r.state = m.state /\ r.ctsTimer = m.ctsTimer
               /\ r.active = m.active /\ r.pendingMPDU = m.pendingMPDU
  <1> DEFINE r == OnRxEnd(m)
  <1>1. /\ r.active = m.active /\ r.sendNow = m.sendNow
        /\ r.pendingMPDU = m.pendingMPDU
        /\ r.ackState = IF m.ackState = "receiving" THEN "receptionFinished"
                        ELSE m.ackState
        /\ r.ackTimer = IF m.ackState = "receiving" /\ m.ackTimer = Off
                        THEN 0 ELSE m.ackTimer
        /\ r.state = IF m.state = "receiveCTS" THEN "receptionFinished"
                     ELSE m.state
        /\ r.ctsTimer = IF m.state = "receiveCTS" THEN 0 ELSE m.ctsTimer
    BY DEF OnRxEnd, Coherent, MacTypes
  <1> HIDE DEF r
  <1>2. 0 # Off
    BY DEF Off
  <1>3. Timed(r)
    BY <1>1, <1>2 DEF Timed, AckTimed, CtsTimed
  <1>4. GaveAway(r) => GaveAway(m)
    BY <1>1, <1>2 DEF GaveAway, AwaitsACK
  <1>5. Settles(m, r)
    BY <1>1, <1>3, <1>4 DEF Settles
  <1> QED
    BY <1>1, <1>5 DEF r

LEMMA OnRxStartKeeps ==
    ASSUME NEW m, Coherent(m), Timed(m)
    PROVE  LET r == OnRxStart(m)
           IN  /\ Timed(r)
               /\ GaveAway(r) => GaveAway(m) /\ r.active = m.active
               /\ m.state = "transmitRTS" => r.state = "transmitRTS"
               /\ m.ackState = "waitForACK" => r.ackState = "receiving"
               /\ m.state = "waitForCTS" => r.state = "receiveCTS"
               /\ r # m <=> m.ackState = "waitForACK" \/ m.state = "waitForCTS"
  <1> DEFINE r == OnRxStart(m)
  <1>1. /\ r.active = m.active /\ r.sendNow = m.sendNow
        /\ r.pendingMPDU = m.pendingMPDU
        /\ r.ackState = IF m.ackState = "waitForACK" THEN "receiving"
                        ELSE m.ackState
        /\ r.ackTimer = m.ackTimer /\ r.ctsTimer = m.ctsTimer
        /\ r.state = IF m.state = "waitForCTS" THEN "receiveCTS"
                     ELSE m.state
    BY DEF OnRxStart, Coherent, MacTypes
  <1>2. ~(m.ackState = "waitForACK" \/ m.state = "waitForCTS") => r = m
    BY DEF OnRxStart, Coherent, MacTypes
  <1> HIDE DEF r
  <1>3. Timed(r)
    BY <1>1 DEF Timed, AckTimed, CtsTimed
  <1>4. GaveAway(r) => GaveAway(m)
    BY <1>1 DEF GaveAway, AwaitsACK
  <1> QED
    BY <1>1, <1>2, <1>3, <1>4 DEF r

(* m, w, v, x: of one station, which has somewhere to find its MSDU.       *)
KeptOK(m, w, v, x) ==
    /\ Timed(m)
    /\ GaveAway(m) => Data(m.active) \in {w.frame, v.frame}
    /\ m.ackState = "receiving" => x # "none"
    /\ v.frame.kind = "RTS" => m.state = "transmitRTS"

(* The SIFS delay w of a station whose peer transmits t: it is over before *)
(* the peer has sent anything else.                                        *)
SifsOK(w, t) ==
    /\ w.frame.kind = "none" => w = Idle
    /\ w.frame.kind # "none" =>
          /\ w.frame.kind # "RTS" /\ w.left <= Sifs
          /\ t.phase # "off" => AirLeft(t) >= w.left + Preamble + Psdu - Sifs

(* A reply comes from a station with w and t, and its preamble ends then.  *)
Coming(kind, w, t) ==
    w.frame.kind = kind \/ (t.frame.kind = kind /\ t.phase = "preamble")
Until(kind, w, t) == IF w.frame.kind = kind THEN w.left + Preamble ELSE t.left

(* The reply is waited for, after n ticks still; it is being received.     *)
Waits(kind, m, n) ==
    \/ kind = "CTS" /\ m.state = "waitForCTS" /\ m.ctsTimer > n
    \/ kind = "ACK" /\ m.ackState = "waitForACK" /\ m.ackTimer > n
Takes(kind, m) ==
    \/ kind = "CTS" /\ m.state = "receiveCTS"
    \/ kind = "ACK" /\ m.ackState = "receiving"

(* A reply finds a station that waits for it, unless that has taken a      *)
(* frame of another station for it (d) or transmits longer than the        *)
(* preamble.                                                               *)
AnswerOK(kind, m, v, x, d, w, t) ==
    /\ Coming(kind, w, t) =>
          \/ d \/ Waits(kind, m, Until(kind, w, t))
          \/ v.phase # "off" /\ AirLeft(v) > Until(kind, w, t)
    /\ t.frame.kind = kind /\ x = "peer" => d \/ Takes(kind, m)

AirOK(v, x, t) ==
    /\ v.phase = "preamble" => v.left <= Preamble
    /\ x = "peer" => t.phase = "psdu"

Replies == {"CTS", "ACK"}

StationOK(m, w, v, x, d, y, t) ==
    /\ KeptOK(m, w, v, x) /\ SifsOK(w, t) /\ AirOK(v, x, t)
    /\ \A kind \in Replies : AnswerOK(kind, m, v, x, d, y, t)

KeptAt(s) ==
    StationOK(mac[s], sifs[s], tx[s], rx[s], s \in disturbed,
              sifs[Peer(s)], tx[Peer(s)])

BrokenOK == broken = "none" \/ (broken \in Replies /\ disturbed # {})

KeptInv == BrokenOK /\ \A s \in Stations : KeptAt(s)

-----------------------------------------------------------------------------
(* What is where, as far as this proof is concerned.                       *)
LEMMA Here ==
    ASSUME Inv, LinkInv, KeptInv, NEW q \in Stations
    PROVE  /\ Coherent(mac[q]) /\ Timed(mac[q])
           /\ StationOK(mac[q], sifs[q], tx[q], rx[q], q \in disturbed,
                        sifs[Peer(q)], tx[Peer(q)])
           /\ sifs[q] \in [frame : Frames, left : Ticks]
           /\ tx[q] \in [phase : {"off", "preamble", "psdu"}, frame : Frames,
                         left : Ticks]
           /\ sifs[q].left \in Int /\ tx[q].left \in Int
           /\ MediumOK(sifs[q], tx[q], rx[q])
           /\ Carried(mac[q], sifs[q].frame, tx[q].frame)
           /\ rx[q] \in {"none", "peer", "foreign"}
  <1>1. /\ Coherent(mac[q])
        /\ Carried(mac[q], sifs[q].frame, tx[q].frame)
        /\ sifs[q] \in [frame : Frames, left : Ticks]
        /\ tx[q] \in [phase : {"off", "preamble", "psdu"}, frame : Frames,
                      left : Ticks]
        /\ rx[q] \in {"none", "peer", "foreign"}
        /\ MediumOK(sifs[q], tx[q], rx[q])
    BY At
  <1>2. StationOK(mac[q], sifs[q], tx[q], rx[q], q \in disturbed,
                  sifs[Peer(q)], tx[Peer(q)])
    BY DEF KeptInv, KeptAt
  <1>3. Timed(mac[q])
    BY <1>2 DEF StationOK, KeptOK
  <1>4. sifs[q].left \in Int /\ tx[q].left \in Int
    BY <1>1 DEF Ticks
  <1> QED
    BY <1>1, <1>2, <1>3, <1>4

(* The end of the preamble of a reply is not in the past, and not later    *)
(* than SIFS and a preamble.                                               *)
LEMMA UntilBounds ==
    ASSUME Inv, LinkInv, KeptInv, NEW q \in Stations, NEW kind \in Replies,
           Coming(kind, sifs[q], tx[q])
    PROVE  /\ Until(kind, sifs[q], tx[q]) \in Int
           /\ Until(kind, sifs[q], tx[q]) >= 0
           /\ Until(kind, sifs[q], tx[q]) <= Sifs + Preamble
  <1>1. kind # "none"
    BY DEF Replies
  <1>2. /\ SifsOK(sifs[q], tx[Peer(q)])
        /\ tx[q].phase = "preamble" => tx[q].left <= Preamble
        /\ MediumOK(sifs[q], tx[q], rx[q])
        /\ sifs[q].left \in Int /\ tx[q].left \in Int
    BY Here DEF StationOK, AirOK
  <1>3. CASE sifs[q].frame.kind = kind
    BY <1>1, <1>2, <1>3 DEF SifsOK, MediumOK, Until
  <1>4. CASE sifs[q].frame.kind # kind
    BY <1>2, <1>4 DEF MediumOK, Until, Coming
  <1> QED
    BY <1>3, <1>4

(* A handler that settles m keeps what is kept, if a reception goes on.    *)
LEMMA SettledKept ==
    ASSUME NEW m, NEW r, NEW w, NEW v, NEW x, NEW y, KeptOK(m, w, v, x),
           Settles(m, r), r.ackState = "receiving" => y # "none"
    PROVE  KeptOK(r, w, v, y)
  BY DEF KeptOK, Settles

(* Who waits for a reply is not receiving: the end of a reception is no    *)
(* matter of the ARQ and of RTSCTS.                                        *)
LEMMA WaitingIgnores ==
    ASSUME NEW m, Coherent(m), Timed(m), NEW kind, NEW n,
           Waits(kind, m, n), NEW expired
    PROVE  /\ OnRxError(m, expired) = m
           /\ Waits(kind, OnRxEnd(m), n)
           /\ OnRxStart(m) # m /\ Takes(kind, OnRxStart(m))
  <1>1. m.ackState # "receiving" /\ m.state # "receiveCTS"
    BY DEF Waits, Coherent, OneCopy, AwaitsACK
  <1>2. OnRxError(m, expired) = m
    BY <1>1, OnRxErrorSettles
  <1>3. Waits(kind, OnRxEnd(m), n)
    BY <1>1, OnRxEndSettles DEF Waits
  <1>4. OnRxStart(m) # m /\ Takes(kind, OnRxStart(m))
    BY OnRxStartKeeps DEF Waits, Takes
  <1> QED
    BY <1>2, <1>3, <1>4

(* A change of one record only: its waiting and its receptions survive.    *)
LEMMA OneSettled ==
    ASSUME Inv, LinkInv, KeptInv, BrokenOK', NEW s \in Stations, NEW r,
           Update(s, r), sifs' = sifs, tx' = tx, disturbed' = disturbed,
           KeptOK(r, sifs[s], tx[s], rx'[s]),
           rx'[s] = "peer" => rx[s] = "peer",
           \A q \in Stations \ {s} : rx'[q] = rx[q],
           \A kind \in Replies :
              /\ Coming(kind, sifs[Peer(s)], tx[Peer(s)]) =>
                    LET n == Until(kind, sifs[Peer(s)], tx[Peer(s)])
                    IN  Waits(kind, mac[s], n) => Waits(kind, r, n)
              /\ rx'[s] = "peer" /\ Takes(kind, mac[s]) => Takes(kind, r)
    PROVE  KeptInv'
  <1> DEFINE y == sifs[Peer(s)]
             t == tx[Peer(s)]
  <1>1. mac'[s] = r /\ \A q \in Stations \ {s} : mac'[q] = mac[q]
    BY DEF Inv, Types, Update
  <1>2. ASSUME NEW q \in Stations, q # s
        PROVE  KeptAt(q)'
    BY <1>1, <1>2 DEF KeptInv, KeptAt
  <1>3. KeptAt(s)'
    <2>1. StationOK(mac[s], sifs[s], tx[s], rx[s], s \in disturbed, y, t)
      BY Here
    <2>2. ASSUME NEW kind \in Replies
          PROVE  AnswerOK(kind, r, tx[s], rx'[s], s \in disturbed, y, t)
      <3>1. AnswerOK(kind, mac[s], tx[s], rx[s], s \in disturbed, y, t)
        BY <2>1 DEF StationOK
      <3> QED
        BY <3>1 DEF AnswerOK
    <2>3. AirOK(tx[s], rx'[s], t) /\ SifsOK(sifs[s], t)
      BY <2>1 DEF StationOK, AirOK
    <2>4. StationOK(r, sifs[s], tx[s], rx'[s], s \in disturbed, y, t)
      BY <2>2, <2>3 DEF StationOK
    <2> QED
      BY <1>1, <2>4 DEF KeptAt
  <1> QED
    BY <1>2, <1>3 DEF KeptInv

LEMMA OnTimeoutACKKept ==
    ASSUME Inv, LinkInv, KeptInv, NEW s \in Stations, NEW expired,
           OnTimeoutACK(s, expired)
    PROVE  KeptInv'
  <1> DEFINE m == mac[s]
             r == AckTimeout(m, expired)
  <1>1. /\ m.ackTimer = 0 /\ Update(s, r) /\ sifs' = sifs /\ tx' = tx
        /\ rx' = rx /\ disturbed' = disturbed /\ broken' = broken
    BY DEF OnTimeoutACK, medium
  <1>2. /\ Coherent(m) /\ Timed(m) /\ KeptOK(m, sifs[s], tx[s], rx[s])
        /\ m \in MacTypes
    BY Here DEF StationOK, Coherent
  <1>3. Settles(m, r)
    BY <1>2, AckTimeoutSettles DEF Timed
  <1>4. m.ackState = "receiving" => r.ackState = "receiving"
    BY <1>2 DEF AckTimeout, MacTypes
  <1> HIDE DEF r
  <1>5. KeptOK(r, sifs[s], tx[s], rx'[s])
    <2>1. r.ackState = "receiving" => rx'[s] # "none"
      BY <1>1, <1>2, <1>3 DEF KeptOK, Settles
    <2> QED
      BY <1>2, <1>3, <2>1, SettledKept
  <1>6. m.state = "idle"
    BY <1>1, <1>2 DEF Coherent, OneCopy, AwaitsACK, Off
  <1>7. ASSUME NEW kind \in Replies
        PROVE  /\ Coming(kind, sifs[Peer(s)], tx[Peer(s)]) =>
                     ~Waits(kind, m, Until(kind, sifs[Peer(s)], tx[Peer(s)]))
               /\ Takes(kind, m) => Takes(kind, r)
    <2>1. CASE Coming(kind, sifs[Peer(s)], tx[Peer(s)])
      <3>1. /\ Until(kind, sifs[Peer(s)], tx[Peer(s)]) >= 0
            /\ Until(kind, sifs[Peer(s)], tx[Peer(s)]) \in Int
        BY <2>1, PeerFacts, UntilBounds
      <3> QED
        BY <1>1, <1>4, <1>6, <3>1 DEF Waits, Takes
    <2> QED
      BY <1>4, <1>6, <2>1 DEF Takes
  <1>8. BrokenOK'
    BY <1>1 DEF BrokenOK, KeptInv
  <1> QED
    BY <1>1, <1>5, <1>7, <1>8, OneSettled

LEMMA OnTimeoutCTSKept ==
    ASSUME Inv, LinkInv, KeptInv, NEW s \in Stations, NEW expired,
           OnTimeoutCTS(s, expired)
    PROVE  KeptInv'
  <1> DEFINE m == mac[s]
             r == CtsTimeout(m, expired)
  <1>1. /\ m.ctsTimer = 0 /\ Update(s, r) /\ sifs' = sifs /\ tx' = tx
        /\ rx' = rx /\ disturbed' = disturbed /\ broken' = broken
    BY DEF OnTimeoutCTS, medium
  <1>2. /\ Coherent(m) /\ Timed(m) /\ KeptOK(m, sifs[s], tx[s], rx[s])
        /\ m \in MacTypes
    BY Here DEF StationOK, Coherent
  <1>3. m.state \notin {"idle", "transmitRTS"} /\ ~AwaitsACK(m)
    BY <1>1, <1>2 DEF Timed, CtsTimed, Coherent, OneCopy, Off
  <1>4. Settles(m, r)
    BY <1>2, <1>3, CtsTimeoutSettles DEF Timed
  <1>5. m.state = "receiveCTS" => r.state = "receiveCTS"
    BY <1>2 DEF CtsTimeout, MacTypes
  <1> HIDE DEF r
  <1>6. KeptOK(r, sifs[s], tx[s], rx'[s])
    <2>1. r.ackState = "receiving" => rx'[s] # "none"
      BY <1>1, <1>2, <1>4 DEF KeptOK, Settles
    <2> QED
      BY <1>2, <1>4, <2>1, SettledKept
  <1>7. ASSUME NEW kind \in Replies
        PROVE  /\ Coming(kind, sifs[Peer(s)], tx[Peer(s)]) =>
                     ~Waits(kind, m, Until(kind, sifs[Peer(s)], tx[Peer(s)]))
               /\ Takes(kind, m) => Takes(kind, r)
    <2>1. m.ackState \notin {"waitForACK", "receiving"}
      BY <1>3 DEF AwaitsACK
    <2>2. CASE Coming(kind, sifs[Peer(s)], tx[Peer(s)])
      <3>1. /\ Until(kind, sifs[Peer(s)], tx[Peer(s)]) >= 0
            /\ Until(kind, sifs[Peer(s)], tx[Peer(s)]) \in Int
        BY <2>2, PeerFacts, UntilBounds
      <3> QED
        BY <1>1, <1>5, <2>1, <3>1 DEF Waits, Takes
    <2> QED
      BY <1>5, <2>1, <2>2 DEF Takes
  <1>8. BrokenOK'
    BY <1>1 DEF BrokenOK, KeptInv
  <1> QED
    BY <1>1, <1>6, <1>7, <1>8, OneSettled

LEMMA ForeignEndsKept ==
    ASSUME Inv, LinkInv, KeptInv, NEW s \in Stations, NEW ok, NEW expired,
           ForeignEnds(s, ok, expired)
    PROVE  KeptInv'
  <1> DEFINE m == mac[s]
             r == IF ok THEN OnRxEnd(m) ELSE OnRxError(m, expired)
  <1>1. /\ Update(s, r) /\ sifs' = sifs /\ tx' = tx
        /\ rx' = [rx EXCEPT ![s] = "none"]
        /\ disturbed' = disturbed /\ broken' = broken
    BY DEF ForeignEnds
  <1>2. /\ Coherent(m) /\ Timed(m) /\ KeptOK(m, sifs[s], tx[s], rx[s])
    BY Here DEF StationOK
  <1>3. rx'[s] = "none" /\ \A q \in Stations \ {s} : rx'[q] = rx[q]
    BY <1>1 DEF LinkInv, MoreTypes
  <1>4. Settles(m, r) /\ r.ackState # "receiving"
    BY <1>2, OnRxEndSettles, OnRxErrorSettles
  <1>5. KeptOK(r, sifs[s], tx[s], rx'[s])
    BY <1>2, <1>4, SettledKept
  <1>6. \A kind \in Replies : \A n : Waits(kind, m, n) => Waits(kind, r, n)
    BY <1>2, WaitingIgnores
  <1>7. BrokenOK'
    BY <1>1 DEF BrokenOK, KeptInv
  <1> HIDE DEF r
  <1> QED
    BY <1>1, <1>3, <1>5, <1>6, <1>7, OneSettled

(* A foreign frame that is taken for the reply leaves its mark.            *)
LEMMA ForeignPreambleKept ==
    ASSUME Inv, LinkInv, KeptInv, NEW s \in Stations, NEW d, NEW expired,
           ForeignPreamble(s, d, expired)
    PROVE  KeptInv'
  <1> DEFINE m == mac[s]
             k == IF rx[s] = "none" THEN m ELSE OnRxError(m, expired)
             r == OnRxStart(k)
             y == sifs[Peer(s)]
             t == tx[Peer(s)]
  <1>1. /\ tx[s].phase = "off" /\ Update(s, r) /\ sifs' = sifs /\ tx' = tx
        /\ rx' = [rx EXCEPT ![s] = "foreign"] /\ broken' = broken
        /\ disturbed' = IF OnRxStart(m) = m THEN disturbed
                        ELSE disturbed \cup {s}
    BY DEF ForeignPreamble, Synchronize
  <1>2. /\ Coherent(m) /\ Timed(m) /\ KeptOK(m, sifs[s], tx[s], rx[s])
        /\ StationOK(m, sifs[s], tx[s], rx[s], s \in disturbed, y, t)
    BY Here DEF StationOK
  <1>3. /\ rx'[s] = "foreign" /\ \A q \in Stations \ {s} : rx'[q] = rx[q]
        /\ mac'[s] = r /\ \A q \in Stations \ {s} : mac'[q] = mac[q]
    BY <1>1 DEF LinkInv, MoreTypes, Inv, Types, Update
  <1>4. KeptOK(r, sifs[s], tx[s], "foreign")
    <2>1. Coherent(k)
      <3>1. Coherent(OnRxError(m, expired))
        BY <1>2, OnRxErrorACKCoherent, OnRxErrorCTSCoherent DEF OnRxError
      <3> QED
        BY <1>2, <3>1
    <2>2. Settles(m, k) \/ k = m
      BY <1>2, OnRxErrorSettles
    <2> HIDE DEF k
    <2>3. KeptOK(k, sifs[s], tx[s], "foreign")
      <3>1. KeptOK(m, sifs[s], tx[s], "foreign")
        BY <1>2 DEF KeptOK
      <3> QED
        BY <2>2, <3>1, SettledKept
    <2>4. Timed(k)
      BY <2>3 DEF KeptOK
    <2> QED
      BY <2>1, <2>3, <2>4, OnRxStartKeeps DEF KeptOK
  <1>5. ASSUME NEW kind \in Replies
        PROVE  AnswerOK(kind, r, tx[s], "foreign", s \in disturbed', y, t)
    <2>1. AnswerOK(kind, m, tx[s], rx[s], s \in disturbed, y, t)
      BY <1>2 DEF StationOK
    <2>2. ASSUME NEW n, Waits(kind, m, n)
          PROVE  s \in disturbed'
      BY <1>1, <1>2, <2>2, WaitingIgnores
    <2>3. s \in disturbed => s \in disturbed'
      BY <1>1
    <2> QED
      BY <1>1, <2>1, <2>2, <2>3 DEF AnswerOK
  <1>6. KeptAt(s)'
    <2>1. AirOK(tx[s], "foreign", t) /\ SifsOK(sifs[s], t)
      BY <1>2 DEF StationOK, AirOK
    <2>2. StationOK(r, sifs[s], tx[s], "foreign", s \in disturbed', y, t)
      BY <1>4, <1>5, <2>1 DEF StationOK
    <2> QED
      BY <1>1, <1>3, <2>2 DEF KeptAt
  <1>7. ASSUME NEW q \in Stations, q # s
        PROVE  KeptAt(q)'
    <2>1. q \in disturbed' <=> q \in disturbed
      BY <1>1, <1>7
    <2> QED
      BY <1>1, <1>3, <1>7, <2>1
         DEF KeptInv, KeptAt, StationOK, AnswerOK
  <1>8. BrokenOK'
    BY <1>1 DEF BrokenOK, KeptInv
  <1> QED
    BY <1>6, <1>7, <1>8 DEF KeptInv

(* The preamble of a reply finds who waits for it.                         *)
LEMMA PreambleEndsKept ==
    ASSUME Inv, LinkInv, KeptInv, NEW s \in Stations, NEW heard, NEW expired,
           PreambleEnds(s, heard, expired)
    PROVE  KeptInv'
  <1> DEFINE p == Peer(s)
             t == [tx[s] EXCEPT !.phase = "psdu", !.left = Psdu]
             m == mac[p]
             k == IF rx[p] = "none" THEN m ELSE OnRxError(m, expired)
  <1>0. /\ p \in Stations /\ p # s /\ Peer(p) = s
        /\ \A q \in Stations : q = s \/ q = p
    BY PeerFacts
  <1>1. /\ tx' = [tx EXCEPT ![s].phase = "psdu", ![s].left = Psdu]
        /\ tx[s].phase = "preamble" /\ tx[s].left = 0
        /\ sifs' = sifs /\ disturbed' = disturbed /\ broken' = broken
        /\ \/ /\ tx[p].phase = "off" /\ rx' = [rx EXCEPT ![p] = "peer"]
              /\ Update(p, OnRxStart(k))
           \/ rx' = rx /\ mac' = mac
    BY DEF PreambleEnds, Synchronize
  <1>2. tx'[s] = t /\ tx'[p] = tx[p]
    BY <1>0, <1>1 DEF Inv, Types
  <1>3. /\ t.phase = "psdu" /\ t.frame = tx[s].frame
        /\ AirLeft(t) = AirLeft(tx[s])
    BY <1>1, Here DEF AirLeft
  <1>4. mac'[s] = mac[s] /\ rx'[s] = rx[s]
    BY <1>0, <1>1 DEF LinkInv, MoreTypes, Inv, Types, Update
  <1>5. /\ StationOK(mac[s], sifs[s], tx[s], rx[s], s \in disturbed,
                     sifs[p], tx[p])
        /\ StationOK(m, sifs[p], tx[p], rx[p], p \in disturbed,
                     sifs[s], tx[s])
        /\ Coherent(m) /\ Timed(m) /\ MediumOK(sifs[s], tx[s], rx[s])
    BY <1>0, Here
  <1> HIDE DEF t
  <1>6. KeptAt(s)'
    <2>1. KeptOK(mac[s], sifs[s], t, rx[s]) /\ SifsOK(sifs[s], tx[p])
      BY <1>3, <1>5 DEF StationOK, KeptOK
    <2>2. AirOK(t, rx[s], tx[p])
      BY <1>3, <1>5 DEF StationOK, AirOK
    <2>3. ASSUME NEW kind \in Replies
          PROVE  AnswerOK(kind, mac[s], t, rx[s], s \in disturbed,
                          sifs[p], tx[p])
      <3>1. AnswerOK(kind, mac[s], tx[s], rx[s], s \in disturbed,
                     sifs[p], tx[p])
        BY <1>5 DEF StationOK
      <3> QED
        BY <1>1, <1>3, <3>1 DEF AnswerOK
    <2> QED
      BY <1>1, <1>2, <1>4, <2>1, <2>2, <2>3 DEF KeptAt, StationOK
  <1>7. SifsOK(sifs[p], t)
    BY <1>1, <1>3, <1>5 DEF StationOK, SifsOK
  <1>8. sifs[s].frame.kind = "none"
    BY <1>1, <1>5 DEF MediumOK
  <1>9. CASE rx' = rx /\ mac' = mac
    <2>1. rx[p] # "peer"
      BY <1>1, <1>5 DEF StationOK, AirOK
    <2>2. ASSUME NEW kind \in Replies
          PROVE  AnswerOK(kind, m, tx[p], rx[p], p \in disturbed, sifs[s], t)
      BY <1>3, <1>8, <2>1 DEF AnswerOK, Coming, Replies
    <2>3. KeptOK(m, sifs[p], tx[p], rx[p]) /\ AirOK(tx[p], rx[p], t)
      BY <1>3, <1>5 DEF StationOK, AirOK
    <2>4. KeptAt(p)'
      BY <1>0, <1>1, <1>2, <1>7, <1>9, <2>2, <2>3 DEF KeptAt, StationOK
    <2> QED
      BY <1>0, <1>1, <1>6, <2>4 DEF KeptInv, BrokenOK
  <1>10. CASE /\ tx[p].phase = "off" /\ rx' = [rx EXCEPT ![p] = "peer"]
              /\ Update(p, OnRxStart(k))
    <2>1. rx'[p] = "peer" /\ mac'[p] = OnRxStart(k)
      BY <1>0, <1>10 DEF LinkInv, MoreTypes, Inv, Types, Update
    <2>2. KeptOK(OnRxStart(k), sifs[p], tx[p], "peer")
      <3>1. Coherent(k)
        <4>1. Coherent(OnRxError(m, expired))
          BY <1>5, OnRxErrorACKCoherent, OnRxErrorCTSCoherent DEF OnRxError
        <4> QED
          BY <1>5, <4>1
      <3>2. Settles(m, k) \/ k = m
        BY <1>5, OnRxErrorSettles
      <3> HIDE DEF k
      <3>3. KeptOK(k, sifs[p], tx[p], "peer")
        <4>1. KeptOK(m, sifs[p], tx[p], "peer")
          BY <1>5 DEF StationOK, KeptOK
        <4> QED
          BY <3>2, <4>1, SettledKept
      <3>4. Timed(k)
        BY <3>3 DEF KeptOK
      <3> QED
        BY <3>1, <3>3, <3>4, OnRxStartKeeps DEF KeptOK
    <2>3. ASSUME NEW kind \in Replies
          PROVE  AnswerOK(kind, OnRxStart(k), tx[p], "peer",
                          p \in disturbed, sifs[s], t)
      <3>1. ~Coming(kind, sifs[s], t)
        BY <1>3, <1>8 DEF Coming, Replies
      <3>2. ASSUME t.frame.kind = kind, p \notin disturbed
            PROVE  Takes(kind, OnRxStart(k))
        <4>1. Coming(kind, sifs[s], tx[s])
          BY <1>1, <1>3, <3>2 DEF Coming
        <4>2. AnswerOK(kind, m, tx[p], rx[p], p \in disturbed,
                       sifs[s], tx[s])
          BY <1>5 DEF StationOK
        <4>3. Waits(kind, m, Until(kind, sifs[s], tx[s]))
          BY <1>10, <3>2, <4>1, <4>2 DEF AnswerOK
        <4>4. k = m /\ Takes(kind, OnRxStart(m))
          BY <1>5, <4>3, WaitingIgnores
        <4> QED
          BY <4>4
      <3> QED
        BY <3>1, <3>2 DEF AnswerOK
    <2>4. AirOK(tx[p], "peer", t)
      BY <1>3, <1>5 DEF StationOK, AirOK
    <2> HIDE DEF k, m
    <2>5. KeptAt(p)'
      BY <1>0, <1>1, <1>2, <1>7, <2>1, <2>2, <2>3, <2>4
         DEF KeptAt, StationOK
    <2> QED
      BY <1>0, <1>1, <1>5, <1>6, <2>5 DEF KeptInv, BrokenOK
  <1> QED
    BY <1>1, <1>9, <1>10

(* A transmission starts, from the record m: whatever reply is to come     *)
(* ends its preamble before that transmission ends.                        *)
LEMMA TransmitKept ==
    ASSUME Inv, LinkInv, KeptInv, NEW s \in Stations, NEW m, Coherent(m),
           NEW f \in Frames, NEW expired, Transmit(s, m, f, expired),
           Timed(m), m.ackState = mac[s].ackState,
           GaveAway(m) => Data(m.active) = f,
           f.kind = "RTS" => m.state = "transmitRTS",
           \/ sifs[s] = Idle /\ sifs' = sifs /\ f.kind \notin Replies
           \/ /\ sifs[s].left = 0 /\ f = sifs[s].frame
              /\ sifs' = [sifs EXCEPT ![s] = Idle]
    PROVE  KeptInv'
  <1> DEFINE p == Peer(s)
             k == IF rx[s] = "none" THEN m ELSE OnRxError(m, expired)
             r == OnTxStart(k, f)
             t == [phase |-> "preamble", frame |-> f, left |-> Preamble]
  <1>0. /\ p \in Stations /\ p # s /\ Peer(p) = s
        /\ \A q \in Stations : q = s \/ q = p
        /\ Idle.frame.kind = "none"
    BY PeerFacts DEF Idle, NoFrame
  <1>1. /\ tx' = [tx EXCEPT ![s] = t] /\ tx[s].phase = "off"
        /\ rx' = [rx EXCEPT ![s] = "none"]
        /\ Update(s, r) /\ disturbed' = disturbed \ {s}
        /\ broken = "none" /\ broken' = broken
    BY DEF Transmit, Running
  <1>2. /\ tx'[s] = t /\ tx'[p] = tx[p] /\ rx'[s] = "none" /\ rx'[p] = rx[p]
        /\ sifs'[s] = Idle /\ sifs'[p] = sifs[p]
        /\ mac'[s] = r /\ mac'[p] = mac[p]
        /\ s \notin disturbed' /\ (p \in disturbed' <=> p \in disturbed)
    BY <1>0, <1>1 DEF Inv, Types, LinkInv, MoreTypes, Update
  <1>3. /\ t.phase = "preamble" /\ t.frame = f /\ t.left = Preamble
        /\ AirLeft(t) = Preamble + Psdu
    BY DEF AirLeft
  <1>4. /\ StationOK(mac[s], sifs[s], tx[s], rx[s], s \in disturbed,
                     sifs[p], tx[p])
        /\ StationOK(mac[p], sifs[p], tx[p], rx[p], p \in disturbed,
                     sifs[s], tx[s])
        /\ sifs[p].left \in Int
    BY <1>0, Here
  <1>5. /\ Coherent(k) /\ Timed(k) /\ k.ackState # "receiving"
        /\ GaveAway(k) => GaveAway(m) /\ k.active = m.active
        /\ m.state = "transmitRTS" => k.state = "transmitRTS"
    <2>1. CASE rx[s] = "none"
      BY <1>4, <2>1 DEF StationOK, KeptOK
    <2>2. CASE rx[s] # "none"
      <3>1. Coherent(OnRxError(m, expired))
        BY OnRxErrorACKCoherent, OnRxErrorCTSCoherent DEF OnRxError
      <3>2. /\ Settles(m, OnRxError(m, expired))
            /\ OnRxError(m, expired).ackState # "receiving"
        BY OnRxErrorSettles
      <3> QED
        BY <2>2, <3>1, <3>2 DEF Settles
    <2> QED
      BY <2>1, <2>2
  <1> HIDE DEF k, t
  <1>6. /\ r.active = k.active /\ r.sendNow = k.sendNow
        /\ r.pendingMPDU = k.pendingMPDU /\ r.state = k.state
        /\ r.ackState = k.ackState /\ r.ackTimer = k.ackTimer
        /\ r.ctsTimer = k.ctsTimer
    BY <1>5 DEF OnTxStart, Coherent, MacTypes
  <1> HIDE DEF r
  <1>7. KeptOK(r, Idle, t, "none")
    <2>1. Timed(r) /\ (GaveAway(r) => GaveAway(k))
      BY <1>5, <1>6 DEF Timed, AckTimed, CtsTimed, GaveAway, AwaitsACK
    <2> QED
      BY <1>3, <1>5, <1>6, <2>1 DEF KeptOK
  <1>8. ASSUME NEW kind \in Replies
        PROVE  AnswerOK(kind, r, t, "none", FALSE, sifs[p], tx[p])
    <2>1. ASSUME Coming(kind, sifs[p], tx[p])
          PROVE  AirLeft(t) > Until(kind, sifs[p], tx[p])
      <3>1. /\ Until(kind, sifs[p], tx[p]) \in Int
            /\ Until(kind, sifs[p], tx[p]) <= Sifs + Preamble
        BY <1>0, <2>1, UntilBounds
      <3> QED
        BY <1>3, <3>1
    <2> QED
      BY <1>3, <2>1 DEF AnswerOK
  <1>9. KeptAt(s)'
    <2>1. SifsOK(Idle, tx[p]) /\ AirOK(t, "none", tx[p])
      BY <1>0, <1>3 DEF SifsOK, AirOK
    <2>2. StationOK(r, Idle, t, "none", FALSE, sifs[p], tx[p])
      BY <1>7, <1>8, <2>1 DEF StationOK
    <2> QED
      BY <1>2, <2>2 DEF KeptAt, StationOK, AnswerOK
  <1>10. rx[p] # "peer"
    BY <1>1, <1>4 DEF StationOK, AirOK
  <1>11. ASSUME NEW kind \in Replies
         PROVE  AnswerOK(kind, mac[p], tx[p], rx[p], p \in disturbed, Idle, t)
    <2>1. AnswerOK(kind, mac[p], tx[p], rx[p], p \in disturbed,
                   sifs[s], tx[s])
      BY <1>4 DEF StationOK
    <2>2. kind # "none"
      BY DEF Replies
    <2>3. ASSUME Coming(kind, Idle, t)
          PROVE  /\ Coming(kind, sifs[s], tx[s])
                 /\ Until(kind, sifs[s], tx[s]) = Until(kind, Idle, t)
      BY <1>0, <1>3, <2>2, <2>3 DEF Coming, Until
    <2> QED
      BY <1>10, <2>1, <2>3 DEF AnswerOK
  <1>12. KeptAt(p)'
    <2>1. SifsOK(sifs[p], t)
      BY <1>3, <1>4 DEF StationOK, SifsOK
    <2>2. /\ KeptOK(mac[p], sifs[p], tx[p], rx[p])
          /\ AirOK(tx[p], rx[p], t)
      BY <1>4, <1>10 DEF StationOK, AirOK
    <2>3. StationOK(mac[p], sifs[p], tx[p], rx[p], p \in disturbed, Idle, t)
      BY <1>11, <2>1, <2>2 DEF StationOK
    <2> QED
      BY <1>0, <1>2, <2>3 DEF KeptAt, StationOK, AnswerOK
  <1> QED
    BY <1>0, <1>1, <1>9, <1>12 DEF KeptInv, BrokenOK

LEMMA SendRTSKept ==
    ASSUME Inv, LinkInv, KeptInv, NEW s \in Stations, SendRTS(s)
    PROVE  KeptInv'
  <1> DEFINE m == mac[s]
             r == [m EXCEPT !.pendingRTS = FALSE, !.state = "transmitRTS"]
             f == Control("RTS")
  <1>1. /\ Coherent(m) /\ Timed(m) /\ m.pendingRTS
        /\ rx[s] = "none" /\ sifs[s] = Idle
        /\ Transmit(s, r, f, FALSE) /\ sifs' = sifs
    BY Here DEF SendRTS, Permitted
  <1>2. f \in Frames /\ f.kind = "RTS" /\ f.kind \notin Replies
    BY NothingTyped DEF Control, Frames, Kinds, Replies
  <1>3. /\ r \in MacTypes /\ r.ackTimer = m.ackTimer /\ r.active = m.active
        /\ r.sendNow = m.sendNow /\ r.pendingMPDU = m.pendingMPDU
        /\ r.pendingRTS = FALSE
        /\ r.ackState = m.ackState /\ r.state = "transmitRTS"
        /\ r.ctsTimer = m.ctsTimer /\ r.src = m.src /\ r.lrc = m.lrc
    BY <1>1 DEF Coherent, MacTypes
  <1> HIDE DEF m, f, r
  <1>4. AwaitsACK(r) <=> AwaitsACK(m)
    BY <1>3 DEF AwaitsACK
  <1>5. Coherent(r)
    BY <1>1, <1>3, <1>4 DEF Coherent, OneCopy, Counted
  <1>6. m.pendingMPDU # None /\ m.ctsTimer = Off
    BY <1>1 DEF Coherent, OneCopy
  <1>7. Timed(r) /\ ~GaveAway(r)
    BY <1>1, <1>3, <1>6 DEF Timed, AckTimed, CtsTimed, GaveAway
  <1> QED
    BY <1>1, <1>2, <1>3, <1>5, <1>7, TransmitKept DEF m

LEMMA SendDataKept ==
    ASSUME Inv, LinkInv, KeptInv, NEW s \in Stations, SendData(s)
    PROVE  KeptInv'
  <1> DEFINE m == mac[s]
             r == [m EXCEPT !.sendNow = FALSE]
             f == Data(m.active)
  <1>1. /\ Coherent(m) /\ Timed(m) /\ m.sendNow
        /\ rx[s] = "none" /\ sifs[s] = Idle
        /\ Transmit(s, r, f, FALSE) /\ sifs' = sifs
    BY Here DEF SendData, Permitted
  <1>2. f \in Frames /\ f.kind = "DATA" /\ f.kind \notin Replies
    BY <1>1 DEF Data, Frames, Kinds, Coherent, MacTypes, Replies
  <1>3. /\ r \in MacTypes /\ r.ackTimer = m.ackTimer /\ r.active = m.active
        /\ r.sendNow = FALSE /\ r.pendingMPDU = m.pendingMPDU
        /\ r.pendingRTS = m.pendingRTS
        /\ r.ackState = m.ackState /\ r.state = m.state
        /\ r.ctsTimer = m.ctsTimer /\ r.src = m.src /\ r.lrc = m.lrc
    BY <1>1 DEF Coherent, MacTypes
  <1>4. Data(r.active) = f
    BY <1>3
  <1> HIDE DEF m, f, r
  <1>5. AwaitsACK(r) <=> AwaitsACK(m)
    BY <1>3 DEF AwaitsACK
  <1>6. Coherent(r)
    BY <1>1, <1>3, <1>5 DEF Coherent, OneCopy, Counted
  <1>7. Timed(r)
    BY <1>1, <1>3 DEF Timed, AckTimed, CtsTimed
  <1> QED
    BY <1>1, <1>2, <1>3, <1>4, <1>6, <1>7, TransmitKept DEF m

LEMMA SifsOverKept ==
    ASSUME Inv, LinkInv, KeptInv, NEW s \in Stations, NEW expired,
           SifsOver(s, expired)
    PROVE  KeptInv'
  <1> DEFINE m == mac[s]
             f == sifs[s].frame
  <1>1. /\ sifs' = [sifs EXCEPT ![s] = Idle] /\ sifs[s].left = 0
        /\ Transmit(s, m, f, expired) /\ tx[s].phase = "off"
    BY DEF SifsOver, Transmit
  <1>2. /\ Coherent(m) /\ Timed(m) /\ f \in Frames
        /\ MediumOK(sifs[s], tx[s], rx[s])
        /\ KeptOK(m, sifs[s], tx[s], rx[s])
        /\ SifsOK(sifs[s], tx[Peer(s)])
    BY Here DEF StationOK
  <1>3. f.kind # "RTS"
    BY <1>2 DEF SifsOK
  <1>4. GaveAway(m) => Data(m.active) = f
    <2>1. tx[s].frame.kind = "none"
      BY <1>1, <1>2 DEF MediumOK
    <2>2. tx[s].frame # Data(m.active)
      BY <2>1 DEF Data
    <2> QED
      BY <1>2, <2>2 DEF KeptOK
  <1> QED
    BY <1>1, <1>2, <1>3, <1>4, TransmitKept

(* An MSDU that is accepted finds an ARQ that waits for nothing.           *)
LEMMA HandDownKept ==
    ASSUME Inv, LinkInv, KeptInv, NEW s \in Stations, NEW expired,
           HandDown(s, expired)
    PROVE  KeptInv'
  <1> DEFINE m == mac[s]
             n == upper[s] + 1
  <1>1. /\ n <= Load[s] /\ m.active = None
        /\ \/ mac' = mac
           \/ Update(s, ProcessOutgoing(m, n))
        /\ sifs' = sifs /\ tx' = tx /\ rx' = rx
        /\ disturbed' = disturbed /\ broken' = broken
    BY DEF HandDown, medium
  <1>2. n \in MSDUs
    BY <1>1 DEF MSDUs, Inv, Types
  <1>3. /\ Coherent(m) /\ Timed(m) /\ KeptOK(m, sifs[s], tx[s], rx[s])
    BY Here DEF StationOK
  <1>4. CASE mac' = mac
    BY <1>1, <1>4 DEF KeptInv, KeptAt, BrokenOK
  <1>5. CASE Update(s, ProcessOutgoing(m, n))
    <2> DEFINE c == IF BianchiRetryCounter THEN 1 ELSE m.ssrc + m.slrc + 1
               k == [m EXCEPT !.active = n, !.sendNow = TRUE, !.counter = c]
               r == TryToSend(k)
    <2>1. c \in Nat
      BY <1>3 DEF Coherent, MacTypes
    <2>2. /\ k \in MacTypes /\ k.sendNow = TRUE /\ k.ackTimer = m.ackTimer
          /\ k.ackState = m.ackState /\ k.state = m.state
          /\ k.ctsTimer = m.ctsTimer
      BY <1>2, <1>3, <2>1 DEF Coherent, MacTypes
    <2>3. ProcessOutgoing(m, n) = r
      BY DEF ProcessOutgoing
    <2> HIDE DEF k, c
    <2>4. /\ r.ackTimer = m.ackTimer /\ r.ackState = m.ackState
          /\ r.state = m.state /\ r.ctsTimer = m.ctsTimer
          /\ ~GaveAway(r)
      BY <2>2, TryToSendFields, TryToSendKeeps
    <2> HIDE DEF r
    <2>5. m.state = "idle" /\ ~AwaitsACK(m)
      BY <1>1, <1>3 DEF Coherent, OneCopy
    <2>6. KeptOK(r, sifs[s], tx[s], rx'[s])
      BY <1>1, <1>3, <2>4, <2>5
         DEF KeptOK, Timed, AckTimed, CtsTimed, AwaitsACK
    <2>7. ASSUME NEW kind \in Replies
          PROVE  (\A i : ~Waits(kind, m, i)) /\ ~Takes(kind, m)
      BY <2>5 DEF Waits, Takes, AwaitsACK
    <2>8. BrokenOK'
      BY <1>1 DEF KeptInv, BrokenOK
    <2> QED
      BY <1>1, <1>5, <2>3, <2>6, <2>7, <2>8, OneSettled
  <1> QED
    BY <1>1, <1>4, <1>5

(* Time brings replies and timeouts nearer, all at once.                   *)
LEMMA TickKept ==
    ASSUME Inv, LinkInv, KeptInv, Tick
    PROVE  KeptInv'
  <1>0. /\ Off = -1
        /\ \A x \in Ticks :
              x # 0 => Earlier(x) = IF x = Off THEN Off ELSE x - 1
    BY DEF Off, Earlier
  <1>1. rx' = rx /\ disturbed' = disturbed /\ broken' = broken
    BY DEF Tick, history
  <1>2. ASSUME NEW q \in Stations
        PROVE  /\ sifs'[q] = [sifs[q] EXCEPT !.left = Earlier(sifs[q].left)]
               /\ tx'[q].frame = tx[q].frame /\ tx'[q].phase = tx[q].phase
               /\ tx'[q].left = Earlier(tx[q].left)
               /\ mac'[q].ackTimer = Earlier(mac[q].ackTimer)
               /\ mac'[q].ctsTimer = Earlier(mac[q].ctsTimer)
               /\ mac'[q].active = mac[q].active
               /\ mac'[q].ackState = mac[q].ackState
               /\ mac'[q].state = mac[q].state
               /\ mac'[q].sendNow = mac[q].sendNow
               /\ mac'[q].pendingMPDU = mac[q].pendingMPDU
               /\ sifs[q].left # 0 /\ tx[q].left # 0
               /\ mac[q].ackTimer # 0 /\ mac[q].ctsTimer # 0
               /\ mac[q].ackTimer \in Ticks /\ mac[q].ctsTimer \in Ticks
               /\ sifs[q].left \in Ticks /\ tx[q].left \in Ticks
               /\ sifs[q] \in [frame : Frames, left : Ticks]
    <2>1. /\ sifs[q] \in [frame : Frames, left : Ticks]
          /\ tx[q] \in [phase : {"off", "preamble", "psdu"}, frame : Frames,
                        left : Ticks]
          /\ mac[q] \in MacTypes
      BY Here DEF Coherent
    <2>2. /\ sifs'[q] = [sifs[q] EXCEPT !.left = Earlier(sifs[q].left)]
          /\ tx'[q] = [tx[q] EXCEPT !.left = Earlier(tx[q].left)]
          /\ mac'[q] = [mac[q] EXCEPT
                           !.ackTimer = Earlier(mac[q].ackTimer),
                           !.ctsTimer = Earlier(mac[q].ctsTimer)]
          /\ sifs[q].left # 0 /\ tx[q].left # 0
          /\ mac[q].ackTimer # 0 /\ mac[q].ctsTimer # 0
      BY DEF Tick
    <2> QED
      BY <2>1, <2>2 DEF MacTypes
  <1>3. ASSUME NEW q \in Stations
        PROVE  /\ sifs'[q].frame = sifs[q].frame
               /\ sifs'[q].left = Earlier(sifs[q].left)
               /\ sifs[q] = Idle => sifs'[q] = Idle
    BY <1>0, <1>2 DEF Idle, Ticks, Off
  <1>4. ASSUME NEW q \in Stations
        PROVE  KeptOK(mac'[q], sifs'[q], tx'[q], rx'[q])
    <2>1. KeptOK(mac[q], sifs[q], tx[q], rx[q])
      BY Here DEF StationOK
    <2>2. /\ mac'[q].ackTimer = Off <=> mac[q].ackTimer = Off
          /\ mac'[q].ctsTimer = Off <=> mac[q].ctsTimer = Off
      BY <1>0, <1>2 DEF Ticks
    <2>3. Timed(mac'[q]) /\ (GaveAway(mac'[q]) => GaveAway(mac[q]))
      BY <1>2, <2>1, <2>2
         DEF KeptOK, Timed, AckTimed, CtsTimed, GaveAway, AwaitsACK
    <2> QED
      BY <1>1, <1>2, <1>3, <2>1, <2>3 DEF KeptOK
  <1>5. ASSUME NEW q \in Stations
        PROVE  /\ tx[q].phase # "off" =>
                      AirLeft(tx'[q]) = AirLeft(tx[q]) - 1
               /\ AirLeft(tx[q]) \in Int /\ AirLeft(tx'[q]) \in Int
    <2>1. MediumOK(sifs[q], tx[q], rx[q])
      BY Here
    <2> QED
      BY <1>0, <1>2, <2>1 DEF AirLeft, MediumOK, Ticks
  <1>6. ASSUME NEW q \in Stations, NEW p \in Stations, p = Peer(q)
        PROVE  SifsOK(sifs'[q], tx'[p])
    <2>1. SifsOK(sifs[q], tx[p]) /\ MediumOK(sifs[q], tx[q], rx[q])
      BY <1>6, Here DEF StationOK
    <2>2. CASE sifs[q].frame.kind = "none"
      BY <1>3, <2>1, <2>2 DEF SifsOK
    <2>3. CASE sifs[q].frame.kind # "none"
      <3>1. sifs'[q].left = sifs[q].left - 1 /\ sifs[q].left \in Int
        BY <1>0, <1>2, <1>3, <2>1, <2>3 DEF MediumOK, Ticks
      <3>2. /\ sifs'[q].frame.kind # "none" /\ sifs'[q].frame.kind # "RTS"
            /\ sifs'[q].left <= Sifs
        BY <1>3, <2>1, <2>3, <3>1 DEF SifsOK
      <3>3. ASSUME tx'[p].phase # "off"
            PROVE  AirLeft(tx'[p]) >= sifs'[q].left + Preamble + Psdu - Sifs
        <4>1. tx[p].phase # "off"
          BY <1>2, <3>3
        <4>2. AirLeft(tx[p]) >= sifs[q].left + Preamble + Psdu - Sifs
          BY <2>1, <2>3, <4>1 DEF SifsOK
        <4> QED
          BY <1>5, <3>1, <4>1, <4>2
      <3> QED
        BY <3>2, <3>3 DEF SifsOK
    <2> QED
      BY <2>2, <2>3
  <1>7. ASSUME NEW q \in Stations, NEW p \in Stations, p = Peer(q)
        PROVE  AirOK(tx'[q], rx'[q], tx'[p])
    <2>1. AirOK(tx[q], rx[q], tx[p]) /\ MediumOK(sifs[q], tx[q], rx[q])
      BY <1>7, Here DEF StationOK
    <2>2. tx[q].phase = "preamble" => tx'[q].left <= Preamble
      BY <1>0, <1>2, <2>1 DEF AirOK, MediumOK, Ticks
    <2> QED
      BY <1>1, <1>2, <2>1, <2>2 DEF AirOK
  <1>8. ASSUME NEW q \in Stations, NEW p \in Stations, p = Peer(q),
               NEW kind \in Replies
        PROVE  AnswerOK(kind, mac'[q], tx'[q], rx'[q], q \in disturbed,
                        sifs'[p], tx'[p])
    <2> DEFINE n == Until(kind, sifs[p], tx[p])
               i == Until(kind, sifs'[p], tx'[p])
    <2>1. AnswerOK(kind, mac[q], tx[q], rx[q], q \in disturbed,
                   sifs[p], tx[p])
      BY <1>8, Here DEF StationOK
    <2>2. Coming(kind, sifs'[p], tx'[p]) <=> Coming(kind, sifs[p], tx[p])
      BY <1>2, <1>3 DEF Coming
    <2>3. ASSUME Coming(kind, sifs[p], tx[p])
          PROVE  i = n - 1 /\ n \in Int /\ n >= 0
      <3>1. n \in Int /\ n >= 0
        BY <2>3, UntilBounds
      <3>2. MediumOK(sifs[p], tx[p], rx[p]) /\ kind # "none"
        BY Here DEF Replies
      <3>3. CASE sifs[p].frame.kind = kind
        <4>1. sifs[p].left >= 0
          BY <3>2, <3>3 DEF MediumOK
        <4> QED
          BY <1>0, <1>2, <1>3, <3>1, <3>3, <4>1 DEF Until, Ticks
      <3>4. CASE sifs[p].frame.kind # kind
        <4>1. tx[p].left >= 0
          BY <2>3, <3>2, <3>4 DEF MediumOK, Coming
        <4> QED
          BY <1>0, <1>2, <1>3, <3>1, <3>4, <4>1 DEF Until, Ticks
      <3> QED
        BY <3>3, <3>4
    <2> HIDE DEF n, i
    <2>4. ASSUME n \in Int, n >= 0, Waits(kind, mac[q], n)
          PROVE  Waits(kind, mac'[q], n - 1)
      BY <1>0, <1>2, <2>4 DEF Waits, Ticks
    <2>5. Takes(kind, mac[q]) => Takes(kind, mac'[q])
      BY <1>2 DEF Takes
    <2>6. ASSUME Coming(kind, sifs'[p], tx'[p]), q \notin disturbed
          PROVE  Waits(kind, mac'[q], i)
                 \/ (tx'[q].phase # "off" /\ AirLeft(tx'[q]) > i)
      <3>1. i = n - 1 /\ n \in Int /\ n >= 0
        BY <2>2, <2>3, <2>6
      <3>2. Waits(kind, mac[q], n)
            \/ (tx[q].phase # "off" /\ AirLeft(tx[q]) > n)
        BY <2>1, <2>2, <2>6 DEF AnswerOK, n
      <3>3. CASE Waits(kind, mac[q], n)
        BY <2>4, <3>1, <3>3
      <3>4. CASE tx[q].phase # "off" /\ AirLeft(tx[q]) > n
        <4>1. AirLeft(tx'[q]) = AirLeft(tx[q]) - 1 /\ AirLeft(tx[q]) \in Int
          BY <1>5, <3>4
        <4> QED
          BY <1>2, <3>1, <3>4, <4>1
      <3> QED
        BY <3>2, <3>3, <3>4
    <2>7. ASSUME tx'[p].frame.kind = kind, rx'[q] = "peer", q \notin disturbed
          PROVE  Takes(kind, mac'[q])
      BY <1>1, <1>2, <2>1, <2>5, <2>7 DEF AnswerOK
    <2> QED
      BY <2>6, <2>7 DEF AnswerOK, i
  <1>9. ASSUME NEW q \in Stations
        PROVE  KeptAt(q)'
    <2>1. Peer(q) \in Stations
      BY PeerFacts
    <2> QED
      BY <1>1, <1>4, <1>6, <1>7, <1>8, <2>1 DEF KeptAt, StationOK
  <1> QED
    BY <1>1, <1>9 DEF KeptInv, BrokenOK

(* The end of a transmission, at its sender.                               *)
LEMMA SenderKept ==
    ASSUME Inv, LinkInv, KeptInv, NEW s \in Stations,
           tx[s].phase = "psdu", tx[s].left = 0, NEW f, f = tx[s].frame
    PROVE  LET r == OnTxEnd(mac[s], f) IN
           /\ KeptOK(r, sifs[s], Quiet, rx[s]) /\ sifs[s] = Idle
           /\ f.kind = "DATA" =>
                  r.ackState = "waitForACK" /\ r.ackTimer = Timeout
           /\ f.kind = "RTS" =>
                  r.state = "waitForCTS" /\ r.ctsTimer = Timeout
           /\ \A kind \in Replies, n \in Int :
                 n <= Sifs + Preamble /\ Waits(kind, mac[s], n) =>
                    Waits(kind, r, n)
  <1> DEFINE m == mac[s]
             r == OnTxEnd(m, f)
  <1>1. /\ Coherent(m) /\ Timed(m) /\ m \in MacTypes
        /\ KeptOK(m, sifs[s], tx[s], rx[s])
        /\ SifsOK(sifs[s], tx[Peer(s)])
        /\ Carried(m, sifs[s].frame, f)
        /\ MediumOK(sifs[s], tx[s], rx[s])
    BY Here DEF StationOK, Coherent
  <1>2. sifs[s] = Idle /\ Quiet.frame.kind # "RTS" /\ Timeout # Off
    BY <1>1 DEF MediumOK, SifsOK, Quiet, NoFrame, Off
  <1>3. CASE f.kind = "DATA"
    <2>1. f.sn = m.active /\ m.pendingMPDU = None /\ ~AwaitsACK(m)
      BY <1>1, <1>3 DEF Carried, GaveAway
    <2>2. /\ r.ackState = "waitForACK" /\ r.ackTimer = Timeout
          /\ r.state = m.state /\ r.ctsTimer = m.ctsTimer
      BY <1>1, <1>3, <2>1 DEF OnTxEnd, MacTypes
    <2> HIDE DEF r
    <2>3. Timed(r) /\ ~GaveAway(r)
      BY <1>1, <1>2, <2>2 DEF Timed, AckTimed, CtsTimed, GaveAway, AwaitsACK
    <2>4. KeptOK(r, sifs[s], Quiet, rx[s])
      BY <1>2, <2>2, <2>3 DEF KeptOK
    <2>5. ASSUME NEW kind \in Replies, NEW n \in Int
          PROVE  ~Waits(kind, m, n)
      BY <1>1, <2>1 DEF Waits, Coherent, OneCopy, AwaitsACK
    <2> QED
      BY <1>2, <1>3, <2>2, <2>4, <2>5 DEF r
  <1>4. CASE f.kind # "DATA"
    <2>1. CASE f.kind = "RTS"
      <3>1. m.state = "transmitRTS" /\ m.pendingMPDU # None /\ ~AwaitsACK(m)
        BY <1>1, <2>1 DEF KeptOK, Coherent, OneCopy
      <3>2. /\ r.ackState = m.ackState \/ r.ackState = "none"
            /\ r.ackTimer = m.ackTimer /\ r.pendingMPDU = m.pendingMPDU
            /\ r.state = "waitForCTS" /\ r.ctsTimer = Timeout
        BY <1>1, <2>1, <3>1 DEF OnTxEnd, MacTypes
      <3> HIDE DEF r
      <3>3. Timed(r) /\ ~GaveAway(r) /\ r.ackState # "receiving"
        BY <1>1, <1>2, <3>1, <3>2
           DEF Timed, AckTimed, CtsTimed, GaveAway, AwaitsACK
      <3>4. KeptOK(r, sifs[s], Quiet, rx[s])
        BY <1>2, <3>3 DEF KeptOK
      <3>5. ASSUME NEW kind \in Replies, NEW n \in Int
            PROVE  ~Waits(kind, m, n)
        BY <3>1 DEF Waits, AwaitsACK
      <3> QED
        BY <1>2, <2>1, <3>2, <3>4, <3>5 DEF r
    <2>2. CASE f.kind # "RTS"
      <3>1. /\ r.ackState = IF m.ackState = "sendingACK" THEN "none"
                            ELSE m.ackState
            /\ r.ackTimer = m.ackTimer /\ r.pendingMPDU = m.pendingMPDU
            /\ r.state = m.state /\ r.ctsTimer = m.ctsTimer
            /\ r.active = m.active /\ r.sendNow = m.sendNow
        BY <1>1, <1>4, <2>2 DEF OnTxEnd, MacTypes
      <3> HIDE DEF r
      <3>2. Timed(r) /\ (GaveAway(r) => GaveAway(m))
        BY <1>1, <3>1 DEF Timed, AckTimed, CtsTimed, GaveAway, AwaitsACK
      <3>3. ~GaveAway(m)
        <4>1. Data(m.active).kind = "DATA" /\ sifs[s].frame.kind # "DATA"
          BY <1>2 DEF Data, Idle, NoFrame
        <4>2. Data(m.active) \notin {sifs[s].frame, f}
          BY <1>4, <4>1
        <4> QED
          BY <1>1, <4>2 DEF KeptOK
      <3>4. KeptOK(r, sifs[s], Quiet, rx[s])
        BY <1>1, <1>2, <3>1, <3>2, <3>3 DEF KeptOK
      <3>5. ASSUME NEW kind \in Replies, NEW n \in Int, Waits(kind, m, n)
            PROVE  Waits(kind, r, n)
        BY <3>1, <3>5 DEF Waits
      <3> QED
        BY <1>2, <1>4, <2>2, <3>4, <3>5 DEF r
    <2> QED
      BY <2>1, <2>2
  <1> QED
    BY <1>3, <1>4

(* ... and what remains to be shown about its peer p, with record r.       *)
LEMMA BothKept ==
    ASSUME Inv, LinkInv, KeptInv, NEW s \in Stations, NEW p, p = Peer(s),
           NEW r, NEW n, Records(p, r, n),
           tx' = [tx EXCEPT ![s] = Quiet],
           tx[s].phase = "psdu", tx[s].left = 0, NEW f, f = tx[s].frame,
           n = OnTxEnd(mac[s], f),
           rx' = [rx EXCEPT ![p] = IF @ = "peer" THEN "none" ELSE @],
           disturbed' = disturbed, BrokenOK',
           KeptOK(r, sifs'[p], tx[p], rx'[p]),
           \/ sifs' = sifs
           \/ \E u : /\ sifs' = [sifs EXCEPT ![p] =
                                    [frame |-> u, left |-> Sifs]]
                     /\ u.kind \notin {"none", "RTS"} /\ rx[p] = "peer"
                     /\ u.kind = "ACK" => f.kind = "DATA"
                     /\ u.kind = "CTS" => f.kind = "RTS"
    PROVE  KeptInv'
  <1>0. /\ p \in Stations /\ p # s /\ Peer(p) = s
        /\ \A q \in Stations : q = s \/ q = p
        /\ Quiet.phase = "off" /\ Quiet.frame.kind = "none"
        /\ Idle.frame.kind = "none"
    BY PeerFacts DEF Quiet, NoFrame, Idle
  <1>1. /\ mac'[p] = r /\ mac'[s] = n
        /\ tx'[s] = Quiet /\ tx'[p] = tx[p] /\ rx'[s] = rx[s]
        /\ rx'[p] = IF rx[p] = "peer" THEN "none" ELSE rx[p]
        /\ sifs'[s] = sifs[s]
        /\ sifs'[p] = sifs[p]
           \/ /\ sifs'[p].left = Sifs /\ rx[p] = "peer"
              /\ sifs'[p].frame.kind \notin {"none", "RTS"}
              /\ sifs'[p].frame.kind = "ACK" => f.kind = "DATA"
              /\ sifs'[p].frame.kind = "CTS" => f.kind = "RTS"
    BY <1>0 DEF Records, Inv, Types, LinkInv, MoreTypes
  <1>2. /\ KeptOK(n, sifs[s], Quiet, rx[s]) /\ sifs[s] = Idle
        /\ f.kind = "DATA" =>
               n.ackState = "waitForACK" /\ n.ackTimer = Timeout
        /\ f.kind = "RTS" =>
               n.state = "waitForCTS" /\ n.ctsTimer = Timeout
        /\ \A kind \in Replies, i \in Int :
              i <= Sifs + Preamble /\ Waits(kind, mac[s], i) =>
                 Waits(kind, n, i)
    BY SenderKept
  <1>3. /\ StationOK(mac[s], sifs[s], tx[s], rx[s], s \in disturbed,
                     sifs[p], tx[p])
        /\ StationOK(mac[p], sifs[p], tx[p], rx[p], p \in disturbed,
                     sifs[s], tx[s])
        /\ MediumOK(sifs[s], tx[s], rx[s])
    BY <1>0, Here
  <1>4. rx[s] # "peer" /\ rx'[p] # "peer"
    BY <1>1, <1>3 DEF MediumOK
  <1>5. KeptAt(p)'
    <2>1. SifsOK(sifs'[p], Quiet)
      BY <1>0, <1>1, <1>3 DEF StationOK, SifsOK
    <2>2. AirOK(tx[p], rx'[p], Quiet)
      BY <1>3, <1>4 DEF StationOK, AirOK
    <2>3. ASSUME NEW kind \in Replies
          PROVE  AnswerOK(kind, r, tx[p], rx'[p], p \in disturbed,
                          Idle, Quiet)
      BY <1>0, <1>4 DEF AnswerOK, Coming, Replies
    <2> QED
      BY <1>0, <1>1, <1>2, <2>1, <2>2, <2>3 DEF KeptAt, StationOK
  <1>6. ASSUME NEW kind \in Replies
        PROVE  AnswerOK(kind, n, Quiet, rx[s], s \in disturbed,
                        sifs'[p], tx[p])
    <2>1. CASE sifs'[p] = sifs[p]
      <3> DEFINE i == Until(kind, sifs[p], tx[p])
      <3>1. AnswerOK(kind, mac[s], tx[s], rx[s], s \in disturbed,
                     sifs[p], tx[p])
        BY <1>3 DEF StationOK
      <3>2. ASSUME Coming(kind, sifs[p], tx[p]), s \notin disturbed
            PROVE  Waits(kind, n, i)
        <4>1. i \in Int /\ i >= 0 /\ i <= Sifs + Preamble
          BY <1>0, <3>2, UntilBounds
        <4>2. AirLeft(tx[s]) = 0
          BY DEF AirLeft
        <4>3. Waits(kind, mac[s], i)
          BY <3>1, <3>2, <4>1, <4>2 DEF AnswerOK
        <4> QED
          BY <1>2, <4>1, <4>3
      <3> QED
        BY <1>4, <2>1, <3>2 DEF AnswerOK
    <2>2. CASE sifs'[p] # sifs[p]
      <3>1. /\ sifs'[p].left = Sifs
            /\ sifs'[p].frame.kind = "ACK" => f.kind = "DATA"
            /\ sifs'[p].frame.kind = "CTS" => f.kind = "RTS"
            /\ sifs'[p].frame.kind # "none"
        BY <1>1, <2>2
      <3>2. ASSUME Coming(kind, sifs'[p], tx[p])
            PROVE  Waits(kind, n, Until(kind, sifs'[p], tx[p]))
        <4>1. tx[p].frame.kind = "none" /\ kind \in {"CTS", "ACK"}
          BY <1>0, <1>1, <2>2, Here DEF MediumOK, Replies
        <4>2. sifs'[p].frame.kind = kind
          BY <3>2, <4>1 DEF Coming
        <4>3. Until(kind, sifs'[p], tx[p]) = Sifs + Preamble
          BY <3>1, <4>2 DEF Until
        <4> QED
          BY <1>2, <3>1, <4>1, <4>2, <4>3 DEF Waits
      <3> QED
        BY <1>4, <3>2 DEF AnswerOK
    <2> QED
      BY <2>1, <2>2
  <1>7. KeptAt(s)'
    <2>1. SifsOK(Idle, tx[p]) /\ AirOK(Quiet, rx[s], tx[p])
      BY <1>0, <1>4 DEF SifsOK, AirOK
    <2> QED
      BY <1>1, <1>2, <1>6, <2>1 DEF KeptAt, StationOK
  <1> QED
    BY <1>0, <1>5, <1>7 DEF KeptInv

(* The end of a transmission: the SIFS delay of the peer is empty, and a   *)
(* CTS or an ACK comes only to who has waited for it.                      *)
LEMMA TransmissionEndsKept ==
    ASSUME Inv, LinkInv, KeptInv, NEW s \in Stations, NEW outcome, NEW nav,
           NEW expired, TransmissionEnds(s, outcome, nav, expired)
    PROVE  KeptInv'
  <1> DEFINE p == Peer(s)
             f == tx[s].frame
             n == OnTxEnd(mac[s], f)
             m == mac[p]
             x == OnRxEnd(m)
             e == OnRxError(m, expired)
  <1>0. /\ p \in Stations /\ p # s /\ Peer(p) = s
    BY PeerFacts
  <1>1. /\ tx' = [tx EXCEPT ![s] = Quiet]
        /\ tx[s].phase = "psdu" /\ tx[s].left = 0
        /\ rx' = [rx EXCEPT ![p] = IF @ = "peer" THEN "none" ELSE @]
        /\ disturbed' = disturbed /\ broken = "none"
        /\ \/ rx[p] = "peer" /\ Deliver(p, f, x, n, nav)
           \/ /\ sifs' = sifs /\ broken' = broken
              /\ \/ rx[p] # "peer" /\ Records(p, m, n)
                 \/ rx[p] = "peer" /\ \E r \in {x, e} : Records(p, r, n)
    BY DEF TransmissionEnds, Running
  <1>2. /\ Coherent(m) /\ Timed(m) /\ MediumOK(sifs[p], tx[p], rx[p])
        /\ StationOK(m, sifs[p], tx[p], rx[p], p \in disturbed,
                     sifs[s], tx[s])
        /\ sifs[p].left \in Int
        /\ KeptOK(m, sifs[p], tx[p], rx[p])
        /\ Carried(m, sifs[p].frame, tx[p].frame)
    BY <1>0, Here DEF StationOK
  <1>3. rx'[p] = IF rx[p] = "peer" THEN "none" ELSE rx[p]
    BY <1>0, <1>1 DEF LinkInv, MoreTypes
  <1>4. sifs[p] = Idle
    <2>1. SifsOK(sifs[p], tx[s]) /\ AirLeft(tx[s]) = 0
      BY <1>1, <1>2 DEF StationOK, AirLeft
    <2> QED
      BY <1>1, <1>2, <2>1 DEF SifsOK, MediumOK
  <1>5. /\ Coherent(x) /\ Settles(m, x) /\ x.ackState # "receiving"
        /\ Takes("ACK", m) =>
               x.ackState = "receptionFinished" /\ x.active # None
        /\ Takes("CTS", m) =>
               x.state = "receptionFinished" /\ x.pendingMPDU # None
    <2>1. Coherent(x)
      BY <1>2, OnRxEndCoherent
    <2> QED
      BY <1>2, <2>1, OnRxEndSettles
         DEF Takes, Coherent, OneCopy, AwaitsACK
  <1>6. Settles(m, e) /\ e.ackState # "receiving"
    BY <1>2, OnRxErrorSettles
  <1>7. rx[p] = "peer" /\ f.kind \in Replies =>
            p \in disturbed \/ Takes(f.kind, m)
    BY <1>2 DEF StationOK, AnswerOK
  <1>8. rx[p] = "peer" =>
            /\ tx[p].frame.kind = "none" /\ ~GaveAway(m) /\ ~GaveAway(x)
    <2>1. rx[p] = "peer" => tx[p].frame.kind = "none"
      BY <1>2 DEF MediumOK
    <2>2. Data(m.active).kind = "DATA" /\ Idle.frame.kind = "none"
      BY DEF Data, Idle, NoFrame
    <2>3. rx[p] = "peer" => ~GaveAway(m)
      BY <1>2, <1>4, <2>1, <2>2 DEF KeptOK
    <2> QED
      BY <1>5, <2>1, <2>3 DEF Settles
  <1> HIDE DEF n, m, x, e, p, f
  <1>9. ASSUME NEW r, (rx[p] # "peer" /\ r = m) \/ r \in {x, e},
               Records(p, r, n), sifs' = sifs, BrokenOK'
        PROVE  KeptInv'
    <2>1. KeptOK(r, sifs[p], tx[p], rx'[p])
      <3>1. CASE rx[p] # "peer" /\ r = m
        BY <1>2, <1>3, <3>1
      <3>2. CASE r \in {x, e}
        BY <1>2, <1>5, <1>6, <3>2, SettledKept
      <3> QED
        BY <1>9, <3>1, <3>2
    <2> QED
      BY <1>1, <1>9, <2>1, BothKept DEF p, n, f
  (* A delivery, with the reply u or without.                              *)
  <1>10. ASSUME NEW r, Records(p, r, n), rx[p] = "peer",
                Timed(r), r.ackState # "receiving", BrokenOK',
                \/ sifs' = sifs /\ ~GaveAway(r)
                \/ \E u : /\ sifs' = [sifs EXCEPT ![p] =
                                         [frame |-> u, left |-> Sifs]]
                          /\ u.kind \notin {"none", "RTS"}
                          /\ u.kind = "ACK" => f.kind = "DATA"
                          /\ u.kind = "CTS" => f.kind = "RTS"
                          /\ GaveAway(r) => Data(r.active) = u
         PROVE  KeptInv'
    <2>1. GaveAway(r) => Data(r.active) = sifs'[p].frame
      BY <1>0, <1>10 DEF Inv, Types
    <2>2. KeptOK(r, sifs'[p], tx[p], rx'[p])
      BY <1>8, <1>10, <2>1 DEF KeptOK
    <2> QED
      BY <1>1, <1>10, <2>2, BothKept, ZenonT(30) DEF p, n, f
  <1>11. Timed(x) /\ x \in MacTypes
    BY <1>5 DEF Settles, Coherent
  <1>12. (broken' = IF sifs[p] = Idle THEN "none" ELSE "SIFS") => BrokenOK'
    BY <1>4 DEF BrokenOK
  <1>13. CASE f.kind = "DATA" /\ rx[p] = "peer" /\ DeliverData(p, f, x, n)
    <2> DEFINE r == [x EXCEPT !.ackState = "sendingACK"]
    <2>1. /\ Records(p, r, n)
          /\ sifs' = [sifs EXCEPT ![p] = [frame |-> Control("ACK"),
                                          left |-> Sifs]]
          /\ BrokenOK'
      BY <1>12, <1>13 DEF DeliverData, Reply, SifsAccepts
    <2>2. /\ r.ackState = "sendingACK" /\ r.ackTimer = x.ackTimer
          /\ r.state = x.state /\ r.ctsTimer = x.ctsTimer
          /\ r.active = x.active /\ r.sendNow = x.sendNow
          /\ r.pendingMPDU = x.pendingMPDU
      BY <1>11 DEF MacTypes
    <2> HIDE DEF r
    <2>3. Timed(r) /\ (GaveAway(r) => GaveAway(x))
      BY <1>5, <1>11, <2>2
         DEF Timed, AckTimed, CtsTimed, GaveAway, AwaitsACK
    <2>4. Control("ACK").kind = "ACK"
      BY DEF Control
    <2> QED
      BY <1>8, <1>10, <1>13, <2>1, <2>2, <2>3, <2>4
  <1>14. CASE f.kind = "RTS" /\ rx[p] = "peer" /\ DeliverRTS(p, x, n, nav)
    <2>1. Control("CTS").kind = "CTS"
      BY DEF Control
    <2>2. BrokenOK' /\ Records(p, x, n)
      BY <1>1, <1>12, <1>14 DEF DeliverRTS, SifsAccepts, BrokenOK
    <2>3. sifs' = sifs \/ sifs' = [sifs EXCEPT ![p] =
                                     [frame |-> Control("CTS"), left |-> Sifs]]
      BY <1>14 DEF DeliverRTS, Reply
    <2> QED
      BY <1>5, <1>8, <1>10, <1>11, <1>14, <2>1, <2>2, <2>3
  <1>15. CASE f.kind = "CTS" /\ rx[p] = "peer" /\ DeliverCTS(p, x, n)
    <2>1. CASE x.pendingMPDU = None \/ x.state # "receptionFinished"
      <3>1. broken' = "CTS" /\ Records(p, x, n) /\ sifs' = sifs
        BY <1>15, <2>1 DEF DeliverCTS
      <3>2. p \in disturbed
        BY <1>5, <1>7, <1>15, <2>1 DEF Replies
      <3>3. BrokenOK'
        BY <1>1, <3>1, <3>2 DEF BrokenOK, Replies
      <3> QED
        BY <1>5, <1>8, <1>10, <1>11, <1>15, <3>1, <3>3
    <2>2. CASE ~(x.pendingMPDU = None \/ x.state # "receptionFinished")
      <3> DEFINE r == ReceiveCTS(x)
                 u == Data(x.pendingMPDU)
      <3>1. /\ Records(p, r, n) /\ BrokenOK'
            /\ sifs' = [sifs EXCEPT ![p] = [frame |-> u, left |-> Sifs]]
        BY <1>12, <1>15, <2>2 DEF DeliverCTS, Reply, SifsAccepts
      <3>2. /\ r.ackState = x.ackState /\ r.ackTimer = x.ackTimer
            /\ r.state = "idle" /\ r.active = x.active
        BY <1>11 DEF ReceiveCTS, MacTypes
      <3>3. x.pendingMPDU = x.active /\ u.kind = "DATA"
        BY <1>5, <2>2 DEF Coherent, OneCopy, Data
      <3>4. Data(r.active) = u
        BY <3>2, <3>3
      <3> HIDE DEF r, u
      <3>5. Timed(r)
        BY <1>11, <3>2 DEF Timed, AckTimed, CtsTimed
      <3> QED
        BY <1>5, <1>10, <1>15, <3>1, <3>2, <3>3, <3>4, <3>5
    <2> QED
      BY <2>1, <2>2
  <1>16. CASE f.kind = "ACK" /\ rx[p] = "peer" /\ DeliverACK(p, x, n)
    <2>1. CASE x.active = None \/ x.ackState # "receptionFinished"
      <3>1. broken' = "ACK" /\ Records(p, x, n) /\ sifs' = sifs
        BY <1>16, <2>1 DEF DeliverACK
      <3>2. p \in disturbed
        BY <1>5, <1>7, <1>16, <2>1 DEF Replies
      <3>3. BrokenOK'
        BY <1>1, <3>1, <3>2 DEF BrokenOK, Replies
      <3> QED
        BY <1>5, <1>8, <1>10, <1>11, <1>16, <3>1, <3>3
    <2>2. CASE ~(x.active = None \/ x.ackState # "receptionFinished")
      <3> DEFINE r == ReceiveACK(x)
      <3>1. Records(p, r, n) /\ BrokenOK' /\ sifs' = sifs
        BY <1>1, <1>16, <2>2 DEF DeliverACK, BrokenOK
      <3>2. /\ r.ackState = "none" /\ r.active = None
            /\ r.state = x.state /\ r.ctsTimer = x.ctsTimer
        BY <1>11 DEF ReceiveACK, MacTypes
      <3> HIDE DEF r
      <3>3. Timed(r) /\ ~GaveAway(r)
        BY <1>11, <3>2 DEF Timed, AckTimed, CtsTimed, GaveAway
      <3> QED
        BY <1>10, <1>16, <3>1, <3>2, <3>3
    <2> QED
      BY <2>1, <2>2
  <1>17. broken' = broken => BrokenOK'
    BY <1>1 DEF BrokenOK
  <1> QED
    BY <1>1, <1>9, <1>13, <1>14, <1>15, <1>16, <1>17 DEF Deliver

-----------------------------------------------------------------------------
(* Initially there is no MSDU, and nothing is waited for.                  *)
LEMMA KeptInit == Init => KeptInv
  <1> SUFFICES ASSUME Init PROVE KeptInv
    OBVIOUS
  <1>1. /\ rx = [s \in Stations |-> "none"]
        /\ sifs = [s \in Stations |-> Idle]
        /\ tx = [s \in Stations |-> Quiet]
        /\ broken = "none"
        /\ \A s \in Stations :
              /\ mac[s].active = None /\ mac[s].ackState = "none"
              /\ mac[s].state = "idle"
    BY DEF Init
  <1>2. ASSUME NEW s \in Stations
        PROVE  KeptAt(s)
    <2>1. /\ sifs[s] = Idle /\ tx[s] = Quiet /\ rx[s] = "none"
          /\ Peer(s) \in Stations
          /\ sifs[Peer(s)] = Idle /\ tx[Peer(s)] = Quiet
      BY <1>1, PeerFacts
    <2>2. /\ Idle.frame.kind = "none" /\ Quiet.frame.kind = "none"
          /\ Quiet.phase = "off"
      BY DEF Idle, Quiet, NoFrame
    <2>3. KeptOK(mac[s], Idle, Quiet, "none")
      BY <1>1, <2>2 DEF KeptOK, Timed, AckTimed, CtsTimed, GaveAway
    <2>4. SifsOK(Idle, Quiet) /\ AirOK(Quiet, "none", Quiet)
      BY <2>2 DEF SifsOK, AirOK
    <2>5. ASSUME NEW kind \in Replies
          PROVE  AnswerOK(kind, mac[s], Quiet, "none", s \in disturbed,
                          Idle, Quiet)
      BY <2>2 DEF AnswerOK, Coming, Replies
    <2> QED
      BY <2>1, <2>3, <2>4, <2>5 DEF KeptAt, StationOK
  <1> QED
    BY <1>1, <1>2 DEF KeptInv, BrokenOK

(* Every step keeps what is kept.                                          *)
LEMMA KeptNext ==
    Inv /\ LinkInv /\ KeptInv /\ [Next]_vars => KeptInv'
  <1> SUFFICES ASSUME Inv, LinkInv, KeptInv, [Next]_vars
               PROVE  KeptInv'
    OBVIOUS
  <1>1. CASE Tick
    BY <1>1, TickKept
  <1>2. ASSUME NEW s \in Stations, SendRTS(s) \/ SendData(s)
        PROVE  KeptInv'
    BY <1>2, SendRTSKept, SendDataKept
  <1>3. ASSUME NEW s \in Stations, NEW expired \in BOOLEAN,
               \/ HandDown(s, expired) \/ SifsOver(s, expired)
               \/ OnTimeoutACK(s, expired) \/ OnTimeoutCTS(s, expired)
        PROVE  KeptInv'
    BY <1>3, HandDownKept, SifsOverKept, OnTimeoutACKKept, OnTimeoutCTSKept
  <1>4. ASSUME NEW s \in Stations, NEW expired \in BOOLEAN,
               \/ \E heard \in BOOLEAN : PreambleEnds(s, heard, expired)
               \/ \E d \in Foreign : ForeignPreamble(s, d, expired)
               \/ \E ok \in BOOLEAN : ForeignEnds(s, ok, expired)
        PROVE  KeptInv'
    BY <1>4, PreambleEndsKept, ForeignPreambleKept, ForeignEndsKept
  <1>5. ASSUME NEW s \in Stations, NEW expired \in BOOLEAN,
               NEW outcome \in Outcomes, NEW nav \in BOOLEAN,
               TransmissionEnds(s, outcome, nav, expired)
        PROVE  KeptInv'
    BY <1>5, TransmissionEndsKept
  <1>6. CASE vars' = vars
    BY <1>6 DEF vars, medium, history, KeptInv, KeptAt, BrokenOK
  <1> QED
    BY <1>1, <1>2, <1>3, <1>4, <1>5, <1>6 DEF Next

(* What is kept contains what is never forgotten.                          *)
LEMMA KeptNeverForgotten == Inv /\ LinkInv /\ KeptInv => NeverForgotten
  <1> SUFFICES ASSUME Inv, LinkInv, KeptInv PROVE NeverForgotten
    OBVIOUS
  <1>1. \/ broken = "none"
        \/ broken \in {"CTS", "ACK"} /\ disturbed # {}
    BY DEF KeptInv, BrokenOK, Replies
  <1>2. ASSUME NEW s \in Stations
        PROVE  LET m == mac[s] IN
          /\ m.active # None =>
                \/ m.sendNow \/ m.pendingMPDU # None
                \/ sifs[s].frame = Data(m.active)
                \/ tx[s].frame = Data(m.active)
                \/ m.ackTimer # Off
                \/ m.ackState = "receiving" /\ rx[s] # "none"
          /\ m.ackState \in {"waitForACK", "receptionFinished"} =>
                m.ackTimer # Off
          /\ m.ackTimer # Off \/ m.ackState = "receiving" => m.active # None
          /\ m.state \in {"waitForCTS", "receptionFinished"} =>
                m.ctsTimer # Off
          /\ m.ctsTimer # Off => m.state # "idle"
          /\ m.state # "idle" \/ m.pendingRTS => m.pendingMPDU # None
          /\ m.pendingMPDU # None => m.pendingMPDU = m.active
    <2>1. /\ KeptOK(mac[s], sifs[s], tx[s], rx[s])
          /\ OneCopy(mac[s])
      BY Here DEF StationOK, Coherent
    <2> QED
      BY <2>1 DEF KeptOK, Timed, AckTimed, CtsTimed, OneCopy, GaveAway,
         AwaitsACK
  <1> QED
    BY <1>1, <1>2 DEF NeverForgotten

(* Where the MSDU is, who waits and how long: inductive together with the  *)
(* other two invariants.                                                   *)
THEOREM KeptInvariance == Spec => []KeptInv
  <1> QED
    BY KeptInit, KeptNext, Invariance, LinkInvariance, PTL DEF Spec

(* No MSDU gets lost inside a station, who waits has a timer, and a CTS or *)
(* an ACK comes only when its reception has just finished, unless a frame  *)
(* of another station was taken for it: none of the assertions of the code *)
(* fails otherwise.                                                        *)
THEOREM NothingForgotten == Spec => []NeverForgotten
  <1> QED
    BY KeptNeverForgotten, Invariance, LinkInvariance, KeptInvariance, PTL

===============================================================================
