---------------------- MODULE TransmissionOpportunity ----------------------
(***************************************************************************)
(* Several frames in one access to the channel: Buffer, StopAndWaitARQ,    *)
(* RateAdaptation and TXOP of a sending station, with the durations of     *)
(* protocolCalculatorPlugins/Duration.                                     *)
(*                                                                         *)
(* The first frame of a transmission opportunity contends for the channel  *)
(* (DATA); the next ones are sent a SIFS after the acknowledgement         *)
(* (DATA_TXOP), which others respect because each frame announces the      *)
(* exchange of the one that waits behind it.  A frame passes from the      *)
(* buffer to TXOP in one step.  Frames are short enough to need no RTS.    *)
(***************************************************************************)
EXTENDS RateAdaptation

CONSTANTS
  Lengths,             \* of frames
  BufferSize,
  ShortRetryLimit,
  MaxMissing,          \* bound: stationShortRetryCounter
  SIFS, MaximumACK, Preamble,    \* durations, in symbols
  TXOPLimit, MaxOutTXOP

ASSUME DurationsAssumption ==
  {SIFS, MaximumACK, Preamble, TXOPLimit} \subseteq Nat
ASSUME FramesAssumption ==
  /\ Lengths \subseteq Nat \ {0} /\ None \notin [to : Peers, length : Lengths]
  /\ ShortRetryLimit \in Nat
ASSUME OptionsAssumption == MaxOutTXOP \in BOOLEAN

VARIABLES
  buffer,      \* the frames that wait
  active,      \* StopAndWaitARQ: the active frame
  arq,         \* its retry counters
  remaining, txopReceiver,    \* TXOP
  air,         \* history: how the last transmission was made
  announced    \* history: what it announced, and whether it still is so

txopVars == <<buffer, active, arq, remaining, txopReceiver, air, announced>>
opportunityVars == <<rateVars, txopVars>>

Frames == [to : Peers, length : Lengths]

-----------------------------------------------------------------------------
(* Duration *)

OfdmSymbols(length, pm) ==
  LET bits == DataBitsPerSymbol(pm) IN (length + bits - 1) \div bits

MpduDuration(length, pm) == Preamble + OfdmSymbols(length, pm)

Exchange(duration) == SIFS + duration + SIFS + MaximumACK

-----------------------------------------------------------------------------
(* TXOP::processOutgoing of a frame f at mode pm, behind which queue waits *)
(* and r is the state of the strategies.                                   *)

Open == remaining > 0

\* Buffer::getNextTransmissionDuration, and 0 without a frame.
NextTransmissionDuration(queue, r) ==
  IF queue = <<>> THEN 0
  ELSE LET f == Head(queue)
       IN  MpduDuration(f.length, GetPhyMode(f.to, r[f.to], 1))

\* What remains after the exchange of f.
Cut(f, pm) ==
  (IF Open THEN remaining - SIFS ELSE TXOPLimit)
    - MpduDuration(f.length, pm) - SIFS - MaximumACK

\* Mutant for NavCoversNext: the time of the acknowledgement is forgotten.
NextFrameOnly(f, pm, queue, r) == SIFS + NextTransmissionDuration(queue, r)

NextExchange(f, pm, queue, r) ==
  IF MaxOutTXOP THEN Cut(f, pm) ELSE Exchange(NextTransmissionDuration(queue, r))

Receiver(f) == IF ~Open /\ config.singleReceiver THEN f.to ELSE txopReceiver

Continues(f, pm, queue, r) ==
  /\ Cut(f, pm) > 0
  /\ NextTransmissionDuration(queue, r) > 0
  /\ config.singleReceiver => Head(queue).to = Receiver(f)
  /\ NextExchange(f, pm, queue, r) <= Cut(f, pm)

-----------------------------------------------------------------------------
(* From the buffer to the channel *)

\* f is sent for the n-th time, why tells what it is to its predecessor.
SendFrame(f, n, queue, r, why) ==
  LET pm == GetPhyMode(f.to, r[f.to], n)
      sent == [r EXCEPT ![f.to] = SetCurrentPhyMode(f.to, @, pm)]
      goesOn == Continues(f, pm, queue, sent)
  IN  /\ active' = f
      /\ buffer' = queue
      /\ rate' = sent
      /\ remaining' = IF goesOn THEN Cut(f, pm) ELSE 0
      /\ txopReceiver' = Receiver(f)
      /\ announced' = [exchange |-> IF goesOn THEN NextExchange(f, pm, queue, sent) ELSE 0,
                       head |-> goesOn, fresh |-> TRUE]
      /\ air' = [type |-> IF Open THEN "DATA_TXOP" ELSE "DATA", why |-> why,
                 counter |-> n, pm |-> pm, probe |-> sent[f.to].probe,
                 exchange |-> Exchange(MpduDuration(f.length, pm)),
                 before |-> IF why = "retry" /\ announced.fresh /\ n > air.counter
                            THEN [pm |-> air.pm, probe |-> air.probe,
                                  promise |-> 0]
                            ELSE [pm |-> pm, probe |-> FALSE,
                                  promise |-> IF why = "expected" /\ announced.fresh
                                              THEN announced.exchange ELSE 0]]

\* StopAndWaitARQ::processOutgoing: the counter of a new frame goes on where
\* the station's losses stand, whoever they were to.
FirstCounter(station) == 1 + IF config.bianchiRetryCounter THEN 0 ELSE station

\* The ARQ is free: it drops the frames whose lifetime is over, the oldest
\* expired ones of the queue, and sends the next.
SendNext(queue, expired, r, station, acked) ==
  LET rest == SubSeq(queue, expired + 1, Len(queue))
  IN  IF rest = <<>>
      THEN /\ buffer' = <<>> /\ active' = None
           /\ rate' = r
           /\ arq' = [src |-> 0, station |-> station]
           /\ announced' = [announced EXCEPT !.head = FALSE]
           /\ UNCHANGED <<remaining, txopReceiver, air>>
      ELSE /\ arq' = [src |-> 0, station |-> station]
           /\ SendFrame(Head(rest), FirstCounter(station), Tail(rest), r,
                       IF expired = 0 /\ announced.head
                       THEN IF acked THEN "expected" ELSE "late" ELSE "other")

\* Buffer::processOutgoing: expired frames leave, and the new one is dropped
\* when there is no room.
Arrive(f, expired) ==
  LET kept == SubSeq(buffer, expired + 1, Len(buffer))
  IN  /\ f.to \in config.receivers
      /\ UNCHANGED <<config, report>>
      /\ IF active = None THEN SendNext(<<f>>, 0, rate, arq.station, FALSE)
         ELSE /\ buffer' = IF Len(kept) < BufferSize THEN Append(kept, f) ELSE kept
              /\ announced' = [announced EXCEPT !.head = @ /\ expired = 0]
              /\ UNCHANGED <<active, arq, remaining, txopReceiver, air, rate>>

\* The acknowledgement is received.
Acked(expired) ==
  /\ active # None
  /\ SendNext(buffer, expired, [rate EXCEPT ![active.to] = OnResult(@, TRUE)], 0, TRUE)
  /\ UNCHANGED <<config, report>>

\* The counter for a retransmission is less than that for a transmission
\* (StopAndWaitARQ::transmissionHasFailed): a limit that was reached before
\* is subtracted.
RetryCounter(a) ==
  1 + IF config.bianchiRetryCounter THEN a.src
      ELSE IF a.station < ShortRetryLimit THEN a.station
      ELSE a.station - ShortRetryLimit

\* The timeout of the acknowledgement: again, or the frame is given up at the
\* limit or at the end of its lifetime.
Missed(expired) ==
  LET failed == [rate EXCEPT ![active.to] = OnResult(@, FALSE)]
      counted == [src |-> arq.src + 1, station |-> arq.station + 1]
  IN  /\ active # None
      /\ counted.station <= MaxMissing
      /\ IF counted.src = ShortRetryLimit \/ expired > 0
         THEN SendNext(buffer, IF expired > 0 THEN expired - 1 ELSE 0,
                       failed, counted.station, FALSE)
         ELSE /\ arq' = counted
              /\ SendFrame(active, RetryCounter(counted), buffer, failed, "retry")
      /\ UNCHANGED <<config, report>>

\* Time passes, or the peer reports: the modes may be others than announced.
ConditionsChange(p) ==
  /\ OnArfTimeout(p) \/ SampleAges(p) \/ PutPeerSINR(p)
  /\ announced' = [announced EXCEPT !.fresh = FALSE]
  /\ UNCHANGED <<buffer, active, arq, remaining, txopReceiver, air>>

-----------------------------------------------------------------------------
OpportunityInit ==
  /\ RateInit
  /\ buffer = <<>> /\ active = None
  /\ arq = [src |-> 0, station |-> 0]
  /\ remaining = 0 /\ txopReceiver = None
  /\ announced = [exchange |-> 0, head |-> FALSE, fresh |-> FALSE]
  /\ air = [type |-> "none", why |-> "other", counter |-> 0,
            pm |-> InitialPhyMode, probe |-> FALSE, exchange |-> 0,
            before |-> [pm |-> InitialPhyMode, probe |-> FALSE, promise |-> 0]]

OpportunityNext ==
  \/ \E f \in Frames, k \in 0..Len(buffer) : Arrive(f, k)
  \/ \E k \in 0..Len(buffer) : Acked(k)
  \/ \E k \in 0..(Len(buffer) + 1) : Missed(k)
  \/ \E p \in config.receivers : ConditionsChange(p)

OpportunitySpec == OpportunityInit /\ [][OpportunityNext]_opportunityVars

-----------------------------------------------------------------------------
(* Properties *)

\* The number of a transmission counts the losses of its own frame, or at
\* least those at its own receiver.  Not so with the station's counters and
\* several receivers: after losses at one, the first frame to another counts
\* as a third transmission.
CountsOwnLosses ==
  config.bianchiRetryCounter \/ Cardinality(config.receivers) = 1

\* NavCoversNext: when a frame in a transmission opportunity is followed, after
\* its acknowledgement, by the frame that was at the head of the buffer, the
\* exchange of that frame takes no longer than was announced for it, although
\* the rate is chosen anew in between (Buffer.cpp:233-243, TXOP.cpp:147-218).
\* PER may go down after a success, when it has enough results; and ARF takes
\* back a step up that it has announced, when the successes pass the threshold
\* at a third transmission, which is not compared with it (ARF.cpp:79-90).
NavCoversNext ==
  air.before.promise > 0 /\ ~UsesPer /\ CountsOwnLosses
    => air.exchange <= air.before.promise

\* RetryNotFaster: with the conditions as they were, a retransmission is not
\* faster than the transmission that failed, unless it has fewer streams, and
\* slower if that was a probe (ARF.cpp:79-84, SINR.cpp:57).
RetryNotFaster ==
  /\ \/ DataBitsPerSymbol(air.pm) <= DataBitsPerSymbol(air.before.pm)
     \/ Len(air.pm) < Len(air.before.pm)
  /\ air.before.probe /\ strategy \in {"ARF", "ARFwithMIMO"}
       => DataBitsPerSymbol(air.pm) < DataBitsPerSymbol(air.before.pm)

\* ClimbsAgain: a station that is below its highest mode can get back to it:
\* by the timer, or since the number of successes has not yet passed the
\* threshold, with which it is compared for equality (ARF.cpp:86, 116-157),
\* unless the transmission is not compared (CountsOwnLosses).
ClimbsAgain ==
  CountsOwnLosses =>
  \A p \in Peers :
    UsesArf(p) /\ Higher(p, rate[p].cur) # rate[p].cur =>
      rate[p].timer \/ rate[p].timeout \/ rate[p].successful <= rate[p].threshold

=============================================================================
