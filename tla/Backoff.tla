------------------------------- MODULE Backoff -------------------------------
(***************************************************************************)
(* The backoff of the distributed coordination function and the unit that  *)
(* asks it for permission (lowerMAC/timing: Backoff and DCF).              *)
(*                                                                         *)
(* Time passes in ticks; an action is one handler of the event scheduler,  *)
(* with all the calls it makes.  The units around are the environment: the *)
(* channel state notifies every change between busy and idle, the unit     *)
(* above offers a frame and asks again at any wakeup until it is taken,    *)
(* and the transmitter below accepts a frame unless it is sending.  The    *)
(* permission (DCF: sendNow) is asked for and used, or refused again, in   *)
(* one event, so it is not part of the state between events.               *)
(***************************************************************************)
EXTENDS Integers

CONSTANTS
    Slot, Aifs, Eifs,   \* slotDuration, aifsDuration, eifsDuration in ticks
    Grace,              \* delay until a busy channel stops the countdown
    CwMin, CwMax,       \* limits of the contention window, in slots
    MaxTransmissions    \* largest transmission counter the unit above uses

ASSUME TimesAssumption ==
    /\ Grace \in Nat \ {0} /\ Slot \in Nat /\ Aifs \in Nat /\ Eifs \in Nat
    /\ Grace < Slot /\ Slot < Aifs /\ Aifs < Eifs
ASSUME WindowAssumption == CwMin \in Nat /\ CwMax \in Nat /\ CwMin <= CwMax
ASSUME CounterAssumption == MaxTransmissions \in Nat \ {0}

Off   == -1     \* no timer
Lost  == -1     \* aifsStart holds an invalid time
Never == -1     \* no change to idle so far

VARIABLES
    backoffFinished, transmissionWaiting, duringAIFS, rxError,
    cw, counter, channelIsBusy,
    aifsAge,        \* ticks since aifsStart, at most Eifs, or Lost
    timer,          \* ticks until the timeout, or Off
    graces,         \* ticks until each scheduled channelBusyDelay
    want,           \* transmission counter of the frame offered, 0 for none
    ownTx,          \* the own transmitter is on
    sinceIdle,      \* history: ticks since the last change to idle
    credit,         \* history: a backoff has been counted to zero since the
                    \* last change to idle and since the last transmission
    failure         \* history: the last busy period brought a failed
                    \* reception ("due"), or may still bring it, now that it
                    \* just ended after more than the stopping delay ("open")

countdown == <<backoffFinished, duringAIFS, counter, timer>>
request   == <<transmissionWaiting, cw, want>>
channel   == <<channelIsBusy, graces, ownTx>>
history   == <<sinceIdle, credit, failure>>
vars == <<countdown, request, channel, rxError, aifsAge, history>>

Least(a, b) == IF a <= b THEN a ELSE b

(* The first countdown starts with the program.  Until the channel has     *)
(* been idle again, aifsStart is not initialized: it may hold any time,    *)
(* the present one included.                                               *)
Init ==
    /\ backoffFinished = FALSE /\ duringAIFS = TRUE
    /\ counter = 0 /\ timer = Aifs
    /\ transmissionWaiting = FALSE /\ cw = CwMin /\ want = 0
    /\ channelIsBusy = FALSE /\ graces = {} /\ ownTx = FALSE
    /\ rxError = FALSE /\ aifsAge \in {0, Lost}
    /\ sinceIdle = Never /\ credit = FALSE /\ failure = "none"

-----------------------------------------------------------------------------
(* The window doubles with every retransmission up to its maximum.         *)
Window[n \in Nat] ==
    IF n <= 1 THEN CwMin ELSE Least(2 * Window[n - 1] + 1, CwMax)

KeepFinished(ifs) ==            \* mutant: an old success is not forgotten
    /\ duringAIFS' = TRUE /\ timer' = ifs
    /\ UNCHANGED <<counter, backoffFinished>>

StartNewBackoffCountdown(ifs) ==
    /\ backoffFinished' = FALSE /\ duringAIFS' = TRUE /\ timer' = ifs
    /\ UNCHANGED counter

ChannelTurnsBusy ==
    /\ channelIsBusy' = TRUE
    /\ failure' = "none"
    /\ graces' = graces \cup {Grace}

OwnTxStart ==
    /\ ownTx' = TRUE
    /\ IF channelIsBusy THEN UNCHANGED <<channelIsBusy, graces, failure>>
       ELSE ChannelTurnsBusy

(* The frame is taken and its preamble sent: the channel is busy with it.  *)
Transmit ==
    /\ transmissionWaiting' = FALSE /\ backoffFinished' = FALSE
    /\ want' = 0 /\ credit' = FALSE
    /\ OwnTxStart

(* The request for the n-th transmission of a frame is granted at once     *)
(* when the post-backoff is over; otherwise it waits.                      *)
Granted == backoffFinished /\ ~channelIsBusy

TransmissionRequest(n) ==
    /\ cw' = Window[n]
    /\ IF Granted THEN Transmit
       ELSE /\ transmissionWaiting' = TRUE /\ want' = n
            /\ UNCHANGED <<backoffFinished, channel, credit, failure>>

Ask(n) ==
    /\ TransmissionRequest(n)
    /\ UNCHANGED <<duringAIFS, counter, timer, rxError, aifsAge, sinceIdle>>

Offer(n) == want = 0 /\ Ask(n)
Wakeup   == want # 0 /\ Ask(want)

-----------------------------------------------------------------------------
(* The countdown has arrived at n.  At zero a waiting frame gets the       *)
(* permission: it is sent, unless the transmitter was just switched on for *)
(* an immediate reply; then the frame has to ask again.                    *)
CountTo(n) ==
    /\ counter' = n
    /\ timer' = IF n = 0 THEN Off ELSE Slot
    /\ IF n # 0 THEN UNCHANGED <<backoffFinished, transmissionWaiting, want,
                                 channel, credit, failure>>
       ELSE IF ~transmissionWaiting
       THEN /\ backoffFinished' = TRUE /\ credit' = TRUE
            /\ UNCHANGED <<transmissionWaiting, want, channel, failure>>
       ELSE IF ~ownTx THEN Transmit
       ELSE UNCHANGED <<backoffFinished, transmissionWaiting, want, channel,
                        credit, failure>>

(* No transmission is pending: the window starts again.                   *)
ResetWindow == counter = 0 /\ ~transmissionWaiting

(* The interframe space is over.  Unless a countdown was frozen, a fresh   *)
(* counter is drawn from the window, the smallest if no frame waits.       *)
AifsOver ==
    /\ duringAIFS /\ duringAIFS' = FALSE
    /\ cw' = IF ResetWindow THEN CwMin ELSE cw
    /\ IF counter = 0 THEN \E n \in 0..cw' : CountTo(n)
       ELSE CountTo(counter)

SlotOver == ~duringAIFS /\ CountTo(counter - 1) /\ UNCHANGED <<duringAIFS, cw>>

OnTimeout ==
    /\ timer = 0
    /\ AifsOver \/ SlotOver
    /\ UNCHANGED <<rxError, aifsAge, sinceIdle>>

-----------------------------------------------------------------------------
OnChannelBusy ==
    /\ ~channelIsBusy
    /\ ChannelTurnsBusy
    /\ UNCHANGED <<countdown, request, ownTx, rxError, aifsAge, sinceIdle,
                   credit>>

StopAnyway ==                   \* mutant: the channel may be idle again
    /\ 0 \in graces /\ graces' = graces \ {0}
    /\ aifsAge' = Lost
    /\ timer' = Off
    /\ UNCHANGED <<backoffFinished, duringAIFS, counter, request,
                   channelIsBusy, ownTx, rxError, history>>

(* The countdown goes on for a moment, so that stations that draw the same *)
(* slot do collide.                                                        *)
ChannelBusyDelay ==
    /\ 0 \in graces /\ graces' = graces \ {0}
    /\ aifsAge' = Lost
    /\ timer' = IF channelIsBusy THEN Off ELSE timer
    /\ UNCHANGED <<backoffFinished, duringAIFS, counter, request,
                   channelIsBusy, ownTx, rxError, history>>

OnChannelIdle ==
    /\ channelIsBusy /\ ~ownTx
    /\ channelIsBusy' = FALSE
    /\ aifsAge' = 0 /\ rxError' = FALSE
    /\ StartNewBackoffCountdown(IF rxError THEN Eifs ELSE Aifs)
    /\ sinceIdle' = 0 /\ credit' = FALSE
    /\ failure' = IF failure # "due" /\ graces = {} THEN "open" ELSE failure
    /\ UNCHANGED <<request, graces, ownTx>>

NeverLate == FALSE              \* mutant: the order is not considered

(* A reception has failed.  If that comes after the notification that the  *)
(* channel is idle, the countdown restarts with the longer space: never    *)
(* when the channel is busy again already, for then the synchronization    *)
(* has signalled the error before the start that made it busy.             *)
JustIdle == ~backoffFinished /\ duringAIFS /\ aifsAge = 0

OnRxError ==
    /\ ~(channelIsBusy /\ JustIdle)
    /\ rxError' = TRUE
    /\ IF JustIdle THEN StartNewBackoffCountdown(Eifs) ELSE UNCHANGED countdown
    /\ failure' = IF channelIsBusy \/ failure = "open" THEN "due" ELSE failure
    /\ UNCHANGED <<request, channel, aifsAge, sinceIdle, credit>>

-----------------------------------------------------------------------------
(* Frames that need no backoff: replies after SIFS.                        *)
SendReply ==
    /\ ~ownTx /\ OwnTxStart
    /\ UNCHANGED <<countdown, request, rxError, aifsAge, sinceIdle, credit>>

OnTxEnd ==
    /\ ownTx /\ ownTx' = FALSE
    /\ UNCHANGED <<countdown, request, channelIsBusy, graces, rxError,
                   aifsAge, history>>

(* Time passes when nothing is due.                                        *)
Aged(age) == IF age = -1 THEN -1 ELSE Least(age + 1, Eifs)

Tick ==
    /\ timer # 0 /\ 0 \notin graces
    /\ timer' = IF timer = Off THEN Off ELSE timer - 1
    /\ graces' = {g - 1 : g \in graces}
    /\ aifsAge' = Aged(aifsAge) /\ sinceIdle' = Aged(sinceIdle)
    /\ failure' = IF failure = "open" THEN "none" ELSE failure
    /\ UNCHANGED <<backoffFinished, duringAIFS, counter, request,
                   channelIsBusy, ownTx, rxError, credit>>

Next ==
    \/ \E n \in 1..MaxTransmissions : Offer(n)
    \/ Wakeup \/ OnTimeout
    \/ OnChannelBusy \/ ChannelBusyDelay \/ OnChannelIdle \/ OnRxError
    \/ SendReply \/ OnTxEnd \/ Tick

Spec == Init /\ [][Next]_vars

(* Time goes on and the scheduler runs every event that is due.            *)
Fairness ==
    /\ WF_vars(Tick) /\ WF_vars(OnTimeout) /\ WF_vars(ChannelBusyDelay)

FairSpec == Spec /\ Fairness

-----------------------------------------------------------------------------
(* Backoff.hpp: between every change of the channel from busy to idle and  *)
(* the node's transmission a backoff is counted to zero.  A request is     *)
(* granted only if that has happened, after the space the standard asks    *)
(* for, and for one transmission only, whatever happened to the channel    *)
(* and to other frames between the expiry and the request; and the window  *)
(* of a request is the one for the number of its transmission: the windows *)
(* of other frames and the reset of the post-backoff do not leak into it.  *)
GrantIsEarned ==
    /\ Granted => credit /\ (sinceIdle = Never \/ sinceIdle >= Aifs)
    /\ transmissionWaiting => want # 0 /\ cw = Window[want]

(* After a busy period with a failed reception the permission comes not    *)
(* before EIFS, in whichever order the error and the change to idle are    *)
(* notified, if the channel was busy for longer than the stopping delay.   *)
EifsAfterError ==
    Granted /\ failure = "due" => sinceIdle = Never \/ sinceIdle >= Eifs

(* While the channel is idle the countdown runs or has finished, so that a *)
(* frame cannot be left without a timer; and once the stopping delay is    *)
(* over, a busy channel has frozen it.  The assertion of onTimeout: a      *)
(* finished countdown has no timer.                                        *)
CountdownFollowsChannel ==
    /\ ~channelIsBusy => timer # Off \/ backoffFinished
    /\ channelIsBusy /\ graces = {} => timer = Off
    /\ timer # Off => ~backoffFinished

(* A frame never waits for ever on a channel that stays idle.              *)
NoStall == []<>(channelIsBusy \/ want = 0)

=============================================================================
