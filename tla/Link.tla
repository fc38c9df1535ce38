-------------------------------- MODULE Link --------------------------------
(***************************************************************************)
(* What the frame exchange promises to the layers above it: every station  *)
(* hands its MSDUs down one at a time; each is delivered to the peer at    *)
(* most once and in order, and is confirmed only after it was delivered.   *)
(* The station may give up on an MSDU, delivered or not.                   *)
(***************************************************************************)
EXTENDS Naturals, Sequences

CONSTANTS Stations, MaxFrames

VARIABLES
    fate,       \* fate[s][n]: of the n-th MSDU of station s
    delivered   \* delivered[s]: the MSDUs of s its peer has got, in order

vars == <<fate, delivered>>

MSDUs == 1..MaxFrames

Init ==
    /\ fate = [s \in Stations |-> [n \in MSDUs |-> "queued"]]
    /\ delivered = [s \in Stations |-> <<>>]

Become(s, n, f) == fate' = [fate EXCEPT ![s][n] = f]

(* An MSDU whose lifetime is over when it is handed down is never sent.    *)
Accept(s, n) ==
    /\ \A k \in MSDUs : IF k < n THEN fate[s][k] \notin {"queued", "underway"}
                        ELSE fate[s][k] = "queued"
    /\ Become(s, n, "underway") \/ Become(s, n, "expired")
    /\ UNCHANGED delivered

Got(s, n) == \E i \in 1..Len(delivered[s]) : delivered[s][i] = n

Deliver(s, n) ==
    /\ fate[s][n] = "underway" /\ ~Got(s, n)
    /\ delivered' = [delivered EXCEPT ![s] = Append(@, n)]
    /\ UNCHANGED fate

Confirm(s, n) ==
    /\ fate[s][n] = "underway" /\ Got(s, n)
    /\ Become(s, n, "confirmed")
    /\ UNCHANGED delivered

GiveUp(s, n) ==
    /\ fate[s][n] = "underway"
    /\ Become(s, n, "exhausted") \/ Become(s, n, "expired")
    /\ UNCHANGED delivered

Next ==
    \E s \in Stations, n \in MSDUs :
        Accept(s, n) \/ Deliver(s, n) \/ Confirm(s, n) \/ GiveUp(s, n)

Spec == Init /\ [][Next]_vars

=============================================================================
