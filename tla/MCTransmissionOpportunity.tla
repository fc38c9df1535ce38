---------------------- MODULE MCTransmissionOpportunity ----------------------
(* Three schemes; two peers with two antennas each.  Every strategy for one
   peer, and two of them for both.  The peers are alike.                     *)
EXTENDS TransmissionOpportunity, TLC

CONSTANTS p, q

MCConfigurations ==
  [strategy : {"Constant", "ARF", "PER", "SINR",
               "ARFwithMIMO", "PERwithMIMO", "SINRwithMIMO"},
   bianchiRetryCounter : {FALSE}, singleReceiver : {FALSE}, receivers : {{p}, {q}}]
  \cup
  [strategy : {"ARF"},
   bianchiRetryCounter : {TRUE}, singleReceiver : {FALSE}, receivers : {{p, q}}]
  \cup
  [strategy : {"PER"},
   bianchiRetryCounter : {TRUE}, singleReceiver : {TRUE}, receivers : {{p, q}}]

MCMinSINR == <<0, 4, 8>>
MCBits == <<1, 2, 4>>
MCPeerAntennas == [x \in Peers |-> 2]
MCSymmetry == Permutations(Peers)
MCSINRs == {-1, 8}
MCFactor == << <<0>>, <<2, -6>> >>
=============================================================================
