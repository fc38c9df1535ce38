----------------------- MODULE FastLinkExchange_proofs -----------------------
(***************************************************************************)
(* Theorems about FastLinkExchange, for any antennas, data and modes.      *)
(*                                                                         *)
(* The inductive invariant has four parts.  Local relates the units of     *)
(* one station with what it transmits and hears: each wait of              *)
(* BlockUntilReply (Blocking) and of RTSCTSwithFLA (Requesting) has the    *)
(* frame, the reception or the timer that ends it, and an MPDU is in one   *)
(* place (Awaiting).  Flushed says that TryToSend has passed on what could *)
(* be, in particular the CTS.  Cross relates the two stations: an answer   *)
(* is under way only to one who still waits for it, which the code assumes *)
(* of its timeouts.  Informed relates what the stations know of the link:  *)
(* what one has been told is part of what the other has measured, and a    *)
(* CTS under way repeats all of it, so that the report replaces what was   *)
(* known before and both judge the link by the same factors.               *)
(*                                                                         *)
(* A handler is a function on one station, so that a lemma per handler     *)
(* says what it keeps of Local (Ready if it ends in TryToSend, lemma Try)  *)
(* and what it leaves alone; those that do no more than this are Mild, and *)
(* Mild steps keep Cross.                                                  *)
(***************************************************************************)
EXTENDS FastLinkExchange, WellFoundedInduction, TLAPS

-----------------------------------------------------------------------------
(* The inductive invariant *)

Timers == {"off", "reply", "short"}

\* The frames of a station s.
RTSs(s) == {f \in Frames : /\ f.type = "DATA" /\ f.kind = "RTS" /\ f.reply
                           /\ f.from = s /\ f.to = Peer(s)}
CTSs(s) == {f \in Frames : /\ f.type = "ACK" /\ f.kind = "CTS" /\ ~f.reply
                           /\ f.from = s /\ f.to \in {Peer(s), Foreign}
                           /\ f.cqi \in SINRs
                           /\ f.reserved = GetPhyMode(f.cqi, f.mimoFactors)}
Replies(s) == {f \in Frames : /\ f.type = "ACK" /\ f.kind = "reply" /\ ~f.reply
                              /\ f.from = s /\ f.to \in {Peer(s), Foreign}}
MPDUs(s, type) == {f \in Frames : /\ f.type = type /\ f.kind = "MPDU"
                                  /\ f.from = s /\ f.to = Peer(s)
                                  /\ f.reserved \in {0, f.phyMode}}
AfterSIFS(s) == CTSs(s) \cup Replies(s) \cup MPDUs(s, "DATA_TXOP")
AfterBackoff(s) == RTSs(s) \cup MPDUs(s, "DATA")

Macs(s) ==
  [blocked : BOOLEAN, txStatus : {"finished", "waiting", "transmitting"},
   blockTimer : Timers,
   state : {"idle", "transmitRTS", "waitForCTS", "receiveCTS", "receptionFinished"},
   timer : Timers, pendingRTS : RTSs(s) \cup {None}, pendingCTS : CTSs(s) \cup {None},
   pendingMPDU : MPDUs(s, "DATA") \cup MPDUs(s, "DATA_TXOP") \cup {None},
   nav : Stations \cup {Foreign, None},
   sifs : AfterSIFS(s) \cup {None}, dcf : AfterBackoff(s) \cup {None},
   awaits : BOOLEAN, broken : BOOLEAN]

\* A frame that BlockUntilReply blocks for.
Own(f) == f # None /\ f.type # "ACK"
IsRTS(f) == f # None /\ f.kind = "RTS"
IsMPDU(f) == f # None /\ f.kind = "MPDU"

IsCTS(f) == f # None /\ f.kind = "CTS"
IsReply(f) == f # None /\ f.kind = "reply"

\* BlockUntilReply of a station x that transmits a and is synchronized to r:
\* its status follows the frame it blocks for, and its timer is on after it,
\* but during a reception.
Blocking(x, a, r) ==
  /\ x.txStatus # "finished" => x.blocked
  /\ x.blockTimer # "off" => x.blocked /\ x.txStatus = "finished" /\ r = None
  /\ ~x.blocked => x.dcf = None /\ ~Own(x.sifs) /\ ~Own(a)
  /\ x.txStatus = "waiting" => ~Own(a) /\ (x.dcf = None <=> Own(x.sifs))
  /\ x.txStatus = "transmitting" => Own(a) /\ x.dcf = None /\ x.sifs = None
  /\ Waits(x) => /\ x.dcf = None /\ x.sifs = None /\ a = None
                 /\ r = None => x.blockTimer # "off"

\* RTSCTSwithFLA: the states in their order, each with what ends it.
Requesting(x, a, r) ==
  /\ x.pendingRTS # None => x.state = "idle" /\ x.pendingMPDU # None
  /\ x.state = "idle" => x.timer = "off"
  /\ x.state # "idle" => x.pendingMPDU # None
  /\ x.state = "transmitRTS" <=> IsRTS(x.dcf) \/ IsRTS(a)
  /\ x.state = "transmitRTS" => x.timer = "off"
  /\ x.state = "waitForCTS" => x.timer = "reply" /\ r = None
  /\ x.state = "receiveCTS" => x.timer # "short" /\ r # None
  /\ x.state = "receptionFinished" => x.timer = "short" /\ r = None
  /\ x.state \in {"waitForCTS", "receiveCTS"} => x.sifs = None
  /\ x.state \in {"waitForCTS", "receiveCTS", "receptionFinished"} =>
       x.dcf = None /\ a = None /\ ~Own(x.sifs)

\* The MPDU the ARQ waits for is in one place.
Awaiting(x, a) ==
  /\ x.pendingMPDU # None =>
       x.awaits /\ ~IsMPDU(x.sifs) /\ ~IsMPDU(x.dcf) /\ ~IsMPDU(a)
  /\ IsMPDU(x.sifs) \/ IsMPDU(x.dcf) \/ IsMPDU(a) => x.awaits

\* A station s.
Local(s, x, a, r) ==
  /\ x \in Macs(s)
  /\ a \in AfterSIFS(s) \cup AfterBackoff(s) \cup {None}
  /\ r \in {None, Peer(s), Foreign}
  /\ a # None => r = None
  /\ x.broken = FALSE
  /\ IsCTS(x.sifs) \/ IsReply(x.sifs) => a = None
  /\ Blocking(x, a, r) /\ Requesting(x, a, r) /\ Awaiting(x, a)

\* Before TryToSend, with a CTS that has just been prepared, or none.
Ready(s, x, a, r) ==
  /\ Local(s, x, a, r)
  /\ x.pendingCTS # None =>
       /\ a = None /\ x.sifs = None /\ ~Waits(x)
       /\ x.state \notin {"waitForCTS", "receiveCTS"}

\* After TryToSend.
Flushed(x) ==
  /\ x.pendingCTS = None
  /\ ~x.blocked =>
       /\ x.pendingRTS = None
       /\ x.pendingMPDU # None /\ x.state = "idle" =>
            x.pendingMPDU.type = "DATA_TXOP" /\ x.sifs # None

\* What a handler leaves alone.
SameRts(y, x) ==
  /\ y.state = x.state /\ y.timer = x.timer /\ y.pendingRTS = x.pendingRTS
  /\ y.pendingCTS = x.pendingCTS /\ y.pendingMPDU = x.pendingMPDU
SamePending(y, x) ==
  /\ y.pendingRTS = x.pendingRTS /\ y.pendingCTS = x.pendingCTS
  /\ y.pendingMPDU = x.pendingMPDU
SameBlock(y, x) ==
  y.blocked = x.blocked /\ y.txStatus = x.txStatus /\ y.blockTimer = x.blockTimer
SameBelow(y, x) == y.sifs = x.sifs /\ y.dcf = x.dcf
SameRest(y, x) ==
  y.nav = x.nav /\ y.awaits = x.awaits

\* What TryToSend may have done to x.
Sent(y, x) ==
  /\ y.blockTimer = x.blockTimer /\ y.timer = x.timer /\ SameRest(y, x)
  /\ y.broken = x.broken
  /\ \/ y.state = x.state
     \/ x.state = "idle" /\ y.state = "transmitRTS" /\ x.pendingMPDU # None
  /\ x.pendingMPDU = None => y.pendingMPDU = None
  /\ x.sifs # None => y.sifs = x.sifs
  /\ IsCTS(y.sifs) => y.sifs = x.sifs \/ y.sifs = x.pendingCTS
  /\ IsReply(y.sifs) => y.sifs = x.sifs
  /\ IsMPDU(y.sifs) => y.sifs = x.sifs \/ x.pendingMPDU # None
  /\ IsMPDU(y.dcf) => y.dcf = x.dcf \/ x.pendingMPDU # None
  /\ Waits(y) => Waits(x)

\* What every step of a station keeps in which it offers no frame, decodes none
\* and transmits none: no new answer waits below it, and its MPDU stays sent.
Mild(y, x) ==
  /\ x.sifs # None => y.sifs = x.sifs
  /\ IsCTS(y.sifs) \/ IsReply(y.sifs) => y.sifs = x.sifs
  /\ x.pendingMPDU = None /\ x.awaits =>
       /\ y.pendingMPDU = None /\ y.awaits
       /\ IsMPDU(y.sifs) => y.sifs = x.sifs
       /\ IsMPDU(y.dcf) => y.dcf = x.dcf

\* The CTS is waited for, and its timeout is not over.
Expects(x) == x.state \in {"waitForCTS", "receiveCTS"} /\ x.timer = "reply"

\* The MPDU of x is sent, and its reply not here yet.
Done(x, a) ==
  x.pendingMPDU = None /\ x.awaits /\ ~IsMPDU(x.sifs) /\ ~IsMPDU(x.dcf) /\ ~IsMPDU(a)

\* Of a station s with x in mac, a on the air and r in rx, and its peer, with y
\* in mac and b on the air: an answer is for one who still waits for it.
Cross(s, x, a, r, y, b) ==
  /\ IsCTS(y.sifs) /\ y.sifs.to = s => Expects(x)
  /\ IsReply(y.sifs) /\ y.sifs.to = s => Done(x, a)
  /\ r = Peer(s) =>
       /\ b # None
       /\ IsCTS(b) /\ b.to = s => x.state = "receiveCTS"
       /\ IsReply(b) /\ b.to = s => Done(x, a)

\* What a station s knows is i, and j what its peer knows: s has measured
\* whom it hears; it has been told nothing that its peer has not measured; and
\* a CTS that is to tell it more repeats all that s has been told.
Bases == [measured : Known, peerSINR : SINRs \cup {None}, peerFactors : Known]

Informed(s, r, y, b, i, j) ==
  /\ i \in Bases
  /\ r = Peer(s) => i.measured # Nothing
  /\ DOMAIN i.peerFactors \subseteq DOMAIN j.measured
  /\ \A c \in {y.sifs, b} : IsCTS(c) /\ c.to = s =>
       /\ DOMAIN i.peerFactors \subseteq DOMAIN c.mimoFactors
       /\ DOMAIN c.mimoFactors \subseteq DOMAIN j.measured

\* Of a station s and its peer.
Both(s, x, a, r, y, b, q, i, j) ==
  /\ Local(s, x, a, r) /\ Flushed(x) /\ Cross(s, x, a, r, y, b)
  /\ Local(Peer(s), y, b, q) /\ Flushed(y) /\ Cross(Peer(s), y, b, q, x, a)
  /\ Informed(s, r, y, b, i, j) /\ Informed(Peer(s), q, x, a, j, i)

Shape ==
  /\ DOMAIN mac = Stations /\ DOMAIN air = Stations /\ DOMAIN rx = Stations
  /\ DOMAIN sinrMIB = Stations

IInv ==
  /\ Shape
  /\ \A s \in Stations :
       Both(s, mac[s], air[s], rx[s], mac[Peer(s)], air[Peer(s)], rx[Peer(s)],
            sinrMIB[s], sinrMIB[Peer(s)])

-----------------------------------------------------------------------------
(* The two stations *)

LEMMA PeerFacts ==
    \A s \in Stations : /\ Peer(s) \in Stations /\ Peer(s) # s /\ Peer(Peer(s)) = s
                        /\ Peer(s) # Foreign /\ Peer(s) # None
                        /\ \A t \in Stations : t = s \/ t = Peer(s)
  <1> SUFFICES ASSUME NEW s \in Stations
               PROVE  /\ Peer(s) \in Stations /\ Peer(s) # s /\ Peer(Peer(s)) = s
                      /\ Peer(s) # Foreign /\ Peer(s) # None
                      /\ \A t \in Stations : t = s \/ t = Peer(s)
    OBVIOUS
  <1>1. PICK a \in Stations, b \in Stations : a # b /\ Stations = {a, b}
    BY StationsAssumption
  <1>2. Peer(a) = b /\ Peer(b) = a
    BY <1>1 DEF Peer
  <1>3. Foreign \notin Stations /\ None \notin Stations
    BY StationsAssumption, NoneAssumption
  <1> QED
    BY <1>1, <1>2, <1>3

LEMMA MaxNumSSFacts ==
    /\ MaxNumSS \in Nat /\ MaxNumSS >= 1
    /\ \A s \in Stations : MaxNumSS <= Antennas[s]
  <1>1. PICK a \in Stations, b \in Stations : a # b /\ Stations = {a, b}
    BY StationsAssumption
  <1>2. Antennas[a] \in Nat \ {0} /\ Antennas[b] \in Nat \ {0}
    BY AntennasAssumption
  <1>3. \E n \in {Antennas[s] : s \in Stations} : \A s \in Stations : n <= Antennas[s]
    <2>1. CASE Antennas[a] <= Antennas[b]
      BY <1>1, <1>2, <2>1
    <2>2. CASE Antennas[b] <= Antennas[a]
      BY <1>1, <1>2, <2>2
    <2> QED
      BY <1>2, <2>1, <2>2
  <1>4. /\ MaxNumSS \in {Antennas[s] : s \in Stations}
        /\ \A s \in Stations : MaxNumSS <= Antennas[s]
    BY <1>3 DEF MaxNumSS
  <1> QED
    BY <1>4, AntennasAssumption

-----------------------------------------------------------------------------
(* What is known of a link *)

LEMMA KnownIs ==
    ASSUME NEW t \in Known
    PROVE  \E n \in 0..MaxNumSS : t \in [1..n -> Factors]
  BY DEF Known

LEMMA NothingIsKnown ==
    /\ Nothing \in Known /\ DOMAIN Nothing = {}
    /\ \A t \in Known : DOMAIN t = {} => t = Nothing
  <1>1. DOMAIN Nothing = {} /\ 1..0 = {}
    BY DEF Nothing
  <1>2. Nothing \in [1..0 -> Factors]
    BY <1>1 DEF Nothing
  <1>3. Nothing \in Known
    BY <1>2, MaxNumSSFacts DEF Known
  <1>4. ASSUME NEW t \in Known, DOMAIN t = {} PROVE t = Nothing
    <2>1. t = [k \in {} |-> t[k]]
      BY <1>4, KnownIs
    <2>2. Nothing = [k \in {} |-> Nothing[k]]
      BY <1>1 DEF Nothing
    <2> QED
      BY <2>1, <2>2
  <1> QED
    BY <1>1, <1>3, <1>4

LEMMA TrainingIsKnown ==
    ASSUME NEW t \in Trainings
    PROVE  t \in Known /\ t # Nothing /\ DOMAIN t # {}
  <1>1. PICK n \in 1..MaxNumSS : t \in [1..n -> Factors]
    BY TrainingsAssumption
  <1>2. t \in Known
    BY <1>1, MaxNumSSFacts DEF Known
  <1>3. 1 \in DOMAIN t
    BY <1>1, MaxNumSSFacts
  <1> QED
    BY <1>2, <1>3, NothingIsKnown

LEMMA PutFactorsKnown ==
    ASSUME NEW t \in Known, NEW q \in Known
    PROVE  /\ PutFactors(t, q) \in Known
           /\ DOMAIN PutFactors(t, q) = DOMAIN t \cup DOMAIN q
           /\ DOMAIN t \subseteq DOMAIN q => PutFactors(t, q) = q
  <1> DEFINE u == PutFactors(t, q)
  <1>1. PICK n \in 0..MaxNumSS : t \in [1..n -> Factors]
    BY KnownIs
  <1>2. PICK m \in 0..MaxNumSS : q \in [1..m -> Factors]
    BY KnownIs
  <1>3. n \in Nat /\ m \in Nat
    BY MaxNumSSFacts
  <1>4. DOMAIN u = DOMAIN t \cup DOMAIN q
    BY DEF PutFactors
  <1>5. u \in [(1..n) \cup (1..m) -> Factors]
    BY <1>1, <1>2 DEF PutFactors
  <1>6. u \in Known
    <2>1. CASE n <= m
      <3>1. (1..n) \cup (1..m) = 1..m
        BY <1>3, <2>1
      <3> QED
        BY <1>2, <1>5, <3>1 DEF Known
    <2>2. CASE m <= n
      <3>1. (1..n) \cup (1..m) = 1..n
        BY <1>3, <2>2
      <3> QED
        BY <1>1, <1>5, <3>1 DEF Known
    <2> QED
      BY <1>3, <2>1, <2>2
  <1>7. ASSUME DOMAIN t \subseteq DOMAIN q PROVE u = q
    <2>1. u = [k \in DOMAIN q |-> q[k]]
      BY <1>7 DEF PutFactors
    <2>2. q = [k \in DOMAIN q |-> q[k]]
      BY <1>2
    <2> QED
      BY <2>1, <2>2
  <1> QED
    BY <1>4, <1>6, <1>7

\* No station has measured more streams than it has antennas.
LEMMA AllIsReported ==
    ASSUME NEW s \in Stations, NEW t \in Known
    PROVE  Reported(s, t) = t
  <1>1. PICK n \in 0..MaxNumSS : t \in [1..n -> Factors]
    BY KnownIs
  <1>2. n \in Nat /\ Antennas[s] \in Nat /\ n <= Antennas[s]
    BY MaxNumSSFacts, AntennasAssumption
  <1>3. {k \in 1..Antennas[s] : k \in DOMAIN t} = 1..n
    BY <1>1, <1>2
  <1>4. Reported(s, t) = [k \in 1..n |-> t[k]]
    BY <1>3 DEF Reported
  <1> QED
    BY <1>1, <1>4

LEMMA LeastNumber ==
    ASSUME NEW T \in SUBSET Nat, T # {}
    PROVE  \E n \in T : \A m \in T : n <= m
  <1> DEFINE R == {p \in Nat \X Nat : p[1] < p[2]}
  <1>1. IsWellFoundedOn(R, Nat)
    BY NatLessThanWellFounded DEF OpToRel
  <1> HIDE DEF R
  <1>2. PICK n \in T : \A m \in T : ~(<<m, n>> \in R)
    BY <1>1, WFMin
  <1>3. \A m \in T : ~(m < n)
    BY <1>2 DEF R
  <1> QED
    BY <1>3

LEMMA GreatestNumber ==
    ASSUME NEW N \in Nat, NEW T \in SUBSET (0..N), T # {}
    PROVE  \E n \in T : \A m \in T : m <= n
  <1> DEFINE R == {N - n : n \in T}
  <1>1. R \in SUBSET Nat /\ R # {}
    <2>1. ASSUME NEW n \in T PROVE N - n \in Nat
      <3>1. n \in 0..N
        OBVIOUS
      <3> QED
        BY <3>1
    <2> QED
      BY <2>1
  <1>2. PICK k \in R : \A m \in R : k <= m
    <2> HIDE DEF R
    <2> QED
      BY <1>1, LeastNumber
  <1>3. PICK n \in T : k = N - n
    BY <1>2
  <1>4. ASSUME NEW m \in T PROVE m <= n
    <2>1. N - m \in R
      OBVIOUS
    <2>2. N - n <= N - m
      BY <1>2, <1>3, <2>1
    <2> QED
      BY <2>2
  <1> QED
    BY <1>4

LEMMA PhyModeIsANumber ==
    ASSUME NEW sinr \in SINRs, NEW t \in Known
    PROVE  GetPhyMode(sinr, t) \in Nat
  <1> DEFINE streams == {n \in 1..MaxNumSS : n \in DOMAIN t}
             modes == {ModeFor[<<k, sinr, t[k]>>] : k \in streams} \cup {Slowest}
  <1>1. PICK c \in DOMAIN ModeFor : \A d \in DOMAIN ModeFor : ModeFor[d] <= ModeFor[c]
    BY ModesAssumption
  <1> DEFINE N == ModeFor[c]
  <1>2. N \in Nat /\ N >= 1
    BY <1>1, ModesAssumption
  <1>3. ASSUME NEW k \in streams
        PROVE  ModeFor[<<k, sinr, t[k]>>] \in 0..N
    <2>1. t[k] \in Factors
      BY KnownIs
    <2>2. <<k, sinr, t[k]>> \in (1..MaxNumSS) \X SINRs \X Factors
      BY <2>1
    <2>3. <<k, sinr, t[k]>> \in DOMAIN ModeFor /\ ModeFor[<<k, sinr, t[k]>>] \in Nat \ {0}
      BY <2>2, ModesAssumption
    <2> QED
      BY <1>1, <1>2, <2>3
  <1>4. modes \in SUBSET (0..N) /\ modes # {}
    <2> HIDE DEF N
    <2>1. {ModeFor[<<k, sinr, t[k]>>] : k \in streams} \subseteq 0..N
      BY <1>3
    <2>2. Slowest \in 0..N
      BY <1>2 DEF Slowest
    <2> QED
      BY <2>1, <2>2
  <1> HIDE DEF modes, N
  <1>8. 0..N \subseteq Nat
    BY <1>2
  <1>5. \E m \in modes : \A n \in modes : n <= m
    BY <1>2, <1>4, GreatestNumber
  <1>6. (CHOOSE m \in modes : \A n \in modes : n <= m) \in modes
    BY <1>5
  <1>7. GetPhyMode(sinr, t) = CHOOSE m \in modes : \A n \in modes : n <= m
    BY DEF GetPhyMode, modes
  <1> QED
    BY <1>4, <1>6, <1>7, <1>8

-----------------------------------------------------------------------------
(* Frames *)

LEMMA FrameKinds ==
    ASSUME NEW s \in Stations
    PROVE  /\ \A f \in RTSs(s) : /\ f # None /\ Own(f) /\ IsRTS(f) /\ ~IsMPDU(f)
                                 /\ ~IsCTS(f) /\ ~IsReply(f) /\ f.type = "DATA"
           /\ \A f \in CTSs(s) : /\ f # None /\ ~Own(f) /\ ~IsRTS(f) /\ ~IsMPDU(f)
                                 /\ IsCTS(f) /\ ~IsReply(f) /\ f.type = "ACK"
           /\ \A f \in Replies(s) : /\ f # None /\ ~Own(f) /\ ~IsRTS(f) /\ ~IsMPDU(f)
                                 /\ ~IsCTS(f) /\ IsReply(f) /\ f.type = "ACK"
           /\ \A type \in {"DATA", "DATA_TXOP"} : \A f \in MPDUs(s, type) :
                                 /\ f # None /\ Own(f) /\ ~IsRTS(f) /\ IsMPDU(f)
                                 /\ ~IsCTS(f) /\ ~IsReply(f) /\ f.type = type
           /\ ~Own(None) /\ ~IsRTS(None) /\ ~IsMPDU(None) /\ ~IsCTS(None) /\ ~IsReply(None)
  BY NoneAssumption DEF RTSs, CTSs, Replies, MPDUs, Own, IsRTS, IsMPDU, IsCTS, IsReply

-----------------------------------------------------------------------------
(* TryToSend *)

LEMMA SendCTS ==
    ASSUME NEW s \in Stations, NEW x, NEW a, NEW r, Ready(s, x, a, r), x.pendingCTS # None
    PROVE  LET y == GetSomethingToSend(x) IN Ready(s, y, a, r) /\ Sent(y, x) /\ y.pendingCTS = None
  <1> DEFINE f == x.pendingCTS
             y == GetSomethingToSend(x)
  <1>1. x \in Macs(s) /\ f \in CTSs(s) /\ a = None /\ x.sifs = None /\ ~Waits(x)
        /\ x.state \notin {"waitForCTS", "receiveCTS"} /\ x.txStatus # "transmitting"
    BY FrameKinds DEF Ready, Local, Blocking, Macs
  <1>2. f.type = "ACK" /\ f # None
    BY <1>1, FrameKinds
  <1>3. HasSomethingToSend(x) = f /\ IsAccepting(x, f) /\ Taken(x) = [x EXCEPT !.pendingCTS = None]
    BY <1>1, <1>2 DEF HasSomethingToSend, IsAccepting, Taken
  <1>4. y = [[x EXCEPT !.pendingCTS = None] EXCEPT !.sifs = f]
    BY <1>2, <1>3 DEF GetSomethingToSend, SendData
  <1>5. /\ y \in Macs(s) /\ y.pendingCTS = None /\ y.sifs = f /\ y.dcf = x.dcf
        /\ SameBlock(y, x) /\ SameRest(y, x) /\ y.state = x.state /\ y.timer = x.timer
        /\ y.pendingRTS = x.pendingRTS /\ y.pendingMPDU = x.pendingMPDU /\ y.broken = x.broken
    BY <1>1, <1>4, ZenonT(60) DEF Macs, SameBlock, SameRest, AfterSIFS
  <1> HIDE DEF y
  <1>6. /\ ~Own(f) /\ ~IsRTS(f) /\ ~IsMPDU(f) /\ IsCTS(f) /\ ~IsReply(f) /\ ~Own(None)
        /\ ~IsMPDU(None)
    BY <1>1, FrameKinds
  <1>7. Blocking(y, a, r)
    BY <1>1, <1>5, <1>6 DEF Ready, Local, Blocking, Waits, SameBlock
  <1>8. Requesting(y, a, r)
    BY <1>1, <1>5, <1>6 DEF Ready, Local, Requesting
  <1>9. Awaiting(y, a)
    BY <1>1, <1>5, <1>6 DEF Ready, Local, Awaiting, SameRest
  <1>10. Sent(y, x)
    BY <1>1, <1>5, <1>6 DEF Sent, SameBlock, Waits
  <1> QED
    BY <1>1, <1>5, <1>7, <1>8, <1>9, <1>10 DEF Ready, Local, y

LEMMA SendRTS ==
    ASSUME NEW s \in Stations, NEW x, NEW a, NEW r, Ready(s, x, a, r), x.pendingCTS = None,
           x.pendingRTS # None, ~x.blocked
    PROVE  LET y == GetSomethingToSend(x)
           IN  Ready(s, y, a, r) /\ Sent(y, x) /\ y.pendingCTS = None /\ Flushed(y)
  <1> DEFINE f == x.pendingRTS
             y == GetSomethingToSend(x)
  <1>1. x \in Macs(s) /\ f \in RTSs(s) /\ x.dcf = None /\ x.state = "idle" /\ x.pendingMPDU # None
        /\ x.timer = "off" /\ x.blockTimer = "off" /\ ~Own(x.sifs) /\ ~Own(a)
    BY FrameKinds DEF Ready, Local, Blocking, Requesting, Macs
  <1>2. f.type = "DATA" /\ f # None
    BY <1>1, FrameKinds
  <1>3. HasSomethingToSend(x) = f /\ IsAccepting(x, f)
        /\ Taken(x) = [x EXCEPT !.pendingRTS = None, !.state = "transmitRTS"]
    BY <1>1, <1>2 DEF HasSomethingToSend, IsAccepting, Taken
  <1>4. y = [[x EXCEPT !.pendingRTS = None, !.state = "transmitRTS"]
               EXCEPT !.blocked = TRUE, !.txStatus = "waiting", !.dcf = f]
    BY <1>2, <1>3 DEF GetSomethingToSend, SendData
  <1>5. /\ y \in Macs(s) /\ y.pendingCTS = None /\ y.sifs = x.sifs /\ y.dcf = f
        /\ SameRest(y, x) /\ y.state = "transmitRTS" /\ y.timer = x.timer
        /\ y.blocked /\ y.txStatus = "waiting" /\ y.blockTimer = x.blockTimer
        /\ y.pendingRTS = None /\ y.pendingMPDU = x.pendingMPDU /\ y.broken = x.broken
    BY <1>1, <1>4 DEF Macs, SameRest, AfterBackoff
  <1> HIDE DEF y
  <1>6. Own(f) /\ IsRTS(f) /\ ~IsMPDU(f) /\ ~IsCTS(f) /\ ~IsReply(f) /\ f # None
    BY <1>1, FrameKinds
  <1>7. Blocking(y, a, r)
    BY <1>1, <1>5, <1>6 DEF Ready, Local, Blocking, Waits
  <1>8. Requesting(y, a, r)
    BY <1>1, <1>5, <1>6 DEF Ready, Local, Requesting
  <1>9. Awaiting(y, a)
    BY <1>1, <1>5, <1>6 DEF Ready, Local, Awaiting, SameRest
  <1>10. Sent(y, x) /\ Flushed(y)
    BY <1>1, <1>5, <1>6, FrameKinds DEF Sent, SameBlock, Waits, Flushed
  <1> QED
    BY <1>1, <1>5, <1>7, <1>8, <1>9, <1>10 DEF Ready, Local, y

LEMMA SendMPDU ==
    ASSUME NEW s \in Stations, NEW x, NEW a, NEW r, Ready(s, x, a, r), x.pendingCTS = None,
           x.pendingRTS = None, x.state = "idle", x.pendingMPDU # None,
           IsAccepting(x, x.pendingMPDU)
    PROVE  LET y == GetSomethingToSend(x)
           IN  Ready(s, y, a, r) /\ Sent(y, x) /\ y.pendingCTS = None /\ Flushed(y)
  <1> DEFINE f == x.pendingMPDU
             y == GetSomethingToSend(x)
  <1>1. x \in Macs(s) /\ f \in MPDUs(s, "DATA") \cup MPDUs(s, "DATA_TXOP")
    BY DEF Ready, Local, Macs
  <1>2. f.type \in {"DATA", "DATA_TXOP"} /\ f # None /\ Own(f) /\ ~IsRTS(f) /\ IsMPDU(f)
        /\ ~IsCTS(f) /\ ~IsReply(f)
        /\ (f.type = "DATA" => f \in AfterBackoff(s))
        /\ (f.type = "DATA_TXOP" => f \in AfterSIFS(s))
    BY <1>1, FrameKinds DEF AfterBackoff, AfterSIFS
  <1>3. ~x.blocked /\ x.dcf = None /\ (f.type = "DATA_TXOP" => x.sifs = None)
        /\ ~Own(x.sifs) /\ ~Own(a) /\ x.blockTimer = "off" /\ x.timer = "off"
    BY <1>2 DEF IsAccepting, Ready, Local, Blocking, Requesting
  <1>4. HasSomethingToSend(x) = f /\ Taken(x) = [x EXCEPT !.pendingMPDU = None]
    BY DEF HasSomethingToSend, Taken
  <1>5. y = IF f.type = "DATA"
            THEN [[x EXCEPT !.pendingMPDU = None]
                    EXCEPT !.blocked = TRUE, !.txStatus = "waiting", !.dcf = f]
            ELSE [[x EXCEPT !.pendingMPDU = None]
                    EXCEPT !.blocked = TRUE, !.txStatus = "waiting", !.sifs = f]
    BY <1>2, <1>4 DEF GetSomethingToSend, SendData
  <1>6. /\ y \in Macs(s) /\ y.pendingCTS = None
        /\ y.sifs = (IF f.type = "DATA" THEN x.sifs ELSE f)
        /\ y.dcf = (IF f.type = "DATA" THEN f ELSE None)
        /\ SameRest(y, x) /\ y.state = "idle" /\ y.timer = x.timer
        /\ y.blocked /\ y.txStatus = "waiting" /\ y.blockTimer = x.blockTimer
        /\ y.pendingRTS = None /\ y.pendingMPDU = None /\ y.broken = x.broken
    <2>1. CASE f.type = "DATA"
      BY <1>1, <1>2, <1>3, <1>5, <2>1, ZenonT(60) DEF Macs, SameRest
    <2>2. CASE f.type # "DATA"
      BY <1>1, <1>2, <1>3, <1>5, <2>2, ZenonT(60) DEF Macs, SameRest
    <2> QED
      BY <2>1, <2>2
  <1> HIDE DEF y
  <1>7. Blocking(y, a, r)
    BY <1>2, <1>3, <1>6, FrameKinds DEF Ready, Local, Blocking, Waits
  <1>8. Requesting(y, a, r)
    BY <1>2, <1>3, <1>6, FrameKinds DEF Ready, Local, Requesting
  <1>9. Awaiting(y, a)
    BY <1>2, <1>6, FrameKinds DEF Ready, Local, Awaiting, SameRest
  <1>10. Sent(y, x) /\ Flushed(y)
    BY <1>2, <1>3, <1>6, FrameKinds DEF Sent, Waits, Flushed
  <1>11. IsCTS(y.sifs) \/ IsReply(y.sifs) => a = None
    BY <1>2, <1>6 DEF Ready, Local
  <1> QED
    BY <1>2, <1>6, <1>7, <1>8, <1>9, <1>10, <1>11 DEF Ready, Local, y

LEMMA Get ==
    ASSUME NEW s \in Stations, NEW x, NEW a, NEW r, Ready(s, x, a, r)
    PROVE  LET y == GetSomethingToSend(x)
           IN  /\ Ready(s, y, a, r) /\ Sent(y, x) /\ y.pendingCTS = None
               /\ x.pendingCTS = None => Flushed(y)
  <1>1. CASE x.pendingCTS # None
    BY <1>1, SendCTS
  <1>2. CASE x.pendingCTS = None /\ x.pendingRTS # None /\ ~x.blocked
    BY <1>2, SendRTS
  <1>3. CASE /\ x.pendingCTS = None /\ x.pendingRTS = None /\ x.state = "idle"
             /\ x.pendingMPDU # None /\ IsAccepting(x, x.pendingMPDU)
    BY <1>3, SendMPDU
  <1>4. CASE /\ x.pendingCTS = None /\ ~(x.pendingRTS # None /\ ~x.blocked)
             /\ ~(/\ x.pendingRTS = None /\ x.state = "idle"
                  /\ x.pendingMPDU # None /\ IsAccepting(x, x.pendingMPDU))
    <2>1. x \in Macs(s)
      BY DEF Ready, Local
    <2>2. x.pendingRTS # None => x.pendingRTS.type = "DATA"
      BY <2>1, FrameKinds DEF Macs
    <2>3. x.pendingMPDU # None => x.pendingMPDU.type \in {"DATA", "DATA_TXOP"}
      BY <2>1, FrameKinds DEF Macs
    <2>4. GetSomethingToSend(x) = x
      BY <1>4, <2>2, <2>3 DEF GetSomethingToSend, HasSomethingToSend, IsAccepting
    <2>5. ~x.blocked => x.dcf = None
      BY DEF Ready, Local, Blocking
    <2>6. Flushed(x)
      BY <1>4, <2>3, <2>5 DEF Flushed, IsAccepting
    <2>7. Sent(x, x)
      BY DEF Sent, SameRest
    <2> QED
      BY <1>4, <2>4, <2>6, <2>7
  <1> QED
    BY <1>1, <1>2, <1>3, <1>4

LEMMA Try ==
    ASSUME NEW s \in Stations, NEW x, NEW a, NEW r, Ready(s, x, a, r)
    PROVE  LET y == TryToSend(x)
           IN  Local(s, y, a, r) /\ Flushed(y) /\ Sent(y, x)
  <1> DEFINE z == GetSomethingToSend(x)
             y == GetSomethingToSend(z)
  <1>1. Ready(s, z, a, r) /\ Sent(z, x) /\ z.pendingCTS = None
    BY Get
  <1> HIDE DEF z
  <1>2. Ready(s, y, a, r) /\ Sent(y, z) /\ Flushed(y)
    BY <1>1, Get
  <1> HIDE DEF y
  <1>3. Sent(y, x)
    <2>1. x.pendingCTS # None => x.sifs = None
      BY DEF Ready
    <2> QED
      BY <1>1, <1>2, <2>1, FrameKinds DEF Sent, SameRest
  <1> QED
    BY <1>2, <1>3 DEF Ready, TryToSend, y, z

\* Nothing more can be sent.
LEMMA FlushedIsSettled ==
    ASSUME NEW s \in Stations, NEW x, NEW a, NEW r, Local(s, x, a, r), Flushed(x)
    PROVE  TryToSend(x) = x
  <1>1. x \in Macs(s) /\ (x.pendingRTS # None => x.state = "idle" /\ x.pendingMPDU # None)
    BY DEF Local, Requesting
  <1>2. x.pendingRTS # None => x.pendingRTS.type = "DATA"
    BY <1>1, FrameKinds DEF Macs
  <1>3. x.pendingMPDU # None => x.pendingMPDU.type \in {"DATA", "DATA_TXOP"}
    BY <1>1, FrameKinds DEF Macs
  <1>4. GetSomethingToSend(x) = x
    BY <1>1, <1>2, <1>3 DEF GetSomethingToSend, HasSomethingToSend, IsAccepting, Flushed
  <1> QED
    BY <1>4 DEF TryToSend

LEMMA SentIsMild ==
    ASSUME NEW x, NEW y, Sent(y, x), x.pendingCTS = None
    PROVE  Mild(y, x)
  BY DEF Sent, Mild, SameRest, IsCTS

-----------------------------------------------------------------------------
(* The start of a reception *)

LEMMA RtsOnRxStartFields ==
    ASSUME NEW s, NEW x \in Macs(s),
           x.state = "waitForCTS" => x.timer # "off" /\ x.pendingMPDU # None
    PROVE  LET y == RtsOnRxStart(x) IN
           /\ y \in Macs(s) /\ SamePending(y, x) /\ SameBlock(y, x) /\ SameBelow(y, x)
           /\ SameRest(y, x) /\ y.broken = x.broken
           /\ y.state = IF x.state = "waitForCTS" THEN "receiveCTS" ELSE x.state
           /\ y.timer = x.timer
  <1>1. CASE x.state = "waitForCTS"
    <2>1. RtsOnRxStart(x) = [x EXCEPT !.broken = x.broken, !.state = "receiveCTS"]
      BY <1>1 DEF RtsOnRxStart, Assure, Macs
    <2> QED
      BY <1>1, <2>1, ZenonT(60) DEF Macs, SamePending, SameBlock, SameBelow, SameRest
  <1>2. CASE x.state # "waitForCTS"
    BY <1>2 DEF RtsOnRxStart, SamePending, SameBlock, SameBelow, SameRest
  <1> QED
    BY <1>1, <1>2

LEMMA BlockOnRxStartFields ==
    ASSUME NEW s, NEW x \in Macs(s)
    PROVE  LET y == BlockOnRxStart(x) IN
           /\ y \in Macs(s) /\ SameRts(y, x) /\ SameBelow(y, x) /\ SameRest(y, x)
           /\ y.blocked = x.blocked /\ y.txStatus = x.txStatus /\ y.broken = x.broken
           /\ y.blockTimer = IF Waits(x) THEN "off" ELSE x.blockTimer
  <1>1. CASE Waits(x)
    BY <1>1 DEF BlockOnRxStart, Macs, Timers, SameRts, SameBelow, SameRest
  <1>2. CASE ~Waits(x)
    BY <1>2 DEF BlockOnRxStart, SameRts, SameBelow, SameRest
  <1> QED
    BY <1>1, <1>2

LEMMA RxStart ==
    ASSUME NEW s \in Stations, NEW x, NEW q \in {Peer(s), Foreign},
           Local(s, x, None, None), Flushed(x), ~Short(x)
    PROVE  LET y == OnRxStart(x) IN
           /\ Local(s, y, None, q) /\ Flushed(y) /\ Mild(y, x)
           /\ Expects(x) => y.state = "receiveCTS" /\ y.timer = "reply"
  <1> DEFINE z == RtsOnRxStart(x)
             y == BlockOnRxStart(z)
  <1>1. x \in Macs(s)
    BY DEF Local
  <1>2. /\ z \in Macs(s) /\ SamePending(z, x) /\ SameBlock(z, x) /\ SameBelow(z, x)
        /\ SameRest(z, x) /\ z.broken = x.broken
        /\ z.state = IF x.state = "waitForCTS" THEN "receiveCTS" ELSE x.state
        /\ z.timer = x.timer
    <2>1. x.state = "waitForCTS" => x.timer # "off" /\ x.pendingMPDU # None
      BY DEF Local, Requesting
    <2> QED
      BY <1>1, <2>1, RtsOnRxStartFields
  <1> HIDE DEF z
  <1>3. /\ y \in Macs(s) /\ SameRts(y, z) /\ SameBelow(y, z) /\ SameRest(y, z)
        /\ y.blocked = z.blocked /\ y.txStatus = z.txStatus /\ y.broken = z.broken
        /\ y.blockTimer = IF Waits(z) THEN "off" ELSE z.blockTimer
    BY <1>2, BlockOnRxStartFields
  <1> HIDE DEF y
  <1>4. q # None
    BY PeerFacts, NoneAssumption
  <1>5. /\ SamePending(y, x) /\ SameBelow(y, x) /\ SameRest(y, x) /\ y.timer = x.timer
        /\ y.state = (IF x.state = "waitForCTS" THEN "receiveCTS" ELSE x.state)
        /\ y.blocked = x.blocked /\ y.txStatus = x.txStatus /\ y.broken = x.broken
        /\ y.blockTimer = IF Waits(x) THEN "off" ELSE x.blockTimer
    BY <1>2, <1>3 DEF SamePending, SameBlock, SameBelow, SameRest, SameRts, Waits
  <1>6. Blocking(y, None, q)
    BY <1>4, <1>5 DEF Local, Blocking, Waits, SameBelow
  <1>7. Requesting(y, None, q)
    BY <1>4, <1>5 DEF Local, Requesting, Short, SamePending, SameBelow
  <1>8. Awaiting(y, None)
    BY <1>5 DEF Local, Awaiting, SamePending, SameBelow, SameRest
  <1>9. Flushed(y) /\ Mild(y, x)
    BY <1>5 DEF Flushed, Mild, SamePending, SameBelow, SameRest
  <1>10. Expects(x) => y.state = "receiveCTS" /\ y.timer = "reply"
    BY <1>5 DEF Expects
  <1>11. Local(s, y, None, q)
    BY <1>3, <1>5, <1>6, <1>7, <1>8 DEF Local, SameBelow
  <1> QED
    BY <1>9, <1>10, <1>11 DEF OnRxStart, y, z

-----------------------------------------------------------------------------
(* The end of a reception *)

LEMMA RtsOnRxEndFields ==
    ASSUME NEW s, NEW x \in Macs(s), x.state = "receiveCTS" => x.pendingMPDU # None
    PROVE  LET y == RtsOnRxEnd(x) IN
           /\ y \in Macs(s) /\ SamePending(y, x) /\ SameBlock(y, x) /\ SameBelow(y, x)
           /\ SameRest(y, x) /\ y.broken = x.broken
           /\ y.state = IF x.state = "receiveCTS" THEN "receptionFinished" ELSE x.state
           /\ y.timer = IF x.state = "receiveCTS" THEN "short" ELSE x.timer
  <1>1. CASE x.state = "receiveCTS"
    <2>1. RtsOnRxEnd(x) = [x EXCEPT !.broken = x.broken, !.state = "receptionFinished",
                                    !.timer = "short"]
      BY <1>1 DEF RtsOnRxEnd, Assure, Macs
    <2> QED
      BY <1>1, <2>1, ZenonT(60) DEF Macs, Timers, SamePending, SameBlock, SameBelow, SameRest
  <1>2. CASE x.state # "receiveCTS"
    BY <1>2 DEF RtsOnRxEnd, SamePending, SameBlock, SameBelow, SameRest
  <1> QED
    BY <1>1, <1>2

LEMMA BlockOnRxEndFields ==
    ASSUME NEW s, NEW x \in Macs(s), Waits(x) => x.blockTimer = "off"
    PROVE  LET y == BlockOnRxEnd(x) IN
           /\ y \in Macs(s) /\ SameRts(y, x) /\ SameBelow(y, x) /\ SameRest(y, x)
           /\ y.blocked = x.blocked /\ y.txStatus = x.txStatus /\ y.broken = x.broken
           /\ y.blockTimer = IF Waits(x) THEN "short" ELSE x.blockTimer
  <1>1. CASE Waits(x)
    <2>1. BlockOnRxEnd(x) = [x EXCEPT !.broken = x.broken, !.blockTimer = "short"]
      BY <1>1 DEF BlockOnRxEnd, Assure, Macs
    <2> QED
      BY <1>1, <2>1, ZenonT(60) DEF Macs, Timers, SameRts, SameBelow, SameRest
  <1>2. CASE ~Waits(x)
    BY <1>2 DEF BlockOnRxEnd, SameRts, SameBelow, SameRest
  <1> QED
    BY <1>1, <1>2

LEMMA RxEnd ==
    ASSUME NEW s \in Stations, NEW x, NEW r, r # None,
           Local(s, x, None, r), Flushed(x)
    PROVE  LET y == OnRxEnd(x) IN
           /\ Local(s, y, None, None) /\ Flushed(y)
           /\ SamePending(y, x) /\ SameBelow(y, x) /\ SameRest(y, x)
           /\ y.state \notin {"waitForCTS", "receiveCTS"}
           /\ x.state = "receiveCTS" => y.state = "receptionFinished"
  <1> DEFINE z == RtsOnRxEnd(x)
             y == BlockOnRxEnd(z)
  <1>1. x \in Macs(s)
    BY DEF Local
  <1>2. /\ z \in Macs(s) /\ SamePending(z, x) /\ SameBlock(z, x) /\ SameBelow(z, x)
        /\ SameRest(z, x) /\ z.broken = x.broken
        /\ z.state = (IF x.state = "receiveCTS" THEN "receptionFinished" ELSE x.state)
        /\ z.timer = IF x.state = "receiveCTS" THEN "short" ELSE x.timer
    <2>1. x.state = "receiveCTS" => x.pendingMPDU # None
      BY DEF Local, Requesting
    <2> QED
      BY <1>1, <2>1, RtsOnRxEndFields
  <1> HIDE DEF z
  <1>3. Waits(z) <=> Waits(x)
    BY <1>2 DEF SameBlock, Waits
  <1>4. x.blockTimer = "off"
    BY DEF Local, Blocking
  <1>5. /\ y \in Macs(s) /\ SameRts(y, z) /\ SameBelow(y, z) /\ SameRest(y, z)
        /\ y.blocked = z.blocked /\ y.txStatus = z.txStatus /\ y.broken = z.broken
        /\ y.blockTimer = IF Waits(z) THEN "short" ELSE z.blockTimer
    BY <1>2, <1>4, BlockOnRxEndFields DEF SameBlock
  <1> HIDE DEF y
  <1>6. /\ SamePending(y, x) /\ SameBelow(y, x) /\ SameRest(y, x)
        /\ y.timer = (IF x.state = "receiveCTS" THEN "short" ELSE x.timer)
        /\ y.state = (IF x.state = "receiveCTS" THEN "receptionFinished" ELSE x.state)
        /\ y.blocked = x.blocked /\ y.txStatus = x.txStatus /\ y.broken = x.broken
        /\ y.blockTimer = IF Waits(x) THEN "short" ELSE "off"
    BY <1>2, <1>3, <1>4, <1>5 DEF SamePending, SameBlock, SameBelow, SameRest, SameRts
  <1>7. Blocking(y, None, None)
    BY <1>6 DEF Local, Blocking, Waits, SameBelow
  <1>8. Requesting(y, None, None)
    BY <1>6 DEF Local, Requesting, SamePending, SameBelow
  <1>9. Awaiting(y, None)
    BY <1>6 DEF Local, Awaiting, SamePending, SameBelow, SameRest
  <1>10. Flushed(y)
    BY <1>6 DEF Flushed, SamePending, SameBelow
  <1>11. x.state # "waitForCTS"
    BY DEF Local, Requesting
  <1>12. Local(s, y, None, None)
    BY <1>5, <1>6, <1>7, <1>8, <1>9 DEF Local, SameBelow
  <1> QED
    BY <1>6, <1>10, <1>11, <1>12 DEF OnRxEnd, y, z

LEMMA RxEndOfNothing ==
    ASSUME NEW s \in Stations, NEW x, Local(s, x, None, None), ~Waits(x)
    PROVE  OnRxEnd(x) = x
  <1>1. x.state # "receiveCTS"
    BY DEF Local, Requesting
  <1> QED
    BY <1>1 DEF OnRxEnd, RtsOnRxEnd, BlockOnRxEnd

-----------------------------------------------------------------------------
(* Giving up, and the end of a block *)

GiveUp(x) == [x EXCEPT !.timer = "off", !.state = "idle", !.pendingMPDU = None,
                       !.awaits = FALSE]

GivesUp(x) == x.state \in {"waitForCTS", "receiveCTS", "receptionFinished"}

LEMMA GiveUpFields ==
    ASSUME NEW s, NEW x \in Macs(s)
    PROVE  LET y == GiveUp(x) IN
           /\ y \in Macs(s) /\ SameBlock(y, x) /\ SameBelow(y, x)
           /\ y.nav = x.nav /\ y.broken = x.broken
           /\ y.pendingRTS = x.pendingRTS /\ y.pendingCTS = x.pendingCTS
           /\ y.pendingMPDU = None /\ y.state = "idle" /\ y.timer = "off" /\ y.awaits = FALSE
  BY DEF GiveUp, Macs, Timers, SameBlock, SameBelow

LEMMA GiveUpIsReady ==
    ASSUME NEW s \in Stations, NEW x, NEW a, NEW r, Local(s, x, a, r), GivesUp(x),
           x.pendingCTS = None
    PROVE  Ready(s, GiveUp(x), a, r)
  <1> DEFINE y == GiveUp(x)
  <1>1. /\ y \in Macs(s) /\ SameBlock(y, x) /\ SameBelow(y, x)
        /\ y.nav = x.nav /\ y.broken = x.broken
        /\ y.pendingRTS = x.pendingRTS /\ y.pendingCTS = x.pendingCTS
        /\ y.pendingMPDU = None /\ y.state = "idle" /\ y.timer = "off" /\ y.awaits = FALSE
    BY GiveUpFields DEF Local
  <1> HIDE DEF y
  <1>2. x.pendingRTS = None /\ x.pendingMPDU # None
    BY DEF GivesUp, Local, Requesting
  <1>3. Blocking(y, a, r)
    BY <1>1 DEF Local, Blocking, Waits, SameBlock, SameBelow
  <1>4. Requesting(y, a, r)
    BY <1>1, <1>2 DEF Local, GivesUp, Requesting, SameBelow
  <1>5. Awaiting(y, a)
    BY <1>1, <1>2 DEF Local, Awaiting, SameBelow
  <1> QED
    BY <1>1, <1>3, <1>4, <1>5 DEF Local, Ready, SameBelow, y

Free(x) == [x EXCEPT !.blocked = FALSE, !.blockTimer = "off"]

LEMMA FreeIsReady ==
    ASSUME NEW s \in Stations, NEW x \in Macs(s), NEW r, x.broken = FALSE, Waits(x),
           Blocking(x, None, r), Requesting(x, None, None), Awaiting(x, None), x.pendingCTS = None
    PROVE  LET y == Free(x) IN
           /\ Ready(s, y, None, None) /\ ~Waits(y)
           /\ SameRts(y, x) /\ SameBelow(y, x) /\ SameRest(y, x) /\ y.broken = x.broken
  <1> DEFINE y == Free(x)
  <1>1. /\ y \in Macs(s) /\ SameRts(y, x) /\ SameBelow(y, x) /\ SameRest(y, x)
        /\ y.broken = x.broken /\ ~y.blocked /\ y.blockTimer = "off" /\ y.txStatus = x.txStatus
    BY ZenonT(60) DEF Free, Macs, Timers, SameRts, SameBelow, SameRest
  <1> HIDE DEF y
  <1>2. Blocking(y, None, None) /\ ~Waits(y)
    <2>0. x.blocked \in BOOLEAN
      BY DEF Macs
    <2>1. y.sifs = None /\ y.dcf = None /\ y.txStatus = "finished" /\ ~Own(None)
      BY <1>1, <2>0, FrameKinds DEF Blocking, Waits, SameBelow
    <2> QED
      BY <1>1, <2>1 DEF Blocking, Waits
  <1>3. Requesting(y, None, None)
    BY <1>1 DEF Requesting, SameRts, SameBelow
  <1>4. Awaiting(y, None)
    BY <1>1 DEF Awaiting, SameRts, SameBelow, SameRest
  <1> QED
    BY <1>1, <1>2, <1>3, <1>4 DEF Local, Ready, SameRts, y

LEMMA Unblocks ==
    ASSUME NEW s \in Stations, NEW x \in Macs(s), NEW r, x.broken = FALSE, Waits(x),
           Blocking(x, None, r), Requesting(x, None, None), Awaiting(x, None), x.pendingCTS = None
    PROVE  LET y == Unblock(x) IN
           /\ Local(s, y, None, None) /\ Flushed(y) /\ Mild(y, x) /\ ~Waits(y)
           /\ y.timer = x.timer /\ y.blockTimer = "off"
           /\ x.state # "idle" => y.state = x.state /\ y.timer = x.timer
  <1> DEFINE z == Free(x)
             y == TryToSend(z)
  <1>1. /\ Ready(s, z, None, None) /\ ~Waits(z)
        /\ SameRts(z, x) /\ SameBelow(z, x) /\ SameRest(z, x) /\ z.broken = x.broken
    BY FreeIsReady
  <1>0. z.blockTimer = "off"
    BY DEF Free, Macs
  <1> HIDE DEF z
  <1>2. Local(s, y, None, None) /\ Flushed(y) /\ Sent(y, z)
    BY <1>1, Try
  <1> HIDE DEF y
  <1>3. Mild(y, z)
    BY <1>1, <1>2, SentIsMild DEF SameRts
  <1>4. Mild(y, x)
    BY <1>1, <1>3 DEF Mild, SameRts, SameBelow, SameRest
  <1>5. /\ ~Waits(y) /\ y.timer = x.timer /\ y.blockTimer = "off"
        /\ x.state # "idle" => y.state = x.state /\ y.timer = x.timer
    BY <1>0, <1>1, <1>2 DEF Sent, SameRts
  <1> QED
    BY <1>2, <1>4, <1>5 DEF Unblock, Free, y, z

LEMMA LocalUnblocks ==
    ASSUME NEW s \in Stations, NEW x, NEW a, NEW r, Local(s, x, a, r), x.blockTimer # "off",
           Flushed(x)
    PROVE  LET y == BlockOnTimeout(x) IN
           /\ Local(s, y, a, r) /\ Flushed(y) /\ Mild(y, x)
           /\ x.state # "idle" => y.state = x.state /\ y.timer = x.timer
  <1>0. x.blocked \in BOOLEAN
    BY DEF Local, Macs
  <1>1. Waits(x) /\ a = None /\ r = None
    BY <1>0 DEF Local, Blocking, Waits
  <1>2. x \in Macs(s) /\ x.broken = FALSE
    BY DEF Local
  <1>3. Assure(x, x.blocked /\ x.txStatus = "finished") = x
    <2>1. Assure(x, x.blocked /\ x.txStatus = "finished") = [x EXCEPT !.broken = x.broken]
      BY <1>1, <1>2 DEF Assure, Waits, Macs
    <2> QED
      BY <1>2, <2>1 DEF Macs
  <1>4. BlockOnTimeout(x) = Unblock(x)
    BY <1>3 DEF BlockOnTimeout
  <1>5. /\ Blocking(x, None, None) /\ Requesting(x, None, None) /\ Awaiting(x, None)
        /\ x.pendingCTS = None
    BY <1>1 DEF Local, Flushed
  <1> QED
    BY <1>1, <1>2, <1>4, <1>5, Unblocks

\* The timeout of RTSCTSwithFLA, or a failed reception after it.
LEMMA RtsTimeout ==
    ASSUME NEW s \in Stations, NEW x, NEW a, NEW r, Local(s, x, a, r), x.timer # "off",
           Flushed(x)
    PROVE  LET y == RtsOnTimeout(x) IN
           /\ Local(s, y, a, r) /\ Flushed(y) /\ Mild(y, x)
           /\ x.state = "receiveCTS" => y.state = "receiveCTS"
  <1> DEFINE y == RtsOnTimeout(x)
  <1>1. /\ x \in Macs(s) /\ x.broken = FALSE /\ GivesUp(x)
        /\ x.pendingMPDU # None /\ x.pendingCTS = None
    BY DEF Local, Requesting, GivesUp, Macs, Flushed
  <1>2. CASE x.state = "receiveCTS"
    <2>1. y = [x EXCEPT !.timer = "off"]
      BY <1>2 DEF RtsOnTimeout
    <2>2. /\ y \in Macs(s) /\ SamePending(y, x) /\ SameBlock(y, x) /\ SameBelow(y, x)
          /\ SameRest(y, x) /\ y.broken = x.broken /\ y.state = x.state /\ y.timer = "off"
      BY <1>1, <2>1 DEF Macs, Timers, SamePending, SameBlock, SameBelow, SameRest
    <2> HIDE DEF y
    <2>3. Blocking(y, a, r)
      BY <2>2 DEF Local, Blocking, Waits, SameBlock, SameBelow
    <2>4. Requesting(y, a, r)
      BY <1>2, <2>2 DEF Local, Requesting, SamePending, SameBelow
    <2>5. Awaiting(y, a)
      BY <2>2 DEF Local, Awaiting, SamePending, SameBelow, SameRest
    <2>6. Flushed(y) /\ Mild(y, x)
      BY <1>2, <2>2 DEF Flushed, Mild, SamePending, SameBlock, SameBelow, SameRest
    <2>7. Local(s, y, a, r)
      BY <2>2, <2>3, <2>4, <2>5 DEF Local, SameBelow
    <2> QED
      BY <1>2, <2>2, <2>6, <2>7 DEF y
  <1>3. CASE x.state # "receiveCTS"
    <2> DEFINE z == GiveUp(x)
               w == TryToSend(z)
    <2>1. [Assure(x, x.state # "idle" /\ x.pendingMPDU # None)
             EXCEPT !.timer = "off", !.state = "idle", !.pendingMPDU = None, !.awaits = FALSE]
          = GiveUp(x)
      <3>1. Assure(x, x.state # "idle" /\ x.pendingMPDU # None) = [x EXCEPT !.broken = x.broken]
        BY <1>1 DEF Assure, GivesUp, Macs
      <3>2. [x EXCEPT !.broken = x.broken] = x
        BY <1>1 DEF Macs
      <3> QED
        BY <3>1, <3>2 DEF GiveUp
    <2>2. y = w
      BY <1>3, <2>1 DEF RtsOnTimeout
    <2>3. Ready(s, z, a, r)
      BY <1>1, GiveUpIsReady
    <2>4. /\ z.pendingCTS = None /\ SameBelow(z, x)
      BY <1>1, GiveUpFields
    <2> HIDE DEF z
    <2>5. Local(s, w, a, r) /\ Flushed(w) /\ Sent(w, z)
      BY <2>3, Try
    <2> HIDE DEF w
    <2>6. Mild(w, z)
      BY <2>4, <2>5, SentIsMild
    <2>7. Mild(w, x)
      BY <1>1, <2>4, <2>6 DEF Mild, SameBelow
    <2> QED
      BY <1>3, <2>2, <2>5, <2>7
  <1> QED
    BY <1>2, <1>3

LEMMA ErrorOfCTS ==
    ASSUME NEW s \in Stations, NEW x, NEW r, Local(s, x, None, r), Flushed(x),
           x.state = "receiveCTS", x.timer # "off"
    PROVE  LET z == RtsOnRxError(x) IN
           /\ z \in Macs(s) /\ z.broken = FALSE /\ z.pendingCTS = None
           /\ Blocking(z, None, r) /\ Requesting(z, None, None) /\ Awaiting(z, None)
           /\ Flushed(z) /\ Mild(z, x) /\ z.state = "waitForCTS" /\ z.timer = x.timer
           /\ z.blockTimer = x.blockTimer
  <1> DEFINE z == RtsOnRxError(x)
  <1>1. x \in Macs(s) /\ x.broken = FALSE
    BY DEF Local
  <1>2. z = [x EXCEPT !.state = "waitForCTS"]
    BY DEF RtsOnRxError
  <1>3. /\ z \in Macs(s) /\ SamePending(z, x) /\ SameBlock(z, x) /\ SameBelow(z, x)
        /\ SameRest(z, x) /\ z.broken = x.broken /\ z.state = "waitForCTS" /\ z.timer = x.timer
    BY <1>1, <1>2 DEF Macs, SamePending, SameBlock, SameBelow, SameRest
  <1> HIDE DEF z
  <1>4. x.timer = "reply"
    BY <1>1 DEF Local, Requesting, Macs, Timers
  <1>5. Blocking(z, None, r)
    BY <1>3 DEF Local, Blocking, Waits, SameBlock, SameBelow
  <1>6. Requesting(z, None, None)
    BY <1>3, <1>4 DEF Local, Requesting, SamePending, SameBelow
  <1>7. Awaiting(z, None)
    BY <1>3 DEF Local, Awaiting, SamePending, SameBelow, SameRest
  <1>8. Flushed(z) /\ Mild(z, x)
    BY <1>3 DEF Flushed, Mild, SamePending, SameBlock, SameBelow, SameRest
  <1>9. z.blockTimer = x.blockTimer
    BY <1>3 DEF SameBlock
  <1> QED
    BY <1>1, <1>3, <1>5, <1>6, <1>7, <1>8, <1>9 DEF Flushed, z

\* What a failed reception does in RTSCTSwithFLA; BlockUntilReply comes next.
LEMMA RtsOnRxErrorKeeps ==
    ASSUME NEW s \in Stations, NEW x, NEW r, Local(s, x, None, r), Flushed(x)
    PROVE  LET z == RtsOnRxError(x) IN
           /\ z \in Macs(s) /\ z.broken = FALSE /\ z.pendingCTS = None
           /\ Blocking(z, None, r) /\ Requesting(z, None, None) /\ Awaiting(z, None)
           /\ Flushed(z) /\ Mild(z, x)
           /\ Expects(x) => Expects(z)
           /\ ~Short(x) => ~Short(z)
  <1>1. CASE x.state = "receiveCTS" /\ x.timer # "off"
    BY <1>1, ErrorOfCTS DEF Expects, Short
  <1>2. CASE x.state = "receiveCTS" /\ x.timer = "off"
    <2> DEFINE w == GiveUp(x)
               z == TryToSend(w)
    <2>1. x \in Macs(s) /\ x.broken = FALSE /\ GivesUp(x) /\ x.pendingCTS = None
          /\ x.pendingMPDU # None
      BY <1>2 DEF Local, GivesUp, Flushed, Requesting
    <2>2. Ready(s, w, None, r)
      BY <2>1, GiveUpIsReady
    <2>3. /\ w.pendingCTS = None /\ w.pendingMPDU = None /\ w.state = "idle" /\ SameBelow(w, x)
          /\ w.timer = "off" /\ SameBlock(w, x)
      BY <2>1, GiveUpFields
    <2>4. RtsOnRxError(x) = z
      <3>1. RtsOnRxError(x) = RtsOnTimeout([x EXCEPT !.state = "waitForCTS"])
        BY <1>2 DEF RtsOnRxError
      <3> DEFINE y == [x EXCEPT !.state = "waitForCTS"]
      <3>2. /\ y.state = "waitForCTS" /\ y.pendingMPDU = x.pendingMPDU
            /\ y.broken = FALSE /\ y \in Macs(s)
        BY <2>1 DEF Macs
      <3>3. Assure(y, y.state # "idle" /\ y.pendingMPDU # None) = [y EXCEPT !.broken = FALSE]
        BY <2>1, <3>2 DEF Assure
      <3>4. RtsOnTimeout(y) = TryToSend([[y EXCEPT !.broken = FALSE]
               EXCEPT !.timer = "off", !.state = "idle", !.pendingMPDU = None, !.awaits = FALSE])
        BY <3>2, <3>3 DEF RtsOnTimeout
      <3>5. [[y EXCEPT !.broken = FALSE]
               EXCEPT !.timer = "off", !.state = "idle", !.pendingMPDU = None, !.awaits = FALSE]
            = w
        BY <2>1 DEF GiveUp, Macs
      <3> QED
        BY <3>1, <3>4, <3>5
    <2> HIDE DEF w
    <2>5. Local(s, z, None, r) /\ Flushed(z) /\ Sent(z, w)
      BY <2>2, Try
    <2> HIDE DEF z
    <2>6. z.state = "idle"
      BY <2>3, <2>5 DEF Sent
    <2>7. Requesting(z, None, None)
      BY <2>5, <2>6 DEF Local, Requesting
    <2>8. Mild(z, w)
      BY <2>3, <2>5, SentIsMild
    <2>9. Mild(z, x)
      BY <2>1, <2>3, <2>8 DEF Mild, SameBelow
    <2>10. ~Expects(x)
      BY <1>2 DEF Expects
    <2>11. ~Short(x) => ~Short(z)
      BY <2>3, <2>5 DEF Short, Sent, SameBlock
    <2> QED
      BY <2>4, <2>5, <2>7, <2>9, <2>10, <2>11 DEF Local, Flushed
  <1>3. CASE x.state # "receiveCTS"
    <2>1. RtsOnRxError(x) = x
      BY <1>3 DEF RtsOnRxError
    <2>2. Requesting(x, None, None)
      BY <1>3 DEF Local, Requesting
    <2>3. Mild(x, x)
      BY DEF Mild
    <2> QED
      BY <2>1, <2>2, <2>3 DEF Local, Flushed
  <1> QED
    BY <1>1, <1>2, <1>3

LEMMA RxError ==
    ASSUME NEW s \in Stations, NEW x, NEW r, Local(s, x, None, r), Flushed(x)
    PROVE  LET y == OnRxError(x) IN
           /\ Local(s, y, None, None) /\ Flushed(y) /\ Mild(y, x) /\ ~Waits(y)
           /\ Expects(x) => Expects(y)
           /\ ~Short(x) => ~Short(y)
  <1> DEFINE z == RtsOnRxError(x)
             y == BlockOnRxError(z)
  <1>1. /\ z \in Macs(s) /\ z.broken = FALSE /\ z.pendingCTS = None
        /\ Blocking(z, None, r) /\ Requesting(z, None, None) /\ Awaiting(z, None)
        /\ Flushed(z) /\ Mild(z, x)
        /\ Expects(x) => Expects(z)
        /\ ~Short(x) => ~Short(z)
    BY RtsOnRxErrorKeeps
  <1> HIDE DEF z
  <1>2. CASE Waits(z)
    <2>1. y = Unblock(z)
      BY <1>2 DEF BlockOnRxError
    <2>2. /\ Local(s, y, None, None) /\ Flushed(y) /\ Mild(y, z) /\ ~Waits(y)
          /\ y.timer = z.timer /\ y.blockTimer = "off"
          /\ z.state # "idle" => y.state = z.state /\ y.timer = z.timer
      BY <1>1, <1>2, <2>1, Unblocks
    <2> HIDE DEF y
    <2>3. Mild(y, x)
      BY <1>1, <2>2 DEF Mild
    <2>4. (Expects(z) => Expects(y)) /\ (~Short(z) => ~Short(y))
      BY <2>2 DEF Expects, Short
    <2> QED
      BY <1>1, <2>2, <2>3, <2>4 DEF OnRxError, y, z
  <1>3. CASE ~Waits(z)
    <2>1. y = z
      BY <1>3 DEF BlockOnRxError
    <2>2. Blocking(z, None, None)
      BY <1>1, <1>3 DEF Blocking, Waits
    <2>3. None \in {None, Peer(s), Foreign}
      OBVIOUS
    <2>4. Local(s, z, None, None)
      BY <1>1, <2>2, <2>3 DEF Local
    <2> QED
      BY <1>1, <1>3, <2>1, <2>4 DEF OnRxError, y, z
  <1> QED
    BY <1>2, <1>3

\* A station with a frame that waits SIFS takes no notice of a failed reception.
LEMMA ErrorIgnored ==
    ASSUME NEW s \in Stations, NEW x, NEW a, NEW r, Local(s, x, a, r), x.sifs # None
    PROVE  OnRxError([x EXCEPT !.sifs = None]) = [x EXCEPT !.sifs = None]
  <1> DEFINE y == [x EXCEPT !.sifs = None]
  <1>1. x \in Macs(s) /\ ~Waits(x) /\ x.state # "receiveCTS"
    BY DEF Local, Blocking, Requesting
  <1>2. y.state = x.state /\ y.blocked = x.blocked /\ y.txStatus = x.txStatus
    BY <1>1 DEF Macs
  <1> HIDE DEF y
  <1>3. OnRxError(y) = y
    BY <1>1, <1>2 DEF OnRxError, RtsOnRxError, BlockOnRxError, Waits
  <1> QED
    BY <1>3 DEF y

-----------------------------------------------------------------------------
(* Own transmissions *)

LEMMA AnswerStarts ==
    ASSUME NEW s \in Stations, NEW x, NEW r, Local(s, x, None, r), Flushed(x), ~Short(x),
           x.sifs # None, ~Own(x.sifs)
    PROVE  LET f == x.sifs
               y == Wakeup(OnTxStart([x EXCEPT !.sifs = None], f)) IN
           /\ Local(s, y, f, None) /\ Flushed(y)
           /\ x.pendingMPDU = None /\ x.awaits =>
                /\ y.pendingMPDU = None /\ y.awaits /\ ~IsMPDU(y.sifs)
                /\ IsMPDU(y.dcf) => y.dcf = x.dcf
  <1> DEFINE f == x.sifs
             w == [x EXCEPT !.sifs = None]
             y == Wakeup(OnTxStart(w, f))
  <1>1. x \in Macs(s) /\ f \in AfterSIFS(s) /\ x.blocked \in BOOLEAN
    BY DEF Local, Macs
  <1>2. f.type = "ACK" /\ ~IsRTS(f) /\ ~IsMPDU(f) /\ f # None /\ ~Own(f)
    BY <1>1, FrameKinds DEF AfterSIFS
  <1>3. y = Wakeup(w)
    BY <1>2 DEF OnTxStart
  <1>4. /\ w \in Macs(s) /\ SameRts(w, x) /\ SameBlock(w, x) /\ SameRest(w, x)
        /\ w.sifs = None /\ w.dcf = x.dcf /\ w.broken = x.broken
    BY <1>1 DEF Macs, SameRts, SameBlock, SameRest
  <1> HIDE DEF w
  <1>5. Ready(s, w, f, None)
    <2>1. Blocking(w, f, None)
      BY <1>1, <1>2, <1>4, FrameKinds DEF Local, Blocking, Waits, SameBlock
    <2>2. Requesting(w, f, None)
      BY <1>2, <1>4, FrameKinds DEF Local, Requesting, Short, SameRts
    <2>3. Awaiting(w, f)
      BY <1>2, <1>4, FrameKinds DEF Local, Awaiting, SameRts, SameRest
    <2>4. w.pendingCTS = None /\ ~IsCTS(None) /\ ~IsReply(None)
      BY <1>4, FrameKinds DEF Flushed, SameRts
    <2> QED
      BY <1>1, <1>4, <2>1, <2>2, <2>3, <2>4 DEF Ready, Local
  <1>6. CASE x.blocked
    <2>1. y = w
      BY <1>3, <1>4, <1>6 DEF Wakeup, SameBlock
    <2>2. Flushed(w)
      BY <1>4, <1>6 DEF Flushed, SameBlock, SameRts
    <2>3. ~IsMPDU(w.sifs)
      BY <1>4, FrameKinds
    <2> QED
      BY <1>4, <1>5, <2>1, <2>2, <2>3 DEF Ready, SameRts, SameRest, w
  <1>7. CASE ~x.blocked
    <2>1. y = TryToSend(w)
      BY <1>3, <1>4, <1>7 DEF Wakeup, SameBlock
    <2>2. Local(s, y, f, None) /\ Flushed(y) /\ Sent(y, w)
      BY <1>5, <2>1, Try
    <2> HIDE DEF y
    <2>3. /\ x.pendingMPDU = None /\ x.awaits =>
               /\ y.pendingMPDU = None /\ y.awaits /\ ~IsMPDU(y.sifs)
               /\ IsMPDU(y.dcf) => y.dcf = x.dcf
      BY <1>4, <2>2, FrameKinds DEF Sent, SameRts, SameRest
    <2> QED
      BY <2>2, <2>3 DEF y, w
  <1> QED
    BY <1>6, <1>7

\* The frame f that contends for the channel, or follows a SIFS after another.
LEMMA OwnStarts ==
    ASSUME NEW s \in Stations, NEW x, NEW r, Local(s, x, None, r), Flushed(x), ~Short(x),
           NEW f, Own(f), NEW w, w \in Macs(s),
           \/ x.sifs = f /\ w = [x EXCEPT !.sifs = None]
           \/ x.dcf = f /\ x.sifs = None /\ w = [x EXCEPT !.dcf = None]
    PROVE  LET y == Wakeup(OnTxStart(w, f)) IN
           /\ Local(s, y, f, None) /\ Flushed(y)
           /\ y.pendingMPDU = x.pendingMPDU /\ y.awaits = x.awaits
           /\ y.sifs = None /\ y.dcf = None
  <1> DEFINE y == Wakeup(OnTxStart(w, f))
  <1>1. x \in Macs(s) /\ x.blocked \in BOOLEAN /\ x.broken = FALSE
    BY DEF Local, Macs
  <1>2. f # None /\ ~Own(None) /\ ~IsCTS(None) /\ ~IsReply(None) /\ ~IsRTS(None) /\ ~IsMPDU(None)
    BY FrameKinds
  <1>3. x.blocked /\ x.txStatus = "waiting" /\ x.blockTimer = "off"
        /\ (x.sifs = f => x.dcf = None) /\ f.type # "ACK"
    BY <1>1, <1>2 DEF Local, Blocking, Waits, Own, Macs
  <1>4. /\ SameRts(w, x) /\ SameBlock(w, x) /\ SameRest(w, x) /\ w.broken = FALSE
        /\ w.sifs = None /\ w.dcf = None
    BY <1>1, <1>3, ZenonT(60) DEF Macs, SameRts, SameBlock, SameRest
  <1>5. OnTxStart(w, f) = [w EXCEPT !.broken = FALSE, !.txStatus = "transmitting"]
    BY <1>3, <1>4 DEF OnTxStart, Assure, SameBlock, Macs
  <1> DEFINE v == [w EXCEPT !.broken = FALSE, !.txStatus = "transmitting"]
  <1>6. /\ v \in Macs(s) /\ SameRts(v, w) /\ SameRest(v, w) /\ SameBelow(v, w) /\ v.broken = FALSE
        /\ v.blocked = w.blocked /\ v.blockTimer = w.blockTimer /\ v.txStatus = "transmitting"
    BY DEF Macs, SameRts, SameRest, SameBelow
  <1> HIDE DEF v
  <1>7. y = v
    BY <1>3, <1>4, <1>5, <1>6 DEF Wakeup, SameBlock, v
  <1>8. Blocking(v, f, None)
    BY <1>3, <1>4, <1>6 DEF Blocking, Waits, SameBlock, SameBelow
  <1>9. Requesting(v, f, None)
    <2>1. /\ v.sifs = None /\ v.dcf = None /\ v.state = x.state /\ v.timer = x.timer
          /\ v.pendingRTS = x.pendingRTS /\ v.pendingMPDU = x.pendingMPDU
      BY <1>4, <1>6 DEF SameRts, SameBelow
    <2>2. x.state \notin {"waitForCTS", "receiveCTS", "receptionFinished"}
      BY <1>2 DEF Local, Requesting
    <2>3. IsRTS(x.dcf) <=> IsRTS(f)
      <3>1. x.sifs = f => f \in AfterSIFS(s)
        BY <1>1, <1>2 DEF Macs
      <3>2. x.sifs = f => ~IsRTS(f)
        BY <3>1, FrameKinds DEF AfterSIFS
      <3> QED
        BY <1>2, <1>3, <3>2
    <2> QED
      BY <1>2, <2>1, <2>2, <2>3 DEF Local, Requesting
  <1>10. Awaiting(v, f)
    BY <1>2, <1>3, <1>4, <1>6 DEF Local, Awaiting, SameRts, SameRest, SameBelow
  <1>11. Flushed(v)
    BY <1>3, <1>4, <1>6 DEF Flushed, SameRts, SameBlock
  <1>12. f \in AfterSIFS(s) \cup AfterBackoff(s)
    BY <1>1, <1>2 DEF Macs
  <1>13. Local(s, v, f, None)
    BY <1>2, <1>4, <1>6, <1>8, <1>9, <1>10, <1>12 DEF Local, SameBelow
  <1> QED
    BY <1>4, <1>6, <1>7, <1>11, <1>13 DEF SameRts, SameRest, SameBelow

LEMMA AnswerEnds ==
    ASSUME NEW s \in Stations, NEW x, NEW f, Local(s, x, f, None), f # None, ~Own(f), Flushed(x)
    PROVE  OnTxEnd(x, f) = x /\ Local(s, x, None, None)
  <1>1. f.type = "ACK" /\ ~IsRTS(f) /\ ~IsMPDU(f) /\ f.kind # "RTS" /\ f.kind # "MPDU"
    BY FrameKinds DEF Local, AfterSIFS, AfterBackoff, Own, IsRTS, IsMPDU
  <1>2. OnTxEnd(x, f) = x
    BY <1>1 DEF OnTxEnd, ArqOnTxEnd, RtsOnTxEnd, BlockOnTxEnd
  <1>3. x.txStatus # "transmitting" /\ ~Waits(x)
    BY DEF Local, Blocking
  <1>4. Blocking(x, None, None)
    BY <1>3, FrameKinds DEF Local, Blocking
  <1>5. Requesting(x, None, None)
    BY <1>1, FrameKinds DEF Local, Requesting
  <1>6. Awaiting(x, None)
    BY <1>1, FrameKinds DEF Local, Awaiting
  <1> QED
    BY <1>2, <1>4, <1>5, <1>6 DEF Local

LEMMA OwnOnAir ==
    ASSUME NEW s \in Stations, NEW x, NEW f, Local(s, x, f, None), Own(f)
    PROVE  /\ x.txStatus = "transmitting" /\ x.blocked = TRUE /\ x.blockTimer = "off"
           /\ x.sifs = None /\ x.dcf = None /\ x \in Macs(s) /\ x.broken = FALSE
           /\ f.type # "ACK" /\ f # None
           /\ \/ f \in RTSs(s) /\ x.state = "transmitRTS" /\ x.pendingMPDU # None
              \/ /\ f \in MPDUs(s, "DATA") \cup MPDUs(s, "DATA_TXOP") /\ x.state = "idle"
                 /\ x.pendingMPDU = None /\ x.awaits = TRUE
  <1>1. x \in Macs(s) /\ x.broken = FALSE /\ x.blocked \in BOOLEAN /\ x.awaits \in BOOLEAN
        /\ x.txStatus \in {"finished", "waiting", "transmitting"}
        /\ x.state \in {"idle", "transmitRTS", "waitForCTS", "receiveCTS", "receptionFinished"}
    BY DEF Local, Macs
  <1>2. f.type # "ACK" /\ f # None /\ ~IsRTS(None)
    BY FrameKinds DEF Own
  <1>3. x.txStatus = "transmitting" /\ x.blocked = TRUE /\ x.blockTimer = "off"
    BY <1>1, <1>2 DEF Local, Blocking, Waits
  <1>4. x.sifs = None /\ x.dcf = None
    BY <1>3 DEF Local, Blocking
  <1>5. x.state \in {"idle", "transmitRTS"}
    BY <1>1, <1>2 DEF Local, Requesting
  <1>6. CASE f \in RTSs(s)
    BY <1>1, <1>2, <1>3, <1>4, <1>6, FrameKinds DEF Local, Requesting
  <1>7. CASE f \in MPDUs(s, "DATA") \cup MPDUs(s, "DATA_TXOP")
    <2>1. ~IsRTS(f) /\ IsMPDU(f)
      BY <1>7, FrameKinds
    <2>2. x.state = "idle"
      BY <1>2, <1>4, <1>5, <2>1 DEF Local, Requesting
    <2>3. x.pendingMPDU = None /\ x.awaits = TRUE
      BY <1>1, <2>1 DEF Local, Awaiting
    <2> QED
      BY <1>1, <1>2, <1>3, <1>4, <1>7, <2>2, <2>3
  <1>8. f \in RTSs(s) \/ f \in MPDUs(s, "DATA") \cup MPDUs(s, "DATA_TXOP")
    BY <1>2, FrameKinds DEF Local, AfterSIFS, AfterBackoff
  <1> QED
    BY <1>6, <1>7, <1>8

LEMMA RTSEnds ==
    ASSUME NEW s \in Stations, NEW x, NEW f \in RTSs(s), Local(s, x, f, None), Flushed(x)
    PROVE  LET y == OnTxEnd(x, f) IN
           Local(s, y, None, None) /\ Flushed(y) /\ Expects(y) /\ y.sifs = None
  <1> DEFINE w == [x EXCEPT !.state = "waitForCTS", !.timer = "reply"]
             y == [w EXCEPT !.broken = FALSE, !.txStatus = "finished", !.blockTimer = "reply"]
  <1>1. /\ x.txStatus = "transmitting" /\ x.blocked = TRUE /\ x.blockTimer = "off"
        /\ x.sifs = None /\ x.dcf = None /\ x \in Macs(s) /\ x.broken = FALSE
        /\ f.type = "DATA" /\ f.kind = "RTS" /\ f.reply = TRUE /\ x.state = "transmitRTS"
        /\ x.pendingMPDU # None
    <2>1. Own(f) /\ IsRTS(f) /\ f.type = "DATA" /\ f.kind = "RTS" /\ f.reply = TRUE
      BY FrameKinds DEF RTSs, Frames
    <2>2. f \notin MPDUs(s, "DATA") /\ f \notin MPDUs(s, "DATA_TXOP")
      BY <2>1, FrameKinds
    <2> QED
      BY <2>1, <2>2, OwnOnAir
  <1>2. RtsOnTxEnd(ArqOnTxEnd(x, f), f) = w
    BY <1>1 DEF RtsOnTxEnd, ArqOnTxEnd
  <1>3. /\ w \in Macs(s) /\ SamePending(w, x) /\ SameBlock(w, x) /\ SameBelow(w, x)
        /\ SameRest(w, x) /\ w.broken = FALSE /\ w.state = "waitForCTS" /\ w.timer = "reply"
    BY <1>1, ZenonT(60) DEF Macs, Timers, SamePending, SameBlock, SameBelow, SameRest
  <1> HIDE DEF w
  <1>4. OnTxEnd(x, f) = y
    <2>1. OnTxEnd(x, f) = BlockOnTxEnd(w, f)
      BY <1>2 DEF OnTxEnd
    <2>2. [Assure(w, w.txStatus = "transmitting") EXCEPT !.txStatus = "finished"]
          = [w EXCEPT !.broken = FALSE, !.txStatus = "finished"]
      <3>1. w.txStatus = "transmitting" /\ w.broken = FALSE
        BY <1>1, <1>3 DEF SameBlock
      <3>2. Assure(w, w.txStatus = "transmitting") = [w EXCEPT !.broken = FALSE]
        BY <1>3, <3>1 DEF Assure, Macs
      <3> QED
        BY <3>2
    <2> DEFINE v == [w EXCEPT !.broken = FALSE, !.txStatus = "finished"]
    <2>3. v \in Macs(s) /\ v.blockTimer = "off" /\ v.broken = FALSE
      <3>1. w.blockTimer = "off"
        BY <1>1, <1>3 DEF SameBlock
      <3>2. v \in Macs(s) /\ v.blockTimer = w.blockTimer /\ v.broken = FALSE
        BY <1>3 DEF Macs
      <3> QED
        BY <3>1, <3>2
    <2>4. [Assure(v, v.blockTimer = "off") EXCEPT !.blockTimer = "reply"]
          = [v EXCEPT !.blockTimer = "reply"]
      <3>1. Assure(v, v.blockTimer = "off") = [v EXCEPT !.broken = v.broken]
        BY <2>3 DEF Assure
      <3>2. [v EXCEPT !.broken = v.broken] = v
        BY <2>3 DEF Macs
      <3> QED
        BY <3>1, <3>2
    <2>5. BlockOnTxEnd(w, f) = [v EXCEPT !.blockTimer = "reply"]
      BY <1>1, <2>2, <2>4, ZenonT(60) DEF BlockOnTxEnd
    <2> QED
      BY <2>1, <2>5
  <1>5. /\ y \in Macs(s) /\ SameRts(y, w) /\ SameBelow(y, w) /\ SameRest(y, w)
        /\ y.broken = FALSE /\ y.blocked = w.blocked
        /\ y.txStatus = "finished" /\ y.blockTimer = "reply"
    BY <1>3, ZenonT(60) DEF Macs, Timers, SameRts, SameBelow, SameRest
  <1> HIDE DEF y
  <1>6. /\ SamePending(y, x) /\ SameBelow(y, x) /\ SameRest(y, x) /\ y.state = "waitForCTS"
        /\ y.timer = "reply" /\ y.blocked = TRUE
    BY <1>1, <1>3, <1>5 DEF SamePending, SameBlock, SameBelow, SameRest, SameRts
  <1>7. ~Own(None) /\ ~IsRTS(None) /\ ~IsMPDU(None) /\ ~IsCTS(None) /\ ~IsReply(None)
    BY FrameKinds
  <1>8. Blocking(y, None, None)
    BY <1>1, <1>5, <1>6, <1>7 DEF Blocking, Waits, SameBelow
  <1>9. Requesting(y, None, None)
    BY <1>1, <1>6, <1>7 DEF Local, Requesting, SamePending, SameBelow
  <1>10. Awaiting(y, None)
    BY <1>1, <1>6, <1>7 DEF Local, Awaiting, SamePending, SameBelow, SameRest
  <1>11. Flushed(y) /\ Expects(y)
    BY <1>6 DEF Flushed, Expects, SamePending
  <1>12. y.sifs = None
    BY <1>1, <1>6 DEF SameBelow
  <1> QED
    BY <1>4, <1>5, <1>7, <1>8, <1>9, <1>10, <1>11, <1>12 DEF Local

\* An MPDU comes to its end, up to what BlockUntilReply does next.
LEMMA MPDUEndsFields ==
    ASSUME NEW s \in Stations, NEW x, NEW f, f \in MPDUs(s, "DATA") \cup MPDUs(s, "DATA_TXOP"),
           Local(s, x, f, None), Flushed(x)
    PROVE  \E v \in Macs(s) :
             /\ v = [ArqOnTxEnd(x, f) EXCEPT !.broken = FALSE, !.txStatus = "finished"]
             /\ BlockOnTxEnd(RtsOnTxEnd(ArqOnTxEnd(x, f), f), f) =
                  IF f.reply THEN [v EXCEPT !.blockTimer = "reply"] ELSE Unblock(v)
             /\ v.broken = FALSE /\ v.blocked = TRUE /\ v.txStatus = "finished"
             /\ v.blockTimer = "off" /\ v.state = "idle" /\ v.timer = "off"
             /\ v.pendingRTS = None /\ v.pendingCTS = None /\ v.pendingMPDU = None
             /\ v.sifs = None /\ v.dcf = None
             /\ f.reply => v.awaits = TRUE
  <1> DEFINE w == ArqOnTxEnd(x, f)
             v == [w EXCEPT !.broken = FALSE, !.txStatus = "finished"]
  <1>1. f.type # "ACK" /\ f.kind = "MPDU" /\ f.reply \in BOOLEAN /\ Own(f) /\ ~IsRTS(f) /\ f # None
    BY FrameKinds DEF MPDUs, Frames
  <1>2. /\ x.txStatus = "transmitting" /\ x.blocked = TRUE /\ x.blockTimer = "off"
        /\ x.sifs = None /\ x.dcf = None /\ x \in Macs(s) /\ x.broken = FALSE
        /\ x.state = "idle" /\ x.pendingMPDU = None /\ x.awaits = TRUE
    <2>1. f \notin RTSs(s)
      BY <1>1, FrameKinds
    <2> QED
      BY <1>1, <2>1, OwnOnAir
  <1>3. x.timer = "off" /\ x.pendingRTS = None /\ x.pendingCTS = None
    BY <1>2 DEF Local, Requesting, Flushed
  <1>4. /\ w \in Macs(s) /\ SameRts(w, x) /\ SameBlock(w, x) /\ SameBelow(w, x)
        /\ w.broken = FALSE /\ (f.reply => w.awaits = TRUE)
    <2>1. CASE f.reply
      BY <1>1, <1>2, <2>1 DEF ArqOnTxEnd, SameRts, SameBlock, SameBelow
    <2>2. CASE ~f.reply
      <3>1. w = [x EXCEPT !.awaits = FALSE]
        BY <1>1, <2>2 DEF ArqOnTxEnd
      <3> QED
        BY <1>2, <2>2, <3>1, ZenonT(60) DEF Macs, SameRts, SameBlock, SameBelow
    <2> QED
      BY <1>1, <2>1, <2>2
  <1> HIDE DEF w
  <1>5. w.txStatus = "transmitting" /\ w.blocked = TRUE /\ w.blockTimer = "off" /\ w.broken = FALSE
    BY <1>2, <1>4 DEF SameBlock
  <1>6. RtsOnTxEnd(w, f) = w
    BY <1>1 DEF RtsOnTxEnd
  <1>7. [Assure(w, w.txStatus = "transmitting") EXCEPT !.txStatus = "finished"] = v
    <2>1. Assure(w, w.txStatus = "transmitting") = [w EXCEPT !.broken = FALSE]
      BY <1>4, <1>5 DEF Assure, Macs
    <2> QED
      BY <2>1
  <1>8. /\ v \in Macs(s) /\ SameRts(v, w) /\ SameBelow(v, w) /\ v.broken = FALSE
        /\ v.blocked = w.blocked /\ v.blockTimer = w.blockTimer /\ v.txStatus = "finished"
        /\ v.awaits = w.awaits
    BY <1>4 DEF Macs, SameRts, SameBelow
  <1>9. BlockOnTxEnd(w, f) = IF f.reply THEN [v EXCEPT !.blockTimer = "reply"] ELSE Unblock(v)
    <2>1. [Assure(v, v.blockTimer = "off") EXCEPT !.blockTimer = "reply"]
          = [v EXCEPT !.blockTimer = "reply"]
      <3> HIDE DEF v
      <3>0. v.blockTimer = "off" /\ v.broken = FALSE
        BY <1>5, <1>8
      <3>1. Assure(v, v.blockTimer = "off") = [v EXCEPT !.broken = v.broken]
        BY <3>0 DEF Assure
      <3>2. [v EXCEPT !.broken = v.broken] = v
        BY <1>8 DEF Macs
      <3> QED
        BY <3>1, <3>2
    <2>2. v.blocked = TRUE
      BY <1>5, <1>8
    <2> HIDE DEF v
    <2>3. BlockOnTxEnd(w, f) =
            IF f.reply THEN [Assure(v, v.blockTimer = "off") EXCEPT !.blockTimer = "reply"]
            ELSE IF v.blocked THEN Unblock(v) ELSE v
      BY <1>1, <1>7 DEF BlockOnTxEnd
    <2> QED
      BY <2>1, <2>2, <2>3
  <1>10. /\ v.broken = FALSE /\ v.blocked = TRUE /\ v.txStatus = "finished"
         /\ v.blockTimer = "off" /\ v.state = "idle" /\ v.timer = "off"
         /\ v.pendingRTS = None /\ v.pendingCTS = None /\ v.pendingMPDU = None
         /\ v.sifs = None /\ v.dcf = None
         /\ f.reply => v.awaits = TRUE
    <2> HIDE DEF v
    <2> QED
      BY <1>2, <1>3, <1>4, <1>5, <1>8 DEF SameRts, SameBelow
  <1> QED
    BY <1>6, <1>8, <1>9, <1>10 DEF w

LEMMA MPDUEnds ==
    ASSUME NEW s \in Stations, NEW x, NEW f, f \in MPDUs(s, "DATA") \cup MPDUs(s, "DATA_TXOP"),
           Local(s, x, f, None), Flushed(x)
    PROVE  LET y == OnTxEnd(x, f) IN
           /\ Local(s, y, None, None) /\ Flushed(y) /\ ~IsCTS(y.sifs) /\ ~IsReply(y.sifs)
           /\ f.reply => Done(y, None)
  <1>1. PICK v \in Macs(s) :
             /\ v = [ArqOnTxEnd(x, f) EXCEPT !.broken = FALSE, !.txStatus = "finished"]
             /\ BlockOnTxEnd(RtsOnTxEnd(ArqOnTxEnd(x, f), f), f) =
                  IF f.reply THEN [v EXCEPT !.blockTimer = "reply"] ELSE Unblock(v)
             /\ v.broken = FALSE /\ v.blocked = TRUE /\ v.txStatus = "finished"
             /\ v.blockTimer = "off" /\ v.state = "idle" /\ v.timer = "off"
             /\ v.pendingRTS = None /\ v.pendingCTS = None /\ v.pendingMPDU = None
             /\ v.sifs = None /\ v.dcf = None
             /\ f.reply => v.awaits = TRUE
    BY MPDUEndsFields
  <1>2. ~Own(None) /\ ~IsRTS(None) /\ ~IsMPDU(None) /\ ~IsCTS(None) /\ ~IsReply(None)
    BY FrameKinds
  <1>3. OnTxEnd(x, f) = IF f.reply THEN [v EXCEPT !.blockTimer = "reply"] ELSE Unblock(v)
    BY <1>1 DEF OnTxEnd
  <1>4. Requesting(v, None, None) /\ Awaiting(v, None)
    BY <1>1, <1>2 DEF Requesting, Awaiting
  <1>5. CASE f.reply
    <2> DEFINE y == [v EXCEPT !.blockTimer = "reply"]
    <2>1. /\ y \in Macs(s) /\ SameRts(y, v) /\ SameBelow(y, v) /\ SameRest(y, v)
          /\ y.broken = v.broken /\ y.blocked = v.blocked /\ y.txStatus = v.txStatus
          /\ y.blockTimer = "reply"
      BY DEF Macs, Timers, SameRts, SameBelow, SameRest
    <2> HIDE DEF y
    <2>2. /\ y.broken = FALSE /\ y.blocked = TRUE /\ y.txStatus = "finished"
          /\ y.pendingCTS = None /\ y.pendingMPDU = None /\ y.sifs = None /\ y.dcf = None
          /\ y.awaits = TRUE
      BY <1>1, <1>5, <2>1 DEF SameRts, SameBelow, SameRest
    <2>3. Blocking(y, None, None)
      BY <1>2, <2>1, <2>2 DEF Blocking, Waits
    <2>4. Requesting(y, None, None) /\ Awaiting(y, None)
      BY <1>4, <2>1 DEF Requesting, Awaiting, SameRts, SameBelow, SameRest
    <2>5. Flushed(y) /\ Done(y, None)
      BY <1>2, <2>2 DEF Flushed, Done
    <2>6. Local(s, y, None, None)
      BY <1>2, <2>1, <2>2, <2>3, <2>4 DEF Local
    <2> QED
      BY <1>2, <1>3, <1>5, <2>2, <2>5, <2>6 DEF y
  <1>6. CASE ~f.reply
    <2> DEFINE y == Unblock(v)
    <2>1. Waits(v) /\ Blocking(v, None, Foreign)
      BY <1>1, <1>2, NoneAssumption DEF Blocking, Waits
    <2>2. Local(s, y, None, None) /\ Flushed(y) /\ Mild(y, v)
      BY <1>1, <1>4, <2>1, Unblocks
    <2> HIDE DEF y
    <2>3. ~IsCTS(y.sifs) /\ ~IsReply(y.sifs)
      BY <1>1, <1>2, <2>2 DEF Mild
    <2> QED
      BY <1>3, <1>6, <2>2, <2>3 DEF y
  <1> QED
    BY <1>5, <1>6

\* The end of the own transmission.
LEMMA TxEnd ==
    ASSUME NEW s \in Stations, NEW x, NEW f, Local(s, x, f, None), f # None, Flushed(x)
    PROVE  LET y == OnTxEnd(x, f) IN
           /\ Local(s, y, None, None) /\ Flushed(y) /\ ~IsCTS(y.sifs) /\ ~IsReply(y.sifs)
           /\ IsRTS(f) => Expects(y)
           /\ IsMPDU(f) /\ f.reply => Done(y, None)
           /\ Done(x, f) => Done(y, None)
  <1>1. f \in AfterSIFS(s) \cup AfterBackoff(s)
    BY DEF Local
  <1>2. ~IsCTS(None) /\ ~IsReply(None) /\ ~IsMPDU(None)
    BY FrameKinds
  <1>3. CASE f \in RTSs(s)
    <2>1. IsRTS(f) /\ ~IsMPDU(f) /\ Own(f) /\ f \notin MPDUs(s, "DATA")
          /\ f \notin MPDUs(s, "DATA_TXOP")
      BY <1>3, FrameKinds
    <2>2. x.pendingMPDU # None
      BY <2>1, OwnOnAir
    <2>3. ~Done(x, f)
      BY <2>2 DEF Done
    <2> QED
      BY <1>2, <1>3, <2>1, <2>3, RTSEnds
  <1>4. CASE f \in MPDUs(s, "DATA") \cup MPDUs(s, "DATA_TXOP")
    <2>1. IsMPDU(f) /\ ~IsRTS(f)
      BY <1>4, FrameKinds
    <2>2. ~Done(x, f)
      BY <2>1 DEF Done
    <2> QED
      BY <1>4, <2>1, <2>2, MPDUEnds
  <1>5. CASE f \in CTSs(s) \cup Replies(s)
    <2>1. ~Own(f) /\ ~IsMPDU(f) /\ ~IsRTS(f)
      BY <1>5, FrameKinds
    <2>2. OnTxEnd(x, f) = x /\ Local(s, x, None, None)
      BY <2>1, AnswerEnds
    <2>3. ~IsCTS(x.sifs) /\ ~IsReply(x.sifs)
      BY DEF Local
    <2>4. Done(x, f) => Done(x, None)
      BY <1>2 DEF Done
    <2> QED
      BY <2>1, <2>2, <2>3, <2>4
  <1> QED
    BY <1>1, <1>3, <1>4, <1>5 DEF AfterSIFS, AfterBackoff

-----------------------------------------------------------------------------
(* A frame from above *)

Pends(s, y, x) ==
  /\ y \in Macs(s) /\ SameBlock(y, x) /\ SameBelow(y, x) /\ y.state = x.state
  /\ y.timer = x.timer /\ y.pendingCTS = x.pendingCTS /\ y.awaits = x.awaits
  /\ y.broken = x.broken /\ y.pendingMPDU # None

LEMMA PendingFields ==
    ASSUME NEW s \in Stations, NEW x \in Macs(s),
           NEW f \in MPDUs(s, "DATA") \cup MPDUs(s, "DATA_TXOP")
    PROVE  /\ Pends(s, [x EXCEPT !.pendingMPDU = f], x)
           /\ \A q \in RTSs(s) : Pends(s, [x EXCEPT !.pendingMPDU = f, !.pendingRTS = q], x)
  <1>1. f # None
    BY FrameKinds
  <1>2. Pends(s, [x EXCEPT !.pendingMPDU = f], x)
    BY <1>1 DEF Pends, Macs, SameBlock, SameBelow
  <1>3. ASSUME NEW q \in RTSs(s)
        PROVE  Pends(s, [x EXCEPT !.pendingMPDU = f, !.pendingRTS = q], x)
    BY <1>1, ZenonT(60) DEF Pends, Macs, SameBlock, SameBelow
  <1> QED
    BY <1>2, <1>3

Processed(s, y, x) ==
  /\ y \in Macs(s) /\ SameBlock(y, x) /\ SameBelow(y, x) /\ y.state = x.state
  /\ y.timer = x.timer /\ y.pendingCTS = x.pendingCTS /\ y.awaits = TRUE
  /\ y.broken = FALSE /\ y.pendingMPDU # None

LEMMA ProcessFields ==
    ASSUME NEW s \in Stations, NEW x \in Macs(s), NEW type \in {"DATA", "DATA_TXOP"},
           NEW reply \in BOOLEAN, NEW large \in BOOLEAN,
           x.broken = FALSE, x.pendingMPDU = None, x.pendingRTS = None,
           NEW f, f = Frame(type, "MPDU", s, Peer(s), reply),
           NEW u, u = [x EXCEPT !.awaits = TRUE]
    PROVE  Processed(s, ProcessOutgoing(u, f, large), x)
  <1> DEFINE g == [f EXCEPT !.type = "DATA_TXOP"]
             q == Frame("DATA", "RTS", f.from, f.to, TRUE)
             y == ProcessOutgoing(u, f, large)
  <1>1. Peer(s) \in Stations /\ Nothing \in Known
    BY PeerFacts, NothingIsKnown
  <1>2. f \in MPDUs(s, type) /\ f.type = type /\ f.from = s /\ f.to = Peer(s)
    BY <1>1 DEF Frame, Frames, MPDUs
  <1>3. g \in MPDUs(s, "DATA_TXOP")
    BY <1>2 DEF Frames, MPDUs
  <1>4. q \in RTSs(s)
    BY <1>1, <1>2 DEF Frame, Frames, RTSs
  <1>5. f # None /\ g # None
    BY <1>2, <1>3, FrameKinds
  <1> HIDE DEF g, q
  <1>6. /\ u \in Macs(s) /\ SameRts(u, x) /\ SameBlock(u, x) /\ SameBelow(u, x)
        /\ u.awaits = TRUE /\ u.broken = FALSE
    BY DEF Macs, SameRts, SameBlock, SameBelow
  <1>7. Assure(u, u.pendingMPDU = None /\ u.pendingRTS = None) = u
    <2>1. u.pendingMPDU = None /\ u.pendingRTS = None
      BY <1>6 DEF SameRts
    <2>2. Assure(u, u.pendingMPDU = None /\ u.pendingRTS = None) = [u EXCEPT !.broken = u.broken]
      BY <1>6, <2>1 DEF Assure, Macs
    <2> QED
      BY <1>6, <2>2, ZenonT(60) DEF Macs
  <1>8. y = IF f.type = "DATA" /\ large THEN [u EXCEPT !.pendingMPDU = g, !.pendingRTS = q]
            ELSE [u EXCEPT !.pendingMPDU = f]
    BY <1>7 DEF ProcessOutgoing, g, q
  <1> HIDE DEF y
  <1>9. Pends(s, y, u)
    <2>1. g \in MPDUs(s, "DATA") \cup MPDUs(s, "DATA_TXOP")
          /\ f \in MPDUs(s, "DATA") \cup MPDUs(s, "DATA_TXOP")
      BY <1>2, <1>3
    <2>2. Pends(s, [u EXCEPT !.pendingMPDU = g, !.pendingRTS = q], u)
      BY <1>4, <1>6, <2>1, PendingFields
    <2>3. Pends(s, [u EXCEPT !.pendingMPDU = f], u)
      BY <1>6, <2>1, PendingFields
    <2> QED
      BY <1>8, <2>2, <2>3
  <1>10. /\ SameBlock(y, x) /\ SameBelow(y, x) /\ y.state = x.state
         /\ y.timer = x.timer /\ y.pendingCTS = x.pendingCTS /\ y.awaits = TRUE
         /\ y.broken = FALSE
    BY <1>6, <1>9 DEF Pends, SameRts, SameBlock, SameBelow
  <1> QED
    BY <1>9, <1>10 DEF y, Pends, Processed

LEMMA Offered ==
    ASSUME NEW s \in Stations, NEW x, NEW a, NEW r, Local(s, x, a, r), Flushed(x),
           NEW type \in {"DATA", "DATA_TXOP"}, NEW reply \in BOOLEAN, NEW large \in BOOLEAN,
           x.pendingMPDU = None, ~x.awaits,
           NEW f, f = Frame(type, "MPDU", s, Peer(s), reply)
    PROVE  LET y == TryToSend(ProcessOutgoing([x EXCEPT !.awaits = TRUE], f, large)) IN
           /\ Local(s, y, a, r) /\ Flushed(y)
           /\ x.sifs # None => y.sifs = x.sifs
           /\ IsCTS(y.sifs) \/ IsReply(y.sifs) => y.sifs = x.sifs
  <1> DEFINE u == [x EXCEPT !.awaits = TRUE]
             z == ProcessOutgoing(u, f, large)
             y == TryToSend(z)
  <1>1. x \in Macs(s) /\ x.broken = FALSE /\ x.pendingRTS = None /\ x.pendingCTS = None
        /\ x.state = "idle" /\ x.timer = "off"
    BY DEF Local, Requesting, Flushed
  <1>2. /\ z \in Macs(s) /\ SameBlock(z, x) /\ SameBelow(z, x) /\ z.state = "idle"
        /\ z.timer = "off" /\ z.pendingCTS = None /\ z.awaits = TRUE
        /\ z.broken = FALSE /\ z.pendingMPDU # None
    <2>1. Processed(s, z, x)
      <3>1. u = [x EXCEPT !.awaits = TRUE]
        OBVIOUS
      <3> HIDE DEF u
      <3> QED
        BY <1>1, <3>1, ProcessFields
    <2> HIDE DEF z
    <2> QED
      BY <1>1, <2>1 DEF Processed
  <1> HIDE DEF z
  <1>3. Blocking(z, a, r)
    BY <1>2 DEF Local, Blocking, Waits, SameBlock, SameBelow
  <1>4. Requesting(z, a, r)
    BY <1>1, <1>2 DEF Local, Requesting, SameBelow
  <1>5. Awaiting(z, a)
    BY <1>2 DEF Local, Awaiting, SameBelow
  <1>6. Ready(s, z, a, r)
    BY <1>2, <1>3, <1>4, <1>5 DEF Local, Ready, SameBelow
  <1>7. Local(s, y, a, r) /\ Flushed(y) /\ Sent(y, z)
    BY <1>6, Try
  <1> HIDE DEF y
  <1>8. /\ x.sifs # None => y.sifs = x.sifs
        /\ IsCTS(y.sifs) \/ IsReply(y.sifs) => y.sifs = x.sifs
    BY <1>2, <1>7 DEF Sent, SameBelow, IsCTS
  <1> QED
    BY <1>7, <1>8 DEF y, z

-----------------------------------------------------------------------------
(* Frames that come up *)

\* Nothing but what x holds could leave as an answer.
LEMMA BlockOnDataIsReady ==
    ASSUME NEW s \in Stations, NEW x, Local(s, x, None, None), x.pendingCTS = None
    PROVE  LET y == BlockOnData(x) IN
           /\ Ready(s, y, None, None) /\ ~Waits(y) /\ y.pendingCTS = None
           /\ SameRts(y, x) /\ SameBelow(y, x) /\ SameRest(y, x)
  <1>1. CASE Waits(x)
    <2>1. BlockOnData(x) = Free(x)
      BY <1>1 DEF BlockOnData, Free
    <2>2. x \in Macs(s) /\ x.broken = FALSE /\ Blocking(x, None, None)
          /\ Requesting(x, None, None) /\ Awaiting(x, None)
      BY DEF Local
    <2> DEFINE y == Free(x)
    <2>3. /\ Ready(s, y, None, None) /\ ~Waits(y)
          /\ SameRts(y, x) /\ SameBelow(y, x) /\ SameRest(y, x)
      BY <1>1, <2>2, FreeIsReady
    <2> HIDE DEF y
    <2>4. y.pendingCTS = None
      BY <2>3 DEF SameRts
    <2> QED
      BY <2>1, <2>3, <2>4 DEF y
  <1>2. CASE ~Waits(x)
    <2>1. BlockOnData(x) = x
      BY <1>2 DEF BlockOnData
    <2>2. Ready(s, x, None, None)
      BY DEF Ready
    <2> QED
      BY <1>2, <2>1, <2>2 DEF SameRts, SameBelow, SameRest
  <1> QED
    BY <1>1, <1>2

LEMMA RTSComes ==
    ASSUME NEW s \in Stations, NEW x, Ready(s, x, None, None), ~Waits(x), x.pendingCTS = None,
           x.sifs = None, x.state \notin {"waitForCTS", "receiveCTS"},
           NEW f, f.to = s, f.from \in {Peer(s), Foreign}, NEW sinr \in SINRs,
           NEW measured \in Known, measured # Nothing
    PROVE  LET y == TryToSend(OnRTS(x, f, sinr, measured)) IN
           /\ Local(s, y, None, None) /\ Flushed(y)
           /\ IsCTS(y.sifs) => y.sifs.to = f.from /\ y.sifs.mimoFactors = measured
           /\ ~IsReply(y.sifs)
  <1> DEFINE cts == PrepareCTS(f, sinr, measured)
             z == OnRTS(x, f, sinr, measured)
             y == TryToSend(z)
  <1>0. ~IsCTS(None) /\ ~IsReply(None)
    BY FrameKinds
  <1>1. CASE x.nav \notin {None, f.from}
    <2>1. z = x
      BY <1>1 DEF OnRTS
    <2>2. Local(s, y, None, None) /\ Flushed(y) /\ Sent(y, x)
      BY <2>1, Try
    <2> HIDE DEF y
    <2>3. ~IsCTS(y.sifs) /\ ~IsReply(y.sifs)
      BY <1>0, <2>2 DEF Sent
    <2> QED
      BY <2>2, <2>3 DEF y
  <1>2. CASE x.nav \in {None, f.from}
    <2>1. x \in Macs(s) /\ x.broken = FALSE
      BY DEF Ready, Local
    <2>2. cts \in CTSs(s) /\ cts.to = f.from /\ cts.mimoFactors = measured
      <3>1. Peer(s) \in Stations /\ GetPhyMode(sinr, measured) \in Nat
        BY PeerFacts, PhyModeIsANumber
      <3>2. Reported(s, measured) = measured
        BY AllIsReported
      <3> QED
        BY <3>1, <3>2 DEF PrepareCTS, Frame, Frames, CTSs
    <2> HIDE DEF cts
    <2>3. z = [x EXCEPT !.broken = FALSE, !.pendingCTS = cts]
      <3>1. Assure(x, x.pendingCTS = None /\ measured # Nothing) = [x EXCEPT !.broken = FALSE]
        BY <2>1 DEF Assure, Macs
      <3> QED
        BY <1>2, <3>1 DEF OnRTS, cts
    <2>4. /\ z \in Macs(s) /\ SameBlock(z, x) /\ SameBelow(z, x) /\ SameRest(z, x)
          /\ z.state = x.state /\ z.timer = x.timer /\ z.pendingRTS = x.pendingRTS
          /\ z.pendingMPDU = x.pendingMPDU /\ z.pendingCTS = cts /\ z.broken = FALSE
      BY <2>1, <2>2, <2>3, ZenonT(60) DEF Macs, SameBlock, SameBelow, SameRest
    <2> HIDE DEF z
    <2>5. Blocking(z, None, None) /\ ~Waits(z)
      BY <2>4 DEF Ready, Local, Blocking, Waits, SameBlock, SameBelow
    <2>6. Requesting(z, None, None)
      BY <2>4 DEF Ready, Local, Requesting, SameBelow
    <2>7. Awaiting(z, None)
      BY <2>4 DEF Ready, Local, Awaiting, SameBelow, SameRest
    <2>8. Ready(s, z, None, None)
      BY <2>4, <2>5, <2>6, <2>7 DEF Ready, Local, SameBelow
    <2>9. Local(s, y, None, None) /\ Flushed(y) /\ Sent(y, z)
      BY <2>8, Try
    <2> HIDE DEF y
    <2>10. /\ IsCTS(y.sifs) => y.sifs.to = f.from /\ y.sifs.mimoFactors = measured
           /\ ~IsReply(y.sifs)
      BY <1>0, <2>2, <2>4, <2>9 DEF Sent, SameBelow
    <2> QED
      BY <2>9, <2>10 DEF y, z
  <1> QED
    BY <1>1, <1>2

LEMMA CTSComes ==
    ASSUME NEW s \in Stations, NEW x, Ready(s, x, None, None), x.pendingCTS = None,
           x.sifs = None, x.state = "receptionFinished",
           NEW f, f.from = Peer(s), f.reserved \in Nat,
           NEW mib, f.reserved = GetPhyMode(mib.peerSINR, mib.peerFactors)
    PROVE  LET y == TryToSend(OnCTS(x, f, mib)) IN
           Local(s, y, None, None) /\ Flushed(y) /\ ~IsCTS(y.sifs) /\ ~IsReply(y.sifs)
  <1> DEFINE m == [x.pendingMPDU EXCEPT !.phyMode = f.reserved, !.reserved = f.reserved]
             w == [x EXCEPT !.pendingMPDU = m]
             z == [w EXCEPT !.state = "idle", !.timer = "off"]
             y == TryToSend(z)
  <1>0. ~IsCTS(None) /\ ~IsReply(None)
    BY FrameKinds
  <1>1. x \in Macs(s) /\ x.broken = FALSE /\ x.pendingMPDU # None /\ x.pendingRTS = None
    BY DEF Ready, Local, Requesting
  <1>2. m \in MPDUs(s, "DATA") \cup MPDUs(s, "DATA_TXOP") /\ m.to = Peer(s)
    <2>1. x.pendingMPDU \in MPDUs(s, "DATA") \cup MPDUs(s, "DATA_TXOP")
      BY <1>1 DEF Macs
    <2> QED
      BY <2>1 DEF MPDUs, Frames
  <1>3. m # None
    BY <1>2, FrameKinds
  <1>4. Assure(x, /\ x.pendingMPDU # None
                  /\ x.state \in {"receptionFinished", "receiveCTS"}) = x
    <2>1. Assure(x, /\ x.pendingMPDU # None
                    /\ x.state \in {"receptionFinished", "receiveCTS"})
          = [x EXCEPT !.broken = x.broken]
      BY <1>1 DEF Assure, Macs
    <2> QED
      BY <1>1, <2>1 DEF Macs
  <1>5. [x EXCEPT !.pendingMPDU =
            [@ EXCEPT !.phyMode = GetPhyMode(mib.peerSINR, mib.peerFactors),
                      !.reserved = f.reserved]] = w
    OBVIOUS
  <1> HIDE DEF m
  <1>6. /\ w \in Macs(s) /\ w.pendingMPDU = m /\ SameBlock(w, x) /\ SameBelow(w, x)
        /\ w.nav = x.nav /\ w.awaits = x.awaits /\ w.broken = x.broken
        /\ w.pendingRTS = x.pendingRTS /\ w.pendingCTS = x.pendingCTS
    BY <1>1, <1>2 DEF Macs, SameBlock, SameBelow
  <1> HIDE DEF w
  <1>7. OnCTS(x, f, mib) = z
    BY <1>1, <1>2, <1>4, <1>5, <1>6 DEF OnCTS
  <1>8. /\ z \in Macs(s) /\ z.pendingMPDU = m /\ SameBlock(z, w) /\ SameBelow(z, w)
        /\ z.awaits = w.awaits /\ z.broken = w.broken /\ z.state = "idle" /\ z.timer = "off"
        /\ z.pendingRTS = w.pendingRTS /\ z.pendingCTS = w.pendingCTS
    BY <1>6, ZenonT(60) DEF Macs, Timers, SameBlock, SameBelow
  <1> HIDE DEF z
  <1>9. /\ SameBlock(z, x) /\ SameBelow(z, x) /\ z.awaits = x.awaits /\ z.broken = FALSE
        /\ z.pendingRTS = None /\ z.pendingCTS = None
    BY <1>1, <1>6, <1>8 DEF SameBlock, SameBelow
  <1>10. Blocking(z, None, None)
    BY <1>9 DEF Ready, Local, Blocking, Waits, SameBlock, SameBelow
  <1>11. Requesting(z, None, None)
    BY <1>3, <1>8, <1>9 DEF Ready, Local, Requesting, SameBelow
  <1>12. Awaiting(z, None)
    BY <1>1, <1>3, <1>8, <1>9 DEF Ready, Local, Awaiting, SameBelow
  <1>13. Ready(s, z, None, None)
    BY <1>8, <1>9, <1>10, <1>11, <1>12 DEF Ready, Local, SameBelow
  <1>14. Local(s, y, None, None) /\ Flushed(y) /\ Sent(y, z)
    BY <1>13, Try
  <1> HIDE DEF y
  <1>15. ~IsCTS(y.sifs) /\ ~IsReply(y.sifs)
    BY <1>0, <1>9, <1>14 DEF Sent, SameBelow
  <1> QED
    BY <1>7, <1>14, <1>15 DEF y

LEMMA MPDUComes ==
    ASSUME NEW s \in Stations, NEW x, Ready(s, x, None, None), ~Waits(x), x.pendingCTS = None,
           x.sifs = None, x.state \notin {"waitForCTS", "receiveCTS"},
           NEW f, f.to = s, f.from \in {Peer(s), Foreign}
    PROVE  LET y == TryToSend(OnMPDU(x, f)) IN
           /\ Local(s, y, None, None) /\ Flushed(y) /\ ~IsCTS(y.sifs)
           /\ IsReply(y.sifs) => f.reply /\ y.sifs.to = f.from
  <1> DEFINE reply == Frame("ACK", "reply", f.to, f.from, FALSE)
             z == OnMPDU(x, f)
             y == TryToSend(z)
  <1>0. ~IsCTS(None) /\ ~IsReply(None)
    BY FrameKinds
  <1>1. reply \in Replies(s) /\ reply.to = f.from /\ reply.type = "ACK"
    <2>1. Peer(s) \in Stations /\ Nothing \in Known
      BY PeerFacts, NothingIsKnown
    <2> QED
      BY <2>1 DEF Frame, Frames, Replies
  <1>2. z = IF f.reply /\ IsAccepting(x, reply) THEN [x EXCEPT !.sifs = reply] ELSE x
    BY <1>1 DEF OnMPDU, SendData
  <1> HIDE DEF reply, z
  <1>3. ~Own(reply) /\ ~IsRTS(reply) /\ ~IsMPDU(reply) /\ IsReply(reply) /\ ~IsCTS(reply)
        /\ reply # None /\ ~Own(None) /\ ~IsMPDU(None)
    BY <1>1, FrameKinds
  <1>4. CASE f.reply /\ IsAccepting(x, reply)
    <2>1. z = [x EXCEPT !.sifs = reply]
      BY <1>2, <1>4
    <2>2. x \in Macs(s) /\ x.broken = FALSE /\ x.txStatus # "transmitting"
      BY <1>1, <1>4 DEF Ready, Local, IsAccepting
    <2>3. /\ z \in Macs(s) /\ SameBlock(z, x) /\ SameRest(z, x) /\ SameRts(z, x)
          /\ z.sifs = reply /\ z.dcf = x.dcf /\ z.broken = FALSE
      BY <1>1, <2>1, <2>2 DEF Macs, AfterSIFS, SameBlock, SameRest, SameRts
    <2>4. Blocking(z, None, None)
      BY <1>3, <2>2, <2>3 DEF Ready, Local, Blocking, Waits, SameBlock
    <2>5. Requesting(z, None, None)
      BY <1>3, <2>3 DEF Ready, Local, Requesting, SameRts
    <2>6. Awaiting(z, None)
      BY <1>3, <2>3 DEF Ready, Local, Awaiting, SameRts, SameRest
    <2>7. Ready(s, z, None, None)
      BY <2>3, <2>4, <2>5, <2>6 DEF Ready, Local, SameRts
    <2>8. Local(s, y, None, None) /\ Flushed(y) /\ Sent(y, z)
      BY <2>7, Try
    <2> HIDE DEF y
    <2>9. y.sifs = reply
      BY <1>3, <2>3, <2>8 DEF Sent
    <2> QED
      BY <1>1, <1>3, <1>4, <2>8, <2>9 DEF y, z
  <1>5. CASE ~(f.reply /\ IsAccepting(x, reply))
    <2>1. z = x
      BY <1>2, <1>5
    <2>2. Local(s, y, None, None) /\ Flushed(y) /\ Sent(y, x)
      BY <2>1, Try
    <2> HIDE DEF y
    <2>3. ~IsCTS(y.sifs) /\ ~IsReply(y.sifs)
      BY <1>0, <2>2 DEF Sent
    <2> QED
      BY <2>2, <2>3 DEF y, z
  <1> QED
    BY <1>4, <1>5

LEMMA ReplyArrives ==
    ASSUME NEW s \in Stations, NEW x, Ready(s, x, None, None), x.pendingCTS = None,
           x.sifs = None, Done(x, None)
    PROVE  LET y == [x EXCEPT !.awaits = FALSE] IN
           Local(s, y, None, None) /\ Flushed(y) /\ ~IsCTS(y.sifs) /\ ~IsReply(y.sifs)
  <1> DEFINE y == [x EXCEPT !.awaits = FALSE]
  <1>0. ~IsCTS(None) /\ ~IsReply(None)
    BY FrameKinds
  <1>1. x \in Macs(s) /\ x.broken = FALSE /\ x.pendingMPDU = None /\ x.pendingRTS = None
    BY DEF Ready, Local, Requesting, Done
  <1>2. /\ y \in Macs(s) /\ SameBlock(y, x) /\ SameBelow(y, x) /\ SameRts(y, x)
        /\ y.broken = x.broken /\ y.awaits = FALSE
    BY <1>1 DEF Macs, SameBlock, SameBelow, SameRts
  <1> HIDE DEF y
  <1>3. Blocking(y, None, None)
    BY <1>2 DEF Ready, Local, Blocking, Waits, SameBlock, SameBelow
  <1>4. Requesting(y, None, None)
    BY <1>2 DEF Ready, Local, Requesting, SameRts, SameBelow
  <1>5. Awaiting(y, None)
    BY <1>1, <1>2 DEF Done, Awaiting, SameRts, SameBelow
  <1>6. Flushed(y)
    BY <1>1, <1>2 DEF Flushed, SameRts
  <1>7. Local(s, y, None, None) /\ y.sifs = None
    BY <1>1, <1>2, <1>3, <1>4, <1>5 DEF Ready, Local, SameBelow
  <1> QED
    BY <1>0, <1>6, <1>7 DEF y

LEMMA NavSet ==
    ASSUME NEW s \in Stations, NEW x, NEW a, NEW r, Local(s, x, a, r), Flushed(x),
           NEW nav \in Stations \cup {Foreign, None}
    PROVE  LET y == [x EXCEPT !.nav = nav] IN
           /\ Local(s, y, a, r) /\ Flushed(y)
           /\ SameRts(y, x) /\ SameBelow(y, x) /\ y.awaits = x.awaits
  <1> DEFINE y == [x EXCEPT !.nav = nav]
  <1>1. x \in Macs(s)
    BY DEF Local
  <1>2. /\ y \in Macs(s) /\ SameRts(y, x) /\ SameBelow(y, x) /\ SameBlock(y, x)
        /\ y.awaits = x.awaits /\ y.broken = x.broken
    BY <1>1 DEF Macs, SameRts, SameBelow, SameBlock
  <1> HIDE DEF y
  <1>3. Blocking(y, a, r)
    BY <1>2 DEF Local, Blocking, Waits, SameBlock, SameBelow
  <1>4. Requesting(y, a, r)
    BY <1>2 DEF Local, Requesting, SameRts, SameBelow
  <1>5. Awaiting(y, a)
    BY <1>2 DEF Local, Awaiting, SameRts, SameBelow
  <1>6. Flushed(y)
    BY <1>2 DEF Flushed, SameRts, SameBlock, SameBelow
  <1> QED
    BY <1>2, <1>3, <1>4, <1>5, <1>6 DEF Local, SameBelow, y

\* An answer in v is one to f, and reports what is measured.
Answers(v, f, measured) ==
  /\ IsCTS(v.sifs) =>
       f.kind = "RTS" /\ v.sifs.to = f.from /\ v.sifs.mimoFactors = measured
  /\ IsReply(v.sifs) => f.kind = "MPDU" /\ f.reply /\ v.sifs.to = f.from

\* A frame f that may come to s, whose record is x, whose state for a CTS is
\* state, and which knows mib then.
Welcome(s, x, f, state, mib) ==
  /\ f.to = s /\ f.from \in {Peer(s), Foreign} /\ f.kind \in {"RTS", "CTS", "MPDU", "reply"}
  /\ f.kind = "CTS" =>
       /\ x.state = state /\ f.from = Peer(s)
       /\ f.reserved \in Nat /\ f.reserved = GetPhyMode(mib.peerSINR, mib.peerFactors)
  /\ f.kind = "reply" => Done(x, None)

LEMMA DataComes ==
    ASSUME NEW s \in Stations, NEW x, Local(s, x, None, None), Flushed(x), x.sifs = None,
           x.state \notin {"waitForCTS", "receiveCTS"},
           NEW f, NEW sinr \in SINRs, NEW mib, mib.measured \in Known, mib.measured # Nothing,
           Welcome(s, x, f, "receptionFinished", mib)
    PROVE  LET v == OnData(x, f, sinr, mib) IN
           Local(s, v, None, None) /\ Flushed(v) /\ Answers(v, f, mib.measured)
  <1> DEFINE y == BlockOnData(x)
             v == OnData(x, f, sinr, mib)
  <1>0. x.pendingCTS = None
    BY DEF Flushed
  <1>1. /\ Ready(s, y, None, None) /\ ~Waits(y) /\ y.pendingCTS = None
        /\ SameRts(y, x) /\ SameBelow(y, x) /\ SameRest(y, x)
    BY <1>0, BlockOnDataIsReady
  <1>2. v = CASE f.kind = "RTS" -> TryToSend(OnRTS(y, f, sinr, mib.measured))
              [] f.kind = "CTS" -> TryToSend(OnCTS(y, f, mib))
              [] f.kind = "MPDU" -> TryToSend(OnMPDU(y, f))
              [] f.kind = "reply" -> [y EXCEPT !.awaits = FALSE]
    BY DEF OnData
  <1> HIDE DEF y, v
  <1>3. y.sifs = None /\ y.dcf = x.dcf /\ y.state = x.state /\ y.pendingMPDU = x.pendingMPDU
        /\ y.awaits = x.awaits
    BY <1>1 DEF SameRts, SameBelow, SameRest
  <1>4. /\ f.to = s /\ f.from \in {Peer(s), Foreign}
        /\ f.kind \in {"RTS", "CTS", "MPDU", "reply"}
    BY DEF Welcome
  <1>5. CASE f.kind = "RTS"
    <2>1. v = TryToSend(OnRTS(y, f, sinr, mib.measured))
      BY <1>2, <1>5
    <2>2. /\ Local(s, v, None, None) /\ Flushed(v) /\ ~IsReply(v.sifs)
          /\ IsCTS(v.sifs) => v.sifs.to = f.from /\ v.sifs.mimoFactors = mib.measured
      BY <1>1, <1>3, <1>4, <2>1, RTSComes
    <2> QED
      BY <1>5, <2>2 DEF Answers, v
  <1>6. CASE f.kind = "CTS"
    <2>1. v = TryToSend(OnCTS(y, f, mib))
      BY <1>2, <1>6
    <2>2. /\ x.state = "receptionFinished" /\ f.from = Peer(s) /\ f.reserved \in Nat
          /\ f.reserved = GetPhyMode(mib.peerSINR, mib.peerFactors)
      BY <1>6 DEF Welcome
    <2>3. Local(s, v, None, None) /\ Flushed(v) /\ ~IsCTS(v.sifs) /\ ~IsReply(v.sifs)
      BY <1>1, <1>3, <2>1, <2>2, CTSComes
    <2> QED
      BY <2>3 DEF Answers, v
  <1>7. CASE f.kind = "MPDU"
    <2>1. v = TryToSend(OnMPDU(y, f))
      BY <1>2, <1>7
    <2>2. Local(s, v, None, None) /\ Flushed(v) /\ ~IsCTS(v.sifs)
          /\ (IsReply(v.sifs) => f.reply /\ v.sifs.to = f.from)
      BY <1>1, <1>3, <1>4, <2>1, MPDUComes
    <2> QED
      BY <1>7, <2>2 DEF Answers, v
  <1>8. CASE f.kind = "reply"
    <2>1. v = [y EXCEPT !.awaits = FALSE]
      BY <1>2, <1>8
    <2>2. Done(y, None)
      BY <1>3, <1>8 DEF Welcome, Done
    <2>3. Local(s, v, None, None) /\ Flushed(v) /\ ~IsCTS(v.sifs) /\ ~IsReply(v.sifs)
      BY <1>1, <1>3, <2>1, <2>2, ReplyArrives
    <2> QED
      BY <2>3 DEF Answers, v
  <1> QED
    BY <1>4, <1>5, <1>6, <1>7, <1>8

LEMMA Receives ==
    ASSUME NEW s \in Stations, NEW x, NEW r, r # None, Local(s, x, None, r), Flushed(x),
           x.sifs = None, NEW f, f.from \in Stations \cup {Foreign},
           NEW sinr \in SINRs, NEW mib, mib.measured \in Known, mib.measured # Nothing,
           f.to = s => Welcome(s, x, f, "receiveCTS", mib),
           NEW v, v \in Garbled(x) \/ v = Decoded(x, f, s, sinr, mib)
    PROVE  Local(s, v, None, None) /\ Flushed(v) /\ Answers(v, f, mib.measured)
  <1>0. ~IsCTS(None) /\ ~IsReply(None)
    BY FrameKinds
  <1> DEFINE e == OnRxError(x)
             y == OnRxEnd(x)
  <1>1. Local(s, e, None, None) /\ Flushed(e) /\ Mild(e, x) /\ ~Waits(e)
    BY RxError
  <1>2. /\ Local(s, y, None, None) /\ Flushed(y)
        /\ SamePending(y, x) /\ SameBelow(y, x) /\ SameRest(y, x)
        /\ y.state \notin {"waitForCTS", "receiveCTS"}
        /\ x.state = "receiveCTS" => y.state = "receptionFinished"
    BY RxEnd
  <1> HIDE DEF e, y
  <1>3. CASE v = OnRxEnd(e)
    <2>1. v = e
      BY <1>1, <1>3, RxEndOfNothing
    <2>2. ~IsCTS(v.sifs) /\ ~IsReply(v.sifs)
      BY <1>0, <1>1, <2>1 DEF Mild
    <2> QED
      BY <1>1, <2>1, <2>2 DEF Answers
  <1>4. CASE v = OnRxError(y)
    <2>1. Local(s, v, None, None) /\ Flushed(v) /\ Mild(v, y)
      BY <1>2, <1>4, RxError
    <2>2. ~IsCTS(v.sifs) /\ ~IsReply(v.sifs)
      BY <1>0, <1>2, <2>1 DEF Mild, SameBelow
    <2> QED
      BY <2>1, <2>2 DEF Answers
  <1>5. CASE f.to = s /\ v = OnData(y, f, sinr, mib)
    <2>1. Welcome(s, y, f, "receptionFinished", mib)
      BY <1>2, <1>5 DEF Welcome, Done, SamePending, SameBelow, SameRest
    <2>2. y.sifs = None
      BY <1>2 DEF SameBelow
    <2> QED
      BY <1>2, <1>5, <2>1, <2>2, DataComes
  <1>6. CASE v = [y EXCEPT !.nav = f.from]
    <2>1. Local(s, v, None, None) /\ Flushed(v) /\ SameBelow(v, y)
      BY <1>2, <1>6, NavSet
    <2>2. ~IsCTS(v.sifs) /\ ~IsReply(v.sifs)
      BY <1>0, <1>2, <2>1 DEF SameBelow
    <2> QED
      BY <2>1, <2>2 DEF Answers
  <1> QED
    BY <1>3, <1>4, <1>5, <1>6 DEF Garbled, Decoded, e, y

-----------------------------------------------------------------------------
(* Two stations *)

LEMMA BothPrimed ==
    ASSUME NEW s \in Stations, Shape',
           Both(s, mac'[s], air'[s], rx'[s], mac'[Peer(s)], air'[Peer(s)], rx'[Peer(s)],
                sinrMIB'[s], sinrMIB'[Peer(s)])
    PROVE  IInv'
  <1>1. Peer(Peer(s)) = s /\ \A t \in Stations : t = s \/ t = Peer(s)
    BY PeerFacts
  <1>2. Both(Peer(s), mac'[Peer(s)], air'[Peer(s)], rx'[Peer(s)], mac'[s], air'[s], rx'[s],
             sinrMIB'[Peer(s)], sinrMIB'[s])
    BY <1>1 DEF Both
  <1>3. ASSUME NEW t \in Stations
        PROVE  Both(t, mac'[t], air'[t], rx'[t], mac'[Peer(t)], air'[Peer(t)], rx'[Peer(t)],
                    sinrMIB'[t], sinrMIB'[Peer(t)])
    <2>1. CASE t = s
      BY <2>1
    <2>2. CASE t = Peer(s)
      BY <1>1, <1>2, <2>2
    <2> QED
      BY <1>1, <2>1, <2>2
  <1> QED
    BY <1>3 DEF IInv

\* A step of s alone that neither sends nor receives.
LEMMA MildStep ==
    ASSUME NEW s \in Stations, NEW x, NEW a, NEW r, NEW y, NEW b, NEW q,
           NEW i, NEW j, Both(s, x, a, r, y, b, q, i, j),
           NEW z, Local(s, z, a, r), Flushed(z), Mild(z, x),
           IsCTS(y.sifs) /\ y.sifs.to = s /\ Expects(x) => Expects(z),
           x.state = "receiveCTS" => z.state = "receiveCTS"
    PROVE  Both(s, z, a, r, y, b, q, i, j)
  <1>1. ~IsMPDU(None)
    BY FrameKinds
  <1>2. Done(x, a) => Done(z, a)
    BY DEF Mild, Done
  <1>3. Cross(s, z, a, r, y, b)
    BY <1>2 DEF Both, Cross
  <1>4. Cross(Peer(s), y, b, q, z, a)
    BY DEF Both, Cross, Mild
  <1>5. Informed(Peer(s), q, z, a, j, i)
    BY DEF Both, Informed, Mild
  <1> QED
    BY <1>3, <1>4, <1>5 DEF Both

LEMMA StepRts ==
    ASSUME NEW s \in Stations, NEW x, NEW a, NEW r, Local(s, x, a, r), Flushed(x),
           NEW kind \in {"short", "reply"}
    PROVE  LET y == IF x.timer = kind THEN RtsOnTimeout(x) ELSE x IN
           /\ Local(s, y, a, r) /\ Flushed(y) /\ Mild(y, x)
           /\ x.state = "receiveCTS" => y.state = "receiveCTS"
           /\ kind = "short" /\ Expects(x) => Expects(y)
  <1>1. CASE x.timer = kind
    BY <1>1, RtsTimeout DEF Expects
  <1>2. CASE x.timer # kind
    BY <1>2 DEF Mild
  <1> QED
    BY <1>1, <1>2

LEMMA StepBlock ==
    ASSUME NEW s \in Stations, NEW x, NEW a, NEW r, Local(s, x, a, r), Flushed(x),
           NEW kind \in {"short", "reply"}
    PROVE  LET y == IF x.blockTimer = kind THEN BlockOnTimeout(x) ELSE x IN
           /\ Local(s, y, a, r) /\ Flushed(y) /\ Mild(y, x)
           /\ x.state = "receiveCTS" => y.state = "receiveCTS"
           /\ Expects(x) => Expects(y)
  <1>1. CASE x.blockTimer = kind
    BY <1>1, LocalUnblocks DEF Expects
  <1>2. CASE x.blockTimer # kind
    BY <1>2 DEF Mild
  <1> QED
    BY <1>1, <1>2

LEMMA MildTwice ==
    ASSUME NEW x, NEW y, NEW z, Mild(y, x), Mild(z, y)
    PROVE  Mild(z, x)
  BY DEF Mild

LEMMA ExpireKeeps ==
    ASSUME IInv, NEW s \in Stations, NEW kind \in {"short", "reply"}, Expire(s, kind),
           kind = "reply" => ~ReplyComes(s)
    PROVE  IInv'
  <1> DEFINE x == mac[s]
             Rts(y) == IF y.timer = kind THEN RtsOnTimeout(y) ELSE y
             Block(y) == IF y.blockTimer = kind THEN BlockOnTimeout(y) ELSE y
             p == Peer(s)
  <1>1. /\ Both(s, x, air[s], rx[s], mac[p], air[p], rx[p], sinrMIB[s], sinrMIB[p])
        /\ p \in Stations /\ p # s
    BY PeerFacts DEF IInv
  <1>2. Local(s, x, air[s], rx[s]) /\ Flushed(x)
    BY <1>1 DEF Both
  <1>3. PICK z : /\ z = Rts(Block(x)) \/ z = Block(Rts(x))
                 /\ mac' = [mac EXCEPT ![s] = z]
    BY DEF Expire, Becomes
  <1>4. /\ Local(s, z, air[s], rx[s]) /\ Flushed(z) /\ Mild(z, x)
        /\ x.state = "receiveCTS" => z.state = "receiveCTS"
        /\ kind = "short" /\ Expects(x) => Expects(z)
    <2>1. CASE z = Rts(Block(x))
      <3> DEFINE u == Block(x)
      <3>1. /\ Local(s, u, air[s], rx[s]) /\ Flushed(u) /\ Mild(u, x)
            /\ x.state = "receiveCTS" => u.state = "receiveCTS"
            /\ Expects(x) => Expects(u)
        BY <1>2, StepBlock
      <3> HIDE DEF u
      <3>2. /\ Local(s, z, air[s], rx[s]) /\ Flushed(z) /\ Mild(z, u)
            /\ u.state = "receiveCTS" => z.state = "receiveCTS"
            /\ kind = "short" /\ Expects(u) => Expects(z)
        <4>1. z = IF u.timer = kind THEN RtsOnTimeout(u) ELSE u
          BY <2>1 DEF u
        <4> QED
          BY <3>1, <4>1, StepRts
      <3>3. Mild(z, x)
        BY <3>1, <3>2, MildTwice
      <3> QED
        BY <3>1, <3>2, <3>3
    <2>2. CASE z = Block(Rts(x))
      <3> DEFINE u == Rts(x)
      <3>1. /\ Local(s, u, air[s], rx[s]) /\ Flushed(u) /\ Mild(u, x)
            /\ x.state = "receiveCTS" => u.state = "receiveCTS"
            /\ kind = "short" /\ Expects(x) => Expects(u)
        BY <1>2, StepRts
      <3> HIDE DEF u
      <3>2. /\ Local(s, z, air[s], rx[s]) /\ Flushed(z) /\ Mild(z, u)
            /\ u.state = "receiveCTS" => z.state = "receiveCTS"
            /\ Expects(u) => Expects(z)
        <4>1. z = IF u.blockTimer = kind THEN BlockOnTimeout(u) ELSE u
          BY <2>2 DEF u
        <4> QED
          BY <3>1, <4>1, StepBlock
      <3>3. Mild(z, x)
        BY <3>1, <3>2, MildTwice
      <3> QED
        BY <3>1, <3>2, <3>3
    <2> QED
      BY <1>3, <2>1, <2>2
  <1>5. IsCTS(mac[p].sifs) /\ mac[p].sifs.to = s /\ Expects(x) => Expects(z)
    BY <1>4 DEF ReplyComes, IsCTS
  <1>6. Both(s, z, air[s], rx[s], mac[p], air[p], rx[p], sinrMIB[s], sinrMIB[p])
    BY <1>1, <1>4, <1>5, MildStep
  <1>7. UNCHANGED <<sinrMIB, air, rx>>
    BY DEF Expire
  <1>8. Shape' /\ mac'[s] = z /\ mac'[p] = mac[p]
    BY <1>1, <1>3, <1>7 DEF IInv, Shape
  <1> QED
    BY <1>6, <1>7, <1>8, BothPrimed

LEMMA OfferKeeps ==
    ASSUME IInv, NEW s \in Stations, NEW type \in {"DATA", "DATA_TXOP"},
           NEW reply \in BOOLEAN, NEW large \in BOOLEAN, Offer(s, type, reply, large)
    PROVE  IInv'
  <1> DEFINE x == mac[s]
             p == Peer(s)
             f == Frame(type, "MPDU", s, p, reply)
             z == TryToSend(ProcessOutgoing([x EXCEPT !.awaits = TRUE], f, large))
  <1>1. /\ Both(s, x, air[s], rx[s], mac[p], air[p], rx[p], sinrMIB[s], sinrMIB[p])
        /\ p \in Stations /\ p # s
    BY PeerFacts DEF IInv
  <1>2. Local(s, x, air[s], rx[s]) /\ Flushed(x) /\ x.pendingMPDU = None /\ ~x.awaits
    BY <1>1 DEF Both, Offer
  <1>3. mac' = [mac EXCEPT ![s] = z] /\ UNCHANGED <<sinrMIB, air, rx>>
    BY DEF Offer, Becomes
  <1>4. /\ Local(s, z, air[s], rx[s]) /\ Flushed(z)
        /\ x.sifs # None => z.sifs = x.sifs
        /\ IsCTS(z.sifs) \/ IsReply(z.sifs) => z.sifs = x.sifs
    BY <1>2, Offered
  <1> HIDE DEF z
  <1>5. ~Expects(x) /\ ~Done(x, air[s]) /\ x.state # "receiveCTS"
    BY <1>2 DEF Local, Requesting, Expects, Done
  <1>6. Cross(s, z, air[s], rx[s], mac[p], air[p])
    BY <1>1, <1>5 DEF Both, Cross
  <1>7. Cross(p, mac[p], air[p], rx[p], z, air[s])
    BY <1>1, <1>4 DEF Both, Cross
  <1>8. Both(s, z, air[s], rx[s], mac[p], air[p], rx[p], sinrMIB[s], sinrMIB[p])
    <2>1. Informed(p, rx[p], z, air[s], sinrMIB[p], sinrMIB[s])
      BY <1>1, <1>4 DEF Both, Informed
    <2> QED
      BY <1>1, <1>4, <1>6, <1>7, <2>1 DEF Both
  <1>9. Shape' /\ mac'[s] = z /\ mac'[p] = mac[p]
    BY <1>1, <1>3 DEF IInv, Shape
  <1> QED
    BY <1>3, <1>8, <1>9, BothPrimed

LEMMA NavIdleKeeps ==
    ASSUME IInv, NEW s \in Stations, NavIdle(s)
    PROVE  IInv'
  <1> DEFINE x == mac[s]
             p == Peer(s)
             z == [x EXCEPT !.nav = None]
  <1>1. /\ Both(s, x, air[s], rx[s], mac[p], air[p], rx[p], sinrMIB[s], sinrMIB[p])
        /\ p \in Stations /\ p # s
    BY PeerFacts DEF IInv
  <1>2. Local(s, x, air[s], rx[s]) /\ Flushed(x)
    BY <1>1 DEF Both
  <1>3. mac' = [mac EXCEPT ![s] = z] /\ UNCHANGED <<sinrMIB, air, rx>>
    BY DEF NavIdle, Becomes
  <1>4. /\ Local(s, z, air[s], rx[s]) /\ Flushed(z)
        /\ SameRts(z, x) /\ SameBelow(z, x) /\ z.awaits = x.awaits
    BY <1>2, NavSet
  <1> HIDE DEF z
  <1>5. Mild(z, x) /\ (Expects(x) => Expects(z)) /\ z.state = x.state
    BY <1>4 DEF Mild, Expects, SameRts, SameBelow
  <1>6. Both(s, z, air[s], rx[s], mac[p], air[p], rx[p], sinrMIB[s], sinrMIB[p])
    BY <1>1, <1>4, <1>5, MildStep
  <1>7. Shape' /\ mac'[s] = z /\ mac'[p] = mac[p]
    BY <1>1, <1>3 DEF IInv, Shape
  <1> QED
    BY <1>3, <1>6, <1>7, BothPrimed

LEMMA ArqTimeoutKeeps ==
    ASSUME IInv, NEW s \in Stations, ArqTimeout(s)
    PROVE  IInv'
  <1> DEFINE x == mac[s]
             p == Peer(s)
             z == [x EXCEPT !.awaits = FALSE]
  <1>1. /\ Both(s, x, air[s], rx[s], mac[p], air[p], rx[p], sinrMIB[s], sinrMIB[p])
        /\ p \in Stations /\ p # s
    BY PeerFacts DEF IInv
  <1>2. Local(s, x, air[s], rx[s]) /\ Flushed(x) /\ x \in Macs(s)
    BY <1>1 DEF Both, Local
  <1>3. mac' = [mac EXCEPT ![s] = z] /\ UNCHANGED <<sinrMIB, air, rx>>
    BY DEF ArqTimeout
  <1>4. /\ z \in Macs(s) /\ SameRts(z, x) /\ SameBelow(z, x) /\ SameBlock(z, x)
        /\ z.broken = x.broken /\ z.awaits = FALSE
    BY <1>2 DEF Macs, SameRts, SameBelow, SameBlock
  <1> HIDE DEF z
  <1>5. /\ x.pendingMPDU = None /\ ~IsMPDU(x.sifs) /\ ~IsMPDU(x.dcf) /\ ~IsMPDU(air[s])
        /\ rx[s] = None
    BY DEF ArqTimeout, Underway, IsMPDU
  <1>6. Blocking(z, air[s], rx[s])
    BY <1>2, <1>4 DEF Local, Blocking, Waits, SameBlock, SameBelow
  <1>7. Requesting(z, air[s], rx[s])
    BY <1>2, <1>4 DEF Local, Requesting, SameRts, SameBelow
  <1>8. Awaiting(z, air[s])
    BY <1>4, <1>5 DEF Awaiting, SameRts, SameBelow
  <1>9. Flushed(z)
    BY <1>2, <1>4 DEF Flushed, SameRts, SameBlock, SameBelow
  <1>10. Local(s, z, air[s], rx[s])
    BY <1>2, <1>4, <1>6, <1>7, <1>8 DEF Local, SameBelow
  <1>11. Cross(s, z, air[s], rx[s], mac[p], air[p])
    <2>1. Expects(x) => Expects(z)
      BY <1>4 DEF Expects, SameRts
    <2>2. ~(IsReply(mac[p].sifs) /\ mac[p].sifs.to = s)
      BY DEF ArqTimeout, ReplyComes, IsReply
    <2>3. rx[s] # p
      BY <1>5, PeerFacts
    <2> QED
      BY <1>1, <2>1, <2>2, <2>3 DEF Both, Cross
  <1>12. Cross(p, mac[p], air[p], rx[p], z, air[s])
    BY <1>1, <1>4 DEF Both, Cross, SameBelow
  <1>13. Both(s, z, air[s], rx[s], mac[p], air[p], rx[p], sinrMIB[s], sinrMIB[p])
    <2>1. Informed(p, rx[p], z, air[s], sinrMIB[p], sinrMIB[s])
      BY <1>1, <1>4 DEF Both, Informed, SameBelow
    <2> QED
      BY <1>1, <1>9, <1>10, <1>11, <1>12, <2>1 DEF Both
  <1>14. Shape' /\ mac'[s] = z /\ mac'[p] = mac[p]
    BY <1>1, <1>3 DEF IInv, Shape
  <1> QED
    BY <1>3, <1>13, <1>14, BothPrimed

LEMMA ForeignStartsKeeps ==
    ASSUME IInv, NEW s \in Stations, ForeignStarts(s)
    PROVE  IInv'
  <1> DEFINE x == mac[s]
             p == Peer(s)
             u == IF rx[s] # None THEN OnRxError(x) ELSE x
             z == OnRxStart(u)
  <1>1. /\ Both(s, x, air[s], rx[s], mac[p], air[p], rx[p], sinrMIB[s], sinrMIB[p])
        /\ p \in Stations /\ p # s /\ p # Foreign
    BY PeerFacts DEF IInv
  <1>2. Local(s, x, None, rx[s]) /\ Flushed(x) /\ ~Short(x) /\ air[s] = None
    BY <1>1 DEF Both, ForeignStarts, Settled
  <1>3. mac' = [mac EXCEPT ![s] = z] /\ rx' = [rx EXCEPT ![s] = Foreign]
        /\ UNCHANGED <<sinrMIB, air>>
    BY DEF ForeignStarts, Becomes
  <1>4. /\ Local(s, u, None, None) /\ Flushed(u) /\ Mild(u, x) /\ ~Short(u)
        /\ Expects(x) => Expects(u)
    <2>1. CASE rx[s] # None
      BY <1>2, <2>1, RxError
    <2>2. CASE rx[s] = None
      BY <1>2, <2>2 DEF Mild
    <2> QED
      BY <2>1, <2>2
  <1> HIDE DEF u
  <1>5. /\ Local(s, z, None, Foreign) /\ Flushed(z) /\ Mild(z, u)
        /\ Expects(u) => z.state = "receiveCTS" /\ z.timer = "reply"
    BY <1>4, RxStart
  <1> HIDE DEF z
  <1>6. Mild(z, x)
    BY <1>4, <1>5, MildTwice
  <1>7. Cross(s, z, None, Foreign, mac[p], air[p])
    <2>1. Expects(x) => Expects(z)
      BY <1>4, <1>5 DEF Expects
    <2>2. Done(x, None) => Done(z, None)
      BY <1>6 DEF Mild, Done
    <2> QED
      BY <1>1, <1>2, <2>1, <2>2 DEF Both, Cross
  <1>8. Cross(p, mac[p], air[p], rx[p], z, None)
    BY <1>1, <1>2, <1>6 DEF Both, Cross, Mild
  <1>9. Both(s, z, None, Foreign, mac[p], air[p], rx[p], sinrMIB[s], sinrMIB[p])
    <2>1. Informed(s, Foreign, mac[p], air[p], sinrMIB[s], sinrMIB[p])
      BY <1>1 DEF Both, Informed
    <2>2. Informed(p, rx[p], z, None, sinrMIB[p], sinrMIB[s])
      BY <1>1, <1>2, <1>6 DEF Both, Informed, Mild
    <2> QED
      BY <1>1, <1>5, <1>7, <1>8, <2>1, <2>2 DEF Both
  <1>10. Shape' /\ mac'[s] = z /\ mac'[p] = mac[p] /\ rx'[s] = Foreign /\ rx'[p] = rx[p]
    BY <1>1, <1>3 DEF IInv, Shape
  <1> QED
    BY <1>2, <1>3, <1>9, <1>10, BothPrimed

LEMMA ForeignEndsKeeps ==
    ASSUME IInv, NEW s \in Stations, ForeignEnds(s)
    PROVE  IInv'
  <1> DEFINE x == mac[s]
             p == Peer(s)
  <1>1. /\ Both(s, x, air[s], rx[s], mac[p], air[p], rx[p], sinrMIB[s], sinrMIB[p])
        /\ p \in Stations /\ p # s /\ p # Foreign
    BY PeerFacts DEF IInv
  <1>2. rx[s] = Foreign /\ x.sifs = None /\ mac[p].sifs = None
    BY <1>1 DEF ForeignEnds
  <1>3. Foreign # None /\ None \notin Stations
    BY NoneAssumption
  <1>4. Local(s, x, None, Foreign) /\ Flushed(x) /\ air[s] = None
    BY <1>1, <1>2, <1>3 DEF Both, Local
  <1> DEFINE sinr == CHOOSE q \in SINRs : TRUE
             mib == OfForeign(sinrMIB[s])
  <1>0. sinr \in SINRs /\ mib.measured \in Known /\ mib.measured # Nothing
    <2>1. sinr \in SINRs /\ (CHOOSE t \in Trainings : TRUE) \in Trainings
      BY ModesAssumption
    <2>2. sinrMIB[s] \in Bases
      BY <1>1 DEF Both, Informed
    <2>3. mib.measured = CHOOSE t \in Trainings : TRUE
      BY <2>2 DEF OfForeign, Bases
    <2> QED
      BY <2>1, <2>3, TrainingIsKnown
  <1>5. PICK f, z :
          /\ f \in ForeignFrames(s)
          /\ z \in Garbled(x) \/ z = Decoded(x, f, s, sinr, mib)
          /\ mac' = [mac EXCEPT ![s] = z]
    <2>1. Frame("DATA", "MPDU", Foreign, None, FALSE) \in ForeignFrames(s)
      BY DEF ForeignFrames
    <2> QED
      BY <2>1 DEF ForeignEnds, Becomes
  <1>6. /\ f \in ForeignFrames(s)
        /\ z \in Garbled(x) \/ z = Decoded(x, f, s, sinr, mib)
        /\ mac' = [mac EXCEPT ![s] = z]
    BY <1>5
  <1> HIDE DEF sinr, mib
  <1>7. f.from = Foreign /\ f.to \in {s, None} /\ f.kind \in {"RTS", "MPDU"}
    BY <1>6 DEF ForeignFrames, Frame
  <1>8. f.to = s => Welcome(s, x, f, "receiveCTS", mib)
    BY <1>7 DEF Welcome
  <1>9. Local(s, z, None, None) /\ Flushed(z) /\ Answers(z, f, mib.measured)
    BY <1>0, <1>3, <1>2, <1>4, <1>6, <1>7, <1>8, Receives
  <1>10. ~IsCTS(None) /\ ~IsReply(None)
    BY FrameKinds
  <1>11. Cross(s, z, None, None, mac[p], air[p])
    BY <1>1, <1>2, <1>3, <1>10 DEF Cross
  <1>12. Cross(p, mac[p], air[p], rx[p], z, None)
    BY <1>1, <1>4, <1>7, <1>9 DEF Both, Cross, Answers
  <1>13. Both(s, z, None, None, mac[p], air[p], rx[p], sinrMIB[s], sinrMIB[p])
    <2>1. Informed(s, None, mac[p], air[p], sinrMIB[s], sinrMIB[p])
      BY <1>1, PeerFacts DEF Both, Informed
    <2>2. Informed(p, rx[p], z, None, sinrMIB[p], sinrMIB[s])
      BY <1>1, <1>7, <1>9, <1>10 DEF Both, Informed, Answers
    <2> QED
      BY <1>1, <1>9, <1>11, <1>12, <2>1, <2>2 DEF Both
  <1>14. rx' = [rx EXCEPT ![s] = None] /\ UNCHANGED <<sinrMIB, air>>
    BY DEF ForeignEnds
  <1>15. Shape' /\ mac'[s] = z /\ mac'[p] = mac[p] /\ rx'[s] = None /\ rx'[p] = rx[p]
    BY <1>1, <1>6, <1>14 DEF IInv, Shape
  <1> QED
    BY <1>4, <1>13, <1>14, <1>15, BothPrimed

\* The own transmission of a frame f starts, of which w is the record of s then;
\* the peer is synchronized to it or not.
StartsWith(s, f, w) ==
  LET p == Peer(s) IN
  /\ air' = [air EXCEPT ![s] = f]
  /\ \/ /\ rx' = [rx EXCEPT ![s] = None] /\ mac' = [mac EXCEPT ![s] = w]
        /\ UNCHANGED sinrMIB
     \/ /\ air[p] = None
        /\ rx' = [rx EXCEPT ![s] = None, ![p] = s]
        /\ mac' = [mac EXCEPT ![s] = w,
                     ![p] = OnRxStart(IF rx[p] # None THEN OnRxError(mac[p]) ELSE mac[p])]
        /\ \E t \in Trainings :
             sinrMIB' = [sinrMIB EXCEPT ![p] = PutFactorMeasurement(@, t)]

LEMMA StartsKeeps ==
    ASSUME IInv, NEW s \in Stations, Settled, air[s] = None,
           NEW f, f \in {mac[s].sifs, mac[s].dcf}, f # None,
           NEW w, Local(s, w, f, None), Flushed(w), Done(mac[s], None) => Done(w, f),
           StartsWith(s, f, w)
    PROVE  IInv'
  <1> DEFINE x == mac[s]
             p == Peer(s)
             y == mac[p]
             u == IF rx[p] # None THEN OnRxError(y) ELSE y
             v == OnRxStart(u)
  <1> DEFINE i == sinrMIB[s]
             j == sinrMIB[p]
  <1>1. /\ Both(s, x, None, rx[s], y, air[p], rx[p], i, j)
        /\ p \in Stations /\ p # s /\ p # Foreign /\ p # None /\ Peer(p) = s
    BY PeerFacts DEF IInv
  <1>2. ~Expects(x) /\ x.state # "receiveCTS"
    BY <1>1 DEF Both, Local, Requesting, Expects
  <1>3. ~(IsCTS(y.sifs) /\ y.sifs.to = s)
    BY <1>1, <1>2 DEF Both, Cross
  <1>4. IsReply(y.sifs) /\ y.sifs.to = s => Done(w, f)
    BY <1>1 DEF Both, Cross
  <1>5. ~IsCTS(w.sifs) /\ ~IsReply(w.sifs)
    BY DEF Local
  <1>6. f = x.sifs \/ ~(IsCTS(f) \/ IsReply(f))
    <2>1. CASE f = x.dcf
      <3>1. f \in AfterBackoff(s)
        BY <1>1, <2>1 DEF Both, Local, Macs
      <3> QED
        BY <3>1, FrameKinds DEF AfterBackoff
    <2> QED
      BY <2>1
  <1>7. /\ IsCTS(f) /\ f.to = p => Expects(y)
        /\ IsReply(f) /\ f.to = p => Done(y, air[p])
    BY <1>1, <1>6 DEF Both, Cross
  <1>10. air' = [air EXCEPT ![s] = f]
    BY DEF StartsWith
  <1>11. /\ Informed(s, rx[s], y, air[p], i, j) /\ Informed(p, rx[p], x, None, j, i)
         /\ IsCTS(f) => f = x.sifs
    BY <1>1, <1>6 DEF Both
  <1>8. CASE /\ rx' = [rx EXCEPT ![s] = None] /\ mac' = [mac EXCEPT ![s] = w]
             /\ UNCHANGED sinrMIB
    <2>1. Cross(s, w, f, None, y, air[p])
      BY <1>1, <1>3, <1>4 DEF Cross
    <2>2. rx[p] # s
      BY <1>1 DEF Both, Cross
    <2>3. Cross(p, y, air[p], rx[p], w, f)
      BY <1>1, <1>5, <2>2 DEF Cross
    <2>6. Informed(s, None, y, air[p], i, j) /\ Informed(p, rx[p], w, f, j, i)
      BY <1>1, <1>5, <1>11 DEF Informed
    <2>4. Both(s, w, f, None, y, air[p], rx[p], i, j)
      BY <1>1, <2>1, <2>3, <2>6 DEF Both
    <2>5. /\ Shape' /\ mac'[s] = w /\ mac'[p] = y /\ air'[s] = f /\ air'[p] = air[p]
          /\ rx'[s] = None /\ rx'[p] = rx[p] /\ sinrMIB'[s] = i /\ sinrMIB'[p] = j
      BY <1>1, <1>8, <1>10 DEF IInv, Shape
    <2> QED
      BY <2>4, <2>5, BothPrimed
  <1>9. CASE /\ air[p] = None
             /\ rx' = [rx EXCEPT ![s] = None, ![p] = s]
             /\ mac' = [mac EXCEPT ![s] = w, ![p] = v]
             /\ \E t \in Trainings :
                  sinrMIB' = [sinrMIB EXCEPT ![p] = PutFactorMeasurement(@, t)]
    <2>1. Local(p, y, None, rx[p]) /\ Flushed(y) /\ ~Short(y)
      BY <1>1, <1>9 DEF Both, Settled
    <2>2. /\ Local(p, u, None, None) /\ Flushed(u) /\ Mild(u, y) /\ ~Short(u)
          /\ Expects(y) => Expects(u)
      <3>1. CASE rx[p] # None
        BY <1>1, <2>1, <3>1, RxError
      <3>2. CASE rx[p] = None
        BY <2>1, <3>2 DEF Mild
      <3> QED
        BY <3>1, <3>2
    <2>3. v = OnRxStart(u)
      OBVIOUS
    <2> HIDE DEF u, v
    <2>4. /\ Local(p, v, None, s) /\ Flushed(v) /\ Mild(v, u)
          /\ Expects(u) => v.state = "receiveCTS" /\ v.timer = "reply"
      BY <1>1, <2>2, <2>3, RxStart
    <2>5. Mild(v, y)
      BY <2>2, <2>4, MildTwice
    <2>6. Cross(s, w, f, None, v, None)
      BY <1>1, <1>3, <1>4, <2>5 DEF Cross, Mild
    <2>7. Cross(p, v, None, s, w, f)
      <3>1. IsCTS(f) /\ f.to = p => v.state = "receiveCTS"
        BY <1>7, <2>2, <2>4
      <3>2. Done(y, None) => Done(v, None)
        BY <2>5 DEF Mild, Done
      <3> QED
        BY <1>1, <1>5, <1>7, <1>9, <3>1, <3>2 DEF Cross
    <2>10. PICK t \in Trainings :
             sinrMIB' = [sinrMIB EXCEPT ![p] = PutFactorMeasurement(@, t)]
      BY <1>9
    <2> DEFINE k == PutFactorMeasurement(j, t)
    <2>11. /\ k \in Bases /\ k.peerFactors = j.peerFactors /\ k.measured # Nothing
           /\ DOMAIN j.measured \subseteq DOMAIN k.measured
      <3>1. j \in Bases
        BY <1>11 DEF Informed
      <3>2. k = [j EXCEPT !.measured = PutFactors(j.measured, t)]
        BY DEF PutFactorMeasurement
      <3>3. t \in Known /\ DOMAIN t # {} /\ j.measured \in Known
        BY <3>1, TrainingIsKnown DEF Bases
      <3>4. /\ PutFactors(j.measured, t) \in Known
            /\ DOMAIN PutFactors(j.measured, t) = DOMAIN j.measured \cup DOMAIN t
        BY <3>3, PutFactorsKnown
      <3>5. PutFactors(j.measured, t) # Nothing
        BY <3>3, <3>4, NothingIsKnown
      <3> QED
        BY <3>1, <3>2, <3>4, <3>5 DEF Bases
    <2> HIDE DEF k
    <2>12. ~IsCTS(None) /\ s = Peer(p)
      BY <1>1, FrameKinds
    <2>13. Informed(s, None, v, None, i, k)
      BY <1>1, <1>11, <2>5, <2>11, <2>12 DEF Informed, Mild
    <2>14. Informed(p, s, w, f, k, i)
      BY <1>1, <1>5, <1>11, <2>11 DEF Informed
    <2>8. Both(s, w, f, None, v, None, s, i, k)
      BY <1>1, <2>4, <2>6, <2>7, <2>13, <2>14 DEF Both
    <2>9. /\ Shape' /\ mac'[s] = w /\ mac'[p] = v /\ air'[s] = f /\ air'[p] = None
          /\ rx'[s] = None /\ rx'[p] = s /\ sinrMIB'[s] = i /\ sinrMIB'[p] = k
      BY <1>1, <1>9, <1>10, <2>10 DEF IInv, Shape, k
    <2> QED
      BY <2>8, <2>9, BothPrimed
  <1> QED
    BY <1>8, <1>9 DEF StartsWith

LEMMA StartAfterSIFSKeeps ==
    ASSUME IInv, NEW s \in Stations, StartAfterSIFS(s)
    PROVE  IInv'
  <1> DEFINE x == mac[s]
             f == x.sifs
             z == [x EXCEPT !.sifs = None]
             w == Wakeup(OnTxStart(z, f))
  <1>1. Settled /\ f # None /\ air[s] = None
    BY DEF StartAfterSIFS
  <1>2. Local(s, x, None, rx[s]) /\ Flushed(x) /\ ~Short(x) /\ x \in Macs(s)
    BY <1>1 DEF IInv, Both, Settled, Local
  <1>3. (IF rx[s] # None THEN OnRxError(z) ELSE z) = z
    BY <1>1, <1>2, ErrorIgnored
  <1>4. StartsWith(s, f, w)
    BY <1>3 DEF StartAfterSIFS, Starts, Becomes, StartsWith
  <1>5. Local(s, w, f, None) /\ Flushed(w) /\ (Done(x, None) => Done(w, f))
    <2>1. CASE ~Own(f)
      <3>1. /\ Local(s, w, f, None) /\ Flushed(w)
            /\ x.pendingMPDU = None /\ x.awaits =>
                /\ w.pendingMPDU = None /\ w.awaits /\ ~IsMPDU(w.sifs)
                /\ IsMPDU(w.dcf) => w.dcf = x.dcf
        BY <1>1, <1>2, <2>1, AnswerStarts
      <3>2. ~IsMPDU(f)
        BY <1>1, <1>2, <2>1, FrameKinds DEF Macs, AfterSIFS
      <3> HIDE DEF w
      <3> QED
        BY <3>1, <3>2 DEF Done
    <2>2. CASE Own(f)
      <3>1. z \in Macs(s) /\ x.sifs = f
        BY <1>2 DEF Macs
      <3>2. /\ Local(s, w, f, None) /\ Flushed(w)
            /\ w.pendingMPDU = x.pendingMPDU /\ w.awaits = x.awaits
            /\ w.sifs = None /\ w.dcf = None
        BY <1>1, <1>2, <2>2, <3>1, OwnStarts
      <3>3. IsMPDU(f) => ~Done(x, None)
        BY DEF Done
      <3> HIDE DEF w
      <3> QED
        BY <3>2, <3>3, FrameKinds DEF Done
    <2> QED
      BY <2>1, <2>2
  <1> HIDE DEF w
  <1> QED
    BY <1>1, <1>4, <1>5, StartsKeeps

LEMMA StartAfterBackoffKeeps ==
    ASSUME IInv, NEW s \in Stations, StartAfterBackoff(s)
    PROVE  IInv'
  <1> DEFINE x == mac[s]
             f == x.dcf
             z == [x EXCEPT !.dcf = None]
             w == Wakeup(OnTxStart(z, f))
  <1>1. Settled /\ f # None /\ x.sifs = None /\ air[s] = None /\ rx[s] = None
    BY DEF StartAfterBackoff, ChannelIdle
  <1>2. Local(s, x, None, rx[s]) /\ Flushed(x) /\ ~Short(x) /\ x \in Macs(s)
    BY <1>1 DEF IInv, Both, Settled, Local
  <1>3. (IF rx[s] # None THEN OnRxError(z) ELSE z) = z
    BY <1>1
  <1>4. StartsWith(s, f, w)
    BY <1>3 DEF StartAfterBackoff, Starts, Becomes, StartsWith
  <1>5. Local(s, w, f, None) /\ Flushed(w) /\ (Done(x, None) => Done(w, f))
    <2>1. Own(f)
      BY <1>1, <1>2, FrameKinds DEF Macs, AfterBackoff
    <2>2. z \in Macs(s) /\ x.dcf = f
      BY <1>2 DEF Macs
    <2>3. /\ Local(s, w, f, None) /\ Flushed(w)
          /\ w.pendingMPDU = x.pendingMPDU /\ w.awaits = x.awaits
          /\ w.sifs = None /\ w.dcf = None
      BY <1>1, <1>2, <2>1, <2>2, OwnStarts
    <2>4. IsMPDU(f) => ~Done(x, None)
      BY DEF Done
    <2> HIDE DEF w
    <2> QED
      BY <2>3, <2>4, FrameKinds DEF Done
  <1> HIDE DEF w
  <1> QED
    BY <1>1, <1>4, <1>5, StartsKeeps

LEMMA EndsKeeps ==
    ASSUME IInv, NEW s \in Stations, Ends(s)
    PROVE  IInv'
  <1> DEFINE x == mac[s]
             p == Peer(s)
             y == mac[p]
             f == air[s]
             w == OnTxEnd(x, f)
             i == sinrMIB[s]
             j == sinrMIB[p]
             mib == IF f.kind = "CTS" /\ f.to = p THEN PutReport(j, f) ELSE j
  <1>1. /\ Both(s, x, f, rx[s], y, air[p], rx[p], i, j)
        /\ p \in Stations /\ p # s /\ p # Foreign /\ p # None /\ Peer(p) = s /\ s # None
    BY PeerFacts, NoneAssumption DEF IInv
  <1>2. f # None /\ rx[s] = None /\ (rx[p] = s => y.sifs = None)
    BY <1>1 DEF Ends, Both, Local
  <1>3. Local(s, x, f, None) /\ Flushed(x)
    BY <1>1, <1>2 DEF Both
  <1>4. /\ Local(s, w, None, None) /\ Flushed(w) /\ ~IsCTS(w.sifs) /\ ~IsReply(w.sifs)
        /\ IsRTS(f) => Expects(w)
        /\ IsMPDU(f) /\ f.reply => Done(w, None)
        /\ Done(x, f) => Done(w, None)
    BY <1>2, <1>3, TxEnd
  <1>5. ~Expects(x)
    BY <1>2, <1>3 DEF Local, Requesting, Expects
  <1>6. air' = [air EXCEPT ![s] = None]
    BY DEF Ends
  <1>9. /\ Informed(s, rx[s], y, air[p], i, j) /\ Informed(p, rx[p], x, f, j, i)
        /\ i \in Bases /\ j \in Bases /\ ~IsCTS(None)
    BY <1>1, FrameKinds DEF Both, Informed
  <1>7. CASE rx[p] # s
    <2>1. mac' = [mac EXCEPT ![s] = w] /\ UNCHANGED <<rx, sinrMIB>>
      BY <1>7 DEF Ends, Becomes
    <2> HIDE DEF w, mib
    <2>2. Cross(s, w, None, None, y, air[p])
      BY <1>1, <1>4, <1>5 DEF Both, Cross
    <2>3. Cross(p, y, air[p], rx[p], w, None)
      BY <1>1, <1>4, <1>7 DEF Cross
    <2>6. Informed(s, None, y, air[p], i, j) /\ Informed(p, rx[p], w, None, j, i)
      BY <1>1, <1>2, <1>4, <1>9 DEF Informed
    <2>4. Both(s, w, None, None, y, air[p], rx[p], i, j)
      BY <1>1, <1>4, <2>2, <2>3, <2>6 DEF Both
    <2>5. /\ Shape' /\ mac'[s] = w /\ mac'[p] = y /\ air'[s] = None /\ air'[p] = air[p]
          /\ rx'[s] = None /\ rx'[p] = rx[p] /\ sinrMIB'[s] = i /\ sinrMIB'[p] = j
      BY <1>1, <1>2, <1>6, <2>1 DEF IInv, Shape
    <2> QED
      BY <2>4, <2>5, BothPrimed
  <1>8. CASE rx[p] = s
    <2>1. rx' = [rx EXCEPT ![p] = None]
      BY <1>8 DEF Ends
    <2>2. PICK sinr, v, k :
            /\ sinr \in SINRs /\ k \in {j, mib}
            /\ v \in Garbled(y) \/ v = Decoded(y, f, p, sinr, mib)
            /\ mac' = [mac EXCEPT ![s] = w, ![p] = v]
            /\ DOMAIN sinrMIB' = Stations /\ sinrMIB'[s] = i /\ sinrMIB'[p] = k
      <3>0. DOMAIN sinrMIB = Stations /\ p \in Stations /\ s # p
        BY <1>1 DEF IInv, Shape
      <3>1. CASE /\ \E v \in Garbled(y) : mac' = [mac EXCEPT ![s] = w, ![p] = v]
                 /\ UNCHANGED sinrMIB
        <4>1. DOMAIN sinrMIB' = Stations /\ sinrMIB'[s] = i /\ sinrMIB'[p] = j
          BY <3>0, <3>1
        <4>2. PICK sinr : sinr \in SINRs
          BY ModesAssumption
        <4> QED
          BY <3>1, <4>1, <4>2
      <3>2. CASE /\ \E sinr \in SINRs :
                      mac' = [mac EXCEPT ![s] = w, ![p] = Decoded(y, f, p, sinr, mib)]
                 /\ sinrMIB' = [sinrMIB EXCEPT ![p] = mib]
        <4>1. DOMAIN sinrMIB' = Stations /\ sinrMIB'[s] = i /\ sinrMIB'[p] = mib
          BY <3>0, <3>2
        <4> QED
          BY <3>2, <4>1
      <3> QED
        BY <1>8, <3>1, <3>2 DEF Ends
    <2> HIDE DEF w
    <2>3. air[p] = None /\ Local(p, y, None, s) /\ Flushed(y) /\ y.sifs = None
      BY <1>1, <1>2, <1>8 DEF Both, Local
    <2>4. f \in AfterSIFS(s) \cup AfterBackoff(s)
      BY <1>2, <1>3 DEF Local
    <2>5. /\ f.from = s /\ f.kind \in {"RTS", "CTS", "MPDU", "reply"}
          /\ f.kind = "CTS" =>
               /\ f.cqi \in SINRs /\ f.mimoFactors \in Known /\ f.reserved \in Nat
               /\ f.reserved = GetPhyMode(f.cqi, f.mimoFactors)
      BY <2>4 DEF AfterSIFS, AfterBackoff, RTSs, CTSs, Replies, MPDUs, Frames
    <2>12. /\ mib \in Bases /\ mib.measured = j.measured
           /\ DOMAIN mib.peerFactors \subseteq DOMAIN i.measured
           /\ f.kind = "CTS" /\ f.to = p =>
                mib.peerSINR = f.cqi /\ mib.peerFactors = f.mimoFactors
      <3>1. CASE f.kind = "CTS" /\ f.to = p
        <4>1. /\ DOMAIN j.peerFactors \subseteq DOMAIN f.mimoFactors
              /\ DOMAIN f.mimoFactors \subseteq DOMAIN i.measured
          BY <1>2, <1>9, <3>1 DEF Informed, IsCTS
        <4>2. PutFactors(j.peerFactors, f.mimoFactors) = f.mimoFactors
          BY <1>9, <2>5, <3>1, <4>1, PutFactorsKnown DEF Bases
        <4>3. mib = [j EXCEPT !.peerSINR = f.cqi, !.peerFactors = f.mimoFactors]
          BY <3>1, <4>2 DEF PutReport
        <4> QED
          BY <1>9, <2>5, <3>1, <4>1, <4>3 DEF Bases
      <3>2. CASE ~(f.kind = "CTS" /\ f.to = p)
        BY <1>9, <3>2 DEF Informed
      <3> QED
        BY <3>1, <3>2
    <2> HIDE DEF mib
    <2>13. mib.measured \in Known /\ mib.measured # Nothing
      BY <1>1, <1>8, <1>9, <2>12 DEF Informed, Bases
    <2>6. f.to = p => Welcome(p, y, f, "receiveCTS", mib)
      BY <1>1, <1>2, <1>8, <2>3, <2>5, <2>12 DEF Both, Cross, Welcome, IsCTS, IsReply
    <2>7. Local(p, v, None, None) /\ Flushed(v) /\ Answers(v, f, mib.measured)
      BY <1>1, <2>2, <2>3, <2>5, <2>6, <2>13, Receives
    <2>8. Cross(s, w, None, None, v, None)
      BY <1>1, <1>2, <1>4, <2>5, <2>7 DEF Cross, Answers, IsRTS, IsMPDU
    <2>9. Cross(p, v, None, None, w, None)
      BY <1>1, <1>4 DEF Cross
    <2>14. /\ k \in Bases /\ k.measured = j.measured
           /\ DOMAIN k.peerFactors \subseteq DOMAIN i.measured
      BY <1>9, <2>2, <2>12 DEF Informed
    <2>15. Informed(s, None, v, None, i, k)
      BY <1>1, <1>9, <2>7, <2>12, <2>14 DEF Informed, Answers
    <2>16. Informed(p, None, w, None, k, i)
      BY <1>1, <1>4, <1>9, <2>14 DEF Informed
    <2>10. Both(s, w, None, None, v, None, None, i, k)
      BY <1>1, <1>4, <2>7, <2>8, <2>9, <2>15, <2>16 DEF Both
    <2>11. /\ Shape' /\ mac'[s] = w /\ mac'[p] = v /\ air'[s] = None /\ air'[p] = None
           /\ rx'[s] = None /\ rx'[p] = None /\ sinrMIB'[s] = i /\ sinrMIB'[p] = k
      BY <1>1, <1>2, <1>6, <2>1, <2>2, <2>3 DEF IInv, Shape
    <2> QED
      BY <2>10, <2>11, BothPrimed
  <1> QED
    BY <1>7, <1>8

-----------------------------------------------------------------------------
(* The inductive invariant *)

LEMMA InitIInv == Init => IInv
  <1> SUFFICES ASSUME Init PROVE IInv
    OBVIOUS
  <1>1. Shape
    BY DEF Init, Shape
  <1>2. ASSUME NEW s \in Stations
        PROVE  /\ Local(s, mac[s], None, None) /\ Flushed(mac[s]) /\ mac[s].sifs = None
               /\ air[s] = None /\ rx[s] = None
               /\ sinrMIB[s] \in Bases /\ DOMAIN sinrMIB[s].peerFactors = {}
    <2>1. mac[s] = [
            blocked |-> FALSE, txStatus |-> "finished", blockTimer |-> "off",
            state |-> "idle", timer |-> "off", pendingRTS |-> None,
            pendingCTS |-> None, pendingMPDU |-> None,
            nav |-> None, sifs |-> None, dcf |-> None,
            awaits |-> FALSE, broken |-> FALSE]
      BY DEF Init
    <2>2. sinrMIB[s] \in Bases /\ DOMAIN sinrMIB[s].peerFactors = {}
      BY NothingIsKnown DEF Init, Bases
    <2> DEFINE x == mac[s]
    <2>3. /\ x \in Macs(s) /\ x.blocked = FALSE /\ x.txStatus = "finished" /\ x.blockTimer = "off"
          /\ x.state = "idle" /\ x.timer = "off" /\ x.pendingRTS = None /\ x.pendingCTS = None
          /\ x.pendingMPDU = None /\ x.sifs = None /\ x.dcf = None /\ x.broken = FALSE
      BY <2>1 DEF Macs, Timers
    <2> HIDE DEF x
    <2>4. ~Own(None) /\ ~IsRTS(None) /\ ~IsMPDU(None) /\ ~IsCTS(None) /\ ~IsReply(None)
      BY FrameKinds
    <2>5. Blocking(x, None, None)
      BY <2>3, <2>4 DEF Blocking, Waits
    <2>6. Requesting(x, None, None)
      BY <2>3, <2>4 DEF Requesting
    <2>7. Awaiting(x, None)
      BY <2>3, <2>4 DEF Awaiting
    <2>8. Flushed(x)
      BY <2>3 DEF Flushed
    <2>9. Local(s, x, None, None)
      BY <2>3, <2>4, <2>5, <2>6, <2>7 DEF Local
    <2>10. air[s] = None /\ rx[s] = None
      BY DEF Init
    <2> QED
      BY <2>2, <2>3, <2>8, <2>9, <2>10 DEF x
  <1>3. ASSUME NEW s \in Stations
        PROVE  Both(s, mac[s], air[s], rx[s], mac[Peer(s)], air[Peer(s)], rx[Peer(s)],
                    sinrMIB[s], sinrMIB[Peer(s)])
    <2>1. Peer(s) \in Stations /\ Peer(s) # None
          /\ Peer(Peer(s)) # None /\ ~IsCTS(None) /\ ~IsReply(None)
      BY PeerFacts, FrameKinds
    <2> QED
      BY <1>2, <2>1 DEF Both, Cross, Informed
  <1> QED
    BY <1>1, <1>3 DEF IInv

LEMMA NextIInv == IInv /\ [Next]_vars => IInv'
  <1> SUFFICES ASSUME IInv, [Next]_vars PROVE IInv'
    OBVIOUS
  <1>1. CASE Next
    <2>1. PICK s \in Stations :
            \/ \E type \in {"DATA", "DATA_TXOP"}, reply, large \in BOOLEAN :
                 Offer(s, type, reply, large)
            \/ StartAfterSIFS(s) \/ StartAfterBackoff(s) \/ Ends(s)
            \/ ForeignStarts(s) \/ ForeignEnds(s) \/ NavIdle(s)
            \/ OnShortTimeout(s) \/ OnReplyTimeout(s) \/ ArqTimeout(s)
      BY <1>1 DEF Next
    <2>2. CASE \E type \in {"DATA", "DATA_TXOP"}, reply, large \in BOOLEAN :
                 Offer(s, type, reply, large)
      BY <2>2, OfferKeeps
    <2>3. CASE StartAfterSIFS(s)
      BY <2>3, StartAfterSIFSKeeps
    <2>4. CASE StartAfterBackoff(s)
      BY <2>4, StartAfterBackoffKeeps
    <2>5. CASE Ends(s)
      BY <2>5, EndsKeeps
    <2>6. CASE ForeignStarts(s)
      BY <2>6, ForeignStartsKeeps
    <2>7. CASE ForeignEnds(s)
      BY <2>7, ForeignEndsKeeps
    <2>8. CASE NavIdle(s)
      BY <2>8, NavIdleKeeps
    <2>9. CASE OnShortTimeout(s)
      BY <2>9, ExpireKeeps DEF OnShortTimeout
    <2>10. CASE OnReplyTimeout(s)
      BY <2>10, ExpireKeeps DEF OnReplyTimeout
    <2>11. CASE ArqTimeout(s)
      BY <2>11, ArqTimeoutKeeps
    <2> QED
      BY <2>1, <2>2, <2>3, <2>4, <2>5, <2>6, <2>7, <2>8, <2>9, <2>10, <2>11
  <1>2. CASE UNCHANGED vars
    BY <1>2 DEF vars, IInv, Shape
  <1> QED
    BY <1>1, <1>2

\* ExchangeInvariance: in every reachable state each wait of a station has what
\* ends it, nothing that could be sent is held back, and an answer is under way
\* only to a station that still waits for it (RTSCTSwithFLA.cpp:128-480,
\* BlockUntilReply.cpp:85-180).
THEOREM ExchangeInvariance == Spec => []IInv
  BY InitIInv, NextIInv, PTL DEF Spec

-----------------------------------------------------------------------------
(* The properties *)

\* AssertionsAlwaysHold: no assertion of RTSCTSwithFLA or BlockUntilReply fails,
\* and a CTS leaves at the instant it is prepared, in every interleaving of own
\* and foreign requests, replies, errors and timeouts
\* (RTSCTSwithFLA.cpp:163, 225, 239, 340, 396; BlockUntilReply.cpp:131, 145, 167).
THEOREM AssertionsAlwaysHold == Spec => []AssertionsHold
  <1>1. IInv => AssertionsHold
    BY DEF IInv, Both, Local, Flushed, AssertionsHold
  <1> QED
    BY <1>1, ExchangeInvariance, PTL

\* NothingEverStalls: no station waits for something that nothing will end, and
\* nothing that could be passed on waits for a wakeup that does not come
\* (BlockUntilReply.cpp:85-125).
THEOREM NothingEverStalls == Spec => []NothingStalls
  <1>1. ASSUME IInv PROVE NothingStalls
    <2> SUFFICES ASSUME NEW s \in Stations
                 PROVE  LET m == mac[s] IN
      /\ m.blocked =>
           CASE m.txStatus = "waiting" -> mac[s].sifs # None \/ mac[s].dcf # None
             [] m.txStatus = "transmitting" -> air[s] # None
             [] m.txStatus = "finished" -> m.blockTimer # "off" \/ rx[s] # None
      /\ CASE m.state = "transmitRTS" ->
                \E f \in {mac[s].dcf, air[s]} : f # None /\ f.kind = "RTS"
           [] m.state \in {"waitForCTS", "receptionFinished"} -> m.timer # "off"
           [] m.state = "receiveCTS" -> m.timer # "off" \/ rx[s] # None
           [] OTHER -> TRUE
      /\ TryToSend(mac[s]) = mac[s]
      BY DEF NothingStalls
    <2> DEFINE m == mac[s]
    <2>0. Local(s, m, air[s], rx[s]) /\ Flushed(m)
      BY <1>1 DEF IInv, Both
    <2> HIDE DEF m
    <2>1. /\ Local(s, m, air[s], rx[s]) /\ Flushed(m)
          /\ Blocking(m, air[s], rx[s]) /\ Requesting(m, air[s], rx[s])
          /\ m.txStatus \in {"finished", "waiting", "transmitting"}
          /\ m.state \in {"idle", "transmitRTS", "waitForCTS", "receiveCTS", "receptionFinished"}
      BY <2>0 DEF Local, Macs
    <2>2. TryToSend(m) = m
      BY <2>1, FlushedIsSettled
    <2>3. ~Own(None)
      BY FrameKinds
    <2>4. /\ m.blocked /\ m.txStatus = "waiting" => m.sifs # None \/ m.dcf # None
          /\ m.blocked /\ m.txStatus = "transmitting" => air[s] # None
          /\ m.blocked /\ m.txStatus = "finished" => m.blockTimer # "off" \/ rx[s] # None
      BY <2>1, <2>3 DEF Blocking, Waits
    <2>5. /\ m.state = "transmitRTS" => \E f \in {m.dcf, air[s]} : f # None /\ f.kind = "RTS"
          /\ m.state \in {"waitForCTS", "receptionFinished"} => m.timer # "off"
          /\ m.state = "receiveCTS" => m.timer # "off" \/ rx[s] # None
      BY <2>1 DEF Requesting, IsRTS
    <2> QED
      BY <2>1, <2>2, <2>4, <2>5 DEF m
  <1> QED
    BY <1>1, ExchangeInvariance, PTL

\* SentAsReserved: a frame whose channel a CTS reserved is sent in the phy mode
\* that the reservation was computed for, for any modes and antennas, whatever
\* was measured, missed, lost or told before (RTSCTSwithFLA.cpp:195-220, 525-538).
THEOREM SentAsReserved == Spec => []ReservedAsSent
  <1>1. ASSUME IInv PROVE ReservedAsSent
    <2> SUFFICES ASSUME NEW s \in Stations, air[s] # None, air[s].kind = "MPDU",
                        air[s].reserved # 0
                 PROVE  air[s].phyMode = air[s].reserved
      BY DEF ReservedAsSent
    <2>0. Local(s, mac[s], air[s], rx[s])
      BY <1>1 DEF IInv, Both
    <2>1. air[s] \in AfterSIFS(s) \cup AfterBackoff(s)
      BY <2>0 DEF Local
    <2> QED
      BY <2>1 DEF AfterSIFS, AfterBackoff, RTSs, CTSs, Replies, MPDUs
  <1> QED
    BY <1>1, ExchangeInvariance, PTL
=============================================================================
