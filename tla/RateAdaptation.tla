--------------------------- MODULE RateAdaptation ---------------------------
(***************************************************************************)
(* The choice of the physical mode: PhyMode and PhyModeProvider, the       *)
(* strategies of RateAdaptation, and the information bases they read.      *)
(*                                                                         *)
(* A modulation and coding scheme is its index in the order of the least   *)
(* SINR it needs; a physical mode is the sequence of the schemes of its    *)
(* spatial streams.  A strategy is kept for each peer; it is a function of *)
(* what is known of the peer, so that asking it changes nothing.  One      *)
(* strategy is configured for a station.                                   *)
(***************************************************************************)
EXTENDS Integers, Sequences, FiniteSets, FiniteSetsExt

CONSTANTS
  Peers,
  Configurations,    \* that the station may have, see below
  MinSINR,           \* of each scheme, increasing
  Bits,              \* data bits of a symbol, of each scheme
  Antennas,          \* of the station
  PeerAntennas,      \* of each peer, as the capability base knows
  InitialThreshold, MaxThreshold,   \* successes before a probe
  MinSamples, MaxSamples,           \* of the window of results
  SINRs,             \* that a peer may report
  Factor,            \* SINR of a stream relative to a single one
  Reduction,         \* retransmissionLQMReduction
  OnDecrease, OnIncrease,   \* steps of PERwithMIMO when streams change
  None

Schemes == 1..Len(MinSINR)

\* The schemes that are configured (PyConfig PhyMode.py) need more the faster
\* they are.
ASSUME SchemesAssumption ==
  /\ MinSINR \in Seq(Int) /\ Bits \in Seq(Nat \ {0})
  /\ Schemes # {} /\ Len(Bits) = Len(MinSINR)
  /\ \A i, j \in Schemes : i < j => MinSINR[i] < MinSINR[j] /\ Bits[i] < Bits[j]
ASSUME ThresholdAssumption ==
  /\ InitialThreshold \in Nat \ {0} /\ MaxThreshold \in Nat
  /\ MinSamples \in Nat /\ MaxSamples \in Nat
ASSUME AntennasAssumption ==
  /\ Antennas \in Nat \ {0} /\ PeerAntennas \in [Peers -> Nat \ {0}]
  /\ OnDecrease \in Nat /\ OnIncrease \in Nat
\* The strategy; whether retries are counted for each frame, or (as the
\* standard has it) for the station; whether a transmission opportunity is for
\* one receiver only; and the peers for which there is traffic.
ASSUME ConfigurationsAssumption ==
  IsFiniteSet(Peers) /\
  Configurations \subseteq
    [strategy : {"Constant", "ARF", "PER", "SINR",
                 "ARFwithMIMO", "PERwithMIMO", "SINRwithMIMO"},
     bianchiRetryCounter : BOOLEAN, singleReceiver : BOOLEAN,
     receivers : SUBSET Peers]

\* PhyModeProvider::getMCS is undefined for exactly the least SINR (it steps
\* before the first scheme): no report, less the reduction for any number of
\* retransmissions, is it.
NeverLeast(sinr) ==
  \A n \in 0..(sinr - MinSINR[1]) : sinr - n * Reduction # MinSINR[1]
ASSUME ReportsAssumption ==
  /\ SINRs \subseteq Int /\ None \notin SINRs /\ Reduction \in Nat
  /\ Factor \in [1..Antennas -> Seq(Int)]
  /\ \A sinr \in SINRs : NeverLeast(sinr)
  /\ \A sinr \in SINRs, k \in 1..Antennas :
       Len(Factor[k]) = k /\ \A i \in 1..k : NeverLeast(sinr + Factor[k][i])

VARIABLES
  config,      \* the configuration, which never changes
  rate,        \* of each peer: the strategy's state, the results counted
  report       \* of each peer: the SINR it reported, streams with factors

rateVars == <<config, rate, report>>

strategy == config.strategy

-----------------------------------------------------------------------------
(* PhyMode and PhyModeProvider *)

Uniform(scheme, streams) == [i \in 1..streams |-> scheme]

Lowest == 1
Highest == Len(MinSINR)

DataBitsPerSymbol(pm) ==
  LET sum[i \in 0..Len(pm)] == IF i = 0 THEN 0 ELSE sum[i - 1] + Bits[pm[i]]
  IN  sum[Len(pm)]

\* Modes are compared with those of other streams by their first scheme.
McsUp(pm) == IF pm[1] = Highest THEN pm ELSE Uniform(pm[1] + 1, Len(pm))
McsDown(pm) == IF pm[1] = Lowest THEN pm ELSE Uniform(pm[1] - 1, Len(pm))

\* The scheme below the first one that needs as much: at a switching point
\* it is the one that has just been sufficient.
GetMCS(sinr) ==
  IF sinr < MinSINR[Lowest] THEN Lowest
  ELSE IF sinr > MinSINR[Highest] THEN Highest
  ELSE Min({k \in Schemes : MinSINR[k] >= sinr}) - 1

InitialPhyMode == Uniform(Lowest, 1)

-----------------------------------------------------------------------------
(* ARF: up after a number of successes in a row or when the timer fires,   *)
(* down when a probe, or two transmissions, failed.  ARFwithMIMO does it   *)
(* along a list of modes of any number of streams.                         *)

MaxStreams(p) == IF Antennas < PeerAntennas[p] THEN Antennas ELSE PeerAntennas[p]

AllModes == {Uniform(scheme, streams) : scheme \in Schemes, streams \in 1..Antennas}

\* The modes are listed by their streams, and then by their schemes; those
\* that are no faster than one before are left out.  So the list is in the
\* order of speed, and a step on it leads to the next faster or slower mode.
Precedes(a, b) == Len(a) < Len(b) \/ (Len(a) = Len(b) /\ a[1] < b[1])

PhyModes ==
  [p \in Peers |->
     {b \in AllModes :
        /\ Len(b) <= MaxStreams(p)
        /\ \A a \in AllModes :
             Precedes(a, b) => DataBitsPerSymbol(a) < DataBitsPerSymbol(b)}]

WithMIMO == strategy \in {"ARFwithMIMO", "PERwithMIMO", "SINRwithMIMO"}

After(modes, pm) ==
  LET faster == {b \in modes : DataBitsPerSymbol(pm) < DataBitsPerSymbol(b)}
      least  == Min({DataBitsPerSymbol(b) : b \in faster})
  IN  IF faster = {} THEN pm ELSE CHOOSE b \in faster : DataBitsPerSymbol(b) = least
Before(modes, pm) ==
  LET slower == {b \in modes : DataBitsPerSymbol(b) < DataBitsPerSymbol(pm)}
      most   == Max({DataBitsPerSymbol(b) : b \in slower})
  IN  IF slower = {} THEN pm ELSE CHOOSE b \in slower : DataBitsPerSymbol(b) = most

Higher(p, pm) == IF WithMIMO THEN After(PhyModes[p], pm) ELSE McsUp(pm)
Lower(p, pm) == IF WithMIMO THEN Before(PhyModes[p], pm) ELSE McsDown(pm)

\* Mutant for RetryNotFaster: a probe is not undone before the third attempt.
KeepProbing(p, r, n) ==
  IF r.timeout THEN Higher(p, r.cur)
  ELSE IF n >= 3 THEN Lower(p, r.cur)
  ELSE IF r.successful = r.threshold THEN Higher(p, r.cur)
  ELSE r.cur

ArfPhyMode(p, r, n) ==
  IF r.timeout THEN Higher(p, r.cur)
  ELSE IF (r.probe /\ n = 2) \/ n >= 3 THEN Lower(p, r.cur)
  ELSE IF r.successful = r.threshold THEN Higher(p, r.cur)
  ELSE r.cur

\* PERInformationBase::reset.
Reset(r) == [r EXCEPT !.successful = 0, !.good = 0, !.bad = 0]

\* Mutant for ClimbsAgain: the counter of successes is not reset.
KeepCounting(p, r, pm) ==
  LET down == pm = Lower(p, r.cur)
  IN  IF pm = r.cur THEN [r EXCEPT !.timeout = FALSE, !.probe = FALSE]
      ELSE [r EXCEPT !.cur = pm, !.timeout = FALSE, !.timer = down, !.probe = ~down]

\* A step down starts the timer; the threshold is doubled after a probe that
\* failed, and halved otherwise.
ArfSet(p, r, pm) ==
  LET down == pm = Lower(p, r.cur)
      threshold == IF ~down THEN r.threshold
                   ELSE IF r.probe
                   THEN IF r.threshold < MaxThreshold THEN 2 * r.threshold ELSE r.threshold
                   ELSE Max({r.threshold \div 2, InitialThreshold})
  IN  IF pm = r.cur THEN [r EXCEPT !.timeout = FALSE, !.probe = FALSE]
      ELSE [Reset(r) EXCEPT !.cur = pm, !.timeout = FALSE, !.timer = down,
                            !.probe = ~down, !.threshold = threshold]

-----------------------------------------------------------------------------
(* PER: by the share of failures among the last results (the configured    *)
(* 25 and 1 per cent).                                                     *)

Samples(r) == r.good + r.bad
GoingDown(r) == 4 * r.bad > Samples(r)
GoingUp(r) == 100 * r.bad < Samples(r)

\* Some steps up or down, from a mode with the scheme at one end.
Up(n, scheme) == Min({scheme + n, Highest})
Down(n, scheme) == Max({scheme - n, Lowest})

\* A stream less when there is no lower scheme, a stream more when there is
\* no higher one, with some steps in the other direction.
ReducePhyMode(pm) ==
  IF pm[1] # Lowest THEN McsDown(pm)
  ELSE IF Len(pm) > 1 THEN Uniform(Up(OnDecrease, pm[1]), Len(pm) - 1)
  ELSE pm

IncreasePhyMode(p, pm) ==
  IF pm[1] # Highest THEN McsUp(pm)
  ELSE IF Len(pm) < MaxStreams(p)
  THEN Uniform(Down(OnIncrease, pm[1]), Len(pm) + 1)
  ELSE pm

PerPhyMode(p, r) ==
  IF Samples(r) < MinSamples THEN r.cur
  ELSE IF GoingDown(r) THEN (IF WithMIMO THEN ReducePhyMode(r.cur) ELSE McsDown(r.cur))
  ELSE IF GoingUp(r) THEN (IF WithMIMO THEN IncreasePhyMode(p, r.cur) ELSE McsUp(r.cur))
  ELSE r.cur

PerSet(r, pm) == IF pm = r.cur THEN r ELSE [Reset(r) EXCEPT !.cur = pm]

-----------------------------------------------------------------------------
(* SINR: by what the peer reported, less for every retransmission; with    *)
(* MIMO the fastest mode of those whose streams all are good enough.       *)

BestMCS(lqm, n) == GetMCS(lqm - (n - 1) * Reduction)

SinrPhyMode(lqm, n) == Uniform(BestMCS(lqm, n), 1)

SinrMimoPhyMode(p, known, n) ==
  LET Mode(k) == [i \in 1..k |-> BestMCS(known.sinr + Factor[k][i], n)]
      fitting == {k \in known.factors \cap (1..MaxStreams(p)) :
                    \A i \in 1..k : known.sinr + Factor[k][i] >= MinSINR[Lowest]}
      speed == [k \in fitting |-> DataBitsPerSymbol(Mode(k))]
      fastest == Max({0} \cup {speed[k] : k \in fitting})
  IN  IF fastest <= DataBitsPerSymbol(InitialPhyMode) THEN InitialPhyMode
      ELSE Mode(Max({k \in fitting : speed[k] = fastest}))

-----------------------------------------------------------------------------
(* RateAdaptation: the mode for a frame to p on its n-th transmission, for *)
(* a state r of the strategy; and that state when the frame is sent.       *)

UsesReport(p) ==
  strategy \in {"SINR", "SINRwithMIMO"} /\ report[p].sinr # None
UsesArf(p) ==
  strategy \in {"ARF", "ARFwithMIMO", "SINR", "SINRwithMIMO"} /\ ~UsesReport(p)
UsesPer == strategy \in {"PER", "PERwithMIMO"}

GetPhyMode(p, r, n) ==
  IF strategy = "Constant" THEN r.cur
  ELSE IF UsesPer THEN PerPhyMode(p, r)
  ELSE IF UsesArf(p) THEN ArfPhyMode(p, r, n)
  ELSE IF WithMIMO THEN SinrMimoPhyMode(p, report[p], n)
  ELSE SinrPhyMode(report[p].sinr, n)

SetCurrentPhyMode(p, r, pm) ==
  IF UsesPer THEN PerSet(r, pm) ELSE IF UsesArf(p) THEN ArfSet(p, r, pm) ELSE r

\* PERInformationBase: the results of transmissions.  Counters and the window
\* are kept where the strategy reads them; a counter beyond every threshold
\* stays there.
OnResult(r, ok) ==
  IF UsesPer
  THEN IF Samples(r) = MaxSamples THEN r
       ELSE IF ok THEN [r EXCEPT !.good = @ + 1] ELSE [r EXCEPT !.bad = @ + 1]
  ELSE IF ok /\ strategy # "Constant"
  THEN [r EXCEPT !.successful = Min({@ + 1, 2 * MaxThreshold})] ELSE r

RateInit ==
  /\ config \in Configurations
  /\ rate = [p \in Peers |->
               [cur |-> InitialPhyMode, probe |-> FALSE, timeout |-> FALSE,
                timer |-> FALSE, threshold |-> InitialThreshold,
                successful |-> 0, good |-> 0, bad |-> 0]]
  /\ report = [p \in Peers |-> [sinr |-> None, factors |-> {}]]

-----------------------------------------------------------------------------
(* What changes by itself *)

\* ARF::onTimeout; ARFwithMIMO does nothing at the end of its list.
OnArfTimeout(p) ==
  /\ rate[p].timer
  /\ rate' = [rate EXCEPT ![p].timer = FALSE,
                          ![p].timeout = WithMIMO => Higher(p, rate[p].cur) # rate[p].cur]
  /\ UNCHANGED <<config, report>>

\* A result leaves the sliding window.
SampleAges(p) ==
  /\ \/ rate[p].good > 0 /\ rate' = [rate EXCEPT ![p].good = @ - 1]
     \/ rate[p].bad > 0 /\ rate' = [rate EXCEPT ![p].bad = @ - 1]
  /\ UNCHANGED <<config, report>>

\* putPeerSINR and putPeerFactor, from a beacon or a feedback of the peer.
\* It is never forgotten.
PutPeerSINR(p) ==
  /\ strategy \in {"SINR", "SINRwithMIMO"}
  /\ \E sinr \in SINRs, k \in 1..MaxStreams(p) :
       report' = [report EXCEPT ![p].sinr = sinr,
                                ![p].factors = IF WithMIMO THEN @ \cup {k} ELSE @]
  /\ UNCHANGED <<config, rate>>
=============================================================================
