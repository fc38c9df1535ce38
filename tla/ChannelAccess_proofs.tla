------------------------- MODULE ChannelAccess_proofs -------------------------
(***************************************************************************)
(* Proofs about the access to the channel: TransmissionOpportunity with    *)
(* RateAdaptation, for any schemes, antennas, reports and thresholds, and  *)
(* Backoff, for any slot, spaces, window and stopping delay in the order   *)
(* of the standard.                                                        *)
(*                                                                         *)
(* What is said of the rates rests on the order of the modes: more data    *)
(* bits of a symbol make no frame longer (FewerSymbols), a step up of a    *)
(* strategy is faster and a step down slower (HigherIs, LowerIs), and what *)
(* SINR chooses falls with every retransmission (SinrMimoFalls).  The      *)
(* invariant then keeps three things in agreement: the successes that ARF  *)
(* counts are below the threshold while a frame is in transmission and at  *)
(* most at it between two frames (CountsRight); the state of the strategy  *)
(* is the one the last transmission was made with (AirAgrees); and the     *)
(* exchange that was announced is that of the head of the buffer           *)
(* (AnnouncedRight).                                                       *)
(*                                                                         *)
(* A permission of Backoff is a fact about the past: the space has been    *)
(* waited for.  What makes it inductive is what a running countdown still  *)
(* has to wait: the time since the channel became idle and the rest of the *)
(* timer make up the space together, AIFS always and EIFS after a failed   *)
(* reception (SpaceAhead).  The order in which the failure and the change  *)
(* to idle are notified is settled by two facts: the failure of a          *)
(* reception is remembered as long as the channel is busy, and in the      *)
(* instant of the change to idle the countdown can still be restarted      *)
(* (ErrorRemembered).                                                      *)
(***************************************************************************)
EXTENDS Backoff, TransmissionOpportunity, FiniteSetTheorems, WellFoundedInduction, TLAPS

LEMMA LeastNumber ==
    ASSUME NEW T \in SUBSET Nat, T # {}
    PROVE  \E n \in T : \A m \in T : n <= m
  <1> DEFINE R == {p \in Nat \X Nat : p[1] < p[2]}
  <1>1. IsWellFoundedOn(R, Nat)
    BY NatLessThanWellFounded DEF OpToRel
  <1> HIDE DEF R
  <1>2. PICK n \in T : \A m \in T : ~(<<m, n>> \in R)
    BY <1>1, WFMin
  <1>3. \A m \in T : ~(m < n)
    BY <1>2 DEF R
  <1> QED
    BY <1>3

(* A set of numbers that has 0, and every n up to N whose predecessor it    *)
(* has, has all numbers up to N.                                            *)
LEMMA Induction ==
    ASSUME NEW N \in Nat, NEW T, 0 \in T,
           \A n \in 1..N : n - 1 \in T => n \in T
    PROVE  0..N \subseteq T
  <1> SUFFICES ASSUME (0..N) \ T # {} PROVE FALSE
    OBVIOUS
  <1>1. PICK n \in (0..N) \ T : \A m \in (0..N) \ T : n <= m
    <2>1. (0..N) \ T \in SUBSET Nat
      OBVIOUS
    <2> QED
      BY <2>1, LeastNumber
  <1>2. n \in 1..N
    BY <1>1
  <1>3. n - 1 \in T
    BY <1>1, <1>2
  <1> QED
    BY <1>1, <1>2, <1>3

(* From a first value and a step there is a sequence of values.             *)
Steps(N, V, b, g) == N \in Nat /\ b \in V /\ g \in [(1..N) \X V -> V]

Run(f, N, V, b, g) ==
    /\ f \in [0..N -> V]
    /\ f[0] = b
    /\ \A n \in 1..N : f[n] = g[<<n, f[n - 1]>>]

LEMMA Recursion ==
    ASSUME NEW N, NEW V, NEW b, NEW g, Steps(N, V, b, g)
    PROVE  \E f : Run(f, N, V, b, g)
  <1> USE DEF Steps
  <1> DEFINE Good(k, f) == /\ f \in [0..k -> V]
                           /\ f[0] = b
                           /\ \A n \in 1..k : f[n] = g[<<n, f[n - 1]>>]
             T == {k \in 0..N : \E f : Good(k, f)}
  <1>1. 0 \in T
    <2> DEFINE f == [n \in 0..0 |-> b]
    <2>1. f \in [0..0 -> V] /\ f[0] = b
      OBVIOUS
    <2> HIDE DEF f
    <2>2. Good(0, f)
      BY <2>1
    <2> QED
      BY <2>2
  <1>2. ASSUME NEW k \in 1..N, k - 1 \in T PROVE k \in T
    <2>1. PICK f : Good(k - 1, f)
      BY <1>2
    <2> DEFINE h == [n \in 0..k |-> IF n = k THEN g[<<k, f[k - 1]>>] ELSE f[n]]
    <2>2. k - 1 \in 0..(k - 1) /\ f[k - 1] \in V /\ g[<<k, f[k - 1]>>] \in V
      BY <2>1
    <2>3. h \in [0..k -> V]
      <3> SUFFICES ASSUME NEW n \in 0..k PROVE h[n] \in V
        OBVIOUS
      <3>1. CASE n = k
        BY <2>2, <3>1
      <3>2. CASE n # k
        BY <2>1, <3>2
      <3> QED
        BY <3>1, <3>2
    <2>4. h[0] = b
      BY <2>1
    <2>5. ASSUME NEW n \in 1..k PROVE h[n] = g[<<n, h[n - 1]>>]
      <3>1. CASE n = k
        <4>1. h[n] = g[<<k, f[k - 1]>>] /\ h[n - 1] = f[k - 1]
          BY <3>1
        <4> HIDE DEF h
        <4> QED
          BY <3>1, <4>1
      <3>2. CASE n # k
        <4>1. n \in 1..(k - 1) /\ h[n] = f[n] /\ h[n - 1] = f[n - 1]
          BY <3>2
        <4> HIDE DEF h
        <4> QED
          BY <2>1, <4>1
      <3> QED
        BY <3>1, <3>2
    <2> HIDE DEF h
    <2>6. Good(k, h)
      BY <2>3, <2>4, <2>5
    <2> QED
      BY <2>6
  <1> HIDE DEF T
  <1>3. N \in T
    BY <1>1, <1>2, Induction
  <1> QED
    BY <1>3 DEF T, Run

(* A set of numbers up to a bound has a greatest one.                       *)
LEMMA GreatestNumber ==
    ASSUME NEW N \in Nat, NEW T \in SUBSET (0..N), T # {}
    PROVE  \E n \in T : \A m \in T : m <= n
  <1> DEFINE R == {N - n : n \in T}
  <1>1. R \in SUBSET Nat /\ R # {}
    OBVIOUS
  <1>2. PICK k \in R : \A m \in R : k <= m
    <2> HIDE DEF R
    <2> QED
      BY <1>1, LeastNumber
  <1>3. PICK n \in T : k = N - n
    BY <1>2
  <1>4. ASSUME NEW m \in T PROVE m <= n
    <2>1. N - m \in R
      OBVIOUS
    <2>2. N - n <= N - m
      BY <1>2, <1>3, <2>1
    <2> QED
      BY <2>2
  <1> QED
    BY <1>4

LEMMA MinIs ==
    ASSUME NEW T \in SUBSET Nat, T # {}
    PROVE  Min(T) \in T /\ \A m \in T : Min(T) <= m
  BY LeastNumber DEF Min

LEMMA MaxIs ==
    ASSUME NEW N \in Nat, NEW T \in SUBSET (0..N), T # {}
    PROVE  Max(T) \in T /\ \A m \in T : m <= Max(T)
  <1>1. \E n \in T : \A m \in T : n >= m
    BY GreatestNumber
  <1>2. Max(T) \in T /\ \A m \in T : Max(T) >= m
    BY <1>1 DEF Max
  <1> QED
    BY <1>2

LEMMA MinOfTwo ==
    ASSUME NEW a \in Int, NEW b \in Int
    PROVE  Min({a, b}) = IF a <= b THEN a ELSE b
  <1>1. Min({a, b}) \in {a, b} /\ \A x \in {a, b} : Min({a, b}) <= x
    <2>1. \E x \in {a, b} : \A y \in {a, b} : x <= y
      OBVIOUS
    <2> QED
      BY <2>1 DEF Min
  <1> HIDE DEF Min
  <1> QED
    BY <1>1

LEMMA MaxOfTwo ==
    ASSUME NEW a \in Int, NEW b \in Int
    PROVE  Max({a, b}) = IF a >= b THEN a ELSE b
  <1>1. Max({a, b}) \in {a, b} /\ \A x \in {a, b} : Max({a, b}) >= x
    <2>1. \E x \in {a, b} : \A y \in {a, b} : x >= y
      OBVIOUS
    <2> QED
      BY <2>1 DEF Max
  <1> QED
    BY <1>1

(* The symbols for some bits: no more when a symbol takes more of them.     *)
LEMMA Division ==
    ASSUME NEW a \in Nat, NEW b \in Nat \ {0}
    PROVE  a \div b \in Nat /\ b * (a \div b) <= a /\ a < b * (a \div b) + b
  OBVIOUS

LEMMA Products ==
    ASSUME NEW a \in Nat, NEW b \in Nat, NEW c \in Nat, a <= b
    PROVE  a * c \in Nat /\ b * c \in Nat /\ a * c <= b * c
  OBVIOUS

LEMMA FewerSymbols ==
    ASSUME NEW len \in Nat, NEW a \in Nat \ {0}, NEW b \in Nat \ {0}, a <= b
    PROVE  (len + b - 1) \div b <= (len + a - 1) \div a
  <1> DEFINE x == (len + a - 1) \div a
             y == (len + b - 1) \div b
  <1>1. len + a - 1 \in Nat /\ len + b - 1 \in Nat
    OBVIOUS
  <1>2. x \in Nat /\ a * x <= len + a - 1 /\ len + a - 1 < a * x + a
    BY <1>1, Division
  <1>3. y \in Nat /\ b * y <= len + b - 1 /\ len + b - 1 < b * y + b
    BY <1>1, Division
  <1> HIDE DEF x, y
  <1>4. a * x \in Nat /\ b * x \in Nat /\ b * y \in Nat /\ a * x <= b * x
    BY <1>2, <1>3, Products
  <1>5. b * y < b * x + b
    BY <1>2, <1>3, <1>4
  <1> SUFFICES ASSUME x < y PROVE FALSE
    BY <1>2, <1>3 DEF x, y
  <1>6. (x + 1) * b <= y * b
    <2>1. x + 1 \in Nat /\ x + 1 <= y
      BY <1>2, <1>3
    <2> QED
      BY <1>3, <2>1, Products
  <1>7. (x + 1) * b = b * x + b /\ y * b = b * y
    BY <1>2, <1>3
  <1> QED
    BY <1>4, <1>5, <1>6, <1>7

-----------------------------------------------------------------------------
(* The speed of physical modes                                              *)

LEMMA SchemeFacts ==
    /\ Highest \in Nat \ {0} /\ Schemes = 1..Highest
    /\ Lowest \in Schemes /\ Highest \in Schemes
    /\ \A s \in Schemes : MinSINR[s] \in Int /\ Bits[s] \in Nat \ {0}
    /\ \A s, t \in Schemes : s < t => MinSINR[s] < MinSINR[t] /\ Bits[s] < Bits[t]
  <1>1. Len(MinSINR) \in Nat /\ Len(Bits) = Len(MinSINR) /\ Schemes = 1..Len(MinSINR)
    BY SchemesAssumption DEF Schemes
  <1>2. Len(MinSINR) # 0
    BY <1>1, SchemesAssumption
  <1>3. \A s \in Schemes : MinSINR[s] \in Int /\ Bits[s] \in Nat \ {0}
    <2>1. \A s \in 1..Len(MinSINR) : MinSINR[s] \in Int
      BY SchemesAssumption
    <2>2. \A s \in 1..Len(Bits) : Bits[s] \in Nat \ {0}
      BY SchemesAssumption
    <2> QED
      BY <1>1, <2>1, <2>2
  <1> QED
    BY <1>1, <1>2, <1>3, SchemesAssumption DEF Highest, Lowest

BitSums(f, pm, k) ==
    /\ f \in [0..k -> Nat] /\ f[0] = 0
    /\ \A i \in 1..k : f[i] = f[i - 1] + Bits[pm[i]]

BitsAre(f, pm) ==
    f = [i \in 0..Len(pm) |-> IF i = 0 THEN 0 ELSE f[i - 1] + Bits[pm[i]]]

LEMMA SymbolBits ==
    ASSUME NEW k \in Nat, NEW pm \in [1..k -> Schemes]
    PROVE  \E f : BitSums(f, pm, k) /\ DataBitsPerSymbol(pm) = f[k]
  <1> DEFINE bits(i) == Bits[pm[i]]
             g == [a \in (1..k) \X Nat |-> a[2] + bits(a[1])]
  <1>1. \A i \in 1..k : bits(i) \in Nat
    BY SchemeFacts
  <1>2. Len(pm) = k
    OBVIOUS
  <1> HIDE DEF bits
  <1>3. Steps(k, Nat, 0, g)
    <2>1. ASSUME NEW a \in (1..k) \X Nat PROVE g[a] \in Nat
      <3>1. a[2] \in Nat /\ a[1] \in 1..k
        OBVIOUS
      <3> QED
        BY <1>1, <3>1
    <2> QED
      BY <2>1 DEF Steps
  <1>4. \A i \in 1..k, b \in Nat : g[<<i, b>>] = b + bits(i)
    OBVIOUS
  <1> HIDE DEF g
  <1>5. PICK e : Run(e, k, Nat, 0, g)
    BY <1>3, Recursion
  <1>6. BitsAre(e, pm)
    <2>1. e \in [0..k -> Nat] /\ e[0] = 0 /\ \A i \in 1..k : e[i] = g[<<i, e[i - 1]>>]
      BY <1>5 DEF Run
    <2>2. ASSUME NEW i \in 0..k
          PROVE  e[i] = IF i = 0 THEN 0 ELSE e[i - 1] + bits(i)
      <3>1. CASE i = 0
        BY <2>1, <3>1
      <3>2. CASE i # 0
        <4>1. i \in 1..k /\ i - 1 \in 0..k
          BY <3>2
        <4> QED
          BY <1>4, <2>1, <3>2, <4>1
      <3> QED
        BY <3>1, <3>2
    <2>3. e = [i \in 0..k |-> e[i]]
      BY <2>1
    <2>4. e = [i \in 0..k |-> IF i = 0 THEN 0 ELSE e[i - 1] + bits(i)]
      BY <2>2, <2>3
    <2> QED
      BY <1>2, <2>4 DEF BitsAre, bits
  <1> DEFINE h == CHOOSE x : BitsAre(x, pm)
  <1>7. BitsAre(h, pm)
    BY <1>6
  <1>8. DataBitsPerSymbol(pm) = h[k]
    BY <1>2 DEF DataBitsPerSymbol, BitsAre
  <1> HIDE DEF h
  <1>9. /\ h = [i \in 0..k |-> h[i]]
        /\ \A i \in 0..k : h[i] = IF i = 0 THEN 0 ELSE h[i - 1] + bits(i)
    <2> DEFINE t(i) == IF i = 0 THEN 0 ELSE h[i - 1] + bits(i)
    <2>1. h = [i \in 0..k |-> t(i)]
      BY <1>2, <1>7 DEF BitsAre, bits
    <2> HIDE DEF t
    <2>2. (\A i \in 0..k : h[i] = t(i)) /\ h = [i \in 0..k |-> h[i]]
      BY <2>1
    <2> QED
      BY <2>2 DEF t
  <1>10. h[0] = 0 /\ \A i \in 1..k : h[i] = h[i - 1] + bits(i)
    <2>1. 0 \in 0..k /\ \A i \in 1..k : i \in 0..k /\ i # 0
      OBVIOUS
    <2> QED
      BY <1>9, <2>1
  <1>11. \A i \in 0..k : h[i] \in Nat
    <2> DEFINE T == {i \in 0..k : h[i] \in Nat}
    <2>1. 0 \in T
      BY <1>10
    <2>2. ASSUME NEW i \in 1..k, i - 1 \in T PROVE i \in T
      BY <1>1, <1>10, <2>2
    <2> HIDE DEF T
    <2>3. 0..k \subseteq T
      BY <2>1, <2>2, Induction
    <2> QED
      BY <2>3 DEF T
  <1>12. h \in [0..k -> Nat]
    BY <1>9, <1>11
  <1>13. BitSums(h, pm, k)
    BY <1>10, <1>12 DEF BitSums, bits
  <1> QED
    BY <1>8, <1>13

LEMMA BitsPositive ==
    ASSUME NEW k \in Nat \ {0}, NEW pm \in [1..k -> Schemes]
    PROVE  DataBitsPerSymbol(pm) \in Nat \ {0}
  <1>1. PICK f : BitSums(f, pm, k) /\ DataBitsPerSymbol(pm) = f[k]
    BY SymbolBits
  <1>2. k - 1 \in 0..k /\ k \in 1..k /\ pm[k] \in Schemes
    OBVIOUS
  <1>3. f[k - 1] \in Nat /\ f[k] = f[k - 1] + Bits[pm[k]] /\ Bits[pm[k]] \in Nat \ {0}
    BY <1>1, <1>2, SchemeFacts DEF BitSums
  <1> QED
    BY <1>1, <1>3

(* Streams with lower schemes carry less.                                   *)
LEMMA FewerBits ==
    ASSUME NEW k \in Nat, NEW a \in [1..k -> Schemes], NEW b \in [1..k -> Schemes],
           \A i \in 1..k : a[i] <= b[i]
    PROVE  DataBitsPerSymbol(a) <= DataBitsPerSymbol(b)
  <1>1. PICK f : BitSums(f, a, k) /\ DataBitsPerSymbol(a) = f[k]
    BY SymbolBits
  <1>2. PICK g : BitSums(g, b, k) /\ DataBitsPerSymbol(b) = g[k]
    BY SymbolBits
  <1> DEFINE T == {i \in 0..k : f[i] <= g[i]}
  <1>3. 0 \in T
    BY <1>1, <1>2 DEF BitSums
  <1>4. ASSUME NEW i \in 1..k, i - 1 \in T PROVE i \in T
    <2>1. a[i] \in Schemes /\ b[i] \in Schemes /\ a[i] <= b[i]
      OBVIOUS
    <2>2. Bits[a[i]] \in Nat /\ Bits[b[i]] \in Nat /\ Bits[a[i]] <= Bits[b[i]]
      <3>1. CASE a[i] = b[i]
        BY <2>1, <3>1, SchemeFacts
      <3>2. CASE a[i] # b[i]
        <4>1. a[i] < b[i]
          BY <2>1, <3>2 DEF Schemes
        <4> QED
          BY <2>1, <4>1, SchemeFacts
      <3> QED
        BY <3>1, <3>2
    <2>3. f[i - 1] \in Nat /\ g[i - 1] \in Nat /\ f[i - 1] <= g[i - 1]
      BY <1>1, <1>2, <1>4 DEF BitSums
    <2>4. f[i] = f[i - 1] + Bits[a[i]] /\ g[i] = g[i - 1] + Bits[b[i]]
      BY <1>1, <1>2 DEF BitSums
    <2> QED
      BY <2>2, <2>3, <2>4
  <1> HIDE DEF T
  <1>5. 0..k \subseteq T
    BY <1>3, <1>4, Induction
  <1> QED
    BY <1>1, <1>2, <1>5 DEF T

LEMMA UniformIs ==
    ASSUME NEW s \in Schemes, NEW k \in Nat
    PROVE  /\ Uniform(s, k) \in [1..k -> Schemes] /\ Len(Uniform(s, k)) = k
           /\ \A i \in 1..k : Uniform(s, k)[i] = s
  BY DEF Uniform

(* A higher scheme in all streams carries more.                             *)
LEMMA SlowerScheme ==
    ASSUME NEW s \in Schemes, NEW t \in Schemes, s < t, NEW k \in Nat \ {0}
    PROVE  DataBitsPerSymbol(Uniform(s, k)) < DataBitsPerSymbol(Uniform(t, k))
  <1> DEFINE a == Uniform(s, k)
             b == Uniform(t, k)
  <1>1. /\ a \in [1..k -> Schemes] /\ b \in [1..k -> Schemes]
        /\ \A i \in 1..k : a[i] = s /\ b[i] = t
    BY UniformIs
  <1>2. Bits[s] \in Nat /\ Bits[t] \in Nat /\ Bits[s] < Bits[t]
    BY SchemeFacts
  <1> HIDE DEF a, b
  <1>3. PICK f : BitSums(f, a, k) /\ DataBitsPerSymbol(a) = f[k]
    BY <1>1, SymbolBits
  <1>4. PICK g : BitSums(g, b, k) /\ DataBitsPerSymbol(b) = g[k]
    BY <1>1, SymbolBits
  <1> DEFINE T == {i \in 0..k : f[i] <= g[i] /\ (i # 0 => f[i] < g[i])}
  <1>5. 0 \in T
    BY <1>3, <1>4 DEF BitSums
  <1>6. ASSUME NEW i \in 1..k, i - 1 \in T PROVE i \in T
    <2>1. f[i - 1] \in Nat /\ g[i - 1] \in Nat /\ f[i - 1] <= g[i - 1]
      BY <1>3, <1>4, <1>6 DEF BitSums
    <2>2. f[i] = f[i - 1] + Bits[s] /\ g[i] = g[i - 1] + Bits[t]
      BY <1>1, <1>3, <1>4 DEF BitSums
    <2> QED
      BY <1>2, <2>1, <2>2
  <1> HIDE DEF T
  <1>7. 0..k \subseteq T
    BY <1>5, <1>6, Induction
  <1>8. k \in T
    BY <1>7
  <1> QED
    BY <1>3, <1>4, <1>8 DEF T, a, b

-----------------------------------------------------------------------------
(* The modes that a strategy may have for a peer                            *)

ArfLike == strategy \in {"ARF", "ARFwithMIMO", "SINR", "SINRwithMIMO"}
UsesList == strategy \in {"ARFwithMIMO", "SINRwithMIMO"}

StreamModes(p) == {Uniform(s, k) : s \in Schemes, k \in 1..MaxStreams(p)}

Modes(p) == IF UsesList THEN PhyModes[p] ELSE StreamModes(p)

LEMMA StreamsOfPeer ==
    ASSUME NEW p \in Peers
    PROVE  MaxStreams(p) \in Nat \ {0} /\ MaxStreams(p) <= Antennas
  <1>1. Antennas \in Nat \ {0} /\ PeerAntennas[p] \in Nat \ {0}
    BY AntennasAssumption
  <1> QED
    BY <1>1 DEF MaxStreams

LEMMA UniformMode ==
    ASSUME NEW p \in Peers, NEW s \in Schemes, NEW k \in 1..MaxStreams(p)
    PROVE  Uniform(s, k) \in StreamModes(p)
  BY DEF StreamModes

LEMMA ModeIs ==
    ASSUME NEW p \in Peers, NEW pm \in StreamModes(p)
    PROVE  /\ Len(pm) \in 1..MaxStreams(p) /\ pm[1] \in Schemes
           /\ pm = Uniform(pm[1], Len(pm))
           /\ pm \in [1..Len(pm) -> Schemes]
           /\ DataBitsPerSymbol(pm) \in Nat \ {0}
  <1>1. PICK s \in Schemes, k \in 1..MaxStreams(p) : pm = Uniform(s, k)
    BY DEF StreamModes
  <1>2. k \in Nat \ {0}
    BY StreamsOfPeer
  <1>3. Uniform(s, k) \in [1..k -> Schemes] /\ Len(Uniform(s, k)) = k
    BY <1>2, UniformIs
  <1>4. Uniform(s, k)[1] = s
    <2>1. 1 \in 1..k /\ \A i \in 1..k : Uniform(s, k)[i] = s
      BY <1>2, UniformIs
    <2> QED
      BY <2>1
  <1>5. DataBitsPerSymbol(Uniform(s, k)) \in Nat \ {0}
    BY <1>2, <1>3, BitsPositive
  <1> QED
    BY <1>1, <1>3, <1>4, <1>5

LEMMA ListedModes ==
    ASSUME NEW p \in Peers
    PROVE  PhyModes[p] \subseteq StreamModes(p)
  <1> SUFFICES ASSUME NEW b \in PhyModes[p] PROVE b \in StreamModes(p)
    OBVIOUS
  <1>1. b \in AllModes /\ Len(b) <= MaxStreams(p)
    BY DEF PhyModes
  <1>2. PICK s \in Schemes, k \in 1..Antennas : b = Uniform(s, k)
    BY <1>1 DEF AllModes
  <1>3. k \in Nat /\ Len(b) = k
    <2>1. k \in Nat
      BY AntennasAssumption
    <2> QED
      BY <1>2, <2>1, UniformIs
  <1>4. k \in 1..MaxStreams(p)
    BY <1>1, <1>3, StreamsOfPeer
  <1> QED
    BY <1>2, <1>4, UniformMode

LEMMA InitialMode ==
    ASSUME NEW p \in Peers
    PROVE  InitialPhyMode \in Modes(p) /\ InitialPhyMode \in StreamModes(p)
  <1>1. InitialPhyMode \in StreamModes(p)
    <2>1. 1 \in 1..MaxStreams(p)
      BY StreamsOfPeer
    <2> QED
      BY <2>1, SchemeFacts, UniformMode DEF InitialPhyMode
  <1>2. Len(InitialPhyMode) = 1 /\ InitialPhyMode[1] = 1
    <2>1. /\ Len(Uniform(Lowest, 1)) = 1
          /\ \A i \in 1..1 : Uniform(Lowest, 1)[i] = Lowest
      BY SchemeFacts, UniformIs
    <2> QED
      BY <2>1 DEF InitialPhyMode, Lowest
  <1>3. InitialPhyMode \in AllModes
    <2>1. 1 \in 1..Antennas
      BY AntennasAssumption
    <2> QED
      BY <2>1, SchemeFacts DEF AllModes, InitialPhyMode
  <1>4. ASSUME NEW a \in AllModes PROVE ~Precedes(a, InitialPhyMode)
    <2>1. PICK s \in Schemes, k \in 1..Antennas : a = Uniform(s, k)
      BY DEF AllModes
    <2>2. k \in Nat \ {0} /\ s \in Nat \ {0}
      BY AntennasAssumption, SchemeFacts
    <2>3. /\ Len(Uniform(s, k)) = k
          /\ \A i \in 1..k : Uniform(s, k)[i] = s
      BY <2>2, UniformIs
    <2>4. Len(a) = k /\ a[1] = s
      BY <2>1, <2>2, <2>3
    <2> QED
      BY <1>2, <2>2, <2>4 DEF Precedes
  <1>5. InitialPhyMode \in PhyModes[p]
    <2>1. Len(InitialPhyMode) <= MaxStreams(p)
      BY <1>2, StreamsOfPeer
    <2>2. \A a \in AllModes :
            Precedes(a, InitialPhyMode)
              => DataBitsPerSymbol(a) < DataBitsPerSymbol(InitialPhyMode)
      BY <1>4
    <2> QED
      BY <1>3, <2>1, <2>2 DEF PhyModes
  <1> QED
    BY <1>1, <1>5 DEF Modes

LEMMA AfterIs ==
    ASSUME NEW M, \A b \in M : DataBitsPerSymbol(b) \in Nat, NEW pm \in M
    PROVE  /\ After(M, pm) \in M
           /\ \/ After(M, pm) = pm
              \/ DataBitsPerSymbol(pm) < DataBitsPerSymbol(After(M, pm))
           /\ After(M, pm) = pm =>
                ~\E b \in M : DataBitsPerSymbol(pm) < DataBitsPerSymbol(b)
  <1> DEFINE faster == {b \in M : DataBitsPerSymbol(pm) < DataBitsPerSymbol(b)}
             speeds == {DataBitsPerSymbol(b) : b \in faster}
             next   == CHOOSE b \in faster : DataBitsPerSymbol(b) = Min(speeds)
  <1>1. CASE faster = {}
    BY <1>1 DEF After
  <1>2. CASE faster # {}
    <2>1. speeds \in SUBSET Nat /\ speeds # {}
      BY <1>2
    <2>2. Min(speeds) \in speeds
      <3> HIDE DEF speeds
      <3> QED
        BY <2>1, MinIs
    <2>3. next \in faster
      BY <2>2
    <2>4. After(M, pm) = next
      BY <1>2 DEF After
    <2> HIDE DEF next
    <2>5. next \in M /\ DataBitsPerSymbol(pm) < DataBitsPerSymbol(next)
      BY <2>3
    <2>6. next # pm
      BY <2>5
    <2> QED
      BY <2>4, <2>5, <2>6
  <1> QED
    BY <1>1, <1>2

LEMMA BeforeIs ==
    ASSUME NEW M, \A b \in M : DataBitsPerSymbol(b) \in Nat, NEW pm \in M
    PROVE  /\ Before(M, pm) \in M
           /\ \/ Before(M, pm) = pm
              \/ DataBitsPerSymbol(Before(M, pm)) < DataBitsPerSymbol(pm)
           /\ Before(M, pm) = pm =>
                ~\E b \in M : DataBitsPerSymbol(b) < DataBitsPerSymbol(pm)
  <1> DEFINE slower == {b \in M : DataBitsPerSymbol(b) < DataBitsPerSymbol(pm)}
             speeds == {DataBitsPerSymbol(b) : b \in slower}
             next   == CHOOSE b \in slower : DataBitsPerSymbol(b) = Max(speeds)
  <1>1. CASE slower = {}
    BY <1>1 DEF Before
  <1>2. CASE slower # {}
    <2>1. DataBitsPerSymbol(pm) \in Nat
      OBVIOUS
    <2>2. speeds \in SUBSET (0..DataBitsPerSymbol(pm)) /\ speeds # {}
      BY <1>2, <2>1
    <2>3. Max(speeds) \in speeds
      <3> HIDE DEF speeds
      <3> QED
        BY <2>1, <2>2, MaxIs
    <2>4. next \in slower
      BY <2>3
    <2>5. Before(M, pm) = next
      BY <1>2 DEF Before
    <2> HIDE DEF next
    <2>6. next \in M /\ DataBitsPerSymbol(next) < DataBitsPerSymbol(pm)
      BY <2>4
    <2>7. next # pm
      BY <2>6
    <2> QED
      BY <2>5, <2>6, <2>7
  <1> QED
    BY <1>1, <1>2

LEMMA McsUpIs ==
    ASSUME NEW p \in Peers, NEW pm \in StreamModes(p)
    PROVE  /\ McsUp(pm) \in StreamModes(p) /\ Len(McsUp(pm)) = Len(pm)
           /\ IF pm[1] = Highest THEN McsUp(pm) = pm
              ELSE /\ McsUp(pm)[1] = pm[1] + 1
                   /\ DataBitsPerSymbol(pm) < DataBitsPerSymbol(McsUp(pm))
  <1> DEFINE s == pm[1]
             k == Len(pm)
  <1>1. k \in 1..MaxStreams(p) /\ s \in Schemes /\ pm = Uniform(s, k)
    BY ModeIs
  <1>2. k \in Nat \ {0} /\ s \in 1..Highest /\ Highest \in Nat
    BY <1>1, StreamsOfPeer, SchemeFacts
  <1>3. CASE s = Highest
    BY <1>3 DEF McsUp
  <1>4. CASE s # Highest
    <2>1. s + 1 \in Schemes /\ s < s + 1
      BY <1>2, <1>4, SchemeFacts
    <2>2. McsUp(pm) = Uniform(s + 1, k)
      BY <1>4 DEF McsUp
    <2> HIDE DEF s, k
    <2>3. DataBitsPerSymbol(Uniform(s, k)) < DataBitsPerSymbol(Uniform(s + 1, k))
      BY <1>1, <1>2, <2>1, SlowerScheme
    <2>4. Uniform(s + 1, k) \in StreamModes(p)
      BY <1>1, <2>1, UniformMode
    <2>5. /\ Len(Uniform(s + 1, k)) = k
          /\ \A i \in 1..k : Uniform(s + 1, k)[i] = s + 1
      BY <1>2, <2>1, UniformIs
    <2>6. Uniform(s + 1, k)[1] = s + 1
      BY <1>2, <2>5
    <2> QED
      BY <1>1, <1>4, <2>2, <2>3, <2>4, <2>5, <2>6 DEF s, k
  <1> QED
    BY <1>3, <1>4

LEMMA McsDownIs ==
    ASSUME NEW p \in Peers, NEW pm \in StreamModes(p)
    PROVE  /\ McsDown(pm) \in StreamModes(p) /\ Len(McsDown(pm)) = Len(pm)
           /\ IF pm[1] = Lowest THEN McsDown(pm) = pm
              ELSE DataBitsPerSymbol(McsDown(pm)) < DataBitsPerSymbol(pm)
  <1> DEFINE s == pm[1]
             k == Len(pm)
  <1>1. k \in 1..MaxStreams(p) /\ s \in Schemes /\ pm = Uniform(s, k)
    BY ModeIs
  <1>2. k \in Nat \ {0} /\ s \in 1..Highest /\ Highest \in Nat
    BY <1>1, StreamsOfPeer, SchemeFacts
  <1>3. CASE s = Lowest
    BY <1>3 DEF McsDown
  <1>4. CASE s # Lowest
    <2>1. s - 1 \in Schemes /\ s - 1 < s
      BY <1>2, <1>4, SchemeFacts DEF Lowest
    <2>2. McsDown(pm) = Uniform(s - 1, k)
      BY <1>4 DEF McsDown
    <2> HIDE DEF s, k
    <2>3. DataBitsPerSymbol(Uniform(s - 1, k)) < DataBitsPerSymbol(Uniform(s, k))
      BY <1>1, <1>2, <2>1, SlowerScheme
    <2>4. Uniform(s - 1, k) \in StreamModes(p) /\ Len(Uniform(s - 1, k)) = k
      BY <1>1, <1>2, <2>1, UniformMode, UniformIs
    <2> QED
      BY <1>1, <1>4, <2>2, <2>3, <2>4 DEF s, k
  <1> QED
    BY <1>3, <1>4

LEMMA ModesAreStreams ==
    ASSUME NEW p \in Peers
    PROVE  Modes(p) \subseteq StreamModes(p)
  BY ListedModes DEF Modes

(* A step up is faster, a step down is slower, and after a step up there is *)
(* one down.                                                                *)
LEMMA HigherIs ==
    ASSUME NEW p \in Peers, ArfLike, NEW pm \in Modes(p)
    PROVE  /\ Higher(p, pm) \in Modes(p)
           /\ \/ Higher(p, pm) = pm
              \/ DataBitsPerSymbol(pm) < DataBitsPerSymbol(Higher(p, pm))
  <1>1. \A b \in Modes(p) : DataBitsPerSymbol(b) \in Nat
    BY ModesAreStreams, ModeIs
  <1>2. CASE UsesList
    <2>1. Higher(p, pm) = After(PhyModes[p], pm) /\ Modes(p) = PhyModes[p]
      BY <1>2 DEF Higher, WithMIMO, UsesList, Modes
    <2> QED
      BY <1>1, <2>1, AfterIs
  <1>3. CASE ~UsesList
    <2>1. Higher(p, pm) = McsUp(pm) /\ Modes(p) = StreamModes(p)
      BY <1>3 DEF Higher, WithMIMO, UsesList, Modes, ArfLike
    <2>2. /\ McsUp(pm) \in StreamModes(p)
          /\ IF pm[1] = Highest THEN McsUp(pm) = pm
             ELSE DataBitsPerSymbol(pm) < DataBitsPerSymbol(McsUp(pm))
      BY <2>1, McsUpIs
    <2> QED
      BY <2>1, <2>2
  <1> QED
    BY <1>2, <1>3

LEMMA LowerIs ==
    ASSUME NEW p \in Peers, ArfLike, NEW pm \in Modes(p)
    PROVE  /\ Lower(p, pm) \in Modes(p)
           /\ \/ Lower(p, pm) = pm
              \/ DataBitsPerSymbol(Lower(p, pm)) < DataBitsPerSymbol(pm)
  <1>1. \A b \in Modes(p) : DataBitsPerSymbol(b) \in Nat
    BY ModesAreStreams, ModeIs
  <1>2. CASE UsesList
    <2>1. Lower(p, pm) = Before(PhyModes[p], pm) /\ Modes(p) = PhyModes[p]
      BY <1>2 DEF Lower, WithMIMO, UsesList, Modes
    <2> QED
      BY <1>1, <2>1, BeforeIs
  <1>3. CASE ~UsesList
    <2>1. Lower(p, pm) = McsDown(pm) /\ Modes(p) = StreamModes(p)
      BY <1>3 DEF Lower, WithMIMO, UsesList, Modes, ArfLike
    <2>2. /\ McsDown(pm) \in StreamModes(p)
          /\ IF pm[1] = Lowest THEN McsDown(pm) = pm
             ELSE DataBitsPerSymbol(McsDown(pm)) < DataBitsPerSymbol(pm)
      BY <2>1, McsDownIs
    <2> QED
      BY <2>1, <2>2
  <1> QED
    BY <1>2, <1>3

LEMMA LowerAfterHigher ==
    ASSUME NEW p \in Peers, ArfLike, NEW pm \in Modes(p), NEW up,
           up = Higher(p, pm), up # pm
    PROVE  DataBitsPerSymbol(Lower(p, up)) < DataBitsPerSymbol(up)
  <1>1. \A b \in Modes(p) : DataBitsPerSymbol(b) \in Nat
    BY ModesAreStreams, ModeIs
  <1>2. up \in Modes(p) /\ DataBitsPerSymbol(pm) < DataBitsPerSymbol(up)
    BY HigherIs
  <1>3. CASE UsesList
    <2>1. Lower(p, up) = Before(PhyModes[p], up) /\ Modes(p) = PhyModes[p]
      BY <1>3 DEF Lower, WithMIMO, UsesList, Modes
    <2> QED
      BY <1>1, <1>2, <2>1, BeforeIs
  <1>4. CASE ~UsesList
    <2>1. /\ Lower(p, up) = McsDown(up) /\ Higher(p, pm) = McsUp(pm)
          /\ Modes(p) = StreamModes(p)
      BY <1>4 DEF Lower, Higher, WithMIMO, UsesList, Modes, ArfLike
    <2>2. pm[1] # Highest /\ up[1] = pm[1] + 1 /\ pm[1] \in Schemes
      BY <2>1, McsUpIs, ModeIs
    <2>3. up[1] # Lowest
      BY <2>2, SchemeFacts DEF Lowest
    <2> QED
      BY <1>2, <2>1, <2>3, McsDownIs
  <1> QED
    BY <1>3, <1>4

-----------------------------------------------------------------------------
(* The modes for what a peer reported                                       *)

Enough(x) == {k \in Schemes : MinSINR[k] >= x}

LEMMA EnoughIs ==
    ASSUME NEW x \in Int, x <= MinSINR[Highest]
    PROVE  Min(Enough(x)) \in Enough(x) /\ \A k \in Enough(x) : Min(Enough(x)) <= k
  <1>1. Enough(x) \in SUBSET Nat
    BY SchemeFacts DEF Enough
  <1>2. Highest \in Enough(x)
    BY SchemeFacts DEF Enough
  <1> QED
    BY <1>1, <1>2, MinIs

LEMMA GetMCSIs ==
    ASSUME NEW x \in Int, x # MinSINR[Lowest]
    PROVE  GetMCS(x) \in Schemes
  <1>1. CASE x < MinSINR[Lowest]
    BY <1>1, SchemeFacts DEF GetMCS
  <1>2. CASE ~(x < MinSINR[Lowest]) /\ x > MinSINR[Highest]
    BY <1>2, SchemeFacts DEF GetMCS
  <1>3. CASE ~(x < MinSINR[Lowest]) /\ ~(x > MinSINR[Highest])
    <2>1. MinSINR[Highest] \in Int /\ MinSINR[Lowest] \in Int
      BY SchemeFacts
    <2>2. GetMCS(x) = Min(Enough(x)) - 1
      BY <1>3 DEF GetMCS, Enough
    <2>3. Min(Enough(x)) \in Enough(x)
      BY <1>3, <2>1, EnoughIs
    <2>4. Min(Enough(x)) \in Schemes /\ MinSINR[Min(Enough(x))] >= x
      BY <2>3 DEF Enough
    <2>5. Min(Enough(x)) # Lowest
      BY <1>3, <2>1, <2>4
    <2> QED
      BY <2>2, <2>4, <2>5, SchemeFacts DEF Lowest
  <1> QED
    BY <1>1, <1>2, <1>3

LEMMA GetMCSMonotone ==
    ASSUME NEW x \in Int, x # MinSINR[Lowest],
           NEW y \in Int, y # MinSINR[Lowest], x <= y
    PROVE  GetMCS(x) <= GetMCS(y)
  <1>1. GetMCS(x) \in 1..Highest /\ GetMCS(y) \in 1..Highest /\ Highest \in Nat
    BY GetMCSIs, SchemeFacts
  <1>2. MinSINR[Highest] \in Int /\ MinSINR[Lowest] \in Int
    BY SchemeFacts
  <1>3. CASE x < MinSINR[Lowest]
    <2>1. GetMCS(x) = 1
      BY <1>3 DEF GetMCS, Lowest
    <2> QED
      BY <1>1, <2>1
  <1>4. CASE ~(x < MinSINR[Lowest]) /\ y > MinSINR[Highest]
    <2>1. GetMCS(y) = Highest
      BY <1>2, <1>4 DEF GetMCS
    <2> QED
      BY <1>1, <2>1
  <1>5. CASE ~(x < MinSINR[Lowest]) /\ ~(y > MinSINR[Highest])
    <2>1. /\ ~(y < MinSINR[Lowest]) /\ ~(x > MinSINR[Highest])
          /\ x <= MinSINR[Highest] /\ y <= MinSINR[Highest]
      BY <1>2, <1>5
    <2>2. GetMCS(x) = Min(Enough(x)) - 1 /\ GetMCS(y) = Min(Enough(y)) - 1
      BY <1>5, <2>1 DEF GetMCS, Enough
    <2>3. Min(Enough(y)) \in Enough(y) /\ \A k \in Enough(x) : Min(Enough(x)) <= k
      BY <2>1, EnoughIs
    <2>4. Min(Enough(y)) \in Enough(x)
      BY <2>3, SchemeFacts DEF Enough
    <2>5. Min(Enough(x)) <= Min(Enough(y))
      BY <2>3, <2>4
    <2>6. Min(Enough(x)) \in Int /\ Min(Enough(y)) \in Int
      <3>1. Min(Enough(x)) \in Enough(x)
        BY <2>1, EnoughIs
      <3> QED
        BY <2>3, <3>1, SchemeFacts DEF Enough
    <2> QED
      BY <2>2, <2>5, <2>6
  <1> QED
    BY <1>3, <1>4, <1>5

LEMMA ReducedIs ==
    ASSUME NEW sinr \in Int, NeverLeast(sinr), NEW n \in Nat \ {0}
    PROVE  /\ sinr - (n - 1) * Reduction \in Int
           /\ sinr - (n - 1) * Reduction # MinSINR[Lowest]
  <1> DEFINE d == sinr - MinSINR[1]
             c == n - 1
             x == c * Reduction
  <1>1. MinSINR[1] \in Int /\ Reduction \in Nat /\ c \in Nat /\ d \in Int
    BY SchemeFacts, ReportsAssumption DEF Lowest
  <1>2. x \in Nat
    BY <1>1
  <1>3. CASE c \in 0..d
    <2>1. sinr - c * Reduction # MinSINR[1]
      BY <1>3 DEF NeverLeast
    <2> QED
      BY <1>1, <1>2, <2>1 DEF Lowest
  <1>4. CASE d < 0
    <2> HIDE DEF x
    <2>1. sinr - x \in Int /\ sinr - x # MinSINR[1]
      BY <1>1, <1>2, <1>4
    <2> QED
      BY <2>1 DEF Lowest, x
  <1>5. CASE d >= 0 /\ c > d
    <2>1. x # d
      <3>1. CASE Reduction = 0
        <4>1. 0 \in 0..d
          BY <1>1, <1>5
        <4>2. sinr - 0 * Reduction # MinSINR[1]
          BY <4>1 DEF NeverLeast
        <4>3. d # 0
          BY <1>1, <3>1, <4>2
        <4>4. x = 0
          BY <1>1, <3>1
        <4> QED
          BY <4>3, <4>4
      <3>2. CASE Reduction # 0
        <4>1. 1 * c <= Reduction * c /\ 1 <= Reduction
          <5>1. 1 <= Reduction
            BY <1>1, <3>2
          <5> QED
            BY <1>1, <5>1, Products
        <4>2. 1 * c = c /\ Reduction * c = x
          BY <1>1
        <4> QED
          BY <1>1, <1>2, <1>5, <4>1, <4>2
      <3> QED
        BY <3>1, <3>2
    <2> HIDE DEF x
    <2>2. sinr - x \in Int /\ sinr - x # MinSINR[1]
      BY <1>1, <1>2, <2>1
    <2> QED
      BY <2>2 DEF Lowest, x
  <1> QED
    BY <1>1, <1>3, <1>4, <1>5

LEMMA BestMCSIs ==
    ASSUME NEW sinr \in Int, NeverLeast(sinr), NEW n \in Nat \ {0}
    PROVE  BestMCS(sinr, n) \in Schemes
  BY ReducedIs, GetMCSIs DEF BestMCS

LEMMA BestMCSFalls ==
    ASSUME NEW sinr \in Int, NeverLeast(sinr),
           NEW n \in Nat \ {0}, NEW m \in Nat \ {0}, n <= m
    PROVE  BestMCS(sinr, m) <= BestMCS(sinr, n)
  <1> DEFINE x == sinr - (n - 1) * Reduction
             y == sinr - (m - 1) * Reduction
  <1>1. Reduction \in Nat /\ n - 1 \in Nat /\ m - 1 \in Nat /\ n - 1 <= m - 1
    BY ReportsAssumption
  <1>2. /\ (n - 1) * Reduction \in Nat /\ (m - 1) * Reduction \in Nat
        /\ (n - 1) * Reduction <= (m - 1) * Reduction
    BY <1>1, Products
  <1>3. y <= x
    BY <1>2
  <1>4. x \in Int /\ x # MinSINR[Lowest] /\ y \in Int /\ y # MinSINR[Lowest]
    BY ReducedIs
  <1>5. BestMCS(sinr, m) = GetMCS(y) /\ BestMCS(sinr, n) = GetMCS(x)
    BY DEF BestMCS
  <1> HIDE DEF x, y
  <1> QED
    BY <1>3, <1>4, <1>5, GetMCSMonotone

LEMMA SinrModeIs ==
    ASSUME NEW p \in Peers, NEW sinr \in SINRs, NEW n \in Nat \ {0}
    PROVE  SinrPhyMode(sinr, n) \in StreamModes(p)
  <1>1. BestMCS(sinr, n) \in Schemes
    BY BestMCSIs, ReportsAssumption
  <1>2. 1 \in 1..MaxStreams(p)
    BY StreamsOfPeer
  <1> QED
    BY <1>1, <1>2, UniformMode DEF SinrPhyMode

LEMMA SinrModeFalls ==
    ASSUME NEW sinr \in SINRs, NEW n \in Nat \ {0}, NEW m \in Nat \ {0}, n <= m
    PROVE  DataBitsPerSymbol(SinrPhyMode(sinr, m)) <= DataBitsPerSymbol(SinrPhyMode(sinr, n))
  <1>1. /\ BestMCS(sinr, n) \in Schemes /\ BestMCS(sinr, m) \in Schemes
        /\ BestMCS(sinr, m) <= BestMCS(sinr, n)
    BY BestMCSIs, BestMCSFalls, ReportsAssumption
  <1>2. /\ SinrPhyMode(sinr, n) \in [1..1 -> Schemes]
        /\ SinrPhyMode(sinr, m) \in [1..1 -> Schemes]
        /\ \A i \in 1..1 : SinrPhyMode(sinr, m)[i] <= SinrPhyMode(sinr, n)[i]
    BY <1>1, UniformIs DEF SinrPhyMode
  <1> QED
    BY <1>2, FewerBits

(* With several streams: the fastest of the numbers of streams that fit.    *)
Reports == [sinr : SINRs, factors : SUBSET (1..Antennas)]

Streams(known, n, k) == [i \in 1..k |-> BestMCS(known.sinr + Factor[k][i], n)]

Fitting(p, known) ==
    {k \in known.factors \cap (1..MaxStreams(p)) :
       \A i \in 1..k : known.sinr + Factor[k][i] >= MinSINR[Lowest]}

LEMMA StreamsAre ==
    ASSUME NEW known \in Reports, NEW n \in Nat \ {0}, NEW k \in 1..Antennas
    PROVE  /\ k \in Nat \ {0}
           /\ Streams(known, n, k) \in [1..k -> Schemes]
           /\ \A i \in 1..k : /\ known.sinr + Factor[k][i] \in Int
                              /\ NeverLeast(known.sinr + Factor[k][i])
  <1>1. known.sinr \in SINRs /\ known.sinr \in Int
    BY ReportsAssumption DEF Reports
  <1>2. Factor[k] \in Seq(Int) /\ Len(Factor[k]) = k
    BY <1>1, ReportsAssumption
  <1>3. k \in Nat \ {0}
    BY AntennasAssumption
  <1>4. ASSUME NEW i \in 1..k
        PROVE  known.sinr + Factor[k][i] \in Int /\ NeverLeast(known.sinr + Factor[k][i])
    <2>1. Factor[k][i] \in Int
      BY <1>2, <1>3
    <2>2. NeverLeast(known.sinr + Factor[k][i])
      BY <1>1, ReportsAssumption
    <2> QED
      BY <1>1, <2>1, <2>2
  <1>5. \A i \in 1..k : BestMCS(known.sinr + Factor[k][i], n) \in Schemes
    BY <1>4, BestMCSIs
  <1> QED
    BY <1>3, <1>4, <1>5 DEF Streams

LEMMA StreamsFall ==
    ASSUME NEW known \in Reports, NEW k \in 1..Antennas,
           NEW n \in Nat \ {0}, NEW m \in Nat \ {0}, n <= m
    PROVE  DataBitsPerSymbol(Streams(known, m, k)) <= DataBitsPerSymbol(Streams(known, n, k))
  <1>1. /\ k \in Nat
        /\ Streams(known, n, k) \in [1..k -> Schemes]
        /\ Streams(known, m, k) \in [1..k -> Schemes]
    BY StreamsAre
  <1>2. ASSUME NEW i \in 1..k
        PROVE  Streams(known, m, k)[i] <= Streams(known, n, k)[i]
    <2>1. known.sinr + Factor[k][i] \in Int /\ NeverLeast(known.sinr + Factor[k][i])
      BY StreamsAre
    <2>2. BestMCS(known.sinr + Factor[k][i], m) <= BestMCS(known.sinr + Factor[k][i], n)
      BY <2>1, BestMCSFalls
    <2> QED
      BY <2>2 DEF Streams
  <1> QED
    BY <1>1, <1>2, FewerBits

(* Numbers for the elements of an interval have a bound.                    *)
LEMMA Bounded ==
    ASSUME NEW m \in Nat, NEW s \in [1..m -> Nat]
    PROVE  \E N \in Nat : \A k \in 1..m : s[k] <= N
  <1> DEFINE T == {i \in 0..m : \E N \in Nat : \A k \in 1..i : s[k] <= N}
  <1>1. 0 \in T
    OBVIOUS
  <1>2. ASSUME NEW i \in 1..m, i - 1 \in T PROVE i \in T
    <2>1. PICK N \in Nat : \A k \in 1..(i - 1) : s[k] <= N
      BY <1>2
    <2> DEFINE L == N + s[i]
    <2>2. s[i] \in Nat /\ L \in Nat /\ N <= L /\ s[i] <= L
      OBVIOUS
    <2> HIDE DEF L
    <2>3. ASSUME NEW k \in 1..i PROVE s[k] <= L
      <3>1. CASE k = i
        BY <2>2, <3>1
      <3>2. CASE k # i
        <4>1. k \in 1..(i - 1) /\ k \in 1..m
          BY <3>2
        <4>2. s[k] \in Nat /\ s[k] <= N
          BY <2>1, <4>1
        <4> QED
          BY <2>2, <4>2
      <3> QED
        BY <3>1, <3>2
    <2> QED
      BY <2>2, <2>3
  <1> HIDE DEF T
  <1>3. 0..m \subseteq T
    BY <1>1, <1>2, Induction
  <1>4. m \in T
    BY <1>3
  <1> QED
    BY <1>4 DEF T

LEMMA SinrMimoIs ==
    ASSUME NEW p \in Peers, NEW known \in Reports, NEW n \in Nat \ {0}
    PROVE  /\ \/ SinrMimoPhyMode(p, known, n) = InitialPhyMode
              \/ \E k \in Fitting(p, known) :
                    SinrMimoPhyMode(p, known, n) = Streams(known, n, k)
           /\ DataBitsPerSymbol(InitialPhyMode)
                <= DataBitsPerSymbol(SinrMimoPhyMode(p, known, n))
           /\ \A k \in Fitting(p, known) :
                DataBitsPerSymbol(Streams(known, n, k))
                  <= DataBitsPerSymbol(SinrMimoPhyMode(p, known, n))
  <1> DEFINE F == Fitting(p, known)
             speed == [k \in F |-> DataBitsPerSymbol(Streams(known, n, k))]
             speeds == {0} \cup {speed[k] : k \in F}
             fastest == Max(speeds)
             best == {k \in F : speed[k] = fastest}
             first == DataBitsPerSymbol(InitialPhyMode)
  <1>1. F \subseteq 1..Antennas
    BY StreamsOfPeer, AntennasAssumption DEF Fitting
  <1>2. first \in Nat \ {0}
    BY InitialMode, ModeIs
  <1>3. \A k \in 1..Antennas : DataBitsPerSymbol(Streams(known, n, k)) \in Nat
    BY StreamsAre, BitsPositive
  <1>4. SinrMimoPhyMode(p, known, n) =
          IF fastest <= first THEN InitialPhyMode ELSE Streams(known, n, Max(best))
    BY DEF SinrMimoPhyMode, Fitting, Streams
  <1>5. PICK N \in Nat : \A k \in 1..Antennas : DataBitsPerSymbol(Streams(known, n, k)) <= N
    <2> DEFINE s == [k \in 1..Antennas |-> DataBitsPerSymbol(Streams(known, n, k))]
    <2>1. s \in [1..Antennas -> Nat] /\ Antennas \in Nat
      BY <1>3, AntennasAssumption
    <2>2. \A k \in 1..Antennas : s[k] = DataBitsPerSymbol(Streams(known, n, k))
      OBVIOUS
    <2> HIDE DEF s
    <2>3. \E N \in Nat : \A k \in 1..Antennas : s[k] <= N
      BY <2>1, Bounded
    <2> QED
      BY <2>2, <2>3
  <1> HIDE DEF F
  <1>6. \A k \in F : /\ speed[k] = DataBitsPerSymbol(Streams(known, n, k))
                     /\ speed[k] \in 0..N
    BY <1>1, <1>3, <1>5
  <1> HIDE DEF speed
  <1>7. fastest \in speeds /\ \A x \in speeds : x <= fastest
    <2>1. speeds \in SUBSET (0..N) /\ speeds # {}
      BY <1>6
    <2> HIDE DEF speeds
    <2> QED
      BY <2>1, MaxIs
  <1>8. \A k \in F : speed[k] <= fastest
    <2>1. \A k \in F : speed[k] \in speeds
      OBVIOUS
    <2> QED
      BY <1>7, <2>1
  <1>9. fastest \in Nat /\ (fastest = 0 \/ \E k \in F : speed[k] = fastest)
    BY <1>6, <1>7
  <1> HIDE DEF fastest, speeds, first
  <1>10. CASE fastest <= first
    <2>1. SinrMimoPhyMode(p, known, n) = InitialPhyMode
      BY <1>4, <1>10
    <2>2. \A k \in F : speed[k] \in Nat /\ speed[k] <= first
      BY <1>2, <1>6, <1>8, <1>9, <1>10
    <2>3. \A k \in F : DataBitsPerSymbol(Streams(known, n, k)) <= first
      BY <1>6, <2>2
    <2>4. first <= DataBitsPerSymbol(InitialPhyMode) /\ first = DataBitsPerSymbol(InitialPhyMode)
      BY <1>2 DEF first
    <2> QED
      BY <2>1, <2>3, <2>4 DEF F
  <1>11. CASE ~(fastest <= first)
    <2>1. best # {} /\ best \in SUBSET (0..Antennas)
      <3>1. fastest # 0
        BY <1>2, <1>9, <1>11
      <3>2. best # {}
        BY <1>9, <3>1
      <3>3. 1..Antennas \subseteq 0..Antennas
        BY AntennasAssumption
      <3> QED
        BY <1>1, <3>2, <3>3
    <2>2. Max(best) \in best
      <3> HIDE DEF best
      <3> QED
        BY <2>1, AntennasAssumption, MaxIs
    <2>3. PICK k \in F : k = Max(best) /\ speed[k] = fastest
      BY <2>2
    <2> HIDE DEF best
    <2>4. SinrMimoPhyMode(p, known, n) = Streams(known, n, k)
      BY <1>4, <1>11, <2>3
    <2>5. DataBitsPerSymbol(SinrMimoPhyMode(p, known, n)) = fastest
      BY <1>6, <2>3, <2>4
    <2>6. first <= fastest
      BY <1>2, <1>9, <1>11
    <2> QED
      BY <1>6, <1>8, <2>4, <2>5, <2>6 DEF F, first
  <1> QED
    BY <1>10, <1>11

LEMMA SinrMimoFalls ==
    ASSUME NEW p \in Peers, NEW known \in Reports,
           NEW n \in Nat \ {0}, NEW m \in Nat \ {0}, n <= m
    PROVE  DataBitsPerSymbol(SinrMimoPhyMode(p, known, m))
             <= DataBitsPerSymbol(SinrMimoPhyMode(p, known, n))
  <1> DEFINE x == SinrMimoPhyMode(p, known, m)
             y == SinrMimoPhyMode(p, known, n)
  <1>1. CASE x = InitialPhyMode
    BY <1>1, SinrMimoIs
  <1>2. ASSUME NEW k \in Fitting(p, known), x = Streams(known, m, k)
        PROVE  DataBitsPerSymbol(x) <= DataBitsPerSymbol(y)
    <2>1. k \in 1..Antennas
      BY StreamsOfPeer, AntennasAssumption DEF Fitting
    <2>2. DataBitsPerSymbol(Streams(known, m, k)) <= DataBitsPerSymbol(Streams(known, n, k))
      BY <2>1, StreamsFall
    <2>3. DataBitsPerSymbol(Streams(known, n, k)) <= DataBitsPerSymbol(y)
      BY SinrMimoIs
    <2>4. /\ DataBitsPerSymbol(Streams(known, m, k)) \in Nat
          /\ DataBitsPerSymbol(Streams(known, n, k)) \in Nat
      BY <2>1, StreamsAre, BitsPositive
    <2>5. DataBitsPerSymbol(y) \in Nat
      <3>1. \A j \in Fitting(p, known) : j \in 1..Antennas
        BY StreamsOfPeer, AntennasAssumption DEF Fitting
      <3>2. CASE y = InitialPhyMode
        BY <3>2, InitialMode, ModeIs
      <3>3. ASSUME NEW j \in Fitting(p, known), y = Streams(known, n, j)
            PROVE  DataBitsPerSymbol(y) \in Nat
        BY <3>1, <3>3, StreamsAre, BitsPositive
      <3> QED
        BY <3>2, <3>3, SinrMimoIs
    <2> QED
      BY <1>2, <2>2, <2>3, <2>4, <2>5
  <1> QED
    BY <1>1, <1>2, SinrMimoIs

-----------------------------------------------------------------------------
(* The state of a strategy for one peer                                     *)

ConfigOK ==
    /\ config.strategy \in {"Constant", "ARF", "PER", "SINR",
                            "ARFwithMIMO", "PERwithMIMO", "SINRwithMIMO"}
    /\ config.bianchiRetryCounter \in BOOLEAN
    /\ config.receivers \subseteq Peers

ReportOK ==
    report \in [Peers -> [sinr : SINRs \cup {None}, factors : SUBSET (1..Antennas)]]

RateRecords(p) ==
    [cur : Modes(p), probe : BOOLEAN, timeout : BOOLEAN, timer : BOOLEAN,
     threshold : Nat \ {0}, successful : Nat, good : Nat, bad : Nat]

(* A probe is faster than the mode it is taken back to.                     *)
ProbeOK(p, r) ==
    r.probe => /\ ArfLike
               /\ DataBitsPerSymbol(Lower(p, r.cur)) < DataBitsPerSymbol(r.cur)

RateOK(p, r) == r \in RateRecords(p) /\ ProbeOK(p, r)

ReportMode(p, n) ==
    IF WithMIMO THEN SinrMimoPhyMode(p, report[p], n)
    ELSE SinrPhyMode(report[p].sinr, n)

LEMMA KindsOfStrategy ==
    ASSUME ConfigOK, NEW p \in Peers
    PROVE  /\ UsesReport(p) => ArfLike /\ ~UsesArf(p) /\ ~UsesPer
           /\ UsesArf(p) => ArfLike /\ ~UsesPer
           /\ UsesPer => ~UsesList /\ ~ArfLike
           /\ \/ strategy = "Constant" \/ UsesPer \/ UsesArf(p) \/ UsesReport(p)
           /\ strategy = "Constant" => ~UsesPer /\ ~UsesArf(p) /\ ~UsesReport(p) /\ ~ArfLike
  BY DEF ConfigOK, strategy, UsesReport, UsesArf, UsesPer, UsesList, ArfLike

LEMMA ReportModeIs ==
    ASSUME ConfigOK, ReportOK, NEW p \in Peers, UsesReport(p), NEW n \in Nat \ {0}
    PROVE  DataBitsPerSymbol(ReportMode(p, n)) \in Nat \ {0}
  <1>1. report[p] \in Reports /\ report[p].sinr \in SINRs
    <2>1. /\ report[p] \in [sinr : SINRs \cup {None}, factors : SUBSET (1..Antennas)]
          /\ report[p].sinr # None
      BY DEF ReportOK, UsesReport
    <2> QED
      BY <2>1 DEF Reports
  <1>2. CASE WithMIMO
    <2>1. ReportMode(p, n) = SinrMimoPhyMode(p, report[p], n)
      BY <1>2 DEF ReportMode
    <2>2. CASE ReportMode(p, n) = InitialPhyMode
      BY <2>2, InitialMode, ModeIs
    <2>3. ASSUME NEW k \in Fitting(p, report[p]), ReportMode(p, n) = Streams(report[p], n, k)
          PROVE  DataBitsPerSymbol(ReportMode(p, n)) \in Nat \ {0}
      <3>1. k \in 1..Antennas
        BY StreamsOfPeer, AntennasAssumption DEF Fitting
      <3>2. k \in Nat \ {0} /\ Streams(report[p], n, k) \in [1..k -> Schemes]
        BY <1>1, <3>1, StreamsAre
      <3> QED
        BY <2>3, <3>2, BitsPositive
    <2> QED
      BY <1>1, <2>1, <2>2, <2>3, SinrMimoIs
  <1>3. CASE ~WithMIMO
    <2>1. ReportMode(p, n) = SinrPhyMode(report[p].sinr, n)
      BY <1>3 DEF ReportMode
    <2> QED
      BY <1>1, <2>1, SinrModeIs, ModeIs
  <1> QED
    BY <1>2, <1>3

LEMMA ReportModeFalls ==
    ASSUME ConfigOK, ReportOK, NEW p \in Peers, UsesReport(p),
           NEW n \in Nat \ {0}, NEW m \in Nat \ {0}, n <= m
    PROVE  DataBitsPerSymbol(ReportMode(p, m)) <= DataBitsPerSymbol(ReportMode(p, n))
  <1>1. report[p] \in Reports /\ report[p].sinr \in SINRs
    <2>1. /\ report[p] \in [sinr : SINRs \cup {None}, factors : SUBSET (1..Antennas)]
          /\ report[p].sinr # None
      BY DEF ReportOK, UsesReport
    <2> QED
      BY <2>1 DEF Reports
  <1> QED
    BY <1>1, SinrMimoFalls, SinrModeFalls DEF ReportMode

(* ARF                                                                      *)

LEMMA ArfModeIs ==
    ASSUME NEW p \in Peers, ArfLike, NEW r, RateOK(p, r), NEW n
    PROVE  /\ ArfPhyMode(p, r, n) \in {r.cur, Higher(p, r.cur), Lower(p, r.cur)}
           /\ ArfPhyMode(p, r, n) \in Modes(p)
  <1>1. r.cur \in Modes(p)
    BY DEF RateOK, RateRecords
  <1>2. ArfPhyMode(p, r, n) \in {r.cur, Higher(p, r.cur), Lower(p, r.cur)}
    BY DEF ArfPhyMode
  <1> QED
    BY <1>1, <1>2, HigherIs, LowerIs

LEMMA ArfSetIs ==
    ASSUME NEW p \in Peers, ArfLike, NEW r, RateOK(p, r), NEW pm \in Modes(p),
           NEW s, s = ArfSet(p, r, pm)
    PROVE  /\ s \in RateRecords(p) /\ s.cur = pm /\ ~s.timeout
           /\ IF pm = r.cur
              THEN /\ s.successful = r.successful /\ s.threshold = r.threshold
                   /\ ~s.probe
              ELSE /\ s.successful = 0
                   /\ s.probe => pm # Lower(p, r.cur)
  <1>1. /\ r \in RateRecords(p) /\ r.threshold \in Nat \ {0} /\ r.probe \in BOOLEAN
        /\ r = [cur |-> r.cur, probe |-> r.probe, timeout |-> r.timeout, timer |-> r.timer,
                threshold |-> r.threshold, successful |-> r.successful,
                good |-> r.good, bad |-> r.bad]
    BY DEF RateOK, RateRecords
  <1>2. CASE pm = r.cur
    <2>1. s = [r EXCEPT !.timeout = FALSE, !.probe = FALSE]
      BY <1>2 DEF ArfSet
    <2>2. s \in RateRecords(p)
      BY <1>1, <2>1 DEF RateRecords
    <2>3. /\ s.cur = r.cur /\ s.timeout = FALSE /\ s.probe = FALSE
          /\ s.successful = r.successful /\ s.threshold = r.threshold
      BY <1>1, <2>1
    <2> QED
      BY <1>2, <2>2, <2>3
  <1>3. CASE pm # r.cur
    <2> DEFINE down == pm = Lower(p, r.cur)
               threshold == IF ~down THEN r.threshold
                            ELSE IF r.probe
                            THEN IF r.threshold < MaxThreshold
                                 THEN 2 * r.threshold ELSE r.threshold
                            ELSE Max({r.threshold \div 2, InitialThreshold})
    <2>1. threshold \in Nat \ {0}
      <3>1. Max({r.threshold \div 2, InitialThreshold}) \in Nat \ {0}
        <4>1. r.threshold \div 2 \in Int /\ InitialThreshold \in Nat \ {0}
          BY <1>1, ThresholdAssumption
        <4> QED
          BY <4>1, MaxOfTwo
      <3>2. 2 * r.threshold \in Nat \ {0}
        BY <1>1
      <3> QED
        BY <1>1, <3>1, <3>2
    <2>2. down \in BOOLEAN
      OBVIOUS
    <2>3. s = [Reset(r) EXCEPT !.cur = pm, !.timeout = FALSE, !.timer = down,
                               !.probe = ~down, !.threshold = threshold]
      BY <1>3 DEF ArfSet
    <2> HIDE DEF down, threshold
    <2>4. s = [cur |-> pm, probe |-> ~down, timeout |-> FALSE, timer |-> down,
               threshold |-> threshold, successful |-> 0, good |-> 0, bad |-> 0]
      BY <1>1, <2>3 DEF Reset
    <2>5. s \in RateRecords(p)
      BY <2>1, <2>2, <2>4 DEF RateRecords
    <2>6. s.cur = pm /\ s.timeout = FALSE /\ s.successful = 0 /\ s.probe = ~down
      BY <2>4
    <2> QED
      BY <1>3, <2>5, <2>6 DEF down
  <1> QED
    BY <1>2, <1>3

(* PER                                                                      *)

Increased(p, pm) == IF WithMIMO THEN IncreasePhyMode(p, pm) ELSE McsUp(pm)
Decreased(pm) == IF WithMIMO THEN ReducePhyMode(pm) ELSE McsDown(pm)

NotFaster(a, b) == DataBitsPerSymbol(a) <= DataBitsPerSymbol(b) \/ Len(a) < Len(b)

LEMMA DecreasedIs ==
    ASSUME NEW p \in Peers, NEW pm \in StreamModes(p)
    PROVE  Decreased(pm) \in StreamModes(p) /\ NotFaster(Decreased(pm), pm)
  <1>1. /\ Len(pm) \in 1..MaxStreams(p) /\ pm[1] \in 1..Highest
        /\ DataBitsPerSymbol(pm) \in Nat /\ MaxStreams(p) \in Nat /\ Highest \in Nat
    BY ModeIs, StreamsOfPeer, SchemeFacts
  <1>2. McsDown(pm) \in StreamModes(p) /\ NotFaster(McsDown(pm), pm)
    <2>1. DataBitsPerSymbol(McsDown(pm)) \in Nat
      BY McsDownIs, ModeIs
    <2> QED
      BY <1>1, <2>1, McsDownIs DEF NotFaster
  <1>3. CASE WithMIMO
    <2>1. Decreased(pm) = ReducePhyMode(pm)
      BY <1>3 DEF Decreased
    <2>2. CASE pm[1] # Lowest
      BY <1>2, <2>1, <2>2 DEF ReducePhyMode
    <2>3. CASE pm[1] = Lowest /\ Len(pm) > 1
      <3> DEFINE up == Up(OnDecrease, pm[1])
                 less == Len(pm) - 1
      <3>1. up \in Schemes
        <4>1. pm[1] + OnDecrease \in Nat /\ pm[1] + OnDecrease >= 1
          BY <1>1, AntennasAssumption
        <4> QED
          BY <1>1, <4>1, MinOfTwo, SchemeFacts DEF Up
      <3>2. less \in 1..MaxStreams(p) /\ less \in Nat /\ less < Len(pm)
        BY <1>1, <2>3
      <3>3. Decreased(pm) = Uniform(up, less)
        BY <2>1, <2>3 DEF ReducePhyMode
      <3> HIDE DEF up, less
      <3> QED
        BY <3>1, <3>2, <3>3, UniformMode, UniformIs DEF NotFaster
    <2>4. CASE pm[1] = Lowest /\ ~(Len(pm) > 1)
      BY <1>1, <2>1, <2>4 DEF ReducePhyMode, NotFaster
    <2> QED
      BY <2>2, <2>3, <2>4
  <1>4. CASE ~WithMIMO
    BY <1>2, <1>4 DEF Decreased
  <1> QED
    BY <1>3, <1>4

LEMMA IncreasedIs ==
    ASSUME NEW p \in Peers, NEW pm \in StreamModes(p)
    PROVE  Increased(p, pm) \in StreamModes(p)
  <1>1. /\ Len(pm) \in 1..MaxStreams(p) /\ pm[1] \in 1..Highest
        /\ MaxStreams(p) \in Nat /\ Highest \in Nat
    BY ModeIs, StreamsOfPeer, SchemeFacts
  <1>2. McsUp(pm) \in StreamModes(p)
    BY McsUpIs
  <1>3. CASE WithMIMO /\ pm[1] = Highest /\ Len(pm) < MaxStreams(p)
    <2> DEFINE down == Down(OnIncrease, pm[1])
               more == Len(pm) + 1
    <2>1. down \in Schemes
      <3>1. pm[1] - OnIncrease \in Int /\ pm[1] - OnIncrease <= Highest
        BY <1>1, AntennasAssumption
      <3>2. Lowest \in Int
        BY DEF Lowest
      <3> QED
        BY <1>1, <3>1, <3>2, MaxOfTwo, SchemeFacts DEF Down, Lowest
    <2>2. more \in 1..MaxStreams(p)
      BY <1>1, <1>3
    <2>3. Increased(p, pm) = Uniform(down, more)
      BY <1>3 DEF Increased, IncreasePhyMode
    <2> HIDE DEF down, more
    <2> QED
      BY <2>1, <2>2, <2>3, UniformMode
  <1>4. CASE ~(WithMIMO /\ pm[1] = Highest /\ Len(pm) < MaxStreams(p))
    BY <1>2, <1>4 DEF Increased, IncreasePhyMode
  <1> QED
    BY <1>3, <1>4

(* The results so far would lead to a faster mode.                          *)
Climbs(p, r) ==
    /\ Samples(r) >= MinSamples /\ ~GoingDown(r) /\ GoingUp(r)
    /\ Increased(p, r.cur) # r.cur

LEMMA PerModeIs ==
    ASSUME NEW p \in Peers, NEW r, r.cur \in StreamModes(p), r.good \in Nat, r.bad \in Nat
    PROVE  /\ PerPhyMode(p, r) \in StreamModes(p)
           /\ Climbs(p, r) => PerPhyMode(p, r) # r.cur
           /\ ~Climbs(p, r) => NotFaster(PerPhyMode(p, r), r.cur)
  <1>1. Samples(r) \in Nat /\ MinSamples \in Nat
    BY ThresholdAssumption DEF Samples
  <1>2. PerPhyMode(p, r) =
          IF Samples(r) < MinSamples THEN r.cur
          ELSE IF GoingDown(r) THEN Decreased(r.cur)
          ELSE IF GoingUp(r) THEN Increased(p, r.cur) ELSE r.cur
    BY DEF PerPhyMode, Decreased, Increased
  <1>3. NotFaster(r.cur, r.cur)
    BY ModeIs DEF NotFaster
  <1>4. Decreased(r.cur) \in StreamModes(p) /\ NotFaster(Decreased(r.cur), r.cur)
    BY DecreasedIs
  <1>5. Increased(p, r.cur) \in StreamModes(p)
    BY IncreasedIs
  <1> QED
    BY <1>1, <1>2, <1>3, <1>4, <1>5 DEF Climbs

LEMMA PerSetIs ==
    ASSUME NEW p \in Peers, UsesPer, ~UsesList, NEW r, r \in RateRecords(p),
           NEW pm, pm = PerPhyMode(p, r), NEW s, s = PerSet(r, pm)
    PROVE  /\ s \in RateRecords(p) /\ s.cur = pm /\ s.probe = r.probe
           /\ ~Climbs(p, s)
  <1>1. /\ r.cur \in StreamModes(p) /\ r.good \in Nat /\ r.bad \in Nat
        /\ r = [cur |-> r.cur, probe |-> r.probe, timeout |-> r.timeout, timer |-> r.timer,
                threshold |-> r.threshold, successful |-> r.successful,
                good |-> r.good, bad |-> r.bad]
    BY DEF RateRecords, Modes
  <1>2. pm \in StreamModes(p) /\ (Climbs(p, r) => pm # r.cur)
    BY <1>1, PerModeIs
  <1>3. CASE pm = r.cur
    BY <1>2, <1>3 DEF PerSet
  <1>4. CASE pm # r.cur
    <2>1. s = [cur |-> pm, probe |-> r.probe, timeout |-> r.timeout, timer |-> r.timer,
               threshold |-> r.threshold, successful |-> 0, good |-> 0, bad |-> 0]
      BY <1>1, <1>4 DEF PerSet, Reset
    <2>2. s \in RateRecords(p)
      BY <1>2, <2>1 DEF RateRecords, Modes
    <2>3. s.cur = pm /\ s.probe = r.probe /\ s.good = 0 /\ s.bad = 0
      BY <2>1
    <2>4. ~GoingUp(s)
      BY <2>3 DEF GoingUp, Samples
    <2> QED
      BY <2>2, <2>3, <2>4 DEF Climbs
  <1> QED
    BY <1>3, <1>4

(* A failure does not make a mode go up, when one in a hundred is too many. *)
LEMMA FailureDoesNotRaise ==
    ASSUME MinSamples <= 100, NEW p, NEW r, NEW s,
           r.good \in Nat, r.bad \in Nat, ~Climbs(p, r),
           s.cur = r.cur, s.good = r.good, s.bad = r.bad + 1
    PROVE  ~Climbs(p, s)
  <1>1. MinSamples \in Nat
    BY ThresholdAssumption
  <1>2. Samples(r) = r.good + r.bad /\ Samples(s) = r.good + r.bad + 1
    BY DEF Samples
  <1> SUFFICES ASSUME Climbs(p, s) PROVE FALSE
    OBVIOUS
  <1>3. ~(4 * (r.bad + 1) > r.good + r.bad + 1) /\ 100 * (r.bad + 1) < r.good + r.bad + 1
    BY <1>2 DEF Climbs, GoingDown, GoingUp
  <1>4. /\ r.good + r.bad >= MinSamples
        /\ ~(4 * r.bad > r.good + r.bad) /\ 100 * r.bad < r.good + r.bad
    BY <1>1, <1>3
  <1> QED
    BY <1>2, <1>4 DEF Climbs, GoingDown, GoingUp

-----------------------------------------------------------------------------
(* Asking a strategy, sending, and the result                               *)

(* While ARF can go up, the successes have not arrived at, or not passed,   *)
(* the threshold.                                                           *)
Below(p, r) ==
    UsesArf(p) /\ Higher(p, r.cur) # r.cur => r.successful < r.threshold

AtMost(p, r) ==
    UsesArf(p) /\ Higher(p, r.cur) # r.cur => r.successful <= r.threshold

(* What the state of the strategy still says of the n-th transmission, that *)
(* was sent at pm, as long as the conditions are the same.                  *)
Sent(p, r, n, pm, probe) ==
    /\ UsesReport(p) => pm = ReportMode(p, n)
    /\ ~UsesReport(p) => pm = r.cur
    /\ UsesArf(p) =>
         /\ ~r.timeout /\ probe = r.probe
         /\ n = 1 => r.successful # r.threshold \/ Higher(p, r.cur) = r.cur
    /\ UsesPer => ~Climbs(p, r)

LEMMA ModeByStrategy ==
    ASSUME ConfigOK, NEW p \in Peers, NEW r, NEW n
    PROVE  /\ UsesReport(p) => GetPhyMode(p, r, n) = ReportMode(p, n)
           /\ UsesArf(p) => GetPhyMode(p, r, n) = ArfPhyMode(p, r, n)
           /\ UsesPer => GetPhyMode(p, r, n) = PerPhyMode(p, r)
           /\ strategy = "Constant" => GetPhyMode(p, r, n) = r.cur
  BY KindsOfStrategy DEF GetPhyMode, ReportMode, UsesReport, UsesArf, UsesPer, ArfLike

LEMMA SetByStrategy ==
    ASSUME ConfigOK, NEW p \in Peers, NEW r, NEW pm
    PROVE  /\ UsesReport(p) => SetCurrentPhyMode(p, r, pm) = r
           /\ UsesArf(p) => SetCurrentPhyMode(p, r, pm) = ArfSet(p, r, pm)
           /\ UsesPer => SetCurrentPhyMode(p, r, pm) = PerSet(r, pm)
           /\ strategy = "Constant" => SetCurrentPhyMode(p, r, pm) = r
  BY KindsOfStrategy DEF SetCurrentPhyMode

LEMMA RateFields ==
    ASSUME NEW p \in Peers, NEW r, RateOK(p, r)
    PROVE  /\ r.cur \in Modes(p) /\ r.cur \in StreamModes(p)
           /\ DataBitsPerSymbol(r.cur) \in Nat \ {0}
           /\ r.probe \in BOOLEAN /\ r.timeout \in BOOLEAN
           /\ r.threshold \in Nat \ {0} /\ r.successful \in Nat
           /\ r.good \in Nat /\ r.bad \in Nat
  <1>1. /\ r.cur \in Modes(p) /\ r.probe \in BOOLEAN /\ r.timeout \in BOOLEAN
        /\ r.threshold \in Nat \ {0} /\ r.successful \in Nat
        /\ r.good \in Nat /\ r.bad \in Nat
    BY DEF RateOK, RateRecords
  <1>2. r.cur \in StreamModes(p)
    BY <1>1, ModesAreStreams
  <1> QED
    BY <1>1, <1>2, ModeIs

LEMMA GetPhyModeIs ==
    ASSUME ConfigOK, ReportOK, NEW p \in Peers, NEW r, RateOK(p, r), NEW n \in Nat \ {0}
    PROVE  DataBitsPerSymbol(GetPhyMode(p, r, n)) \in Nat \ {0}
  <1>1. CASE UsesReport(p)
    BY <1>1, ModeByStrategy, ReportModeIs
  <1>2. CASE UsesArf(p)
    <2>1. GetPhyMode(p, r, n) \in Modes(p)
      BY <1>2, ModeByStrategy, KindsOfStrategy, ArfModeIs
    <2> QED
      BY <2>1, ModesAreStreams, ModeIs
  <1>3. CASE UsesPer
    <2>1. GetPhyMode(p, r, n) = PerPhyMode(p, r)
      BY <1>3, ModeByStrategy
    <2>2. PerPhyMode(p, r) \in StreamModes(p)
      BY RateFields, PerModeIs
    <2> QED
      BY <2>1, <2>2, ModeIs
  <1>4. CASE strategy = "Constant"
    BY <1>4, ModeByStrategy, RateFields
  <1> QED
    BY <1>1, <1>2, <1>3, <1>4, KindsOfStrategy

(* Sending leaves the strategy in agreement with the transmission.          *)
LEMMA SetCurrentIs ==
    ASSUME ConfigOK, ReportOK, NEW p \in Peers, NEW r, RateOK(p, r), NEW n \in Nat \ {0},
           NEW pm, pm = GetPhyMode(p, r, n), NEW s, s = SetCurrentPhyMode(p, r, pm)
    PROVE  /\ RateOK(p, s) /\ Sent(p, s, n, pm, s.probe)
           /\ AtMost(p, r) /\ (n = 1 \/ Below(p, r)) => Below(p, s)
  <1>1. CASE UsesReport(p)
    <2>1. s = r /\ pm = ReportMode(p, n)
      BY <1>1, ModeByStrategy, SetByStrategy
    <2> QED
      BY <1>1, <2>1, KindsOfStrategy DEF Sent, Below
  <1>2. CASE UsesArf(p)
    <2>1. ArfLike /\ ~UsesPer /\ ~UsesReport(p)
      BY <1>2, KindsOfStrategy
    <2>2. pm = ArfPhyMode(p, r, n) /\ s = ArfSet(p, r, pm)
      BY <1>2, ModeByStrategy, SetByStrategy
    <2>3. pm \in {r.cur, Higher(p, r.cur), Lower(p, r.cur)} /\ pm \in Modes(p)
      BY <2>1, <2>2, ArfModeIs
    <2>4. /\ s \in RateRecords(p) /\ s.cur = pm /\ ~s.timeout
          /\ IF pm = r.cur
             THEN /\ s.successful = r.successful /\ s.threshold = r.threshold
                  /\ ~s.probe
             ELSE /\ s.successful = 0
                  /\ s.probe => pm # Lower(p, r.cur)
      BY <2>1, <2>2, <2>3, ArfSetIs
    <2>5. ProbeOK(p, s)
      <3> SUFFICES ASSUME s.probe
                   PROVE  DataBitsPerSymbol(Lower(p, s.cur)) < DataBitsPerSymbol(s.cur)
        BY <2>1 DEF ProbeOK
      <3>1. pm = Higher(p, r.cur) /\ pm # r.cur
        BY <2>3, <2>4
      <3> QED
        BY <2>1, <2>4, <3>1, RateFields, LowerAfterHigher
    <2>6. s.threshold \in Nat \ {0} /\ s.successful \in Nat
      BY <2>4 DEF RateRecords
    <2>7. n = 1 => s.successful # s.threshold \/ Higher(p, s.cur) = s.cur
      <3> SUFFICES ASSUME n = 1, s.successful = s.threshold
                   PROVE  Higher(p, s.cur) = s.cur
        OBVIOUS
      <3>1. pm = r.cur /\ r.successful = r.threshold
        BY <2>4, <2>6
      <3>2. pm = Higher(p, r.cur)
        BY <2>2, <3>1 DEF ArfPhyMode
      <3> QED
        BY <2>4, <3>1, <3>2
    <2>8. Sent(p, s, n, pm, s.probe)
      BY <2>1, <2>4, <2>7 DEF Sent
    <2>9. ASSUME AtMost(p, r), n = 1 \/ Below(p, r) PROVE Below(p, s)
      <3> SUFFICES ASSUME Higher(p, s.cur) # s.cur PROVE s.successful < s.threshold
        BY DEF Below
      <3>1. CASE pm # r.cur
        BY <2>4, <2>6, <3>1
      <3>2. CASE pm = r.cur
        <4>1. s.successful = r.successful /\ s.threshold = r.threshold
          BY <2>4, <3>2
        <4>2. r.successful <= r.threshold
          BY <1>2, <2>4, <2>9, <3>2 DEF AtMost
        <4>3. CASE n = 1
          BY <2>4, <2>6, <2>7, <4>1, <4>2, <4>3
        <4>4. CASE Below(p, r)
          BY <1>2, <2>4, <3>2, <4>1, <4>4 DEF Below
        <4> QED
          BY <2>9, <4>3, <4>4
      <3> QED
        BY <3>1, <3>2
    <2> QED
      BY <2>4, <2>5, <2>8, <2>9 DEF RateOK
  <1>3. CASE UsesPer
    <2>1. ~UsesList /\ ~ArfLike /\ ~UsesArf(p) /\ ~UsesReport(p)
      BY <1>3, KindsOfStrategy
    <2>2. pm = PerPhyMode(p, r) /\ s = PerSet(r, pm)
      BY <1>3, ModeByStrategy, SetByStrategy
    <2>3. s \in RateRecords(p) /\ s.cur = pm /\ s.probe = r.probe /\ ~Climbs(p, s)
      BY <1>3, <2>1, <2>2, PerSetIs DEF RateOK
    <2>4. ProbeOK(p, s)
      BY <2>1, <2>3 DEF RateOK, ProbeOK
    <2> QED
      BY <2>1, <2>3, <2>4 DEF RateOK, Sent, Below
  <1>4. CASE strategy = "Constant"
    <2>1. s = r /\ pm = r.cur
      BY <1>4, ModeByStrategy, SetByStrategy
    <2> QED
      BY <1>4, <2>1, KindsOfStrategy DEF Sent, Below
  <1> QED
    BY <1>1, <1>2, <1>3, <1>4, KindsOfStrategy

LEMMA ResultIs ==
    ASSUME ConfigOK, NEW p \in Peers, NEW r, RateOK(p, r), NEW ok \in BOOLEAN,
           NEW s, s = OnResult(r, ok)
    PROVE  /\ RateOK(p, s) /\ s.cur = r.cur /\ s.probe = r.probe /\ s.timeout = r.timeout
           /\ s.threshold = r.threshold
           /\ s.successful <= r.successful + 1
           /\ ~ok => s.successful = r.successful
           /\ ~UsesPer => s.good = r.good /\ s.bad = r.bad
           /\ ~ok /\ UsesPer => s = r \/ (s.good = r.good /\ s.bad = r.bad + 1)
  <1>1. /\ r \in RateRecords(p) /\ r.good \in Nat /\ r.bad \in Nat /\ r.successful \in Nat
        /\ r = [cur |-> r.cur, probe |-> r.probe, timeout |-> r.timeout, timer |-> r.timer,
                threshold |-> r.threshold, successful |-> r.successful,
                good |-> r.good, bad |-> r.bad]
    BY DEF RateOK, RateRecords
  <1>2. CASE s = r
    BY <1>1, <1>2
  <1>3. CASE UsesPer /\ s # r /\ ok
    <2>1. s = [r EXCEPT !.good = @ + 1]
      BY <1>3 DEF OnResult
    <2>2. s \in RateRecords(p)
      BY <1>1, <2>1 DEF RateRecords
    <2>3. /\ s.cur = r.cur /\ s.probe = r.probe /\ s.timeout = r.timeout
          /\ s.threshold = r.threshold /\ s.successful = r.successful
      BY <1>1, <2>1
    <2>4. RateOK(p, s)
      BY <2>2, <2>3 DEF RateOK, ProbeOK
    <2>5. s.successful <= r.successful + 1
      BY <1>1, <2>3
    <2> QED
      BY <1>3, <2>3, <2>4, <2>5
  <1>4. CASE UsesPer /\ s # r /\ ~ok
    <2>1. s = [r EXCEPT !.bad = @ + 1]
      BY <1>4 DEF OnResult
    <2>2. s \in RateRecords(p)
      BY <1>1, <2>1 DEF RateRecords
    <2>3. /\ s.cur = r.cur /\ s.probe = r.probe /\ s.timeout = r.timeout
          /\ s.threshold = r.threshold /\ s.successful = r.successful
          /\ s.good = r.good /\ s.bad = r.bad + 1
      BY <1>1, <2>1
    <2>4. RateOK(p, s)
      BY <2>2, <2>3 DEF RateOK, ProbeOK
    <2>5. s.successful <= r.successful + 1
      BY <1>1, <2>3
    <2> QED
      BY <1>4, <2>3, <2>4, <2>5
  <1>5. CASE ~UsesPer /\ s # r
    <2> DEFINE c == Min({r.successful + 1, 2 * MaxThreshold})
    <2>1. s = [r EXCEPT !.successful = c] /\ ok
      BY <1>5 DEF OnResult
    <2>2. c \in Nat /\ c <= r.successful + 1
      <3>1. r.successful + 1 \in Int /\ 2 * MaxThreshold \in Int
        BY <1>1, ThresholdAssumption
      <3>2. /\ c \in {r.successful + 1, 2 * MaxThreshold}
            /\ c <= r.successful + 1
        BY <3>1, MinOfTwo
      <3> HIDE DEF c
      <3> QED
        BY <1>1, <3>2, ThresholdAssumption
    <2> HIDE DEF c
    <2>3. s \in RateRecords(p)
      BY <1>1, <2>1, <2>2 DEF RateRecords
    <2>4. /\ s.cur = r.cur /\ s.probe = r.probe /\ s.timeout = r.timeout
          /\ s.threshold = r.threshold /\ s.successful = c
          /\ s.good = r.good /\ s.bad = r.bad
      BY <1>1, <2>1
    <2>5. RateOK(p, s)
      BY <2>3, <2>4 DEF RateOK, ProbeOK
    <2> QED
      BY <1>5, <2>1, <2>2, <2>4, <2>5
  <1> QED
    BY <1>2, <1>3, <1>4, <1>5

(* What a result leaves of the state r of a strategy: s.                    *)
Failed(p, r, s) ==
    /\ RateOK(p, s) /\ s.cur = r.cur /\ s.probe = r.probe /\ s.timeout = r.timeout
    /\ s.threshold = r.threshold /\ s.successful = r.successful
    /\ UsesPer => s = r \/ (s.good = r.good /\ s.bad = r.bad + 1)

Succeeded(p, r, s) ==
    /\ RateOK(p, s) /\ s.cur = r.cur /\ s.probe = r.probe /\ s.timeout = r.timeout
    /\ s.threshold = r.threshold /\ s.successful <= r.successful + 1

LEMMA FailureIs ==
    ASSUME ConfigOK, NEW p \in Peers, NEW r, RateOK(p, r)
    PROVE  Failed(p, r, OnResult(r, FALSE))
  <1>1. \A ok \in BOOLEAN : ok = FALSE => Failed(p, r, OnResult(r, ok))
    BY ResultIs DEF Failed
  <1> QED
    BY <1>1, Zenon

LEMMA SuccessIs ==
    ASSUME ConfigOK, NEW p \in Peers, NEW r, RateOK(p, r)
    PROVE  Succeeded(p, r, OnResult(r, TRUE))
  <1>1. \A ok \in BOOLEAN : Succeeded(p, r, OnResult(r, ok))
    BY ResultIs DEF Succeeded
  <1> QED
    BY <1>1, Zenon

LEMMA FailureCounts ==
    ASSUME NEW p \in Peers, NEW r, NEW s, Failed(p, r, s)
    PROVE  (Below(p, r) => Below(p, s)) /\ (AtMost(p, r) => AtMost(p, s))
  BY DEF Failed, Below, AtMost

LEMMA SuccessCounts ==
    ASSUME NEW p \in Peers, NEW r, RateOK(p, r), NEW s, Succeeded(p, r, s), Below(p, r)
    PROVE  AtMost(p, s)
  <1>1. /\ s.cur = r.cur /\ s.threshold = r.threshold /\ s.successful <= r.successful + 1
        /\ s.successful \in Nat /\ r.successful \in Nat /\ r.threshold \in Nat
    BY RateFields DEF Succeeded
  <1> QED
    BY <1>1 DEF Below, AtMost

(* A retransmission is not faster, and slower than a probe.                 *)
LEMMA RetryIsSlower ==
    ASSUME ConfigOK, ReportOK, NEW p \in Peers, NEW r, RateOK(p, r),
           NEW n \in Nat \ {0}, NEW pm, NEW probe, Sent(p, r, n, pm, probe),
           NEW s, Failed(p, r, s), NEW m \in Nat, m > n,
           NEW next, next = GetPhyMode(p, s, m), MinSamples <= 100
    PROVE  /\ NotFaster(next, pm)
           /\ probe /\ strategy \in {"ARF", "ARFwithMIMO"}
                => DataBitsPerSymbol(next) < DataBitsPerSymbol(pm)
  <1>1. /\ RateOK(p, s) /\ s.cur = r.cur /\ s.probe = r.probe /\ s.timeout = r.timeout
        /\ s.threshold = r.threshold /\ s.successful = r.successful
    BY DEF Failed
  <1>2. m \in Nat \ {0} /\ n <= m /\ m >= 2
    OBVIOUS
  <1>3. CASE UsesReport(p)
    <2>1. next = ReportMode(p, m) /\ pm = ReportMode(p, n)
      BY <1>3, ModeByStrategy DEF Sent
    <2>2. DataBitsPerSymbol(next) <= DataBitsPerSymbol(pm)
      BY <1>2, <1>3, <2>1, ReportModeFalls
    <2>3. strategy \notin {"ARF", "ARFwithMIMO"}
      BY <1>3 DEF UsesReport
    <2> QED
      BY <2>2, <2>3 DEF NotFaster
  <1>4. CASE UsesArf(p)
    <2>1. ArfLike /\ ~UsesReport(p)
      BY <1>4, KindsOfStrategy
    <2>2. next = ArfPhyMode(p, s, m)
      BY <1>4, ModeByStrategy
    <2>3. /\ pm = r.cur /\ ~r.timeout /\ probe = r.probe
          /\ n = 1 => r.successful # r.threshold \/ Higher(p, r.cur) = r.cur
      BY <1>4, <2>1 DEF Sent
    <2>4. \/ next = Lower(p, r.cur)
          \/ ~probe /\ next = r.cur
      <3>1. CASE (s.probe /\ m = 2) \/ m >= 3
        BY <1>1, <2>2, <2>3, <3>1 DEF ArfPhyMode
      <3>2. CASE ~((s.probe /\ m = 2) \/ m >= 3)
        <4>1. m = 2 /\ n = 1 /\ ~probe
          BY <1>1, <1>2, <2>3, <3>2
        <4>2. next = IF s.successful = s.threshold THEN Higher(p, s.cur) ELSE s.cur
          BY <1>1, <2>2, <2>3, <3>2 DEF ArfPhyMode
        <4> QED
          BY <1>1, <2>3, <4>1, <4>2
      <3> QED
        BY <3>1, <3>2
    <2>5. /\ DataBitsPerSymbol(r.cur) \in Nat
          /\ Lower(p, r.cur) = r.cur
               \/ DataBitsPerSymbol(Lower(p, r.cur)) < DataBitsPerSymbol(r.cur)
          /\ DataBitsPerSymbol(Lower(p, r.cur)) \in Nat
      <3>1. r.cur \in Modes(p)
        BY RateFields
      <3>2. Lower(p, r.cur) \in StreamModes(p)
        BY <2>1, <3>1, LowerIs, ModesAreStreams
      <3> QED
        BY <2>1, <3>1, <3>2, LowerIs, RateFields, ModeIs
    <2>6. probe => DataBitsPerSymbol(Lower(p, r.cur)) < DataBitsPerSymbol(r.cur)
      BY <2>3 DEF RateOK, ProbeOK
    <2> QED
      BY <2>3, <2>4, <2>5, <2>6 DEF NotFaster
  <1>5. CASE UsesPer
    <2>1. ~UsesList /\ ~UsesReport(p) /\ strategy \notin {"ARF", "ARFwithMIMO"}
      BY <1>5, KindsOfStrategy DEF UsesPer
    <2>2. next = PerPhyMode(p, s) /\ pm = r.cur /\ ~Climbs(p, r)
      BY <1>5, <2>1, ModeByStrategy DEF Sent
    <2>3. ~Climbs(p, s)
      <3>1. r.good \in Nat /\ r.bad \in Nat
        BY RateFields
      <3>2. s = r \/ (s.good = r.good /\ s.bad = r.bad + 1)
        BY <1>5 DEF Failed
      <3> QED
        BY <1>1, <2>2, <3>1, <3>2, FailureDoesNotRaise
    <2>4. s.cur \in StreamModes(p) /\ s.good \in Nat /\ s.bad \in Nat
      BY <1>1, RateFields
    <2>5. NotFaster(PerPhyMode(p, s), s.cur)
      BY <2>3, <2>4, PerModeIs
    <2> QED
      BY <1>1, <2>1, <2>2, <2>5
  <1>6. CASE strategy = "Constant"
    <2>1. next = s.cur /\ pm = r.cur
      BY <1>6, ModeByStrategy, KindsOfStrategy DEF Sent
    <2>2. DataBitsPerSymbol(r.cur) \in Nat
      BY RateFields
    <2> QED
      BY <1>1, <1>6, <2>1, <2>2 DEF NotFaster
  <1> QED
    BY <1>3, <1>4, <1>5, <1>6, KindsOfStrategy

(* A success does not make the mode slower than was announced.              *)
LEMMA SuccessNotSlower ==
    ASSUME ConfigOK, ReportOK, NEW p \in Peers, NEW r, RateOK(p, r),
           Below(p, r), ~UsesPer, NEW s, Succeeded(p, r, s)
    PROVE  DataBitsPerSymbol(GetPhyMode(p, r, 1)) <= DataBitsPerSymbol(GetPhyMode(p, s, 1))
  <1>1. RateOK(p, s) /\ s.cur = r.cur /\ s.probe = r.probe /\ s.timeout = r.timeout
    BY DEF Succeeded
  <1>2. CASE UsesReport(p)
    <2>1. /\ GetPhyMode(p, r, 1) = ReportMode(p, 1)
          /\ GetPhyMode(p, s, 1) = ReportMode(p, 1)
      BY <1>2, ModeByStrategy
    <2>2. DataBitsPerSymbol(ReportMode(p, 1)) \in Nat
      BY <1>2, ReportModeIs
    <2> QED
      BY <2>1, <2>2
  <1>3. CASE UsesArf(p)
    <2>1. /\ GetPhyMode(p, r, 1) = ArfPhyMode(p, r, 1)
          /\ GetPhyMode(p, s, 1) = ArfPhyMode(p, s, 1) /\ ArfLike
      BY <1>3, ModeByStrategy, KindsOfStrategy
    <2> DEFINE up == Higher(p, r.cur)
    <2>2. /\ DataBitsPerSymbol(r.cur) \in Nat /\ DataBitsPerSymbol(up) \in Nat
          /\ up = r.cur \/ DataBitsPerSymbol(r.cur) < DataBitsPerSymbol(up)
      <3>1. r.cur \in Modes(p)
        BY RateFields
      <3>2. up \in StreamModes(p)
        BY <2>1, <3>1, HigherIs, ModesAreStreams
      <3> QED
        BY <2>1, <3>1, <3>2, HigherIs, RateFields, ModeIs
    <2>3. ArfPhyMode(p, r, 1) = IF r.timeout THEN up
                                ELSE IF r.successful = r.threshold THEN up ELSE r.cur
      BY DEF ArfPhyMode
    <2>4. ArfPhyMode(p, s, 1) = IF r.timeout THEN up
                                ELSE IF s.successful = s.threshold THEN up ELSE r.cur
      BY <1>1 DEF ArfPhyMode
    <2>5. r.successful = r.threshold => up = r.cur
      <3>1. r.successful \in Nat /\ r.threshold \in Nat
        BY RateFields
      <3> QED
        BY <1>3, <3>1 DEF Below
    <2> HIDE DEF up
    <2> QED
      BY <2>1, <2>2, <2>3, <2>4, <2>5
  <1>4. CASE strategy = "Constant"
    <2>1. GetPhyMode(p, r, 1) = r.cur /\ GetPhyMode(p, s, 1) = s.cur
      BY <1>4, ModeByStrategy
    <2>2. DataBitsPerSymbol(r.cur) \in Nat
      BY RateFields
    <2> QED
      BY <1>1, <2>1, <2>2
  <1> QED
    BY <1>2, <1>3, <1>4, KindsOfStrategy

-----------------------------------------------------------------------------
(* The sending station                                                      *)

OwnFrames == [to : config.receivers, length : Lengths]

RatesOK(r) == r = [p \in Peers |-> r[p]] /\ \A p \in Peers : RateOK(p, r[p])

TypesOK ==
    /\ ConfigOK /\ ReportOK /\ RatesOK(rate)
    /\ buffer \in Seq(OwnFrames)
    /\ active \in OwnFrames \cup {None}
    /\ arq \in [src : Nat, station : Nat]
    /\ remaining \in Int
    /\ announced \in [exchange : Int, head : BOOLEAN, fresh : BOOLEAN]
    /\ air.counter \in Nat

(* Where the station stands between two frames: the next is transmitted for *)
(* the first time, or its receiver's successes are below the threshold.     *)
CountsForNext(r, station) ==
    CountsOwnLosses =>
      \A p \in Peers :
        /\ AtMost(p, r[p])
        /\ p \in config.receivers =>
             config.bianchiRetryCounter \/ station = 0 \/ Below(p, r[p])

(* While a frame to q is in transmission.                                   *)
CountsFor(r, q) ==
    CountsOwnLosses => Below(q, r[q]) /\ \A p \in Peers : AtMost(p, r[p])

CountsRight ==
    IF active = None THEN CountsForNext(rate, arq.station) ELSE CountsFor(rate, active.to)

AirAgrees ==
    announced.fresh /\ active # None =>
      /\ air.counter # 0
      /\ Sent(active.to, rate[active.to], air.counter, air.pm, air.probe)

(* What was announced is the exchange of the head of the buffer.            *)
AnnouncedRight ==
    ~MaxOutTXOP /\ announced.head /\ announced.fresh =>
      /\ buffer # <<>> /\ active # None
      /\ announced.exchange = Exchange(NextTransmissionDuration(buffer, rate))

OpportunityInv == TypesOK /\ CountsRight /\ AirAgrees /\ AnnouncedRight

LEMMA FrameIs ==
    ASSUME ConfigOK, NEW f \in OwnFrames
    PROVE  /\ f \in Frames /\ f # None
           /\ f.to \in config.receivers /\ f.to \in Peers /\ f.length \in Nat \ {0}
  <1>1. f \in Frames /\ f.to \in config.receivers /\ f.to \in Peers
    BY DEF ConfigOK, OwnFrames, Frames
  <1>2. f.length \in Lengths
    BY DEF OwnFrames
  <1>3. f # None
    BY <1>1, FramesAssumption DEF Frames
  <1> QED
    BY <1>1, <1>2, <1>3, FramesAssumption

LEMMA OneReceiver ==
    ASSUME ConfigOK, CountsOwnLosses, ~config.bianchiRetryCounter,
           NEW p \in config.receivers, NEW q \in config.receivers
    PROVE  p = q
  <1>1. IsFiniteSet(config.receivers)
    BY ConfigurationsAssumption, FS_Subset DEF ConfigOK
  <1>2. Cardinality(config.receivers) = 1
    BY DEF CountsOwnLosses
  <1>3. PICK x : config.receivers = {x}
    BY <1>1, <1>2, FS_Singleton
  <1> QED
    BY <1>3

(* The conditions as they were: the operators of the next state.            *)
LEMMA Steady ==
    ASSUME config' = config, report' = report, NEW p
    PROVE  /\ ConfigOK' <=> ConfigOK
           /\ ReportOK' <=> ReportOK
           /\ RateOK(p, rate[p])' <=> RateOK(p, rate'[p])
           /\ Below(p, rate[p])' <=> Below(p, rate'[p])
           /\ AtMost(p, rate[p])' <=> AtMost(p, rate'[p])
           /\ Sent(p, rate[p], air.counter, air.pm, air.probe)'
                <=> Sent(p, rate'[p], air'.counter, air'.pm, air'.probe)
  <1>1. ConfigOK' <=> ConfigOK
    BY DEF ConfigOK
  <1>2. ReportOK' <=> ReportOK
    BY DEF ReportOK
  <1>3. RateOK(p, rate[p])' <=> RateOK(p, rate'[p])
    BY DEF RateOK, RateRecords, ProbeOK, ArfLike, Modes, UsesList, Lower, WithMIMO, strategy
  <1>4. Below(p, rate[p])' <=> Below(p, rate'[p])
    BY DEF Below, UsesArf, UsesReport, Higher, WithMIMO, strategy
  <1>5. AtMost(p, rate[p])' <=> AtMost(p, rate'[p])
    BY DEF AtMost, UsesArf, UsesReport, Higher, WithMIMO, strategy
  <1>6. Sent(p, rate[p], air.counter, air.pm, air.probe)'
          <=> Sent(p, rate'[p], air'.counter, air'.pm, air'.probe)
    BY DEF Sent, UsesReport, UsesArf, UsesPer, ReportMode, Climbs, Increased, Higher, WithMIMO,
           SinrPhyMode, strategy
  <1> QED
    BY <1>1, <1>2, <1>3, <1>4, <1>5, <1>6

LEMMA SteadyCounts ==
    ASSUME config' = config, report' = report
    PROVE  /\ RatesOK(rate)' <=> RatesOK(rate')
           /\ CountsForNext(rate, arq.station)' <=> CountsForNext(rate', arq'.station)
           /\ CountsFor(rate, active.to)' <=> CountsFor(rate', active'.to)
           /\ CountsOwnLosses' <=> CountsOwnLosses
  <1>1. RatesOK(rate)' <=> RatesOK(rate')
    BY Steady DEF RatesOK
  <1>2. CountsOwnLosses' <=> CountsOwnLosses
    BY DEF CountsOwnLosses
  <1>3. CountsForNext(rate, arq.station)' <=> CountsForNext(rate', arq'.station)
    BY <1>2, Steady DEF CountsForNext
  <1>4. CountsFor(rate, active.to)' <=> CountsFor(rate', active'.to)
    BY <1>2, Steady DEF CountsFor
  <1> QED
    BY <1>1, <1>2, <1>3, <1>4

LEMMA SteadyDuration ==
    ASSUME config' = config, report' = report
    PROVE  NextTransmissionDuration(buffer, rate)' = NextTransmissionDuration(buffer', rate')
  BY DEF NextTransmissionDuration, GetPhyMode, UsesPer, UsesArf, UsesReport, PerPhyMode,
         IncreasePhyMode, ReducePhyMode, ArfPhyMode, Higher, Lower, WithMIMO, strategy,
         SinrPhyMode

LEMMA InvAfter ==
    ASSUME TypesOK, config' = config, report' = report, RatesOK(rate'),
           buffer' \in Seq(OwnFrames), active' \in OwnFrames \cup {None},
           arq' \in [src : Nat, station : Nat], remaining' \in Int,
           announced' \in [exchange : Int, head : BOOLEAN, fresh : BOOLEAN],
           air'.counter \in Nat,
           IF active' = None THEN CountsForNext(rate', arq'.station)
           ELSE CountsFor(rate', active'.to),
           announced'.fresh /\ active' # None =>
             /\ air'.counter # 0
             /\ Sent(active'.to, rate'[active'.to], air'.counter, air'.pm, air'.probe),
           ~MaxOutTXOP /\ announced'.head /\ announced'.fresh =>
             /\ buffer' # <<>> /\ active' # None
             /\ announced'.exchange = Exchange(NextTransmissionDuration(buffer', rate'))
    PROVE  OpportunityInv'
  <1>1. TypesOK'
    <2>1. ConfigOK' /\ ReportOK' /\ RatesOK(rate)'
      BY Steady, SteadyCounts DEF TypesOK
    <2>2. OwnFrames' = OwnFrames
      BY DEF OwnFrames
    <2> QED
      BY <2>1, <2>2 DEF TypesOK
  <1>2. CountsRight'
    BY SteadyCounts DEF CountsRight
  <1>3. AirAgrees'
    BY Steady DEF AirAgrees
  <1>4. AnnouncedRight'
    BY SteadyDuration DEF AnnouncedRight, Exchange
  <1> QED
    BY <1>1, <1>2, <1>3, <1>4 DEF OpportunityInv

-----------------------------------------------------------------------------
(* Durations                                                                *)

LEMMA DurationIs ==
    ASSUME NEW length \in Nat \ {0}, NEW pm, DataBitsPerSymbol(pm) \in Nat \ {0}
    PROVE  MpduDuration(length, pm) \in Nat
  <1> DEFINE bits == DataBitsPerSymbol(pm)
  <1> HIDE DEF bits
  <1>1. length + bits - 1 \in Nat /\ bits \in Nat \ {0}
    BY DEF bits
  <1>2. (length + bits - 1) \div bits \in Nat
    BY <1>1, Division
  <1>3. Preamble \in Nat
    BY DurationsAssumption
  <1> QED
    BY <1>2, <1>3 DEF MpduDuration, OfdmSymbols, bits

LEMMA ExchangeIs ==
    ASSUME NEW d \in Int
    PROVE  Exchange(d) \in Int
  <1>1. SIFS \in Nat /\ MaximumACK \in Nat
    BY DurationsAssumption
  <1> QED
    BY <1>1 DEF Exchange

(* A faster exchange is no longer.                                          *)
LEMMA FasterIsShorter ==
    ASSUME NEW length \in Nat \ {0}, NEW a, NEW b,
           DataBitsPerSymbol(a) \in Nat \ {0}, DataBitsPerSymbol(b) \in Nat \ {0},
           DataBitsPerSymbol(a) <= DataBitsPerSymbol(b)
    PROVE  Exchange(MpduDuration(length, b)) <= Exchange(MpduDuration(length, a))
  <1>1. OfdmSymbols(length, b) <= OfdmSymbols(length, a)
    BY FewerSymbols DEF OfdmSymbols
  <1>2. MpduDuration(length, a) \in Nat /\ MpduDuration(length, b) \in Nat
    BY DurationIs
  <1>3. OfdmSymbols(length, a) \in Int /\ OfdmSymbols(length, b) \in Int
    <2> DEFINE x == DataBitsPerSymbol(a)
               y == DataBitsPerSymbol(b)
    <2> HIDE DEF x, y
    <2>1. x \in Nat \ {0} /\ y \in Nat \ {0}
      BY DEF x, y
    <2>2. (length + x - 1) \div x \in Int /\ (length + y - 1) \div y \in Int
      BY <2>1
    <2> QED
      BY <2>2 DEF OfdmSymbols, x, y
  <1>4. SIFS \in Nat /\ MaximumACK \in Nat /\ Preamble \in Nat
    BY DurationsAssumption
  <1>5. MpduDuration(length, b) <= MpduDuration(length, a)
    BY <1>1, <1>3, <1>4 DEF MpduDuration
  <1> QED
    BY <1>2, <1>4, <1>5 DEF Exchange

LEMMA HeadIs ==
    ASSUME NEW q \in Seq(OwnFrames), q # <<>>
    PROVE  Head(q) \in OwnFrames /\ Tail(q) \in Seq(OwnFrames)
  OBVIOUS

LEMMA NextDurationIs ==
    ASSUME ConfigOK, ReportOK, NEW r, RatesOK(r), NEW q \in Seq(OwnFrames)
    PROVE  /\ NextTransmissionDuration(q, r) \in Nat
           /\ NextTransmissionDuration(q, r) > 0 => q # <<>>
  <1>1. CASE q = <<>>
    BY <1>1 DEF NextTransmissionDuration
  <1>2. CASE q # <<>>
    <2> DEFINE f == Head(q)
               pm == GetPhyMode(f.to, r[f.to], 1)
    <2>1. f.to \in Peers /\ f.length \in Nat \ {0}
      BY <1>2, HeadIs, FrameIs
    <2>2. RateOK(f.to, r[f.to])
      BY <2>1 DEF RatesOK
    <2>3. DataBitsPerSymbol(pm) \in Nat \ {0}
      BY <2>1, <2>2, GetPhyModeIs
    <2>4. NextTransmissionDuration(q, r) = MpduDuration(f.length, pm)
      BY <1>2 DEF NextTransmissionDuration
    <2> HIDE DEF f, pm
    <2>5. MpduDuration(f.length, pm) \in Nat
      BY <2>1, <2>3, DurationIs
    <2> QED
      BY <1>2, <2>4, <2>5
  <1> QED
    BY <1>1, <1>2

LEMMA CutIs ==
    ASSUME remaining \in Int, NEW f, NEW pm, MpduDuration(f.length, pm) \in Nat
    PROVE  Cut(f, pm) \in Int
  <1>1. SIFS \in Nat /\ MaximumACK \in Nat /\ TXOPLimit \in Nat
    BY DurationsAssumption
  <1> QED
    BY <1>1 DEF Cut

-----------------------------------------------------------------------------
(* A frame is sent                                                          *)

(* What the frame f, sent for the n-th time when the states of the          *)
(* strategies are r, leaves behind.                                         *)
SentWell(f, n, queue, r) ==
    /\ active' = f /\ buffer' = queue /\ RatesOK(rate')
    /\ remaining' \in Int
    /\ announced' \in [exchange : Int, head : BOOLEAN, fresh : BOOLEAN]
    /\ air'.counter = n
    /\ \A p \in Peers : p # f.to => rate'[p] = r[p]
    /\ Sent(f.to, rate'[f.to], n, air'.pm, air'.probe)
    /\ AtMost(f.to, r[f.to]) /\ (n = 1 \/ Below(f.to, r[f.to]))
         => Below(f.to, rate'[f.to])
    /\ ~MaxOutTXOP /\ announced'.head =>
         /\ queue # <<>>
         /\ announced'.exchange = Exchange(NextTransmissionDuration(queue, rate'))

LEMMA SendFrameIs ==
    ASSUME ConfigOK, ReportOK, remaining \in Int, NEW r, RatesOK(r),
           NEW f \in OwnFrames, NEW n \in Nat \ {0}, NEW queue \in Seq(OwnFrames),
           NEW why, SendFrame(f, n, queue, r, why)
    PROVE  SentWell(f, n, queue, r)
  <1> DEFINE pm == GetPhyMode(f.to, r[f.to], n)
             s == SetCurrentPhyMode(f.to, r[f.to], pm)
             goesOn == Continues(f, pm, queue, rate')
  <1>1. f.to \in Peers /\ f.length \in Nat \ {0} /\ RateOK(f.to, r[f.to])
    BY FrameIs DEF RatesOK
  <1>2. rate' = [r EXCEPT ![f.to] = s] /\ DOMAIN r = Peers
    BY DEF SendFrame, RatesOK
  <1>3. rate'[f.to] = s /\ \A p \in Peers : p # f.to => rate'[p] = r[p]
    BY <1>1, <1>2
  <1>4. /\ RateOK(f.to, s) /\ Sent(f.to, s, n, pm, s.probe)
        /\ AtMost(f.to, r[f.to]) /\ (n = 1 \/ Below(f.to, r[f.to])) => Below(f.to, s)
    BY <1>1, SetCurrentIs
  <1>5. DataBitsPerSymbol(pm) \in Nat \ {0}
    BY <1>1, GetPhyModeIs
  <1>6. /\ active' = f /\ buffer' = queue
        /\ remaining' = IF goesOn THEN Cut(f, pm) ELSE 0
        /\ announced' = [exchange |-> IF goesOn THEN NextExchange(f, pm, queue, rate') ELSE 0,
                         head |-> goesOn, fresh |-> TRUE]
        /\ air'.counter = n /\ air'.pm = pm /\ air'.probe = s.probe
    BY <1>2, <1>3 DEF SendFrame
  <1> HIDE DEF pm, s
  <1>7. RatesOK(rate')
    <2>1. \A p \in Peers : RateOK(p, rate'[p])
      BY <1>1, <1>3, <1>4 DEF RatesOK
    <2>2. rate' = [p \in Peers |-> rate'[p]]
      BY <1>2
    <2> QED
      BY <2>1, <2>2 DEF RatesOK
  <1>8. MpduDuration(f.length, pm) \in Nat /\ Cut(f, pm) \in Int
    BY <1>1, <1>5, DurationIs, CutIs
  <1>9. /\ NextTransmissionDuration(queue, rate') \in Nat
        /\ NextTransmissionDuration(queue, rate') > 0 => queue # <<>>
    BY <1>7, NextDurationIs
  <1>10. NextExchange(f, pm, queue, rate') \in Int
    BY <1>8, <1>9, ExchangeIs DEF NextExchange
  <1>11. goesOn \in BOOLEAN /\ (goesOn => queue # <<>>)
    BY <1>9 DEF Continues
  <1> HIDE DEF goesOn
  <1>12. /\ announced'.head = goesOn
         /\ goesOn => announced'.exchange = NextExchange(f, pm, queue, rate')
    BY <1>6
  <1>13. announced' \in [exchange : Int, head : BOOLEAN, fresh : BOOLEAN]
    BY <1>6, <1>10, <1>11
  <1>14. remaining' \in Int
    BY <1>6, <1>8
  <1>15. ~MaxOutTXOP /\ announced'.head =>
           /\ queue # <<>>
           /\ announced'.exchange = Exchange(NextTransmissionDuration(queue, rate'))
    BY <1>11, <1>12 DEF NextExchange
  <1> QED
    BY <1>3, <1>4, <1>6, <1>7, <1>13, <1>14, <1>15 DEF SentWell

LEMMA SendFrameInv ==
    ASSUME TypesOK, config' = config, report' = report, NEW r,
           NEW f \in OwnFrames, NEW n \in Nat \ {0}, NEW queue \in Seq(OwnFrames),
           SentWell(f, n, queue, r), arq' \in [src : Nat, station : Nat],
           CountsOwnLosses => /\ \A p \in Peers : AtMost(p, r[p])
                              /\ n = 1 \/ Below(f.to, r[f.to])
    PROVE  OpportunityInv'
  <1>1. f # None /\ f.to \in Peers
    BY FrameIs DEF TypesOK
  <1>2. /\ active' = f /\ buffer' = queue /\ RatesOK(rate') /\ air'.counter = n
        /\ remaining' \in Int
        /\ announced' \in [exchange : Int, head : BOOLEAN, fresh : BOOLEAN]
        /\ \A p \in Peers : p # f.to => rate'[p] = r[p]
        /\ Sent(f.to, rate'[f.to], n, air'.pm, air'.probe)
        /\ AtMost(f.to, r[f.to]) /\ (n = 1 \/ Below(f.to, r[f.to]))
             => Below(f.to, rate'[f.to])
        /\ ~MaxOutTXOP /\ announced'.head =>
             /\ queue # <<>>
             /\ announced'.exchange = Exchange(NextTransmissionDuration(queue, rate'))
    BY DEF SentWell
  <1>3. CountsFor(rate', f.to)
    <2> SUFFICES ASSUME CountsOwnLosses
                 PROVE  Below(f.to, rate'[f.to]) /\ \A p \in Peers : AtMost(p, rate'[p])
      BY DEF CountsFor
    <2>1. Below(f.to, rate'[f.to])
      BY <1>1, <1>2
    <2>2. AtMost(f.to, rate'[f.to])
      <3>1. rate'[f.to].successful \in Nat /\ rate'[f.to].threshold \in Nat
        BY <1>1, <1>2, RateFields DEF RatesOK
      <3> QED
        BY <2>1, <3>1 DEF Below, AtMost
    <2> QED
      BY <1>2, <2>1, <2>2
  <1>4. n \in Nat /\ n # 0
    OBVIOUS
  <1>5. IF active' = None THEN CountsForNext(rate', arq'.station)
        ELSE CountsFor(rate', active'.to)
    BY <1>1, <1>2, <1>3
  <1> QED
    BY <1>1, <1>2, <1>4, <1>5, InvAfter

LEMMA FirstCounterIs ==
    ASSUME ConfigOK, NEW station \in Nat
    PROVE  /\ FirstCounter(station) \in Nat \ {0}
           /\ FirstCounter(station) = 1 <=> config.bianchiRetryCounter \/ station = 0
  BY DEF FirstCounter, ConfigOK

LEMMA RestIs ==
    ASSUME NEW queue \in Seq(OwnFrames), NEW k \in Nat
    PROVE  /\ SubSeq(queue, k + 1, Len(queue)) \in Seq(OwnFrames)
           /\ k = 0 => SubSeq(queue, k + 1, Len(queue)) = queue
  OBVIOUS

LEMMA SendNextInv ==
    ASSUME TypesOK, config' = config, report' = report, NEW r, RatesOK(r),
           NEW queue \in Seq(OwnFrames), NEW expired \in Nat, NEW station \in Nat,
           NEW acked \in BOOLEAN, CountsForNext(r, station),
           SendNext(queue, expired, r, station, acked)
    PROVE  OpportunityInv'
  <1> DEFINE rest == SubSeq(queue, expired + 1, Len(queue))
  <1>1. rest \in Seq(OwnFrames)
    BY RestIs
  <1>2. CASE rest = <<>>
    <2>1. /\ buffer' = <<>> /\ active' = None /\ rate' = r
          /\ arq' = [src |-> 0, station |-> station]
          /\ announced' = [announced EXCEPT !.head = FALSE]
          /\ remaining' = remaining /\ air' = air
      BY <1>2 DEF SendNext
    <2> HIDE DEF rest
    <2>2. announced' \in [exchange : Int, head : BOOLEAN, fresh : BOOLEAN]
      BY <2>1 DEF TypesOK
    <2>3. ~announced'.head
      BY <2>1 DEF TypesOK
    <2>4. arq' \in [src : Nat, station : Nat] /\ arq'.station = station
      BY <2>1
    <2>5. IF active' = None THEN CountsForNext(rate', arq'.station)
          ELSE CountsFor(rate', active'.to)
      BY <2>1, <2>4
    <2>6. buffer' \in Seq(OwnFrames) /\ RatesOK(rate')
      BY <2>1
    <2>7. remaining' \in Int /\ air'.counter \in Nat
      BY <2>1 DEF TypesOK
    <2> QED
      BY <2>1, <2>2, <2>3, <2>4, <2>5, <2>6, <2>7, InvAfter
  <1>3. CASE rest # <<>>
    <2> DEFINE f == Head(rest)
               n == FirstCounter(station)
               why == IF expired = 0 /\ announced.head
                      THEN IF acked THEN "expected" ELSE "late" ELSE "other"
    <2>1. /\ arq' = [src |-> 0, station |-> station]
          /\ SendFrame(f, n, Tail(rest), r, why)
      BY <1>3 DEF SendNext
    <2>2. f \in OwnFrames /\ Tail(rest) \in Seq(OwnFrames)
      BY <1>1, <1>3, HeadIs
    <2> HIDE DEF rest, f, why
    <2>3. n \in Nat \ {0} /\ (n = 1 <=> config.bianchiRetryCounter \/ station = 0)
      BY FirstCounterIs DEF TypesOK
    <2> HIDE DEF n
    <2>4. SentWell(f, n, Tail(rest), r)
      BY <2>1, <2>2, <2>3, SendFrameIs DEF TypesOK
    <2>5. f.to \in Peers /\ f.to \in config.receivers
      BY <2>2, FrameIs DEF TypesOK
    <2>6. CountsOwnLosses => /\ \A p \in Peers : AtMost(p, r[p])
                             /\ n = 1 \/ Below(f.to, r[f.to])
      BY <2>3, <2>5 DEF CountsForNext
    <2>7. arq' \in [src : Nat, station : Nat]
      BY <2>1
    <2> QED
      BY <2>2, <2>3, <2>4, <2>6, <2>7, SendFrameInv
  <1> QED
    BY <1>2, <1>3

-----------------------------------------------------------------------------
(* The steps                                                                *)

(* The result of the active frame, for the state of its receiver's strategy *)
LEMMA AckedIs ==
    ASSUME TypesOK, NEW k, Acked(k)
    PROVE  /\ active \in OwnFrames /\ active.to \in Peers /\ active.to \in config.receivers
           /\ config' = config /\ report' = report
           /\ \E s : \E acked \in BOOLEAN :
                /\ acked /\ Succeeded(active.to, rate[active.to], s)
                /\ SendNext(buffer, k, [rate EXCEPT ![active.to] = s], 0, acked)
  <1>1. active \in OwnFrames /\ config' = config /\ report' = report
    BY DEF TypesOK, Acked
  <1>2. active.to \in Peers /\ active.to \in config.receivers
    BY <1>1, FrameIs DEF TypesOK
  <1>3. RateOK(active.to, rate[active.to])
    BY <1>2 DEF TypesOK, RatesOK
  <1>4. Succeeded(active.to, rate[active.to], OnResult(rate[active.to], TRUE))
    BY <1>2, <1>3, SuccessIs DEF TypesOK
  <1>5. SendNext(buffer, k, [rate EXCEPT ![active.to] = OnResult(rate[active.to], TRUE)],
                 0, TRUE)
    BY Zenon DEF Acked
  <1>6. \E s : \E acked \in BOOLEAN :
          /\ acked /\ Succeeded(active.to, rate[active.to], s)
          /\ SendNext(buffer, k, [rate EXCEPT ![active.to] = s], 0, acked)
    BY <1>4, <1>5, Zenon
  <1> QED
    BY <1>1, <1>2, <1>6

\* The counters of a frame that was not acknowledged.
OneMore == [src |-> arq.src + 1, station |-> arq.station + 1]

LEMMA MissedIs ==
    ASSUME TypesOK, NEW k \in Nat, Missed(k)
    PROVE  /\ active \in OwnFrames /\ active.to \in Peers /\ active.to \in config.receivers
           /\ config' = config /\ report' = report
           /\ OneMore \in [src : Nat, station : Nat] /\ OneMore.src # 0
           /\ \E s : 
                /\ Failed(active.to, rate[active.to], s)
                /\ \/ \E acked \in BOOLEAN, expired \in Nat :
                        /\ ~acked
                        /\ SendNext(buffer, expired, [rate EXCEPT ![active.to] = s],
                                    OneMore.station, acked)
                   \/ /\ arq' = OneMore /\ OneMore.src # ShortRetryLimit
                      /\ SendFrame(active, RetryCounter(OneMore), buffer,
                                   [rate EXCEPT ![active.to] = s], "retry")
  <1>1. active \in OwnFrames /\ config' = config /\ report' = report
    BY DEF TypesOK, Missed
  <1>2. active.to \in Peers /\ active.to \in config.receivers
    BY <1>1, FrameIs DEF TypesOK
  <1>3. RateOK(active.to, rate[active.to])
    BY <1>2 DEF TypesOK, RatesOK
  <1> DEFINE s == OnResult(rate[active.to], FALSE)
             failed == [rate EXCEPT ![active.to] = s]
             drops == IF k > 0 THEN k - 1 ELSE 0
  <1>4. Failed(active.to, rate[active.to], s)
    BY <1>2, <1>3, FailureIs DEF TypesOK
  <1>5. \/ SendNext(buffer, drops, failed, OneMore.station, FALSE)
        \/ /\ arq' = OneMore /\ OneMore.src # ShortRetryLimit
           /\ SendFrame(active, RetryCounter(OneMore), buffer, failed, "retry")
    BY Zenon DEF Missed, OneMore
  <1>6. drops \in Nat
    OBVIOUS
  <1>7. OneMore \in [src : Nat, station : Nat] /\ OneMore.src # 0
    BY DEF TypesOK, OneMore
  <1>8. ASSUME SendNext(buffer, drops, failed, OneMore.station, FALSE)
        PROVE  \E acked \in BOOLEAN, expired \in Nat :
                 ~acked /\ SendNext(buffer, expired, failed, OneMore.station, acked)
    <2> HIDE DEF drops, failed
    <2> QED
      BY <1>6, <1>8, Zenon
  <1> HIDE DEF drops, s
  <1>9. \E e : /\ Failed(active.to, rate[active.to], e)
               /\ \/ \E acked \in BOOLEAN, expired \in Nat :
                       /\ ~acked
                       /\ SendNext(buffer, expired, [rate EXCEPT ![active.to] = e],
                                   OneMore.station, acked)
                  \/ /\ arq' = OneMore /\ OneMore.src # ShortRetryLimit
                     /\ SendFrame(active, RetryCounter(OneMore), buffer,
                                  [rate EXCEPT ![active.to] = e], "retry")
    BY <1>4, <1>5, <1>8, Zenon
  <1> QED
    BY <1>1, <1>2, <1>7, <1>9, Zenon

LEMMA RatesAfter ==
    ASSUME RatesOK(rate), NEW p \in Peers, NEW s, RateOK(p, s)
    PROVE  /\ RatesOK([rate EXCEPT ![p] = s]) /\ [rate EXCEPT ![p] = s][p] = s
           /\ \A q \in Peers : q # p => [rate EXCEPT ![p] = s][q] = rate[q]
  <1> DEFINE r == [rate EXCEPT ![p] = s]
  <1>1. DOMAIN rate = Peers
    BY DEF RatesOK
  <1>2. r = [q \in Peers |-> r[q]]
    BY <1>1
  <1>3. r[p] = s /\ \A q \in Peers : q # p => r[q] = rate[q]
    BY <1>1
  <1> QED
    BY <1>2, <1>3 DEF RatesOK

LEMMA AckedInv == ASSUME OpportunityInv, NEW k \in Nat, Acked(k) PROVE OpportunityInv'
  <1>1. /\ active \in OwnFrames /\ active.to \in Peers /\ active # None
        /\ config' = config /\ report' = report
    BY AckedIs, FrameIs DEF OpportunityInv, TypesOK
  <1>2. PICK s : \E acked \in BOOLEAN :
               /\ acked /\ Succeeded(active.to, rate[active.to], s)
               /\ SendNext(buffer, k, [rate EXCEPT ![active.to] = s], 0, acked)
    BY AckedIs DEF OpportunityInv
  <1>3. PICK acked \in BOOLEAN :
               /\ acked /\ Succeeded(active.to, rate[active.to], s)
               /\ SendNext(buffer, k, [rate EXCEPT ![active.to] = s], 0, acked)
    BY <1>2
  <1> DEFINE r == [rate EXCEPT ![active.to] = s]
  <1>4. RateOK(active.to, rate[active.to]) /\ RateOK(active.to, s)
    BY <1>1, <1>3 DEF OpportunityInv, TypesOK, RatesOK, Succeeded
  <1>5. /\ RatesOK(r) /\ r[active.to] = s
        /\ \A q \in Peers : q # active.to => r[q] = rate[q]
    BY <1>1, <1>4, RatesAfter DEF OpportunityInv, TypesOK
  <1>6. CountsForNext(r, 0)
    <2> SUFFICES ASSUME CountsOwnLosses, NEW p \in Peers PROVE AtMost(p, r[p])
      BY DEF CountsForNext
    <2>1. Below(active.to, rate[active.to]) /\ AtMost(p, rate[p])
      BY <1>1 DEF OpportunityInv, CountsRight, CountsFor
    <2>2. CASE p = active.to
      BY <1>1, <1>3, <1>4, <1>5, <2>1, <2>2, SuccessCounts
    <2>3. CASE p # active.to
      BY <1>5, <2>1, <2>3
    <2> QED
      BY <2>2, <2>3
  <1>7. SendNext(buffer, k, r, 0, acked)
    BY <1>3
  <1>8. buffer \in Seq(OwnFrames) /\ TypesOK
    BY DEF OpportunityInv, TypesOK
  <1> HIDE DEF r
  <1>9. 0 \in Nat
    OBVIOUS
  <1> QED
    BY <1>1, <1>5, <1>6, <1>7, <1>8, <1>9, SendNextInv

LEMMA RetryCounterIs ==
    ASSUME ConfigOK, NEW a \in [src : Nat, station : Nat]
    PROVE  RetryCounter(a) \in Nat \ {0}
  <1>1. a.src \in Nat /\ a.station \in Nat /\ ShortRetryLimit \in Nat
    BY FramesAssumption
  <1> QED
    BY <1>1 DEF RetryCounter

LEMMA MissedInv == ASSUME OpportunityInv, NEW k \in Nat, Missed(k) PROVE OpportunityInv'
  <1>1. /\ active \in OwnFrames /\ active.to \in Peers /\ active # None
        /\ active.to \in config.receivers
        /\ config' = config /\ report' = report
        /\ OneMore \in [src : Nat, station : Nat]
    BY MissedIs, FrameIs DEF OpportunityInv, TypesOK
  <1>2. PICK s :
          /\ Failed(active.to, rate[active.to], s)
          /\ \/ \E acked \in BOOLEAN, expired \in Nat :
                  /\ ~acked
                  /\ SendNext(buffer, expired, [rate EXCEPT ![active.to] = s],
                              OneMore.station, acked)
             \/ /\ arq' = OneMore /\ OneMore.src # ShortRetryLimit
                /\ SendFrame(active, RetryCounter(OneMore), buffer,
                             [rate EXCEPT ![active.to] = s], "retry")
    BY MissedIs DEF OpportunityInv
  <1> DEFINE r == [rate EXCEPT ![active.to] = s]
  <1>3. RateOK(active.to, s) /\ RatesOK(rate) /\ active.to \in Peers
    BY <1>1, <1>2 DEF Failed, OpportunityInv, TypesOK
  <1>4. /\ RatesOK(r) /\ r[active.to] = s
        /\ \A q \in Peers : q # active.to => r[q] = rate[q]
    BY <1>3, RatesAfter
  <1>5. buffer \in Seq(OwnFrames) /\ TypesOK /\ ConfigOK /\ ReportOK /\ remaining \in Int
    BY DEF OpportunityInv, TypesOK
  <1> HIDE DEF r
  <1>6. CountsOwnLosses => Below(active.to, r[active.to]) /\ \A p \in Peers : AtMost(p, r[p])
    <2> SUFFICES ASSUME CountsOwnLosses
                 PROVE  Below(active.to, r[active.to]) /\ \A p \in Peers : AtMost(p, r[p])
      OBVIOUS
    <2>1. Below(active.to, rate[active.to]) /\ \A p \in Peers : AtMost(p, rate[p])
      BY <1>1 DEF OpportunityInv, CountsRight, CountsFor
    <2>2. Below(active.to, s) /\ AtMost(active.to, s)
      BY <1>1, <1>2, <2>1, FailureCounts
    <2> QED
      BY <1>4, <2>1, <2>2
  <1>7. ASSUME NEW acked \in BOOLEAN, NEW expired \in Nat,
               SendNext(buffer, expired, r, OneMore.station, acked)
        PROVE  OpportunityInv'
    <2>1. CountsForNext(r, OneMore.station)
      <3> SUFFICES ASSUME CountsOwnLosses, NEW p \in Peers
                   PROVE  /\ AtMost(p, r[p])
                          /\ p \in config.receivers =>
                               config.bianchiRetryCounter \/ Below(p, r[p])
        BY DEF CountsForNext
      <3>1. ASSUME p \in config.receivers, ~config.bianchiRetryCounter PROVE p = active.to
        BY <1>1, <1>5, <3>1, OneReceiver
      <3> QED
        BY <1>6, <3>1
    <2>2. OneMore.station \in Nat
      BY <1>1
    <2> QED
      BY <1>1, <1>4, <1>5, <1>7, <2>1, <2>2, SendNextInv
  <1>8. ASSUME arq' = OneMore, SendFrame(active, RetryCounter(OneMore), buffer, r, "retry")
        PROVE  OpportunityInv'
    <2>1. RetryCounter(OneMore) \in Nat \ {0}
      BY <1>1, <1>5, RetryCounterIs
    <2>2. SentWell(active, RetryCounter(OneMore), buffer, r)
      BY <1>1, <1>4, <1>5, <1>8, <2>1, SendFrameIs
    <2> QED
      BY <1>1, <1>5, <1>6, <1>8, <2>1, <2>2, SendFrameInv
  <1>9. \/ \E acked \in BOOLEAN, expired \in Nat :
             SendNext(buffer, expired, r, OneMore.station, acked)
        \/ arq' = OneMore /\ SendFrame(active, RetryCounter(OneMore), buffer, r, "retry")
    BY <1>2 DEF r
  <1> QED
    BY <1>7, <1>8, <1>9

LEMMA ArriveInv ==
    ASSUME OpportunityInv, NEW f \in Frames, NEW k \in 0..Len(buffer), Arrive(f, k)
    PROVE  OpportunityInv'
  <1>1. /\ f \in OwnFrames /\ config' = config /\ report' = report
        /\ TypesOK /\ buffer \in Seq(OwnFrames) /\ k \in Nat
    BY DEF Arrive, Frames, OwnFrames, OpportunityInv, TypesOK
  <1>2. CASE active = None
    <2>1. PICK acked \in BOOLEAN : SendNext(<<f>>, 0, rate, arq.station, acked)
      <3>1. SendNext(<<f>>, 0, rate, arq.station, FALSE)
        BY <1>2, Zenon DEF Arrive
      <3> QED
        BY <3>1, Zenon
    <2>2. <<f>> \in Seq(OwnFrames) /\ arq.station \in Nat /\ 0 \in Nat /\ RatesOK(rate)
      BY <1>1 DEF TypesOK
    <2>3. CountsForNext(rate, arq.station)
      BY <1>2 DEF OpportunityInv, CountsRight
    <2> QED
      BY <1>1, <2>1, <2>2, <2>3, SendNextInv
  <1>3. CASE active # None
    <2> DEFINE kept == SubSeq(buffer, k + 1, Len(buffer))
    <2>1. /\ buffer' = IF Len(kept) < BufferSize THEN Append(kept, f) ELSE kept
          /\ announced' = [announced EXCEPT !.head = @ /\ k = 0]
          /\ active' = active /\ arq' = arq /\ remaining' = remaining
          /\ air' = air /\ rate' = rate
      BY <1>3 DEF Arrive
    <2>2. kept \in Seq(OwnFrames) /\ (k = 0 => kept = buffer)
      BY <1>1, RestIs
    <2> HIDE DEF kept
    <2>3. /\ buffer' \in Seq(OwnFrames)
          /\ kept # <<>> => buffer' # <<>> /\ Head(buffer') = Head(kept)
      BY <1>1, <2>1, <2>2
    <2>4. announced \in [exchange : Int, head : BOOLEAN, fresh : BOOLEAN]
      BY <1>1 DEF TypesOK
    <2>5. /\ announced' \in [exchange : Int, head : BOOLEAN, fresh : BOOLEAN]
          /\ announced'.fresh = announced.fresh /\ announced'.exchange = announced.exchange
      BY <2>1, <2>4
    <2>6. announced'.head => announced.head /\ k = 0
      BY <2>1, <2>4
    <2>7. /\ RatesOK(rate') /\ active' \in OwnFrames \cup {None} /\ remaining' \in Int
          /\ arq' \in [src : Nat, station : Nat] /\ air'.counter \in Nat
      BY <1>1, <2>1 DEF TypesOK
    <2>8. IF active' = None THEN CountsForNext(rate', arq'.station)
          ELSE CountsFor(rate', active'.to)
      BY <1>3, <2>1 DEF OpportunityInv, CountsRight
    <2>9. announced'.fresh /\ active' # None =>
            /\ air'.counter # 0
            /\ Sent(active'.to, rate'[active'.to], air'.counter, air'.pm, air'.probe)
      BY <2>1, <2>5 DEF OpportunityInv, AirAgrees
    <2>10. ASSUME ~MaxOutTXOP, announced'.head, announced'.fresh
           PROVE  /\ buffer' # <<>> /\ active' # None
                  /\ announced'.exchange = Exchange(NextTransmissionDuration(buffer', rate'))
      <3>1. /\ buffer # <<>> /\ kept = buffer
            /\ announced.exchange = Exchange(NextTransmissionDuration(buffer, rate))
        BY <2>2, <2>5, <2>6, <2>10 DEF OpportunityInv, AnnouncedRight
      <3>2. NextTransmissionDuration(buffer', rate') = NextTransmissionDuration(buffer, rate)
        BY <2>1, <2>3, <3>1 DEF NextTransmissionDuration
      <3> QED
        BY <1>3, <2>1, <2>3, <2>5, <3>1, <3>2
    <2> QED
      BY <1>1, <2>3, <2>5, <2>7, <2>8, <2>9, <2>10, InvAfter
  <1> QED
    BY <1>2, <1>3

-----------------------------------------------------------------------------
(* What changes by itself leaves the counts as they are, and nothing that   *)
(* was announced is relied on.                                              *)

LEMMA ConditionsInv ==
    ASSUME OpportunityInv, UNCHANGED <<buffer, active, arq, remaining, air>>,
           config' = config, announced' = [announced EXCEPT !.fresh = FALSE],
           ReportOK', RatesOK(rate)',
           \A p \in Peers : UsesArf(p)' => UsesArf(p),
           \A p \in Peers : /\ rate'[p].cur = rate[p].cur
                            /\ rate'[p].successful = rate[p].successful
                            /\ rate'[p].threshold = rate[p].threshold
    PROVE  OpportunityInv'
  <1>1. announced' \in [exchange : Int, head : BOOLEAN, fresh : BOOLEAN] /\ ~announced'.fresh
    BY DEF OpportunityInv, TypesOK
  <1>2. TypesOK'
    <2>1. ConfigOK' /\ OwnFrames' = OwnFrames
      BY DEF OpportunityInv, TypesOK, ConfigOK, OwnFrames
    <2> QED
      BY <1>1, <2>1 DEF OpportunityInv, TypesOK
  <1>3. CountsOwnLosses' <=> CountsOwnLosses
    BY DEF CountsOwnLosses
  <1>4. ASSUME NEW p \in Peers
        PROVE  /\ Below(p, rate[p]) => Below(p, rate[p])'
               /\ AtMost(p, rate[p]) => AtMost(p, rate[p])'
    <2>1. Higher(p, rate[p].cur)' = Higher(p, rate[p].cur)
      BY DEF Higher, WithMIMO, strategy
    <2>2. UsesArf(p)' => UsesArf(p)
      OBVIOUS
    <2> QED
      BY <2>1, <2>2 DEF Below, AtMost
  <1>5. CountsRight'
    <2>1. CASE active = None
      <3>1. CountsForNext(rate, arq.station)
        BY <2>1 DEF OpportunityInv, CountsRight
      <3>2. CountsForNext(rate, arq.station)'
        BY <1>3, <1>4, <3>1 DEF CountsForNext
      <3> QED
        BY <2>1, <3>2 DEF CountsRight
    <2>2. CASE active # None
      <3>1. CountsFor(rate, active.to)
        BY <2>2 DEF OpportunityInv, CountsRight
      <3>2. active.to \in Peers
        BY <2>2, FrameIs DEF OpportunityInv, TypesOK
      <3>3. CountsFor(rate, active.to)'
        BY <1>3, <1>4, <3>1, <3>2 DEF CountsFor
      <3> QED
        BY <2>2, <3>3 DEF CountsRight
    <2> QED
      BY <2>1, <2>2
  <1>6. AirAgrees' /\ AnnouncedRight'
    BY <1>1 DEF AirAgrees, AnnouncedRight
  <1> QED
    BY <1>2, <1>5, <1>6 DEF OpportunityInv

LEMMA ConditionsChangeInv ==
    ASSUME OpportunityInv, NEW p \in config.receivers, ConditionsChange(p)
    PROVE  OpportunityInv'
  <1>1. /\ UNCHANGED <<buffer, active, arq, remaining, air>>
        /\ announced' = [announced EXCEPT !.fresh = FALSE]
        /\ OnArfTimeout(p) \/ SampleAges(p) \/ PutPeerSINR(p)
    BY DEF ConditionsChange
  <1>2. p \in Peers /\ RatesOK(rate) /\ ReportOK /\ ConfigOK
    BY DEF OpportunityInv, TypesOK, ConfigOK
  <1>3. RateOK(p, rate[p]) /\ rate[p] \in RateRecords(p) /\ DOMAIN rate = Peers
    BY <1>2 DEF RatesOK, RateOK
  <1> DEFINE r == rate[p]
  <1>4. ASSUME OnArfTimeout(p) \/ SampleAges(p) PROVE OpportunityInv'
    <2>1. config' = config /\ report' = report
      BY <1>4 DEF OnArfTimeout, SampleAges
    <2>2. PICK s :
            /\ rate' = [rate EXCEPT ![p] = s] /\ RateOK(p, s)
            /\ s.cur = r.cur /\ s.successful = r.successful /\ s.threshold = r.threshold
      <3>1. CASE OnArfTimeout(p)
        <4> DEFINE t == WithMIMO => Higher(p, r.cur) # r.cur
                   s == [r EXCEPT !.timer = FALSE, !.timeout = t]
        <4>1. rate' = [rate EXCEPT ![p] = s]
          BY <1>3, <3>1 DEF OnArfTimeout
        <4>2. t \in BOOLEAN
          OBVIOUS
        <4> HIDE DEF t
        <4>3. s \in RateRecords(p)
          BY <1>3, <4>2 DEF RateRecords
        <4>4. /\ s.cur = r.cur /\ s.probe = r.probe
              /\ s.successful = r.successful /\ s.threshold = r.threshold
          BY <1>3 DEF RateRecords
        <4> HIDE DEF s
        <4>5. RateOK(p, s)
          BY <1>3, <4>3, <4>4 DEF RateOK, ProbeOK
        <4> QED
          BY <4>1, <4>4, <4>5
      <3>2. CASE SampleAges(p) /\ rate[p].good > 0
                   /\ rate' = [rate EXCEPT ![p].good = @ - 1]
        <4> DEFINE s == [r EXCEPT !.good = @ - 1]
        <4>1. rate' = [rate EXCEPT ![p] = s]
          BY <1>3, <3>2
        <4>2. r.good - 1 \in Nat
          BY <1>3, <3>2 DEF RateRecords
        <4>3. s \in RateRecords(p)
          BY <1>3, <4>2 DEF RateRecords
        <4>4. /\ s.cur = r.cur /\ s.probe = r.probe
              /\ s.successful = r.successful /\ s.threshold = r.threshold
          BY <1>3 DEF RateRecords
        <4> HIDE DEF s
        <4>5. RateOK(p, s)
          BY <1>3, <4>3, <4>4 DEF RateOK, ProbeOK
        <4> QED
          BY <4>1, <4>4, <4>5
      <3>3. CASE SampleAges(p) /\ rate[p].bad > 0
                   /\ rate' = [rate EXCEPT ![p].bad = @ - 1]
        <4> DEFINE s == [r EXCEPT !.bad = @ - 1]
        <4>1. rate' = [rate EXCEPT ![p] = s]
          BY <1>3, <3>3
        <4>2. r.bad - 1 \in Nat
          BY <1>3, <3>3 DEF RateRecords
        <4>3. s \in RateRecords(p)
          BY <1>3, <4>2 DEF RateRecords
        <4>4. /\ s.cur = r.cur /\ s.probe = r.probe
              /\ s.successful = r.successful /\ s.threshold = r.threshold
          BY <1>3 DEF RateRecords
        <4> HIDE DEF s
        <4>5. RateOK(p, s)
          BY <1>3, <4>3, <4>4 DEF RateOK, ProbeOK
        <4> QED
          BY <4>1, <4>4, <4>5
      <3> QED
        BY <1>4, <3>1, <3>2, <3>3 DEF SampleAges
    <2>3. RatesOK(rate') /\ \A q \in Peers : rate'[q] = IF q = p THEN s ELSE rate[q]
      <3>1. /\ RatesOK([rate EXCEPT ![p] = s]) /\ [rate EXCEPT ![p] = s][p] = s
            /\ \A q \in Peers : q # p => [rate EXCEPT ![p] = s][q] = rate[q]
        BY <1>2, <2>2, RatesAfter
      <3> QED
        BY <2>2, <3>1
    <2>4. ReportOK' /\ RatesOK(rate)'
      BY <1>2, <2>1, <2>3, Steady, SteadyCounts
    <2>5. \A q \in Peers : UsesArf(q)' => UsesArf(q)
      BY <2>1 DEF UsesArf, UsesReport, strategy
    <2>6. \A q \in Peers : /\ rate'[q].cur = rate[q].cur
                           /\ rate'[q].successful = rate[q].successful
                           /\ rate'[q].threshold = rate[q].threshold
      BY <2>2, <2>3
    <2> QED
      BY <1>1, <2>1, <2>4, <2>5, <2>6, ConditionsInv
  <1>5. ASSUME PutPeerSINR(p) PROVE OpportunityInv'
    <2>1. PICK sinr \in SINRs, k \in 1..MaxStreams(p) :
            report' = [report EXCEPT ![p].sinr = sinr,
                                     ![p].factors = IF WithMIMO THEN @ \cup {k} ELSE @]
      BY <1>5 DEF PutPeerSINR
    <2>2. config' = config /\ rate' = rate
      BY <1>5 DEF PutPeerSINR
    <2> DEFINE known == [sinr : SINRs \cup {None}, factors : SUBSET (1..Antennas)]
               factors == IF WithMIMO THEN report[p].factors \cup {k} ELSE report[p].factors
    <2>3. report \in [Peers -> known] /\ report[p] \in known
      BY <1>2 DEF ReportOK
    <2>4. k \in 1..Antennas
      BY <1>2, StreamsOfPeer, AntennasAssumption
    <2>5. factors \in SUBSET (1..Antennas)
      BY <2>3, <2>4
    <2>6. report' = [report EXCEPT ![p] = [report[p] EXCEPT !.sinr = sinr, !.factors = factors]]
      BY <2>1, <2>3, <1>2
    <2> HIDE DEF factors
    <2>7. [report[p] EXCEPT !.sinr = sinr, !.factors = factors] \in known
      BY <2>3, <2>5
    <2>8. report' \in [Peers -> known]
      BY <2>3, <2>6, <2>7, <1>2
    <2>9. report'[p].sinr = sinr /\ \A q \in Peers : q # p => report'[q] = report[q]
      BY <1>2, <2>3, <2>6
    <2>10. ReportOK'
      BY <2>8 DEF ReportOK
    <2>11. RatesOK(rate)'
      <3>1. \A q : RateOK(q, rate[q])' <=> RateOK(q, rate[q])
        BY <2>2 DEF RateOK, RateRecords, ProbeOK, ArfLike, Modes, UsesList, Lower, WithMIMO,
                    strategy
      <3> QED
        BY <1>2, <2>2, <3>1 DEF RatesOK
    <2>12. \A q \in Peers : UsesArf(q)' => UsesArf(q)
      <3>1. sinr # None
        BY ReportsAssumption
      <3> QED
        BY <2>2, <2>9, <3>1 DEF UsesArf, UsesReport, strategy
    <2> QED
      BY <1>1, <2>2, <2>10, <2>11, <2>12, ConditionsInv
  <1> QED
    BY <1>1, <1>4, <1>5

-----------------------------------------------------------------------------
(* What was announced, and what is sent                                     *)

LEMMA AirIs ==
    ASSUME NEW f, NEW n, NEW queue, NEW r, NEW why, SendFrame(f, n, queue, r, why),
           NEW pm, pm = GetPhyMode(f.to, r[f.to], n)
    PROVE  /\ air'.pm = pm /\ air'.exchange = Exchange(MpduDuration(f.length, pm))
           /\ air'.before = IF why = "retry" /\ announced.fresh /\ n > air.counter
                            THEN [pm |-> air.pm, probe |-> air.probe, promise |-> 0]
                            ELSE [pm |-> pm, probe |-> FALSE,
                                  promise |-> IF why = "expected" /\ announced.fresh
                                              THEN announced.exchange ELSE 0]
  BY DEF SendFrame

LEMMA AirStays ==
    ASSUME config' = config, air' = air
    PROVE  /\ NavCoversNext => NavCoversNext'
           /\ RetryNotFaster => RetryNotFaster'
  <1>1. (CountsOwnLosses' <=> CountsOwnLosses) /\ (UsesPer' <=> UsesPer)
    BY DEF CountsOwnLosses, UsesPer, strategy
  <1> QED
    BY <1>1 DEF NavCoversNext, RetryNotFaster, strategy

LEMMA NavSent ==
    ASSUME config' = config, air'.before.promise > 0 /\ ~UsesPer /\ CountsOwnLosses
                               => air'.exchange <= air'.before.promise
    PROVE  NavCoversNext'
  <1>1. (CountsOwnLosses' <=> CountsOwnLosses) /\ (UsesPer' <=> UsesPer)
    BY DEF CountsOwnLosses, UsesPer, strategy
  <1> QED
    BY <1>1 DEF NavCoversNext

(* The frame at the head of the queue as it was announced.                  *)
HeadAsAnnounced(queue, r, station) ==
    announced.head /\ announced.fresh /\ ~UsesPer /\ CountsOwnLosses /\ queue # <<>> =>
      LET f == Head(queue)
      IN  Exchange(MpduDuration(f.length, GetPhyMode(f.to, r[f.to], FirstCounter(station))))
            <= announced.exchange

LEMMA SendNextNav ==
    ASSUME config' = config, NEW r, NEW queue \in Seq(OwnFrames), NEW expired \in Nat,
           NEW station \in Nat, NEW acked \in BOOLEAN,
           SendNext(queue, expired, r, station, acked), NavCoversNext,
           acked => HeadAsAnnounced(queue, r, station)
    PROVE  NavCoversNext'
  <1> DEFINE rest == SubSeq(queue, expired + 1, Len(queue))
  <1>1. CASE rest = <<>>
    <2>1. air' = air
      BY <1>1 DEF SendNext
    <2> QED
      BY <2>1, AirStays
  <1>2. CASE rest # <<>>
    <2> DEFINE f == Head(rest)
               n == FirstCounter(station)
               why == IF expired = 0 /\ announced.head
                      THEN IF acked THEN "expected" ELSE "late" ELSE "other"
               pm == GetPhyMode(f.to, r[f.to], n)
    <2>1. SendFrame(f, n, Tail(rest), r, why)
      BY <1>2 DEF SendNext
    <2>2. expired = 0 => rest = queue
      BY RestIs
    <2>3. why = "expected" => expired = 0 /\ announced.head /\ acked
      OBVIOUS
    <2>4. why # "retry"
      OBVIOUS
    <2> HIDE DEF rest, why, n
    <2>5. /\ air'.exchange = Exchange(MpduDuration(f.length, pm))
          /\ air'.before = [pm |-> pm, probe |-> FALSE,
                            promise |-> IF why = "expected" /\ announced.fresh
                                        THEN announced.exchange ELSE 0]
      BY <2>1, <2>4, AirIs
    <2>6. air'.before.promise = IF why = "expected" /\ announced.fresh
                                THEN announced.exchange ELSE 0
      BY <2>5
    <2>7. ASSUME air'.before.promise > 0, ~UsesPer, CountsOwnLosses
          PROVE  air'.exchange <= air'.before.promise
      <3>1. why = "expected" /\ announced.fresh /\ air'.before.promise = announced.exchange
        BY <2>6, <2>7
      <3>2. rest = queue /\ announced.head /\ HeadAsAnnounced(queue, r, station)
        BY <2>2, <2>3, <3>1
      <3> QED
        BY <1>2, <2>5, <2>7, <3>1, <3>2 DEF HeadAsAnnounced, n
    <2> QED
      BY <2>7, NavSent
  <1> QED
    BY <1>1, <1>2

(* After the acknowledgement, the head is sent at least as fast as announced. *)
LEMMA AckedKeepsPromise ==
    ASSUME OpportunityInv, ~MaxOutTXOP, active \in OwnFrames,
           NEW s, Succeeded(active.to, rate[active.to], s),
           NEW r, r = [rate EXCEPT ![active.to] = s]
    PROVE  HeadAsAnnounced(buffer, r, 0)
  <1> DEFINE f == Head(buffer)
  <1> SUFFICES ASSUME announced.head, announced.fresh, ~UsesPer, CountsOwnLosses,
                      buffer # <<>>
               PROVE  Exchange(MpduDuration(f.length,
                                            GetPhyMode(f.to, r[f.to], FirstCounter(0))))
                        <= announced.exchange
    BY DEF HeadAsAnnounced
  <1>1. /\ ConfigOK /\ ReportOK /\ RatesOK(rate) /\ buffer \in Seq(OwnFrames)
        /\ f \in OwnFrames
    <2>1. /\ ConfigOK /\ ReportOK /\ RatesOK(rate) /\ buffer \in Seq(OwnFrames)
      BY DEF OpportunityInv, TypesOK
    <2> QED
      BY <2>1, HeadIs
  <1>2. /\ f.to \in Peers /\ f.length \in Nat \ {0}
        /\ active.to \in Peers /\ active # None
    BY <1>1, FrameIs
  <1>3. FirstCounter(0) = 1
    BY <1>1, FirstCounterIs
  <1> DEFINE a == GetPhyMode(f.to, rate[f.to], 1)
             b == GetPhyMode(f.to, r[f.to], 1)
  <1>4. announced.exchange = Exchange(MpduDuration(f.length, a))
    BY DEF OpportunityInv, AnnouncedRight, NextTransmissionDuration
  <1>5. RateOK(f.to, rate[f.to]) /\ RateOK(active.to, rate[active.to])
    BY <1>1, <1>2 DEF RatesOK
  <1>6. RateOK(active.to, s)
    BY DEF Succeeded
  <1>7. RatesOK(r) /\ r[active.to] = s /\ \A q \in Peers : q # active.to => r[q] = rate[q]
    <2>1. RatesOK(rate) /\ active.to \in Peers /\ RateOK(active.to, s)
      BY <1>1, <1>2, <1>6
    <2>2. /\ RatesOK([rate EXCEPT ![active.to] = s])
          /\ [rate EXCEPT ![active.to] = s][active.to] = s
          /\ \A q \in Peers : q # active.to =>
               [rate EXCEPT ![active.to] = s][q] = rate[q]
      BY <2>1, RatesAfter
    <2> QED
      BY <2>2
  <1>8. DataBitsPerSymbol(a) \in Nat \ {0} /\ DataBitsPerSymbol(b) \in Nat \ {0}
    <2>1. RateOK(f.to, r[f.to])
      BY <1>2, <1>7 DEF RatesOK
    <2> QED
      BY <1>1, <1>2, <1>5, <2>1, GetPhyModeIs
  <1>9. DataBitsPerSymbol(a) <= DataBitsPerSymbol(b)
    <2>1. CASE f.to = active.to
      <3>1. Below(active.to, rate[active.to])
        BY <1>2 DEF OpportunityInv, CountsRight, CountsFor
      <3>2. DataBitsPerSymbol(GetPhyMode(active.to, rate[active.to], 1))
              <= DataBitsPerSymbol(GetPhyMode(active.to, s, 1))
        BY <1>1, <1>2, <1>5, <3>1, SuccessNotSlower
      <3> QED
        BY <1>7, <2>1, <3>2
    <2>2. CASE f.to # active.to
      <3>1. a = b
        BY <1>2, <1>7, <2>2
      <3> QED
        BY <1>8, <3>1
    <2> QED
      BY <2>1, <2>2
  <1> HIDE DEF f, a, b
  <1>10. Exchange(MpduDuration(f.length, b)) <= Exchange(MpduDuration(f.length, a))
    BY <1>2, <1>8, <1>9, FasterIsShorter
  <1> QED
    BY <1>3, <1>4, <1>10 DEF b

(* A first transmission is compared with nothing, a retransmission with the *)
(* one before it.                                                           *)
LEMMA RetrySent ==
    ASSUME config' = config, NotFaster(air'.pm, air'.before.pm),
           air'.before.probe /\ strategy \in {"ARF", "ARFwithMIMO"}
             => DataBitsPerSymbol(air'.pm) < DataBitsPerSymbol(air'.before.pm)
    PROVE  RetryNotFaster'
  BY DEF RetryNotFaster, NotFaster, strategy

LEMMA SendNextRetry ==
    ASSUME ConfigOK, ReportOK, config' = config, NEW r, RatesOK(r),
           NEW queue \in Seq(OwnFrames), NEW expired \in Nat, NEW station \in Nat,
           NEW acked \in BOOLEAN, SendNext(queue, expired, r, station, acked),
           RetryNotFaster
    PROVE  RetryNotFaster'
  <1> DEFINE rest == SubSeq(queue, expired + 1, Len(queue))
  <1>1. CASE rest = <<>>
    <2>1. air' = air
      BY <1>1 DEF SendNext
    <2> QED
      BY <2>1, AirStays
  <1>2. CASE rest # <<>>
    <2> DEFINE f == Head(rest)
               n == FirstCounter(station)
               why == IF expired = 0 /\ announced.head
                      THEN IF acked THEN "expected" ELSE "late" ELSE "other"
               pm == GetPhyMode(f.to, r[f.to], n)
    <2>1. SendFrame(f, n, Tail(rest), r, why)
      BY <1>2 DEF SendNext
    <2>2. why # "retry"
      OBVIOUS
    <2>3. f \in OwnFrames
      BY <1>2, RestIs, HeadIs
    <2>4. n \in Nat \ {0}
      BY FirstCounterIs
    <2> HIDE DEF rest, why, n
    <2>5. f.to \in Peers
      BY <2>3, FrameIs
    <2>6. DataBitsPerSymbol(pm) \in Nat
      <3>1. RateOK(f.to, r[f.to])
        BY <2>5 DEF RatesOK
      <3> QED
        BY <2>4, <2>5, <3>1, GetPhyModeIs
    <2> HIDE DEF pm
    <2>7. /\ air'.pm = pm
          /\ air'.before = [pm |-> pm, probe |-> FALSE,
                            promise |-> IF why = "expected" /\ announced.fresh
                                        THEN announced.exchange ELSE 0]
      BY <2>1, <2>2, AirIs DEF pm
    <2>8. air'.before.pm = pm /\ ~air'.before.probe
      BY <2>7
    <2>9. NotFaster(air'.pm, air'.before.pm)
      BY <2>6, <2>7, <2>8 DEF NotFaster
    <2> QED
      BY <2>8, <2>9, RetrySent
  <1> QED
    BY <1>1, <1>2

LEMMA RetryAirIs ==
    ASSUME NEW f, NEW n, NEW queue, NEW r, SendFrame(f, n, queue, r, "retry")
    PROVE  /\ air'.pm = GetPhyMode(f.to, r[f.to], n)
           /\ air'.before =
                IF announced.fresh /\ n > air.counter
                THEN [pm |-> air.pm, probe |-> air.probe, promise |-> 0]
                ELSE [pm |-> GetPhyMode(f.to, r[f.to], n), probe |-> FALSE, promise |-> 0]
  BY DEF SendFrame

LEMMA RetryIsNotFaster ==
    ASSUME OpportunityInv, config' = config, MinSamples <= 100, active \in OwnFrames,
           NEW s, Failed(active.to, rate[active.to], s), NEW n \in Nat \ {0},
           SendFrame(active, n, buffer, [rate EXCEPT ![active.to] = s], "retry")
    PROVE  RetryNotFaster'
  <1> DEFINE r == [rate EXCEPT ![active.to] = s]
             pm == GetPhyMode(active.to, r[active.to], n)
  <1>1. /\ ConfigOK /\ ReportOK /\ RatesOK(rate)
        /\ active # None /\ active.to \in Peers
    <2>1. ConfigOK /\ ReportOK /\ RatesOK(rate)
      BY DEF OpportunityInv, TypesOK
    <2> QED
      BY <2>1, FrameIs
  <1>2. RateOK(active.to, rate[active.to]) /\ RateOK(active.to, s)
    BY <1>1 DEF RatesOK, Failed
  <1>3. r[active.to] = s
    <2>1. RatesOK(rate) /\ active.to \in Peers /\ RateOK(active.to, s)
      BY <1>1, <1>2
    <2> QED
      BY <2>1, RatesAfter
  <1>4. DataBitsPerSymbol(pm) \in Nat
    BY <1>1, <1>2, <1>3, GetPhyModeIs
  <1>5. SendFrame(active, n, buffer, r, "retry")
    OBVIOUS
  <1> HIDE DEF pm, r
  <1>6. /\ air'.pm = pm
        /\ air'.before = IF announced.fresh /\ n > air.counter
                         THEN [pm |-> air.pm, probe |-> air.probe, promise |-> 0]
                         ELSE [pm |-> pm, probe |-> FALSE, promise |-> 0]
    BY <1>5, RetryAirIs DEF pm
  <1>7. pm = GetPhyMode(active.to, s, n)
    BY <1>3 DEF pm
  <1>8. CASE announced.fresh /\ n > air.counter
    <2>1. air.counter \in Nat \ {0} /\ n \in Nat
      BY <1>1, <1>8 DEF OpportunityInv, TypesOK, AirAgrees
    <2>2. Sent(active.to, rate[active.to], air.counter, air.pm, air.probe)
      BY <1>1, <1>8 DEF OpportunityInv, AirAgrees
    <2>3. /\ NotFaster(pm, air.pm)
          /\ air.probe /\ strategy \in {"ARF", "ARFwithMIMO"}
               => DataBitsPerSymbol(pm) < DataBitsPerSymbol(air.pm)
      BY <1>1, <1>2, <1>7, <1>8, <2>1, <2>2, RetryIsSlower
    <2>4. air'.before = [pm |-> air.pm, probe |-> air.probe, promise |-> 0]
      BY <1>6, <1>8
    <2>5. air'.before.pm = air.pm /\ air'.before.probe = air.probe
      BY <2>4
    <2>6. air'.pm = pm
      BY <1>6
    <2> QED
      BY <2>3, <2>5, <2>6, RetrySent
  <1>9. CASE ~(announced.fresh /\ n > air.counter)
    <2>1. air'.before = [pm |-> pm, probe |-> FALSE, promise |-> 0]
      BY <1>6, <1>9
    <2>2. air'.pm = pm /\ air'.before.pm = pm /\ ~air'.before.probe
      BY <1>6, <2>1
    <2>3. NotFaster(air'.pm, air'.before.pm)
      BY <1>4, <2>2 DEF NotFaster
    <2> QED
      BY <2>2, <2>3, RetrySent
  <1> QED
    BY <1>8, <1>9

-----------------------------------------------------------------------------
(* What every step keeps                                                    *)

PromiseKept == ~MaxOutTXOP => NavCoversNext
RetriesSlow == MinSamples <= 100 => RetryNotFaster

LEMMA AckedProperties ==
    ASSUME OpportunityInv, PromiseKept, RetriesSlow, NEW k \in Nat, Acked(k)
    PROVE  PromiseKept' /\ RetriesSlow'
  <1>1. /\ active \in OwnFrames /\ active.to \in Peers
        /\ config' = config /\ report' = report /\ ConfigOK /\ ReportOK
        /\ RatesOK(rate) /\ buffer \in Seq(OwnFrames)
    BY AckedIs DEF OpportunityInv, TypesOK
  <1>2. PICK s : \E acked \in BOOLEAN :
               /\ acked /\ Succeeded(active.to, rate[active.to], s)
               /\ SendNext(buffer, k, [rate EXCEPT ![active.to] = s], 0, acked)
    BY AckedIs DEF OpportunityInv
  <1>3. PICK acked \in BOOLEAN :
               /\ acked /\ Succeeded(active.to, rate[active.to], s)
               /\ SendNext(buffer, k, [rate EXCEPT ![active.to] = s], 0, acked)
    BY <1>2
  <1> DEFINE r == [rate EXCEPT ![active.to] = s]
  <1>4. RatesOK(r)
    <2>1. RatesOK(rate) /\ active.to \in Peers /\ RateOK(active.to, s)
      BY <1>1, <1>3 DEF Succeeded
    <2> QED
      BY <2>1, RatesAfter
  <1>5. SendNext(buffer, k, r, 0, acked) /\ 0 \in Nat
    BY <1>3
  <1>6. ASSUME ~MaxOutTXOP PROVE HeadAsAnnounced(buffer, r, 0)
    BY <1>1, <1>3, <1>6, AckedKeepsPromise
  <1> HIDE DEF r
  <1>7. ASSUME ~MaxOutTXOP PROVE NavCoversNext'
    <2>1. NavCoversNext /\ HeadAsAnnounced(buffer, r, 0)
      BY <1>6, <1>7 DEF PromiseKept
    <2> QED
      BY <1>1, <1>5, <2>1, SendNextNav
  <1>8. ASSUME MinSamples <= 100 PROVE RetryNotFaster'
    <2>1. RetryNotFaster
      BY <1>8 DEF RetriesSlow
    <2> QED
      BY <1>1, <1>4, <1>5, <2>1, SendNextRetry
  <1> QED
    BY <1>7, <1>8 DEF PromiseKept, RetriesSlow

LEMMA MissedProperties ==
    ASSUME OpportunityInv, PromiseKept, RetriesSlow, NEW k \in Nat, Missed(k)
    PROVE  PromiseKept' /\ RetriesSlow'
  <1>1. /\ active \in OwnFrames /\ active.to \in Peers
        /\ config' = config /\ report' = report /\ ConfigOK /\ ReportOK
        /\ RatesOK(rate) /\ buffer \in Seq(OwnFrames)
        /\ OneMore \in [src : Nat, station : Nat]
    BY MissedIs DEF OpportunityInv, TypesOK
  <1>2. PICK s :
          /\ Failed(active.to, rate[active.to], s)
          /\ \/ \E acked \in BOOLEAN, expired \in Nat :
                  /\ ~acked
                  /\ SendNext(buffer, expired, [rate EXCEPT ![active.to] = s],
                              OneMore.station, acked)
             \/ /\ arq' = OneMore /\ OneMore.src # ShortRetryLimit
                /\ SendFrame(active, RetryCounter(OneMore), buffer,
                             [rate EXCEPT ![active.to] = s], "retry")
    BY MissedIs DEF OpportunityInv
  <1> DEFINE r == [rate EXCEPT ![active.to] = s]
  <1>3. RatesOK(r)
    <2>1. RatesOK(rate) /\ active.to \in Peers /\ RateOK(active.to, s)
      BY <1>1, <1>2 DEF Failed
    <2> QED
      BY <2>1, RatesAfter
  <1>4. ASSUME NEW acked \in BOOLEAN, NEW expired \in Nat, ~acked,
               SendNext(buffer, expired, r, OneMore.station, acked)
        PROVE  PromiseKept' /\ RetriesSlow'
    <2> HIDE DEF r
    <2>1. OneMore.station \in Nat
      BY <1>1
    <2>2. ASSUME ~MaxOutTXOP PROVE NavCoversNext'
      <3>1. NavCoversNext
        BY <2>2 DEF PromiseKept
      <3> QED
        BY <1>1, <1>4, <2>1, <3>1, SendNextNav
    <2>3. ASSUME MinSamples <= 100 PROVE RetryNotFaster'
      <3>1. RetryNotFaster
        BY <2>3 DEF RetriesSlow
      <3> QED
        BY <1>1, <1>3, <1>4, <2>1, <3>1, SendNextRetry
    <2> QED
      BY <2>2, <2>3 DEF PromiseKept, RetriesSlow
  <1>5. ASSUME SendFrame(active, RetryCounter(OneMore), buffer, r, "retry")
        PROVE  PromiseKept' /\ RetriesSlow'
    <2>1. RetryCounter(OneMore) \in Nat \ {0}
      BY <1>1, RetryCounterIs
    <2>2. ASSUME MinSamples <= 100 PROVE RetryNotFaster'
      BY <1>1, <1>2, <1>5, <2>1, <2>2, RetryIsNotFaster
    <2> HIDE DEF r
    <2> DEFINE pm == GetPhyMode(active.to, r[active.to], RetryCounter(OneMore))
    <2>3. air'.before = IF announced.fresh /\ RetryCounter(OneMore) > air.counter
                        THEN [pm |-> air.pm, probe |-> air.probe, promise |-> 0]
                        ELSE [pm |-> pm, probe |-> FALSE, promise |-> 0]
      BY <1>5, RetryAirIs
    <2>4. ~(air'.before.promise > 0)
      <3> HIDE DEF pm
      <3>1. air'.before.promise = 0
        BY <2>3
      <3> QED
        BY <3>1
    <2>5. NavCoversNext'
      BY <1>1, <2>4, NavSent
    <2> QED
      BY <2>2, <2>5 DEF PromiseKept, RetriesSlow
  <1> QED
    BY <1>2, <1>4, <1>5

LEMMA AirStaysProperties ==
    ASSUME PromiseKept, RetriesSlow, config' = config, air' = air
    PROVE  PromiseKept' /\ RetriesSlow'
  <1>1. ASSUME ~MaxOutTXOP PROVE NavCoversNext'
    BY <1>1, AirStays DEF PromiseKept
  <1>2. ASSUME MinSamples <= 100 PROVE RetryNotFaster'
    BY <1>2, AirStays DEF RetriesSlow
  <1> QED
    BY <1>1, <1>2 DEF PromiseKept, RetriesSlow

LEMMA ArriveProperties ==
    ASSUME OpportunityInv, PromiseKept, RetriesSlow,
           NEW f \in Frames, NEW k \in 0..Len(buffer), Arrive(f, k)
    PROVE  PromiseKept' /\ RetriesSlow'
  <1>1. /\ f \in OwnFrames /\ config' = config /\ report' = report
        /\ ConfigOK /\ ReportOK /\ RatesOK(rate) /\ arq.station \in Nat
    BY DEF Arrive, Frames, OwnFrames, OpportunityInv, TypesOK
  <1>2. CASE active = None
    <2>1. PICK acked \in BOOLEAN : ~acked /\ SendNext(<<f>>, 0, rate, arq.station, acked)
      <3>1. SendNext(<<f>>, 0, rate, arq.station, FALSE)
        BY <1>2, Zenon DEF Arrive
      <3> QED
        BY <3>1, Zenon
    <2>2. <<f>> \in Seq(OwnFrames) /\ 0 \in Nat
      BY <1>1
    <2>3. ASSUME ~MaxOutTXOP PROVE NavCoversNext'
      <3>1. NavCoversNext
        BY <2>3 DEF PromiseKept
      <3> QED
        BY <1>1, <2>1, <2>2, <3>1, SendNextNav
    <2>4. ASSUME MinSamples <= 100 PROVE RetryNotFaster'
      <3>1. RetryNotFaster
        BY <2>4 DEF RetriesSlow
      <3> QED
        BY <1>1, <2>1, <2>2, <3>1, SendNextRetry
    <2> QED
      BY <2>3, <2>4 DEF PromiseKept, RetriesSlow
  <1>3. CASE active # None
    <2>1. air' = air
      BY <1>3 DEF Arrive
    <2> QED
      BY <1>1, <2>1, AirStaysProperties
  <1> QED
    BY <1>2, <1>3

AllOK == OpportunityInv /\ PromiseKept /\ RetriesSlow

LEMMA OpportunityInitOK == OpportunityInit => AllOK
  <1> SUFFICES ASSUME OpportunityInit PROVE AllOK
    OBVIOUS
  <1>1. /\ config \in Configurations /\ buffer = <<>> /\ active = None
        /\ arq = [src |-> 0, station |-> 0] /\ remaining = 0
        /\ announced = [exchange |-> 0, head |-> FALSE, fresh |-> FALSE]
        /\ air = [type |-> "none", why |-> "other", counter |-> 0,
                  pm |-> InitialPhyMode, probe |-> FALSE, exchange |-> 0,
                  before |-> [pm |-> InitialPhyMode, probe |-> FALSE, promise |-> 0]]
    BY DEF OpportunityInit, RateInit
  <1>2. ConfigOK
    <2>1. config \in [strategy : {"Constant", "ARF", "PER", "SINR",
                                  "ARFwithMIMO", "PERwithMIMO", "SINRwithMIMO"},
                      bianchiRetryCounter : BOOLEAN, singleReceiver : BOOLEAN,
                      receivers : SUBSET Peers]
      BY <1>1, ConfigurationsAssumption
    <2> QED
      BY <2>1 DEF ConfigOK
  <1>3. report = [p \in Peers |-> [sinr |-> None, factors |-> {}]]
    BY DEF OpportunityInit, RateInit
  <1>4. ReportOK
    BY <1>3 DEF ReportOK
  <1> DEFINE first == [cur |-> InitialPhyMode, probe |-> FALSE, timeout |-> FALSE,
                       timer |-> FALSE, threshold |-> InitialThreshold,
                       successful |-> 0, good |-> 0, bad |-> 0]
  <1>5. rate = [p \in Peers |-> first]
    BY DEF OpportunityInit, RateInit
  <1>6. ASSUME NEW p \in Peers
        PROVE  RateOK(p, first) /\ Below(p, first) /\ AtMost(p, first)
    <2>1. InitialPhyMode \in Modes(p) /\ InitialThreshold \in Nat \ {0}
      BY InitialMode, ThresholdAssumption
    <2>2. first \in RateRecords(p)
      BY <2>1 DEF RateRecords
    <2>3. /\ ~first.probe /\ first.successful = 0
          /\ first.threshold = InitialThreshold
      OBVIOUS
    <2> HIDE DEF first
    <2> QED
      BY <2>1, <2>2, <2>3 DEF RateOK, ProbeOK, Below, AtMost
  <1> HIDE DEF first
  <1>7. RatesOK(rate) /\ CountsForNext(rate, arq.station)
    BY <1>5, <1>6 DEF RatesOK, CountsForNext
  <1>8. /\ buffer \in Seq(OwnFrames) /\ active \in OwnFrames \cup {None}
        /\ remaining \in Int
    BY <1>1
  <1>9. /\ arq \in [src : Nat, station : Nat]
        /\ announced \in [exchange : Int, head : BOOLEAN, fresh : BOOLEAN]
        /\ ~announced.head
    BY <1>1
  <1>10. air.counter \in Nat
    BY <1>1
  <1>11. OpportunityInv
    BY <1>1, <1>2, <1>4, <1>7, <1>8, <1>9, <1>10
    DEF OpportunityInv, TypesOK, CountsRight, AirAgrees, AnnouncedRight
  <1>12. PromiseKept
    BY <1>1 DEF PromiseKept, NavCoversNext
  <1>13. RetriesSlow
    <2>1. DataBitsPerSymbol(InitialPhyMode) \in Nat
      <3>1. Uniform(Lowest, 1) \in [1..1 -> Schemes]
        BY SchemeFacts, UniformIs
      <3>2. 1 \in Nat \ {0}
        OBVIOUS
      <3> QED
        BY <3>1, <3>2, BitsPositive DEF InitialPhyMode
    <2>2. air.pm = air.before.pm /\ ~air.before.probe
      BY <1>1
    <2> QED
      BY <1>1, <2>1, <2>2 DEF RetriesSlow, RetryNotFaster
  <1> QED
    BY <1>11, <1>12, <1>13 DEF AllOK

LEMMA NextOK == ASSUME AllOK, [OpportunityNext]_opportunityVars PROVE AllOK'
  <1> USE DEF AllOK
  <1>0. buffer \in Seq(OwnFrames)
    BY DEF OpportunityInv, TypesOK
  <1>1. ASSUME NEW f \in Frames, NEW k \in 0..Len(buffer), Arrive(f, k) PROVE AllOK'
    BY <1>1, ArriveInv, ArriveProperties
  <1>2. ASSUME NEW k \in 0..Len(buffer), Acked(k) PROVE AllOK'
    <2>1. k \in Nat
      BY <1>0
    <2> QED
      BY <1>2, <2>1, AckedInv, AckedProperties
  <1>3. ASSUME NEW k \in 0..(Len(buffer) + 1), Missed(k) PROVE AllOK'
    <2>1. k \in Nat
      BY <1>0
    <2> QED
      BY <1>3, <2>1, MissedInv, MissedProperties
  <1>4. ASSUME NEW p \in config.receivers, ConditionsChange(p) PROVE AllOK'
    <2>1. config' = config /\ air' = air
      BY <1>4 DEF ConditionsChange, OnArfTimeout, SampleAges, PutPeerSINR
    <2> QED
      BY <1>4, <2>1, ConditionsChangeInv, AirStaysProperties
  <1>5. ASSUME UNCHANGED opportunityVars PROVE AllOK'
    <2>1. /\ config' = config /\ rate' = rate /\ report' = report /\ buffer' = buffer
          /\ active' = active /\ arq' = arq /\ remaining' = remaining
          /\ air' = air /\ announced' = announced
      BY <1>5 DEF opportunityVars, rateVars, txopVars
    <2>2. OpportunityInv'
      BY <2>1, InvAfter DEF OpportunityInv, TypesOK, CountsRight, AirAgrees, AnnouncedRight
    <2> QED
      BY <2>1, <2>2, AirStaysProperties
  <1> QED
    BY <1>1, <1>2, <1>3, <1>4, <1>5 DEF OpportunityNext

(* The strategies, the counters and the announcement stay in agreement.     *)
THEOREM OpportunityInvariance == OpportunitySpec => []AllOK
  BY OpportunityInitOK, NextOK, PTL DEF OpportunitySpec

(* The frame that follows in a transmission opportunity takes no longer     *)
(* than was announced for it, when the announcement is of that frame        *)
(* (Buffer.cpp:233-243, TXOP.cpp:147-218).                                  *)
THEOREM PromisesAreKept == OpportunitySpec => [](~MaxOutTXOP => NavCoversNext)
  <1>1. AllOK => (~MaxOutTXOP => NavCoversNext)
    BY DEF AllOK, PromiseKept
  <1> QED
    BY <1>1, OpportunityInvariance, PTL

(* A retransmission is not faster, and slower than a probe (ARF.cpp:79-84,  *)
(* SINR.cpp:57), unless so many results are asked for that a single loss    *)
(* leaves a share below the limit for going up.                             *)
THEOREM RetriesAreNotFaster == OpportunitySpec => [](MinSamples <= 100 => RetryNotFaster)
  <1>1. AllOK => (MinSamples <= 100 => RetryNotFaster)
    BY DEF AllOK, RetriesSlow
  <1> QED
    BY <1>1, OpportunityInvariance, PTL

(* The successes do not pass the threshold they are compared with for       *)
(* equality (ARF.cpp:86, 116-157).                                          *)
THEOREM StationsClimbAgain == OpportunitySpec => []ClimbsAgain
  <1>1. AllOK => ClimbsAgain
    <2> SUFFICES ASSUME AllOK, CountsOwnLosses, NEW p \in Peers
                 PROVE  UsesArf(p) /\ Higher(p, rate[p].cur) # rate[p].cur
                          => rate[p].successful <= rate[p].threshold
      BY DEF ClimbsAgain
    <2>1. active # None => active.to \in Peers
      BY FrameIs DEF AllOK, OpportunityInv, TypesOK
    <2>2. AtMost(p, rate[p])
      BY <2>1 DEF AllOK, OpportunityInv, CountsRight, CountsFor, CountsForNext
    <2> QED
      BY <2>2 DEF AtMost
  <1> QED
    BY <1>1, OpportunityInvariance, PTL

-----------------------------------------------------------------------------
(* Backoff                                                                  *)

USE TimesAssumption, WindowAssumption, CounterAssumption

FlagsOK ==
    /\ backoffFinished \in BOOLEAN /\ transmissionWaiting \in BOOLEAN
    /\ duringAIFS \in BOOLEAN /\ rxError \in BOOLEAN
    /\ channelIsBusy \in BOOLEAN /\ ownTx \in BOOLEAN /\ credit \in BOOLEAN

ClocksOK ==
    /\ timer \in Int /\ timer >= Off
    /\ sinceIdle \in Int /\ sinceIdle >= Never

(* The own transmission makes the channel busy until it ends.              *)
OwnTxIsBusy == ownTx => channelIsBusy

(* The space that the present countdown, or the finished one, keeps.       *)
SpaceAhead(space) ==
    \/ sinceIdle = Never
    \/ /\ duringAIFS /\ timer # Off => sinceIdle + timer >= space
       /\ ~duringAIFS /\ timer # Off => sinceIdle >= space
       /\ backoffFinished => sinceIdle >= space

CreditEarned == backoffFinished => credit

ErrorRemembered ==
    /\ channelIsBusy /\ failure = "due" => rxError
    /\ failure = "open" =>
          /\ ~channelIsBusy /\ graces = {} /\ aifsAge = 0
          /\ duringAIFS /\ ~backoffFinished /\ timer > 0 /\ sinceIdle = 0

RequestFits == transmissionWaiting => want # 0 /\ cw = Window[want]

Inv ==
    /\ FlagsOK /\ ClocksOK /\ OwnTxIsBusy
    /\ CountdownFollowsChannel
    /\ CreditEarned
    /\ SpaceAhead(Aifs)
    /\ ~channelIsBusy /\ failure = "due" => SpaceAhead(Eifs)
    /\ ErrorRemembered
    /\ RequestFits

(* The first countdown starts with the program and has its space ahead.    *)
LEMMA InitInv == Init => Inv
  <1> SUFFICES ASSUME Init PROVE Inv
    OBVIOUS
  <1>1. FlagsOK
    BY DEF Init, FlagsOK
  <1>2. ClocksOK /\ SpaceAhead(Aifs)
    BY DEF Init, ClocksOK, SpaceAhead, Off, Never
  <1>3. CountdownFollowsChannel
    BY DEF Init, CountdownFollowsChannel, Off
  <1>4. OwnTxIsBusy /\ CreditEarned /\ ErrorRemembered /\ RequestFits
        /\ failure # "due"
    BY DEF Init, OwnTxIsBusy, CreditEarned, ErrorRemembered, RequestFits
  <1> QED
    BY <1>1, <1>2, <1>3, <1>4 DEF Inv

(* The frame is taken: no permission is left, and the channel is busy with *)
(* a stopping delay ahead.                                                 *)
LEMMA RequestInv ==
    ASSUME Inv, NEW n, n # 0, Ask(n)
    PROVE  Inv'
  <1> USE DEF Inv
  <1>0. UNCHANGED <<duringAIFS, timer, rxError, aifsAge, sinceIdle>>
    BY DEF Ask
  <1>1. CASE Granted
    <2>0. /\ transmissionWaiting' = FALSE /\ backoffFinished' = FALSE
          /\ credit' = FALSE /\ channelIsBusy' = TRUE /\ ownTx' = TRUE
          /\ failure' = "none" /\ graces' = graces \cup {Grace}
      BY <1>1 DEF Ask, TransmissionRequest, Granted, Transmit, OwnTxStart,
              ChannelTurnsBusy
    <2>1. FlagsOK' /\ ClocksOK'
      BY <1>0, <2>0 DEF FlagsOK, ClocksOK
    <2>2. CountdownFollowsChannel'
      BY <1>0, <2>0 DEF CountdownFollowsChannel
    <2>3. SpaceAhead(Aifs)'
      BY <1>0, <2>0 DEF SpaceAhead
    <2>4. OwnTxIsBusy' /\ CreditEarned' /\ ErrorRemembered' /\ RequestFits'
      BY <2>0 DEF OwnTxIsBusy, CreditEarned,
         ErrorRemembered, RequestFits
    <2> QED
      BY <2>0, <2>1, <2>2, <2>3, <2>4
  <1>2. CASE ~Granted
    <2>0. /\ transmissionWaiting' = TRUE /\ want' = n /\ cw' = Window[n]
          /\ UNCHANGED <<backoffFinished, channelIsBusy, graces, ownTx, credit,
                         failure>>
      BY <1>2 DEF Ask, TransmissionRequest, channel
    <2>1. FlagsOK' /\ ClocksOK'
      BY <1>0, <2>0 DEF FlagsOK, ClocksOK
    <2>2. CountdownFollowsChannel'
      BY <1>0, <2>0 DEF CountdownFollowsChannel
    <2>3. /\ SpaceAhead(Aifs)'
          /\ ~channelIsBusy' /\ failure' = "due" => SpaceAhead(Eifs)'
      BY <1>0, <2>0 DEF SpaceAhead
    <2>4. OwnTxIsBusy' /\ CreditEarned' /\ ErrorRemembered'
      BY <1>0, <2>0 DEF OwnTxIsBusy, CreditEarned, ErrorRemembered
    <2>5. RequestFits'
      BY <2>0 DEF RequestFits
    <2> QED
      BY <2>1, <2>2, <2>3, <2>4, <2>5
  <1> QED
    BY <1>1, <1>2

(* A timeout goes on counting, finishes, or hands the permission to the    *)
(* frame that waits; in each case the space has been waited for.           *)
LEMMA OnTimeoutInv == Inv /\ OnTimeout => Inv'
  <1> SUFFICES ASSUME Inv, OnTimeout PROVE Inv'
    OBVIOUS
  <1> USE DEF Inv
  <1>0. /\ timer = 0 /\ duringAIFS' = FALSE
        /\ UNCHANGED <<rxError, aifsAge, sinceIdle>>
        /\ transmissionWaiting => cw' = cw
    BY DEF OnTimeout, AifsOver, SlotOver, ResetWindow
  <1>1. PICK n : CountTo(n)
    BY DEF OnTimeout, AifsOver, SlotOver
  <1>2. ~backoffFinished
    BY <1>0 DEF CountdownFollowsChannel, Off
  <1>3. failure # "open"
    BY <1>0 DEF ErrorRemembered
  <1>4. /\ sinceIdle = Never \/ sinceIdle >= Aifs
        /\ ~channelIsBusy /\ failure = "due" =>
              sinceIdle = Never \/ sinceIdle >= Eifs
    BY <1>0 DEF SpaceAhead, ClocksOK, Off, Never
  <1>5. SpaceAhead(Aifs)'
    BY <1>0, <1>4 DEF SpaceAhead
  <1>6. CASE n # 0
    <2>0. /\ timer' = Slot
          /\ UNCHANGED <<backoffFinished, transmissionWaiting, want,
                         channelIsBusy, graces, ownTx, credit, failure>>
      BY <1>1, <1>6 DEF CountTo, channel
    <2>1. FlagsOK'
      BY <1>0, <2>0 DEF FlagsOK
    <2>2. ClocksOK'
      BY <1>0, <2>0 DEF ClocksOK, Off
    <2>3. CountdownFollowsChannel'
      BY <1>0, <1>2, <2>0 DEF CountdownFollowsChannel, Off
    <2>4. ~channelIsBusy' /\ failure' = "due" => SpaceAhead(Eifs)'
      BY <1>0, <1>4, <2>0 DEF SpaceAhead
    <2>5. OwnTxIsBusy' /\ CreditEarned' /\ ErrorRemembered' /\ RequestFits'
      BY <1>0, <1>3, <2>0 DEF OwnTxIsBusy, CreditEarned,
         ErrorRemembered, RequestFits
    <2> QED
      BY <1>5, <2>1, <2>2, <2>3, <2>4, <2>5
  <1>7. CASE n = 0 /\ ~transmissionWaiting
    <2>0. /\ timer' = Off /\ backoffFinished' = TRUE /\ credit' = TRUE
          /\ UNCHANGED <<transmissionWaiting, want, channelIsBusy, graces,
                         ownTx, failure>>
      BY <1>1, <1>7 DEF CountTo, channel
    <2>1. FlagsOK'
      BY <1>0, <2>0 DEF FlagsOK
    <2>2. ClocksOK'
      BY <1>0, <2>0 DEF ClocksOK, Off
    <2>3. CountdownFollowsChannel'
      BY <2>0 DEF CountdownFollowsChannel
    <2>4. ~channelIsBusy' /\ failure' = "due" => SpaceAhead(Eifs)'
      BY <1>0, <1>4, <2>0 DEF SpaceAhead
    <2>5. OwnTxIsBusy' /\ CreditEarned' /\ ErrorRemembered' /\ RequestFits'
      BY <1>0, <1>3, <1>7, <2>0 DEF OwnTxIsBusy, CreditEarned,
         ErrorRemembered, RequestFits
    <2> QED
      BY <1>5, <2>1, <2>2, <2>3, <2>4, <2>5
  <1>8. CASE n = 0 /\ transmissionWaiting /\ ~ownTx
    <2>0. /\ timer' = Off /\ backoffFinished' = FALSE /\ credit' = FALSE
          /\ transmissionWaiting' = FALSE /\ ownTx' = TRUE
      BY <1>1, <1>8 DEF CountTo, Transmit, OwnTxStart
    <2>1. /\ channelIsBusy'
          /\ FlagsOK' /\ (failure' = failure \/ failure' = "none")
          /\ (channelIsBusy /\ failure' = failure) \/ failure' = "none"
      BY <1>0, <1>1, <1>8, <2>0 DEF CountTo, Transmit, OwnTxStart,
         ChannelTurnsBusy, FlagsOK
    <2>2. ClocksOK'
      BY <1>0, <2>0 DEF ClocksOK, Off
    <2>3. CountdownFollowsChannel'
      BY <2>0, <2>1 DEF CountdownFollowsChannel
    <2>5. OwnTxIsBusy' /\ CreditEarned' /\ ErrorRemembered' /\ RequestFits'
      BY <1>0, <1>3, <2>0, <2>1 DEF OwnTxIsBusy, CreditEarned,
         ErrorRemembered, RequestFits
    <2> QED
      BY <1>5, <2>1, <2>2, <2>3, <2>5
  <1>9. CASE n = 0 /\ transmissionWaiting /\ ownTx
    <2>0. /\ timer' = Off
          /\ UNCHANGED <<backoffFinished, transmissionWaiting, want,
                         channelIsBusy, graces, ownTx, credit, failure>>
      BY <1>1, <1>9 DEF CountTo, channel
    <2>1. FlagsOK'
      BY <1>0, <2>0 DEF FlagsOK
    <2>2. ClocksOK'
      BY <1>0, <2>0 DEF ClocksOK, Off
    <2>3. channelIsBusy' /\ CountdownFollowsChannel'
      BY <1>9, <2>0 DEF CountdownFollowsChannel, OwnTxIsBusy
    <2>5. OwnTxIsBusy' /\ CreditEarned' /\ ErrorRemembered' /\ RequestFits'
      BY <1>0, <1>3, <2>0 DEF OwnTxIsBusy, CreditEarned,
         ErrorRemembered, RequestFits
    <2> QED
      BY <1>5, <2>1, <2>2, <2>3, <2>5
  <1> QED
    BY <1>6, <1>7, <1>8, <1>9

(* The channel turns busy, by others or by a reply of the station: the     *)
(* failure of an earlier busy period is settled.                           *)
LEMMA BusyInv == Inv /\ (OnChannelBusy \/ SendReply) => Inv'
  <1> SUFFICES ASSUME Inv, OnChannelBusy \/ SendReply PROVE Inv'
    OBVIOUS
  <1> USE DEF Inv
  <1>0. /\ UNCHANGED <<backoffFinished, duringAIFS, timer,
                      transmissionWaiting, cw, want, rxError, aifsAge,
                      sinceIdle, credit>>
        /\ channelIsBusy' /\ channelIsBusy' \in BOOLEAN /\ ownTx' \in BOOLEAN
        /\ \/ channelIsBusy /\ UNCHANGED <<failure, graces>>
           \/ failure' = "none" /\ graces' = graces \cup {Grace}
    BY DEF OnChannelBusy, SendReply, OwnTxStart, ChannelTurnsBusy, countdown,
           request, FlagsOK
  <1>1. FlagsOK'
    BY <1>0 DEF FlagsOK
  <1>2. ClocksOK' /\ SpaceAhead(Aifs)'
    BY <1>0 DEF ClocksOK, SpaceAhead
  <1>3. CountdownFollowsChannel'
    BY <1>0 DEF CountdownFollowsChannel
  <1>4. OwnTxIsBusy' /\ CreditEarned' /\ ErrorRemembered' /\ RequestFits'
    BY <1>0 DEF OwnTxIsBusy, CreditEarned,
         ErrorRemembered, RequestFits
  <1> QED
    BY <1>0, <1>1, <1>2, <1>3, <1>4

(* The stopping delay ends: a countdown on a busy channel is frozen.       *)
LEMMA ChannelBusyDelayInv == Inv /\ ChannelBusyDelay => Inv'
  <1> SUFFICES ASSUME Inv, ChannelBusyDelay PROVE Inv'
    OBVIOUS
  <1> USE DEF Inv
  <1>0. /\ UNCHANGED <<backoffFinished, duringAIFS, transmissionWaiting,
                      cw, want, channelIsBusy, ownTx, rxError, sinceIdle,
                      credit, failure>>
        /\ timer' = IF channelIsBusy THEN Off ELSE timer
        /\ failure # "open"
    BY DEF ChannelBusyDelay, request, history, ErrorRemembered
  <1>1. FlagsOK'
    BY <1>0 DEF FlagsOK
  <1>2. ClocksOK' /\ SpaceAhead(Aifs)'
    BY <1>0 DEF ClocksOK, SpaceAhead, Off
  <1>3. CountdownFollowsChannel'
    BY <1>0 DEF CountdownFollowsChannel
  <1>4. OwnTxIsBusy' /\ CreditEarned' /\ ErrorRemembered' /\ RequestFits'
    BY <1>0 DEF OwnTxIsBusy, CreditEarned,
         ErrorRemembered, RequestFits
  <1>5. ~channelIsBusy' /\ failure' = "due" => SpaceAhead(Eifs)'
    BY <1>0 DEF SpaceAhead
  <1> QED
    BY <1>1, <1>2, <1>3, <1>4, <1>5

(* The countdown starts anew, with EIFS if the busy period brought a       *)
(* failed reception.                                                       *)
LEMMA OnChannelIdleInv == Inv /\ OnChannelIdle => Inv'
  <1> SUFFICES ASSUME Inv, OnChannelIdle PROVE Inv'
    OBVIOUS
  <1> USE DEF Inv
  <1>0. /\ UNCHANGED <<transmissionWaiting, cw, want, graces, ownTx>>
        /\ channelIsBusy /\ ~ownTx
        /\ channelIsBusy' = FALSE /\ aifsAge' = 0 /\ rxError' = FALSE
        /\ backoffFinished' = FALSE /\ duringAIFS' = TRUE
        /\ timer' = IF rxError THEN Eifs ELSE Aifs
        /\ sinceIdle' = 0 /\ credit' = FALSE
        /\ failure' = IF failure # "due" /\ graces = {} THEN "open" ELSE failure
    BY DEF OnChannelIdle, StartNewBackoffCountdown, request
  <1>1. FlagsOK'
    BY <1>0 DEF FlagsOK
  <1>2. timer' \in Int /\ timer' > 0 /\ timer' >= Aifs
    BY <1>0
  <1>3. ClocksOK' /\ SpaceAhead(Aifs)'
    BY <1>0, <1>2 DEF ClocksOK, SpaceAhead, Off, Never
  <1>4. CountdownFollowsChannel'
    BY <1>0, <1>2 DEF CountdownFollowsChannel, Off
  <1>5. OwnTxIsBusy' /\ CreditEarned' /\ RequestFits'
    BY <1>0 DEF OwnTxIsBusy, CreditEarned, RequestFits
  <1>6. ErrorRemembered'
    BY <1>0, <1>2 DEF ErrorRemembered
  <1>7. ~channelIsBusy' /\ failure' = "due" => SpaceAhead(Eifs)'
    <2>1. SUFFICES ASSUME failure' = "due" PROVE SpaceAhead(Eifs)'
      OBVIOUS
    <2>2. rxError
      BY <1>0, <2>1 DEF ErrorRemembered
    <2> QED
      BY <1>0, <2>2 DEF SpaceAhead, Off
  <1> QED
    BY <1>1, <1>3, <1>4, <1>5, <1>6, <1>7

(* A failed reception: on a busy channel it is remembered, in the instant  *)
(* of the change to idle the countdown restarts.                           *)
LEMMA OnRxErrorInv == Inv /\ OnRxError => Inv'
  <1> SUFFICES ASSUME Inv, OnRxError PROVE Inv'
    OBVIOUS
  <1> USE DEF Inv
  <1>0. /\ UNCHANGED <<transmissionWaiting, cw, want, channelIsBusy, graces,
                      ownTx, aifsAge, sinceIdle, credit>>
        /\ rxError' = TRUE
        /\ failure' = IF channelIsBusy \/ failure = "open" THEN "due"
                      ELSE failure
    BY DEF OnRxError, request, channel
  <1>1. OwnTxIsBusy' /\ RequestFits' /\ ErrorRemembered'
    BY <1>0 DEF OwnTxIsBusy, RequestFits, ErrorRemembered
  <1>2. CASE JustIdle
    <2>0. /\ backoffFinished' = FALSE /\ duringAIFS' = TRUE /\ timer' = Eifs
          /\ ~channelIsBusy
      BY <1>2 DEF OnRxError, StartNewBackoffCountdown
    <2>1. FlagsOK'
      BY <1>0, <2>0 DEF FlagsOK
    <2>2. ClocksOK' /\ SpaceAhead(Aifs)' /\ SpaceAhead(Eifs)'
      BY <1>0, <2>0 DEF ClocksOK, SpaceAhead, Off, Never
    <2>3. CountdownFollowsChannel' /\ CreditEarned'
      BY <1>0, <2>0 DEF CountdownFollowsChannel, CreditEarned, Off
    <2> QED
      BY <1>1, <2>1, <2>2, <2>3
  <1>3. CASE ~JustIdle
    <2>0. UNCHANGED <<backoffFinished, duringAIFS, timer>>
      BY <1>3 DEF OnRxError, countdown
    <2>1. FlagsOK'
      BY <1>0, <2>0 DEF FlagsOK
    <2>2. ClocksOK' /\ SpaceAhead(Aifs)'
      BY <1>0, <2>0 DEF ClocksOK, SpaceAhead
    <2>3. CountdownFollowsChannel' /\ CreditEarned'
      BY <1>0, <2>0 DEF CountdownFollowsChannel, CreditEarned
    <2>4. ~channelIsBusy' /\ failure' = "due" => SpaceAhead(Eifs)'
      <3>1. failure # "open"
        BY <1>3 DEF ErrorRemembered, JustIdle
      <3> QED
        BY <1>0, <2>0, <3>1 DEF SpaceAhead
    <2> QED
      BY <1>1, <2>1, <2>2, <2>3, <2>4
  <1> QED
    BY <1>2, <1>3

(* The own transmission ends; the channel state notifies that later.       *)
LEMMA OnTxEndInv == Inv /\ OnTxEnd => Inv'
  <1> SUFFICES ASSUME Inv, OnTxEnd PROVE Inv'
    OBVIOUS
  <1> USE DEF Inv
  <1>0. /\ ownTx' = FALSE
        /\ UNCHANGED <<backoffFinished, duringAIFS, timer,
                      transmissionWaiting, cw, want, channelIsBusy, graces,
                      rxError, aifsAge, sinceIdle,
                      credit, failure>>
    BY DEF OnTxEnd, countdown, request, history
  <1>1. FlagsOK'
    BY <1>0 DEF FlagsOK
  <1>2. /\ ClocksOK' /\ SpaceAhead(Aifs)'
        /\ ~channelIsBusy' /\ failure' = "due" => SpaceAhead(Eifs)'
    BY <1>0 DEF ClocksOK, SpaceAhead
  <1>3. CountdownFollowsChannel'
    BY <1>0 DEF CountdownFollowsChannel
  <1>4. OwnTxIsBusy' /\ CreditEarned' /\ ErrorRemembered' /\ RequestFits'
    BY <1>0 DEF OwnTxIsBusy, CreditEarned,
         ErrorRemembered, RequestFits
  <1> QED
    BY <1>1, <1>2, <1>3, <1>4

(* What the timer loses, the time since the change to idle gains.          *)
LEMMA TickInv == Inv /\ Tick => Inv'
  <1> SUFFICES ASSUME Inv, Tick PROVE Inv'
    OBVIOUS
  <1> USE DEF Inv
  <1>0. /\ UNCHANGED <<backoffFinished, duringAIFS, transmissionWaiting,
                      cw, want, channelIsBusy, ownTx, rxError, credit>>
        /\ timer # 0 /\ timer' = IF timer = Off THEN Off ELSE timer - 1
        /\ graces' = {g - 1 : g \in graces}
        /\ sinceIdle' = Aged(sinceIdle)
        /\ failure' = IF failure = "open" THEN "none" ELSE failure
    BY DEF Tick, request
  <1>1. /\ timer' \in Int /\ timer' >= Off /\ (timer' = Off <=> timer = Off)
        /\ timer # Off => timer' = timer - 1
    BY <1>0 DEF ClocksOK, Off
  <1>2. /\ sinceIdle' \in Int /\ sinceIdle' >= Never
        /\ sinceIdle = Never => sinceIdle' = Never
        /\ sinceIdle # Never => sinceIdle' = sinceIdle + 1 \/ sinceIdle' = Eifs
        /\ sinceIdle # Never => sinceIdle' = Eifs \/ sinceIdle' >= sinceIdle
    BY <1>0 DEF ClocksOK, Aged, Least, Never
  <1>3. graces' = {} <=> graces = {}
    BY <1>0
  <1>4. FlagsOK'
    BY <1>0 DEF FlagsOK
  <1>5. ClocksOK'
    BY <1>1, <1>2 DEF ClocksOK
  <1>6. SpaceAhead(Aifs)'
    BY <1>0, <1>1, <1>2 DEF SpaceAhead, ClocksOK, Off, Never
  <1>7. ~channelIsBusy' /\ failure' = "due" => SpaceAhead(Eifs)'
    <2>1. SUFFICES ASSUME ~channelIsBusy', failure' = "due"
                   PROVE  SpaceAhead(Eifs)'
      OBVIOUS
    <2>2. SpaceAhead(Eifs)
      BY <1>0, <2>1
    <2> QED
      BY <1>0, <1>1, <1>2, <2>2 DEF SpaceAhead, ClocksOK, Off, Never
  <1>8. CountdownFollowsChannel'
    BY <1>0, <1>1, <1>3 DEF CountdownFollowsChannel
  <1>9. OwnTxIsBusy' /\ CreditEarned' /\ ErrorRemembered' /\ RequestFits'
    BY <1>0 DEF OwnTxIsBusy, CreditEarned,
         ErrorRemembered, RequestFits
  <1> QED
    BY <1>4, <1>5, <1>6, <1>7, <1>8, <1>9

(* Every handler keeps the invariant.                                      *)
LEMMA NextInv == Inv /\ [Next]_vars => Inv'
  <1> SUFFICES ASSUME Inv, [Next]_vars PROVE Inv'
    OBVIOUS
  <1>1. ASSUME NEW n \in 1..MaxTransmissions, Offer(n) PROVE Inv'
    BY <1>1, RequestInv DEF Offer
  <1>2. CASE Wakeup
    BY <1>2, RequestInv DEF Wakeup
  <1>3. CASE OnTimeout
    BY <1>3, OnTimeoutInv
  <1>4. CASE OnChannelBusy \/ SendReply
    BY <1>4, BusyInv
  <1>5. CASE ChannelBusyDelay
    BY <1>5, ChannelBusyDelayInv
  <1>6. CASE OnChannelIdle
    BY <1>6, OnChannelIdleInv
  <1>7. CASE OnRxError
    BY <1>7, OnRxErrorInv
  <1>8. CASE OnTxEnd
    BY <1>8, OnTxEndInv
  <1>9. CASE Tick
    BY <1>9, TickInv
  <1>10. CASE UNCHANGED vars
    BY <1>10 DEF vars, countdown, request, channel, history, Inv, FlagsOK,
       ClocksOK, OwnTxIsBusy, CountdownFollowsChannel, CreditEarned, SpaceAhead,
       ErrorRemembered, RequestFits
  <1> QED
    BY <1>1, <1>2, <1>3, <1>4, <1>5, <1>6, <1>7, <1>8, <1>9, <1>10 DEF Next

-----------------------------------------------------------------------------
(* The conjunction that is inductive.                                      *)
THEOREM Invariance == Spec => []Inv
  BY InitInv, NextInv, PTL DEF Spec

(* A permission is given only after a backoff counted to zero and a space  *)
(* waited for since the channel became idle, and a waiting frame keeps the *)
(* window of its own transmission number.                                  *)
THEOREM PermissionIsEarned == Spec => []GrantIsEarned
  <1>1. Inv => GrantIsEarned
    BY DEF Inv, GrantIsEarned, Granted, CreditEarned, SpaceAhead, RequestFits
  <1> QED
    BY <1>1, Invariance, PTL

(* A failed reception costs EIFS in whichever order the failure and the    *)
(* change to idle are notified.                                            *)
THEOREM ErrorCostsEifs == Spec => []EifsAfterError
  <1>1. Inv => EifsAfterError
    BY DEF Inv, EifsAfterError, Granted, SpaceAhead
  <1> QED
    BY <1>1, Invariance, PTL

(* On an idle channel the countdown runs or has finished, on a busy one it *)
(* is frozen, and a finished one has no timer (assertion of onTimeout).    *)
THEOREM CountdownIsRight == Spec => []CountdownFollowsChannel
  <1>1. Inv => CountdownFollowsChannel
    BY DEF Inv
  <1> QED
    BY <1>1, Invariance, PTL

===============================================================================
