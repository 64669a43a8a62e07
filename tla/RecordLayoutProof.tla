------------------------- MODULE RecordLayoutProof -------------------------
(***************************************************************************)
(* The words of the C files, for all widths of their fields: the masks     *)
(* part the word, a helper changes the numbers in the fields as the map    *)
(* and the free list take it to, and a version that moved is another one.  *)
(*                                                                         *)
(* An addition is followed from the top of a field down: what a bit gets   *)
(* from the carry depends on where the carry stops (Carried).              *)
(***************************************************************************)
EXTENDS RecordLayout, TLAPS, FiniteSetTheorems, WellFoundedInduction

-----------------------------------------------------------------------------
(* Numbers.                                                                *)

\* Induction, for a set of numbers.
LEMMA EveryNumber ==
    ASSUME NEW S, S \subseteq Nat, 0 \in S, \A n \in S : n + 1 \in S
    PROVE  S = Nat
  <1> SUFFICES ASSUME S # Nat PROVE FALSE
    OBVIOUS
  <1> DEFINE T == Nat \ S
             R == OpToRel(<, Nat)
  <1>1. T \subseteq Nat /\ T # {} /\ IsWellFoundedOn(R, Nat)
    BY NatLessThanWellFounded
  <1>2. PICK n \in T : \A m \in T : <<m, n>> \notin R
    <2> HIDE DEF R, T
    <2> QED
      BY ONLY <1>1, WFMin, Zenon
  <1>3. \A m \in T : ~(m < n)
    BY <1>2 DEF OpToRel
  <1>4. n # 0 /\ n - 1 \in Nat /\ n - 1 \notin T
    BY <1>3
  <1>5. QED
    BY <1>4

\* A set of numbers has a least one.
LEMMA LeastIs ==
    ASSUME NEW S, S \subseteq Nat, S # {}
    PROVE  /\ Min(S) \in S
           /\ \A n \in S : Min(S) <= n
  <1> DEFINE R == OpToRel(<, Nat)
  <1>1. IsWellFoundedOn(R, Nat)
    BY NatLessThanWellFounded
  <1>2. PICK n \in S : \A m \in S : <<m, n>> \notin R
    <2> HIDE DEF R
    <2> QED
      BY ONLY <1>1, WFMin, S \subseteq Nat, S # {}, Zenon
  <1>3. \A m \in S : ~(m < n)
    BY <1>2 DEF OpToRel
  <1>4. n \in S /\ \A m \in S : n <= m
    BY <1>3
  <1>5. QED
    BY <1>4 DEF Min

LEMMA OnesAre == \A n \in Int : Ones(n) = {b \in Nat : b < n}
  BY DEF Ones

LEMMA Intervals ==
    ASSUME NEW lo \in Nat, NEW n \in Nat, n # 0
    PROVE  /\ Min(lo .. lo + n - 1) = lo
           /\ Max(lo .. lo + n - 1) = lo + n - 1
           /\ Cardinality(lo .. lo + n - 1) = n
           /\ Min({lo}) = lo
  <1>1. Min(lo .. lo + n - 1) = lo
    <2>1. lo .. lo + n - 1 \subseteq Nat /\ lo \in lo .. lo + n - 1
      OBVIOUS
    <2>2. /\ Min(lo .. lo + n - 1) \in lo .. lo + n - 1
          /\ Min(lo .. lo + n - 1) <= lo
      BY ONLY <2>1, LeastIs
    <2>3. \A b \in lo .. lo + n - 1 : b \in Nat /\ b >= lo
      OBVIOUS
    <2>4. QED
      BY <2>2, <2>3
  <1>2. Max(lo .. lo + n - 1) = lo + n - 1
    BY DEF Max
  <1>3. Cardinality(lo .. lo + n - 1) = n
    BY FS_Interval
  <1>4. Min({lo}) = lo
    BY LeastIs
  <1>5. QED
    BY <1>1, <1>2, <1>3, <1>4

\* Powers, by their equations on a part of the numbers.
Powers(f, n) == f = [i \in 0 .. n |-> IF i = 0 THEN 1 ELSE 2 * f[i - 1]]

LEMMA PowersExist == \A n \in Nat : \E f : Powers(f, n)
  <1> DEFINE S == {n \in Nat : \E f : Powers(f, n)}
  <1>1. 0 \in S
    <2>1. Powers([i \in 0 .. 0 |-> 1], 0)
      BY DEF Powers
    <2>2. QED
      BY <2>1
  <1>2. ASSUME NEW n \in S PROVE n + 1 \in S
    <2>1. PICK f : Powers(f, n)
      OBVIOUS
    <2> DEFINE g == [i \in 0 .. n + 1 |-> IF i <= n THEN f[i] ELSE 2 * f[n]]
    <2>2. \A i \in 0 .. n : f[i] = IF i = 0 THEN 1 ELSE 2 * f[i - 1]
      BY <2>1 DEF Powers
    <2>3. ASSUME NEW i \in 0 .. n + 1 PROVE g[i] = IF i = 0 THEN 1 ELSE 2 * g[i - 1]
      <3>1. CASE i <= n
        <4>1. i \in 0 .. n /\ g[i] = f[i] /\ (i # 0 => g[i - 1] = f[i - 1])
          BY <3>1
        <4>2. QED
          BY <2>2, <4>1
      <3>2. CASE i = n + 1
        <4>1. i # 0 /\ i - 1 = n /\ g[i] = 2 * f[n] /\ g[n] = f[n]
          BY <3>2
        <4>2. QED
          BY <4>1
      <3>3. QED
        BY <3>1, <3>2
    <2>4. Powers(g, n + 1)
      <3>1. g = [i \in 0 .. n + 1 |-> g[i]]
        OBVIOUS
      <3>2. [i \in 0 .. n + 1 |-> g[i]]
             = [i \in 0 .. n + 1 |-> IF i = 0 THEN 1 ELSE 2 * g[i - 1]]
        BY <2>3
      <3>3. QED
        BY ONLY <3>1, <3>2 DEF Powers
    <2>5. QED
      BY <2>4
  <1>3. S = Nat
    <2> HIDE DEF S
    <2>1. S \subseteq Nat
      BY DEF S
    <2> QED
      BY <1>1, <1>2, <2>1, EveryNumber
  <1>4. QED
    BY <1>3

LEMMA PowersAgree ==
    ASSUME NEW n \in Nat, NEW m \in Nat, NEW f, NEW g, Powers(f, n), Powers(g, m)
    PROVE  \A i \in Nat : i <= n /\ i <= m => f[i] = g[i]
  <1> DEFINE S == {i \in Nat : i <= n /\ i <= m => f[i] = g[i]}
  <1>1. 0 \in S
    BY DEF Powers
  <1>2. ASSUME NEW i \in S PROVE i + 1 \in S
    <2>1. SUFFICES ASSUME i + 1 <= n, i + 1 <= m PROVE f[i + 1] = g[i + 1]
      OBVIOUS
    <2>2. i + 1 \in 0 .. n /\ i + 1 \in 0 .. m /\ i + 1 # 0 /\ (i + 1) - 1 = i /\ f[i] = g[i]
      BY <2>1
    <2>3. f[i + 1] = 2 * f[i] /\ g[i + 1] = 2 * g[i]
      BY <2>2 DEF Powers
    <2>4. QED
      BY <2>2, <2>3
  <1>3. S = Nat
    <2>1. S \subseteq Nat
      OBVIOUS
    <2> HIDE DEF S
    <2> QED
      BY <1>1, <1>2, <2>1, EveryNumber
  <1>4. QED
    BY <1>3

\* What a power of two is.
LEMMA TwoToIs ==
    /\ TwoTo[0] = 1
    /\ \A n \in Nat : TwoTo[n + 1] = 2 * TwoTo[n]
    /\ \A n \in Nat : TwoTo[n] \in Nat /\ TwoTo[n] >= 1
  <1> DEFINE some(n) == CHOOSE f : Powers(f, n)
             p == [n \in Nat |-> some(n)[n]]
  <1>1. \A n \in Nat : Powers(some(n), n)
    BY PowersExist
  <1>2. \A n \in Nat : p[n] = IF n = 0 THEN 1 ELSE 2 * p[n - 1]
    <2>1. SUFFICES ASSUME NEW n \in Nat PROVE p[n] = IF n = 0 THEN 1 ELSE 2 * p[n - 1]
      OBVIOUS
    <2>2. Powers(some(n), n)
      BY <1>1
    <2>3. CASE n = 0
      BY <2>2, <2>3 DEF Powers
    <2>4. CASE n # 0
      <3>1. n - 1 \in Nat /\ n \in 0 .. n
        BY <2>4
      <3>2. some(n)[n] = 2 * some(n)[n - 1]
        BY <2>2, <2>4, <3>1 DEF Powers
      <3>3. Powers(some(n - 1), n - 1)
        BY <1>1, <3>1
      <3>4. some(n)[n - 1] = some(n - 1)[n - 1]
        <4> HIDE DEF some
        <4> QED
          BY <2>2, <3>1, <3>3, PowersAgree
      <3>5. QED
        BY <2>4, <3>1, <3>2, <3>4
    <2>5. QED
      BY <2>3, <2>4
  <1>3. p = [n \in Nat |-> IF n = 0 THEN 1 ELSE 2 * p[n - 1]]
    <2> HIDE DEF some
    <2> QED
      BY <1>2
  <1>4. TwoTo = [n \in Nat |-> IF n = 0 THEN 1 ELSE 2 * TwoTo[n - 1]]
    <2> HIDE DEF p
    <2> QED
      BY <1>3 DEF TwoTo
  <1>5. \A n \in Nat : TwoTo[n] = IF n = 0 THEN 1 ELSE 2 * TwoTo[n - 1]
    BY <1>4
  <1>6. TwoTo[0] = 1 /\ \A n \in Nat : TwoTo[n + 1] = 2 * TwoTo[n]
    <2>1. \A n \in Nat : n + 1 \in Nat /\ n + 1 # 0 /\ (n + 1) - 1 = n
      OBVIOUS
    <2>2. QED
      BY <1>5, <2>1
  <1> DEFINE S == {n \in Nat : TwoTo[n] \in Nat /\ TwoTo[n] >= 1}
  <1>7. 0 \in S /\ \A n \in S : n + 1 \in S
    BY <1>6
  <1>8. S = Nat
    <2>1. S \subseteq Nat
      OBVIOUS
    <2> HIDE DEF S
    <2> QED
      BY <1>7, <2>1, EveryNumber
  <1>9. QED
    BY <1>6, <1>8

-----------------------------------------------------------------------------
(* The number in the leading bits.                                         *)

Leads(f, w, top, n) ==
    f = [i \in 0 .. n |->
            IF i = 0 THEN 0 ELSE 2 * f[i - 1] + (IF top + 1 - i \in w THEN 1 ELSE 0)]

LEMMA LeadsExist == ASSUME NEW w, NEW top \in Int PROVE \A n \in Nat : \E f : Leads(f, w, top, n)
  <1> DEFINE S == {n \in Nat : \E f : Leads(f, w, top, n)}
             bit(i) == IF top + 1 - i \in w THEN 1 ELSE 0
  <1>1. 0 \in S
    <2>1. Leads([i \in 0 .. 0 |-> 0], w, top, 0)
      BY DEF Leads
    <2>2. QED
      BY <2>1
  <1>2. ASSUME NEW n \in S PROVE n + 1 \in S
    <2>1. PICK f : Leads(f, w, top, n)
      OBVIOUS
    <2> DEFINE g == [i \in 0 .. n + 1 |-> IF i <= n THEN f[i] ELSE 2 * f[n] + bit(i)]
    <2>2. \A i \in 0 .. n : f[i] = IF i = 0 THEN 0 ELSE 2 * f[i - 1] + bit(i)
      BY <2>1 DEF Leads
    <2>3. ASSUME NEW i \in 0 .. n + 1
          PROVE  g[i] = IF i = 0 THEN 0 ELSE 2 * g[i - 1] + bit(i)
      <3> HIDE DEF bit
      <3>1. CASE i <= n
        <4>1. i \in 0 .. n /\ g[i] = f[i] /\ (i # 0 => g[i - 1] = f[i - 1])
          BY <3>1
        <4>2. QED
          BY <2>2, <4>1
      <3>2. CASE i = n + 1
        <4>1. i # 0 /\ i - 1 = n /\ g[i] = 2 * f[n] + bit(i) /\ g[n] = f[n]
          BY <3>2
        <4>2. QED
          BY <4>1
      <3>3. QED
        BY <3>1, <3>2
    <2>4. Leads(g, w, top, n + 1)
      <3>1. g = [i \in 0 .. n + 1 |-> g[i]]
        OBVIOUS
      <3>2. [i \in 0 .. n + 1 |-> g[i]]
             = [i \in 0 .. n + 1 |-> IF i = 0 THEN 0 ELSE 2 * g[i - 1] + bit(i)]
        BY <2>3
      <3>3. QED
        BY ONLY <3>1, <3>2 DEF Leads
    <2>5. QED
      BY <2>4
  <1>3. S = Nat
    <2>1. S \subseteq Nat
      OBVIOUS
    <2> HIDE DEF S
    <2> QED
      BY <1>1, <1>2, <2>1, EveryNumber
  <1>4. QED
    BY <1>3

LEMMA LeadsAgree ==
    ASSUME NEW w, NEW top \in Int, NEW n \in Nat, NEW m \in Nat, NEW f, NEW g,
           Leads(f, w, top, n), Leads(g, w, top, m)
    PROVE  \A i \in Nat : i <= n /\ i <= m => f[i] = g[i]
  <1> DEFINE S == {i \in Nat : i <= n /\ i <= m => f[i] = g[i]}
             bit(i) == IF top + 1 - i \in w THEN 1 ELSE 0
  <1>1. 0 \in S
    BY DEF Leads
  <1>2. ASSUME NEW i \in S PROVE i + 1 \in S
    <2>1. SUFFICES ASSUME i + 1 <= n, i + 1 <= m PROVE f[i + 1] = g[i + 1]
      OBVIOUS
    <2>2. i + 1 \in 0 .. n /\ i + 1 \in 0 .. m /\ i + 1 # 0 /\ (i + 1) - 1 = i /\ f[i] = g[i]
      BY <2>1
    <2>3. f[i + 1] = 2 * f[i] + bit(i + 1) /\ g[i + 1] = 2 * g[i] + bit(i + 1)
      BY <2>2 DEF Leads
    <2>4. QED
      BY <2>2, <2>3
  <1>3. S = Nat
    <2>1. S \subseteq Nat
      OBVIOUS
    <2> HIDE DEF S
    <2> QED
      BY <1>1, <1>2, <2>1, EveryNumber
  <1>4. QED
    BY <1>3

Bit(w, b) == IF b \in w THEN 1 ELSE 0

\* What the leading bits hold: the bit below them doubles the number and adds itself.
LEMMA LeadIs ==
    ASSUME NEW w, NEW top \in Int
    PROVE  /\ Leading(w, top, 0) = 0
           /\ \A n \in Nat : Leading(w, top, n + 1) = 2 * Leading(w, top, n) + Bit(w, top - n)
           /\ \A n \in Nat : Leading(w, top, n) \in 0 .. TwoTo[n] - 1
  <1> DEFINE some(n) == CHOOSE f : Leads(f, w, top, n)
  <1>1. \A n \in Nat : Leads(some(n), w, top, n)
    BY LeadsExist
  <1>2. \A n \in Nat : Leading(w, top, n) = some(n)[n]
    BY DEF Leading, Leads
  <1>3. Leading(w, top, 0) = 0
    <2> HIDE DEF some
    <2>1. Leads(some(0), w, top, 0) /\ Leading(w, top, 0) = some(0)[0] /\ 0 \in 0 .. 0
      BY <1>1, <1>2
    <2>2. QED
      BY <2>1 DEF Leads
  <1>4. ASSUME NEW n \in Nat
        PROVE  Leading(w, top, n + 1) = 2 * Leading(w, top, n) + Bit(w, top - n)
    <2> HIDE DEF some
    <2>1. /\ Leads(some(n), w, top, n) /\ Leads(some(n + 1), w, top, n + 1)
          /\ Leading(w, top, n) = some(n)[n] /\ Leading(w, top, n + 1) = some(n + 1)[n + 1]
      BY <1>1, <1>2
    <2>2. some(n + 1)[n] = some(n)[n]
      <3>1. n + 1 \in Nat /\ n <= n + 1 /\ n <= n
        OBVIOUS
      <3>2. \A i \in Nat : i <= n + 1 /\ i <= n => some(n + 1)[i] = some(n)[i]
        <4> DEFINE f == some(n + 1)
                   g == some(n)
        <4>1. Leads(f, w, top, n + 1) /\ Leads(g, w, top, n)
          BY <2>1
        <4> HIDE DEF f, g
        <4>2. \A i \in Nat : i <= n + 1 /\ i <= n => f[i] = g[i]
          BY ONLY <3>1, <4>1, n \in Nat, top \in Int, LeadsAgree
        <4>3. QED
          BY <4>2 DEF f, g
      <3>3. QED
        BY ONLY <3>1, <3>2, n \in Nat
    <2>3. /\ n + 1 \in 0 .. n + 1 /\ n + 1 # 0 /\ (n + 1) - 1 = n
          /\ top + 1 - (n + 1) = top - n
      OBVIOUS
    <2>4. some(n + 1)[n + 1] = 2 * some(n + 1)[n] + Bit(w, top - n)
      BY <2>1, <2>3 DEF Leads, Bit
    <2>5. QED
      BY <2>1, <2>2, <2>4
  <1> HIDE DEF some
  <1> DEFINE S == {n \in Nat : Leading(w, top, n) \in 0 .. TwoTo[n] - 1}
  <1>5. 0 \in S
    BY <1>3, TwoToIs
  <1>6. ASSUME NEW n \in S PROVE n + 1 \in S
    BY <1>4, TwoToIs DEF Bit
  <1>7. S = Nat
    <2>1. S \subseteq Nat
      OBVIOUS
    <2> HIDE DEF S
    <2> QED
      BY <1>5, <1>6, <2>1, EveryNumber
  <1>8. QED
    BY <1>3, <1>4, <1>7

LEMMA LeadStep ==
    ASSUME NEW w, NEW top \in Int, NEW n \in Nat
    PROVE  /\ Leading(w, top, n + 1) = 2 * Leading(w, top, n) + Bit(w, top - n)
           /\ Leading(w, top, n) \in Int
  <1>1. Leading(w, top, n) \in 0 .. TwoTo[n] - 1
    BY LeadIs
  <1>2. Leading(w, top, n) \in Int
    BY <1>1, TwoToIs
  <1>3. Leading(w, top, n + 1) = 2 * Leading(w, top, n) + Bit(w, top - n)
    BY LeadIs
  <1>4. QED
    BY <1>2, <1>3

\* Two words have the same number in a field if and only if they agree on its bits.
LEMMA LeadSame ==
    ASSUME NEW v, NEW w, NEW top \in Int, NEW n \in Nat
    PROVE  Leading(v, top, n) = Leading(w, top, n)
             <=> \A b \in top + 1 - n .. top : b \in v <=> b \in w
  <1> DEFINE S == {i \in Nat : Leading(v, top, i) = Leading(w, top, i)
                                 <=> \A b \in top + 1 - i .. top : b \in v <=> b \in w}
  <1>1. 0 \in S
    BY LeadIs
  <1>2. ASSUME NEW i \in S PROVE i + 1 \in S
    <2>1. /\ Leading(v, top, i + 1) = 2 * Leading(v, top, i) + Bit(v, top - i)
          /\ Leading(w, top, i + 1) = 2 * Leading(w, top, i) + Bit(w, top - i)
          /\ Leading(v, top, i) \in Int /\ Leading(w, top, i) \in Int
      BY LeadStep
    <2>2. Leading(v, top, i + 1) = Leading(w, top, i + 1)
            <=> Leading(v, top, i) = Leading(w, top, i) /\ (top - i \in v <=> top - i \in w)
      BY <2>1 DEF Bit
    <2>3. (\A b \in top + 1 - (i + 1) .. top : b \in v <=> b \in w)
            <=> (\A b \in top + 1 - i .. top : b \in v <=> b \in w)
                  /\ (top - i \in v <=> top - i \in w)
      <3>1. top + 1 - (i + 1) .. top = (top + 1 - i .. top) \cup {top - i}
        OBVIOUS
      <3>2. QED
        BY <3>1
    <2>4. QED
      BY <2>2, <2>3
  <1>3. S = Nat
    <2>1. S \subseteq Nat
      OBVIOUS
    <2> HIDE DEF S
    <2> QED
      BY <1>1, <1>2, <2>1, EveryNumber
  <1>4. QED
    BY <1>3

\* v is w with one added at "low", as far as the bits up to "top" show: the carry
\* passes the ones below "stop", sets that bit and leaves those above it.
Carried(w, v, low, stop, top) ==
    /\ stop \in Int /\ low <= stop
    /\ \A b \in low .. top : b \in v <=> b = stop \/ (b > stop /\ b \in w)
    /\ \A b \in low .. top : b < stop => b \in w
    /\ stop <= top => stop \notin w

\* The number grows by one, or it was full and is zero.
LEMMA LeadCarried ==
    ASSUME NEW v, NEW w, NEW top \in Int, NEW n \in Nat, NEW stop,
           Carried(w, v, top + 1 - n, stop, top)
    PROVE  \/ Leading(v, top, n) = Leading(w, top, n) + 1
           \/ Leading(w, top, n) = TwoTo[n] - 1 /\ Leading(v, top, n) = 0
  <1>0. stop \in Int
    BY DEF Carried
  <1> DEFINE S == {i \in Nat : i <= n /\ stop >= top + 1 - i =>
                     \/ Leading(v, top, i) = Leading(w, top, i) + 1
                     \/ Leading(w, top, i) = TwoTo[i] - 1 /\ Leading(v, top, i) = 0}
  <1>1. 0 \in S
    BY LeadIs, TwoToIs
  <1>2. ASSUME NEW i \in S PROVE i + 1 \in S
    <2>1. SUFFICES ASSUME i + 1 <= n, stop >= top + 1 - (i + 1)
                   PROVE  \/ Leading(v, top, i + 1) = Leading(w, top, i + 1) + 1
                          \/ Leading(w, top, i + 1) = TwoTo[i + 1] - 1 /\ Leading(v, top, i + 1) = 0
      OBVIOUS
    <2>2. /\ Leading(v, top, i + 1) = 2 * Leading(v, top, i) + Bit(v, top - i)
          /\ Leading(w, top, i + 1) = 2 * Leading(w, top, i) + Bit(w, top - i)
          /\ Leading(v, top, i) \in Int /\ Leading(w, top, i) \in Int
          /\ TwoTo[i] \in Int /\ TwoTo[i + 1] = 2 * TwoTo[i]
      BY LeadStep, TwoToIs
    <2>3. top - i \in top + 1 - n .. top
      BY <2>1
    <2>4. CASE stop = top - i
      <3>1. Leading(v, top, i) = Leading(w, top, i)
        <4>1. \A b \in top + 1 - i .. top : b \in top + 1 - n .. top /\ b > stop
          BY <2>1, <2>4
        <4>2. \A b \in top + 1 - i .. top : b \in v <=> b \in w
          BY <4>1, <1>0 DEF Carried
        <4>3. QED
          BY <4>2, LeadSame
      <3>2. stop <= top
        BY <2>4
      <3>3. top - i \in v /\ top - i \notin w
        BY <2>3, <2>4, <3>2 DEF Carried
      <3>4. QED
        BY <2>2, <3>1, <3>3 DEF Bit
    <2>5. CASE stop # top - i
      <3>1. stop > top - i /\ stop >= top + 1 - i /\ i <= n
        BY <1>0, <2>1, <2>5
      <3>2. top - i \notin v /\ top - i \in w
        BY <1>0, <2>3, <3>1 DEF Carried
      <3>3. \/ Leading(v, top, i) = Leading(w, top, i) + 1
            \/ Leading(w, top, i) = TwoTo[i] - 1 /\ Leading(v, top, i) = 0
        BY <3>1
      <3>4. Bit(v, top - i) = 0 /\ Bit(w, top - i) = 1
        BY <3>2 DEF Bit
      <3>5. QED
        BY <2>2, <3>3, <3>4
    <2>6. QED
      BY <2>4, <2>5
  <1>3. S = Nat
    <2>1. S \subseteq Nat
      OBVIOUS
    <2> HIDE DEF S
    <2> QED
      BY <1>1, <1>2, <2>1, EveryNumber
  <1>4. n <= n /\ stop >= top + 1 - n
    BY <1>0 DEF Carried
  <1>5. QED
    BY <1>3, <1>4

-----------------------------------------------------------------------------
(* A field and its number.                                                 *)

\* The n bits from lo on.
Field(lo, n) == lo .. lo + n - 1

LEMMA ValueIs ==
    ASSUME NEW w, NEW lo \in Nat, NEW n \in Nat, n # 0
    PROVE  /\ Value(w, Field(lo, n)) = Leading(w, lo + n - 1, n)
           /\ Value(w, Field(lo, n)) \in 0 .. TwoTo[n] - 1
  <1>1. Value(w, Field(lo, n)) = Leading(w, lo + n - 1, n)
    BY Intervals DEF Value, Field
  <1>2. Leading(w, lo + n - 1, n) \in 0 .. TwoTo[n] - 1
    <2> DEFINE top == lo + n - 1
    <2>1. top \in Int
      OBVIOUS
    <2> HIDE DEF top
    <2>2. Leading(w, top, n) \in 0 .. TwoTo[n] - 1
      BY <2>1, LeadIs
    <2>3. QED
      BY <2>2 DEF top
  <1>3. QED
    BY <1>1, <1>2

\* The numbers are the same if and only if the bits are.
LEMMA ValueSame ==
    ASSUME NEW v, NEW w, NEW lo \in Nat, NEW n \in Nat, n # 0
    PROVE  Value(v, Field(lo, n)) = Value(w, Field(lo, n))
             <=> v \cap Field(lo, n) = w \cap Field(lo, n)
  <1> DEFINE top == lo + n - 1
  <1>1. top \in Int /\ top + 1 - n = lo
    OBVIOUS
  <1>2. Leading(v, top, n) = Leading(w, top, n)
          <=> \A b \in top + 1 - n .. top : b \in v <=> b \in w
    <2> HIDE DEF top
    <2> QED
      BY <1>1, LeadSame
  <1>3. (\A b \in top + 1 - n .. top : b \in v <=> b \in w)
          <=> v \cap Field(lo, n) = w \cap Field(lo, n)
    BY <1>1 DEF Field
  <1>4. Value(v, Field(lo, n)) = Leading(v, top, n) /\ Value(w, Field(lo, n)) = Leading(w, top, n)
    BY ValueIs
  <1>5. QED
    BY <1>2, <1>3, <1>4

LEMMA LeadZero == ASSUME NEW top \in Int, NEW n \in Nat PROVE Leading({}, top, n) = 0
  <1> DEFINE S == {i \in Nat : Leading({}, top, i) = 0}
  <1>1. 0 \in S
    BY LeadIs
  <1>2. ASSUME NEW i \in S PROVE i + 1 \in S
    <2>1. Leading({}, top, i + 1) = 2 * Leading({}, top, i) + Bit({}, top - i)
      BY LeadStep
    <2>2. QED
      BY <2>1 DEF Bit
  <1>3. S = Nat
    <2>1. S \subseteq Nat
      OBVIOUS
    <2> HIDE DEF S
    <2> QED
      BY <1>1, <1>2, <2>1, EveryNumber
  <1>4. QED
    BY <1>3

\* A field holds 0 when no bit of it is set, and 1 when the lowest one alone is.
LEMMA ValueSmall ==
    ASSUME NEW w, NEW lo \in Nat, NEW n \in Nat, n # 0
    PROVE  /\ Value(w, Field(lo, n)) = 0 <=> w \cap Field(lo, n) = {}
           /\ w \cap Field(lo, n) = {lo} => Value(w, Field(lo, n)) = 1
  <1> DEFINE top == lo + n - 1
  <1>0. top \in Int /\ top + 1 - n = lo /\ n - 1 \in Nat /\ (n - 1) + 1 = n /\ top - (n - 1) = lo
    OBVIOUS
  <1>1. Value({}, Field(lo, n)) = 0
    <2>1. Leading({}, top, n) = 0
      <3> HIDE DEF top
      <3> QED
        BY <1>0, LeadZero
    <2>2. QED
      BY <2>1, ValueIs
  <1>2. Value(w, Field(lo, n)) = 0 <=> w \cap Field(lo, n) = {}
    <2>1. Value(w, Field(lo, n)) = Value({}, Field(lo, n))
            <=> w \cap Field(lo, n) = {} \cap Field(lo, n)
      BY ValueSame
    <2>2. QED
      BY <1>1, <2>1
  <1>3. Value({lo}, Field(lo, n)) = 1
    <2>1. Leading({lo}, top, n) = 2 * Leading({lo}, top, n - 1) + Bit({lo}, lo)
      <3> DEFINE k == n - 1
      <3>1. k \in Nat /\ k + 1 = n /\ top - k = lo
        BY <1>0
      <3> HIDE DEF k, top
      <3>2. Leading({lo}, top, k + 1) = 2 * Leading({lo}, top, k) + Bit({lo}, top - k)
        BY <1>0, <3>1, LeadStep
      <3>3. QED
        BY <3>1, <3>2 DEF k
    <2>2. Leading({lo}, top, n - 1) = 0
      <3> DEFINE k == n - 1
      <3>1. k \in Nat /\ \A b \in top + 1 - k .. top : b \in {} <=> b \in {lo}
        BY <1>0
      <3> HIDE DEF k, top
      <3>2. Leading({}, top, k) = Leading({lo}, top, k) /\ Leading({}, top, k) = 0
        BY <1>0, <3>1, LeadSame, LeadZero
      <3>3. QED
        BY <3>2 DEF k
    <2>3. Leading({lo}, top, n) = 1
      BY <2>1, <2>2 DEF Bit
    <2>4. QED
      BY <2>3, ValueIs
  <1>4. w \cap Field(lo, n) = {lo} => Value(w, Field(lo, n)) = 1
    <2>1. Value(w, Field(lo, n)) = Value({lo}, Field(lo, n))
            <=> w \cap Field(lo, n) = {lo} \cap Field(lo, n)
      BY ValueSame
    <2>2. {lo} \cap Field(lo, n) = {lo}
      BY DEF Field
    <2>3. QED
      BY <1>3, <2>1, <2>2
  <1>5. QED
    BY <1>2, <1>4

\* Where the carry of an addition stops.
LEMMA PlusIs ==
    ASSUME NEW w, NEW bit \in Nat, NEW width \in Nat, bit < width
    PROVE  \E stop : Carried(w, Plus(w, bit, width), bit, stop, width - 1)
  <1> DEFINE T == {width} \cup {b \in bit .. width - 1 : b \notin w}
             stop == Min(T)
             v == ((w \ (bit .. stop - 1)) \cup {stop}) \cap Ones(width)
  <1>1. T \subseteq Nat /\ T # {}
    OBVIOUS
  <1>2. stop \in T /\ \A n \in T : stop <= n
    BY <1>1, LeastIs
  <1> HIDE DEF stop
  <1>3. stop \in Nat /\ bit <= stop /\ (stop <= width - 1 => stop \notin w)
    BY <1>2
  <1>4. \A b \in bit .. width - 1 : b < stop => b \in w
    BY <1>2, <1>3
  <1>5. \A b \in bit .. width - 1 : b \in v <=> b = stop \/ (b > stop /\ b \in w)
    BY <1>3 DEF Ones
  <1>6. v = Plus(w, bit, width)
    BY DEF stop, Plus
  <1>7. Carried(w, v, bit, stop, width - 1)
    BY <1>3, <1>4, <1>5 DEF Carried
  <1>8. QED
    BY <1>6, <1>7

\* A subtraction is an addition read backwards.
LEMMA MinusIs ==
    ASSUME NEW w, NEW bit \in Nat, NEW width \in Nat, bit < width, w \subseteq Ones(width)
    PROVE  /\ \E stop : Carried(Minus(w, bit, width), w, bit, stop, width - 1)
           /\ \A b \in 0 .. bit - 1 : b \in Minus(w, bit, width) <=> b \in w
           /\ Minus(w, bit, width) \subseteq Ones(width)
  <1> DEFINE T == {width} \cup {b \in w : b >= bit}
             stop == Min(T)
             v == (w \cup (bit .. stop - 1)) \ {stop}
  <1>1. T \subseteq Nat /\ T # {} /\ w \subseteq Int
    <2>1. \A b \in w : b \in Nat
      BY DEF Ones
    <2>2. QED
      BY <2>1
  <1>2. stop \in T /\ \A n \in T : stop <= n
    BY <1>1, LeastIs
  <1> HIDE DEF stop
  <1>3. stop \in Nat /\ bit <= stop /\ stop <= width /\ (stop <= width - 1 => stop \in w)
    BY <1>2 DEF Ones
  <1>4. \A b \in w : b >= bit => stop <= b
    BY <1>2
  <1>5. \A b \in bit .. width - 1 : b < stop => b \in v /\ b \notin w
    BY <1>3, <1>4
  <1>6. \A b \in bit .. width - 1 : b \in w <=> b = stop \/ (b > stop /\ b \in v)
    BY <1>1, <1>3, <1>5
  <1>7. v = Minus(w, bit, width)
    BY DEF stop, Minus
  <1>8. Carried(v, w, bit, stop, width - 1)
    BY <1>3, <1>5, <1>6 DEF Carried
  <1>9. (\A b \in 0 .. bit - 1 : b \in v <=> b \in w) /\ v \subseteq Ones(width)
    BY <1>3 DEF Ones
  <1>10. QED
    BY <1>7, <1>8, <1>9

LEMMA Wraps ==
    ASSUME NEW m \in Nat, NEW x \in 0 .. m - 1, NEW y \in 0 .. m - 1,
           y = x + 1 \/ (x = m - 1 /\ y = 0)
    PROVE  y = (x + 1) % m /\ x = (y - 1) % m
  <1>1. CASE y = x + 1
    BY <1>1
  <1>2. CASE x = m - 1 /\ y = 0
    BY <1>2
  <1>3. QED
    BY <1>1, <1>2

LEMMA CarriedValue ==
    ASSUME NEW v, NEW w, NEW lo \in Nat, NEW n \in Nat, n # 0, NEW top \in Int, NEW stop,
           lo + n - 1 <= top, Carried(w, v, lo, stop, top)
    PROVE  /\ Value(v, Field(lo, n)) = (Value(w, Field(lo, n)) + 1) % TwoTo[n]
           /\ Value(w, Field(lo, n)) = (Value(v, Field(lo, n)) - 1) % TwoTo[n]
  <1> DEFINE t == lo + n - 1
             a == Leading(w, t, n)
             c == Leading(v, t, n)
  <1>1. t \in Int /\ t + 1 - n = lo
    OBVIOUS
  <1>2. Carried(w, v, t + 1 - n, stop, t)
    BY <1>1 DEF Carried
  <1>3. c = a + 1 \/ (a = TwoTo[n] - 1 /\ c = 0)
    <2> HIDE DEF t
    <2> QED
      BY <1>1, <1>2, LeadCarried
  <1>4. Value(v, Field(lo, n)) = c /\ Value(w, Field(lo, n)) = a
    BY ValueIs
  <1>5. c \in 0 .. TwoTo[n] - 1 /\ a \in 0 .. TwoTo[n] - 1 /\ TwoTo[n] \in Nat
    BY <1>4, ValueIs, TwoToIs
  <1> HIDE DEF a, c
  <1>6. QED
    BY <1>3, <1>4, <1>5, Wraps

\* Adding the lowest one of a field adds one to its number.
LEMMA PlusValue ==
    ASSUME NEW w, NEW lo \in Nat, NEW n \in Nat, n # 0, NEW width \in Nat, lo + n <= width
    PROVE  Value(Plus(w, lo, width), Field(lo, n)) = (Value(w, Field(lo, n)) + 1) % TwoTo[n]
  <1>0. lo < width
    OBVIOUS
  <1>1. PICK stop : Carried(w, Plus(w, lo, width), lo, stop, width - 1)
    BY <1>0, PlusIs
  <1>2. width - 1 \in Int /\ lo + n - 1 <= width - 1
    OBVIOUS
  <1>3. QED
    BY <1>1, <1>2, CarriedValue

LEMMA MinusValue ==
    ASSUME NEW w, NEW lo \in Nat, NEW n \in Nat, n # 0, NEW width \in Nat, lo + n <= width,
           w \subseteq Ones(width)
    PROVE  Value(Minus(w, lo, width), Field(lo, n)) = (Value(w, Field(lo, n)) - 1) % TwoTo[n]
  <1>0. lo < width
    OBVIOUS
  <1>1. PICK stop : Carried(Minus(w, lo, width), w, lo, stop, width - 1)
    BY <1>0, MinusIs
  <1>2. width - 1 \in Int /\ lo + n - 1 <= width - 1
    OBVIOUS
  <1>3. QED
    BY <1>1, <1>2, CarriedValue

-----------------------------------------------------------------------------
(* The masks.                                                              *)

LEMMA FieldsOf ==
    ASSUME NEW l \in Layouts
    PROVE  /\ l.ref \in Nat /\ l.node \in Nat /\ l.next \in Nat /\ l.idx \in Nat /\ l.arr \in Nat
           /\ l.ref # 0 /\ l.node # 0 /\ l.next # 0 /\ l.idx # 0
           /\ l.bits = l.ref + l.node + l.next + l.arr + l.idx
           /\ l.idx + 1 < 32
  BY LayoutAssumption DEF LayoutFits, INTBITS

LEMMA ShiftRightIs ==
    ASSUME NEW k \in Nat, NEW n \in Nat, n <= k
    PROVE  ShiftRight(Ones(k), n) = Ones(k - n)
  <1>1. ASSUME NEW b \in Ones(k - n) PROVE b \in ShiftRight(Ones(k), n)
    <2>1. b + n \in Ones(k) /\ b + n >= n /\ b = (b + n) - n
      BY DEF Ones
    <2>2. QED
      BY <2>1 DEF ShiftRight
  <1>2. ASSUME NEW b \in ShiftRight(Ones(k), n) PROVE b \in Ones(k - n)
    BY DEF Ones, ShiftRight
  <1>3. QED
    BY <1>1, <1>2

\* A run of ones, less the same run moved down: its leading bits.
LEMMA XorIs ==
    ASSUME NEW k \in Nat, NEW n \in Nat, n <= k
    PROVE  Xor(Ones(k), Ones(k - n)) = Field(k - n, n)
  BY DEF Xor, SymDiff, Ones, Field

LEMMA MinusField ==
    ASSUME NEW lo \in Nat, NEW n \in Nat, n # 0, NEW width \in Nat, lo + n <= width
    PROVE  Minus(Field(lo, n), 0, width) = Ones(lo + n) \ {lo}
  <1> DEFINE T == {width} \cup {b \in Field(lo, n) : b >= 0}
  <1>1. T \subseteq Nat /\ lo \in T /\ \A b \in T : lo <= b
    BY DEF Field
  <1>2. Min(T) \in T /\ Min(T) <= lo
    BY <1>1, LeastIs
  <1>3. Min(T) = lo
    <2> HIDE DEF T
    <2>1. Min(T) \in Nat /\ lo <= Min(T)
      BY <1>1, <1>2
    <2>2. QED
      BY <1>2, <2>1
  <1>4. Minus(Field(lo, n), 0, width) = (Field(lo, n) \cup (0 .. lo - 1)) \ {lo}
    BY <1>3 DEF Minus
  <1>5. QED
    BY <1>4 DEF Field, Ones

LEMMA LowestOneIs ==
    ASSUME NEW lo \in Nat, NEW n \in Nat, n # 0, NEW width \in Nat, lo + n <= width
    PROVE  LowestOne(Field(lo, n), width) = {lo}
  <1>1. Minus(Field(lo, n), 0, width) \cap Field(lo, n) = Field(lo, n) \ {lo}
    <2>1. Minus(Field(lo, n), 0, width) = Ones(lo + n) \ {lo}
      BY MinusField
    <2>2. Field(lo, n) \subseteq Ones(lo + n)
      BY DEF Field, Ones
    <2>3. QED
      BY <2>1, <2>2
  <1>2. lo \in Field(lo, n)
    BY DEF Field
  <1>3. QED
    BY <1>1, <1>2 DEF LowestOne, Xor, SymDiff

LEMMA PlusOnes ==
    ASSUME NEW k \in Nat, NEW width \in Nat, k < width
    PROVE  Plus(Ones(k), 0, width) = {k}
  <1> DEFINE T == {width} \cup {b \in 0 .. width - 1 : b \notin Ones(k)}
  <1>1. T \subseteq Nat /\ k \in T /\ \A b \in T : k <= b
    BY DEF Ones
  <1>2. Min(T) \in T /\ Min(T) <= k
    BY <1>1, LeastIs
  <1>3. Min(T) = k
    <2> HIDE DEF T
    <2>1. Min(T) \in Nat /\ k <= Min(T)
      BY <1>1, <1>2
    <2>2. QED
      BY <1>2, <2>1
  <1>4. Plus(Ones(k), 0, width) = ((Ones(k) \ (0 .. k - 1)) \cup {k}) \cap Ones(width)
    BY <1>3 DEF Plus
  <1>5. QED
    BY <1>4 DEF Ones

\* Where the successor ends and the versions begin.
To(l) == l.idx + l.arr

LEMMA ReferenceMasksAre ==
    ASSUME NEW l \in Layouts
    PROVE  LET m == ReferenceMasks(l)
           IN  /\ m.to = Field(0, To(l))
               /\ m.next = Field(To(l), l.next) /\ m.nextOne = {To(l)}
               /\ m.nextTo = m.next \cup m.to
               /\ m.node = Field(To(l) + l.next, l.node) /\ m.nodeOne = {To(l) + l.next}
               /\ m.ref = Field(To(l) + l.next + l.node, l.ref)
               /\ m.refOne = {To(l) + l.next + l.node}
  <1> DEFINE body == Ones(l.bits - l.ref)
             node == Xor(body, ShiftRight(body, l.node))
             nodeOne == LowestOne(node, l.bits)
             below == Minus(nodeOne, 0, l.bits)
             next == Xor(below, ShiftRight(below, l.next))
             a == To(l)
             b == a + l.next
             c == b + l.node
  <1>1. /\ a \in Nat /\ b \in Nat /\ c \in Nat /\ l.bits \in Nat
        /\ l.bits - l.ref = c /\ c - l.node = b /\ b - l.next = a /\ l.bits = c + l.ref
        /\ b + l.node <= l.bits /\ b + 1 <= l.bits /\ a + l.next <= l.bits
        /\ l.node <= c /\ l.next <= b
    BY FieldsOf DEF To
  <1> HIDE DEF a, b, c
  <1>2. node = Field(b, l.node)
    BY <1>1, FieldsOf, ShiftRightIs, XorIs
  <1>3. nodeOne = {b}
    BY <1>1, <1>2, FieldsOf, LowestOneIs
  <1>4. below = Ones(b)
    <2>1. {b} = Field(b, 1)
      BY <1>1 DEF Field
    <2>2. Minus(Field(b, 1), 0, l.bits) = Ones(b + 1) \ {b}
      BY <1>1, MinusField
    <2>3. Ones(b + 1) \ {b} = Ones(b)
      BY <1>1 DEF Ones
    <2>4. QED
      BY <1>3, <2>1, <2>2, <2>3
  <1>5. next = Field(a, l.next)
    BY <1>1, <1>4, FieldsOf, ShiftRightIs, XorIs
  <1>6. LowestOne(next, l.bits) = {a}
    BY <1>1, <1>5, FieldsOf, LowestOneIs
  <1>7. Ones(l.bits) \ body = Field(c, l.ref)
    BY <1>1, FieldsOf DEF Ones, Field
  <1>8. Ones(l.idx) \cup ShiftLeft(Ones(l.arr), l.idx) = Field(0, To(l))
    <2>1. ASSUME NEW x \in Field(0, To(l)) PROVE x \in Ones(l.idx) \cup ShiftLeft(Ones(l.arr), l.idx)
      <3>1. CASE x < l.idx
        BY <3>1, FieldsOf DEF Field, Ones, To
      <3>2. CASE x >= l.idx
        <4>1. x - l.idx \in Ones(l.arr) /\ x = (x - l.idx) + l.idx
          BY <3>2, FieldsOf DEF Field, Ones, To
        <4>2. QED
          BY <4>1 DEF ShiftLeft
      <3>3. QED
        BY <3>1, <3>2, FieldsOf DEF Field
    <2>2. Ones(l.idx) \cup ShiftLeft(Ones(l.arr), l.idx) \subseteq Field(0, To(l))
      BY FieldsOf DEF Field, Ones, To, ShiftLeft
    <2>3. QED
      BY <2>1, <2>2
  <1>9. ReferenceMasks(l) =
          [ref |-> Ones(l.bits) \ body, refOne |-> {l.bits - l.ref},
           node |-> node, nodeOne |-> nodeOne,
           next |-> next, nextOne |-> LowestOne(next, l.bits),
           to |-> Ones(l.idx) \cup ShiftLeft(Ones(l.arr), l.idx),
           nextTo |-> next \cup Ones(l.idx) \cup ShiftLeft(Ones(l.arr), l.idx)]
    BY DEF ReferenceMasks
  <1> HIDE DEF body, node, nodeOne, below, next
  <1>10. QED
    BY <1>1, <1>2, <1>3, <1>5, <1>6, <1>7, <1>8, <1>9 DEF a, b, c

LEMMA QueueMasksAre ==
    ASSUME NEW l \in Layouts
    PROVE  LET m == QueueMasks(l)
           IN  /\ m.idx = Field(0, l.idx) /\ m.last = {l.idx}
               /\ m.nextVersion = Field(l.idx + 1, 31 - l.idx) /\ m.nextVersionOne = {l.idx + 1}
               /\ m.endVersion = Field(l.idx, 32 - l.idx) /\ m.endVersionOne = {l.idx}
  <1> DEFINE i == l.idx
             idx == Ones(i)
             last == ShiftLeft(Ones(1), i)
  <1>1. i \in Nat /\ i + 1 < 32
    BY FieldsOf
  <1> HIDE DEF i
  <1>2. last = {i}
    BY <1>1 DEF ShiftLeft, Ones
  <1>3. last \cup idx = Ones(i + 1)
    BY <1>1, <1>2 DEF Ones
  <1>4. Xor(Ones(32), Ones(i + 1)) = Field(i + 1, 31 - i)
    BY <1>1 DEF Xor, SymDiff, Ones, Field
  <1>5. Xor(Ones(32), Ones(i)) = Field(i, 32 - i)
    BY <1>1 DEF Xor, SymDiff, Ones, Field
  <1>6. Plus(Ones(i + 1), 0, 32) = {i + 1} /\ Plus(Ones(i), 0, 32) = {i}
    BY <1>1, PlusOnes
  <1>7. Ones(i) = Field(0, i)
    BY <1>1 DEF Ones, Field
  <1>8. QueueMasks(l) =
          [idx |-> idx, last |-> last,
           nextVersion |-> Xor(Ones(32), last \cup idx),
           nextVersionOne |-> Plus(last \cup idx, 0, 32),
           endVersion |-> Xor(Ones(32), idx),
           endVersionOne |-> Plus(idx, 0, 32)]
    BY DEF QueueMasks, INTBITS, i
  <1>9. QED
    BY <1>2, <1>3, <1>4, <1>5, <1>6, <1>7, <1>8 DEF i

\* Two fields, one above the other.
LEMMA Apart ==
    ASSUME NEW lo \in Nat, NEW n \in Nat, NEW hi \in Nat, NEW k \in Nat, lo + n <= hi
    PROVE  Field(lo, n) \cap Field(hi, k) = {}
  BY DEF Field

LEMMA Joined ==
    ASSUME NEW n \in Nat, NEW k \in Nat
    PROVE  Ones(n) \cup Field(n, k) = Ones(n + k)
  BY DEF Field, Ones

\* The masks that the files compute part the words: no bit is in two fields, and
\* none is in no field (REFCBITS, NODEBITS, NEXTBITS and the successor; the version
\* and the index of head and tail; those and the bit of the last Record of "next").
THEOREM MasksPart ==
    ASSUME NEW l \in Layouts
    PROVE  LET m == ReferenceMasks(l)
               q == QueueMasks(l)
           IN  /\ m.to \cup m.next \cup m.node \cup m.ref = Ones(l.bits)
               /\ m.to \cap m.next = {} /\ m.to \cap m.node = {} /\ m.to \cap m.ref = {}
               /\ m.next \cap m.node = {} /\ m.next \cap m.ref = {} /\ m.node \cap m.ref = {}
               /\ q.idx \cup q.last \cup q.nextVersion = Ones(INTBITS)
               /\ q.idx \cap q.last = {} /\ q.idx \cap q.nextVersion = {}
               /\ q.last \cap q.nextVersion = {}
               /\ q.idx \cup q.endVersion = Ones(INTBITS) /\ q.idx \cap q.endVersion = {}
  <1> DEFINE m == ReferenceMasks(l)
             q == QueueMasks(l)
             a == To(l)
             b == a + l.next
             c == b + l.node
             i == l.idx
  <1>1. /\ m.to = Field(0, a) /\ m.next = Field(a, l.next)
        /\ m.node = Field(b, l.node) /\ m.ref = Field(c, l.ref)
    BY ReferenceMasksAre
  <1>2. /\ q.idx = Field(0, i) /\ q.last = {i}
        /\ q.nextVersion = Field(i + 1, 31 - i) /\ q.endVersion = Field(i, 32 - i)
    BY QueueMasksAre
  <1>3. /\ a \in Nat /\ b \in Nat /\ c \in Nat /\ c + l.ref = l.bits
        /\ l.next \in Nat /\ l.node \in Nat /\ l.ref \in Nat
        /\ b = a + l.next /\ c = b + l.node
        /\ i \in Nat /\ i + 1 \in Nat /\ 31 - i \in Nat /\ 32 - i \in Nat
    BY FieldsOf DEF To
  <1> HIDE DEF m, q, a, b, c, i
  <1>4. /\ m.to \cap m.next = {} /\ m.next \cap m.node = {} /\ m.node \cap m.ref = {}
    <2>1. 0 + a <= a /\ a + l.next <= b /\ b + l.node <= c
      BY <1>3
    <2>2. Field(0, a) \cap Field(a, l.next) = {} /\ Field(a, l.next) \cap Field(b, l.node) = {}
      BY <1>3, <2>1, Apart
    <2>3. Field(b, l.node) \cap Field(c, l.ref) = {}
      BY <1>3, <2>1, Apart
    <2>4. QED
      BY <1>1, <2>2, <2>3
  <1>5. /\ m.to \cap m.node = {} /\ m.to \cap m.ref = {} /\ m.next \cap m.ref = {}
    <2>1. 0 + a <= b /\ 0 + a <= c /\ a + l.next <= c
      BY <1>3
    <2>2. Field(0, a) \cap Field(b, l.node) = {} /\ Field(0, a) \cap Field(c, l.ref) = {}
      BY <1>3, <2>1, Apart
    <2>3. Field(a, l.next) \cap Field(c, l.ref) = {}
      BY <1>3, <2>1, Apart
    <2>4. QED
      BY <1>1, <2>2, <2>3
  <1>6. m.to \cup m.next \cup m.node \cup m.ref = Ones(l.bits)
    <2>1. m.to = Ones(a)
      BY <1>1, <1>3 DEF Field, Ones
    <2>2. m.to \cup m.next = Ones(b)
      BY <1>1, <1>3, <2>1, Joined
    <2>3. m.to \cup m.next \cup m.node = Ones(c)
      BY <1>1, <1>3, <2>2, Joined
    <2>4. QED
      BY <1>1, <1>3, <2>3, Joined
  <1>7. {i} = Field(i, 1) /\ q.idx = Ones(i)
    <2>1. \A n \in Nat : {n} = Field(n, 1) /\ Field(0, n) = Ones(n)
      BY DEF Field, Ones
    <2>2. QED
      BY <1>2, <1>3, <2>1
  <1>8. q.idx \cap q.last = {} /\ q.idx \cap q.nextVersion = {} /\ q.idx \cap q.endVersion = {}
    <2>1. Field(0, i) \cap Field(i, 1) = {} /\ Field(0, i) \cap Field(i, 32 - i) = {}
      BY <1>3, Apart
    <2>2. Field(0, i) \cap Field(i + 1, 31 - i) = {}
      BY <1>3, Apart
    <2>3. QED
      BY <1>2, <1>7, <2>1, <2>2
  <1>9. q.last \cap q.nextVersion = {}
    <2>1. Field(i, 1) \cap Field(i + 1, 31 - i) = {}
      BY <1>3, Apart
    <2>2. QED
      BY <1>2, <1>7, <2>1
  <1>10. q.idx \cup q.endVersion = Ones(INTBITS)
    <2>1. Ones(i) \cup Field(i, 32 - i) = Ones(i + (32 - i))
      BY <1>3, Joined
    <2>2. i + (32 - i) = INTBITS
      BY <1>3 DEF INTBITS
    <2>3. QED
      BY <1>2, <1>7, <2>1, <2>2
  <1>11. q.idx \cup q.last \cup q.nextVersion = Ones(INTBITS)
    <2>1. Ones(i) \cup Field(i, 1) = Ones(i + 1)
      BY <1>3, Joined
    <2>2. Ones(i + 1) \cup Field(i + 1, 31 - i) = Ones((i + 1) + (31 - i))
      BY <1>3, Joined
    <2>3. (i + 1) + (31 - i) = INTBITS
      BY <1>3 DEF INTBITS
    <2>4. QED
      BY <1>2, <1>7, <2>1, <2>2, <2>3
  <1>12. QED
    BY <1>4, <1>5, <1>6, <1>8, <1>9, <1>10, <1>11 DEF m, q

\* The masks of the file that runs.
LEMMA MasksAre ==
    ASSUME layout \in Layouts
    PROVE  M = ReferenceMasks(layout) /\ Q = QueueMasks(layout)
  BY DEF M, Q, Masks

\* Where the fields of a "nextRecord" lie.
LEMMA Parts ==
    ASSUME layout \in Layouts
    PROVE  LET a == To(layout)
               b == a + layout.next
               c == b + layout.node
           IN  /\ a \in Nat \ {0} /\ b \in Nat /\ c \in Nat /\ layout.bits \in Nat
               /\ b = a + layout.next /\ c = b + layout.node /\ c + layout.ref = layout.bits
               /\ layout.next \in Nat \ {0} /\ layout.node \in Nat \ {0} /\ layout.ref \in Nat \ {0}
               /\ M.to = Field(0, a) /\ M.next = Field(a, layout.next)
               /\ M.node = Field(b, layout.node) /\ M.ref = Field(c, layout.ref)
               /\ M.nextOne = {a} /\ M.nodeOne = {b} /\ M.refOne = {c}
               /\ M.nextTo = M.next \cup M.to
               /\ M.to \cap M.next = {} /\ M.to \cap M.node = {} /\ M.to \cap M.ref = {}
               /\ M.next \cap M.node = {} /\ M.next \cap M.ref = {} /\ M.node \cap M.ref = {}
               /\ M.to \cup M.next \cup M.node \cup M.ref = Ones(layout.bits)
  <1>1. M = ReferenceMasks(layout)
    BY MasksAre
  <1>2. To(layout) \in Nat \ {0}
    BY FieldsOf DEF To
  <1>3. QED
    BY <1>1, <1>2, FieldsOf, ReferenceMasksAre, MasksPart DEF To

\* Where those of the words of the free list lie.
LEMMA QueueParts ==
    ASSUME layout \in Layouts
    PROVE  LET i == layout.idx
           IN  /\ i \in Nat \ {0} /\ 31 - i \in Nat \ {0} /\ 32 - i \in Nat \ {0}
               /\ Q.idx = Field(0, i) /\ Q.last = {i}
               /\ Q.nextVersion = Field(i + 1, 31 - i) /\ Q.nextVersionOne = {i + 1}
               /\ Q.endVersion = Field(i, 32 - i) /\ Q.endVersionOne = {i}
               /\ Q.idx \cap Q.last = {} /\ Q.idx \cap Q.nextVersion = {}
               /\ Q.last \cap Q.nextVersion = {} /\ Q.idx \cap Q.endVersion = {}
               /\ Q.idx \cup Q.last \cup Q.nextVersion = Ones(INTBITS)
               /\ Q.idx \cup Q.endVersion = Ones(INTBITS)
  <1>1. Q = QueueMasks(layout)
    BY MasksAre
  <1>2. QED
    BY <1>1, FieldsOf, QueueMasksAre, MasksPart

-----------------------------------------------------------------------------
(* The helpers of the reference map, on any word.                          *)

Bits == layout.bits

LEMMA Low == \A b \in Nat : Min({b}) = b
  BY Intervals

\* What is added to a "nextRecord", and where.
LEMMA AddIs ==
    ASSUME layout \in Layouts, kind = "nextRecord"
    PROVE  /\ \A w : /\ Add(w, M.nextOne) = Plus(w, To(layout), Bits)
                     /\ Add(w, M.nodeOne) = Plus(w, To(layout) + layout.next, Bits)
                     /\ Add(w, M.refOne) = Plus(w, To(layout) + layout.next + layout.node, Bits)
                     /\ Sub(w, M.refOne) = Minus(w, To(layout) + layout.next + layout.node, Bits)
  BY Parts, Low DEF Add, Sub, Bits

\* The numbers in a word follow from the bits of its fields.
LEMMA SameFields ==
    ASSUME layout \in Layouts, NEW v, NEW w
    PROVE  /\ Value(v, M.ref) = Value(w, M.ref) <=> v \cap M.ref = w \cap M.ref
           /\ Value(v, M.node) = Value(w, M.node) <=> v \cap M.node = w \cap M.node
           /\ Value(v, M.next) = Value(w, M.next) <=> v \cap M.next = w \cap M.next
           /\ Value(w, M.ref) = 0 <=> w \cap M.ref = {}
           /\ w \cap M.ref = M.refOne => Value(w, M.ref) = 1
  <1> DEFINE a == To(layout)
             b == a + layout.next
             c == b + layout.node
  <1>1. /\ a \in Nat /\ b \in Nat /\ c \in Nat
        /\ layout.next \in Nat \ {0} /\ layout.node \in Nat \ {0} /\ layout.ref \in Nat \ {0}
        /\ M.next = Field(a, layout.next) /\ M.node = Field(b, layout.node)
        /\ M.ref = Field(c, layout.ref) /\ M.refOne = {c}
    BY Parts
  <1> HIDE DEF a, b, c
  <1>2. QED
    BY <1>1, ValueSame, ValueSmall

\* What one more, or one less, does to the field it is added to.
LEMMA AddValues ==
    ASSUME layout \in Layouts, kind = "nextRecord", NEW w
    PROVE  /\ Value(Add(w, M.refOne), M.ref) = (Value(w, M.ref) + 1) % TwoTo[layout.ref]
           /\ Value(Add(w, M.nodeOne), M.node) = (Value(w, M.node) + 1) % TwoTo[layout.node]
           /\ Value(Add(w, M.nextOne), M.next) = (Value(w, M.next) + 1) % TwoTo[layout.next]
  <1> DEFINE a == To(layout)
             b == a + layout.next
             c == b + layout.node
  <1>1. /\ a \in Nat /\ b \in Nat /\ c \in Nat /\ Bits \in Nat
        /\ layout.next \in Nat \ {0} /\ layout.node \in Nat \ {0} /\ layout.ref \in Nat \ {0}
        /\ M.next = Field(a, layout.next) /\ M.node = Field(b, layout.node)
        /\ M.ref = Field(c, layout.ref)
        /\ b = a + layout.next /\ c = b + layout.node /\ c + layout.ref = Bits
    BY Parts DEF Bits
  <1>2. /\ Add(w, M.nextOne) = Plus(w, a, Bits) /\ Add(w, M.nodeOne) = Plus(w, b, Bits)
        /\ Add(w, M.refOne) = Plus(w, c, Bits)
    BY AddIs
  <1> HIDE DEF a, b, c
  <1>3. a + layout.next <= Bits /\ b + layout.node <= Bits /\ c + layout.ref <= Bits
    BY <1>1
  <1>4. Value(Plus(w, c, Bits), Field(c, layout.ref))
          = (Value(w, Field(c, layout.ref)) + 1) % TwoTo[layout.ref]
    BY <1>1, <1>3, PlusValue
  <1>5. Value(Plus(w, b, Bits), Field(b, layout.node))
          = (Value(w, Field(b, layout.node)) + 1) % TwoTo[layout.node]
    BY <1>1, <1>3, PlusValue
  <1>6. Value(Plus(w, a, Bits), Field(a, layout.next))
          = (Value(w, Field(a, layout.next)) + 1) % TwoTo[layout.next]
    BY <1>1, <1>3, PlusValue
  <1>7. QED
    BY <1>1, <1>2, <1>4, <1>5, <1>6

\* REMOVE takes one off the counter and leaves the fields below it: they borrow
\* nothing.
LEMMA SubValues ==
    ASSUME layout \in Layouts, kind = "nextRecord", NEW w, w \subseteq Ones(Bits)
    PROVE  /\ Value(Sub(w, M.refOne), M.ref) = (Value(w, M.ref) - 1) % TwoTo[layout.ref]
           /\ Sub(w, M.refOne) \cap M.node = w \cap M.node
           /\ Sub(w, M.refOne) \cap M.next = w \cap M.next
           /\ Sub(w, M.refOne) \cap M.to = w \cap M.to
           /\ Sub(w, M.refOne) \subseteq Ones(Bits)
  <1> DEFINE a == To(layout)
             b == a + layout.next
             c == b + layout.node
  <1>1. /\ a \in Nat /\ b \in Nat /\ c \in Nat /\ Bits \in Nat
        /\ layout.next \in Nat \ {0} /\ layout.node \in Nat \ {0} /\ layout.ref \in Nat \ {0}
        /\ M.to = Field(0, a) /\ M.next = Field(a, layout.next) /\ M.node = Field(b, layout.node)
        /\ M.ref = Field(c, layout.ref)
        /\ b = a + layout.next /\ c = b + layout.node /\ c + layout.ref = Bits
    BY Parts DEF Bits
  <1>2. Sub(w, M.refOne) = Minus(w, c, Bits)
    BY AddIs
  <1> HIDE DEF a, b, c
  <1>3. c + layout.ref <= Bits /\ c < Bits
    BY <1>1
  <1>4. Value(Minus(w, c, Bits), Field(c, layout.ref))
          = (Value(w, Field(c, layout.ref)) - 1) % TwoTo[layout.ref]
    BY <1>1, <1>3, MinusValue
  <1>5. /\ \A x \in 0 .. c - 1 : x \in Minus(w, c, Bits) <=> x \in w
        /\ Minus(w, c, Bits) \subseteq Ones(Bits)
    BY <1>1, <1>3, MinusIs
  <1>6. M.to \subseteq 0 .. c - 1 /\ M.next \subseteq 0 .. c - 1 /\ M.node \subseteq 0 .. c - 1
    <2>1. \A lo, n \in Nat : lo + n <= c => Field(lo, n) \subseteq 0 .. c - 1
      BY <1>1 DEF Field
    <2>2. 0 + a <= c /\ a + layout.next <= c /\ b + layout.node <= c
      BY <1>1
    <2>3. Field(0, a) \subseteq 0 .. c - 1
      BY <1>1, <2>1, <2>2
    <2>4. Field(a, layout.next) \subseteq 0 .. c - 1 /\ Field(b, layout.node) \subseteq 0 .. c - 1
      BY <1>1, <2>1, <2>2
    <2>5. QED
      BY <1>1, <2>3, <2>4
  <1>7. QED
    BY <1>1, <1>2, <1>4, <1>5, <1>6

\* What the operators of ReferenceWords make of the fields r, n, x and t.
WordsOf(f, r, n, x, t, s) ==
    /\ Reference!NxtAddrV(f, s) =
         [ref |-> r, node |-> n, next |-> (x + 1) % TwoTo[layout.next], to |-> s]
    /\ Reference!PlusRecord(f) =
         [ref |-> (r + 1) % TwoTo[layout.ref], node |-> n, next |-> x, to |-> t]
    /\ Reference!MinusRecord(f) =
         [ref |-> (r - 1) % TwoTo[layout.ref], node |-> n, next |-> x, to |-> t]
    /\ Reference!NewNext(f, s) =
         [ref |-> 1, node |-> (n + 1) % TwoTo[layout.node], next |-> x, to |-> s]
    /\ Reference!CountedNext(f, s) =
         [ref |-> (r + 1) % TwoTo[layout.ref], node |-> (n + 1) % TwoTo[layout.node],
          next |-> x, to |-> s]

LEMMA WordsAre ==
    ASSUME NEW r, NEW n, NEW x, NEW t, NEW s
    PROVE  WordsOf([ref |-> r, node |-> n, next |-> x, to |-> t], r, n, x, t, s)
  <1> DEFINE f == [ref |-> r, node |-> n, next |-> x, to |-> t]
             g == [ref |-> 1, node |-> (n + 1) % TwoTo[layout.node], next |-> x, to |-> s]
  <1>1. /\ \A y : [f EXCEPT !.next = y] = [ref |-> r, node |-> n, next |-> y, to |-> t]
        /\ \A y : [f EXCEPT !.ref = y] = [ref |-> y, node |-> n, next |-> x, to |-> t]
        /\ f.ref = r /\ f.node = n /\ f.next = x
    OBVIOUS
  <1>2. Reference!PlusRecord(f) =
          [ref |-> (r + 1) % TwoTo[layout.ref], node |-> n, next |-> x, to |-> t]
    BY <1>1 DEF Reference!PlusRecord
  <1>3. Reference!MinusRecord(f) =
          [ref |-> (r - 1) % TwoTo[layout.ref], node |-> n, next |-> x, to |-> t]
    BY <1>1 DEF Reference!MinusRecord
  <1>4. Reference!NxtAddrV(f, s) =
          [ref |-> r, node |-> n, next |-> (x + 1) % TwoTo[layout.next], to |-> s]
    <2> DEFINE y == (x + 1) % TwoTo[layout.next]
               h == [ref |-> r, node |-> n, next |-> y, to |-> t]
    <2>1. Reference!NxtAddrV(f, s) = [f EXCEPT !.next = y, !.to = s]
      BY <1>1 DEF Reference!NxtAddrV
    <2> HIDE DEF y, f
    <2>2. [f EXCEPT !.next = y, !.to = s] = [[f EXCEPT !.next = y] EXCEPT !.to = s]
      OBVIOUS
    <2>3. [f EXCEPT !.next = y] = h
      BY <1>1 DEF f
    <2>4. [h EXCEPT !.to = s] = [ref |-> r, node |-> n, next |-> y, to |-> s]
      OBVIOUS
    <2>5. QED
      BY <2>1, <2>2, <2>3, <2>4 DEF y
  <1>5. Reference!NewNext(f, s) = g
    <2> DEFINE y == (n + 1) % TwoTo[layout.node]
               h == [ref |-> 1, node |-> n, next |-> x, to |-> t]
               k == [ref |-> 1, node |-> y, next |-> x, to |-> t]
    <2>1. Reference!NewNext(f, s) = [f EXCEPT !.ref = 1, !.node = y, !.to = s]
      BY <1>1 DEF Reference!NewNext
    <2>2. [f EXCEPT !.ref = 1] = h
      BY <1>1
    <2> HIDE DEF y, f, h
    <2>3. [f EXCEPT !.ref = 1, !.node = y, !.to = s]
            = [[[f EXCEPT !.ref = 1] EXCEPT !.node = y] EXCEPT !.to = s]
      OBVIOUS
    <2>4. [h EXCEPT !.node = y] = k
      BY DEF h
    <2>5. [k EXCEPT !.to = s] = [ref |-> 1, node |-> y, next |-> x, to |-> s]
      OBVIOUS
    <2>6. QED
      BY <2>1, <2>2, <2>3, <2>4, <2>5 DEF y
  <1>6. Reference!CountedNext(f, s) =
          [ref |-> (r + 1) % TwoTo[layout.ref], node |-> (n + 1) % TwoTo[layout.node],
           next |-> x, to |-> s]
    <2> DEFINE h == [ref |-> r, node |-> (n + 1) % TwoTo[layout.node], next |-> x, to |-> s]
    <2>1. [g EXCEPT !.ref = r] = h /\ h.ref = r
      OBVIOUS
    <2>2. Reference!CountedNext(f, s) = [h EXCEPT !.ref = (h.ref + 1) % TwoTo[layout.ref]]
      BY <1>1, <1>5, <2>1 DEF Reference!CountedNext, Reference!PlusRecord
    <2>3. QED
      BY <2>1, <2>2
  <1>7. QED
    BY <1>2, <1>3, <1>4, <1>5, <1>6 DEF WordsOf

LEMMA FieldWords ==
    ASSUME NEW w, NEW s
    PROVE  WordsOf(Fields(w), Value(w, M.ref), Value(w, M.node), Value(w, M.next), w \cap M.to, s)
  <1> DEFINE r == Value(w, M.ref)
             n == Value(w, M.node)
             x == Value(w, M.next)
             t == w \cap M.to
  <1>1. Fields(w) = [ref |-> r, node |-> n, next |-> x, to |-> t]
    BY DEF Fields
  <1> HIDE DEF r, n, x, t
  <1>2. WordsOf([ref |-> r, node |-> n, next |-> x, to |-> t], r, n, x, t, s)
    BY WordsAre
  <1>3. WordsOf(Fields(w), r, n, x, t, s)
    BY <1>1, <1>2
  <1>4. QED
    BY <1>3 DEF r, n, x, t

LEMMA NxtAddrVIs ==
    ASSUME layout \in Layouts, kind = "nextRecord", NEW w, NEW s, s \subseteq M.to
    PROVE  /\ Fields(nxtAddrV(w, s)) = Reference!NxtAddrV(Fields(w), s)
           /\ nxtAddrV(w, s) \subseteq Ones(Bits)
  <1> DEFINE v == nxtAddrV(w, s)
             x == Add(w, M.nextOne)
  <1>1. /\ v \cap M.ref = w \cap M.ref /\ v \cap M.node = w \cap M.node
        /\ v \cap M.next = x \cap M.next /\ v \cap M.to = s /\ v \subseteq Ones(Bits)
    BY Parts DEF nxtAddrV, Bits
  <1>2. Value(x, M.next) = (Value(w, M.next) + 1) % TwoTo[layout.next]
    BY AddValues
  <1> HIDE DEF v, x
  <1>3. /\ Value(v, M.ref) = Value(w, M.ref) /\ Value(v, M.node) = Value(w, M.node)
        /\ Value(v, M.next) = (Value(w, M.next) + 1) % TwoTo[layout.next]
    <2>1. Value(v, M.next) = Value(x, M.next)
      BY ZenonT(60), <1>1, SameFields
    <2>2. Value(v, M.ref) = Value(w, M.ref) /\ Value(v, M.node) = Value(w, M.node)
      BY <1>1, SameFields
    <2>3. QED
      BY <1>2, <2>1, <2>2
  <1>4. Fields(v) = Reference!NxtAddrV(Fields(w), s)
    <2>1. Fields(v) = [ref |-> Value(w, M.ref), node |-> Value(w, M.node),
                       next |-> (Value(w, M.next) + 1) % TwoTo[layout.next], to |-> s]
      BY <1>1, <1>3 DEF Fields
    <2>2. QED
      BY <2>1, FieldWords DEF WordsOf
  <1>5. QED
    BY <1>1, <1>4 DEF v

LEMMA PlusRecordIs ==
    ASSUME layout \in Layouts, kind = "nextRecord", NEW w
    PROVE  /\ Fields(plusRecord(w)) = Reference!PlusRecord(Fields(w))
           /\ plusRecord(w) \subseteq Ones(Bits)
  <1> DEFINE v == plusRecord(w)
             x == Add(w, M.refOne)
  <1>1. /\ v \cap M.ref = x \cap M.ref /\ v \cap M.node = w \cap M.node
        /\ v \cap M.next = w \cap M.next /\ v \cap M.to = w \cap M.to /\ v \subseteq Ones(Bits)
    BY Parts DEF plusRecord, Bits
  <1>2. Value(x, M.ref) = (Value(w, M.ref) + 1) % TwoTo[layout.ref]
    BY AddValues
  <1> HIDE DEF v, x
  <1>3. /\ Value(v, M.ref) = (Value(w, M.ref) + 1) % TwoTo[layout.ref]
        /\ Value(v, M.node) = Value(w, M.node) /\ Value(v, M.next) = Value(w, M.next)
    BY <1>1, <1>2, SameFields
  <1>4. Fields(v) = Reference!PlusRecord(Fields(w))
    <2>1. Fields(v) = [ref |-> (Value(w, M.ref) + 1) % TwoTo[layout.ref], node |-> Value(w, M.node),
                       next |-> Value(w, M.next), to |-> w \cap M.to]
      BY <1>1, <1>3 DEF Fields
    <2>2. QED
      BY <2>1, FieldWords DEF WordsOf
  <1>5. QED
    BY <1>1, <1>4 DEF v

LEMMA MinusRecordIs ==
    ASSUME layout \in Layouts, kind = "nextRecord", NEW w, w \subseteq Ones(Bits)
    PROVE  /\ Fields(minusRecord(w)) = Reference!MinusRecord(Fields(w))
           /\ minusRecord(w) \subseteq Ones(Bits)
  <1> DEFINE v == minusRecord(w)
  <1>1. /\ v \cap M.node = w \cap M.node /\ v \cap M.next = w \cap M.next
        /\ v \cap M.to = w \cap M.to /\ v \subseteq Ones(Bits)
        /\ Value(v, M.ref) = (Value(w, M.ref) - 1) % TwoTo[layout.ref]
    BY SubValues DEF minusRecord
  <1> HIDE DEF v
  <1>2. Value(v, M.node) = Value(w, M.node) /\ Value(v, M.next) = Value(w, M.next)
    BY <1>1, SameFields
  <1>3. Fields(v) = Reference!MinusRecord(Fields(w))
    <2>1. Fields(v) = [ref |-> (Value(w, M.ref) - 1) % TwoTo[layout.ref], node |-> Value(w, M.node),
                       next |-> Value(w, M.next), to |-> w \cap M.to]
      BY <1>1, <1>2 DEF Fields
    <2>2. QED
      BY <2>1, FieldWords DEF WordsOf
  <1>4. QED
    BY <1>1, <1>3 DEF v

LEMMA NewNextIs ==
    ASSUME layout \in Layouts, kind = "nextRecord", NEW w, NEW s, s \subseteq M.to
    PROVE  /\ Fields(newNext(w, s)) = IF layout.counter = "one" THEN Reference!NewNext(Fields(w), s)
                                      ELSE Reference!CountedNext(Fields(w), s)
           /\ newNext(w, s) \subseteq Ones(Bits)
  <1> DEFINE v == newNext(w, s)
             x == Add(w, M.refOne)
             y == Add(w, M.nodeOne)
  <1>1. M.refOne \subseteq M.ref
    <2>1. \A c \in Nat, n \in Nat \ {0} : {c} \subseteq Field(c, n)
      BY DEF Field
    <2>2. QED
      BY <2>1, Parts
  <1>2. /\ v \cap M.ref = IF layout.counter = "one" THEN M.refOne ELSE x \cap M.ref
        /\ v \cap M.node = y \cap M.node
        /\ v \cap M.next = w \cap M.next /\ v \cap M.to = s /\ v \subseteq Ones(Bits)
    BY <1>1, Parts DEF newNext, Bits
  <1>3. /\ Value(x, M.ref) = (Value(w, M.ref) + 1) % TwoTo[layout.ref]
        /\ Value(y, M.node) = (Value(w, M.node) + 1) % TwoTo[layout.node]
    BY AddValues
  <1>8. WordsOf(Fields(w), Value(w, M.ref), Value(w, M.node), Value(w, M.next), w \cap M.to, s)
    BY FieldWords
  <1> HIDE DEF v, x, y
  <1>4. /\ Value(v, M.node) = (Value(w, M.node) + 1) % TwoTo[layout.node]
        /\ Value(v, M.next) = Value(w, M.next)
    BY <1>2, <1>3, SameFields
  <1>5. CASE layout.counter = "one"
    <2>1. Value(v, M.ref) = 1
      BY <1>2, <1>5, SameFields
    <2>2. Fields(v) = Reference!NewNext(Fields(w), s)
      <3>1. Fields(v) = [ref |-> 1, node |-> (Value(w, M.node) + 1) % TwoTo[layout.node],
                         next |-> Value(w, M.next), to |-> s]
        BY <1>2, <1>4, <2>1 DEF Fields
      <3>2. QED
        BY <1>8, <3>1 DEF WordsOf
    <2>3. QED
      BY <1>2, <1>5, <2>2 DEF v
  <1>6. CASE layout.counter # "one"
    <2>1. Value(v, M.ref) = (Value(w, M.ref) + 1) % TwoTo[layout.ref]
      BY <1>2, <1>3, <1>6, SameFields
    <2>2. Fields(v) = Reference!CountedNext(Fields(w), s)
      <3>1. Fields(v) = [ref |-> (Value(w, M.ref) + 1) % TwoTo[layout.ref],
                         node |-> (Value(w, M.node) + 1) % TwoTo[layout.node],
                         next |-> Value(w, M.next), to |-> s]
        BY <1>2, <1>4, <2>1 DEF Fields
      <3>2. QED
        BY <1>8, <3>1 DEF WordsOf
    <2>3. QED
      BY <1>2, <1>6, <2>2 DEF v
  <1>7. QED
    BY <1>5, <1>6

-----------------------------------------------------------------------------
(* The helpers of the free list, on any word.                              *)

LEMMA SameQueueFields ==
    ASSUME layout \in Layouts, NEW v, NEW w
    PROVE  /\ Value(v, Q.endVersion) = Value(w, Q.endVersion)
                <=> v \cap Q.endVersion = w \cap Q.endVersion
           /\ Value(v, Q.nextVersion) = Value(w, Q.nextVersion)
                <=> v \cap Q.nextVersion = w \cap Q.nextVersion
  <1> DEFINE i == layout.idx
             j == i + 1
             k == 31 - i
             n == 32 - i
  <1>1. /\ i \in Nat /\ j \in Nat /\ k \in Nat \ {0} /\ n \in Nat \ {0}
        /\ Q.nextVersion = Field(j, k) /\ Q.endVersion = Field(i, n)
    BY QueueParts
  <1> HIDE DEF i, j, k, n
  <1>2. QED
    BY <1>1, ValueSame

\* The version grows by one: neither the index nor the bit of the last Record
\* below it is touched, and nothing is carried beyond the word.
LEMMA VersionValues ==
    ASSUME layout \in Layouts, kind # "nextRecord", NEW w
    PROVE  /\ Value(Add(w, Q.endVersionOne), Q.endVersion)
                = (Value(w, Q.endVersion) + 1) % TwoTo[INTBITS - layout.idx]
           /\ Value(Add(w, Q.nextVersionOne), Q.nextVersion)
                = (Value(w, Q.nextVersion) + 1) % TwoTo[INTBITS - 1 - layout.idx]
  <1> DEFINE i == layout.idx
             j == i + 1
             k == 31 - i
             n == 32 - i
  <1>1. /\ i \in Nat /\ j \in Nat /\ k \in Nat \ {0} /\ n \in Nat \ {0}
        /\ i + n <= 32 /\ j + k <= 32
        /\ Q.nextVersion = Field(j, k) /\ Q.endVersion = Field(i, n)
        /\ Q.nextVersionOne = {j} /\ Q.endVersionOne = {i}
        /\ INTBITS - i = n /\ INTBITS - 1 - i = k
    BY QueueParts DEF INTBITS
  <1> HIDE DEF j, k, n
  <1>2. Add(w, {i}) = Plus(w, i, 32) /\ Add(w, {j}) = Plus(w, j, 32)
    BY <1>1, Low DEF Add, INTBITS
  <1> HIDE DEF i
  <1>3. Value(Plus(w, i, 32), Field(i, n)) = (Value(w, Field(i, n)) + 1) % TwoTo[n]
    BY <1>1, PlusValue
  <1>4. Value(Plus(w, j, 32), Field(j, k)) = (Value(w, Field(j, k)) + 1) % TwoTo[k]
    BY <1>1, PlusValue
  <1>5. QED
    BY <1>1, <1>2, <1>3, <1>4 DEF i

LEMMA MovedIs ==
    ASSUME layout \in Layouts, kind # "nextRecord", NEW w, NEW s
    PROVE  /\ EndFields(moved(w, s)) = Queue!Moved(EndFields(w), s \cap Q.idx)
           /\ moved(w, s) \subseteq Ones(INTBITS)
  <1> DEFINE v == moved(w, s)
             u == w \cap Q.endVersion
             x == Add(u, Q.endVersionOne)
             m == TwoTo[INTBITS - layout.idx]
  <1>1. v = (x \cap Q.endVersion) \cup (s \cap Q.idx)
    BY DEF moved
  <1>2. Value(x, Q.endVersion) = (Value(u, Q.endVersion) + 1) % m
    BY VersionValues
  <1>3. Value(u, Q.endVersion) = Value(w, Q.endVersion)
    BY SameQueueFields
  <1> HIDE DEF v, u, x, m
  <1>4. /\ v \cap Q.endVersion = x \cap Q.endVersion /\ v \cap Q.idx = s \cap Q.idx
        /\ v \subseteq Ones(INTBITS)
    BY <1>1, QueueParts
  <1>5. Value(v, Q.endVersion) = (Value(w, Q.endVersion) + 1) % m
    <2>1. Value(v, Q.endVersion) = Value(x, Q.endVersion)
      BY <1>4, SameQueueFields
    <2>2. QED
      BY <1>2, <1>3, <2>1
  <1>6. EndFields(v) = Queue!Moved(EndFields(w), s \cap Q.idx)
    BY <1>4, <1>5 DEF EndFields, Queue!Moved, m
  <1>7. QED
    BY <1>4, <1>6 DEF v

LEMMA LinkedIs ==
    ASSUME layout \in Layouts, kind # "nextRecord", NEW w, NEW s
    PROVE  /\ NextFields(linked(w, s)) = Queue!Linked(NextFields(w), s \cap Q.idx)
           /\ linked(w, s) \subseteq Ones(INTBITS)
  <1> DEFINE v == linked(w, s)
             u == w \cap Q.nextVersion
             x == Add(u, Q.nextVersionOne)
             m == TwoTo[INTBITS - 1 - layout.idx]
  <1>1. v = (x \cap Q.nextVersion) \cup (s \cap Q.idx)
    BY DEF linked
  <1>2. Value(x, Q.nextVersion) = (Value(u, Q.nextVersion) + 1) % m
    BY VersionValues
  <1>3. Value(u, Q.nextVersion) = Value(w, Q.nextVersion)
    BY SameQueueFields
  <1> HIDE DEF v, u, x, m
  <1>4. /\ v \cap Q.nextVersion = x \cap Q.nextVersion /\ v \cap Q.idx = s \cap Q.idx
        /\ v \cap Q.last = {} /\ v \subseteq Ones(INTBITS)
    BY <1>1, QueueParts
  <1>5. Value(v, Q.nextVersion) = (Value(w, Q.nextVersion) + 1) % m
    <2>1. Value(v, Q.nextVersion) = Value(x, Q.nextVersion)
      BY <1>4, SameQueueFields
    <2>2. QED
      BY <1>2, <1>3, <2>1
  <1>6. (Q.last \subseteq v) = FALSE
    <2>1. Q.last # {}
      BY QueueParts
    <2>2. QED
      BY <1>4, <2>1
  <1>7. NextFields(v) = Queue!Linked(NextFields(w), s \cap Q.idx)
    BY <1>4, <1>5, <1>6 DEF NextFields, Queue!Linked, m
  <1>8. QED
    BY <1>4, <1>7 DEF v

LEMMA MarkedIs ==
    ASSUME layout \in Layouts, kind # "nextRecord", NEW w, w \subseteq Ones(INTBITS)
    PROVE  /\ NextFields(marked(w)) = Queue!Marked(NextFields(w))
           /\ Value(marked(w), Q.nextVersion) = Value(w, Q.nextVersion)
           /\ marked(w) \subseteq Ones(INTBITS)
  <1> DEFINE v == marked(w)
  <1>1. v = w \cup Q.last
    BY DEF marked
  <1> HIDE DEF v
  <1>2. /\ v \cap Q.nextVersion = w \cap Q.nextVersion /\ v \cap Q.idx = w \cap Q.idx
        /\ v \subseteq Ones(INTBITS) /\ Q.last \subseteq v
    BY <1>1, QueueParts
  <1>3. Value(v, Q.nextVersion) = Value(w, Q.nextVersion)
    BY <1>2, SameQueueFields
  <1>4. (Q.last \subseteq v) = TRUE
    BY <1>2
  <1>5. NextFields(v) = Queue!Marked(NextFields(w))
    <2>1. \A p, q, i, b : [[version |-> p, last |-> q, idx |-> i] EXCEPT !.last = b]
                             = [version |-> p, last |-> b, idx |-> i]
      OBVIOUS
    <2>2. Queue!Marked(NextFields(w))
            = [version |-> Value(w, Q.nextVersion), last |-> TRUE, idx |-> w \cap Q.idx]
      <3> DEFINE p == Value(w, Q.nextVersion)
                 q == Q.last \subseteq w
                 i == w \cap Q.idx
                 b == TRUE
      <3>1. NextFields(w) = [version |-> p, last |-> q, idx |-> i]
        BY DEF NextFields
      <3>2. Queue!Marked(NextFields(w)) = [NextFields(w) EXCEPT !.last = b]
        BY DEF Queue!Marked
      <3> HIDE DEF p, q, i, b
      <3>3. [[version |-> p, last |-> q, idx |-> i] EXCEPT !.last = b]
              = [version |-> p, last |-> b, idx |-> i]
        BY <2>1
      <3>4. Queue!Marked(NextFields(w)) = [version |-> p, last |-> b, idx |-> i]
        BY <3>1, <3>2, <3>3
      <3>5. QED
        BY <3>4, Zenon DEF p, i, b
    <2>3. NextFields(v)
            = [version |-> Value(w, Q.nextVersion), last |-> TRUE, idx |-> w \cap Q.idx]
      BY <1>2, <1>3, <1>4 DEF NextFields
    <2>4. QED
      BY <2>2, <2>3
  <1>6. QED
    BY <1>2, <1>3, <1>5 DEF v

-----------------------------------------------------------------------------
(* Every behaviour.                                                        *)

Width == IF kind = "nextRecord" THEN Bits ELSE INTBITS

TypeInv ==
    /\ layout \in Layouts
    /\ kind \in {"nextRecord", "next", "end"}
    /\ word \subseteq Ones(Width) /\ kept \subseteq Ones(Width)
    /\ changes \in 0 .. MaxSteps /\ moves \in 0 .. changes

LEMMA EdgesAre ==
    ASSUME NEW lo \in Nat, NEW n \in Nat \ {0}, NEW e \in Edges(Field(lo, n))
    PROVE  e \subseteq Field(lo, n)
  <1>1. Min(Field(lo, n)) = lo
    BY Intervals DEF Field
  <1>2. {lo} \subseteq Field(lo, n)
    BY DEF Field
  <1>3. QED
    BY <1>1, <1>2 DEF Edges

LEMMA SelvesAre == ASSUME layout \in Layouts, NEW s \in Selves PROVE s \subseteq M.to
  <1> DEFINE a == To(layout)
  <1>1. M.to = Field(0, a) /\ a \in Nat \ {0}
    BY Parts
  <1> HIDE DEF a
  <1>2. Min(M.to) = 0
    <2>1. Min(0 .. 0 + a - 1) = 0
      BY <1>1, Intervals
    <2>2. QED
      BY <1>1, <2>1 DEF Field
  <1>3. {0} \subseteq M.to
    BY <1>1 DEF Field
  <1>4. QED
    BY <1>2, <1>3 DEF Selves

LEMMA WordsFit == ASSUME layout \in Layouts, NEW w \in Words PROVE w \subseteq Ones(Width)
  <1>1. CASE kind = "nextRecord"
    <2>1. PICK r \in Edges(M.ref), n \in Edges(M.node), x \in Edges(M.next), s \in Selves :
            w = r \cup n \cup x \cup s
      BY <1>1 DEF Words
    <2>2. r \subseteq M.ref /\ n \subseteq M.node /\ x \subseteq M.next
      BY <2>1, Parts, EdgesAre
    <2>3. s \subseteq M.to
      BY SelvesAre
    <2>4. QED
      BY <1>1, <2>1, <2>2, <2>3, Parts DEF Width, Bits
  <1>2. CASE kind = "next"
    <2>1. PICK v \in Edges(Q.nextVersion), e \in SUBSET Q.last, i \in Edges(Q.idx) :
            w = v \cup e \cup i
      BY <1>2 DEF Words
    <2>2. v \subseteq Q.nextVersion /\ i \subseteq Q.idx
      BY <2>1, QueueParts, EdgesAre
    <2>3. QED
      BY <1>2, <2>1, <2>2, QueueParts DEF Width
  <1>3. CASE kind # "nextRecord" /\ kind # "next"
    <2>1. PICK v \in Edges(Q.endVersion), i \in Edges(Q.idx) : w = v \cup i
      BY <1>3 DEF Words
    <2>2. v \subseteq Q.endVersion /\ i \subseteq Q.idx
      BY <2>1, QueueParts, EdgesAre
    <2>3. QED
      BY <1>3, <2>1, <2>2, QueueParts DEF Width
  <1>4. QED
    BY <1>1, <1>2, <1>3

\* What a step changes, with what each helper is known to do.
LEMMA TypeHolds == Spec => []TypeInv
  <1>0. MaxSteps \in Nat
    BY LayoutAssumption
  <1>1. Init => TypeInv
    BY <1>0, WordsFit DEF Init, TypeInv
  <1>2. TypeInv /\ [Next]_vars => TypeInv'
    <2> SUFFICES ASSUME TypeInv, [Next]_vars PROVE TypeInv'
      OBVIOUS
    <2>0. layout \in Layouts /\ changes \in 0 .. MaxSteps /\ moves \in 0 .. changes
      BY DEF TypeInv
    <2>1. ASSUME NEW w, w \subseteq Ones(Width), changes < MaxSteps, Changes(w),
                 moves' = moves \/ moves' = moves + 1
          PROVE  TypeInv'
      <3>1. Width' = Width /\ layout' = layout /\ kind' = kind /\ kept' = kept /\ word' = w
        BY <2>1 DEF Changes, Width, Bits
      <3>2. changes' \in 0 .. MaxSteps /\ moves' \in 0 .. changes'
        BY <1>0, <2>0, <2>1 DEF Changes
      <3>3. QED
        BY <2>1, <3>1, <3>2 DEF TypeInv
    <2>2. CASE Count /\ changes < MaxSteps
      <3>1. kind = "nextRecord" /\ word \subseteq Ones(Bits) /\ Width = Bits /\ moves' = moves
        BY <2>2 DEF Count, TypeInv, Width
      <3>2. plusRecord(word) \subseteq Ones(Width) /\ minusRecord(word) \subseteq Ones(Width)
        BY <2>0, <3>1, PlusRecordIs, MinusRecordIs
      <3>3. QED
        BY <2>1, <2>2, <3>1, <3>2 DEF Count
    <2>3. CASE Link /\ changes < MaxSteps
      <3>1. kind = "nextRecord" /\ Width = Bits /\ moves' = moves + 1
        BY <2>3 DEF Link, Width
      <3>2. PICK s \in Selves : Changes(nxtAddrV(word, s)) \/ Changes(newNext(word, s))
        BY <2>3 DEF Link
      <3>3. nxtAddrV(word, s) \subseteq Ones(Width) /\ newNext(word, s) \subseteq Ones(Width)
        BY <2>0, <3>1, SelvesAre, NxtAddrVIs, NewNextIs
      <3>4. QED
        BY <2>1, <2>3, <3>1, <3>2, <3>3
    <2>4. CASE Mark /\ changes < MaxSteps
      <3>1. kind # "nextRecord" /\ Width = INTBITS /\ word \subseteq Ones(INTBITS) /\ moves' = moves
        BY <2>4 DEF Mark, Width, TypeInv
      <3>2. marked(word) \subseteq Ones(Width)
        BY <2>0, <3>1, MarkedIs
      <3>3. QED
        BY <2>1, <2>4, <3>1, <3>2 DEF Mark
    <2>5. CASE LinkLast /\ changes < MaxSteps
      <3>1. kind # "nextRecord" /\ Width = INTBITS /\ moves' = moves + 1
        BY <2>5 DEF LinkLast, Width
      <3>2. PICK s \in Selves : Changes(linked(word, s))
        BY <2>5 DEF LinkLast
      <3>3. linked(word, s) \subseteq Ones(Width)
        BY <2>0, <3>1, LinkedIs
      <3>4. QED
        BY <2>1, <2>5, <3>1, <3>2, <3>3
    <2>6. CASE MoveEnd /\ changes < MaxSteps
      <3>1. kind # "nextRecord" /\ Width = INTBITS /\ moves' = moves + 1
        BY <2>6 DEF MoveEnd, Width
      <3>2. PICK n \in Nexts : Changes(moved(word, n))
        BY <2>6 DEF MoveEnd
      <3>3. moved(word, n) \subseteq Ones(Width)
        BY <2>0, <3>1, MovedIs
      <3>4. QED
        BY <2>1, <2>6, <3>1, <3>2, <3>3
    <2>7. CASE UNCHANGED vars
      BY <2>7 DEF vars, TypeInv, Width, Bits
    <2>8. QED
      BY <2>2, <2>3, <2>4, <2>5, <2>6, <2>7 DEF Next
  <1>3. QED
    BY <1>1, <1>2, PTL DEF Spec

\* Whatever the widths, and however full the fields: no helper carries out of the
\* field it changes, and the masked comparisons tell what the map wants to know.
THEOREM HelpersChangeFields == Spec => []ReferenceFields
  <1>1. TypeInv => ReferenceFields
    <2> SUFFICES ASSUME TypeInv, kind = "nextRecord"
                 PROVE  LET f == Fields(word)
                            k == Fields(kept)
                        IN  /\ \A s \in Selves :
                                /\ Fields(nxtAddrV(word, s)) = Reference!NxtAddrV(f, s)
                                /\ Fields(newNext(word, s)) =
                                     IF layout.counter = "one" THEN Reference!NewNext(f, s)
                                     ELSE Reference!CountedNext(f, s)
                            /\ Fields(plusRecord(word)) = Reference!PlusRecord(f)
                            /\ Fields(minusRecord(word)) = Reference!MinusRecord(f)
                            /\ (word \cap M.ref = {}) <=> Reference!Deleted(f)
                            /\ (kept \cap M.node # word \cap M.node \/ word \cap M.ref = {})
                                 <=> Reference!Stale(k, f)
                            /\ (kept \cap M.nextTo # word \cap M.nextTo) <=> Reference!NextChanged(k, f)
      BY DEF ReferenceFields
    <2> DEFINE f == Fields(word)
               k == Fields(kept)
    <2>1. layout \in Layouts /\ word \subseteq Ones(Bits)
      BY DEF TypeInv, Width
    <2>2. \A s \in Selves :
            /\ Fields(nxtAddrV(word, s)) = Reference!NxtAddrV(f, s)
            /\ Fields(newNext(word, s)) = IF layout.counter = "one" THEN Reference!NewNext(f, s)
                                          ELSE Reference!CountedNext(f, s)
      BY <2>1, SelvesAre, NxtAddrVIs, NewNextIs
    <2>3. /\ Fields(plusRecord(word)) = Reference!PlusRecord(f)
          /\ Fields(minusRecord(word)) = Reference!MinusRecord(f)
      BY <2>1, PlusRecordIs, MinusRecordIs
    <2>4. /\ f.ref = Value(word, M.ref) /\ f.node = Value(word, M.node)
          /\ f.next = Value(word, M.next) /\ f.to = word \cap M.to
          /\ k.ref = Value(kept, M.ref) /\ k.node = Value(kept, M.node)
          /\ k.next = Value(kept, M.next) /\ k.to = kept \cap M.to
      BY DEF Fields
    <2> HIDE DEF f, k
    <2>5. (word \cap M.ref = {}) <=> Reference!Deleted(f)
      BY <2>1, <2>4, SameFields DEF Reference!Deleted
    <2>6. (kept \cap M.node # word \cap M.node \/ word \cap M.ref = {}) <=> Reference!Stale(k, f)
      BY <2>1, <2>4, <2>5, SameFields DEF Reference!Stale
    <2>7. (kept \cap M.nextTo # word \cap M.nextTo) <=> Reference!NextChanged(k, f)
      <3>1. kept \cap M.nextTo = word \cap M.nextTo
              <=> kept \cap M.next = word \cap M.next /\ kept \cap M.to = word \cap M.to
        BY <2>1, Parts
      <3>2. QED
        BY <2>1, <2>4, <3>1, SameFields DEF Reference!NextChanged
    <2>8. QED
      BY <2>2, <2>3, <2>5, <2>6, <2>7 DEF f, k
  <1>2. QED
    BY <1>1, TypeHolds, PTL

\* The same for head, tail and next of the free list.
THEOREM QueueHelpersChangeFields == Spec => []QueueFields
  <1>1. TypeInv => QueueFields
    BY MovedIs, LinkedIs, MarkedIs DEF TypeInv, QueueFields, Width
  <1>2. QED
    BY <1>1, TypeHolds, PTL

-----------------------------------------------------------------------------
(* The versions.                                                           *)

\* A number below m that was v and has grown by x since, round m at most once.
Advanced(v, w, x, m) ==
    v \in 0 .. m - 1 /\ w \in 0 .. m - 1 /\ (w = v + x \/ w = v + x - m)

LEMMA OneMore ==
    ASSUME NEW m \in Nat, NEW v, NEW w, NEW x \in Nat, x + 1 < m, Advanced(v, w, x, m)
    PROVE  Advanced(v, (w + 1) % m, x + 1, m)
  <1>1. CASE w + 1 < m
    <2>1. (w + 1) % m = w + 1
      BY <1>1 DEF Advanced
    <2>2. QED
      BY <1>1, <2>1 DEF Advanced
  <1>2. CASE w + 1 = m
    <2>1. (w + 1) % m = 0
      BY <1>2 DEF Advanced
    <2>2. QED
      BY <1>2, <2>1 DEF Advanced
  <1>3. QED
    BY <1>1, <1>2 DEF Advanced

NextMod == TwoTo[layout.next]
NodeMod == TwoTo[layout.node]
EndMod == TwoTo[INTBITS - layout.idx]
LinkMod == TwoTo[INTBITS - 1 - layout.idx]

\* The changes behind the copy fit the versions of every file.
VersionsFit ==
    \A l \in Layouts : /\ MaxSteps < TwoTo[l.next] /\ MaxSteps < TwoTo[l.node]
                       /\ MaxSteps < TwoTo[INTBITS - 1 - l.idx]

\* Every change that must not be missed has moved one of the versions on.
VersionInv ==
    /\ kind = "nextRecord" => \E x \in 0 .. moves, y \in 0 .. moves :
        /\ x + y = moves
        /\ Advanced(Value(kept, M.next), Value(word, M.next), x, NextMod)
        /\ Advanced(Value(kept, M.node), Value(word, M.node), y, NodeMod)
    /\ kind = "next" =>
        Advanced(Value(kept, Q.nextVersion), Value(word, Q.nextVersion), moves, LinkMod)
    /\ kind = "end" =>
        Advanced(Value(kept, Q.endVersion), Value(word, Q.endVersion), moves, EndMod)

LEMMA ValueRanges ==
    ASSUME layout \in Layouts, NEW w
    PROVE  /\ Value(w, M.next) \in 0 .. NextMod - 1 /\ Value(w, M.node) \in 0 .. NodeMod - 1
           /\ Value(w, Q.nextVersion) \in 0 .. LinkMod - 1 /\ Value(w, Q.endVersion) \in 0 .. EndMod - 1
           /\ NextMod \in Nat /\ NodeMod \in Nat /\ LinkMod \in Nat /\ EndMod \in Nat
           /\ LinkMod <= EndMod
  <1>1. Value(w, M.next) \in 0 .. NextMod - 1 /\ Value(w, M.node) \in 0 .. NodeMod - 1
    <2> DEFINE a == To(layout)
               b == a + layout.next
    <2>1. /\ a \in Nat /\ b \in Nat /\ layout.next \in Nat \ {0} /\ layout.node \in Nat \ {0}
          /\ M.next = Field(a, layout.next) /\ M.node = Field(b, layout.node)
      BY Parts
    <2> HIDE DEF a, b
    <2>2. QED
      BY <2>1, ValueIs DEF NextMod, NodeMod
  <1> DEFINE i == layout.idx
             j == i + 1
             k == 31 - i
             n == 32 - i
  <1>2. /\ i \in Nat /\ j \in Nat /\ k \in Nat \ {0} /\ n \in Nat \ {0} /\ n = k + 1
        /\ Q.nextVersion = Field(j, k) /\ Q.endVersion = Field(i, n)
        /\ INTBITS - i = n /\ INTBITS - 1 - i = k
    BY QueueParts DEF INTBITS
  <1>3. LinkMod = TwoTo[k] /\ EndMod = TwoTo[n]
    BY <1>2 DEF LinkMod, EndMod
  <1>4. layout.next \in Nat /\ layout.node \in Nat
    BY FieldsOf
  <1> HIDE DEF i, j, k, n
  <1>5. Value(w, Q.nextVersion) \in 0 .. LinkMod - 1 /\ Value(w, Q.endVersion) \in 0 .. EndMod - 1
    BY <1>2, <1>3, ValueIs
  <1>6. NextMod \in Nat /\ NodeMod \in Nat /\ LinkMod \in Nat /\ EndMod \in Nat
    BY <1>2, <1>3, <1>4, TwoToIs DEF NextMod, NodeMod
  <1>7. LinkMod <= EndMod
    <2>1. TwoTo[n] = 2 * TwoTo[k] /\ TwoTo[k] \in Nat
      BY <1>2, TwoToIs
    <2>2. QED
      BY <1>3, <2>1
  <1>8. QED
    BY <1>1, <1>5, <1>6, <1>7

\* The versions of a word, whatever a helper of the reference map does to it.
LEMMA VersionsMove ==
    ASSUME layout \in Layouts, kind = "nextRecord", NEW w, NEW s, s \subseteq M.to,
           w \subseteq Ones(Bits)
    PROVE  /\ Value(plusRecord(w), M.next) = Value(w, M.next)
           /\ Value(plusRecord(w), M.node) = Value(w, M.node)
           /\ Value(minusRecord(w), M.next) = Value(w, M.next)
           /\ Value(minusRecord(w), M.node) = Value(w, M.node)
           /\ Value(nxtAddrV(w, s), M.next) = (Value(w, M.next) + 1) % NextMod
           /\ Value(nxtAddrV(w, s), M.node) = Value(w, M.node)
           /\ Value(newNext(w, s), M.next) = Value(w, M.next)
           /\ Value(newNext(w, s), M.node) = (Value(w, M.node) + 1) % NodeMod
  <1>1. \A v : Fields(v).next = Value(v, M.next) /\ Fields(v).node = Value(v, M.node)
    BY DEF Fields
  <1>2. WordsOf(Fields(w), Value(w, M.ref), Value(w, M.node), Value(w, M.next), w \cap M.to, s)
    BY FieldWords
  <1>3. /\ Fields(plusRecord(w)).next = Value(w, M.next)
        /\ Fields(plusRecord(w)).node = Value(w, M.node)
    BY <1>2, PlusRecordIs DEF WordsOf
  <1>4. /\ Fields(minusRecord(w)).next = Value(w, M.next)
        /\ Fields(minusRecord(w)).node = Value(w, M.node)
    BY <1>2, MinusRecordIs DEF WordsOf
  <1>5. /\ Fields(nxtAddrV(w, s)).next = (Value(w, M.next) + 1) % NextMod
        /\ Fields(nxtAddrV(w, s)).node = Value(w, M.node)
    BY <1>2, NxtAddrVIs DEF WordsOf, NextMod
  <1>6. /\ Fields(newNext(w, s)).next = Value(w, M.next)
        /\ Fields(newNext(w, s)).node = (Value(w, M.node) + 1) % NodeMod
    BY <1>2, NewNextIs DEF WordsOf, NodeMod
  <1>7. QED
    BY <1>1, <1>3, <1>4, <1>5, <1>6

\* The versions of the words of the free list.
LEMMA QueueVersionsMove ==
    ASSUME layout \in Layouts, kind # "nextRecord", NEW w, NEW s, w \subseteq Ones(INTBITS)
    PROVE  /\ Value(marked(w), Q.nextVersion) = Value(w, Q.nextVersion)
           /\ Value(linked(w, s), Q.nextVersion) = (Value(w, Q.nextVersion) + 1) % LinkMod
           /\ Value(moved(w, s), Q.endVersion) = (Value(w, Q.endVersion) + 1) % EndMod
  <1>1. \A v : /\ NextFields(v).version = Value(v, Q.nextVersion)
               /\ EndFields(v).version = Value(v, Q.endVersion)
    BY DEF NextFields, EndFields
  <1>2. Value(marked(w), Q.nextVersion) = Value(w, Q.nextVersion)
    BY MarkedIs
  <1>3. NextFields(linked(w, s)).version = (NextFields(w).version + 1) % LinkMod
    BY LinkedIs DEF Queue!Linked, LinkMod
  <1>4. EndFields(moved(w, s)).version = (EndFields(w).version + 1) % EndMod
    BY MovedIs DEF Queue!Moved, EndMod
  <1>5. QED
    BY <1>1, <1>2, <1>3, <1>4

\* A thread that finds the bits it has read finds an untouched word, as long as
\* fewer changes lie between than a version can count.
THEOREM SameBitsSameWord ==
    ASSUME VersionsFit
    PROVE  Spec => []Fresh
  <1>0. MaxSteps \in Nat
    BY LayoutAssumption
  <1>1. Init => VersionInv
    <2> SUFFICES ASSUME Init PROVE VersionInv
      OBVIOUS
    <2>1. layout \in Layouts /\ kept = word /\ moves = 0
      BY DEF Init
    <2>2. \A m, v : v \in 0 .. m - 1 /\ m \in Nat => Advanced(v, v, 0, m)
      BY DEF Advanced
    <2>3. 0 \in 0 .. moves /\ 0 + 0 = moves
      BY <2>1
    <2>4. QED
      BY <2>1, <2>2, <2>3, ValueRanges DEF VersionInv
  <1>2. TypeInv /\ VersionInv /\ [Next]_vars => VersionInv'
    <2> SUFFICES ASSUME TypeInv, VersionInv, [Next]_vars PROVE VersionInv'
      OBVIOUS
    <2>0. /\ layout \in Layouts /\ changes \in 0 .. MaxSteps /\ moves \in 0 .. changes
          /\ NextMod \in Nat /\ NodeMod \in Nat /\ LinkMod \in Nat /\ EndMod \in Nat
          /\ (changes < MaxSteps => moves + 1 < NextMod /\ moves + 1 < NodeMod
                                      /\ moves + 1 < LinkMod /\ moves + 1 < EndMod)
      <3>1. /\ layout \in Layouts /\ changes \in 0 .. MaxSteps /\ moves \in 0 .. changes
        BY DEF TypeInv
      <3>2. /\ NextMod \in Nat /\ NodeMod \in Nat /\ LinkMod \in Nat /\ EndMod \in Nat
            /\ LinkMod <= EndMod
        BY <3>1, ValueRanges
      <3>3. MaxSteps < NextMod /\ MaxSteps < NodeMod /\ MaxSteps < LinkMod
        BY <3>1 DEF VersionsFit, NextMod, NodeMod, LinkMod
      <3>4. QED
        BY <1>0, <3>1, <3>2, <3>3
    <2>1. ASSUME NEW w, Changes(w)
          PROVE  /\ word' = w /\ kept' = kept /\ kind' = kind /\ M' = M /\ Q' = Q
                 /\ NextMod' = NextMod /\ NodeMod' = NodeMod /\ LinkMod' = LinkMod /\ EndMod' = EndMod
      BY <2>1 DEF Changes, M, Q, NextMod, NodeMod, LinkMod, EndMod
    <2>2. ASSUME kind = "nextRecord"
          PROVE  \E x \in 0 .. moves, y \in 0 .. moves :
                    /\ x + y = moves
                    /\ Advanced(Value(kept, M.next), Value(word, M.next), x, NextMod)
                    /\ Advanced(Value(kept, M.node), Value(word, M.node), y, NodeMod)
      BY <2>2 DEF VersionInv
    <2>3. CASE Count /\ changes < MaxSteps
      <3>1. kind = "nextRecord" /\ word \subseteq Ones(Bits) /\ moves' = moves
        BY <2>3 DEF Count, TypeInv, Width
      <3>2. PICK w : Changes(w) /\ (w = plusRecord(word) \/ w = minusRecord(word))
        BY <2>3 DEF Count
      <3>3. Value(w, M.next) = Value(word, M.next) /\ Value(w, M.node) = Value(word, M.node)
        <4>1. {} \subseteq M.to
          OBVIOUS
        <4>2. QED
          BY <2>0, <3>1, <3>2, <4>1, VersionsMove
      <3>4. /\ word' = w /\ kept' = kept /\ kind' = kind /\ M' = M /\ Q' = Q
            /\ NextMod' = NextMod /\ NodeMod' = NodeMod
        BY <2>1, <3>2
      <3>5. QED
        BY <2>2, <3>1, <3>3, <3>4 DEF VersionInv
    <2>4. CASE Link /\ changes < MaxSteps
      <3>1. kind = "nextRecord" /\ word \subseteq Ones(Bits) /\ moves' = moves + 1
        BY <2>4 DEF Link, TypeInv, Width
      <3>0. PICK s \in Selves : Changes(nxtAddrV(word, s)) \/ Changes(newNext(word, s))
        BY <2>4 DEF Link
      <3>2. PICK w : Changes(w) /\ (w = nxtAddrV(word, s) \/ w = newNext(word, s))
        BY <3>0
      <3>3. PICK x \in 0 .. moves, y \in 0 .. moves :
              /\ x + y = moves
              /\ Advanced(Value(kept, M.next), Value(word, M.next), x, NextMod)
              /\ Advanced(Value(kept, M.node), Value(word, M.node), y, NodeMod)
        BY <2>2, <3>1
      <3>4. /\ word' = w /\ kept' = kept /\ kind' = kind /\ M' = M /\ Q' = Q
            /\ NextMod' = NextMod /\ NodeMod' = NodeMod
        BY <2>1, <3>2
      <3>5. s \subseteq M.to /\ x \in Nat /\ y \in Nat /\ x + 1 < NextMod /\ y + 1 < NodeMod
        BY <2>0, <2>4, <3>3, SelvesAre
      <3>6. CASE w = nxtAddrV(word, s)
        <4>1. /\ Value(w, M.next) = (Value(word, M.next) + 1) % NextMod
              /\ Value(w, M.node) = Value(word, M.node)
          BY <2>0, <3>1, <3>5, <3>6, VersionsMove
        <4>2. Advanced(Value(kept, M.next), Value(w, M.next), x + 1, NextMod)
          BY <2>0, <3>3, <3>5, <4>1, OneMore
        <4>3. x + 1 \in 0 .. moves' /\ y \in 0 .. moves' /\ (x + 1) + y = moves'
          BY <2>0, <3>1, <3>3
        <4>4. QED
          BY <3>1, <3>3, <3>4, <4>1, <4>2, <4>3 DEF VersionInv
      <3>7. CASE w = newNext(word, s)
        <4>1. /\ Value(w, M.next) = Value(word, M.next)
              /\ Value(w, M.node) = (Value(word, M.node) + 1) % NodeMod
          BY <2>0, <3>1, <3>5, <3>7, VersionsMove
        <4>2. Advanced(Value(kept, M.node), Value(w, M.node), y + 1, NodeMod)
          BY <2>0, <3>3, <3>5, <4>1, OneMore
        <4>3. x \in 0 .. moves' /\ y + 1 \in 0 .. moves' /\ x + (y + 1) = moves'
          BY <2>0, <3>1, <3>3
        <4>4. QED
          BY <3>1, <3>3, <3>4, <4>1, <4>2, <4>3 DEF VersionInv
      <3>8. QED
        BY <3>2, <3>6, <3>7
    <2>5. CASE Mark /\ changes < MaxSteps
      <3>1. kind = "next" /\ word \subseteq Ones(INTBITS) /\ moves' = moves /\ Changes(marked(word))
        BY <2>5 DEF Mark, TypeInv, Width
      <3>2. Value(marked(word), Q.nextVersion) = Value(word, Q.nextVersion)
        BY <2>0, <3>1, QueueVersionsMove
      <3>3. QED
        BY <2>1, <3>1, <3>2 DEF VersionInv
    <2>6. CASE LinkLast /\ changes < MaxSteps
      <3>1. kind = "next" /\ word \subseteq Ones(INTBITS) /\ moves' = moves + 1
        BY <2>6 DEF LinkLast, TypeInv, Width
      <3>2. PICK s \in Selves : Changes(linked(word, s))
        BY <2>6 DEF LinkLast
      <3>3. Value(linked(word, s), Q.nextVersion) = (Value(word, Q.nextVersion) + 1) % LinkMod
        BY <2>0, <3>1, QueueVersionsMove
      <3>4. Advanced(Value(kept, Q.nextVersion), Value(linked(word, s), Q.nextVersion), moves + 1, LinkMod)
        BY <2>0, <2>6, <3>1, <3>3, OneMore DEF VersionInv
      <3>5. QED
        BY <2>1, <3>1, <3>2, <3>4 DEF VersionInv
    <2>7. CASE MoveEnd /\ changes < MaxSteps
      <3>1. kind = "end" /\ word \subseteq Ones(INTBITS) /\ moves' = moves + 1
        BY <2>7 DEF MoveEnd, TypeInv, Width
      <3>2. PICK n \in Nexts : Changes(moved(word, n))
        BY <2>7 DEF MoveEnd
      <3>3. Value(moved(word, n), Q.endVersion) = (Value(word, Q.endVersion) + 1) % EndMod
        BY <2>0, <3>1, QueueVersionsMove
      <3>4. Advanced(Value(kept, Q.endVersion), Value(moved(word, n), Q.endVersion), moves + 1, EndMod)
        BY <2>0, <2>7, <3>1, <3>3, OneMore DEF VersionInv
      <3>5. QED
        BY <2>1, <3>1, <3>2, <3>4 DEF VersionInv
    <2>8. CASE UNCHANGED vars
      BY <2>8 DEF vars, VersionInv, M, Q, NextMod, NodeMod, LinkMod, EndMod
    <2>9. QED
      BY <2>3, <2>4, <2>5, <2>6, <2>7, <2>8 DEF Next
  <1>3. TypeInv /\ VersionInv => Fresh
    <2> SUFFICES ASSUME TypeInv, VersionInv, moves > 0, word = kept PROVE FALSE
      BY DEF Fresh
    <2>0. \A m \in Nat : \A v, x : x \in Nat /\ x < m /\ Advanced(v, v, x, m) => x = 0
      BY DEF Advanced
    <2>1. /\ layout \in Layouts /\ moves \in Nat /\ moves <= MaxSteps
          /\ kind \in {"nextRecord", "next", "end"}
      BY <1>0 DEF TypeInv
    <2>2. /\ NextMod \in Nat /\ NodeMod \in Nat /\ LinkMod \in Nat /\ EndMod \in Nat
          /\ LinkMod <= EndMod
      BY <2>1, ValueRanges
    <2>3. MaxSteps < NextMod /\ MaxSteps < NodeMod /\ MaxSteps < LinkMod
      BY <2>1 DEF VersionsFit, NextMod, NodeMod, LinkMod
    <2>4. moves < LinkMod /\ moves < EndMod /\ \A x \in 0 .. moves : x \in Nat /\ x < NextMod /\ x < NodeMod
      BY <1>0, <2>1, <2>2, <2>3
    <2>5. CASE kind = "nextRecord"
      <3>1. PICK x \in 0 .. moves, y \in 0 .. moves :
              /\ x + y = moves
              /\ Advanced(Value(kept, M.next), Value(word, M.next), x, NextMod)
              /\ Advanced(Value(kept, M.node), Value(word, M.node), y, NodeMod)
        BY <2>5 DEF VersionInv
      <3>2. x = 0 /\ y = 0
        BY <2>0, <2>2, <2>4, <3>1
      <3>3. QED
        BY <2>1, <3>1, <3>2
    <2>6. CASE kind = "next"
      BY <2>0, <2>1, <2>2, <2>4, <2>6 DEF VersionInv
    <2>7. CASE kind = "end"
      BY <2>0, <2>1, <2>2, <2>4, <2>7 DEF VersionInv
    <2>8. QED
      BY <2>1, <2>5, <2>6, <2>7
  <1>4. QED
    BY <1>1, <1>2, <1>3, TypeHolds, PTL DEF Spec

=============================================================================
