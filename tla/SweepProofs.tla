---------------------------- MODULE SweepProofs -----------------------------
(***************************************************************************)
(* Proofs about Sweep, for any keys, masters, buckets, limits and chunks;  *)
(* that a scan comes to its end is left to TLC.                            *)
(***************************************************************************)
EXTENDS Sweep, TLAPS, SequenceTheorems, FiniteSetTheorems, WellFoundedInduction

------------------------------------------------------------------------------
(* Induction over the numbers up to n and over what a loop makes of a sequence *)

\* What holds of 0 and goes from each number to the next holds of all up to n.
LEMMA UpTo ==
  ASSUME NEW n \in Nat, NEW S, 0 \in S, \A i \in 0 .. n - 1 : i \in S => i + 1 \in S
  PROVE  \A i \in 0 .. n : i \in S
<1> DEFINE T == {i \in 0 .. n : i \notin S}
<1> SUFFICES ASSUME T # {} PROVE FALSE
  OBVIOUS
<1>1. T \subseteq Nat
  OBVIOUS
<1>2. \E m \in T : \A y \in T : <<y, m>> \notin OpToRel(<, Nat)
  <2> HIDE DEF T
  <2> QED BY <1>1, NatLessThanWellFounded, WFMin
<1>3. \A x, y \in Nat : y < x => <<y, x>> \in OpToRel(<, Nat)
  BY Zenon DEF OpToRel
<1>4. PICK m \in T : \A y \in T : ~(y < m)
  <2> HIDE DEF T
  <2> QED BY <1>1, <1>2, <1>3, Zenon
<1>5. m # 0 /\ m - 1 \in 0 .. n - 1 /\ m - 1 < m
  BY <1>4
<1>6. m - 1 \in S
  BY <1>4, <1>5
<1> QED BY <1>4, <1>5, <1>6

IsLoop(h, base, f, p) == h[0] = base /\ \A i \in 1 .. Len(p) : h[i] = f[<<h[i - 1], p[i]>>]

\* A loop over the sequence p that starts with base and makes a new value of each element.
LEMMA LoopExists ==
  ASSUME NEW A, NEW K, NEW base \in A, NEW f \in [A \X K -> A], NEW p \in Seq(K)
  PROVE  \E h \in [0 .. Len(p) -> A] : IsLoop(h, base, f, p)
<1> DEFINE Upto(n, h) == h[0] = base /\ \A i \in 1 .. n : h[i] = f[<<h[i - 1], p[i]>>]
           S == {n \in Nat : \E h \in [0 .. n -> A] : Upto(n, h)}
<1>1. Len(p) \in Nat /\ \A i \in 1 .. Len(p) : p[i] \in K
  BY LenProperties
<1>2. 0 \in S
  <2>1. [i \in 0 .. 0 |-> base] \in [0 .. 0 -> A] /\ Upto(0, [i \in 0 .. 0 |-> base])
    OBVIOUS
  <2> QED BY <2>1
<1>3. ASSUME NEW n \in 0 .. Len(p) - 1, n \in S
      PROVE  n + 1 \in S
  <2>1. PICK h \in [0 .. n -> A] : Upto(n, h)
    BY <1>3
  <2> DEFINE g == [i \in 0 .. n + 1 |-> IF i <= n THEN h[i] ELSE f[<<h[n], p[n + 1]>>]]
  <2>2. h[n] \in A /\ p[n + 1] \in K
    BY <1>1
  <2>3. f[<<h[n], p[n + 1]>>] \in A
    BY <2>2
  <2>4. g \in [0 .. n + 1 -> A]
    BY <2>3
  <2>5. Upto(n + 1, g)
    <3>1. g[0] = base
      BY <2>1
    <3>2. ASSUME NEW i \in 1 .. n + 1
          PROVE  g[i] = f[<<g[i - 1], p[i]>>]
      <4>1. CASE i <= n
        BY <2>1, <4>1
      <4>2. CASE i = n + 1
        <5>1. n \in Nat /\ i \in 0 .. n + 1 /\ i - 1 = n /\ n \in 0 .. n + 1 /\ ~(i <= n)
          BY <1>1, <4>2
        <5>2. g[i] = f[<<h[n], p[n + 1]>>] /\ g[n] = h[n]
          BY <5>1
        <5> QED BY <4>2, <5>1, <5>2
      <4> QED BY <4>1, <4>2
    <3> QED BY <3>1, <3>2
  <2> HIDE DEF Upto, g
  <2> QED BY <2>4, <2>5
<1> HIDE DEF S
<1>4. \A i \in 0 .. Len(p) : i \in S
  BY <1>1, <1>2, <1>3, UpTo
<1>5. Len(p) \in S
  BY <1>1, <1>4
<1> QED BY <1>5 DEF S, IsLoop

LEMMA AppendSet ==
  ASSUME NEW K, NEW r \in Seq(K), NEW k \in K
  PROVE  Append(r, k) \in Seq(K) /\ ToSet(Append(r, k)) = ToSet(r) \cup {k}
<1>1. /\ Append(r, k) \in Seq(K) /\ Len(Append(r, k)) = Len(r) + 1 /\ Len(r) \in Nat
      /\ \A i \in 1 .. Len(r) : Append(r, k)[i] = r[i]
      /\ Append(r, k)[Len(r) + 1] = k
      /\ DOMAIN r = 1 .. Len(r)
  BY AppendProperties, LenProperties
<1>2. DOMAIN Append(r, k) = 1 .. Len(r) + 1
  BY <1>1, LenProperties
<1>3. ToSet(Append(r, k)) \subseteq ToSet(r) \cup {k}
  BY <1>1, <1>2 DEF ToSet
<1>4. ToSet(r) \cup {k} \subseteq ToSet(Append(r, k))
  <2>1. \A i \in 1 .. Len(r) : i \in 1 .. Len(r) + 1
    BY <1>1
  <2>2. Len(r) + 1 \in 1 .. Len(r) + 1
    BY <1>1
  <2> QED BY <1>1, <1>2, <2>1, <2>2 DEF ToSet
<1> QED BY <1>1, <1>3, <1>4

LEMMA AppendNew ==
  ASSUME NEW K, NEW r \in Seq(K), NEW k \in K, NEW new, new = Append(r, k),
         IsInjective(r), k \notin ToSet(r)
  PROVE  IsInjective(new)
<1>1. /\ Append(r, k) \in Seq(K) /\ Len(Append(r, k)) = Len(r) + 1 /\ Len(r) \in Nat
      /\ \A i \in 1 .. Len(r) : Append(r, k)[i] = r[i]
      /\ Append(r, k)[Len(r) + 1] = k
      /\ DOMAIN r = 1 .. Len(r)
  BY AppendProperties, LenProperties
<1>2. DOMAIN new = 1 .. Len(r) + 1
  BY <1>1, LenProperties
<1>3. \A i \in 1 .. Len(r) : new[i] = r[i] /\ r[i] # k
  BY <1>1 DEF ToSet
<1>4. \A i, j \in 1 .. Len(r) : r[i] = r[j] => i = j
  BY <1>1 DEF IsInjective
<1>5. new[Len(r) + 1] = k
  BY <1>1
<1>6. ASSUME NEW i \in DOMAIN new, NEW j \in DOMAIN new, new[i] = new[j]
      PROVE  i = j
  BY <1>1, <1>2, <1>3, <1>4, <1>5, <1>6
<1> QED BY <1>6 DEF IsInjective

\* The keys of a page that are in a set: a sequence of just these.
LEMMA PickedProperties ==
  ASSUME NEW p \in Seq(Keys), NEW S
  PROVE  /\ Picked(p, S) \in Seq(Keys) /\ ToSet(Picked(p, S)) = ToSet(p) \cap S
         /\ IsInjective(p) => IsInjective(Picked(p, S))
<1> DEFINE A == Seq(Keys)
           step(s, k) == IF k \in S THEN Append(s, k) ELSE s
           f == [x \in A \X Keys |-> step(x[1], x[2])]
           none == << >>
           Is(h) == h = [i \in 0 .. Len(p) |-> IF i = 0 THEN none ELSE step(h[i - 1], p[i])]
           h == CHOOSE x : Is(x)
<1>1. Len(p) \in Nat /\ \A i \in 1 .. Len(p) : p[i] \in Keys
  BY LenProperties
<1>2. \A a \in A, k \in Keys :
        /\ step(a, k) \in A
        /\ ToSet(step(a, k)) = ToSet(a) \cup ({k} \cap S)
  <2>1. ASSUME NEW a \in A, NEW k \in Keys
        PROVE  step(a, k) \in A /\ ToSet(step(a, k)) = ToSet(a) \cup ({k} \cap S)
    <3>1. Append(a, k) \in Seq(Keys) /\ ToSet(Append(a, k)) = ToSet(a) \cup {k}
      BY AppendSet
    <3>2. CASE k \in S
      <4>1. step(a, k) = Append(a, k)
        BY <3>2
      <4>2. {k} \cap S = {k}
        BY <3>2
      <4> HIDE DEF step
      <4> QED BY <3>1, <4>1, <4>2
    <3>3. CASE k \notin S
      <4>1. step(a, k) = a
        BY <3>3
      <4>2. {k} \cap S = {}
        BY <3>3
      <4> HIDE DEF step
      <4> QED BY <4>1, <4>2
    <3> QED BY <3>2, <3>3
  <2> HIDE DEF step, A
  <2> QED BY <2>1
<1>3. Picked(p, S) = h[Len(p)]
  BY Zenon DEF Picked
<1>4. none \in A /\ ToSet(none) = {}
  BY DEF ToSet
<1> HIDE DEF step
<1>5. f \in [A \X Keys -> A] /\ \A a \in A, k \in Keys : f[<<a, k>>] = step(a, k)
  <2> HIDE DEF A
  <2> QED BY <1>2
<1>6. \E x \in [0 .. Len(p) -> A] :
        x[0] = none /\ \A i \in 1 .. Len(p) : x[i] = f[<<x[i - 1], p[i]>>]
  <2> HIDE DEF f, A, none
  <2>1. p \in Seq(Keys) /\ none \in A /\ f \in [A \X Keys -> A]
    BY <1>4, <1>5
  <2>2. \E x \in [0 .. Len(p) -> A] : IsLoop(x, none, f, p)
    BY <2>1, LoopExists, Zenon
  <2> QED BY <2>2 DEF IsLoop
<1> HIDE DEF A, f, none
<1>7. PICK x \in [0 .. Len(p) -> A] :
        x[0] = none /\ \A i \in 1 .. Len(p) : x[i] = step(x[i - 1], p[i])
  <2>1. \A x \in [0 .. Len(p) -> A] : \A i \in 1 .. Len(p) : x[i - 1] \in A /\ p[i] \in Keys
    BY <1>1
  <2> QED BY <1>5, <1>6, <2>1
<1>8. Is(x)
  <2>1. x = [i \in 0 .. Len(p) |-> x[i]]
    OBVIOUS
  <2>2. \A i \in 0 .. Len(p) : x[i] = IF i = 0 THEN none ELSE step(x[i - 1], p[i])
    BY <1>1, <1>7
  <2> QED BY <2>1, <2>2
<1>9. Is(h)
  <2> HIDE DEF Is
  <2> QED BY <1>8
<1> HIDE DEF h
<1>10. h[0] = none /\ \A i \in 1 .. Len(p) : h[i] = step(h[i - 1], p[i])
  <2>1. h[0] = none
    BY <1>1, <1>9
  <2>2. ASSUME NEW i \in 1 .. Len(p)
        PROVE  h[i] = step(h[i - 1], p[i])
    BY <1>1, <1>9
  <2> QED BY <2>1, <2>2
<1> HIDE DEF Is
<1> DEFINE Upto(i) == {p[j] : j \in 1 .. i}
           Good == {i \in 0 .. Len(p) : /\ h[i] \in A /\ ToSet(h[i]) = Upto(i) \cap S
                                        /\ IsInjective(p) => IsInjective(h[i])}
<1>11. 0 \in Good
  <2>1. Upto(0) = {}
    OBVIOUS
  <2>2. IsInjective(none)
    BY DEF IsInjective, none
  <2> HIDE DEF Upto
  <2> QED BY <1>1, <1>4, <1>10, <2>1, <2>2
<1>12. ASSUME NEW i \in 0 .. Len(p) - 1, i \in Good
       PROVE  i + 1 \in Good
  <2>1. h[i + 1] = step(h[i], p[i + 1]) /\ p[i + 1] \in Keys /\ h[i] \in A
    <3>1. i + 1 \in 1 .. Len(p) /\ (i + 1) - 1 = i
      BY <1>1
    <3> QED BY <1>1, <1>10, <1>12, <3>1
  <2>2. Upto(i + 1) = Upto(i) \cup {p[i + 1]}
    BY <1>1
  <2>3. h[i + 1] \in A /\ ToSet(h[i + 1]) = ToSet(h[i]) \cup ({p[i + 1]} \cap S)
    BY <1>2, <2>1
  <2>4. ToSet(h[i + 1]) = Upto(i + 1) \cap S
    <3> HIDE DEF Upto
    <3> QED BY <1>12, <2>2, <2>3
  <2>5. i + 1 \in 0 .. Len(p)
    BY <1>1
  <2>6. ASSUME IsInjective(p) PROVE IsInjective(h[i + 1])
    <3>1. p[i + 1] \notin Upto(i)
      BY <1>1, <2>6, LenProperties DEF IsInjective
    <3>2. ToSet(h[i]) = Upto(i) \cap S /\ IsInjective(h[i]) /\ h[i] \in Seq(Keys)
      BY <1>12, <2>1, <2>6 DEF A
    <3>3. p[i + 1] \notin ToSet(h[i])
      BY <3>1, <3>2
    <3>4. h[i + 1] = IF p[i + 1] \in S THEN Append(h[i], p[i + 1]) ELSE h[i]
      BY <2>1 DEF step
    <3> QED BY <2>1, <3>2, <3>3, <3>4, AppendNew
  <2> QED BY <2>3, <2>4, <2>5, <2>6
<1>13. \A i \in 0 .. Len(p) : i \in Good
  <2> HIDE DEF Good
  <2> QED BY <1>1, <1>11, <1>12, UpTo
<1>14. Upto(Len(p)) = ToSet(p)
  BY LenProperties DEF ToSet
<1>15. Len(p) \in Good
  <2> HIDE DEF Good
  <2> QED BY <1>1, <1>13
<1> HIDE DEF Upto
<1> QED BY <1>3, <1>14, <1>15 DEF A

LEMMA MaxOfTwo ==
  ASSUME NEW a \in Int, NEW b \in Int
  PROVE  Max({a, b}) = IF a >= b THEN a ELSE b
<1> DEFINE m == IF a >= b THEN a ELSE b
<1>1. m \in {a, b} /\ \A y \in {a, b} : m >= y
  OBVIOUS
<1>2. \A x \in {a, b} : (\A y \in {a, b} : x >= y) => x = m
  OBVIOUS
<1> QED BY <1>1, <1>2 DEF Max

LEMMA MinOfTwo ==
  ASSUME NEW a \in Int, NEW b \in Int
  PROVE  Min({a, b}) = IF a <= b THEN a ELSE b
<1> DEFINE m == IF a <= b THEN a ELSE b
<1>1. m \in {a, b} /\ \A y \in {a, b} : m <= y
  OBVIOUS
<1>2. \A x \in {a, b} : (\A y \in {a, b} : x <= y) => x = m
  OBVIOUS
<1> QED BY <1>1, <1>2 DEF Min

\* A sequence that has each key of a set once.
LEMMA SeqsOf ==
  ASSUME NEW S, S \subseteq Keys, NEW p \in SetToSeqs(S)
  PROVE  /\ p \in Seq(Keys) /\ Len(p) = Cardinality(S) /\ Len(p) \in Nat /\ ToSet(p) = S
         /\ IsInjective(p)
<1> DEFINE n == Cardinality(S)
<1>1. IsFiniteSet(S) /\ n \in Nat
  BY FS_Subset, FS_CardinalityType, SweepAssumption
<1>2. p \in [1 .. n -> S] /\ \A i, j \in 1 .. n : i # j => p[i] # p[j]
  BY DEF SetToSeqs
<1> HIDE DEF n
<1>3. p \in Seq(S) /\ p \in Seq(Keys) /\ Len(p) = n /\ DOMAIN p = 1 .. n
  BY <1>1, <1>2
<1>4. p \in Injection(1 .. n, S)
  BY <1>2 DEF Injection, IsInjective
<1>5. IsFiniteSet(1 .. n) /\ Cardinality(1 .. n) = n
  BY <1>1, FS_Interval
<1>6. p \in Surjection(1 .. n, S)
  BY <1>1, <1>4, <1>5, FS_Injection DEF n
<1>7. ToSet(p) = S
  BY <1>2, <1>3, <1>6 DEF Surjection, ToSet
<1>8. IsInjective(p)
  BY <1>2, <1>3 DEF IsInjective
<1> QED BY <1>1, <1>3, <1>7, <1>8 DEF n

LEMMA KeysInKeys == \A m, b : KeysIn(m, b) \subseteq Keys
BY DEF KeysIn, Present

\* A page has the keys of the bucket, and at most one more, of an earlier bucket.
LEMMA PageProperties ==
  ASSUME NEW m \in Masters, pos[m] \in Nat, repeats \in 0 .. MaxRepeats, NEW p \in Pages(m)
  PROVE  /\ p \in Seq(Keys)
         /\ KeysIn(m, pos[m]) \subseteq ToSet(p)
         /\ \A k \in ToSet(p) : k \in Present(at) /\ Matching(k)
         /\ repeats + (Len(p) - Cardinality(KeysIn(m, pos[m]))) \in 0 .. MaxRepeats
         /\ repeats + (Len(p) - Cardinality(KeysIn(m, pos[m]))) = 0 =>
              IsInjective(p) /\ ToSet(p) = KeysIn(m, pos[m]) /\ repeats = 0
<1> DEFINE now == KeysIn(m, pos[m])
           again == UNION {KeysIn(m, b) : b \in 1 .. pos[m] - 1}
<1>1. now \subseteq Keys /\ again \subseteq Keys
  <2> QED BY KeysInKeys
<1>2. IsFiniteSet(now) /\ Cardinality(now) \in Nat
  BY <1>1, FS_Subset, FS_CardinalityType, SweepAssumption
<1>3. p \in SetToSeqs(now) \/ (repeats # MaxRepeats /\ \E k \in again : p \in SetToSeqs(now \cup {k}))
  BY DEF Pages
<1>4. \A k \in now \cup again : k \in Present(at) /\ Matching(k)
  <2>1. \A b : \A k \in KeysIn(m, b) : k \in Present(at) /\ Matching(k)
    BY DEF KeysIn
  <2>2. \A k \in again : \E b : k \in KeysIn(m, b)
    OBVIOUS
  <2>3. \A k \in now : k \in KeysIn(m, pos[m])
    OBVIOUS
  <2> HIDE DEF now, again
  <2> QED BY <2>1, <2>2, <2>3
<1> HIDE DEF now, again
<1>5. ASSUME p \in SetToSeqs(now)
      PROVE  /\ p \in Seq(Keys)
             /\ now \subseteq ToSet(p) /\ ToSet(p) \subseteq again \cup now
             /\ repeats + (Len(p) - Cardinality(now)) \in 0 .. MaxRepeats
             /\ repeats + (Len(p) - Cardinality(now)) = 0 => IsInjective(p) /\ ToSet(p) = now /\ repeats = 0
  <2>1. p \in Seq(Keys) /\ Len(p) = Cardinality(now) /\ ToSet(p) = now /\ IsInjective(p)
    BY <1>1, <1>5, SeqsOf
  <2>2. repeats + (Len(p) - Cardinality(now)) = repeats
    BY <1>2, <2>1
  <2> QED BY <2>1, <2>2
<1>6. ASSUME repeats # MaxRepeats, NEW k \in again, p \in SetToSeqs(now \cup {k})
      PROVE  /\ p \in Seq(Keys)
             /\ now \subseteq ToSet(p) /\ ToSet(p) \subseteq again \cup now
             /\ repeats + (Len(p) - Cardinality(now)) \in 0 .. MaxRepeats
             /\ repeats + (Len(p) - Cardinality(now)) # 0
  <2>1. p \in Seq(Keys) /\ Len(p) = Cardinality(now \cup {k}) /\ ToSet(p) = now \cup {k}
    BY <1>1, <1>6, SeqsOf
  <2>2. k \notin now
    <3>1. PICK b \in 1 .. pos[m] - 1 : k \in KeysIn(m, b)
      BY <1>6 DEF again
    <3> QED BY <3>1 DEF KeysIn, now
  <2>3. Cardinality(now \cup {k}) = Cardinality(now) + 1
    BY <1>2, <2>2, FS_AddElement
  <2>4. repeats + (Len(p) - Cardinality(now)) = repeats + 1
    BY <1>2, <2>1, <2>3
  <2>5. repeats + 1 \in 0 .. MaxRepeats /\ repeats + 1 # 0
    BY <1>6, SweepAssumption
  <2> QED BY <1>6, <2>1, <2>4, <2>5
<1>7. /\ p \in Seq(Keys)
      /\ now \subseteq ToSet(p) /\ ToSet(p) \subseteq again \cup now
      /\ repeats + (Len(p) - Cardinality(now)) \in 0 .. MaxRepeats
      /\ repeats + (Len(p) - Cardinality(now)) = 0 => IsInjective(p) /\ ToSet(p) = now /\ repeats = 0
  BY <1>3, <1>5, <1>6
<1> QED BY <1>4, <1>7 DEF now

\* The first elements of a sequence.
LEMMA FirstOf ==
  ASSUME NEW h \in Seq(Keys), NEW n \in 0 .. Len(h)
  PROVE  LET s == SubSeq(h, 1, n)
         IN /\ s \in Seq(Keys) /\ Len(s) = n /\ ToSet(s) \subseteq ToSet(h)
            /\ IsInjective(h) => IsInjective(s)
<1> DEFINE s == SubSeq(h, 1, n)
<1>1. Len(h) \in Nat /\ \A i \in 1 .. n : i \in 1 .. Len(h)
  BY LenProperties
<1>2. s \in Seq(Keys) /\ Len(s) = n /\ \A i \in 1 .. n : s[i] = h[i]
  BY <1>1, SubSeqProperties
<1>3. DOMAIN s = 1 .. n /\ DOMAIN h = 1 .. Len(h)
  BY <1>2, LenProperties
<1> HIDE DEF s
<1>4. ToSet(s) \subseteq ToSet(h)
  BY <1>1, <1>2, <1>3 DEF ToSet
<1>5. IsInjective(h) => IsInjective(s)
  BY <1>1, <1>2, <1>3 DEF IsInjective
<1> QED BY <1>2, <1>4, <1>5 DEF s

LEMMA BothOf ==
  ASSUME NEW s \in Seq(Keys), NEW t \in Seq(Keys)
  PROVE  /\ s \o t \in Seq(Keys) /\ Len(s \o t) = Len(s) + Len(t) /\ ToSet(s \o t) = ToSet(s) \cup ToSet(t)
         /\ IsInjective(s) /\ IsInjective(t) /\ ToSet(s) \cap ToSet(t) = {} => IsInjective(s \o t)
<1>1. Len(s) \in Nat /\ Len(t) \in Nat /\ DOMAIN s = 1 .. Len(s) /\ DOMAIN t = 1 .. Len(t)
  BY LenProperties
<1>2. /\ s \o t \in Seq(Keys) /\ Len(s \o t) = Len(s) + Len(t)
      /\ \A i \in 1 .. Len(s) + Len(t) :
           (s \o t)[i] = IF i <= Len(s) THEN s[i] ELSE t[i - Len(s)]
  BY ConcatProperties
<1>3. DOMAIN (s \o t) = 1 .. Len(s) + Len(t)
  BY <1>2, LenProperties
<1> DEFINE u == s \o t
<1> HIDE DEF u
<1>4. ToSet(u) \subseteq ToSet(s) \cup ToSet(t)
  <2>1. ASSUME NEW i \in DOMAIN u
        PROVE  u[i] \in ToSet(s) \cup ToSet(t)
    <3>1. CASE i <= Len(s)
      BY <1>1, <1>2, <1>3, <2>1, <3>1 DEF ToSet, u
    <3>2. CASE i > Len(s)
      <4>1. i - Len(s) \in DOMAIN t /\ u[i] = t[i - Len(s)]
        BY <1>1, <1>2, <1>3, <2>1, <3>2 DEF u
      <4> QED BY <4>1 DEF ToSet
    <3> QED BY <1>1, <1>3, <2>1, <3>1, <3>2 DEF u
  <2> QED BY <2>1 DEF ToSet
<1>5. ToSet(s) \subseteq ToSet(u)
  <2>1. \A i \in DOMAIN s : i \in DOMAIN u /\ u[i] = s[i]
    BY <1>1, <1>2, <1>3 DEF u
  <2> QED BY <2>1 DEF ToSet
<1>6. ToSet(t) \subseteq ToSet(u)
  <2>1. \A i \in DOMAIN t : Len(s) + i \in DOMAIN u /\ u[Len(s) + i] = t[i]
    BY <1>1, <1>2, <1>3 DEF u
  <2> QED BY <2>1 DEF ToSet
<1>7. ASSUME IsInjective(s), IsInjective(t), ToSet(s) \cap ToSet(t) = {}
      PROVE  IsInjective(u)
  <2>1. \A i \in 1 .. Len(s), j \in 1 .. Len(t) : s[i] # t[j]
    BY <1>1, <1>7 DEF ToSet
  <2>2. /\ \A i, j \in 1 .. Len(s) : s[i] = s[j] => i = j
        /\ \A i, j \in 1 .. Len(t) : t[i] = t[j] => i = j
    BY <1>1, <1>7 DEF IsInjective
  <2>3. \A i \in DOMAIN u : \/ i \in 1 .. Len(s) /\ u[i] = s[i]
                            \/ i > Len(s) /\ i - Len(s) \in 1 .. Len(t) /\ u[i] = t[i - Len(s)]
    BY <1>1, <1>2, <1>3 DEF u
  <2>4. ASSUME NEW i \in DOMAIN u, NEW j \in DOMAIN u, u[i] = u[j] PROVE i = j
    <3>1. i \in Nat /\ j \in Nat
      BY <1>1, <1>3 DEF u
    <3>2. CASE i \in 1 .. Len(s) /\ j \in 1 .. Len(s)
      <4>1. u[i] = s[i] /\ u[j] = s[j]
        BY <1>1, <2>3, <3>2
      <4> QED BY <2>2, <2>4, <3>2, <4>1
    <3>3. CASE ~(i \in 1 .. Len(s)) /\ ~(j \in 1 .. Len(s))
      <4>1. i - Len(s) \in 1 .. Len(t) /\ u[i] = t[i - Len(s)] /\ j - Len(s) \in 1 .. Len(t) /\ u[j] = t[j - Len(s)]
        BY <2>3, <3>3
      <4>2. i - Len(s) = j - Len(s)
        BY <2>2, <2>4, <4>1
      <4> QED BY <1>1, <3>1, <4>2
    <3>4. CASE (i \in 1 .. Len(s)) # (j \in 1 .. Len(s))
      BY <1>1, <2>1, <2>3, <2>4, <3>1, <3>4
    <3> QED BY <3>2, <3>3, <3>4
  <2> QED BY <2>4 DEF IsInjective
<1> QED BY <1>2, <1>4, <1>5, <1>6, <1>7 DEF u

\* What a search keeps of the hits: all of them, unless the limit is reached.
LEMMA UpToLimitProperties ==
  ASSUME NEW h \in Seq(Keys), found \in Seq(Keys)
  PROVE  /\ UpToLimit(h) \in Seq(Keys)
         /\ ToSet(found) \subseteq ToSet(UpToLimit(h))
         /\ ToSet(UpToLimit(h)) \subseteq ToSet(found) \cup ToSet(h)
         /\ Len(found) < Limit =>
              /\ Len(UpToLimit(h)) <= Limit
              /\ Len(UpToLimit(h)) < Limit => ToSet(h) \subseteq ToSet(UpToLimit(h))
         /\ IsInjective(found) /\ IsInjective(h) /\ ToSet(found) \cap ToSet(h) = {} =>
              IsInjective(UpToLimit(h))
<1>1. Len(h) \in Nat /\ Len(found) \in Nat /\ Limit \in Nat /\ Limit > 0
  BY LenProperties, SweepAssumption
<1> DEFINE room == IF 1 >= Limit - Len(found) THEN 1 ELSE Limit - Len(found)
           n == IF Len(h) <= room THEN Len(h) ELSE room
           s == SubSeq(h, 1, n)
<1>2. Max({1, Limit - Len(found)}) = room
  BY <1>1, MaxOfTwo
<1>3. room \in Nat
  BY <1>1
<1>4. Min({Len(h), room}) = n
  BY <1>1, <1>3, MinOfTwo
<1>5. n \in 0 .. Len(h) /\ n <= room
  BY <1>1, <1>3
<1>6. UpToLimit(h) = found \o s
  BY <1>2, <1>4 DEF UpToLimit
<1>7. Len(found) < Limit => room = Limit - Len(found)
  BY <1>1
<1>8. n = room \/ n = Len(h)
  OBVIOUS
<1> HIDE DEF n, room
<1>9. /\ s \in Seq(Keys) /\ Len(s) = n /\ ToSet(s) \subseteq ToSet(h)
      /\ IsInjective(h) => IsInjective(s)
  BY <1>5, FirstOf
<1>10. n = Len(h) => s = h
  BY SubSeqProperties, <1>1
<1> HIDE DEF s
<1>11. /\ found \o s \in Seq(Keys) /\ Len(found \o s) = Len(found) + n
       /\ ToSet(found \o s) = ToSet(found) \cup ToSet(s)
  BY <1>9, BothOf
<1>12. ASSUME IsInjective(found), IsInjective(h), ToSet(found) \cap ToSet(h) = {}
       PROVE  IsInjective(found \o s)
  <2>1. ToSet(found) \cap ToSet(s) = {}
    BY <1>9, <1>12
  <2> QED BY <1>9, <1>12, <2>1, BothOf
<1> QED BY <1>1, <1>3, <1>5, <1>6, <1>7, <1>8, <1>9, <1>10, <1>11, <1>12

\* What the last cut leaves.
LEMMA CutProperties ==
  ASSUME found \in Seq(Keys)
  PROVE  /\ Cut \in Seq(Keys) /\ ToSet(Cut) \subseteq ToSet(found)
         /\ kind # "sample" \/ Len(found) < Limit => Cut = found
         /\ kind = "sample" => Len(Cut) <= Limit
         /\ Len(found) >= Limit => Len(Cut) >= Limit
         /\ IsInjective(found) => IsInjective(Cut)
<1>1. Len(found) \in Nat /\ Limit \in Nat
  BY LenProperties, SweepAssumption
<1> DEFINE n == IF Len(found) <= Limit THEN Len(found) ELSE Limit
<1>2. Min({Len(found), Limit}) = n /\ n \in 0 .. Len(found) /\ n <= Limit
  BY <1>1, MinOfTwo
<1>3. kind = "sample" => Cut = SubSeq(found, 1, n)
  BY <1>2 DEF Cut
<1>4. kind # "sample" => Cut = found
  BY DEF Cut
<1>5. /\ SubSeq(found, 1, n) \in Seq(Keys) /\ Len(SubSeq(found, 1, n)) = n
      /\ ToSet(SubSeq(found, 1, n)) \subseteq ToSet(found)
      /\ IsInjective(found) => IsInjective(SubSeq(found, 1, n))
  BY <1>2, FirstOf
<1>6. Len(found) <= Limit => SubSeq(found, 1, n) = found
  BY <1>1, SubSeqProperties
<1>7. Len(found) >= Limit => n = Limit
  BY <1>1
<1> HIDE DEF n
<1>8. CASE kind = "sample"
  <2> DEFINE s == SubSeq(found, 1, n)
  <2> HIDE DEF s
  <2>1. Cut = s /\ s \in Seq(Keys) /\ Len(s) = n /\ ToSet(s) \subseteq ToSet(found)
    BY <1>3, <1>5, <1>8 DEF s
  <2>3. IsInjective(found) => IsInjective(s)
    BY <1>5, Zenon DEF s
  <2>2. Len(found) <= Limit => s = found
    BY <1>6 DEF s
  <2> QED BY <1>1, <1>2, <1>7, <1>8, <2>1, <2>2, <2>3
<1>9. CASE kind # "sample"
  BY <1>4, <1>9
<1> QED BY <1>8, <1>9

------------------------------------------------------------------------------
(* The heap of the fuzzy search *)

\* What the heap promises of a key that was offered to it.
Offered(heap, k) ==
  \/ k \in ToSet(heap)
  \/ Score[k] = 0
  \/ Len(heap) = Limit /\ \A i \in DOMAIN heap : Score[heap[i]] >= Score[k]

\* A heap that is not empty has a least element.
LEMMA RootExists ==
  ASSUME NEW heap \in Seq(Keys), Len(heap) # 0
  PROVE  \E i \in DOMAIN heap : \A j \in DOMAIN heap : Score[heap[i]] <= Score[heap[j]]
<1>1. Len(heap) \in Nat /\ DOMAIN heap = 1 .. Len(heap) /\ \A i \in DOMAIN heap : heap[i] \in Keys
  BY LenProperties
<1>2. \A i \in DOMAIN heap : Score[heap[i]] \in Nat
  BY <1>1, SweepAssumption
<1> DEFINE T == {Score[heap[i]] : i \in DOMAIN heap}
<1>3. T \subseteq Nat /\ T # {}
  <2>1. 1 \in DOMAIN heap
    BY <1>1
  <2> QED BY <1>2, <2>1
<1>4. \A t \in T : \E i \in DOMAIN heap : t = Score[heap[i]]
  OBVIOUS
<1>5. \A i \in DOMAIN heap : Score[heap[i]] \in T
  OBVIOUS
<1> HIDE DEF T
<1>6. \E t \in T : \A y \in T : <<y, t>> \notin OpToRel(<, Nat)
  BY <1>3, NatLessThanWellFounded, WFMin
<1>7. \A x, y \in Nat : y < x => <<y, x>> \in OpToRel(<, Nat)
  BY Zenon DEF OpToRel
<1>8. PICK t \in T : \A y \in T : ~(y < t)
  BY <1>3, <1>6, <1>7, Zenon
<1>9. PICK i \in DOMAIN heap : t = Score[heap[i]]
  BY <1>4
<1>10. \A j \in DOMAIN heap : Score[heap[i]] <= Score[heap[j]]
  BY <1>2, <1>5, <1>8, <1>9
<1> QED BY <1>10

\* Offering a key to the heap keeps the heap's promises and makes the one of that key.
LEMMA ConsiderProperties ==
  ASSUME NEW heap \in Seq(Keys), NEW k \in Keys
  PROVE  /\ Consider(heap, k) \in Seq(Keys)
         /\ ToSet(Consider(heap, k)) \subseteq ToSet(heap) \cup {k}
         /\ Len(heap) <= Limit =>
              /\ Len(Consider(heap, k)) <= Limit
              /\ \A x \in Keys : Offered(heap, x) => Offered(Consider(heap, k), x)
              /\ Offered(Consider(heap, k), k)
         /\ IsInjective(heap) /\ k \notin ToSet(heap) => IsInjective(Consider(heap, k))
<1>1. /\ Len(heap) \in Nat /\ DOMAIN heap = 1 .. Len(heap) /\ \A i \in DOMAIN heap : heap[i] \in Keys
      /\ Limit \in Nat /\ Limit > 0 /\ \A x \in Keys : Score[x] \in Nat
  BY LenProperties, SweepAssumption
<1>2. CASE Score[k] = 0
  <2>1. Consider(heap, k) = heap
    BY <1>2 DEF Consider
  <2> QED BY <1>2, <2>1 DEF Offered
<1>3. CASE Score[k] # 0 /\ Len(heap) < Limit
  <2>1. Consider(heap, k) = Append(heap, k)
    BY <1>3 DEF Consider
  <2>2. /\ Append(heap, k) \in Seq(Keys) /\ Len(Append(heap, k)) = Len(heap) + 1
        /\ ToSet(Append(heap, k)) = ToSet(heap) \cup {k}
    BY AppendSet, AppendProperties
  <2>3. Len(heap) # Limit /\ Len(heap) + 1 <= Limit
    <3>1. Len(heap) \in Nat /\ Limit \in Nat /\ Len(heap) < Limit
      BY <1>1, <1>3
    <3> QED BY <3>1
  <2> DEFINE new == Append(heap, k)
  <2> HIDE DEF new
  <2>4. \A x \in Keys : Offered(heap, x) => Offered(new, x)
    <3>1. ASSUME NEW x \in Keys, Offered(heap, x) PROVE x \in ToSet(heap) \/ Score[x] = 0
      BY <2>3, <3>1, Zenon DEF Offered
    <3>2. ToSet(new) = ToSet(heap) \cup {k}
      BY <2>2 DEF new
    <3> QED BY <3>1, <3>2 DEF Offered
  <2>5. Offered(new, k)
    BY <2>2 DEF Offered, new
  <2>6. IsInjective(heap) /\ k \notin ToSet(heap) => IsInjective(new)
    BY AppendNew DEF new
  <2> HIDE DEF Offered
  <2> QED BY <2>1, <2>2, <2>3, <2>4, <2>5, <2>6 DEF new
<1>4. CASE Score[k] # 0 /\ ~(Len(heap) < Limit)
  <2> DEFINE Least(i) == \A j \in DOMAIN heap : Score[heap[i]] <= Score[heap[j]]
             root == CHOOSE i \in DOMAIN heap : Least(i)
             new == [heap EXCEPT ![root] = k]
  <2>1. root \in DOMAIN heap /\ Least(root)
    <3>1. \E i \in DOMAIN heap : Least(i)
      BY <1>1, <1>4, RootExists
    <3> HIDE DEF Least
    <3> QED BY <3>1
  <2>2. Consider(heap, k) = IF Score[k] > Score[heap[root]] THEN new ELSE heap
    BY <1>4, Zenon DEF Consider
  <2> HIDE DEF root
  <2>3. CASE Score[k] > Score[heap[root]]
    <3>1. Consider(heap, k) = new
      BY <2>2, <2>3
    <3>2. /\ new \in Seq(Keys) /\ Len(new) = Len(heap) /\ DOMAIN new = DOMAIN heap
          /\ new[root] = k /\ \A i \in DOMAIN heap : i # root => new[i] = heap[i]
      BY <1>1, <2>1, ExceptSeq
    <3> HIDE DEF new
    <3>3. ToSet(new) \subseteq ToSet(heap) \cup {k}
      BY <3>2 DEF ToSet
    <3>4. k \in ToSet(new)
      BY <2>1, <3>2 DEF ToSet
    <3>5. \A i \in DOMAIN new : Score[new[i]] >= Score[heap[root]]
      BY <1>1, <2>1, <2>3, <3>2
    <3>6. ASSUME Len(heap) <= Limit, NEW x \in Keys, Offered(heap, x)
          PROVE  Offered(new, x)
      <4>1. Len(new) = Limit
        BY <1>1, <1>4, <3>2, <3>6
      <4>2. CASE x \in ToSet(heap)
        <5>1. PICK i \in DOMAIN heap : x = heap[i]
          BY <4>2 DEF ToSet
        <5>2. CASE i = root
          BY <3>5, <4>1, <5>1, <5>2 DEF Offered
        <5>3. CASE i # root
          <6>1. new[i] = x /\ i \in DOMAIN new
            BY <3>2, <5>1, <5>3
          <6> QED BY <6>1 DEF Offered, ToSet
        <5> QED BY <5>2, <5>3
      <4>3. CASE Score[x] = 0
        BY <4>3 DEF Offered
      <4>4. CASE \A i \in DOMAIN heap : Score[heap[i]] >= Score[x]
        <5>1. \A i \in DOMAIN new : Score[new[i]] >= Score[x]
          <6>1. \A i \in DOMAIN new : new[i] \in Keys /\ Score[new[i]] \in Nat
            BY <1>1, <3>2
          <6> QED BY <1>1, <2>1, <3>5, <4>4, <6>1
        <5> QED BY <4>1, <5>1 DEF Offered
      <4> QED BY <3>6, <4>2, <4>3, <4>4 DEF Offered
    <3>7. ASSUME IsInjective(heap), k \notin ToSet(heap) PROVE IsInjective(new)
      <4>1. \A i \in DOMAIN heap : heap[i] # k
        BY <3>7 DEF ToSet
      <4>2. \A i, j \in DOMAIN heap : heap[i] = heap[j] => i = j
        BY <3>7 DEF IsInjective
      <4>3. \A i, j \in DOMAIN new : new[i] = new[j] => i = j
        BY <2>1, <3>2, <4>1, <4>2
      <4> QED BY <4>3 DEF IsInjective
    <3> QED BY <1>1, <1>4, <3>1, <3>2, <3>3, <3>4, <3>6, <3>7 DEF Offered
  <2>4. CASE ~(Score[k] > Score[heap[root]])
    <3>1. Consider(heap, k) = heap
      BY <2>2, <2>4
    <3>2. ASSUME Len(heap) <= Limit PROVE Offered(heap, k)
      <4>1. Len(heap) = Limit
        <5>1. ~(Len(heap) < Limit) /\ Len(heap) <= Limit /\ Len(heap) \in Nat /\ Limit \in Nat
          BY <1>1, <1>4, <3>2
        <5> QED BY <5>1
      <4>2. \A i \in DOMAIN heap : Score[heap[i]] >= Score[k]
        BY <1>1, <2>1, <2>4
      <4> QED BY <4>1, <4>2 DEF Offered
    <3> QED BY <3>1, <3>2
  <2> QED BY <2>3, <2>4
<1> QED BY <1>2, <1>3, <1>4

\* After a page every key of it has been offered, and the earlier ones are as before.
LEMMA ConsideredProperties ==
  ASSUME NEW p \in Seq(Keys), found \in Seq(Keys)
  PROVE  /\ Considered(p) \in Seq(Keys)
         /\ ToSet(Considered(p)) \subseteq ToSet(found) \cup ToSet(p)
         /\ Len(found) <= Limit =>
              /\ Len(Considered(p)) <= Limit
              /\ \A x \in Keys : Offered(found, x) => Offered(Considered(p), x)
              /\ \A x \in ToSet(p) : Offered(Considered(p), x)
         /\ IsInjective(found) /\ IsInjective(p) /\ ToSet(found) \cap ToSet(p) = {} =>
              IsInjective(Considered(p))
<1> DEFINE A == Seq(Keys)
           f == [x \in A \X Keys |-> Consider(x[1], x[2])]
           Is(h) == h = [i \in 0 .. Len(p) |-> IF i = 0 THEN found ELSE Consider(h[i - 1], p[i])]
           h == CHOOSE x : Is(x)
<1>1. Len(p) \in Nat /\ \A i \in 1 .. Len(p) : p[i] \in Keys
  BY LenProperties
<1>2. Considered(p) = h[Len(p)]
  BY Zenon DEF Considered
<1>3. f \in [A \X Keys -> A] /\ \A a \in A, k \in Keys : f[<<a, k>>] = Consider(a, k)
  <2>1. \A a \in A, k \in Keys : Consider(a, k) \in A
    BY ConsiderProperties
  <2> HIDE DEF A
  <2> QED BY <2>1
<1>4. \E x \in [0 .. Len(p) -> A] :
        x[0] = found /\ \A i \in 1 .. Len(p) : x[i] = f[<<x[i - 1], p[i]>>]
  <2> HIDE DEF f, A
  <2>1. p \in Seq(Keys) /\ found \in A /\ f \in [A \X Keys -> A]
    BY <1>3 DEF A
  <2>2. \E x \in [0 .. Len(p) -> A] : IsLoop(x, found, f, p)
    BY <2>1, LoopExists, Zenon
  <2> QED BY <2>2 DEF IsLoop
<1> HIDE DEF A, f
<1>5. PICK x \in [0 .. Len(p) -> A] :
        x[0] = found /\ \A i \in 1 .. Len(p) : x[i] = Consider(x[i - 1], p[i])
  <2>1. \A x \in [0 .. Len(p) -> A] : \A i \in 1 .. Len(p) : x[i - 1] \in A /\ p[i] \in Keys
    BY <1>1
  <2> QED BY <1>3, <1>4, <2>1
<1>6. Is(x)
  <2>1. x = [i \in 0 .. Len(p) |-> x[i]]
    OBVIOUS
  <2>2. \A i \in 0 .. Len(p) : x[i] = IF i = 0 THEN found ELSE Consider(x[i - 1], p[i])
    BY <1>1, <1>5
  <2> QED BY <2>1, <2>2
<1>7. Is(h)
  <2> HIDE DEF Is
  <2> QED BY <1>6
<1> HIDE DEF h
<1>8. h[0] = found /\ \A i \in 1 .. Len(p) : h[i] = Consider(h[i - 1], p[i])
  <2>1. h[0] = found
    BY <1>1, <1>7
  <2>2. ASSUME NEW i \in 1 .. Len(p)
        PROVE  h[i] = Consider(h[i - 1], p[i])
    BY <1>1, <1>7
  <2> QED BY <2>1, <2>2
<1> HIDE DEF Is
<1> DEFINE Upto(i) == {p[j] : j \in 1 .. i}
           Few == Len(found) <= Limit
           Kept(i) == Few => /\ Len(h[i]) <= Limit
                             /\ \A k \in Keys : Offered(found, k) \/ k \in Upto(i) => Offered(h[i], k)
           New == IsInjective(found) /\ IsInjective(p) /\ ToSet(found) \cap ToSet(p) = {}
           Good == {i \in 0 .. Len(p) :
                      /\ h[i] \in A /\ ToSet(h[i]) \subseteq ToSet(found) \cup Upto(i) /\ Kept(i)
                      /\ New => IsInjective(h[i])}
<1>9. 0 \in Good
  <2>1. Upto(0) = {}
    OBVIOUS
  <2> HIDE DEF Upto
  <2> QED BY <1>1, <1>8, <2>1 DEF A
<1>10. ASSUME NEW i \in 0 .. Len(p) - 1, i \in Good
       PROVE  i + 1 \in Good
  <2>1. h[i + 1] = Consider(h[i], p[i + 1]) /\ p[i + 1] \in Keys /\ h[i] \in Seq(Keys)
    <3>1. i + 1 \in 1 .. Len(p) /\ (i + 1) - 1 = i
      BY <1>1
    <3> QED BY <1>1, <1>8, <1>10, <3>1 DEF A
  <2>2. Upto(i + 1) = Upto(i) \cup {p[i + 1]}
    BY <1>1
  <2>3. i + 1 \in 0 .. Len(p)
    BY <1>1
  <2> DEFINE k == p[i + 1]
  <2>4. /\ h[i + 1] \in Seq(Keys)
        /\ ToSet(h[i + 1]) \subseteq ToSet(h[i]) \cup {k}
        /\ Len(h[i]) <= Limit =>
             /\ Len(h[i + 1]) <= Limit
             /\ \A y \in Keys : Offered(h[i], y) => Offered(h[i + 1], y)
             /\ Offered(h[i + 1], k)
        /\ IsInjective(h[i]) /\ k \notin ToSet(h[i]) => IsInjective(h[i + 1])
    <3> DEFINE old == h[i]
    <3>1. old \in Seq(Keys) /\ k \in Keys /\ h[i + 1] = Consider(old, k)
      BY <2>1
    <3> HIDE DEF old, k
    <3>2. /\ Consider(old, k) \in Seq(Keys)
          /\ ToSet(Consider(old, k)) \subseteq ToSet(old) \cup {k}
          /\ Len(old) <= Limit =>
               /\ Len(Consider(old, k)) <= Limit
               /\ \A y \in Keys : Offered(old, y) => Offered(Consider(old, k), y)
               /\ Offered(Consider(old, k), k)
          /\ IsInjective(old) /\ k \notin ToSet(old) => IsInjective(Consider(old, k))
      BY <3>1, ConsiderProperties
    <3> QED BY <3>1, <3>2, Zenon DEF old
  <2>5. ToSet(h[i]) \subseteq ToSet(found) \cup Upto(i) /\ Kept(i)
    BY <1>10
  <2>8. New => IsInjective(h[i + 1])
    <3> SUFFICES ASSUME New PROVE IsInjective(h[i + 1])
      OBVIOUS
    <3>1. k \notin Upto(i)
      BY <1>1, LenProperties DEF IsInjective
    <3>2. k \in ToSet(p)
      BY <1>1, LenProperties DEF ToSet
    <3>3. k \notin ToSet(h[i])
      <4> HIDE DEF k, Upto
      <4> QED BY <2>5, <3>1, <3>2
    <3>4. IsInjective(h[i])
      BY <1>10
    <3> HIDE DEF k
    <3> QED BY <2>4, <3>3, <3>4
  <2> HIDE DEF Upto, Few, k, New
  <2>6. Kept(i + 1)
    BY <2>2, <2>4, <2>5 DEF k
  <2>7. ToSet(h[i + 1]) \subseteq ToSet(found) \cup Upto(i + 1)
    BY <2>2, <2>4, <2>5 DEF k
  <2> HIDE DEF Kept
  <2> QED BY <2>3, <2>4, <2>6, <2>7, <2>8 DEF A
<1>11. \A i \in 0 .. Len(p) : i \in Good
  <2> HIDE DEF Good
  <2> QED BY <1>1, <1>9, <1>10, UpTo
<1>12. Upto(Len(p)) = ToSet(p) /\ ToSet(p) \subseteq Keys
  <2>1. Upto(Len(p)) = ToSet(p)
    BY LenProperties DEF ToSet
  <2>2. ToSet(p) \subseteq Keys
    BY <1>1, LenProperties DEF ToSet
  <2> QED BY <2>1, <2>2
<1>13. Len(p) \in Good
  <2> HIDE DEF Good
  <2> QED BY <1>1, <1>11
<1> HIDE DEF Upto
<1> QED BY <1>2, <1>12, <1>13 DEF A

------------------------------------------------------------------------------
(* What an operation keeps of a page, and what a chunk is *)

LEMMA KeepProperties ==
  ASSUME NEW p \in Seq(Keys), found \in Seq(Keys)
  PROVE  /\ Keep(p) \in Seq(Keys)
         /\ ToSet(Keep(p)) \subseteq ToSet(found) \cup ToSet(p)
         /\ kind # "fuzzy" => ToSet(found) \subseteq ToSet(Keep(p))
         /\ kind = "regex" /\ Len(found) < Limit =>
              /\ Len(Keep(p)) <= Limit
              /\ Len(Keep(p)) < Limit => ToSet(p) \cap Wanted \subseteq ToSet(Keep(p))
         /\ kind = "fuzzy" /\ Len(found) <= Limit =>
              /\ Len(Keep(p)) <= Limit
              /\ \A x \in Keys : Offered(found, x) => Offered(Keep(p), x)
              /\ \A x \in ToSet(p) : Offered(Keep(p), x)
         /\ kind \notin {"regex", "fuzzy"} => ToSet(p) \subseteq ToSet(Keep(p))
         /\ IsInjective(found) /\ IsInjective(p) /\ ToSet(found) \cap ToSet(p) = {} =>
              IsInjective(Keep(p))
<1>1. CASE kind = "regex"
  <2> DEFINE h == Picked(p, Wanted)
  <2>1. /\ h \in Seq(Keys) /\ ToSet(h) = ToSet(p) \cap Wanted
        /\ IsInjective(p) => IsInjective(h)
    BY PickedProperties
  <2>2. Keep(p) = UpToLimit(h)
    BY <1>1 DEF Keep
  <2> HIDE DEF h
  <2>3. ToSet(found) \cap ToSet(p) = {} => ToSet(found) \cap ToSet(h) = {}
    BY <2>1
  <2> QED BY <1>1, <2>1, <2>2, <2>3, UpToLimitProperties
<1>2. CASE kind = "fuzzy"
  <2>1. Keep(p) = Considered(p)
    BY <1>2 DEF Keep
  <2> QED BY <1>2, <2>1, ConsideredProperties
<1>3. CASE kind \notin {"regex", "fuzzy"}
  <2>1. Keep(p) = found \o p
    BY <1>3 DEF Keep
  <2>2. /\ found \o p \in Seq(Keys) /\ ToSet(found \o p) = ToSet(found) \cup ToSet(p)
        /\ IsInjective(found) /\ IsInjective(p) /\ ToSet(found) \cap ToSet(p) = {} =>
             IsInjective(found \o p)
    BY BothOf
  <2> QED BY <1>3, <2>1, <2>2
<1> QED BY <1>1, <1>2, <1>3

\* The chunk that begins after the first `next` keys.
LEMMA ChunkProperties ==
  ASSUME found \in Seq(Keys), next \in 0 .. Len(found), next < Len(found)
  PROVE  /\ ChunkEnd \in next + 1 .. Len(found)
         /\ InChunk \in Seq(Keys) /\ Len(InChunk) = ChunkEnd - next
         /\ \A i \in 1 .. ChunkEnd - next : InChunk[i] = found[next + i]
         /\ \A i \in next + 1 .. ChunkEnd : found[i] \in ToSet(InChunk)
<1>1. Len(found) \in Nat /\ next \in Nat /\ Chunk \in Nat /\ Chunk > 0
  BY LenProperties, SweepAssumption
<1>2. ChunkEnd = IF next + Chunk <= Len(found) THEN next + Chunk ELSE Len(found)
  BY <1>1, MinOfTwo DEF ChunkEnd
<1>3. ChunkEnd \in next + 1 .. Len(found)
  BY <1>1, <1>2
<1> DEFINE e == ChunkEnd
           s == SubSeq(found, next + 1, e)
<1> HIDE DEF e
<1>4. e \in Nat /\ next + 1 \in 1 .. Len(found) + 1 /\ e \in next + 1 .. Len(found)
  BY <1>1, <1>3 DEF e
<1>5. /\ s \in Seq(Keys) /\ Len(s) = e - next
      /\ \A i \in 1 .. e - next : s[i] = found[next + i]
  <2>1. \A i \in next + 1 .. e : i \in 1 .. Len(found)
    BY <1>1, <1>4
  <2>2. Len(s) = IF next + 1 <= e THEN e - (next + 1) + 1 ELSE 0
    BY <1>1, <1>4, <2>1, SubSeqProperties
  <2>3. s \in Seq(Keys) /\ \A i \in 1 .. e - (next + 1) + 1 : s[i] = found[next + 1 + i - 1]
    BY <1>1, <1>4, <2>1, SubSeqProperties
  <2> HIDE DEF s
  <2>4. e - (next + 1) + 1 = e - next /\ \A i \in 1 .. e - next : next + 1 + i - 1 = next + i
    BY <1>1, <1>4
  <2> QED BY <1>1, <1>4, <2>2, <2>3, <2>4
<1> HIDE DEF s
<1>6. ASSUME NEW i \in next + 1 .. e
      PROVE  found[i] \in ToSet(s)
  <2>1. i - next \in 1 .. e - next /\ next + (i - next) = i
    BY <1>1, <1>4
  <2>2. s[i - next] = found[i]
    BY <1>5, <2>1
  <2>3. i - next \in DOMAIN s
    BY <1>5, <2>1, LenProperties
  <2> QED BY <2>2, <2>3 DEF ToSet
<1> QED BY <1>3, <1>5, <1>6 DEF e, s, InChunk

\* The commands of a chunk's pipeline that were answered.
LEMMA AnsweredProperties ==
  ASSUME found \in Seq(Keys), next \in 0 .. Len(found), next < Len(found),
         NEW done \in SUBSET DOMAIN InChunk, NEW answered \in SUBSET done
  PROVE  /\ DOMAIN InChunk = 1 .. Len(InChunk) /\ Len(InChunk) \in Nat
         /\ IsFiniteSet(answered) /\ Cardinality(answered) \in Nat
<1>1. DOMAIN InChunk = 1 .. Len(InChunk) /\ Len(InChunk) \in Nat
  BY ChunkProperties, LenProperties
<1>2. IsFiniteSet(1 .. Len(InChunk)) /\ answered \subseteq 1 .. Len(InChunk)
  BY <1>1, FS_Interval
<1> QED BY <1>1, <1>2, FS_Subset, FS_CardinalityType

------------------------------------------------------------------------------
(* The types *)

Active == {"loop", "take", "values"}

\* Where a goroutine may be.
PlaceOf(m) ==
  /\ m \notin Nodes => pc[m] = "ended"
  /\ pc[m] = "loop" => pos[m] <= Buckets
  /\ pc[m] = "values" => kind = "value" /\ ~stopped
  /\ pc[m] \in Active => phase = "scan"
  /\ pc[m] \notin {"take", "values"} => page[m] = << >>
  /\ pc[m] = "ended" /\ m \in Nodes /\ phase # "idle" => pos[m] > Buckets \/ stopped

\* And where the operation may be at the same time.
Places ==
  /\ \A m \in Masters : PlaceOf(m)
  /\ phase = "idle" =>
       (\A m \in Masters : pc[m] = "ended" /\ pos[m] = 1) /\ moved = "no" /\ found = << >>
  /\ phase = "scan" => moved # "chunks"
  /\ phase \in {"idle", "scan"} => next = 0
  /\ phase = "chunks" => kind \in Written
  /\ phase = "done" /\ kind \in Written => next = Len(found)
  /\ phase \in {"chunks", "done"} => \A m \in Nodes : pc[m] = "ended"
  /\ stopped => kind \in Limited
  /\ at = IF moved = "no" THEN "first" ELSE "second"

TypesInv == TypeOK /\ Places

LEMMA SoloIsMaster == Solo \in Masters /\ Nodes \subseteq Masters
BY SweepAssumption DEF Solo, Nodes

LEMMA InitTypes == Init => TypesInv
<1> SUFFICES ASSUME Init PROVE TypesInv
  OBVIOUS
<1>1. db \in [Servers -> [Keys -> Contents]]
  BY SweepAssumption DEF Init, Servers, Contents
<1>2. TypeOK
  <2>1. /\ expires \in [Servers -> SUBSET Keys] /\ at \in Servers
        /\ read \in [Masters -> [Keys -> Contents]]
    BY DEF Init, Servers, Contents
  <2>2. /\ pc \in [Masters -> {"loop", "take", "values", "ended", "error"}]
        /\ pos \in [Masters -> 1 .. Buckets + 1] /\ page \in [Masters -> Seq(Keys)]
        /\ mu = NoNode /\ \A m \in Masters : pc[m] = "values" <=> mu = m
    BY SweepAssumption DEF Init
  <2>3. found \in Seq(Keys) /\ next \in 0 .. Len(found)
    BY DEF Init
  <2>4. /\ clustered \in BOOLEAN /\ kind \in Kinds /\ phase = "idle" /\ stopped = FALSE
        /\ count = 0 /\ writes = 0 /\ repeats = 0 /\ moved = "no" /\ broken = FALSE
        /\ steady = {} /\ live = {} /\ ever = {}
    BY DEF Init
  <2>5. writes \in 0 .. MaxWrites /\ repeats \in 0 .. MaxRepeats
    BY <2>4, SweepAssumption
  <2>6. steady \subseteq Keys /\ live \subseteq ever /\ ever \subseteq Keys
    BY <2>4
  <2> QED BY <1>1, <2>1, <2>2, <2>3, <2>4, <2>5, <2>6 DEF TypeOK
<1>3. Places
  BY <1>2 DEF Places, PlaceOf, Init, Active
<1> QED BY <1>2, <1>3 DEF TypesInv

LEMMA BeginTypes == TypesInv /\ Begin => TypesInv'
<1> SUFFICES ASSUME TypesInv, Begin PROVE TypesInv'
  OBVIOUS
<1>1. TypeOK /\ Places
  BY DEF TypesInv
<1>2. Nodes' = Nodes
  BY DEF Begin, Nodes
<1>3. steady' \subseteq Keys /\ live' \subseteq ever' /\ ever' \subseteq Keys
  BY DEF Begin, Present
<1>4. pc' \in [Masters -> {"loop", "ended"}] /\ \A m \in Masters : mu # m
  BY <1>1 DEF Begin, TypeOK, Places, PlaceOf
<1>5. TypeOK'
  BY <1>1, <1>3, <1>4 DEF Begin, TypeOK, store, bounds
<1>6. \A m \in Masters : pos[m] = 1 /\ page[m] = << >>
  BY <1>1 DEF Begin, Places, PlaceOf
<1>7. Places'
  BY <1>1, <1>2, <1>6, SweepAssumption DEF Begin, Places, PlaceOf, Active, store, TypeOK
<1> QED BY <1>5, <1>7 DEF TypesInv

LEMMA OtherWritesTypes ==
  ASSUME TypesInv, NEW k \in Keys, NEW c \in Contents, OtherWrites(k, c)
  PROVE  TypesInv'
<1>1. TypeOK /\ Places
  BY DEF TypesInv
<1>2. Nodes' = Nodes
  BY DEF OtherWrites, Nodes, job
<1>3. db' \in [Servers -> [Keys -> Contents]] /\ expires' \in [Servers -> SUBSET Keys]
  BY <1>1 DEF OtherWrites, TypeOK, Servers
<1>4. steady' \subseteq Keys /\ live' \subseteq ever' /\ ever' \subseteq Keys
  BY <1>1 DEF OtherWrites, TypeOK
<1>5. writes' \in 0 .. MaxWrites
  BY <1>1, SweepAssumption DEF OtherWrites, TypeOK
<1>6. TypeOK'
  BY <1>1, <1>3, <1>4, <1>5 DEF OtherWrites, TypeOK, job, scan
<1>7. Places'
  BY <1>1, <1>2 DEF OtherWrites, Places, PlaceOf, job, scan
<1> QED BY <1>6, <1>7 DEF TypesInv

LEMMA MoveTypes == TypesInv /\ Move => TypesInv'
<1> SUFFICES ASSUME TypesInv, Move PROVE TypesInv'
  OBVIOUS
<1>1. TypeOK /\ Places
  BY DEF TypesInv
<1>2. Nodes' = Nodes
  BY DEF Move, Nodes, job
<1>3. TypeOK'
  BY <1>1 DEF Move, TypeOK, job, scan, bounds, Servers
<1>4. Places'
  BY <1>1, <1>2 DEF Move, Places, PlaceOf, job, scan, TypeOK
<1> QED BY <1>3, <1>4 DEF TypesInv

LEMMA ScanTypes ==
  ASSUME TypesInv, NEW m \in Masters, Scan(m)
  PROVE  TypesInv'
<1>1. TypeOK /\ Places
  BY DEF TypesInv
<1>2. Nodes' = Nodes
  BY DEF Scan, Nodes, job
<1>3. pos[m] \in 1 .. Buckets + 1 /\ pos[m] <= Buckets /\ repeats \in 0 .. MaxRepeats
  BY <1>1 DEF Scan, Places, PlaceOf, TypeOK
<1>4. page' \in [Masters -> Seq(Keys)] /\ repeats' \in 0 .. MaxRepeats
  <2>1. PICK p \in Pages(m) :
          /\ page' = [page EXCEPT ![m] = p]
          /\ repeats' = repeats + (Len(p) - Cardinality(KeysIn(m, pos[m])))
    BY DEF Scan
  <2>2. /\ p \in Seq(Keys)
        /\ repeats + (Len(p) - Cardinality(KeysIn(m, pos[m]))) \in 0 .. MaxRepeats
    BY <1>3, PageProperties
  <2> QED BY <1>1, <2>1, <2>2 DEF TypeOK
<1>5. pos' \in [Masters -> 1 .. Buckets + 1]
  <2>1. pos[m] + 1 \in 1 .. Buckets + 1
    BY <1>3, SweepAssumption
  <2> QED BY <1>1, <2>1 DEF Scan, TypeOK
<1>6. /\ pc' \in [Masters -> {"loop", "take", "values", "ended", "error"}]
      /\ \A n \in Masters : pc'[n] = "values" <=> mu' = n
  BY <1>1 DEF Scan, TypeOK
<1>7. TypeOK'
  BY <1>1, <1>4, <1>5, <1>6 DEF Scan, TypeOK, store, job, history
<1>8. \A n \in Masters \ {m} : pc'[n] = pc[n] /\ pos'[n] = pos[n] /\ page'[n] = page[n]
  BY <1>1 DEF Scan, TypeOK
<1>9. pc'[m] = "take" /\ pc[m] = "loop"
  BY <1>1 DEF Scan, TypeOK
<1>10. phase = "scan"
  BY <1>1, <1>9 DEF Places, PlaceOf, Active
<1>11. Places'
  <2>1. ASSUME NEW n \in Masters
        PROVE  PlaceOf(n)'
    <3>1. CASE n = m
      BY <1>1, <1>2, <1>9, <1>10, <3>1 DEF Scan, Places, PlaceOf, job
    <3>2. CASE n # m
      BY <1>1, <1>2, <1>8, <1>10, <3>2 DEF Scan, Places, PlaceOf, job
    <3> QED BY <3>1, <3>2
  <2> QED BY <1>1, <1>10, <2>1 DEF Scan, Places, store, job, history
<1> QED BY <1>7, <1>11 DEF TypesInv

\* A goroutine's step leaves the places of the others as they are.
LEMMA OtherPlaces ==
  ASSUME TypesInv, NEW m \in Masters, NEW n \in Masters, n # m,
         pc'[n] = pc[n], pos'[n] = pos[n], page'[n] = page[n],
         pc[n] = "values" => stopped' = stopped, stopped => stopped',
         kind' = kind, phase' = phase, clustered' = clustered
  PROVE  PlaceOf(n)'
<1>1. Nodes' = Nodes
  BY DEF Nodes
<1>2. PlaceOf(n)
  BY DEF TypesInv, Places
<1> QED BY <1>1, <1>2 DEF PlaceOf

LEMMA LeaveTypes ==
  ASSUME TypesInv, NEW m \in Masters, ScanError(m) \/ Leave(m)
  PROVE  TypesInv'
<1>1. TypeOK /\ Places
  BY DEF TypesInv
<1>2. /\ pc[m] = "loop" /\ pc'[m] \in {"error", "ended"} /\ (pc'[m] = "ended" => stopped)
      /\ pc' \in [Masters -> {"loop", "take", "values", "ended", "error"}]
      /\ \A n \in Masters \ {m} : pc'[n] = pc[n]
      /\ UNCHANGED <<store, job, pos, page, read, mu, stopped, found, next, count, bounds, history>>
  BY <1>1 DEF ScanError, Leave, TypeOK
<1>3. phase = "scan" /\ m \in Nodes /\ page[m] = << >>
  BY <1>1, <1>2 DEF Places, PlaceOf, Active
<1>4. TypeOK'
  <2>1. \A n \in Masters : pc'[n] = "values" <=> mu' = n
    BY <1>1, <1>2 DEF TypeOK
  <2> QED BY <1>1, <1>2, <2>1 DEF TypeOK, store, job, bounds, history
<1>5. Places'
  <2>1. ASSUME NEW n \in Masters, n # m
        PROVE  PlaceOf(n)'
    BY <1>2, <2>1, OtherPlaces DEF job
  <2>2. PlaceOf(m)'
    BY <1>2, <1>3 DEF PlaceOf, Active, job, Nodes
  <2>3. \A n \in Masters : PlaceOf(n)'
    BY <2>1, <2>2
  <2> QED BY <1>1, <1>2, <1>3, <2>3 DEF Places, store, job, history
<1> QED BY <1>4, <1>5 DEF TypesInv

LEMMA TurnPlace == \A m : Turn(m) \in {"ended", "loop"} /\ (Turn(m) = "ended" <=> pos[m] > Buckets)
BY DEF Turn

LEMMA TakeTypes1 ==
  ASSUME TypesInv, NEW m \in Masters, Take(m)
  PROVE  TypesInv'
<1>1. TypeOK /\ Places
  BY DEF TypesInv
<1>2. /\ pc' = [pc EXCEPT ![m] = Turn(m)] /\ page' = [page EXCEPT ![m] = << >>]
      /\ pc[m] = "take" /\ mu = NoNode
      /\ UNCHANGED <<store, job, pos, read, mu, next, count, bounds, history>>
  BY DEF Take
<1>3. phase = "scan" /\ m \in Nodes
  BY <1>1, <1>2 DEF Places, PlaceOf, Active
<1>4. found' \in Seq(Keys) /\ next' \in 0 .. Len(found')
  <2>1. page[m] \in Seq(Keys) /\ found \in Seq(Keys)
    BY <1>1 DEF TypeOK
  <2>2. found' \in Seq(Keys)
    BY <2>1, KeepProperties DEF Take
  <2>3. next' = 0
    BY <1>1, <1>2, <1>3 DEF Places
  <2> QED BY <2>2, <2>3, LenProperties
<1>5. stopped' \in BOOLEAN /\ (stopped => stopped') /\ (stopped' => stopped \/ kind \in Limited)
  BY <1>1 DEF Take, Full, TypeOK
<1>6. /\ pc' \in [Masters -> {"loop", "take", "values", "ended", "error"}]
      /\ pc'[m] = Turn(m) /\ page'[m] = << >>
      /\ \A n \in Masters \ {m} : pc'[n] = pc[n] /\ page'[n] = page[n]
      /\ page' \in [Masters -> Seq(Keys)]
  BY <1>1, <1>2, TurnPlace DEF TypeOK
<1>7. \A n \in Masters : pc[n] # "values"
  BY <1>1, <1>2, SweepAssumption DEF TypeOK
<1>8. \A n \in Masters : pc'[n] = "values" <=> mu' = n
  BY <1>2, <1>6, <1>7, TurnPlace, SweepAssumption
<1>9. TypeOK'
  BY <1>1, <1>2, <1>4, <1>5, <1>6, <1>8 DEF TypeOK, store, job, bounds, history
<1>10. Places'
  <2>1. ASSUME NEW n \in Masters, n # m
        PROVE  PlaceOf(n)'
    <3>1. UNCHANGED <<kind, phase, clustered, pos>>
      BY <1>2 DEF job
    <3> QED BY <1>5, <1>6, <1>7, <2>1, <3>1, OtherPlaces
  <2>2. PlaceOf(m)'
    <3>1. m \in Nodes' /\ phase' = "scan" /\ pos' = pos /\ pos[m] \in 1 .. Buckets + 1
      BY <1>1, <1>2, <1>3 DEF job, Nodes, TypeOK
    <3>2. Buckets \in Nat
      BY SweepAssumption
    <3> QED BY <1>6, <3>1, <3>2, TurnPlace DEF PlaceOf, Active
  <2>3. \A n \in Masters : PlaceOf(n)'
    BY <2>1, <2>2
  <2> QED BY <1>1, <1>2, <1>3, <1>5, <2>3 DEF Places, store, job, history
<1> QED BY <1>9, <1>10 DEF TypesInv

LEMMA TakeTypesTypes ==
  ASSUME TypesInv, NEW m \in Masters, TakeTypes(m)
  PROVE  TypesInv'
<1>1. TypeOK /\ Places
  BY DEF TypesInv
<1>2. /\ pc[m] = "take" /\ kind = "value" /\ mu = NoNode
      /\ UNCHANGED <<store, job, pos, stopped, found, next, count, bounds, moved, steady, live, ever>>
  BY DEF TakeTypes
<1>3. phase = "scan" /\ m \in Nodes
  BY <1>1, <1>2 DEF Places, PlaceOf, Active
<1>4. \A n \in Masters : pc[n] # "values"
  BY <1>1, <1>2, SweepAssumption DEF TypeOK
<1>5. db[at] \in [Keys -> Contents]
  BY <1>1 DEF TypeOK
<1>6. /\ pc' \in [Masters -> {"loop", "take", "values", "ended", "error"}]
      /\ page' \in [Masters -> Seq(Keys)] /\ read' \in [Masters -> [Keys -> Contents]]
      /\ broken' \in BOOLEAN
      /\ \A n \in Masters \ {m} : pc'[n] = pc[n] /\ page'[n] = page[n]
      /\ \/ pc'[m] = Turn(m) /\ page'[m] = << >> /\ mu' = mu
         \/ pc'[m] = "values" /\ mu' = m /\ ~stopped
  <2>1. CASE stopped \/ page[m] = << >>
    <3>1. /\ pc' = [pc EXCEPT ![m] = Turn(m)] /\ page' = [page EXCEPT ![m] = << >>]
          /\ UNCHANGED <<read, mu, broken>>
      BY <2>1 DEF TakeTypes
    <3> QED BY <1>1, <3>1, TurnPlace DEF TypeOK
  <2>2. CASE ~(stopped \/ page[m] = << >>)
    <3>1. pc' = [pc EXCEPT ![m] = "values"] /\ mu' = m /\ UNCHANGED page
      BY <2>2 DEF TakeTypes
    <3>2. \/ read' = [read EXCEPT ![m] = db[at]] /\ UNCHANGED broken
          \/ broken' = TRUE /\ UNCHANGED read
      BY <2>2 DEF TakeTypes
    <3>3. read' \in [Masters -> [Keys -> Contents]] /\ broken' \in BOOLEAN
      BY <1>1, <1>5, <3>2 DEF TypeOK
    <3> QED BY <1>1, <2>2, <3>1, <3>3 DEF TypeOK
  <2> QED BY <2>1, <2>2
<1>7. mu' \in Masters \cup {NoNode} /\ \A n \in Masters : pc'[n] = "values" <=> mu' = n
  BY <1>2, <1>4, <1>6, TurnPlace, SweepAssumption
<1>8. TypeOK'
  BY <1>1, <1>2, <1>6, <1>7 DEF TypeOK, store, job, bounds
<1>9. Places'
  <2>1. ASSUME NEW n \in Masters, n # m
        PROVE  PlaceOf(n)'
    <3>1. UNCHANGED <<kind, phase, clustered, pos, stopped>>
      BY <1>2 DEF job
    <3> QED BY <1>6, <2>1, <3>1, OtherPlaces
  <2>2. PlaceOf(m)'
    <3>1. /\ m \in Nodes' /\ phase' = "scan" /\ pos' = pos /\ pos[m] \in 1 .. Buckets + 1
          /\ stopped' = stopped /\ kind' = "value"
      BY <1>1, <1>2, <1>3 DEF job, Nodes, TypeOK
    <3>2. Buckets \in Nat
      BY SweepAssumption
    <3> QED BY <1>6, <3>1, <3>2, TurnPlace DEF PlaceOf, Active
  <2>3. \A n \in Masters : PlaceOf(n)'
    BY <2>1, <2>2
  <2> QED BY <1>1, <1>2, <1>3, <2>3 DEF Places, store, job
<1> QED BY <1>8, <1>9 DEF TypesInv

LEMMA HitsProperties ==
  ASSUME TypesInv, NEW m \in Masters
  PROVE  /\ Hits(m) \in Seq(Keys)
         /\ ToSet(Hits(m)) =
              ToSet(page[m]) \cap {k \in Keys : read[m][k] \in Searchable /\ db[at][k] = read[m][k]}
         /\ IsInjective(page[m]) => IsInjective(Hits(m))
BY PickedProperties DEF Hits, TypesInv, TypeOK

LEMMA TakeValuesTypes ==
  ASSUME TypesInv, NEW m \in Masters, TakeValues(m)
  PROVE  TypesInv'
<1>1. TypeOK /\ Places
  BY DEF TypesInv
<1>2. /\ pc' = [pc EXCEPT ![m] = Turn(m)] /\ page' = [page EXCEPT ![m] = << >>]
      /\ pc[m] = "values" /\ mu' = NoNode
      /\ read' = [read EXCEPT ![m] = [k \in Keys |-> "gone"]]
      /\ UNCHANGED <<store, job, pos, next, count, bounds, moved, steady, live, ever>>
  BY DEF TakeValues
<1>3. phase = "scan" /\ m \in Nodes /\ kind = "value" /\ ~stopped /\ mu = m
  BY <1>1, <1>2 DEF Places, PlaceOf, Active, TypeOK
<1>4. found' \in Seq(Keys) /\ next' \in 0 .. Len(found') /\ broken' \in BOOLEAN
  <2>1. found' \in Seq(Keys) /\ broken' \in BOOLEAN
    BY <1>1, HitsProperties, UpToLimitProperties DEF TakeValues, TypeOK
  <2>2. next' = 0
    BY <1>1, <1>2, <1>3 DEF Places
  <2> QED BY <2>1, <2>2, LenProperties
<1>5. stopped' \in BOOLEAN /\ (stopped' => kind \in Limited)
  BY <1>1 DEF TakeValues, Full
<1>6. /\ pc' \in [Masters -> {"loop", "take", "values", "ended", "error"}]
      /\ pc'[m] = Turn(m) /\ page'[m] = << >>
      /\ \A n \in Masters \ {m} : pc'[n] = pc[n] /\ page'[n] = page[n]
      /\ page' \in [Masters -> Seq(Keys)]
      /\ read' \in [Masters -> [Keys -> Contents]]
  <2>1. [k \in Keys |-> "gone"] \in [Keys -> Contents]
    BY DEF Contents
  <2> QED BY <1>1, <1>2, <2>1, TurnPlace DEF TypeOK
<1>7. \A n \in Masters \ {m} : pc[n] # "values"
  BY <1>1, <1>3 DEF TypeOK
<1>8. \A n \in Masters : pc'[n] = "values" <=> mu' = n
  BY <1>2, <1>6, <1>7, TurnPlace, SweepAssumption
<1>9. TypeOK'
  BY <1>1, <1>2, <1>4, <1>5, <1>6, <1>8 DEF TypeOK, store, job, bounds
<1>10. Places'
  <2>1. ASSUME NEW n \in Masters, n # m
        PROVE  PlaceOf(n)'
    <3>1. UNCHANGED <<kind, phase, clustered, pos>>
      BY <1>2 DEF job
    <3> QED BY <1>3, <1>6, <1>7, <2>1, <3>1, OtherPlaces
  <2>2. PlaceOf(m)'
    <3>1. m \in Nodes' /\ phase' = "scan" /\ pos' = pos /\ pos[m] \in 1 .. Buckets + 1
      BY <1>1, <1>2, <1>3 DEF job, Nodes, TypeOK
    <3>2. Buckets \in Nat
      BY SweepAssumption
    <3> QED BY <1>6, <3>1, <3>2, TurnPlace DEF PlaceOf, Active
  <2>3. \A n \in Masters : PlaceOf(n)'
    BY <2>1, <2>2
  <2> QED BY <1>1, <1>2, <1>3, <1>5, <2>3 DEF Places, store, job
<1> QED BY <1>9, <1>10 DEF TypesInv

LEMMA ScanEndsTypes == TypesInv /\ ScanEnds => TypesInv'
<1> SUFFICES ASSUME TypesInv, ScanEnds PROVE TypesInv'
  OBVIOUS
<1>1. TypeOK /\ Places
  BY DEF TypesInv
<1>2. /\ phase = "scan" /\ \A m \in Nodes : pc[m] \in {"ended", "error"}
      /\ found' = Cut
      /\ UNCHANGED <<store, clustered, kind, scan, next, count, bounds, history>>
  BY DEF ScanEnds
<1>3. phase' \in {"chunks", "done", "failed"}
  BY DEF ScanEnds
<1>4. (phase' = "chunks" => kind \in Written) /\ (phase' = "done" => kind \notin Written)
  BY DEF ScanEnds
<1>5. phase' \in {"chunks", "done"} => \A m \in Nodes : pc[m] = "ended"
  BY <1>2 DEF ScanEnds
<1>6. next = 0 /\ found' \in Seq(Keys) /\ next' \in 0 .. Len(found')
  <2>1. next = 0 /\ found' \in Seq(Keys)
    BY <1>1, <1>2, CutProperties DEF Places, TypeOK
  <2> QED BY <1>2, <2>1, LenProperties
<1>7. TypeOK'
  BY <1>1, <1>2, <1>3, <1>6 DEF TypeOK, store, scan, bounds, history
<1>8. Nodes' = Nodes
  BY <1>2 DEF Nodes
<1>9. \A m \in Masters : pc[m] \in {"ended", "error"}
  BY <1>1, <1>2 DEF Places, PlaceOf
<1>10. \A m \in Masters : PlaceOf(m)'
  BY <1>1, <1>2, <1>8, <1>9 DEF Places, PlaceOf, Active, scan
<1>11. Places'
  BY <1>1, <1>2, <1>3, <1>4, <1>5, <1>8, <1>10 DEF Places, store, scan, history
<1> QED BY <1>7, <1>11 DEF TypesInv

\* Once the scan is over no goroutine has a place to lose.
LEMMA LaterPlaces ==
  ASSUME TypesInv, phase = "chunks", phase' \in {"chunks", "done", "failed"},
         phase' = "done" => next' = Len(found'),
         UNCHANGED <<clustered, kind, scan, at, moved>>
  PROVE  Places'
<1>1. TypeOK /\ Places
  BY DEF TypesInv
<1>2. Nodes' = Nodes
  BY DEF Nodes
<1>3. \A m \in Masters : pc[m] \notin Active
  BY <1>1 DEF Places, PlaceOf
<1>4. \A m \in Masters : PlaceOf(m)'
  BY <1>1, <1>2, <1>3 DEF Places, PlaceOf, Active, scan
<1> QED BY <1>1, <1>2, <1>4 DEF Places, scan

LEMMA DeleteTypes == TypesInv /\ (DeleteChunk \/ DeleteError) => TypesInv'
<1> SUFFICES ASSUME TypesInv, DeleteChunk \/ DeleteError PROVE TypesInv'
  OBVIOUS
<1>1. TypeOK /\ Places
  BY DEF TypesInv
<1>2. /\ phase = "chunks" /\ kind = "delete" /\ next < Len(found)
      /\ UNCHANGED <<expires, at, clustered, kind, scan, found, bounds, history>>
  BY DEF DeleteChunk, DeleteError, job
<1>3. \E gone \in SUBSET Keys :
        db' = [db EXCEPT ![at] = [k \in Keys |-> IF k \in gone THEN "gone" ELSE @[k]]]
  BY DEF DeleteChunk, DeleteError, Present
<1>4. db' \in [Servers -> [Keys -> Contents]]
  BY <1>1, <1>3 DEF TypeOK, Contents
<1>5. phase' \in {"chunks", "failed"} /\ next' \in 0 .. Len(found) /\ count' \in Nat
  <2>1. CASE DeleteChunk
    <3> DEFINE gone == ToSet(InChunk) \cap Present(at)
    <3>1. phase' = phase /\ next' = ChunkEnd /\ count' = count + Cardinality(gone)
      BY <2>1 DEF DeleteChunk, job
    <3>2. gone \subseteq Keys
      BY DEF Present
    <3> HIDE DEF gone
    <3>3. Cardinality(gone) \in Nat
      BY <3>2, FS_Subset, FS_CardinalityType, SweepAssumption
    <3>4. ChunkEnd \in 0 .. Len(found)
      BY <1>1, <1>2, ChunkProperties, LenProperties DEF TypeOK
    <3> QED BY <1>1, <1>2, <3>1, <3>3, <3>4 DEF TypeOK
  <2>2. CASE DeleteError
    BY <1>1, <2>2 DEF DeleteError, TypeOK
  <2> QED BY <1>2, <2>1, <2>2 DEF DeleteChunk, DeleteError
<1>6. TypeOK'
  BY <1>1, <1>2, <1>4, <1>5 DEF TypeOK, scan, bounds, history
<1>7. Places'
  BY <1>2, <1>5, LaterPlaces DEF history
<1> QED BY <1>6, <1>7 DEF TypesInv

LEMMA ExpireTypes == TypesInv /\ ExpireChunk => TypesInv'
<1> SUFFICES ASSUME TypesInv, ExpireChunk PROVE TypesInv'
  OBVIOUS
<1>1. TypeOK /\ Places
  BY DEF TypesInv
<1>2. /\ phase = "chunks" /\ next < Len(found) /\ next' = ChunkEnd
      /\ UNCHANGED <<db, at, job, scan, found, bounds, history>>
  BY DEF ExpireChunk
<1>3. /\ ChunkEnd \in 0 .. Len(found) /\ Len(InChunk) \in Nat
  <2>1. ChunkEnd \in next + 1 .. Len(found) /\ InChunk \in Seq(Keys)
    BY <1>1, <1>2, ChunkProperties DEF TypeOK
  <2> QED BY <1>1, <2>1, LenProperties DEF TypeOK
<1>4. PICK done \in SUBSET DOMAIN InChunk :
        /\ expires' = [expires EXCEPT ![at] = @ \cup ({InChunk[i] : i \in done} \cap Present(at))]
        /\ \E answered \in SUBSET done : count' = count + Cardinality(answered)
  BY DEF ExpireChunk
<1>5. PICK answered \in SUBSET done : count' = count + Cardinality(answered)
  BY <1>4
<1>11. Cardinality(answered) \in Nat
  BY <1>1, <1>2, AnsweredProperties DEF TypeOK
<1>6. Present(at) \subseteq Keys
  BY DEF Present
<1>7. expires' \in [Servers -> SUBSET Keys]
  BY <1>1, <1>4, <1>6 DEF TypeOK
<1>8. count' \in Nat
  BY <1>1, <1>5, <1>11 DEF TypeOK
<1>9. TypeOK'
  BY <1>1, <1>2, <1>3, <1>7, <1>8 DEF TypeOK, job, scan, bounds, history
<1>10. Places'
  BY <1>2, LaterPlaces DEF job, history
<1> QED BY <1>9, <1>10 DEF TypesInv

LEMMA ChunksEndTypes == TypesInv /\ ChunksEnd => TypesInv'
<1> SUFFICES ASSUME TypesInv, ChunksEnd PROVE TypesInv'
  OBVIOUS
<1>1. TypeOK /\ Places
  BY DEF TypesInv
<1>2. TypeOK'
  BY <1>1 DEF ChunksEnd, TypeOK, store, scan, bounds, history
<1>3. Places'
  BY LaterPlaces DEF ChunksEnd, store, history
<1> QED BY <1>2, <1>3 DEF TypesInv

LEMMA StepTypes == TypesInv /\ [Next]_vars => TypesInv'
<1> SUFFICES ASSUME TypesInv, [Next]_vars PROVE TypesInv'
  OBVIOUS
<1>1. CASE Begin
  BY <1>1, BeginTypes
<1>2. ASSUME NEW k \in Keys, NEW c \in Contents, OtherWrites(k, c)
      PROVE  TypesInv'
  BY <1>2, OtherWritesTypes
<1>3. CASE Move
  BY <1>3, MoveTypes
<1>4. ASSUME NEW m \in Masters, Loop(m)
      PROVE  TypesInv'
  BY <1>4, ScanTypes, LeaveTypes, TakeTypes1, TakeTypesTypes, TakeValuesTypes DEF Loop
<1>5. CASE Step
  BY <1>5, ScanEndsTypes, DeleteTypes, ExpireTypes, ChunksEndTypes DEF Step
<1>6. CASE UNCHANGED vars
  <2>1. Nodes' = Nodes
    BY <1>6 DEF vars, Nodes
  <2>2. TypeOK'
    BY <1>6 DEF vars, TypesInv, TypeOK
  <2>3. Places'
    BY <1>6, <2>1 DEF vars, TypesInv, Places, PlaceOf
  <2> QED BY <2>2, <2>3 DEF TypesInv
<1> QED BY <1>1, <1>2, <1>3, <1>4, <1>5, <1>6 DEF Next, Finished

LEMMA AlwaysTypes == Spec => []TypesInv
<1>1. TypesInv /\ [Next]_vars => TypesInv'
  BY StepTypes
<1> QED BY InitTypes, <1>1, PTL DEF Spec

\* A goroutine is where its call of SCAN, TYPE or the pipeline left it, exactly the one that
\* holds the mutex of scanEach is in fn, and no chunk starts past the end of the keys found.
THEOREM SweepTypes == Spec => []TypeOK
BY AlwaysTypes, PTL DEF TypesInv

------------------------------------------------------------------------------
(* The limit *)

\* A limited search that was not told to stop has room for a key, and one that was has none.
Counted ==
  /\ kind \in Limited /\ ~stopped => Len(found) < Limit
  /\ stopped => Len(found) >= Limit
  /\ kind \in {"regex", "value", "fuzzy"} \/ (kind = "sample" /\ phase \notin {"idle", "scan"})
       => Len(found) <= Limit

CountInv == TypesInv /\ Counted

LEMMA InitCount == Init => CountInv
<1> SUFFICES ASSUME Init PROVE CountInv
  OBVIOUS
<1>1. found = << >> /\ stopped = FALSE /\ phase = "idle" /\ Len(found) = 0
  BY DEF Init
<1>2. Counted
  BY <1>1, SweepAssumption DEF Counted
<1> QED BY <1>2, InitTypes DEF CountInv

LEMMA TakeCount ==
  ASSUME CountInv, NEW m \in Masters, Take(m)
  PROVE  Counted'
<1>1. TypeOK /\ Places /\ Counted
  BY DEF CountInv, TypesInv
<1>2. /\ pc[m] = "take" /\ kind # "value"
      /\ found' = IF stopped \/ page[m] = << >> THEN found ELSE Keep(page[m])
      /\ stopped' = (stopped \/ Full(found'))
      /\ UNCHANGED <<kind, phase>>
  BY DEF Take, job
<1>3. phase = "scan"
  BY <1>1, <1>2 DEF Places, PlaceOf, Active
<1>4. page[m] \in Seq(Keys) /\ found \in Seq(Keys) /\ found' \in Seq(Keys)
  <2>1. page[m] \in Seq(Keys) /\ found \in Seq(Keys)
    BY <1>1 DEF TypeOK
  <2> QED BY <1>2, <2>1, KeepProperties
<1>5. Len(found) \in Nat /\ Len(found') \in Nat /\ Limit \in Nat
  BY <1>4, LenProperties, SweepAssumption
<1>6. CASE stopped \/ page[m] = << >>
  <2>1. found' = found
    BY <1>2, <1>6
  <2> QED BY <1>1, <1>2, <1>3, <1>5, <2>1 DEF Counted, Full
<1>7. CASE ~(stopped \/ page[m] = << >>)
  <2>1. found' = Keep(page[m])
    BY <1>2, <1>7
  <2>2. kind \in {"regex", "fuzzy"} => Len(found') <= Limit
    <3>1. kind = "regex" => Len(found) < Limit
      BY <1>1, <1>7 DEF Counted, Limited
    <3>2. kind = "fuzzy" => Len(found) <= Limit
      BY <1>1 DEF Counted
    <3>3. /\ kind = "regex" /\ Len(found) < Limit => Len(Keep(page[m])) <= Limit
          /\ kind = "fuzzy" /\ Len(found) <= Limit => Len(Keep(page[m])) <= Limit
      BY <1>4, KeepProperties
    <3> QED BY <2>1, <3>1, <3>2, <3>3
  <2>3. stopped' <=> kind \in Limited /\ Len(found') >= Limit
    <3>1. Full(found') <=> kind \in Limited /\ Len(found') >= Limit
      BY DEF Full
    <3>2. Full(found') \in BOOLEAN
      BY DEF Full
    <3> QED BY <1>2, <1>7, <3>1, <3>2
  <2> QED BY <1>1, <1>2, <1>3, <1>5, <1>7, <2>2, <2>3 DEF Counted
<1> QED BY <1>6, <1>7

LEMMA TakeValuesCount ==
  ASSUME CountInv, NEW m \in Masters, TakeValues(m)
  PROVE  Counted'
<1>1. TypeOK /\ Places /\ Counted
  BY DEF CountInv, TypesInv
<1>2. pc[m] = "values" /\ stopped' = Full(found') /\ UNCHANGED <<kind, phase>>
  BY DEF TakeValues, job
<1>3. kind = "value" /\ ~stopped
  BY <1>1, <1>2 DEF Places, PlaceOf
<1>4. found' = UpToLimit(Hits(m)) \/ found' = found
  BY DEF TakeValues
<1>5. Hits(m) \in Seq(Keys) /\ found \in Seq(Keys)
  BY HitsProperties DEF CountInv, TypesInv, TypeOK
<1>6. Len(found) < Limit
  BY <1>1, <1>3 DEF Counted, Limited
<1>7. found' \in Seq(Keys) /\ Len(found') <= Limit
  <2>1. Len(found) \in Nat /\ Limit \in Nat
    BY <1>5, LenProperties, SweepAssumption
  <2>2. UpToLimit(Hits(m)) \in Seq(Keys) /\ Len(UpToLimit(Hits(m))) <= Limit
    BY <1>5, <1>6, UpToLimitProperties
  <2> QED BY <1>4, <1>5, <1>6, <2>1, <2>2
<1>8. Len(found') \in Nat /\ Limit \in Nat
  BY <1>7, LenProperties, SweepAssumption
<1>9. stopped' <=> Len(found') >= Limit
  <2>1. Full(found') <=> Len(found') >= Limit
    BY <1>3 DEF Full, Limited
  <2>2. Full(found') \in BOOLEAN
    BY DEF Full
  <2> QED BY <1>2, <2>1, <2>2
<1> QED BY <1>2, <1>3, <1>7, <1>8, <1>9 DEF Counted

LEMMA ScanEndsCount == CountInv /\ ScanEnds => Counted'
<1> SUFFICES ASSUME CountInv, ScanEnds PROVE Counted'
  OBVIOUS
<1>1. TypeOK /\ Counted
  BY DEF CountInv, TypesInv
<1>2. found' = Cut /\ UNCHANGED <<kind, stopped>> /\ phase = "scan"
  BY DEF ScanEnds, scan
<1>3. found \in Seq(Keys) /\ found' \in Seq(Keys)
  BY <1>1, <1>2, CutProperties DEF TypeOK
<1>4. Len(found) \in Nat /\ Len(found') \in Nat /\ Limit \in Nat
  BY <1>3, LenProperties, SweepAssumption
<1>5. /\ kind # "sample" \/ Len(found) < Limit => found' = found
      /\ kind = "sample" => Len(found') <= Limit
      /\ Len(found) >= Limit => Len(found') >= Limit
  BY <1>2, <1>3, CutProperties
<1> QED BY <1>1, <1>2, <1>4, <1>5 DEF Counted, Limited

LEMMA CountKept ==
  ASSUME CountInv, kind' = kind, stopped' = stopped, found' = found,
         phase' \in {"idle", "scan"} \/ phase \notin {"idle", "scan"}
  PROVE  Counted'
BY DEF CountInv, Counted

LEMMA StepCount == CountInv /\ [Next]_vars => CountInv'
<1> SUFFICES ASSUME CountInv, [Next]_vars PROVE CountInv'
  OBVIOUS
<1>1. TypesInv'
  BY StepTypes DEF CountInv
<1>2. ASSUME Begin PROVE Counted'
  <2>1. kind' = kind /\ stopped' = stopped /\ found' = found /\ phase' = "scan"
    BY <1>2 DEF Begin
  <2> QED BY <2>1, CountKept
<1>3. ASSUME NEW k \in Keys, NEW c \in Contents, OtherWrites(k, c)
      PROVE  Counted'
  <2>1. kind' = kind /\ stopped' = stopped /\ found' = found /\ phase' = phase
    BY <1>3 DEF OtherWrites, job, scan
  <2> QED BY <2>1, CountKept
<1>4. ASSUME Move PROVE Counted'
  <2>1. kind' = kind /\ stopped' = stopped /\ found' = found /\ phase' = phase
    BY <1>4 DEF Move, job, scan
  <2> QED BY <2>1, CountKept
<1>5. ASSUME NEW m \in Masters, Loop(m)
      PROVE  Counted'
  <2>1. CASE Scan(m) \/ ScanError(m) \/ Leave(m) \/ TakeTypes(m)
    <3>1. kind' = kind /\ stopped' = stopped /\ found' = found /\ phase' = phase
      BY <2>1 DEF Scan, ScanError, Leave, TakeTypes, job
    <3> QED BY <3>1, CountKept
  <2>2. CASE Take(m)
    BY <2>2, TakeCount
  <2>3. CASE TakeValues(m)
    BY <2>3, TakeValuesCount
  <2> QED BY <1>5, <2>1, <2>2, <2>3 DEF Loop
<1>6. ASSUME ScanEnds PROVE Counted'
  BY <1>6, ScanEndsCount
<1>7. ASSUME DeleteChunk \/ DeleteError \/ ExpireChunk \/ ChunksEnd PROVE Counted'
  <2>1. kind' = kind /\ stopped' = stopped /\ found' = found /\ phase = "chunks"
    BY <1>7 DEF DeleteChunk, DeleteError, ExpireChunk, ChunksEnd, job, scan
  <2> QED BY <2>1, CountKept
<1>8. ASSUME UNCHANGED vars PROVE Counted'
  <2>1. kind' = kind /\ stopped' = stopped /\ found' = found /\ phase' = phase
    BY <1>8 DEF vars
  <2> QED BY <2>1, CountKept
<1> QED BY <1>1, <1>2, <1>3, <1>4, <1>5, <1>6, <1>7, <1>8 DEF Next, Step, Finished, CountInv

LEMMA AlwaysCount == Spec => []CountInv
<1>1. CountInv /\ [Next]_vars => CountInv'
  BY StepCount
<1> QED BY InitCount, <1>1, PTL DEF Spec

\* However the goroutines of the masters interleave, a search answers with at most maxKeys
\* keys, and the fuzzy search's heap never outgrows it.
THEOREM SweepLimit == Spec => []LimitRespected
<1>1. CountInv => LimitRespected
  BY SweepAssumption DEF CountInv, TypesInv, TypeOK, Counted, LimitRespected, Limited
<1> QED BY AlwaysCount, <1>1, PTL

------------------------------------------------------------------------------
(* The keys that were there *)

\* While the scan runs, the live keys are there and match, and what is there and matches has
\* been there; the keys a batch TTL has yet to reach are there.
Sets ==
  /\ steady \subseteq live
  /\ phase = "scan" => \A k \in Keys :
       /\ k \in live => db["first"][k] # "gone" /\ Matching(k)
       /\ db["first"][k] # "gone" /\ Matching(k) => k \in ever
  /\ phase = "chunks" /\ kind = "expire" => \A k \in steady : db["first"][k] # "gone"

\* SearchByValue's types of the keys no one has written are still those of the keys.
Reads ==
  ~broken /\ moved = "no" =>
    \A m \in Masters : pc[m] = "values" => \A k \in steady : read[m][k] = db["first"][k]

SetsInv == CountInv /\ Sets /\ Reads

LEMMA InitSets == Init => SetsInv
<1> SUFFICES ASSUME Init PROVE SetsInv
  OBVIOUS
<1>1. Sets
  BY DEF Init, Sets
<1>2. Reads
  BY DEF Init, Reads
<1> QED BY <1>1, <1>2, InitCount DEF SetsInv

LEMMA SetsKept ==
  ASSUME Sets, UNCHANGED <<steady, live, ever, db, kind>>,
         phase' = phase \/ phase' \notin {"scan", "chunks"}
  PROVE  Sets'
BY DEF Sets, Matching

LEMMA ReadsKept ==
  ASSUME Reads, UNCHANGED <<steady, db, read, pc>>,
         broken => broken', moved' = moved \/ moved' # "no"
  PROVE  Reads'
BY DEF Reads

LEMMA BeginSets == SetsInv /\ Begin => Sets' /\ Reads'
<1> SUFFICES ASSUME SetsInv, Begin PROVE Sets' /\ Reads'
  OBVIOUS
<1>1. at = "first"
  BY DEF Begin, SetsInv, CountInv, TypesInv, Places
<1> DEFINE there == {k \in Present(at) : Matching(k)}
<1>2. steady' = there /\ live' = there /\ ever' = there /\ phase' = "scan" /\ db' = db /\ kind' = kind
  BY DEF Begin, store
<1>3. \A k \in Keys : k \in there <=> db["first"][k] # "gone" /\ Matching(k)
  BY <1>1 DEF Present
<1>4. \A k : Matching(k)' <=> Matching(k)
  BY <1>2 DEF Matching
<1> HIDE DEF there
<1>5. Sets'
  BY <1>2, <1>3, <1>4 DEF Sets
<1>6. \A m \in Masters : pc'[m] # "values"
  BY DEF Begin
<1> QED BY <1>5, <1>6 DEF Reads

LEMMA OtherWritesSets ==
  ASSUME SetsInv, NEW k \in Keys, NEW c \in Contents, OtherWrites(k, c)
  PROVE  Sets' /\ Reads'
<1>1. TypeOK /\ Sets /\ Reads
  BY DEF SetsInv, CountInv, TypesInv
<1>2. /\ phase \in {"scan", "chunks"} /\ phase' = phase /\ kind' = kind
      /\ steady' = steady \ {k}
      /\ UNCHANGED <<pc, read, moved, broken>>
  BY DEF OtherWrites, job, scan
<1>3. db'["first"][k] = c /\ \A x \in Keys \ {k} : db'["first"][x] = db["first"][x]
  BY <1>1 DEF OtherWrites, TypeOK, Servers
<1>4. \A x : Matching(x)' <=> Matching(x)
  BY <1>2 DEF Matching
<1>5. \A x \in Keys \ {k} : (x \in live' <=> x \in live) /\ (x \in ever' <=> x \in ever)
  BY DEF OtherWrites
<1>6. steady' \subseteq live'
  BY <1>1, <1>2 DEF OtherWrites, Sets
<1>7. phase = "scan" =>
        /\ k \in live' => c # "gone" /\ Matching(k)
        /\ c # "gone" /\ Matching(k) => k \in ever'
  BY <1>1 DEF OtherWrites, Sets
<1>8. steady \subseteq Keys
  BY <1>1 DEF TypeOK
<1>9. Sets'
  <2>1. phase' = "scan" => \A x \in Keys :
          /\ x \in live' => db'["first"][x] # "gone" /\ Matching(x)'
          /\ db'["first"][x] # "gone" /\ Matching(x)' => x \in ever'
    <3> SUFFICES ASSUME phase' = "scan", NEW x \in Keys
                 PROVE  /\ x \in live' => db'["first"][x] # "gone" /\ Matching(x)'
                        /\ db'["first"][x] # "gone" /\ Matching(x)' => x \in ever'
      OBVIOUS
    <3>1. CASE x = k
      BY <1>2, <1>3, <1>4, <1>7, <3>1
    <3>2. CASE x # k
      BY <1>1, <1>2, <1>3, <1>4, <1>5, <3>2 DEF Sets
    <3> QED BY <3>1, <3>2
  <2>2. phase' = "chunks" /\ kind' = "expire" => \A x \in steady' : db'["first"][x] # "gone"
    BY <1>1, <1>2, <1>3, <1>8 DEF Sets
  <2> QED BY <1>6, <2>1, <2>2 DEF Sets
<1>10. Reads'
  BY <1>1, <1>2, <1>3, <1>8 DEF Reads
<1> QED BY <1>9, <1>10

LEMMA LoopSets ==
  ASSUME SetsInv, NEW m \in Masters, Loop(m)
  PROVE  Sets' /\ Reads'
<1>1. TypeOK /\ Places /\ Sets /\ Reads
  BY DEF SetsInv, CountInv, TypesInv
<1>2. UNCHANGED <<store, job, steady, live, ever, moved>> /\ (broken => broken')
  BY <1>1 DEF Loop, Scan, ScanError, Leave, Take, TakeTypes, TakeValues, history, TypeOK
<1>3. Sets'
  BY <1>1, <1>2, SetsKept DEF store, job
<1>4. moved = "no" => at = "first"
  BY <1>1 DEF Places
<1>5. \A n \in Masters \ {m} : (pc'[n] = "values" => pc[n] = "values") /\ read'[n] = read[n]
  BY <1>1 DEF Loop, Scan, ScanError, Leave, Take, TakeTypes, TakeValues, TypeOK
<1>6. pc'[m] = "values" => read'[m] = db[at] \/ broken'
  <2>1. CASE Scan(m) \/ ScanError(m) \/ Leave(m) \/ Take(m) \/ TakeValues(m)
    BY <1>1, <2>1, TurnPlace DEF Scan, ScanError, Leave, Take, TakeValues, TypeOK
  <2>2. CASE TakeTypes(m)
    <3>1. CASE stopped \/ page[m] = << >>
      BY <1>1, <2>2, <3>1, TurnPlace DEF TakeTypes, TypeOK
    <3>2. CASE ~(stopped \/ page[m] = << >>)
      BY <1>1, <2>2, <3>2 DEF TakeTypes, TypeOK
    <3> QED BY <3>1, <3>2
  <2> QED BY <2>1, <2>2 DEF Loop
<1>7. Reads'
  <2> SUFFICES ASSUME ~broken', moved' = "no", NEW n \in Masters, pc'[n] = "values", NEW k \in steady'
               PROVE  read'[n][k] = db'["first"][k]
    BY DEF Reads
  <2>1. ~broken /\ moved = "no" /\ k \in steady /\ db' = db
    BY <1>2 DEF store
  <2>2. CASE n = m
    BY <1>4, <1>6, <2>1, <2>2
  <2>3. CASE n # m
    BY <1>1, <1>5, <2>1, <2>3 DEF Reads
  <2> QED BY <2>2, <2>3
<1> QED BY <1>3, <1>7

LEMMA LaterSets == SetsInv /\ (Move \/ Step) => Sets' /\ Reads'
<1> SUFFICES ASSUME SetsInv, Move \/ Step PROVE Sets' /\ Reads'
  OBVIOUS
<1>1. TypeOK /\ Places /\ Sets /\ Reads
  BY DEF SetsInv, CountInv, TypesInv
<1>2. CASE Move
  <2>1. UNCHANGED <<steady, live, ever, db, kind, phase, read, pc, broken>> /\ moved' # "no"
    BY <1>2 DEF Move, job, scan
  <2> QED BY <1>1, <2>1, SetsKept, ReadsKept
<1>3. CASE ScanEnds
  <2>1. UNCHANGED <<steady, live, ever, db, kind, read, pc, broken, moved>> /\ phase = "scan" /\ phase' # "scan"
    BY <1>3 DEF ScanEnds, store, scan, history
  <2>2. steady \subseteq Keys
    BY <1>1 DEF TypeOK
  <2>3. Sets'
    BY <1>1, <2>1, <2>2 DEF Sets
  <2> QED BY <1>1, <2>1, <2>3, ReadsKept
<1>4. CASE DeleteChunk \/ DeleteError
  <2>1. UNCHANGED <<steady, live, ever, kind, pc>> /\ kind = "delete" /\ phase = "chunks" /\ phase' # "scan"
    BY <1>4 DEF DeleteChunk, DeleteError, job, scan, history
  <2>2. Sets'
    BY <1>1, <2>1 DEF Sets
  <2>3. \A m \in Masters : pc[m] # "values"
    BY <1>1, <2>1 DEF Places, PlaceOf, Active
  <2> QED BY <2>1, <2>2, <2>3 DEF Reads
<1>5. CASE ExpireChunk \/ ChunksEnd
  <2>1. /\ UNCHANGED <<steady, live, ever, db, kind, read, pc, moved>>
        /\ phase' = phase \/ phase' = "done"
        /\ phase = "chunks"
    BY <1>5 DEF ExpireChunk, ChunksEnd, job, scan, store, history
  <2>2. \A m \in Masters : pc[m] # "values"
    BY <1>1, <2>1 DEF Places, PlaceOf, Active
  <2>3. Sets'
    BY <1>1, <2>1, SetsKept
  <2> QED BY <2>1, <2>2, <2>3 DEF Reads
<1> QED BY <1>2, <1>3, <1>4, <1>5 DEF Step

LEMMA StepSets == SetsInv /\ [Next]_vars => SetsInv'
<1> SUFFICES ASSUME SetsInv, [Next]_vars PROVE SetsInv'
  OBVIOUS
<1>1. CountInv'
  BY StepCount DEF SetsInv
<1>2. ASSUME UNCHANGED vars PROVE Sets' /\ Reads'
  <2>1. UNCHANGED <<steady, live, ever, db, kind, phase, read, pc, broken, moved>>
    BY <1>2 DEF vars
  <2> QED BY <2>1, SetsKept, ReadsKept DEF SetsInv
<1>3. Sets' /\ Reads'
  BY <1>2, BeginSets, OtherWritesSets, LoopSets, LaterSets DEF Next, Finished
<1> QED BY <1>1, <1>3 DEF SetsInv

------------------------------------------------------------------------------
(* What the scan has dealt with *)

Home(k) == IF clustered THEN HomeOf[k] ELSE Solo

\* The key is in a bucket that its node has yet to read, or on the page that it has read.
Ahead(k) == pos[Home(k)] <= BucketOf[k] \/ k \in ToSet(page[Home(k)])

\* The operation has the key, or may do without it.
Had(k) ==
  \/ k \in ToSet(found)
  \/ stopped
  \/ kind = "regex" /\ k \notin Wanted
  \/ kind = "value" /\ (k \notin steady \/ broken \/ moved # "no" \/ db["first"][k] \notin Searchable)
  \/ kind = "fuzzy" /\ (Score[k] = 0 \/ NoBetter(k))

Cover ==
  /\ OneServer /\ phase = "scan" => \A k \in live : Ahead(k) \/ Had(k)
  /\ OneServer /\ phase \in {"chunks", "done"} => \A k \in live : Had(k)

\* No key comes from nowhere.
Origin ==
  OneServer => ToSet(found) \subseteq ever /\ \A m \in Masters : ToSet(page[m]) \subseteq ever

CoverInv == SetsInv /\ Cover /\ Origin

LEMMA EmptySet == ToSet(<< >>) = {}
BY DEF ToSet

LEMMA InitCover == Init => CoverInv
<1> SUFFICES ASSUME Init PROVE CoverInv
  OBVIOUS
<1>1. Cover
  BY DEF Init, Cover
<1>2. Origin
  BY EmptySet DEF Init, Origin
<1> QED BY <1>1, <1>2, InitSets DEF CoverInv

\* A step that keeps nothing new leaves what was had.
LEMMA HadKept ==
  ASSUME NEW k, found' = found, kind' = kind, stopped => stopped', broken => broken',
         k \in steady' => k \in steady /\ (kind = "value" => db'["first"][k] = db["first"][k]),
         moved' = moved \/ moved' # "no", Had(k)
  PROVE  Had(k)'
BY DEF Had, NoBetter

LEMMA HomeProperties ==
  ASSUME NEW k \in Keys, clustered \in BOOLEAN
  PROVE  Home(k) \in Masters /\ Home(k) \in Nodes /\ BucketOf[k] \in 1 .. Buckets /\ Buckets \in Nat
BY SoloIsMaster, SweepAssumption DEF Home, Nodes

\* A user who went to another server is not back on one.
LEMMA StaysOne ==
  ASSUME CoverInv, [Next]_vars, OneServer'
  PROVE  OneServer
<1>1. TypeOK
  BY DEF CoverInv, SetsInv, CountInv, TypesInv
<1>2. clustered' = clustered
  BY DEF Next, Begin, OtherWrites, Move, Loop, Scan, ScanError, Leave, Take, TakeTypes, TakeValues,
         Step, ScanEnds, DeleteChunk, DeleteError, ExpireChunk, ChunksEnd, Finished, vars, job
<1>3. moved' = moved \/ (Move /\ moved = "no")
  BY DEF Next, Begin, OtherWrites, Move, Loop, Scan, ScanError, Leave, Take, TakeTypes, TakeValues,
         Step, ScanEnds, DeleteChunk, DeleteError, ExpireChunk, ChunksEnd, Finished, vars, history
<1> QED BY <1>2, <1>3 DEF OneServer

LEMMA BeginCover == CoverInv /\ Begin => Cover' /\ Origin'
<1> SUFFICES ASSUME CoverInv, Begin PROVE Cover' /\ Origin'
  OBVIOUS
<1>1. TypeOK /\ Places
  BY DEF CoverInv, SetsInv, CountInv, TypesInv
<1>2. /\ phase = "idle" /\ phase' = "scan" /\ live' \subseteq Keys
      /\ UNCHANGED <<pos, page, clustered, found>>
  BY DEF Begin, Present
<1>3. \A m \in Masters : pos[m] = 1 /\ page[m] = << >>
  BY <1>1, <1>2 DEF Places, PlaceOf
<1>4. \A k \in live' : Ahead(k)'
  <2> TAKE k \in live'
  <2>1. Home(k)' = Home(k) /\ Home(k) \in Masters /\ BucketOf[k] \in 1 .. Buckets /\ Buckets \in Nat
    BY <1>1, <1>2, HomeProperties DEF Home, TypeOK
  <2> QED BY <1>2, <1>3, <2>1 DEF Ahead
<1>5. Cover'
  BY <1>2, <1>4 DEF Cover
<1>6. found = << >>
  BY <1>1, <1>2 DEF Places
<1> QED BY <1>2, <1>3, <1>5, <1>6, EmptySet DEF Origin

LEMMA OtherWritesCover ==
  ASSUME CoverInv, NEW k \in Keys, NEW c \in Contents, OtherWrites(k, c)
  PROVE  Cover' /\ Origin'
<1>1. TypeOK /\ Cover /\ Origin
  BY DEF CoverInv, SetsInv, CountInv, TypesInv
<1>2. /\ steady' = steady \ {k} /\ live' \subseteq live /\ ever \subseteq ever'
      /\ UNCHANGED <<phase, kind, clustered, pos, page, found, stopped, moved, broken>>
  BY DEF OtherWrites, job, scan
<1>3. \A x \in Keys \ {k} : db'["first"][x] = db["first"][x]
  BY <1>1 DEF OtherWrites, TypeOK, Servers
<1>4. \A x \in Keys : Had(x) => Had(x)'
  <2> TAKE x \in Keys
  <2>1. x \in steady' => x \in steady /\ db'["first"][x] = db["first"][x]
    BY <1>2, <1>3
  <2> QED BY <1>2, <2>1, HadKept
<1>5. \A x : Ahead(x)' <=> Ahead(x)
  BY <1>2 DEF Ahead, Home
<1>6. OneServer' <=> OneServer
  BY <1>2 DEF OneServer
<1>7. live \subseteq Keys
  BY <1>1 DEF TypeOK
<1>8. Cover'
  BY <1>1, <1>2, <1>4, <1>5, <1>6, <1>7 DEF Cover
<1> QED BY <1>1, <1>2, <1>6, <1>8 DEF Origin

LEMMA MoveCover == CoverInv /\ Move => Cover' /\ Origin'
<1> SUFFICES ASSUME CoverInv, Move PROVE Cover' /\ Origin'
  OBVIOUS
<1>1. Cover /\ Origin
  BY DEF CoverInv
<1>2. /\ UNCHANGED <<db, steady, live, ever, phase, kind, clustered, pos, page, found, stopped, broken>>
      /\ moved' # "no" /\ moved = "no"
  BY DEF Move, job, scan
<1>3. \A x : Had(x) => Had(x)'
  <2> TAKE x
  <2> QED BY <1>2, HadKept
<1>4. \A x : Ahead(x)' <=> Ahead(x)
  BY <1>2 DEF Ahead, Home
<1>5. OneServer
  BY <1>2 DEF OneServer
<1>6. Cover'
  BY <1>1, <1>2, <1>3, <1>4, <1>5 DEF Cover
<1> QED BY <1>1, <1>2, <1>5, <1>6 DEF Origin

LEMMA ScanCover ==
  ASSUME CoverInv, NEW m \in Masters, Scan(m)
  PROVE  Cover' /\ Origin'
<1>1. TypeOK /\ Places /\ Sets /\ Cover /\ Origin
  BY DEF CoverInv, SetsInv, CountInv, TypesInv
<1>2. /\ pc[m] = "loop"
      /\ pos' = [pos EXCEPT ![m] = @ + 1]
      /\ UNCHANGED <<store, job, found, stopped, history>>
  BY DEF Scan
<1>3. PICK p \in Pages(m) : page' = [page EXCEPT ![m] = p]
  BY DEF Scan
<1>4. phase = "scan" /\ page[m] = << >> /\ m \in Nodes
  BY <1>1, <1>2 DEF Places, PlaceOf, Active
<1>5. KeysIn(m, pos[m]) \subseteq ToSet(p) /\ \A k \in ToSet(p) : k \in Present(at) /\ Matching(k)
  <2>1. pos[m] \in Nat /\ repeats \in 0 .. MaxRepeats
    BY <1>1, SweepAssumption DEF TypeOK
  <2> QED BY <2>1, PageProperties
<1>6. \A n \in Masters \ {m} : page'[n] = page[n] /\ pos'[n] = pos[n]
  BY <1>1, <1>2, <1>3 DEF TypeOK
<1>7. pos'[m] = pos[m] + 1 /\ page'[m] = p /\ pos[m] \in Nat
  BY <1>1, <1>2, <1>3, SweepAssumption DEF TypeOK
<1>8. OneServer' <=> OneServer
  BY <1>2 DEF OneServer, job, history
<1>9. OneServer => at = "first"
  BY <1>1, <1>4 DEF Scan, OneServer, Places, TypeOK
<1>10. ASSUME OneServer, NEW k \in live
       PROVE  Ahead(k)' \/ Had(k)'
  <2>1. k \in Keys /\ Home(k)' = Home(k) /\ Home(k) \in Masters /\ BucketOf[k] \in Nat
    BY <1>1, <1>2, HomeProperties DEF Home, job, TypeOK
  <2>2. CASE Had(k)
    BY <1>2, <2>2, HadKept DEF store, job, history
  <2>3. CASE Ahead(k) /\ Home(k) # m
    BY <1>6, <2>1, <2>3 DEF Ahead
  <2>4. CASE Ahead(k) /\ Home(k) = m /\ pos[m] = BucketOf[k]
    <3>1. k \in Present(at) /\ Matching(k)
      BY <1>1, <1>4, <1>9, <1>10, <2>1 DEF Sets, Present
    <3>2. clustered => HomeOf[k] = m
      BY <2>4 DEF Home
    <3>3. k \in KeysIn(m, pos[m])
      BY <2>1, <2>4, <3>1, <3>2 DEF KeysIn
    <3> QED BY <1>5, <1>7, <2>1, <2>4, <3>3 DEF Ahead
  <2>5. CASE Ahead(k) /\ Home(k) = m /\ pos[m] # BucketOf[k]
    <3>1. pos[m] <= BucketOf[k]
      BY <1>4, <2>5, EmptySet DEF Ahead
    <3>2. pos'[m] <= BucketOf[k]
      BY <1>7, <2>1, <2>5, <3>1
    <3> QED BY <2>1, <2>5, <3>2 DEF Ahead
  <2> QED BY <1>1, <1>4, <1>10, <2>2, <2>3, <2>4, <2>5 DEF Cover
<1>11. Cover'
  BY <1>2, <1>4, <1>8, <1>10 DEF Cover, job, history
<1>12. Origin'
  <2> SUFFICES ASSUME OneServer
               PROVE  ToSet(found') \subseteq ever' /\ \A n \in Masters : ToSet(page'[n]) \subseteq ever'
    BY <1>8 DEF Origin
  <2>1. ToSet(p) \subseteq ever
    BY <1>1, <1>4, <1>5, <1>9 DEF Sets, Present
  <2>2. \A n \in Masters : ToSet(page'[n]) \subseteq ever
    <3> TAKE n \in Masters
    <3>1. CASE n = m
      BY <1>7, <2>1, <3>1
    <3>2. CASE n # m
      BY <1>1, <1>6, <3>2 DEF Origin
    <3> QED BY <3>1, <3>2
  <2> QED BY <1>1, <1>2, <2>2 DEF Origin, history
<1> QED BY <1>11, <1>12

LEMMA LeaveCover ==
  ASSUME CoverInv, NEW m \in Masters, ScanError(m) \/ Leave(m)
  PROVE  Cover' /\ Origin'
<1>1. Cover /\ Origin
  BY DEF CoverInv
<1>2. UNCHANGED <<db, steady, live, ever, phase, kind, clustered, pos, page, found, stopped, broken, moved>>
  BY DEF ScanError, Leave, job, store, history
<1>3. \A x : Had(x) => Had(x)'
  <2> TAKE x
  <2> QED BY <1>2, HadKept
<1>4. \A x : Ahead(x)' <=> Ahead(x)
  BY <1>2 DEF Ahead, Home
<1>5. OneServer' <=> OneServer
  BY <1>2 DEF OneServer
<1>6. Cover'
  BY <1>1, <1>2, <1>3, <1>4, <1>5 DEF Cover
<1> QED BY <1>1, <1>2, <1>5, <1>6 DEF Origin

\* The end of a goroutine's turn: what is on the page it puts away it must have dealt with.
LEMMA TurnCover ==
  ASSUME CoverInv, NEW m \in Masters, phase = "scan",
         UNCHANGED <<live, ever, phase, clustered, pos, moved>>,
         page' = [page EXCEPT ![m] = << >>],
         \A k \in live : Had(k) => Had(k)',
         OneServer => \A k \in live : k \in ToSet(page[m]) => Had(k)',
         ToSet(found') \subseteq ToSet(found) \cup ToSet(page[m])
  PROVE  Cover' /\ Origin'
<1>1. TypeOK /\ Cover /\ Origin
  BY DEF CoverInv, SetsInv, CountInv, TypesInv
<1>2. page'[m] = << >> /\ \A n \in Masters \ {m} : page'[n] = page[n]
  BY <1>1 DEF TypeOK
<1>3. OneServer' <=> OneServer
  BY DEF OneServer
<1>4. ASSUME OneServer, NEW k \in live
      PROVE  Ahead(k)' \/ Had(k)'
  <2>1. Home(k)' = Home(k) /\ Home(k) \in Masters
    BY <1>1, HomeProperties DEF Home, TypeOK
  <2>2. CASE Had(k)
    BY <2>2
  <2>3. CASE k \in ToSet(page[Home(k)])
    <3>1. CASE Home(k) = m
      BY <1>4, <2>3, <3>1
    <3>2. CASE Home(k) # m
      BY <1>2, <2>1, <2>3, <3>2 DEF Ahead
    <3> QED BY <3>1, <3>2
  <2>4. CASE pos[Home(k)] <= BucketOf[k]
    BY <2>1, <2>4 DEF Ahead
  <2> QED BY <1>1, <1>4, <2>2, <2>3, <2>4 DEF Cover, Ahead
<1>5. Cover'
  BY <1>3, <1>4 DEF Cover
<1>6. Origin'
  <2> SUFFICES ASSUME OneServer
               PROVE  ToSet(found') \subseteq ever' /\ \A n \in Masters : ToSet(page'[n]) \subseteq ever'
    BY <1>3 DEF Origin
  <2>1. ToSet(found') \subseteq ever
    BY <1>1 DEF Origin
  <2>2. \A n \in Masters : ToSet(page'[n]) \subseteq ever
    BY <1>1, <1>2, EmptySet DEF Origin
  <2> QED BY <2>1, <2>2
<1> QED BY <1>5, <1>6

\* What Full makes of the limit, as a fact about stopped.
LEMMA StopsAtLimit ==
  ASSUME NEW kept \in Seq(Keys), kind \in Limited, ~(Len(kept) < Limit)
  PROVE  Full(kept)
<1>1. Len(kept) \in Nat /\ Limit \in Nat
  BY LenProperties, SweepAssumption
<1> QED BY <1>1 DEF Full

LEMMA TakeCover ==
  ASSUME CoverInv, NEW m \in Masters, Take(m)
  PROVE  Cover' /\ Origin'
<1>1. TypeOK /\ Places /\ Counted
  BY DEF CoverInv, SetsInv, CountInv, TypesInv
<1>2. /\ pc[m] = "take" /\ kind # "value"
      /\ page' = [page EXCEPT ![m] = << >>]
      /\ UNCHANGED <<store, job, pos, history>>
  BY DEF Take
<1>3. phase = "scan"
  BY <1>1, <1>2 DEF Places, PlaceOf, Active
<1>4. page[m] \in Seq(Keys) /\ found \in Seq(Keys) /\ live \subseteq Keys
  BY <1>1 DEF TypeOK
<1>5. (stopped => stopped') /\ (Full(found') => stopped')
  <2>1. Full(found') \in BOOLEAN /\ stopped \in BOOLEAN
    BY <1>1 DEF Full, TypeOK
  <2> QED BY <2>1 DEF Take
<1>6. CASE stopped \/ page[m] = << >>
  <2>1. found' = found
    BY <1>6 DEF Take
  <2>2. \A k \in live : Had(k) => Had(k)'
    <3> TAKE k \in live
    <3> QED BY <1>2, <1>5, <2>1, HadKept DEF store, job, history
  <2>3. \A k \in live : k \in ToSet(page[m]) => Had(k)'
    BY <1>5, <1>6, EmptySet DEF Had
  <2> QED BY <1>2, <1>3, <2>1, <2>2, <2>3, TurnCover DEF job, history
<1>7. CASE ~(stopped \/ page[m] = << >>)
  <2> DEFINE p == page[m]
  <2>1. found' = Keep(p)
    BY <1>7 DEF Take
  <2> HIDE DEF p
  <2>2. p \in Seq(Keys)
    BY <1>4 DEF p
  <2>3. Keep(p) \in Seq(Keys) /\ ToSet(Keep(p)) \subseteq ToSet(found) \cup ToSet(p)
    BY <1>4, <2>2, KeepProperties
  <2>4. /\ kind' = kind /\ kind # "value" /\ ~stopped
        /\ UNCHANGED <<db, steady, moved, broken, live, ever, phase, clustered, pos>>
    BY <1>2, <1>7 DEF job, store, history
  <2>5. CASE kind = "regex"
    <3>1. Len(found) < Limit
      BY <1>1, <2>4, <2>5 DEF Counted, Limited
    <3>2. /\ ToSet(found) \subseteq ToSet(found')
          /\ Len(found') < Limit => ToSet(p) \cap Wanted \subseteq ToSet(found')
      BY <1>4, <2>1, <2>2, <2>5, <3>1, KeepProperties
    <3>3. ~(Len(found') < Limit) => stopped'
      BY <1>5, <2>1, <2>3, <2>5, StopsAtLimit DEF Limited
    <3>4. \A k \in live : Had(k) => Had(k)'
      BY <2>4, <2>5, <3>2 DEF Had
    <3>5. \A k \in live : k \in ToSet(p) => Had(k)'
      BY <2>4, <2>5, <3>2, <3>3 DEF Had
    <3> QED BY <1>2, <1>3, <2>1, <2>3, <2>4, <3>4, <3>5, TurnCover DEF p
  <2>6. CASE kind = "fuzzy"
    <3>1. Len(found) <= Limit
      BY <1>1, <2>6 DEF Counted
    <3>2. /\ \A x \in Keys : Offered(found, x) => Offered(found', x)
          /\ \A x \in ToSet(p) : Offered(found', x)
      BY <1>4, <2>1, <2>2, <2>6, <3>1, KeepProperties
    <3>3. \A x \in Keys : Had(x) <=> Offered(found, x)
      BY <2>4, <2>6 DEF Had, NoBetter, Offered
    <3>4. \A x \in Keys : Offered(found', x) => Had(x)'
      BY <2>4, <2>6 DEF Had, NoBetter, Offered
    <3>5. \A k \in live : Had(k) => Had(k)'
      BY <1>4, <3>2, <3>3, <3>4
    <3>6. \A k \in live : k \in ToSet(p) => Had(k)'
      BY <1>4, <3>2, <3>4
    <3> QED BY <1>2, <1>3, <2>1, <2>3, <2>4, <3>5, <3>6, TurnCover DEF p
  <2>7. CASE kind \notin {"regex", "fuzzy"}
    <3>1. ToSet(found) \subseteq ToSet(found') /\ ToSet(p) \subseteq ToSet(found')
      BY <1>4, <2>1, <2>2, <2>7, KeepProperties
    <3>2. \A k \in live : Had(k) => Had(k)'
      BY <2>4, <2>7, <3>1 DEF Had
    <3>3. \A k \in live : k \in ToSet(p) => Had(k)'
      BY <3>1 DEF Had
    <3> QED BY <1>2, <1>3, <2>1, <2>3, <2>4, <3>2, <3>3, TurnCover DEF p
  <2> QED BY <2>5, <2>6, <2>7
<1> QED BY <1>6, <1>7

LEMMA TakeTypesCover ==
  ASSUME CoverInv, NEW m \in Masters, TakeTypes(m)
  PROVE  Cover' /\ Origin'
<1>1. TypeOK /\ Places /\ Cover /\ Origin
  BY DEF CoverInv, SetsInv, CountInv, TypesInv
<1>2. /\ pc[m] = "take"
      /\ UNCHANGED <<db, live, ever, steady, moved, phase, kind, clustered, pos, stopped, found>>
      /\ broken => broken'
  BY <1>1 DEF TakeTypes, store, job, TypeOK
<1>3. phase = "scan"
  BY <1>1, <1>2 DEF Places, PlaceOf, Active
<1>4. \A k : Had(k) => Had(k)'
  <2> TAKE k
  <2> QED BY <1>2, HadKept
<1>5. CASE stopped \/ page[m] = << >>
  <2>1. page' = [page EXCEPT ![m] = << >>]
    BY <1>5 DEF TakeTypes
  <2>2. \A k \in live : k \in ToSet(page[m]) => Had(k)'
    BY <1>2, <1>5, EmptySet DEF Had
  <2> QED BY <1>2, <1>3, <1>4, <2>1, <2>2, TurnCover
<1>6. CASE ~(stopped \/ page[m] = << >>)
  <2>1. page' = page
    BY <1>6 DEF TakeTypes
  <2>2. \A k : Ahead(k)' <=> Ahead(k)
    BY <1>2, <2>1 DEF Ahead, Home
  <2>3. OneServer' <=> OneServer
    BY <1>2 DEF OneServer
  <2>4. Cover'
    BY <1>1, <1>2, <1>4, <2>2, <2>3 DEF Cover
  <2> QED BY <1>1, <1>2, <2>1, <2>3, <2>4 DEF Origin
<1> QED BY <1>5, <1>6

LEMMA TakeValuesCover ==
  ASSUME CoverInv, NEW m \in Masters, TakeValues(m)
  PROVE  Cover' /\ Origin'
<1>1. TypeOK /\ Places /\ Counted /\ Reads /\ TypesInv
  BY DEF CoverInv, SetsInv, CountInv, TypesInv
<1>2. /\ pc[m] = "values" /\ stopped' = Full(found')
      /\ page' = [page EXCEPT ![m] = << >>]
      /\ UNCHANGED <<db, live, ever, steady, moved, phase, kind, clustered, pos>>
  BY DEF TakeValues, store, job
<1>3. phase = "scan" /\ kind = "value" /\ ~stopped
  BY <1>1, <1>2 DEF Places, PlaceOf, Active
<1>4. found \in Seq(Keys) /\ page[m] \in Seq(Keys) /\ live \subseteq Keys /\ steady \subseteq Keys
  BY <1>1 DEF TypeOK
<1> DEFINE h == Hits(m)
<1>5. /\ h \in Seq(Keys)
      /\ ToSet(h) = ToSet(page[m]) \cap {k \in Keys : read[m][k] \in Searchable /\ db[at][k] = read[m][k]}
  BY <1>1, HitsProperties
<1>6. (found' = UpToLimit(h) /\ broken' = broken) \/ (found' = found /\ broken' = TRUE)
  BY DEF TakeValues
<1> HIDE DEF h
<1>7. broken => broken'
  BY <1>6
<1>8. Len(found) < Limit
  BY <1>1, <1>3 DEF Counted, Limited
<1>9. CASE found' = found /\ broken' = TRUE
  <2>1. \A k \in live : Had(k)'
    BY <1>2, <1>3, <1>9 DEF Had
  <2> QED BY <1>2, <1>3, <1>9, <2>1, TurnCover
<1>10. CASE found' = UpToLimit(h) /\ broken' = broken
  <2>1. /\ found' \in Seq(Keys) /\ ToSet(found) \subseteq ToSet(found')
        /\ ToSet(found') \subseteq ToSet(found) \cup ToSet(h)
        /\ Len(found') < Limit => ToSet(h) \subseteq ToSet(found')
    BY <1>4, <1>5, <1>8, <1>10, UpToLimitProperties
  <2>2. ~(Len(found') < Limit) => stopped'
    BY <1>2, <1>3, <2>1, StopsAtLimit DEF Limited
  <2>3. \A k \in live : Had(k) => Had(k)'
    BY <1>2, <1>3, <1>10, <2>1 DEF Had
  <2>4. \A k \in live : k \in ToSet(page[m]) => Had(k)'
    <3> SUFFICES ASSUME NEW k \in live, k \in ToSet(page[m]),
                        k \in steady, ~broken, moved = "no", db["first"][k] \in Searchable
                 PROVE  k \in ToSet(found') \/ stopped'
      BY <1>2, <1>3, <1>10 DEF Had
    <3>1. at = "first" /\ read[m][k] = db["first"][k]
      BY <1>1, <1>2 DEF Places, Reads
    <3>2. k \in ToSet(h)
      BY <1>4, <1>5, <3>1
    <3> QED BY <2>1, <2>2, <3>2
  <2>5. ToSet(found') \subseteq ToSet(found) \cup ToSet(page[m])
    BY <1>5, <2>1
  <2> QED BY <1>2, <1>3, <2>3, <2>4, <2>5, TurnCover
<1> QED BY <1>6, <1>9, <1>10

LEMMA ScanEndsCover == CoverInv /\ ScanEnds => Cover' /\ Origin'
<1> SUFFICES ASSUME CoverInv, ScanEnds PROVE Cover' /\ Origin'
  OBVIOUS
<1>1. TypeOK /\ Places /\ Counted /\ Cover /\ Origin
  BY DEF CoverInv, SetsInv, CountInv, TypesInv
<1>2. /\ phase = "scan" /\ found' = Cut
      /\ phase' \in {"chunks", "done"} => \A m \in Nodes : pc[m] = "ended"
      /\ phase' # "scan"
      /\ UNCHANGED <<db, live, ever, steady, moved, broken, kind, clustered, pos, pc, page, stopped>>
  BY DEF ScanEnds, store, scan, history
<1>3. OneServer' <=> OneServer
  BY <1>2 DEF OneServer
<1>4. found \in Seq(Keys) /\ live \subseteq Keys /\ clustered \in BOOLEAN
  BY <1>1 DEF TypeOK
<1>5. ASSUME OneServer, NEW k \in live, phase' \in {"chunks", "done"}
      PROVE  Had(k)'
  <2>1. Home(k) \in Nodes /\ Home(k) \in Masters /\ BucketOf[k] \in 1 .. Buckets /\ Buckets \in Nat
    BY <1>4, HomeProperties
  <2>2. pc[Home(k)] = "ended" /\ page[Home(k)] = << >> /\ (pos[Home(k)] > Buckets \/ stopped)
    BY <1>1, <1>2, <1>5, <2>1 DEF Places, PlaceOf
  <2>3. Had(k)
    <3>1. pos[Home(k)] \in Nat
      BY <1>1, <2>1, SweepAssumption DEF TypeOK
    <3>2. pos[Home(k)] > Buckets => ~Ahead(k)
      BY <2>1, <2>2, <3>1, EmptySet DEF Ahead
    <3> QED BY <1>1, <1>2, <1>5, <2>2, <3>2 DEF Cover, Had
  <2>4. CASE stopped
    BY <1>2, <2>4 DEF Had
  <2>5. CASE ~stopped
    <3>1. found' = found
      BY <1>1, <1>2, <1>4, <2>5, CutProperties DEF Counted, Limited
    <3> QED BY <1>2, <2>3, <3>1, HadKept
  <2> QED BY <2>4, <2>5
<1>6. Cover'
  BY <1>2, <1>3, <1>5 DEF Cover
<1>7. ToSet(found') \subseteq ToSet(found)
  BY <1>2, <1>4, CutProperties
<1> QED BY <1>1, <1>2, <1>3, <1>6, <1>7 DEF Origin

LEMMA LaterCover ==
  CoverInv /\ (DeleteChunk \/ DeleteError \/ ExpireChunk \/ ChunksEnd) => Cover' /\ Origin'
<1> SUFFICES ASSUME CoverInv, DeleteChunk \/ DeleteError \/ ExpireChunk \/ ChunksEnd
             PROVE  Cover' /\ Origin'
  OBVIOUS
<1>1. TypeOK /\ Places /\ Cover /\ Origin
  BY DEF CoverInv, SetsInv, CountInv, TypesInv
<1>2. /\ phase = "chunks" /\ phase' # "scan"
      /\ UNCHANGED <<live, ever, steady, moved, kind, clustered, page, stopped, found>>
      /\ broken => broken'
  BY <1>1 DEF DeleteChunk, DeleteError, ExpireChunk, ChunksEnd, job, scan, store, history, TypeOK
<1>3. kind # "value"
  BY <1>1, <1>2 DEF Places, Written
<1>4. \A k : Had(k) => Had(k)'
  <2> TAKE k
  <2> QED BY <1>2, <1>3, HadKept
<1>5. OneServer' <=> OneServer
  BY <1>2 DEF OneServer
<1>6. Cover'
  BY <1>1, <1>2, <1>4, <1>5 DEF Cover
<1> QED BY <1>1, <1>2, <1>5, <1>6 DEF Origin

LEMMA StepCover == CoverInv /\ [Next]_vars => CoverInv'
<1> SUFFICES ASSUME CoverInv, [Next]_vars PROVE CoverInv'
  OBVIOUS
<1>1. SetsInv'
  BY StepSets DEF CoverInv
<1>2. ASSUME UNCHANGED vars PROVE Cover' /\ Origin'
  <2>1. /\ UNCHANGED <<db, live, ever, steady, moved, kind, clustered, pos, page, stopped, found>>
        /\ phase' = phase /\ broken' = broken
    BY <1>2 DEF vars
  <2>2. \A k : Had(k) => Had(k)'
    <3> TAKE k
    <3> QED BY <2>1, HadKept
  <2>3. \A k : Ahead(k)' <=> Ahead(k)
    BY <2>1 DEF Ahead, Home
  <2>4. OneServer' <=> OneServer
    BY <2>1 DEF OneServer
  <2>5. Cover /\ Origin
    BY DEF CoverInv
  <2>6. Cover'
    BY <2>1, <2>2, <2>3, <2>4, <2>5 DEF Cover
  <2> QED BY <2>1, <2>4, <2>5, <2>6 DEF Origin
<1>3. ASSUME NEW m \in Masters, Loop(m)
      PROVE  Cover' /\ Origin'
  BY <1>3, ScanCover, LeaveCover, TakeCover, TakeTypesCover, TakeValuesCover DEF Loop
<1>4. Cover' /\ Origin'
  BY <1>2, <1>3, BeginCover, OtherWritesCover, MoveCover, ScanEndsCover, LaterCover
     DEF Next, Step, Finished
<1> QED BY <1>1, <1>4 DEF CoverInv

LEMMA AlwaysCover == Spec => []CoverInv
<1>1. CoverInv /\ [Next]_vars => CoverInv'
  BY StepCover
<1> QED BY InitCover, <1>1, PTL DEF Spec

------------------------------------------------------------------------------
(* No key is met twice, unless SCAN returns it twice *)

\* The keys kept, and those on a page that no one has taken yet, are from buckets that their
\* nodes have read, and all different.
Once ==
  repeats = 0 =>
    /\ IsInjective(found)
    /\ \A k \in ToSet(found) : BucketOf[k] < pos[Home(k)]
    /\ \A m \in Masters :
         /\ IsInjective(page[m])
         /\ \A k \in ToSet(page[m]) : Home(k) = m /\ BucketOf[k] < pos[m] /\ k \notin ToSet(found)

OnceInv == TypesInv /\ Once

LEMMA EmptyOnce == IsInjective(<< >>)
BY DEF IsInjective

LEMMA InitOnce == Init => OnceInv
<1> SUFFICES ASSUME Init PROVE OnceInv
  OBVIOUS
<1>1. found = << >> /\ \A m \in Masters : page[m] = << >>
  BY DEF Init
<1>2. Once
  BY <1>1, EmptyOnce, EmptySet DEF Once
<1> QED BY <1>2, InitTypes DEF OnceInv

LEMMA OnceKept ==
  ASSUME OnceInv, UNCHANGED <<repeats, pos, page, clustered, found>>
  PROVE  Once'
BY DEF OnceInv, Once, Home

LEMMA ScanOnce ==
  ASSUME OnceInv, NEW m \in Masters, Scan(m)
  PROVE  Once'
<1>1. TypeOK /\ Places /\ Once
  BY DEF OnceInv, TypesInv
<1>2. /\ pc[m] = "loop" /\ pos' = [pos EXCEPT ![m] = @ + 1]
      /\ UNCHANGED <<store, job, found>>
  BY DEF Scan
<1>3. PICK p \in Pages(m) :
        /\ page' = [page EXCEPT ![m] = p]
        /\ repeats' = repeats + (Len(p) - Cardinality(KeysIn(m, pos[m])))
  BY DEF Scan
<1>4. m \in Nodes
  BY <1>1, <1>2 DEF Places, PlaceOf
<1>5. pos[m] \in Nat /\ repeats \in 0 .. MaxRepeats
  BY <1>1, SweepAssumption DEF TypeOK
<1> SUFFICES ASSUME repeats' = 0
             PROVE  /\ IsInjective(found')
                    /\ \A k \in ToSet(found') : BucketOf[k] < pos'[Home(k)']
                    /\ \A n \in Masters :
                         /\ IsInjective(page'[n])
                         /\ \A k \in ToSet(page'[n]) :
                              Home(k)' = n /\ BucketOf[k] < pos'[n] /\ k \notin ToSet(found')
  BY DEF Once
<1>6. IsInjective(p) /\ ToSet(p) = KeysIn(m, pos[m]) /\ repeats = 0
  BY <1>3, <1>5, PageProperties
<1>7. \A k : Home(k)' = Home(k)
  BY <1>2 DEF Home, job
<1>8. /\ pos'[m] = pos[m] + 1 /\ page'[m] = p
      /\ \A n \in Masters \ {m} : pos'[n] = pos[n] /\ page'[n] = page[n]
  BY <1>1, <1>2, <1>3 DEF TypeOK
<1>9. found' = found /\ ToSet(found) \subseteq Keys
  BY <1>1, <1>2, LenProperties DEF TypeOK, ToSet
<1>10. ASSUME NEW k \in ToSet(found) PROVE BucketOf[k] < pos'[Home(k)]
  <2>1. BucketOf[k] < pos[Home(k)] /\ Home(k) \in Masters /\ BucketOf[k] \in Nat
    BY <1>1, <1>6, <1>9, HomeProperties DEF Once, TypeOK
  <2>2. CASE Home(k) = m
    BY <1>5, <1>8, <2>1, <2>2
  <2>3. CASE Home(k) # m
    BY <1>8, <2>1, <2>3
  <2> QED BY <2>2, <2>3
<1>11. ASSUME NEW n \in Masters
       PROVE  /\ IsInjective(page'[n])
              /\ \A k \in ToSet(page'[n]) : Home(k) = n /\ BucketOf[k] < pos'[n] /\ k \notin ToSet(found)
  <2>1. CASE n # m
    BY <1>1, <1>6, <1>8, <2>1 DEF Once
  <2>2. CASE n = m
    <3>1. ASSUME NEW k \in ToSet(p)
          PROVE  Home(k) = m /\ BucketOf[k] = pos[m]
      <4>1. BucketOf[k] = pos[m] /\ (clustered => HomeOf[k] = m)
        BY <1>6, <3>1 DEF KeysIn
      <4> QED BY <1>1, <1>4, <4>1 DEF Home, Nodes, TypeOK
    <3>2. \A k \in ToSet(p) : k \notin ToSet(found)
      BY <1>1, <1>5, <1>6, <3>1 DEF Once
    <3> QED BY <1>5, <1>6, <1>8, <2>2, <3>1, <3>2
  <2> QED BY <2>1, <2>2
<1> QED BY <1>1, <1>6, <1>7, <1>9, <1>10, <1>11 DEF Once

\* The end of a goroutine's turn: what it keeps of its page is new.
LEMMA TurnOnce ==
  ASSUME OnceInv, NEW m \in Masters,
         UNCHANGED <<repeats, pos, clustered>>, page' = [page EXCEPT ![m] = << >>],
         ToSet(found') \subseteq ToSet(found) \cup ToSet(page[m]),
         repeats = 0 => IsInjective(found')
  PROVE  Once'
<1>1. TypeOK /\ Once
  BY DEF OnceInv, TypesInv
<1>2. page'[m] = << >> /\ \A n \in Masters \ {m} : page'[n] = page[n]
  BY <1>1 DEF TypeOK
<1>3. \A k : Home(k)' = Home(k)
  BY DEF Home
<1> SUFFICES ASSUME repeats = 0
             PROVE  /\ IsInjective(found')
                    /\ \A k \in ToSet(found') : BucketOf[k] < pos[Home(k)]
                    /\ \A n \in Masters :
                         /\ IsInjective(page'[n])
                         /\ \A k \in ToSet(page'[n]) :
                              Home(k) = n /\ BucketOf[k] < pos[n] /\ k \notin ToSet(found')
  BY <1>3 DEF Once
<1>4. \A k \in ToSet(found') : BucketOf[k] < pos[Home(k)]
  BY <1>1 DEF Once
<1>5. ASSUME NEW n \in Masters
      PROVE  /\ IsInjective(page'[n])
             /\ \A k \in ToSet(page'[n]) : Home(k) = n /\ BucketOf[k] < pos[n] /\ k \notin ToSet(found')
  <2>1. CASE n = m
    BY <1>2, <2>1, EmptyOnce, EmptySet
  <2>2. CASE n # m
    <3>1. IsInjective(page[n]) /\ page'[n] = page[n]
      BY <1>1, <1>2, <2>2 DEF Once
    <3>2. \A k \in ToSet(page[n]) : Home(k) = n /\ BucketOf[k] < pos[n] /\ k \notin ToSet(found)
      BY <1>1 DEF Once
    <3>3. \A k \in ToSet(page[n]) : k \notin ToSet(page[m])
      BY <1>1, <2>2, <3>2 DEF Once
    <3> QED BY <3>1, <3>2, <3>3
  <2> QED BY <2>1, <2>2
<1> QED BY <1>4, <1>5

LEMMA TakeOnce ==
  ASSUME OnceInv, NEW m \in Masters, Take(m)
  PROVE  Once'
<1>1. TypeOK /\ Once
  BY DEF OnceInv, TypesInv
<1>2. page' = [page EXCEPT ![m] = << >>] /\ UNCHANGED <<repeats, pos, clustered>>
  BY DEF Take, job, bounds
<1>3. found' = found \/ found' = Keep(page[m])
  BY DEF Take
<1>4. page[m] \in Seq(Keys) /\ found \in Seq(Keys)
  BY <1>1 DEF TypeOK
<1>5. ToSet(found') \subseteq ToSet(found) \cup ToSet(page[m])
  BY <1>3, <1>4, KeepProperties
<1>6. ASSUME repeats = 0 PROVE IsInjective(found')
  <2>1. IsInjective(found) /\ IsInjective(page[m]) /\ ToSet(found) \cap ToSet(page[m]) = {}
    BY <1>1, <1>6 DEF Once
  <2> QED BY <1>3, <1>4, <2>1, KeepProperties
<1> QED BY <1>2, <1>5, <1>6, TurnOnce

LEMMA TakeTypesOnce ==
  ASSUME OnceInv, NEW m \in Masters, TakeTypes(m)
  PROVE  Once'
<1>1. UNCHANGED <<repeats, pos, clustered, found>>
  BY DEF TakeTypes, job, bounds
<1>2. page' = page \/ page' = [page EXCEPT ![m] = << >>]
  BY DEF TakeTypes
<1>3. repeats = 0 => IsInjective(found)
  BY DEF OnceInv, Once
<1> QED BY <1>1, <1>2, <1>3, OnceKept, TurnOnce

LEMMA TakeValuesOnce ==
  ASSUME OnceInv, NEW m \in Masters, TakeValues(m)
  PROVE  Once'
<1>1. TypeOK /\ Once /\ TypesInv
  BY DEF OnceInv, TypesInv
<1>2. page' = [page EXCEPT ![m] = << >>] /\ UNCHANGED <<repeats, pos, clustered>>
  BY DEF TakeValues, job, bounds
<1> DEFINE h == Hits(m)
<1>3. /\ h \in Seq(Keys) /\ ToSet(h) \subseteq ToSet(page[m])
      /\ IsInjective(page[m]) => IsInjective(h)
  BY <1>1, HitsProperties
<1>4. found' = found \/ found' = UpToLimit(h)
  BY DEF TakeValues
<1> HIDE DEF h
<1>5. found \in Seq(Keys)
  BY <1>1 DEF TypeOK
<1>6. ToSet(found') \subseteq ToSet(found) \cup ToSet(page[m])
  BY <1>3, <1>4, <1>5, UpToLimitProperties
<1>7. ASSUME repeats = 0 PROVE IsInjective(found')
  <2>1. IsInjective(found) /\ IsInjective(h) /\ ToSet(found) \cap ToSet(h) = {}
    BY <1>1, <1>3, <1>7 DEF Once
  <2> QED BY <1>3, <1>4, <1>5, <2>1, UpToLimitProperties
<1> QED BY <1>2, <1>6, <1>7, TurnOnce

LEMMA ScanEndsOnce == OnceInv /\ ScanEnds => Once'
<1> SUFFICES ASSUME OnceInv, ScanEnds PROVE Once'
  OBVIOUS
<1>1. TypeOK /\ Once
  BY DEF OnceInv, TypesInv
<1>2. found' = Cut /\ UNCHANGED <<repeats, pos, page, clustered>>
  BY DEF ScanEnds, scan, bounds
<1>3. found \in Seq(Keys)
  BY <1>1 DEF TypeOK
<1>4. ToSet(found') \subseteq ToSet(found) /\ (IsInjective(found) => IsInjective(found'))
  BY <1>2, <1>3, CutProperties
<1> QED BY <1>1, <1>2, <1>4 DEF Once, Home

LEMMA StepOnce == OnceInv /\ [Next]_vars => OnceInv'
<1> SUFFICES ASSUME OnceInv, [Next]_vars PROVE OnceInv'
  OBVIOUS
<1>1. TypesInv'
  BY StepTypes DEF OnceInv
<1>2. ASSUME NEW m \in Masters, Loop(m) PROVE Once'
  <2>1. ASSUME ScanError(m) \/ Leave(m) PROVE Once'
    BY <2>1, OnceKept DEF ScanError, Leave, job, bounds
  <2> QED BY <1>2, <2>1, ScanOnce, TakeOnce, TakeTypesOnce, TakeValuesOnce DEF Loop
<1>3. ASSUME Begin \/ Move \/ DeleteChunk \/ DeleteError \/ ExpireChunk \/ ChunksEnd \/ UNCHANGED vars
      PROVE  Once'
  BY <1>3, OnceKept
     DEF Begin, Move, DeleteChunk, DeleteError, ExpireChunk, ChunksEnd, vars, job, scan, bounds
<1>4. ASSUME NEW k \in Keys, NEW c \in Contents, OtherWrites(k, c) PROVE Once'
  BY <1>4, OnceKept DEF OtherWrites, job, scan
<1>5. Once'
  BY <1>2, <1>3, <1>4, ScanEndsOnce DEF Next, Step, Finished
<1> QED BY <1>1, <1>5 DEF OnceInv

LEMMA AlwaysOnce == Spec => []OnceInv
<1>1. OnceInv /\ [Next]_vars => OnceInv'
  BY StepOnce
<1> QED BY InitOnce, <1>1, PTL DEF Spec

\* A search that reports success, stayed on its server and lost no pipeline has every matching
\* key that no one touched while it ran, or has filled the places that the limit allows, the
\* fuzzy search with none that scores less; and with as many keys, if SCAN repeated none.
THEOREM SweepSearchComplete == Spec => []SearchComplete
<1>1. CoverInv /\ OnceInv => SearchComplete
  <2> SUFFICES ASSUME CoverInv, phase = "done", OneSource, ~broken, NEW k \in steady \ ToSet(found)
               PROVE  /\ kind \in Limited /\ Searched(k) => Len(found) = Limit
                      /\ kind = "fuzzy" /\ Score[k] > 0 => NoBetter(k)
    BY DEF SearchComplete, OnceInv, Once
  <2>1. TypeOK /\ Places /\ Counted /\ Sets /\ Cover
    BY DEF CoverInv, SetsInv, CountInv, TypesInv
  <2>2. k \in Keys /\ Had(k)
    BY <2>1 DEF Sets, Cover, OneSource, TypeOK
  <2>3. Len(found) \in Nat /\ Limit \in Nat /\ Score[k] \in Nat
    BY <2>1, <2>2, LenProperties, SweepAssumption DEF TypeOK
  <2>4. stopped => kind \in Limited /\ Len(found) >= Limit /\ Len(found) <= Limit
    BY <2>1 DEF Places, Counted, Limited
  <2>5. ASSUME kind \in Limited, Searched(k) PROVE Len(found) = Limit
    <3>1. stopped
      BY <2>2, <2>5 DEF Had, OneSource, Searched, Limited
    <3> QED BY <2>3, <2>4, <3>1
  <2>6. ASSUME kind = "fuzzy", Score[k] > 0 PROVE NoBetter(k)
    BY <2>2, <2>3, <2>4, <2>6 DEF Had, Limited
  <2> QED BY <2>5, <2>6
<1> QED BY AlwaysCover, AlwaysOnce, <1>1, PTL

------------------------------------------------------------------------------
(* What the chunks have been through *)

\* The keys of the chunks so far, if no one else wrote them, are gone; or they have their TTL,
\* but for those of commands that were not counted.
Dealt ==
  phase \in {"chunks", "done"} /\ moved = "no" =>
    /\ kind = "delete" => \A i \in 1 .. next : found[i] \in steady => db["first"][found[i]] = "gone"
    /\ kind = "expire" =>
         \E left \in SUBSET (1 .. next) :
           /\ count + Cardinality(left) = next
           /\ \A i \in (1 .. next) \ left : found[i] \in steady => found[i] \in expires["first"]

\* Nothing is counted before the chunks begin.
Uncounted == phase \in {"idle", "scan"} => count = 0

BulkInv == CoverInv /\ Dealt /\ Uncounted

LEMMA InitBulk == Init => BulkInv
<1> SUFFICES ASSUME Init PROVE BulkInv
  OBVIOUS
<1>1. Dealt /\ Uncounted
  BY DEF Init, Dealt, Uncounted
<1> QED BY <1>1, InitCover DEF BulkInv

LEMMA DealtKept ==
  ASSUME Dealt, UNCHANGED <<found, next, count, steady, kind, db, expires>>,
         phase' \in {"chunks", "done"} => phase \in {"chunks", "done"},
         moved' = "no" => moved = "no"
  PROVE  Dealt'
BY DEF Dealt

LEMMA OtherWritesDealt ==
  ASSUME BulkInv, NEW k \in Keys, NEW c \in Contents, OtherWrites(k, c)
  PROVE  Dealt'
<1>1. TypeOK /\ Dealt
  BY DEF BulkInv, CoverInv, SetsInv, CountInv, TypesInv
<1>2. steady' = steady \ {k} /\ UNCHANGED <<phase, kind, found, next, count, moved>>
  BY DEF OtherWrites, job, scan
<1>3. /\ \A x \in Keys \ {k} : db'["first"][x] = db["first"][x]
      /\ expires'["first"] = expires["first"] \ {k}
  BY <1>1 DEF OtherWrites, TypeOK, Servers
<1>4. steady \subseteq Keys
  BY <1>1 DEF TypeOK
<1> SUFFICES ASSUME phase \in {"chunks", "done"}, moved = "no"
             PROVE  /\ kind = "delete" =>
                         \A i \in 1 .. next : found[i] \in steady' => db'["first"][found[i]] = "gone"
                    /\ kind = "expire" =>
                         \E left \in SUBSET (1 .. next) :
                           /\ count + Cardinality(left) = next
                           /\ \A i \in (1 .. next) \ left :
                                found[i] \in steady' => found[i] \in expires'["first"]
  BY <1>2 DEF Dealt
<1>5. ASSUME kind = "delete", NEW i \in 1 .. next, found[i] \in steady'
      PROVE  db'["first"][found[i]] = "gone"
  BY <1>1, <1>2, <1>3, <1>4, <1>5 DEF Dealt
<1>6. ASSUME kind = "expire"
      PROVE  \E left \in SUBSET (1 .. next) :
               /\ count + Cardinality(left) = next
               /\ \A i \in (1 .. next) \ left : found[i] \in steady' => found[i] \in expires'["first"]
  <2>1. PICK left \in SUBSET (1 .. next) :
          /\ count + Cardinality(left) = next
          /\ \A i \in (1 .. next) \ left : found[i] \in steady => found[i] \in expires["first"]
    BY <1>1, <1>6 DEF Dealt
  <2>2. \A i \in (1 .. next) \ left : found[i] \in steady' => found[i] \in expires'["first"]
    BY <1>2, <1>3, <2>1
  <2> QED BY <2>1, <2>2
<1> QED BY <1>5, <1>6

LEMMA DeleteDealt == BulkInv /\ DeleteChunk => Dealt'
<1> SUFFICES ASSUME BulkInv, DeleteChunk PROVE Dealt'
  OBVIOUS
<1>1. TypeOK /\ Places /\ Dealt
  BY DEF BulkInv, CoverInv, SetsInv, CountInv, TypesInv
<1> DEFINE gone == ToSet(InChunk) \cap Present(at)
<1>2. /\ phase = "chunks" /\ kind = "delete" /\ next < Len(found) /\ next' = ChunkEnd
      /\ UNCHANGED <<phase, kind, found, moved, steady>>
      /\ db' = [db EXCEPT ![at] = [k \in Keys |-> IF k \in gone THEN "gone" ELSE @[k]]]
  BY DEF DeleteChunk, job, scan, history
<1>3. found \in Seq(Keys) /\ next \in Nat /\ Len(found) \in Nat
  BY <1>1, LenProperties DEF TypeOK
<1>4. /\ ChunkEnd \in next + 1 .. Len(found)
      /\ \A i \in next + 1 .. ChunkEnd : found[i] \in ToSet(InChunk)
  BY <1>1, <1>2, <1>3, ChunkProperties DEF TypeOK
<1> SUFFICES ASSUME moved = "no", NEW i \in 1 .. ChunkEnd, found[i] \in steady
             PROVE  db'["first"][found[i]] = "gone"
  BY <1>2 DEF Dealt
<1>5. at = "first" /\ found[i] \in Keys
  BY <1>1, <1>3, <1>4, LenProperties DEF Places
<1> HIDE DEF gone
<1>6. db'["first"][found[i]] = IF found[i] \in gone THEN "gone" ELSE db["first"][found[i]]
  BY <1>1, <1>2, <1>5 DEF TypeOK
<1>7. CASE i <= next
  <2>1. i \in 1 .. next
    BY <1>3, <1>4, <1>7
  <2>2. db["first"][found[i]] = "gone"
    BY <1>1, <1>2, <2>1 DEF Dealt
  <2> QED BY <1>6, <2>2
<1>8. CASE i > next
  <2>1. i \in next + 1 .. ChunkEnd
    BY <1>3, <1>4, <1>8
  <2>2. found[i] \in gone \/ db["first"][found[i]] = "gone"
    BY <1>4, <1>5, <2>1 DEF gone, Present
  <2> QED BY <1>6, <2>2
<1> QED BY <1>3, <1>4, <1>7, <1>8

\* A set of places is finite.
LEMMA PlacesFinite ==
  ASSUME NEW n \in Nat, NEW S \in SUBSET (1 .. n)
  PROVE  IsFiniteSet(S) /\ Cardinality(S) \in Nat
<1>1. 1 \in Int /\ n \in Int
  OBVIOUS
<1>2. IsFiniteSet(1 .. n)
  BY <1>1, FS_Interval
<1>3. S \subseteq 1 .. n
  OBVIOUS
<1>4. IsFiniteSet(S)
  BY <1>2, <1>3, FS_Subset
<1> QED BY <1>4, FS_CardinalityType

\* What a chunk's commands leave unanswered, when `from` keys came before them.
Unanswered(from, n, answered) == {i \in from + 1 .. from + n : i - from \notin answered}

LEMMA UnansweredProperties ==
  ASSUME NEW from \in Nat, NEW n \in Nat, NEW answered \in SUBSET (1 .. n)
  PROVE  /\ Unanswered(from, n, answered) \in SUBSET (from + 1 .. from + n)
         /\ IsFiniteSet(Unanswered(from, n, answered))
         /\ Cardinality(Unanswered(from, n, answered)) = n - Cardinality(answered)
<1> DEFINE these == from + 1 .. from + n
           said == {i \in these : i - from \in answered}
           more == Unanswered(from, n, answered)
<1>1. IsFiniteSet(these) /\ Cardinality(these) = n
  <2>1. from + 1 \in Int /\ from + n \in Int
    OBVIOUS
  <2>2. /\ IsFiniteSet(these)
        /\ Cardinality(these) = IF from + 1 > from + n THEN 0 ELSE (from + n) - (from + 1) + 1
    BY <2>1, FS_Interval
  <2> QED BY <2>2
<1>2. more = these \ said /\ these \cap said = said /\ said \subseteq these /\ more \subseteq these
  BY DEF Unanswered
<1>3. Cardinality(said) = Cardinality(answered)
  <2> DEFINE f == [i \in said |-> i - from]
  <2>1. f \in Bijection(said, answered)
    <3>1. f \in [said -> answered]
      OBVIOUS
    <3>2. \A i, j \in said : f[i] = f[j] => i = j
      OBVIOUS
    <3>3. ASSUME NEW a \in answered PROVE \E i \in said : f[i] = a
      <4>1. from + a \in said /\ f[from + a] = a
        OBVIOUS
      <4> QED BY <4>1
    <3> HIDE DEF f, said
    <3> QED BY <3>1, <3>2, <3>3 DEF Bijection, Injection, IsInjective, Surjection
  <2>2. ExistsBijection(said, answered)
    BY <2>1 DEF ExistsBijection
  <2>3. IsFiniteSet(said)
    BY <1>1, <1>2, FS_Subset
  <2> HIDE DEF said
  <2> QED BY <2>2, <2>3, FS_Bijection
<1> HIDE DEF these, said, more
<1>4. IsFiniteSet(these \ said) /\ Cardinality(these \ said) = Cardinality(these) - Cardinality(these \cap said)
  BY <1>1, FS_Difference
<1>5. Cardinality(more) = n - Cardinality(answered)
  BY <1>1, <1>2, <1>3, <1>4
<1> QED BY <1>2, <1>4, <1>5 DEF more, these

\* Two sets that share nothing.
LEMMA DisjointUnion ==
  ASSUME NEW S, IsFiniteSet(S), NEW T, IsFiniteSet(T), \A i \in S : i \notin T
  PROVE  /\ Cardinality(S \cup T) = Cardinality(S) + Cardinality(T)
         /\ Cardinality(S) \in Nat /\ Cardinality(T) \in Nat
<1>1. S \cap T = {}
  OBVIOUS
<1>2. Cardinality(S) \in Nat /\ Cardinality(T) \in Nat /\ Cardinality({}) = 0
  BY FS_CardinalityType, FS_EmptySet
<1>3. Cardinality(S \cup T) = Cardinality(S) + Cardinality(T) - Cardinality(S \cap T)
  BY FS_Union
<1>4. Cardinality(S \cap T) = 0
  <2>1. Cardinality(S \cap T) = Cardinality({})
    BY <1>1, Zenon
  <2> QED BY <1>2, <2>1
<1> QED BY <1>2, <1>3, <1>4

\* What the answered commands add to the count, they take from the keys left.
LEMMA SumKept ==
  ASSUME NEW c \in Nat, NEW l \in Nat, NEW a \in Nat, NEW m \in Nat, NEW n \in Nat, c + l = m
  PROVE  c + a + (l + n - a) = m + n
OBVIOUS

LEMMA ExpireDealt == BulkInv /\ ExpireChunk => Dealt'
<1> SUFFICES ASSUME BulkInv, ExpireChunk PROVE Dealt'
  OBVIOUS
<1>1. TypeOK /\ Places /\ Sets /\ Dealt
  BY DEF BulkInv, CoverInv, SetsInv, CountInv, TypesInv
<1>2. /\ phase = "chunks" /\ kind = "expire" /\ next < Len(found) /\ next' = ChunkEnd
      /\ UNCHANGED <<phase, kind, found, moved, steady, db>>
  BY DEF ExpireChunk, job, scan, history
<1>3. found \in Seq(Keys) /\ next \in Nat /\ Len(found) \in Nat /\ count \in Nat
  BY <1>1, LenProperties DEF TypeOK
<1> DEFINE n == Len(InChunk)
<1>4. /\ ChunkEnd \in next + 1 .. Len(found) /\ n = ChunkEnd - next /\ n \in Nat
      /\ DOMAIN InChunk = 1 .. n
      /\ \A i \in 1 .. n : InChunk[i] = found[next + i]
  BY <1>1, <1>2, <1>3, ChunkProperties, LenProperties DEF TypeOK
<1>5. PICK done \in SUBSET DOMAIN InChunk :
        /\ expires' = [expires EXCEPT ![at] = @ \cup ({InChunk[i] : i \in done} \cap Present(at))]
        /\ \E answered \in SUBSET done : count' = count + Cardinality(answered)
  BY DEF ExpireChunk
<1>6. PICK answered \in SUBSET done : count' = count + Cardinality(answered)
  BY <1>5
<1> HIDE DEF n
<1> SUFFICES ASSUME moved = "no"
             PROVE  \E left \in SUBSET (1 .. ChunkEnd) :
                      /\ count' + Cardinality(left) = ChunkEnd
                      /\ \A i \in (1 .. ChunkEnd) \ left :
                           found[i] \in steady => found[i] \in expires'["first"]
  BY <1>2 DEF Dealt
<1>7. PICK left \in SUBSET (1 .. next) :
        /\ count + Cardinality(left) = next
        /\ \A i \in (1 .. next) \ left : found[i] \in steady => found[i] \in expires["first"]
  BY <1>1, <1>2 DEF Dealt
<1> DEFINE more == Unanswered(next, n, answered)
<1>8. answered \in SUBSET (1 .. n)
  BY <1>4, <1>5, <1>6
<1>9. /\ left \cup more \in SUBSET (1 .. next + n)
      /\ Cardinality(left \cup more) = Cardinality(left) + n - Cardinality(answered)
      /\ Cardinality(left) \in Nat /\ Cardinality(answered) \in Nat
  <2>1. /\ more \in SUBSET (next + 1 .. next + n) /\ IsFiniteSet(more)
        /\ Cardinality(more) = n - Cardinality(answered)
    BY <1>3, <1>4, <1>8, UnansweredProperties
  <2> HIDE DEF more
  <2>2. left \cup more \in SUBSET (1 .. next + n) /\ \A i \in left : i \notin more
    <3>1. \A i \in left : i \in 1 .. next
      BY <1>7
    <3>2. \A i \in more : i \in next + 1 .. next + n
      BY <2>1
    <3>3. \A i \in left \cup more : i \in 1 .. next + n
      BY <1>3, <1>4, <3>1, <3>2
    <3>4. ASSUME NEW i \in left, i \in more PROVE FALSE
      <4>1. i \in 1 .. next /\ i \in next + 1 .. next + n
        BY <3>1, <3>2, <3>4
      <4> QED BY <1>3, <4>1
    <3>5. left \cup more \subseteq 1 .. next + n
      BY <3>3
    <3> QED BY <3>4, <3>5
  <2>3. IsFiniteSet(left)
    BY <1>3, <1>7, PlacesFinite
  <2>4. /\ Cardinality(left \cup more) = Cardinality(left) + Cardinality(more)
        /\ Cardinality(left) \in Nat
    BY <2>1, <2>2, <2>3, DisjointUnion
  <2>5. Cardinality(answered) \in Nat
    BY <1>4, <1>8, PlacesFinite
  <2> QED BY <1>4, <2>1, <2>2, <2>4, <2>5
<1>10. next + n = ChunkEnd
  BY <1>3, <1>4
<1>11. count' + Cardinality(left \cup more) = ChunkEnd
  <2> HIDE DEF more
  <2>1. count + Cardinality(left) = next
    BY <1>7
  <2>2. /\ Cardinality(left) \in Nat /\ Cardinality(answered) \in Nat
        /\ Cardinality(left \cup more) = Cardinality(left) + n - Cardinality(answered)
    BY <1>9
  <2>3. count + Cardinality(answered) + (Cardinality(left) + n - Cardinality(answered)) = next + n
    <3>1. n \in Nat
      BY <1>4
    <3> QED BY <1>3, <2>1, <2>2, <3>1, SumKept
  <2>4. count' = count + Cardinality(answered)
    BY <1>6
  <2> QED BY <1>10, <2>2, <2>3, <2>4
<1>12. at = "first"
  BY <1>1 DEF Places
<1>13. expires'["first"] = expires["first"] \cup ({InChunk[i] : i \in done} \cap Present("first"))
  BY <1>1, <1>5, <1>12 DEF TypeOK
<1>14. ASSUME NEW i \in (1 .. ChunkEnd) \ (left \cup more), found[i] \in steady
       PROVE  found[i] \in expires'["first"]
  <2>1. CASE i <= next
    <3>1. i \in (1 .. next) \ left
      BY <1>3, <1>4, <1>14, <2>1
    <3> QED BY <1>7, <1>13, <1>14, <3>1
  <2>2. CASE i > next
    <3>1. i \in next + 1 .. next + n /\ i - next \in answered
      BY <1>3, <1>4, <1>10, <1>14, <2>2 DEF Unanswered
    <3>2. i - next \in done /\ InChunk[i - next] = found[i]
      BY <1>3, <1>4, <1>6, <1>8, <3>1
    <3>3. found[i] \in {InChunk[j] : j \in done}
      BY <3>2
    <3>4. found[i] \in Keys /\ db["first"][found[i]] # "gone"
      BY <1>1, <1>2, <1>14 DEF Sets, TypeOK
    <3>5. found[i] \in Present("first")
      BY <3>4 DEF Present
    <3> QED BY <1>13, <3>3, <3>5
  <2> QED BY <1>3, <1>4, <2>1, <2>2
<1> HIDE DEF more
<1> QED BY <1>9, <1>10, <1>11, <1>14

LEMMA StepBulk == BulkInv /\ [Next]_vars => BulkInv'
<1> SUFFICES ASSUME BulkInv, [Next]_vars PROVE BulkInv'
  OBVIOUS
<1>1. CoverInv'
  BY StepCover DEF BulkInv
<1>2. TypeOK /\ Places /\ Dealt /\ Uncounted
  BY DEF BulkInv, CoverInv, SetsInv, CountInv, TypesInv
<1>3. ASSUME Begin PROVE Dealt' /\ Uncounted'
  BY <1>2, <1>3 DEF Begin, Dealt, Uncounted
<1>4. ASSUME Move PROVE Dealt' /\ Uncounted'
  BY <1>2, <1>4 DEF Move, Dealt, Uncounted, job
<1>5. ASSUME NEW m \in Masters, Loop(m) PROVE Dealt' /\ Uncounted'
  <2>1. phase = "scan"
    BY <1>2, <1>5 DEF Loop, Scan, ScanError, Leave, Take, TakeTypes, TakeValues, Places, PlaceOf, Active
  <2>2. phase' = phase /\ count' = count
    BY <1>5 DEF Loop, Scan, ScanError, Leave, Take, TakeTypes, TakeValues, job
  <2> QED BY <1>2, <2>1, <2>2 DEF Dealt, Uncounted
<1>6. ASSUME ScanEnds PROVE Dealt' /\ Uncounted'
  <2>1. next' = 0 /\ count' = 0 /\ phase' \notin {"idle", "scan"}
    BY <1>2, <1>6 DEF ScanEnds, Places, Uncounted
  <2>2. Cardinality({}) = 0 /\ {} \in SUBSET (1 .. 0) /\ 1 .. 0 = {}
    BY FS_EmptySet
  <2>3. \E left \in SUBSET (1 .. next') :
          /\ count' + Cardinality(left) = next'
          /\ \A i \in (1 .. next') \ left : found'[i] \in steady' => found'[i] \in expires'["first"]
    BY <2>1, <2>2
  <2> QED BY <2>1, <2>3 DEF Dealt, Uncounted
<1>7. ASSUME DeleteError PROVE Dealt' /\ Uncounted'
  BY <1>2, <1>7 DEF DeleteError, Dealt, Uncounted
<1>8. ASSUME ChunksEnd PROVE Dealt' /\ Uncounted'
  <2>1. UNCHANGED <<found, next, count, steady, kind, db, expires, moved>> /\ phase = "chunks" /\ phase' = "done"
    BY <1>8 DEF ChunksEnd, store, history
  <2> QED BY <1>2, <2>1, DealtKept DEF Uncounted
<1>9. ASSUME UNCHANGED vars PROVE Dealt' /\ Uncounted'
  <2>1. UNCHANGED <<found, next, count, steady, kind, db, expires, moved>> /\ phase' = phase
    BY <1>9 DEF vars
  <2> QED BY <1>2, <2>1, DealtKept DEF Uncounted
<1>10. ASSUME DeleteChunk \/ ExpireChunk PROVE Uncounted'
  BY <1>10 DEF DeleteChunk, ExpireChunk, Uncounted, job
<1>11. ASSUME NEW k \in Keys, NEW c \in Contents, OtherWrites(k, c) PROVE Uncounted'
  BY <1>2, <1>11 DEF OtherWrites, Uncounted, job
<1>12. Dealt' /\ Uncounted'
  BY <1>3, <1>4, <1>5, <1>6, <1>7, <1>8, <1>9, <1>10, <1>11, OtherWritesDealt, DeleteDealt, ExpireDealt
     DEF Next, Step, Finished
<1> QED BY <1>1, <1>12 DEF BulkInv

LEMMA AlwaysBulk == Spec => []BulkInv
<1>1. BulkInv /\ [Next]_vars => BulkInv'
  BY StepBulk
<1> QED BY InitBulk, <1>1, PTL DEF Spec

\* A bulk delete that reports success on the server it began with has deleted every matching
\* key that no one else wrote; a batch TTL counts fewer keys than it found by at least those it
\* left as they were, however many of its pipelines failed.
THEOREM SweepBulkComplete == Spec => []BulkComplete
<1>1. BulkInv => BulkComplete
  <2> SUFFICES ASSUME BulkInv, phase = "done", moved = "no"
               PROVE  /\ kind = "delete" => \A k \in steady : db[at][k] = "gone"
                      /\ kind = "expire" => count + Cardinality(steady \ expires[at]) <= Len(found)
    BY DEF BulkComplete
  <2>1. TypeOK /\ Places /\ Sets /\ Cover /\ Dealt
    BY DEF BulkInv, CoverInv, SetsInv, CountInv, TypesInv
  <2>2. at = "first" /\ OneServer /\ found \in Seq(Keys) /\ DOMAIN found = 1 .. Len(found)
        /\ Len(found) \in Nat /\ count \in Nat
    BY <2>1, LenProperties DEF OneServer, Places, TypeOK
  <2>3. ASSUME kind \in Written, NEW k \in steady
        PROVE  next = Len(found) /\ \E i \in 1 .. Len(found) : found[i] = k
    <3>1. k \in live /\ next = Len(found) /\ ~stopped
      BY <2>1, <2>3 DEF Sets, Places, Written, Limited
    <3>2. k \in ToSet(found)
      BY <2>1, <2>2, <2>3, <3>1 DEF Cover, Had, Written
    <3> QED BY <2>2, <3>1, <3>2 DEF ToSet
  <2>4. ASSUME kind = "delete", NEW k \in steady PROVE db[at][k] = "gone"
    <3>1. PICK i \in 1 .. Len(found) : found[i] = k
      BY <2>3, <2>4 DEF Written
    <3> QED BY <2>1, <2>2, <2>3, <2>4, <3>1 DEF Dealt, Written
  <2>5. ASSUME kind = "expire" PROVE count + Cardinality(steady \ expires[at]) <= Len(found)
    <3>1. next = Len(found)
      BY <2>1, <2>5 DEF Places, Written
    <3>2. PICK left \in SUBSET (1 .. Len(found)) :
            /\ count + Cardinality(left) = Len(found)
            /\ \A i \in (1 .. Len(found)) \ left : found[i] \in steady => found[i] \in expires["first"]
      BY <2>1, <2>5, <3>1 DEF Dealt
    <3>3. IsFiniteSet(left) /\ Cardinality(left) \in Nat
      BY <2>2, PlacesFinite
    <3> DEFINE missing == steady \ expires["first"]
               T == {found[i] : i \in left}
    <3>4. missing \subseteq T
      <4> SUFFICES ASSUME NEW k \in missing PROVE \E i \in left : found[i] = k
        OBVIOUS
      <4>1. PICK i \in 1 .. Len(found) : found[i] = k
        BY <2>3, <2>5 DEF Written
      <4> QED BY <3>2, <4>1
    <3>5. IsFiniteSet(T) /\ Cardinality(T) \in Nat /\ Cardinality(T) <= Cardinality(left)
      <4> DEFINE f == [i \in left |-> found[i]]
      <4>1. f \in Surjection(left, T)
        BY DEF Surjection
      <4> HIDE DEF f, T
      <4> QED BY <3>3, <4>1, FS_Surjection, FS_CardinalityType
    <3> HIDE DEF T
    <3>6. Cardinality(missing) \in Nat /\ Cardinality(missing) <= Cardinality(T)
      BY <3>4, <3>5, FS_Subset, FS_CardinalityType
    <3> HIDE DEF missing
    <3>7. count + Cardinality(missing) <= Len(found)
      BY <2>2, <3>2, <3>3, <3>5, <3>6
    <3> QED BY <2>2, <3>7 DEF missing
  <2> QED BY <2>4, <2>5
<1> QED BY AlwaysBulk, <1>1, PTL

------------------------------------------------------------------------------
(* The scan implements ScanPromise *)

\* The state of the promise, as KeepsPromise reads it off the sweep.
Taken == moved = "scan" /\ ~clustered
Refused == \E m \in Nodes : pc[m] = "error"
Answered == \A m \in Nodes : pc[m] = "ended"

Status ==
  IF kind \notin Whole \/ phase = "idle" THEN "idle"
  ELSE IF Taken THEN "void"
  ELSE IF phase = "scan" THEN "running"
  ELSE IF Refused THEN "void" ELSE "ended"

LiveThere == IF kind \in Whole THEN live ELSE {}
EverThere == IF kind \in Whole THEN ever ELSE {}

Returned ==
  IF kind \in Whole /\ phase \notin {"idle", "scan"} /\ OneServer /\ Answered THEN ToSet(found) ELSE {}

LEMMA PromiseStutters ==
  ASSUME Status' = Status, LiveThere' = LiveThere, EverThere' = EverThere, Returned' = Returned
  PROVE  UNCHANGED Promise!vars
BY DEF Promise!vars, Status, LiveThere, EverThere, Returned, Taken, Refused, Answered

LEMMA PromiseBegins ==
  ASSUME Status = "idle", Status' = "running", LiveThere' \subseteq Keys, EverThere' = LiveThere',
         Returned' = Returned
  PROVE  Promise!Begin
BY DEF Promise!Begin, Status, LiveThere, EverThere, Returned, Taken, Refused, Answered

LEMMA PromiseKeysChange ==
  ASSUME Status \in {"running", "void"}, Status' = Status, Returned' = Returned,
         LiveThere' \subseteq LiveThere, EverThere \subseteq EverThere', EverThere' \subseteq Keys
  PROVE  Promise!KeysChange
BY DEF Promise!KeysChange, Status, LiveThere, EverThere, Returned, Taken, Refused, Answered

LEMMA PromiseEnds ==
  ASSUME Status = "running", Status' = "ended", LiveThere' = LiveThere, EverThere' = EverThere,
         LiveThere \subseteq Returned', Returned' \subseteq EverThere
  PROVE  Promise!End
BY DEF Promise!End, Status, LiveThere, EverThere, Returned, Taken, Refused, Answered

LEMMA PromiseFails ==
  ASSUME Status = "running", Status' = "void", LiveThere' = LiveThere, EverThere' = EverThere,
         Returned' = Returned
  PROVE  Promise!Fail
BY DEF Promise!Fail, Status, LiveThere, EverThere, Returned, Taken, Refused, Answered

\* A step that leaves alone what the promise is about.
LEMMA NothingPromised ==
  ASSUME UNCHANGED <<kind, clustered, live, ever>>,
         phase = "idle" <=> phase' = "idle", phase = "scan" <=> phase' = "scan",
         Taken' <=> Taken, OneServer' <=> OneServer,
         phase \notin {"idle", "scan"} => UNCHANGED <<pc, found>>
  PROVE  UNCHANGED Promise!vars
<1>1. Nodes' = Nodes
  BY DEF Nodes
<1>2. phase \notin {"idle", "scan"} => (Refused' <=> Refused) /\ (Answered' <=> Answered)
  BY <1>1 DEF Refused, Answered
<1>3. Status' = Status
  BY <1>2, Zenon DEF Status
<1>4. LiveThere' = LiveThere /\ EverThere' = EverThere
  BY DEF LiveThere, EverThere
<1>5. Returned' = Returned
  BY <1>2 DEF Returned
<1> QED BY <1>3, <1>4, <1>5, PromiseStutters

LEMMA ScanEndsPromise == CoverInv /\ CoverInv' /\ ScanEnds => [Promise!Next]_(Promise!vars)
<1> SUFFICES ASSUME CoverInv, CoverInv', ScanEnds PROVE [Promise!Next]_(Promise!vars)
  OBVIOUS
<1>1. TypeOK /\ Places /\ Cover' /\ Origin' /\ Places'
  BY DEF CoverInv, SetsInv, CountInv, TypesInv
<1>2. /\ phase = "scan" /\ \A m \in Nodes : pc[m] \in {"ended", "error"}
      /\ phase' \in {"chunks", "done", "failed"}
      /\ phase' = "failed" <=> Refused
      /\ UNCHANGED <<live, ever, kind, clustered, moved, pc, stopped>>
  BY DEF ScanEnds, store, scan, history, Refused
<1>3. Nodes' = Nodes /\ (Taken' <=> Taken) /\ (OneServer' <=> OneServer) /\ (Taken <=> ~OneServer)
  BY <1>1, <1>2 DEF Nodes, Taken, OneServer, TypeOK
<1>4. (Refused' <=> Refused) /\ (Answered' <=> Answered) /\ (Answered <=> ~Refused)
  BY <1>2, <1>3 DEF Refused, Answered
<1>5. LiveThere' = LiveThere /\ EverThere' = EverThere
  BY <1>2 DEF LiveThere, EverThere
<1>6. Returned = {}
  BY <1>2 DEF Returned
<1>7. CASE kind \notin Whole \/ Taken
  <2>1. Status' = Status
    BY <1>2, <1>3, <1>7 DEF Status
  <2>2. Returned' = {}
    BY <1>2, <1>3, <1>7 DEF Returned
  <2> QED BY <1>5, <1>6, <2>1, <2>2, PromiseStutters
<1>8. CASE kind \in Whole /\ ~Taken /\ Refused
  <2>1. Status = "running" /\ Status' = "void"
    BY <1>2, <1>3, <1>4, <1>8 DEF Status
  <2>2. Returned' = {}
    BY <1>4, <1>8 DEF Returned
  <2> QED BY <1>5, <1>6, <2>1, <2>2, PromiseFails DEF Promise!Next
<1>9. CASE kind \in Whole /\ ~Taken /\ ~Refused
  <2>1. Status = "running" /\ Status' = "ended"
    BY <1>2, <1>3, <1>4, <1>9 DEF Status
  <2>2. Returned' = ToSet(found')
    BY <1>2, <1>3, <1>4, <1>9 DEF Returned
  <2>3. LiveThere = live' /\ EverThere = ever'
    BY <1>2, <1>9 DEF LiveThere, EverThere
  <2>4. ASSUME NEW k \in live' PROVE k \in ToSet(found')
    <3>1. ~stopped' /\ kind' \in Whole
      BY <1>1, <1>2, <1>9 DEF Places, Whole, Limited
    <3>2. Had(k)'
      BY <1>1, <1>2, <1>3, <1>9 DEF Cover
    <3> QED BY <3>1, <3>2 DEF Had, Whole
  <2>5. ToSet(found') \subseteq ever'
    BY <1>1, <1>3, <1>9 DEF Origin
  <2>6. LiveThere \subseteq Returned' /\ Returned' \subseteq EverThere
    BY <2>2, <2>3, <2>4, <2>5
  <2> QED BY <1>5, <2>1, <2>6, PromiseEnds DEF Promise!Next
<1> QED BY <1>7, <1>8, <1>9

LEMMA StepPromise == CoverInv /\ CoverInv' /\ [Next]_vars => [Promise!Next]_(Promise!vars)
<1> SUFFICES ASSUME CoverInv, CoverInv', [Next]_vars PROVE [Promise!Next]_(Promise!vars)
  OBVIOUS
<1>1. TypeOK /\ Places /\ TypeOK'
  BY DEF CoverInv, SetsInv, CountInv, TypesInv
<1>2. ASSUME Begin PROVE [Promise!Next]_(Promise!vars)
  <2>1. /\ phase = "idle" /\ phase' = "scan" /\ moved' = "no" /\ kind' = kind
        /\ live' \subseteq Keys /\ ever' = live'
    BY <1>1, <1>2 DEF Begin, Places, Present
  <2>2. CASE kind \in Whole
    <3>1. Status = "idle" /\ Status' = "running"
      BY <2>1, <2>2 DEF Status, Taken
    <3>2. LiveThere' = live' /\ EverThere' = ever'
      BY <2>1, <2>2 DEF LiveThere, EverThere
    <3>3. Returned' = Returned
      BY <2>1 DEF Returned
    <3> QED BY <2>1, <3>1, <3>2, <3>3, PromiseBegins DEF Promise!Next
  <2>3. CASE kind \notin Whole
    <3>1. /\ Status' = Status /\ LiveThere' = LiveThere /\ EverThere' = EverThere
          /\ Returned' = Returned
      BY <2>1, <2>3 DEF Status, LiveThere, EverThere, Returned
    <3> QED BY <3>1, PromiseStutters
  <2> QED BY <2>2, <2>3
<1>3. ASSUME NEW k \in Keys, NEW c \in Contents, OtherWrites(k, c)
      PROVE  [Promise!Next]_(Promise!vars)
  <2>1. /\ phase \in {"scan", "chunks"}
        /\ UNCHANGED <<phase, kind, clustered, moved, pc, found>>
    BY <1>3 DEF OtherWrites, job, scan
  <2>2. (Taken' <=> Taken) /\ (OneServer' <=> OneServer)
    BY <2>1 DEF Taken, OneServer
  <2>3. CASE phase = "chunks" \/ kind \notin Whole
    <3>1. CASE phase = "chunks"
      <4>1. live' = live /\ ever' = ever
        BY <1>3, <3>1 DEF OtherWrites
      <4> QED BY <2>1, <2>2, <4>1, NothingPromised
    <3>2. CASE kind \notin Whole
      <4>1. /\ Status' = Status /\ LiveThere' = LiveThere /\ EverThere' = EverThere
            /\ Returned' = Returned
        BY <2>1, <3>2 DEF Status, LiveThere, EverThere, Returned
      <4> QED BY <4>1, PromiseStutters
    <3> QED BY <2>3, <3>1, <3>2
  <2>4. CASE phase = "scan" /\ kind \in Whole
    <3>1. Status \in {"running", "void"} /\ Status' = Status
      BY <2>1, <2>2, <2>4 DEF Status
    <3>2. Returned' = Returned
      BY <2>1, <2>4 DEF Returned
    <3>3. /\ LiveThere = live /\ LiveThere' = live' /\ EverThere = ever /\ EverThere' = ever'
      BY <2>1, <2>4 DEF LiveThere, EverThere
    <3>4. live' \subseteq live /\ ever \subseteq ever' /\ ever' \subseteq Keys
      BY <1>1, <1>3 DEF OtherWrites, TypeOK
    <3> QED BY <3>1, <3>2, <3>3, <3>4, PromiseKeysChange DEF Promise!Next
  <2> QED BY <2>1, <2>3, <2>4
<1>4. ASSUME Move PROVE [Promise!Next]_(Promise!vars)
  <2>1. /\ phase \in {"scan", "chunks"} /\ moved = "no" /\ moved' = phase
        /\ UNCHANGED <<phase, kind, clustered, pc, found, live, ever>>
    BY <1>4 DEF Move, job, scan
  <2>2. CASE phase = "chunks" \/ clustered
    <3>1. (Taken' <=> Taken) /\ (OneServer' <=> OneServer)
      BY <2>1, <2>2 DEF Taken, OneServer
    <3> QED BY <2>1, <3>1, NothingPromised
  <2>3. CASE phase = "scan" /\ ~clustered
    <3>1. Taken' /\ ~Taken
      BY <2>1, <2>3 DEF Taken
    <3>2. LiveThere' = LiveThere /\ EverThere' = EverThere /\ Returned' = Returned
      BY <2>1, <2>3 DEF LiveThere, EverThere, Returned
    <3>3. CASE kind \in Whole
      <4>1. Status = "running" /\ Status' = "void"
        BY <2>1, <2>3, <3>1, <3>3 DEF Status
      <4> QED BY <3>2, <4>1, PromiseFails DEF Promise!Next
    <3>4. CASE kind \notin Whole
      <4>1. Status' = Status
        BY <2>1, <3>4 DEF Status
      <4> QED BY <3>2, <4>1, PromiseStutters
    <3> QED BY <3>3, <3>4
  <2> QED BY <2>1, <2>2, <2>3
<1>5. ASSUME NEW m \in Masters, Loop(m) PROVE [Promise!Next]_(Promise!vars)
  <2>1. phase = "scan"
    BY <1>1, <1>5 DEF Loop, Scan, ScanError, Leave, Take, TakeTypes, TakeValues, Places, PlaceOf, Active
  <2>2. UNCHANGED <<phase, kind, clustered, moved, live, ever>>
    BY <1>5 DEF Loop, Scan, ScanError, Leave, Take, TakeTypes, TakeValues, job, history
  <2>3. (Taken' <=> Taken) /\ (OneServer' <=> OneServer)
    BY <2>2 DEF Taken, OneServer
  <2> QED BY <2>1, <2>2, <2>3, NothingPromised
<1>6. ASSUME ScanEnds PROVE [Promise!Next]_(Promise!vars)
  BY <1>6, ScanEndsPromise
<1>7. ASSUME DeleteChunk \/ DeleteError \/ ExpireChunk \/ ChunksEnd
      PROVE  [Promise!Next]_(Promise!vars)
  <2>1. /\ phase = "chunks" /\ phase' \notin {"idle", "scan"}
        /\ UNCHANGED <<kind, clustered, moved, pc, found, live, ever>>
    BY <1>7 DEF DeleteChunk, DeleteError, ExpireChunk, ChunksEnd, job, scan, history
  <2>2. (Taken' <=> Taken) /\ (OneServer' <=> OneServer)
    BY <2>1 DEF Taken, OneServer
  <2> QED BY <2>1, <2>2, NothingPromised
<1>8. ASSUME UNCHANGED vars PROVE [Promise!Next]_(Promise!vars)
  <2>1. UNCHANGED <<phase, kind, clustered, moved, pc, found, live, ever>>
    BY <1>8 DEF vars
  <2>2. (Taken' <=> Taken) /\ (OneServer' <=> OneServer)
    BY <2>1 DEF Taken, OneServer
  <2> QED BY <2>1, <2>2, NothingPromised
<1> QED BY <1>2, <1>3, <1>4, <1>5, <1>6, <1>7, <1>8 DEF Next, Step, Finished

\* A scan that takes every key implements the promise of ScanPromise: it ends with all keys that
\* were there throughout and none that was never there, or the promise is void.
THEOREM SweepKeepsPromise == Spec => KeepsPromise
<1>1. Init => Promise!Init
  BY DEF Init, Promise!Init
<1>2. CoverInv /\ CoverInv' /\ [Next]_vars => [Promise!Next]_(Promise!vars)
  BY StepPromise
<1> QED BY <1>1, <1>2, AlwaysCover, PTL DEF Spec, KeepsPromise, Promise!Spec
=============================================================================
