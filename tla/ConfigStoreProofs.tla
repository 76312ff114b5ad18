------------------------- MODULE ConfigStoreProofs -------------------------
(***************************************************************************)
(* Proofs about ConfigStore for any names, templates, ids and limits.      *)
(***************************************************************************)
EXTENDS ConfigStore, TLAPS, SequenceTheorems, WellFoundedInduction

(* The invariant. *)

\* Each id of cs is below n.
Below(cs, n) == \A i \in DOMAIN cs : cs[i].id < n

\* The marks of recent keys, and the value history, keep to their limits.
Recents == {ms \in Seq(Marks) : Len(ms) <= MaxRecentKeys}
Histories == {vs \in Seq(Keys) : Len(vs) <= MaxValueHistory}

\* What the proofs need of a configuration: its fields and their types, and that no two
\* connections share an id.
Sound(c) ==
  /\ c = [connections |-> c.connections, favorites |-> c.favorites, recent |-> c.recent,
          groups |-> c.groups, templates |-> c.templates, bindings |-> c.bindings,
          separator |-> c.separator]
  /\ c.connections \in Seq(Conns) /\ DistinctIds(c.connections)
  /\ c.favorites \in Seq(Marks) /\ c.recent \in Recents
  /\ c.groups \in Seq(Groups) /\ c.templates \in Seq(Templates)
  /\ c.bindings \in Bindings /\ c.separator \in Separators

\* A file, of which the next start reads the configuration.
SoundFile(f) ==
  /\ f = [state |-> f.state, config |-> f.config]
  /\ f.state \in {"missing", "torn", "complete"}
  /\ Sound(f.config)

IInv ==
  /\ uses \in Uses /\ up \in BOOLEAN /\ behind \in BOOLEAN
  /\ Sound(config) /\ SoundFile(file) /\ SoundFile(legacy)
  /\ values \in Histories
  /\ nextID \in 1 .. MaxId + 1 /\ Below(config.connections, nextID)

\* What any operation on the configuration comes to: memory and the file, or one of them,
\* get c, and the file has every connection that is new in memory.
Rewrite(c, next) ==
  \/ /\ Save(c) \/ (SaveFails /\ ToSet(c.connections) \subseteq ToSet(config.connections))
     /\ config' = c /\ nextID' = next
     /\ values' \in Histories
     /\ UNCHANGED <<uses, up, legacy>>
  \/ SaveFails /\ UNCHANGED <<uses, up, memory, legacy>>
  \/ KilledInSave

Fit(c, next) == Sound(c) /\ next \in 1 .. MaxId + 1 /\ Below(c.connections, next)

Rewritten == \E c, next : Fit(c, next) /\ Rewrite(c, next)

------------------------------------------------------------------------------
(* Sequences and ids *)

\* What is left of a sequence without its element i.
LEMMA RemoveAtProperties ==
  ASSUME NEW S, NEW r \in Seq(S), NEW i \in 1 .. Len(r)
  PROVE  /\ RemoveAt(r, i) \in Seq(S)
         /\ Len(RemoveAt(r, i)) = Len(r) - 1
         /\ \A j \in 1 .. Len(r) - 1 : RemoveAt(r, i)[j] = r[IF j < i THEN j ELSE j + 1]
<1>1. Len(r) \in Nat /\ \A j \in 1 .. Len(r) : r[j] \in S
  BY LenProperties
<1> DEFINE a == SubSeq(r, 1, i - 1)
           b == SubSeq(r, i + 1, Len(r))
<1>2. /\ a \in Seq(S) /\ Len(a) = i - 1
      /\ \A j \in 1 .. i - 1 : a[j] = r[j]
  BY <1>1, SubSeqProperties
<1>3. /\ b \in Seq(S) /\ Len(b) = Len(r) - i
      /\ \A j \in 1 .. Len(r) - i : b[j] = r[i + j]
  BY <1>1, SubSeqProperties
<1>4. RemoveAt(r, i) = a \o b
  BY DEF RemoveAt
<1> HIDE DEF a, b
<1>5. /\ a \o b \in Seq(S) /\ Len(a \o b) = Len(a) + Len(b)
      /\ \A j \in 1 .. Len(a) + Len(b) :
           (a \o b)[j] = IF j <= Len(a) THEN a[j] ELSE b[j - Len(a)]
  BY <1>2, <1>3, ConcatProperties
<1>6. ASSUME NEW j \in 1 .. Len(r) - 1
      PROVE  (a \o b)[j] = r[IF j < i THEN j ELSE j + 1]
  <2>1. CASE j < i
    BY <1>1, <1>2, <1>3, <1>5, <2>1
  <2>2. CASE ~(j < i)
    <3>1. (a \o b)[j] = b[j - (i - 1)]
      BY <1>1, <1>2, <1>3, <1>5, <2>2
    <3>2. j - (i - 1) \in 1 .. Len(r) - i
      BY <1>1, <2>2
    <3>3. b[j - (i - 1)] = r[i + (j - (i - 1))] /\ i + (j - (i - 1)) = j + 1
      BY <1>1, <1>3, <3>2
    <3> QED BY <2>2, <3>1, <3>3
  <2> QED BY <2>1, <2>2
<1> QED BY <1>1, <1>2, <1>3, <1>4, <1>5, <1>6

\* What holds of 0 and goes from each number to the next holds of all up to n.
LEMMA UpTo ==
  ASSUME NEW n \in Nat, NEW S, 0 \in S, \A i \in 0 .. n - 1 : i \in S => i + 1 \in S
  PROVE  n \in S
<1> DEFINE T == {i \in 0 .. n : i \notin S}
<1> SUFFICES ASSUME T # {} PROVE FALSE
  OBVIOUS
<1>1. \E m \in T : \A y \in T : <<y, m>> \notin OpToRel(<, Nat)
  <2>1. T \subseteq Nat
    OBVIOUS
  <2> HIDE DEF T
  <2> QED BY <2>1, NatLessThanWellFounded, WFMin
<1>2. \A x, y \in Nat : y < x => <<y, x>> \in OpToRel(<, Nat)
  BY Zenon DEF OpToRel
<1>3. PICK m \in T : \A y \in T : ~(y < m)
  <2>1. T \subseteq Nat
    OBVIOUS
  <2> HIDE DEF T
  <2> QED BY <1>1, <1>2, <2>1, Zenon
<1>4. m # 0 /\ m - 1 \in 0 .. n - 1 /\ m - 1 < m
  BY <1>3
<1> QED BY <1>3, <1>4

\* The loop of Remaining, a sequence of marks for each number of marks it has seen, exists.
LEMMA RemainingLoop ==
  ASSUME NEW ms \in Seq(Marks), NEW id
  PROVE  \E h \in [0 .. Len(ms) -> Seq(Marks)] :
           /\ h[0] = << >>
           /\ \A i \in 1 .. Len(ms) :
                h[i] = IF ms[i].conn # id THEN Append(h[i - 1], ms[i]) ELSE h[i - 1]
<1> DEFINE Next1(s, m) == IF m.conn # id THEN Append(s, m) ELSE s
           Upto(n, h) == h[0] = << >> /\ \A i \in 1 .. n : h[i] = Next1(h[i - 1], ms[i])
           S == {n \in Nat : \E h \in [0 .. n -> Seq(Marks)] : Upto(n, h)}
<1>1. Len(ms) \in Nat /\ \A i \in 1 .. Len(ms) : ms[i] \in Marks
  BY LenProperties
<1>2. 0 \in S
  <2>1. [i \in 0 .. 0 |-> << >>] \in [0 .. 0 -> Seq(Marks)] /\ Upto(0, [i \in 0 .. 0 |-> << >>])
    OBVIOUS
  <2> QED BY <2>1
<1>3. ASSUME NEW n \in 0 .. Len(ms) - 1, n \in S
      PROVE  n + 1 \in S
  <2>1. PICK h \in [0 .. n -> Seq(Marks)] : Upto(n, h)
    BY <1>3
  <2> DEFINE last == Next1(h[n], ms[n + 1])
             g == [i \in 0 .. n + 1 |-> IF i <= n THEN h[i] ELSE last]
  <2>2. last \in Seq(Marks)
    <3>1. h[n] \in Seq(Marks) /\ ms[n + 1] \in Marks
      BY <1>1
    <3>2. Append(h[n], ms[n + 1]) \in Seq(Marks)
      BY <3>1, AppendProperties
    <3> QED BY <3>1, <3>2
  <2> HIDE DEF last, Next1
  <2>3. g \in [0 .. n + 1 -> Seq(Marks)]
    BY <2>2
  <2>4. g[0] = << >>
    BY <2>1
  <2>5. ASSUME NEW i \in 1 .. n + 1
        PROVE  g[i] = Next1(g[i - 1], ms[i])
    <3>1. CASE i <= n
      BY <2>1, <3>1
    <3>2. CASE i = n + 1
      <4>1. n \in Nat /\ i \in 0 .. n + 1 /\ i - 1 = n /\ n \in 0 .. n + 1 /\ ~(i <= n)
        BY <1>1, <3>2
      <4>2. g[i] = last /\ g[n] = h[n]
        BY <4>1
      <4> QED BY <3>2, <4>1, <4>2 DEF last
    <3> QED BY <3>1, <3>2
  <2>6. Upto(n + 1, g)
    BY <2>4, <2>5
  <2> HIDE DEF Upto, g
  <2> QED BY <2>3, <2>6
<1>4. Len(ms) \in S
  <2> HIDE DEF S
  <2> QED BY <1>1, <1>2, <1>3, UpTo
<1> QED BY <1>4

\* What remains are marks, and no more of them.
LEMMA RemainingType ==
  ASSUME NEW ms \in Seq(Marks), NEW id
  PROVE  Remaining(ms, id) \in Seq(Marks) /\ Len(Remaining(ms, id)) <= Len(ms)
<1> DEFINE none == << >>
           Next1(s, m) == IF m.conn # id THEN Append(s, m) ELSE s
           Is(h) == h = [i \in 0 .. Len(ms) |->
                           IF i = 0 THEN none ELSE Next1(h[i - 1], ms[i])]
           h == CHOOSE x : Is(x)
<1>1. Len(ms) \in Nat /\ \A i \in 1 .. Len(ms) : ms[i] \in Marks
  BY LenProperties
<1>2. Remaining(ms, id) = h[Len(ms)]
  BY Zenon DEF Remaining
<1>3. PICK x \in [0 .. Len(ms) -> Seq(Marks)] :
        x[0] = none /\ \A i \in 1 .. Len(ms) : x[i] = Next1(x[i - 1], ms[i])
  BY RemainingLoop
<1> HIDE DEF none, Next1
<1>4. Is(x)
  <2>1. x = [i \in 0 .. Len(ms) |-> x[i]]
    OBVIOUS
  <2>2. \A i \in 0 .. Len(ms) :
          x[i] = IF i = 0 THEN none ELSE Next1(x[i - 1], ms[i])
    BY <1>1, <1>3
  <2> QED BY <2>1, <2>2
<1>5. Is(h)
  <2> HIDE DEF Is
  <2> QED BY <1>4
<1> HIDE DEF h
<1>6. h[0] = none
  BY <1>1, <1>5
<1>7. ASSUME NEW i \in 1 .. Len(ms)
      PROVE  h[i] = Next1(h[i - 1], ms[i])
  BY <1>1, <1>5
<1> HIDE DEF Is
<1> DEFINE Good == {i \in 0 .. Len(ms) : h[i] \in Seq(Marks) /\ Len(h[i]) <= i}
<1>8. 0 \in Good
  <2>1. none \in Seq(Marks) /\ Len(none) = 0
    BY EmptySeq, LenProperties DEF none
  <2>2. 0 \in 0 .. Len(ms) /\ Len(h[0]) <= 0
    BY <1>1, <1>6, <2>1
  <2> QED BY <1>6, <2>1, <2>2
<1>9. ASSUME NEW i \in 0 .. Len(ms) - 1, i \in Good
      PROVE  i + 1 \in Good
  <2>1. i + 1 \in 1 .. Len(ms) /\ (i + 1) - 1 = i /\ i \in Nat
    BY <1>1
  <2>2. h[i + 1] = Next1(h[i], ms[i + 1]) /\ ms[i + 1] \in Marks
    BY <1>1, <1>7, <2>1
  <2>3. h[i] \in Seq(Marks) /\ Len(h[i]) \in Nat /\ Len(h[i]) <= i
    BY <1>9, LenProperties
  <2>4. Append(h[i], ms[i + 1]) \in Seq(Marks) /\ Len(Append(h[i], ms[i + 1])) = Len(h[i]) + 1
    BY <2>2, <2>3, AppendProperties
  <2>5. h[i + 1] = h[i] \/ h[i + 1] = Append(h[i], ms[i + 1])
    BY <2>2 DEF Next1
  <2>6. h[i + 1] \in Seq(Marks) /\ Len(h[i + 1]) <= i + 1
    <3>1. CASE h[i + 1] = h[i]
      BY <2>1, <2>3, <3>1
    <3>2. CASE h[i + 1] = Append(h[i], ms[i + 1])
      <4> DEFINE more == Append(h[i], ms[i + 1])
      <4>1. more \in Seq(Marks) /\ Len(more) <= i + 1 /\ h[i + 1] = more
        BY <2>1, <2>3, <2>4, <3>2
      <4> HIDE DEF more
      <4> QED BY <4>1
    <3> QED BY <2>5, <3>1, <3>2
  <2> QED BY <2>1, <2>6
<1>10. Len(ms) \in Good
  <2> HIDE DEF Good
  <2> QED BY <1>1, <1>8, <1>9, UpTo
<1> QED BY <1>2, <1>10

\* A sequence without the first of its elements that equals e.
LEMMA RemoveFirstType ==
  ASSUME NEW S, NEW s \in Seq(S), NEW e
  PROVE  RemoveFirst(s, e) \in Seq(S)
<1>1. CASE \E i \in 1 .. Len(s) : s[i] = e
  <2> DEFINE I == {i \in 1 .. Len(s) : s[i] = e}
             n == Min(I)
  <2>1. \E x \in I : \A y \in I : x <= y
    <3>1. I # {} /\ I \subseteq Nat
      BY <1>1, LenProperties
    <3> HIDE DEF I
    <3>2. \E x \in I : \A y \in I : <<y, x>> \notin OpToRel(<, Nat)
      BY <3>1, NatLessThanWellFounded, WFMin
    <3>3. \A x, y \in Nat : y < x => <<y, x>> \in OpToRel(<, Nat)
      BY Zenon DEF OpToRel
    <3>4. \E x \in I : \A y \in I : ~(y < x)
      BY <3>1, <3>2, <3>3, Zenon
    <3> QED BY <3>1, <3>4
  <2>2. n \in I
    BY <2>1 DEF Min
  <2>3. SelectInSeq(s, LAMBDA v : v = e) = n
    BY <1>1 DEF SelectInSeq
  <2>4. n \in 1 .. Len(s)
    BY <2>2
  <2> HIDE DEF n, I
  <2>5. RemoveFirst(s, e) = RemoveAt(s, n)
    BY <1>1, <2>3 DEF RemoveFirst
  <2> QED BY <2>4, <2>5, RemoveAtProperties
<1>2. CASE ~\E i \in 1 .. Len(s) : s[i] = e
  BY <1>2 DEF RemoveFirst
<1> QED BY <1>1, <1>2

\* A list is cut at its limit.
LEMMA TrimmedType ==
  ASSUME NEW S, NEW s \in Seq(S), NEW max \in Nat
  PROVE  Trimmed(s, max) \in Seq(S) /\ Len(Trimmed(s, max)) <= max
<1> DEFINE n == IF Len(s) <= max THEN Len(s) ELSE max
<1>1. Len(s) \in Nat
  BY LenProperties
<1>2. n \in 0 .. Len(s) /\ n <= max
  BY <1>1
<1>3. Min({Len(s), max}) = n
  <2>1. n \in {Len(s), max} /\ \A y \in {Len(s), max} : n <= y
    BY <1>1
  <2>2. \A x \in {Len(s), max} : (\A y \in {Len(s), max} : x <= y) => x = n
    BY <1>1
  <2> QED BY <2>1, <2>2 DEF Min
<1> HIDE DEF n
<1>4. SubSeq(s, 1, n) \in Seq(S) /\ Len(SubSeq(s, 1, n)) = n
  BY <1>1, <1>2, SubSeqProperties
<1> QED BY <1>2, <1>3, <1>4 DEF Trimmed

\* A set of ids has a largest one.
LEMMA LargestId ==
  ASSUME NEW I, I \subseteq 0 .. MaxId, I # {}
  PROVE  Max(I) \in I /\ \A x \in I : x <= Max(I)
<1> DEFINE J == {n \in Nat : MaxId - n \in I}
<1>1. J # {} /\ J \subseteq Nat
  <2>1. PICK x \in I : TRUE
    OBVIOUS
  <2>2. MaxId - x \in Nat /\ MaxId - (MaxId - x) = x
    BY ConfigStoreAssumption
  <2> QED BY <2>2
<1> HIDE DEF J
<1>2. \E m \in J : \A n \in J : <<n, m>> \notin OpToRel(<, Nat)
  BY <1>1, NatLessThanWellFounded, WFMin
<1>3. \A m, n \in Nat : n < m => <<n, m>> \in OpToRel(<, Nat)
  BY Zenon DEF OpToRel
<1>4. PICK m \in J : \A n \in J : ~(n < m)
  BY <1>1, <1>2, <1>3, Zenon
<1>5. MaxId - m \in I /\ m \in Nat
  BY <1>4 DEF J
<1>6. \A x \in I : x <= MaxId - m
  <2> TAKE x \in I
  <2>1. MaxId - x \in J
    <3>1. MaxId - x \in Nat /\ MaxId - (MaxId - x) = x
      BY ConfigStoreAssumption
    <3> QED BY <3>1 DEF J
  <2>2. ~(MaxId - x < m)
    BY <1>4, <2>1
  <2> QED BY <1>5, <2>2, ConfigStoreAssumption
<1>7. \E x \in I : \A y \in I : x >= y
  <2>1. \A y \in I : MaxId - m >= y
    BY <1>5, <1>6, ConfigStoreAssumption
  <2> QED BY <1>5, <2>1
<1>8. Max(I) \in I /\ \A y \in I : Max(I) >= y
  BY <1>7 DEF Max
<1> QED BY <1>8, ConfigStoreAssumption

\* The ids of connections.
LEMMA ConnectionIds ==
  ASSUME NEW cs \in Seq(Conns)
  PROVE  /\ DOMAIN cs = 1 .. Len(cs) /\ Len(cs) \in Nat
         /\ \A i \in DOMAIN cs : cs[i] \in Conns /\ cs[i].id \in 1 .. MaxId
<1>1. cs \in [1 .. Len(cs) -> Conns] /\ Len(cs) \in Nat
  BY LenProperties
<1> QED BY <1>1 DEF Conns

\* The id that NewConfig starts with is above those of the file.
LEMMA AfterIdsAbove ==
  ASSUME NEW cs \in Seq(Conns)
  PROVE  AfterIds(cs) \in 1 .. MaxId + 1 /\ Below(cs, AfterIds(cs))
<1> DEFINE I == {cs[i].id : i \in DOMAIN cs} \cup {0}
<1>1. I \subseteq 0 .. MaxId /\ I # {}
  BY ConnectionIds, ConfigStoreAssumption
<1>2. \A i \in DOMAIN cs : cs[i].id \in I
  OBVIOUS
<1>3. AfterIds(cs) = Max(I) + 1
  BY DEF AfterIds
<1> HIDE DEF I
<1>4. Max(I) \in 0 .. MaxId /\ \A x \in I : x <= Max(I)
  BY <1>1, LargestId
<1>5. \A i \in DOMAIN cs : cs[i].id < Max(I) + 1
  <2> TAKE i \in DOMAIN cs
  <2>1. cs[i].id \in I
    BY <1>2
  <2>2. cs[i].id <= Max(I) /\ cs[i].id \in 0 .. MaxId
    BY <1>1, <1>4, <2>1
  <2> QED BY <1>4, <2>2, ConfigStoreAssumption
<1>6. Max(I) + 1 \in 1 .. MaxId + 1
  BY <1>4, ConfigStoreAssumption
<1> QED BY <1>3, <1>5, <1>6 DEF Below

------------------------------------------------------------------------------
(* What is written and what is read *)

\* Setting a field of a configuration makes it of the fields that it has else.
Made(a, f, r, g, t, b, s) ==
  [connections |-> a, favorites |-> f, recent |-> r, groups |-> g, templates |-> t,
   bindings |-> b, separator |-> s]

LEMMA FieldsMade ==
  ASSUME NEW c, Sound(c), NEW x
  PROVE  /\ [c EXCEPT !.connections = x]
              = Made(x, c.favorites, c.recent, c.groups, c.templates, c.bindings, c.separator)
         /\ [c EXCEPT !.favorites = x]
              = Made(c.connections, x, c.recent, c.groups, c.templates, c.bindings, c.separator)
         /\ [c EXCEPT !.recent = x]
              = Made(c.connections, c.favorites, x, c.groups, c.templates, c.bindings, c.separator)
         /\ [c EXCEPT !.groups = x]
              = Made(c.connections, c.favorites, c.recent, x, c.templates, c.bindings, c.separator)
         /\ [c EXCEPT !.templates = x]
              = Made(c.connections, c.favorites, c.recent, c.groups, x, c.bindings, c.separator)
         /\ [c EXCEPT !.bindings = x]
              = Made(c.connections, c.favorites, c.recent, c.groups, c.templates, x, c.separator)
         /\ [c EXCEPT !.separator = x]
              = Made(c.connections, c.favorites, c.recent, c.groups, c.templates, c.bindings, x)
<1>1. c = [connections |-> c.connections, favorites |-> c.favorites, recent |-> c.recent,
           groups |-> c.groups, templates |-> c.templates, bindings |-> c.bindings,
           separator |-> c.separator]
  BY DEF Sound
<1> QED BY <1>1 DEF Made

\* What is made of fields of their types is sound.
LEMMA MadeSound ==
  ASSUME NEW a \in Seq(Conns), DistinctIds(a), NEW f \in Seq(Marks), NEW r \in Recents,
         NEW g \in Seq(Groups), NEW t \in Seq(Templates), NEW b \in Bindings, NEW s \in Separators
  PROVE  Sound(Made(a, f, r, g, t, b, s)) /\ Made(a, f, r, g, t, b, s).connections = a
BY DEF Sound, Made

\* A configuration with other connections is sound.
LEMMA ConnectionsSound ==
  ASSUME NEW c, Sound(c), NEW cs \in Seq(Conns), DistinctIds(cs)
  PROVE  Sound([c EXCEPT !.connections = cs]) /\ [c EXCEPT !.connections = cs].connections = cs
<1>1. [c EXCEPT !.connections = cs]
        = Made(cs, c.favorites, c.recent, c.groups, c.templates, c.bindings, c.separator)
  BY FieldsMade
<1>2. /\ c.favorites \in Seq(Marks) /\ c.recent \in Recents /\ c.groups \in Seq(Groups)
      /\ c.templates \in Seq(Templates) /\ c.bindings \in Bindings /\ c.separator \in Separators
  BY DEF Sound
<1>3. LET d == Made(cs, c.favorites, c.recent, c.groups, c.templates, c.bindings, c.separator)
      IN Sound(d) /\ d.connections = cs
  BY <1>2, MadeSound
<1> QED BY <1>1, <1>3

\* Connections without their passwords are connections.
LEMMA BareType ==
  ASSUME NEW cs \in Seq(Conns)
  PROVE  [i \in DOMAIN cs |-> Conn(cs[i].id, cs[i].name, FALSE)] \in Seq(Conns)
<1> DEFINE e(i) == Conn(cs[i].id, cs[i].name, FALSE)
<1>1. DOMAIN cs = 1 .. Len(cs) /\ Len(cs) \in Nat /\ \A i \in DOMAIN cs : cs[i] \in Conns
  BY ConnectionIds
<1>2. \A i \in 1 .. Len(cs) : e(i) \in Conns
  BY <1>1 DEF Conns, Conn
<1> HIDE DEF e
<1>3. [i \in 1 .. Len(cs) |-> e(i)] \in Seq(Conns)
  BY <1>1, <1>2, IsASeq
<1> QED BY <1>1, <1>3 DEF e

\* What is written is sound, has the same connections without their passwords, and all else.
LEMMA StripSound ==
  ASSUME NEW c, Sound(c)
  PROVE  /\ Sound(Strip(c))
         /\ Strip(c).connections =
              [i \in DOMAIN c.connections |->
                 Conn(c.connections[i].id, c.connections[i].name, FALSE)]
         /\ DOMAIN Strip(c).connections = DOMAIN c.connections
         /\ Strip(c) = [c EXCEPT !.connections = Strip(c).connections]
<1> DEFINE cs == c.connections
           bare == [i \in DOMAIN cs |-> Conn(cs[i].id, cs[i].name, FALSE)]
<1>1. DOMAIN cs = 1 .. Len(cs) /\ Len(cs) \in Nat /\ \A i \in DOMAIN cs : cs[i] \in Conns
  BY ConnectionIds DEF Sound
<1>2. bare \in Seq(Conns)
  BY BareType DEF Sound
<1>3. DistinctIds(bare)
  BY <1>1 DEF DistinctIds, Sound, Conn
<1>4. Strip(c) = [c EXCEPT !.connections = bare]
  BY DEF Strip
<1> HIDE DEF bare
<1>5. [c EXCEPT !.connections = bare].connections = bare
  BY DEF Sound
<1>6. Sound([c EXCEPT !.connections = bare])
  BY <1>2, <1>3, ConnectionsSound
<1>7. DOMAIN bare = DOMAIN cs
  BY DEF bare
<1> QED BY <1>4, <1>5, <1>6, <1>7 DEF bare

\* The templates of a sound configuration as the program reads them.
Read(ts) ==
  IF ts = << >> THEN DefaultTemplates ELSE [i \in DOMAIN ts |-> Merged(ts[i], i)]

\* A template that is read is one, and is what was written but for parts left out.
LEMMA MergedTemplate ==
  ASSUME NEW t \in Templates, NEW i
  PROVE  Merged(t, i) \in Templates /\ TemplateLeft(Merged(t, i), t, i)
<1> DEFINE filled == [o \in Optional |->
                        IF t.preset[o] = NoPreset THEN DefaultTemplates[i].preset[o]
                        ELSE t.preset[o]]
<1>1. CASE i \notin DOMAIN DefaultTemplates
  BY <1>1 DEF Merged, TemplateLeft
<1>2. CASE i \in DOMAIN DefaultTemplates
  <2>1. DefaultTemplates[i] \in Templates
    BY <1>2, LenProperties, ConfigStoreAssumption
  <2>2. filled \in [Optional -> Presets \cup {NoPreset}]
    BY <2>1 DEF Templates
  <2>3. Merged(t, i) = [name |-> t.name, preset |-> filled]
    BY <1>2 DEF Merged, Template
  <2>4. \A o \in Optional :
          \/ filled[o] = t.preset[o]
          \/ t.preset[o] = NoPreset /\ filled[o] = DefaultTemplates[i].preset[o]
    OBVIOUS
  <2> HIDE DEF filled
  <2> QED BY <1>2, <2>2, <2>3, <2>4 DEF Templates, TemplateLeft
<1> QED BY <1>1, <1>2

\* A template is left by itself.
LEMMA TemplateItself ==
  ASSUME NEW t, NEW i
  PROVE  TemplateLeft(t, t, i)
BY DEF TemplateLeft

LEMMA ReadTemplates ==
  ASSUME NEW ts \in Seq(Templates)
  PROVE  /\ Read(ts) \in Seq(Templates)
         /\ ts # << >> =>
              /\ Len(Read(ts)) = Len(ts)
              /\ \A i \in DOMAIN ts : TemplateLeft(Read(ts)[i], ts[i], i)
<1>1. CASE ts = << >>
  BY <1>1, ConfigStoreAssumption DEF Read
<1>2. CASE ts # << >>
  <2> DEFINE e(i) == Merged(ts[i], i)
  <2>1. /\ DOMAIN ts = 1 .. Len(ts) /\ Len(ts) \in Nat
        /\ \A i \in 1 .. Len(ts) : ts[i] \in Templates
    BY LenProperties
  <2>2. \A i \in 1 .. Len(ts) : e(i) \in Templates /\ TemplateLeft(e(i), ts[i], i)
    BY <2>1, MergedTemplate
  <2>3. Read(ts) = [i \in 1 .. Len(ts) |-> e(i)]
    BY <1>2, <2>1 DEF Read
  <2> HIDE DEF e
  <2>4. [i \in 1 .. Len(ts) |-> e(i)] \in Seq(Templates)
    BY <2>1, <2>2, IsASeq
  <2>5. Len([i \in 1 .. Len(ts) |-> e(i)]) = Len(ts)
    BY <2>1, <2>4, LenProperties
  <2> QED BY <2>1, <2>2, <2>3, <2>4, <2>5
<1> QED BY <1>1, <1>2

\* What is read is sound, and only its templates may differ from the file.
LEMMA LoadedSound ==
  ASSUME NEW c, Sound(c)
  PROVE  /\ Sound(Loaded(c))
         /\ Loaded(c) = [c EXCEPT !.templates = Read(c.templates)]
         /\ Loaded(c).connections = c.connections
         /\ Loaded(c).templates = Read(c.templates)
<1>1. Loaded(c) = [c EXCEPT !.templates = Read(c.templates)]
  BY DEF Loaded, Read
<1>2. Read(c.templates) \in Seq(Templates)
  BY ReadTemplates DEF Sound
<1> QED BY <1>1, <1>2 DEF Sound

\* A restart leaves what was written.
LEMMA WrittenLeft ==
  ASSUME NEW c, Sound(c)
  PROVE  LeftOf(Loaded(Strip(c)), c)
<1> DEFINE s == Strip(c)
           l == Loaded(s)
<1>1. /\ Sound(s) /\ s = [c EXCEPT !.connections = s.connections]
      /\ s.connections = [i \in DOMAIN c.connections |->
                            Conn(c.connections[i].id, c.connections[i].name, FALSE)]
  BY StripSound
<1>2. /\ l = [s EXCEPT !.templates = Read(s.templates)]
      /\ l.connections = s.connections /\ l.templates = Read(s.templates)
  BY <1>1, LoadedSound
<1>3. s.templates = c.templates
  BY <1>1 DEF Sound
<1> HIDE DEF s, l
<1>4. l = [c EXCEPT !.connections = l.connections, !.templates = l.templates]
  BY <1>1, <1>2 DEF Sound
<1>5. c.templates # << >> =>
        /\ Len(l.templates) = Len(c.templates)
        /\ \A i \in DOMAIN c.templates : TemplateLeft(l.templates[i], c.templates[i], i)
  BY <1>2, <1>3, ReadTemplates DEF Sound
<1>6. /\ Len(l.connections) = Len(c.connections)
      /\ \A i \in DOMAIN c.connections :
           l.connections[i] = Conn(c.connections[i].id, c.connections[i].name, FALSE)
  <2>1. c.connections \in Seq(Conns) /\ s.connections \in Seq(Conns)
    BY <1>1 DEF Sound
  <2>2. DOMAIN s.connections = DOMAIN c.connections
    BY <1>1
  <2>3. Len(s.connections) = Len(c.connections)
    BY <2>1, <2>2, LenProperties
  <2> QED BY <1>1, <1>2, <2>3
<1>7. LeftOf(l, c)
  BY <1>4, <1>5, <1>6 DEF LeftOf
<1> QED BY <1>7 DEF l, s

\* So does a second start from the same file.
LEMMA ReadLeft ==
  ASSUME NEW c, Sound(c)
  PROVE  LeftOf(Loaded(c), Loaded(c))
<1> DEFINE l == Loaded(c)
<1>1. Sound(l)
  BY LoadedSound
<1> HIDE DEF l
<1>2. l = [l EXCEPT !.connections = l.connections, !.templates = l.templates]
  BY <1>1 DEF Sound
<1>3. \A i \in DOMAIN l.templates : TemplateLeft(l.templates[i], l.templates[i], i)
  BY TemplateItself
<1>4. LeftOf(l, l)
  BY <1>2, <1>3 DEF LeftOf
<1> QED BY <1>4 DEF l

------------------------------------------------------------------------------
(* Operations *)

\* The configuration with other lists than those of connections and templates is sound.
LEMMA OtherSound ==
  ASSUME NEW c, Sound(c), NEW x
  PROVE  LET Same(d) == Sound(d) /\ d.connections = c.connections
         IN /\ x \in Seq(Marks) => Same([c EXCEPT !.favorites = x])
            /\ x \in Recents => Same([c EXCEPT !.recent = x])
            /\ x \in Seq(Groups) => Same([c EXCEPT !.groups = x])
            /\ x \in Bindings => Same([c EXCEPT !.bindings = x])
            /\ x \in Separators => Same([c EXCEPT !.separator = x])
BY FieldsMade, MadeSound DEF Sound

LEMMA TemplatesSound ==
  ASSUME NEW c, Sound(c), NEW ts \in Seq(Templates)
  PROVE  /\ Sound([c EXCEPT !.templates = ts])
         /\ [c EXCEPT !.templates = ts].connections = c.connections
BY FieldsMade, MadeSound DEF Sound

\* An operation that leaves the connections as they are, or fewer.
LEMMA ChangeRewrites ==
  ASSUME IInv, NEW c, Sound(c), Change(c),
         ToSet(c.connections) \subseteq ToSet(config.connections),
         Below(c.connections, nextID)
  PROVE  Rewritten
<1>1. Fit(c, nextID)
  BY DEF IInv, Fit
<1>2. Rewrite(c, nextID)
  BY DEF Change, Rewrite, IInv
<1> QED BY <1>1, <1>2 DEF Rewritten

LEMMA KeptRewrites ==
  ASSUME IInv, NEW c, Sound(c), Change(c), c.connections = config.connections
  PROVE  Rewritten
BY ChangeRewrites DEF IInv

LEMMA RollBackRewrites ==
  ASSUME IInv, NEW c, NEW n, Fit(c, n), ChangeOrRollBack(c, n)
  PROVE  Rewritten
<1>1. Rewrite(c, n)
  BY DEF ChangeOrRollBack, Rewrite, IInv
<1> QED BY <1>1 DEF Rewritten

LEMMA ValuesRewrite ==
  ASSUME IInv, NEW vs \in Histories, ChangeValues(vs)
  PROVE  Rewritten
<1>1. Fit(config, nextID)
  BY DEF IInv, Fit
<1>2. Rewrite(config, nextID)
  BY DEF ChangeValues, Rewrite
<1> QED BY <1>1, <1>2 DEF Rewritten

\* A new connection gets an id of its own.
LEMMA AddConnectionRewrites ==
  ASSUME IInv, NEW n \in Names, NEW p \in BOOLEAN, AddConnection(n, p)
  PROVE  Rewritten
<1> DEFINE cs == config.connections
           new == Conn(nextID, n, p)
           more == Append(cs, new)
           c == [config EXCEPT !.connections = more]
<1>1. cs \in Seq(Conns) /\ nextID \in 1 .. MaxId /\ Below(cs, nextID) /\ DistinctIds(cs)
  BY ConfigStoreAssumption DEF IInv, Sound, AddConnection
<1>2. new \in Conns
  BY <1>1 DEF Conns, Conn
<1>3. /\ more \in Seq(Conns) /\ Len(more) = Len(cs) + 1
      /\ \A i \in 1 .. Len(cs) : more[i] = cs[i]
      /\ more[Len(cs) + 1] = new
  BY <1>1, <1>2, AppendProperties
<1>4. /\ DOMAIN more = 1 .. Len(cs) + 1 /\ DOMAIN cs = 1 .. Len(cs) /\ Len(cs) \in Nat
      /\ \A i \in DOMAIN cs : cs[i].id \in 1 .. MaxId /\ cs[i].id < nextID
  BY <1>1, <1>3, ConnectionIds DEF Below
<1> HIDE DEF more
<1>5. new.id = nextID
  BY DEF Conn
<1> HIDE DEF new, cs
<1>6. \A i \in DOMAIN more :
        \/ i \in DOMAIN cs /\ more[i].id = cs[i].id /\ more[i].id < nextID
        \/ i = Len(cs) + 1 /\ more[i].id = nextID
  BY <1>3, <1>4, <1>5
<1>7. DistinctIds(more)
  BY <1>1, <1>4, <1>6 DEF DistinctIds
<1>8. Below(more, nextID + 1)
  <2> SUFFICES ASSUME NEW i \in DOMAIN more PROVE more[i].id < nextID + 1
    BY DEF Below
  <2>1. CASE i \in DOMAIN cs /\ more[i].id = cs[i].id /\ more[i].id < nextID
    BY <1>1, <1>4, <2>1, ConfigStoreAssumption
  <2>2. CASE more[i].id = nextID
    BY <1>1, <2>2, ConfigStoreAssumption
  <2> QED BY <1>6, <2>1, <2>2
<1>9. Sound(c) /\ c.connections = more
  BY <1>3, <1>7, ConnectionsSound DEF IInv
<1>10. nextID + 1 \in 1 .. MaxId + 1
  BY <1>1, ConfigStoreAssumption
<1>11. ChangeOrRollBack(c, nextID + 1)
  BY DEF AddConnection, more, cs, new
<1> HIDE DEF c
<1>12. Fit(c, nextID + 1)
  BY <1>8, <1>9, <1>10 DEF Fit
<1> QED BY <1>11, <1>12, RollBackRewrites

\* A connection that is changed keeps its id.
LEMMA UpdateConnectionRewrites ==
  ASSUME IInv, NEW id, NEW n \in Names, NEW p \in BOOLEAN, UpdateConnection(id, n, p)
  PROVE  Rewritten
<1> DEFINE cs == config.connections
<1>1. PICK i \in DOMAIN cs :
        /\ cs[i].id = id
        /\ ChangeOrRollBack([config EXCEPT !.connections[i] = Conn(id, n, p)], nextID)
  BY DEF UpdateConnection, First
<1> DEFINE new == Conn(id, n, p)
           other == [cs EXCEPT ![i] = new]
           c == [config EXCEPT !.connections = other]
<1>2. cs \in Seq(Conns) /\ DistinctIds(cs) /\ Below(cs, nextID) /\ nextID \in 1 .. MaxId + 1
  BY DEF IInv, Sound
<1>3. /\ DOMAIN cs = 1 .. Len(cs) /\ Len(cs) \in Nat
      /\ \A j \in DOMAIN cs : cs[j].id \in 1 .. MaxId
  BY <1>2, ConnectionIds
<1>4. new \in Conns /\ new.id = id
  BY <1>1, <1>3 DEF Conns, Conn
<1> HIDE DEF new
<1>5. /\ other \in Seq(Conns) /\ DOMAIN other = DOMAIN cs
      /\ \A j \in DOMAIN cs : other[j].id = cs[j].id
  BY <1>1, <1>2, <1>3, <1>4, ExceptSeq
<1> HIDE DEF other
<1>6. DistinctIds(other) /\ Below(other, nextID)
  BY <1>2, <1>5 DEF DistinctIds, Below
<1>7. Sound(c) /\ c.connections = other
  BY <1>5, <1>6, ConnectionsSound DEF IInv
<1>8. c = [config EXCEPT !.connections[i] = Conn(id, n, p)]
  BY DEF other, new, IInv, Sound
<1> HIDE DEF c
<1>9. Fit(c, nextID)
  BY <1>2, <1>6, <1>7 DEF Fit
<1> QED BY <1>1, <1>8, <1>9, RollBackRewrites

LEMMA DeleteConnectionRewrites ==
  ASSUME IInv, NEW id, DeleteConnection(id)
  PROVE  Rewritten
<1> DEFINE cs == config.connections
<1>1. PICK i \in DOMAIN cs : Change([config EXCEPT !.connections = RemoveAt(cs, i)])
  BY DEF DeleteConnection, First
<1> DEFINE fewer == RemoveAt(cs, i)
           c == [config EXCEPT !.connections = fewer]
<1>2. cs \in Seq(Conns) /\ DistinctIds(cs) /\ Below(cs, nextID)
  BY DEF IInv, Sound
<1>3. DOMAIN cs = 1 .. Len(cs) /\ Len(cs) \in Nat
  BY <1>2, ConnectionIds
<1>4. /\ fewer \in Seq(Conns) /\ Len(fewer) = Len(cs) - 1
      /\ \A j \in 1 .. Len(cs) - 1 : fewer[j] = cs[IF j < i THEN j ELSE j + 1]
  BY <1>2, <1>3, RemoveAtProperties
<1> HIDE DEF fewer, cs
<1>5. DOMAIN fewer = 1 .. Len(cs) - 1
  BY <1>3, <1>4, LenProperties
<1>6. DistinctIds(fewer)
  <2> SUFFICES ASSUME NEW j \in DOMAIN fewer, NEW k \in DOMAIN fewer, fewer[j].id = fewer[k].id
               PROVE  j = k
    BY DEF DistinctIds
  <2> DEFINE Old(x) == IF x < i THEN x ELSE x + 1
  <2>1. /\ Old(j) \in DOMAIN cs /\ Old(k) \in DOMAIN cs
        /\ fewer[j] = cs[Old(j)] /\ fewer[k] = cs[Old(k)]
    BY <1>3, <1>4, <1>5
  <2>2. Old(j) = Old(k)
    BY <1>2, <2>1 DEF DistinctIds
  <2> QED BY <1>3, <1>5, <2>2
<1>7. \A j \in DOMAIN fewer : \E k \in DOMAIN cs : fewer[j] = cs[k]
  <2> TAKE j \in DOMAIN fewer
  <2>1. (IF j < i THEN j ELSE j + 1) \in DOMAIN cs
    BY <1>3, <1>5
  <2> QED BY <1>4, <1>5, <2>1
<1>8. Below(fewer, nextID)
  BY <1>2, <1>7 DEF Below
<1>9. ToSet(fewer) \subseteq ToSet(cs)
  BY <1>7 DEF ToSet
<1>10. Sound(c) /\ c.connections = fewer
  BY <1>4, <1>6, ConnectionsSound DEF IInv
<1>11. Change(c)
  BY <1>1 DEF fewer
<1> HIDE DEF c
<1> QED BY <1>8, <1>9, <1>10, <1>11, ChangeRewrites DEF cs

LEMMA MarksRewrite ==
  ASSUME IInv, NEW id \in Ids, NEW key,
         \/ /\ key \in Keys
            /\ AddFavorite(id, key) \/ RemoveFavorite(id, key) \/ AddRecentKey(id, key)
         \/ ClearRecentKeys(id)
  PROVE  Rewritten
<1> DEFINE f(x) == [config EXCEPT !.favorites = x]
           r(x) == [config EXCEPT !.recent = x]
           m == Mark(id, key)
<1>1. (key \in Keys => m \in Marks) /\ config.favorites \in Seq(Marks) /\ config.recent \in Recents
  BY DEF Mark, Marks, IInv, Sound
<1>2. \/ \E x \in Seq(Marks) : Change(f(x)) \/ ChangeOrRollBack(f(x), nextID)
      \/ \E x \in Recents : Change(r(x))
  <2>1. CASE key \in Keys /\ AddFavorite(id, key)
    <3>1. Append(config.favorites, m) \in Seq(Marks)
      BY <1>1, <2>1, AppendProperties
    <3> QED BY <2>1, <3>1 DEF AddFavorite
  <2>2. CASE key \in Keys /\ RemoveFavorite(id, key)
    <3>1. RemoveFirst(config.favorites, m) \in Seq(Marks)
      BY <1>1, <2>2, RemoveFirstType
    <3> QED BY <2>2, <3>1 DEF RemoveFavorite
  <2>3. CASE key \in Keys /\ AddRecentKey(id, key)
    <3> DEFINE others == RemoveFirst(config.recent, m)
    <3>1. others \in Seq(Marks) /\ <<m>> \in Seq(Marks)
      BY <1>1, <2>3, RemoveFirstType DEF Recents
    <3>2. <<m>> \o others \in Seq(Marks)
      BY <3>1, ConcatProperties
    <3>3. Trimmed(<<m>> \o others, MaxRecentKeys) \in Recents
      BY <3>2, TrimmedType, ConfigStoreAssumption DEF Recents
    <3> QED BY <2>3, <3>3 DEF AddRecentKey
  <2>4. CASE ClearRecentKeys(id)
    <3>1. /\ Remaining(config.recent, id) \in Seq(Marks)
          /\ Len(Remaining(config.recent, id)) <= Len(config.recent)
      BY <1>1, RemainingType DEF Recents
    <3>2. Remaining(config.recent, id) \in Recents
      BY <1>1, <3>1, LenProperties, ConfigStoreAssumption DEF Recents
    <3> QED BY <2>4, <3>2 DEF ClearRecentKeys
  <2> QED BY <2>1, <2>2, <2>3, <2>4
<1>3. ASSUME NEW x \in Seq(Marks), Change(f(x)) \/ ChangeOrRollBack(f(x), nextID)
      PROVE  Rewritten
  <2>1. Sound(f(x)) /\ f(x).connections = config.connections
    BY OtherSound DEF IInv
  <2> HIDE DEF f
  <2>2. Fit(f(x), nextID)
    BY <2>1 DEF IInv, Fit
  <2> QED BY <1>3, <2>1, <2>2, KeptRewrites, RollBackRewrites
<1>4. ASSUME NEW x \in Recents, Change(r(x))
      PROVE  Rewritten
  <2>1. Sound(r(x)) /\ r(x).connections = config.connections
    BY OtherSound DEF IInv
  <2> HIDE DEF r
  <2> QED BY <1>4, <2>1, KeptRewrites
<1> QED BY <1>2, <1>3, <1>4

LEMMA GroupsRewrite ==
  ASSUME IInv, NEW name \in GroupNames, NEW id \in Ids,
         AddGroup(name) \/ AddConnectionToGroup(name, id) \/ RemoveConnectionFromGroup(name, id)
  PROVE  Rewritten
<1> DEFINE gs == config.groups
<1>1. /\ gs \in Seq(Groups) /\ DOMAIN gs = 1 .. Len(gs)
      /\ \A i \in DOMAIN gs : gs[i] \in Groups /\ gs[i].members \in Seq(Ids)
  <2>1. gs \in Seq(Groups)
    BY DEF IInv, Sound
  <2>2. gs \in [1 .. Len(gs) -> Groups]
    BY <2>1, LenProperties
  <2> QED BY <2>1, <2>2 DEF Groups
<1>2. \E x \in Seq(Groups) : Change([config EXCEPT !.groups = x])
  <2>1. CASE AddGroup(name)
    <3>1. << >> \in Seq(Ids)
      BY EmptySeq
    <3>2. Group(name, << >>) \in Groups
      BY <3>1 DEF Group, Groups
    <3>3. Append(gs, Group(name, << >>)) \in Seq(Groups)
      BY <1>1, <3>2, AppendProperties
    <3> QED BY <2>1, <3>3 DEF AddGroup
  <2>2. ASSUME NEW i \in DOMAIN gs, NEW ms \in Seq(Ids),
               Change([config EXCEPT !.groups[i].members = ms])
        PROVE  \E x \in Seq(Groups) : Change([config EXCEPT !.groups = x])
    <3>1. [config EXCEPT !.groups[i].members = ms]
            = [config EXCEPT !.groups = [gs EXCEPT ![i] = [gs[i] EXCEPT !.members = ms]]]
      BY DEF IInv, Sound
    <3>2. [gs[i] EXCEPT !.members = ms] \in Groups
      BY <1>1 DEF Groups
    <3>3. [gs EXCEPT ![i] = [gs[i] EXCEPT !.members = ms]] \in Seq(Groups)
      BY <1>1, <3>2, ExceptSeq
    <3> QED BY <2>2, <3>1, <3>3
  <2>3. CASE AddConnectionToGroup(name, id)
    <3>1. PICK i \in DOMAIN gs :
            Change([config EXCEPT !.groups[i].members = Append(gs[i].members, id)])
      BY <2>3 DEF AddConnectionToGroup
    <3>2. Append(gs[i].members, id) \in Seq(Ids)
      BY <1>1, AppendProperties
    <3> QED BY <2>2, <3>1, <3>2
  <2>4. CASE RemoveConnectionFromGroup(name, id)
    <3>1. PICK i \in DOMAIN gs :
            Change([config EXCEPT !.groups[i].members = RemoveFirst(gs[i].members, id)])
      BY <2>4 DEF RemoveConnectionFromGroup
    <3>2. RemoveFirst(gs[i].members, id) \in Seq(Ids)
      BY <1>1, RemoveFirstType
    <3> QED BY <2>2, <3>1, <3>2
  <2> QED BY <2>1, <2>3, <2>4
<1>3. PICK x \in Seq(Groups) : Change([config EXCEPT !.groups = x])
  BY <1>2
<1> DEFINE c == [config EXCEPT !.groups = x]
<1>4. Sound(c) /\ c.connections = config.connections
  BY OtherSound DEF IInv
<1>5. Change(c)
  BY <1>3
<1> HIDE DEF c
<1> QED BY <1>4, <1>5, KeptRewrites

LEMMA TemplatesRewrite ==
  ASSUME IInv, NEW t \in Templates, NEW name, AddTemplate(t) \/ DeleteTemplate(name)
  PROVE  Rewritten
<1> DEFINE old == config.templates
<1>1. old \in Seq(Templates)
  BY DEF IInv, Sound
<1>2. \E ts \in Seq(Templates) : Change([config EXCEPT !.templates = ts])
  <2>1. CASE AddTemplate(t)
    <3>1. Append(old, t) \in Seq(Templates)
      BY <1>1, AppendProperties
    <3> QED BY <2>1, <3>1 DEF AddTemplate
  <2>2. CASE DeleteTemplate(name)
    <3>1. PICK i \in DOMAIN old : Change([config EXCEPT !.templates = RemoveAt(old, i)])
      BY <2>2 DEF DeleteTemplate
    <3>2. RemoveAt(old, i) \in Seq(Templates)
      BY <1>1, <3>1, LenProperties, RemoveAtProperties
    <3> QED BY <3>1, <3>2
  <2> QED BY <2>1, <2>2
<1>3. PICK ts \in Seq(Templates) : Change([config EXCEPT !.templates = ts])
  BY <1>2
<1> DEFINE c == [config EXCEPT !.templates = ts]
<1>4. Sound(c) /\ c.connections = config.connections
  BY TemplatesSound DEF IInv
<1>5. Change(c)
  BY <1>3
<1> HIDE DEF c
<1> QED BY <1>4, <1>5, KeptRewrites

LEMMA SettingsRewrite ==
  ASSUME IInv, NEW x,
         (x \in Bindings /\ SetKeyBindings(x)) \/ (x \in Separators /\ SetTreeSeparator(x))
  PROVE  Rewritten
<1> DEFINE b == [config EXCEPT !.bindings = x]
           s == [config EXCEPT !.separator = x]
<1>1. /\ x \in Bindings => Sound(b) /\ b.connections = config.connections
      /\ x \in Separators => Sound(s) /\ s.connections = config.connections
  BY OtherSound DEF IInv
<1>2. (x \in Bindings /\ Change(b)) \/ (x \in Separators /\ Change(s))
  BY DEF SetKeyBindings, SetTreeSeparator
<1> HIDE DEF b, s
<1> QED BY <1>1, <1>2, KeptRewrites

\* The value history is cut at its limit.
LEMMA ValueHistoryRewrites ==
  ASSUME IInv, (\E k \in Keys : AddValueHistory(k)) \/ ClearValueHistory
  PROVE  Rewritten
<1>1. CASE \E k \in Keys : AddValueHistory(k)
  <2>1. PICK k \in Keys : AddValueHistory(k)
    BY <1>1
  <2>2. <<k>> \in Seq(Keys) /\ values \in Seq(Keys)
    BY DEF IInv, Histories
  <2>3. <<k>> \o values \in Seq(Keys)
    BY <2>2, ConcatProperties
  <2>4. Trimmed(<<k>> \o values, MaxValueHistory) \in Histories
    BY <2>3, TrimmedType, ConfigStoreAssumption DEF Histories
  <2> QED BY <2>1, <2>4, ValuesRewrite DEF AddValueHistory
<1>2. CASE ClearValueHistory
  <2>1. << >> \in Histories
    BY EmptySeq, ConfigStoreAssumption DEF Histories
  <2> QED BY <1>2, <2>1, ValuesRewrite DEF ClearValueHistory
<1> QED BY <1>1, <1>2

\* A step of a running program is an operation of those, or its end.
LEMMA Steps ==
  ASSUME IInv, Next
  PROVE  Rewritten \/ Migrate \/ Start \/ RemoveFile \/ Stop
<1>1. CASE \E n \in Names, p \in BOOLEAN : AddConnection(n, p)
  BY <1>1, AddConnectionRewrites
<1>2. CASE \E i \in Ids, n \in Names, p \in BOOLEAN : UpdateConnection(i, n, p)
  BY <1>2, UpdateConnectionRewrites
<1>3. CASE \E i \in Ids : DeleteConnection(i)
  BY <1>3, DeleteConnectionRewrites
<1>4. CASE \E i \in Ids, k \in Keys :
             AddFavorite(i, k) \/ RemoveFavorite(i, k) \/ AddRecentKey(i, k)
  BY <1>4, MarksRewrite
<1>5. CASE \E i \in Ids : ClearRecentKeys(i)
  BY <1>5, MarksRewrite
<1>6. CASE \E g \in GroupNames : AddGroup(g)
  <2>1. 0 \in Ids
    BY ConfigStoreAssumption DEF Ids
  <2> QED BY <1>6, <2>1, GroupsRewrite
<1>7. CASE \E g \in GroupNames, i \in Ids :
             AddConnectionToGroup(g, i) \/ RemoveConnectionFromGroup(g, i)
  BY <1>7, GroupsRewrite
<1>8. CASE \E t \in Templates : AddTemplate(t)
  BY <1>8, TemplatesRewrite
<1>9. CASE \E n \in TemplateNames : DeleteTemplate(n)
  <2>1. PICK n \in TemplateNames : DeleteTemplate(n)
    BY <1>9
  <2>2. Template(n, [o \in Optional |-> NoPreset]) \in Templates
    BY DEF Template, Templates
  <2> QED BY <2>1, <2>2, TemplatesRewrite
<1>10. CASE \E b \in Bindings : SetKeyBindings(b)
  BY <1>10, SettingsRewrite
<1>11. CASE \E s \in Separators : SetTreeSeparator(s)
  BY <1>11, SettingsRewrite
<1>12. CASE (\E k \in Keys : AddValueHistory(k)) \/ ClearValueHistory
  BY <1>12, ValueHistoryRewrites
<1>13. CASE Migrate \/ Start \/ RemoveFile \/ Stop
  BY <1>13
<1> QED BY <1>1, <1>2, <1>3, <1>4, <1>5, <1>6, <1>7, <1>8, <1>9, <1>10, <1>11, <1>12, <1>13
        DEF Next

------------------------------------------------------------------------------
(* The invariant holds *)

LEMMA DefaultsSound ==
  Sound(Defaults) /\ \A n : Below(Defaults.connections, n)
<1>1. << >> \in Seq(Conns) /\ << >> \in Seq(Marks) /\ << >> \in Seq(Groups) /\ DOMAIN << >> = {}
  BY EmptySeq
<1>2. Defaults.connections = << >> /\ DistinctIds(<< >>)
  BY DEF Defaults, DistinctIds
<1>3. << >> \in Recents
  BY <1>1, EmptySeq, ConfigStoreAssumption DEF Recents
<1> QED BY <1>1, <1>2, <1>3, ConfigStoreAssumption DEF Sound, Defaults, Below

\* What is written of a sound configuration, and nothing, are files.
LEMMA SoundFiles ==
  /\ SoundFile(Missing) /\ SoundFile(Torn)
  /\ \A c : Sound(c) => SoundFile(Written(c))
BY DefaultsSound DEF SoundFile, Missing, Torn, Written

LEMMA InitIInv ==
  ASSUME Init
  PROVE  IInv
<1>1. nextID \in 1 .. MaxId + 1
  BY ConfigStoreAssumption DEF Init
<1>2. SoundFile(file) /\ Sound(config) /\ Below(config.connections, nextID)
  BY DefaultsSound, SoundFiles DEF Init
<1>3. SoundFile(legacy)
  <2>1. CASE legacy \in {Missing, Torn}
    BY <2>1, SoundFiles
  <2>2. ASSUME NEW n \in Names, NEW p \in BOOLEAN,
               legacy = Written([Defaults EXCEPT !.connections = <<Conn(1, n, p)>>])
        PROVE  SoundFile(legacy)
    <3> DEFINE cs == <<Conn(1, n, p)>>
    <3>1. Conn(1, n, p) \in Conns
      BY ConfigStoreAssumption DEF Conn, Conns
    <3>2. cs \in Seq(Conns) /\ DistinctIds(cs)
      BY <3>1 DEF DistinctIds
    <3> HIDE DEF cs
    <3>3. Sound([Defaults EXCEPT !.connections = cs])
      BY <3>2, DefaultsSound, ConnectionsSound
    <3>4. SoundFile(Written([Defaults EXCEPT !.connections = cs]))
      BY <3>3, SoundFiles
    <3> QED BY <2>2, <3>4 DEF cs
  <2> QED BY <2>1, <2>2 DEF Init
<1>4. values \in Histories
  BY EmptySeq, ConfigStoreAssumption DEF Init, Histories
<1> QED BY <1>1, <1>2, <1>3, <1>4 DEF IInv, Init

\* Each step leaves the configuration and its files sound.
LEMMA NextIInv ==
  ASSUME IInv, [Next]_vars
  PROVE  IInv'
<1>0. << >> \in Histories
  BY EmptySeq, ConfigStoreAssumption DEF Histories
<1>1. CASE Rewritten
  <2>1. PICK c, n : Fit(c, n) /\ Rewrite(c, n)
    BY <1>1 DEF Rewritten
  <2>2. SoundFile(Written(Strip(c)))
    BY <2>1, StripSound, SoundFiles DEF Fit
  <2>3. SoundFile(file)'
    BY <2>1, <2>2, SoundFiles DEF Rewrite, Save, SaveFails, KilledInSave, IInv
  <2>4. Sound(config)' /\ (nextID \in 1 .. MaxId + 1)' /\ Below(config.connections, nextID)'
    BY <2>1, DefaultsSound, ConfigStoreAssumption
       DEF Rewrite, KilledInSave, Ended, IInv, Fit, memory
  <2>5. (uses \in Uses)' /\ (up \in BOOLEAN)' /\ (behind \in BOOLEAN)' /\ SoundFile(legacy)'
    BY <2>1 DEF Rewrite, Save, SaveFails, KilledInSave, Ended, IInv
  <2>6. (values \in Histories)'
    BY <1>0, <2>1 DEF Rewrite, KilledInSave, Ended, IInv, memory
  <2> QED BY <2>3, <2>4, <2>5, <2>6 DEF IInv
<1>2. CASE Migrate
  BY <1>2, SoundFiles DEF Migrate, memory, IInv
<1>3. CASE Start
  <2>1. Sound(Loaded(file.config)) /\ Loaded(file.config).connections = file.config.connections
    BY LoadedSound DEF IInv, SoundFile
  <2>2. /\ AfterIds(file.config.connections) \in 1 .. MaxId + 1
        /\ Below(file.config.connections, AfterIds(file.config.connections))
    BY AfterIdsAbove DEF IInv, SoundFile, Sound
  <2> QED BY <1>0, <1>3, <2>1, <2>2 DEF Start, IInv
<1>4. CASE RemoveFile
  BY <1>4, SoundFiles DEF RemoveFile, memory, IInv
<1>5. CASE Stop
  <2>1. /\ config' = Defaults /\ values' = << >> /\ nextID' = 1 /\ up' = FALSE
        /\ UNCHANGED <<uses, file, legacy, behind>>
    BY <1>5 DEF Stop, Ended
  <2>2. Sound(config') /\ Below(config'.connections, nextID') /\ nextID' \in 1 .. MaxId + 1
    BY <2>1, DefaultsSound, ConfigStoreAssumption
  <2> QED BY <1>0, <2>1, <2>2 DEF IInv
<1>6. CASE UNCHANGED vars
  BY <1>6 DEF vars, memory, IInv
<1> QED BY <1>1, <1>2, <1>3, <1>4, <1>5, <1>6, Steps

LEMMA Invariant == Spec => []IInv
<1>1. Init => IInv
  BY InitIInv
<1>2. IInv /\ [Next]_vars => IInv'
  BY NextIInv
<1> QED BY <1>1, <1>2, PTL DEF Spec

\* The configuration, the value history and both files keep their types through every
\* operation, and the recent keys and the value history their limits (config.go:363, 407).
THEOREM ConfigStoreTypes == Spec => []TypeOK
<1>1. \A c : Sound(c) => c \in Configs
  BY DEF Sound, Configs, Recents
<1>2. \A f : SoundFile(f) => f \in Files
  BY <1>1 DEF SoundFile, Files
<1>3. IInv => TypeOK
  <2> SUFFICES ASSUME IInv PROVE TypeOK
    OBVIOUS
  <2>1. config \in Configs /\ file \in Files /\ legacy \in Files
    BY <1>1, <1>2 DEF IInv
  <2>2. Len(config.recent) <= MaxRecentKeys
    BY DEF IInv, Sound, Recents
  <2>3. values \in Seq(Keys) /\ Len(values) <= MaxValueHistory
    BY DEF IInv, Histories
  <2> QED BY <2>1, <2>2, <2>3 DEF IInv, TypeOK
<1> QED BY <1>3, Invariant, PTL

\* The ids of connections are distinct and below the next one, for any number of
\* connections, failed saves, deaths in a write and restarts (config.go:64).
THEOREM ConfigStoreIdsDistinct == Spec => []IdsDistinct
<1>1. IInv => IdsDistinct
  BY DEF IInv, Sound, Below, IdsDistinct
<1> QED BY <1>1, Invariant, PTL

\* A connection that a running program adds or changes is in the file by the end of the
\* step: AddConnection and UpdateConnection take back what they could not save.
THEOREM ConfigStoreAddedOnlyIfSaved == Spec => AddedOnlyIfSaved
<1>1. ASSUME IInv, [Next]_vars
      PROVE  NewInFile
  <2> SUFFICES ASSUME up, up', NEW c \in ToSet(config'.connections) \ ToSet(config.connections)
               PROVE  \E d \in ToSet(file'.config.connections) : d.id = c.id /\ d.name = c.name
    BY DEF NewInFile
  <2>1. Rewritten
    <3>1. config' # config
      OBVIOUS
    <3> QED BY <1>1, <3>1, Steps
            DEF Migrate, Start, RemoveFile, Stop, Ended, vars, memory
  <2>2. PICK d, n : Fit(d, n) /\ Rewrite(d, n)
    BY <2>1 DEF Rewritten
  <2>3. config' = d /\ Save(d)
    BY <2>2 DEF Rewrite, KilledInSave, Ended, memory
  <2>4. PICK i \in DOMAIN d.connections : c = d.connections[i]
    BY <2>3 DEF ToSet
  <2>5. /\ file'.config = Strip(d) /\ DOMAIN Strip(d).connections = DOMAIN d.connections
        /\ Strip(d).connections[i] = Conn(c.id, c.name, FALSE)
    <3>1. file'.config = Strip(d)
      BY <2>3 DEF Save, Written
    <3>2. /\ DOMAIN Strip(d).connections = DOMAIN d.connections
          /\ Strip(d).connections =
               [k \in DOMAIN d.connections |->
                  Conn(d.connections[k].id, d.connections[k].name, FALSE)]
      BY <2>2, StripSound DEF Fit
    <3> QED BY <2>4, <3>1, <3>2
  <2> DEFINE w == Strip(d).connections[i]
  <2>6. w \in ToSet(file'.config.connections)
    BY <2>4, <2>5 DEF ToSet
  <2>7. w.id = c.id /\ w.name = c.name
    BY <2>5 DEF Conn
  <2> QED BY <2>6, <2>7
<1> QED BY <1>1, Invariant, PTL DEF Spec, AddedOnlyIfSaved

------------------------------------------------------------------------------
(* Secrets and restarts *)

Bare(c) == \A i \in DOMAIN c.connections : ~c.connections[i].password

\* The secrets of the file are those of the older version's, and a restart keeps the rest.
Kept ==
  /\ Bare(file.config) \/ file = legacy
  /\ RestartKeepsConfig

LEMMA NothingBare == Bare(Defaults)
BY EmptySeq DEF Bare, Defaults

LEMMA InitKept ==
  ASSUME Init
  PROVE  Kept
BY NothingBare DEF Init, Missing, RestartKeepsConfig, Kept

LEMMA NextKept ==
  ASSUME IInv, Kept, [Next]_vars
  PROVE  Kept'
<1>1. CASE Rewritten
  <2>1. PICK c, n : Fit(c, n) /\ Rewrite(c, n)
    BY <1>1 DEF Rewritten
  <2>2. Bare(Strip(c)) /\ LeftOf(Loaded(Strip(c)), c)
    <3>1. Sound(c)
      BY <2>1 DEF Fit
    <3>2. /\ DOMAIN Strip(c).connections = DOMAIN c.connections
          /\ Strip(c).connections =
               [k \in DOMAIN c.connections |->
                  Conn(c.connections[k].id, c.connections[k].name, FALSE)]
      BY <3>1, StripSound
    <3>3. Bare(Strip(c))
      BY <3>2 DEF Bare, Conn
    <3> QED BY <3>1, <3>3, WrittenLeft
  <2>3. (Bare(file.config) \/ file = legacy)'
    <3>1. legacy' = legacy
      BY <2>1 DEF Rewrite, KilledInSave
    <3>2. file' \in {file, Torn} \/ file' = Written(Strip(c))
      BY <2>1 DEF Rewrite, Save, SaveFails, KilledInSave
    <3> QED BY <2>2, <3>1, <3>2, NothingBare DEF Written, Torn, Kept
  <2>4. RestartKeepsConfig'
    <3>1. CASE Save(c) /\ config' = c
      BY <2>2, <3>1 DEF Save, Written, RestartKeepsConfig
    <3>2. CASE SaveFails
      BY <3>2 DEF SaveFails, RestartKeepsConfig
    <3>3. CASE KilledInSave
      BY <3>3 DEF KilledInSave, Ended, RestartKeepsConfig
    <3> QED BY <2>1, <3>1, <3>2, <3>3 DEF Rewrite
  <2> QED BY <2>3, <2>4 DEF Kept
<1>2. CASE Migrate
  BY <1>2, NothingBare DEF Migrate, memory, Torn, Kept, RestartKeepsConfig
<1>3. CASE Start
  <2>1. LeftOf(Loaded(file.config), Loaded(file.config))
    BY ReadLeft DEF IInv, SoundFile
  <2> QED BY <1>3, <2>1 DEF Start, Kept, RestartKeepsConfig
<1>4. CASE RemoveFile
  BY <1>4, NothingBare DEF RemoveFile, memory, Missing, Kept, RestartKeepsConfig
<1>5. CASE Stop
  BY <1>5 DEF Stop, Ended, Kept, RestartKeepsConfig
<1>6. CASE UNCHANGED vars
  BY <1>6 DEF vars, memory, Kept, RestartKeepsConfig
<1> QED BY <1>1, <1>2, <1>3, <1>4, <1>5, <1>6, Steps

LEMMA KeptInvariant == Spec => []Kept
<1>1. Init => Kept
  BY InitKept
<1>2. IInv /\ Kept /\ [Next]_vars => Kept'
  BY NextKept
<1> QED BY <1>1, <1>2, Invariant, PTL DEF Spec

\* The file has no passwords but those of the older version's file, and those only while it
\* is that file byte for byte: each save strips all of them (config.go:120).
THEOREM ConfigStorePasswordsOnlyMigrated == Spec => []PasswordsOnlyMigrated
<1>1. Kept => PasswordsOnlyMigrated
  BY DEF Kept, Bare, PasswordsOnlyMigrated, FileHasNoPassword
<1> QED BY <1>1, KeptInvariant, PTL

\* Whatever changed the configuration last, a program whose last write did not fail can be
\* ended and started with nothing lost but secrets; nothing is said after a failed write.
THEOREM ConfigStoreRestartKeepsConfig == Spec => []RestartKeepsConfig
<1>1. Kept => RestartKeepsConfig
  BY DEF Kept
<1> QED BY <1>1, KeptInvariant, PTL
=============================================================================
