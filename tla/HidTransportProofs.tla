------------------------- MODULE HidTransportProofs -------------------------
(***************************************************************************)
(* What HidTransport promises: for any list of HID collections, paths that *)
(* fail to open, reports and capacity of the channel.                      *)
(***************************************************************************)
EXTENDS HidTransport, SequenceTheorems, LoopLemmas

-----------------------------------------------------------------------------
(* Sequences and what they hold.                                           *)

LEMMA RangeOfEmpty ==
  ASSUME NEW A, NEW s \in Seq(A)
  PROVE  s = <<>> <=> Range(s) = {}
<1>1. Range(s) = {s[i] : i \in 1..Len(s)} /\ Len(s) \in Nat
  BY LenProperties, RangeEquality
<1>2. CASE Len(s) = 0
  <2>1. 1..Len(s) = {}
    BY <1>2
  <2>2. QED
    BY <1>1, <1>2, <2>1, EmptySeq
<1>3. CASE Len(s) # 0
  <2>1. 1 \in 1..Len(s)
    BY <1>1, <1>3
  <2>2. QED
    BY <1>1, <1>3, <2>1, EmptySeq
<1>4. QED
  BY <1>2, <1>3

LEMMA RangeOfAppend ==
  ASSUME NEW A, NEW s \in Seq(A), NEW x \in A
  PROVE  Append(s, x) \in Seq(A) /\ Range(Append(s, x)) = Range(s) \cup {x}
<1>1. /\ Append(s, x) \in Seq(A) /\ Len(Append(s, x)) = Len(s) + 1
      /\ \A i \in 1..Len(s) : Append(s, x)[i] = s[i]
      /\ Append(s, x)[Len(s) + 1] = x
  BY AppendProperties
<1>2. DOMAIN s = 1..Len(s) /\ Len(s) \in Nat
  BY LenProperties
<1>3. DOMAIN Append(s, x) = 1..(Len(s) + 1)
  BY <1>1, LenProperties
<1>4. 1..(Len(s) + 1) = 1..Len(s) \cup {Len(s) + 1}
  BY <1>2
<1>5. QED
  BY <1>1, <1>2, <1>3, <1>4 DEF Range

\* Keep keeps just the elements of P.
LEMMA KeepLemma ==
  ASSUME NEW A, NEW s \in Seq(A), NEW P
  PROVE  Keep(s, P) \in Seq(A) /\ Range(Keep(s, P)) = Range(s) \cap P
<1> DEFINE n == Len(s)
           X == Seq(A)
           Turn(i, v) == IF s[i] \in P THEN Append(v, s[i]) ELSE v
           Eq(g) == g = [i \in 0..n |-> IF i = 0 THEN <<>> ELSE Turn(i, g[i-1])]
           kept == CHOOSE g : Eq(g)
<1>1. Keep(s, P) = kept[n]
  BY DEF Keep
<1>2. n \in Nat /\ <<>> \in X /\ \A i \in 1..n : s[i] \in A
  BY LenProperties, ElementOfSeq, EmptySeq
<1>3. \A i \in 1..n : \A v \in X : Turn(i, v) \in X
  BY <1>2, AppendProperties
<1>4. \E g : Eq(g)
  <2> HIDE DEF n, X, Turn
  <2>1. \E g \in [0..n -> X] : g[0] = <<>> /\ \A i \in 1..n : g[i] = Turn(i, g[i-1])
    <3> DEFINE F == [i \in 1..n |-> [v \in X |-> Turn(i, v)]]
    <3>1. F \in [1..n -> [X -> X]]
      BY <1>3
    <3>2. \A i \in 1..n, v \in X : F[i][v] = Turn(i, v)
      OBVIOUS
    <3> HIDE DEF F
    <3>3. PICK g : IsRun(g, n, X, <<>>, F)
      BY <1>2, <3>1, LoopRuns
    <3>4. \A i \in 1..n : g[i-1] \in X
      BY <1>2, <3>3 DEF IsRun
    <3>5. QED
      BY <3>2, <3>3, <3>4 DEF IsRun
  <2>2. PICK g \in [0..n -> X] : g[0] = <<>> /\ \A i \in 1..n : g[i] = Turn(i, g[i-1])
    BY <2>1
  <2>3. Eq(g)
    <3>1. \A i \in 0..n : i = 0 \/ i \in 1..n
      BY <1>2
    <3>2. QED
      BY <2>2, <3>1
  <2> HIDE DEF Eq
  <2>4. QED
    BY <2>3
<1> HIDE DEF kept, n
<1>5. kept[0] = <<>> /\ \A i \in 1..n : kept[i] = Turn(i, kept[i-1])
  <2>1. Eq(kept)
    <3> HIDE DEF Eq
    <3>1. QED
      BY <1>4 DEF kept
  <2> HIDE DEF Turn
  <2>2. \A i \in 0..n : kept[i] = IF i = 0 THEN <<>> ELSE Turn(i, kept[i-1])
    BY <2>1, Zenon
  <2>3. 0 \in 0..n /\ \A i \in 1..n : i \in 0..n /\ i # 0
    BY <1>2
  <2> HIDE DEF Eq
  <2>4. QED
    BY <2>2, <2>3
<1> DEFINE Sofar(i) == {s[j] : j \in 1..i}
           S == {i \in 0..n : kept[i] \in X /\ Range(kept[i]) = Sofar(i) \cap P}
<1>6. 0 \in S
  <2>1. Range(kept[0]) = {} /\ kept[0] \in X
    BY <1>2, <1>5, RangeOfEmpty
  <2>2. Sofar(0) = {} /\ 0 \in 0..n
    BY <1>2
  <2>3. QED
    BY <2>1, <2>2
<1>7. ASSUME NEW i \in 1..n, i-1 \in S PROVE i \in S
  <2>1. kept[i-1] \in X /\ Range(kept[i-1]) = Sofar(i-1) \cap P
    BY <1>7
  <2>2. s[i] \in A /\ kept[i] = Turn(i, kept[i-1]) /\ i \in 0..n
    BY <1>2, <1>5
  <2>3. Sofar(i) = Sofar(i-1) \cup {s[i]}
    <3>1. 1..i = 1..(i-1) \cup {i}
      BY <1>2
    <3>2. QED
      BY <3>1
  <2> HIDE DEF Sofar
  <2>4. CASE s[i] \in P
    <3>1. kept[i] \in X /\ Range(kept[i]) = Range(kept[i-1]) \cup {s[i]}
      BY <2>1, <2>2, <2>4, RangeOfAppend
    <3>2. QED
      BY <2>1, <2>2, <2>3, <2>4, <3>1
  <2>5. CASE s[i] \notin P
    BY <2>1, <2>2, <2>3, <2>5
  <2>6. QED
    BY <2>4, <2>5
<1>8. n \in S
  <2> HIDE DEF S
  <2>1. \A i \in 1..n : i-1 \in S => i \in S
    BY <1>7
  <2>2. \A i \in 0..n : i \in S
    BY <1>2, <1>6, <2>1, UpToInduction
  <2>3. QED
    BY <1>2, <2>2
<1>9. Range(s) = Sofar(n)
  BY RangeEquality, Zenon DEF n
<1>10. QED
  BY <1>1, <1>8, <1>9

\* Distinct has the elements of s.
LEMMA DistinctLemma ==
  ASSUME NEW A, NEW s \in Seq(A)
  PROVE  Distinct(s) \in Seq(A) /\ Range(Distinct(s)) = Range(s)
<1> DEFINE n == Len(s)
           X == Seq(A)
           Turn(i, v) == AddNew(v, s[i])
           Eq(g) == g = [i \in 0..n |-> IF i = 0 THEN <<>> ELSE Turn(i, g[i-1])]
           seen == CHOOSE g : Eq(g)
<1>1. Distinct(s) = seen[n]
  BY DEF Distinct
<1>2. n \in Nat /\ <<>> \in X /\ \A i \in 1..n : s[i] \in A
  BY LenProperties, ElementOfSeq, EmptySeq
<1>3. \A i \in 1..n : \A v \in X : Turn(i, v) \in X
  BY <1>2, AppendProperties DEF AddNew
<1>4. \E g : Eq(g)
  <2> HIDE DEF n, X, Turn
  <2>1. \E g \in [0..n -> X] : g[0] = <<>> /\ \A i \in 1..n : g[i] = Turn(i, g[i-1])
    <3> DEFINE F == [i \in 1..n |-> [v \in X |-> Turn(i, v)]]
    <3>1. F \in [1..n -> [X -> X]]
      BY <1>3
    <3>2. \A i \in 1..n, v \in X : F[i][v] = Turn(i, v)
      OBVIOUS
    <3> HIDE DEF F
    <3>3. PICK g : IsRun(g, n, X, <<>>, F)
      BY <1>2, <3>1, LoopRuns
    <3>4. \A i \in 1..n : g[i-1] \in X
      BY <1>2, <3>3 DEF IsRun
    <3>5. QED
      BY <3>2, <3>3, <3>4 DEF IsRun
  <2>2. PICK g \in [0..n -> X] : g[0] = <<>> /\ \A i \in 1..n : g[i] = Turn(i, g[i-1])
    BY <2>1
  <2>3. Eq(g)
    <3>1. \A i \in 0..n : i = 0 \/ i \in 1..n
      BY <1>2
    <3>2. QED
      BY <2>2, <3>1
  <2> HIDE DEF Eq
  <2>4. QED
    BY <2>3
<1> HIDE DEF seen, n
<1>5. seen[0] = <<>> /\ \A i \in 1..n : seen[i] = AddNew(seen[i-1], s[i])
  <2>1. Eq(seen)
    <3> HIDE DEF Eq
    <3>1. QED
      BY <1>4 DEF seen
  <2>2. \A i \in 0..n : seen[i] = IF i = 0 THEN <<>> ELSE AddNew(seen[i-1], s[i])
    BY <2>1, Zenon
  <2>3. 0 \in 0..n /\ \A i \in 1..n : i \in 0..n /\ i # 0
    BY <1>2
  <2> HIDE DEF Eq
  <2>4. QED
    BY <2>2, <2>3
<1> DEFINE Sofar(i) == {s[j] : j \in 1..i}
           S == {i \in 0..n : seen[i] \in X /\ Range(seen[i]) = Sofar(i)}
<1>6. 0 \in S
  <2>1. Range(seen[0]) = {} /\ seen[0] \in X
    BY <1>2, <1>5, RangeOfEmpty
  <2>2. Sofar(0) = {} /\ 0 \in 0..n
    BY <1>2
  <2>3. QED
    BY <2>1, <2>2
<1>7. ASSUME NEW i \in 1..n, i-1 \in S PROVE i \in S
  <2>1. seen[i-1] \in X /\ Range(seen[i-1]) = Sofar(i-1)
    BY <1>7
  <2>2. s[i] \in A /\ seen[i] = AddNew(seen[i-1], s[i]) /\ i \in 0..n
    BY <1>2, <1>5
  <2>3. Sofar(i) = Sofar(i-1) \cup {s[i]}
    <3>1. 1..i = 1..(i-1) \cup {i}
      BY <1>2
    <3>2. QED
      BY <3>1
  <2> HIDE DEF Sofar
  <2>4. CASE s[i] \in Range(seen[i-1])
    BY <2>1, <2>2, <2>3, <2>4 DEF AddNew
  <2>5. CASE s[i] \notin Range(seen[i-1])
    <3>1. seen[i] \in X /\ Range(seen[i]) = Range(seen[i-1]) \cup {s[i]}
      BY <2>1, <2>2, <2>5, RangeOfAppend DEF AddNew
    <3>2. QED
      BY <2>1, <2>2, <2>3, <3>1
  <2>6. QED
    BY <2>4, <2>5
<1>8. n \in S
  <2> HIDE DEF S
  <2>1. \A i \in 1..n : i-1 \in S => i \in S
    BY <1>7
  <2>2. \A i \in 0..n : i \in S
    BY <1>2, <1>6, <2>1, UpToInduction
  <2>3. QED
    BY <1>2, <2>2
<1>9. Range(s) = Sofar(n)
  BY RangeEquality, Zenon DEF n
<1>10. QED
  BY <1>1, <1>8, <1>9

-----------------------------------------------------------------------------
(* Open.                                                                   *)

LEMMA InjectiveAppend ==
  ASSUME NEW A, NEW s \in Seq(A), NEW x \in A, IsInjective(s), x \notin Range(s)
  PROVE  IsInjective(Append(s, x))
<1>1. /\ Len(Append(s, x)) = Len(s) + 1 /\ Append(s, x) \in Seq(A)
      /\ \A i \in 1..Len(s) : Append(s, x)[i] = s[i]
      /\ Append(s, x)[Len(s) + 1] = x
  BY AppendProperties
<1>2. DOMAIN s = 1..Len(s) /\ Len(s) \in Nat /\ DOMAIN Append(s, x) = 1..(Len(s) + 1)
  BY <1>1, LenProperties
<1>3. \A i \in 1..Len(s) : s[i] # x
  BY <1>2 DEF Range
<1> DEFINE t == Append(s, x)
<1> HIDE DEF t
<1>4. \A i, j \in 1..(Len(s) + 1) : t[i] = t[j] => i = j
  BY <1>1, <1>2, <1>3 DEF IsInjective, t
<1>5. QED
  BY <1>2, <1>4 DEF IsInjective, t

PathsOf(cs, i) == {cs[j].path : j \in 1..i}
ShortsOf(cs, i) == {cs[j].path : j \in {k \in 1..i : IsShort(cs[k])}}
OpenStates == [devs : Seq(Paths), writeD : Paths \cup {NoPath}]

\* What Open has after i collections: every path that opens, once, and a short one
\* to write to if there is one.
OpenedSoFar(o, cs, failed, i) ==
  /\ o \in OpenStates /\ IsInjective(o.devs)
  /\ Range(o.devs) = PathsOf(cs, i) \ failed
  /\ IF o.devs = <<>> THEN o.writeD = NoPath ELSE o.writeD \in Range(o.devs)
  /\ ShortsOf(cs, i) \cap Range(o.devs) # {} => o.writeD \in ShortsOf(cs, i)

LEMMA OpenCollectionTyped ==
  ASSUME NEW o \in OpenStates, NEW c \in Collections, NEW failed
  PROVE  OpenCollection(o, c, failed) \in OpenStates
<1>1. c.path \in Paths
  BY DEF Collections
<1>2. Append(o.devs, c.path) \in Seq(Paths)
  BY <1>1, AppendProperties DEF OpenStates
<1>3. QED
  BY <1>1, <1>2 DEF OpenCollection, OpenStates

LEMMA OpenCollectionLemma ==
  ASSUME NEW cs \in Seq(Collections), NEW failed, NEW i \in 1..Len(cs),
         NEW o, OpenedSoFar(o, cs, failed, i-1)
  PROVE  OpenedSoFar(OpenCollection(o, cs[i], failed), cs, failed, i)
<1> DEFINE c == cs[i]
           r == OpenCollection(o, c, failed)
<1> SUFFICES OpenedSoFar(r, cs, failed, i)
  OBVIOUS
<1>1. c \in Collections /\ c.path \in Paths
  <2>1. c \in Collections
    BY ElementOfSeq
  <2>2. QED
    BY <2>1 DEF Collections
<1>2. PathsOf(cs, i) = PathsOf(cs, i-1) \cup {c.path}
  <2>1. 1..i = 1..(i-1) \cup {i}
    BY LenProperties
  <2>2. QED
    BY <2>1 DEF PathsOf
<1>3. ShortsOf(cs, i) = ShortsOf(cs, i-1) \cup (IF IsShort(c) THEN {c.path} ELSE {})
  <2>1. 1..i = 1..(i-1) \cup {i}
    BY LenProperties
  <2>2. CASE IsShort(c)
    BY <2>1, <2>2 DEF ShortsOf
  <2>3. CASE ~IsShort(c)
    BY <2>1, <2>3 DEF ShortsOf
  <2>4. QED
    BY <2>2, <2>3
<1>4. ShortsOf(cs, i-1) \subseteq PathsOf(cs, i-1)
  BY DEF ShortsOf, PathsOf
<1>5. o \in OpenStates /\ r \in OpenStates
  BY <1>1, OpenCollectionTyped DEF OpenedSoFar
<1> HIDE DEF c
<1>6. CASE c.path \in Range(o.devs)
  <2>1. r = [o EXCEPT !.writeD = IF IsShort(c) THEN c.path ELSE @]
    BY <1>6 DEF OpenCollection
  <2>2. r.devs = o.devs /\ r.writeD = (IF IsShort(c) THEN c.path ELSE o.writeD)
    BY <1>5, <2>1 DEF OpenStates
  <2>3. o.devs # <<>>
    BY <1>6, RangeOfEmpty, <1>5 DEF OpenStates
  <2> HIDE DEF r
  <2>4. QED
    BY <1>2, <1>3, <1>4, <1>5, <1>6, <2>2, <2>3 DEF OpenedSoFar
<1>7. CASE c.path \notin Range(o.devs) /\ c.path \in failed
  <2>1. r = o
    BY <1>7 DEF OpenCollection
  <2> HIDE DEF r
  <2>2. QED
    BY <1>2, <1>3, <1>4, <1>5, <1>7, <2>1 DEF OpenedSoFar
<1>8. CASE c.path \notin Range(o.devs) /\ c.path \notin failed
  <2>1. /\ r.devs = Append(o.devs, c.path)
        /\ r.writeD = IF o.writeD = NoPath \/ IsShort(c) THEN c.path ELSE o.writeD
    BY <1>8 DEF OpenCollection
  <2>2. /\ Range(r.devs) = Range(o.devs) \cup {c.path} /\ r.devs # <<>>
        /\ IsInjective(r.devs)
    BY <1>1, <1>5, <1>8, <2>1, RangeOfAppend, RangeOfEmpty, InjectiveAppend
       DEF OpenedSoFar, OpenStates
  <2>3. c.path \notin PathsOf(cs, i-1) /\ NoPath \notin Paths
    BY <1>8, HidTransportAssumption DEF OpenedSoFar
  <2>4. o.devs # <<>> => o.writeD # NoPath
    <3>1. Range(o.devs) \subseteq Paths
      BY <1>5, RangeOfSeq DEF OpenStates
    <3>2. QED
      BY <2>3, <3>1 DEF OpenedSoFar
  <2>5. o.devs = <<>> => Range(o.devs) = {}
    BY <1>5, RangeOfEmpty DEF OpenStates
  <2> HIDE DEF r
  <2>6. /\ Range(r.devs) = PathsOf(cs, i) \ failed
        /\ r.writeD \in Range(r.devs)
    BY <1>2, <1>8, <2>1, <2>2, <2>4, <2>5 DEF OpenedSoFar
  <2>7. ShortsOf(cs, i) \cap Range(r.devs) # {} => r.writeD \in ShortsOf(cs, i)
    BY <1>3, <1>4, <2>1, <2>2, <2>3, <2>4, <2>5 DEF OpenedSoFar
  <2>8. QED
    BY <1>5, <2>2, <2>6, <2>7 DEF OpenedSoFar
<1>9. QED
  BY <1>6, <1>7, <1>8

\* What Open has in the end.
LEMMA OpenedLemma ==
  ASSUME NEW cs \in Seq(Collections), NEW failed
  PROVE  OpenedSoFar(Opened(cs, failed), cs, failed, Len(cs))
<1> DEFINE n == Len(cs)
           x == [devs |-> <<>>, writeD |-> NoPath]
           Turn(i, o) == OpenCollection(o, cs[i], failed)
           Eq(g) == g = [i \in 0..n |-> IF i = 0 THEN x ELSE Turn(i, g[i-1])]
           loop == CHOOSE g : Eq(g)
<1>1. Opened(cs, failed) = loop[n]
  BY DEF Opened
<1>2. n \in Nat /\ x \in OpenStates /\ \A i \in 1..n : cs[i] \in Collections
  BY LenProperties, ElementOfSeq, EmptySeq DEF OpenStates
<1>3. \A i \in 1..n : \A o \in OpenStates : Turn(i, o) \in OpenStates
  BY <1>2, OpenCollectionTyped
<1>4. \E g : Eq(g)
  <2> HIDE DEF n, x, Turn
  <2>1. \E g \in [0..n -> OpenStates] : g[0] = x /\ \A i \in 1..n : g[i] = Turn(i, g[i-1])
    <3> DEFINE F == [i \in 1..n |-> [o \in OpenStates |-> Turn(i, o)]]
    <3>1. F \in [1..n -> [OpenStates -> OpenStates]]
      BY <1>3
    <3>2. \A i \in 1..n, o \in OpenStates : F[i][o] = Turn(i, o)
      OBVIOUS
    <3> HIDE DEF F
    <3>3. PICK g : IsRun(g, n, OpenStates, x, F)
      BY <1>2, <3>1, LoopRuns
    <3>4. \A i \in 1..n : g[i-1] \in OpenStates
      BY <1>2, <3>3 DEF IsRun
    <3>5. QED
      BY <3>2, <3>3, <3>4 DEF IsRun
  <2>2. PICK g \in [0..n -> OpenStates] : g[0] = x /\ \A i \in 1..n : g[i] = Turn(i, g[i-1])
    BY <2>1
  <2>3. Eq(g)
    <3>1. \A i \in 0..n : i = 0 \/ i \in 1..n
      BY <1>2
    <3>2. QED
      BY <2>2, <3>1
  <2> HIDE DEF Eq
  <2>4. QED
    BY <2>3
<1> HIDE DEF loop, n
<1>5. loop[0] = x /\ \A i \in 1..n : loop[i] = OpenCollection(loop[i-1], cs[i], failed)
  <2> HIDE DEF x
  <2>1. Eq(loop)
    <3> HIDE DEF Eq
    <3>1. QED
      BY <1>4 DEF loop
  <2>2. \A i \in 0..n : loop[i] = IF i = 0 THEN x ELSE OpenCollection(loop[i-1], cs[i], failed)
    BY <2>1, Zenon
  <2>3. 0 \in 0..n /\ \A i \in 1..n : i \in 0..n /\ i # 0
    BY <1>2
  <2> HIDE DEF Eq
  <2>4. QED
    BY <2>2, <2>3
<1> DEFINE S == {i \in 0..n : OpenedSoFar(loop[i], cs, failed, i)}
<1>6. 0 \in S
  <2>1. x.devs = <<>> /\ x.writeD = NoPath /\ Range(<<>>) = {} /\ IsInjective(<<>>)
    <3>1. <<>> \in Seq(Paths) /\ Len(<<>>) = 0 /\ DOMAIN <<>> = 1..0
      BY EmptySeq, LenProperties
    <3>2. Range(<<>>) = {}
      BY <3>1, RangeOfEmpty
    <3>3. IsInjective(<<>>)
      BY <3>1 DEF IsInjective
    <3>4. QED
      BY <3>2, <3>3
  <2>2. PathsOf(cs, 0) = {} /\ ShortsOf(cs, 0) = {}
    BY DEF PathsOf, ShortsOf
  <2>3. OpenedSoFar(x, cs, failed, 0)
    BY <1>2, <2>1, <2>2 DEF OpenedSoFar
  <2>4. QED
    BY <1>2, <1>5, <2>3
<1>7. ASSUME NEW i \in 1..n, i-1 \in S PROVE i \in S
  BY <1>2, <1>5, <1>7, OpenCollectionLemma DEF n
<1>8. n \in S
  <2> HIDE DEF S
  <2>1. \A i \in 1..n : i-1 \in S => i \in S
    BY <1>7
  <2>2. \A i \in 0..n : i \in S
    BY <1>2, <1>6, <2>1, UpToInduction
  <2>3. QED
    BY <1>2, <2>2
<1>9. QED
  BY <1>1, <1>8 DEF n

-----------------------------------------------------------------------------
(* Find.                                                                   *)

\* The collections of a list that have one key.
WithKey(list, k) == {e \in Range(list) \cap HidPP : KeyOf(e) = k}

CollectionOf(e) == [path |-> e.path, usage |-> e.usage]

\* The entries of one key, taken together.
IsGroupOf(g, list, k) ==
  /\ g \in Infos
  /\ \E e \in WithKey(list, k) : g.product = e.product
  /\ Range(g.collections) = {CollectionOf(e) : e \in WithKey(list, k)}

LEMMA MapLemma ==
  ASSUME NEW B, NEW n \in Nat, NEW f \in [1..n -> B]
  PROVE  f \in Seq(B) /\ Len(f) = n
<1>1. f \in Seq(B)
  BY SeqDef
<1>2. DOMAIN f = 1..n /\ DOMAIN f = 1..Len(f) /\ Len(f) \in Nat
  BY <1>1, LenProperties
<1>3. QED
  BY <1>1, <1>2

LEMMA GroupLemma ==
  ASSUME NEW list \in Seq(Entries), NEW e \in Range(list) \cap HidPP,
         NEW es \in Seq(Entries), Range(es) = WithKey(list, KeyOf(e))
  PROVE  IsGroupOf(Group(es), list, KeyOf(e))
<1> DEFINE f == [i \in DOMAIN es |-> [path |-> es[i].path, usage |-> es[i].usage]]
<1>1. DOMAIN es = 1..Len(es) /\ Len(es) \in Nat /\ \A i \in 1..Len(es) : es[i] \in Entries
  BY LenProperties, ElementOfSeq
<1>2. Range(es) = {es[i] : i \in 1..Len(es)}
  BY RangeEquality
<1>3. f \in [DOMAIN es -> Collections] /\ \A i \in 1..Len(es) : f[i] = CollectionOf(es[i])
  BY <1>1 DEF Collections, Paths, CollectionOf
<1> HIDE DEF f
<1>4. f \in Seq(Collections) /\ Range(f) = {f[i] : i \in 1..Len(es)}
  <2>1. f \in [1..Len(es) -> Collections] /\ Len(es) \in Nat
    BY <1>1, <1>3
  <2>2. f \in Seq(Collections) /\ Len(f) = Len(es)
    BY <2>1, MapLemma
  <2>3. Range(f) = {f[i] : i \in 1..Len(f)}
    BY <2>2, RangeEquality
  <2>4. QED
    BY <2>2, <2>3
<1>5. Range(f) = {CollectionOf(x) : x \in Range(es)}
  BY <1>2, <1>3, <1>4
<1>6. Distinct(f) \in Seq(Collections) /\ Range(Distinct(f)) = Range(f)
  BY <1>4, DistinctLemma
<1>7. es[1] \in Range(es) /\ es[1] \in Entries
  <2>1. e \in Range(es)
    BY DEF WithKey
  <2>2. Len(es) # 0
    BY <1>1, <1>2, <2>1
  <2>3. QED
    BY <1>1, <1>2, <2>2
<1>8. Group(es) = [product |-> es[1].product, collections |-> Distinct(f)]
  BY DEF Group, f
<1>9. QED
  BY <1>5, <1>6, <1>7, <1>8 DEF IsGroupOf, Infos

\* Each key has a group, and each group a key.
LEMMA GroupsLemma ==
  ASSUME NEW list \in Seq(Entries)
  PROVE  /\ Groups(list) \in Seq(Infos)
         /\ \A g \in Range(Groups(list)) :
              \E e \in Range(list) \cap HidPP : IsGroupOf(g, list, KeyOf(e))
         /\ \A e \in Range(list) \cap HidPP :
              \E g \in Range(Groups(list)) : IsGroupOf(g, list, KeyOf(e))
<1> DEFINE hidpp == Keep(list, HidPP)
           ks == [i \in DOMAIN hidpp |-> KeyOf(hidpp[i])]
           keys == Distinct(ks)
           Of(k) == Keep(hidpp, {e \in Entries : KeyOf(e) = k})
           gs == [i \in DOMAIN keys |-> Group(Of(keys[i]))]
           Keys == {KeyOf(e) : e \in Range(hidpp)}
<1>1. hidpp \in Seq(Entries) /\ Range(hidpp) = Range(list) \cap HidPP
  BY KeepLemma
<1> HIDE DEF hidpp
<1>2. keys \in Seq(Keys) /\ Range(keys) = Keys
  <2>1. DOMAIN hidpp = 1..Len(hidpp) /\ Len(hidpp) \in Nat
    BY <1>1, LenProperties
  <2>2. Range(hidpp) = {hidpp[i] : i \in 1..Len(hidpp)}
    BY <1>1, RangeEquality
  <2>3. ks \in [1..Len(hidpp) -> Keys]
    BY <2>1, <2>2
  <2> HIDE DEF ks
  <2>4. ks \in Seq(Keys) /\ Len(ks) = Len(hidpp)
    BY <2>1, <2>3, MapLemma
  <2>5. Range(ks) = {ks[i] : i \in 1..Len(hidpp)}
    BY <2>4, RangeEquality
  <2>6. Range(ks) = Keys
    BY <2>1, <2>2, <2>5 DEF ks
  <2> HIDE DEF Keys
  <2>7. QED
    BY <2>4, <2>6, DistinctLemma
<1> HIDE DEF keys
<1>3. ASSUME NEW e \in Range(list) \cap HidPP
      PROVE  IsGroupOf(Group(Of(KeyOf(e))), list, KeyOf(e))
  <2>1. Of(KeyOf(e)) \in Seq(Entries)
        /\ Range(Of(KeyOf(e))) = Range(hidpp) \cap {x \in Entries : KeyOf(x) = KeyOf(e)}
    BY <1>1, KeepLemma
  <2>2. Range(Of(KeyOf(e))) = WithKey(list, KeyOf(e))
    BY <1>1, <2>1 DEF WithKey, HidPP
  <2> HIDE DEF Of
  <2>3. QED
    BY <2>1, <2>2, GroupLemma
<1>4. DOMAIN keys = 1..Len(keys) /\ Len(keys) \in Nat /\ Range(keys) = {keys[i] : i \in 1..Len(keys)}
  BY <1>2, LenProperties, RangeEquality
<1> HIDE DEF Of
<1>5. \A i \in 1..Len(keys) :
        \E e \in Range(list) \cap HidPP : keys[i] = KeyOf(e) /\ IsGroupOf(gs[i], list, KeyOf(e))
  <2>1. TAKE i \in 1..Len(keys)
  <2>2. PICK e \in Range(list) \cap HidPP : keys[i] = KeyOf(e)
    BY <1>1, <1>2, <1>4
  <2>3. gs[i] = Group(Of(KeyOf(e)))
    BY <1>4, <2>2
  <2>4. IsGroupOf(gs[i], list, KeyOf(e))
    BY <1>3, <2>3
  <2> HIDE DEF gs
  <2>5. QED
    BY <2>2, <2>4
<1>6. Groups(list) = gs
  BY DEF Groups, keys, hidpp, Of
<1>7. gs \in Seq(Infos) /\ Range(gs) = {gs[i] : i \in 1..Len(keys)}
  <2>1. \A i \in 1..Len(keys) : gs[i] \in Infos
    BY <1>5 DEF IsGroupOf
  <2>2. gs \in [1..Len(keys) -> Infos]
    BY <1>4, <2>1
  <2> HIDE DEF gs
  <2>3. gs \in Seq(Infos) /\ Len(gs) = Len(keys)
    BY <1>4, <2>2, MapLemma
  <2>4. Range(gs) = {gs[i] : i \in 1..Len(gs)}
    BY <2>3, RangeEquality
  <2>5. QED
    BY <2>3, <2>4
<1> HIDE DEF gs
<1>8. ASSUME NEW e \in Range(list) \cap HidPP
      PROVE  \E g \in Range(gs) : IsGroupOf(g, list, KeyOf(e))
  <2>1. PICK i \in 1..Len(keys) : keys[i] = KeyOf(e)
    BY <1>1, <1>2, <1>4
  <2>2. IsGroupOf(gs[i], list, KeyOf(e))
    BY <1>5, <2>1
  <2>3. QED
    BY <1>7, <2>2
<1>9. QED
  BY <1>5, <1>6, <1>7, <1>8

\* The candidate that OpenFirst opens: the collections of one key, of a known product
\* if there is one.
LEMMA FindLemma ==
  ASSUME NEW list \in Seq(Entries), Find(list) # <<>>
  PROVE  /\ \E e \in Range(list) \cap HidPP : IsGroupOf(Find(list)[1], list, KeyOf(e))
         /\ (\E e \in Range(list) \cap HidPP : e.product \in KnownProducts)
              => Find(list)[1].product \in KnownProducts
<1> DEFINE all == Groups(list)
           known == {g \in Range(all) : g.product \in KnownProducts}
           a == Keep(all, known)
           b == Keep(all, Range(all) \ known)
<1>1. all \in Seq(Infos)
  BY GroupsLemma
<1>2. /\ a \in Seq(Infos) /\ Range(a) = Range(all) \cap known
      /\ b \in Seq(Infos) /\ Range(b) = Range(all) \cap (Range(all) \ known)
  BY <1>1, KeepLemma
<1>3. Find(list) = a \o b
  BY DEF Find
<1> HIDE DEF a, b
<1>4. /\ Len(a) \in Nat /\ Len(b) \in Nat /\ a \o b \in Seq(Infos)
      /\ Len(a \o b) = Len(a) + Len(b)
      /\ \A i \in 1..(Len(a) + Len(b)) : (a \o b)[i] = IF i <= Len(a) THEN a[i] ELSE b[i - Len(a)]
  BY <1>2, ConcatProperties, LenProperties
<1>5. Len(a) + Len(b) # 0
  BY <1>3, <1>4, EmptySeq
<1>6. CASE Len(a) # 0
  <2>1. Find(list)[1] = a[1] /\ a[1] \in Range(a)
    <3>1. 1 \in 1..(Len(a) + Len(b)) /\ 1 <= Len(a) /\ 1 \in 1..Len(a)
      BY <1>4, <1>6
    <3>2. a[1] \in Range(a)
      BY <1>2, <3>1, RangeEquality
    <3>3. QED
      BY <1>3, <1>4, <3>1, <3>2
  <2>2. Find(list)[1] \in Range(all) /\ Find(list)[1].product \in KnownProducts
    BY <1>2, <2>1
  <2>3. QED
    BY <2>2, GroupsLemma
<1>7. CASE Len(a) = 0
  <2>1. Find(list)[1] = b[1] /\ b[1] \in Range(b)
    <3>1. 1 \in 1..(Len(a) + Len(b)) /\ ~(1 <= Len(a)) /\ 1 \in 1..Len(b) /\ 1 - Len(a) = 1
      BY <1>4, <1>5, <1>7
    <3>2. b[1] \in Range(b)
      BY <1>2, <3>1, RangeEquality
    <3>3. QED
      BY <1>3, <1>4, <3>1, <3>2
  <2>2. Find(list)[1] \in Range(all)
    BY <1>2, <2>1
  <2>3. known = {}
    <3>1. a = <<>>
      BY <1>2, <1>7, EmptySeq
    <3>2. Range(a) = {}
      BY <1>2, <3>1, RangeOfEmpty
    <3>3. QED
      BY <1>2, <3>2
  <2>4. ASSUME NEW e \in Range(list) \cap HidPP, e.product \in KnownProducts PROVE FALSE
    <3>1. PICK g \in Range(all) : IsGroupOf(g, list, KeyOf(e))
      BY GroupsLemma
    <3>2. g.product = e.product
      BY <3>1 DEF IsGroupOf, WithKey, KeyOf
    <3>3. QED
      BY <2>3, <2>4, <3>2
  <2>5. QED
    BY <2>2, <2>4, GroupsLemma
<1>8. QED
  BY <1>6, <1>7, <1>4

-----------------------------------------------------------------------------
(* OpenFirst.                                                              *)

\* What is enumerated now.
Listed == Keep(bus, {e \in Entries : e.unit \in plugged})

LEMMA ListedLemma ==
  ASSUME TypeOK
  PROVE  Listed \in Seq(Entries) /\ Range(Listed) = {e \in Range(bus) : e.unit \in plugged}
<1>1. bus \in Seq(Entries)
  BY HidTransportAssumption DEF TypeOK
<1>2. Range(bus) \subseteq Entries
  BY <1>1, RangeOfSeq
<1>3. QED
  BY <1>1, <1>2, KeepLemma DEF Listed

\* What one OpenFirst does, the enumeration and the loop taken as a whole.
OpensSo ==
  /\ info' \in Infos
  /\ \E e \in Range(Listed) \cap HidPP : IsGroupOf(info', Listed, KeyOf(e))
  /\ (\E e \in Range(Listed) \cap HidPP : e.product \in KnownProducts)
       => info'.product \in KnownProducts
  /\ OpenedSoFar([devs |-> devs', writeD |-> writeD'], info'.collections, choice'.failed,
                 Len(info'.collections))
  /\ devs' # <<>> /\ open' = Range(devs')
  /\ choice' \in [plugged : SUBSET Units, failed : SUBSET Paths]
  /\ choice'.plugged = plugged

LEMMA OpenFirstLemma ==
  ASSUME TypeOK, OpenFirst
  PROVE  OpensSo
<1> DEFINE found == Find(Listed)
           cs == found[1].collections
           o(failed) == Opened(cs, failed)
<1>1. /\ found # <<>> /\ info' = found[1]
      /\ \E failed \in SUBSET {c.path : c \in Range(cs)} :
           /\ o(failed).devs # <<>>
           /\ devs' = o(failed).devs /\ writeD' = o(failed).writeD /\ open' = Range(o(failed).devs)
           /\ choice' = [plugged |-> plugged, failed |-> failed]
  BY DEF OpenFirst, Listed
<1>2. /\ \E e \in Range(Listed) \cap HidPP : IsGroupOf(found[1], Listed, KeyOf(e))
      /\ (\E e \in Range(Listed) \cap HidPP : e.product \in KnownProducts)
           => found[1].product \in KnownProducts
  BY <1>1, ListedLemma, FindLemma
<1>3. found[1] \in Infos
  BY <1>2 DEF IsGroupOf
<1>4. cs \in Seq(Collections)
  BY <1>3 DEF Infos
<1>5. PICK failed \in SUBSET {c.path : c \in Range(cs)} :
        /\ o(failed).devs # <<>>
        /\ devs' = o(failed).devs /\ writeD' = o(failed).writeD /\ open' = Range(o(failed).devs)
        /\ choice' = [plugged |-> plugged, failed |-> failed]
  BY <1>1
<1>6. OpenedSoFar(o(failed), cs, failed, Len(cs))
  BY <1>4, OpenedLemma
<1>7. failed \in SUBSET Paths
  <2>1. Range(cs) \subseteq Collections
    BY <1>4, RangeOfSeq
  <2>2. QED
    BY <1>5, <2>1 DEF Collections
<1>8. choice' \in [plugged : SUBSET Units, failed : SUBSET Paths]
      /\ choice'.plugged = plugged /\ choice'.failed = failed
  BY <1>5, <1>7 DEF TypeOK
<1> HIDE DEF o, found
<1>9. o(failed) = [devs |-> devs', writeD |-> writeD']
  BY <1>5, <1>6 DEF OpenedSoFar, OpenStates
<1>10. OpenedSoFar([devs |-> devs', writeD |-> writeD'], info'.collections, choice'.failed,
                   Len(info'.collections))
  BY <1>1, <1>6, <1>8, <1>9
<1>11. QED
  BY <1>1, <1>2, <1>3, <1>5, <1>8, <1>10 DEF OpensSo

-----------------------------------------------------------------------------
(* Sessions.                                                               *)

\* Outside a session there is nothing, in one everything belongs to its handles:
\* what is not yet closed is open, and what runs reads an opened handle.
SessionInv ==
  /\ phase \in {"none", "ended"} =>
       open = {} /\ reads = <<>> /\ devs = <<>> /\ sent = None /\ got = None /\ heard = None
  /\ phase # "closing" => left = <<>>
  /\ phase = "open" => open = Range(devs)
  /\ phase = "closing" => open = Range(left) /\ IsInjective(left)
  /\ \A p \in Paths : reader[p] \notin {"none", "done"} => p \in Range(devs)

\* A reader has read no more than came, and one that posts has a report.
CountInv ==
  \A p \in Paths : got[p] <= sent[p] /\ (reader[p] = "post" => got[p] # 0)

TypeInv == TypeOK /\ SessionInv /\ CountInv

LEMMA EmptyRange == Range(<<>>) = {} /\ IsInjective(<<>>)
<1>1. <<>> \in Seq({}) /\ Len(<<>>) = 0
  BY EmptySeq
<1>2. DOMAIN <<>> = 1..0
  BY <1>1, LenProperties
<1>3. DOMAIN <<>> = {}
  BY <1>2
<1>4. QED
  BY <1>3, Zenon DEF Range, IsInjective

LEMMA TailLemma ==
  ASSUME NEW A, NEW s \in Seq(A), s # <<>>
  PROVE  /\ Head(s) \in A /\ Tail(s) \in Seq(A) /\ Range(s) = {Head(s)} \cup Range(Tail(s))
         /\ IsInjective(s) => IsInjective(Tail(s)) /\ Head(s) \notin Range(Tail(s))
<1> DEFINE t == Tail(s)
<1>1. /\ Head(s) \in A /\ t \in Seq(A) /\ Len(t) = Len(s)-1
      /\ \A i \in 1 .. Len(t) : t[i] = s[i+1]
  BY HeadTailProperties
<1>2. Head(s) = s[1] /\ Len(s) \in Nat \ {0}
  BY EmptySeq
<1>3. Range(s) = {s[i] : i \in 1..Len(s)} /\ Range(t) = {t[i] : i \in 1..Len(t)}
  BY <1>1, RangeEquality
<1> HIDE DEF t
<1>4. Range(s) = {Head(s)} \cup Range(t)
  <2>1. \A i \in 1..Len(s) : i = 1 \/ (i-1 \in 1..Len(t) /\ s[i] = t[i-1])
    BY <1>1, <1>2
  <2>2. \A i \in 1..Len(t) : i+1 \in 1..Len(s)
    BY <1>1, <1>2
  <2>3. 1 \in 1..Len(s)
    BY <1>2
  <2>4. QED
    BY <1>1, <1>2, <1>3, <2>1, <2>2, <2>3
<1>5. ASSUME IsInjective(s)
      PROVE  IsInjective(t) /\ Head(s) \notin Range(t)
  <2>1. DOMAIN s = 1..Len(s) /\ DOMAIN t = 1..Len(t)
    BY <1>1, LenProperties
  <2>2. \A i, j \in 1..Len(s) : s[i] = s[j] => i = j
    BY <1>5, <2>1 DEF IsInjective
  <2>3. \A i, j \in 1..Len(t) : t[i] = t[j] => i = j
    <3>1. TAKE i \in 1..Len(t), j \in 1..Len(t)
    <3>2. i+1 \in 1..Len(s) /\ j+1 \in 1..Len(s)
      BY <1>1, <1>2
    <3>3. QED
      BY <1>1, <2>2, <3>2
  <2>4. \A i \in 1..Len(t) : t[i] # s[1]
    <3>1. TAKE i \in 1..Len(t)
    <3>2. i+1 \in 1..Len(s) /\ 1 \in 1..Len(s) /\ i+1 # 1
      BY <1>1, <1>2
    <3>3. QED
      BY <1>1, <2>2, <3>2
  <2>5. QED
    BY <1>2, <1>3, <2>1, <2>3, <2>4 DEF IsInjective
<1>6. QED
  BY <1>1, <1>4, <1>5 DEF t

LEMMA InitTypeInv == Init => TypeInv
<1> SUFFICES ASSUME Init PROVE TypeInv
  OBVIOUS
<1>1. Range(bus) \subseteq Entries
  BY HidTransportAssumption, RangeOfSeq DEF Init
<1>2. plugged \subseteq Units
  BY <1>1 DEF Init, Units
<1>3. None \in [Paths -> 0..SentBound] /\ \A p \in Paths : None[p] = 0
  BY HidTransportAssumption DEF None
<1>4. <<>> \in Seq(Paths) /\ <<>> \in Seq([path : Paths, n : 1..SentBound]) /\ Len(<<>>) = 0
  BY EmptySeq
<1>5. NoChoice \in [plugged : SUBSET Units, failed : SUBSET Paths]
  BY DEF NoChoice
<1>6. TypeOK
  BY <1>2, <1>3, <1>4, <1>5, EmptyRange, HidTransportAssumption DEF Init, TypeOK
<1>7. SessionInv /\ CountInv
  BY <1>3 DEF Init, SessionInv, CountInv
<1>8. QED
  BY <1>6, <1>7 DEF TypeInv

LEMMA OpenFirstTypeInv ==
  ASSUME TypeInv, OpenFirst
  PROVE  TypeInv'
<1>1. OpensSo
  BY OpenFirstLemma DEF TypeInv
<1>2. devs' \in Seq(Paths) /\ IsInjective(devs') /\ writeD' \in Paths \cup {NoPath}
  BY <1>1 DEF OpensSo, OpenedSoFar, OpenStates
<1>3. reader' = [p \in Paths |-> IF p \in Range(devs') THEN "top" ELSE "none"]
  BY DEF OpenFirst
<1>4. /\ phase \in {"none", "ended"} /\ phase' = "open"
      /\ UNCHANGED <<bus, plugged, dead, sent, left, got, reads, heard>>
  BY DEF OpenFirst, envVars
<1>5. TypeOK'
  <2>1. left' = <<>>
    BY <1>4 DEF TypeInv, SessionInv
  <2>2. UNCHANGED <<bus, plugged, dead, sent, got, reads, heard>>
    BY <1>4
  <2>3. reader' \in [Paths -> {"none", "top", "read", "post", "done"}]
    BY <1>3
  <2>4. QED
    BY <1>1, <1>2, <1>4, <2>1, <2>2, <2>3, EmptyRange DEF TypeInv, TypeOK, OpensSo
<1>6. SessionInv'
  BY <1>1, <1>3, <1>4 DEF TypeInv, SessionInv, OpensSo
<1>7. CountInv'
  BY <1>3, <1>4 DEF TypeInv, CountInv
<1>8. QED
  BY <1>5, <1>6, <1>7 DEF TypeInv

\* A reader's turn: nothing but where it is, what it has read and what it posts.
LEMMA ReaderTypeInv ==
  ASSUME TypeInv, NEW p \in Paths, ReaderLoop(p)
  PROVE  TypeInv'
<1> USE DEF ReaderFrame, ReaderGoes
<1>1. /\ reader \in [Paths -> {"none", "top", "read", "post", "done"}]
      /\ reader[p] \notin {"none", "done"}
      /\ UNCHANGED <<bus, plugged, dead, sent, phase, info, devs, writeD, choice, open, left, heard>>
  BY DEF TypeInv, TypeOK, ReaderLoop, ReaderChecks, ReaderReads, ReaderTimesOut, ReaderFails,
         ReaderPosts, ReaderDrops, envVars, handleVars
<1>2. p \in Range(devs) /\ phase \in {"open", "closing"}
  BY <1>1, EmptyRange DEF TypeInv, TypeOK, SessionInv
<1>3. \E l \in {"top", "read", "post", "done"} : reader' = [reader EXCEPT ![p] = l]
  BY DEF ReaderLoop, ReaderChecks, ReaderReads, ReaderTimesOut, ReaderFails, ReaderPosts, ReaderDrops
<1>4. \/ UNCHANGED got /\ reader'[p] # "post"
      \/ got[p] < sent[p] /\ got' = [got EXCEPT ![p] = @ + 1]
  BY <1>1 DEF ReaderLoop, ReaderChecks, ReaderReads, ReaderTimesOut, ReaderFails, ReaderPosts,
              ReaderDrops
<1>5. \/ UNCHANGED reads
      \/ /\ reader[p] = "post" /\ Len(reads) < ReadsCap
         /\ reads' = Append(reads, [path |-> p, n |-> got[p]])
  BY DEF ReaderLoop, ReaderChecks, ReaderReads, ReaderTimesOut, ReaderFails, ReaderPosts, ReaderDrops
<1>6. got \in [Paths -> 0..SentBound] /\ sent \in [Paths -> 0..SentBound] /\ SentBound \in Nat
  BY HidTransportAssumption DEF TypeInv, TypeOK
<1>7. got' \in [Paths -> 0..SentBound] /\ CountInv'
  <2>1. CASE UNCHANGED got /\ reader'[p] # "post"
    BY <1>1, <1>3, <1>6, <2>1 DEF TypeInv, CountInv
  <2>2. CASE got[p] < sent[p] /\ got' = [got EXCEPT ![p] = @ + 1]
    BY <1>1, <1>3, <1>6, <2>2 DEF TypeInv, CountInv
  <2>3. QED
    BY <1>4, <2>1, <2>2
<1>8. reads' \in Seq([path : Paths, n : 1..SentBound]) /\ Len(reads') <= ReadsCap
  <2>1. reads \in Seq([path : Paths, n : 1..SentBound]) /\ Len(reads) <= ReadsCap
    BY DEF TypeInv, TypeOK
  <2>2. CASE reader[p] = "post" /\ Len(reads) < ReadsCap
             /\ reads' = Append(reads, [path |-> p, n |-> got[p]])
    <3>1. got[p] \in 1..SentBound
      BY <1>6, <2>2 DEF TypeInv, CountInv
    <3>2. [path |-> p, n |-> got[p]] \in [path : Paths, n : 1..SentBound]
      BY <3>1
    <3>3. Len(reads') = Len(reads) + 1 /\ Len(reads) \in Nat /\ ReadsCap \in Nat
      BY <2>1, <2>2, <3>2, AppendProperties, LenProperties, HidTransportAssumption
    <3>4. QED
      BY <2>1, <2>2, <3>2, <3>3, AppendProperties
  <2>3. QED
    BY <1>5, <2>1, <2>2
<1>9. TypeOK'
  <2>1. reader' \in [Paths -> {"none", "top", "read", "post", "done"}]
    BY <1>1, <1>3
  <2>2. QED
    BY <1>1, <1>7, <1>8, <2>1 DEF TypeInv, TypeOK
<1>10. SessionInv'
  <2>1. \A q \in Paths : reader'[q] \notin {"none", "done"} => q \in Range(devs)
    BY <1>1, <1>2, <1>3 DEF TypeInv, SessionInv
  <2>2. QED
    BY <1>1, <1>2, <2>1 DEF TypeInv, SessionInv
<1>11. QED
  BY <1>7, <1>9, <1>10 DEF TypeInv

LEMMA ReadTypeInv ==
  ASSUME TypeInv, Read
  PROVE  TypeInv'
<1> DEFINE Reports == [path : Paths, n : 1..SentBound]
<1>1. /\ UNCHANGED <<bus, plugged, dead, sent, phase, info, devs, writeD, choice, open, left,
                     reader, got>>
      /\ reads # <<>> /\ reads' = Tail(reads)
      /\ heard' = [heard EXCEPT ![Head(reads).path] = Head(reads).n]
  BY DEF Read, envVars, handleVars
<1>2. reads \in Seq(Reports) /\ Len(reads) <= ReadsCap /\ Len(reads) \in Nat /\ ReadsCap \in Nat
  BY LenProperties, HidTransportAssumption DEF TypeInv, TypeOK
<1>3. Head(reads) \in Reports /\ reads' \in Seq(Reports) /\ Len(reads') = Len(reads) - 1
  BY <1>1, <1>2, HeadTailProperties
<1>4. heard' \in [Paths -> 0..SentBound]
  <2>1. heard \in [Paths -> 0..SentBound] /\ SentBound \in Nat
    BY HidTransportAssumption DEF TypeInv, TypeOK
  <2>2. QED
    BY <1>1, <1>3, <2>1
<1>5. TypeOK'
  <2>1. Len(reads') <= ReadsCap
    BY <1>2, <1>3
  <2>2. UNCHANGED <<bus, plugged, dead, sent, phase, info, devs, writeD, choice, open, left,
                    reader, got>>
    BY <1>1
  <2>3. QED
    BY <1>3, <1>4, <2>1, <2>2 DEF TypeInv, TypeOK
<1>6. phase \notin {"none", "ended"}
  BY <1>1 DEF TypeInv, SessionInv
<1>7. SessionInv' /\ CountInv'
  BY <1>1, <1>6 DEF TypeInv, SessionInv, CountInv
<1>8. QED
  BY <1>5, <1>7 DEF TypeInv

LEMMA CloseTypeInv ==
  ASSUME TypeInv, Close
  PROVE  TypeInv'
<1>1. /\ UNCHANGED <<bus, plugged, dead, sent, info, devs, writeD, choice, open, reader, got,
                     reads, heard>>
      /\ phase = "open" /\ phase' = "closing" /\ left' = devs
  BY DEF Close, envVars, handleVars
<1>2. QED
  BY <1>1 DEF TypeInv, TypeOK, SessionInv, CountInv

LEMMA CloseHandleTypeInv ==
  ASSUME TypeInv, CloseHandle
  PROVE  TypeInv'
<1>1. /\ UNCHANGED <<bus, plugged, dead, sent, phase, info, devs, writeD, choice, reader, got,
                     reads, heard>>
      /\ left # <<>> /\ open' = open \ {Head(left)} /\ left' = Tail(left)
  BY DEF CloseHandle, envVars, handleVars
<1>2. phase = "closing" /\ open = Range(left) /\ IsInjective(left)
  BY <1>1 DEF TypeInv, SessionInv
<1> DEFINE A == Range(left)
<1>3. left \in Seq(Paths)
  BY DEF TypeInv, TypeOK
<1>4. open' = Range(left') /\ IsInjective(left') /\ left' \in Seq(Paths)
  BY <1>1, <1>2, <1>3, TailLemma
<1>5. TypeOK'
  BY <1>1, <1>2, <1>4 DEF TypeInv, TypeOK
<1>6. SessionInv' /\ CountInv'
  BY <1>1, <1>2, <1>4 DEF TypeInv, SessionInv, CountInv
<1>7. QED
  BY <1>5, <1>6 DEF TypeInv

LEMMA CloseEndsTypeInv ==
  ASSUME TypeInv, CloseEnds
  PROVE  TypeInv'
<1>1. /\ UNCHANGED <<bus, plugged, open, left, reader>>
      /\ phase = "closing" /\ left = <<>> /\ \A p \in Range(devs) : reader[p] = "done"
      /\ phase' = "ended" /\ info' = NoInfo /\ devs' = <<>> /\ writeD' = NoPath /\ reads' = <<>>
      /\ sent' = None /\ got' = None /\ heard' = None /\ dead' = {} /\ choice' = NoChoice
  BY DEF CloseEnds, Ends
<1>2. open = {}
  BY <1>1, EmptyRange DEF TypeInv, SessionInv
<1>3. \A p \in Paths : reader[p] \in {"none", "done"}
  BY <1>1 DEF TypeInv, SessionInv
<1>4. None \in [Paths -> 0..SentBound] /\ \A p \in Paths : None[p] = 0
  BY HidTransportAssumption DEF None
<1>5. <<>> \in Seq(Paths) /\ <<>> \in Seq([path : Paths, n : 1..SentBound]) /\ Len(<<>>) = 0
  BY EmptySeq
<1>6. NoChoice \in [plugged : SUBSET Units, failed : SUBSET Paths]
  BY DEF NoChoice
<1>7. TypeOK'
  BY <1>1, <1>2, <1>4, <1>5, <1>6, EmptyRange, HidTransportAssumption DEF TypeInv, TypeOK
<1>8. SessionInv' /\ CountInv'
  BY <1>1, <1>2, <1>3, <1>4 DEF SessionInv, CountInv
<1>9. QED
  BY <1>7, <1>8 DEF TypeInv

LEMMA EnvTypeInv ==
  ASSUME TypeInv, \/ \E p \in Paths : Arrives(p)
                  \/ \E u \in Units : Unplug(u) \/ Plug(u)
  PROVE  TypeInv'
<1>1. /\ UNCHANGED <<bus, phase, info, devs, writeD, choice, open, left, reader, got, reads, heard>>
  BY DEF Arrives, Unplug, Plug, EnvFrame, handleVars
<1>2. /\ sent' \in [Paths -> 0..SentBound] /\ \A p \in Paths : sent[p] <= sent'[p]
      /\ sent # sent' => phase \notin {"none", "ended"}
  <2>1. sent \in [Paths -> 0..SentBound] /\ SentBound \in Nat
    BY HidTransportAssumption DEF TypeInv, TypeOK
  <2>2. CASE \E p \in Paths : Arrives(p)
    BY <2>1, <2>2 DEF Arrives, TypeInv, SessionInv
  <2>3. CASE \E u \in Units : Unplug(u) \/ Plug(u)
    <3>1. UNCHANGED sent
      BY <2>3 DEF Unplug, Plug
    <3>2. QED
      BY <2>1, <3>1
  <2>4. QED
    BY <2>2, <2>3
<1>3. dead' \subseteq Paths
  <2>1. open \subseteq Paths /\ dead \subseteq Paths
    BY RangeOfSeq DEF TypeInv, TypeOK
  <2>2. QED
    BY <2>1 DEF Arrives, Unplug, Plug
<1>4. plugged' \subseteq Units
  BY DEF Arrives, Unplug, Plug, TypeInv, TypeOK
<1>5. TypeOK'
  BY <1>1, <1>2, <1>3, <1>4 DEF TypeInv, TypeOK
<1>6. SessionInv'
  BY <1>1, <1>2 DEF TypeInv, SessionInv
<1>7. CountInv'
  <2>1. sent \in [Paths -> 0..SentBound] /\ got \in [Paths -> 0..SentBound] /\ SentBound \in Nat
    BY HidTransportAssumption DEF TypeInv, TypeOK
  <2>2. \A p \in Paths : sent[p] \in Nat /\ sent'[p] \in Nat /\ got[p] \in Nat
    BY <1>2, <2>1
  <2>3. QED
    BY <1>1, <1>2, <2>2 DEF TypeInv, CountInv
<1>8. QED
  BY <1>5, <1>6, <1>7 DEF TypeInv

LEMMA NextTypeInv == TypeInv /\ [Next]_vars => TypeInv'
<1> SUFFICES ASSUME TypeInv, [Next]_vars PROVE TypeInv'
  OBVIOUS
<1>1. CASE UNCHANGED vars
  <2>1. UNCHANGED <<bus, plugged, dead, sent, phase, info, devs, writeD, choice, open, left, reader,
                    got, reads, heard>>
    BY <1>1 DEF vars, envVars, handleVars
  <2>2. QED
    BY <2>1 DEF TypeInv, TypeOK, SessionInv, CountInv
<1>2. CASE Next
  BY <1>2, OpenFirstTypeInv, ReadTypeInv, CloseTypeInv, CloseHandleTypeInv, CloseEndsTypeInv,
     ReaderTypeInv, EnvTypeInv DEF Next
<1>3. QED
  BY <1>1, <1>2

LEMMA AlwaysTypeInv == Spec => []TypeInv
  BY InitTypeInv, NextTypeInv, PTL DEF Spec

\* The variables keep their types: no path is opened twice, what Close still has to
\* close is open, and the channel never holds more than its capacity.
THEOREM TypeCorrect == Spec => []TypeOK
<1>1. TypeInv => TypeOK
  BY DEF TypeInv
<1>2. QED
  BY <1>1, AlwaysTypeInv, PTL

\* Once Close has returned no reader runs and no handle is open, however many
\* there were and whatever each of them was doing when Close was called.
THEOREM CloseLeavesNothing == Spec => []QuietAfterClose
<1>1. TypeInv => QuietAfterClose
  <2> SUFFICES ASSUME TypeInv, phase = "ended"
               PROVE  open = {} /\ \A p \in Paths : reader[p] \in {"none", "done"}
    BY DEF QuietAfterClose
  <2>1. open = {} /\ Range(devs) = {}
    BY EmptyRange DEF TypeInv, SessionInv
  <2>2. QED
    BY <2>1 DEF TypeInv, SessionInv
<1>2. QED
  BY <1>1, AlwaysTypeInv, PTL

-----------------------------------------------------------------------------
(* What OpenFirst has chosen stays until Close.                            *)

LEMMA OpenChanges ==
  ASSUME [Next]_vars, phase' = "open"
  PROVE  OpenFirst \/ (phase = "open" /\ UNCHANGED <<bus, info, devs, writeD, choice>>)
<1>1. CASE UNCHANGED vars
  BY <1>1 DEF vars, envVars, handleVars
<1>2. CASE Read \/ Close \/ CloseHandle \/ CloseEnds
  BY <1>2 DEF Read, Close, CloseHandle, CloseEnds, Ends, envVars, handleVars
<1>3. CASE \E p \in Paths : ReaderLoop(p) \/ Arrives(p)
  BY <1>3 DEF ReaderLoop, ReaderChecks, ReaderReads, ReaderTimesOut, ReaderFails, ReaderPosts,
              ReaderDrops, ReaderFrame, Arrives, EnvFrame, envVars, handleVars
<1>4. CASE \E u \in Units : Unplug(u) \/ Plug(u)
  BY <1>4 DEF Unplug, Plug, EnvFrame, handleVars
<1>5. QED
  BY <1>1, <1>2, <1>3, <1>4 DEF Next

\* The paths of a group are those of the entries with its key.
LEMMA PathsOfGroup ==
  ASSUME NEW list, NEW k, NEW g, IsGroupOf(g, list, k)
  PROVE  PathsOf(g.collections, Len(g.collections)) = {e.path : e \in WithKey(list, k)}
<1> DEFINE cs == g.collections
<1>1. cs \in Seq(Collections)
  BY DEF IsGroupOf, Infos
<1>2. Range(cs) = {cs[i] : i \in 1..Len(cs)}
  BY <1>1, RangeEquality
<1>3. Range(cs) = {CollectionOf(e) : e \in WithKey(list, k)}
  BY DEF IsGroupOf
<1>4. PathsOf(cs, Len(cs)) = {c.path : c \in Range(cs)}
  BY <1>2 DEF PathsOf
<1> HIDE DEF cs
<1>5. {c.path : c \in Range(cs)} = {e.path : e \in WithKey(list, k)}
  <2>1. \A e : CollectionOf(e).path = e.path
    BY DEF CollectionOf
  <2>2. QED
    BY <1>3, <2>1
<1>6. QED
  BY <1>4, <1>5 DEF cs

LEMMA OpenFirstOpensOne ==
  ASSUME TypeOK, OpenFirst
  PROVE  OpensOneWholeReceiver'
<1> SUFFICES ASSUME ToldApart(choice.plugged)'
             PROVE  (\E u \in choice.plugged :
                       /\ Range(devs) = {e.path : e \in EntriesWith(u)} \ choice.failed
                       /\ (\E v \in choice.plugged : IsKnown(v)) => IsKnown(u))'
  BY DEF OpensOneWholeReceiver
<1>1. OpensSo
  BY OpenFirstLemma
<1>2. Range(Listed) = {e \in Range(bus) : e.unit \in plugged} /\ Range(Listed) \subseteq Entries
  BY ListedLemma, RangeOfSeq
<1>3. bus' = bus /\ choice'.plugged = plugged
  BY <1>1 DEF OpenFirst, OpensSo, envVars
<1>4. PICK e \in Range(Listed) \cap HidPP : IsGroupOf(info', Listed, KeyOf(e))
  BY <1>1 DEF OpensSo
<1> DEFINE u == e.unit
           Of(v) == {x \in Range(bus) : x.unit = v /\ x.page = "FF00"}
<1>5. \A v : EntriesWith(v)' = Of(v)
  BY <1>3 DEF EntriesWith
<1>6. \A v, w \in plugged : \A x \in Of(v), y \in Of(w) :
        (x.product = y.product /\ x.iface = y.iface) <=> v = w
  BY <1>3, <1>5 DEF ToldApart
<1>7. u \in plugged /\ e \in Of(u)
  BY <1>2, <1>4 DEF HidPP
<1>8. WithKey(Listed, KeyOf(e)) = Of(u)
  <2>1. ASSUME NEW x \in WithKey(Listed, KeyOf(e)) PROVE x \in Of(u)
    <3>1. x \in Range(bus) /\ x.unit \in plugged /\ x.page = "FF00" /\ KeyOf(x) = KeyOf(e)
      BY <1>2, <2>1 DEF WithKey, HidPP
    <3>2. x \in Of(x.unit) /\ x.product = e.product /\ x.iface = e.iface
      BY <3>1 DEF KeyOf
    <3> HIDE DEF u, Of
    <3>3. x.unit = u
      BY <1>6, <1>7, <3>1, <3>2
    <3>4. QED
      BY <3>2, <3>3
  <2>2. ASSUME NEW x \in Of(u) PROVE x \in WithKey(Listed, KeyOf(e))
    <3>1. x \in Range(Listed) \cap HidPP
      BY <1>2, <1>7, <2>2 DEF HidPP
    <3> HIDE DEF u, Of
    <3>2. x.product = e.product /\ x.iface = e.iface
      BY <1>6, <1>7, <2>2
    <3>3. QED
      BY <3>1, <3>2 DEF WithKey, KeyOf
  <2>3. QED
    BY <2>1, <2>2
<1>9. Range(devs') = {x.path : x \in Of(u)} \ choice'.failed
  <2>1. Range(devs') = PathsOf(info'.collections, Len(info'.collections)) \ choice'.failed
    BY <1>1 DEF OpensSo, OpenedSoFar
  <2> HIDE DEF u, Of
  <2>2. QED
    BY <1>4, <1>8, <2>1, PathsOfGroup
<1>10. ASSUME NEW v \in plugged, NEW y \in Of(v), y.product \in KnownProducts
       PROVE  \E x \in Of(u) : x.product \in KnownProducts
  <2>1. y \in Range(Listed) \cap HidPP
    BY <1>2, <1>10 DEF HidPP
  <2>2. info'.product \in KnownProducts
    BY <1>1, <1>10, <2>1 DEF OpensSo
  <2>3. PICK x \in WithKey(Listed, KeyOf(e)) : info'.product = x.product
    BY <1>4 DEF IsGroupOf
  <2> HIDE DEF u, Of
  <2>4. QED
    BY <1>8, <2>2, <2>3
<1>11. \A v : IsKnown(v)' <=> \E x \in Of(v) : x.product \in KnownProducts
  BY <1>5 DEF IsKnown
<1> HIDE DEF Of
<1>12. QED
  BY <1>3, <1>5, <1>7, <1>9, <1>10, <1>11

\* What is opened is all that opens of one receiver, of a known one if any is there:
\* for any list of collections in which receivers can be told apart, any interleaving
\* of collections, any repetitions, and any paths that fail to open.
THEOREM OpensOne == Spec => []OpensOneWholeReceiver
<1>1. Init => OpensOneWholeReceiver
  BY DEF Init, OpensOneWholeReceiver
<1>2. TypeInv /\ OpensOneWholeReceiver /\ [Next]_vars => OpensOneWholeReceiver'
  <2> SUFFICES ASSUME TypeInv, OpensOneWholeReceiver, [Next]_vars PROVE OpensOneWholeReceiver'
    OBVIOUS
  <2>1. CASE phase' # "open"
    BY <2>1 DEF OpensOneWholeReceiver
  <2>2. CASE OpenFirst
    BY <2>2, OpenFirstOpensOne DEF TypeInv
  <2>3. CASE phase = "open" /\ UNCHANGED <<bus, info, devs, writeD, choice>>
    BY <2>3 DEF OpensOneWholeReceiver, ToldApart, IsKnown, EntriesWith
  <2>4. QED
    BY <2>1, <2>2, <2>3, OpenChanges
<1>3. QED
  BY <1>1, <1>2, AlwaysTypeInv, PTL DEF Spec

\* Requests are written to a handle that is read, and to a short collection's if any
\* of those is open, in whatever order the collections are listed.
THEOREM WritesShort == Spec => []WritesOnShort
<1>1. Init => WritesOnShort
  BY DEF Init, WritesOnShort
<1>2. TypeInv /\ WritesOnShort /\ [Next]_vars => WritesOnShort'
  <2> SUFFICES ASSUME TypeInv, WritesOnShort, [Next]_vars, phase' = "open" PROVE WritesOnShort'
    BY DEF WritesOnShort
  <2>1. CASE OpenFirst
    <3> DEFINE cs == info'.collections
               short == {c.path : c \in {x \in Range(cs) : IsShort(x)}}
    <3>1. OpensSo
      BY <2>1, OpenFirstLemma DEF TypeInv
    <3>2. cs \in Seq(Collections)
      BY <3>1 DEF OpensSo, Infos
    <3>3. short = ShortsOf(cs, Len(cs))
      <4>1. Range(cs) = {cs[i] : i \in 1..Len(cs)}
        BY <3>2, RangeEquality
      <4> HIDE DEF cs
      <4>2. QED
        BY <4>1 DEF ShortsOf
    <3>4. /\ writeD' \in Range(devs')
          /\ ShortsOf(cs, Len(cs)) \cap Range(devs') # {} => writeD' \in ShortsOf(cs, Len(cs))
      BY <3>1 DEF OpensSo, OpenedSoFar
    <3>5. QED
      BY <3>3, <3>4 DEF WritesOnShort, IsShort
  <2>2. CASE phase = "open" /\ UNCHANGED <<bus, info, devs, writeD, choice>>
    BY <2>2 DEF WritesOnShort, IsShort
  <2>3. QED
    BY <2>1, <2>2, OpenChanges
<1>3. QED
  BY <1>1, <1>2, AlwaysTypeInv, PTL DEF Spec

-----------------------------------------------------------------------------
(* The order of reports.                                                   *)

\* No reader holds a report that Read has had already.
HeldInv == \A p \in Paths : phase = "open" => heard[p] + Held(p) <= got[p]

OrderInv == TypeInv /\ HeldInv /\ ReportsInOrder

\* The numbers of a handle's reports in the channel s.
Numbers(s, p) == {r.n : r \in {x \in Range(s) : x.path = p}}

\* Those of one handle are in order.
Ordered(s) == \A i, j \in DOMAIN s : i < j /\ s[i].path = s[j].path => s[i].n < s[j].n

Reports == [path : Paths, n : 1..SentBound]

\* Of an ordered channel that holds a..b of a handle, its head, if of that handle,
\* is a.
LEMMA OrderedTail ==
  ASSUME NEW s \in Seq(Reports), s # <<>>, Ordered(s)
  PROVE  /\ Ordered(Tail(s))
         /\ \A p \in Paths : p # Head(s).path => Numbers(Tail(s), p) = Numbers(s, p)
         /\ \A k \in Numbers(Tail(s), Head(s).path) : Head(s).n < k
         /\ Numbers(s, Head(s).path) = {Head(s).n} \cup Numbers(Tail(s), Head(s).path)
<1> DEFINE t == Tail(s)
<1>1. /\ Head(s) \in Reports /\ t \in Seq(Reports) /\ Len(t) = Len(s)-1
      /\ \A i \in 1 .. Len(t) : t[i] = s[i+1]
  BY HeadTailProperties
<1>2. /\ Head(s) = s[1] /\ Len(s) \in Nat \ {0} /\ DOMAIN s = 1..Len(s) /\ DOMAIN t = 1..Len(t)
      /\ Range(t) = {t[i] : i \in 1..Len(t)}
  <2>1. Head(s) = s[1] /\ Len(s) \in Nat \ {0}
    BY EmptySeq
  <2> HIDE DEF t
  <2>2. DOMAIN s = 1..Len(s) /\ DOMAIN t = 1..Len(t)
    BY <1>1, LenProperties
  <2>3. Range(t) = {t[i] : i \in 1..Len(t)}
    BY <1>1, RangeEquality
  <2>4. QED
    BY <2>1, <2>2, <2>3
<1>3. Range(s) = {Head(s)} \cup Range(t)
  BY TailLemma
<1> HIDE DEF t
<1>4. \A i \in 1..Len(t) : i+1 \in 1..Len(s) /\ 1 < i+1
  BY <1>1, <1>2
<1>5. Ordered(t)
  <2> SUFFICES ASSUME NEW i \in 1..Len(t), NEW j \in 1..Len(t), i < j, t[i].path = t[j].path
               PROVE  t[i].n < t[j].n
    BY <1>2 DEF Ordered
  <2>1. i+1 < j+1 /\ i+1 \in DOMAIN s /\ j+1 \in DOMAIN s
    BY <1>2, <1>4
  <2>2. t[i] = s[i+1] /\ t[j] = s[j+1]
    BY <1>1
  <2>3. QED
    BY <2>1, <2>2 DEF Ordered
<1>6. ASSUME NEW r \in Range(t), r.path = Head(s).path PROVE Head(s).n < r.n
  <2>1. PICK i \in 1..Len(t) : r = t[i]
    BY <1>2
  <2>2. 1 < i+1 /\ 1 \in DOMAIN s /\ i+1 \in DOMAIN s /\ r = s[i+1]
    BY <1>1, <1>2, <1>4, <2>1
  <2>3. QED
    BY <1>2, <1>6, <2>2 DEF Ordered
<1>7. \A p \in Paths : p # Head(s).path => Numbers(t, p) = Numbers(s, p)
  BY <1>3 DEF Numbers
<1>8. Numbers(s, Head(s).path) = {Head(s).n} \cup Numbers(t, Head(s).path)
  BY <1>3 DEF Numbers
<1>9. \A k \in Numbers(t, Head(s).path) : Head(s).n < k
  BY <1>6 DEF Numbers
<1>10. QED
  BY <1>5, <1>7, <1>8, <1>9 DEF t

LEMMA OrderedAppend ==
  ASSUME NEW s \in Seq(Reports), NEW r \in Reports, Ordered(s), \A k \in Numbers(s, r.path) : k < r.n
  PROVE  /\ Ordered(Append(s, r))
         /\ \A p \in Paths : p # r.path => Numbers(Append(s, r), p) = Numbers(s, p)
         /\ Numbers(Append(s, r), r.path) = Numbers(s, r.path) \cup {r.n}
<1> DEFINE t == Append(s, r)
<1>1. /\ t \in Seq(Reports) /\ Len(t) = Len(s) + 1
      /\ \A i \in 1..Len(s) : t[i] = s[i]
      /\ t[Len(s) + 1] = r
  BY AppendProperties
<1>2. DOMAIN s = 1..Len(s) /\ Len(s) \in Nat /\ DOMAIN t = 1..Len(t)
  BY <1>1, LenProperties
<1>3. Range(t) = Range(s) \cup {r} /\ Range(s) = {s[i] : i \in 1..Len(s)}
  BY RangeOfAppend, RangeEquality
<1> HIDE DEF t
<1>4. Ordered(t)
  <2> SUFFICES ASSUME NEW i \in 1..Len(t), NEW j \in 1..Len(t), i < j, t[i].path = t[j].path
               PROVE  t[i].n < t[j].n
    BY <1>2 DEF Ordered
  <2>1. i \in 1..Len(s)
    BY <1>1, <1>2
  <2>2. CASE j \in 1..Len(s)
    BY <1>1, <1>2, <2>1, <2>2 DEF Ordered
  <2>3. CASE j = Len(s) + 1
    <3>1. t[j] = r /\ t[i] = s[i] /\ s[i] \in Range(s)
      BY <1>1, <1>3, <2>1, <2>3
    <3>2. s[i].n \in Numbers(s, r.path)
      BY <3>1 DEF Numbers
    <3>3. QED
      BY <3>1, <3>2
  <2>4. QED
    BY <1>1, <1>2, <2>2, <2>3
<1>5. QED
  BY <1>3, <1>4 DEF Numbers, t

\* ReportsInOrder in these terms.
LEMMA InOrder ==
  ReportsInOrder <=> (phase = "open" =>
    Ordered(reads) /\ \A p \in Paths : Numbers(reads, p) = (heard[p] + 1)..(got[p] - Held(p)))
BY DEF ReportsInOrder, Ordered, Numbers

LEMMA ReaderOrder ==
  ASSUME OrderInv, phase = "open", NEW q \in Paths, ReaderLoop(q)
  PROVE  HeldInv' /\ ReportsInOrder'
<1> USE DEF ReaderFrame, ReaderGoes
<1>1. /\ reader \in [Paths -> {"none", "top", "read", "post", "done"}]
      /\ got \in [Paths -> 0..SentBound] /\ heard \in [Paths -> 0..SentBound]
      /\ reads \in Seq(Reports) /\ SentBound \in Nat
  BY HidTransportAssumption DEF OrderInv, TypeInv, TypeOK, Reports
<1>2. /\ \A p \in Paths : heard[p] + Held(p) <= got[p]
      /\ Ordered(reads)
      /\ \A p \in Paths : Numbers(reads, p) = (heard[p] + 1)..(got[p] - Held(p))
  BY InOrder DEF OrderInv, HeldInv
<1>3. /\ UNCHANGED <<phase, heard>> /\ reader[q] \notin {"none", "done"}
      /\ \E l \in {"top", "read", "post", "done"} : reader' = [reader EXCEPT ![q] = l]
  BY DEF ReaderLoop, ReaderChecks, ReaderReads, ReaderTimesOut, ReaderFails, ReaderPosts,
         ReaderDrops, handleVars
<1>5. \A p \in Paths \ {q} : Held(p)' = Held(p)
  BY <1>1, <1>3 DEF Held
<1>6. SUFFICES /\ \A p \in Paths : heard[p] + Held(p)' <= got'[p]
               /\ Ordered(reads')
               /\ \A p \in Paths : Numbers(reads', p) = (heard[p] + 1)..(got'[p] - Held(p)')
  <2>1. HeldInv' <=> \A p \in Paths : phase' = "open" => heard'[p] + Held(p)' <= got'[p]
    BY DEF HeldInv
  <2>2. ReportsInOrder' <=> (phase' = "open" =>
          /\ Ordered(reads')
          /\ \A p \in Paths : Numbers(reads', p) = (heard'[p] + 1)..(got'[p] - Held(p)'))
    BY DEF ReportsInOrder, Ordered, Numbers
  <2>3. QED
    BY <1>3, <2>1, <2>2
<1>7. CASE ReaderPosts(q)
  <2> DEFINE r == [path |-> q, n |-> got[q]]
  <2>1. /\ reader[q] = "post" /\ reader'[q] = "top" /\ got' = got
        /\ reads' = Append(reads, r)
    BY <1>1, <1>7 DEF ReaderPosts
  <2>2. Held(q) = 1 /\ Held(q)' = 0
    BY <2>1 DEF Held
  <2>3. got[q] \in 1..SentBound /\ heard[q] + 1 <= got[q] /\ heard[q] \in Nat
    BY <1>1, <1>2, <2>2
  <2>4. r \in Reports /\ r.path = q /\ r.n = got[q]
    BY <2>3 DEF Reports
  <2>5. Numbers(reads, q) = (heard[q] + 1)..(got[q] - 1)
    BY <1>2, <2>2
  <2>6. \A k \in Numbers(reads, q) : k < r.n
    BY <2>3, <2>4, <2>5
  <2> HIDE DEF r
  <2>7. /\ Ordered(reads')
        /\ \A p \in Paths : p # q => Numbers(reads', p) = Numbers(reads, p)
        /\ Numbers(reads', q) = Numbers(reads, q) \cup {got[q]}
    BY <1>1, <1>2, <2>1, <2>4, <2>6, OrderedAppend
  <2>8. Numbers(reads', q) = (heard[q] + 1)..(got'[q] - Held(q)')
    <3>1. (heard[q] + 1)..got[q] = (heard[q] + 1)..(got[q] - 1) \cup {got[q]}
      BY <2>3
    <3>2. QED
      BY <2>1, <2>2, <2>3, <2>5, <2>7, <3>1
  <2>9. \A p \in Paths : Numbers(reads', p) = (heard[p] + 1)..(got'[p] - Held(p)')
    BY <1>1, <1>2, <1>5, <2>1, <2>7, <2>8
  <2>10. \A p \in Paths : heard[p] + Held(p)' <= got'[p]
    <3>1. heard[q] + Held(q)' <= got'[q]
      BY <2>1, <2>2, <2>3
    <3>2. QED
      BY <1>2, <1>5, <2>1, <3>1
  <2>11. QED
    BY <2>7, <2>9, <2>10
<1>8. CASE ReaderReads(q)
  <2>1. /\ reader[q] = "read" /\ reader'[q] = "post" /\ UNCHANGED reads
        /\ got' = [got EXCEPT ![q] = @ + 1]
    BY <1>1, <1>8 DEF ReaderReads
  <2>2. Held(q) = 0 /\ Held(q)' = 1
    BY <2>1 DEF Held
  <2>3. got'[q] = got[q] + 1 /\ \A p \in Paths \ {q} : got'[p] = got[p]
    BY <1>1, <2>1
  <2>4. got[q] \in Nat /\ heard[q] \in Nat
    BY <1>1
  <2>5. heard[q] + Held(q)' <= got'[q] /\ got'[q] - Held(q)' = got[q] - Held(q)
    BY <1>2, <2>2, <2>3, <2>4
  <2>6. QED
    BY <1>1, <1>2, <1>5, <2>1, <2>3, <2>5
<1>9. CASE ReaderChecks(q) \/ ReaderTimesOut(q) \/ ReaderFails(q) \/ ReaderDrops(q)
  <2>1. reader[q] # "post" /\ reader'[q] # "post" /\ UNCHANGED <<got, reads>>
    BY <1>1, <1>9 DEF ReaderChecks, ReaderTimesOut, ReaderFails, ReaderDrops, Closed
  <2>2. Held(q)' = Held(q)
    BY <2>1 DEF Held
  <2>3. \A p \in Paths : Held(p)' = Held(p)
    BY <1>5, <2>2
  <2>4. QED
    BY <1>1, <1>2, <2>1, <2>3
<1>10. QED
  BY <1>7, <1>8, <1>9 DEF ReaderLoop

LEMMA ReadOrder ==
  ASSUME OrderInv, phase = "open", Read
  PROVE  HeldInv' /\ ReportsInOrder'
<1> DEFINE q == Head(reads).path
           m == Head(reads).n
<1>1. /\ heard \in [Paths -> 0..SentBound] /\ got \in [Paths -> 0..SentBound]
      /\ reads \in Seq(Reports) /\ SentBound \in Nat
  BY HidTransportAssumption DEF OrderInv, TypeInv, TypeOK, Reports
<1>2. /\ \A p \in Paths : heard[p] + Held(p) <= got[p]
      /\ Ordered(reads)
      /\ \A p \in Paths : Numbers(reads, p) = (heard[p] + 1)..(got[p] - Held(p))
  BY InOrder DEF OrderInv, HeldInv
<1>3. /\ reads # <<>> /\ reads' = Tail(reads) /\ heard' = [heard EXCEPT ![q] = m]
      /\ UNCHANGED <<phase, got, reader>>
  BY DEF Read, handleVars
<1>4. q \in Paths /\ m \in 1..SentBound
  <2>1. Head(reads) \in Reports
    BY <1>1, <1>3, HeadTailProperties
  <2>2. QED
    BY <2>1 DEF Reports
<1>5. \A p \in Paths : Held(p)' = Held(p)
  BY <1>3 DEF Held
<1>6. /\ Ordered(reads')
      /\ \A p \in Paths : p # q => Numbers(reads', p) = Numbers(reads, p)
      /\ \A k \in Numbers(reads', q) : m < k
      /\ Numbers(reads, q) = {m} \cup Numbers(reads', q)
  BY <1>1, <1>2, <1>3, OrderedTail
<1> HIDE DEF q, m
<1>7. SUFFICES /\ \A p \in Paths : heard'[p] + Held(p) <= got[p]
               /\ \A p \in Paths : Numbers(reads', p) = (heard'[p] + 1)..(got[p] - Held(p))
  <2>1. HeldInv' <=> \A p \in Paths : phase' = "open" => heard'[p] + Held(p)' <= got'[p]
    BY DEF HeldInv
  <2>2. ReportsInOrder' <=> (phase' = "open" =>
          /\ Ordered(reads')
          /\ \A p \in Paths : Numbers(reads', p) = (heard'[p] + 1)..(got'[p] - Held(p)'))
    BY DEF ReportsInOrder, Ordered, Numbers
  <2>3. QED
    BY <1>3, <1>5, <1>6, <2>1, <2>2
<1>8. ASSUME NEW p \in Paths
      PROVE  /\ heard'[p] + Held(p) <= got[p]
             /\ Numbers(reads', p) = (heard'[p] + 1)..(got[p] - Held(p))
  <2>1. heard[p] \in Nat /\ got[p] \in Nat /\ Held(p) \in {0, 1}
    BY <1>1 DEF Held
  <2>2. CASE p # q
    BY <1>1, <1>2, <1>3, <1>6, <2>2
  <2>3. CASE p = q
    <3> DEFINE a == heard[q] + 1
               b == got[q] - Held(q)
    <3>1. a \in Int /\ b \in Int /\ {m} \cup Numbers(reads', q) = a..b
      BY <1>2, <1>4, <1>6, <2>1, <2>3
    <3>2. m \in a..b /\ a \in a..b
      BY <3>1
    <3>3. m = a
      <4>1. a = m \/ a \in Numbers(reads', q)
        BY <3>1, <3>2
      <4>2. QED
        BY <1>4, <1>6, <3>1, <3>2, <4>1
    <3>4. Numbers(reads', q) = (a+1)..b
      <4>1. m \notin Numbers(reads', q)
        BY <1>4, <1>6
      <4>2. a..b = {a} \cup (a+1)..b /\ a \notin (a+1)..b
        BY <3>1, <3>2
      <4>3. QED
        BY <3>1, <3>3, <4>1, <4>2
    <3>5. heard'[q] = heard[q] + 1
      BY <1>1, <1>3, <1>4, <3>3
    <3>6. QED
      BY <1>4, <2>1, <2>3, <3>2, <3>4, <3>5
  <2>4. QED
    BY <2>2, <2>3
<1>9. QED
  BY <1>8

LEMMA NextOrderInv == OrderInv /\ [Next]_vars => OrderInv'
<1> SUFFICES ASSUME OrderInv, [Next]_vars PROVE OrderInv'
  OBVIOUS
<1>1. TypeInv'
  BY NextTypeInv DEF OrderInv
<1>2. CASE phase' # "open"
  BY <1>1, <1>2 DEF OrderInv, HeldInv, ReportsInOrder
<1>3. CASE OpenFirst
  <2>1. /\ reads' = <<>> /\ heard' = None /\ got' = None
        /\ \A p \in Paths : reader'[p] # "post" /\ None[p] = 0
    BY <1>3 DEF OpenFirst, OrderInv, TypeInv, SessionInv, None
  <2>2. Range(reads') = {} /\ DOMAIN reads' = {}
    <3>1. <<>> \in Seq(Reports) /\ Len(<<>>) = 0
      BY EmptySeq
    <3>2. DOMAIN <<>> = 1..0
      BY <3>1, LenProperties
    <3>3. DOMAIN <<>> = {}
      BY <3>2
    <3>4. QED
      BY <2>1, <3>3, EmptyRange
  <2>3. \A p \in Paths : Held(p)' = 0
    BY <2>1 DEF Held
  <2>4. HeldInv'
    BY <2>1, <2>3 DEF HeldInv
  <2>5. ReportsInOrder'
    BY <2>1, <2>2, <2>3 DEF ReportsInOrder
  <2>6. QED
    BY <1>1, <2>4, <2>5 DEF OrderInv
<1>4. CASE phase = "open" /\ Read
  BY <1>1, <1>4, ReadOrder DEF OrderInv
<1>5. CASE phase = "open" /\ \E p \in Paths : ReaderLoop(p)
  BY <1>1, <1>5, ReaderOrder DEF OrderInv
<1>6. CASE UNCHANGED <<phase, reads, heard, got, reader>>
  BY <1>1, <1>6 DEF OrderInv, HeldInv, ReportsInOrder, Held
<1>7. phase' = "open" /\ ~OpenFirst => phase = "open" /\ ~Close /\ ~CloseEnds
  BY OpenChanges DEF Close, CloseEnds, Ends
<1>8. QED
  <2>1. CASE UNCHANGED vars
    BY <1>6, <2>1 DEF vars
  <2>2. CASE CloseHandle
    BY <1>6, <2>2 DEF CloseHandle
  <2>3. CASE \E p \in Paths : Arrives(p)
    BY <1>6, <2>3 DEF Arrives, EnvFrame
  <2>4. CASE \E u \in Units : Unplug(u) \/ Plug(u)
    BY <1>6, <2>4 DEF Unplug, Plug, EnvFrame
  <2>5. QED
    BY <1>2, <1>3, <1>4, <1>5, <1>7, <2>1, <2>2, <2>3, <2>4 DEF Next

\* The merged channel loses, repeats and reorders no report of any one handle, for
\* any number of handles and readers and any capacity of the channel.
THEOREM MergesInOrder == Spec => []ReportsInOrder
<1>1. Init => OrderInv
  BY InitTypeInv DEF Init, OrderInv, HeldInv, ReportsInOrder
<1>2. OrderInv => ReportsInOrder
  BY DEF OrderInv
<1>3. QED
  BY <1>1, <1>2, NextOrderInv, PTL DEF Spec
=============================================================================
