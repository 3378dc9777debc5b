-------------------------- MODULE DeepResearch_proofs --------------------------
(***************************************************************************)
(* What a research task keeps to, for any tools, calls, answers, engines,  *)
(* hits and budgets: the conversation is one the provider accepts, a round *)
(* that is called completed is one in which nothing went wrong, no source  *)
(* crowds out the others, and no other company's row is handed on as the   *)
(* company's own.                                                          *)
(***************************************************************************)
EXTENDS DeepResearch, SequenceTheorems, FiniteSetTheorems, WellFoundedInduction, TLAPS

-----------------------------------------------------------------------------
(***************************************************************************)
(* Sequences and numberings                                                *)
(***************************************************************************)
\* Sets of numbers have a least one, and induction is a matter of sets.
LEMMA NatMin ==
  ASSUME NEW S \in SUBSET Nat, S # {}
  PROVE  \E m \in S : \A n \in S : m <= n
<1>1. IsWellFoundedOn(OpToRel(<, Nat), Nat)
  BY NatLessThanWellFounded
<1>2. PICK x \in S : \A y \in S : ~ (<<y, x>> \in OpToRel(<, Nat))
  BY <1>1, WFMin
<1>3. \A y \in S : ~ (y < x)
  BY <1>2 DEF OpToRel
<1> QED BY <1>3

LEMMA NatInd ==
  ASSUME NEW N \in SUBSET Nat, 0 \in N, \A n \in N : n + 1 \in N
  PROVE  N = Nat
<1> SUFFICES ASSUME Nat \ N # {} PROVE FALSE
  OBVIOUS
<1>1. PICK m \in Nat \ N : \A n \in Nat \ N : m <= n
  <2> DEFINE D == Nat \ N
  <2>1. D \in SUBSET Nat /\ D # {}
    OBVIOUS
  <2> QED BY <2>1, NatMin
<1>2. m # 0 /\ m - 1 \in Nat /\ m - 1 \in N
  BY <1>1
<1> QED BY <1>1, <1>2

\* What is at some positions of a sequence is a sequence of the same rows.
LEMMA AtType ==
  ASSUME NEW R, NEW s \in Seq(R), NEW I
  PROVE  At(s, I) \in Seq(R)
<1> DEFINE Taken(g, N) == g = [n \in 0..N |-> IF n = 0 THEN <<>>
                                              ELSE IF n \in I THEN Append(g[n - 1], s[n]) ELSE g[n - 1]]
           len == Len(s)
<1>1. \E g : Taken(g, len)
  <2> DEFINE M == {N \in Nat : \E g : Taken(g, N)}
  <2>1. 0 \in M
    <3>1. Taken([n \in 0..0 |-> <<>>], 0)
      OBVIOUS
    <3> QED BY <3>1
  <2>2. ASSUME NEW N \in M PROVE N + 1 \in M
    <3>1. PICK g : Taken(g, N)
      OBVIOUS
    <3> DEFINE h == [n \in 0 .. N + 1 |->
                       IF n <= N THEN g[n] ELSE IF n \in I THEN Append(g[n - 1], s[n]) ELSE g[n - 1]]
    <3>2. \A n \in 0 .. N + 1 : n # 0 => h[n - 1] = g[n - 1]
      OBVIOUS
    <3>3. \A n \in 0 .. N + 1 : h[n] = IF n = 0 THEN <<>>
                                       ELSE IF n \in I THEN Append(h[n - 1], s[n]) ELSE h[n - 1]
      <4> SUFFICES ASSUME NEW n \in 0 .. N + 1
                   PROVE  h[n] = IF n = 0 THEN <<>>
                                 ELSE IF n \in I THEN Append(h[n - 1], s[n]) ELSE h[n - 1]
        OBVIOUS
      <4>1. CASE n <= N
        <5>1. n \in 0..N
          BY <4>1
        <5>2. h[n] = g[n]
          BY <4>1
        <5>3. g[n] = IF n = 0 THEN <<>> ELSE IF n \in I THEN Append(g[n - 1], s[n]) ELSE g[n - 1]
          BY <3>1, <5>1
        <5> HIDE DEF h
        <5> QED BY <5>2, <5>3, <3>2
      <4>2. CASE ~(n <= N)
        <5>1. n # 0 /\ h[n] = IF n \in I THEN Append(g[n - 1], s[n]) ELSE g[n - 1]
          BY <4>2
        <5> HIDE DEF h
        <5> QED BY <5>1, <3>2
      <4> QED BY <4>1, <4>2
    <3>4. Taken(h, N + 1)
      <4> DEFINE k == [n \in 0 .. N + 1 |-> IF n = 0 THEN <<>>
                                            ELSE IF n \in I THEN Append(h[n - 1], s[n]) ELSE h[n - 1]]
      <4>1. h = [n \in 0 .. N + 1 |-> h[n]]
        OBVIOUS
      <4> HIDE DEF h
      <4> QED BY <3>3, <4>1
    <3> HIDE DEF h, Taken
    <3> QED BY <3>4
  <2> HIDE DEF Taken
  <2>3. M \in SUBSET Nat
    OBVIOUS
  <2> HIDE DEF M
  <2>4. M = Nat
    BY <2>1, <2>2, <2>3, NatInd
  <2>5. len \in M
    BY <2>4
  <2> USE DEF M
  <2> QED BY <2>5
<1>2. ASSUME NEW g, Taken(g, len) PROVE g[len] \in Seq(R)
  <2> DEFINE M == {n \in Nat : n <= len => g[n] \in Seq(R)}
  <2>1. 0 \in M
    BY <1>2
  <2>2. ASSUME NEW n \in M PROVE n + 1 \in M
    <3>1. CASE n + 1 <= len
      <4>1. n + 1 \in 0..len /\ n + 1 # 0 /\ (n + 1) - 1 = n /\ g[n] \in Seq(R) /\ s[n + 1] \in R
        BY <3>1
      <4>2. g[n + 1] = IF n + 1 \in I THEN Append(g[n], s[n + 1]) ELSE g[n]
        BY <4>1, <1>2
      <4>3. g[n + 1] \in Seq(R)
        BY <4>1, <4>2
      <4> HIDE DEF Taken
      <4> QED BY <4>3
    <3> HIDE DEF Taken
    <3> QED BY <3>1
  <2> HIDE DEF Taken
  <2>3. M \in SUBSET Nat
    OBVIOUS
  <2> HIDE DEF M
  <2>4. M = Nat
    BY <2>1, <2>2, <2>3, NatInd
  <2> USE DEF M
  <2> QED BY <2>4
<1>3. At(s, I) = (CHOOSE g : Taken(g, len))[len]
  BY DEF At
<1> HIDE DEF Taken
<1> QED BY <1>1, <1>2, <1>3

LEMMA FlattenType ==
  ASSUME NEW R, NEW s \in Seq(Seq(R))
  PROVE  FlattenSeq(s) \in Seq(R)
<1> DEFINE Flat(g, N) == g = [n \in 1..N |-> IF n = 1 THEN s[n] ELSE g[n - 1] \o s[n]]
           len == Len(s)
<1>1. \E g : Flat(g, len)
  <2> DEFINE M == {N \in Nat : \E g : Flat(g, N)}
  <2>1. 0 \in M
    <3>1. Flat(<<>>, 0)
      OBVIOUS
    <3> QED BY <3>1
  <2>2. ASSUME NEW N \in M PROVE N + 1 \in M
    <3>1. PICK g : Flat(g, N)
      OBVIOUS
    <3> DEFINE h == [n \in 1 .. N + 1 |->
                       IF n <= N THEN g[n] ELSE IF n = 1 THEN s[n] ELSE g[n - 1] \o s[n]]
    <3>2. \A n \in 1 .. N + 1 : n # 1 => h[n - 1] = g[n - 1]
      OBVIOUS
    <3>3. \A n \in 1 .. N + 1 : h[n] = IF n = 1 THEN s[n] ELSE h[n - 1] \o s[n]
      <4> SUFFICES ASSUME NEW n \in 1 .. N + 1
                   PROVE  h[n] = IF n = 1 THEN s[n] ELSE h[n - 1] \o s[n]
        OBVIOUS
      <4>1. CASE n <= N
        <5>1. n \in 1..N
          BY <4>1
        <5>2. h[n] = g[n]
          BY <4>1
        <5>3. g[n] = IF n = 1 THEN s[n] ELSE g[n - 1] \o s[n]
          BY <3>1, <5>1
        <5> HIDE DEF h
        <5> QED BY <5>2, <5>3, <3>2
      <4>2. CASE ~(n <= N)
        <5>1. h[n] = IF n = 1 THEN s[n] ELSE g[n - 1] \o s[n]
          BY <4>2
        <5> HIDE DEF h
        <5> QED BY <5>1, <3>2
      <4> QED BY <4>1, <4>2
    <3>4. Flat(h, N + 1)
      <4>1. h = [n \in 1 .. N + 1 |-> h[n]]
        OBVIOUS
      <4> HIDE DEF h
      <4> QED BY <3>3, <4>1
    <3> HIDE DEF h, Flat
    <3> QED BY <3>4
  <2> HIDE DEF Flat
  <2>3. M \in SUBSET Nat
    OBVIOUS
  <2> HIDE DEF M
  <2>4. M = Nat
    BY <2>1, <2>2, <2>3, NatInd
  <2>5. len \in M
    BY <2>4
  <2> USE DEF M
  <2> QED BY <2>5
<1>2. ASSUME NEW g, Flat(g, len), len # 0 PROVE g[len] \in Seq(R)
  <2> DEFINE M == {n \in Nat : n + 1 <= len => g[n + 1] \in Seq(R)}
  <2>1. 0 \in M
    <3>1. g[1] = s[1] /\ s[1] \in Seq(R)
      BY <1>2
    <3> HIDE DEF Flat
    <3> QED BY <3>1
  <2>2. ASSUME NEW n \in M PROVE n + 1 \in M
    <3>1. CASE n + 2 <= len
      <4>1. n + 2 \in 1..len /\ n + 2 # 1 /\ (n + 2) - 1 = n + 1 /\ g[n + 1] \in Seq(R) /\ s[n + 2] \in Seq(R)
        BY <3>1
      <4>2. g[n + 2] = g[n + 1] \o s[n + 2]
        BY <4>1, <1>2
      <4>3. g[n + 2] \in Seq(R)
        BY <4>1, <4>2
      <4> HIDE DEF Flat
      <4> QED BY <4>3
    <3> HIDE DEF Flat
    <3> QED BY <3>1
  <2> HIDE DEF Flat
  <2>3. M \in SUBSET Nat
    OBVIOUS
  <2> HIDE DEF M
  <2>4. M = Nat
    BY <2>1, <2>2, <2>3, NatInd
  <2>5. len - 1 \in Nat /\ (len - 1) + 1 = len
    BY <1>2
  <2>6. len - 1 \in M
    BY <2>4, <2>5
  <2> USE DEF M
  <2> QED BY <2>5, <2>6
<1>3. FlattenSeq(s) = IF len = 0 THEN s ELSE (CHOOSE g : Flat(g, len))[len]
  BY DEF FlattenSeq
<1>4. len = 0 => s \in Seq(R)
  OBVIOUS
<1> HIDE DEF Flat
<1> QED BY <1>1, <1>2, <1>3, <1>4

\* Cutting off and putting together.
LEMMA FirstNType ==
  ASSUME NEW R, NEW s \in Seq(R), NEW n \in Nat
  PROVE  /\ FirstN(s, n) \in Seq(R)
         /\ Len(FirstN(s, n)) = IF n < Len(s) THEN n ELSE Len(s)
         /\ \A i \in 1..Len(FirstN(s, n)) : FirstN(s, n)[i] = s[i]
<1> DEFINE m == IF n < Len(s) THEN n ELSE Len(s)
<1>1. m \in Nat /\ m <= Len(s)
  OBVIOUS
<1>2. /\ SubSeq(s, 1, m) \in Seq(R) /\ Len(SubSeq(s, 1, m)) = m
      /\ \A i \in 1..m : SubSeq(s, 1, m)[i] = s[i]
  <2> HIDE DEF m
  <2> QED BY <1>1
<1> QED BY <1>1, <1>2 DEF FirstN

LEMMA RangeOfTwo ==
  ASSUME NEW R, NEW s \in Seq(R), NEW t \in Seq(R)
  PROVE  Range(s \o t) = Range(s) \cup Range(t) /\ Range(s) \subseteq R
<1> DEFINE u == s \o t
<1>1. /\ u \in Seq(R) /\ Len(u) = Len(s) + Len(t) /\ Len(s) \in Nat /\ Len(t) \in Nat
      /\ DOMAIN s = 1..Len(s) /\ DOMAIN t = 1..Len(t) /\ DOMAIN u = 1..Len(u)
  OBVIOUS
<1>2. \A i \in 1..Len(s) : u[i] = s[i] /\ s[i] \in R
  OBVIOUS
<1>3. \A i \in 1..Len(t) : u[Len(s) + i] = t[i]
  OBVIOUS
<1> HIDE DEF u
<1>4. ASSUME NEW x \in Range(s) \cup Range(t) PROVE x \in Range(u)
  <2>1. CASE x \in Range(s)
    BY <2>1, <1>1, <1>2 DEF Range
  <2>2. CASE x \in Range(t)
    <3>1. PICK i \in 1..Len(t) : x = t[i]
      BY <2>2, <1>1 DEF Range
    <3>2. Len(s) + i \in DOMAIN u /\ u[Len(s) + i] = x
      BY <3>1, <1>1, <1>3
    <3> QED BY <3>2 DEF Range
  <2> QED BY <2>1, <2>2
<1>5. ASSUME NEW x \in Range(u) PROVE x \in Range(s) \cup Range(t)
  <2>1. PICK i \in 1..Len(u) : x = u[i]
    BY <1>1 DEF Range
  <2>2. CASE i <= Len(s)
    <3>1. i \in DOMAIN s /\ x = s[i]
      BY <2>1, <2>2, <1>1, <1>2
    <3> QED BY ONLY <3>1 DEF Range
  <2>3. CASE i > Len(s)
    <3>1. i - Len(s) \in DOMAIN t /\ t[i - Len(s)] = x
      <4>1. i - Len(s) \in 1..Len(t) /\ Len(s) + (i - Len(s)) = i
        BY <2>1, <2>3, <1>1
      <4> QED BY <4>1, <2>1, <1>1, <1>3
    <3> QED BY <3>1 DEF Range
  <2> QED BY <2>1, <2>2, <2>3, <1>1
<1>6. Range(s) \subseteq R
  BY <1>1, <1>2 DEF Range
<1> QED BY <1>4, <1>5, <1>6 DEF u

\* How many of a finite set are above each of its members: a numbering from 0.
Above(S, h) == {g \in S : g.rank > h.rank}
Place(S, h) == Cardinality(Above(S, h))

LEMMA Places ==
  ASSUME NEW S \in SUBSET Hits, IsFiniteSet(S)
  PROVE  /\ Cardinality(S) \in Nat
         /\ \A h \in S : Place(S, h) \in 0 .. Cardinality(S) - 1
         /\ \A g, h \in S : Place(S, g) = Place(S, h) => g = h
         /\ \A n \in 0 .. Cardinality(S) - 1 : \E h \in S : Place(S, h) = n
<1> DEFINE c == Cardinality(S)
<1>1. c \in Nat /\ \A h \in S : h.rank \in Nat
  BY FS_CardinalityType, SearchAssumption
<1>2. ASSUME NEW h \in S PROVE IsFiniteSet(Above(S, h)) /\ Place(S, h) \in Nat /\ Place(S, h) < c
  <2>1. Above(S, h) \in SUBSET S /\ h \notin Above(S, h)
    BY <1>1 DEF Above
  <2>2. IsFiniteSet(Above(S, h)) /\ Place(S, h) <= c /\ Place(S, h) # c
    BY <2>1, FS_Subset DEF Place
  <2>3. Place(S, h) \in Nat
    BY <2>2, FS_CardinalityType DEF Place
  <2> QED BY <1>1, <2>2, <2>3
<1>3. ASSUME NEW g \in S, NEW h \in S, g.rank > h.rank PROVE Place(S, g) < Place(S, h)
  <2>1. Above(S, g) \in SUBSET Above(S, h) /\ g \in Above(S, h) /\ g \notin Above(S, g)
    BY <1>1, <1>3 DEF Above
  <2>2. Place(S, g) <= Place(S, h) /\ Place(S, g) # Place(S, h)
    BY <1>2, <2>1, FS_Subset DEF Place
  <2> QED BY <1>2, <2>2
<1>4. ASSUME NEW g \in S, NEW h \in S, Place(S, g) = Place(S, h) PROVE g = h
  <2>1. ~(g.rank > h.rank) /\ ~(h.rank > g.rank)
    BY <1>2, <1>3, <1>4
  <2>2. g.rank = h.rank
    BY <1>1, <2>1
  <2> QED BY <2>2, SearchAssumption
<1> DEFINE f == [h \in S |-> Place(S, h)]
<1>5. f \in Injection(S, 0 .. c - 1)
  BY <1>1, <1>2, <1>4 DEF Injection, IsInjective
<1>6. IsFiniteSet(0 .. c - 1) /\ Cardinality(0 .. c - 1) = c
  BY <1>1, FS_Interval, SMTT(40)
<1>7. f \in Surjection(S, 0 .. c - 1)
  BY <1>5, <1>6, FS_Injection
<1>8. \A n \in 0 .. c - 1 : \E h \in S : Place(S, h) = n
  BY <1>7 DEF Surjection
<1> QED BY <1>1, <1>2, <1>4, <1>8

\* The hits best first: everything in the set, and nothing else.
LEMMA ByRankType ==
  ASSUME NEW S \in SUBSET Hits, IsFiniteSet(S)
  PROVE  ByRank(S) \in Seq(S) /\ Range(ByRank(S)) = S
<1> DEFINE c == Cardinality(S)
           f == ByRank(S)
<1>1. c \in Nat /\ DOMAIN f = 1..c
  BY Places DEF ByRank
<1>2. ASSUME NEW n \in 1..c PROVE f[n] \in S /\ Place(S, f[n]) = n - 1
  <2>1. f[n] = CHOOSE h \in S : Place(S, h) = n - 1
    BY DEF ByRank, Place, Above
  <2>2. n - 1 \in 0 .. c - 1
    BY <1>1
  <2>3. \E h \in S : Place(S, h) = n - 1
    BY <2>2, Places
  <2> QED BY <2>1, <2>3
<1>3. ASSUME NEW h \in S PROVE \E n \in 1..c : f[n] = h
  <2>1. Place(S, h) \in 0 .. c - 1
    BY Places
  <2>2. Place(S, h) + 1 \in 1..c /\ (Place(S, h) + 1) - 1 = Place(S, h)
    BY <2>1, <1>1
  <2>3. Place(S, f[Place(S, h) + 1]) = Place(S, h) /\ f[Place(S, h) + 1] \in S
    BY <1>2, <2>2
  <2> HIDE DEF f
  <2> QED BY <2>2, <2>3, Places
<1>4. f \in Seq(S)
  <2> DEFINE Pick(n) == CHOOSE h \in S : Cardinality({g \in S : g.rank > h.rank}) = n - 1
  <2>1. f = [n \in 1..Cardinality(S) |-> Pick(n)]
    BY DEF ByRank
  <2>2. \A n \in 1..c : Pick(n) \in S
    <3>1. \A n \in 1..Cardinality(S) : f[n] = Pick(n)
      BY <2>1
    <3> HIDE DEF Pick
    <3> QED BY <3>1, <1>2
  <2> HIDE DEF Pick
  <2> QED BY <1>1, <2>1, <2>2
<1>5. Range(f) = S
  <2> HIDE DEF f
  <2> QED BY <1>1, <1>2, <1>3 DEF Range
<1> QED BY <1>4, <1>5

\* What is cut off from two lists reaches into the second only past the whole first.
LEMMA FirstOfTwo ==
  ASSUME NEW R, NEW s \in Seq(R), NEW t \in Seq(R), NEW n \in Nat
  PROVE  /\ Range(FirstN(s \o t, n)) \subseteq Range(s) \cup Range(t)
         /\ \A r \in Range(FirstN(s \o t, n)) : r \notin Range(s) =>
              Range(s) \subseteq Range(FirstN(s \o t, n))
<1> DEFINE u == s \o t
           f == FirstN(u, n)
<1>1. /\ u \in Seq(R) /\ Len(u) = Len(s) + Len(t) /\ Len(s) \in Nat /\ Len(t) \in Nat
      /\ DOMAIN s = 1..Len(s) /\ \A i \in 1..Len(s) : u[i] = s[i]
  OBVIOUS
<1>2. /\ f \in Seq(R) /\ Len(f) \in Nat /\ DOMAIN f = 1..Len(f) /\ Len(f) <= Len(u)
      /\ \A i \in 1..Len(f) : f[i] = u[i]
  <2> HIDE DEF u
  <2>1. /\ f \in Seq(R) /\ Len(f) = IF n < Len(u) THEN n ELSE Len(u)
        /\ \A i \in 1..Len(f) : f[i] = u[i]
    BY <1>1, FirstNType
  <2> HIDE DEF f
  <2> QED BY <1>1, <2>1
<1>3. Range(u) = Range(s) \cup Range(t) /\ DOMAIN u = 1..Len(u)
  BY RangeOfTwo
<1> HIDE DEF u, f
<1>4. Range(f) \subseteq Range(u)
  BY <1>1, <1>2, <1>3 DEF Range
<1>5. ASSUME NEW r \in Range(f), r \notin Range(s), NEW x \in Range(s) PROVE x \in Range(f)
  <2>1. PICK i \in 1..Len(f) : r = u[i]
    BY <1>2, <1>5 DEF Range
  <2>2. i > Len(s)
    <3>1. i \in 1..Len(s) => r \in Range(s)
      BY <1>1, <2>1 DEF Range
    <3> QED BY <1>1, <1>2, <1>5, <2>1, <3>1
  <2>3. PICK j \in 1..Len(s) : x = s[j]
    BY <1>1, <1>5 DEF Range
  <2>4. j \in 1..Len(f)
    BY <1>1, <1>2, <2>1, <2>2, <2>3
  <2>5. f[j] = x
    BY <1>1, <1>2, <2>3, <2>4
  <2> QED BY <1>2, <2>4, <2>5 DEF Range
<1> QED BY <1>3, <1>4, <1>5 DEF u, f

LEMMA ReservedType ==
  ASSUME NEW best \in SUBSET Hits, IsFiniteSet(best)
  PROVE  ReservedHits(best) \in Seq(best)
<1> DEFINE Of(i) == {h \in best : h.engine = Reserved[i].engine}
           m(i) == IF Reserved[i].minimum < Topk THEN Reserved[i].minimum ELSE Topk
           parts == [i \in DOMAIN Reserved |-> FirstN(ByRank(Of(i)), m(i))]
<1>1. DOMAIN Reserved = 1..Len(Reserved) /\ Len(Reserved) \in Nat
  BY SearchAssumption
<1>2. ASSUME NEW i \in DOMAIN Reserved PROVE FirstN(ByRank(Of(i)), m(i)) \in Seq(best)
  <2>1. m(i) \in Nat
    BY SearchAssumption
  <2>2. Of(i) \in SUBSET Hits /\ IsFiniteSet(Of(i)) /\ Of(i) \subseteq best
    <3>1. Of(i) \in SUBSET best
      OBVIOUS
    <3> HIDE DEF Of
    <3> QED BY <3>1, FS_Subset
  <2> HIDE DEF m, Of
  <2>3. ByRank(Of(i)) \in Seq(Of(i))
    BY <2>2, ByRankType
  <2>4. ByRank(Of(i)) \in Seq(best)
    BY <2>2, <2>3
  <2> QED BY <2>1, <2>4, FirstNType
<1>3. parts \in Seq(Seq(best))
  <2> HIDE DEF Of, m
  <2> QED BY <1>1, <1>2
<1>4. ReservedHits(best) = FlattenSeq(parts)
  BY DEF ReservedHits
<1> HIDE DEF parts
<1> QED BY <1>3, <1>4, FlattenType

\* The hits that are within the cap of their source are as many as the cap leaves
\* room for, or all there are.
LEMMA WithinCap ==
  ASSUME NEW T \in SUBSET Hits, IsFiniteSet(T), NEW m \in Int
  PROVE  /\ 0 <= m => Cardinality({h \in T : Place(T, h) < m}) <= m
         /\ \A g \in T : Place(T, g) >= m => Cardinality({h \in T : Place(T, h) < m}) >= m
<1> DEFINE D == {h \in T : Place(T, h) < m}
           c == Cardinality(T)
           f == [h \in D |-> Place(T, h)]
<1>1. /\ c \in Nat
      /\ \A h \in T : Place(T, h) \in 0 .. c - 1
      /\ \A g, h \in T : Place(T, g) = Place(T, h) => g = h
      /\ \A n \in 0 .. c - 1 : \E h \in T : Place(T, h) = n
  BY Places
<1>2. IsFiniteSet(D) /\ Cardinality(D) \in Nat
  <2>1. D \in SUBSET T
    OBVIOUS
  <2> HIDE DEF D
  <2> QED BY <2>1, FS_Subset, FS_CardinalityType
<1>3. f \in Injection(D, 0 .. m - 1)
  BY <1>1 DEF Injection, IsInjective
<1>4. IsFiniteSet(0 .. m - 1) /\ Cardinality(0 .. m - 1) = IF 0 > m - 1 THEN 0 ELSE m - 1 - 0 + 1
  BY FS_Interval
<1>5. Cardinality(D) <= Cardinality(0 .. m - 1)
  <2> HIDE DEF D, f
  <2> QED BY <1>3, <1>4, FS_Injection
<1>6. ASSUME NEW g \in T, Place(T, g) >= m PROVE Cardinality(D) >= m
  <2>1. \A n \in 0 .. m - 1 : \E h \in D : f[h] = n
    <3> SUFFICES ASSUME NEW n \in 0 .. m - 1 PROVE \E h \in D : f[h] = n
      OBVIOUS
    <3>1. n \in 0 .. c - 1 /\ n < m
      BY <1>1, <1>6
    <3>2. PICK h \in T : Place(T, h) = n
      BY <1>1, <3>1
    <3> QED BY <3>1, <3>2
  <2>2. f \in Surjection(D, 0 .. m - 1)
    <3> HIDE DEF D
    <3> QED BY <1>3, <2>1 DEF Surjection, Injection
  <2>3. Cardinality(0 .. m - 1) <= Cardinality(D)
    <3> HIDE DEF D, f
    <3> QED BY <1>2, <2>2, FS_Surjection
  <2> HIDE DEF D
  <2> QED BY <1>2, <1>4, <2>3
<1> HIDE DEF D
<1>7. 0 <= m => Cardinality(D) <= m
  BY <1>2, <1>4, <1>5
<1> QED BY <1>6, <1>7 DEF D

-----------------------------------------------------------------------------
(***************************************************************************)
(* The selection of the search                                             *)
(***************************************************************************)
\* The three groups a selection is made of.
LEMMA SelectedParts ==
  ASSUME NEW best \in SUBSET Hits, IsFiniteSet(best),
         NEW kept, kept = ReservedHits(best),
         NEW K, K = Range(kept),
         NEW D, D = Diverse(best, K),
         NEW E, E = best \ (K \cup D)
  PROVE  /\ Selected(best) \in Seq(best) /\ Len(Selected(best)) <= Topk
         /\ K \in SUBSET best /\ D \in SUBSET (best \ K)
         /\ Range(Selected(best)) \subseteq K \cup D \cup E
         /\ \A r \in Range(Selected(best)) : r \in E => K \cup D \subseteq Range(Selected(best))
<1>1. kept \in Seq(best) /\ K \in SUBSET best
  <2>1. kept \in Seq(best)
    BY ReservedType
  <2>2. Range(kept) \subseteq best
    BY <2>1, RangeOfTwo
  <2> QED BY <2>1, <2>2
<1>2. D \in SUBSET (best \ K) /\ E \in SUBSET best
  BY DEF Diverse
<1>3. IsFiniteSet(D) /\ IsFiniteSet(E)
  <2>1. D \in SUBSET best
    BY <1>2
  <2> QED BY <1>2, <2>1, FS_Subset
<1>4. /\ ByRank(D) \in Seq(D) /\ Range(ByRank(D)) = D
      /\ ByRank(E) \in Seq(E) /\ Range(ByRank(E)) = E
  <2>1. D \in SUBSET Hits /\ E \in SUBSET Hits
    BY <1>2
  <2> QED BY <1>3, <2>1, ByRankType
<1> DEFINE s == kept \o ByRank(D)
           t == ByRank(E)
<1>5. s \in Seq(best) /\ t \in Seq(best) /\ Range(s) = K \cup D /\ Range(t) = E
  <2>1. ByRank(D) \in Seq(best) /\ t \in Seq(best)
    BY <1>2, <1>4
  <2>2. s \in Seq(best)
    BY <1>1, <2>1
  <2>3. Range(s) = Range(kept) \cup Range(ByRank(D))
    BY <1>1, <2>1, RangeOfTwo
  <2> QED BY <1>4, <2>1, <2>2, <2>3
<1>6. Topk \in Nat
  BY SearchAssumption
<1>7. Selected(best) = FirstN(s \o t, Topk)
  BY DEF Selected
<1> HIDE DEF s, t
<1>8. Selected(best) \in Seq(best) /\ Len(Selected(best)) <= Topk
  <2>1. s \o t \in Seq(best)
    BY <1>5
  <2>2. /\ FirstN(s \o t, Topk) \in Seq(best)
        /\ Len(FirstN(s \o t, Topk)) = IF Topk < Len(s \o t) THEN Topk ELSE Len(s \o t)
    BY <1>6, <2>1, FirstNType
  <2>3. Len(s \o t) \in Nat
    BY <2>1
  <2> QED BY <1>6, <1>7, <2>2, <2>3
<1>9. /\ Range(Selected(best)) \subseteq Range(s) \cup Range(t)
      /\ \A r \in Range(Selected(best)) : r \notin Range(s) => Range(s) \subseteq Range(Selected(best))
  BY <1>5, <1>6, <1>7, FirstOfTwo
<1> QED BY <1>1, <1>2, <1>5, <1>8, <1>9

LEMMA Disjoint ==
  ASSUME NEW S, NEW T, IsFiniteSet(S), IsFiniteSet(T), S \cap T = {}
  PROVE  IsFiniteSet(S \cup T) /\ Cardinality(S \cup T) = Cardinality(S) + Cardinality(T)
<1>1. /\ IsFiniteSet(S \cup T)
      /\ Cardinality(S \cup T) = Cardinality(S) + Cardinality(T) - Cardinality(S \cap T)
  BY FS_Union
<1>2. Cardinality(S \cap T) = 0 /\ Cardinality(S) \in Nat /\ Cardinality(T) \in Nat
  BY FS_EmptySet, FS_CardinalityType
<1> QED BY <1>1, <1>2

\* Whoever is over its cap had room left by all the others that were within theirs.
LEMMA FairSelection ==
  ASSUME NEW best \in SUBSET Hits, IsFiniteSet(best), hits = Selected(best),
         NEW h \in Range(hits), CountOf(h.source) > Cap(h.source), h \notin Range(ReservedHits(best)),
         NEW g \in best \ Range(hits)
  PROVE  CountOf(g.source) >= Cap(g.source)
<1> DEFINE H == Range(hits)
           K == Range(ReservedHits(best))
           D == Diverse(best, K)
           E == best \ (K \cup D)
           Room(s) == Cap(s) - Cardinality(OfSource(K, s))
           T(s) == OfSource(best \ K, s)
<1>1. /\ hits \in Seq(best) /\ K \in SUBSET best /\ D \in SUBSET (best \ K)
      /\ H \subseteq K \cup D \cup E
      /\ \A r \in H : r \in E => K \cup D \subseteq H
  <2> DEFINE kept == ReservedHits(best)
  <2>1. K = Range(kept) /\ D = Diverse(best, K) /\ E = best \ (K \cup D) /\ H = Range(Selected(best))
    OBVIOUS
  <2>2. kept = ReservedHits(best)
    OBVIOUS
  <2> HIDE DEF K, D, E, H, kept
  <2>3. /\ Selected(best) \in Seq(best) /\ K \in SUBSET best /\ D \in SUBSET (best \ K)
        /\ Range(Selected(best)) \subseteq K \cup D \cup E
        /\ \A r \in Range(Selected(best)) : r \in E => K \cup D \subseteq Range(Selected(best))
    BY <2>1, <2>2, SelectedParts
  <2> QED BY <2>1, <2>3
<1>2. H \in SUBSET best /\ IsFiniteSet(H) /\ IsFiniteSet(K) /\ IsFiniteSet(D)
  <2>1. H \in SUBSET best /\ D \in SUBSET best
    <3> HIDE DEF D
    <3> QED BY <1>1
  <2> QED BY <1>1, <2>1, FS_Subset
<1>3. ASSUME NEW s, NEW X, IsFiniteSet(X)
      PROVE  IsFiniteSet(OfSource(X, s)) /\ Cardinality(OfSource(X, s)) \in Nat
  <2>1. OfSource(X, s) \in SUBSET X
    BY DEF OfSource
  <2> QED BY <1>3, <2>1, FS_Subset, FS_CardinalityType
<1>4. h \in best /\ Cap(h.source) \in Nat /\ Cap(g.source) \in Nat
  BY <1>2, SearchAssumption
<1>5. ASSUME NEW x \in best, NEW s, s = x.source
      PROVE  /\ T(s) \in SUBSET Hits /\ IsFiniteSet(T(s)) /\ Room(s) \in Int
             /\ Cap(s) \in Nat /\ Cardinality(OfSource(K, s)) \in Nat
             /\ OfSource(D, s) = {y \in T(s) : Place(T(s), y) < Room(s)}
  <2>1. T(s) \in SUBSET Hits /\ IsFiniteSet(T(s))
    <3>1. T(s) \in SUBSET best
      BY DEF OfSource
    <3> HIDE DEF T
    <3> QED BY <3>1, FS_Subset
  <2>2. Cap(s) \in Nat /\ Cardinality(OfSource(K, s)) \in Nat /\ Room(s) \in Int
    <3>1. Cap(s) \in Nat /\ Cardinality(OfSource(K, s)) \in Nat
      BY <1>2, <1>3, <1>5, SearchAssumption
    <3> QED BY <3>1
  <2>3. ASSUME NEW y \in best \ K, y.source = s
        PROVE  y \in D <=> Place(T(s), y) < Room(s)
    <3>1. y \in D <=> Cardinality(OfSource(K, s)) + Place(T(s), y) < Cap(s)
      BY <2>3 DEF Diverse, Place, Above
    <3>2. Place(T(s), y) \in Nat
      <4>1. y \in T(s)
        BY <2>3 DEF OfSource
      <4> HIDE DEF T
      <4>2. Place(T(s), y) \in 0 .. Cardinality(T(s)) - 1
        BY <2>1, <4>1, Places
      <4> QED BY <4>2
    <3> HIDE DEF D, T
    <3> QED BY <2>2, <3>1, <3>2
  <2>4. OfSource(D, s) = {y \in T(s) : Place(T(s), y) < Room(s)}
    <3>1. \A y : y \in T(s) <=> y \in best \ K /\ y.source = s
      BY DEF OfSource
    <3>2. \A y : y \in OfSource(D, s) <=> y \in D /\ y.source = s
      BY DEF OfSource
    <3> HIDE DEF D, T, Room
    <3> QED BY <1>1, <2>3, <3>1, <3>2
  <2> QED BY <2>1, <2>2, <2>4
\* Something was filled up with what no longer was within its cap ...
<1>6. PICK r \in H : r \in E
  <2> SUFFICES ASSUME \A r \in H : r \notin E PROVE FALSE
    OBVIOUS
  <2> DEFINE s == h.source
  <2>1. H \subseteq K \cup D /\ h \in D
    BY <1>1
  <2>2. OfSource(H, s) \in SUBSET (OfSource(K, s) \cup OfSource(D, s))
    BY <2>1 DEF OfSource
  <2>3. /\ IsFiniteSet(OfSource(K, s)) /\ IsFiniteSet(OfSource(D, s)) /\ Cardinality(OfSource(H, s)) \in Nat
        /\ Cardinality(OfSource(K, s)) \in Nat /\ Cardinality(OfSource(D, s)) \in Nat
    BY <1>2, <1>3
  <2>4. OfSource(K, s) \cap OfSource(D, s) = {}
    BY <1>1 DEF OfSource
  <2>5. Cardinality(OfSource(K, s) \cup OfSource(D, s))
          = Cardinality(OfSource(K, s)) + Cardinality(OfSource(D, s))
    <3> HIDE DEF K, D, s
    <3> QED BY <2>3, <2>4, Disjoint
  <2>6. Cardinality(OfSource(H, s)) <= Cardinality(OfSource(K, s)) + Cardinality(OfSource(D, s))
    <3> HIDE DEF K, D, H, s
    <3>1. IsFiniteSet(OfSource(K, s) \cup OfSource(D, s))
      BY <2>3, <2>4, Disjoint
    <3> QED BY <2>2, <2>5, <3>1, FS_Subset
  <2>7. h \in OfSource(D, s)
    BY <2>1 DEF OfSource
  <2>8. Cardinality(OfSource(D, s)) <= Room(s)
    <3>1. /\ T(s) \in SUBSET Hits /\ IsFiniteSet(T(s)) /\ Room(s) \in Int
          /\ OfSource(D, s) = {y \in T(s) : Place(T(s), y) < Room(s)}
      BY <1>4, <1>5
    <3> HIDE DEF T, Room, D
    <3>2. h \in T(s) /\ Place(T(s), h) < Room(s)
      BY <2>7, <3>1
    <3>3. Place(T(s), h) \in 0 .. Cardinality(T(s)) - 1 /\ Cardinality(T(s)) \in Nat
      BY <3>1, <3>2, Places
    <3>4. 0 <= Room(s)
      BY <3>1, <3>2, <3>3
    <3>5. 0 <= Room(s) => Cardinality({y \in T(s) : Place(T(s), y) < Room(s)}) <= Room(s)
      BY <3>1, WithinCap
    <3> QED BY <3>1, <3>4, <3>5
  <2>9. Cardinality(OfSource(H, s)) <= Cap(s)
    <3>1. Room(s) = Cap(s) - Cardinality(OfSource(K, s)) /\ Cap(s) \in Nat
      BY <1>4
    <3> HIDE DEF Room, D, K, H
    <3> QED BY <2>3, <2>6, <2>8, <3>1
  <2>10. CountOf(s) > Cap(s) /\ CountOf(s) = Cardinality(OfSource(H, s))
    BY DEF CountOf
  <2> HIDE DEF s, H
  <2> QED BY <1>4, <2>3, <2>9, <2>10 DEF s
\* ... so all that was within its cap is there, and what is not exceeds the cap.
<1>7. K \cup D \subseteq H /\ g \notin K /\ g \notin D
  BY <1>1, <1>6
<1> DEFINE s == g.source
<1>8. Cardinality(OfSource(K, s)) + Cardinality(OfSource(D, s)) >= Cap(s)
  <2>1. /\ T(s) \in SUBSET Hits /\ IsFiniteSet(T(s)) /\ Room(s) \in Int
        /\ OfSource(D, s) = {y \in T(s) : Place(T(s), y) < Room(s)}
        /\ Cap(s) \in Nat /\ Cardinality(OfSource(K, s)) \in Nat
    BY <1>5
  <2>2. g \in T(s) /\ g \notin OfSource(D, s) /\ Room(s) = Cap(s) - Cardinality(OfSource(K, s))
    BY <1>7 DEF OfSource
  <2>3. Cardinality(OfSource(D, s)) \in Nat
    BY <1>2, <1>3
  <2> HIDE DEF T, Room, D
  <2>4. Place(T(s), g) \in 0 .. Cardinality(T(s)) - 1 /\ Cardinality(T(s)) \in Nat
    BY <2>1, <2>2, Places
  <2>5. Place(T(s), g) >= Room(s)
    BY <2>1, <2>2, <2>4
  <2>6. Cardinality({y \in T(s) : Place(T(s), y) < Room(s)}) >= Room(s)
    BY <2>1, <2>2, <2>5, WithinCap
  <2>7. Cardinality(OfSource(D, s)) >= Room(s)
    BY <2>1, <2>6
  <2> HIDE DEF K, s
  <2> QED BY <2>1, <2>2, <2>3, <2>7
<1>9. Cardinality(OfSource(K, s)) + Cardinality(OfSource(D, s)) <= Cardinality(OfSource(H, s))
  <2>1. OfSource(K, s) \cap OfSource(D, s) = {} /\ OfSource(K, s) \cup OfSource(D, s) \in SUBSET OfSource(H, s)
    BY <1>1, <1>7 DEF OfSource
  <2>2. /\ IsFiniteSet(OfSource(K, s)) /\ IsFiniteSet(OfSource(D, s)) /\ IsFiniteSet(OfSource(H, s))
        /\ Cardinality(OfSource(K, s)) \in Nat /\ Cardinality(OfSource(D, s)) \in Nat
    BY <1>2, <1>3
  <2> HIDE DEF K, D, H, s
  <2>3. Cardinality(OfSource(K, s) \cup OfSource(D, s))
          = Cardinality(OfSource(K, s)) + Cardinality(OfSource(D, s))
    BY <2>1, <2>2, Disjoint
  <2>4. Cardinality(OfSource(K, s) \cup OfSource(D, s)) <= Cardinality(OfSource(H, s))
    BY <2>1, <2>2, FS_Subset
  <2> QED BY <2>3, <2>4
<1>10. CountOf(s) = Cardinality(OfSource(H, s))
  BY DEF CountOf
<1>11. /\ Cardinality(OfSource(K, s)) \in Nat /\ Cardinality(OfSource(D, s)) \in Nat
       /\ Cardinality(OfSource(H, s)) \in Nat /\ Cap(s) \in Nat
  BY <1>2, <1>3, <1>4
<1>12. CountOf(s) >= Cap(s)
  <2> HIDE DEF K, D, H, s
  <2> QED BY <1>8, <1>9, <1>10, <1>11
<1> QED BY <1>12

-----------------------------------------------------------------------------
(***************************************************************************)
(* The conversation                                                        *)
(***************************************************************************)
Messages == [kind : {"assistant", "tool"}, n : Nat]
Kinds == {"none", "silent", "reported", "tool_error", "tool_timeout", "invalid_arguments", "unknown_tool"}
Observations == [error : Kinds, rows : Seq(Rows)]

AnsweredBy(i) == i + messages[i].n
Turns == {i \in DOMAIN messages : messages[i].kind = "assistant"}

LoopTypes ==
  /\ pending \in Seq(Calls) /\ attempt \in Nat
  /\ messages \in Seq(Messages) /\ observations \in Seq(Observations)
  /\ attempt > 0 => status = "running" /\ pending # <<>>

\* A turn of the model is followed by its answers, as far as they are given, and
\* these by the next turn; calls still pending are those of the last turn.
Dialogue ==
  /\ \A i \in Turns :
       /\ AnsweredBy(i) <= Len(messages) + Len(pending)
       /\ \A j \in i + 1 .. AnsweredBy(i) : j <= Len(messages) => messages[j].kind = "tool"
       /\ AnsweredBy(i) < Len(messages) => messages[AnsweredBy(i) + 1].kind = "assistant"
  /\ pending # <<>> => \E i \in Turns : AnsweredBy(i) = Len(messages) + Len(pending)

\* The turns of a longer conversation that lie in the old one are the old ones.
LEMMA LongerConversation ==
  ASSUME messages \in Seq(Messages), NEW m \in Messages, messages' = Append(messages, m)
  PROVE  /\ messages' \in Seq(Messages)
         /\ Len(messages) \in Nat /\ Len(messages') = Len(messages) + 1
         /\ DOMAIN messages = 1 .. Len(messages) /\ DOMAIN messages' = 1 .. Len(messages) + 1
         /\ \A j \in 1 .. Len(messages) : messages'[j] = messages[j] /\ messages[j] \in Messages
         /\ messages'[Len(messages) + 1] = m
         /\ \A i \in 1 .. Len(messages) :
              /\ i \in Turns' <=> i \in Turns
              /\ AnsweredBy(i)' = AnsweredBy(i) /\ AnsweredBy(i) \in Nat
<1>1. /\ messages' \in Seq(Messages)
      /\ Len(messages) \in Nat /\ Len(messages') = Len(messages) + 1
      /\ DOMAIN messages = 1 .. Len(messages) /\ DOMAIN messages' = 1 .. Len(messages) + 1
      /\ \A j \in 1 .. Len(messages) : messages'[j] = messages[j] /\ messages[j] \in Messages
      /\ messages'[Len(messages) + 1] = m
  OBVIOUS
<1>2. ASSUME NEW i \in 1 .. Len(messages)
      PROVE  /\ i \in Turns' <=> i \in Turns
             /\ AnsweredBy(i)' = AnsweredBy(i) /\ AnsweredBy(i) \in Nat
  <2>1. messages'[i] = messages[i] /\ messages[i].n \in Nat /\ i \in Nat
    BY <1>1 DEF Messages
  <2>2. i \in Turns' <=> i \in Turns
    BY <1>1, <2>1 DEF Turns
  <2>3. AnsweredBy(i)' = i + messages'[i].n
    BY DEF AnsweredBy
  <2> QED BY <2>1, <2>2, <2>3 DEF AnsweredBy
<1> QED BY <1>1, <1>2

ToldError == \E i \in DOMAIN observations : observations[i].error \notin Untold
ToldRound ==
  /\ hadError \in BOOLEAN
  /\ status = "running" => (hadError <=> ToldError)
  /\ status \in {"completed", "degraded"} /\ messages # <<>> => (status = "degraded" <=> ToldError)

Round == LoopTypes /\ Dialogue /\ ToldRound

LEMMA RoundInit == Init => Round
<1> SUFFICES ASSUME Init PROVE Round
  OBVIOUS
<1>1. /\ pending = <<>> /\ attempt = 0 /\ messages = <<>> /\ observations = <<>>
      /\ hadError = FALSE /\ status = "running"
  BY DEF Init, ReactInit
<1>2. LoopTypes /\ Dialogue
  BY <1>1 DEF LoopTypes, Dialogue, Turns
<1>3. ~ToldError
  BY <1>1 DEF ToldError
<1> QED BY <1>1, <1>2, <1>3 DEF Round, ToldRound

\* A new turn starts where the answers to the last one end.
LEMMA TurnStep == ASSUME Round, ModelCalls PROVE Round'
<1> USE DEF Round, LoopTypes
<1>1. PICK batch \in Batches : pending' = batch /\ messages' = Append(messages, Asked(Len(batch)))
  BY DEF ModelCalls
<1>2. batch \in Seq(Calls) /\ batch # <<>> /\ Len(batch) \in Nat \ {0}
  <2>1. PICK n \in 0..MaxBatch : batch \in [1..n -> Calls]
    BY <1>1 DEF Batches, BoundedSeq, SeqOf
  <2>2. n \in Nat /\ batch \in Seq(Calls) /\ batch # <<>>
    BY <1>1, <2>1, ReactAssumption DEF Batches
  <2> QED BY <2>2
<1>3. pending = <<>> /\ status = "running" /\ UNCHANGED <<attempt, hadError, observations, status>>
  BY DEF ModelCalls, Thinking
<1>0. PICK len \in Nat : len = Len(messages)
  OBVIOUS
<1>4. /\ messages' \in Seq(Messages) /\ len \in Nat /\ Len(messages') = len + 1
      /\ DOMAIN messages = 1..len /\ DOMAIN messages' = 1 .. len + 1
      /\ \A j \in 1..len : messages'[j] = messages[j] /\ messages[j] \in Messages
      /\ messages'[len + 1].kind = "assistant" /\ messages'[len + 1].n = Len(batch)
      /\ \A i \in 1..len : /\ i \in Turns' <=> i \in Turns
                           /\ AnsweredBy(i)' = AnsweredBy(i) /\ AnsweredBy(i) \in Nat
  <2>1. Asked(Len(batch)) \in Messages
    BY <1>2 DEF Asked, Messages
  <2> QED BY <1>0, <1>1, <2>1, LongerConversation, SMTT(40) DEF Asked
<1>5. LoopTypes'
  BY <1>1, <1>2, <1>3, <1>4
<1>6. Dialogue'
  <2>1. ASSUME NEW i \in Turns'
        PROVE  /\ AnsweredBy(i)' <= len + 1 + Len(batch)
               /\ \A j \in i + 1 .. AnsweredBy(i)' : j <= len + 1 => messages'[j].kind = "tool"
               /\ AnsweredBy(i)' < len + 1 => messages'[AnsweredBy(i)' + 1].kind = "assistant"
    <3>1. CASE i = len + 1
      <4>1. AnsweredBy(i)' = i + Len(batch)
        BY <3>1, <1>4 DEF AnsweredBy
      <4> QED BY <4>1, <3>1, <1>2, <1>4
    <3>2. CASE i \in 1..len
      <4>1. i \in Turns /\ AnsweredBy(i)' = AnsweredBy(i) /\ AnsweredBy(i) \in Nat
        BY <2>1, <3>2, <1>4
      <4>2. /\ AnsweredBy(i) <= len
            /\ \A j \in i + 1 .. AnsweredBy(i) : j <= len => messages[j].kind = "tool"
            /\ AnsweredBy(i) < len => messages[AnsweredBy(i) + 1].kind = "assistant"
        BY <4>1, <1>0, <1>3, <1>4 DEF Dialogue
      <4>3. \A j \in i + 1 .. AnsweredBy(i) : j <= len + 1 => messages'[j].kind = "tool"
        <5> SUFFICES ASSUME NEW j \in i + 1 .. AnsweredBy(i), j <= len + 1
                     PROVE  messages'[j].kind = "tool"
          OBVIOUS
        <5>1. j \in 1..len
          <6> HIDE DEF Round, LoopTypes
          <6> QED BY <4>1, <4>2, <3>2
        <5>2. messages'[j] = messages[j]
          BY <5>1, <1>4
        <5>3. messages[j].kind = "tool"
          BY <5>1, <4>2
        <5> QED BY <5>2, <5>3
      <4>4. AnsweredBy(i) < len + 1 => messages'[AnsweredBy(i) + 1].kind = "assistant"
        <5>1. CASE AnsweredBy(i) = len
          BY <5>1, <1>4
        <5>2. CASE AnsweredBy(i) < len
          <6>1. AnsweredBy(i) + 1 \in 1..len
            BY <5>2, <4>1
          <6> QED BY <5>2, <6>1, <4>2, <1>4
        <5> QED BY <5>1, <5>2, <4>1, <4>2
      <4> QED BY <4>1, <4>2, <4>3, <4>4, <1>2
    <3> QED BY <2>1, <3>1, <3>2, <1>4 DEF Turns
  <2>2. len + 1 \in Turns' /\ messages'[len + 1].n = Len(batch)
    BY <1>4 DEF Turns
  <2>3. \E i \in Turns' : AnsweredBy(i)' = len + 1 + Len(batch)
    BY <1>4, <2>2 DEF AnsweredBy
  <2> QED BY <2>1, <2>2, <2>3, <1>1, <1>4, ZenonT(40) DEF Dialogue
<1>7. ToldRound'
  BY <1>3 DEF ToldRound, ToldError
<1> QED BY <1>5, <1>6, <1>7

\* An observation answers the next pending call.
LEMMA ObserveStep ==
  ASSUME Round, status = "running", pending # <<>>, NEW o \in Observations, Observe(o),
         UNCHANGED status
  PROVE  Round'
<1> USE DEF Round, LoopTypes
<1>0. PICK len \in Nat, owed \in Nat : len = Len(messages) /\ owed = Len(pending)
  OBVIOUS
<1>1. /\ messages' \in Seq(Messages) /\ len \in Nat /\ Len(messages') = len + 1
      /\ DOMAIN messages = 1..len /\ DOMAIN messages' = 1 .. len + 1
      /\ \A j \in 1..len : messages'[j] = messages[j] /\ messages[j] \in Messages
      /\ messages'[len + 1].kind = "tool"
      /\ \A i \in 1..len : /\ i \in Turns' <=> i \in Turns
                           /\ AnsweredBy(i)' = AnsweredBy(i) /\ AnsweredBy(i) \in Nat
  <2> DEFINE n == Len(observations) + 1
  <2>1. messages' = Append(messages, Told(n)) /\ Told(n) \in Messages
    BY DEF Observe, Answered, Told, Messages
  <2> QED BY <1>0, <2>1, LongerConversation DEF Told
<1>2. pending' \in Seq(Calls) /\ owed \in Nat \ {0} /\ Len(pending') = owed - 1
  BY <1>0 DEF Observe
<1>3. /\ observations' \in Seq(Observations) /\ Len(observations') = Len(observations) + 1
      /\ \A j \in 1..Len(observations) : observations'[j] = observations[j]
      /\ observations'[Len(observations) + 1] = o
      /\ hadError' = (hadError \/ o.error \notin Untold)
  BY DEF Observe, Spoiled
<1>4. attempt' = 0
  BY DEF Observe
<1>5. LoopTypes'
  BY <1>1, <1>2, <1>3, <1>4
<1>6. Dialogue'
  <2>1. PICK c \in Turns : AnsweredBy(c) = len + owed
    BY <1>0 DEF Dialogue
  <2>2. ASSUME NEW i \in Turns'
        PROVE  /\ i \in Turns /\ AnsweredBy(i)' = AnsweredBy(i)
               /\ AnsweredBy(i) <= len + owed
               /\ \A j \in i + 1 .. AnsweredBy(i) : j <= len + 1 => messages'[j].kind = "tool"
               /\ AnsweredBy(i) < len + 1 => messages'[AnsweredBy(i) + 1].kind = "assistant"
    <3>1. i \in 1..len /\ i \in Turns /\ AnsweredBy(i)' = AnsweredBy(i) /\ AnsweredBy(i) \in Nat
      <4>1. i \in 1 .. len + 1 /\ i # len + 1
        BY <2>2, <1>1 DEF Turns
      <4>2. i \in 1..len
        BY <4>1, <1>1
      <4> QED BY <4>2, <2>2, <1>1
    <3>2. /\ AnsweredBy(i) <= len + owed
          /\ \A j \in i + 1 .. AnsweredBy(i) : j <= len => messages[j].kind = "tool"
          /\ AnsweredBy(i) < len => messages[AnsweredBy(i) + 1].kind = "assistant"
      BY <3>1, <1>0 DEF Dialogue
    <3>3. AnsweredBy(i) # len
      <4>1. c \in 1..len /\ i \in 1..len /\ messages[c].kind = "assistant" /\ messages[i].kind = "assistant"
        BY <3>1, <1>1 DEF Turns
      <4>2. CASE i < c
        BY <4>1, <4>2, <3>2, SMTT(40)
      <4>3. CASE c < i
        <5>1. i \in c + 1 .. AnsweredBy(c)
          BY <4>1, <4>3, <2>1, <1>2
        <5> QED BY <5>1, <4>1, <1>0 DEF Dialogue
      <4>4. CASE c = i
        BY <4>4, <2>1, <1>2
      <4> QED BY <4>1, <4>2, <4>3, <4>4
    <3>4. \A j \in i + 1 .. AnsweredBy(i) : j <= len + 1 => messages'[j].kind = "tool"
      <4> SUFFICES ASSUME NEW j \in i + 1 .. AnsweredBy(i), j <= len + 1
                   PROVE  messages'[j].kind = "tool"
        OBVIOUS
      <4>1. CASE j = len + 1
        BY <4>1, <1>1
      <4>2. CASE j <= len
        <5>1. j \in 1..len
          <6> HIDE DEF Round, LoopTypes
          <6> QED BY <4>2, <3>1
        <5>2. messages'[j] = messages[j]
          BY <5>1, <1>1
        <5> QED BY <4>2, <5>2, <3>2
      <4> QED
        <5> HIDE DEF Round, LoopTypes
        <5> QED BY <4>1, <4>2, <3>1
    <3>5. AnsweredBy(i) < len + 1 => messages'[AnsweredBy(i) + 1].kind = "assistant"
      <4> SUFFICES ASSUME AnsweredBy(i) < len + 1 PROVE messages'[AnsweredBy(i) + 1].kind = "assistant"
        OBVIOUS
      <4>1. AnsweredBy(i) < len /\ AnsweredBy(i) + 1 \in 1..len
        BY <3>1, <3>3, <1>1, SMTT(40)
      <4> QED BY <4>1, <3>2, <1>1
    <3> QED BY <3>1, <3>2, <3>4, <3>5
  <2>3. \A i \in Turns' :
          /\ AnsweredBy(i)' <= Len(messages') + Len(pending')
          /\ \A j \in i + 1 .. AnsweredBy(i)' : j <= Len(messages') => messages'[j].kind = "tool"
          /\ AnsweredBy(i)' < Len(messages') => messages'[AnsweredBy(i)' + 1].kind = "assistant"
    BY <2>2, <1>1, <1>2
  <2>4. c \in Turns' /\ AnsweredBy(c)' = Len(messages') + Len(pending')
    <3>1. c \in 1..len
      BY <1>1 DEF Turns
    <3> QED BY <3>1, <2>1, <1>1, <1>2
  <2> QED BY <2>3, <2>4 DEF Dialogue
<1>7. ToldRound'
  <2>1. DOMAIN observations' = DOMAIN observations \cup {Len(observations) + 1}
    BY <1>3
  <2>2. ToldError' <=> ToldError \/ o.error \notin Untold
    <3>1. \A j \in DOMAIN observations : observations'[j] = observations[j]
      BY <1>3
    <3>2. ToldError' <=> \E i \in DOMAIN observations' : observations'[i].error \notin Untold
      BY DEF ToldError, Untold
    <3> HIDE DEF Round, LoopTypes
    <3> QED BY <1>3, <2>1, <3>1, <3>2, SMTT(40) DEF ToldError
  <2>3. hadError' \in BOOLEAN /\ (hadError' <=> ToldError')
    BY <1>3, <2>2 DEF ToldRound
  <2> QED BY <2>3 DEF ToldRound
<1> QED BY <1>5, <1>6, <1>7

LEMMA RoundStep == Round /\ [Next]_researchVars => Round'
<1> SUFFICES ASSUME Round, [Next]_researchVars PROVE Round'
  OBVIOUS
<1> USE DEF Round, LoopTypes
<1>1. ASSUME UNCHANGED <<pending, messages, observations>>, attempt' = attempt \/ attempt' = 0, hadError' = hadError,
             status' = status \/ (attempt = 0 /\ status' \notin {"completed", "degraded", "running"})
      PROVE  Round'
  <2>1. Dialogue'
    BY <1>1 DEF Dialogue, Turns, AnsweredBy
  <2>2. LoopTypes' /\ ToldRound'
    BY <1>1 DEF ToldRound, ToldError
  <2> QED BY <2>1, <2>2
<1>2. ASSUME ReactNext PROVE Round'
  <2>1. CASE ModelFails
    BY <2>1, <1>1 DEF ModelFails, Thinking
  <2>2. CASE ModelStops
    <3>1. /\ UNCHANGED <<pending, messages, observations, attempt, hadError>>
          /\ pending = <<>> /\ status = "running"
          /\ status' = IF hadError THEN "degraded" ELSE "completed"
      BY <2>2 DEF ModelStops, Thinking
    <3>2. Dialogue'
      BY <3>1 DEF Dialogue, Turns, AnsweredBy
    <3>3. LoopTypes' /\ ToldRound'
      BY <3>1 DEF ToldRound, ToldError
    <3> QED BY <3>2, <3>3
  <2>3. CASE ModelCalls
    BY <2>3, TurnStep
  <2>4. CASE OutOfSteps
    BY <2>4, <1>1 DEF OutOfSteps, Thinking
  <2>5. CASE BudgetExceeded
    BY <2>5, <1>1 DEF BudgetExceeded, Ready
  <2>6. CASE RejectCall
    <3>1. /\ status = "running" /\ pending # <<>> /\ UNCHANGED status
          /\ \E kind \in {"unknown_tool", "invalid_arguments"} : Observe(Error(kind))
      BY <2>6 DEF RejectCall, Ready
    <3>2. \A kind \in {"unknown_tool", "invalid_arguments"} : Error(kind) \in Observations
      BY DEF Error, Observations, Kinds
    <3> QED BY <3>1, <3>2, ObserveStep
  <2>7. CASE StartTool
    <3>1. /\ UNCHANGED <<pending, messages, observations, hadError, status>>
          /\ pending # <<>> /\ status = "running" /\ attempt' = 1
      BY <2>7 DEF StartTool, Ready
    <3>2. Dialogue'
      BY <3>1 DEF Dialogue, Turns, AnsweredBy
    <3>3. LoopTypes' /\ ToldRound'
      BY <3>1 DEF ToldRound, ToldError
    <3> QED BY <3>2, <3>3
  <2>8. CASE ToolReturns
    <3>1. status = "running" /\ pending # <<>> /\ UNCHANGED status
      BY <2>8 DEF ToolReturns
    <3>2. Call \in Calls
      BY <3>1 DEF Call
    <3>3. SymbolOf(Call) \in Symbols
      BY <3>2, ReactAssumption DEF SymbolOf
    <3>4. ASSUME NEW rows \in Answers(Call.tool, SymbolOf(Call)) PROVE Found(rows) \in Observations
      <4>1. rows \in Seq(Rows)
        BY <3>2, <3>3, <3>4, ReactAssumption
      <4> QED BY <4>1 DEF Found, Observations, Kinds
    <3>5. Error("reported") \in Observations
      BY DEF Error, Observations, Kinds
    <3>6. \E o \in Observations : Observe(o)
      BY <2>8, <3>4, <3>5 DEF ToolReturns
    <3> QED BY <3>1, <3>6, ObserveStep
  <2>9. ASSUME attempt > 0, UNCHANGED status, NEW kind \in {"tool_error", "silent", "tool_timeout"}, Again(kind)
        PROVE  Round'
    <3>1. status = "running" /\ pending # <<>>
      BY <2>9
    <3>2. CASE attempt < MaxAttempts
      <4>1. attempt' = attempt + 1 /\ UNCHANGED <<pending, hadError, messages, observations>>
        BY <2>9, <3>2 DEF Again
      <4>2. Dialogue'
        BY <4>1 DEF Dialogue, Turns, AnsweredBy
      <4>3. LoopTypes' /\ ToldRound'
        BY <2>9, <3>1, <4>1 DEF ToldRound, ToldError
      <4> QED BY <4>2, <4>3
    <3>3. CASE ~(attempt < MaxAttempts)
      <4>1. Observe(Error(kind)) /\ Error(kind) \in Observations
        BY <2>9, <3>3 DEF Again, Error, Observations, Kinds
      <4> QED BY <2>9, <3>1, <4>1, ObserveStep
    <3> QED BY <3>2, <3>3
  <2>10. CASE ToolRaises \/ ToolTimesOut
    BY <2>10, <2>9 DEF ToolRaises, ToolTimesOut
  <2> QED
    BY <1>2, <2>1, <2>2, <2>3, <2>4, <2>5, <2>6, <2>7, <2>8, <2>10 DEF ReactNext, LoopStep
<1>3. CASE React
  BY <1>2, <1>3 DEF React
<1>4. CASE ModelRaises \/ Search \/ AfterSearch \/ UNCHANGED researchVars
  BY <1>4, <1>1 DEF ModelRaises, Search, AfterSearch, researchVars, reactVars
<1>5. CASE AfterReact
  <2>1. /\ pending' = <<>> /\ attempt' = 0 /\ messages' = <<>> /\ observations' = <<>>
        /\ hadError' = FALSE /\ status' # "running"
    BY <1>5 DEF AfterReact, ReactReturned
  <2>2. LoopTypes' /\ Dialogue'
    BY <2>1 DEF Dialogue, Turns
  <2> QED BY <2>1, <2>2 DEF ToldRound
<1> QED BY <1>3, <1>4, <1>5 DEF Next

LEMMA RoundAlways == Spec => []Round
BY RoundInit, RoundStep, PTL DEF Spec

\* Whenever the model is asked again, each of its turns is followed by as many
\* answers as it made calls, and then by its next turn.
THEOREM EveryCallAnsweredHolds == Spec => []EveryCallAnswered
<1>1. Round => EveryCallAnswered
  <2> SUFFICES ASSUME Round, Thinking, NEW i \in DOMAIN messages, messages[i].kind = "assistant"
               PROVE  /\ AnsweredBy(i) <= Len(messages)
                      /\ \A j \in i + 1 .. AnsweredBy(i) : messages[j].kind = "tool"
                      /\ AnsweredBy(i) < Len(messages) => messages[AnsweredBy(i) + 1].kind = "assistant"
    BY DEF EveryCallAnswered, AnsweredBy
  <2>1. i \in Turns /\ pending = <<>> /\ Len(pending) = 0
    BY DEF Turns, Thinking
  <2>2. messages[i].n \in Nat /\ i \in Nat /\ Len(messages) \in Nat
    <3>1. messages \in Seq(Messages)
      BY DEF Round, LoopTypes
    <3>2. messages[i] \in Messages /\ i \in Nat /\ Len(messages) \in Nat
      BY <3>1
    <3> QED BY <3>2 DEF Messages
  <2>3. AnsweredBy(i) \in Nat
    BY <2>2 DEF AnsweredBy
  <2>4. AnsweredBy(i) <= Len(messages)
    BY <2>1, <2>2, <2>3 DEF Round, Dialogue
  <2> QED BY <2>1, <2>2, <2>3, <2>4 DEF Round, Dialogue
<1> QED BY <1>1, RoundAlways, PTL

\* Of a round the model ended, "degraded" is said exactly if an error was told.
THEOREM DegradedExactlyIfToldHolds == Spec => []DegradedExactlyIfTold
<1>1. Round => DegradedExactlyIfTold
  BY DEF Round, ToldRound, ToldError, DegradedExactlyIfTold
<1> QED BY <1>1, RoundAlways, PTL

-----------------------------------------------------------------------------
(***************************************************************************)
(* The evidence                                                            *)
(***************************************************************************)

\* Rows of the company, or labelled as context.
Fine == OwnOrContext(Hits)

\* What every kind of step keeps: the types, that the hits are the selection from
\* all that was fetched, and that every row, wherever it waits, is a fine one.
Evidence ==
  /\ TypeOK /\ raw \in Seq(Hits)
  /\ ~Searching => hits = Selected(Deduped(OwnOrContext(Range(raw))))
  /\ \A i \in DOMAIN observations : observations[i].rows \in Seq(Fine)
  /\ found \in Seq(Fine) /\ hits \in Seq(Fine) /\ candidates \in Seq(Fine)

LEMMA FineRows == Fine \in SUBSET Hits /\ Rows = Hits /\ Seq(Fine) \subseteq Seq(Hits)
BY ResearchAssumption DEF Fine, OwnOrContext

LEMMA EvidenceInit == Init => Evidence
<1> SUFFICES ASSUME Init PROVE Evidence
  OBVIOUS
<1>1. Len(Engines) \in Nat /\ Topk \in Nat
  BY SearchAssumption
<1>2. 0 \in 0..MaxSteps /\ 0 \in 0 .. MaxToolCalls + 1 /\ 0 \in 0..MaxAttempts
  BY ReactAssumption
<1>3. ReactTypeOK
  <2>1. /\ step = 0 /\ pending = <<>> /\ calls = 0 /\ attempt = 0 /\ hadError = FALSE
        /\ observations = <<>> /\ ran = {} /\ status = "running"
    BY DEF Init, ReactInit
  <2>2. DOMAIN observations = {} /\ pending \in Seq(Calls) /\ ran \subseteq [tool : Registered, symbol : Symbols]
    BY <2>1
  <2> QED BY <1>2, <2>1, <2>2 DEF ReactTypeOK
<1>4. SearchTypeOK
  BY <1>1 DEF Init, SearchInit, SearchTypeOK, Range
<1> QED BY <1>1, <1>3, <1>4 DEF Init, ReactInit, SearchInit, Evidence, TypeOK, Plans, Searching

\* What the selection of the search returns.
LEMMA SearchResult ==
  ASSUME raw \in Seq(Hits)
  PROVE  LET best == Deduped(OwnOrContext(Range(raw)))
         IN  /\ best \in SUBSET Fine /\ IsFiniteSet(best)
             /\ Selected(best) \in Seq(Fine) /\ Len(Selected(best)) <= Topk
<1> DEFINE best == Deduped(OwnOrContext(Range(raw)))
<1>1. Range(raw) \subseteq Hits /\ IsFiniteSet(Range(raw))
  <2>1. Range(raw) \subseteq Hits
    BY RangeOfTwo
  <2>2. Len(raw) \in Nat /\ DOMAIN raw = 1..Len(raw)
    OBVIOUS
  <2>3. raw \in Surjection(1..Len(raw), Range(raw))
    BY <2>2 DEF Surjection, Range
  <2>4. IsFiniteSet(1..Len(raw))
    BY <2>2, FS_Interval
  <2> QED BY <2>1, <2>3, <2>4, FS_Surjection
<1>2. best \in SUBSET Range(raw) /\ best \in SUBSET Fine
  BY <1>1 DEF Deduped, OwnOrContext, Fine
<1>3. IsFiniteSet(best) /\ best \in SUBSET Hits
  <2> HIDE DEF best
  <2> QED BY <1>1, <1>2, FS_Subset
<1> HIDE DEF best
<1>4. Selected(best) \in Seq(best) /\ Len(Selected(best)) <= Topk
  <2> DEFINE kept == ReservedHits(best)
             K == Range(kept)
             D == Diverse(best, K)
             E == best \ (K \cup D)
  <2>1. kept = ReservedHits(best) /\ K = Range(kept) /\ D = Diverse(best, K) /\ E = best \ (K \cup D)
    OBVIOUS
  <2> HIDE DEF kept, K, D, E
  <2>2. /\ Selected(best) \in Seq(best) /\ Len(Selected(best)) <= Topk
        /\ K \in SUBSET best /\ D \in SUBSET (best \ K)
        /\ Range(Selected(best)) \subseteq K \cup D \cup E
        /\ \A r \in Range(Selected(best)) : r \in E => K \cup D \subseteq Range(Selected(best))
    BY <1>3, <2>1, SelectedParts
  <2> QED BY <2>2
<1>5. Selected(best) \in Seq(Fine)
  BY <1>2, <1>4
<1> QED BY <1>2, <1>3, <1>4, <1>5 DEF best

LEMMA SearchStep ==
  ASSUME Evidence, SearchNext
  PROVE  /\ SearchTypeOK' /\ raw' \in Seq(Hits) /\ hits' \in Seq(Fine)
         /\ (~Searching => hits = Selected(Deduped(OwnOrContext(Range(raw)))))'
<1>1. SearchTypeOK /\ raw \in Seq(Hits) /\ hits \in Seq(Fine) /\ Len(Engines) \in Nat /\ asked \in Nat
  BY SearchAssumption DEF Evidence, TypeOK, SearchTypeOK
<1>2. Searching
  BY DEF SearchNext, EngineAnswers, EngineFails, EngineUnknown, BudgetSpent, SearchEnds
<1>3. \A i \in 1..Len(Engines) : Engines[i] \in Range(Engines)
  BY <1>1 DEF Range
<1>4. ASSUME asked < Len(Engines), NEW outcome \in {"ok", "failed", "unregistered"},
             Account(Next1, outcome), UNCHANGED <<skipped, hits>>,
             raw' \in Seq(Hits)
      PROVE  SearchTypeOK' /\ asked' \in 0..Len(Engines)
  <2>1. asked' = asked + 1 /\ asked' \in 0..Len(Engines)
    BY <1>1, <1>4 DEF Account
  <2>2. Next1 \in Range(Engines)
    BY <1>1, <1>3, <1>4 DEF Next1
  <2>3. /\ DOMAIN meta' \subseteq Range(Engines)
        /\ \A e \in DOMAIN meta' : meta'[e] \in {"ok", "failed", "unregistered"}
    BY <1>1, <1>4, <2>2 DEF Account, SearchTypeOK
  <2>4. Range(raw') \subseteq Hits
    BY <1>4, RangeOfTwo
  <2> QED BY <1>1, <1>4, <2>1, <2>3, <2>4 DEF SearchTypeOK
<1>5. CASE EngineAnswers
  <2>1. PICK rows \in HitsOf(Next1) : raw' = raw \o rows
    BY <1>5 DEF EngineAnswers
  <2>2. rows \in Seq(Hits)
    BY <1>5, <2>1, SearchAssumption DEF EngineAnswers
  <2>3. raw' \in Seq(Hits)
    BY <1>1, <2>1, <2>2
  <2>4. SearchTypeOK' /\ asked' \in 0..Len(Engines)
    BY <1>4, <1>5, <2>3 DEF EngineAnswers
  <2> QED BY <1>1, <1>5, <2>3, <2>4 DEF EngineAnswers, Searching
<1>6. CASE EngineFails \/ EngineUnknown
  <2>1. raw' \in Seq(Hits) /\ hits' = hits
    BY <1>1, <1>6 DEF EngineFails, EngineUnknown
  <2>2. SearchTypeOK' /\ asked' \in 0..Len(Engines)
    BY <1>4, <1>6, <2>1 DEF EngineFails, EngineUnknown
  <2> QED BY <1>1, <2>1, <2>2 DEF Searching
<1>7. CASE BudgetSpent
  <2>1. /\ asked' = Len(Engines) /\ asked < Len(Engines) /\ skipped' = Rest
        /\ UNCHANGED <<meta, raw, hits>>
    BY <1>7 DEF BudgetSpent
  <2>2. Range(Rest) \subseteq Range(Engines)
    <3>1. Rest \in Seq(Range(Engines))
      BY <1>1, <2>1, SearchAssumption DEF Rest
    <3> QED BY <3>1, RangeOfTwo
  <2>3. SearchTypeOK'
    BY <1>1, <2>1, <2>2 DEF SearchTypeOK
  <2> QED BY <1>1, <2>1, <2>3 DEF Searching
<1>8. CASE SearchEnds
  <2> DEFINE best == Deduped(OwnOrContext(Range(raw)))
  <2>1. /\ asked' = asked + 1 /\ asked = Len(Engines) /\ hits' = Selected(best)
        /\ UNCHANGED <<meta, skipped, raw>>
    BY <1>8 DEF SearchEnds
  <2>2. hits' \in Seq(Fine) /\ Len(hits') <= Topk
    BY <1>1, <2>1, SearchResult
  <2>3. hits' \in Seq(Hits)
    BY <2>2, FineRows
  <2>4. SearchTypeOK'
    BY <1>1, <2>1, <2>2, <2>3 DEF SearchTypeOK
  <2>5. hits' = Selected(Deduped(OwnOrContext(Range(raw))))' 
    BY <2>1
  <2> QED BY <1>1, <2>1, <2>2, <2>4, <2>5
<1> QED BY <1>5, <1>6, <1>7, <1>8 DEF SearchNext

LEMMA ObserveEvidence ==
  ASSUME Evidence, Round, pending # <<>>, NEW o \in Observations, o.rows \in Seq(Fine), Observe(o)
  PROVE  /\ pending' \in Seq(Calls) /\ hadError' \in BOOLEAN /\ attempt' = 0
         /\ \A i \in DOMAIN observations' :
              /\ observations'[i].error \in Kinds
              /\ observations'[i].rows \in Seq(Fine)
<1>1. pending \in Seq(Calls) /\ observations \in Seq(Observations) /\ hadError \in BOOLEAN
  BY DEF Round, LoopTypes, Evidence, TypeOK, ReactTypeOK
<1>2. /\ pending' = Tail(pending) /\ attempt' = 0 /\ observations' = Append(observations, o)
      /\ hadError' = (hadError \/ o.error \notin Untold)
  BY DEF Observe, Spoiled
<1>3. pending' \in Seq(Calls)
  BY <1>1, <1>2
<1>4. /\ observations' \in Seq(Observations)
      /\ DOMAIN observations' = 1 .. Len(observations) + 1 /\ DOMAIN observations = 1..Len(observations)
      /\ \A i \in 1..Len(observations) : observations'[i] = observations[i]
      /\ observations'[Len(observations) + 1] = o /\ Len(observations) \in Nat
  BY <1>1, <1>2
<1>5. ASSUME NEW i \in DOMAIN observations'
      PROVE  observations'[i].error \in Kinds /\ observations'[i].rows \in Seq(Fine)
  <2>1. observations'[i] \in Observations
    BY <1>4
  <2>2. CASE i \in 1..Len(observations)
    BY <1>4, <2>1, <2>2 DEF Evidence, Observations
  <2>3. CASE i = Len(observations) + 1
    BY <1>4, <2>1, <2>3 DEF Observations
  <2> QED BY <1>4, <2>2, <2>3
<1>6. hadError' \in BOOLEAN
  BY <1>1, <1>2
<1> QED BY <1>2, <1>3, <1>5, <1>6

\* One step of the loop keeps the types, and what is observed is fine.
LEMMA LoopEvidence ==
  ASSUME Evidence, Round, ReactNext
  PROVE  /\ ReactTypeOK'
         /\ \A i \in DOMAIN observations' : observations'[i].rows \in Seq(Fine)
<1>1. /\ step \in 0..MaxSteps /\ pending \in Seq(Calls)
      /\ calls \in 0 .. MaxToolCalls + 1 /\ attempt \in 0..MaxAttempts /\ hadError \in BOOLEAN
      /\ \A i \in DOMAIN observations : /\ observations[i].error \in Kinds
                                        /\ observations[i].rows \in Seq(Fine)
      /\ ran \subseteq [tool : Registered, symbol : Symbols]
      /\ status \in {"running", "completed", "degraded", "failed", "error"}
  BY DEF Evidence, TypeOK, ReactTypeOK, Kinds
<1>2. MaxSteps \in Nat \ {0} /\ MaxToolCalls \in Nat \ {0} /\ MaxAttempts \in Nat \ {0}
  BY ReactAssumption
\* It suffices to show the types with the rows the narrow ones.
<1>3. ASSUME step' \in 0..MaxSteps, pending' \in Seq(Calls),
             calls' \in 0 .. MaxToolCalls + 1, attempt' \in 0..MaxAttempts, hadError' \in BOOLEAN,
             \A i \in DOMAIN observations' : /\ observations'[i].error \in Kinds
                                             /\ observations'[i].rows \in Seq(Fine),
             ran' \subseteq [tool : Registered, symbol : Symbols],
             status' \in {"running", "completed", "degraded", "failed", "error"}
      PROVE  /\ ReactTypeOK'
             /\ \A i \in DOMAIN observations' : observations'[i].rows \in Seq(Fine)
  <2>1. \A i \in DOMAIN observations' : observations'[i].rows \in Seq(Rows)
    BY <1>3, FineRows
  <2> QED BY <1>3, <2>1 DEF ReactTypeOK, Kinds
<1>4. CASE ModelFails \/ ModelStops \/ OutOfSteps
  <2>1. /\ UNCHANGED <<step, pending, calls, attempt, hadError, observations, ran>>
        /\ status' \in {"running", "completed", "degraded", "failed", "error"}
    BY <1>4 DEF ModelFails, ModelStops, OutOfSteps
  <2> QED BY <1>1, <1>3, <2>1
<1>5. CASE ModelCalls
  <2>1. step' = step + 1 /\ step < MaxSteps /\ UNCHANGED <<calls, attempt, hadError, observations, ran, status>>
    BY <1>5 DEF ModelCalls
  <2>2. step' \in 0..MaxSteps
    BY <1>1, <1>2, <2>1
  <2>3. pending' \in Seq(Calls)
    <3>1. Round'
      BY <1>5, TurnStep
    <3> QED BY <3>1 DEF Round, LoopTypes
  <2> QED BY <1>1, <1>3, <2>1, <2>2, <2>3
<1>6. CASE BudgetExceeded
  <2>1. /\ calls' = calls + 1 /\ calls = MaxToolCalls /\ status' = "failed"
        /\ UNCHANGED <<step, pending, attempt, hadError, observations, ran>>
    BY <1>6 DEF BudgetExceeded
  <2>2. calls' \in 0 .. MaxToolCalls + 1
    BY <1>2, <2>1
  <2> QED BY <1>1, <1>3, <2>1, <2>2
<1>7. \A kind \in Kinds : Error(kind) \in Observations /\ Error(kind).rows \in Seq(Fine)
  BY DEF Error, Observations
<1>8. ASSUME NEW o \in Observations, o.rows \in Seq(Fine), Observe(o), pending # <<>>,
             step' = step, calls' \in 0 .. MaxToolCalls + 1, ran' = ran, status' = status
      PROVE  /\ ReactTypeOK'
             /\ \A i \in DOMAIN observations' : observations'[i].rows \in Seq(Fine)
  <2>1. /\ pending' \in Seq(Calls) /\ hadError' \in BOOLEAN /\ attempt' = 0
        /\ \A i \in DOMAIN observations' :
             /\ observations'[i].error \in Kinds
             /\ observations'[i].rows \in Seq(Fine)
    BY <1>8, ObserveEvidence
  <2>2. attempt' \in 0..MaxAttempts
    BY <1>2, <2>1
  <2> QED BY <1>1, <1>3, <1>8, <2>1, <2>2
<1>9. calls < MaxToolCalls /\ calls' = calls + 1 => calls' \in 0 .. MaxToolCalls + 1
  BY <1>1, <1>2
<1>10. CASE RejectCall
  <2>1. /\ pending # <<>> /\ calls < MaxToolCalls /\ calls' = calls + 1 /\ UNCHANGED <<step, ran, status>>
        /\ \E kind \in {"unknown_tool", "invalid_arguments"} : Observe(Error(kind))
    BY <1>10 DEF RejectCall, Ready
  <2>2. PICK kind \in Kinds : Observe(Error(kind))
    BY <2>1 DEF Kinds
  <2> QED BY <1>7, <1>8, <1>9, <2>1, <2>2
<1>11. pending # <<>> => Call \in Calls
  BY <1>1 DEF Call
<1>12. ASSUME NEW c \in Calls PROVE SymbolOf(c) \in Symbols
  BY ReactAssumption DEF SymbolOf
<1>13. CASE StartTool
  <2>1. /\ pending # <<>> /\ calls < MaxToolCalls /\ calls' = calls + 1 /\ attempt' = 1
        /\ UNCHANGED <<step, pending, hadError, observations, status>>
        /\ ran' = ran \cup {[tool |-> Call.tool, symbol |-> SymbolOf(Call)]}
        /\ Call.tool \in Registered
    BY <1>13 DEF StartTool, Ready, Runnable
  <2>2. ran' \subseteq [tool : Registered, symbol : Symbols]
    BY <1>1, <1>11, <1>12, <2>1
  <2>3. attempt' \in 0..MaxAttempts
    BY <1>2, <2>1
  <2> QED BY <1>1, <1>3, <1>9, <2>1, <2>2, <2>3
<1>14. attempt > 0 => pending # <<>>
  BY DEF Round, LoopTypes
<1>15. calls \in 0 .. MaxToolCalls + 1
  BY <1>1
<1>16. CASE ToolReturns
  <2>1. attempt > 0 /\ pending # <<>> /\ UNCHANGED <<step, calls, ran, status>> /\ Call \in Calls
    BY <1>11, <1>14, <1>16 DEF ToolReturns
  <2>2. CASE Observe(Error("reported"))
    BY <1>7, <1>8, <1>15, <2>1, <2>2 DEF Kinds
  <2>3. CASE \E rows \in Answers(Call.tool, SymbolOf(Call)) : Observe(Found(rows))
    <3>1. PICK rows \in Answers(Call.tool, SymbolOf(Call)) : Observe(Found(rows))
      BY <2>3
    <3>2. rows \in Seq(Rows) /\ SymbolOf(Call) \in Symbols
      BY <1>12, <2>1, <3>1, ReactAssumption
    <3>3. rows \in Seq(Fine)
      <4>1. CASE Call.tool \notin Offered
        <5>1. rows = <<>>
          BY <2>1, <3>1, <3>2, <4>1, AnswersAssumption
        <5> QED BY <5>1
      <4>2. CASE Call.tool \in Offered
        <5>1. SymbolOf(Call) = Company
          BY <4>2, ResearchAssumption DEF SymbolOf
        <5>2. \A i \in DOMAIN rows : rows[i].symbol = Company
          BY <2>1, <3>1, <3>2, <5>1, AnswersAssumption
        <5>3. \A i \in 1..Len(rows) : rows[i] \in Fine
          <6>1. rows \in Seq(Hits)
            BY <3>2, FineRows
          <6>2. \A i \in 1..Len(rows) : rows[i] \in Hits /\ i \in DOMAIN rows
            BY <6>1
          <6> QED BY <5>2, <6>2 DEF Fine, OwnOrContext
        <5> QED BY <3>2, <5>3
      <4> QED BY <4>1, <4>2
    <3>4. Found(rows) \in Observations /\ Found(rows).rows \in Seq(Fine)
      BY <3>2, <3>3 DEF Found, Observations, Kinds
    <3> QED BY <1>8, <1>15, <2>1, <3>1, <3>4
  <2> QED BY <1>16, <2>2, <2>3 DEF ToolReturns
<1>17. ASSUME attempt > 0, UNCHANGED <<step, calls, ran, status>>,
              NEW kind \in {"tool_error", "silent", "tool_timeout"}, Again(kind)
       PROVE  /\ ReactTypeOK'
              /\ \A i \in DOMAIN observations' : observations'[i].rows \in Seq(Fine)
  <2>1. CASE attempt < MaxAttempts
    <3>1. attempt' = attempt + 1 /\ UNCHANGED <<pending, hadError, messages, observations>>
      BY <1>17, <2>1 DEF Again
    <3>2. attempt' \in 0..MaxAttempts
      BY <1>1, <1>2, <2>1, <3>1
    <3> QED BY <1>1, <1>3, <1>17, <3>1, <3>2
  <2>2. CASE ~(attempt < MaxAttempts)
    <3>1. Observe(Error(kind)) /\ kind \in Kinds
      BY <1>17, <2>2 DEF Again, Kinds
    <3> QED BY <1>7, <1>8, <1>14, <1>15, <1>17, <3>1
  <2> QED BY <2>1, <2>2
<1>18. CASE ToolRaises \/ ToolTimesOut
  BY <1>17, <1>18 DEF ToolRaises, ToolTimesOut
<1> QED
  BY <1>4, <1>5, <1>6, <1>10, <1>13, <1>16, <1>18 DEF ReactNext, LoopStep

\* Rows are selected, never made.
LEMMA CandidateType ==
  ASSUME NEW R \in SUBSET Rows, NEW s \in Seq(R)
  PROVE  /\ Unique[s] \in Seq(R)
         /\ Select[s] \in Seq(R) /\ Len(Select[s]) <= Topk
<1>1. s \in Seq(Rows) /\ Topk \in Nat /\ 1 \in Nat
  BY SearchAssumption
<1>2. Unique[s] \in Seq(R)
  BY <1>1, AtType DEF Unique
<1>3. ASSUME NEW role PROVE FirstN(OfRole(s, role), 1) \in Seq(R)
  <2>1. OfRole(s, role) \in Seq(R)
    BY AtType DEF OfRole
  <2> QED BY <1>1, <2>1, FirstNType
<1>4. Required(s) \in Seq(R)
  BY <1>3 DEF Required
<1>5. Without(s, Required(s)) \in Seq(R)
  BY AtType DEF Without
<1> DEFINE u == Required(s) \o Without(s, Required(s))
<1>6. u \in Seq(R) /\ Len(u) \in Nat
  BY <1>4, <1>5
<1>7. Select[s] = IF Len(s) <= Topk THEN s ELSE FirstN(u, Topk)
  BY <1>1 DEF Select
<1> HIDE DEF u
<1>8. FirstN(u, Topk) \in Seq(R) /\ Len(FirstN(u, Topk)) <= Topk
  <2>1. /\ FirstN(u, Topk) \in Seq(R)
        /\ Len(FirstN(u, Topk)) = IF Topk < Len(u) THEN Topk ELSE Len(u)
    BY <1>1, <1>6, FirstNType
  <2> QED BY <1>1, <1>6, <2>1
<1> QED BY <1>2, <1>7, <1>8

LEMMA EvidenceStep == Evidence /\ Round /\ [Next]_researchVars => Evidence'
<1> SUFFICES ASSUME Evidence, Round, [Next]_researchVars PROVE Evidence'
  OBVIOUS
<1>1. /\ ReactTypeOK /\ SearchTypeOK /\ raw \in Seq(Hits)
      /\ plan \in Plans /\ phase \in {"react", "search", "done", "failed"}
      /\ found \in Seq(Hits) /\ candidates \in Seq(Hits) /\ Len(candidates) <= Topk
      /\ ~Searching => hits = Selected(Deduped(OwnOrContext(Range(raw))))
      /\ \A i \in DOMAIN observations : observations[i].rows \in Seq(Fine)
      /\ found \in Seq(Fine) /\ hits \in Seq(Fine) /\ candidates \in Seq(Fine)
  BY DEF Evidence, TypeOK
<1>2. ASSUME ReactTypeOK', \A i \in DOMAIN observations' : observations'[i].rows \in Seq(Fine),
             UNCHANGED <<searchVars, plan, found, candidates>>,
             phase' \in {"react", "search", "done", "failed"}
      PROVE  Evidence'
  <2>1. UNCHANGED <<asked, meta, skipped, raw, hits>>
    BY <1>2 DEF searchVars
  <2>2. SearchTypeOK' /\ (~Searching => hits = Selected(Deduped(OwnOrContext(Range(raw)))))'
    BY <1>1, <2>1 DEF SearchTypeOK, Searching
  <2> QED BY <1>1, <1>2, <2>1, <2>2 DEF Evidence, TypeOK
<1>3. CASE React
  <2>1. ReactTypeOK' /\ \A i \in DOMAIN observations' : observations'[i].rows \in Seq(Fine)
    BY <1>3, LoopEvidence DEF React
  <2> QED BY <1>1, <1>2, <1>3, <2>1 DEF React
<1>4. ASSUME UNCHANGED reactVars
      PROVE  /\ ReactTypeOK'
             /\ \A i \in DOMAIN observations' : observations'[i].rows \in Seq(Fine)
  BY <1>1, <1>4 DEF reactVars, ReactTypeOK
<1>5. CASE ModelRaises
  BY <1>2, <1>4, <1>5 DEF ModelRaises
<1>6. CASE UNCHANGED researchVars
  BY <1>1, <1>2, <1>4, <1>6 DEF researchVars
<1>7. CASE Search
  <2>1. /\ SearchTypeOK' /\ raw' \in Seq(Hits) /\ hits' \in Seq(Fine)
        /\ (~Searching => hits = Selected(Deduped(OwnOrContext(Range(raw)))))'
    BY <1>7, SearchStep DEF Search
  <2>2. ReactTypeOK' /\ \A i \in DOMAIN observations' : observations'[i].rows \in Seq(Fine)
    BY <1>4, <1>7 DEF Search
  <2>3. UNCHANGED <<plan, phase, found, candidates>>
    BY <1>7 DEF Search
  <2> QED BY <1>1, <2>1, <2>2, <2>3 DEF Evidence, TypeOK
<1>8. Fine \in SUBSET Rows /\ Fine \in SUBSET Hits
  BY FineRows
<1>9. CASE AfterSearch
  <2>1. /\ phase' = "done" /\ UNCHANGED <<reactVars, searchVars, plan, found>>
        /\ candidates' = IF found = <<>> THEN hits ELSE Select[Merge(found, hits)]
    BY <1>9 DEF AfterSearch
  <2>2. ReactTypeOK' /\ \A i \in DOMAIN observations' : observations'[i].rows \in Seq(Fine)
    BY <1>4, <2>1
  <2>3. UNCHANGED <<asked, meta, skipped, raw, hits>>
    BY <2>1 DEF searchVars
  <2>4. SearchTypeOK' /\ (~Searching => hits = Selected(Deduped(OwnOrContext(Range(raw)))))'
    BY <1>1, <2>3 DEF SearchTypeOK, Searching
  <2>5. found \o hits \in Seq(Fine)
    BY <1>1
  <2>6. Merge(found, hits) \in Seq(Fine)
    BY <1>8, <2>5, CandidateType DEF Merge
  <2>7. Select[Merge(found, hits)] \in Seq(Fine) /\ Len(Select[Merge(found, hits)]) <= Topk
    BY <1>8, <2>6, CandidateType
  <2>8. Len(hits) <= Topk
    BY <1>1 DEF SearchTypeOK
  <2>9. candidates' \in Seq(Fine) /\ Len(candidates') <= Topk
    BY <1>1, <2>1, <2>7, <2>8
  <2>10. candidates' \in Seq(Hits)
    BY <2>9, FineRows
  <2> QED BY <1>1, <2>1, <2>2, <2>3, <2>4, <2>9, <2>10 DEF Evidence, TypeOK
<1>10. CASE AfterReact
  <2>1. /\ found' = Observed /\ ReactReturned /\ UNCHANGED <<searchVars, plan>>
        /\ \/ phase' = "done" /\ candidates' = Select[found']
           \/ phase' = "search" /\ candidates' = candidates
    BY <1>10 DEF AfterReact
  <2>2. ReactTypeOK' /\ \A i \in DOMAIN observations' : observations'[i].rows \in Seq(Fine)
    <3>1. /\ step' = 0 /\ pending' = <<>> /\ calls' = 0 /\ attempt' = 0
          /\ hadError' = FALSE /\ observations' = <<>> /\ ran' = {} /\ UNCHANGED status
      BY <2>1 DEF ReactReturned
    <3>2. /\ 0 \in 0..MaxSteps /\ 0 \in 0 .. MaxToolCalls + 1 /\ 0 \in 0..MaxAttempts
          /\ status \in {"running", "completed", "degraded", "failed", "error"}
      BY <1>1, ReactAssumption DEF ReactTypeOK
    <3>3. DOMAIN observations' = {} /\ pending' \in Seq(Calls) /\ ran' \subseteq [tool : Registered, symbol : Symbols]
      BY <3>1
    <3> QED BY <3>1, <3>2, <3>3 DEF ReactTypeOK
  <2>3. UNCHANGED <<asked, meta, skipped, raw, hits>>
    BY <2>1 DEF searchVars
  <2>4. SearchTypeOK' /\ (~Searching => hits = Selected(Deduped(OwnOrContext(Range(raw)))))'
    BY <1>1, <2>3 DEF SearchTypeOK, Searching
  <2>5. found' \in Seq(Fine)
    <3> DEFINE rows == [i \in DOMAIN observations |-> observations[i].rows]
    <3>1. observations \in Seq(Observations)
      BY DEF Round, LoopTypes
    <3>2. Len(observations) \in Nat /\ DOMAIN observations = 1..Len(observations)
      BY <3>1
    <3>3. rows \in Seq(Seq(Fine))
      BY <1>1, <3>2
    <3> HIDE DEF rows
    <3>4. FlattenSeq(rows) \in Seq(Fine)
      BY <3>3, FlattenType
    <3>5. Unique[FlattenSeq(rows)] \in Seq(Fine)
      BY <1>8, <3>4, CandidateType
    <3> QED BY <2>1, <3>5 DEF Observed, rows
  <2>6. Select[found'] \in Seq(Fine) /\ Len(Select[found']) <= Topk
    BY <1>8, <2>5, CandidateType
  <2>7. candidates' \in Seq(Fine) /\ Len(candidates') <= Topk
    BY <1>1, <2>1, <2>6
  <2>8. candidates' \in Seq(Hits) /\ found' \in Seq(Hits)
    BY <2>5, <2>7, FineRows
  <2> QED BY <1>1, <2>1, <2>2, <2>3, <2>4, <2>5, <2>7, <2>8 DEF Evidence, TypeOK
<1> QED BY <1>3, <1>5, <1>6, <1>7, <1>9, <1>10 DEF Next

LEMMA EvidenceAlways == Spec => []Evidence
BY EvidenceInit, EvidenceStep, RoundAlways, PTL DEF Spec

\* The types of the loop, of the search and of the result, which never exceeds topk.
THEOREM TypeCorrect == Spec => []TypeOK
<1>1. Evidence => TypeOK
  BY DEF Evidence
<1> QED BY <1>1, EvidenceAlways, PTL

\* Whatever the engines return, whatever is reserved and whatever the caps are, a
\* source is over its cap only when no other one below its cap lost a hit.
THEOREM NobodyCrowdedOutHolds == Spec => []NobodyCrowdedOut
<1>1. Evidence => NobodyCrowdedOut
  <2> SUFFICES ASSUME Evidence, ~Searching PROVE NobodyCrowdedOut
    BY DEF NobodyCrowdedOut
  <2> DEFINE best == Deduped(OwnOrContext(Range(raw)))
             kept == Range(ReservedHits(best))
  <2>1. raw \in Seq(Hits) /\ hits = Selected(best)
    BY DEF Evidence
  <2>2. best \in SUBSET Hits /\ IsFiniteSet(best)
    BY <2>1, SearchResult, FineRows
  <2> HIDE DEF best
  <2>3. \A h \in Range(hits) :
          CountOf(h.source) > Cap(h.source) /\ h \notin kept =>
            \A g \in best \ Range(hits) : CountOf(g.source) >= Cap(g.source)
    BY <2>1, <2>2, FairSelection
  <2> USE DEF best
  <2> QED BY <2>3 DEF NobodyCrowdedOut
<1> QED BY <1>1, EvidenceAlways, PTL

\* Whatever the model calls and whatever is found, a candidate is a row of the
\* company or is labelled as context.
THEOREM NoForeignEvidenceHolds == Spec => []NoForeignEvidence
<1>1. Evidence => NoForeignEvidence
  <2> SUFFICES ASSUME Evidence, NEW i \in DOMAIN candidates
               PROVE  candidates[i].symbol = Own \/ candidates[i].context
    BY DEF NoForeignEvidence
  <2>1. candidates \in Seq(Fine)
    BY DEF Evidence
  <2>2. candidates[i] \in Fine
    BY <2>1
  <2> QED BY <2>2, ResearchAssumption DEF Fine, OwnOrContext
<1> QED BY <1>1, EvidenceAlways, PTL
-----------------------------------------------------------------------------
(***************************************************************************)
(* A task does not go on for ever: every step of it lowers StepsLeft.  The *)
(* budgets multiply: a tool call that may still be made may be attempted   *)
(* MaxAttempts times, and how many calls a response of the model holds     *)
(* does not matter.                                                        *)
(***************************************************************************)
\* The attempts the running handler has left, the one that runs included.
AttemptsLeft == IF attempt = 0 THEN 0 ELSE MaxAttempts + 1 - attempt

CallsLeft == MaxToolCalls + 1 - calls

RoundLeft ==
  (IF status = "running" THEN 1 ELSE 0) + (MaxSteps - step)
    + CallsLeft * (MaxAttempts + 1) + AttemptsLeft

EnginesLeft == Len(Engines) + 1 - asked

StepsLeft ==
  IF phase = "react" THEN RoundLeft + EnginesLeft + 2
  ELSE IF phase = "search" THEN EnginesLeft + 1
  ELSE 0

MostSteps ==
  1 + MaxSteps + (MaxToolCalls + 1) * (MaxAttempts + 1) + MaxAttempts + (Len(Engines) + 1) + 2

\* A sum with a summand less, and one with all summands bounded.
LEMMA SmallerSum ==
  ASSUME NEW r1 \in Nat, NEW r2 \in Nat, NEW s1 \in Nat, NEW s2 \in Nat,
         NEW p1 \in Nat, NEW p2 \in Nat, NEW a1 \in Nat, NEW a2 \in Nat, NEW m \in Nat,
         r2 <= r1, s2 >= s1, p2 + a2 <= p1 + a1,
         r2 < r1 \/ s2 > s1 \/ p2 + a2 < p1 + a1
  PROVE  r2 + (m - s2) + p2 + a2 < r1 + (m - s1) + p1 + a1
OBVIOUS

LEMMA BoundedSum ==
  ASSUME NEW r \in Nat, NEW s \in Nat, NEW m \in Nat, NEW p \in Nat, NEW q \in Nat,
         NEW a \in Nat, NEW b \in Nat, r <= 1, s <= m, p <= q, a <= b
  PROVE  r + (m - s) + p + a \in Nat /\ r + (m - s) + p + a <= 1 + m + q + b
OBVIOUS

LEMMA SmallerSummand ==
  ASSUME NEW a \in Int, NEW b \in Int, NEW c \in Int, a < b
  PROVE  a + c < b + c /\ c + a < c + b /\ a + c <= b + c /\ c + a <= c + b
OBVIOUS

\* One factor less is one summand less.
LEMMA OneCallLess ==
  ASSUME NEW n \in Nat, NEW k \in Nat
  PROVE  /\ n * k \in Nat
         /\ n > 0 => (n - 1) * k = n * k - k
         /\ \A m \in Nat : n <= m => n * k <= m * k
OBVIOUS

LEMMA Budgets ==
  ASSUME TypeOK
  PROVE  /\ MaxSteps \in Nat /\ MaxToolCalls \in Nat /\ MaxAttempts \in Nat /\ MaxAttempts > 0
         /\ step \in Nat /\ step <= MaxSteps /\ attempt \in Nat /\ attempt <= MaxAttempts
         /\ calls \in Nat /\ calls <= MaxToolCalls + 1
         /\ CallsLeft \in Nat /\ CallsLeft <= MaxToolCalls + 1
         /\ AttemptsLeft \in Nat /\ AttemptsLeft <= MaxAttempts
         /\ Len(Engines) \in Nat /\ asked \in Nat /\ asked <= Len(Engines) + 1
         /\ EnginesLeft \in Nat /\ EnginesLeft <= Len(Engines) + 1
<1>1. MaxSteps \in Nat /\ MaxToolCalls \in Nat /\ MaxAttempts \in Nat /\ MaxAttempts > 0
  BY ReactAssumption
<1>2. step \in 0..MaxSteps /\ attempt \in 0..MaxAttempts /\ calls \in 0 .. MaxToolCalls + 1
  BY DEF TypeOK, ReactTypeOK
<1>3. Len(Engines) \in Nat /\ asked \in 0 .. Len(Engines) + 1
  BY SearchAssumption DEF TypeOK, SearchTypeOK
<1>4. CallsLeft \in Nat /\ CallsLeft <= MaxToolCalls + 1
  BY <1>1, <1>2 DEF CallsLeft
<1>5. AttemptsLeft \in Nat /\ AttemptsLeft <= MaxAttempts
  BY <1>1, <1>2 DEF AttemptsLeft
<1>6. EnginesLeft \in Nat /\ EnginesLeft <= Len(Engines) + 1
  BY <1>3 DEF EnginesLeft
<1> QED BY <1>1, <1>2, <1>3, <1>4, <1>5, <1>6

LEMMA RoundLeftIsBounded ==
  ASSUME TypeOK
  PROVE  /\ RoundLeft \in Nat
         /\ RoundLeft <= 1 + MaxSteps + (MaxToolCalls + 1) * (MaxAttempts + 1) + MaxAttempts
         /\ (MaxToolCalls + 1) * (MaxAttempts + 1) \in Nat
<1> DEFINE product == CallsLeft * (MaxAttempts + 1)
           most == (MaxToolCalls + 1) * (MaxAttempts + 1)
           running == IF status = "running" THEN 1 ELSE 0
<1>1. /\ CallsLeft \in Nat /\ MaxAttempts + 1 \in Nat /\ MaxToolCalls + 1 \in Nat
      /\ CallsLeft <= MaxToolCalls + 1
  BY Budgets, SMTT(40)
<1>2. product \in Nat /\ product <= most /\ most \in Nat
  BY <1>1, OneCallLess
<1>3. running \in Nat /\ running <= 1
  OBVIOUS
<1>4. RoundLeft = running + (MaxSteps - step) + product + AttemptsLeft
  BY DEF RoundLeft
<1> HIDE DEF product, most, running
<1>5. /\ running + (MaxSteps - step) + product + AttemptsLeft \in Nat
      /\ running + (MaxSteps - step) + product + AttemptsLeft <= 1 + MaxSteps + most + MaxAttempts
  <2>1. /\ step \in Nat /\ step <= MaxSteps /\ MaxSteps \in Nat
        /\ AttemptsLeft \in Nat /\ AttemptsLeft <= MaxAttempts /\ MaxAttempts \in Nat
    BY Budgets
  <2> QED BY ONLY <2>1, <1>2, <1>3, BoundedSum
<1> QED BY <1>2, <1>4, <1>5 DEF most

LEMMA StepsLeftIsBounded == ASSUME TypeOK PROVE StepsLeft \in 0..MostSteps
<1> DEFINE most == 1 + MaxSteps + (MaxToolCalls + 1) * (MaxAttempts + 1) + MaxAttempts
<1>1. /\ RoundLeft \in Nat /\ RoundLeft <= most
      /\ EnginesLeft \in Nat /\ EnginesLeft <= Len(Engines) + 1 /\ Len(Engines) \in Nat
  BY RoundLeftIsBounded, Budgets
<1>2. most \in Nat
  <2>1. /\ MaxSteps \in Nat /\ MaxAttempts \in Nat /\ (MaxToolCalls + 1) * (MaxAttempts + 1) \in Nat
    BY Budgets, RoundLeftIsBounded
  <2> QED BY <2>1
<1>3. MostSteps = most + (Len(Engines) + 1) + 2
  BY DEF MostSteps
<1> HIDE DEF most
<1>4. MostSteps \in Nat /\ RoundLeft + EnginesLeft + 2 <= MostSteps /\ EnginesLeft + 1 <= MostSteps
  BY <1>1, <1>2, <1>3
<1>5. CASE phase = "react"
  BY <1>1, <1>4, <1>5 DEF StepsLeft
<1>6. CASE phase = "search"
  BY <1>1, <1>4, <1>6 DEF StepsLeft
<1>7. CASE phase \notin {"react", "search"}
  BY <1>4, <1>7 DEF StepsLeft
<1> QED BY <1>5, <1>6, <1>7

\* So it is before and after a step.
LEMMA Products ==
  /\ TypeOK => CallsLeft * (MaxAttempts + 1) \in Nat
  /\ TypeOK' => (CallsLeft * (MaxAttempts + 1))' \in Nat
<1>1. TypeOK => CallsLeft * (MaxAttempts + 1) \in Nat
  <2> SUFFICES ASSUME TypeOK PROVE CallsLeft * (MaxAttempts + 1) \in Nat
    OBVIOUS
  <2>1. CallsLeft \in Nat /\ MaxAttempts + 1 \in Nat
    BY Budgets, SMTT(40)
  <2> QED BY <2>1, OneCallLess
<1>2. TypeOK' => (CallsLeft * (MaxAttempts + 1) \in Nat)'
  BY <1>1, PTL
<1> QED BY <1>1, <1>2

LEMMA RoundLeftType ==
  /\ TypeOK => RoundLeft \in Nat
  /\ TypeOK' => RoundLeft' \in Nat
<1>1. TypeOK => RoundLeft \in Nat
  BY RoundLeftIsBounded
<1>2. TypeOK' => (RoundLeft \in Nat)'
  BY <1>1, PTL
<1> QED BY <1>1, <1>2

\* A step of the loop.
LEMMA RoundLeftFalls ==
  ASSUME TypeOK, TypeOK', Round, ReactNext PROVE RoundLeft' < RoundLeft
<1> DEFINE product == CallsLeft * (MaxAttempts + 1)
           running == IF status = "running" THEN 1 ELSE 0
<1>1. /\ MaxSteps \in Nat /\ MaxToolCalls \in Nat /\ MaxAttempts \in Nat /\ MaxAttempts > 0
      /\ step \in Nat /\ step <= MaxSteps /\ attempt \in Nat /\ attempt <= MaxAttempts
      /\ calls \in Nat /\ calls <= MaxToolCalls + 1
      /\ CallsLeft \in Nat /\ CallsLeft <= MaxToolCalls + 1
      /\ AttemptsLeft \in Nat /\ AttemptsLeft <= MaxAttempts
  BY Budgets
<1>2. product \in Nat /\ product' \in Nat
  BY Products
<1>3. calls' = calls + 1 /\ calls <= MaxToolCalls => product' = product - (MaxAttempts + 1)
  <2> SUFFICES ASSUME calls' = calls + 1, calls <= MaxToolCalls
               PROVE  product' = product - (MaxAttempts + 1)
    OBVIOUS
  <2>1. CallsLeft' = CallsLeft - 1 /\ CallsLeft \in Nat /\ CallsLeft > 0
    BY <1>1 DEF CallsLeft
  <2>2. (CallsLeft - 1) * (MaxAttempts + 1) = CallsLeft * (MaxAttempts + 1) - (MaxAttempts + 1)
    BY <1>1, <2>1, OneCallLess
  <2> QED BY <2>1, <2>2
<1>4. calls' = calls => product' = product
  BY DEF CallsLeft
<1>5. /\ RoundLeft = running + (MaxSteps - step) + product + AttemptsLeft
      /\ RoundLeft' = running' + (MaxSteps - step') + product' + AttemptsLeft'
  BY DEF RoundLeft
<1>6. /\ running \in Nat /\ running' \in Nat
      /\ status' = status => running' = running
      /\ status = "running" => running = 1 /\ running' <= running
      /\ status' # "running" => running' = 0
  OBVIOUS
<1>7. attempt' = attempt => AttemptsLeft' = AttemptsLeft
  BY DEF AttemptsLeft
<1> HIDE DEF product, running
<1>8. ASSUME step' \in Nat, product' \in Nat, AttemptsLeft' \in Nat,
             running' <= running, step' >= step, product' + AttemptsLeft' <= product + AttemptsLeft,
             \/ running' < running
             \/ step' > step
             \/ product' + AttemptsLeft' < product + AttemptsLeft
      PROVE  RoundLeft' < RoundLeft
  <2>1. /\ MaxSteps \in Nat /\ step \in Nat /\ product \in Nat /\ AttemptsLeft \in Nat
        /\ running \in Nat /\ running' \in Nat
    BY <1>1, <1>2, <1>6
  <2>2. running' + (MaxSteps - step') + product' + AttemptsLeft'
          < running + (MaxSteps - step) + product + AttemptsLeft
    BY ONLY <2>1, <1>8, SmallerSum
  <2> QED BY <1>5, <2>2
<1>9. CASE ModelFails \/ ModelStops \/ OutOfSteps
  <2>1. /\ status = "running" /\ status' # "running" /\ UNCHANGED <<step, calls, attempt>>
    BY <1>9 DEF ModelFails, ModelStops, OutOfSteps, Thinking
  <2>2. /\ running = 1 /\ running' = 0 /\ step' = step /\ product' = product
        /\ AttemptsLeft' = AttemptsLeft
    BY <1>4, <1>6, <1>7, <2>1
  <2>3. running' < running /\ step' >= step /\ product' + AttemptsLeft' <= product + AttemptsLeft
    BY <1>1, <1>2, <2>2
  <2> QED BY <1>1, <1>2, <1>8, <2>2, <2>3
<1>10. CASE ModelCalls
  <2>1. step' = step + 1 /\ UNCHANGED <<calls, attempt, status>>
    BY <1>10 DEF ModelCalls
  <2>2. running' = running /\ product' = product /\ AttemptsLeft' = AttemptsLeft
    BY <1>4, <1>6, <1>7, <2>1
  <2>3. /\ running' <= running /\ step' > step /\ step' >= step /\ step' \in Nat
        /\ product' + AttemptsLeft' <= product + AttemptsLeft
    BY <1>1, <1>2, <1>6, <2>1, <2>2
  <2> QED BY <1>1, <1>2, <1>8, <2>2, <2>3
<1>11. CASE BudgetExceeded \/ RejectCall
  <2>1. /\ calls <= MaxToolCalls /\ calls' = calls + 1 /\ step' = step /\ attempt = 0 /\ attempt' = 0
        /\ status = "running"
    BY <1>1, <1>11 DEF BudgetExceeded, RejectCall, Ready, Observe
  <2>2. /\ running' <= running /\ product' = product - (MaxAttempts + 1)
        /\ AttemptsLeft' = AttemptsLeft
    BY <1>3, <1>6, <1>7, <2>1
  <2>3. product' \in Nat
    BY <1>2
  <2>4. step' >= step /\ product' + AttemptsLeft' < product + AttemptsLeft
    BY <1>1, <1>2, <2>1, <2>2
  <2>5. product' + AttemptsLeft' <= product + AttemptsLeft /\ step' \in Nat /\ AttemptsLeft' \in Nat
    BY <1>1, <1>2, <2>1, <2>2
  <2> QED BY <1>8, <2>2, <2>3, <2>4, <2>5
<1>12. CASE StartTool
  <2>1. /\ calls <= MaxToolCalls /\ calls' = calls + 1 /\ step' = step /\ attempt = 0 /\ attempt' = 1
        /\ status' = status
    BY <1>1, <1>12 DEF StartTool, Ready
  <2>2. AttemptsLeft = 0 /\ AttemptsLeft' = MaxAttempts
    BY <1>1, <2>1 DEF AttemptsLeft
  <2>3. running' = running /\ product' = product - (MaxAttempts + 1)
    BY <1>3, <1>6, <2>1
  <2>4. product' \in Nat
    BY <1>2
  <2>5. step' >= step /\ product' + AttemptsLeft' < product + AttemptsLeft
    BY <1>1, <1>2, <2>1, <2>2, <2>3
  <2>6. /\ product' + AttemptsLeft' <= product + AttemptsLeft /\ step' \in Nat /\ AttemptsLeft' \in Nat
        /\ running' <= running
    BY <1>1, <1>2, <1>6, <2>1, <2>2, <2>3
  <2> QED BY <1>8, <2>4, <2>5, <2>6
<1>13. CASE ToolReturns \/ ToolRaises \/ ToolTimesOut
  <2>1. attempt > 0 /\ step' = step /\ calls' = calls /\ status' = status
    BY <1>13 DEF ToolReturns, ToolRaises, ToolTimesOut
  <2>2. attempt' = 0 \/ (attempt < MaxAttempts /\ attempt' = attempt + 1)
    BY <1>13 DEF ToolReturns, ToolRaises, ToolTimesOut, Again, Observe
  <2>3. AttemptsLeft' < AttemptsLeft /\ AttemptsLeft' \in Nat
    <3>1. AttemptsLeft = MaxAttempts + 1 - attempt
      BY <1>1, <2>1 DEF AttemptsLeft
    <3>2. CASE attempt' = 0
      <4>1. AttemptsLeft' = 0
        BY <3>2 DEF AttemptsLeft
      <4> QED BY <1>1, <3>1, <4>1
    <3>3. CASE attempt < MaxAttempts /\ attempt' = attempt + 1
      <4>1. AttemptsLeft' = MaxAttempts + 1 - (attempt + 1)
        BY <1>1, <3>3 DEF AttemptsLeft
      <4> QED BY <1>1, <3>1, <3>3, <4>1
    <3> QED BY <2>2, <3>2, <3>3
  <2>4. running' = running /\ product' = product
    BY <1>4, <1>6, <2>1
  <2>5. step' >= step /\ step' \in Nat /\ running' <= running
    BY <1>1, <1>6, <2>1
  <2>6. /\ product + AttemptsLeft' < product + AttemptsLeft
        /\ product + AttemptsLeft' <= product + AttemptsLeft
    <3>1. product \in Int /\ AttemptsLeft' \in Int /\ AttemptsLeft \in Int /\ AttemptsLeft' < AttemptsLeft
      BY <1>1, <1>2, <2>3
    <3> QED BY ONLY <3>1, SmallerSummand
  <2> QED BY <1>2, <1>8, <2>3, <2>4, <2>5, <2>6
<1> QED BY <1>9, <1>10, <1>11, <1>12, <1>13 DEF ReactNext, LoopStep

LEMMA StepsLeftFalls ==
  ASSUME TypeOK, TypeOK', Round, Next PROVE StepsLeft' < StepsLeft
<1>1. /\ EnginesLeft \in Nat /\ Len(Engines) \in Nat /\ asked \in Nat
  BY Budgets
<1>2. RoundLeft \in Nat
  BY RoundLeftIsBounded
<1>3. asked' = asked => EnginesLeft' = EnginesLeft
  BY DEF EnginesLeft
<1>4. CASE React
  <2>1. phase = "react" /\ phase' = "react" /\ asked' = asked
    BY <1>4 DEF React, searchVars
  <2>2. RoundLeft' < RoundLeft
    <3>1. ReactNext
      BY <1>4 DEF React
    <3> QED BY <3>1, RoundLeftFalls
  <2>3. RoundLeft' \in Nat
    BY RoundLeftType
  <2>4. /\ StepsLeft = RoundLeft + (EnginesLeft + 2)
        /\ StepsLeft' = RoundLeft' + (EnginesLeft + 2)
    BY <1>1, <1>2, <1>3, <2>1, <2>3 DEF StepsLeft
  <2>5. RoundLeft' + (EnginesLeft + 2) < RoundLeft + (EnginesLeft + 2)
    <3>1. RoundLeft' \in Int /\ RoundLeft \in Int /\ EnginesLeft + 2 \in Int
      BY <1>1, <1>2, <2>3
    <3> QED BY ONLY <2>2, <3>1, SmallerSummand
  <2> QED BY <2>4, <2>5
<1>5. CASE ModelRaises
  <2>1. phase = "react" /\ phase' = "failed"
    BY <1>5 DEF ModelRaises
  <2> QED BY <1>1, <1>2, <2>1 DEF StepsLeft
<1>6. CASE AfterReact
  <2>1. phase = "react" /\ phase' \in {"search", "done"} /\ asked' = asked
    BY <1>6 DEF AfterReact, searchVars
  <2> QED BY <1>1, <1>2, <1>3, <2>1 DEF StepsLeft
<1>7. CASE Search
  <2>1. phase = "search" /\ phase' = "search" /\ SearchNext
    BY <1>7 DEF Search
  <2>2. asked' > asked /\ asked' \in Nat
    BY <1>1, <2>1
    DEF SearchNext, EngineAnswers, EngineFails, EngineUnknown, BudgetSpent, SearchEnds, Account, Searching
  <2>3. EnginesLeft' < EnginesLeft /\ EnginesLeft' \in Int
    <3>1. EnginesLeft = Len(Engines) + 1 - asked /\ EnginesLeft' = Len(Engines) + 1 - asked'
      BY DEF EnginesLeft
    <3> QED BY <1>1, <2>2, <3>1
  <2>4. StepsLeft = EnginesLeft + 1 /\ StepsLeft' = EnginesLeft' + 1
    BY <2>1 DEF StepsLeft
  <2>5. EnginesLeft' + 1 < EnginesLeft + 1
    <3>1. EnginesLeft \in Int /\ 1 \in Int
      BY <1>1
    <3> QED BY ONLY <2>3, <3>1, SmallerSummand
  <2> QED BY <2>4, <2>5
<1>8. CASE AfterSearch
  <2>1. phase = "search" /\ phase' = "done"
    BY <1>8 DEF AfterSearch
  <2> QED BY <1>1, <2>1 DEF StepsLeft
<1> QED BY <1>4, <1>5, <1>6, <1>7, <1>8 DEF Next

\* A task makes at most MostSteps steps, whatever the model asks for, the tools
\* and engines answer or fail to answer: it cannot keep itself busy.
THEOREM TasksAreBounded ==
  Spec => [](StepsLeft \in 0..MostSteps) /\ [][StepsLeft' < StepsLeft]_researchVars
<1>1. Spec => [](Evidence /\ Round)
  BY EvidenceAlways, RoundAlways, PTL
<1>2. Evidence => TypeOK /\ StepsLeft \in 0..MostSteps
  BY StepsLeftIsBounded DEF Evidence
<1>3. TypeOK /\ TypeOK' /\ Round /\ [Next]_researchVars => [StepsLeft' < StepsLeft]_researchVars
  BY StepsLeftFalls
<1> QED BY <1>1, <1>2, <1>3, PTL DEF Spec
=============================================================================
