---------------------- MODULE CanonicalMetrics_proofs ----------------------
(***************************************************************************)
(* Proofs about CanonicalMetrics, for every set of figures that may be     *)
(* found and every number of repetitions.                                  *)
(***************************************************************************)
EXTENDS CanonicalMetrics, FiniteSetTheorems, SequenceTheorems, WellFoundedInduction, TLAPS

Margin == "net_margin"
Names == {r.name : r \in Figures}
Values == {r.value : r \in Figures}

\* What is found, and what is projected on tables; and what is derived of them.
Plain == [name : Names, value : Values, priority : Nat, sourced : {TRUE},
          fit : {"yes", "open", "no"}, confidence : 0..9]
Margins == [name : {Margin}, value : Values \X Values, priority : {99}, sourced : {FALSE},
            fit : {"yes", "open"}, confidence : {0}]
Rows == Plain \cup Margins

-----------------------------------------------------------------------------
(***************************************************************************)
(* Sequences and numbers.                                                  *)
(***************************************************************************)
\* A set of numbers that is not empty has a least one.
LEMMA NatMin ==
  ASSUME NEW S \in SUBSET Nat, S # {}
  PROVE  \E m \in S : \A n \in S : m <= n
<1>1. IsWellFoundedOn(OpToRel(<, Nat), Nat)
  BY NatLessThanWellFounded
<1>2. PICK x \in S : \A y \in S : ~ (<<y, x>> \in OpToRel(<, Nat))
  BY <1>1, WFMin
<1>3. \A y \in S : ~ (y < x)
  BY <1>2 DEF OpToRel
<1> QED BY <1>3

\* A finite set as a sequence: everything in it, and nothing else.
LEMMA AsSequence ==
  ASSUME NEW S, IsFiniteSet(S)
  PROVE  /\ SetToSeq(S) \in Seq(S)
         /\ Range(SetToSeq(S)) = S
<1> DEFINE c == Cardinality(S)
<1>1. c \in Nat /\ ExistsBijection(1..c, S)
  BY FS_CardinalityType
<1>2. \E f \in [1..c -> S] : IsInjective(f)
  BY <1>1 DEF ExistsBijection, Bijection, Injection
<1>3. SetToSeq(S) \in [1..c -> S] /\ IsInjective(SetToSeq(S))
  BY <1>2 DEF SetToSeq
<1>4. SetToSeq(S) \in Injection(1..c, S)
  BY <1>3 DEF Injection
<1>5. Cardinality(1..c) = c
  BY <1>1, FS_Interval
<1>6. SetToSeq(S) \in Surjection(1..c, S)
  BY <1>4, <1>5, FS_Injection
<1>7. \A x \in S : \E n \in 1..c : SetToSeq(S)[n] = x
  BY <1>6 DEF Surjection
<1>8. SetToSeq(S) \in Seq(S)
  BY <1>1, <1>3
<1> QED BY <1>3, <1>7, <1>8 DEF Range

LEMMA RangeOfTwo ==
  ASSUME NEW R, NEW s \in Seq(R), NEW t \in Seq(R)
  PROVE  Range(s \o t) = Range(s) \cup Range(t) /\ Range(s) \subseteq R
<1> DEFINE u == s \o t
<1>1. /\ u \in Seq(R) /\ Len(u) = Len(s) + Len(t) /\ Len(s) \in Nat /\ Len(t) \in Nat
      /\ DOMAIN s = 1..Len(s) /\ DOMAIN t = 1..Len(t) /\ DOMAIN u = 1..Len(u)
  OBVIOUS
<1>2. \A i \in 1..Len(s) : u[i] = s[i] /\ s[i] \in R
  OBVIOUS
<1>3. \A i \in 1..Len(t) : u[Len(s) + i] = t[i]
  OBVIOUS
<1> HIDE DEF u
<1>4. ASSUME NEW x \in Range(s) \cup Range(t) PROVE x \in Range(u)
  <2>1. CASE x \in Range(s)
    BY <2>1, <1>1, <1>2 DEF Range
  <2>2. CASE x \in Range(t)
    <3>1. PICK i \in 1..Len(t) : x = t[i]
      BY <2>2, <1>1 DEF Range
    <3>2. Len(s) + i \in DOMAIN u /\ u[Len(s) + i] = x
      BY <3>1, <1>1, <1>3
    <3> QED BY <3>2 DEF Range
  <2> QED BY <2>1, <2>2
<1>5. ASSUME NEW x \in Range(u) PROVE x \in Range(s) \cup Range(t)
  <2>1. PICK i \in 1..Len(u) : x = u[i]
    BY <1>1 DEF Range
  <2>2. CASE i <= Len(s)
    <3>1. i \in DOMAIN s /\ x = s[i]
      BY <2>1, <2>2, <1>1, <1>2
    <3> QED BY ONLY <3>1 DEF Range
  <2>3. CASE i > Len(s)
    <3>1. i - Len(s) \in DOMAIN t /\ t[i - Len(s)] = x
      <4>1. i - Len(s) \in 1..Len(t) /\ Len(s) + (i - Len(s)) = i
        BY <2>1, <2>3, <1>1
      <4> QED BY <4>1, <2>1, <1>1, <1>3
    <3> QED BY <3>1 DEF Range
  <2> QED BY <2>1, <2>2, <2>3, <1>1
<1>6. Range(s) \subseteq R
  BY <1>1, <1>2 DEF Range
<1> QED BY <1>4, <1>5, <1>6 DEF u

-----------------------------------------------------------------------------
(***************************************************************************)
(* The winners of an arbitration.                                          *)
(***************************************************************************)
LEMMA KeyType == ASSUME NEW r \in Rows PROVE Key(r) \in Nat
<1>1. r.priority \in Nat /\ r.confidence \in 0..9
  <2>1. r \in Plain \/ r \in Margins
    BY DEF Rows
  <2>2. CASE r \in Plain
    BY <2>2 DEF Plain
  <2>3. CASE r \in Margins
    BY <2>3 DEF Margins
  <2> QED BY <2>1, <2>2, <2>3
<1> QED BY <1>1 DEF Key

WinsAt(s, n, i) ==
  /\ i \in Competing(s, n)
  /\ \A j \in Competing(s, n) : \/ Key(s[i]) < Key(s[j])
                                \/ Key(s[i]) = Key(s[j]) /\ i <= j

\* Somebody wins where somebody competes, and only one does.
LEMMA SomeoneWins ==
  ASSUME NEW s \in Seq(Rows), NEW n, n \in DOMAIN Winners(s)
  PROVE  \E i \in DOMAIN s : WinsAt(s, n, i) /\ Winners(s)[n] = s[i]
<1> DEFINE C == Competing(s, n)
<1>1. C # {} /\ C \subseteq Nat /\ C \subseteq DOMAIN s
  BY DEF Winners, Competing, Candidates, Range
<1>2. \A i \in C : s[i] \in Rows /\ Key(s[i]) \in Nat
  BY <1>1, KeyType
<1>3. PICK k \in {Key(s[i]) : i \in C} : \A l \in {Key(s[i]) : i \in C} : k <= l
  <2> DEFINE K == {Key(s[i]) : i \in C}
  <2>1. K \in SUBSET Nat /\ K # {}
    BY <1>1, <1>2
  <2> HIDE DEF K
  <2> QED BY <2>1, NatMin DEF K
<1>4. PICK i \in {j \in C : Key(s[j]) = k} : \A j \in {l \in C : Key(s[l]) = k} : i <= j
  <2> DEFINE K == {j \in C : Key(s[j]) = k}
  <2>1. K \in SUBSET Nat /\ K # {}
    BY <1>1, <1>3
  <2> HIDE DEF K
  <2> QED BY <2>1, NatMin DEF K
<1>5. WinsAt(s, n, i)
  <2>1. \A j \in C : k <= Key(s[j]) /\ Key(s[j]) \in Nat /\ k \in Nat
    BY <1>2, <1>3
  <2>2. i \in C /\ Key(s[i]) = k /\ \A j \in C : Key(s[j]) = k => i <= j
    BY <1>4
  <2>3. ASSUME NEW j \in C
        PROVE  \/ Key(s[i]) < Key(s[j])
               \/ Key(s[i]) = Key(s[j]) /\ i <= j
    <3>1. k <= Key(s[j]) /\ Key(s[j]) \in Nat /\ k \in Nat /\ Key(s[i]) = k
      BY <2>1, <2>2
    <3>2. Key(s[j]) = k => i <= j
      BY <2>2
    <3> QED BY <3>1, <3>2
  <2> QED BY <2>2, <2>3 DEF WinsAt
<1>6. \A j : WinsAt(s, n, j) => j = i
  <2> SUFFICES ASSUME NEW j, WinsAt(s, n, j) PROVE j = i
    OBVIOUS
  <2>1. i \in C /\ j \in C /\ i \in Nat /\ j \in Nat /\ Key(s[i]) \in Nat /\ Key(s[j]) \in Nat
    BY <1>1, <1>2, <1>4 DEF WinsAt
  <2> QED BY <2>1, <1>5 DEF WinsAt
<1> DEFINE P(j) == \A l \in C : \/ Key(s[j]) < Key(s[l])
                                \/ Key(s[j]) = Key(s[l]) /\ j <= l
<1>7. Winners(s)[n] = s[CHOOSE j \in C : P(j)]
  BY DEF Winners
<1>8. \A j \in C : P(j) <=> WinsAt(s, n, j)
  BY DEF WinsAt
<1> HIDE DEF P
<1>9. (CHOOSE j \in C : P(j)) = i
  BY <1>4, <1>5, <1>6, <1>8
<1> QED BY <1>1, <1>4, <1>5, <1>7, <1>9

LEMMA TheWinner ==
  ASSUME NEW s \in Seq(Rows), NEW n, NEW i, WinsAt(s, n, i)
  PROVE  n \in DOMAIN Winners(s) /\ Winners(s)[n] = s[i]
<1>1. n \in DOMAIN Winners(s)
  BY DEF WinsAt, Competing, Winners
<1>2. PICK j \in DOMAIN s : WinsAt(s, n, j) /\ Winners(s)[n] = s[j]
  BY <1>1, SomeoneWins
<1>3. i \in DOMAIN s /\ i \in Nat /\ j \in Nat /\ s[i] \in Rows /\ s[j] \in Rows
  BY DEF WinsAt, Competing
<1>4. Key(s[i]) \in Nat /\ Key(s[j]) \in Nat
  BY <1>3, KeyType
<1>5. i = j
  BY <1>2, <1>3, <1>4 DEF WinsAt
<1> QED BY <1>1, <1>2, <1>5

\* A winner is a candidate for its metric, and none of them has a smaller key.
LEMMA WinnerIsBest ==
  ASSUME NEW s \in Seq(Rows)
  PROVE  /\ \A n \in DOMAIN Winners(s) :
              /\ Winners(s)[n] \in Candidates(s) /\ Winners(s)[n] \in Rows
              /\ Winners(s)[n].name = n /\ Winners(s)[n].fit # "no"
         /\ \A r \in Candidates(s) :
              r.name \in DOMAIN Winners(s) /\ Key(Winners(s)[r.name]) <= Key(r)
<1>1. ASSUME NEW n \in DOMAIN Winners(s)
      PROVE  /\ Winners(s)[n] \in Candidates(s) /\ Winners(s)[n] \in Rows
             /\ Winners(s)[n].name = n /\ Winners(s)[n].fit # "no"
  <2>1. PICK i \in DOMAIN s : WinsAt(s, n, i) /\ Winners(s)[n] = s[i]
    BY SomeoneWins
  <2> QED BY <2>1 DEF WinsAt, Competing, Candidates
<1>2. ASSUME NEW r \in Candidates(s)
      PROVE  r.name \in DOMAIN Winners(s) /\ Key(Winners(s)[r.name]) <= Key(r)
  <2>1. r.name \in DOMAIN Winners(s)
    BY DEF Winners
  <2>2. PICK i \in DOMAIN s : WinsAt(s, r.name, i) /\ Winners(s)[r.name] = s[i]
    BY <2>1, SomeoneWins
  <2>3. PICK j \in DOMAIN s : s[j] = r
    BY DEF Candidates, Range
  <2>4. j \in Competing(s, r.name)
    BY <2>3 DEF Competing
  <2>5. Key(s[i]) \in Nat /\ Key(s[j]) \in Nat
    BY KeyType
  <2> QED BY <2>1, <2>2, <2>3, <2>4, <2>5 DEF WinsAt
<1> QED BY <1>1, <1>2

LEMMA CandidatesOfTwo ==
  ASSUME NEW R, NEW s \in Seq(R), NEW t \in Seq(R)
  PROVE  /\ Candidates(s \o t) = Candidates(s) \cup Candidates(t)
         /\ Candidates(s) \subseteq R
BY RangeOfTwo DEF Candidates

\* Who competes in a concatenation.
LEMMA CompetingOfTwo ==
  ASSUME NEW s \in Seq(Rows), NEW t \in Seq(Rows), NEW n
  PROVE  /\ \A i \in Competing(s, n) : i \in Competing(s \o t, n) /\ (s \o t)[i] = s[i]
         /\ \A i \in Competing(t, n) : /\ Len(s) + i \in Competing(s \o t, n)
                                       /\ (s \o t)[Len(s) + i] = t[i]
         /\ \A j \in Competing(s \o t, n) :
              \/ j \in Competing(s, n)
              \/ j - Len(s) \in Competing(t, n) /\ j = Len(s) + (j - Len(s)) /\ j > Len(s)
<1> DEFINE u == s \o t
<1>1. /\ u \in Seq(Rows) /\ Len(u) = Len(s) + Len(t) /\ Len(s) \in Nat /\ Len(t) \in Nat
      /\ DOMAIN s = 1..Len(s) /\ DOMAIN t = 1..Len(t) /\ DOMAIN u = 1..Len(u)
  OBVIOUS
<1>2. \A i \in 1..Len(s) : u[i] = s[i]
  OBVIOUS
<1>3. \A i \in 1..Len(t) : u[Len(s) + i] = t[i]
  OBVIOUS
<1>4. \A x, v : v \in {s, t, u} =>
        \A i \in DOMAIN v : i \in Competing(v, x) <=> v[i].fit # "no" /\ v[i].name = x
  BY DEF Competing, Candidates, Range
<1> HIDE DEF u
<1>5. \A i \in Competing(s, n) : i \in Competing(u, n) /\ u[i] = s[i]
  <2> SUFFICES ASSUME NEW i \in Competing(s, n) PROVE i \in Competing(u, n) /\ u[i] = s[i]
    OBVIOUS
  <2>1. i \in DOMAIN s
    BY DEF Competing
  <2>2. i \in DOMAIN u /\ u[i] = s[i]
    BY <2>1, <1>1, <1>2
  <2> QED BY <2>1, <2>2, <1>4
<1>6. \A i \in Competing(t, n) : Len(s) + i \in Competing(u, n) /\ u[Len(s) + i] = t[i]
  <2> SUFFICES ASSUME NEW i \in Competing(t, n)
               PROVE  Len(s) + i \in Competing(u, n) /\ u[Len(s) + i] = t[i]
    OBVIOUS
  <2>1. i \in DOMAIN t
    BY DEF Competing
  <2>2. Len(s) + i \in DOMAIN u /\ u[Len(s) + i] = t[i]
    BY <2>1, <1>1, <1>3
  <2> QED BY <2>1, <2>2, <1>4
<1>7. ASSUME NEW j \in Competing(u, n)
      PROVE  \/ j \in Competing(s, n)
             \/ j - Len(s) \in Competing(t, n) /\ j = Len(s) + (j - Len(s)) /\ j > Len(s)
  <2>1. j \in 1..Len(u)
    BY <1>1 DEF Competing
  <2>2. CASE j <= Len(s)
    <3>1. j \in DOMAIN s /\ u[j] = s[j]
      BY <2>1, <2>2, <1>1, <1>2
    <3> QED BY <3>1, <2>1, <1>1, <1>4, SMTT(40)
  <2>3. CASE j > Len(s)
    <3>1. j - Len(s) \in 1..Len(t) /\ j = Len(s) + (j - Len(s))
      BY <2>1, <2>3, <1>1
    <3>2. u[j] = t[j - Len(s)]
      BY <3>1, <1>3
    <3> QED BY <3>1, <3>2, <2>1, <2>3, <1>1, <1>4
  <2> QED BY <2>1, <2>2, <2>3, <1>1
<1> QED BY <1>5, <1>6, <1>7 DEF u

\* Sequences are appended in any grouping.
LEMMA ConcatPlain ==
  ASSUME NEW S, NEW s \in Seq(S), NEW t \in Seq(S), NEW v \in Seq(S)
  PROVE  s \o (t \o v) = (s \o t) \o v
BY ConcatAssociative, SMTT(40)

\* The winners of a concatenation are those of its parts, the first part first.
LEMMA WinnersOfTwo ==
  ASSUME NEW s \in Seq(Rows), NEW t \in Seq(Rows), NEW n
  PROVE  /\ s \o t \in Seq(Rows)
         /\ n \in DOMAIN Winners(s \o t) <=> n \in DOMAIN Winners(s) \/ n \in DOMAIN Winners(t)
         /\ (/\ n \in DOMAIN Winners(s)
             /\ n \in DOMAIN Winners(t) => Key(Winners(s)[n]) <= Key(Winners(t)[n]))
            => Winners(s \o t)[n] = Winners(s)[n]
         /\ (/\ n \in DOMAIN Winners(t)
             /\ n \in DOMAIN Winners(s) => Key(Winners(t)[n]) < Key(Winners(s)[n]))
            => Winners(s \o t)[n] = Winners(t)[n]
<1> DEFINE u == s \o t
<1>1. u \in Seq(Rows) /\ Len(s) \in Nat
  OBVIOUS
<1>2. n \in DOMAIN Winners(u) <=> n \in DOMAIN Winners(s) \/ n \in DOMAIN Winners(t)
  BY CandidatesOfTwo DEF Winners
<1>3. /\ \A i \in Competing(s, n) : i \in Competing(u, n) /\ u[i] = s[i]
      /\ \A i \in Competing(t, n) : /\ Len(s) + i \in Competing(u, n)
                                    /\ u[Len(s) + i] = t[i]
      /\ \A j \in Competing(u, n) :
           \/ j \in Competing(s, n)
           \/ j - Len(s) \in Competing(t, n) /\ j = Len(s) + (j - Len(s)) /\ j > Len(s)
  BY CompetingOfTwo, Zenon
<1>4. \A v \in {s, t, u} : \A j \in Competing(v, n) :
        j \in Nat /\ v[j] \in Candidates(v) /\ v[j].name = n /\ Key(v[j]) \in Nat
  <2>1. \A v \in {s, t, u} : \A j \in Competing(v, n) :
          j \in DOMAIN v /\ v[j] \in Candidates(v) /\ v[j].name = n
    BY DEF Competing
  <2>2. \A v \in Seq(Rows) : \A j \in DOMAIN v : j \in Nat /\ v[j] \in Rows
    OBVIOUS
  <2>3. {s, t, u} \subseteq Seq(Rows)
    BY <1>1
  <2> HIDE DEF u
  <2> QED BY <2>1, <2>2, <2>3, KeyType
<1>5. \A j \in Competing(s, n) : j <= Len(s)
  BY DEF Competing
<1>6. \A v \in {s, t} : \A j \in Competing(v, n) : Key(Winners(v)[n]) <= Key(v[j])
  BY <1>4, WinnerIsBest
<1> HIDE DEF u
<1>7. ASSUME n \in DOMAIN Winners(s),
             n \in DOMAIN Winners(t) => Key(Winners(s)[n]) <= Key(Winners(t)[n])
      PROVE  Winners(u)[n] = Winners(s)[n]
  <2>1. PICK i \in DOMAIN s : WinsAt(s, n, i) /\ Winners(s)[n] = s[i]
    BY <1>7, SomeoneWins
  <2>2. i \in Competing(s, n) /\ i \in Competing(u, n) /\ u[i] = s[i]
    BY <2>1, <1>3 DEF WinsAt
  <2>3. ASSUME NEW j \in Competing(u, n)
        PROVE  \/ Key(u[i]) < Key(u[j])
               \/ Key(u[i]) = Key(u[j]) /\ i <= j
    <3>1. CASE j \in Competing(s, n)
      BY <3>1, <2>1, <2>2, <1>3 DEF WinsAt
    <3>2. CASE j - Len(s) \in Competing(t, n) /\ j = Len(s) + (j - Len(s)) /\ j > Len(s)
      <4> DEFINE k == j - Len(s)
      <4>1. k \in Competing(t, n) /\ u[j] = t[k]
        BY <3>2, <1>3
      <4>2. n \in DOMAIN Winners(t)
        BY <4>1, <1>4, WinnerIsBest
      <4>3. Key(u[i]) <= Key(Winners(t)[n]) /\ Key(Winners(t)[n]) <= Key(u[j])
        BY <4>1, <4>2, <1>6, <1>7, <2>1, <2>2
      <4>4. Winners(t)[n] \in Rows
        BY <4>2, WinnerIsBest
      <4>5. Key(Winners(t)[n]) \in Nat /\ Key(u[i]) \in Nat /\ Key(u[j]) \in Nat
        BY <4>4, <1>4, <2>2, KeyType
      <4>6. i <= j
        BY <3>2, <1>1, <1>4, <1>5, <2>2
      <4> QED BY <4>3, <4>5, <4>6
    <3> QED BY <3>1, <3>2, <1>3
  <2>4. WinsAt(u, n, i)
    BY <2>2, <2>3 DEF WinsAt
  <2> QED BY <2>1, <2>2, <2>4, <1>1, TheWinner
<1>8. ASSUME n \in DOMAIN Winners(t),
             n \in DOMAIN Winners(s) => Key(Winners(t)[n]) < Key(Winners(s)[n])
      PROVE  Winners(u)[n] = Winners(t)[n]
  <2>1. PICK i \in DOMAIN t : WinsAt(t, n, i) /\ Winners(t)[n] = t[i]
    BY <1>8, SomeoneWins
  <2> DEFINE m == Len(s) + i
  <2>2. i \in Competing(t, n) /\ m \in Competing(u, n) /\ u[m] = t[i]
    BY <2>1, <1>3 DEF WinsAt
  <2>3. ASSUME NEW j \in Competing(u, n)
        PROVE  \/ Key(u[m]) < Key(u[j])
               \/ Key(u[m]) = Key(u[j]) /\ m <= j
    <3>1. CASE j \in Competing(s, n)
      <4>1. n \in DOMAIN Winners(s) /\ u[j] = s[j]
        BY <3>1, <1>3, <1>4, WinnerIsBest
      <4>2. Key(u[m]) < Key(Winners(s)[n]) /\ Key(Winners(s)[n]) <= Key(u[j])
        BY <4>1, <3>1, <1>6, <1>8, <2>1, <2>2
      <4>3. Winners(s)[n] \in Rows
        BY <4>1, WinnerIsBest
      <4>4. Key(Winners(s)[n]) \in Nat /\ Key(u[m]) \in Nat /\ Key(u[j]) \in Nat
        BY <4>3, <1>4, <2>2, KeyType
      <4> QED BY <4>2, <4>4
    <3>2. CASE j - Len(s) \in Competing(t, n) /\ j = Len(s) + (j - Len(s)) /\ j > Len(s)
      <4> DEFINE k == j - Len(s)
      <4>1. k \in Competing(t, n) /\ u[j] = t[k]
        BY <3>2, <1>3
      <4>2. \/ Key(t[i]) < Key(t[k])
            \/ Key(t[i]) = Key(t[k]) /\ i <= k
        BY <4>1, <2>1 DEF WinsAt
      <4>3. i <= k => m <= j
        BY <3>2, <1>1, <1>4, <2>2, <4>1
      <4> QED BY <4>1, <4>2, <4>3, <2>2
    <3> QED BY <3>1, <3>2, <1>3
  <2>4. WinsAt(u, n, m)
    BY <2>2, <2>3 DEF WinsAt
  <2> QED BY <2>1, <2>2, <2>4, <1>1, TheWinner
<1> QED BY <1>1, <1>2, <1>7, <1>8 DEF u

-----------------------------------------------------------------------------
(***************************************************************************)
(* Winners written to files, and read as rows of the next arbitration.     *)
(***************************************************************************)
Arbitrated(c) == \E s \in Seq(Rows) : c = Winners(s)

\* The same figures, the margin aside.
Agree(c, d) ==
  \A n : n # Margin => /\ n \in DOMAIN c <=> n \in DOMAIN d
                       /\ n \in DOMAIN c => c[n] = d[n]

LEMMA FiniteImage ==
  ASSUME NEW S, IsFiniteSet(S), NEW f
  PROVE  IsFiniteSet({f[x] : x \in S})
<1> DEFINE T == {f[x] : x \in S}
           g == [x \in S |-> f[x]]
<1>1. g \in Surjection(S, T)
  BY DEF Surjection
<1> QED BY <1>1, FS_Surjection

LEMMA FoundIsPlain ==
  /\ Seq(Plain) \subseteq Seq(Rows) /\ Seq(Figures) \subseteq Seq(Plain)
  /\ \A f \in Found : f.raw \in Seq(Plain) /\ f.tables \in Seq(Plain)
  /\ MarketRows \subseteq Plain /\ IsFiniteSet(MarketRows)
  /\ Margin \notin Names
<1>1. ASSUME NEW r \in Figures PROVE r \in Plain
  <2>1. /\ r \in [name : {r.name}, value : {r.value}, priority : Nat, sourced : BOOLEAN,
                  fit : {"yes", "open", "no"}, confidence : 0..9]
        /\ r.sourced
    BY FiguresAssumption DEF IsRow
  <2>2. r.name \in Names /\ r.value \in Values
    BY DEF Names, Values
  <2> QED BY <2>1, <2>2 DEF Plain
<1>2. Margin \notin Names
  BY FiguresAssumption DEF Names, Margin
<1>3. Figures \subseteq Plain /\ Plain \subseteq Rows
  BY <1>1 DEF Rows
<1> QED BY <1>2, <1>3, FiguresAssumption

LEMMA RowKinds ==
  ASSUME NEW r \in Rows
  PROVE  /\ Key(r) \in Nat
         /\ r.name # Margin => r \in Plain
         /\ r \in Plain => r.name # Margin
<1>1. r \in Plain \/ r \in Margins
  BY DEF Rows
<1>2. \A x \in Plain : x.name \in Names
  BY DEF Plain
<1>3. \A x \in Margins : x.name = Margin
  BY DEF Margins
<1> QED BY <1>1, <1>2, <1>3, KeyType, FoundIsPlain

LEMMA ArbitratedType ==
  ASSUME NEW c, Arbitrated(c)
  PROVE  /\ IsFiniteSet(DOMAIN c)
         /\ \A n \in DOMAIN c : /\ c[n] \in Rows /\ c[n].name = n /\ c[n].fit # "no"
                                /\ n # Margin => c[n] \in Plain
<1>1. PICK s \in Seq(Rows) : c = Winners(s)
  BY DEF Arbitrated
<1>2. IsFiniteSet(DOMAIN c)
  <2> DEFINE f == [i \in DOMAIN s |-> s[i].name]
             T == {f[i] : i \in DOMAIN s}
  <2>1. IsFiniteSet(DOMAIN s)
    BY FS_Interval
  <2>2. IsFiniteSet(T)
    BY <2>1, FiniteImage
  <2>3. DOMAIN c \subseteq T
    BY <1>1 DEF Winners, Candidates, Range
  <2> QED BY <2>2, <2>3, FS_Subset
<1>3. \A n \in DOMAIN c : c[n] \in Rows /\ c[n].name = n /\ c[n].fit # "no"
  BY <1>1, WinnerIsBest
<1> QED BY <1>2, <1>3, RowKinds

\* What is derived is one row at most, of the margin, and depends on the
\* figures that are not a margin.
LEMMA DerivedType ==
  ASSUME NEW c, Arbitrated(c)
  PROVE  /\ Derived(c) \in Seq(Rows)
         /\ \A r \in Range(Derived(c)) : r \in Margins /\ r.fit # "no" /\ Derived(c) = <<r>>
         /\ \A d : Agree(c, d) => Derived(c) = Derived(d)
<1>1. "net_income" # Margin /\ "revenue" # Margin
  BY DEF Margin
<1>2. \A d : Agree(c, d) => Derived(c) = Derived(d)
  BY <1>1 DEF Agree, Derived, Ratio
<1>3. CASE ~({"net_income", "revenue"} \subseteq DOMAIN c)
  <2>1. Derived(c) = << >>
    BY <1>3 DEF Derived
  <2>2. Range(<< >>) = {}
    BY DEF Range
  <2> QED BY <2>1, <2>2, <1>2
<1>4. CASE {"net_income", "revenue"} \subseteq DOMAIN c
  <2> DEFINE r == [name |-> "net_margin", value |-> Ratio(c), priority |-> 99,
                   sourced |-> FALSE, fit |-> c["net_income"].fit, confidence |-> 0]
  <2>1. Derived(c) = <<r>>
    BY <1>4 DEF Derived
  <2>2. c["net_income"] \in Plain /\ c["revenue"] \in Plain /\ c["net_income"].fit # "no"
    BY <1>1, <1>4, ArbitratedType
  <2>3. Ratio(c) \in Values \X Values /\ c["net_income"].fit \in {"yes", "open"}
    BY <2>2 DEF Ratio, Plain
  <2>4. r \in Margins /\ r.fit # "no"
    BY <2>3 DEF Margins, Margin
  <2>5. Range(<<r>>) = {r}
    <3>1. DOMAIN <<r>> = {1} /\ <<r>>[1] = r
      OBVIOUS
    <3> HIDE DEF r
    <3> QED BY <3>1 DEF Range
  <2> HIDE DEF r
  <2> QED BY <2>1, <2>4, <2>5, <1>2 DEF Rows
<1> QED BY <1>3, <1>4

\* The metrics file: the winners, and what is derived of them.
LEMMA MetricsFile ==
  ASSUME NEW c, Arbitrated(c)
  PROVE  /\ AsFinancialMetrics(c) \in Seq(Rows)
         /\ Agree(Winners(AsFinancialMetrics(c)), c)
         /\ Range(AsFinancialMetrics(c)) = {c[n] : n \in DOMAIN c} \cup Range(Derived(c))
         /\ Candidates(AsFinancialMetrics(c)) = Range(AsFinancialMetrics(c))
<1> DEFINE S == {c[n] : n \in DOMAIN c}
           m == AsFinancialMetrics(c)
<1>1. IsFiniteSet(S) /\ S \subseteq Rows
  BY ArbitratedType, FiniteImage
<1>2. SetToSeq(S) \in Seq(Rows) /\ Range(SetToSeq(S)) = S
  <2> HIDE DEF S
  <2> QED BY <1>1, AsSequence
<1>3. Derived(c) \in Seq(Rows) /\ \A r \in Range(Derived(c)) : r \in Margins /\ r.fit # "no"
  BY DerivedType
<1>4. m \in Seq(Rows) /\ Range(m) = S \cup Range(Derived(c))
  <2> HIDE DEF S
  <2>1. m = SetToSeq(S) \o Derived(c)
    BY DEF AsFinancialMetrics, S
  <2> QED BY <1>2, <1>3, <2>1, RangeOfTwo
<1>5. Candidates(m) = Range(m)
  <2>1. \A r \in Range(m) : r.fit # "no"
    BY <1>3, <1>4, ArbitratedType
  <2> QED BY <2>1 DEF Candidates
<1> HIDE DEF m
<1>6. ASSUME NEW n, n # Margin
      PROVE  /\ n \in DOMAIN Winners(m) <=> n \in DOMAIN c
             /\ n \in DOMAIN Winners(m) => Winners(m)[n] = c[n]
  <2>1. \A r \in Range(m) : r.name = n => n \in DOMAIN c /\ r = c[n]
    <3>1. \A r \in S : r.name = n => n \in DOMAIN c /\ r = c[n]
      BY ArbitratedType
    <3>2. \A r \in Margins : r.name = Margin
      BY DEF Margins
    <3> QED BY <3>1, <3>2, <1>3, <1>4, <1>6
  <2>2. n \in DOMAIN c => n \in DOMAIN Winners(m)
    <3> SUFFICES ASSUME n \in DOMAIN c PROVE n \in DOMAIN Winners(m)
      OBVIOUS
    <3>1. c[n] \in Candidates(m) /\ c[n].name = n
      BY <1>4, <1>5, ArbitratedType
    <3> QED BY <3>1, <1>4, WinnerIsBest
  <2>3. n \in DOMAIN Winners(m) => Winners(m)[n] \in Range(m) /\ Winners(m)[n].name = n
    BY <1>4, <1>5, WinnerIsBest
  <2> QED BY <2>1, <2>2, <2>3
<1> QED BY <1>4, <1>5, <1>6 DEF Agree, m

\* A projected row is its winner without its confidence, so it ranks lower,
\* or it is its winner.
LEMMA InTableRanksLower ==
  ASSUME NEW r \in Plain
  PROVE  /\ InTable(r) \in Plain /\ InTable(r).name = r.name /\ InTable(r).fit = r.fit
         /\ InTable(r) = r \/ Key(r) < Key(InTable(r))
<1>1. /\ r.priority \in Nat /\ r.confidence \in 0..9 /\ r.sourced = TRUE
  BY DEF Plain
<1>2. InTable(r) \in Plain /\ InTable(r).name = r.name /\ InTable(r).fit = r.fit
  <2> DEFINE B == [name : Names, value : Values, priority : Nat, sourced : BOOLEAN,
                   fit : {"yes", "open", "no"}, confidence : 0..9]
  <2>1. InTable(r) = [[r EXCEPT !.confidence = 0] EXCEPT !.sourced = TRUE]
    BY DEF Plain, InTable
  <2>2. \A x \in B : [x EXCEPT !.confidence = 0] \in B
    OBVIOUS
  <2>3. \A x \in B : [x EXCEPT !.sourced = TRUE] \in B
    OBVIOUS
  <2>4. r \in B
    BY DEF Plain
  <2>5. InTable(r) \in B
    BY <2>1, <2>2, <2>3, <2>4, Zenon
  <2>6. InTable(r).sourced = TRUE /\ InTable(r).name = r.name /\ InTable(r).fit = r.fit
    BY DEF Plain, InTable
  <2> QED BY <2>5, <2>6 DEF Plain
<1>3. Key(InTable(r)) = Key(r) + r.confidence
  BY <1>1 DEF Key, InTable, Plain
<1>4. r.confidence = 0 => InTable(r) = r
  BY DEF Plain, InTable
<1>5. Key(r) \in Nat
  BY RowKinds DEF Rows
<1> QED BY <1>1, <1>2, <1>3, <1>4, <1>5

\* The projection: rows of some of the winners.
LEMMA Projection ==
  ASSUME NEW c, Arbitrated(c)
  PROVE  /\ Projected(c) \in Seq(Plain)
         /\ \A t \in Range(Projected(c)) :
              \E n \in DOMAIN c : n # Margin /\ t.name = n /\ t = InTable(c[n])
<1>1. Shown(c) \subseteq DOMAIN c /\ Margin \notin Shown(c)
  <2>1. \A t \in Statements : Margin \notin t
    BY DEF Statements, Margin
  <2>2. \A n \in Shown(c) : \E t \in Statements : n \in t /\ n \in DOMAIN c
    BY DEF Shown
  <2> QED BY <2>1, <2>2
<1> DEFINE f == [n \in Shown(c) |-> InTable(c[n])]
           S == {f[n] : n \in Shown(c)}
<1>2. IsFiniteSet(S)
  <2>1. IsFiniteSet(Shown(c))
    BY <1>1, ArbitratedType, FS_Subset
  <2> QED BY <2>1, FiniteImage
<1>3. \A n \in Shown(c) : f[n] \in Plain /\ f[n].name = n /\ n # Margin /\ n \in DOMAIN c
  BY <1>1, ArbitratedType, InTableRanksLower
<1>4. Projected(c) = SetToSeq(S)
  BY DEF Projected
<1>5. \A t \in S : t \in Plain /\ \E n \in DOMAIN c : n # Margin /\ t.name = n /\ t = InTable(c[n])
  BY <1>3
<1> HIDE DEF S
<1> QED BY <1>2, <1>4, <1>5, AsSequence

-----------------------------------------------------------------------------
(***************************************************************************)
(* Path independence: what may be put among the rows of an arbitration     *)
(* without changing who wins.                                              *)
(***************************************************************************)
\* Nobody in this sequence ranks above the winner of their metric.
Below(s, best) ==
  \A r \in Candidates(s) : r.name # Margin =>
    r.name \in DOMAIN best /\ Key(best[r.name]) <= Key(r)

\* A row of the tables is who wins, or loses to who wins or to a row of the
\* metrics file, which comes first.
AddNothing(rows, file, best) ==
  \A t \in Candidates(rows) :
    \/ t = best[t.name]
    \/ Key(best[t.name]) < Key(t)
    \/ /\ t.name \in DOMAIN Winners(file)
       /\ Key(Winners(file)[t.name]) <= Key(t)

LEMMA RowsBelow ==
  ASSUME NEW file \in Seq(Rows), NEW s \in Seq(Rows), NEW best, Arbitrated(best),
         Agree(Winners(file), best), Below(s, best)
  PROVE  Agree(Winners(file \o s), best)
<1> SUFFICES ASSUME NEW n, n # Margin
             PROVE  /\ n \in DOMAIN Winners(file \o s) <=> n \in DOMAIN best
                    /\ n \in DOMAIN Winners(file \o s) => Winners(file \o s)[n] = best[n]
  BY DEF Agree
<1>1. /\ n \in DOMAIN Winners(file) <=> n \in DOMAIN best
      /\ n \in DOMAIN Winners(file) => Winners(file)[n] = best[n]
  BY DEF Agree
<1>2. n \in DOMAIN Winners(s) => /\ n \in DOMAIN best
                                 /\ Key(best[n]) <= Key(Winners(s)[n])
  BY WinnerIsBest DEF Below
<1> QED BY <1>1, <1>2, WinnersOfTwo

LEMMA RowsAppended ==
  ASSUME NEW file \in Seq(Rows), NEW base \in Seq(Rows), NEW s \in Seq(Rows),
         Agree(Winners(file), Winners(base))
  PROVE  Agree(Winners(file \o s), Winners(base \o s))
<1> SUFFICES ASSUME NEW n, n # Margin
             PROVE  /\ n \in DOMAIN Winners(file \o s) <=> n \in DOMAIN Winners(base \o s)
                    /\ n \in DOMAIN Winners(file \o s)
                         => Winners(file \o s)[n] = Winners(base \o s)[n]
  BY DEF Agree
<1>1. /\ n \in DOMAIN Winners(file) <=> n \in DOMAIN Winners(base)
      /\ n \in DOMAIN Winners(file) => Winners(file)[n] = Winners(base)[n]
  BY DEF Agree
<1>2. \A v \in {file, base, s} : n \in DOMAIN Winners(v) => Key(Winners(v)[n]) \in Nat
  BY WinnerIsBest, KeyType
<1> QED BY <1>1, <1>2, WinnersOfTwo

LEMMA RowsInserted ==
  ASSUME NEW file \in Seq(Rows), NEW rows \in Seq(Plain), NEW s \in Seq(Rows),
         NEW best, Arbitrated(best),
         Agree(Winners(file \o s), best), Below(rows, best), AddNothing(rows, file, best)
  PROVE  Agree(Winners(file \o rows \o s), best)
<1> DEFINE A == Winners(file)  B == Winners(rows)  C == Winners(s)
           F == file \o rows
<1>0. rows \in Seq(Rows) /\ F \in Seq(Rows)
  BY FoundIsPlain, WinnersOfTwo
<1> SUFFICES ASSUME NEW n, n # Margin
             PROVE  /\ n \in DOMAIN Winners(F \o s) <=> n \in DOMAIN best
                    /\ n \in DOMAIN Winners(F \o s) => Winners(F \o s)[n] = best[n]
  BY DEF Agree
<1>1. /\ n \in DOMAIN Winners(file \o s) <=> n \in DOMAIN best
      /\ n \in DOMAIN Winners(file \o s) => Winners(file \o s)[n] = best[n]
  BY DEF Agree
<1>2. /\ n \in DOMAIN A => Key(A[n]) \in Nat
      /\ n \in DOMAIN B => Key(B[n]) \in Nat
      /\ n \in DOMAIN C => Key(C[n]) \in Nat
  BY <1>0, WinnerIsBest, KeyType
<1>3. n \in DOMAIN B => /\ n \in DOMAIN best /\ Key(best[n]) <= Key(B[n])
                        /\ \/ B[n] = best[n]
                           \/ Key(best[n]) < Key(B[n])
                           \/ n \in DOMAIN A /\ Key(A[n]) <= Key(B[n])
  BY <1>0, WinnerIsBest DEF Below, AddNothing
<1>4. /\ n \in DOMAIN best <=> n \in DOMAIN A \/ n \in DOMAIN C
      /\ (n \in DOMAIN A /\ (n \in DOMAIN C => Key(A[n]) <= Key(C[n]))) => best[n] = A[n]
      /\ (n \in DOMAIN C /\ (n \in DOMAIN A => Key(C[n]) < Key(A[n]))) => best[n] = C[n]
  BY <1>1, WinnersOfTwo
<1>5. /\ n \in DOMAIN Winners(F) <=> n \in DOMAIN A \/ n \in DOMAIN B
      /\ (n \in DOMAIN A /\ (n \in DOMAIN B => Key(A[n]) <= Key(B[n]))) => Winners(F)[n] = A[n]
      /\ (n \in DOMAIN B /\ (n \in DOMAIN A => Key(B[n]) < Key(A[n]))) => Winners(F)[n] = B[n]
  BY <1>0, WinnersOfTwo
<1> DEFINE W == Winners(F)  V == Winners(F \o s)
<1> HIDE DEF A, B, F
<1>6. /\ n \in DOMAIN V <=> n \in DOMAIN W \/ n \in DOMAIN C
      /\ (n \in DOMAIN W /\ (n \in DOMAIN C => Key(W[n]) <= Key(C[n]))) => V[n] = W[n]
      /\ (n \in DOMAIN C /\ (n \in DOMAIN W => Key(C[n]) < Key(W[n]))) => V[n] = C[n]
  BY <1>0, WinnersOfTwo
<1> HIDE DEF C, W, V
<1>7. n \in DOMAIN V <=> n \in DOMAIN best
  BY <1>3, <1>4, <1>5, <1>6 DEF W
<1>8. ASSUME n \in DOMAIN V PROVE V[n] = best[n]
  <2>1. CASE n \notin DOMAIN B
    BY <2>1, <1>2, <1>4, <1>5, <1>6, <1>7, <1>8 DEF W
  <2>2. CASE n \in DOMAIN B /\ n \in DOMAIN A /\ Key(A[n]) <= Key(B[n])
    BY <2>2, <1>2, <1>4, <1>5, <1>6 DEF W
  <2>3. CASE n \in DOMAIN B /\ (n \in DOMAIN A => Key(B[n]) < Key(A[n]))
    <3>1. W[n] = B[n] /\ n \in DOMAIN W
      BY <2>3, <1>5 DEF W
    <3>2. n \in DOMAIN C /\ best[n] = C[n] /\ Key(C[n]) <= Key(B[n])
      BY <2>3, <1>2, <1>3, <1>4
    <3>3. B[n] = best[n] \/ Key(C[n]) < Key(B[n])
      BY <2>3, <3>2, <1>2, <1>3
    <3> QED BY <2>3, <3>1, <3>2, <3>3, <1>2, <1>6
  <2> QED BY <2>1, <2>2, <2>3, <1>2
<1> QED BY <1>7, <1>8 DEF V, F

-----------------------------------------------------------------------------
(***************************************************************************)
(* The inductive invariant.                                                *)
(***************************************************************************)
\* What one arbitration of everything found, and of this evidence, gives.
Best(found, from) == Winners(found.raw \o found.tables \o from)
Once == Best(given, judged)

Typed ==
  /\ evidence \in Seq(Plain) /\ judged \in Seq(Plain)
  /\ given.raw \in Seq(Plain) /\ given.tables \in Seq(Plain)
  /\ raw = given.raw /\ tables \in Seq(Plain)
  /\ metrics \in Seq(Rows) /\ Arbitrated(canon)
  /\ seen \subseteq Rows

\* Where the run is, and what it then has: the evidence that was judged.
Places ==
  /\ node \in StaticNodes \cup DynamicNodes
  /\ analysed => node \in StaticNodes
  /\ node \in {"build", "prepare", "write"} => analysed
  /\ analysed \/ node = "refresh" => judged = evidence

\* Path independence: the canonical metrics, the margin aside, are what one
\* arbitration of everything found would have given, whatever has been written
\* to files, projected and read again since.
AsIfArbitratedOnce == Agree(canon, Once)

\* The metrics file stands for all that was found, and the tables add nothing.
FilesStandForAll ==
  /\ Agree(Winners(metrics \o judged), Once)
  /\ Below(tables, Once) /\ AddNothing(tables, metrics, Once)

\* There is one margin: in the metrics file, in canon and among those seen.
OneMargin ==
  /\ \A q, r \in Range(metrics) : q.name = Margin /\ r.name = Margin => q = r
  /\ Margin \in DOMAIN canon => canon[Margin] \in Range(metrics)
  /\ \A r \in seen : r.name = Margin => Margin \in DOMAIN canon /\ canon[Margin] = r
  /\ analysed => \A r \in Range(metrics) : r.name = Margin => <<r>> = Derived(canon)

NoneSeenBetter ==
  \A r \in seen : r.name # Margin => r.name \in DOMAIN Once /\ Key(Once[r.name]) <= Key(r)

Figured == Typed /\ AsIfArbitratedOnce /\ FilesStandForAll /\ OneMargin /\ NoneSeenBetter
Settled == Places /\ Figured

\* The rows that Best arbitrates, and their order among themselves.
LEMMA BestOfAll ==
  ASSUME NEW found, found.raw \in Seq(Plain), found.tables \in Seq(Plain),
         NEW from \in Seq(Plain)
  PROVE  /\ found.raw \o found.tables \o from \in Seq(Plain)
         /\ Arbitrated(Best(found, from)) /\ Margin \notin DOMAIN Best(found, from)
         /\ Below(found.raw, Best(found, from)) /\ Below(found.tables, Best(found, from))
         /\ Below(from, Best(found, from))
         /\ \A r \in Candidates(found.raw \o found.tables \o from) :
              r \in Plain /\ r.name \in DOMAIN Best(found, from)
<1> DEFINE b == found.raw \o found.tables
           u == b \o from
           best == Winners(u)
<1>1. b \in Seq(Plain) /\ u \in Seq(Plain)
  OBVIOUS
<1>2. u \in Seq(Rows)
  BY <1>1, FoundIsPlain
<1>3. Candidates(u) = Candidates(found.raw) \cup Candidates(found.tables) \cup Candidates(from)
  <2>1. Candidates(b) = Candidates(found.raw) \cup Candidates(found.tables)
    BY CandidatesOfTwo
  <2> HIDE DEF b
  <2>2. Candidates(u) = Candidates(b) \cup Candidates(from)
    BY <1>1, CandidatesOfTwo
  <2> QED BY <2>1, <2>2
<1>4. Candidates(u) \subseteq Plain
  <2> HIDE DEF u
  <2> QED BY <1>1, RangeOfTwo DEF Candidates
<1> HIDE DEF b, u
<1>5. Arbitrated(best)
  BY <1>2 DEF Arbitrated
<1>6. \A r \in Candidates(u) : r.name \in DOMAIN best /\ Key(best[r.name]) <= Key(r)
  BY <1>2, WinnerIsBest
<1>7. Margin \notin DOMAIN best
  BY <1>2, <1>4, WinnerIsBest, RowKinds
<1>8. best = Best(found, from)
  BY DEF Best, u, b
<1> HIDE DEF best
<1>9. /\ Below(found.raw, best) /\ Below(found.tables, best) /\ Below(from, best)
  BY <1>3, <1>6 DEF Below
<1> QED BY <1>1, <1>4, <1>5, <1>6, <1>7, <1>8, <1>9 DEF u, b

\* With more evidence, the winner of a metric stays or is beaten.
LEMMA MoreEvidence ==
  ASSUME NEW found, found.raw \in Seq(Plain), found.tables \in Seq(Plain),
         NEW from \in Seq(Plain), NEW more \in Seq(Plain)
  PROVE  /\ \A file \in Seq(Rows) : Agree(Winners(file \o from), Best(found, from))
              => Agree(Winners(file \o (from \o more)), Best(found, from \o more))
         /\ \A n \in DOMAIN Best(found, from) :
              /\ n \in DOMAIN Best(found, from \o more)
              /\ \/ Best(found, from \o more)[n] = Best(found, from)[n]
                 \/ Key(Best(found, from \o more)[n]) < Key(Best(found, from)[n])
<1> DEFINE b == found.raw \o found.tables
           u == b \o from
<1>1. b \in Seq(Plain) /\ u \in Seq(Plain) /\ b \o (from \o more) = u \o more
  <2>1. b \in Seq(Plain)
    OBVIOUS
  <2> HIDE DEF b
  <2>2. u \in Seq(Plain)
    BY <2>1
  <2>3. b \o (from \o more) = (b \o from) \o more
    BY <2>1, ConcatPlain, SMTT(40)
  <2> QED BY <2>1, <2>2, <2>3
<1>2. u \in Seq(Rows) /\ more \in Seq(Rows) /\ from \in Seq(Rows)
  BY <1>1, FoundIsPlain
<1>3. Best(found, from) = Winners(u) /\ Best(found, from \o more) = Winners(u \o more)
  BY <1>1 DEF Best
<1> HIDE DEF u
<1>4. ASSUME NEW n \in DOMAIN Winners(u)
      PROVE  /\ n \in DOMAIN Winners(u \o more)
             /\ \/ Winners(u \o more)[n] = Winners(u)[n]
                \/ Key(Winners(u \o more)[n]) < Key(Winners(u)[n])
  <2>1. Key(Winners(u)[n]) \in Nat /\ (n \in DOMAIN Winners(more) => Key(Winners(more)[n]) \in Nat)
    BY <1>2, WinnerIsBest, KeyType
  <2>2. n \in DOMAIN Winners(u \o more)
    BY <1>2, WinnersOfTwo
  <2>3. CASE n \in DOMAIN Winners(more) /\ Key(Winners(more)[n]) < Key(Winners(u)[n])
    <3>1. Winners(u \o more)[n] = Winners(more)[n]
      BY <1>2, <2>3, WinnersOfTwo
    <3> QED BY <2>2, <2>3, <3>1
  <2>4. CASE n \in DOMAIN Winners(more) => Key(Winners(u)[n]) <= Key(Winners(more)[n])
    <3>1. Winners(u \o more)[n] = Winners(u)[n]
      BY <1>2, <2>4, WinnersOfTwo
    <3> QED BY <2>2, <3>1
  <2> QED BY <2>1, <2>3, <2>4
<1>5. ASSUME NEW file \in Seq(Rows), Agree(Winners(file \o from), Winners(u))
      PROVE  Agree(Winners(file \o (from \o more)), Winners(u \o more))
  <2>1. file \o from \in Seq(Rows) /\ file \o (from \o more) = (file \o from) \o more
    BY <1>2, SMTT(40)
  <2> QED BY <2>1, <1>2, <1>5, RowsAppended
<1> QED BY <1>3, <1>4, <1>5

\* A step that arbitrates what it finds with the evidence: the analysis of the
\* static run, or the generation of the dynamic one.
LEMMA FoundStep ==
  ASSUME Figured, NEW found \in Found, given' = found, raw' = found.raw,
         tables' = found.tables, evidence' = evidence,
         Arbitrate(found.raw \o found.tables \o evidence, {})
  PROVE  Figured' /\ Margin \notin DOMAIN canon'
<1> DEFINE rows == found.raw \o found.tables \o evidence
           best == Best(found, evidence)
<1>1. found.raw \in Seq(Plain) /\ found.tables \in Seq(Plain) /\ evidence \in Seq(Plain)
  BY FoundIsPlain DEF Figured, Typed
<1>2. /\ rows \in Seq(Plain) /\ rows \in Seq(Rows)
      /\ Arbitrated(best) /\ Margin \notin DOMAIN best
      /\ Below(found.raw, best) /\ Below(found.tables, best) /\ Below(evidence, best)
      /\ \A r \in Candidates(rows) : r \in Plain /\ r.name \in DOMAIN best
  BY <1>1, BestOfAll, FoundIsPlain
<1>3. best = Winners(rows)
  BY DEF Best
<1>4. /\ canon' = best /\ metrics' = AsFinancialMetrics(best)
      /\ judged' = evidence /\ seen' = Candidates(rows)
  BY <1>3 DEF Arbitrate
<1>5. /\ metrics' \in Seq(Rows) /\ Agree(Winners(metrics'), best)
      /\ Range(metrics') = {best[n] : n \in DOMAIN best} \cup Range(Derived(best))
  BY <1>2, <1>4, MetricsFile
<1>6. \A r \in Candidates(rows) : Key(best[r.name]) <= Key(r)
  BY <1>2, <1>3, WinnerIsBest
<1>7. Best(given', judged') = best
  BY <1>4
<1> HIDE DEF best, rows
<1>8. Typed'
  BY <1>1, <1>2, <1>4, <1>5, RowKinds DEF Typed, Rows
<1>9. AsIfArbitratedOnce'
  BY <1>4, <1>7 DEF AsIfArbitratedOnce, Agree, Once
<1>10. FilesStandForAll'
  <2>1. Agree(Winners(metrics' \o judged'), best)
    BY <1>1, <1>2, <1>4, <1>5, RowsBelow, FoundIsPlain
  <2>2. \A r \in Candidates(found.tables) : r.name # Margin
    BY <1>1, RangeOfTwo, RowKinds, FoundIsPlain DEF Candidates, Rows
  <2>3. AddNothing(found.tables, metrics', best)
    BY <2>2, <1>2, <1>5 DEF AddNothing, Below, Agree
  <2> QED BY <2>1, <2>3, <1>2, <1>7 DEF FilesStandForAll, Once
<1>11. OneMargin'
  <2>1. \A r \in Range(metrics') : r.name = Margin => <<r>> = Derived(best)
    BY <1>2, <1>5, ArbitratedType, DerivedType
  <2>2. \A r \in seen' : r.name # Margin
    BY <1>2, <1>4, RowKinds DEF Rows
  <2> QED BY <2>1, <2>2, <1>2, <1>4 DEF OneMargin
<1>12. NoneSeenBetter'
  BY <1>2, <1>4, <1>6, <1>7 DEF NoneSeenBetter, Once
<1> QED BY <1>2, <1>4, <1>8, <1>9, <1>10, <1>11, <1>12 DEF Figured

\* A phase that passes by: it writes the metrics of canon again, and where
\* canon is empty there is nothing to arbitrate either.
LEMMA TakeStep ==
  ASSUME Figured, judged = evidence, TakeAnalysis
  PROVE  Figured'
<1> DEFINE c == IF canon = <<>> THEN Winners(raw \o tables \o evidence) ELSE canon
<1>1. /\ given' = given /\ judged' = judged /\ evidence' = evidence /\ raw' = raw
      /\ tables' = tables /\ canon' = canon /\ analysed' = analysed /\ seen' = seen /\ analysed
      /\ metrics' = AsFinancialMetrics(c)
  BY DEF TakeAnalysis
<1>2. /\ given.raw \in Seq(Plain) /\ given.tables \in Seq(Plain) /\ judged \in Seq(Plain)
      /\ tables \in Seq(Plain) /\ raw = given.raw
  BY DEF Figured, Typed
<1>3. /\ Arbitrated(Once) /\ Margin \notin DOMAIN Once
      /\ Below(given.raw, Once) /\ Below(judged, Once)
  BY <1>2, BestOfAll DEF Once
<1>4. /\ Arbitrated(canon) /\ Agree(canon, Once) /\ Below(tables, Once)
      /\ AddNothing(tables, metrics, Once)
  BY DEF Figured, Typed, AsIfArbitratedOnce, FilesStandForAll
<1>5. Arbitrated(c) /\ DOMAIN c = DOMAIN canon /\ \A n \in DOMAIN c : c[n] = canon[n]
  <2>1. CASE canon # <<>>
    BY <2>1, <1>4
  <2>2. CASE canon = <<>>
    <3> DEFINE rows == raw \o tables \o evidence
    <3>1. /\ rows \in Seq(Plain)
          /\ Candidates(rows) = Candidates(raw) \cup Candidates(tables) \cup Candidates(evidence)
      <4> DEFINE b == raw \o tables
      <4>1. b \in Seq(Plain) /\ evidence \in Seq(Plain)
        BY <1>2
      <4>2. Candidates(b) = Candidates(raw) \cup Candidates(tables)
        BY <1>2, CandidatesOfTwo
      <4> HIDE DEF b
      <4>3. Candidates(b \o evidence) = Candidates(b) \cup Candidates(evidence)
        BY <4>1, CandidatesOfTwo
      <4>4. b \o evidence \in Seq(Plain)
        BY <4>1
      <4> QED BY <4>2, <4>3, <4>4 DEF b
    <3>2. c = Winners(rows) /\ rows \in Seq(Rows)
      BY <2>2, <3>1, FoundIsPlain
    <3>3. DOMAIN Once = {}
      <4>1. DOMAIN canon = {}
        BY <2>2
      <4> QED BY <4>1, <1>3, <1>4 DEF Agree
    <3>4. \A r \in Candidates(rows) : r.name # Margin
      <4> HIDE DEF rows
      <4> QED BY <3>1, <3>2, CandidatesOfTwo, RowKinds
    <3>5. Candidates(rows) = {}
      <4> HIDE DEF rows
      <4> QED BY <1>2, <1>3, <1>4, <3>1, <3>3, <3>4, SMTT(60) DEF Below
    <3>6. DOMAIN c = {}
      BY <3>2, <3>5 DEF Winners
    <3>7. Arbitrated(c)
      BY <3>2 DEF Arbitrated
    <3> QED BY <2>2, <3>6, <3>7
  <2> QED BY <2>1, <2>2
<1> HIDE DEF c
<1>6. Agree(c, Once) /\ Agree(c, canon)
  BY <1>4, <1>5 DEF Agree
<1>7. /\ metrics' \in Seq(Rows) /\ Agree(Winners(metrics'), c)
      /\ Range(metrics') = {c[n] : n \in DOMAIN c} \cup Range(Derived(c))
  BY <1>1, <1>5, MetricsFile
<1>8. Agree(Winners(metrics'), Once)
  BY <1>6, <1>7 DEF Agree
<1>9. Once' = Once
  BY <1>1 DEF Once
<1>10. Typed'
  BY <1>1, <1>7 DEF Figured, Typed
<1>11. AsIfArbitratedOnce'
  BY <1>1, <1>4, <1>9 DEF AsIfArbitratedOnce
<1>12. FilesStandForAll'
  <2>1. Agree(Winners(metrics' \o judged'), Once)
    BY <1>1, <1>2, <1>3, <1>7, <1>8, RowsBelow, FoundIsPlain
  <2>2. \A r \in Candidates(tables) : r.name # Margin
    BY <1>2, RangeOfTwo, RowKinds DEF Candidates, Rows
  <2>3. AddNothing(tables, metrics', Once)
    BY <2>2, <1>4, <1>8 DEF AddNothing, Below, Agree
  <2> QED BY <2>1, <2>3, <1>1, <1>4, <1>9 DEF FilesStandForAll
<1>13. OneMargin'
  <2>1. Derived(c) = Derived(canon)
    BY <1>5, <1>6, DerivedType
  <2>2. \A r \in Range(metrics') : r.name = Margin => <<r>> = Derived(canon)
    <3> SUFFICES ASSUME NEW r \in Range(metrics'), r.name = Margin
                 PROVE  <<r>> = Derived(canon)
      OBVIOUS
    <3>1. CASE r \in Range(Derived(c))
      BY <3>1, <1>5, <2>1, DerivedType
    <3>2. CASE r \in {c[n] : n \in DOMAIN c}
      <4>1. Margin \in DOMAIN canon /\ r = canon[Margin]
        BY <3>2, <1>5, ArbitratedType
      <4> QED BY <4>1, <1>1 DEF Figured, OneMargin
    <3> QED BY <3>1, <3>2, <1>7
  <2>3. Margin \in DOMAIN canon => canon[Margin] \in Range(metrics')
    BY <1>5, <1>7
  <2>4. \A q, r : <<q>> = Derived(canon) /\ <<r>> = Derived(canon) => q = r
    OBVIOUS
  <2> QED BY <2>2, <2>3, <2>4, <1>1 DEF Figured, OneMargin
<1>14. NoneSeenBetter'
  BY <1>1, <1>9 DEF Figured, NoneSeenBetter
<1> QED BY <1>10, <1>11, <1>12, <1>13, <1>14 DEF Figured

\* A step that refreshes: the metrics file, the tables and the evidence, that of
\* before or more, compete, and the tables become the projection of who wins.
LEMMA RefreshStep ==
  ASSUME Figured, NEW more \in Seq(Plain), analysed => more = <<>>,
         Refreshed(judged \o more), evidence' \in Seq(Plain),
         given' = given, raw' = raw, metrics' = metrics, analysed' = analysed
  PROVE  Figured'
<1> DEFINE from == judged \o more
           rows == metrics \o tables \o from
           best == Best(given, from)
<1>1. /\ given.raw \in Seq(Plain) /\ given.tables \in Seq(Plain) /\ judged \in Seq(Plain)
      /\ tables \in Seq(Plain) /\ raw = given.raw /\ metrics \in Seq(Rows)
      /\ Arbitrated(canon)
  BY DEF Figured, Typed
<1>2. from \in Seq(Plain)
  BY <1>1
<1>3. /\ canon' = Winners(rows) /\ judged' = from
      /\ tables' = tables \/ tables' = Projected(canon')
      /\ seen' = seen \cup Candidates(rows)
  BY DEF Refreshed
<1>4. /\ rows \in Seq(Rows)
      /\ Candidates(rows) = Candidates(metrics) \cup Candidates(tables) \cup Candidates(from)
  <2> DEFINE b == metrics \o tables
  <2> HIDE DEF from
  <2>1. b \in Seq(Rows) /\ from \in Seq(Rows) /\ tables \in Seq(Rows)
    BY <1>1, <1>2, FoundIsPlain
  <2>2. Candidates(b) = Candidates(metrics) \cup Candidates(tables)
    BY <1>1, <2>1, CandidatesOfTwo
  <2> HIDE DEF b
  <2>3. Candidates(b \o from) = Candidates(b) \cup Candidates(from)
    BY <2>1, CandidatesOfTwo
  <2>4. b \o from \in Seq(Rows)
    BY <2>1
  <2> QED BY <2>2, <2>3, <2>4 DEF b
<1>5. /\ Arbitrated(best) /\ Margin \notin DOMAIN best /\ Below(from, best)
  BY <1>1, <1>2, BestOfAll
<1>6. /\ Agree(Winners(metrics \o from), best)
      /\ \A n \in DOMAIN Once : /\ n \in DOMAIN best
                                /\ \/ best[n] = Once[n]
                                   \/ Key(best[n]) < Key(Once[n])
  BY <1>1, MoreEvidence DEF Figured, FilesStandForAll, Once
<1>7. Best(given', judged') = best
  BY <1>3
<1>8. Arbitrated(Once) /\ Margin \notin DOMAIN Once
  BY <1>1, BestOfAll DEF Once
<1> HIDE DEF best, rows, from
<1>9. /\ \A n \in DOMAIN best : Key(best[n]) \in Nat
      /\ \A n \in DOMAIN Once : Key(Once[n]) \in Nat
  BY <1>5, <1>8, ArbitratedType, KeyType
<1>10. \A r \in Candidates(tables) : r \in Rows /\ Key(r) \in Nat /\ r.name # Margin
  BY <1>1, RangeOfTwo, RowKinds DEF Candidates, Rows
<1>11. Below(tables, best) /\ AddNothing(tables, metrics, best)
  <2> SUFFICES ASSUME NEW t \in Candidates(tables)
               PROVE  /\ t.name \in DOMAIN best /\ Key(best[t.name]) <= Key(t)
                      /\ \/ t = best[t.name]
                         \/ Key(best[t.name]) < Key(t)
                         \/ /\ t.name \in DOMAIN Winners(metrics)
                            /\ Key(Winners(metrics)[t.name]) <= Key(t)
    BY DEF Below, AddNothing
  <2>1. /\ t.name \in DOMAIN Once /\ Key(Once[t.name]) <= Key(t)
        /\ \/ t = Once[t.name]
           \/ Key(Once[t.name]) < Key(t)
           \/ /\ t.name \in DOMAIN Winners(metrics)
              /\ Key(Winners(metrics)[t.name]) <= Key(t)
    BY <1>10 DEF Figured, FilesStandForAll, Below, AddNothing
  <2> QED BY <2>1, <1>6, <1>9, <1>10
<1>12. Agree(canon', best)
  <2>1. canon' = Winners(metrics \o tables \o from)
    BY <1>3 DEF rows
  <2> QED BY <2>1, <1>1, <1>2, <1>5, <1>6, <1>11, RowsInserted, FoundIsPlain
<1>13. Arbitrated(canon')
  BY <1>3, <1>4 DEF Arbitrated
<1>14. \A r \in Candidates(rows) : r.name = Margin => r \in Candidates(metrics)
  <2>1. \A r \in Candidates(from) : r.name # Margin
    BY <1>2, RangeOfTwo, RowKinds DEF Candidates, Rows
  <2> QED BY <2>1, <1>4, <1>10
<1>15. Typed'
  <2>1. tables' \in Seq(Plain)
    BY <1>1, <1>3, <1>13, Projection
  <2>2. seen' \subseteq Rows
    BY <1>3, <1>4, CandidatesOfTwo DEF Figured, Typed
  <2> QED BY <2>1, <2>2, <1>1, <1>2, <1>3, <1>13 DEF Typed
<1>16. AsIfArbitratedOnce'
  BY <1>7, <1>12 DEF AsIfArbitratedOnce, Once
<1>17. FilesStandForAll'
  <2>1. CASE tables' = tables
    BY <2>1, <1>3, <1>6, <1>7, <1>11 DEF FilesStandForAll, Once
  <2>2. CASE tables' = Projected(canon')
    <3>1. \A t \in Candidates(tables') :
            /\ t.name \in DOMAIN best
            /\ t = best[t.name] \/ Key(best[t.name]) < Key(t)
      <4> SUFFICES ASSUME NEW t \in Candidates(tables')
                   PROVE  /\ t.name \in DOMAIN best
                          /\ t = best[t.name] \/ Key(best[t.name]) < Key(t)
        OBVIOUS
      <4>1. PICK n \in DOMAIN canon' : n # Margin /\ t.name = n /\ t = InTable(canon'[n])
        BY <2>2, <1>13, Projection DEF Candidates
      <4>2. n \in DOMAIN best /\ best[n] = canon'[n] /\ best[n] \in Plain
        BY <4>1, <1>5, <1>12, ArbitratedType DEF Agree
      <4> QED BY <4>1, <4>2, InTableRanksLower
    <3>2. Below(tables', best) /\ AddNothing(tables', metrics', best)
      <4>1. \A t \in Candidates(tables') : Key(t) \in Nat
        BY <2>2, <1>13, Projection, RangeOfTwo, RowKinds DEF Candidates, Rows
      <4> QED BY <3>1, <4>1, <1>9 DEF Below, AddNothing
    <3> QED BY <3>2, <1>3, <1>6, <1>7 DEF FilesStandForAll, Once
  <2> QED BY <2>1, <2>2, <1>3
<1>18. OneMargin'
  <2>1. \A q, r \in Range(metrics) : q.name = Margin /\ r.name = Margin => q = r
    BY DEF Figured, OneMargin
  <2>2. Candidates(metrics) \subseteq Range(metrics)
    BY DEF Candidates
  <2>3. Margin \in DOMAIN canon' => canon'[Margin] \in Range(metrics) /\ canon'[Margin].name = Margin
    BY <2>2, <1>3, <1>4, <1>14, WinnerIsBest
  <2>4. \A r \in Candidates(metrics) : r.name = Margin =>
          Margin \in DOMAIN canon' /\ canon'[Margin] = r
    BY <2>1, <2>2, <2>3, <1>3, <1>4, WinnerIsBest
  <2>5. \A r \in seen' : r.name = Margin => Margin \in DOMAIN canon' /\ canon'[Margin] = r
    <3>1. \A r \in seen : r.name = Margin => r \in Range(metrics) /\ r.fit # "no"
      BY <1>1, ArbitratedType DEF Figured, OneMargin
    <3> QED BY <3>1, <2>4, <1>3, <1>14 DEF Candidates
  <2>6. analysed => Derived(canon') = Derived(canon)
    <3> SUFFICES ASSUME analysed PROVE Derived(canon') = Derived(canon)
      OBVIOUS
    <3>1. from = judged
      BY <1>1 DEF from
    <3>2. Agree(canon', canon)
      BY <3>1, <1>12 DEF Agree, Figured, AsIfArbitratedOnce, Once, best
    <3> QED BY <3>2, <1>13, DerivedType
  <2> QED BY <2>1, <2>3, <2>5, <2>6 DEF OneMargin, Figured
<1>19. NoneSeenBetter'
  <2>1. ASSUME NEW r \in seen, r.name # Margin
        PROVE  r.name \in DOMAIN best /\ Key(best[r.name]) <= Key(r)
    <3>1. r.name \in DOMAIN Once /\ Key(Once[r.name]) <= Key(r) /\ Key(r) \in Nat
      BY <2>1, KeyType DEF Figured, NoneSeenBetter, Typed
    <3> QED BY <3>1, <1>6, <1>9
  <2>2. ASSUME NEW r \in Candidates(metrics), r.name # Margin
        PROVE  r.name \in DOMAIN best /\ Key(best[r.name]) <= Key(r)
    <3>1. metrics \o from \in Seq(Rows) /\ r \in Candidates(metrics \o from)
      BY <1>1, <1>2, CandidatesOfTwo, FoundIsPlain
    <3> QED BY <3>1, <2>2, <1>6, WinnerIsBest DEF Agree
  <2>3. ASSUME NEW r \in seen', r.name # Margin
        PROVE  r.name \in DOMAIN best /\ Key(best[r.name]) <= Key(r)
    BY <2>1, <2>2, <2>3, <1>3, <1>4, <1>5, <1>11 DEF Below
  <2> QED BY <2>3, <1>7 DEF NoneSeenBetter, Once
<1> QED BY <1>15, <1>16, <1>17, <1>18, <1>19 DEF Figured

LEMMA InitSettled == Init => Settled
<1> SUFFICES ASSUME Init PROVE Settled
  OBVIOUS
<1>1. PICK S \in SUBSET MarketRows : evidence = SetToSeq(S)
  BY DEF Init
<1>2. evidence \in Seq(Plain)
  <2>1. IsFiniteSet(S) /\ S \subseteq Plain
    BY FoundIsPlain, FS_Subset
  <2> QED BY <1>1, <2>1, AsSequence
<1>3. /\ <<>> \in Seq(Plain) /\ <<>> \in Seq(Rows) /\ Range(<<>>) = {} /\ Candidates(<<>>) = {}
  BY DEF Candidates, Range
<1>4. /\ raw = <<>> /\ tables = <<>> /\ metrics = <<>> /\ canon = <<>> /\ judged = <<>>
      /\ given.raw = <<>> /\ given.tables = <<>> /\ seen = {} /\ analysed = FALSE
      /\ node \in {"analyze", "generate"}
  BY DEF Init
<1>5. DOMAIN Winners(<<>>) = {} /\ Winners(<<>>) = <<>>
  BY <1>3 DEF Winners
<1>6. Once = Winners(<<>>)
  BY <1>4 DEF Once, Best
<1>7. Typed
  BY <1>2, <1>3, <1>4, <1>5 DEF Typed, Arbitrated
<1>8. Places
  BY <1>4 DEF Places, StaticNodes, DynamicNodes
<1>9. AsIfArbitratedOnce
  BY <1>4, <1>5, <1>6 DEF AsIfArbitratedOnce, Agree
<1>10. FilesStandForAll
  <2>1. metrics \o judged = <<>>
    BY <1>4
  <2> QED BY <2>1, <1>3, <1>4, <1>5, <1>6 DEF FilesStandForAll, Agree, Below, AddNothing
<1>11. OneMargin /\ NoneSeenBetter
  BY <1>3, <1>4 DEF OneMargin, NoneSeenBetter
<1> QED BY <1>7, <1>8, <1>9, <1>10, <1>11 DEF Settled, Figured

\* The figures that a step leaves, it leaves alone; and it makes no other margin
\* than the metrics file has.
MarginKept ==
  Margin \in DOMAIN canon' =>
    \/ canon' = canon
    \/ metrics' = metrics

LEMMA NextSettled == Settled /\ [Next]_vars => Settled' /\ MarginKept
<1> SUFFICES ASSUME Settled, [Next]_vars PROVE Settled' /\ MarginKept
  OBVIOUS
<1>1. /\ node \in StaticNodes \cup DynamicNodes /\ (analysed => node \in StaticNodes)
      /\ node \in {"build", "prepare", "write"} => analysed
      /\ analysed \/ node = "refresh" => judged = evidence
      /\ Figured
  BY DEF Settled, Places
<1>2. /\ judged \in Seq(Plain) /\ evidence \in Seq(Plain) /\ <<>> \in Seq(Plain)
  BY <1>1 DEF Figured, Typed
<1>3. judged \o <<>> = judged
  BY <1>2
<1>4. CASE Analyze
  <2>1. Figured' /\ Margin \notin DOMAIN canon'
    <3>1. PICK found \in Found : /\ given' = found /\ raw' = found.raw /\ tables' = found.tables
                                 /\ Arbitrate(found.raw \o found.tables \o evidence, {})
      BY <1>4 DEF Analyze
    <3>2. evidence' = evidence
      BY <1>4 DEF Analyze
    <3> QED BY <3>1, <3>2, <1>1, FoundStep
  <2>2. Places'
    BY <1>4 DEF Analyze, From, To, Places, Arbitrate, StaticNodes, DynamicNodes
  <2> QED BY <2>1, <2>2 DEF Settled, MarginKept
<1>5. ASSUME AnalyzeAgain \/ PrepareWrite \/ WriteReport
      PROVE  Settled' /\ MarginKept
  <2>1. TakeAnalysis /\ analysed /\ canon' = canon
    BY <1>5 DEF AnalyzeAgain, PrepareWrite, WriteReport, TakeAnalysis
  <2>2. Figured'
    BY <2>1, <1>1, TakeStep
  <2>3. Places'
    BY <2>1, <1>1, <1>5 DEF AnalyzeAgain, PrepareWrite, WriteReport, TakeAnalysis, From, To,
                            Places, StaticNodes, DynamicNodes
  <2> QED BY <2>1, <2>2, <2>3 DEF Settled, MarginKept
<1>6. CASE BuildCanonicalMetrics
  <2>1. /\ Refreshed(evidence) /\ analysed /\ judged = evidence /\ metrics' = metrics
        /\ evidence' = evidence /\ raw' = raw /\ analysed' = analysed /\ given' = given
    BY <1>1, <1>6 DEF BuildCanonicalMetrics, From
  <2>2. Refreshed(judged \o <<>>)
    BY <2>1, <1>3
  <2>3. Figured'
    BY <2>1, <2>2, <1>1, <1>2, RefreshStep
  <2>4. Places'
    BY <2>1, <1>1, <1>6 DEF BuildCanonicalMetrics, Refreshed, From, To, Places, StaticNodes,
                            DynamicNodes
  <2> QED BY <2>1, <2>3, <2>4 DEF Settled, MarginKept
<1>7. CASE Generate
  <2>1. Figured' /\ Margin \notin DOMAIN canon'
    <3>1. PICK found \in Found : /\ given' = found /\ raw' = found.raw /\ tables' = found.tables
                                 /\ Arbitrate(found.raw \o found.tables \o evidence, {})
      BY <1>7 DEF Generate
    <3>2. evidence' = evidence
      BY <1>7 DEF Generate
    <3> QED BY <3>1, <3>2, <1>1, FoundStep
  <2>2. Places'
    BY <1>1, <1>7 DEF Generate, From, To, Places, Arbitrate, StaticNodes, DynamicNodes
  <2> QED BY <2>1, <2>2 DEF Settled, MarginKept
<1>8. CASE AttachAndRefresh
  <2>1. PICK S \in SUBSET MarketRows :
          LET grown == evidence \o SetToSeq(S \ Range(evidence))
          IN evidence' = grown /\ Refreshed(grown)
    BY <1>8 DEF AttachAndRefresh
  <2> DEFINE more == SetToSeq(S \ Range(evidence))
  <2>2. more \in Seq(Plain)
    <3>1. IsFiniteSet(S \ Range(evidence)) /\ S \ Range(evidence) \subseteq Plain
      BY FoundIsPlain, FS_Subset
    <3> QED BY <3>1, AsSequence
  <2>3. /\ node = "refresh" /\ ~analysed /\ judged = evidence
        /\ raw' = raw /\ metrics' = metrics /\ analysed' = analysed /\ given' = given
    BY <1>1, <1>8 DEF AttachAndRefresh, From, StaticNodes
  <2>4. Refreshed(judged \o more) /\ evidence' = judged \o more
    BY <2>1, <2>3
  <2> HIDE DEF more
  <2>5. evidence' \in Seq(Plain)
    BY <2>2, <2>4, <1>2
  <2>6. Figured'
    BY <2>2, <2>3, <2>4, <2>5, <1>1, RefreshStep
  <2>7. Places'
    BY <2>3, <2>4, <1>8 DEF AttachAndRefresh, Refreshed, To, Places, StaticNodes, DynamicNodes
  <2> QED BY <2>3, <2>6, <2>7 DEF Settled, MarginKept
<1>9. CASE UNCHANGED vars
  <2>1. Settled'
    BY <1>9, <1>1 DEF vars, Settled, Places, Figured, Typed, AsIfArbitratedOnce, FilesStandForAll,
                OneMargin, NoneSeenBetter, Once
  <2> QED BY <2>1, <1>9 DEF vars, MarginKept
<1> QED BY <1>4, <1>5, <1>6, <1>7, <1>8, <1>9 DEF Next

LEMMA AlwaysSettled == Spec => []Settled
<1> QED BY InitSettled, NextSettled, PTL DEF Spec

\* Winners are named after their metric, and took part.
LEMMA WinnersTyped ==
  ASSUME NEW s \in Seq(Rows)
  PROVE  \A n \in DOMAIN Winners(s) : Winners(s)[n].name = n /\ Winners(s)[n] \in Candidates(s)
BY WinnerIsBest

LEMMA ThreeSequences ==
  ASSUME NEW q \in Seq(Rows), NEW r \in Seq(Plain), NEW s \in Seq(Plain)
  PROVE  q \o r \o s \in Seq(Rows)
<1>1. q \o r \in Seq(Rows) /\ s \in Seq(Rows)
  BY FoundIsPlain
<1> QED BY <1>1

LEMMA NextTyped == Settled /\ TypeOK /\ [Next]_vars => TypeOK'
<1> SUFFICES ASSUME Settled, TypeOK, [Next]_vars PROVE TypeOK'
  OBVIOUS
<1>1. node' \in StaticNodes \cup DynamicNodes /\ (analysed' => node' \in StaticNodes)
  BY NextSettled DEF Settled, Places
<1>2. /\ raw \in Seq(Plain) /\ tables \in Seq(Plain) /\ evidence \in Seq(Plain)
      /\ metrics \in Seq(Rows) /\ Seq(Plain) \subseteq Seq(Rows)
  BY FoundIsPlain DEF Settled, Figured, Typed
<1> DEFINE Named == \A n \in DOMAIN canon' : canon'[n].name = n /\ canon'[n] \in seen'
           Held == \A n \in DOMAIN written' : written'[n].name = n
<1>3. ASSUME NEW found \in Found
      PROVE  found.raw \o found.tables \o evidence \in Seq(Rows)
  BY <1>2, FoundIsPlain, ThreeSequences
<1>4. ASSUME NEW found \in Found, Arbitrate(found.raw \o found.tables \o evidence, {})
      PROVE  Named
  BY <1>3, <1>4, WinnersTyped DEF Arbitrate
<1>5. ASSUME NEW from \in Seq(Plain), Refreshed(from)
      PROVE  Named
  <2>1. metrics \o tables \o from \in Seq(Rows)
    BY <1>2, ThreeSequences
  <2> QED BY <2>1, <1>5, WinnersTyped DEF Refreshed
<1>6. CASE Analyze
  BY <1>1, <1>4, <1>6 DEF Analyze, TypeOK
<1>7. CASE Generate
  <2>1. PICK found \in Found : /\ written' = Winners(found.raw \o found.tables \o evidence)
                               /\ Arbitrate(found.raw \o found.tables \o evidence, {})
    BY <1>7 DEF Generate
  <2>2. Named /\ Held
    BY <2>1, <1>3, <1>4, WinnersTyped
  <2> QED BY <2>2, <1>1 DEF TypeOK
<1>8. CASE AnalyzeAgain \/ WriteReport
  BY <1>1, <1>8 DEF AnalyzeAgain, WriteReport, TakeAnalysis, TypeOK
<1>9. CASE PrepareWrite
  <2>1. raw \o tables \o evidence \in Seq(Rows)
    BY <1>2, ThreeSequences
  <2>2. Held
    BY <2>1, <1>9, WinnersTyped DEF PrepareWrite
  <2> QED BY <2>2, <1>1, <1>9 DEF PrepareWrite, TakeAnalysis, TypeOK
<1>10. CASE BuildCanonicalMetrics
  BY <1>1, <1>2, <1>5, <1>10 DEF BuildCanonicalMetrics, TypeOK
<1>11. CASE AttachAndRefresh
  <2>1. Settled'
    BY NextSettled
  <2>2. evidence' \in Seq(Plain) /\ Refreshed(evidence') /\ written' = written
    BY <2>1, <1>11 DEF AttachAndRefresh, Settled, Figured, Typed
  <2>3. Named
    BY <2>2, <1>5
  <2> QED BY <2>2, <2>3, <1>1 DEF TypeOK
<1>12. CASE UNCHANGED vars
  BY <1>12 DEF vars, TypeOK
<1> QED BY <1>6, <1>7, <1>8, <1>9, <1>10, <1>11, <1>12 DEF Next

-----------------------------------------------------------------------------
(***************************************************************************)
(* The theorems.                                                           *)
(***************************************************************************)
\* Type correctness: a canonical metric is one of its own name, and a row that
\* took part in an arbitration.
THEOREM FiguresTyped == Spec => []TypeOK
<1>1. Init => TypeOK
  BY DEF Init, TypeOK, StaticNodes, DynamicNodes
<1> QED BY <1>1, NextTyped, AlwaysSettled, PTL DEF Spec

\* Path independence: after any number of analyses, rebuilds, passing phases and
\* refreshes, over projected tables and rewritten files, the canonical metrics,
\* the margin aside, are those of one arbitration of everything found with the
\* evidence judged last.
THEOREM AsIfArbitratedOnceHolds == Spec => []AsIfArbitratedOnce
<1>1. Settled => AsIfArbitratedOnce
  BY DEF Settled, Figured
<1> QED BY <1>1, AlwaysSettled, PTL

\* No repetition loses the best row.
LEMMA SettledLosesNothing == Settled => NothingBetterLost
<1> SUFFICES ASSUME Settled, NEW r \in seen
             PROVE  r.name \in DOMAIN canon /\ Key(canon[r.name]) <= Key(r)
  BY DEF NothingBetterLost
<1>1. CASE r.name = Margin
  <2>1. r.name \in DOMAIN canon /\ canon[r.name] = r /\ r \in Rows
    BY <1>1 DEF Settled, Figured, OneMargin, Typed
  <2> QED BY <2>1, KeyType
<1>2. CASE r.name # Margin
  BY <1>2 DEF Settled, Figured, NoneSeenBetter, AsIfArbitratedOnce, Agree
<1> QED BY <1>1, <1>2

THEOREM NothingBetterLostHolds == Spec => []NothingBetterLost
<1> QED BY SettledLosesNothing, AlwaysSettled, PTL

\* Repeating the arbitration on the same findings and the same evidence changes
\* no figure, the margin included.
LEMMA StepSettles ==
  ASSUME Settled, Settled', MarginKept, given' = given, judged' = judged,
         NEW n \in DOMAIN canon \cap DOMAIN canon'
  PROVE  canon'[n].value = canon[n].value
<1>1. CASE n # Margin
  <2>1. Agree(canon, Once) /\ Agree(canon', Once')
    BY DEF Settled, Figured, AsIfArbitratedOnce
  <2>2. Once' = Once
    BY DEF Once
  <2> QED BY <2>1, <2>2, <1>1 DEF Agree
<1>2. CASE n = Margin /\ canon' = canon
  BY <1>2
<1>3. CASE n = Margin /\ metrics' = metrics
  <2>1. canon[n] \in Range(metrics) /\ canon'[n] \in Range(metrics)
    BY <1>3 DEF Settled, Figured, OneMargin
  <2>2. canon[n].name = Margin /\ canon'[n].name = Margin
    BY <1>3, ArbitratedType DEF Settled, Figured, Typed
  <2> QED BY <2>1, <2>2 DEF Settled, Figured, OneMargin
<1> QED BY <1>1, <1>2, <1>3 DEF MarginKept

THEOREM FiguresSettleHolds == Spec => FiguresSettle
<1>1. Settled /\ Settled' /\ [Next]_vars =>
        [given' = given /\ judged' = judged =>
           \A n \in DOMAIN canon \cap DOMAIN canon' : canon'[n].value = canon[n].value]_vars
  BY NextSettled, StepSettles
<1> QED BY <1>1, AlwaysSettled, PTL DEF Spec, FiguresSettle
=============================================================================
