-------------------------- MODULE MenuSearchProofs --------------------------
(***************************************************************************)
(* What the searches for menus find, for every menu, text, dictionary of   *)
(* slang and categories, limit, and outcome of the embedding search.       *)
(***************************************************************************)
EXTENDS MenuSearch, ListsProofs

-----------------------------------------------------------------------------
(* Lists *)

LEMMA MaxIs ==
  ASSUME NEW S \in SUBSET Int, NEW x \in S, \A y \in S : y <= x
  PROVE  Max(S) = x
<1>1. \A y \in S : x >= y
  OBVIOUS
<1>2. Max(S) \in S /\ \A y \in S : Max(S) >= y
  BY <1>1 DEF Max
<1>3. Max(S) \in Int /\ x \in Int /\ Max(S) <= x /\ Max(S) >= x
  BY <1>2
<1> QED
  BY <1>3

\* A comprehension has the elements at its places, and as often as the list has.
HasJust(r, s, K) ==
  /\ \A i \in 1 .. Len(r) : \E k \in K : r[i] = s[k]
  /\ \A k \in K : \E i \in 1 .. Len(r) : r[i] = s[k]

LEMMA ChosenElements ==
  ASSUME NEW T, NEW s \in Seq(T), NEW K \in SUBSET (1 .. Len(s)), NEW r, r = ElementsAt(s, K)
  PROVE  r \in Seq(T) /\ HasJust(r, s, K)
<1>1. r \in Seq(T) /\ \E e \in Seq(K) : Picked(s, K, r, e)
  BY ElementsAtPicks
<1>2. PICK e \in Seq(K) : Picked(s, K, r, e)
  BY <1>1
<1>3. /\ Len(r) = Len(e)
      /\ \A i \in 1 .. Len(r) : e[i] \in K /\ r[i] = s[e[i]]
      /\ \A k \in K : \E i \in 1 .. Len(r) : e[i] = k
  BY <1>2, ElementOfSeq DEF Picked, Enumerates
<1>4. \A i \in 1 .. Len(r) : \E k \in K : r[i] = s[k]
  BY <1>3
<1>5. \A k \in K : \E i \in 1 .. Len(r) : r[i] = s[k]
  BY <1>3
<1> QED
  BY <1>1, <1>4, <1>5, Zenon DEF HasJust

LEMMA ChosenOnce ==
  ASSUME NEW T, NEW s \in Seq(T), NEW K \in SUBSET (1 .. Len(s)), NEW r, r = ElementsAt(s, K),
         \A j, k \in K : s[j] = s[k] => j = k
  PROVE  IsInjective(r)
<1>1. r \in Seq(T) /\ \E e \in Seq(K) : Picked(s, K, r, e)
  BY ElementsAtPicks
<1>2. PICK e \in Seq(K) : Picked(s, K, r, e)
  BY <1>1
<1>3. /\ Len(e) \in Nat /\ Len(r) = Len(e)
      /\ \A i \in 1 .. Len(r) : e[i] \in K /\ r[i] = s[e[i]]
      /\ \A i, j \in 1 .. Len(r) : i < j => e[i] < e[j]
  BY <1>2, ElementOfSeq, LenProperties DEF Picked, Enumerates
<1>4. DOMAIN r = 1 .. Len(r)
  BY <1>1, LenProperties
<1> SUFFICES ASSUME NEW i \in 1 .. Len(r), NEW j \in 1 .. Len(r), r[i] = r[j], i # j
             PROVE  FALSE
  BY <1>4 DEF IsInjective
<1>5. e[i] \in K /\ e[j] \in K /\ s[e[i]] = s[e[j]]
  BY <1>3
<1>6. e[i] = e[j]
  BY <1>5, Zenon
<1>7. e[i] \in Int
  <2>1. \A k \in K : k \in Int
    BY LenProperties
  <2> QED
    BY <1>5, <2>1, Zenon
<1>8. e[i] < e[j] \/ e[j] < e[i]
  BY <1>3
<1> QED
  BY <1>6, <1>7, <1>8

\* What a list of lists has, its flattening has, and nothing else; and once, when
\* no element is in two places of the lists.
Apart(F, n) ==
  \A k, l \in 1 .. n : \A i \in 1 .. Len(F[k]), j \in 1 .. Len(F[l]) :
    F[k][i] = F[l][j] => k = l /\ i = j

Joins(F, n, r) ==
  /\ \A i \in 1 .. Len(r) : \E k \in 1 .. n : \E j \in 1 .. Len(F[k]) : r[i] = F[k][j]
  /\ \A k \in 1 .. n : \A j \in 1 .. Len(F[k]) : \E i \in 1 .. Len(r) : r[i] = F[k][j]
  /\ Apart(F, n) => \A i, j \in 1 .. Len(r) : r[i] = r[j] => i = j

LEMMA JoinsNext ==
  ASSUME NEW T, NEW F \in Seq(Seq(T)), NEW n \in Nat, n + 1 <= Len(F),
         NEW r \in Seq(T), Joins(F, n, r)
  PROVE  Joins(F, n + 1, r \o F[n + 1])
<1>1. PICK f \in Seq(T) : f = F[n + 1]
  BY ElementOfSeq, LenProperties
<1>2. PICK s \in Seq(T) : s = r \o f
  BY JoinProperties
<1>3. /\ Len(r) \in Nat /\ Len(f) \in Nat /\ Len(s) = Len(r) + Len(f)
      /\ \A i \in 1 .. Len(r) : s[i] = r[i]
      /\ \A i \in 1 .. Len(f) : s[Len(r) + i] = f[i]
  BY <1>2, JoinProperties
<1>4. \A i \in 1 .. Len(s) : i \in 1 .. Len(r) \/ \E j \in 1 .. Len(f) : i = Len(r) + j
  <2> SUFFICES ASSUME NEW i \in 1 .. Len(s), i \notin 1 .. Len(r)
               PROVE  \E j \in 1 .. Len(f) : i = Len(r) + j
    OBVIOUS
  <2>1. i - Len(r) \in 1 .. Len(f) /\ i = Len(r) + (i - Len(r))
    BY <1>3
  <2> QED
    BY <2>1
<1>5. \A k \in 1 .. n + 1 : k \in 1 .. n \/ k = n + 1
  OBVIOUS
<1>6. 1 .. n \subseteq 1 .. n + 1 /\ n + 1 \in 1 .. n + 1
  OBVIOUS
<1>7. ASSUME NEW i \in 1 .. Len(s)
      PROVE  \E k \in 1 .. n + 1 : \E j \in 1 .. Len(F[k]) : s[i] = F[k][j]
  <2>1. CASE i \in 1 .. Len(r)
    <3>1. PICK k \in 1 .. n : \E j \in 1 .. Len(F[k]) : r[i] = F[k][j]
      BY <2>1 DEF Joins
    <3> QED
      BY <1>3, <1>6, <2>1, <3>1
  <2>2. ASSUME NEW j \in 1 .. Len(f), i = Len(r) + j
        PROVE  \E k \in 1 .. n + 1 : \E l \in 1 .. Len(F[k]) : s[i] = F[k][l]
    BY <1>1, <1>3, <1>6, <2>2
  <2> QED
    BY <1>4, <2>1, <2>2
<1>8. ASSUME NEW k \in 1 .. n + 1, NEW j \in 1 .. Len(F[k])
      PROVE  \E i \in 1 .. Len(s) : s[i] = F[k][j]
  <2>1. CASE k \in 1 .. n
    <3>1. PICK i \in 1 .. Len(r) : r[i] = F[k][j]
      BY <2>1 DEF Joins
    <3>2. i \in 1 .. Len(s)
      BY <1>3
    <3> QED
      BY <1>3, <3>1, <3>2
  <2>2. CASE k = n + 1
    <3>1. j \in 1 .. Len(f) /\ Len(r) + j \in 1 .. Len(s)
      BY <1>1, <1>3, <2>2
    <3> QED
      BY <1>1, <1>3, <2>2, <3>1
  <2> QED
    BY <1>5, <2>1, <2>2
<1>9. ASSUME Apart(F, n + 1)
      PROVE  \A i, j \in 1 .. Len(s) : s[i] = s[j] => i = j
  <2>1. \A i, j \in 1 .. Len(r) : r[i] = r[j] => i = j
    <3>1. Apart(F, n)
      BY <1>6, <1>9 DEF Apart
    <3> QED
      BY <3>1 DEF Joins
  <2>2. \A i, j \in 1 .. Len(f) : f[i] = f[j] => i = j
    BY <1>1, <1>6, <1>9 DEF Apart
  <2>3. ASSUME NEW i \in 1 .. Len(r), NEW j \in 1 .. Len(f), r[i] = f[j]
        PROVE  FALSE
    <3>1. PICK k \in 1 .. n : \E l \in 1 .. Len(F[k]) : r[i] = F[k][l]
      BY DEF Joins
    <3>2. PICK l \in 1 .. Len(F[k]) : r[i] = F[k][l]
      BY <3>1
    <3>3. k = n + 1
      BY <1>1, <1>6, <1>9, <2>3, <3>2 DEF Apart
    <3> QED
      BY <3>3
  <2> SUFFICES ASSUME NEW i \in 1 .. Len(s), NEW j \in 1 .. Len(s), s[i] = s[j]
               PROVE  i = j
    OBVIOUS
  <2>4. CASE i \in 1 .. Len(r) /\ j \in 1 .. Len(r)
    BY <1>3, <2>1, <2>4
  <2>5. ASSUME NEW k \in 1 .. Len(f), NEW l \in 1 .. Len(f), i = Len(r) + k, j = Len(r) + l
        PROVE  i = j
    BY <1>3, <2>2, <2>5
  <2>6. ASSUME i \in 1 .. Len(r), NEW l \in 1 .. Len(f), j = Len(r) + l
        PROVE  FALSE
    BY <1>3, <2>3, <2>6
  <2>7. ASSUME j \in 1 .. Len(r), NEW l \in 1 .. Len(f), i = Len(r) + l
        PROVE  FALSE
    BY <1>3, <2>3, <2>7
  <2> QED
    BY <1>4, <2>4, <2>5, <2>6, <2>7
<1> QED
  BY <1>1, <1>2, <1>7, <1>8, <1>9 DEF Joins

LEMMA FlattenJoins ==
  ASSUME NEW T, NEW F \in Seq(Seq(T))
  PROVE  FlattenSeq(F) \in Seq(T) /\ Joins(F, Len(F), FlattenSeq(F))
<1>1. PICK up \in [0 .. Len(F) -> Seq(T)] :
            /\ up[0] = <<>>
            /\ \A i \in 1 .. Len(F) : up[i] = up[i - 1] \o F[i]
            /\ FlattenSeq(F) = up[Len(F)]
  BY FlattenUpto
<1> DEFINE S == {n \in Nat : n <= Len(F) => Joins(F, n, up[n])}
<1>2. Len(F) \in Nat
  BY LenProperties
<1>3. 0 \in S
  <2>1. 1 .. 0 = {} /\ Len(<<>>) = 0
    OBVIOUS
  <2> QED
    BY <1>1, <2>1 DEF Joins
<1>4. ASSUME NEW n \in Nat, n \in S
      PROVE  n + 1 \in S
  <2> SUFFICES ASSUME n + 1 <= Len(F)
               PROVE  Joins(F, n + 1, up[n + 1])
    OBVIOUS
  <2>0. n \in 0 .. Len(F) /\ n <= Len(F)
    BY <1>2
  <2>1. Joins(F, n, up[n]) /\ up[n] \in Seq(T)
    <3>1. Joins(F, n, up[n])
      BY <1>4, <2>0
    <3> HIDE DEF S
    <3>2. up[n] \in Seq(T)
      BY <1>1, <2>0
    <3> QED
      BY <3>1, <3>2
  <2>2. n + 1 \in 1 .. Len(F) /\ n + 1 - 1 = n
    BY <1>2
  <2> HIDE DEF S
  <2>3. up[n + 1] = up[n] \o F[n + 1]
    <3>1. PICK m \in 1 .. Len(F) : m = n + 1
      BY <2>2
    <3>2. up[m] = up[m - 1] \o F[m]
      BY <1>1, Zenon
    <3>3. m - 1 = n
      BY <3>1
    <3> QED
      BY <3>1, <3>2, <3>3, Zenon
  <2> QED
    BY <2>1, <2>3, JoinsNext
<1>5. Nat \subseteq S
  <2> HIDE DEF S
  <2> QED
    BY <1>3, <1>4, NatSetInduction
<1>6. up[Len(F)] \in Seq(T) /\ Joins(F, Len(F), up[Len(F)])
  BY <1>2, <1>5
<1> QED
  BY <1>1, <1>6

\* A slice from the front.
IsCut(c, s, k) ==
  /\ Len(c) = IF Len(s) < k THEN Len(s) ELSE k
  /\ Len(c) <= k /\ Len(c) <= Len(s) /\ 1 .. Len(c) \subseteq 1 .. Len(s)
  /\ \A i \in 1 .. Len(c) : c[i] = s[i]
  /\ IsInjective(s) => IsInjective(c)

LEMMA CutProperties ==
  ASSUME NEW T, NEW s \in Seq(T), NEW k \in Nat, NEW c, c = Cut(s, k)
  PROVE  c \in Seq(T) /\ IsCut(c, s, k)
<1>1. PICK n \in Nat : n = IF Len(s) < k THEN Len(s) ELSE k
  BY LenProperties
<1>2. Len(s) \in Nat /\ n <= Len(s) /\ n <= k
  BY <1>1, LenProperties
<1>3. c = SubSeq(s, 1, n)
  BY <1>1 DEF Cut
<1>4. /\ c \in Seq(T) /\ Len(c) = n
      /\ \A i \in 1 .. n : c[i] = s[i]
  <2>1. \A i \in 1 .. n : s[i] \in T
    BY <1>2, ElementOfSeq
  <2>2. /\ c \in Seq(T) /\ Len(c) = IF 1 <= n THEN n - 1 + 1 ELSE 0
        /\ \A i \in 1 .. n - 1 + 1 : c[i] = s[1 + i - 1]
    BY <1>3, <2>1, SubSeqProperties
  <2> QED
    BY <2>2
<1>5. IsInjective(s) => IsInjective(c)
  <2>1. DOMAIN s = 1 .. Len(s) /\ DOMAIN c = 1 .. n
    BY <1>4, LenProperties
  <2> QED
    BY <1>2, <1>4, <2>1 DEF IsInjective
<1>6. /\ Len(c) = IF Len(s) < k THEN Len(s) ELSE k
      /\ Len(c) <= k /\ Len(c) <= Len(s) /\ 1 .. Len(c) \subseteq 1 .. Len(s)
  BY <1>1, <1>2, <1>4
<1> QED
  BY <1>4, <1>5, <1>6 DEF IsCut

-----------------------------------------------------------------------------
(* Dictionaries of scores *)

\* Dictionaries from names in T to scores; no name has two places.
Dicts(T) ==
  {d \in Seq([kr : T, score : Nat]) :
     \A i, j \in 1 .. Len(d) : d[i].kr = d[j].kr => i = j}

Holds(d, k, y) == \E i \in 1 .. Len(d) : d[i].kr = k /\ d[i].score = y

\* y is given to k by d or by one of the first n entries of e.
Given(d, e, n, k, y) ==
  \/ Holds(d, k, y)
  \/ \E i \in 1 .. n : e[i].kr = k /\ e[i].score = y

LEMMA MaxOfTwo ==
  ASSUME NEW a \in Nat, NEW b \in Nat
  PROVE  Max({a, b}) = IF a < b THEN b ELSE a
<1>1. CASE a < b
  <2>1. {a, b} \in SUBSET Int /\ b \in {a, b} /\ \A y \in {a, b} : y <= b
    BY <1>1
  <2>2. Max({a, b}) = b
    BY <2>1, MaxIs, Zenon
  <2> QED
    BY <1>1, <2>2
<1>2. CASE ~(a < b)
  <2>1. {a, b} \in SUBSET Int /\ a \in {a, b} /\ \A y \in {a, b} : y <= a
    BY <1>2
  <2>2. Max({a, b}) = a
    BY <2>1, MaxIs, Zenon
  <2> QED
    BY <1>2, <2>2
<1> QED
  BY <1>1, <1>2

LEMMA DictFacts ==
  ASSUME NEW T, NEW d \in Dicts(T)
  PROVE  /\ d \in Seq([kr : T, score : Nat]) /\ Len(d) \in Nat /\ DOMAIN d = 1 .. Len(d)
         /\ \A i \in 1 .. Len(d) : /\ d[i] \in [kr : T, score : Nat]
                                   /\ d[i].kr \in T /\ d[i].score \in Nat
         /\ \A i, j \in 1 .. Len(d) : d[i].kr = d[j].kr => i = j
<1>1. d \in Seq([kr : T, score : Nat])
  BY DEF Dicts
<1>2. Len(d) \in Nat /\ DOMAIN d = 1 .. Len(d)
  BY <1>1, LenProperties
<1>3. \A i \in 1 .. Len(d) : d[i] \in [kr : T, score : Nat]
  BY <1>1, ElementOfSeq
<1>4. \A i, j \in 1 .. Len(d) : d[i].kr = d[j].kr => i = j
  BY DEF Dicts
<1> QED
  BY <1>1, <1>2, <1>3, <1>4

\* The score of a name that is there is raised in its place.
LEMMA PutRaised ==
  ASSUME NEW T, NEW d \in Dicts(T), NEW k \in T, NEW y \in Nat, NEW r, r = Put(d, k, y),
         NEW a \in 1 .. Len(d), d[a].kr = k
  PROVE  /\ r \in Dicts(T) /\ Len(r) = Len(d)
         /\ \A i \in 1 .. Len(d) :
              /\ r[i].kr = d[i].kr
              /\ r[i].score = IF i # a THEN d[i].score
                              ELSE IF d[i].score < y THEN y ELSE d[i].score
<1> DEFINE E == [kr : T, score : Nat]
<1>1. /\ Len(d) \in Nat /\ DOMAIN d = 1 .. Len(d)
      /\ \A i \in 1 .. Len(d) : d[i] \in E /\ d[i].kr \in T /\ d[i].score \in Nat
      /\ \A i, j \in 1 .. Len(d) : d[i].kr = d[j].kr => i = j
  BY DictFacts
<1>2. Scored(d, k)
  BY <1>1 DEF Scored
<1>3. r = [i \in 1 .. Len(d) |-> IF d[i].kr = k
                                 THEN [d[i] EXCEPT !.score = Max({@, y})]
                                 ELSE d[i]]
  BY <1>1, <1>2 DEF Put
<1>4. \A i \in 1 .. Len(d) :
        /\ r[i] \in E /\ r[i].kr = d[i].kr
        /\ r[i].score = IF i # a THEN d[i].score
                        ELSE IF d[i].score < y THEN y ELSE d[i].score
  <2> SUFFICES ASSUME NEW i \in 1 .. Len(d)
               PROVE  /\ r[i] \in E /\ r[i].kr = d[i].kr
                      /\ r[i].score = IF i # a THEN d[i].score
                                      ELSE IF d[i].score < y THEN y ELSE d[i].score
    OBVIOUS
  <2>1. CASE i = a
    <3>1. PICK m \in Nat : m = IF d[i].score < y THEN y ELSE d[i].score
      BY <1>1
    <3>2. Max({d[i].score, y}) = m
      BY <1>1, <3>1, MaxOfTwo
    <3>3. r[i] = [d[i] EXCEPT !.score = Max({d[i].score, y})]
      BY <1>3, <2>1
    <3>4. r[i] = [d[i] EXCEPT !.score = m]
      BY <3>2, <3>3
    <3>5. d[i] \in E
      BY <1>1
    <3> QED
      BY <2>1, <3>1, <3>4, <3>5
  <2>2. CASE i # a
    <3>1. d[i].kr # k
      BY <1>1, <2>2
    <3> QED
      BY <1>1, <1>3, <2>2, <3>1
  <2> QED
    BY <2>1, <2>2
<1>5. r \in Seq(E) /\ Len(r) = Len(d)
  <2>1. r \in [1 .. Len(d) -> E]
    <3> HIDE DEF E
    <3>1. r = [i \in 1 .. Len(d) |-> r[i]]
      BY <1>3
    <3> QED
      BY <1>4, <3>1
  <2> QED
    BY <1>1, <2>1, FunctionIsSeq
<1>6. \A i, j \in 1 .. Len(r) : r[i].kr = r[j].kr => i = j
  BY <1>1, <1>4, <1>5
<1> QED
  BY <1>4, <1>5, <1>6 DEF Dicts

\* A new name comes last.
LEMMA PutNew ==
  ASSUME NEW T, NEW d \in Dicts(T), NEW k \in T, NEW y \in Nat, NEW r, r = Put(d, k, y),
         \A i \in 1 .. Len(d) : d[i].kr # k
  PROVE  /\ r \in Dicts(T) /\ Len(r) = Len(d) + 1
         /\ \A i \in 1 .. Len(d) : r[i] = d[i]
         /\ r[Len(d) + 1].kr = k /\ r[Len(d) + 1].score = y
<1> DEFINE E == [kr : T, score : Nat]
<1>1. /\ d \in Seq(E) /\ Len(d) \in Nat /\ DOMAIN d = 1 .. Len(d)
      /\ \A i, j \in 1 .. Len(d) : d[i].kr = d[j].kr => i = j
  BY DictFacts
<1>2. ~Scored(d, k)
  BY <1>1 DEF Scored
<1>3. PICK x \in E : x = [kr |-> k, score |-> y]
  OBVIOUS
<1>4. r = Append(d, x)
  BY <1>2, <1>3 DEF Put
<1>5. x.kr = k /\ x.score = y
  BY <1>3
<1> HIDE DEF E
<1>6. /\ r \in Seq(E) /\ Len(r) = Len(d) + 1
      /\ \A i \in 1 .. Len(d) : r[i] = d[i]
      /\ r[Len(d) + 1] = x
  BY <1>1, <1>4, AppendProperties
<1>7. \A i \in 1 .. Len(r) : i \in 1 .. Len(d) \/ i = Len(d) + 1
  BY <1>1, <1>6
<1>8. ASSUME NEW i \in 1 .. Len(r), NEW j \in 1 .. Len(r), r[i].kr = r[j].kr
      PROVE  i = j
  <2>1. CASE i \in 1 .. Len(d) /\ j \in 1 .. Len(d)
    BY <1>1, <1>6, <1>8, <2>1
  <2>2. CASE i \in 1 .. Len(d) /\ j = Len(d) + 1
    BY <1>5, <1>6, <1>8, <2>2
  <2>3. CASE j \in 1 .. Len(d) /\ i = Len(d) + 1
    BY <1>5, <1>6, <1>8, <2>3
  <2> QED
    BY <1>7, <2>1, <2>2, <2>3
<1> QED
  BY <1>5, <1>6, <1>8 DEF Dicts, E

\* scored[k] = max(scored.get(k, 0), y) changes what k has, and nothing else.
PutOf(T, r, d, k, y) ==
  /\ \A l \in T, z \in Nat : l # k => (Holds(r, l, z) <=> Holds(d, l, z))
  /\ \A z \in Nat :
       Holds(r, k, z) <=> \/ Holds(d, k, z) /\ y <= z
                          \/ z = y /\ \A x \in Nat : Holds(d, k, x) => x <= y

LEMMA PutIs ==
  ASSUME NEW T, NEW d \in Dicts(T), NEW k \in T, NEW y \in Nat, NEW r, r = Put(d, k, y)
  PROVE  r \in Dicts(T) /\ PutOf(T, r, d, k, y)
<1>1. /\ Len(d) \in Nat
      /\ \A i \in 1 .. Len(d) : d[i].kr \in T /\ d[i].score \in Nat
      /\ \A i, j \in 1 .. Len(d) : d[i].kr = d[j].kr => i = j
  BY DictFacts
<1>2. ASSUME NEW a \in 1 .. Len(d), d[a].kr = k
      PROVE  r \in Dicts(T) /\ PutOf(T, r, d, k, y)
  <2>1. /\ r \in Dicts(T) /\ Len(r) = Len(d)
        /\ \A i \in 1 .. Len(d) :
              /\ r[i].kr = d[i].kr
              /\ r[i].score = IF i # a THEN d[i].score
                              ELSE IF d[i].score < y THEN y ELSE d[i].score
    BY <1>2, PutRaised
  <2>2. \A l \in T, z \in Nat : l # k => (Holds(r, l, z) <=> Holds(d, l, z))
    BY <1>1, <1>2, <2>1 DEF Holds
  <2>3. \A z \in Nat : Holds(d, k, z) <=> z = d[a].score
    BY <1>1, <1>2 DEF Holds
  <2>4. \A z \in Nat : Holds(r, k, z) <=> z = r[a].score
    BY <1>1, <1>2, <2>1 DEF Holds
  <2>5. r[a].score = (IF d[a].score < y THEN y ELSE d[a].score) /\ d[a].score \in Nat
    BY <1>1, <2>1
  <2> QED
    BY <2>1, <2>2, <2>3, <2>4, <2>5 DEF PutOf
<1>3. ASSUME \A i \in 1 .. Len(d) : d[i].kr # k
      PROVE  r \in Dicts(T) /\ PutOf(T, r, d, k, y)
  <2>1. /\ r \in Dicts(T) /\ Len(r) = Len(d) + 1
        /\ \A i \in 1 .. Len(d) : r[i] = d[i]
        /\ r[Len(d) + 1].kr = k /\ r[Len(d) + 1].score = y
    BY <1>3, PutNew
  <2>2. \A i \in 1 .. Len(r) : i \in 1 .. Len(d) \/ i = Len(d) + 1
    BY <1>1, <2>1
  <2>3. 1 .. Len(d) \subseteq 1 .. Len(r) /\ Len(d) + 1 \in 1 .. Len(r)
    BY <1>1, <2>1
  <2>4. \A l \in T, z \in Nat : l # k => (Holds(r, l, z) <=> Holds(d, l, z))
    BY <1>1, <2>1, <2>2, <2>3 DEF Holds
  <2>5. \A z \in Nat : ~Holds(d, k, z)
    BY <1>3 DEF Holds
  <2>6. \A z \in Nat : Holds(r, k, z) <=> z = y
    BY <1>3, <2>1, <2>2, <2>3 DEF Holds
  <2> QED
    BY <2>1, <2>4, <2>5, <2>6 DEF PutOf
<1> QED
  BY <1>2, <1>3

\* PutAll goes through the entries as its definition says.
LEMMA PutAllSteps ==
  ASSUME NEW T, NEW d \in Dicts(T), NEW e \in Seq([kr : T, score : Nat])
  PROVE  \E up \in [0 .. Len(e) -> Dicts(T)] :
            /\ PutAll(d, e) = up[Len(e)]
            /\ up[0] = d
            /\ \A n \in 1 .. Len(e) : up[n] = Put(up[n - 1], e[n].kr, e[n].score)
<1> DEFINE N == Len(e)
           V == Dicts(T)
           Step(n, v) == Put(v, e[n].kr, e[n].score)
           next == [n \in 1 .. N |-> [v \in V |-> Step(n, v)]]
           Body(g) == [n \in 0 .. Len(e) |->
                         IF n = 0 THEN d ELSE Put(g[n - 1], e[n].kr, e[n].score)]
           upto == CHOOSE g : g = Body(g)
<1>1. PutAll(d, e) = upto[N]
  BY DEF PutAll
<1>2. N \in Nat /\ d \in V
  BY LenProperties
<1>3. next \in [1 .. N -> [V -> V]]
  <2>1. ASSUME NEW n \in 1 .. N, NEW v \in V
        PROVE  Step(n, v) \in V
    <3>1. e[n] \in [kr : T, score : Nat]
      BY ElementOfSeq
    <3>2. PICK k \in T, y \in Nat : k = e[n].kr /\ y = e[n].score
      BY <3>1
    <3>3. Put(v, k, y) \in Dicts(T)
      BY PutIs
    <3> QED
      BY <3>2, <3>3
  <2> HIDE DEF V, Step
  <2> QED
    BY <2>1
<1> HIDE DEF V
<1>4. PICK f \in [0 .. N -> V] :
        f[0] = d /\ \A n \in 1 .. N : f[n] = next[n][f[n - 1]]
  <2> HIDE DEF N, next
  <2>1. next \in Steps(V, N)
    BY <1>3 DEF Steps
  <2>2. \E f \in [0 .. N -> V] : Chained(f, d, next, N)
    BY <1>2, <2>1, ChainExists, Zenon
  <2> QED
    BY <2>2 DEF Chained
<1>5. \A n \in 1 .. N : f[n] = Step(n, f[n - 1])
  <2> SUFFICES ASSUME NEW n \in 1 .. N
               PROVE  f[n] = Step(n, f[n - 1])
    OBVIOUS
  <2>1. n - 1 \in 0 .. N /\ f[n - 1] \in V
    BY <1>2
  <2> HIDE DEF Step
  <2>2. next[n][f[n - 1]] = Step(n, f[n - 1])
    BY <2>1
  <2> HIDE DEF next
  <2> QED
    BY <1>4, <2>2
<1>6. f = Body(f)
  <2>1. \A n \in 0 .. N : f[n] = Body(f)[n]
    <3> SUFFICES ASSUME NEW n \in 0 .. N
                 PROVE  f[n] = Body(f)[n]
      OBVIOUS
    <3>1. CASE n = 0
      BY <1>4, <3>1
    <3>2. CASE n # 0
      <4>1. n \in 1 .. N
        BY <3>2
      <4>2. f[n] = Step(n, f[n - 1])
        BY <1>5, <4>1
      <4> QED
        BY <3>2, <4>2
    <3> QED
      BY <3>1, <3>2
  <2> QED
    BY <2>1
<1>7. upto = Body(upto)
  <2> HIDE DEF Body
  <2> QED
    BY <1>6, Zenon
<1>8. upto[0] = d /\ \A n \in 1 .. N : upto[n] = Step(n, upto[n - 1])
  <2> HIDE DEF upto
  <2>1. ASSUME NEW n \in 0 .. N
        PROVE  upto[n] = IF n = 0 THEN d ELSE Step(n, upto[n - 1])
    BY <1>7
  <2> QED
    BY <1>2, <2>1
<1>9. upto \in [0 .. N -> V]
  <2> HIDE DEF upto, Step
  <2> DEFINE S == {n \in Nat : n <= N => upto[n] = f[n]}
  <2>1. 0 \in S
    BY <1>4, <1>8
  <2>2. ASSUME NEW n \in Nat, n \in S
        PROVE  n + 1 \in S
    <3> SUFFICES ASSUME n + 1 <= N
                 PROVE  upto[n + 1] = f[n + 1]
      OBVIOUS
    <3>1. n + 1 \in 1 .. N /\ n + 1 - 1 = n /\ upto[n] = f[n]
      BY <1>2, <2>2
    <3>2. upto[n + 1] = Step(n + 1, upto[n]) /\ f[n + 1] = Step(n + 1, f[n])
      BY <1>5, <1>8, <3>1
    <3> QED
      BY <3>1, <3>2
  <2>3. Nat \subseteq S
    <3> HIDE DEF S
    <3> QED
      BY <2>1, <2>2, NatSetInduction
  <2>4. \A n \in 0 .. N : upto[n] \in V
    BY <2>3
  <2>5. upto = [n \in 0 .. N |-> upto[n]]
    BY <1>7
  <2> QED
    BY <2>4, <2>5
<1> HIDE DEF upto
<1> QED
  BY <1>1, <1>8, <1>9 DEF V

\* The dictionary v has what d and the first n entries give, and of each name the
\* greatest.
Gathers(T, v, d, e, n) ==
  \A k \in T, z \in Nat :
    /\ Holds(v, k, z) => Given(d, e, n, k, z)
    /\ Given(d, e, n, k, z) => \E w \in Nat : z <= w /\ Holds(v, k, w)

LEMMA GathersNext ==
  ASSUME NEW T, NEW d \in Dicts(T), NEW e \in Seq([kr : T, score : Nat]),
         NEW n \in Nat, n + 1 \in 1 .. Len(e), NEW v \in Dicts(T), Gathers(T, v, d, e, n),
         NEW r, r = Put(v, e[n + 1].kr, e[n + 1].score)
  PROVE  Gathers(T, r, d, e, n + 1)
<1>1. PICK q \in [kr : T, score : Nat] : q = e[n + 1]
  BY ElementOfSeq
<1>2. PICK p \in T, y \in Nat : p = q.kr /\ y = q.score
  OBVIOUS
<1>3. PICK s : s = Put(v, p, y)
  OBVIOUS
<1>4. /\ \A l \in T, z \in Nat : l # p => (Holds(r, l, z) <=> Holds(v, l, z))
      /\ \A z \in Nat :
           Holds(r, p, z) <=> \/ Holds(v, p, z) /\ y <= z
                              \/ z = y /\ \A x \in Nat : Holds(v, p, x) => x <= y
  <2>1. /\ \A l \in T, z \in Nat : l # p => (Holds(s, l, z) <=> Holds(v, l, z))
        /\ \A z \in Nat :
             Holds(s, p, z) <=> \/ Holds(v, p, z) /\ y <= z
                                \/ z = y /\ \A x \in Nat : Holds(v, p, x) => x <= y
    <3>1. PutOf(T, s, v, p, y)
      BY <1>3, PutIs
    <3> QED
      BY <3>1, Zenon DEF PutOf
  <2>2. r = s
    BY <1>1, <1>2, <1>3
  <2> QED
    BY <2>1, <2>2, Zenon
<1>5. \A i \in 1 .. n + 1 : i \in 1 .. n \/ i = n + 1
  OBVIOUS
<1>6. 1 .. n \subseteq 1 .. n + 1 /\ n + 1 \in 1 .. n + 1
  OBVIOUS
<1>7. \A k \in T, z \in Nat :
        Given(d, e, n + 1, k, z) <=> Given(d, e, n, k, z) \/ (k = p /\ z = y)
  BY <1>1, <1>2, <1>5, <1>6 DEF Given
<1>8. ASSUME NEW k \in T, NEW z \in Nat
      PROVE  /\ Holds(v, k, z) => Given(d, e, n, k, z)
             /\ Given(d, e, n, k, z) => \E w \in Nat : z <= w /\ Holds(v, k, w)
  BY DEF Gathers
<1>9. ASSUME NEW k \in T, NEW z \in Nat, Holds(r, k, z)
      PROVE  Given(d, e, n + 1, k, z)
  BY <1>4, <1>7, <1>8, <1>9
<1>10. \E w \in Nat : y <= w /\ Holds(r, p, w)
  <2>1. CASE \A x \in Nat : Holds(v, p, x) => x <= y
    BY <1>4, <2>1
  <2>2. CASE \E x \in Nat : Holds(v, p, x) /\ ~(x <= y)
    BY <1>4, <2>2
  <2> QED
    BY <2>1, <2>2
<1>11. ASSUME NEW z \in Nat, NEW w \in Nat, z <= w, Holds(v, p, w)
       PROVE  \E x \in Nat : z <= x /\ Holds(r, p, x)
  <2>1. CASE y <= w
    BY <1>4, <1>11, <2>1
  <2>2. CASE w < y
    <3>1. PICK x \in Nat : y <= x /\ Holds(r, p, x)
      BY <1>10
    <3> QED
      BY <1>11, <2>2, <3>1
  <2> QED
    BY <2>1, <2>2
<1>12. ASSUME NEW k \in T, NEW z \in Nat, Given(d, e, n + 1, k, z)
       PROVE  \E w \in Nat : z <= w /\ Holds(r, k, w)
  <2>1. CASE k # p
    <3>1. PICK w \in Nat : z <= w /\ Holds(v, k, w)
      BY <1>7, <1>8, <1>12, <2>1
    <3> QED
      BY <1>4, <2>1, <3>1
  <2>2. CASE k = p /\ Given(d, e, n, k, z)
    <3>1. PICK w \in Nat : z <= w /\ Holds(v, k, w)
      BY <1>8, <2>2
    <3> QED
      BY <1>11, <2>2, <3>1
  <2>3. CASE k = p /\ z = y
    BY <1>10, <2>3
  <2> QED
    BY <1>7, <1>12, <2>1, <2>2, <2>3
<1> QED
  BY <1>9, <1>12 DEF Gathers

LEMMA PutAllIs ==
  ASSUME NEW T, NEW d \in Dicts(T), NEW e \in Seq([kr : T, score : Nat]),
         NEW r, r = PutAll(d, e)
  PROVE  r \in Dicts(T) /\ Gathers(T, r, d, e, Len(e))
<1>1. PICK up \in [0 .. Len(e) -> Dicts(T)] :
        /\ r = up[Len(e)]
        /\ up[0] = d
        /\ \A n \in 1 .. Len(e) : up[n] = Put(up[n - 1], e[n].kr, e[n].score)
  BY PutAllSteps
<1> DEFINE S == {n \in Nat : n <= Len(e) => Gathers(T, up[n], d, e, n)}
<1>2. Len(e) \in Nat
  BY LenProperties
<1>3. 0 \in S
  <2>1. \A k \in T, z \in Nat : Given(d, e, 0, k, z) <=> Holds(d, k, z)
    BY DEF Given
  <2>2. Gathers(T, d, d, e, 0)
    BY <2>1 DEF Gathers
  <2> QED
    BY <1>1, <2>2
<1>4. ASSUME NEW n \in Nat, n \in S
      PROVE  n + 1 \in S
  <2> SUFFICES ASSUME n + 1 <= Len(e)
               PROVE  Gathers(T, up[n + 1], d, e, n + 1)
    OBVIOUS
  <2>1. n \in 0 .. Len(e) /\ n <= Len(e) /\ n + 1 \in 1 .. Len(e)
    BY <1>2
  <2>2. Gathers(T, up[n], d, e, n)
    BY <1>4, <2>1
  <2> HIDE DEF S
  <2>3. up[n] \in Dicts(T)
    BY <1>1, <2>1
  <2>4. PICK m \in 1 .. Len(e) : m = n + 1
    BY <2>1
  <2>5. up[m] = Put(up[m - 1], e[m].kr, e[m].score)
    BY <1>1, Zenon
  <2>6. m - 1 = n
    BY <2>4
  <2>7. up[n + 1] = Put(up[n], e[n + 1].kr, e[n + 1].score)
    BY <2>4, <2>5, <2>6, Zenon
  <2> QED
    BY <2>1, <2>2, <2>3, <2>7, GathersNext
<1>5. Nat \subseteq S
  <2> HIDE DEF S
  <2> QED
    BY <1>3, <1>4, NatSetInduction
<1>6. Gathers(T, up[Len(e)], d, e, Len(e))
  BY <1>2, <1>5
<1> HIDE DEF S
<1>7. up[Len(e)] \in Dicts(T)
  <2>1. Len(e) \in 0 .. Len(e)
    BY <1>2
  <2> QED
    BY <2>1
<1> QED
  BY <1>1, <1>6, <1>7

-----------------------------------------------------------------------------
(* The longest common part of two texts *)

LEMMA HasGreatestFromZero ==
  ASSUME NEW n \in Nat, NEW A \in SUBSET (0 .. n), A # {}
  PROVE  \E x \in A : \A y \in A : y <= x
<1> DEFINE B == A \cap (1 .. n)
<1>1. CASE B = {}
  <2>1. \A y \in A : y = 0
    BY <1>1
  <2>2. PICK x \in A : x = 0
    BY <2>1
  <2>3. \A y \in A : y <= x
    BY <2>1, <2>2
  <2> QED
    BY <2>3
<1>2. CASE B # {}
  <2>1. B \in SUBSET (1 .. n)
    OBVIOUS
  <2>2. PICK x \in B : \A y \in B : y <= x
    <3> HIDE DEF B
    <3> QED
      BY <1>2, <2>1, HasGreatest
  <2> QED
    BY <2>2
<1> QED
  BY <1>1, <1>2

\* a up to i and b up to j end with the same k letters.
CommonEnd(a, b, i, j, k) ==
  k <= i /\ k <= j /\ \A x \in 0 .. k - 1 : a[i - x] = b[j - x]

LongestEnd(a, b, i, j, k) ==
  CommonEnd(a, b, i, j, k) /\ \A l \in Nat : CommonEnd(a, b, i, j, l) => l <= k

LEMMA LongestEndExists ==
  ASSUME NEW a, NEW b, NEW i \in Nat, NEW j \in Nat
  PROVE  \E k \in Nat : LongestEnd(a, b, i, j, k)
<1> DEFINE A == {k \in 0 .. i : CommonEnd(a, b, i, j, k)}
<1>1. 0 \in A /\ A \in SUBSET (0 .. i)
  <2>1. 0 .. 0 - 1 = {}
    OBVIOUS
  <2> QED
    BY <2>1 DEF CommonEnd
<1>2. PICK k \in A : \A l \in A : l <= k
  <2> HIDE DEF A
  <2> QED
    BY <1>1, HasGreatestFromZero
<1>3. \A l \in Nat : CommonEnd(a, b, i, j, l) => l \in A
  BY DEF CommonEnd
<1> QED
  BY <1>2, <1>3 DEF LongestEnd

LEMMA LongestEndUnique ==
  ASSUME NEW a, NEW b, NEW i \in Nat, NEW j \in Nat, NEW k \in Nat, NEW l \in Nat,
         LongestEnd(a, b, i, j, k), LongestEnd(a, b, i, j, l)
  PROVE  k = l
<1>1. k <= l /\ l <= k
  BY DEF LongestEnd
<1> QED
  BY <1>1

\* Ends that differ in the last letter have nothing in common, and neither has
\* an empty one; others have one letter more than without it.
LEMMA LongestEndNone ==
  ASSUME NEW a, NEW b, NEW i \in Nat, NEW j \in Nat, i = 0 \/ j = 0 \/ a[i] # b[j]
  PROVE  LongestEnd(a, b, i, j, 0)
<1>1. CommonEnd(a, b, i, j, 0)
  BY DEF CommonEnd
<1>2. ASSUME NEW l \in Nat, CommonEnd(a, b, i, j, l), l # 0
      PROVE  FALSE
  <2>1. 0 \in 0 .. l - 1 /\ i - 0 = i /\ j - 0 = j
    BY <1>2
  <2>2. a[i - 0] = b[j - 0] /\ l <= i /\ l <= j
    BY <1>2, <2>1 DEF CommonEnd
  <2> QED
    BY <1>2, <2>1, <2>2
<1>3. \A l \in Nat : CommonEnd(a, b, i, j, l) => l <= 0
  BY <1>2
<1> QED
  BY <1>1, <1>3 DEF LongestEnd

LEMMA LongestEndNext ==
  ASSUME NEW a, NEW b, NEW i \in Nat, NEW j \in Nat, i # 0, j # 0, a[i] = b[j],
         NEW k \in Nat, LongestEnd(a, b, i - 1, j - 1, k)
  PROVE  LongestEnd(a, b, i, j, k + 1)
<1>1. CommonEnd(a, b, i, j, k + 1)
  <2>1. k <= i - 1 /\ k <= j - 1
    BY DEF LongestEnd, CommonEnd
  <2>2. ASSUME NEW x \in 0 .. (k + 1) - 1
        PROVE  a[i - x] = b[j - x]
    <3>1. CASE x = 0
      <4>1. i - x = i /\ j - x = j
        BY <3>1
      <4> QED
        BY <4>1
    <3>2. CASE x # 0
      <4>1. x - 1 \in 0 .. k - 1 /\ (i - 1) - (x - 1) = i - x /\ (j - 1) - (x - 1) = j - x
        BY <3>2
      <4>2. a[(i - 1) - (x - 1)] = b[(j - 1) - (x - 1)]
        BY <4>1 DEF LongestEnd, CommonEnd
      <4> QED
        BY <4>1, <4>2
    <3> QED
      BY <3>1, <3>2
  <2> QED
    BY <2>1, <2>2 DEF CommonEnd
<1>2. ASSUME NEW l \in Nat, CommonEnd(a, b, i, j, l)
      PROVE  l <= k + 1
  <2>1. CASE l = 0
    BY <2>1
  <2>2. CASE l # 0
    <3>1. PICK m \in Nat : l = m + 1
      BY <2>2
    <3>2. m <= i - 1 /\ m <= j - 1
      BY <1>2, <3>1 DEF CommonEnd
    <3>3. ASSUME NEW x \in 0 .. m - 1
          PROVE  a[(i - 1) - x] = b[(j - 1) - x]
      <4>1. PICK y \in 0 .. l - 1 : y = x + 1
        BY <3>1
      <4>2. a[i - y] = b[j - y]
        BY <1>2 DEF CommonEnd
      <4>3. i - y = (i - 1) - x /\ j - y = (j - 1) - x
        BY <4>1
      <4> QED
        BY <4>2, <4>3
    <3>4. CommonEnd(a, b, i - 1, j - 1, m)
      BY <3>2, <3>3 DEF CommonEnd
    <3>5. m <= k
      BY <3>4 DEF LongestEnd
    <3> QED
      BY <3>1, <3>5
  <2> QED
    BY <2>1, <2>2
<1> QED
  BY <1>1, <1>2 DEF LongestEnd

\* LongestCommon goes through the places as its definition says: what it finds
\* at two places is their longest common end.
LEMMA LongestCommonDp ==
  ASSUME NEW T, NEW a \in Seq(T), NEW b \in Seq(T)
  PROVE  \E dp \in [(0 .. Len(a)) \X (0 .. Len(b)) -> Nat] :
           /\ LongestCommon(a, b) = Max({dp[ij] : ij \in DOMAIN dp})
           /\ \A i \in 0 .. Len(a), j \in 0 .. Len(b) : LongestEnd(a, b, i, j, dp[<<i, j>>])
<1> DEFINE M == Len(a)
           N == Len(b)
           D == (0 .. Len(a)) \X (0 .. Len(b))
           Value(g, i, j) == IF i = 0 \/ j = 0 THEN 0
                             ELSE IF a[i] = b[j] THEN g[<<i - 1, j - 1>>] + 1
                             ELSE 0
           Body(g) == [ij \in D |-> Value(g, ij[1], ij[2])]
           dp == CHOOSE g : g = Body(g)
           f == [ij \in D |-> CHOOSE k \in Nat : LongestEnd(a, b, ij[1], ij[2], k)]
<1>1. LongestCommon(a, b) = Max({dp[ij] : ij \in DOMAIN dp})
  BY DEF LongestCommon
<1>2. M \in Nat /\ N \in Nat
  BY LenProperties
<1>3. \A i \in 0 .. M, j \in 0 .. N :
        f[<<i, j>>] \in Nat /\ LongestEnd(a, b, i, j, f[<<i, j>>])
  <2> SUFFICES ASSUME NEW i \in 0 .. M, NEW j \in 0 .. N
               PROVE  f[<<i, j>>] \in Nat /\ LongestEnd(a, b, i, j, f[<<i, j>>])
    OBVIOUS
  <2>1. f[<<i, j>>] = CHOOSE k \in Nat : LongestEnd(a, b, i, j, k)
    OBVIOUS
  <2>2. \E k \in Nat : LongestEnd(a, b, i, j, k)
    <3>1. i \in Nat /\ j \in Nat
      BY <1>2
    <3> QED
      BY <3>1, LongestEndExists, Zenon
  <2> HIDE DEF f
  <2> QED
    BY <2>1, <2>2
<1>4. \A i \in 0 .. M, j \in 0 .. N : f[<<i, j>>] = Value(f, i, j)
  <2> HIDE DEF f
  <2> SUFFICES ASSUME NEW i \in 0 .. M, NEW j \in 0 .. N
               PROVE  f[<<i, j>>] = Value(f, i, j)
    OBVIOUS
  <2>1. /\ i \in Nat /\ j \in Nat
        /\ f[<<i, j>>] \in Nat /\ LongestEnd(a, b, i, j, f[<<i, j>>])
    BY <1>2, <1>3
  <2>2. CASE i = 0 \/ j = 0 \/ a[i] # b[j]
    <3>1. LongestEnd(a, b, i, j, 0)
      BY <2>1, <2>2, LongestEndNone
    <3>2. f[<<i, j>>] = 0
      BY <2>1, <3>1, LongestEndUnique
    <3> QED
      BY <2>2, <3>2
  <2>3. CASE i # 0 /\ j # 0 /\ a[i] = b[j]
    <3>1. i - 1 \in 0 .. M /\ j - 1 \in 0 .. N
      BY <1>2, <2>3
    <3>2. PICK k \in Nat : k = f[<<i - 1, j - 1>>] /\ LongestEnd(a, b, i - 1, j - 1, k)
      BY <1>3, <3>1
    <3>3. LongestEnd(a, b, i, j, k + 1)
      BY <2>1, <2>3, <3>2, LongestEndNext
    <3>4. k + 1 \in Nat
      BY <3>2
    <3>5. f[<<i, j>>] = k + 1
      BY <2>1, <3>3, <3>4, LongestEndUnique
    <3> QED
      BY <2>3, <3>2, <3>5
  <2> QED
    BY <2>2, <2>3
<1>5. f = Body(f)
  <2>1. \A ij \in D : f[ij] = Body(f)[ij]
    <3> HIDE DEF f
    <3> SUFFICES ASSUME NEW ij \in D
                 PROVE  f[ij] = Body(f)[ij]
      OBVIOUS
    <3>1. PICK i \in 0 .. M, j \in 0 .. N : ij = <<i, j>>
      OBVIOUS
    <3>2. Body(f)[<<i, j>>] = Value(f, i, j)
      BY <3>1
    <3> HIDE DEF Body, Value
    <3> QED
      BY <1>4, <3>1, <3>2
  <2>2. Body(f) = [ij \in D |-> Body(f)[ij]] /\ f = [ij \in D |-> f[ij]]
    OBVIOUS
  <2> HIDE DEF f, Body
  <2> QED
    BY <2>1, <2>2
<1>6. dp = Body(dp)
  <2> HIDE DEF Body
  <2> QED
    BY <1>5, Zenon
<1> HIDE DEF dp
<1>7. \A i \in 0 .. M, j \in 0 .. N : dp[<<i, j>>] = Value(dp, i, j)
  BY <1>6
<1>8. \A i \in 0 .. M, j \in 0 .. N : dp[<<i, j>>] = f[<<i, j>>]
  <2> HIDE DEF f
  <2> DEFINE S == {n \in Nat : n <= M => \A j \in 0 .. N : dp[<<n, j>>] = f[<<n, j>>]}
  <2>1. 0 \in S
    <3>1. \A j \in 0 .. N : dp[<<0, j>>] = f[<<0, j>>]
      <4> HIDE DEF M, N
      <4>1. 0 \in 0 .. M
        BY <1>2
      <4>2. \A j \in 0 .. N : dp[<<0, j>>] = 0 /\ f[<<0, j>>] = 0
        BY <1>4, <1>7, <4>1
      <4> QED
        BY <4>2
    <3> QED
      BY <3>1
  <2>2. ASSUME NEW n \in Nat, n \in S
        PROVE  n + 1 \in S
    <3> SUFFICES ASSUME n + 1 <= M, NEW j \in 0 .. N
                 PROVE  dp[<<n + 1, j>>] = f[<<n + 1, j>>]
      OBVIOUS
    <3>1. /\ n + 1 \in 0 .. M /\ n + 1 # 0 /\ n + 1 - 1 = n
          /\ \A l \in 0 .. N : dp[<<n, l>>] = f[<<n, l>>]
      BY <1>2, <2>2
    <3> HIDE DEF S
    <3>2. dp[<<n + 1, j>>] = Value(dp, n + 1, j) /\ f[<<n + 1, j>>] = Value(f, n + 1, j)
      BY <1>4, <1>7, <3>1
    <3>3. CASE j = 0
      BY <3>2, <3>3
    <3>4. CASE j # 0
      <4>1. j - 1 \in 0 .. N
        BY <1>2, <3>4
      <4> QED
        BY <3>1, <3>2, <3>4, <4>1
    <3> QED
      BY <3>3, <3>4
  <2>3. Nat \subseteq S
    <3> HIDE DEF S
    <3> QED
      BY <2>1, <2>2, NatSetInduction
  <2> SUFFICES ASSUME NEW i \in 0 .. M, NEW j \in 0 .. N
               PROVE  dp[<<i, j>>] = f[<<i, j>>]
    OBVIOUS
  <2>4. i \in Nat /\ i <= M
    BY <1>2
  <2>5. i \in S
    <3> HIDE DEF S
    <3> QED
      BY <2>3, <2>4
  <2> QED
    BY <2>4, <2>5
<1>9. dp \in [D -> Nat]
  <2>1. dp = [ij \in D |-> dp[ij]]
    BY <1>6
  <2>2. \A i \in 0 .. M, j \in 0 .. N : dp[<<i, j>>] \in Nat
    BY <1>3, <1>8
  <2>3. \A ij \in D : dp[ij] \in Nat
    BY <2>2
  <2> QED
    BY <2>1, <2>3
<1>10. \A i \in 0 .. M, j \in 0 .. N : LongestEnd(a, b, i, j, dp[<<i, j>>])
  BY <1>3, <1>8
<1> HIDE DEF f
<1> QED
  BY <1>1, <1>9, <1>10

\* A part of a text is where it ends and how long it is.
LEMMA PartEnds ==
  ASSUME NEW T, NEW s \in Seq(T), NEW w \in SubSeqs(s)
  PROVE  /\ w \in Seq(T) /\ Len(w) \in Nat
         /\ \E j \in 0 .. Len(s) :
              Len(w) <= j /\ \A x \in 0 .. Len(w) - 1 : w[Len(w) - x] = s[j - x]
<1>1. Len(s) \in Nat
  BY LenProperties
<1>2. PICK i \in 0 .. Len(s), j \in 0 .. Len(s) : w = SubSeq(s, i + 1, j)
  BY DEF SubSeqs
<1>3. PICK m \in Int, n \in Int : m = i + 1 /\ n = j
  BY <1>1
<1>4. \A p \in m .. n : s[p] \in T
  BY <1>1, <1>3, ElementOfSeq
<1>5. /\ SubSeq(s, m, n) \in Seq(T)
      /\ Len(SubSeq(s, m, n)) = IF m <= n THEN n - m + 1 ELSE 0
      /\ \A p \in 1 .. n - m + 1 : SubSeq(s, m, n)[p] = s[m + p - 1]
  BY <1>4, SubSeqProperties
<1>6. SubSeq(s, m, n) = w
  BY <1>2, <1>3
<1>7. /\ w \in Seq(T)
      /\ Len(w) = IF m <= n THEN n - m + 1 ELSE 0
      /\ \A p \in 1 .. n - m + 1 : w[p] = s[m + p - 1]
  BY <1>5, <1>6
<1>8. Len(w) \in Nat /\ Len(w) <= j
  BY <1>1, <1>3, <1>7
<1>9. ASSUME NEW x \in 0 .. Len(w) - 1
      PROVE  w[Len(w) - x] = s[j - x]
  <2>1. PICK p \in Int : p = Len(w) - x
    BY <1>8
  <2>2. p \in 1 .. n - m + 1 /\ m + p - 1 = j - x
    BY <1>1, <1>3, <1>7, <2>1
  <2>3. w[p] = s[m + p - 1]
    BY <1>7, <2>2
  <2> QED
    BY <2>1, <2>2, <2>3
<1> QED
  BY <1>7, <1>8, <1>9

PartOf(T, s, j, k, w) ==
  /\ w \in SubSeqs(s) /\ w \in Seq(T) /\ Len(w) = k
  /\ \A x \in 0 .. k - 1 : w[k - x] = s[j - x]

LEMMA PartAt ==
  ASSUME NEW T, NEW s \in Seq(T), NEW j, NEW k, j \in 0 .. Len(s), k \in 0 .. j
  PROVE  \E w : PartOf(T, s, j, k, w)
<1>1. Len(s) \in Nat
  BY LenProperties
<1>2. PICK i \in 0 .. Len(s) : i = j - k
  BY <1>1
<1>3. PICK w : w = SubSeq(s, i + 1, j)
  OBVIOUS
<1>4. w \in SubSeqs(s)
  BY <1>3 DEF SubSeqs
<1>5. PICK m \in Int : m = i + 1
  BY <1>1
<1>6. \A p \in m .. j : s[p] \in T
  BY <1>1, <1>2, <1>5, ElementOfSeq
<1>7. j \in Int
  BY <1>1
<1>8. /\ SubSeq(s, m, j) \in Seq(T)
      /\ Len(SubSeq(s, m, j)) = IF m <= j THEN j - m + 1 ELSE 0
      /\ \A p \in 1 .. j - m + 1 : SubSeq(s, m, j)[p] = s[m + p - 1]
  BY <1>6, <1>7, SubSeqProperties
<1>9. /\ w \in Seq(T)
      /\ Len(w) = IF m <= j THEN j - m + 1 ELSE 0
      /\ \A p \in 1 .. j - m + 1 : w[p] = s[m + p - 1]
  BY <1>3, <1>5, <1>8
<1>10. Len(w) = k
  BY <1>1, <1>2, <1>5, <1>9
<1>11. ASSUME NEW x \in 0 .. k - 1
       PROVE  w[k - x] = s[j - x]
  <2>1. PICK p \in Int : p = k - x
    BY <1>1
  <2>2. p \in 1 .. j - m + 1 /\ m + p - 1 = j - x
    BY <1>1, <1>2, <1>5, <2>1
  <2>3. w[p] = s[m + p - 1]
    BY <1>9, <2>2
  <2> QED
    BY <2>1, <2>2, <2>3
<1> QED
  BY <1>4, <1>9, <1>10, <1>11 DEF PartOf

LEMMA CommonEndIsPart ==
  ASSUME NEW T, NEW a \in Seq(T), NEW b \in Seq(T),
         NEW i \in 0 .. Len(a), NEW j \in 0 .. Len(b), NEW k \in Nat, CommonEnd(a, b, i, j, k)
  PROVE  \E w \in SubSeqs(a) \cap SubSeqs(b) : Len(w) = k
<1>1. k \in 0 .. i /\ k \in 0 .. j
  BY DEF CommonEnd
<1>2. PICK v : PartOf(T, a, i, k, v)
  BY <1>1, PartAt
<1>3. PICK w : PartOf(T, b, j, k, w)
  BY <1>1, PartAt
<1>4. ASSUME NEW p \in 1 .. k
      PROVE  v[p] = w[p]
  <2>1. PICK x \in 0 .. k - 1 : x = k - p /\ k - x = p
    <3>1. k - p \in 0 .. k - 1 /\ k - (k - p) = p
      OBVIOUS
    <3> QED
      BY <3>1
  <2>2. a[i - x] = b[j - x]
    BY DEF CommonEnd
  <2>3. v[k - x] = a[i - x] /\ w[k - x] = b[j - x]
    BY <1>2, <1>3 DEF PartOf
  <2> QED
    BY <2>1, <2>2, <2>3
<1>5. v \in Seq(T) /\ w \in Seq(T) /\ Len(v) = k /\ Len(w) = k
  BY <1>2, <1>3 DEF PartOf
<1>6. v = w
  BY <1>4, <1>5, SeqEqual
<1> QED
  BY <1>2, <1>3, <1>6 DEF PartOf

\* The score of two texts is the reference the properties compare with.
LEMMA LongestCommonIs ==
  ASSUME NEW T, NEW a \in Seq(T), NEW b \in Seq(T)
  PROVE  /\ LongestCommon(a, b) = LongestShared(a, b)
         /\ LongestShared(a, b) \in 0 .. Len(a)
         /\ Occurs(a, b) => LongestShared(a, b) = Len(a)
<1> DEFINE Lens == {Len(w) : w \in SubSeqs(a) \cap SubSeqs(b)}
<1>1. PICK dp \in [(0 .. Len(a)) \X (0 .. Len(b)) -> Nat] :
        /\ LongestCommon(a, b) = Max({dp[ij] : ij \in DOMAIN dp})
        /\ \A i \in 0 .. Len(a), j \in 0 .. Len(b) : LongestEnd(a, b, i, j, dp[<<i, j>>])
  BY LongestCommonDp
<1> DEFINE Ends == {dp[ij] : ij \in DOMAIN dp}
<1>2. Len(a) \in Nat /\ Len(b) \in Nat
  BY LenProperties
<1>3. Lens \in SUBSET (0 .. Len(a))
  <2> SUFFICES ASSUME NEW w \in SubSeqs(a)
               PROVE  Len(w) \in 0 .. Len(a)
    OBVIOUS
  <2> QED
    BY <1>2, PartEnds
<1>4. \A e \in Ends : e \in Nat /\ e \in Lens
  <2> SUFFICES ASSUME NEW i \in 0 .. Len(a), NEW j \in 0 .. Len(b)
               PROVE  dp[<<i, j>>] \in Nat /\ dp[<<i, j>>] \in Lens
    OBVIOUS
  <2>1. PICK k \in Nat : k = dp[<<i, j>>]
    OBVIOUS
  <2>2. CommonEnd(a, b, i, j, k)
    BY <1>1, <2>1 DEF LongestEnd
  <2>3. PICK w \in SubSeqs(a) \cap SubSeqs(b) : Len(w) = k
    BY <2>2, CommonEndIsPart
  <2>4. Len(w) \in Lens
    BY <2>3
  <2> QED
    BY <2>1, <2>3, <2>4
<1>5. \A l \in Lens : \E e \in Ends : l <= e
  <2> SUFFICES ASSUME NEW w \in SubSeqs(a) \cap SubSeqs(b)
               PROVE  \E e \in Ends : Len(w) <= e
    OBVIOUS
  <2>1. PICK i \in 0 .. Len(a) :
          Len(w) <= i /\ \A x \in 0 .. Len(w) - 1 : w[Len(w) - x] = a[i - x]
    BY PartEnds
  <2>2. PICK j \in 0 .. Len(b) :
          Len(w) <= j /\ \A x \in 0 .. Len(w) - 1 : w[Len(w) - x] = b[j - x]
    BY PartEnds
  <2>3. Len(w) \in Nat
    BY PartEnds
  <2>4. CommonEnd(a, b, i, j, Len(w))
    BY <2>1, <2>2 DEF CommonEnd
  <2>5. Len(w) <= dp[<<i, j>>]
    BY <1>1, <2>3, <2>4 DEF LongestEnd
  <2>6. dp[<<i, j>>] \in Ends
    <3>1. <<i, j>> \in DOMAIN dp
      OBVIOUS
    <3> QED
      BY <3>1
  <2> QED
    BY <2>5, <2>6
<1>6. Lens # {}
  <2>1. <<0, 0>> \in DOMAIN dp
    BY <1>2
  <2> QED
    BY <1>4, <2>1
<1> HIDE DEF Lens, Ends
<1>7. PICK m \in Lens : \A l \in Lens : l <= m
  BY <1>2, <1>3, <1>6, HasGreatestFromZero
<1>8. m \in 0 .. Len(a) /\ Lens \in SUBSET Int /\ Ends \in SUBSET Int
  BY <1>3, <1>4, <1>7
<1>9. Max(Lens) = m
  BY <1>7, <1>8, MaxIs
<1>10. m \in Ends /\ \A e \in Ends : e <= m
  <2>1. PICK e \in Ends : m <= e
    BY <1>5, <1>7
  <2>2. e <= m /\ e \in Int
    BY <1>4, <1>7, <1>8, <2>1
  <2>3. e = m
    BY <1>8, <2>1, <2>2
  <2> QED
    BY <1>4, <1>7, <2>1, <2>3
<1>11. Max(Ends) = m
  BY <1>8, <1>10, MaxIs
<1>12. LongestShared(a, b) = m
  BY <1>9 DEF LongestShared, Lens
<1>13. Occurs(a, b) => m = Len(a)
  <2> SUFFICES ASSUME Occurs(a, b)
               PROVE  m = Len(a)
    OBVIOUS
  <2>1. a \in SubSeqs(a)
    <3>1. SubSeq(a, 0 + 1, Len(a)) = a
      BY SubSeqFull
    <3>2. 0 \in 0 .. Len(a) /\ Len(a) \in 0 .. Len(a)
      BY <1>2
    <3> QED
      BY <3>1, <3>2 DEF SubSeqs
  <2>2. Len(a) \in Lens
    BY <2>1 DEF Lens, Occurs
  <2>3. Len(a) <= m
    BY <1>7, <2>2
  <2> QED
    BY <1>2, <1>8, <2>3
<1> QED
  BY <1>1, <1>8, <1>11, <1>12, <1>13 DEF Ends

-----------------------------------------------------------------------------
(* The scores of a search *)

LEMMA MenuFacts ==
  /\ Menus \in Seq([kr : Text, category : STRING]) /\ Len(Menus) \in Nat \ {0}
  /\ DOMAIN Menus = 1 .. Len(Menus)
  /\ \A i \in 1 .. Len(Menus) : /\ Menus[i].kr \in Name
                                /\ Menus[i].category \in STRING
                                /\ CategoryOf(Menus[i].kr) = Menus[i].category
  /\ \A i, j \in 1 .. Len(Menus) : Menus[i].kr = Menus[j].kr => i = j
  /\ \A k \in Name : \E i \in 1 .. Len(Menus) : Menus[i].kr = k
  /\ \A k \in Name : k \in Text /\ Len(k) \in 1 .. 99
<1>1. /\ Menus \in Seq([kr : Text, category : STRING]) /\ Menus # <<>>
      /\ \A i, j \in DOMAIN Menus : Menus[i].kr = Menus[j].kr => i = j
      /\ \A m, n \in Name : Len(n) < 10 * Len(m) /\ 10 * Len(m) < 1000
  BY MenuSearchAssumption
<1>2. Len(Menus) \in Nat /\ DOMAIN Menus = 1 .. Len(Menus)
  BY <1>1, LenProperties
<1>3. Len(Menus) # 0
  BY <1>1, EmptySeq
<1>4. \A i \in 1 .. Len(Menus) : Menus[i] \in [kr : Text, category : STRING]
  BY <1>1, ElementOfSeq
<1>5. \A i \in 1 .. Len(Menus) : Menus[i].kr \in Name /\ Menus[i].kr \in Text /\ Menus[i].category \in STRING
  BY <1>2, <1>4 DEF Name
<1>6. \A k \in Name : \E i \in 1 .. Len(Menus) : Menus[i].kr = k
  BY <1>2 DEF Name
<1>7. ASSUME NEW k \in Name
      PROVE  k \in Text /\ Len(k) \in 1 .. 99
  <2>1. k \in Text
    BY <1>5, <1>6
  <2>2. Len(k) \in Nat
    BY <2>1, LenProperties DEF Text
  <2>3. PICK l \in Nat : l = Len(k)
    BY <2>2
  <2>4. l < 10 * l /\ 10 * l < 1000
    BY <1>1, <2>3
  <2>5. l \in 1 .. 99
    BY <2>4
  <2> QED
    BY <2>1, <2>3, <2>5
<1>8. ASSUME NEW i \in 1 .. Len(Menus)
      PROVE  CategoryOf(Menus[i].kr) = Menus[i].category
  <2>1. (CHOOSE j \in DOMAIN Menus : Menus[j].kr = Menus[i].kr) = i
    BY <1>1, <1>2
  <2> QED
    BY <2>1 DEF CategoryOf
<1> QED
  BY <1>1, <1>2, <1>3, <1>5, <1>6, <1>7, <1>8

LEMMA NameScoreIs ==
  ASSUME NEW t \in Text, NEW k \in Name
  PROVE  /\ NameScore(k, t) = IF Occurs(k, t) THEN 10 * Len(k) ELSE LongestShared(k, t)
         /\ NameScore(k, t) \in Nat /\ NameScore(k, t) < 1000
         /\ LongestShared(k, t) \in 0 .. Len(k)
         /\ Occurs(k, t) => LongestShared(k, t) = Len(k)
<1>1. k \in Seq(Letter) /\ t \in Seq(Letter) /\ Len(k) \in 1 .. 99
  BY MenuFacts DEF Text
<1>2. /\ LongestCommon(k, t) = LongestShared(k, t)
      /\ LongestShared(k, t) \in 0 .. Len(k)
      /\ Occurs(k, t) => LongestShared(k, t) = Len(k)
  BY <1>1, LongestCommonIs
<1>3. PICK l \in 1 .. 99 : l = Len(k)
  BY <1>1
<1>4. PICK m \in 0 .. l : m = LongestShared(k, t)
  BY <1>2, <1>3
<1>5. NameScore(k, t) = IF Occurs(k, t) THEN 10 * l ELSE m
  BY <1>2, <1>3, <1>4 DEF NameScore
<1>6. 10 * l \in Nat /\ 10 * l < 1000 /\ m \in Nat /\ m < 1000
  OBVIOUS
<1>7. NameScore(k, t) \in Nat /\ NameScore(k, t) < 1000
  BY <1>5, <1>6
<1> QED
  BY <1>2, <1>3, <1>4, <1>5, <1>7

LEMMA NoneHeld ==
  ASSUME NEW T
  PROVE  <<>> \in Dicts(T) /\ \A k, z : ~Holds(<<>>, k, z)
<1>1. Len(<<>>) = 0 /\ <<>> \in Seq([kr : T, score : Nat])
  BY EmptySeq
<1> QED
  BY <1>1 DEF Dicts, Holds

LEMMA ByNameIs ==
  ASSUME NEW t \in Text, NEW d, d = ByName(t)
  PROVE  /\ d \in Dicts(Name)
         /\ \A k \in Name, z \in Nat :
              Holds(d, k, z) <=> z = NameScore(k, t) /\ z >= 2
<1> DEFINE E == [kr : Name, score : Nat]
<1>1. PICK n \in Nat : n = Len(Menus)
  BY MenuFacts
<1>2. PICK s : s = [i \in DOMAIN Menus |-> [kr |-> Menus[i].kr, score |-> NameScore(Menus[i].kr, t)]]
  OBVIOUS
<1>3. PICK K : K = {i \in DOMAIN Menus : NameScore(Menus[i].kr, t) >= 2}
  OBVIOUS
<1>4. PICK e : e = ElementsAt(s, K)
  OBVIOUS
<1>5. d = PutAll(<<>>, e)
  BY <1>2, <1>3, <1>4 DEF ByName
<1>6. s \in Seq(E) /\ Len(s) = n
  <2>1. \A i \in 1 .. n : [kr |-> Menus[i].kr, score |-> NameScore(Menus[i].kr, t)] \in E
    BY <1>1, MenuFacts, NameScoreIs
  <2>2. s \in [1 .. n -> E]
    <3> HIDE DEF E
    <3> QED
      BY <1>1, <1>2, <2>1, MenuFacts
  <2> QED
    BY <2>2, FunctionIsSeq
<1>7. \A i \in 1 .. n : s[i].kr = Menus[i].kr /\ s[i].score = NameScore(Menus[i].kr, t)
  BY <1>1, <1>2, MenuFacts
<1>8. /\ K \in SUBSET (1 .. Len(s))
      /\ \A i \in 1 .. n : i \in K <=> NameScore(Menus[i].kr, t) >= 2
  BY <1>1, <1>3, <1>6, MenuFacts
<1> HIDE DEF E
<1>9. e \in Seq(E) /\ HasJust(e, s, K)
  BY <1>4, <1>6, <1>8, ChosenElements
<1>10. d \in Dicts(Name) /\ Gathers(Name, d, <<>>, e, Len(e))
  BY <1>5, <1>9, NoneHeld, PutAllIs DEF E
<1>11. ASSUME NEW k \in Name, NEW z \in Nat
       PROVE  Given(<<>>, e, Len(e), k, z) <=> z = NameScore(k, t) /\ z >= 2
  <2>1. ASSUME NEW i \in 1 .. Len(e), e[i].kr = k, e[i].score = z
        PROVE  z = NameScore(k, t) /\ z >= 2
    <3>1. PICK j \in K : e[i] = s[j]
      BY <1>9 DEF HasJust
    <3>2. j \in 1 .. n /\ NameScore(Menus[j].kr, t) >= 2
      BY <1>6, <1>8
    <3> QED
      BY <1>7, <2>1, <3>1, <3>2
  <2>2. ASSUME z = NameScore(k, t), z >= 2
        PROVE  \E i \in 1 .. Len(e) : e[i].kr = k /\ e[i].score = z
    <3>1. PICK j \in 1 .. n : Menus[j].kr = k
      BY <1>1, MenuFacts
    <3>2. j \in K
      BY <1>8, <2>2, <3>1
    <3>3. PICK i \in 1 .. Len(e) : e[i] = s[j]
      BY <1>9, <3>2 DEF HasJust
    <3> QED
      BY <1>7, <2>2, <3>1, <3>3
  <2> QED
    BY <2>1, <2>2, NoneHeld DEF Given
<1>12. ASSUME NEW k \in Name, NEW z \in Nat, z = NameScore(k, t), z >= 2
       PROVE  Holds(d, k, z)
  <2>1. PICK w \in Nat : z <= w /\ Holds(d, k, w)
    BY <1>10, <1>11, <1>12 DEF Gathers
  <2>2. w = z
    BY <1>10, <1>11, <1>12, <2>1 DEF Gathers
  <2> QED
    BY <2>1, <2>2
<1>13. ASSUME NEW k \in Name, NEW z \in Nat, Holds(d, k, z)
       PROVE  z = NameScore(k, t) /\ z >= 2
  BY <1>10, <1>11, <1>13 DEF Gathers
<1> QED
  BY <1>10, <1>12, <1>13

\* The targets of the aliases in the text that are menus.
LEMMA TargetsAre ==
  ASSUME NEW t \in Text
  PROVE  /\ Targets(t) \in Seq(Name)
         /\ \A k \in Name : (\E i \in 1 .. Len(Targets(t)) : Targets(t)[i] = k) <=> Meant(k, t)
<1> DEFINE A == [slang : Text, targets : Seq(Text)]
<1>1. /\ Aliases \in Seq(A) /\ Len(Aliases) \in Nat /\ DOMAIN Aliases = 1 .. Len(Aliases)
      /\ \A i \in 1 .. Len(Aliases) : Aliases[i] \in A /\ Aliases[i].targets \in Seq(Text)
  <2>1. Aliases \in Seq(A)
    BY MenuSearchAssumption
  <2>2. Len(Aliases) \in Nat /\ DOMAIN Aliases = 1 .. Len(Aliases)
    BY <2>1, LenProperties
  <2>3. \A i \in 1 .. Len(Aliases) : Aliases[i] \in A
    BY <2>1, ElementOfSeq
  <2> QED
    BY <2>1, <2>2, <2>3
<1>2. PICK U : U = {i \in 1 .. Len(Aliases) : Occurs(Aliases[i].slang, t)}
  OBVIOUS
<1>3. PICK used : used = ElementsAt(Aliases, U)
  OBVIOUS
<1>4. U \in SUBSET (1 .. Len(Aliases))
  BY <1>2
<1>5. used \in Seq(A) /\ HasJust(used, Aliases, U)
  <2> HIDE DEF A
  <2> QED
    BY <1>1, <1>3, <1>4, ChosenElements
<1>6. /\ Len(used) \in Nat /\ DOMAIN used = 1 .. Len(used)
      /\ \A i \in 1 .. Len(used) : used[i].targets \in Seq(Text)
  <2>1. Len(used) \in Nat /\ DOMAIN used = 1 .. Len(used)
    BY <1>5, LenProperties
  <2>2. \A i \in 1 .. Len(used) : used[i] \in A
    BY <1>5, ElementOfSeq
  <2> QED
    BY <2>1, <2>2
<1>7. PICK F : F = [i \in 1 .. Len(used) |-> used[i].targets]
  OBVIOUS
<1>8. F \in Seq(Seq(Text)) /\ Len(F) = Len(used)
  <2>1. F \in [1 .. Len(used) -> Seq(Text)]
    BY <1>6, <1>7
  <2> QED
    BY <1>6, <2>1, FunctionIsSeq
<1>9. PICK meant : meant = FlattenSeq(F)
  OBVIOUS
<1>10. meant \in Seq(Text) /\ Joins(F, Len(F), meant)
  BY <1>8, <1>9, FlattenJoins
<1>11. Len(meant) \in Nat /\ DOMAIN meant = 1 .. Len(meant)
  BY <1>10, LenProperties
<1>12. PICK K : K = {i \in 1 .. Len(meant) : meant[i] \in Name}
  OBVIOUS
<1>13. Targets(t) = ElementsAt(meant, K)
  BY <1>1, <1>2, <1>3, <1>6, <1>7, <1>9, <1>11, <1>12, Zenon DEF Targets
<1>14. PICK r : r = Targets(t)
  OBVIOUS
<1>15. K \in SUBSET (1 .. Len(meant))
  BY <1>12
<1>16. r \in Seq(Text) /\ HasJust(r, meant, K)
  BY <1>10, <1>13, <1>14, <1>15, ChosenElements
<1>17. r \in Seq(Name)
  <2>1. Len(r) \in Nat /\ r \in [1 .. Len(r) -> Text]
    BY <1>16, LenProperties
  <2>2. \A i \in 1 .. Len(r) : r[i] \in Name
    BY <1>12, <1>16 DEF HasJust
  <2>3. r \in [1 .. Len(r) -> Name]
    BY <2>1, <2>2
  <2> QED
    BY <2>1, <2>3, FunctionIsSeq
<1>18. ASSUME NEW k \in Name, NEW i \in 1 .. Len(r), r[i] = k
       PROVE  Meant(k, t)
  <2>1. PICK j \in K : r[i] = meant[j]
    BY <1>16 DEF HasJust
  <2>2. j \in 1 .. Len(meant)
    BY <1>15, <2>1
  <2>3. PICK m \in 1 .. Len(F) : \E l \in 1 .. Len(F[m]) : meant[j] = F[m][l]
    BY <1>10, <2>2 DEF Joins
  <2>4. PICK l \in 1 .. Len(F[m]) : meant[j] = F[m][l]
    BY <2>3
  <2>5. PICK a \in U : used[m] = Aliases[a]
    BY <1>5, <1>8 DEF HasJust
  <2>6. F[m] = Aliases[a].targets
    BY <1>7, <1>8, <2>5
  <2>7. Contains(Aliases[a].targets, k)
    BY <1>18, <2>1, <2>4, <2>6 DEF Contains
  <2>8. a \in DOMAIN Aliases /\ Occurs(Aliases[a].slang, t)
    BY <1>1, <1>2, <2>5
  <2> QED
    BY <2>7, <2>8 DEF Meant
<1>19. ASSUME NEW k \in Name, Meant(k, t)
       PROVE  \E i \in 1 .. Len(r) : r[i] = k
  <2>1. PICK a \in DOMAIN Aliases :
          Occurs(Aliases[a].slang, t) /\ Contains(Aliases[a].targets, k)
    BY <1>19 DEF Meant
  <2>2. a \in U
    BY <1>1, <1>2, <2>1
  <2>3. PICK m \in 1 .. Len(used) : used[m] = Aliases[a]
    BY <1>5, <2>2 DEF HasJust
  <2>4. F[m] = Aliases[a].targets /\ m \in 1 .. Len(F)
    BY <1>7, <1>8, <2>3
  <2>5. PICK l \in 1 .. Len(F[m]) : F[m][l] = k
    BY <2>1, <2>4 DEF Contains
  <2>6. PICK j \in 1 .. Len(meant) : meant[j] = F[m][l]
    BY <1>10, <2>4 DEF Joins
  <2>7. j \in K
    BY <1>12, <2>5, <2>6
  <2>8. PICK i \in 1 .. Len(r) : r[i] = meant[j]
    BY <1>16, <2>7 DEF HasJust
  <2> QED
    BY <2>5, <2>6, <2>8
<1> QED
  BY <1>14, <1>17, <1>18, <1>19

\* The score a search gives a menu; without one it is not found.
Points(k, t) ==
  IF Meant(k, t) THEN 1000
  ELSE IF NameScore(k, t) >= 2 THEN NameScore(k, t)
  ELSE IF CategoryOf(k) \in matched_categories(t) THEN 1 ELSE 0

LEMMA BySlangIs ==
  ASSUME NEW t \in Text, NEW d, d = BySlang(ByName(t), t)
  PROVE  /\ d \in Dicts(Name)
         /\ \A k \in Name, z \in Nat :
              Holds(d, k, z) <=> z = Points(k, t) /\ z >= 2
<1> DEFINE E == [kr : Name, score : Nat]
<1>1. PICK r : r = Targets(t)
  OBVIOUS
<1>2. /\ r \in Seq(Name) /\ Len(r) \in Nat /\ DOMAIN r = 1 .. Len(r)
      /\ \A i \in 1 .. Len(r) : r[i] \in Name
      /\ \A k \in Name : (\E i \in 1 .. Len(r) : r[i] = k) <=> Meant(k, t)
  <2>1. r \in Seq(Name) /\ \A k \in Name : (\E i \in 1 .. Len(r) : r[i] = k) <=> Meant(k, t)
    BY <1>1, TargetsAre
  <2> QED
    BY <2>1, LenProperties, ElementOfSeq
<1>3. PICK e : e = [i \in 1 .. Len(r) |-> [kr |-> r[i], score |-> 1000]]
  OBVIOUS
<1>4. PICK b \in Dicts(Name) : b = ByName(t)
  BY ByNameIs
<1>5. d = PutAll(b, e)
  BY <1>1, <1>2, <1>3, <1>4 DEF BySlang
<1>6. e \in Seq(E) /\ Len(e) = Len(r)
  <2>1. e \in [1 .. Len(r) -> E]
    BY <1>2, <1>3
  <2> QED
    BY <1>2, <2>1, FunctionIsSeq
<1>7. \A i \in 1 .. Len(e) : e[i].kr = r[i] /\ e[i].score = 1000
  BY <1>3, <1>6
<1>8. d \in Dicts(Name) /\ Gathers(Name, d, b, e, Len(e))
  BY <1>5, <1>6, PutAllIs
<1>9. ASSUME NEW k \in Name, NEW z \in Nat
      PROVE  Given(b, e, Len(e), k, z) <=> \/ z = NameScore(k, t) /\ z >= 2
                                           \/ Meant(k, t) /\ z = 1000
  <2>1. Holds(b, k, z) <=> z = NameScore(k, t) /\ z >= 2
    BY <1>4, ByNameIs
  <2>2. (\E i \in 1 .. Len(e) : e[i].kr = k /\ e[i].score = z) <=> Meant(k, t) /\ z = 1000
    BY <1>2, <1>6, <1>7
  <2> QED
    BY <2>1, <2>2 DEF Given
<1>10. ASSUME NEW k \in Name, NEW z \in Nat
       PROVE  Holds(d, k, z) <=> z = Points(k, t) /\ z >= 2
  <2>1. NameScore(k, t) \in Nat /\ NameScore(k, t) < 1000
    BY NameScoreIs
  <2>2. \A x \in Nat : Holds(d, k, x) => Given(b, e, Len(e), k, x)
    BY <1>8 DEF Gathers
  <2>3. \A x \in Nat : Given(b, e, Len(e), k, x) => \E w \in Nat : x <= w /\ Holds(d, k, w)
    BY <1>8 DEF Gathers
  <2>4. \A x, w \in Nat : Holds(d, k, x) /\ Holds(d, k, w) => x = w
    BY <1>8 DEF Dicts, Holds
  <2>5. \A x \in Nat : Given(b, e, Len(e), k, x) <=> \/ x = NameScore(k, t) /\ x >= 2
                                                     \/ Meant(k, t) /\ x = 1000
    BY <1>9
  <2>6. CASE Meant(k, t)
    <3>1. Points(k, t) = 1000
      BY <2>6 DEF Points
    <3>2. PICK w \in Nat : 1000 <= w /\ Holds(d, k, w)
      BY <2>3, <2>5, <2>6
    <3>3. w = 1000
      BY <2>1, <2>2, <2>5, <3>2
    <3> QED
      BY <2>4, <3>1, <3>2, <3>3
  <2>7. CASE ~Meant(k, t) /\ NameScore(k, t) >= 2
    <3>1. Points(k, t) = NameScore(k, t)
      BY <2>7 DEF Points
    <3>2. PICK w \in Nat : NameScore(k, t) <= w /\ Holds(d, k, w)
      BY <2>1, <2>3, <2>5, <2>7
    <3>3. w = NameScore(k, t)
      BY <2>1, <2>2, <2>5, <2>7, <3>2
    <3> QED
      BY <2>4, <2>7, <3>1, <3>2, <3>3
  <2>8. CASE ~Meant(k, t) /\ ~(NameScore(k, t) >= 2)
    <3>1. Points(k, t) \in {0, 1}
      BY <2>8 DEF Points
    <3>2. ~Holds(d, k, z)
      BY <2>1, <2>2, <2>5, <2>8
    <3> QED
      BY <3>1, <3>2
  <2> QED
    BY <2>6, <2>7, <2>8
<1> QED
  BY <1>8, <1>10

LEMMA ByCategoryIs ==
  ASSUME NEW t \in Text, NEW d, d = ByCategory(BySlang(ByName(t), t), t)
  PROVE  /\ d \in Dicts(Name)
         /\ \A k \in Name, z \in Nat :
              Holds(d, k, z) <=> z = Points(k, t) /\ z > 0
<1> DEFINE E == [kr : Name, score : Nat]
<1>1. PICK b \in Dicts(Name) : b = BySlang(ByName(t), t)
  BY BySlangIs
<1>2. \A k \in Name, z \in Nat : Holds(b, k, z) <=> z = Points(k, t) /\ z >= 2
  BY <1>1, BySlangIs
<1>3. PICK n \in Nat : n = Len(Menus)
  BY MenuFacts
<1>4. PICK s : s = [i \in DOMAIN Menus |-> [kr |-> Menus[i].kr, score |-> 1]]
  OBVIOUS
<1>5. PICK K : K = {i \in DOMAIN Menus : /\ Menus[i].category \in matched_categories(t)
                                         /\ ~Scored(b, Menus[i].kr)}
  OBVIOUS
<1>6. PICK e : e = ElementsAt(s, K)
  OBVIOUS
<1>7. d = PutAll(b, e)
  BY <1>1, <1>4, <1>5, <1>6 DEF ByCategory
<1>8. s \in Seq(E) /\ Len(s) = n
  <2>1. \A i \in 1 .. n : [kr |-> Menus[i].kr, score |-> 1] \in E
    BY <1>3, MenuFacts
  <2>2. s \in [1 .. n -> E]
    <3> HIDE DEF E
    <3> QED
      BY <1>3, <1>4, <2>1, MenuFacts
  <2> QED
    BY <2>2, FunctionIsSeq
<1>9. \A i \in 1 .. n : s[i].kr = Menus[i].kr /\ s[i].score = 1
  BY <1>3, <1>4, MenuFacts
<1>10. /\ K \in SUBSET (1 .. Len(s))
       /\ \A i \in 1 .. n : i \in K <=> /\ CategoryOf(Menus[i].kr) \in matched_categories(t)
                                        /\ ~Scored(b, Menus[i].kr)
  BY <1>3, <1>5, <1>8, MenuFacts
<1> HIDE DEF E
<1>11. e \in Seq(E) /\ HasJust(e, s, K)
  BY <1>6, <1>8, <1>10, ChosenElements
<1>12. d \in Dicts(Name) /\ Gathers(Name, d, b, e, Len(e))
  BY <1>7, <1>11, PutAllIs DEF E
<1>13. \A k \in Name : Points(k, t) \in Nat
  BY NameScoreIs DEF Points
<1>14. ASSUME NEW k \in Name
       PROVE  Scored(b, k) <=> Points(k, t) >= 2
  <2>1. Scored(b, k) <=> \E z \in Nat : Holds(b, k, z)
    <3>1. DOMAIN b = 1 .. Len(b) /\ \A i \in 1 .. Len(b) : b[i].score \in Nat
      BY DictFacts
    <3> QED
      BY <3>1 DEF Scored, Holds
  <2> QED
    BY <1>2, <1>13, <2>1
<1>15. ASSUME NEW k \in Name, NEW z \in Nat
       PROVE  Given(b, e, Len(e), k, z) <=> z = Points(k, t) /\ z > 0
  <2>1. ASSUME NEW i \in 1 .. Len(e), e[i].kr = k, e[i].score = z
        PROVE  z = Points(k, t) /\ z > 0
    <3>1. PICK j \in K : e[i] = s[j]
      BY <1>11 DEF HasJust
    <3>2. j \in 1 .. n
      BY <1>8, <1>10
    <3>3. Menus[j].kr = k /\ z = 1
      BY <1>9, <2>1, <3>1, <3>2
    <3>4. CategoryOf(k) \in matched_categories(t) /\ ~Scored(b, k)
      BY <1>10, <3>1, <3>2, <3>3
    <3>5. Points(k, t) = 1
      BY <1>14, <3>4, NameScoreIs DEF Points
    <3> QED
      BY <3>3, <3>5
  <2>2. ASSUME z = Points(k, t), z > 0, ~(z >= 2)
        PROVE  \E i \in 1 .. Len(e) : e[i].kr = k /\ e[i].score = z
    <3>1. z = 1 /\ CategoryOf(k) \in matched_categories(t) /\ ~Scored(b, k)
      BY <1>14, <2>2 DEF Points
    <3>2. PICK j \in 1 .. n : Menus[j].kr = k
      BY <1>3, MenuFacts
    <3>3. j \in K
      BY <1>10, <3>1, <3>2
    <3>4. PICK i \in 1 .. Len(e) : e[i] = s[j]
      BY <1>11, <3>3 DEF HasJust
    <3> QED
      BY <1>9, <3>1, <3>2, <3>4
  <2>3. Holds(b, k, z) <=> z = Points(k, t) /\ z >= 2
    BY <1>2
  <2> QED
    BY <2>1, <2>2, <2>3 DEF Given
<1>16. ASSUME NEW k \in Name, NEW z \in Nat, z = Points(k, t), z > 0
       PROVE  Holds(d, k, z)
  <2>1. PICK w \in Nat : z <= w /\ Holds(d, k, w)
    BY <1>12, <1>15, <1>16 DEF Gathers
  <2>2. w = z
    BY <1>12, <1>15, <1>16, <2>1 DEF Gathers
  <2> QED
    BY <2>1, <2>2
<1>17. ASSUME NEW k \in Name, NEW z \in Nat, Holds(d, k, z)
       PROVE  z = Points(k, t) /\ z > 0
  BY <1>12, <1>15, <1>17 DEF Gathers
<1> QED
  BY <1>12, <1>16, <1>17

-----------------------------------------------------------------------------
(* Sorting *)

LEMMA BeforeIsOrder ==
  ASSUME NEW T, NEW d \in Dicts(T)
  PROVE  /\ \A i, j \in 1 .. Len(d) : i # j => Before(d, i, j) \/ Before(d, j, i)
         /\ \A i \in 1 .. Len(d) : ~Before(d, i, i)
         /\ \A i, j, k \in 1 .. Len(d) : Before(d, i, j) /\ Before(d, j, k) => Before(d, i, k)
<1>1. Len(d) \in Nat /\ \A i \in 1 .. Len(d) : d[i].score \in Nat
  BY DictFacts
<1>2. \A i \in 1 .. Len(d) : i \in Int /\ d[i].score \in Int
  BY <1>1
<1>3. ASSUME NEW i \in 1 .. Len(d), NEW j \in 1 .. Len(d), i # j
      PROVE  Before(d, i, j) \/ Before(d, j, i)
  BY <1>2, <1>3 DEF Before
<1>4. ASSUME NEW i \in 1 .. Len(d)
      PROVE  ~Before(d, i, i)
  BY <1>2 DEF Before
<1>5. ASSUME NEW i \in 1 .. Len(d), NEW j \in 1 .. Len(d), NEW k \in 1 .. Len(d),
             Before(d, i, j), Before(d, j, k)
      PROVE  Before(d, i, k)
  BY <1>2, <1>5 DEF Before
<1> QED
  BY <1>3, <1>4, <1>5

\* The places are those of the list, and in the order of the elements.
LEMMA PlaceIs ==
  ASSUME NEW T, NEW d \in Dicts(T)
  PROVE  /\ \A i \in 1 .. Len(d) : Place(d, i) \in 1 .. Len(d)
         /\ \A i, j \in 1 .. Len(d) : Before(d, i, j) => Place(d, i) < Place(d, j)
<1> DEFINE D == 1 .. Len(d)
           First(i) == {j \in D : Before(d, j, i)}
<1>1. Len(d) \in Nat /\ DOMAIN d = D
  BY DictFacts
<1>2. IsFiniteSet(D) /\ Cardinality(D) = Len(d)
  <2>1. PICK n \in Nat : n = Len(d)
    BY <1>1
  <2>2. IsFiniteSet(1 .. n) /\ Cardinality(1 .. n) = IF 1 > n THEN 0 ELSE n - 1 + 1
    BY FS_Interval
  <2>3. (IF 1 > n THEN 0 ELSE n - 1 + 1) = n
    OBVIOUS
  <2> QED
    BY <2>1, <2>2, <2>3
<1>3. \A i \in D : Place(d, i) = Cardinality(First(i)) + 1
  BY <1>1 DEF Place
<1>4. ASSUME NEW i \in D
      PROVE  /\ IsFiniteSet(First(i)) /\ Cardinality(First(i)) \in Nat
             /\ i \notin First(i)
             /\ IsFiniteSet(First(i) \cup {i})
             /\ Cardinality(First(i) \cup {i}) = Cardinality(First(i)) + 1
  <2>1. IsFiniteSet(First(i))
    BY <1>2, FS_Subset
  <2>2. i \notin First(i)
    BY BeforeIsOrder
  <2> HIDE DEF First, D
  <2> QED
    BY <2>1, <2>2, FS_CardinalityType, FS_AddElement
<1>5. ASSUME NEW i \in D
      PROVE  Place(d, i) \in 1 .. Len(d)
  <2>1. First(i) \cup {i} \in SUBSET D
    OBVIOUS
  <2>2. Cardinality(First(i) \cup {i}) <= Len(d)
    <3> HIDE DEF First, D
    <3> QED
      BY <1>2, <2>1, FS_Subset
  <2> HIDE DEF First, D
  <2>3. PICK c \in Nat : c = Cardinality(First(i))
    BY <1>4
  <2>4. c + 1 <= Len(d) /\ Place(d, i) = c + 1
    BY <1>3, <1>4, <2>2, <2>3
  <2> QED
    BY <1>1, <2>4
<1>6. ASSUME NEW i \in D, NEW j \in D, Before(d, i, j)
      PROVE  Place(d, i) < Place(d, j)
  <2>1. First(i) \cup {i} \in SUBSET First(j)
    BY <1>6, BeforeIsOrder
  <2>2. Cardinality(First(i) \cup {i}) <= Cardinality(First(j))
    <3> HIDE DEF First, D
    <3> QED
      BY <1>4, <2>1, FS_Subset
  <2> HIDE DEF First, D
  <2>3. PICK c \in Nat, e \in Nat : c = Cardinality(First(i)) /\ e = Cardinality(First(j))
    BY <1>4
  <2>4. c + 1 <= e /\ Place(d, i) = c + 1 /\ Place(d, j) = e + 1
    BY <1>3, <1>4, <2>2, <2>3
  <2> QED
    BY <2>4
<1> QED
  BY <1>5, <1>6

\* R has the names of d, by falling score.
Sorts(d, R, p) ==
  /\ p \in [1 .. Len(d) -> 1 .. Len(d)]
  /\ \A k \in 1 .. Len(d) : R[k] = d[p[k]].kr
  /\ \A i \in 1 .. Len(d) : \E k \in 1 .. Len(d) : p[k] = i
  /\ \A k, l \in 1 .. Len(d) : k < l => Before(d, p[k], p[l])

LEMMA RankedSorts ==
  ASSUME NEW T, NEW d \in Dicts(T), NEW R, R = Ranked(d)
  PROVE  R \in Seq(T) /\ Len(R) = Len(d) /\ \E p : Sorts(d, R, p)
<1> DEFINE D == 1 .. Len(d)
<1>1. /\ Len(d) \in Nat /\ DOMAIN d = D
      /\ \A i \in D : d[i].kr \in T
  BY DictFacts
<1>2. PICK q : q = [i \in D |-> Place(d, i)]
  OBVIOUS
<1>3. q \in [D -> D] /\ \A i, j \in D : Before(d, i, j) => q[i] < q[j]
  BY <1>2, PlaceIs
<1>4. \A i \in D : q[i] \in Int
  BY <1>1, <1>3
<1>5. \A i, j \in D : q[i] = q[j] => i = j
  <2> SUFFICES ASSUME NEW i \in D, NEW j \in D, q[i] = q[j], i # j
               PROVE  FALSE
    OBVIOUS
  <2>1. Before(d, i, j) \/ Before(d, j, i)
    BY BeforeIsOrder
  <2> QED
    BY <1>3, <1>4, <2>1
<1>6. q \in Injection(D, D)
  BY <1>3, <1>5 DEF Injection, IsInjective
<1>7. IsFiniteSet(D)
  BY <1>1, FS_Interval
<1>8. q \in Surjection(D, D)
  <2> HIDE DEF D
  <2> QED
    BY <1>6, <1>7, FS_Injection
<1>9. \A k \in D : \E i \in D : q[i] = k
  BY <1>8 DEF Surjection
<1>10. PICK p : p = [k \in D |-> CHOOSE i \in D : Place(d, i) = k]
  OBVIOUS
<1>11. \A k \in D : p[k] \in D /\ q[p[k]] = k
  <2> SUFFICES ASSUME NEW k \in D
               PROVE  p[k] \in D /\ q[p[k]] = k
    OBVIOUS
  <2>1. \E i \in D : Place(d, i) = k
    BY <1>2, <1>9
  <2>2. p[k] = CHOOSE i \in D : Place(d, i) = k
    BY <1>10
  <2>3. p[k] \in D /\ Place(d, p[k]) = k
    <3> HIDE DEF D
    <3> QED
      BY <2>1, <2>2
  <2> QED
    BY <1>2, <2>3
<1>12. p \in [D -> D]
  BY <1>10, <1>11
<1>13. R = [k \in D |-> d[p[k]].kr]
  BY <1>1, <1>10 DEF Ranked
<1>14. R \in Seq(T) /\ Len(R) = Len(d)
  <2>1. R \in [1 .. Len(d) -> T]
    BY <1>1, <1>11, <1>13
  <2> QED
    BY <1>1, <2>1, FunctionIsSeq
<1>15. \A i \in D : \E k \in D : p[k] = i
  BY <1>3, <1>5, <1>11
<1>16. ASSUME NEW k \in D, NEW l \in D, k < l
       PROVE  Before(d, p[k], p[l])
  <2>1. p[k] # p[l]
    BY <1>11, <1>16
  <2>2. Before(d, p[k], p[l]) \/ Before(d, p[l], p[k])
    BY <1>11, <2>1, BeforeIsOrder
  <2>3. ~Before(d, p[l], p[k])
    <3>1. Before(d, p[l], p[k]) => l < k
      BY <1>3, <1>11
    <3> QED
      BY <1>1, <1>16, <3>1
  <2> QED
    BY <2>2, <2>3
<1>17. \A k \in D : R[k] = d[p[k]].kr
  BY <1>13
<1>18. Sorts(d, R, p)
  BY <1>12, <1>15, <1>16, <1>17 DEF Sorts
<1> QED
  BY <1>14, <1>18

-----------------------------------------------------------------------------
(* The strongest menus *)

\* How strong a menu is, and the score that says so.
Strength(lev, sha, pts, len, ls) ==
  \/ lev = 4 /\ sha = 0 /\ pts = 1000
  \/ lev = 3 /\ sha = len /\ pts = 10 * len
  \/ lev = 2 /\ sha = ls /\ pts = ls /\ ls >= 2
  \/ lev = 1 /\ sha = 0 /\ pts = 1
  \/ lev = 0 /\ sha = 0 /\ pts = 0

LEMMA StrengthOf ==
  ASSUME NEW t \in Text, NEW k \in Name
  PROVE  \E len \in 1 .. 99 : \E ls \in 0 .. len :
            /\ len = Len(k)
            /\ Strength(Level(k, t), Share(k, t), Points(k, t), len, ls)
<1>1. PICK len \in 1 .. 99 : len = Len(k)
  BY MenuFacts
<1>2. PICK ls \in 0 .. len : ls = LongestShared(k, t)
  BY <1>1, NameScoreIs
<1>3. /\ NameScore(k, t) = IF Occurs(k, t) THEN 10 * len ELSE ls
      /\ Occurs(k, t) => ls = len
  BY <1>1, <1>2, NameScoreIs
<1>4. 10 * len \in Nat /\ 10 * len >= 2
  OBVIOUS
<1>5. CASE Meant(k, t)
  <2>1. Level(k, t) = 4 /\ Points(k, t) = 1000
    BY <1>5 DEF Level, Points
  <2>2. Share(k, t) = 0
    BY <2>1 DEF Share
  <2>3. Strength(Level(k, t), Share(k, t), Points(k, t), len, ls)
    BY <2>1, <2>2 DEF Strength
  <2> QED
    BY <1>1, <2>3
<1>6. CASE ~Meant(k, t) /\ Occurs(k, t)
  <2>1. Level(k, t) = 3
    BY <1>6 DEF Level
  <2>2. Points(k, t) = 10 * len
    BY <1>3, <1>4, <1>6 DEF Points
  <2>3. Share(k, t) = len
    BY <1>2, <1>3, <1>6, <2>1 DEF Share
  <2>4. Strength(Level(k, t), Share(k, t), Points(k, t), len, ls)
    BY <2>1, <2>2, <2>3 DEF Strength
  <2> QED
    BY <1>1, <2>4
<1>7. CASE ~Meant(k, t) /\ ~Occurs(k, t) /\ ls >= 2
  <2>1. Level(k, t) = 2
    BY <1>2, <1>7 DEF Level
  <2>2. Points(k, t) = ls
    BY <1>3, <1>7 DEF Points
  <2>3. Share(k, t) = ls
    BY <1>2, <2>1 DEF Share
  <2>4. Strength(Level(k, t), Share(k, t), Points(k, t), len, ls)
    BY <1>7, <2>1, <2>2, <2>3 DEF Strength
  <2> QED
    BY <1>1, <2>4
<1>8. CASE ~Meant(k, t) /\ ~Occurs(k, t) /\ ~(ls >= 2)
  <2>1. Level(k, t) = IF CategoryOf(k) \in matched_categories(t) THEN 1 ELSE 0
    BY <1>2, <1>8 DEF Level
  <2>2. Points(k, t) = IF CategoryOf(k) \in matched_categories(t) THEN 1 ELSE 0
    BY <1>3, <1>8 DEF Points
  <2>3. Share(k, t) = 0
    BY <2>1 DEF Share
  <2>4. Strength(Level(k, t), Share(k, t), Points(k, t), len, ls)
    BY <2>1, <2>2, <2>3 DEF Strength
  <2> QED
    BY <1>1, <2>4
<1> QED
  BY <1>5, <1>6, <1>7, <1>8

\* What is not on the menu is not strong.
LEMMA StrangeIsWeak ==
  ASSUME NEW t \in Text, NEW k, k \notin Name
  PROVE  Level(k, t) = 0 /\ Share(k, t) = 0
<1>1. Level(k, t) = 0
  BY DEF Level
<1> QED
  BY <1>1 DEF Share

\* Scores order the menus as their strengths do.
LEMMA PointsOrder ==
  ASSUME NEW t \in Text, NEW k \in Name
  PROVE  /\ Level(k, t) \in Nat /\ Share(k, t) \in Nat /\ Points(k, t) \in Nat
         /\ Level(k, t) > 0 <=> Points(k, t) > 0
         /\ \A l \in Name : Stronger(k, l, t) => Points(l, t) < Points(k, t)
<1>1. PICK len \in 1 .. 99 : \E ls \in 0 .. len :
        len = Len(k) /\ Strength(Level(k, t), Share(k, t), Points(k, t), len, ls)
  BY StrengthOf
<1>2. PICK ls \in 0 .. len :
        len = Len(k) /\ Strength(Level(k, t), Share(k, t), Points(k, t), len, ls)
  BY <1>1
<1>3. /\ Level(k, t) \in Nat /\ Share(k, t) \in Nat /\ Points(k, t) \in Nat
      /\ Level(k, t) > 0 <=> Points(k, t) > 0
  BY <1>2 DEF Strength
<1>4. ASSUME NEW l \in Name, Stronger(k, l, t)
      PROVE  Points(l, t) < Points(k, t)
  <2>1. PICK len2 \in 1 .. 99 : \E ls2 \in 0 .. len2 :
          len2 = Len(l) /\ Strength(Level(l, t), Share(l, t), Points(l, t), len2, ls2)
    BY StrengthOf
  <2>2. PICK ls2 \in 0 .. len2 :
          len2 = Len(l) /\ Strength(Level(l, t), Share(l, t), Points(l, t), len2, ls2)
    BY <2>1
  <2>3. len2 < 10 * len /\ len < 10 * len2 /\ 10 * len < 1000 /\ 10 * len2 < 1000
    BY <1>2, <2>2, MenuSearchAssumption
  <2>4. PICK a \in Nat, b \in Nat, p \in Nat : a = Level(k, t) /\ b = Share(k, t) /\ p = Points(k, t)
    BY <1>3
  <2>5. PICK a2 \in Nat, b2 \in Nat, p2 \in Nat :
          a2 = Level(l, t) /\ b2 = Share(l, t) /\ p2 = Points(l, t)
    BY <2>2 DEF Strength
  <2>6. Strength(a, b, p, len, ls) /\ Strength(a2, b2, p2, len2, ls2)
    BY <1>2, <2>2, <2>4, <2>5
  <2>7. a > a2 \/ (a = a2 /\ b > b2)
    BY <1>4, <2>4, <2>5 DEF Stronger
  <2>8. p2 < p
    BY <2>3, <2>6, <2>7 DEF Strength
  <2> QED
    BY <2>4, <2>5, <2>8
<1> QED
  BY <1>3, <1>4

\* The list s shows the menus a text points to most, as far as k allow.
Shows(s, t, k) ==
  /\ \A i, j \in 1 .. Len(s) : i < j => ~Stronger(s[j], s[i], t)
  /\ \A kr \in Name :
       (Level(kr, t) > 0 /\ ~Contains(s, kr)) =>
         Len(s) = k /\ \A i \in 1 .. Len(s) : ~Stronger(kr, s[i], t)

LEMMA SearchShows ==
  ASSUME NEW t \in Text, NEW k \in Nat, NEW s, s = keyword_menu_search(t, k)
  PROVE  /\ s \in Seq(Name) /\ IsInjective(s) /\ Len(s) <= k
         /\ \A i \in 1 .. Len(s) : Level(s[i], t) > 0
         /\ Shows(s, t, k)
<1>1. PICK d \in Dicts(Name) : d = ByCategory(BySlang(ByName(t), t), t)
  BY ByCategoryIs
<1>2. /\ Len(d) \in Nat
      /\ \A i \in 1 .. Len(d) : d[i].kr \in Name /\ d[i].score \in Nat
      /\ \A i, j \in 1 .. Len(d) : d[i].kr = d[j].kr => i = j
  BY DictFacts
<1>3. \A kr \in Name, z \in Nat : Holds(d, kr, z) <=> z = Points(kr, t) /\ z > 0
  BY <1>1, ByCategoryIs
<1>4. \A i \in 1 .. Len(d) : d[i].score = Points(d[i].kr, t) /\ Points(d[i].kr, t) > 0
  <2> SUFFICES ASSUME NEW i \in 1 .. Len(d)
               PROVE  d[i].score = Points(d[i].kr, t) /\ Points(d[i].kr, t) > 0
    OBVIOUS
  <2>1. Holds(d, d[i].kr, d[i].score)
    BY DEF Holds
  <2> QED
    BY <1>2, <1>3, <2>1
<1>5. PICK R : R = Ranked(d)
  OBVIOUS
<1>6. R \in Seq(Name) /\ Len(R) = Len(d) /\ \E p : Sorts(d, R, p)
  BY <1>5, RankedSorts
<1>7. PICK p : Sorts(d, R, p)
  BY <1>6
<1>8. /\ \A i \in 1 .. Len(d) : p[i] \in 1 .. Len(d) /\ R[i] = d[p[i]].kr
      /\ \A i \in 1 .. Len(d) : \E m \in 1 .. Len(d) : p[m] = i
      /\ \A i, j \in 1 .. Len(d) : i < j => Before(d, p[i], p[j])
  BY <1>7 DEF Sorts
<1>9. ASSUME NEW i \in 1 .. Len(d)
      PROVE  R[i] \in Name /\ Points(R[i], t) \in Nat /\ Points(R[i], t) > 0
  <2>1. p[i] \in 1 .. Len(d) /\ R[i] = d[p[i]].kr
    BY <1>8
  <2>2. Points(d[p[i]].kr, t) > 0 /\ d[p[i]].kr \in Name
    BY <1>2, <1>4, <2>1
  <2> QED
    BY <2>1, <2>2, PointsOrder
<1>10. ASSUME NEW i \in 1 .. Len(d), NEW j \in 1 .. Len(d), i < j
       PROVE  Points(R[j], t) <= Points(R[i], t)
  <2>1. p[i] \in 1 .. Len(d) /\ R[i] = d[p[i]].kr /\ p[j] \in 1 .. Len(d) /\ R[j] = d[p[j]].kr
    BY <1>8
  <2>2. d[p[i]].score >= d[p[j]].score
    <3>1. d[p[i]].score \in Nat /\ d[p[j]].score \in Nat
      BY <1>2, <2>1
    <3>2. Before(d, p[i], p[j])
      BY <1>8, <1>10
    <3> QED
      BY <3>1, <3>2 DEF Before
  <2>3. d[p[i]].score = Points(R[i], t) /\ d[p[j]].score = Points(R[j], t)
    BY <1>4, <2>1
  <2>4. Points(R[i], t) \in Nat /\ Points(R[j], t) \in Nat
    BY <1>9
  <2> QED
    BY <2>2, <2>3, <2>4
<1>11. IsInjective(R)
  <2>1. DOMAIN R = 1 .. Len(d)
    BY <1>6, LenProperties
  <2> SUFFICES ASSUME NEW i \in 1 .. Len(d), NEW j \in 1 .. Len(d), R[i] = R[j], i # j
               PROVE  FALSE
    BY <2>1 DEF IsInjective
  <2>2. p[i] \in 1 .. Len(d) /\ p[j] \in 1 .. Len(d) /\ p[i] = p[j]
    <3>1. p[i] \in 1 .. Len(d) /\ R[i] = d[p[i]].kr /\ p[j] \in 1 .. Len(d) /\ R[j] = d[p[j]].kr
      BY <1>8
    <3>2. d[p[i]].kr = d[p[j]].kr
      BY <3>1
    <3> QED
      BY <1>2, <3>1, <3>2, Zenon
  <2>3. Before(d, p[i], p[j]) \/ Before(d, p[j], p[i])
    BY <1>2, <1>8
  <2> QED
    BY <2>2, <2>3, BeforeIsOrder
<1>12. s = Cut(R, k)
  BY <1>1, <1>5 DEF keyword_menu_search
<1>13. s \in Seq(Name) /\ IsCut(s, R, k)
  BY <1>6, <1>12, CutProperties
<1>14. Len(s) \in Nat /\ \A i \in 1 .. Len(s) : i \in 1 .. Len(d) /\ s[i] = R[i]
  BY <1>6, <1>13, LenProperties DEF IsCut
<1>15. ASSUME NEW i \in 1 .. Len(s)
       PROVE  Level(s[i], t) > 0
  BY <1>9, <1>14, PointsOrder
<1>16. ASSUME NEW i \in 1 .. Len(s), NEW j \in 1 .. Len(s), i < j
       PROVE  ~Stronger(s[j], s[i], t)
  <2>1. Points(s[j], t) <= Points(s[i], t) /\ s[i] \in Name /\ s[j] \in Name
    BY <1>9, <1>10, <1>14, <1>16
  <2> QED
    BY <2>1, PointsOrder
<1>17. ASSUME NEW kr \in Name, Level(kr, t) > 0, ~Contains(s, kr)
       PROVE  Len(s) = k /\ \A i \in 1 .. Len(s) : ~Stronger(kr, s[i], t)
  <2>1. Points(kr, t) \in Nat /\ Points(kr, t) > 0
    BY <1>17, PointsOrder
  <2>2. Holds(d, kr, Points(kr, t))
    BY <1>3, <2>1
  <2>3. PICK i \in 1 .. Len(d) : d[i].kr = kr
    BY <2>2 DEF Holds
  <2>4. PICK m \in 1 .. Len(d) : p[m] = i
    BY <1>8
  <2>5. R[m] = kr
    BY <1>8, <2>3, <2>4
  <2>6. m \notin 1 .. Len(s)
    BY <1>14, <1>17, <2>5 DEF Contains
  <2>7. Len(s) = k
    BY <1>6, <1>13, <1>14, <2>6 DEF IsCut
  <2>8. ASSUME NEW j \in 1 .. Len(s)
        PROVE  ~Stronger(kr, s[j], t)
    <3>1. j < m /\ j \in 1 .. Len(d) /\ s[j] = R[j]
      BY <1>2, <1>14, <2>6
    <3>2. Points(kr, t) <= Points(s[j], t) /\ s[j] \in Name
      BY <1>9, <1>10, <2>5, <3>1
    <3> QED
      BY <3>2, PointsOrder
  <2> QED
    BY <2>7, <2>8
<1> QED
  BY <1>11, <1>13, <1>15, <1>16, <1>17 DEF Shows, IsCut

-----------------------------------------------------------------------------
(* The other lists of candidates *)

LEMMA NamesAre ==
  ASSUME NEW T, NEW n \in Nat, NEW ms, DOMAIN ms = 1 .. n,
         \A i \in 1 .. n : ms[i].kr \in T,
         NEW s, s = Names(ms)
  PROVE  s \in Seq(T) /\ Len(s) = n /\ \A i \in 1 .. n : s[i] = ms[i].kr
<1>1. s = [i \in 1 .. n |-> ms[i].kr]
  BY DEF Names
<1>2. s \in [1 .. n -> T]
  BY <1>1
<1> QED
  BY <1>1, <1>2, FunctionIsSeq

\* Of n records no two have the same name.
Keyed(T, n, ms) ==
  /\ DOMAIN ms = 1 .. n
  /\ \A i \in 1 .. n : ms[i].kr \in T
  /\ \A i, j \in 1 .. n : ms[i].kr = ms[j].kr => i = j

HasNames(r, ms, K) ==
  /\ \A i \in 1 .. Len(r) : \E k \in K : r[i] = ms[k].kr
  /\ \A k \in K : \E i \in 1 .. Len(r) : r[i] = ms[k].kr

\* [m.kr for m in ms if ...]
LEMMA NamesAt ==
  ASSUME NEW T, NEW n \in Nat, NEW ms, Keyed(T, n, ms),
         NEW K \in SUBSET (1 .. n), NEW r, r = ElementsAt(Names(ms), K)
  PROVE  r \in Seq(T) /\ IsInjective(r) /\ HasNames(r, ms, K)
<1>1. PICK s : s = Names(ms)
  OBVIOUS
<1>2. s \in Seq(T) /\ Len(s) = n /\ \A i \in 1 .. n : s[i] = ms[i].kr
  BY <1>1, NamesAre DEF Keyed
<1>3. K \in SUBSET (1 .. Len(s)) /\ r = ElementsAt(s, K)
  BY <1>1, <1>2
<1>4. r \in Seq(T) /\ HasJust(r, s, K)
  BY <1>2, <1>3, ChosenElements
<1>5. \A j, k \in K : s[j] = s[k] => j = k
  BY <1>2 DEF Keyed
<1>6. IsInjective(r)
  BY <1>2, <1>3, <1>5, ChosenOnce
<1>7. \A k \in K : s[k] = ms[k].kr
  BY <1>2
<1>8. \A i \in 1 .. Len(r) : \E k \in K : r[i] = ms[k].kr
  BY <1>4, <1>7 DEF HasJust
<1>9. \A k \in K : \E i \in 1 .. Len(r) : r[i] = ms[k].kr
  <2> SUFFICES ASSUME NEW k \in K
               PROVE  \E i \in 1 .. Len(r) : r[i] = ms[k].kr
    OBVIOUS
  <2>1. PICK i \in 1 .. Len(r) : r[i] = s[k]
    BY <1>4 DEF HasJust
  <2> QED
    BY <1>7, <2>1
<1> QED
  BY <1>4, <1>6, <1>8, <1>9, Zenon DEF HasNames

LEMMA InCategoryIs ==
  ASSUME NEW c, NEW r, r = InCategory(c)
  PROVE  /\ r \in Seq(Name) /\ IsInjective(r)
         /\ \A i \in 1 .. Len(r) : CategoryOf(r[i]) = c
         /\ \A j \in 1 .. Len(Menus) : Menus[j].category = c => Len(r) > 0
<1>1. PICK n \in Nat : n = Len(Menus)
  BY MenuFacts
<1>2. PICK K : K = {i \in 1 .. n : Menus[i].category = c}
  OBVIOUS
<1>3. K \in SUBSET (1 .. n) /\ r = ElementsAt(Names(Menus), K)
  BY <1>1, <1>2, MenuFacts DEF InCategory
<1>4. /\ Keyed(Name, n, Menus)
      /\ \A i \in 1 .. n : CategoryOf(Menus[i].kr) = Menus[i].category
  BY <1>1, MenuFacts DEF Keyed
<1>5. r \in Seq(Name) /\ IsInjective(r) /\ HasNames(r, Menus, K)
  BY <1>3, <1>4, NamesAt
<1>6. \A i \in 1 .. Len(r) : CategoryOf(r[i]) = c
  BY <1>2, <1>4, <1>5 DEF HasNames
<1>7. ASSUME NEW j \in 1 .. Len(Menus), Menus[j].category = c
      PROVE  Len(r) > 0
  <2>1. PICK i \in 1 .. Len(r) : r[i] = Menus[j].kr
    BY <1>1, <1>2, <1>5, <1>7 DEF HasNames
  <2>2. Len(r) \in Nat
    BY <1>5, LenProperties
  <2> QED
    BY <2>1, <2>2
<1> QED
  BY <1>5, <1>6, <1>7

\* Samples of each category in a list repeat no menu, and there are some when
\* there is a menu of one of them.
LEMMA ExamplesAre ==
  ASSUME NEW cs \in Seq(STRING), NEW k \in Nat \ {0},
         \A i, j \in 1 .. Len(cs) : cs[i] = cs[j] => i = j,
         NEW a \in 1 .. Len(cs), NEW b \in 1 .. Len(Menus), Menus[b].category = cs[a],
         NEW r, r = Examples(cs, k)
  PROVE  r \in Seq(Name) /\ IsInjective(r) /\ Len(r) > 0
<1>1. Len(cs) \in Nat /\ DOMAIN cs = 1 .. Len(cs)
  BY LenProperties
<1>2. PICK F : F = [i \in 1 .. Len(cs) |-> Cut(InCategory(cs[i]), k)]
  OBVIOUS
<1>3. r = FlattenSeq(F)
  BY <1>1, <1>2 DEF Examples
<1>4. ASSUME NEW i \in 1 .. Len(cs)
      PROVE  /\ F[i] \in Seq(Name) /\ IsInjective(F[i])
             /\ \A j \in 1 .. Len(F[i]) : CategoryOf(F[i][j]) = cs[i]
             /\ i = a => Len(F[i]) > 0
  <2>1. PICK s : s = InCategory(cs[i])
    OBVIOUS
  <2>2. /\ s \in Seq(Name) /\ IsInjective(s)
        /\ \A j \in 1 .. Len(s) : CategoryOf(s[j]) = cs[i]
        /\ \A j \in 1 .. Len(Menus) : Menus[j].category = cs[i] => Len(s) > 0
    BY <2>1, InCategoryIs
  <2>3. F[i] = Cut(s, k)
    BY <1>2, <2>1
  <2>4. k \in Nat
    OBVIOUS
  <2>5. F[i] \in Seq(Name) /\ IsCut(F[i], s, k)
    BY <2>2, <2>3, <2>4, CutProperties
  <2>6. \A j \in 1 .. Len(F[i]) : CategoryOf(F[i][j]) = cs[i]
    BY <2>2, <2>5 DEF IsCut
  <2>7. i = a => Len(F[i]) > 0
    <3>1. Len(s) \in Nat
      BY <2>2, LenProperties
    <3> QED
      BY <2>2, <2>5, <3>1 DEF IsCut
  <2> QED
    BY <2>2, <2>5, <2>6, <2>7 DEF IsCut
<1>5. F \in Seq(Seq(Name)) /\ Len(F) = Len(cs)
  <2>1. F = [i \in 1 .. Len(cs) |-> F[i]]
    BY <1>2
  <2>2. F \in [1 .. Len(cs) -> Seq(Name)]
    BY <1>4, <2>1
  <2> QED
    BY <1>1, <2>2, FunctionIsSeq
<1>6. r \in Seq(Name) /\ Joins(F, Len(F), r)
  BY <1>3, <1>5, FlattenJoins
<1>7. Apart(F, Len(F))
  <2> SUFFICES ASSUME NEW m \in 1 .. Len(cs), NEW l \in 1 .. Len(cs),
                      NEW i \in 1 .. Len(F[m]), NEW j \in 1 .. Len(F[l]), F[m][i] = F[l][j]
               PROVE  m = l /\ i = j
    BY <1>5 DEF Apart
  <2>1. m = l
    BY <1>4
  <2>2. DOMAIN F[m] = 1 .. Len(F[m])
    BY <1>4, LenProperties
  <2>3. i = j
    BY <1>4, <2>1, <2>2 DEF IsInjective
  <2> QED
    BY <2>1, <2>3
<1>8. Len(r) \in Nat /\ DOMAIN r = 1 .. Len(r)
  BY <1>6, LenProperties
<1>9. IsInjective(r)
  BY <1>6, <1>7, <1>8 DEF Joins, IsInjective
<1>10. Len(r) > 0
  <2>1. 1 \in 1 .. Len(F[a])
    <3>1. Len(F[a]) \in Nat /\ Len(F[a]) > 0
      BY <1>4, LenProperties
    <3> QED
      BY <3>1
  <2>2. PICK i \in 1 .. Len(r) : r[i] = F[a][1]
    BY <1>5, <1>6, <2>1 DEF Joins
  <2> QED
    BY <1>8, <2>2
<1> QED
  BY <1>6, <1>9, <1>10

\* The samples of a context without candidates.
LEMMA ContextExamples ==
  ASSUME NEW r, r = Examples(CategoriesOfMenus, 2)
  PROVE  r \in Seq(Name) /\ IsInjective(r) /\ Len(r) > 0
<1>1. PICK n \in Nat \ {0} : n = Len(Menus)
  BY MenuFacts
<1>2. /\ DOMAIN Menus = 1 .. n
      /\ \A i \in 1 .. n : Menus[i].category \in STRING
  BY <1>1, MenuFacts
<1>3. PICK s : s = [i \in 1 .. n |-> Menus[i].category]
  OBVIOUS
<1>4. s \in Seq(STRING) /\ Len(s) = n
  <2>1. s \in [1 .. n -> STRING]
    BY <1>2, <1>3
  <2> QED
    BY <2>1, FunctionIsSeq
<1>5. PICK K : K = {i \in 1 .. n : \A j \in 1 .. n : Menus[j].category = Menus[i].category => i <= j}
  OBVIOUS
<1>6. PICK cs : cs = CategoriesOfMenus
  OBVIOUS
<1>7. K \in SUBSET (1 .. Len(s)) /\ cs = ElementsAt(s, K)
  BY <1>2, <1>3, <1>4, <1>5, <1>6 DEF CategoriesOfMenus
<1>8. cs \in Seq(STRING) /\ HasJust(cs, s, K)
  BY <1>4, <1>7, ChosenElements
<1>9. \A j, k \in K : s[j] = s[k] => j = k
  <2> SUFFICES ASSUME NEW j \in K, NEW k \in K, s[j] = s[k]
               PROVE  j = k
    OBVIOUS
  <2>1. j \in 1 .. n /\ k \in 1 .. n /\ j <= k /\ k <= j
    BY <1>3, <1>5
  <2> QED
    BY <2>1
<1>10. IsInjective(cs)
  BY <1>4, <1>7, <1>9, ChosenOnce
<1>11. \A i, j \in 1 .. Len(cs) : cs[i] = cs[j] => i = j
  <2>1. DOMAIN cs = 1 .. Len(cs)
    BY <1>8, LenProperties
  <2> QED
    BY <1>10, <2>1 DEF IsInjective
<1>12. 1 \in 1 .. n /\ 1 \in K
  BY <1>5
<1>13. PICK a \in 1 .. Len(cs) : cs[a] = s[1]
  BY <1>8, <1>12 DEF HasJust
<1>14. Menus[1].category = cs[a]
  BY <1>3, <1>12, <1>13
<1>15. r = Examples(cs, 2) /\ 1 \in 1 .. Len(Menus) /\ 2 \in Nat \ {0}
  BY <1>1, <1>6
<1> QED
  BY <1>8, <1>11, <1>14, <1>15, ExamplesAre, Zenon

\* The samples of an inquiry without an answer.
LEMMA InquiryExamples ==
  ASSUME NEW r, r = Examples([i \in DOMAIN Categories |-> Categories[i].id], PerCategory)
  PROVE  r \in Seq(Name) /\ IsInjective(r) /\ Len(r) > 0
<1>1. /\ Categories \in Seq([id : STRING, keywords : SUBSET Text])
      /\ \A i, j \in DOMAIN Categories : Categories[i].id = Categories[j].id => i = j
      /\ \A i \in DOMAIN Menus : \E j \in DOMAIN Categories : Categories[j].id = Menus[i].category
      /\ PerCategory \in Nat \ {0}
  BY MenuSearchAssumption
<1>2. PICK n \in Nat : n = Len(Categories) /\ DOMAIN Categories = 1 .. n
  BY <1>1, LenProperties
<1>3. \A i \in 1 .. n : Categories[i].id \in STRING
  <2>1. \A i \in 1 .. n : Categories[i] \in [id : STRING, keywords : SUBSET Text]
    BY <1>1, <1>2, ElementOfSeq
  <2> QED
    BY <2>1
<1>4. PICK cs : cs = [i \in 1 .. n |-> Categories[i].id]
  OBVIOUS
<1>5. cs \in Seq(STRING) /\ Len(cs) = n
  <2>1. cs \in [1 .. n -> STRING]
    BY <1>3, <1>4
  <2> QED
    BY <2>1, FunctionIsSeq
<1>6. \A i, j \in 1 .. Len(cs) : cs[i] = cs[j] => i = j
  BY <1>1, <1>2, <1>4, <1>5
<1>7. 1 \in 1 .. Len(Menus) /\ 1 \in DOMAIN Menus
  BY MenuFacts
<1>8. PICK a \in DOMAIN Categories : Categories[a].id = Menus[1].category
  BY <1>1, <1>7
<1>9. a \in 1 .. Len(cs) /\ Menus[1].category = cs[a]
  BY <1>2, <1>4, <1>5, <1>8
<1>10. r = Examples(cs, PerCategory)
  BY <1>2, <1>4
<1> QED
  BY <1>1, <1>5, <1>6, <1>7, <1>9, <1>10, ExamplesAre, Zenon

LEMMA SimilarAre ==
  ASSUME NEW t, NEW r, r = find_similar_menus(t)
  PROVE  r \in Seq(Name) /\ IsInjective(r) /\ Len(r) <= MaxSimilar
<1>1. PICK n \in Nat : n = Len(Menus)
  BY MenuFacts
<1>2. PICK K : K = {i \in DOMAIN Menus : Occurs(t, Menus[i].kr) \/ Occurs(Menus[i].kr, t)}
  OBVIOUS
<1>3. K \in SUBSET (1 .. n) /\ Keyed(Name, n, Menus)
  BY <1>1, <1>2, MenuFacts DEF Keyed
<1>4. PICK s : s = ElementsAt(Names(Menus), K)
  OBVIOUS
<1>5. s \in Seq(Name) /\ IsInjective(s)
  BY <1>3, <1>4, NamesAt
<1>6. r = Cut(s, MaxSimilar) /\ MaxSimilar \in Nat
  BY <1>2, <1>4, MenuSearchAssumption DEF find_similar_menus
<1>7. r \in Seq(Name) /\ IsCut(r, s, MaxSimilar)
  BY <1>5, <1>6, CutProperties
<1> QED
  BY <1>5, <1>7 DEF IsCut

LEMMA HitFacts ==
  ASSUME NEW k \in Nat, NEW h \in Hits(k)
  PROVE  \E n \in Nat : Keyed(Indexed, n, h) /\ h \in [1 .. n -> [kr : Indexed, score : 0 .. 2]]
<1>1. Cardinality(Indexed) \in Nat
  BY MenuSearchAssumption, FS_CardinalityType
<1>2. PICK n \in Nat : n = IF Cardinality(Indexed) < k THEN Cardinality(Indexed) ELSE k
  BY <1>1
<1>3. /\ h \in [1 .. n -> [kr : Indexed, score : 0 .. 2]]
      /\ \A i, j \in 1 .. n : i < j => h[i].kr # h[j].kr
  BY <1>2 DEF Hits
<1>4. DOMAIN h = 1 .. n /\ \A i \in 1 .. n : h[i] \in [kr : Indexed, score : 0 .. 2]
  BY <1>3
<1>5. \A i \in 1 .. n : h[i].kr \in Indexed
  BY <1>4
<1>6. \A i, j \in 1 .. n : h[i].kr = h[j].kr => i = j
  <2> SUFFICES ASSUME NEW i \in 1 .. n, NEW j \in 1 .. n, h[i].kr = h[j].kr, i # j
               PROVE  FALSE
    OBVIOUS
  <2>1. i < j \/ j < i
    OBVIOUS
  <2> QED
    BY <1>3, <2>1
<1> QED
  BY <1>3, <1>4, <1>5, <1>6 DEF Keyed

StartsWith(s, p) == Len(p) <= Len(s) /\ \A i \in 1 .. Len(p) : s[i] = p[i]

\* Near hits come after the candidates, and none twice.
LEMMA AddedAre ==
  ASSUME NEW c \in Seq(Name \cup Indexed), IsInjective(c), NEW h \in Hits(MaxContext),
         NEW r, r = Added(c, h)
  PROVE  r \in Seq(Name \cup Indexed) /\ IsInjective(r) /\ StartsWith(r, c)
<1>1. MaxContext \in Nat
  BY MenuSearchAssumption
<1>2. \E n \in Nat : Keyed(Indexed, n, h) /\ h \in [1 .. n -> [kr : Indexed, score : 0 .. 2]]
  BY <1>1, HitFacts
<1>3. PICK n \in Nat : Keyed(Indexed, n, h)
  BY <1>2
<1>4. PICK K : K = {i \in DOMAIN h : h[i].score >= 2 /\ ~Contains(c, h[i].kr)}
  OBVIOUS
<1>5. PICK e : e = ElementsAt(Names(h), K)
  OBVIOUS
<1>6. K \in SUBSET (1 .. n)
  BY <1>3, <1>4 DEF Keyed
<1>7. e \in Seq(Indexed) /\ IsInjective(e) /\ HasNames(e, h, K)
  BY <1>3, <1>5, <1>6, NamesAt
<1>8. r = c \o e
  BY <1>4, <1>5 DEF Added
<1>9. e \in Seq(Name \cup Indexed)
  BY <1>7, SeqMonotonic
<1>10. /\ r \in Seq(Name \cup Indexed) /\ Len(c) \in Nat /\ Len(e) \in Nat
       /\ Len(r) = Len(c) + Len(e)
       /\ \A i \in 1 .. Len(c) : r[i] = c[i]
       /\ \A i \in 1 .. Len(e) : r[Len(c) + i] = e[i]
  BY <1>8, <1>9, JoinProperties
<1>11. DOMAIN r = 1 .. Len(r) /\ DOMAIN c = 1 .. Len(c) /\ DOMAIN e = 1 .. Len(e)
  BY <1>7, <1>10, LenProperties
<1>12. \A i \in 1 .. Len(c), j \in 1 .. Len(e) : c[i] # e[j]
  <2> SUFFICES ASSUME NEW i \in 1 .. Len(c), NEW j \in 1 .. Len(e), c[i] = e[j]
               PROVE  FALSE
    OBVIOUS
  <2>1. PICK k \in K : e[j] = h[k].kr
    BY <1>7 DEF HasNames
  <2>2. ~Contains(c, h[k].kr)
    BY <1>4, <2>1
  <2> QED
    BY <2>1, <2>2 DEF Contains
<1>13. \A i \in 1 .. Len(r) : i \in 1 .. Len(c) \/ \E j \in 1 .. Len(e) : i = Len(c) + j
  <2> SUFFICES ASSUME NEW i \in 1 .. Len(r), i \notin 1 .. Len(c)
               PROVE  \E j \in 1 .. Len(e) : i = Len(c) + j
    OBVIOUS
  <2>1. i - Len(c) \in 1 .. Len(e) /\ i = Len(c) + (i - Len(c))
    BY <1>10
  <2> QED
    BY <2>1
<1>14. IsInjective(r)
  <2> SUFFICES ASSUME NEW i \in 1 .. Len(r), NEW j \in 1 .. Len(r), r[i] = r[j]
               PROVE  i = j
    BY <1>11 DEF IsInjective
  <2>1. CASE i \in 1 .. Len(c) /\ j \in 1 .. Len(c)
    BY <1>10, <1>11, <2>1 DEF IsInjective
  <2>2. ASSUME NEW k \in 1 .. Len(e), NEW l \in 1 .. Len(e), i = Len(c) + k, j = Len(c) + l
        PROVE  i = j
    <3>1. e[k] = e[l]
      BY <1>10, <2>2
    <3>2. k = l
      BY <1>7, <1>11, <3>1 DEF IsInjective
    <3> QED
      BY <2>2, <3>2
  <2>3. ASSUME i \in 1 .. Len(c), NEW l \in 1 .. Len(e), j = Len(c) + l
        PROVE  FALSE
    BY <1>10, <1>12, <2>3
  <2>4. ASSUME j \in 1 .. Len(c), NEW l \in 1 .. Len(e), i = Len(c) + l
        PROVE  FALSE
    BY <1>10, <1>12, <2>4
  <2> QED
    BY <1>13, <2>1, <2>2, <2>3, <2>4
<1>15. StartsWith(r, c)
  BY <1>10 DEF StartsWith
<1> QED
  BY <1>10, <1>14, <1>15

-----------------------------------------------------------------------------
(* What a cut leaves *)

LEMMA NotStronger ==
  ASSUME NEW t \in Text, NEW x, NEW y, Level(x, t) = 0
  PROVE  ~Stronger(x, y, t)
<1>1. Share(x, t) = 0
  BY DEF Share
<1>2. Level(y, t) \in Nat /\ Share(y, t) \in Nat
  BY PointsOrder, StrangeIsWeak
<1> QED
  BY <1>1, <1>2 DEF Stronger

\* The keyword hits come first, and what was found besides is no menu the text
\* points to, so a cut takes none of those for another one.
LEMMA CutShows ==
  ASSUME NEW t \in Text, NEW k \in Nat, NEW K, K = keyword_menu_search(t, k),
         NEW f \in Seq(Name \cup Indexed), IsInjective(f), StartsWith(f, K),
         NEW c, c = Cut(f, k)
  PROVE  Shows(c, t, k)
<1>1. /\ K \in Seq(Name) /\ Len(K) <= k
      /\ Shows(K, t, k)
  BY SearchShows
<1>2. c \in Seq(Name \cup Indexed) /\ IsCut(c, f, k)
  BY CutProperties
<1>3. Len(K) \in Nat /\ Len(c) \in Nat /\ Len(f) \in Nat /\ DOMAIN f = 1 .. Len(f)
  BY <1>1, <1>2, LenProperties
<1>4. Len(K) <= Len(c) /\ Len(K) <= Len(f)
  BY <1>1, <1>2, <1>3 DEF StartsWith, IsCut
<1>5. \A i \in 1 .. Len(K) : i \in 1 .. Len(c) /\ c[i] = K[i] /\ f[i] = K[i]
  BY <1>2, <1>3, <1>4 DEF StartsWith, IsCut
<1>6. ASSUME NEW j \in 1 .. Len(c), j \notin 1 .. Len(K)
      PROVE  Level(c[j], t) = 0
  <2>1. Len(K) # k
    BY <1>2, <1>3, <1>6 DEF IsCut
  <2>2. ~Contains(K, c[j])
    <3> SUFFICES ASSUME NEW i \in 1 .. Len(K), K[i] = c[j]
                 PROVE  FALSE
      BY DEF Contains
    <3>1. f[i] = f[j] /\ i \in 1 .. Len(f) /\ j \in 1 .. Len(f)
      BY <1>2, <1>5 DEF IsCut
    <3>2. i = j
      BY <1>3, <3>1 DEF IsInjective
    <3> QED
      BY <1>6, <3>2
  <2>3. c[j] \in Name => ~(Level(c[j], t) > 0)
    BY <1>1, <2>1, <2>2 DEF Shows
  <2>4. c[j] \in Name => Level(c[j], t) \in Nat
    BY PointsOrder
  <2>5. c[j] \notin Name => Level(c[j], t) = 0
    BY StrangeIsWeak
  <2> QED
    BY <2>3, <2>4, <2>5
<1>7. ASSUME NEW i \in 1 .. Len(c), NEW j \in 1 .. Len(c), i < j
      PROVE  ~Stronger(c[j], c[i], t)
  <2>1. CASE j \in 1 .. Len(K)
    <3>1. i \in 1 .. Len(K)
      BY <1>3, <1>7, <2>1
    <3>2. ~Stronger(K[j], K[i], t)
      BY <1>1, <1>7, <2>1, <3>1 DEF Shows
    <3> QED
      BY <1>5, <2>1, <3>1, <3>2
  <2>2. CASE j \notin 1 .. Len(K)
    BY <1>6, <2>2, NotStronger
  <2> QED
    BY <2>1, <2>2
<1>8. ASSUME NEW kr \in Name, Level(kr, t) > 0, ~Contains(c, kr)
      PROVE  Len(c) = k /\ \A i \in 1 .. Len(c) : ~Stronger(kr, c[i], t)
  <2>1. ~Contains(K, kr)
    BY <1>5, <1>8 DEF Contains
  <2>2. Len(K) = k /\ \A i \in 1 .. Len(K) : ~Stronger(kr, K[i], t)
    BY <1>1, <1>8, <2>1 DEF Shows
  <2>3. Len(c) = k
    <3>1. k <= Len(c) /\ Len(c) <= k
      BY <1>2, <1>4, <2>2, Zenon DEF IsCut
    <3> QED
      BY <1>3, <3>1
  <2> QED
    BY <1>5, <2>2, <2>3
<1> QED
  BY <1>7, <1>8 DEF Shows

-----------------------------------------------------------------------------
(* The searches *)

Candidates(f) == f \in Seq(Name \cup Indexed) /\ IsInjective(f)

\* TypeOK, Grounded and StrongestShown, and what a context has found before it
\* is shown: the keyword hits first, whatever the embedding search added.
SearchInv ==
    /\ TypeOK
    /\ Grounded
    /\ StrongestShown
    /\ stage # "shown" => use \in {"context", "inquiry"}
    /\ (use = "context" /\ stage = "rag") => found = keyword_menu_search(text, MaxContext)
    /\ (use = "context" /\ stage = "last")
         => StartsWith(found, keyword_menu_search(text, MaxContext))

LEMMA Limits ==
  /\ MaxContext \in Nat \ {0} /\ MaxInquiry \in Nat /\ MaxUnsure \in Nat \ {0}
  /\ MaxFamily \in Nat /\ MaxSimilar \in Nat
  /\ Limit["context"] = MaxContext /\ Limit["inquiry"] = MaxInquiry
  /\ Limit["family"] = MaxFamily /\ Limit["similar"] = MaxSimilar
  /\ DOMAIN Limit = {"context", "inquiry", "family", "similar"}
BY MenuSearchAssumption DEF Limit

LEMMA TextIs ==
  ASSUME NEW t \in Texts \cup {<<>>}
  PROVE  t \in Text
BY MenuSearchAssumption, EmptySeq DEF Text

LEMMA NoCandidates == Candidates(<<>>)
<1>1. <<>> \in Seq(Name \cup Indexed) /\ DOMAIN <<>> = {}
  BY EmptySeq
<1> QED
  BY <1>1 DEF Candidates, IsInjective

LEMMA MenusAreCandidates ==
  ASSUME NEW f, f \in Seq(Name) \/ f \in Seq(Indexed), IsInjective(f)
  PROVE  Candidates(f)
BY SeqMonotonic DEF Candidates

\* What TypeOK and StrongestShown say of what is found.
LEMMA TypeFrom ==
  ASSUME use \in {"context", "inquiry", "family", "similar"}, text \in Texts \cup {<<>>},
         stage \in {"keywords", "rag", "last", "shown"}, Candidates(found),
         (stage = "shown" /\ use \in {"context", "family", "similar"})
           => Len(found) <= Limit[use]
  PROVE  TypeOK
BY Limits DEF TypeOK, Candidates

LEMMA StrongestIs ==
  ASSUME Candidates(found)
  PROVE  StrongestShown <=>
           ((\/ stage = "shown" /\ use \in {"context", "family"}
             \/ stage = "last" /\ use = "inquiry") => Shows(found, text, Limit[use]))
<1>1. DOMAIN found = 1 .. Len(found)
  BY LenProperties DEF Candidates
<1> QED
  BY <1>1 DEF StrongestShown, Shows

-----------------------------------------------------------------------------
(* The inductive invariant, of any values of the variables *)

Sound(u, t, f, s) ==
    /\ u \in {"none", "context", "inquiry", "family", "similar"}
    /\ t \in Texts \cup {<<>>}
    /\ s \in {"keywords", "rag", "last", "shown"}
    /\ Candidates(f)
    /\ s # "shown" => u \in {"context", "inquiry"}
    /\ (s = "shown" /\ u \in {"context", "family", "similar"}) => Len(f) <= Limit[u]
    /\ (s = "shown" /\ u \in {"context", "inquiry"}) => f # <<>>
    /\ (\/ s = "shown" /\ u \in {"context", "family"}
        \/ s = "last" /\ u = "inquiry") => Shows(f, t, Limit[u])
    /\ (u = "context" /\ s = "rag") => f = keyword_menu_search(t, MaxContext)
    /\ (u = "context" /\ s = "last") => StartsWith(f, keyword_menu_search(t, MaxContext))

LEMMA SoundIs == SearchInv <=> Sound(use, text, found, stage)
<1>1. TypeOK => Candidates(found)
  BY DEF TypeOK, Candidates
<1>2. ASSUME Candidates(found)
      PROVE  StrongestShown <=>
               ((\/ stage = "shown" /\ use \in {"context", "family"}
                 \/ stage = "last" /\ use = "inquiry") => Shows(found, text, Limit[use]))
  BY <1>2, StrongestIs
<1>3. DOMAIN Limit = {"context", "inquiry", "family", "similar"}
  BY Limits
<1>4. ASSUME SearchInv
      PROVE  Sound(use, text, found, stage)
  BY <1>1, <1>2, <1>3, <1>4 DEF SearchInv, Sound, TypeOK, Grounded
<1>5. ASSUME Sound(use, text, found, stage)
      PROVE  SearchInv
  BY <1>2, <1>3, <1>5 DEF SearchInv, Sound, TypeOK, Grounded, Candidates
<1> QED
  BY <1>4, <1>5

LEMMA SoundNext == SearchInv' <=> Sound(use', text', found', stage')
<1>1. (SearchInv <=> Sound(use, text, found, stage))'
  BY SoundIs, PTL
<1> QED
  BY <1>1

LEMMA SearchInit == Init => SearchInv
<1> SUFFICES ASSUME Init
             PROVE  Sound(use, text, found, stage)
  BY SoundIs
<1> QED
  BY NoCandidates DEF Init, Sound

LEMMA AskSound ==
  ASSUME NEW t \in Texts, NEW s \in {"keywords", "rag"},
         NEW u \in {"context", "inquiry"}, Ask(u, t, s), u = "context" => s = "keywords"
  PROVE  SearchInv'
<1>1. use' = u /\ text' = t /\ found' = <<>> /\ stage' = s
  BY DEF Ask
<1>2. Sound(u, t, <<>>, s)
  BY NoCandidates DEF Sound
<1> QED
  BY <1>1, <1>2, SoundNext


LEMMA RaisesSound ==
  ASSUME SearchInv, RagRaises
  PROVE  SearchInv'
<1>1. Sound(use, text, found, "rag") /\ stage = "rag"
  BY SoundIs DEF RagRaises
<1>2. use \in {"context", "inquiry"} /\ text \in Texts \cup {<<>>} /\ Candidates(found)
  BY <1>1 DEF Sound
<1>3. use' = use /\ text' = text /\ found' = found
  BY DEF RagRaises, Then
<1>4. CASE use = "context"
  <2>1. stage' = "last"
    BY <1>4 DEF RagRaises, Then
  <2>2. StartsWith(found, found)
    BY LenProperties, <1>2 DEF Candidates, StartsWith
  <2>3. found = keyword_menu_search(text, MaxContext)
    BY <1>1, <1>4 DEF Sound
  <2>4. Sound("context", text, found, "last")
    BY <1>2, <2>2, <2>3 DEF Sound
  <2> QED
    BY <1>3, <1>4, <2>1, <2>4, SoundNext
<1>5. CASE use = "inquiry"
  <2>1. stage' = "keywords"
    BY <1>5 DEF RagRaises, Then
  <2>2. Sound("inquiry", text, found, "keywords")
    BY <1>2 DEF Sound
  <2> QED
    BY <1>3, <1>5, <2>1, <2>2, SoundNext
<1> QED
  BY <1>2, <1>4, <1>5

\* What a keyword search contributes to the invariant.
LEMMA SearchIs ==
  ASSUME NEW t \in Texts \cup {<<>>}, NEW k \in Nat, NEW s, s = keyword_menu_search(t, k)
  PROVE  Candidates(s) /\ Len(s) <= k /\ Shows(s, t, k)
<1>1. t \in Text
  BY TextIs
<1>2. s \in Seq(Name) /\ IsInjective(s) /\ Len(s) <= k /\ Shows(s, t, k)
  BY <1>1, SearchShows
<1> QED
  BY <1>2, MenusAreCandidates

LEMMA ContextKeywordsSound ==
  ASSUME SearchInv, ContextKeywords
  PROVE  SearchInv'
<1>1. PICK s : s = keyword_menu_search(text, MaxContext)
  OBVIOUS
<1>2. use' = "context" /\ text' = text /\ found' = s /\ stage' = "rag"
  BY <1>1 DEF ContextKeywords, Then
<1>3. text \in Texts \cup {<<>>}
  BY SoundIs DEF Sound
<1>4. Candidates(s)
  BY <1>1, <1>3, SearchIs, Limits
<1>5. Sound("context", text, s, "rag")
  BY <1>1, <1>3, <1>4 DEF Sound
<1> QED
  BY <1>2, <1>5, SoundNext

LEMMA ContextRagSound ==
  ASSUME SearchInv, ContextRag
  PROVE  SearchInv'
<1>1. PICK hits \in Hits(MaxContext) : Then(Added(found, hits), "last")
  BY DEF ContextRag
<1>2. PICK f : f = Added(found, hits)
  OBVIOUS
<1>3. use' = "context" /\ text' = text /\ found' = f /\ stage' = "last"
  BY <1>1, <1>2 DEF ContextRag, Then
<1>4. Sound("context", text, found, "rag")
  BY SoundIs DEF ContextRag
<1>5. /\ text \in Texts \cup {<<>>} /\ Candidates(found)
      /\ found = keyword_menu_search(text, MaxContext)
  BY <1>4 DEF Sound
<1>6. Candidates(f) /\ StartsWith(f, found)
  BY <1>2, <1>5, AddedAre DEF Candidates
<1>7. Sound("context", text, f, "last")
  BY <1>5, <1>6 DEF Sound
<1> QED
  BY <1>3, <1>7, SoundNext

LEMMA CutIs ==
  ASSUME NEW f, Candidates(f), NEW k \in Nat, NEW c, c = Cut(f, k)
  PROVE  Candidates(c) /\ Len(c) <= k /\ (k > 0 /\ f # <<>> => c # <<>>)
<1>1. f \in Seq(Name \cup Indexed) /\ IsInjective(f)
  BY DEF Candidates
<1>2. c \in Seq(Name \cup Indexed) /\ IsCut(c, f, k)
  BY <1>1, CutProperties
<1>3. Len(f) \in Nat /\ (f # <<>> => Len(f) > 0) /\ (c = <<>> => Len(c) = 0)
  BY <1>1, EmptySeq, LenProperties
<1> QED
  BY <1>1, <1>2, <1>3 DEF IsCut, Candidates

LEMMA ContextShownSound ==
  ASSUME SearchInv, ContextShown
  PROVE  SearchInv'
<1>1. PICK K : K = keyword_menu_search(text, MaxContext)
  OBVIOUS
<1>2. Sound("context", text, found, "last")
  BY SoundIs DEF ContextShown
<1>3. text \in Texts \cup {<<>>} /\ Candidates(found) /\ StartsWith(found, K)
  BY <1>1, <1>2 DEF Sound
<1>4. PICK r : r = Examples(CategoriesOfMenus, 2)
  OBVIOUS
<1>5. r \in Seq(Name) /\ IsInjective(r) /\ Len(r) > 0
  BY <1>4, ContextExamples
<1>6. PICK f : f = IF found = <<>> THEN r ELSE found
  OBVIOUS
<1>7. Candidates(f) /\ f # <<>>
  BY <1>3, <1>5, <1>6, MenusAreCandidates, EmptySeq
<1>8. StartsWith(f, K)
  <2>1. CASE found = <<>>
    <3>1. K \in Seq(Name)
      BY <1>1, <1>3, TextIs, SearchShows, Limits
    <3>2. Len(K) = 0
      BY <1>3, <2>1, <3>1, EmptySeq, LenProperties DEF StartsWith
    <3> QED
      BY <1>5, <1>6, <2>1, <3>2 DEF StartsWith
  <2>2. CASE found # <<>>
    BY <1>3, <1>6, <2>2
  <2> QED
    BY <2>1, <2>2
<1>9. PICK c : c = Cut(f, MaxContext)
  OBVIOUS
<1>10. Candidates(c) /\ Len(c) <= MaxContext /\ c # <<>>
  BY <1>7, <1>9, CutIs, Limits
<1>11. Shows(c, text, MaxContext)
  <2>1. text \in Text /\ MaxContext \in Nat
    BY <1>3, TextIs, Limits
  <2> QED
    BY <1>1, <1>7, <1>8, <1>9, <2>1, CutShows DEF Candidates
<1>12. use' = "context" /\ text' = text /\ found' = c /\ stage' = "shown"
  BY <1>4, <1>6, <1>9 DEF ContextShown, Then
<1>13. Sound("context", text, c, "shown")
  BY <1>3, <1>10, <1>11, Limits DEF Sound
<1> QED
  BY <1>12, <1>13, SoundNext

LEMMA InquiryRagSound ==
  ASSUME SearchInv, InquiryRag
  PROVE  SearchInv'
<1>1. PICK hits \in Hits(MaxInquiry) :
        LET relevant == ElementsAt(Names(hits), {i \in DOMAIN hits : hits[i].score >= 1})
        IN  IF hits = <<>> THEN Then(<<>>, "keywords")
            ELSE Then(IF relevant = <<>> THEN Cut(Names(hits), MaxUnsure) ELSE relevant, "shown")
  BY DEF InquiryRag
<1>2. use = "inquiry" /\ text \in Texts \cup {<<>>}
  BY SoundIs DEF InquiryRag, Sound
<1>3. CASE hits = <<>>
  <2>1. use' = "inquiry" /\ text' = text /\ found' = <<>> /\ stage' = "keywords"
    BY <1>1, <1>2, <1>3 DEF Then
  <2>2. Sound("inquiry", text, <<>>, "keywords")
    BY <1>2, NoCandidates DEF Sound
  <2> QED
    BY <2>1, <2>2, SoundNext
<1>4. CASE hits # <<>>
  <2>1. PICK K : K = {i \in DOMAIN hits : hits[i].score >= 1}
    OBVIOUS
  <2>2. PICK r : r = ElementsAt(Names(hits), K)
    OBVIOUS
  <2>3. PICK a : a = Names(hits)
    OBVIOUS
  <2>4. PICK f : f = IF r = <<>> THEN Cut(a, MaxUnsure) ELSE r
    OBVIOUS
  <2>5. use' = "inquiry" /\ text' = text /\ found' = f /\ stage' = "shown"
    BY <1>1, <1>2, <1>4, <2>1, <2>2, <2>3, <2>4 DEF Then
  <2>6. \E n \in Nat : Keyed(Indexed, n, hits) /\ hits \in [1 .. n -> [kr : Indexed, score : 0 .. 2]]
    BY HitFacts, Limits
  <2>7. PICK n \in Nat : Keyed(Indexed, n, hits) /\ hits \in [1 .. n -> [kr : Indexed, score : 0 .. 2]]
    BY <2>6
  <2>8. DOMAIN hits = 1 .. n /\ K \in SUBSET (1 .. n)
    BY <2>1, <2>7 DEF Keyed
  <2>9. Candidates(r)
    BY <2>2, <2>7, <2>8, NamesAt, MenusAreCandidates
  <2>10. a \in Seq(Indexed) /\ Len(a) = n /\ \A i \in 1 .. n : a[i] = hits[i].kr
    BY <2>3, <2>7, NamesAre DEF Keyed
  <2>11. IsInjective(a)
    <3>1. DOMAIN a = 1 .. n /\ \A i, j \in 1 .. n : a[i] = a[j] => i = j
      BY <2>7, <2>10, LenProperties DEF Keyed
    <3> QED
      BY <3>1 DEF IsInjective
  <2>12. a # <<>>
    <3>1. ASSUME n = 0
          PROVE  hits = <<>>
      <4>1. hits \in Seq([kr : Indexed, score : 0 .. 2]) /\ Len(hits) = 0
        BY <2>7, <3>1, FunctionIsSeq
      <4> QED
        BY <4>1, EmptySeq
    <3> QED
      BY <1>4, <2>10, <3>1, EmptySeq
  <2>13. Candidates(a)
    BY <2>10, <2>11, MenusAreCandidates
  <2>14. Candidates(Cut(a, MaxUnsure)) /\ Cut(a, MaxUnsure) # <<>>
    BY <2>12, <2>13, CutIs, Limits
  <2>15. Candidates(f) /\ f # <<>>
    BY <2>4, <2>9, <2>14
  <2>16. Sound("inquiry", text, f, "shown")
    BY <1>2, <2>15 DEF Sound
  <2> QED
    BY <2>5, <2>16, SoundNext
<1> QED
  BY <1>3, <1>4

LEMMA InquiryKeywordsSound ==
  ASSUME SearchInv, InquiryKeywords
  PROVE  SearchInv'
<1>1. PICK s : s = keyword_menu_search(text, MaxInquiry)
  OBVIOUS
<1>2. use' = "inquiry" /\ text' = text /\ found' = s /\ stage' = "last"
  BY <1>1 DEF InquiryKeywords, Then
<1>3. text \in Texts \cup {<<>>}
  BY SoundIs DEF Sound
<1>4. Candidates(s) /\ Shows(s, text, Limit["inquiry"])
  BY <1>1, <1>3, SearchIs, Limits
<1>5. Sound("inquiry", text, s, "last")
  BY <1>3, <1>4 DEF Sound
<1> QED
  BY <1>2, <1>5, SoundNext

LEMMA InquiryShownSound ==
  ASSUME SearchInv, InquiryShown
  PROVE  SearchInv'
<1>1. PICK r : r = Examples([i \in DOMAIN Categories |-> Categories[i].id], PerCategory)
  OBVIOUS
<1>2. PICK f : f = IF found = <<>> THEN r ELSE found
  OBVIOUS
<1>3. use' = "inquiry" /\ text' = text /\ found' = f /\ stage' = "shown"
  BY <1>1, <1>2 DEF InquiryShown, Then
<1>4. text \in Texts \cup {<<>>} /\ Candidates(found)
  BY SoundIs DEF Sound
<1>5. r \in Seq(Name) /\ IsInjective(r) /\ Len(r) > 0
  BY <1>1, InquiryExamples
<1>6. Candidates(f) /\ f # <<>>
  BY <1>2, <1>4, <1>5, MenusAreCandidates, EmptySeq
<1>7. Sound("inquiry", text, f, "shown")
  BY <1>4, <1>6 DEF Sound
<1> QED
  BY <1>3, <1>7, SoundNext

LEMMA OrderRefusedSound ==
  ASSUME NEW t \in Texts, OrderRefused(t)
  PROVE  SearchInv'
<1>1. text' = t /\ stage' = "shown"
  BY DEF OrderRefused
<1>2. CASE t \in Family
  <2>1. PICK s : s = keyword_menu_search(t, MaxFamily)
    OBVIOUS
  <2>2. use' = "family" /\ found' = s
    BY <1>2, <2>1 DEF OrderRefused
  <2>3. Candidates(s) /\ Len(s) <= Limit["family"] /\ Shows(s, t, Limit["family"])
    BY <2>1, SearchIs, Limits
  <2>4. Sound("family", t, s, "shown")
    BY <2>3 DEF Sound
  <2> QED
    BY <1>1, <2>2, <2>4, SoundNext
<1>3. CASE t \notin Family
  <2>1. PICK s : s = find_similar_menus(t)
    OBVIOUS
  <2>2. use' = "similar" /\ (found' = s \/ found' = <<>>)
    BY <1>3, <2>1 DEF OrderRefused
  <2>3. Candidates(s) /\ Len(s) <= Limit["similar"]
    BY <2>1, SimilarAre, MenusAreCandidates, Limits
  <2>4. Candidates(<<>>) /\ Len(<<>>) <= Limit["similar"]
    BY NoCandidates, EmptySeq, Limits
  <2>5. Sound("similar", t, s, "shown") /\ Sound("similar", t, <<>>, "shown")
    BY <2>3, <2>4 DEF Sound
  <2> QED
    BY <1>1, <2>2, <2>5, SoundNext
<1> QED
  BY <1>2, <1>3

LEMMA SearchStep == SearchInv /\ [Next]_searchVars => SearchInv'
<1> SUFFICES ASSUME SearchInv, [Next]_searchVars
             PROVE  SearchInv'
  OBVIOUS
<1>1. ASSUME NEW t \in Texts, Ask("context", t, "keywords")
      PROVE  SearchInv'
  BY <1>1, AskSound
<1>2. ASSUME NEW t \in Texts, Ask("inquiry", t, "rag")
      PROVE  SearchInv'
  BY <1>2, AskSound
<1>3. ASSUME NEW t \in Texts, OrderRefused(t)
      PROVE  SearchInv'
  BY <1>3, OrderRefusedSound
<1>4. CASE RagRaises
  BY <1>4, RaisesSound
<1>5. CASE ContextKeywords
  BY <1>5, ContextKeywordsSound
<1>6. CASE ContextRag
  BY <1>6, ContextRagSound
<1>7. CASE ContextShown
  BY <1>7, ContextShownSound
<1>8. CASE InquiryRag
  BY <1>8, InquiryRagSound
<1>9. CASE InquiryKeywords
  BY <1>9, InquiryKeywordsSound
<1>10. CASE InquiryShown
  BY <1>10, InquiryShownSound
<1>11. CASE UNCHANGED searchVars
  <2>1. use' = use /\ text' = text /\ found' = found /\ stage' = stage
    BY <1>11 DEF searchVars
  <2> QED
    BY <2>1, SoundIs, SoundNext
<1> QED
  BY <1>1, <1>2, <1>3, <1>4, <1>5, <1>6, <1>7, <1>8, <1>9, <1>10, <1>11, Zenon DEF Next

LEMMA SearchSafe == Spec => []SearchInv
BY SearchInit, SearchStep, PTL DEF Spec

-----------------------------------------------------------------------------
(* The theorems *)

\* What a context, an inquiry and a refused order show are menus of the menu
\* file or of the index and none twice, and never more than their limit, for
\* every menu file, text and outcome of the embedding search, also of an index
\* that is older than the file.
THEOREM SearchTypeCorrect == Spec => []TypeOK
<1>1. SearchInv => TypeOK
  BY DEF SearchInv
<1> QED
  BY <1>1, SearchSafe, PTL

\* The model is never left without menus to go by: whatever is written, and
\* whether the embedding search finds, finds nothing or raises, the ladders of
\* _build_candidates_section and _inquire_menu_info end with candidates, as
\* long as the menu file has a menu and its category.
THEOREM AlwaysGrounded == Spec => []Grounded
<1>1. SearchInv => Grounded
  BY DEF SearchInv
<1> QED
  BY <1>1, SearchSafe, PTL

\* What keyword_menu_search puts first are the menus the text points to most,
\* by the definition of Level and Share, which know nothing of scores, of the
\* table of common ends or of the order of a dict; neither the embedding hits
\* nor the cut of a context push one of them aside.
THEOREM StrongestAreShown == Spec => []StrongestShown
<1>1. SearchInv => StrongestShown
  BY DEF SearchInv
<1> QED
  BY <1>1, SearchSafe, PTL
=============================================================================
