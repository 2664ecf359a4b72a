-------------------------- MODULE WildcardProofs ---------------------------
(***************************************************************************)
(* Proofs about the matching of topics, for every subscription and every   *)
(* topic, of any number of levels: the loop of compare_token_vectors()     *)
(* accepts nothing that the wildcards do not stand for, and everything     *)
(* they stand for if no star has a choice.                                 *)
(*                                                                         *)
(* The induction over the tokens is over sets: a set of naturals that has  *)
(* 0 and the successor of each of its members has them all.                *)
(***************************************************************************)
EXTENDS DeliveryProperties, TLAPS, SequenceTheorems, WellFoundedInduction

Less == OpToRel(<, Nat)

LEMMA LessOfSmaller == \A x, y \in Nat : x < y => <<x, y>> \in Less
  BY DEF Less, OpToRel

LEMMA LessWellFounded == IsWellFoundedOn(Less, Nat)
  BY NatLessThanWellFounded DEF Less

LEMMA LeastNatural ==
  ASSUME NEW T, T \subseteq Nat, T # {}
  PROVE  \E x \in T : \A y \in T : x <= y
<1>1. PICK x \in T : \A y \in T : ~ (<<y, x>> \in Less)
  BY WFMin, LessWellFounded
<1>2. ASSUME NEW y \in T PROVE x <= y
  <2>1. ~ (y < x)
    BY <1>1, LessOfSmaller
  <2> QED
    BY <2>1
<1> QED
  BY <1>2

LEMMA NaturalsBySuccessor ==
  ASSUME NEW S, 0 \in S, \A n \in Nat : n \in S => n + 1 \in S
  PROVE  Nat \subseteq S
<1> SUFFICES ASSUME Nat \ S # {} PROVE FALSE
  OBVIOUS
<1>1. PICK x \in Nat \ S : \A y \in Nat \ S : x <= y
  BY LeastNatural
<1>2. x # 0 /\ x - 1 \in Nat
  OBVIOUS
<1>3. x - 1 \in S
  BY <1>1, <1>2
<1> QED
  BY <1>2, <1>3

-----------------------------------------------------------------------------
(* The recursive function of compare_token_vectors(): what an iteration    *)
(* computes from the later ones.                                           *)
LEMMA IterationLooksAhead ==
  ASSUME NEW S, NEW old \in Seq(S), NEW new \in Seq(S), NEW i \in 1..(Len(old) + 1),
         NEW f, NEW g, \A k \in (i + 1)..(Len(old) + 1) : f[k] = g[k]
  PROVE  MatchingFrom(i, old, new, f) = MatchingFrom(i, old, new, g)
<1>1. i # Len(old) + 1 => f[i + 1] = g[i + 1]
  OBVIOUS
<1>2. i < Len(old) => f[i + 2] = g[i + 2]
  OBVIOUS
<1> QED
  BY <1>1, <1>2 DEF MatchingFrom

LEMMA IterationsDefined ==
  ASSUME NEW S, NEW old \in Seq(S), NEW new \in Seq(S)
  PROVE  \E f : f = [i \in 1..(Len(old) + 1) |-> MatchingFrom(i, old, new, f)]
<1> DEFINE N    == Len(old) + 1
           T(n) == (N - n + 1)..N
           Good(n) == \E f : f = [i \in T(n) |-> MatchingFrom(i, old, new, f)]
           Done == {n \in Nat : n <= N => Good(n)}
<1>1. N \in Nat
  OBVIOUS
<1> HIDE DEF N
<1>2. 0 \in Done
  <2> DEFINE e == [i \in T(0) |-> {}]
  <2>1. T(0) = {}
    BY <1>1
  <2>2. e = [i \in T(0) |-> MatchingFrom(i, old, new, e)]
    BY <2>1
  <2> HIDE DEF e
  <2> QED
    BY <2>2
<1>3. ASSUME NEW n \in Nat, n \in Done PROVE n + 1 \in Done
  <2> SUFFICES ASSUME n + 1 <= N PROVE Good(n + 1)
    OBVIOUS
  <2>1. PICK f : f = [i \in T(n) |-> MatchingFrom(i, old, new, f)]
    BY <1>1, <1>3
  <2> DEFINE g == [i \in T(n + 1) |-> IF i = N - n THEN MatchingFrom(i, old, new, f) ELSE f[i]]
  <2>2. T(n + 1) = T(n) \cup {N - n} /\ N - n \notin T(n) /\ N - n \in Nat
    BY <1>1
  <2>3. /\ \A k \in T(n) : g[k] = f[k]
        /\ g[N - n] = MatchingFrom(N - n, old, new, f)
        /\ g = [i \in T(n + 1) |-> g[i]]
    BY <2>2
  <2> HIDE DEF g
  <2>4. ASSUME NEW i \in T(n + 1)
        PROVE  g[i] = MatchingFrom(i, old, new, g)
    <3>1. i \in 1..N /\ \A k \in (i + 1)..N : k \in T(n)
      BY <1>1
    <3>2. \A k \in (i + 1)..N : f[k] = g[k]
      BY <2>3, <3>1
    <3>3. MatchingFrom(i, old, new, f) = MatchingFrom(i, old, new, g)
      BY <3>1, <3>2, IterationLooksAhead DEF N
    <3>4. i \in T(n) => f[i] = MatchingFrom(i, old, new, f)
      BY <2>1, Zenon
    <3> QED
      BY <2>2, <2>3, <3>3, <3>4
  <2>5. g = [i \in T(n + 1) |-> MatchingFrom(i, old, new, g)]
    <3> HIDE DEF T
    <3>1. [i \in T(n + 1) |-> g[i]] = [i \in T(n + 1) |-> MatchingFrom(i, old, new, g)]
      BY <2>4, Zenon
    <3> QED
      BY <2>3, <3>1, Zenon
  <2> QED
    BY <2>5
<1>4. N \in Done
  <2> HIDE DEF Done
  <2>1. \A n \in Nat : n \in Done => n + 1 \in Done
    BY <1>3
  <2> QED
    BY <1>1, <1>2, <2>1, NaturalsBySuccessor
<1>5. PICK f : f = [i \in T(N) |-> MatchingFrom(i, old, new, f)]
  BY <1>1, <1>4
<1>6. T(N) = 1..N
  BY <1>1
<1> QED
  BY <1>5, <1>6 DEF N

(* The function itself, in place of the CHOOSE its definition stands for.  *)
Loop(old, new, match) ==
  match = [i \in 1..(Len(old) + 1) |-> MatchingFrom(i, old, new, match)]

LEMMA CompareByLoop ==
  ASSUME NEW S, NEW old \in Seq(S), NEW new \in Seq(S)
  PROVE  \E match : /\ Loop(old, new, match)
                    /\ compare_token_vectors(old, new) <=> 1 \in match[1]
<1> DEFINE chosen == CHOOSE match : Loop(old, new, match)
<1>1. \E match : Loop(old, new, match)
  BY IterationsDefined DEF Loop
<1>2. Loop(old, new, chosen)
  BY <1>1
<1>3. compare_token_vectors(old, new) <=> 1 \in chosen[1]
  BY DEF compare_token_vectors, Loop
<1> HIDE DEF chosen
<1> QED
  BY <1>2, <1>3

-----------------------------------------------------------------------------
(* A division of the levels among the tokens from i on, and its pieces.    *)
Takes(min, token, new, first, next) ==
  IF token = star_str
  THEN next >= first + min
  ELSE next = first + 1 /\ token \in {plus_str, new[first]}

Divides(min, old, new, i, at) ==
  /\ at \in [i..(Len(old) + 1) -> 1..(Len(new) + 1)]
  /\ at[Len(old) + 1] = Len(new) + 1
  /\ \A k \in i..Len(old) : Takes(min, old[k], new, at[k], at[k + 1])

LEMMA MatchesByDivision ==
  ASSUME NEW S, NEW old \in Seq(S), NEW new \in Seq(S), NEW min \in {0, 1}
  PROVE  Matches(min, old, new) <=> \E at : Divides(min, old, new, 1, at) /\ at[1] = 1
  BY DEF Matches, Divides, Takes

LEMMA NothingLeft ==
  ASSUME NEW S, NEW old \in Seq(S), NEW new \in Seq(S), NEW min \in {0, 1}
  PROVE  \E at : Divides(min, old, new, Len(old) + 1, at) /\ at[Len(old) + 1] = Len(new) + 1
<1> DEFINE N  == Len(old) + 1
           at == [k \in N..N |-> Len(new) + 1]
<1>1. at[N] = Len(new) + 1 /\ at \in [N..N -> 1..(Len(new) + 1)] /\ N..Len(old) = {}
  OBVIOUS
<1> HIDE DEF at
<1>2. Divides(min, old, new, N, at)
  BY <1>1 DEF Divides
<1> QED
  BY <1>1, <1>2

LEMMA OneMoreToken ==
  ASSUME NEW S, NEW old \in Seq(S), NEW new \in Seq(S), NEW min \in {0, 1},
         NEW i \in 1..Len(old), NEW j \in 1..(Len(new) + 1),
         NEW at, Divides(min, old, new, i + 1, at), Takes(min, old[i], new, j, at[i + 1])
  PROVE  \E more : Divides(min, old, new, i, more) /\ more[i] = j
<1> DEFINE N    == Len(old) + 1
           more == [k \in i..N |-> IF k = i THEN j ELSE at[k]]
<1>1. N \in Nat /\ i < N /\ Len(new) \in Nat
  OBVIOUS
<1>2. /\ at \in [(i + 1)..N -> 1..(Len(new) + 1)]
      /\ at[N] = Len(new) + 1
      /\ \A k \in (i + 1)..Len(old) : Takes(min, old[k], new, at[k], at[k + 1])
  BY DEF Divides
<1>3. /\ more \in [i..N -> 1..(Len(new) + 1)]
      /\ more[i] = j
      /\ \A k \in (i + 1)..N : more[k] = at[k]
  BY <1>1, <1>2
<1> HIDE DEF more
<1>4. more[N] = Len(new) + 1
  BY <1>1, <1>2, <1>3
<1>5. ASSUME NEW k \in i..Len(old)
      PROVE  Takes(min, old[k], new, more[k], more[k + 1])
  <2>1. CASE k = i
    BY <1>1, <1>3, <2>1
  <2>2. CASE k # i
    <3>1. k \in (i + 1)..Len(old) /\ k \in (i + 1)..N /\ k + 1 \in (i + 1)..N
      BY <2>2
    <3> QED
      BY <1>2, <1>3, <3>1
  <2> QED
    BY <2>1, <2>2
<1>6. Divides(min, old, new, i, more)
  BY <1>3, <1>4, <1>5 DEF Divides
<1> QED
  BY <1>3, <1>6

(* What an iteration finds is a division that lets stars take no level.    *)
LEMMA IterationSound ==
  ASSUME NEW S, NEW old \in Seq(S), NEW new \in Seq(S),
         NEW match, Loop(old, new, match), NEW i \in 1..(Len(old) + 1), NEW j \in match[i],
         \A k \in (i + 1)..(Len(old) + 1) : \A l \in match[k] :
           \E at : Divides(0, old, new, k, at) /\ at[k] = l
  PROVE  \E at : Divides(0, old, new, i, at) /\ at[i] = j
<1> DEFINE N == Len(old) + 1
           M == Len(new) + 1
<1>1. Len(old) \in Nat /\ Len(new) \in Nat
  OBVIOUS
<1>2. j \in MatchingFrom(i, old, new, match)
  BY Zenon DEF Loop
<1>3. /\ j \in 1..M
      /\ i = N \/ j = M => i = N /\ j = M
      /\ i # N /\ j # M =>
           IF old[i] = star_str
           THEN \/ i = Len(old)
                \/ /\ i < Len(old)
                   /\ \E k \in j..Len(new) : new[k] = old[i + 1] /\ k + 1 \in match[i + 2]
           ELSE (old[i] = plus_str \/ old[i] = new[j]) /\ j + 1 \in match[i + 1]
  BY <1>2 DEF MatchingFrom, BothAtEnd
<1>4. CASE i = N
  BY <1>3, <1>4, NothingLeft
<1>5. CASE i # N /\ old[i] = star_str /\ i = Len(old)
  <2>1. PICK at : Divides(0, old, new, N, at) /\ at[N] = M
    BY NothingLeft
  <2>2. i + 1 = N /\ M >= j + 0
    BY <1>1, <1>3, <1>5
  <2>3. Takes(0, old[i], new, j, at[i + 1])
    BY <1>5, <2>1, <2>2 DEF Takes
  <2>4. Divides(0, old, new, i + 1, at) /\ i \in 1..Len(old) /\ j \in 1..M
    BY <1>1, <1>3, <1>5, <2>1, <2>2
  <2> QED
    BY <2>3, <2>4, OneMoreToken
<1>6. CASE old[i] = star_str /\ i < Len(old)
  <2>1. PICK k \in j..Len(new) : new[k] = old[i + 1] /\ k + 1 \in match[i + 2]
    BY <1>1, <1>3, <1>6
  <2>2. i + 2 \in (i + 1)..N /\ i + 1 \in 1..Len(old) /\ i \in 1..Len(old)
        /\ k \in 1..M /\ (i + 1) + 1 = i + 2
    BY <1>1, <1>3, <1>6
  <2>3. PICK at : Divides(0, old, new, i + 2, at) /\ at[i + 2] = k + 1
    BY <2>1, <2>2
  <2>4. Takes(0, old[i + 1], new, k, at[i + 2])
    BY <2>1, <2>2, <2>3 DEF Takes
  <2>5. PICK next : Divides(0, old, new, i + 1, next) /\ next[i + 1] = k
    BY <2>2, <2>3, <2>4, OneMoreToken
  <2>6. Takes(0, old[i], new, j, next[i + 1])
    BY <1>3, <1>6, <2>5 DEF Takes
  <2> QED
    BY <1>3, <2>2, <2>5, <2>6, OneMoreToken
<1>7. CASE i # N /\ old[i] # star_str
  <2>1. (old[i] = plus_str \/ old[i] = new[j]) /\ j + 1 \in match[i + 1]
    BY <1>3, <1>7
  <2>2. i + 1 \in (i + 1)..N /\ i \in 1..Len(old)
    BY <1>1, <1>7
  <2>3. PICK at : Divides(0, old, new, i + 1, at) /\ at[i + 1] = j + 1
    BY <2>1, <2>2
  <2>4. Takes(0, old[i], new, j, at[i + 1])
    BY <1>7, <2>1, <2>3 DEF Takes
  <2> QED
    BY <1>3, <2>2, <2>3, <2>4, OneMoreToken
<1> QED
  BY <1>1, <1>4, <1>5, <1>6, <1>7

(* compare_token_vectors() accepts a topic only if its levels can be       *)
(* divided among the tokens of the subscription, whatever stars it has.    *)
THEOREM CompareSound ==
  \A S : \A old, new \in Seq(S) :
    compare_token_vectors(old, new) => Matches(0, old, new)
<1> SUFFICES ASSUME NEW S, NEW old \in Seq(S), NEW new \in Seq(S),
                    compare_token_vectors(old, new)
             PROVE  Matches(0, old, new)
  OBVIOUS
<1>1. PICK match : Loop(old, new, match) /\ 1 \in match[1]
  BY CompareByLoop
<1> DEFINE N        == Len(old) + 1
           Sound(k) == \A l \in match[k] : \E at : Divides(0, old, new, k, at) /\ at[k] = l
           Done     == {n \in Nat : \A k \in 1..N : k > N - n => Sound(k)}
<1>2. N \in Nat /\ N >= 1
  OBVIOUS
<1>3. 0 \in Done
  BY <1>2
<1>4. ASSUME NEW n \in Nat, n \in Done PROVE n + 1 \in Done
  <2> SUFFICES ASSUME NEW k \in 1..N, k > N - (n + 1) PROVE Sound(k)
    OBVIOUS
  <2>1. \A m \in (k + 1)..N : Sound(m)
    BY <1>2, <1>4
  <2>2. ASSUME NEW l \in match[k] PROVE \E at : Divides(0, old, new, k, at) /\ at[k] = l
    BY <1>1, <2>1, IterationSound
  <2> QED
    BY <2>2
<1>5. N \in Done
  <2> HIDE DEF Done
  <2>1. \A n \in Nat : n \in Done => n + 1 \in Done
    BY <1>4
  <2> QED
    BY <1>2, <1>3, <2>1, NaturalsBySuccessor
<1>6. Sound(1)
  BY <1>2, <1>5
<1> QED
  BY <1>1, <1>6, MatchesByDivision

-----------------------------------------------------------------------------
(* An iteration finds the division there is, if no star has a choice and   *)
(* each takes a level.                                                     *)
LEMMA IterationComplete ==
  ASSUME NEW S, NEW old \in Seq(S), NEW new \in Seq(S), Unambiguous(old, new),
         NEW match, Loop(old, new, match), NEW at, Divides(1, old, new, 1, at),
         NEW i \in 1..(Len(old) + 1),
         \A k \in (i + 1)..(Len(old) + 1) : at[k] \in match[k]
  PROVE  at[i] \in match[i]
<1> DEFINE N == Len(old) + 1
           M == Len(new) + 1
           j == at[i]
<1>1. Len(old) \in Nat /\ Len(new) \in Nat
  OBVIOUS
<1>2. /\ at \in [1..N -> 1..M]
      /\ at[N] = M
      /\ \A k \in 1..Len(old) : Takes(1, old[k], new, at[k], at[k + 1])
  BY DEF Divides
<1>3. j \in 1..M /\ (i = N => j = M)
  BY <1>2
<1> SUFFICES j \in MatchingFrom(i, old, new, match)
  BY Zenon DEF Loop
<1>4. CASE i = N
  BY <1>3, <1>4 DEF MatchingFrom, BothAtEnd
<1>5. CASE i # N
  <2>1. i \in 1..Len(old) /\ i + 1 \in 1..N
    BY <1>1, <1>5
  <2>2. Takes(1, old[i], new, j, at[i + 1]) /\ at[i + 1] \in 1..M
    BY <1>2, <2>1
  <2>3. j # M
    BY <1>1, <1>3, <2>2 DEF Takes
  <2>4. CASE old[i] # star_str
    <3>1. j + 1 = at[i + 1] /\ old[i] \in {plus_str, new[j]}
      BY <2>2, <2>4 DEF Takes
    <3>2. at[i + 1] \in match[i + 1]
      BY <1>1, <2>1
    <3> HIDE DEF j
    <3> QED
      BY <1>3, <1>5, <2>3, <2>4, <3>1, <3>2 DEF MatchingFrom
  <2>5. CASE old[i] = star_str /\ i = Len(old)
    BY <1>3, <1>5, <2>3, <2>5 DEF MatchingFrom
  <2>6. CASE old[i] = star_str /\ i < Len(old)
    <3> DEFINE k == at[i + 1]
    <3>1. i + 1 \in 1..Len(old) /\ i + 2 \in 1..N /\ (i + 1) + 1 = i + 2 /\ i \in DOMAIN old
      BY <1>1, <2>6
    <3>2. /\ old[i + 1] \notin {star_str, plus_str}
          /\ \A l, m \in DOMAIN new : new[l] = old[i + 1] /\ new[m] = old[i + 1] => l = m
      BY <2>6, <3>1 DEF Unambiguous
    <3>3. Takes(1, old[i + 1], new, k, at[i + 2]) /\ at[i + 2] \in 1..M
      BY <1>2, <3>1
    <3>4. at[i + 2] = k + 1 /\ new[k] = old[i + 1]
      BY <3>2, <3>3 DEF Takes
    <3>5. k >= j + 1 /\ k \in Nat
      BY <2>2, <2>6 DEF Takes
    <3>6. k \in j..Len(new)
      BY <1>1, <1>3, <3>3, <3>4, <3>5
    <3>7. ASSUME NEW l \in j..(k - 1) PROVE new[l] # old[i + 1]
      <4>1. l \in DOMAIN new /\ k \in DOMAIN new /\ l # k
        BY <1>1, <1>3, <3>6
      <4> QED
        BY <3>2, <3>4, <4>1
    <3>8. k + 1 \in match[i + 2]
      BY <1>1, <3>1, <3>4
    <3> HIDE DEF j, k
    <3>9. \E l \in j..Len(new) : /\ new[l] = old[i + 1]
                                 /\ \A m \in j..(l - 1) : new[m] # old[i + 1]
                                 /\ l + 1 \in match[i + 2]
      BY <3>4, <3>6, <3>7, <3>8
    <3> QED
      BY <1>3, <1>5, <2>3, <2>6, <3>9 DEF MatchingFrom
  <2> QED
    BY <1>1, <2>1, <2>4, <2>5, <2>6
<1> QED
  BY <1>4, <1>5

(* compare_token_vectors() accepts every topic whose levels can be divided *)
(* among the tokens with a level for each star, if the stars have no       *)
(* choice.                                                                 *)
THEOREM CompareComplete ==
  \A S : \A old, new \in Seq(S) :
    Matches(1, old, new) /\ Unambiguous(old, new) => compare_token_vectors(old, new)
<1> SUFFICES ASSUME NEW S, NEW old \in Seq(S), NEW new \in Seq(S),
                    Matches(1, old, new), Unambiguous(old, new)
             PROVE  compare_token_vectors(old, new)
  OBVIOUS
<1>1. PICK match : Loop(old, new, match) /\ (compare_token_vectors(old, new) <=> 1 \in match[1])
  BY CompareByLoop
<1>2. PICK at : Divides(1, old, new, 1, at) /\ at[1] = 1
  BY MatchesByDivision
<1> DEFINE N    == Len(old) + 1
           Done == {n \in Nat : \A k \in 1..N : k > N - n => at[k] \in match[k]}
<1>3. N \in Nat /\ N >= 1
  OBVIOUS
<1>4. 0 \in Done
  BY <1>3
<1>5. ASSUME NEW n \in Nat, n \in Done PROVE n + 1 \in Done
  <2> SUFFICES ASSUME NEW k \in 1..N, k > N - (n + 1) PROVE at[k] \in match[k]
    OBVIOUS
  <2>1. \A m \in (k + 1)..N : at[m] \in match[m]
    BY <1>3, <1>5
  <2> QED
    BY <1>1, <1>2, <2>1, IterationComplete
<1>6. N \in Done
  <2> HIDE DEF Done
  <2>1. \A n \in Nat : n \in Done => n + 1 \in Done
    BY <1>5
  <2> QED
    BY <1>3, <1>4, <2>1, NaturalsBySuccessor
<1>7. at[1] \in match[1]
  BY <1>3, <1>6
<1> QED
  BY <1>1, <1>2, <1>7

-----------------------------------------------------------------------------
(* The tokens of a topic are a sequence too.                               *)
LEMMA TokensOfTopic ==
  ASSUME NEW S, NEW topic \in Seq(S)
  PROVE  tokenize_topic(topic) \in Seq(S)
<1>1. CASE topic = <<>>
  BY <1>1 DEF tokenize_topic
<1>2. CASE topic # <<>>
  <2>1. /\ Len(topic) \in Nat
        /\ \A i \in 1..(Len(topic) - 1) : topic[i] \in S
    OBVIOUS
  <2>2. Front(topic) \in Seq(S)
    BY <2>1, SubSeqProperties DEF Front
  <2> QED
    BY <2>2 DEF tokenize_topic
<1> QED
  BY <1>1, <1>2

(* Every topic is what its levels, taken literally, stand for.             *)
LEMMA MatchesItself ==
  ASSUME NEW S, NEW topic \in Seq(S)
  PROVE  Matches(0, topic, topic)
<1> DEFINE at == [i \in 1..(Len(topic) + 1) |-> i]
<1>1. Len(topic) \in Nat
  OBVIOUS
<1>2. /\ at \in [1..(Len(topic) + 1) -> 1..(Len(topic) + 1)]
      /\ at[1] = 1 /\ at[Len(topic) + 1] = Len(topic) + 1
      /\ \A i \in 1..Len(topic) : at[i] = i /\ at[i + 1] = i + 1
  BY <1>1
<1> HIDE DEF at
<1> QED
  BY <1>2 DEF Matches

(* A client that is sent a datagram has a subscription that stands for it. *)
LEMMA SubscribedSound ==
  ASSUME NEW S, NEW topic \in Seq(S), NEW topics \in SUBSET Seq(S), IsSubscribed(topics, topic)
  PROVE  \E t \in topics : Matches(0, Levels(t), Levels(topic))
<1>1. CASE topic \in topics
  BY <1>1, TokensOfTopic, MatchesItself DEF Levels
<1>2. CASE check_wildcard_topic(topic, topics)
  <2>1. PICK t \in topics : compare_token_vectors(Levels(t), Levels(topic))
    BY <1>2 DEF check_wildcard_topic, Levels
  <2>2. Levels(t) \in Seq(S) /\ Levels(topic) \in Seq(S)
    BY TokensOfTopic DEF Levels
  <2> QED
    BY <2>1, <2>2, CompareSound
<1> QED
  BY <1>1, <1>2 DEF IsSubscribed

LEMMA SubscribedComplete ==
  ASSUME NEW S, NEW topic \in Seq(S), NEW topics \in SUBSET Seq(S), NEW t \in topics,
         Matches(1, Levels(t), Levels(topic)), Unambiguous(Levels(t), Levels(topic))
  PROVE  IsSubscribed(topics, topic)
<1>1. Levels(t) \in Seq(S) /\ Levels(topic) \in Seq(S)
  BY TokensOfTopic DEF Levels
<1>2. compare_token_vectors(Levels(t), Levels(topic))
  BY <1>1, CompareComplete
<1> QED
  BY <1>2 DEF IsSubscribed, check_wildcard_topic, Levels
=============================================================================
