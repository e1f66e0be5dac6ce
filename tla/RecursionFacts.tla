--------------------------- MODULE RecursionFacts ----------------------------
(***************************************************************************)
(* What proofs about recursive functions on sequences rest on: a set of    *)
(* naturals has a least member, and FlattenSeq is defined.                 *)
(***************************************************************************)
EXTENDS Integers, Sequences, SequencesExt, WellFoundedInduction, TLAPS

LEMMA LeastNat ==
  ASSUME NEW T \in SUBSET Nat, T # {}
  PROVE  \E n \in T : \A m \in T : n <= m
<1> DEFINE R == {p \in Nat \X Nat : p[1] < p[2]}
<1>1. IsWellFoundedOn(OpToRel(<, Nat), Nat)
  BY NatLessThanWellFounded
<1>2. OpToRel(<, Nat) = R
  BY DEF OpToRel
<1>3. IsWellFoundedOn(R, Nat)
  BY <1>1, <1>2
<1> HIDE DEF R
<1>4. PICK n \in T : \A m \in T : ~ (<<m, n>> \in R)
  BY <1>3, WFMin
<1>5. ASSUME NEW m \in T PROVE n <= m
  <2>1. ~ (<<m, n>> \in R)
    BY <1>4
  <2>2. m \in Nat /\ n \in Nat
    OBVIOUS
  <2> QED
    BY <2>1, <2>2 DEF R
<1> QED
  BY <1>5

(* Induction on a set of naturals. *)
LEMMA NatIsAll ==
  ASSUME NEW G, 0 \in G, \A n \in Nat : n \in G => n + 1 \in G
  PROVE  \A n \in Nat : n \in G
<1> DEFINE T == {n \in Nat : n \notin G}
<1> SUFFICES ASSUME T # {} PROVE FALSE
  OBVIOUS
<1>1. PICK n \in T : \A m \in T : n <= m
  BY LeastNat
<1>2. n # 0 /\ n \in Nat /\ n \notin G
  OBVIOUS
<1>3. n - 1 \in Nat /\ n - 1 + 1 = n
  BY <1>2
<1>4. n - 1 \in G
  BY <1>1, <1>3
<1> QED
  BY <1>2, <1>3, <1>4

(* Induction up to a bound. *)
LEMMA UpToAll ==
  ASSUME NEW N \in Nat, NEW G, 0 \in G, \A n \in 0 .. N - 1 : n \in G => n + 1 \in G
  PROVE  \A n \in 0 .. N : n \in G
<1> DEFINE H == {n \in Nat : n <= N => n \in G}
<1>1. 0 \in H
  OBVIOUS
<1>2. \A n \in Nat : n \in H => n + 1 \in H
  OBVIOUS
<1> HIDE DEF H
<1>3. \A n \in Nat : n \in H
  BY <1>1, <1>2, NatIsAll
<1> QED
  BY <1>3 DEF H

(* The joined prefixes of a sequence of sequences. *)
Joined(seqs, n, f) ==
  f = [i \in 1 .. n |-> IF i = 1 THEN seqs[i] ELSE f[i - 1] \o seqs[i]]

Joins(seqs, f) == Joined(seqs, Len(seqs), f)

LEMMA JoinsExist ==
  ASSUME NEW S, NEW seqs \in Seq(Seq(S))
  PROVE  \E f : Joins(seqs, f)
<1> DEFINE N == Len(seqs)
           G == {n \in Nat : \E f : Joined(seqs, n, f)}
<1>1. 0 \in G
  <2> DEFINE f == [i \in 1 .. 0 |-> << >>]
  <2>1. Joined(seqs, 0, f)
    BY DEF Joined
  <2> QED
    BY <2>1
<1>2. ASSUME NEW n \in Nat, n \in G
      PROVE  n + 1 \in G
  <2>1. PICK f : Joined(seqs, n, f)
    BY <1>2
  <2> DEFINE last == IF n = 0 THEN seqs[1] ELSE f[n] \o seqs[n + 1]
             g == [i \in 1 .. n + 1 |-> IF i = n + 1 THEN last ELSE f[i]]
             h == [i \in 1 .. n + 1 |-> IF i = 1 THEN seqs[i] ELSE g[i - 1] \o seqs[i]]
  <2>2. \A i \in 1 .. n : f[i] = IF i = 1 THEN seqs[i] ELSE f[i - 1] \o seqs[i]
    BY <2>1 DEF Joined
  <2>3. ASSUME NEW i \in 1 .. n + 1
        PROVE  g[i] = IF i = 1 THEN seqs[i] ELSE g[i - 1] \o seqs[i]
    <3>1. CASE i = n + 1
      <4>1. g[i] = last
        BY <3>1
      <4>2. CASE n = 0
        BY <4>1, <4>2, <3>1
      <4>3. CASE n # 0
        <5>1. g[i - 1] = f[n] /\ i # 1
          BY <3>1, <4>3
        <5> QED
          BY <3>1, <4>1, <4>3, <5>1
      <4> QED
        BY <4>2, <4>3
    <3>2. CASE i # n + 1
      <4>1. i \in 1 .. n /\ g[i] = f[i]
        BY <3>2
      <4>2. i # 1 => g[i - 1] = f[i - 1]
        BY <3>2
      <4> QED
        BY <4>1, <4>2, <2>2
    <3> QED
      BY <3>1, <3>2
  <2>4. g = h
    BY <2>3
  <2> HIDE DEF g
  <2>5. Joined(seqs, n + 1, g)
    BY <2>4 DEF Joined
  <2> QED
    BY <2>5
<1> HIDE DEF G
<1>3. N \in G
  BY <1>1, <1>2, NatIsAll
<1> QED
  BY <1>3 DEF G, Joins

LEMMA Flattened ==
  ASSUME NEW S, NEW seqs \in Seq(Seq(S))
  PROVE  /\ seqs = << >> => FlattenSeq(seqs) = << >>
         /\ seqs # << >> => \E f : Joins(seqs, f) /\ FlattenSeq(seqs) = f[Len(seqs)]
<1>1. CASE seqs = << >>
  BY <1>1 DEF FlattenSeq
<1>2. CASE seqs # << >>
  <2> DEFINE f == CHOOSE g : Joins(seqs, g)
  <2>1. Joins(seqs, f)
    BY JoinsExist
  <2>2. Len(seqs) # 0
    BY <1>2
  <2>3. FlattenSeq(seqs) = f[Len(seqs)]
    BY <2>2, Zenon DEF FlattenSeq, Joins, Joined
  <2> QED
    BY <1>2, <2>1, <2>3
<1> QED
  BY <1>1, <1>2

(* FlattenSeq joins one sequence after the other. *)
LEMMA JoinedPrefixes ==
  ASSUME NEW S, NEW seqs \in Seq(Seq(S))
  PROVE  \E pre \in [0 .. Len(seqs) -> Seq(S)] :
           /\ pre[0] = << >> /\ pre[Len(seqs)] = FlattenSeq(seqs)
           /\ \A k \in 1 .. Len(seqs) : pre[k] = pre[k - 1] \o seqs[k]
<1> DEFINE N == Len(seqs)
<1>1. N \in Nat /\ \A k \in 1 .. N : seqs[k] \in Seq(S)
  OBVIOUS
<1>2. CASE seqs = << >>
  <2> DEFINE pre == [k \in 0 .. N |-> << >>]
  <2>1. N = 0 /\ pre \in [0 .. N -> Seq(S)] /\ pre[0] = << >> /\ pre[N] = << >>
    BY <1>2
  <2>2. FlattenSeq(seqs) = << >>
    BY <1>2, Flattened
  <2> HIDE DEF pre
  <2> QED
    BY <2>1, <2>2
<1>3. CASE seqs # << >>
  <2>1. PICK f : Joins(seqs, f) /\ FlattenSeq(seqs) = f[N]
    BY <1>3, Flattened
  <2>2. N > 0
    BY <1>3
  <2>3. \A k \in 1 .. N : f[k] = IF k = 1 THEN seqs[k] ELSE f[k - 1] \o seqs[k]
    BY <2>1 DEF Joins, Joined
  <2> DEFINE pre == [k \in 0 .. N |-> IF k = 0 THEN << >> ELSE f[k]]
             G == {k \in 0 .. N : pre[k] \in Seq(S)}
  <2>4. ASSUME NEW k \in 1 .. N, pre[k - 1] \in Seq(S)
        PROVE  pre[k] \in Seq(S) /\ pre[k] = pre[k - 1] \o seqs[k]
    <3>1. seqs[k] \in Seq(S) /\ pre[k] = f[k]
      BY <1>1
    <3>2. CASE k = 1
      <4>1. << >> \o seqs[k] = seqs[k]
        BY <3>1
      <4>2. pre[k - 1] = << >> /\ pre[k] = seqs[k]
        BY <2>3, <3>1, <3>2
      <4> QED
        BY <3>1, <4>1, <4>2
    <3>3. CASE k # 1
      <4>1. pre[k - 1] = f[k - 1]
        BY <3>3
      <4>2. pre[k] = pre[k - 1] \o seqs[k]
        BY <2>3, <3>1, <3>3, <4>1
      <4> HIDE DEF pre
      <4>3. pre[k - 1] \o seqs[k] \in Seq(S)
        BY <2>4, <3>1
      <4> QED
        BY <4>2, <4>3
    <3> QED
      BY <3>2, <3>3
  <2>5. pre[0] = << >> /\ pre[N] = f[N] /\ pre = [k \in 0 .. N |-> pre[k]]
    BY <2>2
  <2> HIDE DEF pre
  <2>6. 0 \in G
    BY <2>5
  <2>7. ASSUME NEW n \in 0 .. N - 1, n \in G PROVE n + 1 \in G
    <3>1. n + 1 \in 1 .. N /\ n + 1 - 1 = n /\ pre[n + 1 - 1] \in Seq(S)
      BY <2>7
    <3>2. PICK k \in 1 .. N : k = n + 1 /\ k - 1 = n
      BY <3>1
    <3>3. pre[k] \in Seq(S)
      BY <2>4, <2>7, <3>2 DEF G
    <3> QED
      BY <3>1, <3>2, <3>3
  <2> HIDE DEF G
  <2>8. \A k \in 0 .. N : k \in G
    BY <1>1, <2>6, <2>7, UpToAll
  <2>9. \A k \in 0 .. N : pre[k] \in Seq(S)
    BY <2>8 DEF G
  <2>10. ASSUME NEW k \in 1 .. N PROVE pre[k] = pre[k - 1] \o seqs[k]
    <3>1. k - 1 \in 0 .. N
      OBVIOUS
    <3> QED
      BY <2>4, <2>9, <3>1
  <2>11. pre \in [0 .. N -> Seq(S)]
    BY <2>5, <2>9
  <2> QED
    BY <2>1, <2>5, <2>10, <2>11
<1> QED
  BY <1>2, <1>3

LEMMA FlattenedType ==
  ASSUME NEW S, NEW seqs \in Seq(Seq(S))
  PROVE  FlattenSeq(seqs) \in Seq(S)
<1>1. Len(seqs) \in 0 .. Len(seqs)
  OBVIOUS
<1>2. PICK pre \in [0 .. Len(seqs) -> Seq(S)] : pre[Len(seqs)] = FlattenSeq(seqs)
  BY JoinedPrefixes
<1> QED
  BY <1>1, <1>2

(* Where its parts begin in a joined sequence. *)
LEMMA PartPlaces ==
  ASSUME NEW S, NEW seqs \in Seq(Seq(S))
  PROVE  \E start \in [0 .. Len(seqs) -> Nat] :
           /\ start[0] = 0 /\ start[Len(seqs)] = Len(FlattenSeq(seqs))
           /\ \A k \in 1 .. Len(seqs) :
                /\ start[k] = start[k - 1] + Len(seqs[k])
                /\ start[k] <= Len(FlattenSeq(seqs))
                /\ \A j \in 1 .. Len(seqs[k]) : FlattenSeq(seqs)[start[k - 1] + j] = seqs[k][j]
           /\ \A i \in 1 .. Len(FlattenSeq(seqs)) :
                \E k \in 1 .. Len(seqs) : i - start[k - 1] \in 1 .. Len(seqs[k])
<1> DEFINE N == Len(seqs)
<1>1. PICK pre \in [0 .. N -> Seq(S)] :
        /\ pre[0] = << >> /\ pre[N] = FlattenSeq(seqs)
        /\ \A k \in 1 .. N : pre[k] = pre[k - 1] \o seqs[k]
  BY JoinedPrefixes
<1>2. N \in Nat /\ \A k \in 1 .. N : seqs[k] \in Seq(S)
  OBVIOUS
<1> DEFINE size == [k \in 1 .. N |-> Len(seqs[k])]
<1>0. size \in [1 .. N -> Nat] /\ \A k \in 1 .. N : size[k] = Len(seqs[k])
  BY <1>2
<1> HIDE DEF size
<1> DEFINE start == [k \in 0 .. N |-> Len(pre[k])]
           Right(n) ==
             \A k \in 1 .. n :
               /\ start[k] <= start[n]
               /\ \A j \in 1 .. size[k] : pre[n][start[k - 1] + j] = seqs[k][j]
           Whole(n) ==
             \A i \in 1 .. start[n] : \E k \in 1 .. n : i - start[k - 1] \in 1 .. size[k]
           G == {n \in 0 .. N : Right(n) /\ Whole(n)}
<1>3. /\ start \in [0 .. N -> Nat] /\ start[0] = 0
      /\ \A k \in 0 .. N : start[k] = Len(pre[k])
  BY <1>1
<1> HIDE DEF start
<1>4. ASSUME NEW k \in 1 .. N
      PROVE  /\ k - 1 \in 0 .. N /\ start[k - 1] \in Nat /\ size[k] \in Nat
             /\ start[k] = start[k - 1] + size[k]
             /\ \A i \in 1 .. start[k - 1] : pre[k][i] = pre[k - 1][i]
             /\ \A j \in 1 .. size[k] : pre[k][start[k - 1] + j] = seqs[k][j]
  <2>1. k - 1 \in 0 .. N /\ k \in 0 .. N /\ seqs[k] \in Seq(S)
    BY <1>2
  <2>2. pre[k - 1] \in Seq(S) /\ pre[k] = pre[k - 1] \o seqs[k]
    BY <1>1, <2>1
  <2>3. start[k - 1] = Len(pre[k - 1]) /\ start[k] = Len(pre[k])
    BY <1>3, <2>1
  <2> DEFINE a == pre[k - 1]
             b == seqs[k]
  <2>4. /\ Len(a \o b) = Len(a) + Len(b)
        /\ \A i \in 1 .. Len(a) : (a \o b)[i] = a[i]
        /\ \A j \in 1 .. Len(b) : (a \o b)[Len(a) + j] = b[j]
    BY <2>1, <2>2
  <2> HIDE DEF a, b
  <2>5. size[k] = Len(b) /\ Len(b) \in Nat /\ pre[k] = a \o b /\ start[k - 1] = Len(a)
    BY <1>0, <2>1, <2>2, <2>3 DEF a, b
  <2>6. start[k] = Len(a \o b) /\ start[k - 1] \in Nat
    BY <1>3, <2>1, <2>3, <2>5
  <2> QED
    BY <2>1, <2>4, <2>5, <2>6 DEF a, b
<1>5. 0 \in G
  BY <1>2, <1>3
<1>6. ASSUME NEW n \in 0 .. N - 1, n \in G PROVE n + 1 \in G
  <2>1. n + 1 \in 1 .. N /\ n + 1 - 1 = n /\ n \in 0 .. N /\ start[n] \in Nat /\ start[n + 1] \in Nat
    BY <1>2, <1>3
  <2>2. /\ size[n + 1] \in Nat
        /\ start[n + 1] = start[n] + size[n + 1]
        /\ \A i \in 1 .. start[n] : pre[n + 1][i] = pre[n][i]
        /\ \A j \in 1 .. size[n + 1] : pre[n + 1][start[n] + j] = seqs[n + 1][j]
    BY <1>4, <2>1
  <2>3. Right(n) /\ Whole(n)
    BY <1>6
  <2>4. Right(n + 1)
    <3> SUFFICES ASSUME NEW k \in 1 .. n + 1
                 PROVE  /\ start[k] <= start[n + 1]
                        /\ \A j \in 1 .. size[k] : pre[n + 1][start[k - 1] + j] = seqs[k][j]
      OBVIOUS
    <3>1. CASE k = n + 1
      <4>1. k - 1 = n /\ start[k] <= start[n + 1]
        BY <2>1, <3>1
      <4> QED
        BY <2>2, <3>1, <4>1
    <3>2. CASE k # n + 1
      <4>1. k \in 1 .. n /\ k \in 1 .. N
        BY <2>1, <3>2
      <4>2. start[k] <= start[n] /\ \A j \in 1 .. size[k] : pre[n][start[k - 1] + j] = seqs[k][j]
        BY <2>3, <4>1
      <4>3. start[k - 1] \in Nat /\ size[k] \in Nat /\ start[k] = start[k - 1] + size[k]
        BY <1>4, <4>1
      <4>4. ASSUME NEW j \in 1 .. size[k]
            PROVE  pre[n + 1][start[k - 1] + j] = seqs[k][j]
        <5>1. start[k - 1] + j \in 1 .. start[n]
          <6>1. start[k] <= start[n]
            BY <4>2
          <6>2. \A a, b, c \in Nat : a + b <= c => \A i \in 1 .. b : a + i \in 1 .. c
            OBVIOUS
          <6>3. start[k - 1] + size[k] <= start[n]
            BY <4>3, <6>1
          <6> QED
            BY <2>1, <4>3, <6>2, <6>3
        <5>2. pre[n + 1][start[k - 1] + j] = pre[n][start[k - 1] + j]
          BY <2>2, <5>1
        <5> QED
          BY <4>2, <5>2
      <4>5. start[k] <= start[n + 1]
        <5>1. start[k] \in Nat
          BY <4>3
        <5> QED
          BY <2>1, <2>2, <4>2, <5>1
      <4> QED
        BY <4>4, <4>5
    <3> QED
      BY <3>1, <3>2
  <2>5. Whole(n + 1)
    <3> SUFFICES ASSUME NEW i \in 1 .. start[n + 1]
                 PROVE  \E k \in 1 .. n + 1 : i - start[k - 1] \in 1 .. size[k]
      OBVIOUS
    <3>1. CASE i <= start[n]
      <4>1. PICK k \in 1 .. n : i - start[k - 1] \in 1 .. size[k]
        BY <2>1, <2>3, <3>1
      <4>2. k \in 1 .. n + 1
        BY <2>1
      <4> QED
        BY <4>1, <4>2
    <3>2. CASE i > start[n]
      <4>1. i - start[n + 1 - 1] \in 1 .. size[n + 1] /\ n + 1 \in 1 .. n + 1
        BY <2>1, <2>2, <3>2
      <4> QED
        BY <4>1
    <3> QED
      BY <2>1, <3>1, <3>2
  <2> HIDE DEF Right, Whole
  <2>6. n + 1 \in 0 .. N
    BY <2>1
  <2> QED
    BY <2>4, <2>5, <2>6
<1> HIDE DEF G
<1>7. \A n \in 0 .. N : n \in G
  BY <1>2, <1>5, <1>6, UpToAll
<1>8. Right(N) /\ Whole(N)
  <2>1. N \in G
    BY <1>2, <1>7
  <2> HIDE DEF N, Right, Whole
  <2> QED
    BY <2>1 DEF G
<1>9. start[N] = Len(FlattenSeq(seqs)) /\ pre[N] = FlattenSeq(seqs)
  BY <1>1, <1>2, <1>3
<1>10. \A k \in 1 .. N :
         /\ start[k] = start[k - 1] + Len(seqs[k])
         /\ start[k] <= Len(FlattenSeq(seqs))
         /\ \A j \in 1 .. Len(seqs[k]) : FlattenSeq(seqs)[start[k - 1] + j] = seqs[k][j]
  BY <1>0, <1>4, <1>8, <1>9
<1>11. \A i \in 1 .. Len(FlattenSeq(seqs)) :
         \E k \in 1 .. N : i - start[k - 1] \in 1 .. Len(seqs[k])
  BY <1>0, <1>8, <1>9
<1> HIDE DEF Right, Whole
<1> QED
  BY <1>3, <1>9, <1>10, <1>11
=============================================================================
