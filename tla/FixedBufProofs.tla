--------------------------- MODULE FixedBufProofs ---------------------------
(***************************************************************************)
(* Proofs about FixedBuf: for every set of variables and texts.            *)
(***************************************************************************)
EXTENDS FixedBuf, RecursionFacts, FiniteSetTheorems

-----------------------------------------------------------------------------
(* Escape. *)

LEMMA HexDigitType ==
  ASSUME NEW d \in 0 .. 15
  PROVE  HexDigit(d) \in 48 .. 70 /\ HexValue(HexDigit(d)) = d
BY DEF HexDigit, HexValue

LEMMA Nibbles ==
  ASSUME NEW b \in Byte
  PROVE  b \div 16 \in 0 .. 15 /\ b % 16 \in 0 .. 15 /\ 16 * (b \div 16) + (b % 16) = b
BY DEF Byte

Plain == 32 .. 126 \ {34, 92}
Short == {92, 34, 9, 10, 13}

(* The letter behind the backslash. *)
Letter(b) == IF b = 9 THEN 116 ELSE IF b = 10 THEN 110 ELSE IF b = 13 THEN 114 ELSE b

LEMMA EscapedByteCases ==
  ASSUME NEW b \in Byte
  PROVE  /\ b \in Plain => EscapedByte(b) = <<b>>
         /\ b \in Short => EscapedByte(b) = <<92, Letter(b)>>
         /\ b \notin Plain /\ b \notin Short =>
              EscapedByte(b) = <<92, 120, HexDigit(b \div 16), HexDigit(b % 16)>>
<1>1. CASE b \in Plain
  <2>1. b \notin {92, 34, 9, 10, 13}
    BY <1>1 DEF Plain
  <2> QED
    BY <1>1, <2>1 DEF EscapedByte, Plain, Short
<1>2. CASE b \in Short
  <2>1. b \notin Plain
    BY <1>2 DEF Plain, Short
  <2>2. EscapedByte(b) = <<92, Letter(b)>>
    BY <1>2 DEF EscapedByte, Short, Letter
  <2> QED
    BY <1>2, <2>1, <2>2
<1>3. CASE b \notin Plain /\ b \notin Short
  BY <1>3 DEF EscapedByte, Plain, Short
<1> QED
  BY <1>1, <1>2, <1>3

LEMMA EscapedByteType ==
  ASSUME NEW b \in Byte
  PROVE  EscapedByte(b) \in Seq(Byte)
<1>1. CASE b \in Plain
  <2>1. EscapedByte(b) = <<b>>
    BY <1>1, EscapedByteCases
  <2>2. <<b>> \in Seq(Byte)
    OBVIOUS
  <2> QED
    BY <2>1, <2>2
<1>2. CASE b \in Short
  <2>1. Letter(b) \in Byte /\ 92 \in Byte
    BY <1>2 DEF Letter, Byte
  <2>2. EscapedByte(b) = <<92, Letter(b)>>
    BY <1>2, EscapedByteCases
  <2>3. <<92, Letter(b)>> \in Seq(Byte)
    BY <2>1
  <2> QED
    BY <2>2, <2>3
<1>3. CASE b \notin Plain /\ b \notin Short
  <2> DEFINE h == HexDigit(b \div 16)
             d == HexDigit(b % 16)
  <2>1. EscapedByte(b) = <<92, 120, h, d>>
    BY <1>3, EscapedByteCases
  <2>2. h \in Byte /\ d \in Byte /\ 92 \in Byte /\ 120 \in Byte
    BY Nibbles, HexDigitType DEF Byte
  <2> HIDE DEF h, d
  <2> QED
    BY <2>1, <2>2
<1> QED
  BY <1>1, <1>2, <1>3

LEMMA EscapedType ==
  ASSUME NEW s \in Seq(Byte)
  PROVE  /\ [i \in DOMAIN s |-> EscapedByte(s[i])] \in Seq(Seq(Byte))
         /\ Escaped(s) \in Seq(Byte)
<1> DEFINE parts == [i \in DOMAIN s |-> EscapedByte(s[i])]
<1>1. DOMAIN s = 1 .. Len(s) /\ Len(s) \in Nat /\ \A i \in 1 .. Len(s) : s[i] \in Byte
  OBVIOUS
<1>2. \A i \in 1 .. Len(s) : EscapedByte(s[i]) \in Seq(Byte)
  BY <1>1, EscapedByteType
<1>3. parts \in Seq(Seq(Byte))
  BY <1>1, <1>2
<1> QED
  BY <1>3, FlattenedType DEF Escaped

-----------------------------------------------------------------------------
(* Strip. *)

LEMMA Left ==
  ASSUME NEW s \in Seq(Byte)
  PROVE  /\ LeftIdx(s) \in 0 .. Len(s)
         /\ \A i \in 1 .. LeftIdx(s) : s[i] \in Blank
         /\ LeftIdx(s) = Len(s) \/ s[LeftIdx(s) + 1] \notin Blank
<1> DEFINE T == {l \in 0 .. Len(s) : l = Len(s) \/ s[l + 1] \notin Blank}
           Is(l) == /\ \A i \in 1 .. l : s[i] \in Blank
                    /\ l = Len(s) \/ s[l + 1] \notin Blank
<1>1. T \in SUBSET Nat /\ Len(s) \in T
  OBVIOUS
<1>2. PICK l \in T : \A m \in T : l <= m
  BY <1>1, LeastNat
<1>3. ASSUME NEW i \in 1 .. l PROVE s[i] \in Blank
  <2>1. i - 1 \in 0 .. Len(s) /\ ~ (l <= i - 1) /\ i - 1 + 1 = i /\ i - 1 # Len(s)
    OBVIOUS
  <2>2. i - 1 \notin T
    BY <1>2, <2>1
  <2> QED
    BY <2>1, <2>2
<1>4. l \in 0 .. Len(s) /\ Is(l)
  BY <1>3
<1> HIDE DEF T, Is
<1>5. LeftIdx(s) \in 0 .. Len(s) /\ Is(LeftIdx(s))
  <2>1. LeftIdx(s) = CHOOSE k \in 0 .. Len(s) : Is(k)
    BY DEF LeftIdx, Is
  <2> QED
    BY <1>4, <2>1
<1> QED
  BY <1>5 DEF Is

LEMMA Right ==
  ASSUME NEW s \in Seq(Byte), NEW l \in 0 .. Len(s) - 1
  PROVE  /\ RightIdx(s, l) \in l .. Len(s) - 1
         /\ \A i \in RightIdx(s, l) + 2 .. Len(s) : s[i] \in Blank
         /\ RightIdx(s, l) = l \/ s[RightIdx(s, l) + 1] \notin Blank
<1> DEFINE N == Len(s)
           T == {k \in 0 .. N - 1 - l : N - 1 - k = l \/ s[N - k] \notin Blank}
           Is(r) == /\ \A i \in r + 2 .. N : s[i] \in Blank
                    /\ r = l \/ s[r + 1] \notin Blank
<1>0. N \in Nat
  OBVIOUS
<1> HIDE DEF N
<1>1. T \in SUBSET Nat /\ N - 1 - l \in T
  <2>1. l \in 0 .. N - 1
    BY DEF N
  <2> QED
    BY <1>0, <2>1
<1>2. PICK k \in T : \A m \in T : k <= m
  BY <1>1, LeastNat
<1> DEFINE r == N - 1 - k
<1>3. ASSUME NEW i \in r + 2 .. N PROVE s[i] \in Blank
  <2>1. N - i \in 0 .. N - 1 - l /\ N - i < k /\ N - (N - i) = i /\ N - 1 - (N - i) # l
    BY <1>0
  <2>2. N - i \notin T
    BY <1>1, <1>2, <2>1
  <2> QED
    BY <2>1, <2>2
<1>4. r \in l .. N - 1 /\ r + 1 = N - k
  BY <1>0
<1>5. Is(r)
  BY <1>3, <1>4
<1> HIDE DEF T, Is, r
<1>6. RightIdx(s, l) \in l .. N - 1 /\ Is(RightIdx(s, l))
  <2>1. RightIdx(s, l) = CHOOSE q \in l .. N - 1 : Is(q)
    BY DEF RightIdx, Is, N
  <2> QED
    BY <1>4, <1>5, <2>1
<1> QED
  BY <1>6 DEF Is, N

(* What Strip leaves of a text. *)
Kept(s) == SubSeq(s, LeftIdx(s) + 1, RightIdx(s, LeftIdx(s)) + 1)

LEMMA KeptText ==
  ASSUME NEW s \in Seq(Byte), LeftIdx(s) # Len(s), RightIdx(s, LeftIdx(s)) # LeftIdx(s)
  PROVE  Kept(s) \in Seq(Byte) /\ Kept(s) # << >> /\ IsTrimmed(s, Kept(s))
<1> DEFINE l == LeftIdx(s)
           r == RightIdx(s, l)
           t == Kept(s)
           N == Len(s)
<1>1. /\ l \in 0 .. N - 1 /\ N \in Nat /\ \A i \in 1 .. l : s[i] \in Blank
      /\ s[l + 1] \notin Blank
  BY Left
<1>2. r \in l + 1 .. N - 1 /\ s[r + 1] \notin Blank /\ \A i \in r + 2 .. N : s[i] \in Blank
  BY <1>1, Right
<1>3. DOMAIN s = 1 .. N /\ s \in Seq(Byte)
  OBVIOUS
<1>4. t = SubSeq(s, l + 1, r + 1)
  BY DEF Kept
<1> HIDE DEF l, r, t, N
<1>5. t \in Seq(Byte) /\ Len(t) = r - l + 1 /\ \A i \in 1 .. r - l + 1 : t[i] = s[l + i]
  <2>1. l + 1 \in 1 .. Len(s) /\ r + 1 \in 1 .. Len(s) /\ l + 1 <= r + 1
    BY <1>1, <1>2 DEF N
  <2> QED
    BY <1>1, <1>2, <1>4, <2>1
<1>6. t # << >> /\ Head(t) = s[l + 1] /\ Last(t) = s[r + 1]
  BY <1>1, <1>2, <1>5 DEF Last
<1>7. IsTrimmed(s, t)
  <2>1. l \in 0 .. N - Len(t) /\ l + Len(t) = r + 1
    BY <1>1, <1>2, <1>5
  <2>2. t = SubSeq(s, l + 1, l + Len(t))
    BY <1>4, <2>1
  <2>3. ASSUME NEW j \in DOMAIN s \ (l + 1 .. l + Len(t)) PROVE s[j] \in Blank
    BY <1>1, <1>2, <1>3, <2>1
  <2>4. Head(t) \notin Blank /\ Last(t) \notin Blank
    BY <1>1, <1>2, <1>6
  <2> QED
    BY <2>1, <2>2, <2>3, <2>4 DEF IsTrimmed, N
<1> QED
  BY <1>5, <1>6, <1>7 DEF t

-----------------------------------------------------------------------------
(* Reading back what Escape made. *)

(* The step of Unescaped's recursion, from what is read one, two or four   *)
(* bytes later.                                                            *)
ReadWith(t, i, one, two, four) ==
  IF t[i] # 92 THEN <<t[i]>> \o one
  ELSE CASE ByteAt(t, i + 1) = 120 ->
              <<16 * HexValue(ByteAt(t, i + 2)) + HexValue(ByteAt(t, i + 3))>> \o four
         [] ByteAt(t, i + 1) = 116 -> <<9>> \o two
         [] ByteAt(t, i + 1) = 110 -> <<10>> \o two
         [] ByteAt(t, i + 1) = 114 -> <<13>> \o two
         [] OTHER -> <<ByteAt(t, i + 1)>> \o two

ReadAt(t, read, i) ==
  IF i > Len(t) THEN << >> ELSE ReadWith(t, i, read[i + 1], read[i + 2], read[i + 4])

ReadsFrom(t, m, read) == read = [i \in m .. Len(t) + 4 |-> ReadAt(t, read, i)]

LEMMA ReadAtLocal ==
  ASSUME NEW t, NEW f, NEW g, NEW i,
         ~ (i > Len(t)) => f[i + 1] = g[i + 1] /\ f[i + 2] = g[i + 2] /\ f[i + 4] = g[i + 4]
  PROVE  ReadAt(t, f, i) = ReadAt(t, g, i)
BY DEF ReadAt

LEMMA ReadExists ==
  ASSUME NEW t \in Seq(Byte)
  PROVE  \E read : ReadsFrom(t, 1, read)
<1> DEFINE L == Len(t)
           G == {n \in Nat : n <= L => \E f : ReadsFrom(t, L + 1 - n, f)}
<1>0. L \in Nat
  OBVIOUS
<1>1. 0 \in G
  <2> DEFINE none == [i \in L + 1 .. L + 4 |-> << >>]
             again == [i \in L + 1 .. L + 4 |-> ReadAt(t, none, i)]
  <2>1. \A i \in L + 1 .. L + 4 : ReadAt(t, none, i) = << >>
    BY <1>0 DEF ReadAt
  <2>2. none = again
    BY <2>1
  <2> HIDE DEF none
  <2>3. ReadsFrom(t, L + 1, none)
    BY <2>2 DEF ReadsFrom
  <2>4. L + 1 - 0 = L + 1
    BY <1>0
  <2> QED
    BY <2>3, <2>4
<1>2. ASSUME NEW n \in Nat, n \in G PROVE n + 1 \in G
  <2> SUFFICES ASSUME n + 1 <= L PROVE \E f : ReadsFrom(t, L + 1 - (n + 1), f)
    OBVIOUS
  <2>1. PICK f : ReadsFrom(t, L + 1 - n, f)
    BY <1>0, <1>2
  <2>2. PICK m \in 1 .. L : m = L - n /\ m + 1 = L + 1 - n /\ m = L + 1 - (n + 1)
    BY <1>0
  <2> DEFINE g == [i \in m .. L + 4 |-> IF i = m THEN ReadAt(t, f, m) ELSE f[i]]
             h == [i \in m .. L + 4 |-> ReadAt(t, g, i)]
  <2>3. \A i \in m + 1 .. L + 4 : f[i] = ReadAt(t, f, i) /\ g[i] = f[i]
    <3>1. f = [i \in m + 1 .. L + 4 |-> ReadAt(t, f, i)]
      BY <2>1, <2>2 DEF ReadsFrom
    <3>2. \A i \in m + 1 .. L + 4 : i \in m .. L + 4 /\ i # m
      BY <1>0
    <3> QED
      BY <3>1, <3>2
  <2>4. g[m] = ReadAt(t, f, m)
    BY <1>0
  <2> HIDE DEF g
  <2>5. ASSUME NEW i \in m .. L + 4 PROVE ReadAt(t, f, i) = ReadAt(t, g, i)
    <3>1. ~ (i > L) => i + 1 \in m + 1 .. L + 4 /\ i + 2 \in m + 1 .. L + 4 /\ i + 4 \in m + 1 .. L + 4
      BY <1>0
    <3> QED
      BY <2>3, <3>1, ReadAtLocal
  <2>6. \A i \in m .. L + 4 : g[i] = ReadAt(t, g, i)
    <3> SUFFICES ASSUME NEW i \in m .. L + 4 PROVE g[i] = ReadAt(t, g, i)
      OBVIOUS
    <3>1. CASE i = m
      BY <2>4, <2>5, <3>1
    <3>2. CASE i # m
      <4>1. i \in m + 1 .. L + 4
        BY <1>0, <3>2
      <4> QED
        BY <2>3, <2>5, <4>1
    <3> QED
      BY <3>1, <3>2
  <2>7. g = h
    BY <2>6 DEF g
  <2>8. ReadsFrom(t, m, g)
    BY <2>7 DEF ReadsFrom
  <2> QED
    BY <2>2, <2>8
<1> HIDE DEF G
<1>3. L \in G
  BY <1>0, <1>1, <1>2, NatIsAll
<1>4. L + 1 - L = 1
  BY <1>0
<1> QED
  BY <1>0, <1>3, <1>4 DEF G

LEMMA UnescapedReads ==
  ASSUME NEW t \in Seq(Byte)
  PROVE  \E read : Unescaped(t) = read[1] /\ \A i \in 1 .. Len(t) + 4 : read[i] = ReadAt(t, read, i)
<1> DEFINE read == CHOOSE f : ReadsFrom(t, 1, f)
<1>1. ReadsFrom(t, 1, read)
  BY ReadExists
<1>2. Unescaped(t) = read[1]
  BY Zenon DEF Unescaped, ReadsFrom, ReadAt, ReadWith
<1> HIDE DEF read
<1>3. \A i \in 1 .. Len(t) + 4 : read[i] = ReadAt(t, read, i)
  BY <1>1 DEF ReadsFrom
<1> QED
  BY <1>2, <1>3

(* The escaped form of one byte is read as this byte. *)
LEMMA PartRead ==
  ASSUME NEW t \in Seq(Byte), NEW b \in Byte, NEW i \in Nat, NEW read,
         i + Len(EscapedByte(b)) <= Len(t),
         \A j \in 1 .. Len(EscapedByte(b)) : t[i + j] = EscapedByte(b)[j]
  PROVE  ReadAt(t, read, i + 1) = <<b>> \o read[i + Len(EscapedByte(b)) + 1]
<1> DEFINE p == EscapedByte(b)
<1>0. DOMAIN t = 1 .. Len(t) /\ Len(t) \in Nat
  OBVIOUS
<1>1. CASE b \in Plain
  <2>1. p = <<b>>
    BY <1>1, EscapedByteCases
  <2>2. Len(p) = 1 /\ p[1] = b
    BY <2>1
  <2>3. t[i + 1] = b /\ ~ (i + 1 > Len(t)) /\ b # 92
    BY <1>0, <1>1, <2>2 DEF Plain
  <2> HIDE DEF p
  <2>4. ReadAt(t, read, i + 1) = <<b>> \o read[i + 1 + 1]
    BY <2>3 DEF ReadAt, ReadWith
  <2> QED
    BY <2>2, <2>4 DEF p
<1>2. CASE b \in Short
  <2>1. p = <<92, Letter(b)>>
    BY <1>2, EscapedByteCases
  <2>2. Len(p) = 2 /\ p[1] = 92 /\ p[2] = Letter(b)
    BY <2>1
  <2>3. t[i + 1] = 92 /\ t[i + 2] = Letter(b) /\ i + 2 \in DOMAIN t /\ ~ (i + 1 > Len(t))
    BY <1>0, <2>2
  <2>4. ByteAt(t, i + 1 + 1) = Letter(b) /\ i + 1 + 2 = i + 2 + 1
    BY <2>3 DEF ByteAt
  <2> HIDE DEF p
  <2>5. ReadAt(t, read, i + 1) = <<b>> \o read[i + 1 + 2]
    <3>1. ReadAt(t, read, i + 1) =
            ReadWith(t, i + 1, read[i + 1 + 1], read[i + 1 + 2], read[i + 1 + 4])
      BY <2>3 DEF ReadAt
    <3> DEFINE one == read[i + 1 + 1]
               two == read[i + 1 + 2]
               four == read[i + 1 + 4]
    <3> HIDE DEF one, two, four
    <3>2. CASE b = 9
      <4>1. ByteAt(t, i + 1 + 1) = 116
        BY <2>4, <3>2 DEF Letter
      <4>2. ReadWith(t, i + 1, one, two, four) = <<9>> \o two
        BY <2>3, <4>1 DEF ReadWith
      <4> QED
        BY <3>1, <3>2, <4>2 DEF one, two, four
    <3>3. CASE b = 10
      <4>1. ByteAt(t, i + 1 + 1) = 110
        BY <2>4, <3>3 DEF Letter
      <4>2. ReadWith(t, i + 1, one, two, four) = <<10>> \o two
        BY <2>3, <4>1 DEF ReadWith
      <4> QED
        BY <3>1, <3>3, <4>2 DEF one, two, four
    <3>4. CASE b = 13
      <4>1. ByteAt(t, i + 1 + 1) = 114
        BY <2>4, <3>4 DEF Letter
      <4>2. ReadWith(t, i + 1, one, two, four) = <<13>> \o two
        BY <2>3, <4>1 DEF ReadWith
      <4> QED
        BY <3>1, <3>4, <4>2 DEF one, two, four
    <3>5. CASE b \in {92, 34}
      <4>1. ByteAt(t, i + 1 + 1) = b /\ b \notin {120, 116, 110, 114}
        BY <2>4, <3>5 DEF Letter
      <4>2. ReadWith(t, i + 1, one, two, four) = <<b>> \o two
        BY <2>3, <4>1 DEF ReadWith
      <4> QED
        BY <3>1, <3>5, <4>2 DEF one, two, four
    <3> QED
      BY <1>2, <3>2, <3>3, <3>4, <3>5 DEF Short
  <2> QED
    BY <2>2, <2>4, <2>5 DEF p
<1>3. CASE b \notin Plain /\ b \notin Short
  <2> DEFINE h == HexDigit(b \div 16)
             d == HexDigit(b % 16)
  <2>1. p = <<92, 120, h, d>>
    BY <1>3, EscapedByteCases
  <2>2. 16 * HexValue(h) + HexValue(d) = b
    <3>1. HexValue(h) = b \div 16 /\ HexValue(d) = b % 16
      BY Nibbles, HexDigitType
    <3> QED
      BY <3>1, Nibbles
  <2> HIDE DEF h, d
  <2>3. Len(p) = 4 /\ p[1] = 92 /\ p[2] = 120 /\ p[3] = h /\ p[4] = d
    BY <2>1
  <2>4. /\ t[i + 1] = 92 /\ t[i + 2] = 120 /\ t[i + 3] = h /\ t[i + 4] = d
        /\ ~ (i + 1 > Len(t))
        /\ i + 2 \in DOMAIN t /\ i + 3 \in DOMAIN t /\ i + 4 \in DOMAIN t
    BY <1>0, <2>3
  <2>5. /\ ByteAt(t, i + 1 + 1) = 120 /\ ByteAt(t, i + 1 + 2) = h /\ ByteAt(t, i + 1 + 3) = d
        /\ i + 1 + 4 = i + 4 + 1
    BY <2>4 DEF ByteAt
  <2> HIDE DEF p
  <2> DEFINE one == read[i + 1 + 1]
             two == read[i + 1 + 2]
             four == read[i + 1 + 4]
  <2>6. ReadAt(t, read, i + 1) = ReadWith(t, i + 1, one, two, four)
    BY <2>4 DEF ReadAt
  <2> HIDE DEF one, two, four
  <2>7. ReadWith(t, i + 1, one, two, four) = <<16 * HexValue(h) + HexValue(d)>> \o four
    <3>1. ~ (t[i + 1] # 92) /\ ByteAt(t, i + 1 + 1) = 120
      BY <2>4, <2>5
    <3>2. ReadWith(t, i + 1, one, two, four) =
            <<16 * HexValue(ByteAt(t, i + 1 + 2)) + HexValue(ByteAt(t, i + 1 + 3))>> \o four
      <4> DEFINE c == ByteAt(t, i + 1 + 1)
                 hex == <<16 * HexValue(ByteAt(t, i + 1 + 2)) + HexValue(ByteAt(t, i + 1 + 3))>> \o four
                 other == <<c>> \o two
      <4>1. ReadWith(t, i + 1, one, two, four) =
              IF t[i + 1] # 92 THEN <<t[i + 1]>> \o one
              ELSE CASE c = 120 -> hex [] c = 116 -> <<9>> \o two [] c = 110 -> <<10>> \o two
                     [] c = 114 -> <<13>> \o two [] OTHER -> other
        BY Zenon DEF ReadWith
      <4>2. c = 120
        BY <3>1
      <4> HIDE DEF c, hex, other
      <4> QED
        <5>1. ReadWith(t, i + 1, one, two, four) = hex
          BY <3>1, <4>1, <4>2
        <5> QED
          BY <5>1, Zenon DEF hex
    <3> QED
      BY <2>5, <3>2, Zenon
  <2> QED
    BY <2>2, <2>3, <2>5, <2>6, <2>7 DEF four, p
<1> QED
  BY <1>1, <1>2, <1>3

(* It is printable, and a quote in it is behind a backslash. *)
LEMMA PartPrintable ==
  ASSUME NEW b \in Byte, NEW j \in 1 .. Len(EscapedByte(b))
  PROVE  /\ EscapedByte(b)[j] \in 32 .. 126
         /\ EscapedByte(b)[j] = 34 => j = 2 /\ EscapedByte(b)[1] = 92
<1> DEFINE p == EscapedByte(b)
<1>1. CASE b \in Plain
  <2>1. p = <<b>>
    BY <1>1, EscapedByteCases
  <2>2. Len(p) = 1 /\ p[1] = b
    BY <2>1
  <2>3. b \in 32 .. 126 /\ b # 34
    BY <1>1 DEF Plain
  <2> QED
    BY <2>2, <2>3
<1>2. CASE b \in Short
  <2>1. p = <<92, Letter(b)>>
    BY <1>2, EscapedByteCases
  <2>2. Len(p) = 2 /\ p[1] = 92 /\ p[2] = Letter(b)
    BY <2>1
  <2>3. Letter(b) \in 32 .. 126
    BY <1>2 DEF Short, Letter
  <2>4. j = 1 \/ j = 2
    BY <2>2
  <2> QED
    BY <2>2, <2>3, <2>4
<1>3. CASE b \notin Plain /\ b \notin Short
  <2> DEFINE h == HexDigit(b \div 16)
             d == HexDigit(b % 16)
  <2>1. p = <<92, 120, h, d>>
    BY <1>3, EscapedByteCases
  <2>2. h \in 48 .. 70 /\ d \in 48 .. 70
    BY Nibbles, HexDigitType
  <2> HIDE DEF h, d
  <2>3. Len(p) = 4 /\ p[1] = 92 /\ p[2] = 120 /\ p[3] = h /\ p[4] = d
    BY <2>1
  <2>4. j = 1 \/ j = 2 \/ j = 3 \/ j = 4
    BY <2>3
  <2> QED
    BY <2>2, <2>3, <2>4
<1> QED
  BY <1>1, <1>2, <1>3

LEMMA ReadsBack ==
  ASSUME NEW s \in Seq(Byte)
  PROVE  Quotes(Escaped(s), s)
<1> DEFINE parts == [i \in DOMAIN s |-> EscapedByte(s[i])]
           t == Escaped(s)
           M == Len(s)
<1>1. parts \in Seq(Seq(Byte)) /\ t \in Seq(Byte) /\ t = FlattenSeq(parts)
  BY EscapedType DEF Escaped
<1>2. /\ M \in Nat /\ Len(parts) = M /\ \A k \in 1 .. M : s[k] \in Byte /\ parts[k] = EscapedByte(s[k])
  <2>1. DOMAIN s = 1 .. Len(s) /\ Len(s) \in Nat
    OBVIOUS
  <2>2. DOMAIN parts = 1 .. Len(s) /\ DOMAIN parts = 1 .. Len(parts) /\ Len(parts) \in Nat
    BY <1>1, <2>1
  <2>3. Len(parts) = Len(s)
    BY <1>1, <2>1, <2>2
  <2> QED
    BY <2>1, <2>3
<1> HIDE DEF parts, t, M
<1>3. PICK start \in [0 .. M -> Nat] :
        /\ start[0] = 0 /\ start[M] = Len(t)
        /\ \A k \in 1 .. M :
             /\ start[k] = start[k - 1] + Len(parts[k])
             /\ start[k] <= Len(t)
             /\ \A j \in 1 .. Len(parts[k]) : t[start[k - 1] + j] = parts[k][j]
        /\ \A i \in 1 .. Len(t) : \E k \in 1 .. M : i - start[k - 1] \in 1 .. Len(parts[k])
  <2>1. PICK f \in [0 .. Len(parts) -> Nat] :
          /\ f[0] = 0 /\ f[Len(parts)] = Len(FlattenSeq(parts))
          /\ \A k \in 1 .. Len(parts) :
               /\ f[k] = f[k - 1] + Len(parts[k])
               /\ f[k] <= Len(FlattenSeq(parts))
               /\ \A j \in 1 .. Len(parts[k]) : FlattenSeq(parts)[f[k - 1] + j] = parts[k][j]
          /\ \A i \in 1 .. Len(FlattenSeq(parts)) :
               \E k \in 1 .. Len(parts) : i - f[k - 1] \in 1 .. Len(parts[k])
    BY <1>1, PartPlaces
  <2>2. FlattenSeq(parts) = t /\ Len(parts) = M
    BY <1>1, <1>2
  <2> QED
    BY <2>1, <2>2, Zenon
<1>4. \A i \in DOMAIN t : t[i] \in 32 .. 126 /\ (t[i] = 34 => i > 1 /\ t[i - 1] = 92)
  <2> SUFFICES ASSUME NEW i \in DOMAIN t
               PROVE  t[i] \in 32 .. 126 /\ (t[i] = 34 => i > 1 /\ t[i - 1] = 92)
    OBVIOUS
  <2>1. i \in 1 .. Len(t) /\ i \in Nat
    BY <1>1
  <2>2. PICK k \in 1 .. M : i - start[k - 1] \in 1 .. Len(parts[k])
    BY <1>3, <2>1
  <2>3. PICK j \in 1 .. Len(parts[k]) : j = i - start[k - 1]
    BY <2>2
  <2>4. s[k] \in Byte /\ parts[k] = EscapedByte(s[k]) /\ start[k - 1] \in Nat
    <3>1. k - 1 \in 0 .. M
      BY <1>2
    <3> QED
      BY <1>2, <1>3, <3>1
  <2>5. \A q \in 1 .. Len(parts[k]) : t[start[k - 1] + q] = parts[k][q]
    BY <1>3
  <2>6. i = start[k - 1] + j /\ t[i] = parts[k][j]
    BY <2>1, <2>3, <2>4, <2>5
  <2>7. /\ parts[k][j] \in 32 .. 126
        /\ parts[k][j] = 34 => j = 2 /\ parts[k][1] = 92
    <3>1. j \in 1 .. Len(EscapedByte(s[k]))
      BY <2>4
    <3>2. /\ EscapedByte(s[k])[j] \in 32 .. 126
          /\ EscapedByte(s[k])[j] = 34 => j = 2 /\ EscapedByte(s[k])[1] = 92
      BY <2>4, <3>1, PartPrintable
    <3> QED
      BY <2>4, <3>2
  <2>8. j = 2 => i > 1 /\ i - 1 = start[k - 1] + 1 /\ 1 \in 1 .. Len(parts[k])
    <3>1. parts[k] \in Seq(Byte)
      BY <2>4, EscapedByteType
    <3> QED
      BY <2>4, <2>6, <3>1
  <2> QED
    <3>1. t[i] \in 32 .. 126
      BY <2>6, <2>7
    <3>2. t[i] = 34 => j = 2 /\ parts[k][1] = 92
      BY <2>6, <2>7
    <3>3. j = 2 => t[i - 1] = parts[k][1] /\ i > 1
      BY <2>5, <2>8
    <3> QED
      BY <3>1, <3>2, <3>3
<1>5. PICK read : Unescaped(t) = read[1] /\ \A i \in 1 .. Len(t) + 4 : read[i] = ReadAt(t, read, i)
  BY <1>1, UnescapedReads
<1>6. Unescaped(t) = s
  <2> DEFINE G == {n \in 0 .. M : read[start[M - n] + 1] = SubSeq(s, M - n + 1, M)}
  <2>1. 0 \in G
    <3>1. Len(t) \in Nat /\ start[M - 0] = Len(t) /\ Len(t) + 1 \in 1 .. Len(t) + 4
      BY <1>1, <1>2, <1>3
    <3>2. read[Len(t) + 1] = << >>
      BY <1>5, <3>1 DEF ReadAt
    <3>3. SubSeq(s, M - 0 + 1, M) = << >>
      BY <1>2 DEF M
    <3> QED
      <4>1. 0 \in 0 .. M
        BY <1>2
      <4>2. read[start[M - 0] + 1] = SubSeq(s, M - 0 + 1, M)
        BY <3>1, <3>2, <3>3
      <4> QED
        BY <4>1, <4>2
  <2>2. ASSUME NEW n \in 0 .. M - 1, n \in G PROVE n + 1 \in G
    <3>1. PICK k \in 1 .. M : k = M - n /\ k - 1 = M - (n + 1) /\ k - 1 \in 0 .. M /\ k \in 0 .. M
      BY <1>2
    <3> DEFINE i == start[k - 1]
               p == EscapedByte(s[k])
    <3>2. /\ s[k] \in Byte /\ parts[k] = p /\ i \in Nat /\ start[k] = i + Len(p)
          /\ i + Len(p) <= Len(t) /\ \A j \in 1 .. Len(p) : t[i + j] = p[j]
      <4>1. s[k] \in Byte /\ parts[k] = p
        BY <1>2, <3>1
      <4>2. i \in Nat
        BY <1>3, <3>1
      <4>3. /\ start[k] = i + Len(parts[k]) /\ start[k] <= Len(t)
            /\ \A j \in 1 .. Len(parts[k]) : t[i + j] = parts[k][j]
        BY <1>3, <3>1
      <4> HIDE DEF i, p
      <4> QED
        BY <4>1, <4>2, <4>3
    <3>3. ReadAt(t, read, i + 1) = <<s[k]>> \o read[i + Len(p) + 1]
      BY <1>1, <3>2, PartRead
    <3>4. read[i + 1] = ReadAt(t, read, i + 1)
      <4>1. Len(p) \in Nat /\ Len(t) \in Nat
        BY <1>1, <3>2, EscapedByteType
      <4>2. i + 1 \in 1 .. Len(t) + 4
        BY <3>2, <4>1
      <4> QED
        BY <1>5, <4>2
    <3>5. read[start[k] + 1] = SubSeq(s, k + 1, M)
      BY <2>2, <3>1
    <3>6. <<s[k]>> \o SubSeq(s, k + 1, M) = SubSeq(s, k, M)
      BY <1>2, <3>2 DEF M
    <3>7. read[start[k - 1] + 1] = SubSeq(s, k - 1 + 1, M)
      <4>1. Len(p) \in Nat
        BY <3>2, EscapedByteType
      <4> DEFINE rest == SubSeq(s, k + 1, M)
      <4> HIDE DEF i, p, rest
      <4>2. i + Len(p) + 1 = start[k] + 1 /\ k - 1 + 1 = k
        BY <3>1, <3>2, <4>1
      <4>3. read[i + 1] = <<s[k]>> \o read[start[k] + 1]
        BY <3>3, <3>4, <4>2
      <4>4. read[i + 1] = <<s[k]>> \o rest
        BY <3>5, <4>3 DEF rest
      <4>5. read[i + 1] = SubSeq(s, k, M)
        BY <3>6, <4>4 DEF rest
      <4> QED
        BY <4>2, <4>5 DEF i
    <3> QED
      BY <1>2, <3>1, <3>7
  <2> HIDE DEF G
  <2>3. \A n \in 0 .. M : n \in G
    BY <1>2, <2>1, <2>2, UpToAll
  <2>4. read[start[0] + 1] = SubSeq(s, 1, M)
    <3>1. M \in G /\ M - M = 0 /\ 0 + 1 = 1
      BY <1>2, <2>3
    <3> QED
      BY <3>1 DEF G
  <2>5. SubSeq(s, 1, M) = s /\ start[0] + 1 = 1
    BY <1>3 DEF M
  <2> QED
    BY <1>5, <2>4, <2>5
<1> QED
  BY <1>4, <1>6 DEF Quotes, t

(***************************************************************************)
(* The buffers and the call in progress.                                   *)
(***************************************************************************)

Pointer == [ptr : {"NULL", "unset", "object"}, buf : BOOLEAN, text : Seq(Byte)]

(* What a variable can hold: only an object has a block for its bytes, and *)
(* it has one exactly when there are bytes.                                *)
WellFormed(f) ==
  /\ f \in Pointer
  /\ f.buf <=> f.text # << >>
  /\ f.buf => f.ptr = "object"

AllWellFormed == fixed \in [Obj -> Pointer] /\ \A o \in Obj : WellFormed(fixed[o])

Steps == {"none", "fmt", "buf", "obj", "FreeBuf", "read", "escape", "push", "FreeDst", "return"}

Call ==
  [at : Steps, kind : {"none", "new", "file", "escape"},
   o : Obj \union {NoObj}, from : Obj \union {NoObj}, text : Seq(Byte),
   tmp : 0 .. 2, buf : BOOLEAN, obj : BOOLEAN]

(* Which blocks a call has got by the time it is at each of its steps.     *)
GotByNow(c) ==
  /\ c.at \in {"none", "fmt", "escape"} => c.tmp = 0
  /\ c.at = "push" => c.tmp = 1
  /\ c.at \in {"none", "fmt", "escape", "push", "FreeDst", "buf"} => ~ c.buf /\ ~ c.obj
  /\ c.at \in {"fmt", "push", "buf"} => c.text # << >>
  /\ c.at \in {"obj", "FreeBuf"} => ~ c.obj
  /\ c.at = "read" => c.obj
  /\ c.at \in {"obj", "read"} => (c.buf <=> c.text # << >>)
  /\ c.at = "return" /\ c.obj => (c.buf <=> c.text # << >>)
  /\ c.at = "return" /\ ~ c.obj => ~ c.buf

(* What the call reads and where its result goes. *)
Targets(c) ==
  /\ c.at = "none" => c.kind = "none"
  /\ c.at # "none" => c.o \in Obj /\ ~ IsObject(c.o)
  /\ c.kind = "escape" =>
       c.from \in Obj /\ IsObject(c.from) /\ c.text = Escaped(fixed[c.from].text)

CallSound == call \in Call /\ GotByNow(call) /\ Targets(call)

LocalsOf(c) == c.tmp + (IF c.buf THEN 1 ELSE 0) + (IF c.obj THEN 1 ELSE 0)

Sound == AllWellFormed /\ CallSound /\ BlocksAccounted

LEMMA NoneWellFormed ==
  /\ WellFormed(NULL) /\ NULL.ptr = "NULL" /\ ~ NULL.buf
  /\ WellFormed(Unset) /\ Unset.ptr = "unset" /\ ~ Unset.buf
<1> DEFINE none(p) == [ptr |-> p, buf |-> FALSE, text |-> << >>]
<1>1. NULL = none("NULL") /\ Unset = none("unset")
  BY Zenon DEF NULL, Unset
<1>2. ASSUME NEW p \in {"NULL", "unset"}
      PROVE  WellFormed(none(p)) /\ none(p).ptr = p /\ ~ none(p).buf
  <2>1. << >> \in Seq(Byte)
    OBVIOUS
  <2>2. none(p) \in Pointer
    BY <2>1 DEF Pointer
  <2> QED
    BY <2>2 DEF WellFormed
<1> HIDE DEF none
<1> QED
  BY <1>1, <1>2

LEMMA TextType ==
  ASSUME AllWellFormed, NEW o \in Obj
  PROVE  fixed[o].text \in Seq(Byte) /\ WellFormed(fixed[o]) /\ fixed[o] \in Pointer
BY DEF AllWellFormed, WellFormed, Pointer

LEMMA PutWellFormed ==
  ASSUME AllWellFormed, NEW o \in Obj, NEW f, WellFormed(f), fixed' = [fixed EXCEPT ![o] = f]
  PROVE  AllWellFormed' /\ fixed'[o] = f /\ \A p \in Obj \ {o} : fixed'[p] = fixed[p]
<1>1. f \in Pointer
  BY DEF WellFormed
<1>2. fixed' \in [Obj -> Pointer]
  BY <1>1 DEF AllWellFormed
<1>3. fixed'[o] = f /\ \A p \in Obj : p # o => fixed'[p] = fixed[p]
  BY DEF AllWellFormed
<1>4. ASSUME NEW p \in Obj PROVE WellFormed(fixed'[p])
  BY <1>3 DEF AllWellFormed
<1>5. \A p \in Obj : WellFormed(fixed[p])'
  BY <1>4 DEF WellFormed
<1> QED
  BY <1>2, <1>3, <1>5 DEF AllWellFormed

(* NoCall, field by field. *)
LEMMA NoCallFields ==
  /\ NoCall \in Call
  /\ NoCall.at = "none" /\ NoCall.kind = "none"
  /\ NoCall.tmp = 0 /\ ~ NoCall.buf /\ ~ NoCall.obj
<1>1. << >> \in Seq(Byte)
  OBVIOUS
<1> QED
  BY <1>1 DEF NoCall, Call, Steps

LEMMA NoCallFits == GotByNow(NoCall) /\ LocalsOf(NoCall) = 0
BY NoCallFields DEF GotByNow, LocalsOf

-----------------------------------------------------------------------------
(* The count of blocks. *)

(* The blocks behind one pointer. *)
Count(f) == (IF f.ptr = "object" THEN 1 ELSE 0) + (IF f.buf THEN 1 ELSE 0)

Objects(F) == {o \in Obj : F[o].ptr = "object"}
Bufs(F) == {o \in Obj : F[o].buf}

Counted(F) == Cardinality(Objects(F)) + Cardinality(Bufs(F))

LEMMA Accounted ==
  /\ BlocksAccounted <=> blocks = Counted(fixed) + LocalsOf(call)
  /\ BlocksAccounted' <=> blocks' = Counted(fixed') + LocalsOf(call')
BY DEF BlocksAccounted, IsObject, Objects, Bufs, Counted, Locals, LocalsOf

LEMMA CountedType ==
  ASSUME NEW F
  PROVE  Counted(F) \in Nat
<1>1. Objects(F) \subseteq Obj /\ Bufs(F) \subseteq Obj
  BY DEF Objects, Bufs
<1>2. IsFiniteSet(Objects(F)) /\ IsFiniteSet(Bufs(F))
  BY <1>1, FS_Subset, FixedBufAssumption
<1>3. Cardinality(Objects(F)) \in Nat /\ Cardinality(Bufs(F)) \in Nat
  BY <1>2, FS_CardinalityType
<1> QED
  BY <1>3 DEF Counted

LEMMA LocalsType ==
  ASSUME NEW c \in Call
  PROVE  LocalsOf(c) \in Nat /\ c.tmp \in 0 .. 2
BY DEF LocalsOf, Call

LEMMA CountType ==
  ASSUME NEW f
  PROVE  Count(f) \in Nat
BY DEF Count

(* A set of variables that one variable joins or leaves. *)
LEMMA OneMember ==
  ASSUME NEW S \in SUBSET Obj, NEW T \in SUBSET Obj, NEW o \in Obj,
         \A p \in Obj \ {o} : p \in S <=> p \in T
  PROVE  /\ Cardinality(S) \in Int /\ Cardinality(T) \in Int
         /\ Cardinality(T) = Cardinality(S) - (IF o \in S THEN 1 ELSE 0)
                               + (IF o \in T THEN 1 ELSE 0)
<1> DEFINE R == S \ {o}
<1>1. IsFiniteSet(S) /\ IsFiniteSet(T)
  BY FS_Subset, FixedBufAssumption
<1>2. IsFiniteSet(R) /\ Cardinality(R) = IF o \in S THEN Cardinality(S) - 1 ELSE Cardinality(S)
  BY <1>1, FS_RemoveElement
<1>3. Cardinality(S) \in Nat /\ Cardinality(R) \in Nat
  BY <1>1, <1>2, FS_CardinalityType
<1>4. CASE o \in T
  <2>1. T = R \union {o}
    BY <1>4
  <2>2. Cardinality(T) = Cardinality(R) + 1
    BY <2>1, <1>2, FS_AddElement
  <2> QED
    BY <2>2, <1>2, <1>3, <1>4
<1>5. CASE o \notin T
  <2>1. T = R
    BY <1>5
  <2> QED
    BY <2>1, <1>2, <1>3, <1>5
<1> QED
  BY <1>4, <1>5

(* One variable gets another pointer, and the count changes by what that   *)
(* makes.                                                                  *)
LEMMA OneCounted ==
  ASSUME NEW F, NEW G, NEW o \in Obj, \A p \in Obj \ {o} : G[p] = F[p]
  PROVE  Counted(G) = Counted(F) - Count(F[o]) + Count(G[o])
<1>1. \A p \in Obj \ {o} : p \in Objects(F) <=> p \in Objects(G)
  BY DEF Objects
<1>2. \A p \in Obj \ {o} : p \in Bufs(F) <=> p \in Bufs(G)
  BY DEF Bufs
<1>3. /\ Objects(F) \in SUBSET Obj /\ Objects(G) \in SUBSET Obj
      /\ Bufs(F) \in SUBSET Obj /\ Bufs(G) \in SUBSET Obj
  BY DEF Objects, Bufs
<1>4. /\ o \in Objects(F) <=> F[o].ptr = "object"
      /\ o \in Objects(G) <=> G[o].ptr = "object"
      /\ o \in Bufs(F) <=> F[o].buf
      /\ o \in Bufs(G) <=> G[o].buf
  BY DEF Objects, Bufs
<1>5. /\ Cardinality(Objects(F)) \in Int /\ Cardinality(Objects(G)) \in Int
      /\ Cardinality(Objects(G)) = Cardinality(Objects(F))
           - (IF o \in Objects(F) THEN 1 ELSE 0) + (IF o \in Objects(G) THEN 1 ELSE 0)
  BY <1>1, <1>3, OneMember
<1>6. /\ Cardinality(Bufs(F)) \in Int /\ Cardinality(Bufs(G)) \in Int
      /\ Cardinality(Bufs(G)) = Cardinality(Bufs(F))
           - (IF o \in Bufs(F) THEN 1 ELSE 0) + (IF o \in Bufs(G) THEN 1 ELSE 0)
  BY <1>2, <1>3, OneMember
<1> QED
  BY <1>4, <1>5, <1>6 DEF Count, Counted

(* A variable that holds no object counts nothing. *)
LEMMA NothingCounted ==
  ASSUME NEW f, WellFormed(f), f.ptr # "object"
  PROVE  Count(f) = 0 /\ ~ f.buf
BY DEF WellFormed, Count

-----------------------------------------------------------------------------
(* The kinds of steps. *)

LEMMA BlocksType ==
  ASSUME Sound
  PROVE  blocks \in Nat
<1>1. LocalsOf(call) \in Nat /\ Counted(fixed) \in Nat
  BY LocalsType, CountedType DEF Sound, CallSound
<1> QED
  BY <1>1, Accounted DEF Sound

(* A call goes on, with what it has got by now. *)
LEMMA GoesOn ==
  ASSUME Sound, call.at # "none", NEW c \in Call, call' = c, UNCHANGED fixed,
         c.o = call.o, c.kind = call.kind, c.from = call.from, c.text = call.text,
         c.at # "none", GotByNow(c), blocks' = blocks - LocalsOf(call) + LocalsOf(c)
  PROVE  Sound'
<1>1. AllWellFormed'
  BY DEF Sound, AllWellFormed, WellFormed
<1>2. CallSound'
  <2>1. call' \in Call /\ GotByNow(call)'
    BY DEF GotByNow
  <2>2. Targets(call)
    BY DEF Sound, CallSound
  <2>3. Targets(call)'
    BY <2>2 DEF Targets, IsObject
  <2> QED
    BY <2>1, <2>3 DEF CallSound
<1>3. BlocksAccounted'
  <2>1. blocks = Counted(fixed) + LocalsOf(call)
    BY Accounted DEF Sound
  <2>2. LocalsOf(call) \in Nat /\ LocalsOf(c) \in Nat /\ Counted(fixed) \in Nat
    BY LocalsType, CountedType DEF Sound, CallSound
  <2>3. blocks' = Counted(fixed) + LocalsOf(c)
    BY <2>1, <2>2
  <2> QED
    BY <2>3, Accounted
<1> QED
  BY <1>1, <1>2, <1>3 DEF Sound

(* One variable gets another pointer, and no call is in progress then. *)
LEMMA VariablePut ==
  ASSUME Sound, NEW o \in Obj, NEW f, WellFormed(f), fixed' = [fixed EXCEPT ![o] = f],
         call' = NoCall, blocks' = blocks - LocalsOf(call) - Count(fixed[o]) + Count(f)
  PROVE  Sound'
<1>1. AllWellFormed' /\ fixed'[o] = f /\ \A p \in Obj \ {o} : fixed'[p] = fixed[p]
  BY PutWellFormed DEF Sound
<1>2. CallSound'
  <2>1. GotByNow(call)' /\ Targets(call)'
    BY NoCallFits, NoCallFields DEF GotByNow, Targets
  <2> QED
    BY <2>1, NoCallFields DEF CallSound
<1>3. BlocksAccounted'
  <2>1. blocks = Counted(fixed) + LocalsOf(call)
    BY Accounted DEF Sound
  <2>2. LocalsOf(call) \in Nat /\ Counted(fixed) \in Nat /\ Count(f) \in Nat
        /\ Count(fixed[o]) \in Nat
    BY LocalsType, CountedType, CountType DEF Sound, CallSound
  <2>3. Counted(fixed') = Counted(fixed) - Count(fixed[o]) + Count(f)
    <3>1. PICK G : G = fixed'
      OBVIOUS
    <3>2. G[o] = f /\ \A p \in Obj \ {o} : G[p] = fixed[p]
      BY <1>1, <3>1
    <3>3. Counted(G) = Counted(fixed) - Count(fixed[o]) + Count(G[o])
      BY <3>2, OneCounted
    <3> QED
      BY <3>1, <3>2, <3>3
  <2>4. blocks' = Counted(fixed') + 0
    BY <2>1, <2>2, <2>3
  <2> QED
    BY <2>4, Accounted, NoCallFits
<1> QED
  BY <1>1, <1>2, <1>3 DEF Sound

(* A call ends with a pointer in its variable. *)
LEMMA CallEnds ==
  ASSUME Sound, call.at # "none", NEW f, WellFormed(f), Assigns(f),
         blocks' = blocks - LocalsOf(call) + Count(f)
  PROVE  Sound' /\ fixed'[call.o] = f
<1>1. call.o \in Obj /\ ~ IsObject(call.o)
  BY DEF Sound, CallSound, Targets
<1>2. Count(fixed[call.o]) = 0
  BY <1>1, TextType, NothingCounted DEF Sound, IsObject
<1>3. blocks \in Int /\ LocalsOf(call) \in Nat
  <2>1. LocalsOf(call) \in Nat /\ Counted(fixed) \in Nat
    BY LocalsType, CountedType DEF Sound, CallSound
  <2> QED
    BY <2>1, Accounted DEF Sound
<1>4. blocks' = blocks - LocalsOf(call) - Count(fixed[call.o]) + Count(f)
  BY <1>2, <1>3, CountType
<1>5. fixed' = [fixed EXCEPT ![call.o] = f] /\ call' = NoCall
  BY DEF Assigns
<1>6. Sound'
  BY <1>1, <1>4, <1>5, VariablePut
<1> QED
  BY <1>1, <1>5, <1>6, PutWellFormed DEF Sound

(* A call begins. *)
LEMMA BeginsSound ==
  ASSUME Sound, NEW kind \in {"new", "file", "escape"},
         NEW at \in {"fmt", "buf", "obj", "escape"}, NEW o \in Obj, NEW p \in Obj \union {NoObj},
         NEW s \in Seq(Byte), Begins(kind, at, o, p, s),
         at \in {"fmt", "buf"} => s # << >>,
         at = "obj" => s = << >>,
         kind = "escape" => p \in Obj /\ IsObject(p) /\ s = Escaped(fixed[p].text)
  PROVE  Sound'
<1> DEFINE c == [at |-> at, kind |-> kind, o |-> o, from |-> p, text |-> s,
                 tmp |-> 0, buf |-> FALSE, obj |-> FALSE]
<1>1. call' = c /\ call = NoCall /\ UNCHANGED <<fixed, blocks>> /\ ~ IsObject(o)
  BY DEF Begins, NoCall
<1>2. c \in Call
  BY DEF Call, Steps
<1>3. /\ c.at = at /\ c.kind = kind /\ c.o = o /\ c.from = p /\ c.text = s
      /\ c.tmp = 0 /\ ~ c.buf /\ ~ c.obj
  OBVIOUS
<1> HIDE DEF c
<1>4. AllWellFormed'
  BY <1>1 DEF Sound, AllWellFormed, WellFormed
<1>5. GotByNow(c)
  BY <1>3 DEF GotByNow
<1>6. Targets(call)'
  BY <1>1, <1>3 DEF Targets, IsObject
<1>7. CallSound'
  BY <1>1, <1>2, <1>5, <1>6 DEF CallSound, GotByNow
<1>8. BlocksAccounted'
  <2>1. LocalsOf(c) = 0 /\ LocalsOf(call) = 0
    BY <1>1, <1>3, NoCallFits DEF LocalsOf
  <2> QED
    BY <1>1, <2>1, Accounted DEF Sound
<1> QED
  BY <1>4, <1>7, <1>8 DEF Sound

(* A call that asks for no memory gives a variable another pointer. *)
LEMMA Assigned ==
  ASSUME Sound, call = NoCall, UNCHANGED call, NEW o \in Obj, NEW f, WellFormed(f),
         fixed' = [fixed EXCEPT ![o] = f], blocks' = blocks - Count(fixed[o]) + Count(f)
  PROVE  Sound'
<1>1. blocks \in Int /\ LocalsOf(call) = 0
  <2>1. Counted(fixed) \in Nat /\ LocalsOf(call) = 0
    BY CountedType, NoCallFits
  <2> QED
    BY <2>1, Accounted DEF Sound
<1>2. blocks' = blocks - LocalsOf(call) - Count(fixed[o]) + Count(f)
  BY <1>1, CountType
<1> QED
  BY <1>2, VariablePut

LEMMA NothingHappens ==
  ASSUME Sound, UNCHANGED bufVars
  PROVE  Sound'
<1>1. AllWellFormed'
  BY DEF Sound, AllWellFormed, WellFormed, bufVars
<1>2. CallSound'
  BY DEF Sound, CallSound, GotByNow, Targets, IsObject, bufVars
<1>3. BlocksAccounted'
  BY Accounted DEF Sound, bufVars
<1> QED
  BY <1>1, <1>2, <1>3 DEF Sound

-----------------------------------------------------------------------------
(* The steps of a call. *)

(* The call at a step, with the locals it has there. *)
With(c, at, tmp, buf, obj) ==
  [at |-> at, kind |-> c.kind, o |-> c.o, from |-> c.from, text |-> c.text,
   tmp |-> tmp, buf |-> buf, obj |-> obj]

LEMMA WithFields ==
  ASSUME NEW c \in Call,
         NEW at \in Steps,
         NEW tmp \in 0 .. 2, NEW buf \in BOOLEAN, NEW obj \in BOOLEAN
  PROVE  LET d == With(c, at, tmp, buf, obj)
         IN  /\ d \in Call
             /\ d.at = at /\ d.tmp = tmp /\ d.buf = buf /\ d.obj = obj
             /\ d.o = c.o /\ d.kind = c.kind /\ d.from = c.from /\ d.text = c.text
BY DEF Call, With, Steps

LEMMA Change ==
  ASSUME NEW c \in Call, NEW at, NEW tmp, NEW buf, NEW obj
  PROVE  /\ [c EXCEPT !.at = at] = With(c, at, c.tmp, c.buf, c.obj)
         /\ [c EXCEPT !.tmp = tmp] = With(c, c.at, tmp, c.buf, c.obj)
         /\ [c EXCEPT !.buf = buf] = With(c, c.at, c.tmp, buf, c.obj)
         /\ [c EXCEPT !.obj = obj] = With(c, c.at, c.tmp, c.buf, obj)
<1>1. c = [at |-> c.at, kind |-> c.kind, o |-> c.o, from |-> c.from, text |-> c.text,
           tmp |-> c.tmp, buf |-> c.buf, obj |-> c.obj]
  BY DEF Call
<1>2. [c EXCEPT !.at = at] = With(c, at, c.tmp, c.buf, c.obj)
  BY <1>1 DEF With
<1>3. [c EXCEPT !.tmp = tmp] = With(c, c.at, tmp, c.buf, c.obj)
  BY <1>1 DEF With
<1>4. [c EXCEPT !.buf = buf] = With(c, c.at, c.tmp, buf, c.obj)
  BY <1>1 DEF With
<1>5. [c EXCEPT !.obj = obj] = With(c, c.at, c.tmp, c.buf, obj)
  BY <1>1 DEF With
<1> QED
  BY <1>2, <1>3, <1>4, <1>5

LEMMA ChangesAt ==
  ASSUME NEW c \in Call, NEW at \in Steps
  PROVE  LET d == [c EXCEPT !.at = at]
         IN  /\ d = With(c, at, c.tmp, c.buf, c.obj) /\ d \in Call
             /\ d.at = at /\ d.kind = c.kind /\ d.o = c.o /\ d.from = c.from
             /\ d.text = c.text /\ d.tmp = c.tmp /\ d.buf = c.buf /\ d.obj = c.obj
<1> DEFINE d == [c EXCEPT !.at = at]
<1>1. d = With(c, at, c.tmp, c.buf, c.obj) /\ d \in Call
  BY Change DEF Call
<1>2. /\ d.at = at /\ d.kind = c.kind /\ d.o = c.o /\ d.from = c.from /\ d.text = c.text
      /\ d.tmp = c.tmp /\ d.buf = c.buf /\ d.obj = c.obj
  BY <1>1 DEF With
<1> QED
  BY <1>1, <1>2

LEMMA ChangesTmp ==
  ASSUME NEW c \in Call, NEW at \in Steps, NEW tmp
  PROVE  [c EXCEPT !.at = at, !.tmp = tmp] = With(c, at, tmp, c.buf, c.obj)
<1> DEFINE d == [c EXCEPT !.at = at]
<1>1. /\ d \in Call
      /\ d.at = at /\ d.kind = c.kind /\ d.o = c.o /\ d.from = c.from /\ d.text = c.text
      /\ d.tmp = c.tmp /\ d.buf = c.buf /\ d.obj = c.obj
  BY ChangesAt
<1>2. ASSUME NEW x \in Call PROVE [x EXCEPT !.tmp = tmp] = With(x, x.at, tmp, x.buf, x.obj)
  BY Change
<1> HIDE DEF d
<1>3. [d EXCEPT !.tmp = tmp] = With(c, at, tmp, c.buf, c.obj)
  BY <1>1, <1>2 DEF With
<1> QED
  BY <1>3 DEF d

LEMMA ChangesBuf ==
  ASSUME NEW c \in Call, NEW at \in Steps, NEW buf \in BOOLEAN
  PROVE  LET d == [c EXCEPT !.at = at, !.buf = buf]
         IN  d = With(c, at, c.tmp, buf, c.obj) /\ d \in Call
<1> DEFINE d == [c EXCEPT !.at = at]
           e == [d EXCEPT !.buf = buf]
<1>1. /\ d \in Call
      /\ d.at = at /\ d.kind = c.kind /\ d.o = c.o /\ d.from = c.from /\ d.text = c.text
      /\ d.tmp = c.tmp /\ d.buf = c.buf /\ d.obj = c.obj
  BY ChangesAt
<1>2. ASSUME NEW x \in Call PROVE [x EXCEPT !.buf = buf] = With(x, x.at, x.tmp, buf, x.obj)
  BY Change
<1> HIDE DEF d
<1>3. e = With(c, at, c.tmp, buf, c.obj) /\ e \in Call
  BY <1>1, <1>2 DEF With, Call
<1> QED
  BY <1>3 DEF d

LEMMA ChangesObj ==
  ASSUME NEW c \in Call, NEW at \in Steps, NEW obj \in BOOLEAN
  PROVE  [c EXCEPT !.at = at, !.obj = obj] = With(c, at, c.tmp, c.buf, obj)
<1> DEFINE d == [c EXCEPT !.at = at]
<1>1. /\ d \in Call
      /\ d.at = at /\ d.kind = c.kind /\ d.o = c.o /\ d.from = c.from /\ d.text = c.text
      /\ d.tmp = c.tmp /\ d.buf = c.buf /\ d.obj = c.obj
  BY ChangesAt
<1>2. ASSUME NEW x \in Call PROVE [x EXCEPT !.obj = obj] = With(x, x.at, x.tmp, x.buf, obj)
  BY Change
<1> HIDE DEF d
<1>3. [d EXCEPT !.obj = obj] = With(c, at, c.tmp, c.buf, obj)
  BY <1>1, <1>2 DEF With
<1> QED
  BY <1>3 DEF d

LEMMA ChangesBoth ==
  ASSUME NEW c \in Call, NEW at \in Steps, NEW buf \in BOOLEAN, NEW obj \in BOOLEAN
  PROVE  [c EXCEPT !.at = at, !.buf = buf, !.obj = obj] = With(c, at, c.tmp, buf, obj)
<1> DEFINE d == [c EXCEPT !.at = at, !.buf = buf]
<1>1. d = With(c, at, c.tmp, buf, c.obj) /\ d \in Call
  BY ChangesBuf
<1>2. ASSUME NEW x \in Call PROVE [x EXCEPT !.obj = obj] = With(x, x.at, x.tmp, x.buf, obj)
  BY Change
<1> HIDE DEF d
<1>3. [d EXCEPT !.obj = obj] = With(c, at, c.tmp, buf, obj)
  BY <1>1, <1>2 DEF With
<1> QED
  BY <1>3 DEF d

(* A call goes on to another step. *)
LEMMA GoesTo ==
  ASSUME Sound, call.at # "none",
         NEW at \in Steps, NEW tmp \in 0 .. 2, NEW buf \in BOOLEAN, NEW obj \in BOOLEAN,
         call' = With(call, at, tmp, buf, obj), UNCHANGED fixed,
         at = "push" => tmp = 1,
         at = "buf" => ~ buf /\ ~ obj /\ call.text # << >>,
         at = "push" => ~ buf /\ ~ obj /\ call.text # << >>,
         at = "FreeDst" => ~ buf /\ ~ obj,
         at \in {"obj", "FreeBuf"} => ~ obj,
         at = "read" => obj,
         at \in {"obj", "read"} => (buf <=> call.text # << >>),
         at = "return" /\ obj => (buf <=> call.text # << >>),
         at = "return" /\ ~ obj => ~ buf,
         at \notin {"none", "fmt", "escape"},
         blocks' = blocks - LocalsOf(call)
                     + (tmp + (IF buf THEN 1 ELSE 0) + (IF obj THEN 1 ELSE 0))
  PROVE  Sound'
<1> DEFINE c == With(call, at, tmp, buf, obj)
<1>1. call \in Call
  BY DEF Sound, CallSound
<1>2. /\ c \in Call
      /\ c.at = at /\ c.tmp = tmp /\ c.buf = buf /\ c.obj = obj
      /\ c.o = call.o /\ c.kind = call.kind /\ c.from = call.from /\ c.text = call.text
  BY <1>1, WithFields
<1> HIDE DEF c
<1>3. GotByNow(c)
  BY <1>2 DEF GotByNow
<1>4. LocalsOf(c) = tmp + (IF buf THEN 1 ELSE 0) + (IF obj THEN 1 ELSE 0)
  BY <1>2 DEF LocalsOf
<1>5. call' = c
  BY DEF c
<1> QED
  BY <1>2, <1>3, <1>4, <1>5, GoesOn

(* What a call has got at the step it is at. *)
LEMMA Has ==
  ASSUME Sound
  PROVE  /\ call \in Call /\ GotByNow(call) /\ blocks \in Nat
         /\ call.tmp \in 0 .. 2 /\ call.buf \in BOOLEAN /\ call.obj \in BOOLEAN
         /\ call.text \in Seq(Byte)
BY BlocksType DEF Sound, CallSound, Call

LEMMA FmtStep ==
  ASSUME Sound, FmtAllocates
  PROVE  Sound'
<1>1. /\ call \in Call /\ blocks \in Nat /\ call.at = "fmt"
      /\ call.tmp = 0 /\ call.buf = FALSE /\ call.obj = FALSE /\ call.text # << >>
  BY Has DEF FmtAllocates, GotByNow
<1>2. LocalsOf(call) = 0
  BY <1>1 DEF LocalsOf
<1>3. CASE Grants([call EXCEPT !.at = "buf", !.tmp = 1])
  <2>1. call' = With(call, "buf", 1, FALSE, FALSE)
    <3>1. "buf" \in Steps
      BY DEF Steps
    <3>2. [call EXCEPT !.at = "buf", !.tmp = 1]
            = With(call, "buf", 1, call.buf, call.obj)
      BY <1>1, <3>1, ChangesTmp
    <3> QED
      BY <1>1, <1>3, <3>2 DEF Grants
  <2>2. blocks' = blocks - LocalsOf(call) + (1 + 0 + 0) /\ UNCHANGED fixed /\ 1 \in 0 .. 2
    BY <1>1, <1>2, <1>3 DEF Grants
  <2> QED
    BY <1>1, <2>1, <2>2, GoesTo DEF Steps
<1>4. CASE Assigns(NULL) /\ UNCHANGED blocks
  <2>1. blocks' = blocks - LocalsOf(call) + Count(NULL)
    BY <1>1, <1>2, <1>4, NoneWellFormed, NothingCounted
  <2> QED
    BY <1>1, <1>4, <2>1, NoneWellFormed, CallEnds
<1> QED
  BY <1>3, <1>4 DEF FmtAllocates

LEMMA BufStep ==
  ASSUME Sound, BufAllocates
  PROVE  Sound'
<1>1. /\ call \in Call /\ blocks \in Nat /\ call.at = "buf" /\ call.tmp \in 0 .. 2
      /\ call.buf = FALSE /\ call.obj = FALSE /\ call.text # << >>
  BY Has DEF BufAllocates, GotByNow
<1>2. LocalsOf(call) = call.tmp
  BY <1>1 DEF LocalsOf
<1>3. CASE Grants([call EXCEPT !.at = "obj", !.buf = TRUE])
  <2>1. call' = With(call, "obj", call.tmp, TRUE, FALSE)
    <3>1. "obj" \in Steps
      BY DEF Steps
    <3>2. [call EXCEPT !.at = "obj", !.buf = TRUE]
            = With(call, "obj", call.tmp, TRUE, call.obj)
      BY <1>1, <3>1, ChangesBuf
    <3> QED
      BY <1>1, <1>3, <3>2 DEF Grants
  <2>2. blocks' = blocks - LocalsOf(call) + (call.tmp + 1 + 0) /\ UNCHANGED fixed
    BY <1>1, <1>2, <1>3 DEF Grants
  <2> QED
    BY <1>1, <2>1, <2>2, GoesTo DEF Steps
<1>4. CASE Goes("return")
  <2>1. call' = With(call, "return", call.tmp, FALSE, FALSE)
    <3>1. "return" \in Steps
      BY DEF Steps
    <3>2. [call EXCEPT !.at = "return"]
            = With(call, "return", call.tmp, call.buf, call.obj)
      BY <1>1, <3>1, ChangesAt
    <3> QED
      BY <1>1, <1>4, <3>2 DEF Goes
  <2>2. blocks' = blocks - LocalsOf(call) + (call.tmp + 0 + 0) /\ UNCHANGED fixed
    BY <1>1, <1>2, <1>4 DEF Goes
  <2> QED
    BY <1>1, <2>1, <2>2, GoesTo DEF Steps
<1> QED
  BY <1>3, <1>4 DEF BufAllocates

LEMMA ObjStep ==
  ASSUME Sound, ObjAllocates
  PROVE  Sound'
<1>1. /\ call \in Call /\ blocks \in Nat /\ call.at = "obj" /\ call.tmp \in 0 .. 2
      /\ call.buf \in BOOLEAN /\ call.obj = FALSE /\ (call.buf <=> call.text # << >>)
  <2>1. GotByNow(call) /\ call \in Call /\ blocks \in Nat /\ call.tmp \in 0 .. 2
        /\ call.buf \in BOOLEAN /\ call.obj \in BOOLEAN
        /\ call.at = "obj"
    BY Has DEF ObjAllocates
  <2>2. ~ call.obj /\ (call.buf <=> call.text # << >>)
    BY <2>1 DEF GotByNow
  <2> QED
    BY <2>1, <2>2
<1>2. LocalsOf(call) = call.tmp + (IF call.buf THEN 1 ELSE 0) + 0
  BY <1>1 DEF LocalsOf
<1>3. ASSUME NEW at \in {"read", "return"}, Grants([call EXCEPT !.at = at, !.obj = TRUE])
      PROVE  Sound'
  <2>1. call' = With(call, at, call.tmp, call.buf, TRUE)
    <3>1. at \in Steps
      BY DEF Steps
    <3>2. [call EXCEPT !.at = at, !.obj = TRUE]
            = With(call, at, call.tmp, call.buf, TRUE)
      BY <1>1, <3>1, ChangesObj
    <3> QED
      BY <1>1, <1>3, <3>2 DEF Grants
  <2>2. blocks' = blocks - LocalsOf(call) + (call.tmp + (IF call.buf THEN 1 ELSE 0) + 1)
        /\ UNCHANGED fixed
    BY <1>1, <1>2, <1>3 DEF Grants
  <2> QED
    BY <1>1, <2>1, <2>2, GoesTo DEF Steps
<1>4. CASE Goes("FreeBuf")
  <2>1. call' = With(call, "FreeBuf", call.tmp, call.buf, FALSE)
    <3>1. "FreeBuf" \in Steps
      BY DEF Steps
    <3>2. [call EXCEPT !.at = "FreeBuf"]
            = With(call, "FreeBuf", call.tmp, call.buf, call.obj)
      BY <1>1, <3>1, ChangesAt
    <3> QED
      BY <1>1, <1>4, <3>2 DEF Goes
  <2>2. blocks' = blocks - LocalsOf(call) + (call.tmp + (IF call.buf THEN 1 ELSE 0) + 0)
        /\ UNCHANGED fixed
    BY <1>1, <1>2, <1>4 DEF Goes
  <2> QED
    BY <1>1, <2>1, <2>2, GoesTo DEF Steps
<1> QED
  BY <1>3, <1>4 DEF ObjAllocates

LEMMA FreeBufStep ==
  ASSUME Sound, FreeBuf
  PROVE  Sound'
<1>1. /\ call \in Call /\ blocks \in Nat /\ call.at = "FreeBuf" /\ call.tmp \in 0 .. 2
      /\ call.buf \in BOOLEAN /\ call.obj = FALSE
  BY Has DEF FreeBuf, GotByNow
<1>2. LocalsOf(call) = call.tmp + (IF call.buf THEN 1 ELSE 0) + 0
  BY <1>1 DEF LocalsOf
<1>3. call' = With(call, "return", call.tmp, FALSE, FALSE)
  <2>1. "return" \in Steps
    BY DEF Steps
  <2>2. [call EXCEPT !.at = "return", !.buf = FALSE]
          = With(call, "return", call.tmp, FALSE, call.obj)
    BY <1>1, <2>1, ChangesBuf
  <2> QED
    BY <1>1, <2>2 DEF FreeBuf
<1>4. blocks' = blocks - LocalsOf(call) + (call.tmp + 0 + 0) /\ UNCHANGED fixed
  BY <1>1, <1>2 DEF FreeBuf
<1> QED
  BY <1>1, <1>3, <1>4, GoesTo DEF Steps

LEMMA ReadStep ==
  ASSUME Sound, ReadFile
  PROVE  Sound'
<1>1. /\ call \in Call /\ blocks \in Nat /\ call.at = "read" /\ call.tmp \in 0 .. 2
      /\ call.buf \in BOOLEAN /\ call.obj = TRUE /\ (call.buf <=> call.text # << >>)
  BY Has DEF ReadFile, GotByNow
<1>2. LocalsOf(call) = call.tmp + (IF call.buf THEN 1 ELSE 0) + 1
  BY <1>1 DEF LocalsOf
<1>3. CASE Goes("return")
  <2>1. call' = With(call, "return", call.tmp, call.buf, TRUE)
    <3>1. "return" \in Steps
      BY DEF Steps
    <3>2. [call EXCEPT !.at = "return"]
            = With(call, "return", call.tmp, call.buf, call.obj)
      BY <1>1, <3>1, ChangesAt
    <3> QED
      BY <1>1, <1>3, <3>2 DEF Goes
  <2>2. blocks' = blocks - LocalsOf(call) + (call.tmp + (IF call.buf THEN 1 ELSE 0) + 1)
        /\ UNCHANGED fixed
    BY <1>1, <1>2, <1>3 DEF Goes
  <2> QED
    BY <1>1, <2>1, <2>2, GoesTo DEF Steps
<1>4. CASE /\ blocks' = blocks - BlocksOf(call)
           /\ call' = [call EXCEPT !.at = "return", !.buf = FALSE, !.obj = FALSE]
           /\ UNCHANGED fixed
  <2>1. call' = With(call, "return", call.tmp, FALSE, FALSE)
    <3>1. "return" \in Steps
      BY DEF Steps
    <3>2. [call EXCEPT !.at = "return", !.buf = FALSE, !.obj = FALSE]
            = With(call, "return", call.tmp, FALSE, FALSE)
      BY <1>1, <3>1, ChangesBoth
    <3> QED
      BY <1>1, <1>4, <3>2
  <2>2. blocks' = blocks - LocalsOf(call) + (call.tmp + 0 + 0)
    BY <1>1, <1>2, <1>4 DEF BlocksOf
  <2> QED
    BY <1>1, <1>4, <2>1, <2>2, GoesTo DEF Steps
<1> QED
  BY <1>3, <1>4 DEF ReadFile

LEMMA ReturnsStep ==
  ASSUME Sound, Returns
  PROVE  /\ Sound'
         /\ fixed'[call.o].ptr = "object" => fixed'[call.o].text = call.text
<1>1. /\ call \in Call /\ blocks \in Nat /\ call.at = "return" /\ call.tmp \in 0 .. 2
      /\ call.buf \in BOOLEAN /\ call.obj \in BOOLEAN /\ call.text \in Seq(Byte)
      /\ call.obj => (call.buf <=> call.text # << >>)
      /\ ~ call.obj => ~ call.buf
      /\ blocks' = blocks - call.tmp
  BY Has DEF Returns, GotByNow
<1>2. CASE call.obj
  <2> DEFINE f == [ptr |-> "object", buf |-> call.buf, text |-> call.text]
  <2>1. WellFormed(f) /\ Count(f) = (IF call.buf THEN 1 ELSE 0) + 1 /\ f.text = call.text
    BY <1>1, <1>2 DEF WellFormed, Pointer, Count
  <2>2. Assigns(f)
    BY <1>2 DEF Returns
  <2> HIDE DEF f
  <2>3. LocalsOf(call) = call.tmp + Count(f)
    BY <1>1, <1>2, <2>1 DEF LocalsOf
  <2>4. blocks' = blocks - LocalsOf(call) + Count(f)
    BY <1>1, <2>3, CountType
  <2> QED
    BY <1>1, <2>1, <2>2, <2>4, CallEnds
<1>3. CASE ~ call.obj
  <2>1. Assigns(NULL)
    BY <1>3 DEF Returns
  <2>2. LocalsOf(call) = call.tmp /\ Count(NULL) = 0
    BY <1>1, <1>3, NoneWellFormed, NothingCounted DEF LocalsOf
  <2>3. blocks' = blocks - LocalsOf(call) + Count(NULL)
    BY <1>1, <2>2
  <2> QED
    BY <1>1, <2>1, <2>3, NoneWellFormed, CallEnds
<1> QED
  BY <1>2, <1>3

LEMMA EscapeStep ==
  ASSUME Sound, EscapeAllocates
  PROVE  Sound' /\ (Assigns(Unset) => fixed'[call.o].ptr # "object")
<1>1. /\ call \in Call /\ blocks \in Nat /\ call.at = "escape"
      /\ call.tmp = 0 /\ call.buf = FALSE /\ call.obj = FALSE
  BY Has DEF EscapeAllocates, GotByNow
<1>2. LocalsOf(call) = 0
  BY <1>1 DEF LocalsOf
<1>3. ASSUME NEW at \in {"obj", "push"}, at = "obj" <=> call.text = << >>,
             Grants([call EXCEPT !.at = at, !.tmp = 1])
      PROVE  Sound'
  <2>1. call' = With(call, at, 1, FALSE, FALSE)
    <3>1. at \in Steps
      BY DEF Steps
    <3>2. [call EXCEPT !.at = at, !.tmp = 1]
            = With(call, at, 1, call.buf, call.obj)
      BY <1>1, <3>1, ChangesTmp
    <3> QED
      BY <1>1, <1>3, <3>2 DEF Grants
  <2>2. blocks' = blocks - LocalsOf(call) + (1 + 0 + 0) /\ UNCHANGED fixed /\ 1 \in 0 .. 2
    BY <1>1, <1>2, <1>3 DEF Grants
  <2> QED
    BY <1>1, <1>3, <2>1, <2>2, GoesTo DEF Steps
<1>4. ASSUME Assigns(Unset), UNCHANGED blocks
      PROVE  Sound'
  <2>1. blocks' = blocks - LocalsOf(call) + Count(Unset)
    BY <1>1, <1>2, <1>4, NoneWellFormed, NothingCounted
  <2> QED
    BY <1>1, <1>4, <2>1, NoneWellFormed, CallEnds
<1>5. ASSUME Assigns(Unset) PROVE fixed'[call.o].ptr # "object"
  <2>1. fixed' = [fixed EXCEPT ![call.o] = Unset] /\ call.o \in Obj
    BY <1>1, <1>5 DEF Assigns, Sound, CallSound, Targets
  <2> QED
    BY <2>1, NoneWellFormed, PutWellFormed DEF Sound
<1>6. Sound'
  BY <1>3, <1>4 DEF EscapeAllocates
<1> QED
  BY <1>5, <1>6

LEMMA PushStep ==
  ASSUME Sound, EscapePushes
  PROVE  Sound'
<1>1. /\ call \in Call /\ blocks \in Nat /\ call.at = "push"
      /\ call.tmp = 1 /\ call.buf = FALSE /\ call.obj = FALSE /\ call.text # << >>
  BY Has DEF EscapePushes, GotByNow
<1>2. LocalsOf(call) = 1
  BY <1>1 DEF LocalsOf
<1>3. ASSUME NEW at \in {"buf", "FreeDst"}, Grants([call EXCEPT !.at = at, !.tmp = 2])
      PROVE  Sound'
  <2>1. call' = With(call, at, 2, FALSE, FALSE)
    <3>1. at \in Steps
      BY DEF Steps
    <3>2. [call EXCEPT !.at = at, !.tmp = 2]
            = With(call, at, 2, call.buf, call.obj)
      BY <1>1, <3>1, ChangesTmp
    <3> QED
      BY <1>1, <1>3, <3>2 DEF Grants
  <2>2. blocks' = blocks - LocalsOf(call) + (2 + 0 + 0) /\ UNCHANGED fixed /\ 2 \in 0 .. 2
    BY <1>1, <1>2, <1>3 DEF Grants
  <2> QED
    BY <1>1, <2>1, <2>2, GoesTo DEF Steps
<1>4. CASE Goes("FreeDst")
  <2>1. call' = With(call, "FreeDst", 1, FALSE, FALSE)
    <3>1. "FreeDst" \in Steps
      BY DEF Steps
    <3>2. [call EXCEPT !.at = "FreeDst"]
            = With(call, "FreeDst", call.tmp, call.buf, call.obj)
      BY <1>1, <3>1, ChangesAt
    <3> QED
      BY <1>1, <1>4, <3>2 DEF Goes
  <2>2. blocks' = blocks - LocalsOf(call) + (1 + 0 + 0) /\ UNCHANGED fixed /\ 1 \in 0 .. 2
    BY <1>1, <1>2, <1>4 DEF Goes
  <2> QED
    BY <1>1, <2>1, <2>2, GoesTo DEF Steps
<1> QED
  BY <1>3, <1>4 DEF EscapePushes

LEMMA FreeDstStep ==
  ASSUME Sound, FreeDst
  PROVE  Sound' /\ fixed'[call.o].ptr # "object"
<1>1. /\ call \in Call /\ blocks \in Nat /\ call.at = "FreeDst" /\ call.tmp \in 0 .. 2
      /\ call.buf = FALSE /\ call.obj = FALSE
  BY Has DEF FreeDst, GotByNow
<1>2. LocalsOf(call) = call.tmp /\ Count(Unset) = 0
  BY <1>1, NoneWellFormed, NothingCounted DEF LocalsOf
<1>3. blocks' = blocks - LocalsOf(call) + Count(Unset) /\ Assigns(Unset)
  BY <1>1, <1>2 DEF FreeDst
<1>4. Sound' /\ fixed'[call.o] = Unset
  BY <1>1, <1>3, NoneWellFormed, CallEnds
<1> QED
  BY <1>4, NoneWellFormed

-----------------------------------------------------------------------------
(* The beginnings of calls. *)

LEMMA NewBegins ==
  ASSUME Sound, NEW kind \in {"new", "file"}, NEW o \in Obj, NEW s \in Seq(Byte),
         Begins(kind, NewWithLen(s), o, NoObj, s)
  PROVE  Sound'
<1>1. CASE s = << >>
  BY <1>1, BeginsSound DEF NewWithLen
<1>2. CASE s # << >>
  BY <1>2, BeginsSound DEF NewWithLen
<1> QED
  BY <1>1, <1>2

LEMMA FmtBegins ==
  ASSUME Sound, NEW o \in Obj, NEW s \in Seq(Byte), NewFromFmt(o, s)
  PROVE  Sound'
<1>1. CASE Len(s) > MiniBuf
  <2>1. s # << >>
    BY <1>1, FixedBufAssumption
  <2>2. Begins("new", "fmt", o, NoObj, s)
    BY <1>1 DEF NewFromFmt
  <2> QED
    BY <2>1, <2>2, BeginsSound
<1>2. CASE ~ (Len(s) > MiniBuf)
  <2>1. Begins("new", NewWithLen(s), o, NoObj, s)
    BY <1>2 DEF NewFromFmt
  <2> QED
    BY <2>1, NewBegins
<1> QED
  BY <1>1, <1>2

LEMMA CloneBegins ==
  ASSUME Sound, NEW o \in Obj, NEW p \in Obj, Clone(o, p)
  PROVE  Sound'
<1>1. fixed[p].text \in Seq(Byte) /\ (fixed[p].buf <=> fixed[p].text # << >>)
  BY TextType DEF Sound, WellFormed
<1>2. CASE fixed[p].buf
  <2>1. Begins("new", "buf", o, NoObj, fixed[p].text)
    BY <1>2 DEF Clone
  <2> QED
    BY <1>1, <1>2, <2>1, BeginsSound
<1>3. CASE ~ fixed[p].buf
  <2>1. Begins("new", "obj", o, NoObj, << >>) /\ << >> \in Seq(Byte)
    BY <1>3 DEF Clone
  <2> QED
    BY <2>1, BeginsSound
<1> QED
  BY <1>2, <1>3

LEMMA EscapeBegins ==
  ASSUME Sound, NEW o \in Obj, NEW p \in Obj, Escape(o, p)
  PROVE  Sound'
<1>1. fixed[p].text \in Seq(Byte)
  BY TextType DEF Sound
<1>2. Escaped(fixed[p].text) \in Seq(Byte)
  BY <1>1, EscapedType
<1>3. IsObject(p) /\ Begins("escape", "escape", o, p, Escaped(fixed[p].text))
  BY DEF Escape
<1> QED
  BY <1>2, <1>3, BeginsSound

LEMMA CallBegins ==
  ASSUME Sound, NEW o \in Obj,
         \/ \E s \in Text :
              NewFromBuf(o, s) \/ NewFromStrWithNull(o, s) \/ NewFromFmt(o, s) \/ NewFromFile(o, s)
         \/ \E p \in Obj : Escape(o, p) \/ Clone(o, p)
         \/ \E p, q \in Obj : Join(o, p, q)
  PROVE  Sound'
<1>1. ASSUME NEW s \in Text,
             NewFromBuf(o, s) \/ NewFromStrWithNull(o, s) \/ NewFromFmt(o, s) \/ NewFromFile(o, s)
      PROVE  Sound'
  <2>1. s \in Seq(Byte)
    BY FixedBufAssumption
  <2>2. Append(s, 0) \in Seq(Byte)
    BY <2>1 DEF Byte
  <2>3. CASE NewFromBuf(o, s)
    BY <2>1, <2>3, NewBegins DEF NewFromBuf
  <2>4. CASE NewFromStrWithNull(o, s)
    <3>1. Begins("new", NewWithLen(Append(s, 0)), o, NoObj, Append(s, 0))
      BY <2>4 DEF NewFromStrWithNull, NewFromBuf
    <3> QED
      BY <2>2, <3>1, NewBegins
  <2>5. CASE NewFromFmt(o, s)
    BY <2>1, <2>5, FmtBegins
  <2>6. CASE NewFromFile(o, s)
    BY <2>1, <2>6, NewBegins DEF NewFromFile
  <2> QED
    BY <1>1, <2>3, <2>4, <2>5, <2>6
<1>2. ASSUME NEW p \in Obj, NEW q \in Obj, Join(o, p, q)
      PROVE  Sound'
  <2>1. fixed[p].text \o fixed[q].text \in Seq(Byte)
    <3>1. fixed[p].text \in Seq(Byte) /\ fixed[q].text \in Seq(Byte)
      BY TextType DEF Sound
    <3> QED
      BY <3>1
  <2>2. Begins("new", NewWithLen(fixed[p].text \o fixed[q].text), o, NoObj,
               fixed[p].text \o fixed[q].text)
    BY <1>2 DEF Join, NewFromBuf
  <2> QED
    BY <2>1, <2>2, NewBegins
<1> QED
  BY <1>1, <1>2, EscapeBegins, CloneBegins

-----------------------------------------------------------------------------
(* The other calls. *)

LEMMA WithBuf ==
  ASSUME NEW f \in Pointer, NEW b \in BOOLEAN
  PROVE  LET g == [f EXCEPT !.buf = b]
         IN  g \in Pointer /\ g.ptr = f.ptr /\ g.buf = b
<1>1. f = [ptr |-> f.ptr, buf |-> f.buf, text |-> f.text]
  BY DEF Pointer
<1>2. [f EXCEPT !.buf = b] = [ptr |-> f.ptr, buf |-> b, text |-> f.text]
  BY <1>1
<1> QED
  BY <1>2 DEF Pointer

(* What is left of an object whose block is freed. *)
LEMMA WithoutBlock ==
  ASSUME NEW f \in Pointer
  PROVE  LET g == [f EXCEPT !.buf = FALSE, !.text = << >>]
         IN  g \in Pointer /\ g.ptr = f.ptr /\ ~ g.buf /\ g.text = << >>
<1> DEFINE e == [f EXCEPT !.buf = FALSE]
           g == [e EXCEPT !.text = << >>]
<1>1. ASSUME NEW b \in BOOLEAN, b = FALSE
      PROVE  [f EXCEPT !.buf = b] \in Pointer /\ [f EXCEPT !.buf = b].ptr = f.ptr
             /\ ~ [f EXCEPT !.buf = b].buf
  BY <1>1, WithBuf
<1>2. e \in Pointer /\ e.ptr = f.ptr /\ ~ e.buf
  BY <1>1
<1> HIDE DEF e
<1>3. g = [ptr |-> e.ptr, buf |-> e.buf, text |-> << >>]
  BY <1>2 DEF Pointer
<1>4. << >> \in Seq(Byte)
  OBVIOUS
<1>5. g \in Pointer /\ g.ptr = f.ptr /\ ~ g.buf /\ g.text = << >>
  BY <1>2, <1>3, <1>4 DEF Pointer
<1> QED
  BY <1>5 DEF e

LEMMA EmptiedSound ==
  ASSUME Sound, call = NoCall, NEW o \in Obj, fixed[o].buf, Emptied(o)
  PROVE  Sound' /\ fixed'[o].text = << >>
<1> DEFINE f == [fixed[o] EXCEPT !.buf = FALSE, !.text = << >>]
<1>1. fixed[o] \in Pointer /\ fixed[o].ptr = "object" /\ blocks \in Nat
  BY TextType, BlocksType DEF Sound, WellFormed
<1>2. f \in Pointer /\ f.ptr = "object" /\ ~ f.buf /\ f.text = << >>
  BY <1>1, WithoutBlock
<1>3. fixed' = [fixed EXCEPT ![o] = f]
  BY DEF Emptied, Sound, AllWellFormed
<1> HIDE DEF f
<1>4. WellFormed(f)
  BY <1>2 DEF WellFormed
<1>5. Count(f) = 1 /\ Count(fixed[o]) = 2
  BY <1>1, <1>2 DEF Count
<1>6. blocks' = blocks - Count(fixed[o]) + Count(f) /\ UNCHANGED call
  BY <1>1, <1>5 DEF Emptied
<1>7. fixed'[o] = f
  BY <1>3 DEF Sound, AllWellFormed
<1> QED
  BY <1>2, <1>3, <1>4, <1>6, <1>7, Assigned

(* What Strip does to a buffer, by what its text holds. *)
LEMMA StripCases ==
  ASSUME Sound, NEW o \in Obj, Strip(o)
  PROVE  /\ call = NoCall
         /\ \/ fixed[o].text = << >> /\ UNCHANGED bufVars
            \/ /\ LeftIdx(fixed[o].text) = Len(fixed[o].text)
                  \/ RightIdx(fixed[o].text, LeftIdx(fixed[o].text)) = LeftIdx(fixed[o].text)
               /\ fixed[o].text # << >> /\ fixed[o].buf /\ Emptied(o)
            \/ /\ LeftIdx(fixed[o].text) # Len(fixed[o].text)
               /\ RightIdx(fixed[o].text, LeftIdx(fixed[o].text)) # LeftIdx(fixed[o].text)
               /\ fixed[o].text # << >> /\ fixed[o].buf
               /\ fixed' = [fixed EXCEPT ![o].text = Kept(fixed[o].text)]
               /\ UNCHANGED <<blocks, call>>
<1>1. fixed[o].buf <=> fixed[o].text # << >>
  BY TextType DEF Sound, WellFormed
<1>2. call = NoCall
  BY DEF Strip
<1> QED
  BY <1>1, <1>2, Zenon DEF Strip, Kept

LEMMA KeptSound ==
  ASSUME Sound, call = NoCall, UNCHANGED <<blocks, call>>, NEW o \in Obj, fixed[o].buf,
         LeftIdx(fixed[o].text) # Len(fixed[o].text),
         RightIdx(fixed[o].text, LeftIdx(fixed[o].text)) # LeftIdx(fixed[o].text),
         fixed' = [fixed EXCEPT ![o].text = Kept(fixed[o].text)]
  PROVE  Sound' /\ fixed'[o].text = Kept(fixed[o].text)
<1>1. fixed[o] \in Pointer /\ fixed[o].text \in Seq(Byte) /\ blocks \in Nat
  BY TextType, BlocksType DEF Sound
<1>2. PICK t \in Seq(Byte) : t = Kept(fixed[o].text) /\ t # << >>
  BY <1>1, KeptText
<1> DEFINE f == [fixed[o] EXCEPT !.text = t]
<1>3. f \in Pointer /\ f.text = t /\ f.buf = fixed[o].buf /\ f.ptr = fixed[o].ptr
  BY <1>1 DEF Pointer
<1>4. fixed' = [fixed EXCEPT ![o] = f]
  BY <1>2 DEF Sound, AllWellFormed
<1> HIDE DEF f
<1>5. WellFormed(f)
  BY <1>1, <1>2, <1>3, TextType DEF Sound, WellFormed
<1>6. Count(f) = Count(fixed[o]) /\ Count(f) \in Nat
  BY <1>3, CountType DEF Count
<1>7. blocks' = blocks - Count(fixed[o]) + Count(f)
  BY <1>1, <1>6
<1>8. fixed'[o] = f
  BY <1>4 DEF Sound, AllWellFormed
<1> QED
  BY <1>2, <1>3, <1>4, <1>5, <1>7, <1>8, Assigned

LEMMA StripSound ==
  ASSUME Sound, NEW o \in Obj, Strip(o)
  PROVE  Sound'
BY StripCases, NothingHappens, EmptiedSound, KeptSound

LEMMA FreeSound ==
  ASSUME Sound, NEW o \in Obj, Free(o)
  PROVE  Sound'
<1>1. call = NoCall /\ UNCHANGED call /\ fixed[o].ptr = "object" /\ blocks \in Nat
  BY BlocksType DEF Free, IsObject
<1>2. Count(fixed[o]) = BlocksOf(fixed[o]) /\ Count(NULL) = 0
  BY <1>1, NoneWellFormed, NothingCounted DEF Count, BlocksOf
<1>3. fixed' = [fixed EXCEPT ![o] = NULL] /\ blocks' = blocks - BlocksOf(fixed[o])
  BY DEF Free
<1>4. blocks' = blocks - Count(fixed[o]) + Count(NULL)
  BY <1>1, <1>2, <1>3, CountType
<1> QED
  BY <1>1, <1>3, <1>4, NoneWellFormed, Assigned

-----------------------------------------------------------------------------
(* The specification. *)

LEMMA CallStep ==
  ASSUME Sound, CallNext
  PROVE  Sound'
BY FmtStep, BufStep, ObjStep, FreeBufStep, ReadStep, EscapeStep, PushStep, FreeDstStep, ReturnsStep
DEF CallNext

LEMMA StepSound ==
  ASSUME Sound, BufNext
  PROVE  Sound'
<1>1. CASE CallNext
  BY <1>1, CallStep
<1>2. ASSUME NEW o \in Obj,
             \/ \E s \in Text :
                  NewFromBuf(o, s) \/ NewFromStrWithNull(o, s) \/ NewFromFmt(o, s) \/ NewFromFile(o, s)
             \/ \E p \in Obj : Escape(o, p) \/ Clone(o, p)
             \/ \E p, q \in Obj : Join(o, p, q)
      PROVE  Sound'
  BY <1>2, CallBegins
<1>3. ASSUME NEW o \in Obj, Clear(o) PROVE Sound'
  <2>1. call = NoCall
    BY <1>3 DEF Clear
  <2> QED
    BY <1>3, <2>1, NothingHappens, EmptiedSound DEF Clear
<1> QED
  BY <1>1, <1>2, <1>3, StripSound, FreeSound DEF BufNext

LEMMA InitSound == BufInit => Sound
<1> SUFFICES ASSUME BufInit PROVE Sound
  OBVIOUS
<1>1. \A o \in Obj : fixed[o] = NULL
  BY DEF BufInit
<1>2. AllWellFormed
  <2>1. NULL \in Pointer /\ WellFormed(NULL)
    BY NoneWellFormed DEF WellFormed
  <2>2. fixed = [o \in Obj |-> NULL]
    BY DEF BufInit
  <2> HIDE DEF NULL
  <2>3. fixed \in [Obj -> Pointer]
    BY <2>1, <2>2
  <2> QED
    BY <1>1, <2>1, <2>3 DEF AllWellFormed
<1>3. CallSound
  BY NoCallFields, NoCallFits DEF BufInit, CallSound, Targets
<1>4. BlocksAccounted
  <2>1. Objects(fixed) = {} /\ Bufs(fixed) = {}
    BY <1>1, NoneWellFormed DEF Objects, Bufs
  <2>2. Counted(fixed) = 0 /\ LocalsOf(call) = 0 /\ blocks = 0
    BY <2>1, FS_EmptySet, NoCallFits DEF BufInit, Counted
  <2> QED
    BY <2>2, Accounted
<1> QED
  BY <1>2, <1>3, <1>4 DEF Sound

LEMMA AlwaysSound == BufSpec => []Sound
<1>1. Sound /\ [BufNext]_bufVars => Sound'
  BY StepSound, NothingHappens
<1> QED
  BY <1>1, InitSound, PTL DEF BufSpec

(* A buffer's block is missing exactly while it has no bytes, whatever was *)
(* stripped, cleared, joined or cloned before: Strip's len - 1 never wraps *)
(* (fixed_buf.c:283).                                                      *)
THEOREM EmptyHasNoBlock == BufSpec => []NullIffEmpty
<1>1. Sound => NullIffEmpty
  BY TextType DEF Sound, WellFormed, NullIffEmpty
<1> QED
  BY <1>1, AlwaysSound, PTL

(* FixedBuf alone: the count of blocks is right after every step of every  *)
(* call, whatever malloc refused.                                          *)
THEOREM BuffersAccounted == BufSpec => []BlocksAccounted
<1>1. Sound => BlocksAccounted
  BY DEF Sound
<1> QED
  BY <1>1, AlwaysSound, PTL

(* The type of the module's state.                                         *)
THEOREM BuffersTyped == BufSpec => []BufTypeOK
<1>1. Sound => BufTypeOK
  <2> SUFFICES ASSUME Sound PROVE BufTypeOK
    OBVIOUS
  <2>1. blocks \in Nat
    BY BlocksType
  <2>2. call \in Call
    BY DEF Sound, CallSound
  <2>3. fixed \in [Obj -> Pointer]
    BY DEF Sound, AllWellFormed
  <2>5. call \in [at : {"none", "fmt", "buf", "obj", "FreeBuf", "read", "escape", "push",
                     "FreeDst", "return"},
              kind : {"none", "new", "file", "escape"},
              o : Obj \union {NoObj}, from : Obj \union {NoObj}, text : Seq(Byte),
              tmp : 0 .. 2, buf : BOOLEAN, obj : BOOLEAN]
    BY <2>2, Zenon DEF Call, Steps
  <2>4. fixed \in [Obj -> [ptr : {"NULL", "unset", "object"}, buf : BOOLEAN, text : Seq(Byte)]]
    BY <2>3 DEF Pointer
  <2> QED
    BY <2>1, <2>4, <2>5 DEF BufTypeOK
<1> QED
  BY <1>1, AlwaysSound, PTL

-----------------------------------------------------------------------------
(* The positions Strip looks for. *)
TextBytes(s) == {i \in DOMAIN s : s[i] \notin Blank}

LEMMA EmptiedText ==
  ASSUME NEW s \in Seq(Byte)
  PROVE  /\ LeftIdx(s) = Len(s) => Cardinality(TextBytes(s)) = 0 /\ IsTrimmed(s, << >>)
         /\ LeftIdx(s) # Len(s) /\ RightIdx(s, LeftIdx(s)) = LeftIdx(s) =>
              Cardinality(TextBytes(s)) = 1
<1> DEFINE l == LeftIdx(s)
<1>1. /\ l \in 0 .. Len(s) /\ \A i \in 1 .. l : s[i] \in Blank
      /\ l = Len(s) \/ s[l + 1] \notin Blank
  BY Left
<1>2. DOMAIN s = 1 .. Len(s) /\ Len(s) \in Nat
  OBVIOUS
<1> HIDE DEF l
<1>3. ASSUME l = Len(s) PROVE Cardinality(TextBytes(s)) = 0 /\ IsTrimmed(s, << >>)
  <2>1. \A i \in DOMAIN s : s[i] \in Blank
    BY <1>1, <1>2, <1>3
  <2>2. TextBytes(s) = {}
    BY <2>1 DEF TextBytes
  <2>3. /\ 0 \in 0 .. Len(s) - Len(<< >>) /\ << >> = SubSeq(s, 0 + 1, 0 + Len(<< >>))
    BY <1>2
  <2>4. IsTrimmed(s, << >>)
    BY <2>1, <2>3 DEF IsTrimmed
  <2> QED
    BY <2>2, <2>4, FS_EmptySet
<1>4. ASSUME l # Len(s), RightIdx(s, l) = l PROVE Cardinality(TextBytes(s)) = 1
  <2>1. l \in 0 .. Len(s) - 1
    BY <1>1, <1>4
  <2>2. \A i \in l + 2 .. Len(s) : s[i] \in Blank
    BY <1>4, <2>1, Right
  <2>3. \A i \in DOMAIN s : s[i] \notin Blank <=> i = l + 1
    <3>1. s[l + 1] \notin Blank
      BY <1>1, <1>4
    <3>2. ASSUME NEW i \in DOMAIN s, i # l + 1 PROVE s[i] \in Blank
      <4>1. i \in 1 .. l \/ i \in l + 2 .. Len(s)
        BY <1>2, <2>1, <3>2
      <4> QED
        BY <1>1, <2>2, <4>1
    <3> QED
      BY <3>1, <3>2
  <2>4. TextBytes(s) = {l + 1}
    BY <1>2, <2>1, <2>3 DEF TextBytes
  <2> QED
    BY <2>4, FS_Singleton
<1> QED
  BY <1>3, <1>4 DEF l

LEMMA KeptHasTwo ==
  ASSUME NEW s \in Seq(Byte), LeftIdx(s) # Len(s), RightIdx(s, LeftIdx(s)) # LeftIdx(s)
  PROVE  Cardinality(TextBytes(s)) # 1
<1> DEFINE l == LeftIdx(s)
           r == RightIdx(s, l)
<1>1. DOMAIN s = 1 .. Len(s) /\ Len(s) \in Nat
  OBVIOUS
<1>2. l \in 0 .. Len(s) - 1 /\ s[l + 1] \notin Blank
  BY Left
<1>3. r \in l + 1 .. Len(s) - 1 /\ s[r + 1] \notin Blank
  BY <1>2, Right
<1> HIDE DEF l, r
<1>4. l + 1 \in TextBytes(s) /\ r + 1 \in TextBytes(s) /\ l + 1 # r + 1
  BY <1>1, <1>2, <1>3 DEF TextBytes
<1>5. IsFiniteSet(TextBytes(s))
  <2>1. TextBytes(s) \subseteq 1 .. Len(s) /\ 1 \in Int /\ Len(s) \in Int
    BY <1>1 DEF TextBytes
  <2> QED
    BY <2>1, FS_Interval, FS_Subset
<1>6. ASSUME Cardinality(TextBytes(s)) = 1 PROVE FALSE
  <2>1. \E x : TextBytes(s) = {x}
    BY <1>5, <1>6, FS_Singleton
  <2> QED
    BY <1>4, <2>1
<1> QED
  BY <1>6

LEMMA Stripped ==
  ASSUME Sound, NEW o \in Obj, Strip(o)
  PROVE  IF Cardinality({i \in DOMAIN fixed[o].text : fixed[o].text[i] \notin Blank}) = 1
         THEN fixed'[o].text = << >>
         ELSE IsTrimmed(fixed[o].text, fixed'[o].text)
<1>1. PICK s \in Seq(Byte) : s = fixed[o].text
  BY TextType DEF Sound
<1>2. PICK t : t = fixed'[o].text
  OBVIOUS
<1> SUFFICES IF Cardinality(TextBytes(s)) = 1 THEN t = << >> ELSE IsTrimmed(s, t)
  BY <1>1, <1>2 DEF TextBytes
<1>3. CASE s = << >> /\ UNCHANGED bufVars
  <2>1. s = << >> /\ t = << >>
    BY <1>1, <1>2, <1>3 DEF bufVars
  <2>2. LeftIdx(s) = Len(s)
    <3>1. Len(s) = 0 /\ LeftIdx(s) \in 0 .. Len(s)
      BY <2>1, Left
    <3> QED
      BY <3>1
  <2> QED
    BY <2>1, <2>2, EmptiedText
<1>4. CASE /\ LeftIdx(s) = Len(s) \/ RightIdx(s, LeftIdx(s)) = LeftIdx(s)
           /\ fixed[o].buf /\ Emptied(o)
  <2>1. t = << >>
    BY <1>2, <1>4, StripCases, EmptiedSound
  <2> QED
    BY <1>4, <2>1, EmptiedText
<1>5. CASE /\ LeftIdx(s) # Len(s) /\ RightIdx(s, LeftIdx(s)) # LeftIdx(s)
           /\ fixed[o].buf /\ UNCHANGED <<blocks, call>>
           /\ fixed' = [fixed EXCEPT ![o].text = Kept(s)]
  <2>1. t = Kept(s)
    BY <1>1, <1>2, <1>5, StripCases, KeptSound
  <2> QED
    BY <1>5, <2>1, KeptText, KeptHasTwo
<1> QED
  BY <1>1, <1>3, <1>4, <1>5, StripCases

(* Strip leaves the text between the blanks at both ends, after any calls; *)
(* a single byte between the blanks is dropped (fixed_buf.c:252-310).      *)
THEOREM AlwaysStripped == BufSpec => StripsToText
<1> DEFINE Trims ==
      \A o \in Obj : Strip(o) =>
        LET s == fixed[o].text
            t == fixed'[o].text
        IN  IF Cardinality({i \in DOMAIN s : s[i] \notin Blank}) = 1
            THEN t = << >>
            ELSE IsTrimmed(s, t)
<1>1. Sound => Trims
  BY Stripped
<1>2. StripsToText <=> [][Trims]_bufVars
  BY DEF StripsToText
<1> HIDE DEF Trims
<1> QED
  BY <1>1, <1>2, AlwaysSound, PTL

(* A step on which an Escape ends with a buffer. *)
LEMMA EscapedQuotes ==
  ASSUME Sound, BufNext, call.kind = "escape", fixed'[call.o].ptr = "object"
  PROVE  Quotes(fixed'[call.o].text, fixed[call.from].text)
<1>1. /\ call.from \in Obj /\ call.text = Escaped(fixed[call.from].text)
      /\ call.o \in Obj /\ fixed[call.o].ptr # "object"
      /\ call # NoCall
  BY NoCallFields DEF Sound, CallSound, Targets, IsObject
<1>2. CallNext
  <2>1. ASSUME NEW kind, NEW at, NEW o, NEW p, NEW s, Begins(kind, at, o, p, s) PROVE FALSE
    BY <1>1, <2>1 DEF Begins
  <2> QED
    BY <1>1, <2>1 DEF BufNext, NewFromBuf, NewFromStrWithNull, NewFromFmt, NewFromFile, Clone,
                      Join, Escape, Strip, Clear, Free
<1>3. fixed' # fixed
  BY <1>1
<1>4. ASSUME Assigns(NULL) PROVE FALSE
  <2>1. fixed'[call.o] = NULL
    BY <1>1, <1>4, PutWellFormed, NoneWellFormed DEF Assigns, Sound
  <2> QED
    BY <2>1, NoneWellFormed
<1>5. ASSUME Assigns(Unset) PROVE FALSE
  <2>1. fixed'[call.o] = Unset
    BY <1>1, <1>5, PutWellFormed, NoneWellFormed DEF Assigns, Sound
  <2> QED
    BY <2>1, NoneWellFormed
<1>6. Returns
  <2>1. \A c : ~ Grants(c)
    BY <1>3 DEF Grants
  <2>2. \A at : ~ Goes(at)
    BY <1>3 DEF Goes
  <2> QED
    BY <1>2, <1>3, <1>4, <1>5, <2>1, <2>2
    DEF CallNext, FmtAllocates, BufAllocates, ObjAllocates, FreeBuf, ReadFile, EscapeAllocates,
        EscapePushes, FreeDst
<1>7. fixed'[call.o].text = call.text
  BY <1>6, ReturnsStep
<1>8. fixed[call.from].text \in Seq(Byte)
  BY <1>1, TextType DEF Sound
<1> QED
  BY <1>1, <1>7, <1>8, ReadsBack

(* What Escape makes can be printed between quotes and is read back as the *)
(* original, for every text a buffer can hold (fixed_buf.c:189-223).       *)
THEOREM AlwaysReadsBack == BufSpec => EscapeReadsBack
<1> DEFINE Reads ==
      call.kind = "escape" /\ fixed'[call.o].ptr = "object" =>
        Quotes(fixed'[call.o].text, fixed[call.from].text)
<1>1. Sound /\ [BufNext]_bufVars => [Reads]_bufVars
  BY EscapedQuotes
<1>2. EscapeReadsBack <=> [][Reads]_bufVars
  BY DEF EscapeReadsBack
<1> HIDE DEF Reads
<1> QED
  BY <1>1, <1>2, AlwaysSound, PTL DEF BufSpec
=============================================================================
