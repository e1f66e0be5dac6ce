--------------------------- MODULE PrintingProofs ---------------------------
(***************************************************************************)
(* Proofs about Printing, for every set of variables, texts, token         *)
(* sequences and trees: what FixedBufProofs proves of a program that calls *)
(* FixedBuf holds of one that prints between its calls; what TokSeq_       *)
(* PushAsStr prints can be read back; and what AstNode_PushAsStr prints is *)
(* lines in the order of the program, whatever was refused.                *)
(***************************************************************************)
EXTENDS Printing, FixedBufProofs

(* A program that prints between its calls of FixedBuf makes no other calls *)
(* of it.                                                                  *)
THEOREM PrintsBetweenCalls == Spec => BufSpec
<1>1. Init => BufInit
  BY DEF Init
<1>2. [Next]_vars => [BufNext]_bufVars
  BY DEF Next, vars, PrintTokens, BeginTree, PrintLine, PrintChild, PrintReturns, Take
<1> QED
  BY <1>1, <1>2, PTL DEF Spec, BufSpec

(* At every step of every call the blocks malloc has granted are those of  *)
(* the objects and of the call's locals: whichever allocation is refused,  *)
(* the labels free what the call has got by then, and nothing twice        *)
(* (fixed_buf.c:43-46, 116-118, 153-154, 227-228, 246, 342-345).           *)
THEOREM AlwaysAccounted == Spec => []BlocksAccounted
BY BuffersAccounted, PrintsBetweenCalls, PTL

(* Strip never computes len - 1 of a buffer without bytes, Clone never     *)
(* asks for 0 bytes (fixed_buf.c:283, 320, 327).                           *)
THEOREM AlwaysNullIffEmpty == Spec => []NullIffEmpty
BY EmptyHasNoBlock, PrintsBetweenCalls, PTL

(* Strip leaves the text between the blanks at both ends, a single byte    *)
(* between them excepted (fixed_buf.c:252-310).                            *)
THEOREM AlwaysStripsToText == Spec => StripsToText
BY AlwaysStripped, PrintsBetweenCalls, PTL

(* An escaped text can be printed between quotes and is read back as the   *)
(* text (fixed_buf.c:189-223, token.c:113-121).                            *)
THEOREM AlwaysEscapeReadsBack == Spec => EscapeReadsBack
BY AlwaysReadsBack, PrintsBetweenCalls, PTL

-----------------------------------------------------------------------------
(* Numbers in increasing order. *)

Increases(g, n) == \A i, j \in 1 .. n : i < j => g[i] < g[j]

(* What increases from place to place increases. *)
LEMMA StepwiseIncreases ==
  ASSUME NEW n \in Nat, NEW g \in [1 .. n -> Int], \A k \in 1 .. n - 1 : g[k] < g[k + 1]
  PROVE  Increases(g, n)
<1> DEFINE G == {d \in Nat : \A i \in 1 .. n :
                   i + d <= n => g[i] <= g[i + d] /\ (d > 0 => g[i] < g[i + d])}
<1>1. 0 \in G
  OBVIOUS
<1>2. ASSUME NEW d \in Nat, d \in G PROVE d + 1 \in G
  <2> SUFFICES ASSUME NEW i \in 1 .. n, i + (d + 1) <= n
               PROVE  g[i] < g[i + (d + 1)]
    OBVIOUS
  <2>1. /\ i + d \in 1 .. n - 1 /\ i + d \in 1 .. n
        /\ i + d + 1 = i + (d + 1) /\ i + (d + 1) \in 1 .. n
    OBVIOUS
  <2>2. g[i] <= g[i + d]
    BY <1>2
  <2>3. g[i + d] < g[i + (d + 1)]
    BY <2>1
  <2> QED
    BY <2>1, <2>2, <2>3
<1> HIDE DEF G
<1>3. \A d \in Nat : d \in G
  BY <1>1, <1>2, NatIsAll
<1>4. ASSUME NEW i \in 1 .. n, NEW j \in 1 .. n, i < j PROVE g[i] < g[j]
  <2>1. j - i \in Nat /\ j - i > 0 /\ i + (j - i) = j
    BY <1>4
  <2>2. j - i \in G
    BY <1>3, <2>1
  <2> QED
    BY <2>1, <2>2 DEF G
<1> QED
  BY <1>4 DEF Increases

(* The first places of an increasing sequence are as many as they are.     *)
LEMMA CountsPlaces ==
  ASSUME NEW n \in Nat, NEW g \in [1 .. n -> Int], Increases(g, n), NEW m \in 0 .. n
  PROVE  /\ IsFiniteSet({g[i] : i \in 1 .. m})
         /\ Cardinality({g[i] : i \in 1 .. m}) = m
<1> DEFINE I == 1 .. m
           T == {g[i] : i \in I}
           f == [i \in I |-> g[i]]
<1>1. IsFiniteSet(I) /\ Cardinality(I) = m
  BY FS_Interval
<1>2. f \in Bijection(I, T)
  <2>1. f \in [I -> T]
    OBVIOUS
  <2>2. \A a, b \in I : f[a] = f[b] => a = b
    <3> SUFFICES ASSUME NEW a \in I, NEW b \in I, f[a] = f[b], a # b PROVE FALSE
      OBVIOUS
    <3>1. a \in 1 .. n /\ b \in 1 .. n
      OBVIOUS
    <3>2. a < b \/ b < a
      OBVIOUS
    <3>3. g[a] < g[b] \/ g[b] < g[a]
      BY <3>1, <3>2 DEF Increases
    <3>4. g[a] \in Int /\ g[b] \in Int /\ g[a] = g[b]
      BY <3>1
    <3> QED
      BY <3>3, <3>4
  <2>3. \A t \in T : \E a \in I : f[a] = t
    OBVIOUS
  <2> HIDE DEF f, T, I
  <2> QED
    BY <2>1, <2>2, <2>3 DEF Bijection, Injection, Surjection, IsInjective
<1>3. ExistsBijection(I, T)
  BY <1>2 DEF ExistsBijection
<1> QED
  BY <1>1, <1>3, FS_Bijection

(* What increases and has the members of S has them in order. *)
LEMMA InOrderIs ==
  ASSUME NEW n \in Nat, NEW g \in [1 .. n -> Int], Increases(g, n),
         NEW S, S = {g[i] : i \in 1 .. n}
  PROVE  InOrder(S) = g
<1>1. Cardinality(S) = n
  <2>1. n \in 0 .. n
    OBVIOUS
  <2> QED
    BY <2>1, CountsPlaces
<1>2. ASSUME NEW k \in 1 .. n
      PROVE  Cardinality({y \in S : y < g[k]}) = k - 1
  <2>1. {y \in S : y < g[k]} = {g[i] : i \in 1 .. k - 1}
    <3>1. ASSUME NEW y \in S, y < g[k] PROVE y \in {g[i] : i \in 1 .. k - 1}
      <4>1. PICK i \in 1 .. n : y = g[i]
        OBVIOUS
      <4>2. ~ (k <= i)
        <5>1. g[k] \in Int /\ g[i] \in Int
          OBVIOUS
        <5>2. k < i => g[k] < g[i]
          BY DEF Increases
        <5> QED
          BY <3>1, <4>1, <5>1, <5>2
      <4> QED
        BY <4>1, <4>2
    <3>2. ASSUME NEW i \in 1 .. k - 1 PROVE g[i] \in S /\ g[i] < g[k]
      BY DEF Increases
    <3> QED
      BY <3>1, <3>2
  <2> DEFINE m == k - 1
             T == {g[i] : i \in 1 .. m}
  <2>2. m \in 0 .. n
    OBVIOUS
  <2>3. {y \in S : y < g[k]} = T
    BY <2>1
  <2> HIDE DEF m
  <2>4. Cardinality(T) = m
    BY <2>2, CountsPlaces
  <2> HIDE DEF T
  <2>5. Cardinality({y \in S : y < g[k]}) = m
    BY <2>3, <2>4, Zenon
  <2> QED
    BY <2>5 DEF m
<1>3. ASSUME NEW k \in 1 .. n
      PROVE  (CHOOSE x \in S : Cardinality({y \in S : y < x}) = k - 1) = g[k]
  <2> DEFINE x == CHOOSE z \in S : Cardinality({y \in S : y < z}) = k - 1
  <2>1. g[k] \in S
    OBVIOUS
  <2>2. x \in S /\ Cardinality({y \in S : y < x}) = k - 1
    BY <1>2, <2>1, Zenon
  <2> HIDE DEF x
  <2>3. PICK i \in 1 .. n : x = g[i]
    BY <2>2
  <2>4. k - 1 = i - 1
    BY <1>2, <2>2, <2>3
  <2>5. k = i
    BY <2>4
  <2> QED
    BY <2>3, <2>5 DEF x
<1>4. InOrder(S) = [k \in 1 .. n |-> g[k]]
  <2>1. InOrder(S) = [k \in 1 .. n |-> CHOOSE x \in S : Cardinality({y \in S : y < x}) = k - 1]
    BY <1>1 DEF InOrder
  <2> DEFINE h(k) == CHOOSE x \in S : Cardinality({y \in S : y < x}) = k - 1
  <2>2. \A k \in 1 .. n : h(k) = g[k]
    BY <1>3
  <2>3. InOrder(S) = [k \in 1 .. n |-> h(k)]
    BY <2>1
  <2> HIDE DEF h
  <2> QED
    BY <2>2, <2>3
<1> QED
  BY <1>4

(* A bounded set of numbers can be put in order. *)
LEMMA OrderExists ==
  ASSUME NEW N \in Nat
  PROVE  \A S \in SUBSET (1 .. N) :
           \E n \in Nat : \E g \in [1 .. n -> Int] :
             Increases(g, n) /\ S = {g[i] : i \in 1 .. n}
<1> DEFINE Ordered(S) == \E n \in Nat : \E g \in [1 .. n -> Int] :
                           Increases(g, n) /\ S = {g[i] : i \in 1 .. n}
           G == {m \in Nat : \A S \in SUBSET (1 .. m) : Ordered(S)}
<1>1. 0 \in G
  <2> SUFFICES ASSUME NEW S \in SUBSET (1 .. 0) PROVE Ordered(S)
    OBVIOUS
  <2> DEFINE g == [i \in 1 .. 0 |-> i]
  <2>1. g \in [1 .. 0 -> Int]
    OBVIOUS
  <2>2. Increases(g, 0)
    BY DEF Increases
  <2>3. S = {} /\ {g[i] : i \in 1 .. 0} = {}
    OBVIOUS
  <2> QED
    BY <2>1, <2>2, <2>3
<1>2. ASSUME NEW m \in Nat, m \in G PROVE m + 1 \in G
  <2>0. m + 1 \in Nat
    OBVIOUS
  <2> SUFFICES ASSUME NEW S \in SUBSET (1 .. m + 1) PROVE Ordered(S)
    BY <2>0, Zenon
  <2>1. CASE m + 1 \notin S
    <3>1. S \in SUBSET (1 .. m)
      BY <2>1
    <3> QED
      BY <1>2, <3>1
  <2>2. CASE m + 1 \in S
    <3> DEFINE R == S \ {m + 1}
    <3>1. R \in SUBSET (1 .. m)
      OBVIOUS
    <3>2. PICK n \in Nat : \E g \in [1 .. n -> Int] : Increases(g, n) /\ R = {g[i] : i \in 1 .. n}
      BY <1>2, <3>1
    <3>3. PICK g \in [1 .. n -> Int] : Increases(g, n) /\ R = {g[i] : i \in 1 .. n}
      BY <3>2
    <3> DEFINE h == [i \in 1 .. n + 1 |-> IF i = n + 1 THEN m + 1 ELSE g[i]]
    <3>4. h \in [1 .. n + 1 -> Int]
      OBVIOUS
    <3>5. h[n + 1] = m + 1 /\ \A i \in 1 .. n : h[i] = g[i] /\ g[i] \in R /\ g[i] <= m
      <4>1. h[n + 1] = m + 1 /\ \A i \in 1 .. n : h[i] = g[i]
        OBVIOUS
      <4>2. \A i \in 1 .. n : g[i] \in R
        BY <3>3
      <4> QED
        BY <3>1, <4>1, <4>2
    <3> HIDE DEF h, R
    <3>6. Increases(h, n + 1)
      <4> SUFFICES ASSUME NEW i \in 1 .. n + 1, NEW j \in 1 .. n + 1, i < j PROVE h[i] < h[j]
        BY DEF Increases
      <4>1. i \in 1 .. n
        OBVIOUS
      <4>2. CASE j = n + 1
        BY <3>5, <4>1, <4>2
      <4>3. CASE j # n + 1
        <5>1. j \in 1 .. n
          BY <4>3
        <5> QED
          BY <3>3, <3>5, <4>1, <5>1 DEF Increases
      <4> QED
        BY <4>2, <4>3
    <3>7. S = {h[i] : i \in 1 .. n + 1}
      <4>1. ASSUME NEW x \in S PROVE \E i \in 1 .. n + 1 : x = h[i]
        <5>1. CASE x = m + 1
          BY <3>5, <5>1
        <5>2. CASE x # m + 1
          <6>1. x \in R
            BY <5>2 DEF R
          <6>2. PICK i \in 1 .. n : x = g[i]
            BY <3>3, <6>1
          <6> QED
            BY <3>5, <6>2
        <5> QED
          BY <5>1, <5>2
      <4>2. ASSUME NEW i \in 1 .. n + 1 PROVE h[i] \in S
        <5>1. CASE i = n + 1
          BY <2>2, <3>5, <5>1
        <5>2. CASE i # n + 1
          <6>1. i \in 1 .. n
            BY <5>2
          <6> QED
            BY <3>5, <6>1 DEF R
        <5> QED
          BY <5>1, <5>2
      <4> QED
        BY <4>1, <4>2
    <3>8. n + 1 \in Nat
      OBVIOUS
    <3> QED
      BY <3>4, <3>6, <3>7, <3>8
  <2> QED
    BY <2>1, <2>2
<1> HIDE DEF G
<1>3. N \in G
  BY <1>1, <1>2, NatIsAll
<1> QED
  BY <1>3 DEF G

(* What InOrder returns has the members of the set, each once, in order. *)
LEMMA InOrderFacts ==
  ASSUME NEW N \in Nat, NEW S \in SUBSET (1 .. N)
  PROVE  /\ Len(InOrder(S)) \in Nat
         /\ InOrder(S) \in Seq(S)
         /\ Increases(InOrder(S), Len(InOrder(S)))
         /\ S = {InOrder(S)[i] : i \in 1 .. Len(InOrder(S))}
<1>1. PICK n \in Nat : \E g \in [1 .. n -> Int] : Increases(g, n) /\ S = {g[i] : i \in 1 .. n}
  BY OrderExists
<1>2. PICK g \in [1 .. n -> Int] : Increases(g, n) /\ S = {g[i] : i \in 1 .. n}
  BY <1>1
<1>3. InOrder(S) = g
  BY <1>2, InOrderIs
<1>4. g \in [1 .. n -> S]
  BY <1>2
<1>5. g \in Seq(S) /\ Len(g) = n
  BY <1>4
<1> QED
  BY <1>2, <1>3, <1>5

-----------------------------------------------------------------------------
(* The text of a token sequence. *)

Kinds ==
  {"TokSeq", "open", "newline", "pad", "StrLit", "Keyword", "comma", "close", "label"}

Pieces == [kind : Kinds, num : Int, str : Seq(Byte)]

Tokens == [tag : {"Keyword", "StrLit"}, str : Seq(Byte)]

(* What FlexBuf_Push appends is a piece. *)
LEMMA PieceType ==
  ASSUME NEW kind \in Kinds, NEW num \in Int
  PROVE  Piece(kind, num) \in Pieces
BY DEF Piece, Pieces

(* A token is printed as one piece, of which its string is read back. *)
LEMMA TokenPieceType ==
  ASSUME NEW tok \in Tokens
  PROVE  /\ TokenPiece(tok) \in Pieces
         /\ TokenPiece(tok).kind = tok.tag
         /\ tok.tag = "StrLit" => Quotes(TokenPiece(tok).str, tok.str)
<1>1. tok.str \in Seq(Byte) /\ tok.tag \in {"Keyword", "StrLit"}
  BY DEF Tokens
<1>2. CASE tok.tag = "StrLit"
  <2> DEFINE t == Escaped(tok.str)
  <2>1. t \in Seq(Byte) /\ Quotes(t, tok.str)
    BY <1>1, EscapedType, ReadsBack
  <2>2. TokenPiece(tok) = StrPiece(t)
    BY <1>2 DEF TokenPiece
  <2> HIDE DEF t
  <2>3. StrPiece(t) \in Pieces /\ StrPiece(t).kind = "StrLit" /\ StrPiece(t).str = t
    BY <2>1 DEF StrPiece, Pieces, Kinds
  <2>4. TokenPiece(tok).str = t /\ TokenPiece(tok).kind = "StrLit" /\ TokenPiece(tok) \in Pieces
    BY <2>2, <2>3
  <2> QED
    BY <1>2, <2>1, <2>4, Zenon
<1>3. CASE tok.tag = "Keyword"
  BY <1>3, PieceType DEF TokenPiece, Piece, Kinds
<1> QED
  BY <1>1, <1>2, <1>3

(* Two pushes, one after the other. *)
LEMMA Pair ==
  ASSUME NEW S, NEW x \in S, NEW y \in S
  PROVE  <<x>> \o <<y>> = <<x, y>>
<1> DEFINE X == <<x>>
           Y == <<y>>
           r == X \o Y
<1>1. /\ X \in Seq(S) /\ Len(X) = 1 /\ X[1] = x
      /\ Y \in Seq(S) /\ Len(Y) = 1 /\ Y[1] = y
  OBVIOUS
<1>a. X \in Seq(S) /\ Y \in Seq(S)
  OBVIOUS
<1>2. r = X \o Y
  OBVIOUS
<1> HIDE DEF X, Y, r
<1>3. /\ r \in Seq(S) /\ Len(r) = Len(X) + Len(Y)
      /\ \A i \in 1 .. Len(X) : r[i] = X[i]
      /\ \A i \in 1 .. Len(Y) : r[Len(X) + i] = Y[i]
  BY <1>a, <1>2
<1>4. r \in Seq(S) /\ Len(r) = 2 /\ r[1] = x /\ r[2] = y
  BY <1>1, <1>3
<1>5. r = <<x, y>>
  BY <1>4
<1> QED
  BY <1>5 DEF r, X, Y

(* The pieces of a line break, none of which is a token. *)
LEMMA BreakType ==
  ASSUME NEW ind \in Int
  PROVE  /\ Break(ind) \in Seq(Pieces)
         /\ ind < 0 => Break(ind) = << >>
         /\ ind = 0 => Break(ind) = <<Piece("newline", 0)>>
         /\ ind > 0 => Break(ind) = <<Piece("newline", 0), Piece("pad", ind)>>
         /\ \A j \in 1 .. Len(Break(ind)) : Break(ind)[j].kind \notin {"StrLit", "Keyword"}
<1> DEFINE l == Piece("newline", 0)
           d == Piece("pad", ind)
<1>1. l \in Pieces /\ d \in Pieces
  BY PieceType DEF Kinds
<1>2. l.kind = "newline" /\ d.kind = "pad"
  BY DEF Piece
<1>3. Break(ind) = (IF ind >= 0 THEN <<l>> ELSE << >>) \o (IF ind > 0 THEN <<d>> ELSE << >>)
  BY DEF Break
<1> HIDE DEF l, d
<1>4. CASE ind < 0
  <2>1. Break(ind) = << >>
    BY <1>3, <1>4
  <2> QED
    BY <1>4, <2>1
<1>5. CASE ind = 0
  <2>1. Break(ind) = <<l>>
    BY <1>1, <1>3, <1>5
  <2>2. <<l>> \in Seq(Pieces) /\ Len(<<l>>) = 1 /\ <<l>>[1] = l
    BY <1>1
  <2>3. \A j \in 1 .. Len(Break(ind)) : Break(ind)[j].kind \notin {"StrLit", "Keyword"}
    BY <1>2, <2>1, <2>2
  <2> QED
    BY <1>5, <2>1, <2>2, <2>3 DEF l
<1>6. CASE ind > 0
  <2>1. Break(ind) = <<l, d>>
    <3>1. Break(ind) = <<l>> \o <<d>>
      BY <1>3, <1>6
    <3>2. <<l>> \o <<d>> = <<l, d>>
      BY <1>1, Pair
    <3> QED
      BY <3>1, <3>2
  <2>2. <<l, d>> \in Seq(Pieces) /\ Len(<<l, d>>) = 2 /\ <<l, d>>[1] = l /\ <<l, d>>[2] = d
    BY <1>1
  <2>3. \A j \in 1 .. Len(Break(ind)) : Break(ind)[j].kind \notin {"StrLit", "Keyword"}
    BY <1>2, <2>1, <2>2
  <2> QED
    BY <1>6, <2>1, <2>2, <2>3 DEF l, d
<1> QED
  BY <1>4, <1>5, <1>6

Laid(h, o, br, f, l, e, c) == <<h>> \o (<<o>> \o br \o f \o <<l>> \o e) \o <<c>>

LaidOut(S, p, h, o, br, f, l, e, c) ==
  /\ p \in Seq(S)
  /\ Len(p) = Len(br) + Len(f) + Len(e) + 4
  /\ p[1] = h /\ p[2] = o
  /\ \A j \in 1 .. Len(br) : p[2 + j] = br[j]
  /\ \A j \in 1 .. Len(f) : p[2 + Len(br) + j] = f[j]
  /\ p[3 + Len(br) + Len(f)] = l
  /\ \A j \in 1 .. Len(e) : p[3 + Len(br) + Len(f) + j] = e[j]
  /\ p[Len(br) + Len(f) + Len(e) + 4] = c

(* Where the parts of the text are. *)
LEMMA TextLaid ==
  ASSUME NEW S, NEW h \in S, NEW o \in S, NEW l \in S, NEW c \in S,
         NEW br \in Seq(S), NEW f \in Seq(S), NEW e \in Seq(S),
         NEW p, p = Laid(h, o, br, f, l, e, c)
  PROVE  LaidOut(S, p, h, o, br, f, l, e, c)
<1> DEFINE a1 == <<o>> \o br
           a2 == a1 \o f
           a3 == a2 \o <<l>>
           a4 == a3 \o e
           a5 == <<h>> \o a4
<1>0. Len(br) \in Nat /\ Len(f) \in Nat /\ Len(e) \in Nat
  OBVIOUS
<1>e. a1 = <<o>> \o br /\ a3 = a2 \o <<l>> /\ a5 = <<h>> \o a4 /\ p = a5 \o <<c>>
  BY Zenon DEF Laid
<1>a. a2 = a1 \o f
  BY Zenon
<1>b. a4 = a3 \o e
  BY Zenon
<1> HIDE DEF a1, a2, a3, a4, a5
<1> DEFINE O == <<o>>
           L == <<l>>
           H == <<h>>
           C == <<c>>
<1>1. /\ O \in Seq(S) /\ Len(O) = 1 /\ O[1] = o
      /\ L \in Seq(S) /\ Len(L) = 1 /\ L[1] = l
      /\ H \in Seq(S) /\ Len(H) = 1 /\ H[1] = h
      /\ C \in Seq(S) /\ Len(C) = 1 /\ C[1] = c
  OBVIOUS
<1>f. a1 = O \o br
  BY <1>e, Zenon
<1>g. a3 = a2 \o L
  BY <1>e, Zenon
<1>h. a5 = H \o a4
  BY <1>e, Zenon
<1>i. p = a5 \o C
  BY <1>e, Zenon
<1> HIDE DEF O, L, H, C
<1>k. O \in Seq(S) /\ L \in Seq(S) /\ H \in Seq(S) /\ C \in Seq(S)
  BY <1>1
<1>l. a1 \in Seq(S) /\ a2 \in Seq(S) /\ a3 \in Seq(S) /\ a4 \in Seq(S) /\ a5 \in Seq(S)
  <2>1. a1 \in Seq(S)
    BY <1>f, <1>k
  <2>2. a2 \in Seq(S)
    BY <1>a, <2>1
  <2>3. a3 \in Seq(S)
    BY <1>g, <1>k, <2>2
  <2>4. a4 \in Seq(S)
    BY <1>b, <2>3
  <2>5. a5 \in Seq(S)
    BY <1>h, <1>k, <2>4
  <2> QED
    BY <2>1, <2>2, <2>3, <2>4, <2>5
<1>2. /\ a1 \in Seq(S) /\ Len(a1) = 1 + Len(br) /\ a1[1] = o
      /\ \A j \in 1 .. Len(br) : a1[1 + j] = br[j]
  <2>1. /\ Len(a1) = Len(O) + Len(br)
        /\ \A i \in 1 .. Len(O) : a1[i] = O[i]
        /\ \A i \in 1 .. Len(br) : a1[Len(O) + i] = br[i]
    BY <1>f, <1>k
  <2> QED
    BY <1>1, <1>l, <2>1
<1>3. /\ Len(a2) = Len(a1) + Len(f)
      /\ \A i \in 1 .. Len(a1) : a2[i] = a1[i]
      /\ \A j \in 1 .. Len(f) : a2[Len(a1) + j] = f[j]
  BY <1>a, <1>l
<1>4. /\ Len(a3) = Len(a2) + 1
      /\ \A i \in 1 .. Len(a2) : a3[i] = a2[i]
      /\ a3[Len(a2) + 1] = l
  <2>1. /\ Len(a3) = Len(a2) + Len(L)
        /\ \A i \in 1 .. Len(a2) : a3[i] = a2[i]
        /\ \A j \in 1 .. Len(L) : a3[Len(a2) + j] = L[j]
    BY <1>g, <1>k, <1>l
  <2> QED
    BY <1>1, <2>1
<1>5. /\ Len(a4) = Len(a3) + Len(e)
      /\ \A i \in 1 .. Len(a3) : a4[i] = a3[i]
      /\ \A j \in 1 .. Len(e) : a4[Len(a3) + j] = e[j]
  BY <1>b, <1>l
<1>6. /\ Len(a5) = 1 + Len(a4) /\ a5[1] = h
      /\ \A i \in 1 .. Len(a4) : a5[1 + i] = a4[i]
  <2>1. /\ Len(a5) = Len(H) + Len(a4)
        /\ \A i \in 1 .. Len(H) : a5[i] = H[i]
        /\ \A i \in 1 .. Len(a4) : a5[Len(H) + i] = a4[i]
    BY <1>h, <1>k, <1>l
  <2> QED
    BY <1>1, <2>1
<1>8. /\ p \in Seq(S) /\ Len(p) = Len(a5) + 1
      /\ \A i \in 1 .. Len(a5) : p[i] = a5[i]
      /\ p[Len(a5) + 1] = c
  <2> DEFINE r == a5 \o C
  <2>1. r = a5 \o C /\ p = r
    BY <1>i
  <2> HIDE DEF r
  <2>2. r \in Seq(S)
    BY <1>k, <1>l, <2>1
  <2>3. /\ Len(r) = Len(a5) + Len(C)
        /\ \A i \in 1 .. Len(a5) : r[i] = a5[i]
        /\ \A j \in 1 .. Len(C) : r[Len(a5) + j] = C[j]
    <3>1. r = a5 \o C
      BY <2>1
    <3> QED
      BY <1>k, <1>l, <3>1
  <2>4. Len(r) = Len(a5) + 1 /\ r[Len(a5) + 1] = c
    BY <1>1, <2>3
  <2> QED
    BY <2>1, <2>2, <2>3, <2>4, Zenon
<1>9. /\ Len(a5) = Len(br) + Len(f) + Len(e) + 3
      /\ Len(a4) = Len(br) + Len(f) + Len(e) + 2
      /\ Len(a3) = Len(br) + Len(f) + 2
      /\ Len(a2) = Len(br) + Len(f) + 1
      /\ Len(a1) = Len(br) + 1
  BY <1>0, <1>2, <1>3, <1>4, <1>5, <1>6
<1>z. Len(a1) \in Nat /\ Len(a2) \in Nat /\ Len(a3) \in Nat /\ Len(a4) \in Nat
  BY <1>0, <1>9
<1>10. \A i \in 1 .. Len(a4) : p[1 + i] = a4[i]
  <2> SUFFICES ASSUME NEW i \in 1 .. Len(a4) PROVE p[1 + i] = a4[i]
    OBVIOUS
  <2>1. 1 + i \in 1 .. Len(a5)
    BY <1>z, <1>6
  <2> QED
    BY <1>6, <1>8, <2>1
<1>11. \A i \in 1 .. Len(a3) : p[1 + i] = a3[i]
  <2> SUFFICES ASSUME NEW i \in 1 .. Len(a3) PROVE p[1 + i] = a3[i]
    OBVIOUS
  <2>1. i \in 1 .. Len(a4)
    BY <1>0, <1>9
  <2> QED
    BY <1>5, <1>10, <2>1
<1>12. \A i \in 1 .. Len(a2) : p[1 + i] = a2[i]
  <2> SUFFICES ASSUME NEW i \in 1 .. Len(a2) PROVE p[1 + i] = a2[i]
    OBVIOUS
  <2>1. i \in 1 .. Len(a3)
    BY <1>0, <1>9
  <2> QED
    BY <1>4, <1>11, <2>1
<1>13. \A i \in 1 .. Len(a1) : p[1 + i] = a1[i]
  <2> SUFFICES ASSUME NEW i \in 1 .. Len(a1) PROVE p[1 + i] = a1[i]
    OBVIOUS
  <2>1. i \in 1 .. Len(a2)
    BY <1>0, <1>9
  <2> QED
    BY <1>3, <1>12, <2>1
<1>14. p[1] = h /\ p[2] = o
  BY <1>0, <1>2, <1>6, <1>8, <1>9, <1>13
<1>15. \A j \in 1 .. Len(br) : p[2 + j] = br[j]
  <2> SUFFICES ASSUME NEW j \in 1 .. Len(br) PROVE p[2 + j] = br[j]
    OBVIOUS
  <2>1. 1 + j \in 1 .. Len(a1) /\ 1 + (1 + j) = 2 + j
    BY <1>0, <1>9
  <2> QED
    BY <1>2, <1>13, <2>1
<1>16. \A j \in 1 .. Len(f) : p[2 + Len(br) + j] = f[j]
  <2> SUFFICES ASSUME NEW j \in 1 .. Len(f) PROVE p[2 + Len(br) + j] = f[j]
    OBVIOUS
  <2>1. Len(a1) + j \in 1 .. Len(a2) /\ 1 + (Len(a1) + j) = 2 + Len(br) + j
    BY <1>0, <1>9
  <2> QED
    BY <1>3, <1>12, <2>1
<1>17. p[3 + Len(br) + Len(f)] = l
  <2>1. Len(a2) + 1 \in 1 .. Len(a3) /\ 1 + (Len(a2) + 1) = 3 + Len(br) + Len(f)
    BY <1>0, <1>9
  <2> QED
    BY <1>4, <1>11, <2>1
<1>18. \A j \in 1 .. Len(e) : p[3 + Len(br) + Len(f) + j] = e[j]
  <2> SUFFICES ASSUME NEW j \in 1 .. Len(e) PROVE p[3 + Len(br) + Len(f) + j] = e[j]
    OBVIOUS
  <2>1. Len(a3) + j \in 1 .. Len(a4) /\ 1 + (Len(a3) + j) = 3 + Len(br) + Len(f) + j
    BY <1>0, <1>9
  <2> QED
    BY <1>5, <1>10, <2>1
<1> QED
  <2>1. Len(p) = Len(br) + Len(f) + Len(e) + 4
    BY <1>0, <1>8, <1>9
  <2>2. p[Len(br) + Len(f) + Len(e) + 4] = c
    BY <1>0, <1>8, <1>9
  <2> QED
    BY <1>8, <1>14, <1>15, <1>16, <1>17, <1>18, <2>1, <2>2 DEF LaidOut

Commas(toks, br) ==
  [k \in 1 .. Len(toks) - 1 |-> <<TokenPiece(toks[k]), Piece("comma", 0)>> \o br]

CommaShape(parts, toks, br) ==
  /\ parts \in Seq(Seq(Pieces))
  /\ Len(parts) = Len(toks) - 1
  /\ \A k \in 1 .. Len(toks) - 1 :
       /\ Len(parts[k]) = Len(br) + 2
       /\ parts[k][1] = TokenPiece(toks[k])
       /\ parts[k][2] = Piece("comma", 0)
       /\ \A j \in 1 .. Len(br) : parts[k][2 + j] = br[j]

(* The tokens behind each of which there is a comma, laid out. *)
LEMMA CommaParts ==
  ASSUME NEW toks \in Seq(Tokens), Len(toks) >= 1, NEW br \in Seq(Pieces),
         NEW parts, parts = Commas(toks, br)
  PROVE  CommaShape(parts, toks, br)
<1> DEFINE n == Len(toks) - 1
<1>0. n \in Nat /\ \A k \in 1 .. n : toks[k] \in Tokens
  OBVIOUS
<1> HIDE DEF n
<1>1. ASSUME NEW k \in 1 .. n
      PROVE  /\ parts[k] \in Seq(Pieces)
             /\ Len(parts[k]) = Len(br) + 2
             /\ parts[k][1] = TokenPiece(toks[k])
             /\ parts[k][2] = Piece("comma", 0)
             /\ \A j \in 1 .. Len(br) : parts[k][2 + j] = br[j]
  <2> DEFINE x == TokenPiece(toks[k])
             y == Piece("comma", 0)
             s == <<x, y>>
             r == s \o br
  <2>1. x \in Pieces /\ y \in Pieces
    BY <1>0, TokenPieceType, PieceType DEF Kinds
  <2>2. parts[k] = r
    BY DEF n, Commas
  <2> HIDE DEF x, y
  <2>3. s \in Seq(Pieces)
    BY <2>1
  <2>4. Len(s) = 2 /\ s[1] = x /\ s[2] = y
    OBVIOUS
  <2>5. r = s \o br
    OBVIOUS
  <2> HIDE DEF s, r
  <2>6. r \in Seq(Pieces)
    BY <2>3, <2>5
  <2>7. /\ Len(r) = Len(s) + Len(br)
        /\ \A i \in 1 .. Len(s) : r[i] = s[i]
        /\ \A j \in 1 .. Len(br) : r[Len(s) + j] = br[j]
    BY <2>3, <2>5
  <2>8. /\ Len(r) = Len(br) + 2 /\ r[1] = x /\ r[2] = y
        /\ \A j \in 1 .. Len(br) : r[2 + j] = br[j]
    BY <2>4, <2>7
  <2> QED
    BY <2>2, <2>6, <2>8 DEF x, y
<1>3. parts = [k \in 1 .. n |-> parts[k]]
  BY DEF n, Commas
<1>4. \A k \in 1 .. n : parts[k] \in Seq(Pieces)
  BY <1>1
<1>5. parts \in Seq(Seq(Pieces)) /\ Len(parts) = n
  <2> DEFINE T == Seq(Pieces)
  <2> HIDE DEF T
  <2>1. parts \in [1 .. n -> T]
    BY <1>3, <1>4 DEF T
  <2>2. parts \in Seq(T) /\ Len(parts) = n
    BY <1>0, <2>1
  <2> QED
    BY <2>2 DEF T
<1> QED
  BY <1>1, <1>5 DEF n, CommaShape

(* Where the tokens are in the text, and what is around them. *)
LEMMA TextShape ==
  ASSUME NEW toks \in Seq(Tokens), toks # << >>, NEW ind \in Int
  PROVE  /\ TokensText(toks, ind) \in Seq(Pieces)
         /\ TokensText(toks, ind)[1] = Piece("TokSeq", Len(toks))
         /\ \E pos \in [1 .. Len(toks) -> Int] :
              /\ Increases(pos, Len(toks))
              /\ \A k \in 1 .. Len(toks) :
                   /\ pos[k] \in 1 .. Len(TokensText(toks, ind))
                   /\ TokensText(toks, ind)[pos[k]] = TokenPiece(toks[k])
                   /\ k > 1 => TokensText(toks, ind)[pos[k - 1] + 1] = Piece("comma", 0)
                   /\ ind > 0 => /\ TokensText(toks, ind)[pos[k] - 2] = Piece("newline", 0)
                                 /\ TokensText(toks, ind)[pos[k] - 1] = Piece("pad", ind)
              /\ \A i \in 1 .. Len(TokensText(toks, ind)) :
                   TokensText(toks, ind)[i].kind \in {"StrLit", "Keyword"} =>
                     \E k \in 1 .. Len(toks) : i = pos[k]
<1> DEFINE p == TokensText(toks, ind)
           n == Len(toks)
           h == Piece("TokSeq", n)
           o == Piece("open", 0)
           c == Piece("close", 0)
           l == TokenPiece(Last(toks))
           br == Break(ind)
           e == Break(IF ind > 0 THEN 0 ELSE ind)
           parts == Commas(toks, br)
           f == FlattenSeq(parts)
           b == Len(br)
           fl == Len(f)
           el == Len(e)
           pl == Len(p)
<1>1. p = Laid(h, o, br, f, l, e, c)
  <2>1. p = <<h>> \o (IF toks = << >> THEN << >> ELSE <<o>> \o br \o f \o <<l>> \o e) \o <<c>>
    BY Zenon DEF TokensText, Commas
  <2> HIDE DEF h, o, br, f, l, e, c
  <2> QED
    BY <2>1 DEF Laid
<1>2. n \in Nat /\ n >= 1 /\ toks[n] \in Tokens /\ Last(toks) = toks[n]
  BY DEF Last
<1>3. h \in Pieces /\ o \in Pieces /\ c \in Pieces /\ l \in Pieces
  <2>1. h \in Pieces
    BY <1>2, PieceType DEF Kinds
  <2>2. o \in Pieces /\ c \in Pieces
    BY PieceType DEF Kinds
  <2>3. l \in Pieces
    BY <1>2, TokenPieceType
  <2> QED
    BY <2>1, <2>2, <2>3
<1>4. /\ br \in Seq(Pieces)
      /\ ind > 0 => br = <<Piece("newline", 0), Piece("pad", ind)>>
      /\ \A j \in 1 .. b : br[j].kind \notin {"StrLit", "Keyword"}
  BY BreakType
<1>5. e \in Seq(Pieces) /\ \A j \in 1 .. Len(e) : e[j].kind \notin {"StrLit", "Keyword"}
  <2>1. (IF ind > 0 THEN 0 ELSE ind) \in Int
    OBVIOUS
  <2> QED
    BY <2>1, BreakType
<1>b. b = Len(br) /\ n = Len(toks) /\ parts = Commas(toks, br) /\ f = FlattenSeq(parts)
  OBVIOUS
<1>n. fl = Len(f) /\ el = Len(e) /\ pl = Len(p)
  OBVIOUS
<1> HIDE DEF p, br, e, n, h, o, c, l, f, b, parts, fl, el, pl
<1>6. /\ parts \in Seq(Seq(Pieces))
      /\ Len(parts) = n - 1
      /\ \A k \in 1 .. n - 1 :
           /\ Len(parts[k]) = b + 2
           /\ parts[k][1] = TokenPiece(toks[k])
           /\ parts[k][2] = Piece("comma", 0)
           /\ \A j \in 1 .. b : parts[k][2 + j] = br[j]
  <2>1. br \in Seq(Pieces) /\ parts = Commas(toks, br)
    BY <1>b, <1>4
  <2>2. CommaShape(parts, toks, br)
    <3>1. Len(toks) >= 1
      OBVIOUS
    <3> QED
      BY <2>1, <3>1, CommaParts
  <2> QED
    BY <1>b, <2>2, Zenon DEF CommaShape
<1>7. f \in Seq(Pieces)
  BY <1>b, <1>6, FlattenedType
<1>8. PICK start \in [0 .. n - 1 -> Nat] :
        /\ start[0] = 0 /\ start[n - 1] = Len(f)
        /\ \A k \in 1 .. n - 1 :
             /\ start[k] = start[k - 1] + Len(parts[k])
             /\ start[k] <= Len(f)
             /\ \A j \in 1 .. Len(parts[k]) : f[start[k - 1] + j] = parts[k][j]
        /\ \A i \in 1 .. Len(f) : \E k \in 1 .. n - 1 : i - start[k - 1] \in 1 .. Len(parts[k])
  <2>1. \E start \in [0 .. Len(parts) -> Nat] :
          /\ start[0] = 0 /\ start[Len(parts)] = Len(FlattenSeq(parts))
          /\ \A k \in 1 .. Len(parts) :
               /\ start[k] = start[k - 1] + Len(parts[k])
               /\ start[k] <= Len(FlattenSeq(parts))
               /\ \A j \in 1 .. Len(parts[k]) : FlattenSeq(parts)[start[k - 1] + j] = parts[k][j]
          /\ \A i \in 1 .. Len(FlattenSeq(parts)) :
               \E k \in 1 .. Len(parts) : i - start[k - 1] \in 1 .. Len(parts[k])
    <3>1. parts \in Seq(Seq(Pieces))
      BY <1>6
    <3> QED
      BY <3>1, PartPlaces, Zenon
  <2>2. Len(parts) = n - 1
    BY <1>6
  <2>3. f = FlattenSeq(parts)
    BY <1>b
  <2> QED
    BY <2>1, <2>2, <2>3, ZenonT(60)
<1>c. /\ start[0] = 0 /\ start[n - 1] = fl
      /\ \A k \in 0 .. n - 1 : start[k] \in Nat
  BY <1>n, <1>8
<1>d. \A k \in 1 .. n - 1 : start[k] = start[k - 1] + Len(parts[k])
  BY <1>n, <1>8
<1>e. \A k \in 1 .. n - 1 : start[k] <= fl
  BY <1>n, <1>8
<1>9. /\ p \in Seq(Pieces)
      /\ pl = b + fl + el + 4
      /\ p[1] = h /\ p[2] = o
      /\ \A j \in 1 .. b : p[2 + j] = br[j]
      /\ \A j \in 1 .. fl : p[2 + b + j] = f[j]
      /\ p[3 + b + fl] = l
      /\ \A j \in 1 .. el : p[3 + b + fl + j] = e[j]
      /\ p[b + fl + el + 4] = c
  <2>1. LaidOut(Pieces, p, h, o, br, f, l, e, c)
    BY <1>1, <1>3, <1>4, <1>5, <1>7, TextLaid
  <2> QED
    BY <1>b, <1>n, <2>1 DEF LaidOut
<1>g. \A i \in 1 .. fl : \E k \in 1 .. n - 1 : i - start[k - 1] \in 1 .. b + 2
  <2> SUFFICES ASSUME NEW i \in 1 .. fl
               PROVE  \E k \in 1 .. n - 1 : i - start[k - 1] \in 1 .. b + 2
    OBVIOUS
  <2>1. PICK k \in 1 .. n - 1 : i - start[k - 1] \in 1 .. Len(parts[k])
    BY <1>n, <1>8
  <2>2. Len(parts[k]) = b + 2
    BY <1>6
  <2> QED
    BY <2>1, <2>2
<1>10. b \in Nat /\ fl \in Nat /\ el \in Nat
  BY <1>b, <1>n, <1>4, <1>5, <1>7
<1> DEFINE pos == [k \in 1 .. n |-> b + 3 + start[k - 1]]
<1>11. \A k \in 1 .. n :
         k - 1 \in 0 .. n - 1 /\ start[k - 1] \in Nat /\ pos[k] = b + 3 + start[k - 1]
  BY <1>2, <1>c
<1>12. pos \in [1 .. n -> Int]
  BY <1>10, <1>11
<1> HIDE DEF pos
<1>13. \A k \in 1 .. n - 1 : start[k] = start[k - 1] + (b + 2) /\ start[k] <= fl /\ start[k] \in Nat
  <2> SUFFICES ASSUME NEW k \in 1 .. n - 1
               PROVE  start[k] = start[k - 1] + (b + 2) /\ start[k] <= fl /\ start[k] \in Nat
    OBVIOUS
  <2>1. Len(parts[k]) = b + 2
    BY <1>6
  <2>2. k \in 0 .. n - 1
    OBVIOUS
  <2> QED
    BY <1>c, <1>d, <1>e, <2>1, <2>2
<1>14. Increases(pos, n)
  <2>1. \A k \in 1 .. n - 1 : pos[k] < pos[k + 1]
    <3> SUFFICES ASSUME NEW k \in 1 .. n - 1 PROVE pos[k] < pos[k + 1]
      OBVIOUS
    <3>1. k \in 1 .. n /\ k + 1 \in 1 .. n /\ k + 1 - 1 = k
      BY <1>2
    <3> QED
      BY <1>10, <1>11, <1>13, <3>1
  <2> QED
    BY <1>2, <1>12, <2>1, StepwiseIncreases
<1>15. \A k \in 1 .. n - 1 : \A j \in 1 .. b + 2 :
         /\ start[k - 1] + j \in 1 .. fl
         /\ f[start[k - 1] + j] = parts[k][j]
         /\ p[2 + b + (start[k - 1] + j)] = parts[k][j]
  <2> SUFFICES ASSUME NEW k \in 1 .. n - 1, NEW j \in 1 .. b + 2
               PROVE  /\ start[k - 1] + j \in 1 .. fl
                      /\ f[start[k - 1] + j] = parts[k][j]
                      /\ p[2 + b + (start[k - 1] + j)] = parts[k][j]
    OBVIOUS
  <2>1. start[k - 1] \in Nat
    BY <1>2, <1>11
  <2>2. start[k - 1] + j \in 1 .. fl
    BY <1>10, <1>13, <2>1
  <2>3. f[start[k - 1] + j] = parts[k][j]
    BY <1>6, <1>8
  <2> QED
    BY <1>9, <2>2, <2>3
<1>16. ASSUME NEW k \in 1 .. n
       PROVE  /\ pos[k] \in 1 .. pl
              /\ p[pos[k]] = TokenPiece(toks[k])
  <2>1. CASE k = n
    <3>1. pos[k] = 3 + b + fl
      BY <1>c, <1>10, <1>11, <2>1
    <3>2. l = TokenPiece(toks[k])
      BY <1>2, <2>1 DEF l
    <3>3. p[3 + b + fl] = l
      BY <1>9
    <3>4. 3 + b + fl \in 1 .. pl
      <4>1. pl = b + fl + el + 4
        BY <1>9
      <4> QED
        BY <1>10, <4>1
    <3> QED
      BY <3>1, <3>2, <3>3, <3>4
  <2>2. CASE k # n
    <3>1. k \in 1 .. n - 1 /\ 1 \in 1 .. b + 2
      BY <1>2, <1>10, <2>2
    <3>2. pos[k] = 2 + b + (start[k - 1] + 1)
      BY <1>10, <1>11
    <3>3. start[k - 1] + 1 \in 1 .. fl /\ p[pos[k]] = parts[k][1]
      BY <1>15, <3>1, <3>2
    <3>4. pos[k] \in 1 .. pl
      <4>1. pl = b + fl + el + 4
        BY <1>9
      <4> DEFINE i == start[k - 1] + 1
      <4>2. i \in 1 .. fl
        BY <3>3
      <4> HIDE DEF i
      <4>3. 2 + b + i \in 1 .. pl
        BY <1>10, <4>1, <4>2
      <4>4. pos[k] = 2 + b + i
        BY <3>2 DEF i
      <4> QED
        BY <4>3, <4>4
    <3> QED
      BY <1>6, <3>1, <3>3, <3>4
  <2> QED
    BY <2>1, <2>2
<1>17. ASSUME NEW k \in 1 .. n, k > 1
       PROVE  p[pos[k - 1] + 1] = Piece("comma", 0)
  <2>1. PICK m \in 1 .. n - 1 : m = k - 1
    BY <1>2, <1>17
  <2>2. m \in 1 .. n /\ 2 \in 1 .. b + 2
    BY <1>2, <1>10
  <2>3. pos[m] + 1 = 2 + b + (start[m - 1] + 2)
    <3>1. pos[m] = b + 3 + start[m - 1] /\ start[m - 1] \in Nat
      BY <1>11, <2>2
    <3> QED
      BY <1>10, <3>1
  <2>4. p[2 + b + (start[m - 1] + 2)] = parts[m][2]
    BY <1>15, <2>2
  <2>5. p[pos[m] + 1] = Piece("comma", 0)
    BY <1>6, <2>3, <2>4
  <2> QED
    BY <2>1, <2>5
<1>18. ASSUME NEW k \in 1 .. n, ind > 0
       PROVE  /\ p[pos[k] - 2] = Piece("newline", 0)
              /\ p[pos[k] - 1] = Piece("pad", ind)
  <2>1. b = 2 /\ br[1] = Piece("newline", 0) /\ br[2] = Piece("pad", ind)
    <3>1. br = <<Piece("newline", 0), Piece("pad", ind)>>
      BY <1>4, <1>18
    <3> QED
      BY <1>b, <3>1
  <2>2. CASE k = 1
    <3>1. pos[k] - 2 = 2 + 1 /\ pos[k] - 1 = 2 + 2
      BY <1>c, <1>11, <2>1, <2>2
    <3>2. p[2 + 1] = br[1] /\ p[2 + 2] = br[2]
      <4>1. 1 \in 1 .. b /\ 2 \in 1 .. b
        BY <2>1
      <4> QED
        BY <1>9, <4>1
    <3> QED
      BY <2>1, <3>1, <3>2
  <2>3. CASE k # 1
    <3>0. PICK m \in 1 .. n - 1 : m = k - 1
      BY <1>2, <2>3
    <3>1. m \in 1 .. n /\ 3 \in 1 .. b + 2 /\ 4 \in 1 .. b + 2
      BY <1>2, <2>1
    <3>2. start[m] = start[m - 1] + 4 /\ start[m - 1] \in Nat
      BY <1>11, <1>13, <2>1, <3>1
    <3>3. pos[k] = 5 + start[m]
      BY <1>11, <2>1, <3>0
    <3> DEFINE i == start[m - 1]
    <3>4. pos[k] - 2 = 2 + b + (i + 3) /\ pos[k] - 1 = 2 + b + (i + 4)
      <4>1. pos[k] = 5 + (i + 4) /\ i \in Nat
        BY <3>2, <3>3
      <4> HIDE DEF i
      <4> QED
        BY <2>1, <4>1
    <3>5. p[pos[k] - 2] = parts[m][3] /\ p[pos[k] - 1] = parts[m][4]
      BY <1>15, <3>1, <3>4
    <3>6. parts[m][3] = br[1] /\ parts[m][4] = br[2]
      <4>1. \A j \in 1 .. b : parts[m][2 + j] = br[j]
        BY <1>6
      <4>2. 1 \in 1 .. b /\ 2 \in 1 .. b /\ 2 + 1 = 3 /\ 2 + 2 = 4
        BY <2>1
      <4> QED
        BY <4>1, <4>2
    <3> QED
      BY <2>1, <3>5, <3>6
  <2> QED
    BY <2>2, <2>3
<1>19. ASSUME NEW i \in 1 .. pl, p[i].kind \in {"StrLit", "Keyword"}
       PROVE  \E k \in 1 .. n : i = pos[k]
  <2>0. i \in Nat /\ \A q \in 1 .. b : br[q].kind \notin {"StrLit", "Keyword"}
    BY <1>4
  <2>1. CASE i <= 2 + b
    <3>1. i # 1 /\ i # 2
      <4>1. h.kind = "TokSeq" /\ o.kind = "open"
        BY DEF h, o, Piece
      <4> QED
        BY <1>9, <1>19, <4>1
    <3>2. i - 2 \in 1 .. b /\ i = 2 + (i - 2)
      BY <1>10, <2>0, <2>1, <3>1
    <3>3. p[i] = br[i - 2]
      BY <1>9, <3>2
    <3> QED
      BY <1>19, <2>0, <3>2, <3>3
  <2>2. CASE i > 2 + b /\ i <= 2 + b + fl
    <3> DEFINE q == i - 2 - b
    <3>1. q \in 1 .. fl /\ i = 2 + b + q
      BY <1>10, <2>0, <2>2
    <3> HIDE DEF q
    <3>2. PICK k \in 1 .. n - 1 : q - start[k - 1] \in 1 .. b + 2
      BY <1>g, <3>1
    <3>3. start[k - 1] \in Nat /\ k \in 1 .. n
      BY <1>2, <1>11
    <3>4. PICK j \in 1 .. b + 2 : j = q - start[k - 1]
      BY <3>2, <3>3
    <3>5. q = start[k - 1] + j
      BY <3>1, <3>3, <3>4
    <3>6. p[i] = parts[k][j]
      BY <1>15, <3>1, <3>5
    <3>7. j = 1
      <4>1. j # 2
        <5>1. Piece("comma", 0).kind = "comma"
          BY DEF Piece
        <5> QED
          BY <1>6, <1>19, <3>6, <5>1
      <4>2. ~ (j > 2)
        <5> SUFFICES ASSUME j > 2 PROVE FALSE
          OBVIOUS
        <5>1. j - 2 \in 1 .. b /\ 2 + (j - 2) = j
          BY <1>10
        <5>2. parts[k][j] = br[j - 2]
          BY <1>6, <5>1
        <5> QED
          BY <1>19, <2>0, <3>6, <5>1, <5>2
      <4> QED
        BY <4>1, <4>2
    <3>8. i = pos[k]
      <4>1. pos[k] = b + 3 + start[k - 1]
        BY <1>11, <3>3
      <4> DEFINE u == start[k - 1]
      <4>2. pos[k] = b + 3 + u /\ u \in Nat /\ i = 2 + b + (u + 1)
        BY <3>1, <3>3, <3>5, <3>7, <4>1
      <4> HIDE DEF u
      <4> QED
        BY <1>10, <4>2
    <3> QED
      BY <3>3, <3>8
  <2>3. CASE i = 3 + b + fl
    <3>1. n \in 1 .. n /\ pos[n] = 3 + b + fl
      BY <1>2, <1>c, <1>10, <1>11
    <3>2. i = pos[n]
      BY <1>10, <2>3, <3>1
    <3> QED
      BY <3>1, <3>2, Zenon
  <2>4. CASE i > 3 + b + fl
    <3>1. i # b + fl + el + 4
      <4>1. c.kind = "close"
        BY DEF c, Piece
      <4> QED
        BY <1>9, <1>19, <4>1
    <3> DEFINE q == i - 3 - b - fl
    <3>2. q \in 1 .. el /\ i = 3 + b + fl + q
      BY <1>9, <1>10, <2>0, <2>4, <3>1
    <3> HIDE DEF q
    <3>3. p[i] = e[q]
      BY <1>9, <3>2
    <3>4. e[q].kind \notin {"StrLit", "Keyword"}
      BY <1>n, <1>5, <3>2, Zenon
    <3> QED
      BY <1>19, <3>3, <3>4
  <2> QED
    BY <1>10, <2>0, <2>1, <2>2, <2>3, <2>4
<1> QED
  <2>1. p \in Seq(Pieces) /\ p[1] = h
    BY <1>9
  <2> QED
    BY <1>12, <1>14, <1>16, <1>17, <1>18, <1>19, <2>1 DEF n, h, p, pl

(* What a text says of the tokens it is made of. *)
ReadFrom(p, toks, ind) ==
  LET at == InOrder({i \in DOMAIN p : p[i].kind \in {"StrLit", "Keyword"}})
  IN  /\ p[1] = Piece("TokSeq", Len(at))
      /\ Len(at) = Len(toks)
      /\ \A k \in DOMAIN at :
           LET tok == toks[k]
           IN  /\ p[at[k]].kind = tok.tag
               /\ tok.tag = "StrLit" => Quotes(p[at[k]].str, tok.str)
               /\ k > 1 => p[at[k - 1] + 1].kind = "comma"
               /\ ind > 0 =>
                    /\ p[at[k] - 2].kind = "newline"
                    /\ p[at[k] - 1] = Piece("pad", ind)

(* The tokens are read from their text. *)
LEMMA TextReadsBack ==
  ASSUME NEW toks \in Seq(Tokens), NEW ind \in Int
  PROVE  /\ TokensText(toks, ind) \in Seq(Pieces)
         /\ ReadFrom(TokensText(toks, ind), toks, ind)
<1> SUFFICES
      LET p == TokensText(toks, ind)
          at == InOrder({i \in DOMAIN p : p[i].kind \in {"StrLit", "Keyword"}})
      IN  /\ p \in Seq(Pieces)
          /\ p[1] = Piece("TokSeq", Len(at))
          /\ Len(at) = Len(toks)
          /\ \A k \in DOMAIN at :
               LET tok == toks[k]
               IN  /\ p[at[k]].kind = tok.tag
                   /\ tok.tag = "StrLit" => Quotes(p[at[k]].str, tok.str)
                   /\ k > 1 => p[at[k - 1] + 1].kind = "comma"
                   /\ ind > 0 =>
                        /\ p[at[k] - 2].kind = "newline"
                        /\ p[at[k] - 1] = Piece("pad", ind)
  BY Zenon DEF ReadFrom
<1> DEFINE p == TokensText(toks, ind)
           P == {i \in DOMAIN p : p[i].kind \in {"StrLit", "Keyword"}}
           at == InOrder(P)
<1>1. CASE toks = << >>
  <2> DEFINE h == Piece("TokSeq", 0)
             c == Piece("close", 0)
  <2>1. p = <<h>> \o << >> \o <<c>>
    <3>1. Len(toks) = 0
      BY <1>1
    <3>2. p = <<Piece("TokSeq", Len(toks))>> \o << >> \o <<Piece("close", 0)>>
      BY <1>1 DEF TokensText
    <3> QED
      BY <3>1, <3>2
  <2>2. h \in Pieces /\ c \in Pieces
    BY PieceType DEF Kinds
  <2>3. h.kind = "TokSeq" /\ c.kind = "close"
    BY DEF Piece
  <2> HIDE DEF h, c, p
  <2>4. p = <<h, c>>
    <3>1. <<h>> \o << >> = <<h>>
      BY <2>2
    <3> QED
      BY <2>1, <2>2, <3>1, Pair
  <2>5. p \in Seq(Pieces) /\ DOMAIN p = 1 .. 2 /\ p[1] = h /\ p[2] = c
    BY <2>2, <2>4
  <2>6. P = {}
    BY <2>3, <2>5
  <2>7. at = << >>
    <3> DEFINE g == [i \in 1 .. 0 |-> i]
    <3>1. g \in [1 .. 0 -> Int] /\ Increases(g, 0)
      BY DEF Increases
    <3>2. P = {g[i] : i \in 1 .. 0}
      BY <2>6
    <3>3. InOrder(P) = g
      BY <3>1, <3>2, InOrderIs
    <3> QED
      BY <3>3
  <2>8. Len(at) = 0 /\ DOMAIN at = {} /\ Len(toks) = 0
    BY <1>1, <2>7
  <2> HIDE DEF at, P
  <2>9. p[1] = Piece("TokSeq", Len(at))
    BY <2>5, <2>8 DEF h
  <2> QED
    BY <2>5, <2>8, <2>9 DEF at, P, p
<1>2. CASE toks # << >>
  <2>1. /\ p \in Seq(Pieces) /\ p[1] = Piece("TokSeq", Len(toks))
        /\ \E pos \in [1 .. Len(toks) -> Int] :
             /\ Increases(pos, Len(toks))
             /\ \A k \in 1 .. Len(toks) :
                  /\ pos[k] \in 1 .. Len(p)
                  /\ p[pos[k]] = TokenPiece(toks[k])
                  /\ k > 1 => p[pos[k - 1] + 1] = Piece("comma", 0)
                  /\ ind > 0 => /\ p[pos[k] - 2] = Piece("newline", 0)
                                /\ p[pos[k] - 1] = Piece("pad", ind)
             /\ \A i \in 1 .. Len(p) :
                  p[i].kind \in {"StrLit", "Keyword"} => \E k \in 1 .. Len(toks) : i = pos[k]
    BY <1>2, TextShape, Zenon
  <2> DEFINE n == Len(toks)
  <2>n. n \in Nat /\ \A k \in 1 .. n : toks[k] \in Tokens
    OBVIOUS
  <2> HIDE DEF p, n
  <2>2. PICK pos \in [1 .. n -> Int] :
             /\ Increases(pos, n)
             /\ \A k \in 1 .. n :
                  /\ pos[k] \in 1 .. Len(p)
                  /\ p[pos[k]] = TokenPiece(toks[k])
                  /\ k > 1 => p[pos[k - 1] + 1] = Piece("comma", 0)
                  /\ ind > 0 => /\ p[pos[k] - 2] = Piece("newline", 0)
                                /\ p[pos[k] - 1] = Piece("pad", ind)
             /\ \A i \in 1 .. Len(p) :
                  p[i].kind \in {"StrLit", "Keyword"} => \E k \in 1 .. n : i = pos[k]
    BY <2>1, Zenon DEF n
  <2>3. \A k \in 1 .. n : p[pos[k]].kind = toks[k].tag /\ toks[k].tag \in {"StrLit", "Keyword"}
    BY <2>n, <2>2, TokenPieceType DEF Tokens
  <2>4. DOMAIN p = 1 .. Len(p)
    BY <2>1
  <2>5. P = {pos[k] : k \in 1 .. n}
    BY <2>2, <2>3, <2>4
  <2>6. at = pos
    BY <2>n, <2>2, <2>5, InOrderIs
  <2>7. pos \in Seq(Int) /\ Len(pos) = n /\ DOMAIN pos = 1 .. n
    BY <2>n, <2>2
  <2>8. ASSUME NEW k \in 1 .. n
        PROVE  /\ p[pos[k]].kind = toks[k].tag
               /\ toks[k].tag = "StrLit" => Quotes(p[pos[k]].str, toks[k].str)
               /\ k > 1 => p[pos[k - 1] + 1].kind = "comma"
               /\ ind > 0 => p[pos[k] - 2].kind = "newline" /\ p[pos[k] - 1] = Piece("pad", ind)
    <3>1. Piece("comma", 0).kind = "comma" /\ Piece("newline", 0).kind = "newline"
      BY DEF Piece
    <3>2. p[pos[k]] = TokenPiece(toks[k])
      BY <2>2
    <3>3. toks[k].tag = "StrLit" => Quotes(p[pos[k]].str, toks[k].str)
      BY <2>n, <3>2, TokenPieceType
    <3>4. k > 1 => p[pos[k - 1] + 1] = Piece("comma", 0)
      BY <2>2
    <3>5. ind > 0 => p[pos[k] - 2] = Piece("newline", 0) /\ p[pos[k] - 1] = Piece("pad", ind)
      BY <2>2
    <3> QED
      BY <2>3, <3>1, <3>3, <3>4, <3>5
  <2> HIDE DEF at, P
  <2>9. /\ p \in Seq(Pieces)
        /\ p[1] = Piece("TokSeq", Len(at))
        /\ Len(at) = Len(toks)
        /\ \A k \in DOMAIN at :
             /\ p[at[k]].kind = toks[k].tag
             /\ toks[k].tag = "StrLit" => Quotes(p[at[k]].str, toks[k].str)
             /\ k > 1 => p[at[k - 1] + 1].kind = "comma"
             /\ ind > 0 =>
                  /\ p[at[k] - 2].kind = "newline"
                  /\ p[at[k] - 1] = Piece("pad", ind)
    <3>1. Len(at) = Len(toks) /\ DOMAIN at = 1 .. n
      BY <2>6, <2>7 DEF n
    <3>2. p[1] = Piece("TokSeq", Len(at))
      BY <2>1, <3>1
    <3> QED
      BY <2>1, <2>6, <2>8, <3>1, <3>2
  <2> QED
    BY <2>9, Zenon DEF at, P, p
<1> QED
  BY <1>1, <1>2

-----------------------------------------------------------------------------
(* The walk through a tree. *)

Frames == [node : Nat, called : Nat, printed : BOOLEAN]

(* The children of a node are below it, and called in the order of their   *)
(* places.                                                                 *)
LEMMA ChildrenFacts ==
  ASSUME NEW tree \in Seq(Nat), NEW node
  PROVE  /\ Len(Children(tree, node)) \in Nat
         /\ Increases(Children(tree, node), Len(Children(tree, node)))
         /\ \A k \in 1 .. Len(Children(tree, node)) :
              /\ Children(tree, node)[k] \in 1 .. Len(tree)
              /\ IsAbove(tree, node, Children(tree, node)[k])
              /\ tree[Children(tree, node)[k]] = tree[node] + 1
<1> DEFINE S == {n \in 1 .. Len(tree) : IsAbove(tree, node, n) /\ tree[n] = tree[node] + 1}
           N == Len(tree)
           c == InOrder(S)
           m == Len(c)
<1>1. N \in Nat /\ S \in SUBSET (1 .. N)
  OBVIOUS
<1>2. /\ m \in Nat
      /\ c \in Seq(S)
      /\ Increases(c, m)
  <2> HIDE DEF S, N
  <2> QED
    BY <1>1, InOrderFacts
<1>3. Children(tree, node) = c
  BY DEF Children
<1> HIDE DEF c
<1>4. \A k \in 1 .. m : c[k] \in S
  <2> HIDE DEF S
  <2> QED
    BY <1>2
<1> HIDE DEF m
<1>5. \A k \in 1 .. m :
        c[k] \in 1 .. Len(tree) /\ IsAbove(tree, node, c[k]) /\ tree[c[k]] = tree[node] + 1
  BY <1>4
<1> QED
  BY <1>2, <1>3, <1>5 DEF m

(* To be above a node is transitive. *)
LEMMA AboveAbove ==
  ASSUME NEW tree \in Seq(Nat),
         NEW c \in 1 .. Len(tree), NEW n \in 1 .. Len(tree), NEW m \in 1 .. Len(tree),
         IsAbove(tree, m, n), IsAbove(tree, n, c)
  PROVE  IsAbove(tree, m, c)
<1>1. m < n /\ n < c
  BY DEF IsAbove
<1>2. \A i \in 1 .. Len(tree) : tree[i] \in Nat
  OBVIOUS
<1>3. ASSUME NEW i \in m + 1 .. c PROVE tree[i] > tree[m]
  <2>0. i \in 1 .. Len(tree) /\ n \in m + 1 .. n
    BY <1>1
  <2>n. tree[m] \in Nat /\ tree[n] \in Nat /\ tree[i] \in Nat
    BY <1>2, <2>0
  <2>1. tree[n] > tree[m]
    BY <2>0 DEF IsAbove
  <2>2. CASE i <= n
    <3>1. i \in m + 1 .. n
      BY <2>2
    <3> QED
      BY <3>1 DEF IsAbove
  <2>3. CASE i > n
    <3>1. i \in n + 1 .. c
      BY <2>3
    <3>2. tree[i] > tree[n]
      BY <3>1 DEF IsAbove
    <3> QED
      BY <2>n, <2>1, <3>2
  <2> QED
    BY <2>2, <2>3
<1> QED
  BY <1>1, <1>3 DEF IsAbove

(* The frames are on the way from the root to the node of the running call, *)
(* each in the middle of the call for its successor.                       *)
Walk(tree, fs) ==
  /\ Len(fs) >= 1
  /\ fs[Len(fs)].node = 1
  /\ \A i \in 1 .. Len(fs) : fs[i].node \in 1 .. Len(tree) /\ tree[fs[i].node] = Len(fs) - i
  /\ \A i \in 2 .. Len(fs) :
       /\ fs[i].printed
       /\ fs[i].called \in 1 .. Len(Children(tree, fs[i].node))
       /\ Children(tree, fs[i].node)[fs[i].called] = fs[i - 1].node
  /\ \A i, j \in 1 .. Len(fs) : i < j => IsAbove(tree, fs[j].node, fs[i].node)

(* What is above the running call's node has a frame below. *)
LEMMA AboveHasFrame ==
  ASSUME NEW tree \in Seq(Nat), NEW fs \in Seq(Frames), Walk(tree, fs),
         NEW m \in 1 .. Len(tree), IsAbove(tree, m, fs[1].node)
  PROVE  \E i \in 2 .. Len(fs) : fs[i].node = m
<1> DEFINE L == Len(fs)
           c == fs[1].node
<1>0. \A i \in 1 .. Len(tree) : tree[i] \in Nat
  OBVIOUS
<1>1. L \in Nat /\ L >= 1 /\ fs[L].node = 1
  BY DEF Walk
<1>2. \A i \in 1 .. L : fs[i].node \in 1 .. Len(tree) /\ tree[fs[i].node] = L - i
  BY DEF Walk
<1>3. \A i, j \in 1 .. L : i < j => IsAbove(tree, fs[j].node, fs[i].node)
  BY DEF Walk
<1>a. \A i \in 1 .. L : tree[fs[i].node] = L - i
  BY <1>2
<1>b. \A i \in 1 .. L : fs[i].node \in Nat
  BY <1>2
<1>c. c \in Nat
  <2>1. 1 \in 1 .. L
    BY <1>1
  <2> QED
    BY <1>b, <2>1
<1> HIDE DEF L
<1>4. m < c
  BY DEF IsAbove
<1> DEFINE T == {i \in 1 .. L : fs[i].node <= m}
<1>5. T \in SUBSET Nat /\ L \in T
  BY <1>1
<1>6. PICK i \in T : \A k \in T : i <= k
  <2> HIDE DEF T
  <2> QED
    BY <1>5, LeastNat
<1>7. i \in 1 .. L /\ fs[i].node <= m /\ i # 1
  BY <1>1, <1>2, <1>4, <1>6
<1>8. PICK h \in 1 .. L : h = i - 1
  BY <1>1, <1>7
<1>9. ~ (fs[h].node <= m)
  BY <1>6, <1>7, <1>8
<1>10. SUFFICES ASSUME fs[i].node # m PROVE FALSE
  <2>1. i \in 2 .. Len(fs)
    BY <1>1, <1>7 DEF L
  <2> QED
    BY <2>1
<1>11. fs[i].node < m /\ m < fs[h].node
  BY <1>2, <1>7, <1>9, <1>10
<1>12. tree[m] > tree[fs[i].node]
  <2>1. IsAbove(tree, fs[i].node, fs[h].node)
    BY <1>3, <1>7, <1>8
  <2>2. m \in fs[i].node + 1 .. fs[h].node
    <3> DEFINE u == fs[i].node
               v == fs[h].node
    <3>1. u \in Nat /\ v \in Nat /\ m \in Nat
      BY <1>b, <1>7
    <3>2. u < m /\ m < v
      BY <1>11
    <3> HIDE DEF u, v
    <3>3. m \in u + 1 .. v
      BY <3>1, <3>2
    <3> QED
      BY <3>3 DEF u, v
  <2> QED
    BY <2>1, <2>2 DEF IsAbove
<1>13. tree[fs[h].node] = tree[fs[i].node] + 1
  <2>1. tree[fs[h].node] = L - h /\ tree[fs[i].node] = L - i
    BY <1>a, <1>7
  <2> QED
    BY <1>1, <1>7, <1>8, <2>1
<1>14. tree[fs[h].node] > tree[m]
  <2>1. fs[h].node <= c
    <3>1. CASE h = 1
      <4>1. fs[h].node = c
        BY <3>1
      <4> QED
        BY <1>c, <4>1
    <3>2. CASE h # 1
      <4>1. IsAbove(tree, fs[h].node, c)
        BY <1>1, <1>3, <3>2
      <4>2. fs[h].node < c
        BY <4>1 DEF IsAbove
      <4> DEFINE v == fs[h].node
      <4>3. v \in Nat /\ c \in Nat /\ v < c
        BY <1>b, <1>c, <4>2
      <4> HIDE DEF v, c
      <4>4. v <= c
        BY <4>3
      <4> QED
        BY <4>4 DEF v
    <3> QED
      BY <3>1, <3>2
  <2>2. fs[h].node \in m + 1 .. c
    <3>1. fs[h].node \in Nat /\ c \in Nat
      BY <1>b, <1>c
    <3> QED
      BY <1>11, <2>1, <3>1
  <2> QED
    BY <2>2 DEF IsAbove
<1> QED
  <2>1. tree[m] \in Nat /\ tree[fs[i].node] \in Nat
    BY <1>0, <1>2, <1>7
  <2> QED
    BY <1>12, <1>13, <1>14, <2>1

(* What is still to be called is behind the running call's node. *)
LEMMA NextIsBehind ==
  ASSUME NEW tree \in Seq(Nat), NEW fs \in Seq(Frames), Walk(tree, fs), NEW i \in 1 .. Len(fs),
         fs[i].called < Len(Children(tree, fs[i].node))
  PROVE  fs[1].node < Children(tree, fs[i].node)[fs[i].called + 1]
<1> DEFINE L == Len(fs)
           c == fs[1].node
           ch == Children(tree, fs[i].node)
           k == fs[i].called
           n == Len(ch)
<1>0. \A j \in 1 .. Len(tree) : tree[j] \in Nat
  OBVIOUS
<1>1. L \in Nat /\ L >= 1
  BY DEF Walk
<1>2. \A j \in 1 .. L : fs[j].node \in 1 .. Len(tree)
  BY DEF Walk
<1>3. \A h, j \in 1 .. L : h < j => IsAbove(tree, fs[j].node, fs[h].node)
  BY DEF Walk
<1>4. k \in Nat
  <2>1. fs[i] \in Frames
    OBVIOUS
  <2> QED
    BY <2>1 DEF Frames
<1>5. /\ n \in Nat
      /\ Increases(ch, n)
      /\ \A j \in 1 .. n : /\ ch[j] \in 1 .. Len(tree)
                           /\ IsAbove(tree, fs[i].node, ch[j])
                           /\ tree[ch[j]] = tree[fs[i].node] + 1
  BY ChildrenFacts
<1>6. i \in 2 .. L => k \in 1 .. n /\ ch[k] = fs[i - 1].node
  BY DEF Walk
<1>7. k < n /\ i \in 1 .. L
  OBVIOUS
<1> HIDE DEF L, ch, k, n, c
<1>8. k + 1 \in 1 .. n
  BY <1>4, <1>5, <1>7
<1> DEFINE q == ch[k + 1]
<1>9. /\ q \in 1 .. Len(tree) /\ IsAbove(tree, fs[i].node, q)
      /\ tree[q] = tree[fs[i].node] + 1
  BY <1>5, <1>8
<1> HIDE DEF q
<1>10. c < q
  <2>0. c \in Nat /\ q \in Nat
    BY <1>1, <1>2, <1>9 DEF c
  <2>1. CASE i = 1
    <3>1. IsAbove(tree, c, q)
      BY <1>9, <2>1 DEF c
    <3> QED
      BY <3>1 DEF IsAbove
  <2>2. CASE i # 1
    <3>1. PICK h \in 1 .. L : h = i - 1
      BY <1>1, <1>7, <2>2
    <3> DEFINE r == ch[k]
    <3>2. k \in 1 .. n /\ r = fs[h].node
      BY <1>6, <1>7, <2>2, <3>1
    <3>3. r < q
      BY <1>5, <1>8, <3>2 DEF Increases, q
    <3>4. tree[r] = tree[q] /\ r \in 1 .. Len(tree)
      BY <1>5, <1>9, <3>2
    <3> HIDE DEF r
    <3>5. SUFFICES ASSUME q <= c PROVE FALSE
      BY <2>0
    <3>6. IsAbove(tree, r, c)
      <4>1. h # 1
        <5> SUFFICES ASSUME h = 1 PROVE FALSE
          OBVIOUS
        <5>1. r = c
          BY <3>2 DEF c
        <5> QED
          BY <2>0, <3>3, <3>5, <5>1
      <4> QED
        BY <1>1, <1>3, <3>1, <3>2, <4>1 DEF c
    <3>7. q \in r + 1 .. c
      BY <2>0, <3>3, <3>4, <3>5
    <3>8. tree[q] > tree[r]
      BY <3>6, <3>7 DEF IsAbove
    <3>9. tree[q] \in Nat
      BY <1>0, <1>9
    <3> QED
      BY <3>4, <3>8, <3>9
  <2> QED
    BY <2>1, <2>2
<1> QED
  BY <1>10 DEF c, q, ch, k

(* The stack of frames after a return, a change of its top, and a call. *)
Popped(s, t) == Len(t) = Len(s) - 1 /\ \A i \in 1 .. Len(t) : t[i] = s[i + 1]

Changed(s, x, t) == Len(t) = Len(s) /\ t[1] = x /\ \A i \in 2 .. Len(s) : t[i] = s[i]

Pushed(s, x, y, t) ==
  Len(t) = Len(s) + 1 /\ t[1] = x /\ t[2] = y /\ \A i \in 3 .. Len(t) : t[i] = s[i - 1]

(* The frames that are left when a call returns. *)
LEMMA TailPops ==
  ASSUME NEW s \in Seq(Frames), Len(s) >= 1
  PROVE  Tail(s) \in Seq(Frames) /\ Popped(s, Tail(s))
<1> DEFINE t == Tail(s)
<1>1. t \in Seq(Frames) /\ Len(t) = Len(s) - 1 /\ \A i \in 1 .. Len(s) - 1 : t[i] = s[i + 1]
  OBVIOUS
<1> HIDE DEF t
<1>2. Popped(s, t)
  BY <1>1 DEF Popped
<1> QED
  BY <1>1, <1>2 DEF t

(* The frames after the running call has changed its own. *)
LEMMA TopChanges ==
  ASSUME NEW s \in Seq(Frames), Len(s) >= 1, NEW x \in Frames
  PROVE  <<x>> \o Tail(s) \in Seq(Frames) /\ Changed(s, x, <<x>> \o Tail(s))
<1> DEFINE r == Tail(s)
           X == <<x>>
           t == X \o r
<1>1. r \in Seq(Frames) /\ Popped(s, r)
  BY TailPops
<1>2. X \in Seq(Frames)
  OBVIOUS
<1>3. Len(X) = 1 /\ X[1] = x
  OBVIOUS
<1>4. t = X \o r
  OBVIOUS
<1>l. Len(s) \in Nat
  OBVIOUS
<1> HIDE DEF X, r, t
<1>5. t \in Seq(Frames)
  BY <1>1, <1>2, <1>4
<1>6. /\ Len(t) = Len(X) + Len(r)
      /\ \A i \in 1 .. Len(X) : t[i] = X[i]
      /\ \A i \in 1 .. Len(r) : t[Len(X) + i] = r[i]
  BY <1>1, <1>2, <1>4
<1> DEFINE m == Len(r)
           n == Len(s)
<1>7. Len(t) = 1 + m /\ t[1] = x /\ \A i \in 1 .. m : t[1 + i] = r[i]
  BY <1>3, <1>6
<1>8. m = n - 1 /\ \A i \in 1 .. m : r[i] = s[i + 1]
  BY <1>1 DEF Popped
<1>9. n \in Nat
  BY <1>l
<1> HIDE DEF m, n
<1>10. ASSUME NEW i \in 2 .. n PROVE t[i] = s[i]
  <2> DEFINE k == i - 1
  <2>1. k \in 1 .. m /\ i = 1 + k /\ i = k + 1
    BY <1>8, <1>9
  <2> HIDE DEF k
  <2> QED
    BY <1>7, <1>8, <2>1
<1>11. Len(t) = n
  BY <1>7, <1>8, <1>9
<1>12. Changed(s, x, t)
  BY <1>7, <1>10, <1>11 DEF Changed, n
<1> QED
  BY <1>5, <1>12 DEF t, X, r

(* The frames after the running call has called another. *)
LEMMA FramePushed ==
  ASSUME NEW s \in Seq(Frames), Len(s) >= 1, NEW x \in Frames, NEW y \in Frames
  PROVE  <<x, y>> \o Tail(s) \in Seq(Frames) /\ Pushed(s, x, y, <<x, y>> \o Tail(s))
<1> DEFINE r == Tail(s)
           X == <<x, y>>
           t == X \o r
<1>1. r \in Seq(Frames) /\ Popped(s, r)
  BY TailPops
<1>2. X \in Seq(Frames)
  OBVIOUS
<1>3. Len(X) = 2 /\ X[1] = x /\ X[2] = y
  OBVIOUS
<1>4. t = X \o r
  OBVIOUS
<1>l. Len(s) \in Nat
  OBVIOUS
<1> HIDE DEF X, r, t
<1>5. t \in Seq(Frames)
  BY <1>1, <1>2, <1>4
<1>6. /\ Len(t) = Len(X) + Len(r)
      /\ \A i \in 1 .. Len(X) : t[i] = X[i]
      /\ \A i \in 1 .. Len(r) : t[Len(X) + i] = r[i]
  BY <1>1, <1>2, <1>4
<1> DEFINE m == Len(r)
           n == Len(s)
<1>7. Len(t) = 2 + m /\ t[1] = x /\ t[2] = y /\ \A i \in 1 .. m : t[2 + i] = r[i]
  BY <1>3, <1>6
<1>8. m = n - 1 /\ \A i \in 1 .. m : r[i] = s[i + 1]
  BY <1>1 DEF Popped
<1>9. n \in Nat
  BY <1>l
<1> HIDE DEF m, n
<1>10. ASSUME NEW i \in 3 .. n + 1 PROVE t[i] = s[i - 1]
  <2> DEFINE k == i - 2
  <2>1. k \in 1 .. m /\ i = 2 + k /\ i - 1 = k + 1
    BY <1>8, <1>9
  <2> HIDE DEF k
  <2> QED
    BY <1>7, <1>8, <2>1
<1>11. Len(t) = n + 1
  BY <1>7, <1>8, <1>9
<1>12. Pushed(s, x, y, t)
  BY <1>7, <1>10, <1>11 DEF Pushed, n
<1> QED
  BY <1>5, <1>12 DEF t, X, r

(* The walk begins at the root. *)
LEMMA WalkBegins ==
  ASSUME NEW tree \in Trees
  PROVE  <<Frame(1)>> \in Seq(Frames) /\ Walk(tree, <<Frame(1)>>)
<1> DEFINE x == Frame(1)
           s == <<x>>
<1>1. x \in Frames /\ x.node = 1
  BY DEF Frame, Frames
<1>2. tree \in Seq(Nat) /\ tree # << >> /\ tree[1] = 0
  BY PrintingAssumption
<1>3. 1 \in 1 .. Len(tree)
  BY <1>2
<1> HIDE DEF x
<1>4. s \in Seq(Frames) /\ Len(s) = 1 /\ s[1] = x
  BY <1>1
<1> HIDE DEF s
<1>5. Walk(tree, s)
  BY <1>1, <1>2, <1>3, <1>4 DEF Walk
<1> QED
  BY <1>4, <1>5 DEF s, x

(* A call returns to a walk, to a frame whose line is printed. *)
LEMMA WalkPops ==
  ASSUME NEW tree \in Seq(Nat), NEW s \in Seq(Frames), Walk(tree, s), Len(s) # 1,
         NEW t, Popped(s, t)
  PROVE  Walk(tree, t) /\ t[1].printed
<1> DEFINE n == Len(s)
           m == Len(t)
<1>1. n \in Nat /\ n >= 2 /\ s[n].node = 1
  <2>1. n \in Nat /\ n # 1
    OBVIOUS
  <2>2. n >= 1 /\ s[n].node = 1
    BY DEF Walk
  <2> HIDE DEF n
  <2>3. n >= 2
    BY <2>1, <2>2
  <2> QED
    BY <2>1, <2>2, <2>3
<1>2. m = n - 1 /\ \A i \in 1 .. m : t[i] = s[i + 1]
  BY DEF Popped
<1>3. \A i \in 1 .. n : s[i].node \in 1 .. Len(tree)
  BY DEF Walk
<1>4. \A i \in 1 .. n : tree[s[i].node] = n - i
  BY DEF Walk
<1>5. \A i \in 2 .. n :
        /\ s[i].printed
        /\ s[i].called \in 1 .. Len(Children(tree, s[i].node))
        /\ Children(tree, s[i].node)[s[i].called] = s[i - 1].node
  BY DEF Walk
<1>6. \A i, j \in 1 .. n : i < j => IsAbove(tree, s[j].node, s[i].node)
  BY DEF Walk
<1> HIDE DEF n, m
<1>7. m >= 1 /\ t[m].node = 1
  <2>1. m \in 1 .. m /\ m + 1 = n
    BY <1>1, <1>2
  <2> QED
    BY <1>1, <1>2, <2>1
<1>8. ASSUME NEW i \in 1 .. m PROVE t[i].node \in 1 .. Len(tree) /\ tree[t[i].node] = m - i
  <2>1. i + 1 \in 1 .. n /\ n - (i + 1) = m - i /\ t[i] = s[i + 1]
    BY <1>1, <1>2
  <2> QED
    BY <1>3, <1>4, <2>1
<1>9. ASSUME NEW i \in 2 .. m
      PROVE  /\ t[i].printed
             /\ t[i].called \in 1 .. Len(Children(tree, t[i].node))
             /\ Children(tree, t[i].node)[t[i].called] = t[i - 1].node
  <2>1. PICK k \in 2 .. n : k = i + 1 /\ k - 1 = (i - 1) + 1
    BY <1>1, <1>2
  <2>2. t[i] = s[k] /\ t[i - 1] = s[k - 1]
    <3>1. i \in 1 .. m /\ i - 1 \in 1 .. m
      BY <1>1, <1>2
    <3> QED
      BY <1>2, <2>1, <3>1
  <2> QED
    BY <1>5, <2>2
<1>10. ASSUME NEW i \in 1 .. m, NEW j \in 1 .. m, i < j
       PROVE  IsAbove(tree, t[j].node, t[i].node)
  <2>1. i + 1 \in 1 .. n /\ j + 1 \in 1 .. n /\ i + 1 < j + 1
    BY <1>1, <1>2, <1>10
  <2>2. t[i] = s[i + 1] /\ t[j] = s[j + 1]
    BY <1>2
  <2> QED
    BY <1>6, <2>1, <2>2
<1>11. t[1].printed
  <2>1. t[1] = s[2] /\ 2 \in 2 .. n
    BY <1>1, <1>2
  <2> QED
    BY <1>5, <2>1
<1> QED
  BY <1>7, <1>8, <1>9, <1>10, <1>11 DEF Walk, m

(* The running call may change anything of its frame but the node. *)
LEMMA WalkChanges ==
  ASSUME NEW tree \in Seq(Nat), NEW s \in Seq(Frames), Walk(tree, s),
         NEW x \in Frames, x.node = s[1].node, NEW t, Changed(s, x, t)
  PROVE  Walk(tree, t)
<1> DEFINE n == Len(s)
<1>1. n \in Nat /\ n >= 1 /\ s[n].node = 1
  BY DEF Walk
<1>2. Len(t) = n /\ t[1] = x /\ \A i \in 2 .. n : t[i] = s[i]
  BY DEF Changed
<1>3. \A i \in 1 .. n : s[i].node \in 1 .. Len(tree) /\ tree[s[i].node] = n - i
  BY DEF Walk
<1>5. \A i \in 2 .. n :
        /\ s[i].printed
        /\ s[i].called \in 1 .. Len(Children(tree, s[i].node))
        /\ Children(tree, s[i].node)[s[i].called] = s[i - 1].node
  BY DEF Walk
<1>6. \A i, j \in 1 .. n : i < j => IsAbove(tree, s[j].node, s[i].node)
  BY DEF Walk
<1> HIDE DEF n
<1>7. \A i \in 1 .. n : t[i].node = s[i].node
  <2> SUFFICES ASSUME NEW i \in 1 .. n PROVE t[i].node = s[i].node
    OBVIOUS
  <2>1. i = 1 \/ i \in 2 .. n
    BY <1>1
  <2> QED
    BY <1>2, <2>1
<1>8. ASSUME NEW i \in 2 .. n
      PROVE  /\ t[i].printed
             /\ t[i].called \in 1 .. Len(Children(tree, t[i].node))
             /\ Children(tree, t[i].node)[t[i].called] = t[i - 1].node
  <2>1. i - 1 \in 1 .. n /\ t[i] = s[i]
    BY <1>1, <1>2
  <2> QED
    BY <1>5, <1>7, <2>1
<1>9. t[n].node = 1
  BY <1>1, <1>7
<1> QED
  BY <1>1, <1>2, <1>3, <1>6, <1>7, <1>8, <1>9 DEF Walk

(* The running call may call for its next child. *)
LEMMA WalkPushes ==
  ASSUME NEW tree \in Seq(Nat), NEW s \in Seq(Frames), Walk(tree, s), s[1].printed,
         s[1].called < Len(Children(tree, s[1].node)),
         NEW x, x.node = Children(tree, s[1].node)[s[1].called + 1],
         NEW y \in Frames, y.node = s[1].node, y.printed, y.called = s[1].called + 1,
         NEW t, Pushed(s, x, y, t)
  PROVE  Walk(tree, t)
<1> DEFINE n == Len(s)
           m == Len(t)
           ch == Children(tree, s[1].node)
           k == s[1].called
           l == Len(ch)
<1>1. n \in Nat /\ n >= 1 /\ s[n].node = 1
  BY DEF Walk
<1>2. m = n + 1 /\ t[1] = x /\ t[2] = y /\ \A i \in 3 .. m : t[i] = s[i - 1]
  BY DEF Pushed
<1>3. \A i \in 1 .. n : s[i].node \in 1 .. Len(tree)
  BY DEF Walk
<1>4. \A i \in 1 .. n : tree[s[i].node] = n - i
  BY DEF Walk
<1>5. \A i \in 2 .. n :
        /\ s[i].printed
        /\ s[i].called \in 1 .. Len(Children(tree, s[i].node))
        /\ Children(tree, s[i].node)[s[i].called] = s[i - 1].node
  BY DEF Walk
<1>6. \A i, j \in 1 .. n : i < j => IsAbove(tree, s[j].node, s[i].node)
  BY DEF Walk
<1>7. /\ l \in Nat
      /\ \A j \in 1 .. l : ch[j] \in 1 .. Len(tree) /\ IsAbove(tree, s[1].node, ch[j])
                           /\ tree[ch[j]] = tree[s[1].node] + 1
  BY ChildrenFacts
<1>8. k \in Nat /\ k < l
  <2>1. s[1] \in Frames
    BY <1>1
  <2> QED
    BY <2>1 DEF Frames
<1>9. x.node = ch[k + 1] /\ y.called = k + 1
  OBVIOUS
<1> HIDE DEF n, m, ch, k, l
<1>10. k + 1 \in 1 .. l
  BY <1>7, <1>8
<1>11. /\ x.node \in 1 .. Len(tree) /\ IsAbove(tree, s[1].node, x.node)
       /\ tree[x.node] = tree[s[1].node] + 1
  BY <1>7, <1>9, <1>10
(* A frame behind the new one. *)
<1>12. ASSUME NEW i \in 2 .. m
       PROVE  i - 1 \in 1 .. n /\ t[i].node = s[i - 1].node
  <2>1. i - 1 \in 1 .. n
    BY <1>1, <1>2
  <2>2. i = 2 \/ i \in 3 .. m
    OBVIOUS
  <2> QED
    BY <1>2, <2>1, <2>2
<1>13. ASSUME NEW i \in 1 .. m
       PROVE  t[i].node \in 1 .. Len(tree) /\ tree[t[i].node] = m - i
  <2>1. CASE i = 1
    <3>1. tree[s[1].node] = n - 1
      BY <1>1, <1>4
    <3>2. t[i] = x
      BY <1>2, <2>1
    <3>3. tree[x.node] = m - i
      BY <1>1, <1>2, <1>11, <2>1, <3>1
    <3> QED
      BY <1>11, <3>2, <3>3
  <2>2. CASE i # 1
    <3>1. i \in 2 .. m
      BY <2>2
    <3>2. PICK j \in 1 .. n : j = i - 1 /\ t[i].node = s[j].node
      BY <1>12, <3>1
    <3>3. n - j = m - i
      BY <1>1, <1>2, <3>2
    <3>4. tree[s[j].node] = n - j /\ s[j].node \in 1 .. Len(tree)
      BY <1>3, <1>4
    <3>5. t[i].node \in 1 .. Len(tree)
      BY <3>2, <3>4, Zenon
    <3>6. tree[t[i].node] = m - i
      BY <3>2, <3>3, <3>4, Zenon
    <3> QED
      BY <3>5, <3>6
  <2> QED
    BY <2>1, <2>2
<1>14. ASSUME NEW i \in 2 .. m
       PROVE  /\ t[i].printed
              /\ t[i].called \in 1 .. Len(Children(tree, t[i].node))
              /\ Children(tree, t[i].node)[t[i].called] = t[i - 1].node
  <2>1. CASE i = 2
    <3>1. t[i] = y /\ t[i - 1] = x
      BY <1>2, <2>1
    <3>2. Children(tree, t[i].node) = ch
      BY <3>1 DEF ch
    <3> QED
      BY <1>9, <1>10, <3>1, <3>2 DEF l
  <2>2. CASE i # 2
    <3>1. PICK j \in 2 .. n : j = i - 1
      BY <1>1, <1>2, <2>2
    <3>2. t[i] = s[j] /\ t[j].node = s[j - 1].node /\ j \in 2 .. m
      <4>1. i \in 3 .. m /\ j \in 2 .. m
        BY <1>1, <1>2, <2>2, <3>1
      <4> QED
        BY <1>2, <1>12, <3>1, <4>1
    <3> QED
      BY <1>5, <3>1, <3>2
  <2> QED
    BY <2>1, <2>2
<1>15. ASSUME NEW i \in 1 .. m, NEW j \in 1 .. m, i < j
       PROVE  IsAbove(tree, t[j].node, t[i].node)
  <2>0. j \in 2 .. m
    BY <1>15
  <2>1. PICK b \in 1 .. n : b = j - 1 /\ t[j].node = s[b].node
    BY <1>12, <2>0
  <2>2. CASE i = 1
    <3>1. t[i].node = x.node
      BY <1>2, <2>2
    <3>2. CASE b = 1
      BY <1>11, <2>1, <3>1, <3>2
    <3>3. CASE b # 1
      <4>1. IsAbove(tree, s[b].node, s[1].node)
        BY <1>1, <1>6, <3>3
      <4>2. s[b].node \in 1 .. Len(tree) /\ s[1].node \in 1 .. Len(tree)
        BY <1>1, <1>3
      <4>3. IsAbove(tree, s[b].node, x.node)
        BY <1>11, <4>1, <4>2, AboveAbove
      <4> QED
        BY <2>1, <3>1, <4>3
    <3> QED
      BY <3>2, <3>3
  <2>3. CASE i # 1
    <3>1. i \in 2 .. m
      BY <2>3
    <3>2. PICK a \in 1 .. n : a = i - 1 /\ t[i].node = s[a].node
      BY <1>12, <3>1
    <3>3. a < b
      BY <1>15, <2>1, <3>2
    <3> QED
      BY <1>6, <2>1, <3>2, <3>3
  <2> QED
    BY <2>2, <2>3
<1>16. m >= 1 /\ t[m].node = 1
  <2>1. m \in 2 .. m /\ m - 1 = n
    BY <1>1, <1>2
  <2> QED
    BY <1>1, <1>12, <2>1
<1> QED
  BY <1>13, <1>14, <1>15, <1>16 DEF Walk, m

-----------------------------------------------------------------------------
(* The lines of a tree. *)

Labels(p) == {q \in DOMAIN p : p[q].kind = "label"}

LineAt(p, q, m) ==
  q \in Labels(p) /\ p[q].num = m /\ q + 1 \in DOMAIN p /\ p[q + 1].kind = "newline"

HasLine(p, m) == \E q \in Labels(p) : LineAt(p, q, m)

Lines(tree, ind, p) ==
  /\ \A q \in Labels(p) : p[q].num \in 1 .. Len(tree)
  /\ \A q, r \in Labels(p) : q < r => p[q].num < p[r].num
  /\ \A q \in Labels(p), m \in 1 .. Len(tree) :
       IsAbove(tree, m, p[q].num) => \E r \in Labels(p) : r < q /\ LineAt(p, r, m)
  /\ \A q \in Labels(p) :
       ind * tree[p[q].num] > 0 =>
         q - 1 \in DOMAIN p /\ p[q - 1] = Piece("pad", ind * tree[p[q].num])

(* r is a part of a node's line, which is indented by x if w is 1. *)
PartOfLine(r, w, x, c) ==
  /\ w \in {0, 1} /\ Len(r) \in 0 .. w + 2 /\ (w = 0 <=> x = 0)
  /\ \A i \in 1 .. Len(r) : r[i].kind = "label" => i = w + 1 /\ r[i].num = c
  /\ w = 1 /\ Len(r) >= 1 => r[1] = Piece("pad", x)
  /\ Len(r) = w + 2 => r[w + 1] = Piece("label", c) /\ r[w + 2] = Piece("newline", 0)

LineOf(x, c) ==
  (IF x = 0 THEN << >> ELSE <<Piece("pad", x)>>) \o <<Piece("label", c), Piece("newline", 0)>>

(* A line, and what is left of one when a push is refused. *)
LEMMA LineParts ==
  ASSUME NEW x \in Int, NEW c \in Int
  PROVE  \E w \in {0, 1} :
           /\ LineOf(x, c) \in Seq(Pieces) /\ Len(LineOf(x, c)) = w + 2
           /\ PartOfLine(LineOf(x, c), w, x, c)
           /\ \A n \in 0 .. w + 1 :
                /\ SubSeq(LineOf(x, c), 1, n) \in Seq(Pieces) /\ Len(SubSeq(LineOf(x, c), 1, n)) = n
                /\ PartOfLine(SubSeq(LineOf(x, c), 1, n), w, x, c)
<1> DEFINE d == Piece("pad", x)
           l == Piece("label", c)
           b == Piece("newline", 0)
           full == LineOf(x, c)
           w == IF x = 0 THEN 0 ELSE 1
<1>1. /\ d \in Pieces /\ l \in Pieces /\ b \in Pieces
      /\ d.kind = "pad" /\ l.kind = "label" /\ l.num = c /\ b.kind = "newline"
  <2>1. d \in Pieces /\ l \in Pieces /\ b \in Pieces
    BY PieceType DEF Kinds
  <2> QED
    BY <2>1 DEF Piece
<1>2. full = (IF x = 0 THEN << >> ELSE <<d>>) \o <<l, b>>
  BY DEF LineOf
<1> HIDE DEF d, l, b, full
<1>3. /\ full \in Seq(Pieces) /\ Len(full) = w + 2
      /\ w = 1 => full[1] = d
      /\ full[w + 1] = l /\ full[w + 2] = b
  <2>1. CASE x = 0
    <3>1. full = <<l, b>>
      BY <1>1, <1>2, <2>1
    <3>2. <<l, b>> \in Seq(Pieces) /\ Len(<<l, b>>) = 2 /\ <<l, b>>[1] = l /\ <<l, b>>[2] = b
      BY <1>1
    <3> QED
      BY <2>1, <3>1, <3>2
  <2>2. CASE x # 0
    <3>1. full = <<d>> \o <<l, b>>
      BY <1>2, <2>2
    <3>2. <<d>> \o <<l, b>> = <<d, l, b>>
      <4> DEFINE X == <<d>>
                 Y == <<l, b>>
                 r == X \o Y
      <4>1. X \in Seq(Pieces) /\ Y \in Seq(Pieces)
        BY <1>1
      <4>2. Len(X) = 1 /\ X[1] = d /\ Len(Y) = 2 /\ Y[1] = l /\ Y[2] = b
        OBVIOUS
      <4>3. r = X \o Y
        OBVIOUS
      <4> HIDE DEF X, Y, r
      <4>4. /\ r \in Seq(Pieces) /\ Len(r) = Len(X) + Len(Y)
            /\ \A i \in 1 .. Len(X) : r[i] = X[i]
            /\ \A i \in 1 .. Len(Y) : r[Len(X) + i] = Y[i]
        BY <4>1, <4>3
      <4>5. r \in Seq(Pieces) /\ Len(r) = 3 /\ r[1] = d /\ r[2] = l /\ r[3] = b
        <5>1. 1 \in 1 .. Len(X) /\ 1 \in 1 .. Len(Y) /\ 2 \in 1 .. Len(Y)
          BY <4>2
        <5>2. r[1] = X[1] /\ r[Len(X) + 1] = Y[1] /\ r[Len(X) + 2] = Y[2]
          BY <4>4, <5>1
        <5>3. Len(X) + 1 = 2 /\ Len(X) + 2 = 3 /\ Len(X) + Len(Y) = 3
          BY <4>2
        <5> QED
          BY <4>2, <4>4, <5>2, <5>3
      <4>6. r = <<d, l, b>>
        BY <4>5
      <4> QED
        BY <4>6 DEF r, X, Y
    <3>3. <<d, l, b>> \in Seq(Pieces) /\ Len(<<d, l, b>>) = 3
          /\ <<d, l, b>>[1] = d /\ <<d, l, b>>[2] = l /\ <<d, l, b>>[3] = b
      BY <1>1
    <3> QED
      BY <2>2, <3>1, <3>2, <3>3
  <2> QED
    BY <2>1, <2>2
<1>4. w \in {0, 1} /\ (w = 0 <=> x = 0)
  OBVIOUS
<1> HIDE DEF w
<1>5. \A i \in 1 .. w + 2 : full[i].kind = "label" => i = w + 1
  <2> SUFFICES ASSUME NEW i \in 1 .. w + 2, full[i].kind = "label" PROVE i = w + 1
    OBVIOUS
  <2>1. i = 1 \/ i = 2 \/ i = 3
    BY <1>4
  <2> QED
    BY <1>1, <1>3, <1>4, <2>1
<1>6. PartOfLine(full, w, x, c)
  BY <1>1, <1>3, <1>4, <1>5 DEF PartOfLine, d, l, b
<1>7. ASSUME NEW n \in 0 .. w + 1
      PROVE  /\ SubSeq(full, 1, n) \in Seq(Pieces) /\ Len(SubSeq(full, 1, n)) = n
             /\ PartOfLine(SubSeq(full, 1, n), w, x, c)
  <2> DEFINE r == SubSeq(full, 1, n)
  <2>0. n <= Len(full) /\ n \in Nat
    BY <1>3, <1>4
  <2>1. r \in Seq(Pieces) /\ Len(r) = n /\ \A i \in 1 .. n : r[i] = full[i]
    <3>1. full \in Seq(Pieces)
      BY <1>3
    <3> QED
      BY <2>0, <3>1
  <2> HIDE DEF r
  <2>2. \A i \in 1 .. n : r[i].kind = "label" => i = w + 1 /\ r[i].num = c
    BY <1>1, <1>3, <1>4, <1>5, <2>1
  <2>3. w = 1 /\ n >= 1 => r[1] = d
    BY <1>3, <2>0, <2>1
  <2>4. n \in 0 .. w + 2 /\ n # w + 2
    BY <1>4
  <2> QED
    BY <1>4, <2>1, <2>2, <2>3, <2>4 DEF PartOfLine, r, d
<1> QED
  BY <1>3, <1>4, <1>6, <1>7 DEF full

(* What is printed behind p is at most the line of node c. *)
Extension(p, g, c) ==
  /\ \A q \in Labels(g) : (\E k \in Labels(p) : g[q].num = p[k].num) \/ g[q].num = c
  /\ \A m \in Nat : HasLine(p, m) => HasLine(g, m)
  /\ Len(p) > 1 /\ p[2].kind = "newline" => Len(g) > 1 /\ g[2].kind = "newline"

(* What a call prints keeps the lines in order, under those above them and *)
(* indented.                                                               *)
LEMMA LinesGrow ==
  ASSUME NEW tree \in Seq(Nat), NEW ind \in Int, NEW p \in Seq(Pieces), Lines(tree, ind, p),
         NEW c \in 1 .. Len(tree), NEW r \in Seq(Pieces), NEW w,
         PartOfLine(r, w, ind * tree[c], c),
         \A q \in Labels(p) : p[q].num < c,
         \A m \in 1 .. Len(tree) : IsAbove(tree, m, c) => HasLine(p, m),
         NEW g, g = p \o r
  PROVE  /\ g \in Seq(Pieces)
         /\ Lines(tree, ind, g) /\ Extension(p, g, c)
         /\ Len(r) = w + 2 => HasLine(g, c)
<1> DEFINE a == Len(p)
           b == Len(r)
           x == ind * tree[c]
<1>1. g \in Seq(Pieces) /\ Len(g) = a + b /\ a \in Nat /\ b \in Nat
  OBVIOUS
<1>2. \A i \in 1 .. a : g[i] = p[i]
  OBVIOUS
<1>3. \A i \in 1 .. b : g[a + i] = r[i]
  OBVIOUS
<1>4. /\ w \in {0, 1} /\ b \in 0 .. w + 2 /\ (w = 0 <=> x = 0)
      /\ \A i \in 1 .. b : r[i].kind = "label" => i = w + 1 /\ r[i].num = c
      /\ w = 1 /\ b >= 1 => r[1] = Piece("pad", x)
      /\ b = w + 2 => r[w + 1] = Piece("label", c) /\ r[w + 2] = Piece("newline", 0)
  BY DEF PartOfLine
<1>5. DOMAIN p = 1 .. a /\ DOMAIN g = 1 .. a + b
  BY <1>1
<1>l. /\ \A q \in Labels(p) : p[q].num \in 1 .. Len(tree)
      /\ \A q, h \in Labels(p) : q < h => p[q].num < p[h].num
      /\ \A q \in Labels(p), m \in 1 .. Len(tree) :
           IsAbove(tree, m, p[q].num) => \E h \in Labels(p) : h < q /\ LineAt(p, h, m)
      /\ \A q \in Labels(p) :
           ind * tree[p[q].num] > 0 =>
             q - 1 \in DOMAIN p /\ p[q - 1] = Piece("pad", ind * tree[p[q].num])
  BY DEF Lines
<1> HIDE DEF a, b, x
<1>6. \A q \in Labels(p) : q \in Labels(g) /\ g[q] = p[q] /\ q \in 1 .. a
  BY <1>1, <1>2, <1>5 DEF Labels
(* A label of the longer page is an old one or the node's own. *)
<1>7. ASSUME NEW q \in Labels(g)
      PROVE  \/ q \in Labels(p) /\ g[q] = p[q] /\ q \in 1 .. a
             \/ q = a + w + 1 /\ b >= w + 1 /\ g[q].num = c
  <2>1. q \in 1 .. a + b /\ g[q].kind = "label"
    BY <1>5 DEF Labels
  <2>2. CASE q <= a
    <3>1. q \in 1 .. a
      BY <1>1, <2>1, <2>2
    <3> QED
      BY <1>2, <1>5, <2>1, <3>1 DEF Labels
  <2>3. CASE ~ (q <= a)
    <3> DEFINE i == q - a
    <3>1. i \in 1 .. b /\ q = a + i
      BY <1>1, <2>1, <2>3
    <3> HIDE DEF i
    <3>2. g[q] = r[i]
      BY <1>3, <3>1
    <3>3. i = w + 1 /\ r[i].num = c
      BY <1>4, <2>1, <3>1, <3>2
    <3> QED
      BY <1>1, <1>4, <3>1, <3>2, <3>3
  <2> QED
    BY <2>2, <2>3
<1>8. ASSUME NEW q, NEW m, LineAt(p, q, m) PROVE LineAt(g, q, m)
  <2>1. q \in Labels(p) /\ p[q].num = m /\ q + 1 \in 1 .. a /\ p[q + 1].kind = "newline"
    BY <1>5, <1>8 DEF LineAt
  <2>2. q + 1 \in 1 .. a + b
    BY <1>1, <2>1
  <2> QED
    BY <1>2, <1>5, <1>6, <2>1, <2>2 DEF LineAt
<1>9. \A m : HasLine(p, m) => HasLine(g, m)
  BY <1>6, <1>8 DEF HasLine
<1>10. \A q \in Labels(g) : g[q].num \in 1 .. Len(tree)
  BY <1>7, <1>l
<1>11. ASSUME NEW q \in Labels(g), NEW h \in Labels(g), q < h PROVE g[q].num < g[h].num
  <2>1. CASE q \in Labels(p) /\ g[q] = p[q]
    <3>1. CASE h \in Labels(p) /\ g[h] = p[h]
      BY <1>l, <1>11, <2>1, <3>1
    <3>2. CASE g[h].num = c
      BY <2>1, <3>2
    <3> QED
      BY <1>7, <3>1, <3>2
  <2>2. CASE q = a + w + 1
    <3>1. h \in 1 .. a \/ h = a + w + 1
      BY <1>7
    <3>2. FALSE
      BY <1>1, <1>4, <1>11, <2>2, <3>1
    <3> QED
      BY <3>2
  <2> QED
    BY <1>7, <2>1, <2>2
<1>12. ASSUME NEW q \in Labels(g), NEW m \in 1 .. Len(tree), IsAbove(tree, m, g[q].num)
       PROVE  \E h \in Labels(g) : h < q /\ LineAt(g, h, m)
  <2>1. CASE q \in Labels(p) /\ g[q] = p[q]
    <3>1. PICK h \in Labels(p) : h < q /\ LineAt(p, h, m)
      BY <1>l, <1>12, <2>1
    <3> QED
      BY <1>6, <1>8, <3>1
  <2>2. CASE q = a + w + 1 /\ g[q].num = c
    <3>1. HasLine(p, m)
      BY <1>12, <2>2
    <3>2. PICK h \in Labels(p) : LineAt(p, h, m)
      BY <3>1 DEF HasLine
    <3>3. h < q
      BY <1>1, <1>4, <1>6, <2>2
    <3> QED
      BY <1>6, <1>8, <3>2, <3>3
  <2> QED
    BY <1>7, <2>1, <2>2
<1>13. ASSUME NEW q \in Labels(g), ind * tree[g[q].num] > 0
       PROVE  q - 1 \in DOMAIN g /\ g[q - 1] = Piece("pad", ind * tree[g[q].num])
  <2>1. CASE q \in Labels(p) /\ g[q] = p[q] /\ q \in 1 .. a
    <3>1. q - 1 \in DOMAIN p /\ p[q - 1] = Piece("pad", ind * tree[g[q].num])
      BY <1>l, <1>13, <2>1
    <3>2. q - 1 \in 1 .. a
      BY <1>5, <3>1
    <3>3. q - 1 \in 1 .. a + b
      BY <1>1, <3>2
    <3> QED
      BY <1>2, <1>5, <3>1, <3>2, <3>3
  <2>2. CASE q = a + w + 1 /\ g[q].num = c /\ b >= w + 1
    <3>1. w = 1 /\ 1 \in 1 .. b /\ b >= 1
      <4>1. x > 0
        BY <1>13, <2>2, Zenon DEF x
      <4>2. w = 1
        BY <1>4, <4>1
      <4> QED
        BY <1>1, <2>2, <4>2
    <3>2. q - 1 = a + 1 /\ a + 1 \in 1 .. a + b
      <4>1. q = a + 1 + 1 /\ a \in Nat /\ b \in Nat /\ b >= 1
        BY <1>1, <2>2, <3>1
      <4> QED
        BY <4>1
    <3>3. r[1] = Piece("pad", x)
      BY <1>4, <3>1
    <3>4. g[a + 1] = Piece("pad", x)
      BY <1>3, <3>1, <3>3
    <3> QED
      BY <1>5, <2>2, <3>2, <3>4, Zenon DEF x
  <2> QED
    BY <1>7, <2>1, <2>2
<1>14. Len(p) > 1 /\ p[2].kind = "newline" => Len(g) > 1 /\ g[2].kind = "newline"
  <2> SUFFICES ASSUME a > 1, p[2].kind = "newline" PROVE Len(g) > 1 /\ g[2].kind = "newline"
    BY DEF a
  <2>1. 2 \in 1 .. a /\ a + b > 1
    BY <1>1
  <2> QED
    BY <1>1, <1>2, <2>1
<1>15. ASSUME b = w + 2 PROVE HasLine(g, c)
  <2>1. r[w + 1] = Piece("label", c) /\ r[w + 2] = Piece("newline", 0)
    BY <1>4, <1>15
  <2>2. w + 1 \in 1 .. b /\ w + 2 \in 1 .. b
    BY <1>4, <1>15
  <2> DEFINE q == a + w + 1
  <2>3. q = a + (w + 1) /\ q + 1 = a + (w + 2) /\ q \in 1 .. a + b /\ q + 1 \in 1 .. a + b
    BY <1>1, <1>4, <1>15
  <2> HIDE DEF q
  <2>4. g[q] = Piece("label", c) /\ g[q + 1] = Piece("newline", 0)
    <3>1. g[a + (w + 1)] = r[w + 1] /\ g[a + (w + 2)] = r[w + 2]
      BY <1>3, <2>2
    <3> QED
      BY <2>1, <2>3, <3>1
  <2>5. g[q].kind = "label" /\ g[q].num = c /\ g[q + 1].kind = "newline"
    BY <2>4 DEF Piece
  <2> QED
    BY <1>5, <2>3, <2>5 DEF HasLine, LineAt, Labels
<1>16. Lines(tree, ind, g)
  BY <1>10, <1>11, <1>12, <1>13 DEF Lines
<1>17. Extension(p, g, c)
  BY <1>7, <1>9, <1>14 DEF Extension
<1> QED
  BY <1>1, <1>15, <1>16, <1>17 DEF b

-----------------------------------------------------------------------------
(* What is printed, and what is left to print. *)

Before(p, n) == \A q \in Labels(p) : p[q].num < n

Started(p) == Len(p) > 1 /\ p[2].kind = "newline"

(* The page holds the line of every frame that has printed its own, and no *)
(* line of a node that is still to be called.                              *)
Behind(tree, fs, p) ==
  /\ \A i \in 1 .. Len(fs) : fs[i].printed => HasLine(p, fs[i].node)
  /\ ~ fs[1].printed => Before(p, fs[1].node)
  /\ \A i \in 1 .. Len(fs) :
       fs[i].printed /\ fs[i].called < Len(Children(tree, fs[i].node)) =>
         Before(p, Children(tree, fs[i].node)[fs[i].called + 1])
  /\ IF fs[Len(fs)].printed THEN Started(p) ELSE p = << >>

(* A page keeps what is still to come behind it while it grows by a node   *)
(* before that.                                                            *)
LEMMA BeforeExtends ==
  ASSUME NEW p, NEW g, NEW c, NEW n, Extension(p, g, c), Before(p, n), c < n
  PROVE  Before(g, n)
BY DEF Extension, Before

(* What is behind a node is behind those before it. *)
LEMMA BeforeMore ==
  ASSUME NEW p \in Seq(Pieces), NEW c \in Int, NEW n \in Int, Before(p, c), c < n
  PROVE  Before(p, n)
<1> SUFFICES ASSUME NEW q \in Labels(p) PROVE p[q].num < n
  BY DEF Before
<1>1. p[q] \in Pieces
  BY DEF Labels
<1>2. p[q].num \in Int
  BY <1>1 DEF Pieces
<1> QED
  BY <1>2 DEF Before

(* A page extends itself. *)
LEMMA ExtensionTrivial ==
  ASSUME NEW p, NEW c
  PROVE  Extension(p, p, c)
BY DEF Extension

(* After a return, whatever the call has printed, the page holds the lines *)
(* of the frames that are left.                                            *)
LEMMA BehindPops ==
  ASSUME NEW tree \in Seq(Nat), NEW s \in Seq(Frames), Walk(tree, s), Len(s) # 1,
         NEW p, Behind(tree, s, p), NEW g, Extension(p, g, s[1].node),
         NEW t, Popped(s, t)
  PROVE  Behind(tree, t, g)
<1> DEFINE n == Len(s)
           m == Len(t)
           c == s[1].node
<1>1. n \in Nat /\ n >= 2
  <2>1. n \in Nat /\ n # 1
    OBVIOUS
  <2>2. n >= 1
    BY DEF Walk
  <2> HIDE DEF n
  <2> QED
    BY <2>1, <2>2
<1>2. m = n - 1 /\ \A i \in 1 .. m : t[i] = s[i + 1]
  BY DEF Popped
<1>3. \A i \in 2 .. n : s[i].printed
  BY DEF Walk
<1>4. /\ \A i \in 1 .. n : s[i].printed => HasLine(p, s[i].node)
      /\ \A i \in 1 .. n :
           s[i].printed /\ s[i].called < Len(Children(tree, s[i].node)) =>
             Before(p, Children(tree, s[i].node)[s[i].called + 1])
      /\ IF s[n].printed THEN Started(p) ELSE p = << >>
  BY DEF Behind
<1>5. t[1].printed
  BY WalkPops
<1>6. \A i \in 1 .. n : s[i].node \in Nat
  BY DEF Walk
<1>7. \A i \in 1 .. n :
        s[i].called < Len(Children(tree, s[i].node)) =>
          c < Children(tree, s[i].node)[s[i].called + 1]
  BY NextIsBehind
<1>8. Extension(p, g, c)
  OBVIOUS
<1> HIDE DEF n, m, c
<1>9. ASSUME NEW i \in 1 .. m PROVE i + 1 \in 1 .. n /\ t[i] = s[i + 1]
  BY <1>1, <1>2
<1>10. ASSUME NEW i \in 1 .. m, t[i].printed PROVE HasLine(g, t[i].node)
  <2>1. HasLine(p, t[i].node) /\ t[i].node \in Nat
    BY <1>4, <1>6, <1>9, <1>10
  <2> QED
    BY <1>8, <2>1 DEF Extension
<1>11. ASSUME NEW i \in 1 .. m, t[i].printed, t[i].called < Len(Children(tree, t[i].node))
       PROVE  Before(g, Children(tree, t[i].node)[t[i].called + 1])
  <2>1. Before(p, Children(tree, t[i].node)[t[i].called + 1])
    BY <1>4, <1>9, <1>11
  <2>2. c < Children(tree, t[i].node)[t[i].called + 1]
    BY <1>7, <1>9, <1>11
  <2> QED
    BY <1>8, <2>1, <2>2, BeforeExtends
<1>12. t[m].printed /\ Started(g)
  <2>1. m \in 1 .. m /\ m + 1 = n /\ n \in 2 .. n
    BY <1>1, <1>2
  <2>2. t[m] = s[n] /\ s[n].printed
    BY <1>2, <1>3, <2>1
  <2> QED
    BY <1>4, <1>8, <2>2 DEF Extension, Started
<1> QED
  BY <1>5, <1>10, <1>11, <1>12 DEF Behind, m

(* After its line is printed the running call is a frame that has one. *)
LEMMA BehindPrints ==
  ASSUME NEW tree \in Seq(Nat), NEW s \in Seq(Frames), Walk(tree, s),
         NEW p \in Seq(Pieces), Behind(tree, s, p), NEW g, Extension(p, g, s[1].node),
         HasLine(g, s[1].node), Len(s) = 1 => Started(g),
         NEW x, x.node = s[1].node, x.called = s[1].called, x.printed,
         NEW t, Changed(s, x, t)
  PROVE  Behind(tree, t, g)
<1> DEFINE n == Len(s)
           c == s[1].node
<1>1. n \in Nat /\ n >= 1
  BY DEF Walk
<1>2. Len(t) = n /\ t[1] = x /\ \A i \in 2 .. n : t[i] = s[i]
  BY DEF Changed
<1>3. \A i \in 2 .. n : s[i].printed
  BY DEF Walk
<1>4. /\ \A i \in 1 .. n : s[i].printed => HasLine(p, s[i].node)
      /\ ~ s[1].printed => Before(p, c)
      /\ \A i \in 1 .. n :
           s[i].printed /\ s[i].called < Len(Children(tree, s[i].node)) =>
             Before(p, Children(tree, s[i].node)[s[i].called + 1])
      /\ IF s[n].printed THEN Started(p) ELSE p = << >>
  BY DEF Behind
<1>6. \A i \in 1 .. n : s[i].node \in Nat
  BY DEF Walk
<1>7. \A i \in 1 .. n :
        s[i].called < Len(Children(tree, s[i].node)) =>
          c < Children(tree, s[i].node)[s[i].called + 1]
  BY NextIsBehind
<1>8. Extension(p, g, c) /\ HasLine(g, c) /\ (n = 1 => Started(g))
  OBVIOUS
<1>9. x.node = c /\ x.called = s[1].called /\ x.printed
  OBVIOUS
<1>a. c = s[1].node
  OBVIOUS
<1>b. \A i \in 1 .. n : s[i].called \in Nat
  <2> SUFFICES ASSUME NEW i \in 1 .. n PROVE s[i].called \in Nat
    OBVIOUS
  <2>1. s[i] \in Frames
    OBVIOUS
  <2> QED
    BY <2>1 DEF Frames
<1> HIDE DEF n, c
<1>10. ASSUME NEW i \in 1 .. n PROVE i = 1 \/ i \in 2 .. n
  BY <1>1
<1>11. ASSUME NEW i \in 1 .. n, t[i].printed PROVE HasLine(g, t[i].node)
  <2>1. CASE i = 1
    BY <1>2, <1>8, <1>9, <2>1
  <2>2. CASE i \in 2 .. n
    <3>1. HasLine(p, t[i].node) /\ t[i].node \in Nat
      BY <1>2, <1>3, <1>4, <1>6, <2>2
    <3> QED
      BY <1>8, <3>1 DEF Extension
  <2> QED
    BY <1>10, <2>1, <2>2
<1>12. ASSUME NEW i \in 1 .. n, t[i].printed, t[i].called < Len(Children(tree, t[i].node))
       PROVE  Before(g, Children(tree, t[i].node)[t[i].called + 1])
  <2>0. t[i].node = s[i].node /\ t[i].called = s[i].called
    BY <1>2, <1>9, <1>10, <1>a
  <2>2. c < Children(tree, t[i].node)[t[i].called + 1]
    BY <1>7, <1>12, <2>0
  <2>3. CASE s[i].printed
    <3>1. Before(p, Children(tree, t[i].node)[t[i].called + 1])
      BY <1>4, <1>12, <2>0, <2>3
    <3> QED
      BY <1>8, <2>2, <3>1, BeforeExtends
  <2>4. CASE ~ s[i].printed
    <3>1. i = 1
      BY <1>3, <1>10, <2>4
    <3>2. Before(p, c)
      BY <1>4, <2>4, <3>1
    <3> DEFINE ch == Children(tree, s[i].node)
               k == s[i].called
               d == ch[k + 1]
    <3>3. d \in Int
      <4>1. /\ Len(ch) \in Nat
            /\ \A j \in 1 .. Len(ch) : ch[j] \in 1 .. Len(tree)
        BY ChildrenFacts
      <4>2. k \in Nat /\ k < Len(ch)
        BY <1>b, <1>12, <2>0
      <4> DEFINE l == Len(ch)
      <4> HIDE DEF l, ch, k
      <4>3. k + 1 \in 1 .. l
        BY <4>1, <4>2 DEF l
      <4> QED
        BY <4>1, <4>3 DEF l
    <3>4. c < d
      BY <2>0, <2>2
    <3>5. c \in Int
      BY <1>1, <1>6, <1>a
    <3> HIDE DEF d
    <3>7. Before(g, d)
      <4>1. Before(p, d)
        BY <3>2, <3>3, <3>4, <3>5, BeforeMore
      <4> QED
        BY <1>8, <3>4, <4>1, BeforeExtends
    <3> QED
      BY <2>0, <3>7 DEF d
  <2> QED
    BY <2>3, <2>4
<1>13. t[n].printed /\ Started(g)
  <2>1. CASE n = 1
    BY <1>2, <1>8, <1>9, <2>1
  <2>2. CASE n # 1
    <3>1. n \in 2 .. n
      BY <1>1, <2>2
    <3>2. t[n] = s[n] /\ s[n].printed
      BY <1>2, <1>3, <3>1
    <3> QED
      BY <1>4, <1>8, <3>2 DEF Extension, Started
  <2> QED
    BY <2>1, <2>2
<1>14. t[1].printed
  BY <1>2, <1>9
<1> QED
  BY <1>2, <1>11, <1>12, <1>13, <1>14 DEF Behind

(* The line of a node that is called is still to come. *)
LEMMA BehindPushes ==
  ASSUME NEW tree \in Seq(Nat), NEW s \in Seq(Frames), Walk(tree, s),
         NEW p \in Seq(Pieces), Behind(tree, s, p), s[1].printed,
         s[1].called < Len(Children(tree, s[1].node)),
         NEW x, x.node = Children(tree, s[1].node)[s[1].called + 1], ~ x.printed,
         NEW y, y.node = s[1].node, y.printed, y.called = s[1].called + 1,
         NEW t, Pushed(s, x, y, t)
  PROVE  Behind(tree, t, p)
<1> DEFINE n == Len(s)
           m == Len(t)
           ch == Children(tree, s[1].node)
           k == s[1].called
           l == Len(ch)
<1>1. n \in Nat /\ n >= 1
  BY DEF Walk
<1>2. m = n + 1 /\ t[1] = x /\ t[2] = y /\ \A i \in 3 .. m : t[i] = s[i - 1]
  BY DEF Pushed
<1>3. \A i \in 2 .. n : s[i].printed
  BY DEF Walk
<1>4. /\ \A i \in 1 .. n : s[i].printed => HasLine(p, s[i].node)
      /\ \A i \in 1 .. n :
           s[i].printed /\ s[i].called < Len(Children(tree, s[i].node)) =>
             Before(p, Children(tree, s[i].node)[s[i].called + 1])
      /\ IF s[n].printed THEN Started(p) ELSE p = << >>
  BY DEF Behind
<1>5. l \in Nat /\ Increases(ch, l) /\ \A j \in 1 .. l : ch[j] \in 1 .. Len(tree)
  BY ChildrenFacts
<1>6. k \in Nat /\ k < l
  <2>1. s[1] \in Frames
    BY <1>1
  <2> QED
    BY <2>1 DEF Frames
<1>7. /\ s[1].printed /\ x.node = ch[k + 1] /\ ~ x.printed
      /\ y.node = s[1].node /\ y.printed /\ y.called = k + 1
  OBVIOUS
<1>8. Before(p, ch[k + 1])
  BY <1>1, <1>4
<1> HIDE DEF n, m
<1>9. ASSUME NEW i \in 3 .. m PROVE i - 1 \in 2 .. n /\ i - 1 \in 1 .. n /\ t[i] = s[i - 1]
  <2>1. m = n + 1
    BY <1>2
  <2>2. i - 1 \in 2 .. n /\ i - 1 \in 1 .. n
    BY <1>1, <2>1
  <2> QED
    BY <1>2, <2>2
<1>10. ASSUME NEW i \in 1 .. m PROVE i = 1 \/ i = 2 \/ i \in 3 .. m
  OBVIOUS
<1>11. ASSUME NEW i \in 1 .. m, t[i].printed PROVE HasLine(p, t[i].node)
  <2>1. CASE i = 2
    BY <1>1, <1>2, <1>4, <1>7, <2>1
  <2>2. CASE i \in 3 .. m
    BY <1>4, <1>9, <1>11, <2>2
  <2> QED
    BY <1>2, <1>7, <1>10, <1>11, <2>1, <2>2
<1>12. ASSUME NEW i \in 1 .. m, t[i].printed, t[i].called < Len(Children(tree, t[i].node))
       PROVE  Before(p, Children(tree, t[i].node)[t[i].called + 1])
  <2>1. CASE i = 2
    <3>1. t[i].called = k + 1 /\ Children(tree, t[i].node) = ch
      BY <1>2, <1>7, <2>1 DEF ch
    <3>2. k + 1 < Len(ch)
      BY <1>12, <3>1, Zenon
    <3>3. k + 1 < l
      BY <3>2, Zenon DEF l
    <3> DEFINE j == k + 1
               a == ch[j]
               b == ch[j + 1]
    <3>4. Before(p, a)
      BY <1>8
    <3> HIDE DEF ch, l, k
    <3>5. j \in 1 .. l /\ j + 1 \in 1 .. l /\ j < j + 1
      BY <1>5, <1>6, <3>3
    <3> HIDE DEF j
    <3>6. a < b /\ a \in Int /\ b \in Int
      BY <1>5, <3>5 DEF Increases
    <3> HIDE DEF a, b
    <3>8. Before(p, b)
      BY <3>4, <3>6, BeforeMore
    <3>9. Children(tree, t[i].node)[t[i].called + 1] = b
      BY <3>1 DEF b, j
    <3> QED
      BY <3>8, <3>9
  <2>2. CASE i \in 3 .. m
    BY <1>3, <1>4, <1>9, <1>12, <2>2
  <2> QED
    BY <1>2, <1>7, <1>10, <1>12, <2>1, <2>2
<1>13. t[m].printed /\ Started(p)
  <2>1. CASE n = 1
    BY <1>2, <1>4, <1>7, <2>1
  <2>2. CASE n # 1
    <3>1. m \in 3 .. m /\ m - 1 = n /\ n \in 2 .. n
      BY <1>1, <1>2, <2>2
    <3> QED
      BY <1>2, <1>3, <1>4, <3>1
  <2> QED
    BY <2>1, <2>2
<1>14. ~ t[1].printed /\ Before(p, t[1].node)
  BY <1>2, <1>7, <1>8
<1> QED
  BY <1>11, <1>12, <1>13, <1>14 DEF Behind, m

(* Nothing is printed when the call for the root begins. *)
LEMMA PrintingBegins ==
  ASSUME NEW tree \in Trees, NEW ind \in Int
  PROVE  Behind(tree, <<Frame(1)>>, << >>) /\ Lines(tree, ind, << >>)
<1> DEFINE x == Frame(1)
           s == <<x>>
           e == << >>
<1>1. ~ x.printed
  BY DEF Frame
<1> HIDE DEF x
<1>2. Len(s) = 1 /\ s[1] = x
  OBVIOUS
<1>3. Labels(e) = {}
  BY DEF Labels
<1> HIDE DEF s, e
<1>4. Lines(tree, ind, e)
  BY <1>3 DEF Lines
<1>5. Behind(tree, s, e)
  BY <1>1, <1>2, <1>3 DEF Behind, Before, e
<1> QED
  BY <1>4, <1>5 DEF s, e, x

-----------------------------------------------------------------------------
(* The inductive invariant: what is printed so far, the frames of the      *)
(* calls in progress and *dep belong together.                             *)

WorkType ==
  [toks : Toks \union {<< >>}, tree : Trees \union {<< >>}, ind : Ind \union {0}]

(* A call for a tree is in progress. *)
InTree ==
  /\ work.tree \in Trees /\ work.ind \in Nat
  /\ Walk(work.tree, frames)
  /\ Behind(work.tree, frames, page)
  /\ Lines(work.tree, work.ind, page)
  /\ dep = IF frames[1].printed THEN Len(frames) ELSE Len(frames) - 1

TreeDone ==
  /\ work.tree \in Trees /\ work.ind \in Nat
  /\ Lines(work.tree, work.ind, page)
  /\ ok <=> Started(page)

TokensDone ==
  IF ok THEN page = TokensText(work.toks, work.ind) ELSE page = << >>

Printed ==
  /\ job \in {"none", "tree", "done", "crashed"} /\ ok \in BOOLEAN
  /\ work \in WorkType /\ page \in Seq(Pieces) /\ frames \in Seq(Frames)
  /\ job # "tree" => frames = << >> /\ dep = 0
  /\ job = "none" => page = << >>
  /\ job = "tree" => InTree
  /\ job = "done" => IF work.tree = << >> THEN TokensDone ELSE TreeDone

(* A tree that is printed has a root, at depth 0. *)
LEMMA TreeType ==
  ASSUME NEW tree \in Trees
  PROVE  tree \in Seq(Nat) /\ tree # << >> /\ tree[1] = 0
BY PrintingAssumption

(* The strings of the tokens that are printed are of bytes. *)
LEMMA TextIsBytes ==
  ASSUME NEW toks \in Toks \union {<< >>}
  PROVE  toks \in Seq(Tokens)
<1> DEFINE T == [tag : {"Keyword", "StrLit"}, str : Text]
<1>1. \A tok \in T : tok \in Tokens
  BY FixedBufAssumption DEF Tokens
<1>2. Toks \subseteq Seq(T)
  BY PrintingAssumption
<1> HIDE DEF T
<1>3. CASE toks = << >>
  BY <1>3
<1>4. CASE toks \in Toks
  <2>1. toks \in Seq(T)
    BY <1>2, <1>4
  <2> QED
    BY <1>1, <2>1
<1> QED
  BY <1>3, <1>4

(* The program is in the call for frames[1], which has printed nothing. *)
LEMMA PartPrinted ==
  ASSUME frames \in Seq(Frames), page \in Seq(Pieces), InTree, ~ frames[1].printed,
         NEW r \in Seq(Pieces), NEW w,
         PartOfLine(r, w, work.ind * work.tree[frames[1].node], frames[1].node)
  PROVE  /\ page \o r \in Seq(Pieces)
         /\ Lines(work.tree, work.ind, page \o r)
         /\ Extension(page, page \o r, frames[1].node)
         /\ Len(r) = w + 2 => HasLine(page \o r, frames[1].node)
         /\ Len(frames) = 1 => (Started(page \o r) <=> Len(r) = w + 2)
<1> DEFINE tree == work.tree
           ind == work.ind
           c == frames[1].node
           g == page \o r
           n == Len(frames)
           b == Len(r)
<1>1. tree \in Seq(Nat) /\ tree[1] = 0 /\ ind \in Int
  BY TreeType DEF InTree
<1>2. /\ Walk(tree, frames) /\ Behind(tree, frames, page) /\ Lines(tree, ind, page)
      /\ ~ frames[1].printed
  BY DEF InTree
<1>3. n \in Nat /\ n >= 1 /\ frames[n].node = 1
  BY <1>2 DEF Walk
<1>4. c \in 1 .. Len(tree)
  BY <1>2, <1>3 DEF Walk
<1>5. \A q \in Labels(page) : page[q].num < c
  BY <1>2 DEF Behind, Before
<1>6. /\ \A i \in 2 .. n : frames[i].printed
      /\ \A i \in 1 .. n : frames[i].printed => HasLine(page, frames[i].node)
      /\ IF frames[n].printed THEN Started(page) ELSE page = << >>
  BY <1>2 DEF Walk, Behind
<1>7. PartOfLine(r, w, ind * tree[c], c)
  OBVIOUS
<1> HIDE DEF tree, ind, n
<1>8. ASSUME NEW m \in 1 .. Len(tree), IsAbove(tree, m, c) PROVE HasLine(page, m)
  <2>1. PICK i \in 2 .. n : frames[i].node = m
    BY <1>1, <1>2, <1>8, AboveHasFrame DEF n
  <2>2. i \in 1 .. n
    OBVIOUS
  <2> QED
    BY <1>6, <2>1, <2>2
<1>c. c = frames[1].node
  OBVIOUS
<1>g. g = page \o r
  OBVIOUS
<1>b. b = Len(r) /\ b \in Nat
  OBVIOUS
<1> HIDE DEF c, g, b
<1>9. /\ g \in Seq(Pieces)
      /\ Lines(tree, ind, g) /\ Extension(page, g, c)
      /\ Len(r) = w + 2 => HasLine(g, c)
  BY <1>1, <1>2, <1>4, <1>5, <1>7, <1>8, <1>g, LinesGrow
<1>10. ASSUME n = 1 PROVE Started(g) <=> Len(r) = w + 2
  <2>1. c = 1 /\ page = << >>
    BY <1>2, <1>3, <1>6, <1>10, <1>c
  <2>2. g = r
    BY <1>g, <2>1
  <2>3. ind * tree[c] = 0
    BY <1>1, <2>1
  <2>4. /\ w \in {0, 1} /\ b \in 0 .. w + 2 /\ w = 0
        /\ b = w + 2 => r[w + 2] = Piece("newline", 0)
    BY <1>7, <1>b, <2>3 DEF PartOfLine
  <2>5. b = 2 => r[2].kind = "newline"
    BY <2>4 DEF Piece
  <2>6. Started(r) <=> b = 2
    <3>1. Started(r) <=> b > 1 /\ r[2].kind = "newline"
      BY <1>b DEF Started
    <3>2. b > 1 => b = 2
      BY <2>4
    <3> QED
      BY <2>5, <3>1, <3>2
  <2>7. w + 2 = 2
    BY <2>4
  <2> QED
    BY <1>b, <2>2, <2>6, <2>7
<1> QED
  BY <1>9, <1>10 DEF g, c, tree, ind, n

(* The inductive invariant holds at first. *)
LEMMA InitPrinted == Init => Printed
<1> SUFFICES ASSUME Init PROVE Printed
  OBVIOUS
<1>1. NoWork \in WorkType
  BY DEF NoWork, WorkType
<1> QED
  BY <1>1 DEF Init, Printed

(* PrintTokens keeps the inductive invariant. *)
LEMMA TokensStep ==
  ASSUME Printed, NEW toks \in Toks, NEW ind \in Ind, PrintTokens(toks, ind)
  PROVE  Printed'
<1>1. work' = [NoWork EXCEPT !.toks = toks, !.ind = ind]
  BY DEF PrintTokens
<1>2. /\ work' \in WorkType
      /\ work'.toks = toks /\ work'.ind = ind /\ work'.tree = << >>
  BY <1>1 DEF NoWork, WorkType
<1>3. job = "none" /\ frames = << >> /\ dep = 0 /\ page = << >> /\ ok \in BOOLEAN
  BY DEF PrintTokens, Quiet, Printed
<1>4. frames' = << >> /\ dep' = 0 /\ frames' \in Seq(Frames)
  BY <1>3 DEF PrintTokens
<1> DEFINE t == TokensText(toks, ind)
<1>5. t \in Seq(Pieces)
  <2>1. toks \in Seq(Tokens) /\ ind \in Int
    BY PrintingAssumption, TextIsBytes
  <2> QED
    BY <2>1, TextReadsBack
<1> HIDE DEF t
<1>6. CASE page' = page \o t /\ Ends(TRUE)
  <2>1. page' = t
    BY <1>3, <1>5, <1>6
  <2>2. job' = "done" /\ ok' = TRUE
    BY <1>6 DEF Ends
  <2>3. TokensDone'
    BY <1>2, <2>1, <2>2 DEF TokensDone, t
  <2> QED
    BY <1>2, <1>4, <1>5, <2>1, <2>2, <2>3 DEF Printed
<1>7. CASE UNCHANGED page /\ Ends(FALSE)
  <2>1. page' = << >> /\ page' \in Seq(Pieces)
    BY <1>3, <1>7
  <2>2. job' = "done" /\ ok' = FALSE
    BY <1>7 DEF Ends
  <2>3. TokensDone'
    BY <2>1, <2>2 DEF TokensDone
  <2> QED
    BY <1>2, <1>4, <2>1, <2>2, <2>3 DEF Printed
<1>8. CASE job' = "crashed" /\ UNCHANGED <<page, ok>>
  <2>1. page' \in Seq(Pieces) /\ ok' \in BOOLEAN
    BY <1>3, <1>8
  <2> QED
    BY <1>2, <1>4, <1>8, <2>1 DEF Printed
<1> QED
  BY <1>6, <1>7, <1>8 DEF PrintTokens, t

(* BeginTree keeps the inductive invariant. *)
LEMMA BeginStep ==
  ASSUME Printed, NEW tree \in Trees, NEW ind \in Ind, BeginTree(tree, ind)
  PROVE  Printed'
<1>1. work' = [NoWork EXCEPT !.tree = tree, !.ind = ind]
  BY DEF BeginTree
<1>2. /\ work' \in WorkType
      /\ work'.ind = ind /\ work'.tree = tree
  BY <1>1 DEF NoWork, WorkType
<1>3. job = "none" /\ page = << >> /\ ok \in BOOLEAN
  BY DEF BeginTree, Quiet, Printed
<1>4. page' = << >> /\ page' \in Seq(Pieces) /\ ok' \in BOOLEAN /\ job' = "tree" /\ dep' = 0
  BY <1>3 DEF BeginTree
<1>5. ind \in Int /\ ind >= 0
  BY PrintingAssumption DEF BeginTree
<1>6. /\ Walk(tree, <<Frame(1)>>) /\ Behind(tree, <<Frame(1)>>, << >>)
      /\ Lines(tree, ind, << >>) /\ <<Frame(1)>> \in Seq(Frames)
  BY <1>5, WalkBegins, PrintingBegins
<1>7. frames' = <<Frame(1)>>
  BY DEF BeginTree
<1>8. ~ frames'[1].printed /\ Len(frames') = 1
  BY <1>7 DEF Frame
<1>9. InTree'
  BY <1>2, <1>4, <1>5, <1>6, <1>7, <1>8 DEF InTree
<1> QED
  BY <1>2, <1>4, <1>6, <1>7, <1>9 DEF Printed

(* What every action of a call for a tree starts from. *)
LEMMA TreeFacts ==
  ASSUME Printed, job = "tree"
  PROVE  /\ InTree /\ work.tree \in Seq(Nat) /\ work.tree # << >> /\ ok \in BOOLEAN
         /\ frames \in Seq(Frames) /\ Len(frames) \in Nat /\ Len(frames) >= 1
         /\ Top = frames[1] /\ frames[1] \in Frames
         /\ page \in Seq(Pieces) /\ work \in WorkType /\ work.ind \in Nat
<1>1. /\ InTree /\ frames \in Seq(Frames) /\ page \in Seq(Pieces) /\ work \in WorkType
      /\ ok \in BOOLEAN
  BY DEF Printed
<1>2. work.tree \in Seq(Nat) /\ work.tree # << >> /\ work.ind \in Nat
  BY <1>1, TreeType DEF InTree
<1>3. Len(frames) >= 1
  BY <1>1 DEF InTree, Walk
<1>4. frames[1] \in Frames /\ frames # << >>
  BY <1>1, <1>3
<1>5. Top = frames[1]
  BY <1>4 DEF Top
<1> QED
  BY <1>1, <1>2, <1>3, <1>4, <1>5

(* The running call returns to one whose line is printed. *)
LEMMA FrameReturns ==
  ASSUME Printed, job = "tree", NEW result \in BOOLEAN, Leaves(result),
         page' \in Seq(Pieces), Lines(work.tree, work.ind, page'),
         Extension(page, page', frames[1].node), UNCHANGED work,
         Len(frames) = 1 => (result <=> Started(page')),
         dep' = Len(frames) - 1
  PROVE  Printed'
<1>1. /\ InTree /\ work.tree \in Seq(Nat) /\ work.tree # << >> /\ ok \in BOOLEAN
      /\ frames \in Seq(Frames) /\ Len(frames) \in Nat /\ Len(frames) >= 1
      /\ work \in WorkType /\ work.ind \in Nat
  BY TreeFacts
<1>2. frames' = Tail(frames) /\ Tail(frames) \in Seq(Frames) /\ Popped(frames, Tail(frames))
  BY <1>1, TailPops DEF Leaves
<1>3. frames' \in Seq(Frames) /\ Popped(frames, frames') /\ work' = work
  BY <1>2
<1>4. CASE Len(frames) = 1
  <2>1. frames' = << >>
    <3>1. Len(frames') = 0
      BY <1>3, <1>4 DEF Popped
    <3> QED
      BY <1>3, <3>1
  <2>2. job' = "done" /\ ok' = result /\ dep' = 0
    BY <1>4 DEF Leaves, Ends
  <2>3. TreeDone'
    BY <1>1, <1>3, <1>4, <2>2 DEF TreeDone, InTree
  <2> QED
    BY <1>1, <1>3, <2>1, <2>2, <2>3 DEF Printed
<1>5. CASE Len(frames) # 1
  <2>1. job' = "tree" /\ ok' \in BOOLEAN
    BY <1>1, <1>5 DEF Leaves
  <2>2. Walk(work.tree, frames') /\ frames'[1].printed
    BY <1>1, <1>3, <1>5, WalkPops DEF InTree
  <2>3. Behind(work.tree, frames', page')
    BY <1>1, <1>3, <1>5, BehindPops DEF InTree
  <2>4. dep' = Len(frames')
    BY <1>3 DEF Popped
  <2>5. work.tree \in Trees /\ work.ind \in Nat
    BY <1>1 DEF InTree
  <2>6. InTree'
    BY <1>3, <2>2, <2>3, <2>4, <2>5 DEF InTree
  <2> QED
    BY <1>1, <1>3, <2>1, <2>6 DEF Printed
<1> QED
  BY <1>4, <1>5

(* PrintLine keeps it, in full and when a push is refused. *)
LEMMA LineStep ==
  ASSUME Printed, PrintLine
  PROVE  Printed'
<1> DEFINE c == frames[1].node
           x == work.ind * work.tree[c]
           l == LineOf(x, c)
           n == Len(frames)
<1>1. job = "tree" /\ ~ Top.printed /\ UNCHANGED work
  BY DEF PrintLine
<1>2. /\ InTree /\ work.tree \in Seq(Nat) /\ work.tree # << >> /\ ok \in BOOLEAN
      /\ frames \in Seq(Frames) /\ n \in Nat /\ n >= 1
      /\ Top = frames[1] /\ frames[1] \in Frames
      /\ page \in Seq(Pieces) /\ work \in WorkType /\ work.ind \in Nat
  BY <1>1, TreeFacts
<1>3. ~ frames[1].printed
  BY <1>1, <1>2
<1>4. c \in 1 .. Len(work.tree) /\ work.tree[c] = n - 1
  <2>1. Walk(work.tree, frames)
    BY <1>2 DEF InTree
  <2> QED
    BY <1>2, <2>1 DEF Walk
<1>5. dep = n - 1
  BY <1>2, <1>3 DEF InTree
<1>6. Line(Top.node) = l
  BY <1>2, <1>4, <1>5 DEF Line, LineOf
<1>7. x \in Int /\ c \in Int
  BY <1>2, <1>4
<1>c. c = frames[1].node /\ x = work.ind * work.tree[c]
  OBVIOUS
<1> HIDE DEF l, x, n, c
<1>8. PICK w \in {0, 1} :
        /\ l \in Seq(Pieces) /\ Len(l) = w + 2
        /\ PartOfLine(l, w, x, c)
        /\ \A k \in 0 .. w + 1 :
             /\ SubSeq(l, 1, k) \in Seq(Pieces) /\ Len(SubSeq(l, 1, k)) = k
             /\ PartOfLine(SubSeq(l, 1, k), w, x, c)
  BY <1>7, LineParts DEF l
<1>9. CASE /\ page' = page \o Line(Top.node)
           /\ frames' = <<[Top EXCEPT !.printed = TRUE]>> \o Tail(frames)
           /\ dep' = dep + 1
           /\ UNCHANGED <<job, ok>>
  <2> DEFINE y == [Top EXCEPT !.printed = TRUE]
  <2>1. y \in Frames /\ y.node = c /\ y.called = frames[1].called /\ y.printed
    BY <1>2, <1>c DEF Frames
  <2>2. frames' = <<y>> \o Tail(frames)
    BY <1>9
  <2> HIDE DEF y
  <2>3. frames' \in Seq(Frames) /\ Changed(frames, y, frames')
    BY <1>2, <2>1, <2>2, TopChanges DEF n
  <2>4. page' = page \o l
    BY <1>6, <1>9
  <2>5. /\ page' \in Seq(Pieces) /\ Lines(work.tree, work.ind, page')
        /\ Extension(page, page', c) /\ HasLine(page', c)
        /\ n = 1 => Started(page')
    BY <1>2, <1>3, <1>8, <1>c, <2>4, PartPrinted DEF n
  <2>6. Walk(work.tree, frames')
    BY <1>2, <1>c, <2>1, <2>3, WalkChanges DEF InTree
  <2>7. Behind(work.tree, frames', page')
    BY <1>2, <1>c, <2>1, <2>3, <2>5, BehindPrints DEF InTree, n
  <2>8. dep' = Len(frames') /\ frames'[1].printed
    <3>1. Len(frames') = n /\ frames'[1] = y
      BY <2>3 DEF Changed, n
    <3>2. dep' = n
      BY <1>2, <1>5, <1>9
    <3>3. frames'[1].printed
      BY <2>1, <3>1
    <3> QED
      BY <3>1, <3>2, <3>3
  <2>9. InTree'
    <3>1. work.tree \in Trees
      BY <1>2 DEF InTree
    <3> QED
      BY <1>1, <1>2, <2>5, <2>6, <2>7, <2>8, <3>1 DEF InTree
  <2> QED
    BY <1>1, <1>2, <1>9, <2>3, <2>5, <2>9 DEF Printed
<1>10. CASE /\ \E k \in 0 .. Len(Line(Top.node)) - 1 :
                 page' = page \o SubSeq(Line(Top.node), 1, k)
            /\ Leaves(FALSE)
            /\ UNCHANGED dep
  <2>1. PICK k \in 0 .. w + 1 : page' = page \o SubSeq(l, 1, k)
    <3>1. Len(l) - 1 = w + 1
      BY <1>8
    <3> QED
      BY <1>6, <1>10, <3>1
  <2> DEFINE r == SubSeq(l, 1, k)
  <2>2. r \in Seq(Pieces) /\ Len(r) = k /\ PartOfLine(r, w, x, c)
    BY <1>8
  <2>3. page' = page \o r
    BY <2>1
  <2> HIDE DEF r
  <2>4. k # w + 2
    OBVIOUS
  <2>5. /\ page' \in Seq(Pieces) /\ Lines(work.tree, work.ind, page')
        /\ Extension(page, page', c)
        /\ n = 1 => ~ Started(page')
    BY <1>2, <1>3, <1>c, <2>2, <2>3, <2>4, PartPrinted DEF n
  <2>6. dep' = n - 1
    BY <1>5, <1>10
  <2> QED
    BY <1>1, <1>10, <1>c, <2>5, <2>6, FrameReturns DEF n
<1> QED
  BY <1>9, <1>10 DEF PrintLine

(* PrintChild keeps it. *)
LEMMA ChildStep ==
  ASSUME Printed, PrintChild
  PROVE  Printed'
<1> DEFINE ch == Children(work.tree, Top.node)
           x == Frame(ch[Top.called + 1])
           y == [Top EXCEPT !.called = @ + 1]
<1>1. job = "tree" /\ Top.printed /\ UNCHANGED <<job, work, page, dep, ok>>
  BY DEF PrintChild
<1>2. /\ InTree /\ work.tree \in Seq(Nat) /\ ok \in BOOLEAN
      /\ frames \in Seq(Frames) /\ Len(frames) \in Nat /\ Len(frames) >= 1
      /\ Top = frames[1] /\ frames[1] \in Frames
      /\ page \in Seq(Pieces) /\ work \in WorkType /\ work.ind \in Nat
  BY <1>1, TreeFacts
<1>3. Top.called < Len(ch) /\ frames' = <<x, y>> \o Tail(frames)
  BY DEF PrintChild
<1>4. Top.called \in Nat /\ Top.node \in Nat
  BY <1>2 DEF Frames
<1>5. ch[Top.called + 1] \in Nat
  <2>1. Len(ch) \in Nat /\ \A k \in 1 .. Len(ch) : ch[k] \in 1 .. Len(work.tree)
    BY <1>2, ChildrenFacts
  <2> HIDE DEF ch
  <2>2. Top.called + 1 \in 1 .. Len(ch)
    BY <1>3, <1>4, <2>1
  <2> QED
    BY <2>1, <2>2
<1>6. x \in Frames /\ x.node = ch[Top.called + 1] /\ ~ x.printed
  BY <1>5 DEF Frame, Frames
<1>7. y \in Frames /\ y.node = Top.node /\ y.printed /\ y.called = Top.called + 1
  <2>1. Top \in Frames
    BY <1>2
  <2>2. y = [node |-> Top.node, called |-> Top.called + 1, printed |-> Top.printed]
    BY <2>1 DEF Frames
  <2>3. y.node = Top.node /\ y.called = Top.called + 1 /\ y.printed = Top.printed
    BY <2>2
  <2>4. y \in Frames
    BY <1>4, <2>1, <2>2 DEF Frames
  <2> QED
    BY <1>1, <2>3, <2>4, Zenon
<1>8. ch = Children(work.tree, Top.node)
  OBVIOUS
<1> HIDE DEF ch, x, y
<1>9. frames' \in Seq(Frames) /\ Pushed(frames, x, y, frames')
  BY <1>2, <1>3, <1>6, <1>7, FramePushed
<1>10. Walk(work.tree, frames')
  BY <1>1, <1>2, <1>3, <1>6, <1>7, <1>8, <1>9, WalkPushes DEF InTree
<1>11. Behind(work.tree, frames', page)
  BY <1>1, <1>2, <1>3, <1>6, <1>7, <1>8, <1>9, BehindPushes DEF InTree
<1>12. dep = Len(frames') - 1 /\ ~ frames'[1].printed
  BY <1>1, <1>2, <1>6, <1>9 DEF InTree, Pushed
<1>13. InTree'
  <2>1. work.tree \in Trees /\ Lines(work.tree, work.ind, page)
    BY <1>2 DEF InTree
  <2> QED
    BY <1>1, <1>2, <1>10, <1>11, <1>12, <2>1 DEF InTree
<1> QED
  BY <1>1, <1>2, <1>9, <1>13 DEF Printed

(* PrintReturns keeps it. *)
LEMMA ReturnStep ==
  ASSUME Printed, PrintReturns
  PROVE  Printed'
<1>1. /\ job = "tree" /\ Top.printed /\ Leaves(TRUE)
      /\ dep' = dep - 1 /\ UNCHANGED <<work, page>>
  BY DEF PrintReturns
<1>2. /\ InTree /\ page \in Seq(Pieces) /\ Top = frames[1]
      /\ frames \in Seq(Frames) /\ Len(frames) \in Nat /\ Len(frames) >= 1
  BY <1>1, TreeFacts
<1>3. Lines(work.tree, work.ind, page') /\ page' \in Seq(Pieces)
  BY <1>1, <1>2 DEF InTree
<1>4. Extension(page, page', frames[1].node)
  BY <1>1, ExtensionTrivial
<1>5. dep' = Len(frames) - 1
  BY <1>1, <1>2 DEF InTree
<1>6. Len(frames) = 1 => Started(page')
  BY <1>1, <1>2 DEF InTree, Behind
<1> QED
  BY <1>1, <1>3, <1>4, <1>5, <1>6, FrameReturns

(* Take keeps it. *)
LEMMA TakeStep ==
  ASSUME Printed, Take
  PROVE  Printed'
<1>1. NoWork \in WorkType
  BY DEF NoWork, WorkType
<1>2. frames = << >> /\ frames \in Seq(Frames)
  BY DEF Printed, Take
<1>3. << >> \in Seq(Pieces)
  OBVIOUS
<1> QED
  BY <1>1, <1>2, <1>3 DEF Take, Printed

(* The inductive invariant holds always. *)
LEMMA AlwaysPrinted == Spec => []Printed
<1>1. ASSUME Printed, [Next]_vars PROVE Printed'
  <2>1. CASE UNCHANGED printVars
    <3>1. UNCHANGED <<job, work, page, frames, dep, ok>>
      BY <2>1 DEF printVars
    <3>2. InTree' = InTree /\ TreeDone' = TreeDone /\ TokensDone' = TokensDone
      BY <3>1 DEF InTree, TreeDone, TokensDone
    <3> QED
      BY <1>1, <3>1, <3>2 DEF Printed
  <2>2. ASSUME NEW toks \in Toks, NEW ind \in Ind, PrintTokens(toks, ind) PROVE Printed'
    BY <1>1, <2>2, TokensStep
  <2>3. ASSUME NEW tree \in Trees, NEW ind \in Ind, BeginTree(tree, ind) PROVE Printed'
    BY <1>1, <2>3, BeginStep
  <2>4. CASE PrintLine
    BY <1>1, <2>4, LineStep
  <2>5. CASE PrintChild
    BY <1>1, <2>5, ChildStep
  <2>6. CASE PrintReturns
    BY <1>1, <2>6, ReturnStep
  <2>7. CASE Take
    BY <1>1, <2>7, TakeStep
  <2> QED
    BY <1>1, <2>1, <2>2, <2>3, <2>4, <2>5, <2>6, <2>7 DEF Next, vars
<1> QED
  BY <1>1, InitPrinted, PTL DEF Spec

(* The type of the module's state. *)
THEOREM AlwaysTyped == Spec => []TypeOK
<1>1. Printed /\ BufTypeOK => TypeOK
  <2> SUFFICES ASSUME Printed, BufTypeOK PROVE TypeOK
    OBVIOUS
  <2>1. /\ work.toks \in Toks \union {<< >>} /\ work.tree \in Trees \union {<< >>}
        /\ work.ind \in Ind \union {0}
    BY DEF Printed, WorkType
  <2>2. dep \in Nat
    <3>1. CASE job # "tree"
      BY <3>1 DEF Printed
    <3>2. CASE job = "tree"
      <4>1. InTree /\ Len(frames) \in Nat /\ Len(frames) >= 1
        BY <3>2, TreeFacts
      <4> QED
        BY <4>1 DEF InTree
    <3> QED
      BY <3>1, <3>2
  <2> QED
    BY <2>1, <2>2 DEF Printed, TypeOK, Pieces, Kinds, Frames
<1> QED
  BY <1>1, AlwaysPrinted, BuffersTyped, PrintsBetweenCalls, PTL

(* The tokens that can be read from what is printed are those of the       *)
(* sequence, and a call that fails has printed none (token.c:295-352).     *)
THEOREM AlwaysTokensReadBack == Spec => []TokensReadBack
<1>1. ASSUME Printed PROVE TokensReadBack
  <2> SUFFICES ASSUME job = "done", work.tree = << >>, ok
               PROVE  ReadFrom(page, work.toks, work.ind)
    <3>1. job = "done" /\ work.tree = << >> /\ ~ ok => page = << >>
      BY <1>1 DEF Printed, TokensDone
    <3>2. Places({"StrLit", "Keyword"})
            = {i \in DOMAIN page : page[i].kind \in {"StrLit", "Keyword"}}
      BY DEF Places
    <3> QED
      BY <3>1, <3>2, Zenon DEF ReadFrom, TokensReadBack
  <2>1. TokensDone /\ work \in WorkType
    BY <1>1 DEF Printed
  <2>2. page = TokensText(work.toks, work.ind)
    BY <2>1 DEF TokensDone
  <2>3. work.toks \in Toks \union {<< >>} /\ work.ind \in Ind \union {0}
    BY <2>1 DEF WorkType
  <2>4. work.toks \in Seq(Tokens)
    BY <2>3, TextIsBytes
  <2>5. work.ind \in Int
    <3>1. \A i \in Ind \union {0} : i \in Int
      BY PrintingAssumption
    <3> QED
      BY <2>3, <3>1, Zenon
  <2> QED
    BY <2>2, <2>4, <2>5, TextReadsBack
<1> QED
  BY <1>1, AlwaysPrinted, PTL

(* What TreeLines says of the lines at the places at of a page. *)
InLines(tree, ind, p, at) ==
  \A k \in DOMAIN at :
    /\ k > 1 => p[at[k - 1]].num < p[at[k]].num
    /\ \A m \in 1 .. p[at[k]].num - 1 :
         IsAbove(tree, m, p[at[k]].num) =>
           \E j \in 1 .. k - 1 : p[at[j]].num = m /\ p[at[j] + 1].kind = "newline"
    /\ ind * tree[p[at[k]].num] > 0 =>
         p[at[k] - 1] = Piece("pad", ind * tree[p[at[k]].num])

(* What Lines says of the places of labels holds of them taken in order. *)
LEMMA LinesInOrder ==
  ASSUME NEW tree \in Seq(Nat), NEW ind \in Int, NEW p \in Seq(Pieces), Lines(tree, ind, p)
  PROVE  InLines(tree, ind, p, InOrder(Labels(p)))
<1> DEFINE S == Labels(p)
           at == InOrder(S)
           n == Len(at)
           N == Len(p)
<1>1. N \in Nat /\ S \in SUBSET (1 .. N)
  BY DEF Labels
<1>2. n \in Nat /\ at \in Seq(S) /\ Increases(at, n) /\ S = {at[i] : i \in 1 .. n}
  <2> HIDE DEF S, N
  <2> QED
    BY <1>1, InOrderFacts
<1>3. /\ \A q \in S : p[q].num \in 1 .. Len(tree)
      /\ \A q, r \in S : q < r => p[q].num < p[r].num
      /\ \A q \in S, m \in 1 .. Len(tree) :
           IsAbove(tree, m, p[q].num) => \E r \in S : r < q /\ LineAt(p, r, m)
      /\ \A q \in S :
           ind * tree[p[q].num] > 0 =>
             q - 1 \in DOMAIN p /\ p[q - 1] = Piece("pad", ind * tree[p[q].num])
  BY DEF Lines
<1> HIDE DEF S, N, at
<1>4. DOMAIN at = 1 .. n /\ \A i \in 1 .. n : at[i] \in S
  BY <1>2
<1>5. ASSUME NEW i \in 1 .. n PROVE at[i] \in Nat
  <2>1. at[i] \in S
    BY <1>4
  <2>2. S \subseteq Nat
    BY DEF S, Labels
  <2> QED
    BY <2>1, <2>2
<1>6. \A i, j \in 1 .. n : i < j => at[i] < at[j]
  BY <1>2 DEF Increases
<1> HIDE DEF n
<1>7. ASSUME NEW k \in 1 .. n, k > 1 PROVE p[at[k - 1]].num < p[at[k]].num
  <2>1. k - 1 \in 1 .. n /\ k - 1 < k
    BY <1>2, <1>7
  <2>2. at[k - 1] < at[k] /\ at[k - 1] \in S /\ at[k] \in S
    BY <1>4, <1>6, <2>1
  <2> QED
    BY <1>3, <2>2
<1>8. ASSUME NEW k \in 1 .. n, NEW m \in 1 .. p[at[k]].num - 1, IsAbove(tree, m, p[at[k]].num)
      PROVE  \E j \in 1 .. k - 1 : p[at[j]].num = m /\ p[at[j] + 1].kind = "newline"
  <2> DEFINE q == at[k]
  <2>1. q \in S /\ q \in Nat
    BY <1>4, <1>5
  <2>2. m \in 1 .. Len(tree)
    <3>1. p[q].num \in 1 .. Len(tree)
      BY <1>3, <2>1
    <3> QED
      BY <3>1
  <2>3. PICK r \in S : r < q /\ LineAt(p, r, m)
    BY <1>3, <1>8, <2>1, <2>2
  <2>4. p[r].num = m /\ p[r + 1].kind = "newline"
    BY <2>3 DEF LineAt
  <2>5. PICK j \in 1 .. n : r = at[j]
    BY <1>2
  <2>6. j < k
    <3> SUFFICES ASSUME k <= j PROVE FALSE
      BY <1>2
    <3>1. k = j \/ at[k] < at[j]
      BY <1>2, <1>6
    <3>2. at[j] < at[k] /\ at[j] \in Nat /\ at[k] \in Nat
      BY <1>5, <2>3, <2>5
    <3> QED
      BY <3>1, <3>2
  <2>7. j \in 1 .. k - 1
    BY <1>2, <2>6
  <2> QED
    BY <2>4, <2>5, <2>7
<1>9. ASSUME NEW k \in 1 .. n, ind * tree[p[at[k]].num] > 0
      PROVE  p[at[k] - 1] = Piece("pad", ind * tree[p[at[k]].num])
  BY <1>3, <1>4, <1>9
<1> QED
  BY <1>4, <1>7, <1>8, <1>9 DEF InLines, at, S

(* The lines of a tree are in the order of the program, below the lines of *)
(* all they belong to and indented by their depth, whatever was refused,   *)
(* and true is returned exactly when the root's line is there              *)
(* (ast.c:282-422).                                                        *)
THEOREM AlwaysTreeLines == Spec => []TreeLines
<1>1. ASSUME Printed PROVE TreeLines
  <2> DEFINE at == InOrder(Places({"label"}))
  <2>1. Places({"label"}) = Labels(page)
    BY DEF Places, Labels
  <2> SUFFICES ASSUME job \in {"tree", "done"}, work.tree # << >>
               PROVE  /\ InLines(work.tree, work.ind, page, at)
                      /\ job = "done" =>
                           (ok <=> Len(page) > 1 /\ page[2].kind = "newline") /\ dep = 0
    BY Zenon DEF TreeLines, InLines
  <2>2. work.tree \in Trees /\ work.ind \in Nat /\ Lines(work.tree, work.ind, page)
    BY <1>1 DEF Printed, InTree, TreeDone
  <2>3. work.tree \in Seq(Nat) /\ page \in Seq(Pieces) /\ work.ind \in Int
    BY <1>1, <2>2, TreeType DEF Printed
  <2>4. job = "done" => (ok <=> Len(page) > 1 /\ page[2].kind = "newline") /\ dep = 0
    BY <1>1 DEF Printed, TreeDone, Started
  <2>5. at = InOrder(Labels(page))
    BY <2>1
  <2> HIDE DEF at
  <2> QED
    BY <2>2, <2>3, <2>4, <2>5, LinesInOrder
<1> QED
  BY <1>1, AlwaysPrinted, PTL
=============================================================================
