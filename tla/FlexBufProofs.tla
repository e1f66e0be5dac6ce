--------------------------- MODULE FlexBufProofs ---------------------------
(***************************************************************************)
(* Proofs about FlexBuf, for every growth step, address space, set of      *)
(* handles and data that satisfies the assumptions of Growth and FlexBuf.  *)
(***************************************************************************)
EXTENDS FlexBuf, TLAPS

-----------------------------------------------------------------------------
(* Sizes. *)

LEMMA WrapIdentity ==
  ASSUME NEW n \in 0 .. UsizeMax
  PROVE  Wrap(n) = n
BY GrowthAssumption DEF Wrap

LEMMA ModBounds ==
  ASSUME NEW n \in Nat
  PROVE  /\ n % Align \in 0 .. Align - 1
         /\ n % Align <= n
BY GrowthAssumption

(* The capacity a push asks for covers the length it needs, as long as the *)
(* shift does not wrap: rounding down loses less than Align bytes, and     *)
(* doubling what is left wins them back because need is at least InitCap.  *)
LEMMA GrowCovers ==
  ASSUME NEW need \in Shiftable
  PROVE  /\ NewCap(need) \in Usize
         /\ NewCap(need) >= need
         /\ NewCap(need) > 0
<1> need \in Nat /\ 2 * need <= UsizeMax
  BY GrowthAssumption DEF Shiftable
<1>1. CASE need < InitCap
  BY <1>1, GrowthAssumption DEF NewCap, Usize
<1>2. CASE ~(need < InitCap)
  <2> DEFINE cut == need % Align
  <2>1. cut \in 0 .. Align - 1 /\ cut <= need
    BY ModBounds
  <2>2. 2 * (need - cut) \in 0 .. UsizeMax
    BY <2>1, GrowthAssumption
  <2>3. NewCap(need) = 2 * (need - cut)
    BY <1>2, <2>2, WrapIdentity DEF NewCap
  <2>4. need >= 2 * cut
    BY <1>2, <2>1, GrowthAssumption
  <2> HIDE DEF cut
  <2>5. 2 * (need - cut) >= need /\ 2 * (need - cut) > 0
    BY <1>2, <2>1, <2>4, GrowthAssumption
  <2> QED
    BY <2>2, <2>3, <2>5 DEF Usize
<1> QED
  BY <1>1, <1>2

-----------------------------------------------------------------------------
(* One object. *)

Object == [alive : BOOLEAN,
           buf   : {"null", "block", "freed"},
           cap   : Usize,
           len   : Usize,
           mem   : Seq(Cell)]

(* The strengthening of the invariants: capacities were granted by the     *)
(* allocator, which keeps every sum of a length and a pushed length in the *)
(* half of usize where GrowCovers applies.                                 *)
WellFormed(f) ==
  /\ f \in Object
  /\ Len(f.mem) = f.cap
  /\ f.len <= f.cap
  /\ f.cap <= MaxAlloc
  /\ \A i \in 1 .. f.len : f.mem[i] # Junk
  /\ CompactEmpty \/ f.buf = (IF f.cap = 0 THEN "null" ELSE "block")

LEMMA NoneWellFormed ==
  WellFormed(None) /\ WellFormed(Fresh)
<1>1. None \in Object /\ Fresh \in Object
  <2>1. 0 \in Usize /\ << >> \in Seq(Cell)
    BY GrowthAssumption DEF Usize
  <2>2. None \in Object
    BY <2>1 DEF None, Object
  <2>3. Fresh \in Object
    BY <2>2 DEF Fresh, Object
  <2> QED
    BY <2>2, <2>3
<1>2. None.len = 0 /\ None.cap = 0 /\ None.buf = "null" /\ None.mem = << >>
  BY DEF None
<1>3. Fresh.len = 0 /\ Fresh.cap = 0 /\ Fresh.buf = "null" /\ Fresh.mem = << >>
  BY DEF None, Fresh
<1> QED
  BY <1>1, <1>2, <1>3, FlexBufAssumption DEF WellFormed, Usize

LEMMA FunctionIsSeq ==
  ASSUME NEW S, NEW n \in Nat, NEW m \in [1 .. n -> S]
  PROVE  m \in Seq(S) /\ Len(m) = n
OBVIOUS

LEMMA ContentIsData ==
  ASSUME NEW f, WellFormed(f)
  PROVE  /\ Content(f) \in Seq(Byte)
         /\ Len(Content(f)) = f.len
         /\ Len(Content(f)) + MaxAlloc \in Shiftable
<1>1. f.len \in Nat /\ f.len <= MaxAlloc /\ f.cap \in Nat
  BY FlexBufAssumption DEF WellFormed, Object, Usize
<1>2. \A i \in 1 .. f.len : f.mem[i] \in Byte
  <2>1. f.mem \in Seq(Cell) /\ Len(f.mem) = f.cap /\ f.len <= f.cap
    BY DEF WellFormed, Object
  <2>2. \A i \in 1 .. f.len : f.mem[i] \in Cell
    BY <1>1, <2>1
  <2> QED
    BY <2>2 DEF WellFormed, Cell
<1>3. Content(f) \in Seq(Byte) /\ Len(Content(f)) = f.len
  BY <1>1, <1>2 DEF Content
<1> QED
  BY <1>1, <1>3, AddressSpaceAssumption, FlexBufAssumption, GrowthAssumption
     DEF Shiftable, Usize

LEMMA ResizedWellFormed ==
  ASSUME NEW f, WellFormed(f),
         NEW cap \in 0 .. MaxAlloc, f.len <= cap, cap # 0 \/ CompactEmpty
  PROVE  /\ WellFormed(Resized(f, cap))
         /\ Resized(f, cap).len = f.len
         /\ Resized(f, cap).cap = cap
<1> DEFINE mem == [i \in 1 .. cap |-> IF i <= f.cap THEN f.mem[i] ELSE Junk]
           g == Resized(f, cap)
<1>1. f \in Object /\ cap \in Usize /\ f.len \in Nat /\ f.cap \in Nat
  BY FlexBufAssumption, GrowthAssumption DEF WellFormed, Object, Usize
<1>2. mem \in Seq(Cell) /\ Len(mem) = cap
  <2>1. \A i \in 1 .. cap : mem[i] \in Cell
    BY <1>1 DEF WellFormed, Object, Cell
  <2> QED
    BY <2>1, FunctionIsSeq
<1>3. g = [f EXCEPT !.buf = "block", !.cap = cap, !.mem = mem]
  BY DEF Resized
<1>4. g \in Object /\ g.buf = "block" /\ g.cap = cap /\ g.mem = mem /\ g.len = f.len
  <2> HIDE DEF mem, g
  <2> QED
    BY <1>1, <1>2, <1>3 DEF Object
<1>5. \A i \in 1 .. f.len : mem[i] # Junk
  BY <1>1 DEF WellFormed
<1> HIDE DEF mem, g
<1>6. WellFormed(g)
  BY <1>1, <1>2, <1>4, <1>5 DEF WellFormed
<1> QED
  BY <1>4, <1>6 DEF g

LEMMA WrittenWellFormed ==
  ASSUME NEW f, WellFormed(f),
         NEW s \in Seq(Byte), f.len + Len(s) <= f.cap
  PROVE  WellFormed(Written(f, s))
<1> DEFINE mem == [i \in 1 .. f.cap |->
                     IF i - f.len \in 1 .. Len(s) THEN s[i - f.len] ELSE f.mem[i]]
           g == Written(f, s)
<1>1. f \in Object /\ f.len \in Nat /\ f.cap \in Nat /\ f.cap <= UsizeMax
  BY FlexBufAssumption DEF WellFormed, Object, Usize
<1>2. mem \in Seq(Cell) /\ Len(mem) = f.cap
  <2>1. f.mem \in Seq(Cell) /\ Len(f.mem) = f.cap
    BY DEF WellFormed, Object
  <2>2. ASSUME NEW i \in 1 .. f.cap
        PROVE  mem[i] \in Cell
    <3>1. f.mem[i] \in Cell
      BY <1>1, <2>1
    <3>2. \A k \in 1 .. Len(s) : s[k] \in Cell
      BY DEF Cell
    <3> QED
      BY <1>1, <3>1, <3>2
  <2>3. mem \in [1 .. f.cap -> Cell]
    BY <2>2
  <2> HIDE DEF mem
  <2> QED
    BY <1>1, <2>3, FunctionIsSeq
<1>3. Wrap(f.len + Len(s)) = f.len + Len(s)
  BY <1>1, WrapIdentity, GrowthAssumption
<1>4. g = [f EXCEPT !.len = f.len + Len(s), !.mem = mem]
  BY <1>3 DEF Written
<1>5. g \in Object /\ g.buf = f.buf /\ g.cap = f.cap /\ g.mem = mem
      /\ g.len = f.len + Len(s)
  <2>1. f.len + Len(s) \in Usize
    BY <1>1, GrowthAssumption DEF Usize
  <2> HIDE DEF mem, g
  <2> QED
    BY <1>1, <1>2, <1>4, <2>1 DEF Object
<1>6. \A i \in 1 .. f.len + Len(s) : mem[i] # Junk
  <2> SUFFICES ASSUME NEW i \in 1 .. f.len + Len(s)
               PROVE  mem[i] # Junk
    OBVIOUS
  <2>1. i \in 1 .. f.cap
    BY <1>1
  <2>2. CASE i <= f.len
    BY <1>1, <2>1, <2>2 DEF WellFormed
  <2>3. CASE i > f.len
    <3>1. i - f.len \in 1 .. Len(s)
      BY <1>1, <2>3
    <3>2. s[i - f.len] \in Byte
      BY <3>1
    <3> QED
      BY <2>1, <3>1, <3>2, FlexBufAssumption
  <2> QED
    BY <1>1, <2>2, <2>3
<1> HIDE DEF mem, g
<1>7. WellFormed(g)
  BY <1>1, <1>2, <1>5, <1>6 DEF WellFormed
<1> QED
  BY <1>7 DEF g

(* A push leaves a well-formed object, whatever its length. *)
LEMMA PushedWellFormed ==
  ASSUME NEW f, WellFormed(f),
         NEW s \in Seq(Byte), Len(s) + MaxAlloc \in Shiftable,
         NEW g \in Pushed(f, s)
  PROVE  WellFormed(g)
<1> DEFINE need == f.len + Len(s)
<1>1. f.len \in Nat /\ f.len <= MaxAlloc /\ f.cap \in Nat /\ MaxAlloc \in Nat
  BY FlexBufAssumption DEF WellFormed, Object, Usize
<1>2. need \in Shiftable
  BY <1>1, GrowthAssumption DEF Shiftable
<1>3. Need(f, Len(s)) = need
  BY <1>2, WrapIdentity, GrowthAssumption DEF Need, Shiftable
<1>4. CASE s = << >>
  BY <1>4 DEF Pushed
<1>5. CASE s # << >> /\ Fits(f, Len(s))
  BY <1>3, <1>5, WrittenWellFormed DEF Pushed, Fits
<1>6. CASE s # << >> /\ ~Fits(f, Len(s))
  <2> DEFINE cap == NewCap(need)
  <2>1. cap <= MaxAlloc /\ g = Written(Resized(f, cap), s)
    BY <1>3, <1>6 DEF Pushed
  <2>2. cap \in 1 .. MaxAlloc /\ cap >= need
    BY <1>2, <2>1, GrowCovers DEF Usize
  <2> HIDE DEF cap
  <2>3. need >= f.len /\ cap >= f.len
    BY <1>1, <2>2
  <2>4. WellFormed(Resized(f, cap)) /\ Resized(f, cap).len = f.len
        /\ Resized(f, cap).cap = cap
    BY <2>2, <2>3, ResizedWellFormed
  <2> QED
    BY <2>1, <2>2, <2>4, WrittenWellFormed
<1> QED
  BY <1>4, <1>5, <1>6

-----------------------------------------------------------------------------
(* All objects. *)

IInv ==
  /\ fb \in [Obj -> Object]
  /\ \A o \in Obj : WellFormed(fb[o])
  /\ ret \in BOOLEAN
  /\ overrun \in BOOLEAN

LEMMA IInvImplies ==
  IInv => TypeOK /\ LenWithinCap /\ ContentWritten /\ (~CompactEmpty => BlockOwned)
BY DEF IInv, WellFormed, Object, TypeOK, LenWithinCap, ContentWritten, BlockOwned

LEMMA ReplaceObject ==
  ASSUME IInv, NEW o \in Obj, NEW f, WellFormed(f), fb' = [fb EXCEPT ![o] = f]
  PROVE  fb' \in [Obj -> Object] /\ \A p \in Obj : WellFormed(fb'[p])
<1>1. f \in Object
  BY DEF WellFormed
<1> QED
  BY <1>1 DEF IInv

LEMMA PushPreserves ==
  ASSUME IInv, NEW o \in Obj,
         NEW s \in Seq(Byte), Len(s) + MaxAlloc \in Shiftable,
         Push(o, s)
  PROVE  /\ fb' \in [Obj -> Object]
         /\ \A p \in Obj : WellFormed(fb'[p])
         /\ ret' \in BOOLEAN
<1>1. CASE \E f \in Pushed(fb[o], s) : fb' = [fb EXCEPT ![o] = f] /\ ret' = TRUE
  <2>1. PICK f \in Pushed(fb[o], s) : fb' = [fb EXCEPT ![o] = f] /\ ret' = TRUE
    BY <1>1
  <2>2. WellFormed(f)
    BY <2>1, PushedWellFormed DEF IInv
  <2> QED
    BY <2>1, <2>2, ReplaceObject
<1>2. CASE Refused
  BY <1>2 DEF Refused, IInv
<1> QED
  BY <1>1, <1>2 DEF Push

(* What callers push is data, of a length AddressSpaceAssumption bounds. *)
LEMMA DataFacts ==
  ASSUME NEW s \in Data
  PROVE  s \in Seq(Byte) /\ Len(s) + MaxAlloc \in Shiftable
<1>1. s \in Seq(Byte)
  <2>1. ASSUME NEW b \in Byte, NEW n \in Nat
        PROVE  Dup(b, n) \in Seq(Byte)
    BY DEF Dup
  <2>2. CASE s \in {<<b>> : b \in Byte}
    <3>1. PICK b \in Byte : s = <<b>>
      BY <2>2
    <3> QED
      BY <3>1
  <2>3. CASE s \in Chunk \union FmtText
    BY <2>3, FlexBufAssumption
  <2>4. CASE s \in {Dup(b, Len(t)) : b \in Byte, t \in Chunk}
    <3>1. PICK b \in Byte, t \in Chunk : s = Dup(b, Len(t))
      BY <2>4
    <3>2. Len(t) \in Nat
      BY FlexBufAssumption
    <3> QED
      BY <2>1, <3>1, <3>2
  <2> QED
    BY <2>2, <2>3, <2>4 DEF Data
<1>2. MaxAlloc + Len(s) \in Shiftable
  BY AddressSpaceAssumption
<1> QED
  BY <1>1, <1>2, FlexBufAssumption DEF Usize

LEMMA InitIInv == Init => IInv
BY NoneWellFormed DEF Init, IInv, WellFormed

LEMMA CompactPreserves ==
  ASSUME IInv, NEW o \in Obj, Compact(o)
  PROVE  IInv'
<1> DEFINE f == fb[o]
<1>1. WellFormed(f) /\ f \in Object /\ f.len \in 0 .. MaxAlloc /\ f.cap \in Nat
  BY FlexBufAssumption DEF IInv, WellFormed, Object, Usize
<1>2. ASSUME NEW g, WellFormed(g), fb' = [fb EXCEPT ![o] = g], ret' \in BOOLEAN
      PROVE  IInv'
  BY <1>2, ReplaceObject DEF Compact, IInv
<1>3. CASE UNCHANGED fb /\ ret' \in BOOLEAN
  BY <1>3 DEF Compact, IInv
<1>4. CASE f.len # 0 /\ fb' = [fb EXCEPT ![o] = Resized(@, @.len)] /\ ret' = TRUE
  <2>1. WellFormed(Resized(f, f.len))
    BY <1>1, <1>4, ResizedWellFormed
  <2> QED
    BY <1>2, <1>4, <2>1
<1>5. CASE CompactEmpty /\ f.len = 0 /\ ret' \in BOOLEAN
           /\ \/ fb' = [fb EXCEPT ![o].buf = "freed"]
              \/ fb' = [fb EXCEPT ![o] = Resized(@, 0)]
  <2>1. WellFormed(Resized(f, 0))
    BY <1>1, <1>5, ResizedWellFormed
  <2>2. WellFormed([f EXCEPT !.buf = "freed"])
    BY <1>1, <1>5 DEF WellFormed, Object
  <2>3. CASE fb' = [fb EXCEPT ![o].buf = "freed"]
    BY <1>2, <1>5, <2>2, <2>3
  <2>4. CASE fb' = [fb EXCEPT ![o] = Resized(@, 0)]
    BY <1>2, <1>5, <2>1, <2>4
  <2> QED
    BY <1>5, <2>3, <2>4
<1> QED
  BY <1>1, <1>3, <1>4, <1>5 DEF Compact, Refused

LEMMA JoinPreserves ==
  ASSUME IInv, NEW o \in Obj, NEW a \in Obj, NEW b \in Obj, Join(o, a, b)
  PROVE  IInv'
<1>1. CASE Refused
  BY <1>1 DEF Refused, Join, IInv
<1>2. CASE ~Refused
  <2>1. PICK f \in Pushed(Fresh, Content(fb[a])) :
          \E g \in Pushed(f, Content(fb[b])) : fb' = [fb EXCEPT ![o] = g]
    BY <1>2 DEF Join
  <2>2. PICK g \in Pushed(f, Content(fb[b])) : fb' = [fb EXCEPT ![o] = g]
    BY <2>1
  <2>3. WellFormed(fb[a]) /\ WellFormed(fb[b])
    BY DEF IInv
  <2>4. WellFormed(f)
    BY <2>1, <2>3, ContentIsData, NoneWellFormed, PushedWellFormed
  <2>5. WellFormed(g)
    BY <2>2, <2>3, <2>4, ContentIsData, PushedWellFormed
  <2> QED
    BY <1>2, <2>2, <2>5, ReplaceObject DEF Join, IInv
<1> QED
  BY <1>1, <1>2

LEMMA StepIInv == IInv /\ [Next]_vars => IInv'
<1> SUFFICES ASSUME IInv, [Next]_vars
             PROVE  IInv'
  OBVIOUS
<1>1. CASE UNCHANGED vars
  BY <1>1 DEF vars, IInv
<1>2. ASSUME NEW o \in Obj, New(o)
      PROVE  IInv'
  BY <1>2, NoneWellFormed, ReplaceObject DEF New, Refused, IInv
<1>3. ASSUME NEW o \in Obj, Clear(o)
      PROVE  IInv'
  <2>1. WellFormed([fb[o] EXCEPT !.len = 0])
    BY GrowthAssumption DEF IInv, WellFormed, Object, Usize
  <2> QED
    BY <1>3, <2>1, ReplaceObject DEF Clear, IInv
<1>4. ASSUME NEW o \in Obj, Compact(o)
      PROVE  IInv'
  BY <1>4, CompactPreserves
<1>5. ASSUME NEW o \in Obj, Free(o)
      PROVE  IInv'
  BY <1>5, NoneWellFormed, ReplaceObject DEF Free, IInv
<1>6. ASSUME NEW o \in Obj, NEW b \in Byte, PushByte(o, b)
      PROVE  IInv'
  <2>1. <<b>> \in Data
    BY DEF Data
  <2> QED
    BY <1>6, <2>1, DataFacts, PushPreserves DEF PushByte, IInv
<1>7. ASSUME NEW o \in Obj, NEW s \in Chunk, PushBuf(o, s)
      PROVE  IInv'
  <2>1. s \in Data
    BY DEF Data
  <2> QED
    BY <1>7, <2>1, DataFacts, PushPreserves DEF PushBuf, IInv
<1>8. ASSUME NEW o \in Obj, NEW s \in FmtText, PushFmt(o, s)
      PROVE  IInv'
  <2>1. s \in Data
    BY DEF Data
  <2>2. overrun' \in BOOLEAN
    BY <1>8 DEF PushFmt, IInv
  <2>3. CASE Push(o, s)
    BY <2>1, <2>2, <2>3, DataFacts, PushPreserves DEF IInv
  <2>4. CASE Refused
    BY <2>2, <2>4 DEF Refused, IInv
  <2> QED
    BY <1>8, <2>3, <2>4 DEF PushFmt
<1>9. ASSUME NEW o \in Obj, NEW b \in Byte, NEW s \in Chunk, PushDupByte(o, b, Len(s))
      PROVE  IInv'
  <2>1. Dup(b, Len(s)) \in Data
    BY DEF Data
  <2> QED
    BY <1>9, <2>1, DataFacts, PushPreserves DEF PushDupByte, IInv
<1>10. ASSUME NEW o \in Obj, NEW a \in Obj, Merge(o, a)
       PROVE  IInv'
  <2>1. WellFormed(fb[a])
    BY DEF IInv
  <2> QED
    BY <1>10, <2>1, ContentIsData, PushPreserves DEF Merge, IInv
<1>11. ASSUME NEW o \in Obj, NEW a \in Obj, NEW b \in Obj, Join(o, a, b)
       PROVE  IInv'
  BY <1>11, JoinPreserves
<1> QED
  BY <1>1, <1>2, <1>3, <1>4, <1>5, <1>6, <1>7, <1>8, <1>9, <1>10, <1>11 DEF Next

(* Over any sequence of calls and refused allocations every object is well *)
(* typed.                                                                  *)
THEOREM TypeCorrect == Spec => []TypeOK
<1>1. IInv => TypeOK
  BY IInvImplies
<1> QED
  BY <1>1, InitIInv, StepIInv, PTL DEF Spec

(* No push ever writes past the block it has: the length stays within the  *)
(* capacity for every InitCap and Align with InitCap >= 2 * (Align - 1),   *)
(* which 16 and 8 satisfy.                                                 *)
THEOREM LenAlwaysWithinCap == Spec => []LenWithinCap
<1>1. IInv => LenWithinCap
  BY IInvImplies
<1> QED
  BY <1>1, InitIInv, StepIInv, PTL DEF Spec

(* No caller ever reads a byte of a buffer that was not pushed. *)
THEOREM ContentAlwaysWritten == Spec => []ContentWritten
<1>1. IInv => ContentWritten
  BY IInvImplies
<1> QED
  BY <1>1, InitIInv, StepIInv, PTL DEF Spec

(* While no empty buffer is compacted, buf is NULL or a block the object   *)
(* owns.                                                                   *)
THEOREM BlockAlwaysOwned ==
  ASSUME ~CompactEmpty
  PROVE  Spec => []BlockOwned
<1>1. IInv => BlockOwned
  BY IInvImplies
<1> QED
  BY <1>1, InitIInv, StepIInv, PTL DEF Spec

-----------------------------------------------------------------------------
(* Refinement of ByteSeq. *)

LEMMA EmptyContent ==
  ASSUME NEW f, f.len = 0
  PROVE  Content(f) = << >>
BY DEF Content

LEMMA WrittenContent ==
  ASSUME NEW f, WellFormed(f),
         NEW s \in Seq(Byte), f.len + Len(s) <= f.cap
  PROVE  /\ Content(Written(f, s)) = Content(f) \o s
         /\ Written(f, s).alive = f.alive
<1> DEFINE mem == [i \in 1 .. f.cap |->
                     IF i - f.len \in 1 .. Len(s) THEN s[i - f.len] ELSE f.mem[i]]
           g == Written(f, s)
<1>1. f \in Object /\ f.len \in Nat /\ f.cap \in Nat /\ f.cap <= UsizeMax
  BY FlexBufAssumption DEF WellFormed, Object, Usize
<1>2. Wrap(f.len + Len(s)) = f.len + Len(s)
  BY <1>1, WrapIdentity, GrowthAssumption
<1>3. g = [f EXCEPT !.len = f.len + Len(s), !.mem = mem]
  BY <1>2 DEF Written
<1>4. g.len = f.len + Len(s) /\ g.mem = mem /\ g.alive = f.alive
  <2> HIDE DEF mem, g
  <2> QED
    BY <1>1, <1>3 DEF Object
<1>5. Content(g) = [i \in 1 .. f.len + Len(s) |-> mem[i]]
  BY <1>4 DEF Content
<1>6. Content(f) \o s = [i \in 1 .. f.len + Len(s) |->
                          IF i <= f.len THEN f.mem[i] ELSE s[i - f.len]]
  BY <1>1, ContentIsData DEF Content
<1>7. ASSUME NEW i \in 1 .. f.len + Len(s)
      PROVE  mem[i] = IF i <= f.len THEN f.mem[i] ELSE s[i - f.len]
  BY <1>1
<1> HIDE DEF mem, g
<1>8. Content(g) = Content(f) \o s
  BY <1>5, <1>6, <1>7
<1> QED
  BY <1>4, <1>8 DEF g

LEMMA ResizedContent ==
  ASSUME NEW f, WellFormed(f), NEW cap \in 0 .. MaxAlloc, f.len <= cap
  PROVE  /\ Content(Resized(f, cap)) = Content(f)
         /\ Resized(f, cap).alive = f.alive
<1> DEFINE mem == [i \in 1 .. cap |-> IF i <= f.cap THEN f.mem[i] ELSE Junk]
           g == Resized(f, cap)
<1>1. f \in Object /\ f.len \in Nat /\ f.cap \in Nat /\ f.len <= f.cap /\ cap \in Nat
  BY FlexBufAssumption DEF WellFormed, Object, Usize
<1>2. g = [f EXCEPT !.buf = "block", !.cap = cap, !.mem = mem]
  BY DEF Resized
<1>3. g.len = f.len /\ g.mem = mem /\ g.alive = f.alive
  <2> HIDE DEF mem, g
  <2> QED
    BY <1>1, <1>2 DEF Object
<1>4. \A i \in 1 .. f.len : mem[i] = f.mem[i]
  BY <1>1
<1> HIDE DEF mem, g
<1> QED
  BY <1>3, <1>4 DEF Content, g

LEMMA PushedContent ==
  ASSUME NEW f, WellFormed(f),
         NEW s \in Seq(Byte), Len(s) + MaxAlloc \in Shiftable,
         NEW g \in Pushed(f, s)
  PROVE  Content(g) = Content(f) \o s /\ g.alive = f.alive
<1> DEFINE need == f.len + Len(s)
<1>1. f.len \in Nat /\ f.len <= MaxAlloc /\ f.cap \in Nat /\ MaxAlloc \in Nat
  BY FlexBufAssumption DEF WellFormed, Object, Usize
<1>2. need \in Shiftable
  BY <1>1, GrowthAssumption DEF Shiftable
<1>3. Need(f, Len(s)) = need
  BY <1>2, WrapIdentity, GrowthAssumption DEF Need, Shiftable
<1>4. CASE s = << >>
  <2>1. g = f
    BY <1>4 DEF Pushed
  <2> QED
    BY <1>4, <2>1, ContentIsData
<1>5. CASE s # << >> /\ Fits(f, Len(s))
  BY <1>3, <1>5, WrittenContent DEF Pushed, Fits
<1>6. CASE s # << >> /\ ~Fits(f, Len(s))
  <2> DEFINE cap == NewCap(need)
  <2>1. cap <= MaxAlloc /\ g = Written(Resized(f, cap), s)
    BY <1>3, <1>6 DEF Pushed
  <2>2. cap \in 1 .. MaxAlloc /\ cap >= need
    BY <1>2, <2>1, GrowCovers DEF Usize
  <2> HIDE DEF cap
  <2>3. need >= f.len /\ cap >= f.len /\ cap \in 0 .. MaxAlloc /\ cap # 0
    BY <1>1, <2>2
  <2>4. WellFormed(Resized(f, cap)) /\ Resized(f, cap).len = f.len
        /\ Resized(f, cap).cap = cap
    BY <2>3, ResizedWellFormed
  <2>5. Content(Resized(f, cap)) = Content(f) /\ Resized(f, cap).alive = f.alive
    BY <2>3, ResizedContent
  <2> QED
    BY <2>1, <2>2, <2>4, <2>5, WrittenContent
<1> QED
  BY <1>4, <1>5, <1>6

(* What replacing the object of a handle does to the abstract state. *)
LEMMA AbsReplace ==
  ASSUME IInv, NEW o \in Obj, NEW f, fb' = [fb EXCEPT ![o] = f]
  PROVE  /\ Contents' = [Contents EXCEPT ![o] = Content(f)]
         /\ Alive' = IF f.alive THEN Alive \union {o} ELSE Alive \ {o}
<1>1. \A p \in Obj : fb'[p] = IF p = o THEN f ELSE fb[p]
  BY DEF IInv
<1>2. Contents' = [Contents EXCEPT ![o] = Content(f)]
  <2>1. Contents' = [p \in Obj |-> Content(fb'[p])]
    BY DEF Contents, Content
  <2>2. \A p \in Obj :
          Content(fb'[p]) = IF p = o THEN Content(f) ELSE Content(fb[p])
    BY <1>1
  <2>3. [Contents EXCEPT ![o] = Content(f)] =
          [p \in Obj |-> IF p = o THEN Content(f) ELSE Content(fb[p])]
    BY DEF Contents
  <2> QED
    BY <2>1, <2>2, <2>3
<1>3. Alive' = IF f.alive THEN Alive \union {o} ELSE Alive \ {o}
  BY <1>1 DEF Alive
<1> QED
  BY <1>2, <1>3
LEMMA PushRefines ==
  ASSUME IInv, NEW o \in Obj, fb[o].alive,
         NEW s \in Seq(Byte), Len(s) + MaxAlloc \in Shiftable,
         Push(o, s)
  PROVE  Abs!Append2(o, s) \/ Abs!Refuse
<1>1. CASE \E f \in Pushed(fb[o], s) : fb' = [fb EXCEPT ![o] = f] /\ ret' = TRUE
  <2>1. PICK f \in Pushed(fb[o], s) : fb' = [fb EXCEPT ![o] = f] /\ ret' = TRUE
    BY <1>1
  <2>2. Content(f) = Content(fb[o]) \o s /\ f.alive = fb[o].alive
    BY PushedContent DEF IInv
  <2>3. Contents' = [Contents EXCEPT ![o] = Content(fb[o]) \o s]
        /\ Alive' = Alive \union {o}
    BY <2>1, <2>2, AbsReplace
  <2>4. o \in Alive /\ Contents[o] = Content(fb[o])
    BY DEF Alive, Contents
  <2>5. Contents' = [Contents EXCEPT ![o] = @ \o s] /\ Alive' = Alive
    BY <2>3, <2>4
  <2> QED
    BY <2>1, <2>4, <2>5 DEF Abs!Append2
<1>2. CASE Refused
  BY <1>2 DEF Refused, Abs!Refuse, Contents, Alive, Content
<1> QED
  BY <1>1, <1>2 DEF Push

LEMMA CompactRefines ==
  ASSUME IInv, NEW o \in Obj, Compact(o)
  PROVE  Abs!Accept \/ Abs!Refuse
<1> DEFINE f == fb[o]
<1>1. WellFormed(f) /\ f \in Object /\ f.len \in 0 .. MaxAlloc
  BY FlexBufAssumption DEF IInv, WellFormed, Object, Usize
<1>2. ASSUME NEW g, fb' = [fb EXCEPT ![o] = g], Content(g) = Content(f), g.alive
      PROVE  UNCHANGED <<Alive, Contents>>
  <2>1. Alive' = Alive \union {o} /\ Contents' = [Contents EXCEPT ![o] = Content(f)]
    BY <1>2, AbsReplace
  <2>2. o \in Alive /\ Contents[o] = Content(f)
    BY DEF Compact, Alive, Contents
  <2>3. [Contents EXCEPT ![o] = Content(f)] = Contents
    BY <2>2 DEF Contents
  <2> QED
    BY <2>1, <2>2, <2>3
<1>3. CASE UNCHANGED fb /\ ret' \in BOOLEAN
  BY <1>3 DEF Abs!Accept, Abs!Refuse, Contents, Alive, Content
<1>4. CASE fb' = [fb EXCEPT ![o] = Resized(@, @.len)] /\ ret' = TRUE
  <2>1. Content(Resized(f, f.len)) = Content(f) /\ Resized(f, f.len).alive = f.alive
    BY <1>1, ResizedContent
  <2> QED
    BY <1>2, <1>4, <2>1 DEF Compact, Abs!Accept
<1>5. CASE f.len = 0 /\ fb' = [fb EXCEPT ![o].buf = "freed"] /\ ret' = FALSE
  <2> DEFINE g == [f EXCEPT !.buf = "freed"]
  <2>1. g.len = f.len /\ g.mem = f.mem /\ g.alive = f.alive
    BY <1>1 DEF Object
  <2>2. fb' = [fb EXCEPT ![o] = g]
    BY <1>5
  <2> HIDE DEF g
  <2>3. Content(g) = Content(f)
    BY <2>1 DEF Content
  <2> QED
    BY <1>2, <1>5, <2>1, <2>2, <2>3 DEF Compact, Abs!Refuse
<1>6. CASE f.len = 0 /\ fb' = [fb EXCEPT ![o] = Resized(@, 0)] /\ ret' = TRUE
  <2>1. Content(Resized(f, 0)) = Content(f) /\ Resized(f, 0).alive = f.alive
    BY <1>1, <1>6, ResizedContent
  <2> QED
    BY <1>2, <1>6, <2>1 DEF Compact, Abs!Accept
<1> QED
  BY <1>1, <1>3, <1>4, <1>5, <1>6 DEF Compact, Refused

LEMMA JoinRefines ==
  ASSUME IInv, NEW o \in Obj, NEW a \in Obj, NEW b \in Obj, Join(o, a, b)
  PROVE  Abs!Create(o, Contents[a] \o Contents[b]) \/ Abs!Refuse
<1>1. CASE Refused
  BY <1>1 DEF Refused, Abs!Refuse, Contents, Alive, Content
<1>2. CASE ~Refused
  <2>1. PICK f \in Pushed(Fresh, Content(fb[a])) :
          \E g \in Pushed(f, Content(fb[b])) : fb' = [fb EXCEPT ![o] = g]
    BY <1>2 DEF Join
  <2>2. PICK g \in Pushed(f, Content(fb[b])) : fb' = [fb EXCEPT ![o] = g]
    BY <2>1
  <2>3. /\ WellFormed(fb[a]) /\ WellFormed(fb[b]) /\ WellFormed(Fresh)
        /\ Content(Fresh) = << >> /\ Fresh.alive
    BY NoneWellFormed, EmptyContent DEF IInv, Fresh, None
  <2>4. WellFormed(f) /\ Content(f) = Content(fb[a]) /\ f.alive
    <3>1. WellFormed(f) /\ Content(f) = Content(Fresh) \o Content(fb[a])
          /\ f.alive = Fresh.alive
      BY <2>1, <2>3, ContentIsData, PushedContent, PushedWellFormed
    <3>2. << >> \o Content(fb[a]) = Content(fb[a])
      BY <2>3, ContentIsData
    <3> QED
      BY <2>3, <3>1, <3>2
  <2>5. Content(g) = Content(fb[a]) \o Content(fb[b]) /\ g.alive
    BY <2>2, <2>3, <2>4, ContentIsData, PushedContent
  <2>6. /\ Contents' = [Contents EXCEPT ![o] = Content(fb[a]) \o Content(fb[b])]
        /\ Alive' = Alive \union {o}
    BY <2>2, <2>5, AbsReplace
  <2>7. o \notin Alive /\ Contents[a] = Content(fb[a]) /\ Contents[b] = Content(fb[b])
    BY DEF Join, Alive, Contents
  <2> QED
    BY <1>2, <2>6, <2>7 DEF Join, Abs!Create
<1> QED
  BY <1>1, <1>2

(* Every step of FlexBuf is a step of ByteSeq or changes nothing in it. *)
LEMMA StepRefines == IInv /\ [Next]_vars => [Abs!Next]_(Abs!vars)
<1> SUFFICES ASSUME IInv, [Next]_vars
             PROVE  [Abs!Next]_(Abs!vars)
  OBVIOUS
<1>a. ASSUME NEW o \in Obj, NEW s \in Data, fb[o].alive, Push(o, s) \/ Refused
      PROVE  Abs!Next
  <2>1. CASE Push(o, s)
    BY <1>a, <2>1, DataFacts, PushRefines DEF Abs!Next
  <2>2. CASE Refused
    BY <2>2 DEF Refused, Abs!Next, Abs!Refuse, Contents, Alive, Content
  <2> QED
    BY <1>a, <2>1, <2>2
<1>b. ASSUME Refused
      PROVE  Abs!Next
  BY <1>b DEF Refused, Abs!Next, Abs!Refuse, Contents, Alive, Content
<1>c. \A o \in Obj : Contents[o] = Content(fb[o]) /\ (o \in Alive <=> fb[o].alive)
  BY DEF Contents, Alive
<1>1. CASE UNCHANGED vars
  BY <1>1 DEF vars, Abs!vars, Contents, Alive, Content
<1>2. ASSUME NEW o \in Obj, New(o)
      PROVE  Abs!Next
  <2>1. CASE fb' = [fb EXCEPT ![o] = Fresh] /\ ret' = TRUE
    <3>1. Content(Fresh) = << >> /\ Fresh.alive
      BY EmptyContent DEF Fresh, None
    <3>2. Contents' = [Contents EXCEPT ![o] = << >>] /\ Alive' = Alive \union {o}
      BY <2>1, <3>1, AbsReplace
    <3> QED
      BY <1>2, <1>c, <2>1, <3>2 DEF New, Abs!Next, Abs!Create
  <2> QED
    BY <1>2, <1>b, <2>1 DEF New
<1>3. ASSUME NEW o \in Obj, Clear(o)
      PROVE  Abs!Next
  <2> DEFINE f == [fb[o] EXCEPT !.len = 0]
  <2>1. f.len = 0 /\ f.alive = fb[o].alive
    BY DEF IInv, Object
  <2>2. Contents' = [Contents EXCEPT ![o] = << >>] /\ Alive' = Alive
    <3>1. fb' = [fb EXCEPT ![o] = f]
      BY <1>3 DEF Clear
    <3> HIDE DEF f
    <3>2. Contents' = [Contents EXCEPT ![o] = << >>] /\ Alive' = Alive \union {o}
      BY <1>3, <2>1, <3>1, EmptyContent, AbsReplace DEF Clear
    <3> QED
      BY <1>3, <1>c, <3>2 DEF Clear
  <2> QED
    BY <1>3, <1>c, <2>2 DEF Clear, Abs!Next, Abs!Clear
<1>4. ASSUME NEW o \in Obj, Compact(o)
      PROVE  Abs!Next
  BY <1>4, CompactRefines DEF Abs!Next
<1>5. ASSUME NEW o \in Obj, Free(o)
      PROVE  Abs!Next
  <2>1. Content(None) = << >> /\ ~None.alive
    BY EmptyContent DEF None
  <2>2. Contents' = [Contents EXCEPT ![o] = << >>] /\ Alive' = Alive \ {o}
    BY <1>5, <2>1, AbsReplace DEF Free
  <2> QED
    BY <1>5, <1>c, <2>2 DEF Free, Abs!Next, Abs!Free
<1>6. ASSUME NEW o \in Obj, NEW b \in Byte, PushByte(o, b)
      PROVE  Abs!Next
  BY <1>6, <1>a DEF PushByte, Data
<1>7. ASSUME NEW o \in Obj, NEW s \in Chunk, PushBuf(o, s)
      PROVE  Abs!Next
  BY <1>7, <1>a DEF PushBuf, Data
<1>8. ASSUME NEW o \in Obj, NEW s \in FmtText, PushFmt(o, s)
      PROVE  Abs!Next
  BY <1>8, <1>a DEF PushFmt, Data
<1>9. ASSUME NEW o \in Obj, NEW b \in Byte, NEW s \in Chunk, PushDupByte(o, b, Len(s))
      PROVE  Abs!Next
  BY <1>9, <1>a DEF PushDupByte, Data
<1>10. ASSUME NEW o \in Obj, NEW a \in Obj, Merge(o, a)
       PROVE  Abs!Next
  <2>1. WellFormed(fb[a])
    BY DEF IInv
  <2>2. Abs!Append2(o, Content(fb[a])) \/ Abs!Refuse
    BY <1>10, <2>1, ContentIsData, PushRefines DEF Merge
  <2> QED
    BY <1>10, <1>c, <2>2 DEF Merge, Abs!Next
<1>11. ASSUME NEW o \in Obj, NEW a \in Obj, NEW b \in Obj, Join(o, a, b)
       PROVE  Abs!Next
  BY <1>11, <1>b, <1>c, JoinRefines DEF Abs!Next, Join
<1> QED
  BY <1>1, <1>2, <1>3, <1>4, <1>5, <1>6, <1>7, <1>8, <1>9, <1>10, <1>11 DEF Next

(* For every allocator and every sequence of calls, a FlexBuf behaves as   *)
(* the byte sequence its callers take it for.                              *)
THEOREM Refinement == Spec => RefinesByteSeq
<1>1. Init => Abs!Init
  <2>1. Content(None) = << >> /\ ~None.alive
    BY EmptyContent DEF None
  <2> QED
    BY <2>1 DEF Init, Abs!Init, Contents, Alive
<1> QED
  BY <1>1, InitIInv, StepIInv, StepRefines, PTL DEF Spec, RefinesByteSeq, Abs!Spec
=============================================================================
