------------------------------ MODULE FlexBuf ------------------------------
(***************************************************************************)
(* The growable byte buffer of src/src/util/flex_buf.c: for every object   *)
(* the block its buf field points to, cap and len, and the bytes of the    *)
(* block.  Every call of the API is one action; an allocation may return   *)
(* NULL wherever the code asks for one, and always does above MaxAlloc.    *)
(***************************************************************************)
EXTENDS Growth, Sequences

CONSTANTS
  Obj,           (* handles a program keeps its buffers in                 *)
  Byte,          (* the bytes callers push                                 *)
  Chunk,         (* the sequences of bytes callers push                    *)
  FmtText,       (* the texts vsnprintf produces for PushFmt               *)
  MaxAlloc,      (* the largest size the allocator ever grants             *)
  MiniBuf,       (* size of the stack buffer mini_buf of PushFmt (256)     *)
  CompactEmpty,  (* do callers compact a buffer that is empty but has a    *)
                 (* block?                                                 *)
  Junk           (* content of memory nobody wrote                         *)

ASSUME FlexBufAssumption ==
  /\ Chunk \subseteq Seq(Byte)
  /\ FmtText \subseteq Seq(Byte)
  /\ MaxAlloc \in Usize
  /\ MiniBuf \in Nat
  /\ CompactEmpty \in BOOLEAN
  /\ Junk \notin Byte

Dup(b, cnt) == [i \in 1 .. cnt |-> b]

(* Everything that is pushed, from the memory of the caller. *)
Data ==
  {<<b>> : b \in Byte} \union Chunk \union FmtText
    \union {Dup(b, Len(s)) : b \in Byte, s \in Chunk}

(* No two objects of a 64-bit address space add up to half of usize, so    *)
(* lengths and capacities computed from existing objects do not wrap.      *)
ASSUME AddressSpaceAssumption ==
  /\ InitCap <= MaxAlloc
  /\ \A s \in Data : MaxAlloc + Len(s) \in Shiftable
  /\ MaxAlloc + MaxAlloc \in Shiftable

VARIABLES
  fb,       (* the object behind every handle *)
  ret,      (* result of the last call that returns a Boolean *)
  overrun   (* has PushFmt written past the end of mini_buf? *)

vars == <<fb, ret, overrun>>

Cell == Byte \union {Junk}

None == [alive |-> FALSE, buf |-> "null", cap |-> 0, len |-> 0, mem |-> << >>]

(* The object FlexBuf_New returns. *)
Fresh == [None EXCEPT !.alive = TRUE]

Alive == {o \in Obj : fb[o].alive}

(* The bytes a caller reads: FlexBuf_Data over FlexBuf_Size bytes. *)
Content(f) == [i \in 1 .. f.len |-> f.mem[i]]

-----------------------------------------------------------------------------
(* The parts of a push. *)

Need(f, n) == Wrap(f.len + n)

Fits(f, n) == Need(f, n) <= f.cap

(* Mutants of Resized: obj->cap or obj->buf is not assigned. *)
ResizedKeepsCap(f, cap) ==
  [f EXCEPT !.buf = "block",
            !.mem = [i \in 1 .. cap |-> IF i <= f.cap THEN f.mem[i] ELSE Junk]]

ResizedKeepsBuf(f, cap) ==
  [f EXCEPT !.cap = cap,
            !.mem = [i \in 1 .. cap |-> IF i <= f.cap THEN f.mem[i] ELSE Junk]]

(* realloc, or malloc for the first block: the old bytes are kept.         *)
Resized(f, cap) ==
  [f EXCEPT !.buf = "block",
            !.cap = cap,
            !.mem = [i \in 1 .. cap |-> IF i <= f.cap THEN f.mem[i] ELSE Junk]]

(* Mutant of Written: the destination lacks the offset len. *)
WrittenAtStart(f, s) ==
  [f EXCEPT !.len = Wrap(@ + Len(s)),
            !.mem = [i \in 1 .. f.cap |->
                       IF i \in 1 .. Len(s) THEN s[i] ELSE f.mem[i]]]

(* memcpy or memset behind the first len bytes. *)
Written(f, s) ==
  [f EXCEPT !.len = Wrap(@ + Len(s)),
            !.mem = [i \in 1 .. f.cap |->
                       IF i - f.len \in 1 .. Len(s) THEN s[i - f.len] ELSE f.mem[i]]]

(* The objects a push of s can leave behind when it returns true. *)
Pushed(f, s) ==
  IF s = << >> THEN {f}
  ELSE IF Fits(f, Len(s)) THEN {Written(f, s)}
  ELSE LET cap == NewCap(Need(f, Len(s)))
       IN  IF cap <= MaxAlloc THEN {Written(Resized(f, cap), s)} ELSE {}

(* A push asks for memory, so it may return false. *)
MayRefuse(f, s) == s # << >> /\ ~Fits(f, Len(s))

Refused == ret' = FALSE /\ UNCHANGED fb

Push(o, s) ==
  \/ \E f \in Pushed(fb[o], s) : fb' = [fb EXCEPT ![o] = f] /\ ret' = TRUE
  \/ MayRefuse(fb[o], s) /\ Refused

-----------------------------------------------------------------------------
(* The calls. *)

New(o) ==
  /\ ~fb[o].alive
  /\ \/ fb' = [fb EXCEPT ![o] = Fresh] /\ ret' = TRUE
     \/ Refused
  /\ UNCHANGED overrun

PushByte(o, b) ==
  /\ fb[o].alive
  /\ Push(o, <<b>>)
  /\ UNCHANGED overrun

PushDupByte(o, b, cnt) ==
  /\ fb[o].alive
  /\ Push(o, Dup(b, cnt))
  /\ UNCHANGED overrun

PushBuf(o, s) ==
  /\ fb[o].alive
  /\ Push(o, s)
  /\ UNCHANGED overrun

(* The text is formatted into mini_buf, or into a block of its own when it *)
(* is longer than mini_buf; vsnprintf writes the text and a NUL.           *)
PushFmt(o, s) ==
  /\ fb[o].alive
  /\ IF Len(s) > MiniBuf
     THEN (Push(o, s) \/ Refused) /\ UNCHANGED overrun
     ELSE Push(o, s) /\ overrun' = (overrun \/ Len(s) + 1 > MiniBuf)

Clear(o) ==
  /\ fb[o].alive
  /\ fb' = [fb EXCEPT ![o].len = 0]
  /\ UNCHANGED <<ret, overrun>>

(* realloc to the length.  For length 0 the C library may free the block   *)
(* and return NULL, which Compact takes for a failure and keeps buf, or    *)
(* return an empty block.                                                  *)
Compact(o) ==
  /\ fb[o].alive
  /\ \/ /\ fb[o].buf = "null" \/ fb[o].len = fb[o].cap
        /\ ret' = TRUE /\ UNCHANGED fb
     \/ /\ fb[o].buf # "null" /\ fb[o].len \notin {0, fb[o].cap}
        /\ \/ fb' = [fb EXCEPT ![o] = Resized(@, @.len)] /\ ret' = TRUE
           \/ Refused
     \/ /\ CompactEmpty
        /\ fb[o].buf # "null" /\ fb[o].len = 0 /\ fb[o].cap # 0
        /\ \/ fb' = [fb EXCEPT ![o].buf = "freed"] /\ ret' = FALSE
           \/ fb' = [fb EXCEPT ![o] = Resized(@, 0)] /\ ret' = TRUE
  /\ UNCHANGED overrun

(* Callers merge two different buffers (token.c:344, ast.c:610). *)
Merge(d, s) ==
  /\ d # s /\ fb[d].alive /\ fb[s].alive
  /\ Push(d, Content(fb[s]))
  /\ UNCHANGED overrun

(* Mutant of Join: a failed second push is not noticed. *)
JoinKeepsFirst(o, a, b) ==
  /\ ~fb[o].alive /\ fb[a].alive /\ fb[b].alive
  /\ \/ /\ \E f \in Pushed(Fresh, Content(fb[a])) :
             \E g \in {f} \union Pushed(f, Content(fb[b])) : fb' = [fb EXCEPT ![o] = g]
        /\ ret' = TRUE
     \/ Refused
  /\ UNCHANGED overrun

(* A new object, or none: a failed second push frees the first. *)
Join(o, a, b) ==
  /\ ~fb[o].alive /\ fb[a].alive /\ fb[b].alive
  /\ \/ /\ \E f \in Pushed(Fresh, Content(fb[a])) :
             \E g \in Pushed(f, Content(fb[b])) : fb' = [fb EXCEPT ![o] = g]
        /\ ret' = TRUE
     \/ Refused
  /\ UNCHANGED overrun

Free(o) ==
  /\ fb[o].alive
  /\ fb' = [fb EXCEPT ![o] = None]
  /\ UNCHANGED <<ret, overrun>>

-----------------------------------------------------------------------------
Init ==
  /\ fb = [o \in Obj |-> None]
  /\ ret = TRUE
  /\ overrun = FALSE

Next ==
  \E o \in Obj :
    \/ New(o)
    \/ Clear(o)
    \/ Compact(o)
    \/ Free(o)
    \/ \E b \in Byte : PushByte(o, b)
    \/ \E s \in Chunk : PushBuf(o, s)
    \/ \E s \in FmtText : PushFmt(o, s)
    \/ \E b \in Byte, s \in Chunk : PushDupByte(o, b, Len(s))
    \/ \E a \in Obj : Merge(o, a)
    \/ \E a, b \in Obj : Join(o, a, b)

Spec == Init /\ [][Next]_vars

-----------------------------------------------------------------------------
(* Every object is well formed. *)
TypeOK ==
  /\ fb \in [Obj -> [alive : BOOLEAN,
                     buf   : {"null", "block", "freed"},
                     cap   : Usize,
                     len   : Usize,
                     mem   : Seq(Cell)]]
  /\ \A o \in Obj : Len(fb[o].mem) = fb[o].cap
  /\ ret \in BOOLEAN
  /\ overrun \in BOOLEAN

(* Whatever was pushed lies inside the block: the arithmetic of a push     *)
(* never leaves the length above the capacity it asked for, over any       *)
(* sequence of pushes, clears and compactions (flex_buf.c:169-196).        *)
LenWithinCap == \A o \in Obj : fb[o].len <= fb[o].cap

(* buf is NULL exactly while there is no capacity, and never points to a   *)
(* block that was given back: what every later push relies on to choose    *)
(* between malloc and realloc (flex_buf.c:181), and Free to free the block *)
(* once (flex_buf.c:477).                                                  *)
BlockOwned ==
  \A o \in Obj : fb[o].buf = (IF fb[o].cap = 0 THEN "null" ELSE "block")

(* No byte below len was left unwritten by a growth, a compaction or a     *)
(* clear followed by shorter pushes.                                       *)
ContentWritten == \A o \in Obj : \A i \in 1 .. fb[o].len : fb[o].mem[i] # Junk

(* The doc of PushFmt: the text is formatted in a temporary buffer, "or    *)
(* dynamically allocated if too large" (flex_buf.c:251).                   *)
FmtTextFits == ~overrun

(* The doc of Compact: "if it is empty, no action is taken"                *)
(* (flex_buf.c:361).                                                       *)
CompactKeepsEmpty ==
  [][\A o \in Obj : fb[o].len = 0 /\ Compact(o) => fb'[o] = fb[o]]_vars

Contents == [o \in Obj |-> Content(fb[o])]

(* A FlexBuf is a byte sequence whose pushes happen in full or not at all  *)
(* and whose other calls leave every byte alone (flex_buf.c:186-233).      *)
Abs == INSTANCE ByteSeq WITH
         Chunk   <- Data,
         alive   <- Alive,
         content <- Contents

RefinesByteSeq == Abs!Spec
=============================================================================
