------------------------------ MODULE FixedBuf ------------------------------
(***************************************************************************)
(* The byte buffer of fixed length of src/src/util/fixed_buf.c: an object  *)
(* and the block its buf field points to, which is NULL for no bytes.  A   *)
(* call that makes a buffer is a step for every allocation it asks for and *)
(* for every label it unwinds through; the other calls are one step.       *)
(*                                                                         *)
(* Callers read a buffer through its length alone, so the bytes Strip      *)
(* leaves behind the new length are left out.                              *)
(***************************************************************************)
EXTENDS Integers, FiniteSets, Sequences, SequencesExt

CONSTANTS
  Obj,      (* variables in which a program keeps its buffers              *)
  NoObj,
  Text,     (* the bytes buffers are made of, the content of files         *)
  MaxBytes, (* bound on the bytes all buffers hold together                *)
  MiniBuf   (* size of mini_buf of NewFromFmt (256)                        *)

Byte == 0 .. 255

ASSUME FixedBufAssumption ==
  /\ IsFiniteSet(Obj) /\ NoObj \notin Obj
  /\ Text \subseteq Seq(Byte)
  /\ MaxBytes \in Nat
  /\ MiniBuf \in Nat

VARIABLES
  fixed,   (* what every variable holds                                    *)
  blocks,  (* how many blocks malloc has granted that were not freed       *)
  call     (* the call in progress that makes a buffer, and its locals     *)

bufVars == <<fixed, blocks, call>>

NULL == [ptr |-> "NULL", buf |-> FALSE, text |-> << >>]

(* A pointer no statement has assigned. *)
Unset == [ptr |-> "unset", buf |-> FALSE, text |-> << >>]

(* Where the call stands; the variable that gets its result; for Escape    *)
(* the buffer it is of; the bytes the new buffer is to hold; how many      *)
(* blocks it has for the time of the call; whether it has buf and obj.     *)
NoCall ==
  [at |-> "none", kind |-> "none", o |-> NoObj, from |-> NoObj, text |-> << >>,
   tmp |-> 0, buf |-> FALSE, obj |-> FALSE]

IsObject(o) == fixed[o].ptr = "object"

Held == MapThenSumSet(LAMBDA o : Len(fixed[o].text), Obj)

-----------------------------------------------------------------------------
(* The calls that make a buffer. *)

Begins(kind, at, o, p, s) ==
  /\ call = NoCall
  /\ ~ IsObject(o)
  /\ Held + Len(s) <= MaxBytes
  /\ call' = [NoCall EXCEPT !.kind = kind, !.at = at, !.o = o, !.from = p, !.text = s]
  /\ UNCHANGED <<fixed, blocks>>

(* No block is asked for when there are no bytes.                          *)
NewWithLen(s) == IF s = << >> THEN "obj" ELSE "buf"

(* NewFromBuf, NewFromStr, and ToFixedBuf of a FlexBuf. *)
NewFromBuf(o, s) == Begins("new", NewWithLen(s), o, NoObj, s)

NewFromStrWithNull(o, s) == NewFromBuf(o, Append(s, 0))

(* The text goes through mini_buf, or a block that is freed in the end.  A *)
(* text of exactly MiniBuf bytes, whose NUL falls behind mini_buf as in    *)
(* FlexBuf's PushFmt, is left out.                                         *)
NewFromFmt(o, s) ==
  /\ Len(s) # MiniBuf
  /\ Begins("new", IF Len(s) > MiniBuf THEN "fmt" ELSE NewWithLen(s), o, NoObj, s)

(* s is what the file held at the fstat; open and fstat fail as the first  *)
(* allocation does.                                                        *)
NewFromFile(o, s) == Begins("file", NewWithLen(s), o, NoObj, s)

Clone(o, p) ==
  /\ IsObject(p)
  /\ IF fixed[p].buf
     THEN Begins("new", "buf", o, NoObj, fixed[p].text)
     ELSE Begins("new", "obj", o, NoObj, << >>)

Join(o, p, q) ==
  /\ IsObject(p) /\ IsObject(q)
  /\ NewFromBuf(o, fixed[p].text \o fixed[q].text)

-----------------------------------------------------------------------------
(* Their steps. *)

Grants(locals) ==
  /\ call' = locals
  /\ blocks' = blocks + 1
  /\ UNCHANGED fixed

Goes(at) ==
  /\ call' = [call EXCEPT !.at = at]
  /\ UNCHANGED <<fixed, blocks>>

Assigns(f) ==
  /\ fixed' = [fixed EXCEPT ![call.o] = f]
  /\ call' = NoCall

BlocksOf(f) == (IF f.buf THEN 1 ELSE 0) + 1

FmtAllocates ==
  /\ call.at = "fmt"
  /\ \/ Grants([call EXCEPT !.at = "buf", !.tmp = 1])
     \/ Assigns(NULL) /\ UNCHANGED blocks

BufAllocates ==
  /\ call.at = "buf"
  /\ Grants([call EXCEPT !.at = "obj", !.buf = TRUE]) \/ Goes("return")

ObjAllocates ==
  /\ call.at = "obj"
  /\ \/ Grants([call EXCEPT !.at = IF call.kind = "file" THEN "read" ELSE "return",
                            !.obj = TRUE])
     \/ Goes("FreeBuf")

(* Mutant of FreeBuf: the block stays when the object is refused. *)
FreeBufLeaks ==
  /\ call.at = "FreeBuf"
  /\ call' = [call EXCEPT !.at = "return", !.buf = FALSE]
  /\ UNCHANGED <<fixed, blocks>>

FreeBuf ==
  /\ call.at = "FreeBuf"
  /\ blocks' = IF call.buf THEN blocks - 1 ELSE blocks
  /\ call' = [call EXCEPT !.at = "return", !.buf = FALSE]
  /\ UNCHANGED fixed

(* The file may have been cut since the fstat. *)
ReadFile ==
  /\ call.at = "read"
  /\ \/ Goes("return")
     \/ /\ blocks' = blocks - BlocksOf(call)
        /\ call' = [call EXCEPT !.at = "return", !.buf = FALSE, !.obj = FALSE]
        /\ UNCHANGED fixed

(* The text of NewFromFmt and the temporary FlexBuf of Escape are freed,   *)
(* whether there is a buffer or not.                                       *)
Returns ==
  /\ call.at = "return"
  /\ blocks' = blocks - call.tmp
  /\ Assigns(IF call.obj THEN [ptr |-> "object", buf |-> call.buf, text |-> call.text] ELSE NULL)

-----------------------------------------------------------------------------
(* Escape. *)

HexDigit(d) == IF d < 10 THEN 48 + d ELSE 55 + d

(* \\ and \" for \ and ", \t, \n and \r, \xHH for what is not printable.   *)
EscapedByte(b) ==
  CASE b = 92 -> <<92, 92>>
    [] b = 34 -> <<92, 34>>
    [] b = 9 -> <<92, 116>>
    [] b = 10 -> <<92, 110>>
    [] b = 13 -> <<92, 114>>
    [] b \in 32 .. 126 \ {34, 92} -> <<b>>
    [] OTHER -> <<92, 120, HexDigit(b \div 16), HexDigit(b % 16)>>

Escaped(s) == FlattenSeq([i \in DOMAIN s |-> EscapedByte(s[i])])

(* Mutant of Escape: the new buffer is made of the original's bytes. *)
EscapeCopies(o, p) ==
  /\ IsObject(p)
  /\ Begins("escape", "escape", o, p, fixed[p].text)

Escape(o, p) ==
  /\ IsObject(p)
  /\ Begins("escape", "escape", o, p, Escaped(fixed[p].text))

(* Without a temporary FlexBuf the variable that is returned was never     *)
(* assigned.                                                               *)
EscapeAllocates ==
  /\ call.at = "escape"
  /\ \/ Grants([call EXCEPT !.at = IF call.text = << >> THEN "obj" ELSE "push", !.tmp = 1])
     \/ Assigns(Unset) /\ UNCHANGED blocks

(* The first push allocates the FlexBuf's block; a later one may ask for   *)
(* more.                                                                   *)
EscapePushes ==
  /\ call.at = "push"
  /\ \/ Grants([call EXCEPT !.at = "buf", !.tmp = 2])
     \/ Len(fixed[call.from].text) > 1 /\ Grants([call EXCEPT !.at = "FreeDst", !.tmp = 2])
     \/ Goes("FreeDst")

FreeDst ==
  /\ call.at = "FreeDst"
  /\ blocks' = blocks - call.tmp
  /\ Assigns(Unset)

-----------------------------------------------------------------------------
(* The other calls. *)

(* The block is freed; the object stays. *)
Emptied(o) ==
  /\ fixed' = [fixed EXCEPT ![o].buf = FALSE, ![o].text = << >>]
  /\ blocks' = blocks - 1
  /\ UNCHANGED call

Blank == {32, 9, 13, 10}

(* left_idx and right_idx after the two loops of Strip. *)
LeftIdx(s) ==
  CHOOSE l \in 0 .. Len(s) :
    /\ \A i \in 1 .. l : s[i] \in Blank
    /\ l = Len(s) \/ s[l + 1] \notin Blank

(* Mutant of RightIdx: the byte at the end is not looked at. *)
RightIdxSkipsLast(s, l) ==
  CHOOSE r \in l .. Len(s) - 1 :
    /\ \A i \in r + 2 .. Len(s) - 1 : s[i] \in Blank
    /\ r = l \/ s[r + 1] \notin Blank \/ r = Len(s) - 1

RightIdx(s, l) ==
  CHOOSE r \in l .. Len(s) - 1 :
    /\ \A i \in r + 2 .. Len(s) : s[i] \in Blank
    /\ r = l \/ s[r + 1] \notin Blank

(* Mutant of Strip: a text of blanks only is stripped to length 0, but its *)
(* block is kept.                                                          *)
StripKeepsBlock(o) ==
  /\ call = NoCall /\ IsObject(o)
  /\ LET s == fixed[o].text
         l == LeftIdx(s)
         r == RightIdx(s, l)
     IN  fixed' = [fixed EXCEPT ![o].text =
                     IF l = Len(s) \/ r = l THEN << >> ELSE SubSeq(s, l + 1, r + 1)]
  /\ UNCHANGED <<blocks, call>>

Strip(o) ==
  /\ call = NoCall /\ IsObject(o)
  /\ LET s == fixed[o].text
         l == LeftIdx(s)
     IN  IF ~ fixed[o].buf
         THEN UNCHANGED bufVars
         ELSE IF l = Len(s) \/ RightIdx(s, l) = l
         THEN Emptied(o)
         ELSE /\ fixed' = [fixed EXCEPT ![o].text = SubSeq(s, l + 1, RightIdx(s, l) + 1)]
              /\ UNCHANGED <<blocks, call>>

Clear(o) ==
  /\ call = NoCall /\ IsObject(o)
  /\ IF fixed[o].buf THEN Emptied(o) ELSE UNCHANGED bufVars

Free(o) ==
  /\ call = NoCall /\ IsObject(o)
  /\ fixed' = [fixed EXCEPT ![o] = NULL]
  /\ blocks' = blocks - BlocksOf(fixed[o])
  /\ UNCHANGED call

-----------------------------------------------------------------------------
BufInit ==
  /\ fixed = [o \in Obj |-> NULL]
  /\ blocks = 0
  /\ call = NoCall

CallNext ==
  \/ FmtAllocates \/ BufAllocates \/ ObjAllocates \/ FreeBuf \/ ReadFile
  \/ EscapeAllocates \/ EscapePushes \/ FreeDst
  \/ Returns

BufNext ==
  \/ CallNext
  \/ \E o \in Obj :
       \/ \E s \in Text :
            NewFromBuf(o, s) \/ NewFromStrWithNull(o, s) \/ NewFromFmt(o, s) \/ NewFromFile(o, s)
       \/ \E p \in Obj : Escape(o, p) \/ Clone(o, p)
       \/ \E p, q \in Obj : Join(o, p, q)
       \/ Strip(o) \/ Clear(o) \/ Free(o)

BufSpec == BufInit /\ [][BufNext]_bufVars

-----------------------------------------------------------------------------
BufTypeOK ==
  /\ fixed \in [Obj -> [ptr : {"NULL", "unset", "object"}, buf : BOOLEAN, text : Seq(Byte)]]
  /\ blocks \in Nat
  /\ call \in [at : {"none", "fmt", "buf", "obj", "FreeBuf", "read", "escape", "push",
                     "FreeDst", "return"},
              kind : {"none", "new", "file", "escape"},
              o : Obj \union {NoObj}, from : Obj \union {NoObj}, text : Seq(Byte),
              tmp : 0 .. 2, buf : BOOLEAN, obj : BOOLEAN]

(* buf is NULL exactly while there are no bytes, after any Strips, Clears, *)
(* Joins and Clones: what keeps Strip's len - 1 from wrapping              *)
(* (fixed_buf.c:283), Clone from asking for 0 bytes (fixed_buf.c:320) and  *)
(* a clone from differing from its original (fixed_buf.c:327).             *)
NullIffEmpty == \A o \in Obj : fixed[o].buf <=> fixed[o].text # << >>

Locals == call.tmp + (IF call.buf THEN 1 ELSE 0) + (IF call.obj THEN 1 ELSE 0)

(* What malloc has granted is what the objects hold and, in the middle of  *)
(* a call, its locals; so that whichever allocation is refused, the        *)
(* unwinding frees what the call has got by then and keeps nothing         *)
(* (fixed_buf.c:43-46, 116-118, 153-154, 227-228, 246, 342-345).           *)
BlocksAccounted ==
  blocks = Cardinality({o \in Obj : IsObject(o)}) + Cardinality({o \in Obj : fixed[o].buf})
             + Locals

(* t is s from its first to its last byte that is no blank. *)
IsTrimmed(s, t) ==
  \E i \in 0 .. Len(s) - Len(t) :
    /\ t = SubSeq(s, i + 1, i + Len(t))
    /\ \A j \in DOMAIN s \ (i + 1 .. i + Len(t)) : s[j] \in Blank
    /\ t # << >> => Head(t) \notin Blank /\ Last(t) \notin Blank

(* Strip leaves the text between the blanks at both ends, whatever is      *)
(* inside (fixed_buf.c:252-310); a text of one byte between the blanks is  *)
(* dropped like a text of blanks only (fixed_buf.c:299).                   *)
StripsToText ==
  [][\A o \in Obj : Strip(o) =>
       LET s == fixed[o].text
           t == fixed'[o].text
       IN  IF Cardinality({i \in DOMAIN s : s[i] \notin Blank}) = 1
           THEN t = << >>
           ELSE IsTrimmed(s, t)]_bufVars

ByteAt(t, i) == IF i \in DOMAIN t THEN t[i] ELSE 0

HexValue(c) == IF c < 65 THEN c - 48 ELSE c - 55

(* What a reader of C string literals reads. *)
Unescaped(t) ==
  LET read[i \in 1 .. Len(t) + 4] ==
        IF i > Len(t) THEN << >>
        ELSE IF t[i] # 92 THEN <<t[i]>> \o read[i + 1]
        ELSE CASE ByteAt(t, i + 1) = 120 ->
                    <<16 * HexValue(ByteAt(t, i + 2)) + HexValue(ByteAt(t, i + 3))>> \o read[i + 4]
               [] ByteAt(t, i + 1) = 116 -> <<9>> \o read[i + 2]
               [] ByteAt(t, i + 1) = 110 -> <<10>> \o read[i + 2]
               [] ByteAt(t, i + 1) = 114 -> <<13>> \o read[i + 2]
               [] OTHER -> <<ByteAt(t, i + 1)>> \o read[i + 2]
  IN  read[1]

(* t can be printed between quotes, and is then read back as s. *)
Quotes(t, s) ==
  /\ \A i \in DOMAIN t : t[i] \in 32 .. 126
  /\ \A i \in DOMAIN t : t[i] = 34 => i > 1 /\ t[i - 1] = 92
  /\ Unescaped(t) = s

(* Nothing is lost by escaping: two texts that differ never look the same  *)
(* and no quote ends the printed string early (fixed_buf.c:189-223,        *)
(* token.c:113-121).                                                       *)
EscapeReadsBack ==
  [][call.kind = "escape" /\ fixed'[call.o].ptr = "object" =>
       Quotes(fixed'[call.o].text, fixed[call.from].text)]_bufVars
=============================================================================
