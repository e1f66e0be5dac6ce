--------------------------- MODULE PipelineProofs ---------------------------
(***************************************************************************)
(* Proofs about Pipeline: for every set of blocks, results and texts.      *)
(***************************************************************************)
EXTENDS Pipeline, TLAPS

(* A slot the call in progress will fill. *)
SlotReserved == call.slot \in Slot /\ result[call.slot] = NoResult

(* While a lexer reads, a scan holds its source's name as the last of its  *)
(* blocks, and the lexer's own name in old_src.                            *)
Reading ==
  /\ lex.on
  /\ call.kind \in {"feed", "finalize", "buf", "file"}
  /\ call.kind # "feed" => SlotReserved
  /\ IF Scanning
     THEN Len(call.old) = 1 /\ call.got # << >> /\ lex.src = <<call.got[Len(call.got)]>>
     ELSE call.old = << >> /\ call.got = << >>

(* The locals of the call in progress, at every point of it. *)
Locals ==
  /\ pc = "idle" => call = NoCall
  /\ pc = "build" =>
       /\ call.kind \in {"lexer", "parser"} /\ call.old = << >>
       /\ Len(call.got) < Parts
       /\ IF call.kind = "lexer" THEN ~ lex.on ELSE ~ par.on
  /\ pc = "open" => Scanning /\ lex.on /\ SlotReserved /\ call.old = << >>
  /\ pc \in {"feed", "finalize", "wrap", "fail"} => Reading
  /\ pc = "finalize" => call.kind # "feed"
  /\ pc = "wrap" => Scanning
  /\ pc = "close" => call.old = << >>
  /\ pc = "parse" => call.old = << >> /\ tree = << >>
  /\ pc # "wrap" => call.res = << >>

(* The LexOut a parser points to is the one in the slot linked last. *)
Linked == par.link # << >> => linked \in Slot /\ par.link = result[linked].own

Absent == (~ lex.on => lex = NoLexer) /\ (~ par.on => par = NoParser)

IInv == TypeOK /\ Absent /\ Locals /\ Linked /\ OneOwner /\ NeverStale

-----------------------------------------------------------------------------
(* Sequences of blocks. *)

LEMMA EmptyBlocks ==
  << >> \in Seq(Block) /\ Range(<< >>) = {} /\ IsInjective(<< >>) /\ Len(<< >>) = 0
BY DEF Range, IsInjective

LEMMA OneBlock ==
  ASSUME NEW b \in Block
  PROVE  <<b>> \in Seq(Block) /\ Range(<<b>>) = {b} /\ IsInjective(<<b>>) /\ Len(<<b>>) = 1
<1> DEFINE s == <<b>>
<1>1. s \in Seq(Block) /\ Len(s) = 1 /\ s[1] = b /\ DOMAIN s = 1 .. 1
  OBVIOUS
<1> HIDE DEF s
<1>2. Range(s) = {b} /\ IsInjective(s)
  BY <1>1 DEF Range, IsInjective
<1> QED
  BY <1>1, <1>2 DEF s

LEMMA Concatenated ==
  ASSUME NEW s \in Seq(Block), NEW t \in Seq(Block)
  PROVE  /\ s \o t \in Seq(Block)
         /\ Range(s \o t) = Range(s) \union Range(t)
         /\ IsInjective(s \o t) <=>
              IsInjective(s) /\ IsInjective(t) /\ Range(s) \intersect Range(t) = {}
<1> DEFINE u == s \o t
<1>1. /\ u \in Seq(Block) /\ Len(s) \in Nat /\ Len(t) \in Nat
      /\ DOMAIN s = 1 .. Len(s) /\ DOMAIN t = 1 .. Len(t) /\ DOMAIN u = 1 .. Len(s) + Len(t)
  OBVIOUS
<1>2. \A i \in DOMAIN s : u[i] = s[i] /\ i \in DOMAIN u
  BY <1>1
<1>3. \A i \in DOMAIN t : u[Len(s) + i] = t[i] /\ Len(s) + i \in DOMAIN u
  BY <1>1
<1>4. \A k \in DOMAIN u : k \in DOMAIN s \/ \E i \in DOMAIN t : k = Len(s) + i
  <2> SUFFICES ASSUME NEW k \in DOMAIN u, k \notin DOMAIN s
               PROVE  \E i \in DOMAIN t : k = Len(s) + i
    OBVIOUS
  <2>1. k - Len(s) \in DOMAIN t /\ k = Len(s) + (k - Len(s))
    BY <1>1
  <2> QED
    BY <2>1
<1> HIDE DEF u
<1>5. Range(u) = Range(s) \union Range(t)
  BY <1>2, <1>3, <1>4 DEF Range
<1>6. ASSUME IsInjective(u)
      PROVE  IsInjective(s) /\ IsInjective(t) /\ Range(s) \intersect Range(t) = {}
  <2>1. IsInjective(s)
    BY <1>2, <1>6 DEF IsInjective
  <2>2. IsInjective(t)
    BY <1>1, <1>3, <1>6 DEF IsInjective
  <2>3. ASSUME NEW i \in DOMAIN s, NEW j \in DOMAIN t PROVE s[i] # t[j]
    <3>1. i # Len(s) + j
      BY <1>1
    <3> QED
      BY <3>1, <1>2, <1>3, <1>6 DEF IsInjective
  <2> QED
    BY <2>1, <2>2, <2>3 DEF Range
<1>7. ASSUME IsInjective(s), IsInjective(t), Range(s) \intersect Range(t) = {}
      PROVE  IsInjective(u)
  <2>1. \A i \in DOMAIN s, j \in DOMAIN t : s[i] # t[j]
    BY <1>7 DEF Range
  <2> SUFFICES ASSUME NEW a \in DOMAIN u, NEW b \in DOMAIN u, u[a] = u[b]
               PROVE  a = b
    BY DEF IsInjective
  <2>2. CASE a \in DOMAIN s /\ b \in DOMAIN s
    BY <2>2, <1>2, <1>7 DEF IsInjective
  <2>3. CASE a \in DOMAIN s /\ b \notin DOMAIN s
    BY <2>1, <2>3, <1>2, <1>3, <1>4
  <2>4. CASE a \notin DOMAIN s /\ b \in DOMAIN s
    BY <2>1, <2>4, <1>2, <1>3, <1>4
  <2>5. CASE a \notin DOMAIN s /\ b \notin DOMAIN s
    <3>1. PICK i \in DOMAIN t : a = Len(s) + i
      BY <2>5, <1>4
    <3>2. PICK j \in DOMAIN t : b = Len(s) + j
      BY <2>5, <1>4
    <3>3. i = j
      BY <3>1, <3>2, <1>3, <1>7 DEF IsInjective
    <3> QED
      BY <3>1, <3>2, <3>3
  <2> QED
    BY <2>2, <2>3, <2>4, <2>5
<1> QED
  BY <1>1, <1>5, <1>6, <1>7 DEF u

LEMMA Appended ==
  ASSUME NEW s \in Seq(Block), NEW b \in Block
  PROVE  /\ Append(s, b) \in Seq(Block) /\ Len(Append(s, b)) = Len(s) + 1
         /\ Append(s, b) # << >> /\ Append(s, b)[Len(Append(s, b))] = b
         /\ Range(Append(s, b)) = Range(s) \union {b}
         /\ IsInjective(Append(s, b)) <=> IsInjective(s) /\ b \notin Range(s)
<1> DEFINE one == <<b>>
<1>1. Append(s, b) = s \o one
  OBVIOUS
<1>0. one \in Seq(Block) /\ Range(one) = {b} /\ IsInjective(one)
  BY OneBlock
<1> HIDE DEF one
<1>2. Append(s, b) \in Seq(Block) /\ Len(Append(s, b)) = Len(s) + 1
  OBVIOUS
<1>3. Append(s, b) # << >> /\ Append(s, b)[Len(Append(s, b))] = b
  OBVIOUS
<1>4. Range(Append(s, b)) = Range(s) \union {b}
  BY <1>1, <1>0, Concatenated
<1>5. IsInjective(Append(s, b)) <=> IsInjective(s) /\ b \notin Range(s)
  BY <1>1, <1>0, Concatenated
<1> QED
  BY <1>2, <1>3, <1>4, <1>5

LEMMA WithoutLast ==
  ASSUME NEW s \in Seq(Block), s # << >>
  PROVE  LET f == SubSeq(s, 1, Len(s) - 1)
         IN  /\ f \in Seq(Block) /\ s[Len(s)] \in Block
             /\ Range(s) = Range(f) \union {s[Len(s)]}
             /\ IsInjective(s) => IsInjective(f) /\ s[Len(s)] \notin Range(f)
<1> DEFINE f == SubSeq(s, 1, Len(s) - 1)
<1>1. f \in Seq(Block) /\ s[Len(s)] \in Block
  OBVIOUS
<1>2. s = Append(f, s[Len(s)])
  OBVIOUS
<1> HIDE DEF f
<1>3. Range(Append(f, s[Len(s)])) = Range(f) \union {s[Len(s)]}
  BY <1>1, Appended
<1>4. IsInjective(Append(f, s[Len(s)])) => IsInjective(f) /\ s[Len(s)] \notin Range(f)
  BY <1>1, Appended
<1>5. Range(s) = Range(f) \union {s[Len(s)]}
  BY <1>2, <1>3
<1>6. IsInjective(s) => IsInjective(f) /\ s[Len(s)] \notin Range(f)
  BY <1>2, <1>4
<1> QED
  BY <1>1, <1>5, <1>6 DEF f

LEMMA WithoutFirst ==
  ASSUME NEW s \in Seq(Block), s # << >>
  PROVE  /\ Head(s) \in Block /\ Tail(s) \in Seq(Block)
         /\ Range(s) = {Head(s)} \union Range(Tail(s))
         /\ IsInjective(s) => IsInjective(Tail(s)) /\ Head(s) \notin Range(Tail(s))
<1> DEFINE one == <<Head(s)>>
           t == Tail(s)
<1>1. Head(s) \in Block /\ t \in Seq(Block) /\ s = one \o t
  OBVIOUS
<1>0. one \in Seq(Block) /\ Range(one) = {Head(s)} /\ IsInjective(one)
  BY <1>1, OneBlock
<1> HIDE DEF one, t
<1>2. Range(one \o t) = {Head(s)} \union Range(t)
  BY <1>1, <1>0, Concatenated
<1>3. IsInjective(one \o t) => IsInjective(t) /\ Head(s) \notin Range(t)
  BY <1>1, <1>0, Concatenated
<1> QED
  BY <1>1, <1>2, <1>3 DEF t

-----------------------------------------------------------------------------
(* What one step does to the blocks of two owners. *)

(* The blocks somebody has to free. *)
Live == used \ lost

LEMMA Moved ==
  ASSUME OneOwner, NEW v \in Owner, NEW w \in Owner, NEW A, NEW F,
         \A x \in Owner : x # v /\ x # w => Owned(x)' = Owned(x),
         IsInjective(Owned(v)'), IsInjective(Owned(w)'),
         v # w => Range(Owned(v)') \intersect Range(Owned(w)') = {},
         A \intersect Live = {}, F \subseteq Range(Owned(v)) \union Range(Owned(w)),
         Range(Owned(v)') \union Range(Owned(w)')
           = ((Range(Owned(v)) \union Range(Owned(w))) \ F) \union A,
         Live' = (Live \ F) \union A, lost' \subseteq used',
         ~ misfreed', pc' = "idle" => Owned("call")' = << >>
  PROVE  OneOwner'
<1> DEFINE R(x) == Range(Owned(x))
           Q(x) == Range(Owned(x)')
<1>1. /\ \A x \in Owner : IsInjective(Owned(x)) /\ R(x) \subseteq Live
      /\ \A x, y \in Owner : x # y => R(x) \intersect R(y) = {}
      /\ Live \subseteq UNION {R(x) : x \in Owner}
  BY DEF OneOwner, Live
<1>2. \A x \in Owner : x # v /\ x # w => Q(x) = R(x) /\ IsInjective(Owned(x)')
  BY <1>1
<1>3. \A x \in Owner : IsInjective(Owned(x)')
  BY <1>2
<1>4. Q(v) \union Q(w) = ((R(v) \union R(w)) \ F) \union A /\ F \subseteq R(v) \union R(w)
  OBVIOUS
<1> HIDE DEF R, Q
<1>5. \A x \in Owner : Q(x) \subseteq Live'
  <2> SUFFICES ASSUME NEW x \in Owner PROVE Q(x) \subseteq Live'
    OBVIOUS
  <2>1. CASE x = v \/ x = w
    BY <2>1, <1>1, <1>4
  <2>2. CASE x # v /\ x # w
    <3>1. R(x) \intersect (R(v) \union R(w)) = {}
      BY <2>2, <1>1
    <3> QED
      BY <3>1, <2>2, <1>1, <1>2, <1>4
  <2> QED
    BY <2>1, <2>2
<1>6. \A x, y \in Owner : x # y => Q(x) \intersect Q(y) = {}
  <2> SUFFICES ASSUME NEW x \in Owner, NEW y \in Owner, x # y
               PROVE  Q(x) \intersect Q(y) = {}
    OBVIOUS
  <2>1. ASSUME NEW z \in Owner, z # v, z # w
        PROVE  Q(z) \intersect (Q(v) \union Q(w)) = {}
    <3>1. R(z) \intersect (R(v) \union R(w)) = {} /\ R(z) \subseteq Live /\ Q(z) = R(z)
      BY <2>1, <1>1, <1>2
    <3> QED
      BY <3>1, <1>4
  <2>2. v # w => Q(v) \intersect Q(w) = {}
    BY DEF Q
  <2>3. CASE x # v /\ x # w
    <3>1. CASE y = v \/ y = w
      BY <2>1, <2>3, <3>1
    <3>2. CASE y # v /\ y # w
      BY <2>3, <3>2, <1>1, <1>2
    <3> QED
      BY <3>1, <3>2
  <2>4. CASE x = v \/ x = w
    <3>1. CASE y # v /\ y # w
      BY <2>1, <2>4, <3>1
    <3>2. CASE y = v \/ y = w
      BY <2>2, <2>4, <3>2
    <3> QED
      BY <3>1, <3>2
  <2> QED
    BY <2>3, <2>4
<1>7. Live' \subseteq UNION {Q(x) : x \in Owner}
  <2> SUFFICES ASSUME NEW b \in Live' PROVE \E x \in Owner : b \in Q(x)
    OBVIOUS
  <2>1. CASE b \in Q(v) \union Q(w)
    BY <2>1
  <2>2. CASE b \notin Q(v) \union Q(w)
    <3>1. b \in Live /\ b \notin R(v) /\ b \notin R(w)
      BY <2>2, <1>4
    <3>2. PICK x \in Owner : b \in R(x)
      BY <3>1, <1>1
    <3> QED
      BY <3>1, <3>2, <1>2
  <2> QED
    BY <2>1, <2>2
<1>8. /\ \A x \in Owner : IsInjective(Owned(x)') /\ Range(Owned(x)') \subseteq Live'
      /\ \A x, y \in Owner : x # y => Range(Owned(x)') \intersect Range(Owned(y)') = {}
      /\ Live' \subseteq UNION {Range(Owned(x)') : x \in Owner}
  BY <1>3, <1>5, <1>6, <1>7 DEF Q
<1> QED
  BY <1>8 DEF OneOwner, Owner, Range, IsInjective, Live

LEMMA Redistributed ==
  ASSUME OneOwner, NEW v \in Owner, NEW w \in Owner, NEW A, NEW F,
         \A x \in Owner : x # v /\ x # w => Owned(x)' = Owned(x),
         IsInjective(Owned(v)'), IsInjective(Owned(w)'),
         v # w => Range(Owned(v)') \intersect Range(Owned(w)') = {},
         A \intersect used = {}, F \subseteq Range(Owned(v)) \union Range(Owned(w)),
         Range(Owned(v)') \union Range(Owned(w)')
           = ((Range(Owned(v)) \union Range(Owned(w))) \ F) \union A,
         used' = (used \ F) \union A, lost' = lost,
         ~ misfreed', pc' = "idle" => Owned("call")' = << >>
  PROVE  OneOwner'
<1>1. F \intersect lost = {} /\ lost \subseteq used
  BY DEF OneOwner
<1>2. A \intersect Live = {} /\ Live' = (Live \ F) \union A /\ lost' \subseteq used'
  BY <1>1 DEF Live
<1> QED
  BY <1>2, Moved

LEMMA Owners ==
  /\ Owned("lexer") = lex.own \o lex.seq \o (IF call.old = << >> THEN lex.src ELSE call.old)
  /\ Owned("parser") = par.own
  /\ Owned("tree") = tree
  /\ Owned("call") = call.got \o call.res
  /\ \A s \in Slot : Owned(s) = result[s].own
BY PipelineAssumption DEF Owned

LEMMA OwnersNext ==
  /\ Owned("lexer")' = lex'.own \o lex'.seq \o (IF call'.old = << >> THEN lex'.src ELSE call'.old)
  /\ Owned("parser")' = par'.own
  /\ Owned("tree")' = tree'
  /\ Owned("call")' = call'.got \o call'.res
  /\ \A s \in Slot : Owned(s)' = result'[s].own
BY PipelineAssumption DEF Owned

LEMMA SameOwned ==
  ASSUME UNCHANGED <<lex, result, par, tree>>,
         call'.got = call.got, call'.res = call.res, call'.old = call.old
  PROVE  \A x \in Owner : Owned(x)' = Owned(x)
BY Owners, OwnersNext DEF Owner

LEMMA Kept ==
  ASSUME OneOwner, UNCHANGED <<heap, lost>>, \A x \in Owner : Owned(x)' = Owned(x),
         pc' = "idle" => Owned("call")' = << >>
  PROVE  OneOwner'
<1>1. used' = used /\ misfreed' = misfreed
  BY DEF heap
<1>2. "call" \in Owner
  BY DEF Owner
<1>3. Owned("call")' = Owned("call")
  BY <1>2
<1> QED
  BY <1>1, <1>2, <1>3, Redistributed DEF OneOwner, Owner

(* The types of the parts, for citing. *)
LEMMA Typed ==
  ASSUME TypeOK
  PROVE  /\ lex.own \in Seq(Block) /\ lex.seq \in Seq(Block) /\ lex.src \in Seq(Block)
         /\ call.got \in Seq(Block) /\ call.res \in Seq(Block) /\ call.old \in Seq(Block)
         /\ par.own \in Seq(Block) /\ par.link \in Seq(Block) /\ tree \in Seq(Block)
         /\ \A s \in Slot : result[s].own \in Seq(Block)
BY DEF TypeOK, LexerType, ParserType, ResultType, CallType

LEMMA Three ==
  ASSUME NEW s \in Seq(Block), NEW t \in Seq(Block), NEW u \in Seq(Block)
  PROVE  /\ s \o t \o u \in Seq(Block)
         /\ Range(s \o t \o u) = Range(s) \union Range(t) \union Range(u)
         /\ IsInjective(s \o t \o u) <=>
              /\ IsInjective(s) /\ IsInjective(t) /\ IsInjective(u)
              /\ Range(s) \intersect Range(t) = {}
              /\ Range(s) \intersect Range(u) = {}
              /\ Range(t) \intersect Range(u) = {}
<1> DEFINE st == s \o t
<1>1. /\ st \in Seq(Block) /\ Range(st) = Range(s) \union Range(t)
      /\ IsInjective(st) <=>
              IsInjective(s) /\ IsInjective(t) /\ Range(s) \intersect Range(t) = {}
  BY Concatenated
<1> HIDE DEF st
<1>2. /\ st \o u \in Seq(Block) /\ Range(st \o u) = Range(st) \union Range(u)
      /\ IsInjective(st \o u) <=>
              IsInjective(st) /\ IsInjective(u) /\ Range(st) \intersect Range(u) = {}
  BY <1>1, Concatenated
<1>3. Range(st) \intersect Range(u) = {} <=>
        Range(s) \intersect Range(u) = {} /\ Range(t) \intersect Range(u) = {}
  BY <1>1
<1> QED
  BY <1>1, <1>2, <1>3 DEF st

(* A call that holds no result of a scan. *)
LEMMA CallHolds ==
  /\ TypeOK /\ call.res = << >> => Owned("call") = call.got
  /\ call'.got \in Seq(Block) /\ call'.res = << >> => Owned("call")' = call'.got
  /\ Returns => Owned("call")' = << >>
<1>1. TypeOK /\ call.res = << >> => Owned("call") = call.got
  BY Owners, Typed
<1>2. call'.got \in Seq(Block) /\ call'.res = << >> => Owned("call")' = call'.got
  BY OwnersNext
<1>3. Returns => Owned("call")' = << >>
  BY OwnersNext DEF Returns, NoCall, NewCall
<1> QED
  BY <1>1, <1>2, <1>3

LEMMA Mallocs ==
  ASSUME NEW b \in Block, Malloc(b)
  PROVE  b \notin used /\ used' = used \union {b} /\ misfreed' = misfreed
BY DEF Malloc

(* One owner gets a block. *)
LEMMA Granted ==
  ASSUME OneOwner, UNCHANGED lost, NEW w \in Owner, NEW b \in Block, Malloc(b),
         \A x \in Owner : x # w => Owned(x)' = Owned(x),
         IsInjective(Owned(w)'), Range(Owned(w)') = Range(Owned(w)) \union {b},
         pc' = "idle" => Owned("call")' = << >>
  PROVE  OneOwner'
<1>1. b \notin used /\ used' = used \union {b} /\ misfreed' = misfreed
  BY Mallocs
<1> DEFINE A == {b}
<1>2. A \intersect used = {} /\ used' = (used \ {}) \union A /\ ~ misfreed'
  BY <1>1 DEF OneOwner
<1>3. Range(Owned(w)') = ((Range(Owned(w)) \union Range(Owned(w))) \ {}) \union A
  OBVIOUS
<1> HIDE DEF A
<1> QED
  BY <1>2, <1>3, Redistributed

(* One owner frees some of its blocks. *)
LEMMA Released ==
  ASSUME OneOwner, UNCHANGED lost, NEW w \in Owner, NEW s, Free(s),
         IsInjective(s), Range(s) \subseteq Range(Owned(w)),
         \A x \in Owner : x # w => Owned(x)' = Owned(x),
         IsInjective(Owned(w)'), Range(Owned(w)') = Range(Owned(w)) \ Range(s),
         pc' = "idle" => Owned("call")' = << >>
  PROVE  OneOwner'
<1>1. Range(Owned(w)) \subseteq used /\ ~ misfreed
  BY DEF OneOwner
<1> DEFINE A == {}
<1>2. used' = (used \ Range(s)) \union A /\ ~ misfreed' /\ A \intersect used = {}
  BY <1>1 DEF Free, FreeAllBut
<1>3. /\ Range(Owned(w)') = ((Range(Owned(w)) \union Range(Owned(w))) \ Range(s)) \union A
      /\ Range(Owned(w)') \union Range(Owned(w)') = Range(Owned(w)')
      /\ Range(s) \subseteq Range(Owned(w)) \union Range(Owned(w))
  OBVIOUS
<1> HIDE DEF A
<1> QED
  BY <1>2, <1>3, Redistributed

-----------------------------------------------------------------------------
(* The steps. *)

(* A call begins with nothing in its hands. *)
LEMMA NoText == << >> \in Seq(Lexeme) /\ NoSlot \in Slot \union {NoSlot}
OBVIOUS

LEMMA Begun ==
  ASSUME IInv, NEW kind, NEW slot \in Slot \union {NoSlot}, NEW todo \in Seq(Lexeme),
         kind \in {"lexer", "parser", "feed", "finalize", "buf", "file", "parse"},
         NEW at \in {"build", "open", "feed", "finalize", "parse"},
         Begins(at, NewCall(kind, slot, todo)), stale' \in BOOLEAN,
         UNCHANGED <<heap, lost, lex, result, par, linked, tree>>
  PROVE  TypeOK' /\ Absent' /\ Linked' /\ OneOwner'
<1> DEFINE c == NewCall(kind, slot, todo)
<1>1. /\ c.kind = kind /\ c.slot = slot /\ c.todo = todo
      /\ c.got = << >> /\ c.res = << >> /\ c.old = << >>
  BY DEF NewCall
<1>2. c \in CallType
  BY DEF NewCall, CallType
<1>3. pc = "idle" /\ pc' = at /\ call' = c
  BY DEF Begins
<1> HIDE DEF c
<1>4. TypeOK'
  BY <1>2, <1>3 DEF IInv, TypeOK, heap
<1>5. call'.got = call.got /\ call'.res = call.res /\ call'.old = call.old
  BY <1>1, <1>3 DEF IInv, Locals, NoCall, NewCall
<1>6. OneOwner'
  BY <1>3, <1>5, SameOwned, Kept DEF IInv
<1> QED
  BY <1>4, <1>6 DEF IInv, Absent, Linked

LEMMA BeginNewStep ==
  ASSUME IInv, NEW kind \in {"lexer", "parser"}, BeginNew(kind)
  PROVE  IInv'
<1> UNCHANGED lost
  BY DEF BeginNew
<1>2. Begins("build", NewCall(kind, NoSlot, << >>))
  BY DEF BeginNew
<1>3. stale' = stale /\ UNCHANGED <<heap, lex, result, par, linked, tree>>
  BY DEF BeginNew
<1>4. stale' \in BOOLEAN
  BY <1>3 DEF IInv, TypeOK
<1>5. TypeOK' /\ Absent' /\ Linked' /\ OneOwner'
  BY <1>2, <1>3, <1>4, NoText, Begun
<1>6. Locals'
  BY <1>2 DEF Locals, BeginNew, Begins, NewCall, Parts
<1> QED
  BY <1>3, <1>5, <1>6 DEF IInv, NeverStale

LEMMA BeginFeedStep ==
  ASSUME IInv, NEW t \in Chunk, BeginFeed(t)
  PROVE  IInv'
<1> UNCHANGED lost
  BY DEF BeginFeed
<1>2. Begins("feed", NewCall("feed", NoSlot, t))
  BY DEF BeginFeed
<1>3. stale' = stale /\ UNCHANGED <<heap, lex, result, par, linked, tree>> /\ lex.on
  BY DEF BeginFeed, MayRead
<1>4. stale' \in BOOLEAN /\ t \in Seq(Lexeme)
  BY <1>3, PipelineAssumption DEF IInv, TypeOK
<1>5. TypeOK' /\ Absent' /\ Linked' /\ OneOwner'
  BY <1>2, <1>3, <1>4, NoText, Begun
<1>6. Locals'
  BY <1>2, <1>3 DEF Locals, Begins, NewCall, Reading, Scanning
<1> QED
  BY <1>3, <1>5, <1>6 DEF IInv, NeverStale

LEMMA BeginFinalizeStep ==
  ASSUME IInv, NEW s \in Slot, BeginFinalize(s)
  PROVE  IInv'
<1> UNCHANGED lost
  BY DEF BeginFinalize
<1>2. Begins("finalize", NewCall("finalize", s, << >>))
  BY DEF BeginFinalize
<1>3. /\ stale' = stale /\ UNCHANGED <<heap, lex, result, par, linked, tree>>
      /\ lex.on /\ result[s] = NoResult
  BY DEF BeginFinalize
<1>4. stale' \in BOOLEAN
  BY <1>3 DEF IInv, TypeOK
<1>5. TypeOK' /\ Absent' /\ Linked' /\ OneOwner'
  BY <1>2, <1>3, <1>4, NoText, Begun
<1>6. Locals'
  BY <1>2, <1>3 DEF Locals, Begins, NewCall, Reading, Scanning, SlotReserved
<1> QED
  BY <1>3, <1>5, <1>6 DEF IInv, NeverStale

LEMMA BeginScanStep ==
  ASSUME IInv, NEW kind \in {"buf", "file"}, NEW t \in Chunk, NEW s \in Slot, BeginScan(kind, t, s)
  PROVE  IInv'
<1> UNCHANGED lost
  BY DEF BeginScan
<1>2. Begins("open", NewCall(kind, s, t))
  BY DEF BeginScan
<1>3. /\ stale' = stale /\ UNCHANGED <<heap, lex, result, par, linked, tree>>
      /\ lex.on /\ result[s] = NoResult
  BY DEF BeginScan, MayRead
<1>4. stale' \in BOOLEAN /\ t \in Seq(Lexeme)
  BY <1>3, PipelineAssumption DEF IInv, TypeOK
<1>5. TypeOK' /\ Absent' /\ Linked' /\ OneOwner'
  BY <1>2, <1>3, <1>4, NoText, Begun
<1>6. Locals'
  BY <1>2, <1>3 DEF Locals, Begins, NewCall, Scanning, SlotReserved
<1> QED
  BY <1>3, <1>5, <1>6 DEF IInv, NeverStale

LEMMA BeginParseStep ==
  ASSUME IInv, BeginParse
  PROVE  IInv'
<1> UNCHANGED lost
  BY DEF BeginParse
<1>2. Begins("parse", NewCall("parse", NoSlot, << >>))
  BY DEF BeginParse
<1>3. UNCHANGED <<heap, lex, result, par, linked, tree>> /\ par.link # << >> /\ tree = << >>
  BY DEF BeginParse
<1>4. Range(par.link) \subseteq used
  <2>1. linked \in Slot /\ par.link = result[linked].own
    BY <1>3 DEF IInv, Linked
  <2>2. Range(Owned(linked)) \subseteq used
    BY <2>1 DEF IInv, OneOwner, Owner
  <2> QED
    BY <2>1, <2>2, Owners
<1>5. stale' = FALSE
  BY <1>4 DEF IInv, NeverStale, BeginParse, Reads
<1>6. TypeOK' /\ Absent' /\ Linked' /\ OneOwner'
  BY <1>2, <1>3, <1>5, NoText, Begun
<1>7. Locals'
  BY <1>2, <1>3 DEF Locals, Begins, NewCall
<1> QED
  BY <1>5, <1>6, <1>7 DEF IInv, NeverStale

LEMMA ReturnsTyped ==
  ASSUME Returns
  PROVE  /\ call' \in CallType /\ pc' = "idle" /\ call' = NoCall
         /\ call'.got = << >> /\ call'.res = << >> /\ call'.old = << >>
<1>1. call' = NewCall("none", NoSlot, << >>) /\ pc' = "idle"
  BY DEF Returns, NoCall
<1> QED
  BY <1>1 DEF NewCall, CallType, NoCall

(* A call gives up: what it holds is freed. *)
LEMMA GivesUp ==
  ASSUME IInv, UNCHANGED lost, call.res = << >>, Free(call.got), Returns,
         \A x \in Owner : x # "call" => Owned(x)' = Owned(x)
  PROVE  OneOwner'
<1>1. Owned("call") = call.got /\ Owned("call")' = << >> /\ "call" \in Owner
  BY CallHolds DEF IInv, Owner
<1>2. IsInjective(call.got)
  BY <1>1 DEF IInv, OneOwner
<1> QED
  BY <1>1, <1>2, EmptyBlocks, Released DEF IInv

LEMMA BuildStep ==
  ASSUME IInv, Build
  PROVE  IInv'
<1> UNCHANGED lost
  BY DEF Build
<1>1. /\ pc = "build" /\ call.kind \in {"lexer", "parser"} /\ call.old = << >> /\ call.res = << >>
      /\ Len(call.got) < Parts /\ call.got \in Seq(Block)
      /\ IF call.kind = "lexer" THEN ~ lex.on ELSE ~ par.on
  BY Typed DEF IInv, Locals, Build
<1>2. stale' = stale /\ UNCHANGED <<result, linked, tree>>
  BY DEF Build
<1>3. ASSUME NEW b \in Block, Malloc(b), Len(Append(call.got, b)) = Parts,
             Built(Append(call.got, b)), Returns
      PROVE  IInv'
  <2> DEFINE p == Append(call.got, b)
  <2>1. p \in Seq(Block) /\ Range(p) = Range(call.got) \union {b}
    BY <1>1, Appended
  <2>2. IsInjective(p)
    <3>1. IsInjective(call.got) /\ Range(call.got) \subseteq used
      BY <1>1, CallHolds DEF IInv, OneOwner, Owner
    <3>2. b \notin Range(call.got)
      BY <1>3, <3>1, Mallocs
    <3> QED
      BY <1>1, <3>1, <3>2, Appended
  <2>3. Len(p) = Parts /\ Built(p)
    BY <1>3
  <2>4. Owned("call") = call.got /\ Owned("call")' = << >> /\ "call" \in Owner
    BY <1>1, <1>3, CallHolds DEF IInv, Owner
  <2>5. used' \subseteq Block /\ misfreed' \in BOOLEAN /\ stale' \in BOOLEAN
    BY <1>2, <1>3, Mallocs DEF IInv, TypeOK
  <2>6. call' \in CallType /\ pc' = "idle" /\ call' = NoCall /\ call'.old = << >>
    BY <1>3, ReturnsTyped
  <2> HIDE DEF p
  <2>7. CASE call.kind = "lexer"
    <3>1. Len(p) = 5 /\ lex = NoLexer /\ par' = par
      BY <1>1, <2>3, <2>7 DEF Parts, Built, IInv, Absent
    <3>2. /\ p[1] \in Block /\ p[2] \in Block /\ p[3] \in Block /\ p[4] \in Block /\ p[5] \in Block
          /\ DOMAIN p = 1 .. 5
      <4>1. DOMAIN p = 1 .. Len(p) /\ \A i \in 1 .. Len(p) : p[i] \in Block
        BY <2>1
      <4>2. DOMAIN p = 1 .. 5 /\ \A i \in 1 .. 5 : p[i] \in Block
        BY <3>1, <4>1
      <4> QED
        BY <4>2
    <3> DEFINE own == <<p[2], p[4], p[5]>>
               src == <<p[1]>>
               seq == <<p[3]>>
    <3>3. lex' = [on |-> TRUE, own |-> own, src |-> src, seq |-> seq, pend |-> "none"]
      BY <2>3, <2>7 DEF Built
    <3>4. /\ own \in Seq(Block) /\ src \in Seq(Block) /\ seq \in Seq(Block)
          /\ Len(own) = 3 /\ Len(src) = 1 /\ Len(seq) = 1
      BY <3>2
    <3>5. /\ Range(own) = {p[2], p[4], p[5]} /\ Range(src) = {p[1]} /\ Range(seq) = {p[3]}
          /\ Range(p) = {p[1], p[2], p[3], p[4], p[5]}
      <4>1. DOMAIN own = 1 .. 3 /\ own[1] = p[2] /\ own[2] = p[4] /\ own[3] = p[5]
        OBVIOUS
      <4>2. Range(own) = {p[2], p[4], p[5]}
        BY <4>1 DEF Range
      <4>3. Range(src) = {p[1]} /\ Range(seq) = {p[3]}
        BY <3>2, OneBlock
      <4>4. Range(p) = {p[1], p[2], p[3], p[4], p[5]}
        BY <3>2 DEF Range
      <4> QED
        BY <4>2, <4>3, <4>4
    <3>6. IsInjective(own) /\ IsInjective(src) /\ IsInjective(seq)
      <4>1. p[2] # p[4] /\ p[2] # p[5] /\ p[4] # p[5]
        BY <2>2, <3>2 DEF IsInjective
      <4>2. DOMAIN own = 1 .. 3 /\ own[1] = p[2] /\ own[2] = p[4] /\ own[3] = p[5]
        OBVIOUS
      <4>3. IsInjective(own)
        BY <4>1, <4>2 DEF IsInjective
      <4> QED
        BY <3>2, <4>3, OneBlock
    <3>7. /\ Range(own) \intersect Range(seq) = {} /\ Range(own) \intersect Range(src) = {}
          /\ Range(seq) \intersect Range(src) = {}
      <4>1. \A i, j \in 1 .. 5 : p[i] = p[j] => i = j
        BY <2>2, <3>2 DEF IsInjective
      <4>2. /\ p[2] # p[3] /\ p[4] # p[3] /\ p[5] # p[3] /\ p[2] # p[1] /\ p[4] # p[1] /\ p[5] # p[1]
            /\ p[3] # p[1]
        BY <4>1
      <4> QED
        BY <3>5, <4>2
    <3> HIDE DEF own, src, seq
    <3>8. Owned("lexer") = << >> \o << >> \o << >>
      BY <1>1, <3>1, Owners DEF NoLexer
    <3>9. Owned("lexer")' = own \o seq \o src
      BY <2>6, <3>3, OwnersNext
    <3>10. Range(Owned("lexer")) = {}
      BY <3>8, Three, EmptyBlocks
    <3>11. Range(Owned("lexer")') = Range(p) /\ IsInjective(Owned("lexer")')
      <4>1. Range(own \o seq \o src) = Range(own) \union Range(seq) \union Range(src)
        BY <3>4, Three
      <4>2. IsInjective(own \o seq \o src)
        BY <3>4, <3>6, <3>7, Three
      <4> QED
        BY <3>5, <3>9, <4>1, <4>2
    <3>12. \A x \in Owner : x # "lexer" /\ x # "call" => Owned(x)' = Owned(x)
      BY <1>2, <3>1, Owners, OwnersNext DEF Owner
    <3>13. OneOwner'
      <4> DEFINE A == {b}
      <4>1. A \intersect used = {} /\ used' = (used \ {}) \union A /\ ~ misfreed'
        BY <1>3, Mallocs DEF IInv, OneOwner
      <4>2. Range(Owned("lexer")') \union Range(Owned("call")')
              = ((Range(Owned("lexer")) \union Range(Owned("call"))) \ {}) \union A
        BY <2>1, <2>4, <3>10, <3>11, EmptyBlocks
      <4>3. Range(Owned("lexer")') \intersect Range(Owned("call")') = {} /\ IsInjective(Owned("call")')
        BY <2>4, EmptyBlocks
      <4> HIDE DEF A
      <4> QED
        BY <2>4, <3>11, <3>12, <4>1, <4>2, <4>3, Redistributed DEF IInv, Owner
    <3>14. lex' \in LexerType /\ Len(lex'.own) = 3 /\ Len(lex'.src) = 1 /\ Len(lex'.seq) >= 1
      <4>1. lex' \in LexerType
        BY <3>3, <3>4 DEF LexerType
      <4>2. lex'.own = own /\ lex'.src = src /\ lex'.seq = seq
        BY <3>3
      <4>3. Len(lex'.own) = 3
        BY <3>4, <4>2
      <4>4. Len(lex'.src) = 1
        BY <3>4, <4>2
      <4>5. Len(lex'.seq) = 1
        BY <3>4, <4>2
      <4> QED
        BY <4>1, <4>3, <4>4, <4>5
    <3>15. TypeOK'
      BY <1>2, <2>5, <2>6, <3>1, <3>14 DEF IInv, TypeOK
    <3>16. Absent' /\ Locals' /\ Linked'
      BY <1>2, <2>6, <3>1, <3>3 DEF IInv, Absent, Locals, Linked, NoCall, NewCall
    <3> QED
      BY <1>2, <3>13, <3>15, <3>16 DEF IInv, NeverStale
  <2>8. CASE call.kind = "parser"
    <3>1. par = NoParser /\ lex' = lex /\ par' = [on |-> TRUE, own |-> p, link |-> << >>]
      BY <1>1, <2>3, <2>8 DEF Built, IInv, Absent
    <3>2. Owned("parser") = << >> /\ Owned("parser")' = p
      BY <3>1, Owners, OwnersNext DEF NoParser
    <3>3. \A x \in Owner : x # "parser" /\ x # "call" => Owned(x)' = Owned(x)
      BY <1>1, <1>2, <2>6, <3>1, Owners, OwnersNext DEF Owner
    <3>4. OneOwner'
      <4> DEFINE A == {b}
      <4>1. A \intersect used = {} /\ used' = (used \ {}) \union A /\ ~ misfreed'
        BY <1>3, Mallocs DEF IInv, OneOwner
      <4>2. Range(Owned("parser")') \union Range(Owned("call")')
              = ((Range(Owned("parser")) \union Range(Owned("call"))) \ {}) \union A
        BY <2>1, <2>4, <3>2, EmptyBlocks
      <4>3. Range(Owned("parser")') \intersect Range(Owned("call")') = {} /\ IsInjective(Owned("call")')
        BY <2>4, EmptyBlocks
      <4>4. IsInjective(Owned("parser")')
        BY <2>2, <3>2
      <4> HIDE DEF A
      <4> QED
        BY <2>4, <3>3, <4>1, <4>2, <4>3, <4>4, Redistributed DEF IInv, Owner
    <3>5. par' \in ParserType
      BY <2>1, <3>1, EmptyBlocks DEF ParserType
    <3>6. TypeOK'
      BY <1>2, <2>5, <2>6, <3>1, <3>5 DEF IInv, TypeOK
    <3>7. Absent' /\ Locals' /\ Linked'
      BY <1>2, <2>6, <3>1 DEF IInv, Absent, Locals, Linked, NoCall, NewCall
    <3> QED
      BY <1>2, <3>4, <3>6, <3>7 DEF IInv, NeverStale
  <2> QED
    BY <1>1, <2>7, <2>8
<1>4. ASSUME NEW b \in Block, Malloc(b), Len(Append(call.got, b)) # Parts,
             call' = [call EXCEPT !.got = Append(call.got, b)], UNCHANGED <<lex, par, pc>>
      PROVE  IInv'
  <2> DEFINE p == Append(call.got, b)
  <2>1. p \in Seq(Block) /\ Range(p) = Range(call.got) \union {b} /\ Len(p) = Len(call.got) + 1
    BY <1>1, Appended
  <2>2. Owned("call") = call.got /\ "call" \in Owner
    BY <1>1, CallHolds DEF IInv, Owner
  <2>3. IsInjective(p)
    <3>1. IsInjective(call.got) /\ b \notin Range(call.got)
      BY <1>4, <2>2, Mallocs DEF IInv, OneOwner
    <3> QED
      BY <1>1, <3>1, Appended
  <2>4. Len(p) < Parts
    BY <1>1, <1>4, <2>1 DEF Parts
  <2> HIDE DEF p
  <2>5. /\ call'.got = p /\ call'.kind = call.kind /\ call'.old = call.old /\ call'.res = call.res
        /\ call' \in CallType
    BY <1>4, <2>1 DEF p, IInv, TypeOK, CallType
  <2>6. Owned("call")' = p
    BY <1>1, <2>1, <2>5, CallHolds
  <2>7. \A x \in Owner : x # "call" => Owned(x)' = Owned(x)
    BY <1>2, <1>4, <2>5, Owners, OwnersNext DEF Owner
  <2>8. OneOwner'
    BY <1>1, <1>4, <2>1, <2>2, <2>3, <2>6, <2>7, Granted DEF IInv
  <2>9. TypeOK'
    BY <1>2, <1>4, <2>5, Mallocs DEF IInv, TypeOK
  <2>10. Absent' /\ Locals' /\ Linked'
    BY <1>1, <1>2, <1>4, <2>4, <2>5 DEF IInv, Absent, Locals, Linked, Parts
  <2> QED
    BY <1>2, <2>8, <2>9, <2>10 DEF IInv, NeverStale
<1>5. ASSUME Free(call.got), Returns, UNCHANGED <<lex, par>>
      PROVE  IInv'
  <2>1. call' \in CallType /\ pc' = "idle" /\ call' = NoCall /\ call'.old = << >>
    BY <1>5, ReturnsTyped
  <2>2. \A x \in Owner : x # "call" => Owned(x)' = Owned(x)
    BY <1>1, <1>2, <1>5, <2>1, Owners, OwnersNext DEF Owner
  <2>3. OneOwner'
    BY <1>1, <1>5, <2>2, GivesUp
  <2>4. TypeOK'
    BY <1>2, <1>5, <2>1 DEF IInv, TypeOK, Free, FreeAllBut
  <2>5. Absent' /\ Locals' /\ Linked'
    BY <1>2, <1>5, <2>1 DEF IInv, Absent, Locals, Linked, NoCall, NewCall
  <2> QED
    BY <1>2, <2>3, <2>4, <2>5 DEF IInv, NeverStale
<1> QED
  BY <1>3, <1>4, <1>5 DEF Build

(* The lexer's own name of its source. *)
Name == IF call.old = << >> THEN lex.src ELSE call.old

LEMMA LexerHolds ==
  ASSUME IInv
  PROVE  /\ Owned("lexer") = lex.own \o lex.seq \o Name /\ "lexer" \in Owner
         /\ lex.own \in Seq(Block) /\ lex.seq \in Seq(Block) /\ Name \in Seq(Block)
         /\ Range(Owned("lexer")) = Range(lex.own) \union Range(lex.seq) \union Range(Name)
         /\ Range(Owned("lexer")) \subseteq used
         /\ IsInjective(lex.own) /\ IsInjective(lex.seq) /\ IsInjective(Name)
         /\ Range(lex.own) \intersect Range(lex.seq) = {}
         /\ Range(lex.own) \intersect Range(Name) = {}
         /\ Range(lex.seq) \intersect Range(Name) = {}
<1>1. Owned("lexer") = lex.own \o lex.seq \o Name /\ "lexer" \in Owner
  BY Owners DEF Name, Owner
<1>2. lex.own \in Seq(Block) /\ lex.seq \in Seq(Block) /\ Name \in Seq(Block)
  BY Typed DEF IInv, Name
<1>3. IsInjective(Owned("lexer")) /\ Range(Owned("lexer")) \subseteq used
  BY <1>1 DEF IInv, OneOwner
<1>4. Range(lex.own \o lex.seq \o Name) = Range(lex.own) \union Range(lex.seq) \union Range(Name)
  BY <1>2, Three
<1>5. IsInjective(lex.own \o lex.seq \o Name)
  BY <1>1, <1>3
<1>6. /\ IsInjective(lex.own) /\ IsInjective(lex.seq) /\ IsInjective(Name)
      /\ Range(lex.own) \intersect Range(lex.seq) = {}
      /\ Range(lex.own) \intersect Range(Name) = {}
      /\ Range(lex.seq) \intersect Range(Name) = {}
  BY <1>2, <1>5, Three
<1> QED
  BY <1>1, <1>2, <1>3, <1>4, <1>6

(* in.src can be read: it is the lexer's, or the scan's. *)
LEMMA SrcUsed ==
  ASSUME IInv, pc = "idle" \/ Reading
  PROVE  Range(lex.src) \subseteq used
<1>1. CASE call.old = << >>
  BY <1>1, LexerHolds DEF Name
<1>2. CASE call.old # << >>
  <2>1. call.got # << >> /\ lex.src = <<call.got[Len(call.got)]>>
    BY <1>2 DEF IInv, Locals, NoCall, NewCall, Reading
  <2>2. call.got \in Seq(Block) /\ call.res \in Seq(Block)
    BY Typed DEF IInv
  <2>3. Range(call.got) \subseteq Range(Owned("call"))
    <3>1. Range(call.got \o call.res) = Range(call.got) \union Range(call.res)
      BY <2>2, Concatenated
    <3> QED
      BY <3>1, Owners
  <2>4. Range(Owned("call")) \subseteq used
    BY DEF IInv, OneOwner, Owner
  <2>5. call.got[Len(call.got)] \in Range(call.got) /\ call.got[Len(call.got)] \in Block
    BY <2>1, <2>2, WithoutLast
  <2> QED
    BY <2>1, <2>3, <2>4, <2>5, OneBlock
<1> QED
  BY <1>1, <1>2

LEMMA OpenStep ==
  ASSUME IInv, Open
  PROVE  IInv'
<1> UNCHANGED lost
  BY DEF Open
<1>1. /\ pc = "open" /\ Scanning /\ lex.on /\ SlotReserved /\ call.old = << >> /\ call.res = << >>
      /\ call.got \in Seq(Block) /\ lex.src \in Seq(Block)
  BY Typed DEF IInv, Locals, Open
<1>2. stale' = stale /\ UNCHANGED <<result, par, linked, tree>>
  BY DEF Open
<1>3. Owned("call") = call.got /\ "call" \in Owner
  BY <1>1, CallHolds DEF IInv, Owner
<1>4. ASSUME NEW b \in Block, Malloc(b)
      PROVE  LET got == Append(call.got, b)
             IN  /\ got \in Seq(Block) /\ got # << >> /\ got[Len(got)] = b
                 /\ Range(got) = Range(call.got) \union {b} /\ IsInjective(got)
  <2>1. IsInjective(call.got) /\ b \notin Range(call.got)
    BY <1>3, <1>4, Mallocs DEF IInv, OneOwner
  <2> QED
    BY <1>1, <2>1, Appended
<1>5. ASSUME NEW b \in Block, Malloc(b),
             call' = [call EXCEPT !.got = Append(call.got, b)], UNCHANGED <<lex, pc>>
      PROVE  IInv'
  <2> DEFINE got == Append(call.got, b)
  <2>1. got \in Seq(Block) /\ Range(got) = Range(call.got) \union {b} /\ IsInjective(got)
    BY <1>4, <1>5
  <2>2. call' = [call EXCEPT !.got = got]
    BY <1>5
  <2> HIDE DEF got
  <2>3. /\ call'.got = got /\ call'.kind = call.kind /\ call'.old = call.old /\ call'.res = call.res
        /\ call'.slot = call.slot /\ call' \in CallType
    BY <2>1, <2>2 DEF IInv, TypeOK, CallType
  <2>4. Owned("call")' = got
    BY <1>1, <2>1, <2>3, CallHolds
  <2>5. \A x \in Owner : x # "call" => Owned(x)' = Owned(x)
    BY <1>2, <1>5, <2>3, Owners, OwnersNext DEF Owner
  <2>6. OneOwner'
    BY <1>1, <1>3, <1>5, <2>1, <2>4, <2>5, Granted DEF IInv
  <2>7. TypeOK'
    BY <1>2, <1>5, <2>3, Mallocs DEF IInv, TypeOK
  <2>8. Absent' /\ Locals' /\ Linked'
    BY <1>1, <1>2, <1>5, <2>3 DEF IInv, Absent, Locals, Linked, Scanning, SlotReserved
  <2> QED
    BY <1>2, <2>6, <2>7, <2>8 DEF IInv, NeverStale
<1>6. ASSUME NEW b \in Block, Malloc(b),
             call' = [call EXCEPT !.got = Append(call.got, b), !.old = lex.src],
             lex' = [lex EXCEPT !.src = <<b>>], pc' = "feed"
      PROVE  IInv'
  <2> DEFINE got == Append(call.got, b)
             src == <<b>>
  <2>1. /\ got \in Seq(Block) /\ Range(got) = Range(call.got) \union {b} /\ IsInjective(got)
        /\ got # << >> /\ got[Len(got)] = b
    BY <1>4, <1>6
  <2>2. call' = [call EXCEPT !.got = got, !.old = lex.src] /\ lex' = [lex EXCEPT !.src = src]
    BY <1>6
  <2>3. src \in Seq(Block) /\ Len(src) = 1 /\ src = <<got[Len(got)]>>
    BY <2>1, OneBlock
  <2> HIDE DEF got, src
  <2>4. /\ call'.got = got /\ call'.kind = call.kind /\ call'.old = lex.src /\ call'.res = call.res
        /\ call'.slot = call.slot /\ call' \in CallType
    BY <1>1, <2>1, <2>2 DEF IInv, TypeOK, CallType
  <2>5. lex' \in LexerType
    BY <2>2, <2>3 DEF IInv, TypeOK, LexerType
  <2>6. lex'.src = src /\ lex'.own = lex.own /\ lex'.seq = lex.seq /\ (lex'.on <=> lex.on)
    BY <2>2 DEF IInv, TypeOK, LexerType
  <2>7. Len(lex.src) = 1 /\ Len(lex.own) = 3 /\ Len(lex.seq) >= 1
    BY <1>1 DEF IInv, TypeOK
  <2>8. Owned("call")' = got
    BY <1>1, <2>1, <2>4, CallHolds
  <2>9. Owned("lexer")' = Owned("lexer")
    <3>1. lex.src # << >>
      BY <2>7
    <3> QED
      BY <1>1, <2>4, <2>6, <3>1, Owners, OwnersNext
  <2>10. \A x \in Owner : x # "call" => Owned(x)' = Owned(x)
    BY <1>2, <2>9, Owners, OwnersNext DEF Owner
  <2>11. OneOwner'
    BY <1>1, <1>3, <1>6, <2>1, <2>8, <2>10, Granted DEF IInv
  <2>12. TypeOK'
    BY <1>2, <1>6, <2>3, <2>4, <2>5, <2>6, <2>7, Mallocs DEF IInv, TypeOK
  <2>13. Locals'
    BY <1>1, <1>2, <1>6, <2>1, <2>3, <2>4, <2>6, <2>7 DEF Locals, Reading, Scanning, SlotReserved
  <2>14. Absent' /\ Linked'
    BY <1>1, <1>2, <2>6 DEF IInv, Absent, Linked
  <2> QED
    BY <1>2, <2>11, <2>12, <2>13, <2>14 DEF IInv, NeverStale
<1>7. ASSUME Free(call.got), Returns, UNCHANGED lex
      PROVE  IInv'
  <2>1. call' \in CallType /\ pc' = "idle" /\ call' = NoCall /\ call'.old = << >>
    BY <1>7, ReturnsTyped
  <2>2. \A x \in Owner : x # "call" => Owned(x)' = Owned(x)
    BY <1>1, <1>2, <1>7, <2>1, Owners, OwnersNext DEF Owner
  <2>3. OneOwner'
    BY <1>1, <1>7, <2>2, GivesUp
  <2>4. TypeOK'
    BY <1>2, <1>7, <2>1 DEF IInv, TypeOK, Free, FreeAllBut
  <2>5. Absent' /\ Locals' /\ Linked'
    BY <1>2, <1>7, <2>1 DEF IInv, Absent, Locals, Linked, NoCall, NewCall
  <2> QED
    BY <1>2, <2>3, <2>4, <2>5 DEF IInv, NeverStale
<1> QED
  BY <1>5, <1>6, <1>7 DEF Open

LEMMA PushTokenStep ==
  ASSUME IInv, PushToken
  PROVE  IInv'
<1> UNCHANGED lost
  BY DEF PushToken
<1>1. pc \in {"feed", "finalize"} /\ Reading /\ call.res = << >> /\ lex.on /\ lex.seq \in Seq(Block)
  BY Typed DEF IInv, Locals, PushToken, Reading
<1>2. UNCHANGED <<result, par, linked, tree, call>>
  BY DEF PushToken
<1>3. ASSUME NEW b \in Block, Malloc(b), UNCHANGED <<stale, pc>>,
             lex' = [lex EXCEPT !.seq = Append(@, b), !.pend = "none"]
      PROVE  IInv'
  <2> DEFINE seq == Append(lex.seq, b)
  <2>1. /\ seq \in Seq(Block) /\ Range(seq) = Range(lex.seq) \union {b}
        /\ Len(seq) = Len(lex.seq) + 1 /\ Len(lex.seq) \in Nat
    BY <1>1, Appended
  <2>2. b \notin used
    BY <1>3, Mallocs
  <2>3. IsInjective(seq)
    BY <1>1, <2>2, LexerHolds, Appended
  <2>4. lex' = [lex EXCEPT !.seq = seq, !.pend = "none"]
    BY <1>3
  <2> HIDE DEF seq
  <2>5. lex' \in LexerType
    BY <2>1, <2>4 DEF IInv, TypeOK, LexerType
  <2>6. lex'.seq = seq /\ lex'.own = lex.own /\ lex'.src = lex.src /\ (lex'.on <=> lex.on)
    BY <2>4 DEF IInv, TypeOK, LexerType
  <2>7. Owned("lexer")' = lex.own \o seq \o Name
    BY <1>2, <2>6, OwnersNext DEF Name
  <2>8. Range(Owned("lexer")') = Range(Owned("lexer")) \union {b} /\ IsInjective(Owned("lexer")')
    <3>1. b \notin Range(lex.own) /\ b \notin Range(Name)
      BY <2>2, LexerHolds
    <3>2. Range(lex.own \o seq \o Name) = Range(lex.own) \union Range(seq) \union Range(Name)
      BY <2>1, LexerHolds, Three
    <3>3. Range(lex.own) \intersect Range(seq) = {} /\ Range(seq) \intersect Range(Name) = {}
      BY <2>1, <3>1, LexerHolds
    <3>4. IsInjective(lex.own \o seq \o Name)
      BY <2>1, <2>3, <3>3, LexerHolds, Three
    <3>5. Range(Owned("lexer")) = Range(lex.own) \union Range(lex.seq) \union Range(Name)
      BY LexerHolds
    <3> QED
      BY <2>1, <2>7, <3>2, <3>4, <3>5
  <2>9. \A x \in Owner : x # "lexer" => Owned(x)' = Owned(x)
    BY <1>2, Owners, OwnersNext DEF Owner
  <2>10. OneOwner'
    <3>1. pc' # "idle" /\ "lexer" \in Owner
      BY <1>1, <1>3 DEF Owner
    <3> QED
      BY <1>3, <2>8, <2>9, <3>1, Granted DEF IInv
  <2>11. Len(lex'.seq) >= 1
    BY <2>1, <2>6
  <2>12. TypeOK'
    BY <1>1, <1>2, <1>3, <2>5, <2>6, <2>11, Mallocs DEF IInv, TypeOK
  <2>13. Locals'
    BY <1>1, <1>2, <1>3, <2>6 DEF IInv, Locals, Reading, Scanning, SlotReserved
  <2>14. Absent' /\ Linked'
    BY <1>1, <1>2, <2>6 DEF IInv, Absent, Linked
  <2> QED
    BY <1>3, <2>10, <2>12, <2>13, <2>14 DEF IInv, NeverStale
<1>4. ASSUME lex' = [lex EXCEPT !.pend = "none"], UNCHANGED <<heap, stale, pc>>
      PROVE  IInv'
  <2>1. lex' \in LexerType
    BY <1>4 DEF IInv, TypeOK, LexerType
  <2>2. lex'.seq = lex.seq /\ lex'.own = lex.own /\ lex'.src = lex.src /\ (lex'.on <=> lex.on)
    BY <1>4 DEF IInv, TypeOK, LexerType
  <2>3. \A x \in Owner : Owned(x)' = Owned(x)
    BY <1>2, <2>2, Owners, OwnersNext DEF Owner
  <2>4. OneOwner'
    BY <1>1, <1>4, <2>3, Kept DEF IInv
  <2>5. TypeOK'
    BY <1>2, <1>4, <2>1, <2>2 DEF IInv, TypeOK, heap
  <2>6. Locals'
    BY <1>1, <1>2, <1>4, <2>2 DEF IInv, Locals, Reading, Scanning, SlotReserved
  <2>7. Absent' /\ Linked'
    BY <1>1, <1>2, <2>2 DEF IInv, Absent, Linked
  <2> QED
    BY <1>4, <2>4, <2>5, <2>6, <2>7 DEF IInv, NeverStale
<1>5. ASSUME Reads(lex.src), pc' = "fail", UNCHANGED <<heap, lex>>
      PROVE  IInv'
  <2>1. stale' = FALSE
    BY <1>1, <1>5, SrcUsed DEF IInv, NeverStale, Reads
  <2>2. OneOwner'
    <3>1. \A x \in Owner : Owned(x)' = Owned(x)
      BY <1>2, <1>5, Owners, OwnersNext DEF Owner
    <3> QED
      BY <1>5, <3>1, Kept DEF IInv
  <2>3. TypeOK'
    BY <1>2, <1>5, <2>1 DEF IInv, TypeOK, heap
  <2>4. Absent' /\ Locals' /\ Linked'
    BY <1>1, <1>2, <1>5 DEF IInv, Absent, Locals, Linked, Reading, Scanning, SlotReserved
  <2> QED
    BY <2>1, <2>2, <2>3, <2>4 DEF IInv, NeverStale
<1> QED
  BY <1>3, <1>4, <1>5 DEF PushToken

LEMMA FeedLexemeStep ==
  ASSUME IInv, FeedLexeme
  PROVE  IInv'
<1> UNCHANGED lost
  BY DEF FeedLexeme
<1>1. pc = "feed" /\ Reading /\ call.res = << >> /\ lex.on
  BY DEF IInv, Locals, FeedLexeme, Reading
<1>2. UNCHANGED <<heap, result, par, linked, tree>> /\ call.todo # << >>
  BY DEF FeedLexeme
<1>3. ASSUME Reads(lex.src), pc' = "fail", UNCHANGED <<lex, call>>
      PROVE  IInv'
  <2>1. stale' = FALSE
    BY <1>1, <1>3, SrcUsed DEF IInv, NeverStale, Reads
  <2>2. OneOwner'
    <3>1. \A x \in Owner : Owned(x)' = Owned(x)
      BY <1>2, <1>3, SameOwned
    <3> QED
      BY <1>2, <1>3, <3>1, Kept DEF IInv
  <2>3. TypeOK'
    BY <1>2, <1>3, <2>1 DEF IInv, TypeOK, heap
  <2>4. Absent' /\ Locals' /\ Linked'
    BY <1>1, <1>2, <1>3 DEF IInv, Absent, Locals, Linked, Reading, Scanning, SlotReserved
  <2> QED
    BY <2>1, <2>2, <2>3, <2>4 DEF IInv, NeverStale
<1>4. ASSUME Head(call.todo) # "bad", UNCHANGED <<pc, stale>>,
             lex' = [lex EXCEPT !.pend = Head(call.todo)],
             call' = [call EXCEPT !.todo = Tail(@)]
      PROVE  IInv'
  <2> DEFINE k == Head(call.todo)
             rest == Tail(call.todo)
  <2>1. k \in {"none", "word", "named"} /\ rest \in Seq(Lexeme)
    <3>1. call.todo \in Seq(Lexeme)
      BY DEF IInv, TypeOK, CallType
    <3>2. k \in Lexeme /\ rest \in Seq(Lexeme)
      BY <1>2, <3>1
    <3> QED
      BY <1>4, <3>2 DEF Lexeme
  <2>2. lex' = [lex EXCEPT !.pend = k] /\ call' = [call EXCEPT !.todo = rest]
    BY <1>4
  <2> HIDE DEF k, rest
  <2>3. lex' \in LexerType
    BY <2>1, <2>2 DEF IInv, TypeOK, LexerType
  <2>4. lex'.seq = lex.seq /\ lex'.own = lex.own /\ lex'.src = lex.src /\ (lex'.on <=> lex.on)
    BY <2>2 DEF IInv, TypeOK, LexerType
  <2>5. call' \in CallType
    BY <2>1, <2>2 DEF IInv, TypeOK, CallType
  <2>6. /\ call'.kind = call.kind /\ call'.slot = call.slot /\ call'.got = call.got
        /\ call'.res = call.res /\ call'.old = call.old
    BY <2>2 DEF IInv, TypeOK, CallType
  <2>7. \A x \in Owner : Owned(x)' = Owned(x)
    BY <1>2, <2>4, <2>6, Owners, OwnersNext DEF Owner
  <2>8. OneOwner'
    BY <1>1, <1>2, <1>4, <2>7, Kept DEF IInv
  <2>9. TypeOK'
    BY <1>2, <1>4, <2>3, <2>4, <2>5 DEF IInv, TypeOK, heap
  <2>10. Locals'
    BY <1>1, <1>2, <1>4, <2>4, <2>6 DEF IInv, Locals, Reading, Scanning, SlotReserved
  <2>11. Absent' /\ Linked'
    BY <1>1, <1>2, <2>4 DEF IInv, Absent, Linked
  <2> QED
    BY <1>4, <2>8, <2>9, <2>10, <2>11 DEF IInv, NeverStale
<1> QED
  BY <1>3, <1>4 DEF FeedLexeme

LEMMA FeedDoneStep ==
  ASSUME IInv, FeedDone
  PROVE  IInv'
<1> UNCHANGED lost
  BY DEF FeedDone
<1>1. pc = "feed" /\ Reading /\ call.res = << >> /\ lex.on
  BY DEF IInv, Locals, FeedDone, Reading
<1>2. UNCHANGED <<heap, stale, lex, result, par, linked, tree>>
  BY DEF FeedDone
<1>3. ASSUME Scanning, pc' = "finalize", UNCHANGED call
      PROVE  IInv'
  <2>1. \A x \in Owner : Owned(x)' = Owned(x)
    BY <1>2, <1>3, SameOwned
  <2>2. OneOwner'
    BY <1>2, <1>3, <2>1, Kept DEF IInv
  <2>3. TypeOK'
    BY <1>2, <1>3 DEF IInv, TypeOK, heap
  <2>4. Absent' /\ Locals' /\ Linked'
    BY <1>1, <1>2, <1>3 DEF IInv, Absent, Locals, Linked, Reading, Scanning, SlotReserved
  <2> QED
    BY <1>2, <2>2, <2>3, <2>4 DEF IInv, NeverStale
<1>4. ASSUME ~ Scanning, Returns
      PROVE  IInv'
  <2>1. /\ call' \in CallType /\ pc' = "idle" /\ call' = NoCall
        /\ call'.got = << >> /\ call'.res = << >> /\ call'.old = << >>
    BY <1>4, ReturnsTyped
  <2>2. call.old = << >> /\ call.got = << >>
    BY <1>1, <1>4 DEF Reading
  <2>3. \A x \in Owner : Owned(x)' = Owned(x)
    BY <1>1, <1>2, <2>1, <2>2, SameOwned
  <2>4. OneOwner'
    BY <1>2, <1>4, <2>3, Kept, CallHolds DEF IInv
  <2>5. TypeOK'
    BY <1>2, <2>1 DEF IInv, TypeOK, heap
  <2>6. Absent' /\ Locals' /\ Linked'
    BY <1>2, <2>1 DEF IInv, Absent, Locals, Linked, NoCall, NewCall
  <2> QED
    BY <1>2, <2>4, <2>5, <2>6 DEF IInv, NeverStale
<1> QED
  BY <1>3, <1>4 DEF FeedDone

(* The lexer gets another sequence, the rest of it stays. *)
LEMMA LexerTakes ==
  ASSUME IInv, NEW seq \in Seq(Block), IsInjective(seq),
         Range(seq) \intersect Range(lex.own) = {}, Range(seq) \intersect Range(Name) = {},
         lex'.own = lex.own, lex'.seq = seq, Name' = Name
  PROVE  /\ Range(Owned("lexer")') = Range(lex.own) \union Range(seq) \union Range(Name)
         /\ IsInjective(Owned("lexer")')
<1>1. Owned("lexer")' = lex.own \o seq \o Name
  BY OwnersNext DEF Name
<1>2. Range(lex.own \o seq \o Name) = Range(lex.own) \union Range(seq) \union Range(Name)
  BY LexerHolds, Three
<1>3. IsInjective(lex.own \o seq \o Name)
  BY LexerHolds, Three
<1> QED
  BY <1>1, <1>2, <1>3

LEMMA FinalizeStep ==
  ASSUME IInv, Finalize
  PROVE  IInv'
<1> UNCHANGED lost
  BY DEF Finalize
<1>1. /\ pc = "finalize" /\ Reading /\ call.res = << >> /\ lex.on /\ call.kind # "feed"
      /\ lex.seq \in Seq(Block) /\ call.got \in Seq(Block)
  BY Typed DEF IInv, Locals, Finalize, Reading
<1>2. UNCHANGED <<stale, par, linked, tree>>
  BY DEF Finalize
<1>3. call.slot \in Slot /\ result[call.slot] = NoResult
  BY <1>1 DEF Reading, SlotReserved
<1>4. ASSUME NEW b \in Block, Malloc(b), lex' = [lex EXCEPT !.seq = <<b>>]
      PROVE  /\ lex' \in LexerType /\ (lex'.on <=> lex.on)
             /\ lex'.own = lex.own /\ lex'.src = lex.src /\ Len(lex'.seq) = 1
             /\ Name' = Name => /\ IsInjective(Owned("lexer")')
                                /\ Range(Owned("lexer")') = Range(lex.own) \union {b} \union Range(Name)
  <2> DEFINE seq == <<b>>
  <2>1. seq \in Seq(Block) /\ Range(seq) = {b} /\ IsInjective(seq) /\ Len(seq) = 1
    BY OneBlock
  <2>2. lex' = [lex EXCEPT !.seq = seq]
    BY <1>4
  <2> HIDE DEF seq
  <2>3. lex' \in LexerType
    BY <2>1, <2>2 DEF IInv, TypeOK, LexerType
  <2>4. lex'.own = lex.own /\ lex'.src = lex.src /\ (lex'.on <=> lex.on) /\ lex'.seq = seq
    BY <2>2 DEF IInv, TypeOK, LexerType
  <2>5. b \notin Range(lex.own) /\ b \notin Range(Name)
    BY <1>4, Mallocs, LexerHolds
  <2>6. Name' = Name => /\ IsInjective(Owned("lexer")')
                        /\ Range(Owned("lexer")') = Range(lex.own) \union Range(seq) \union Range(Name)
    BY <2>1, <2>4, <2>5, LexerTakes
  <2> QED
    BY <2>1, <2>3, <2>4, <2>6
<1>5. ASSUME NEW b \in Block, Malloc(b), lex' = [lex EXCEPT !.seq = <<b>>], Scanning,
             call' = [call EXCEPT !.res = lex.seq], pc' = "wrap", UNCHANGED result
      PROVE  IInv'
  <2>1. call' \in CallType
    BY <1>1, <1>5 DEF IInv, TypeOK, CallType
  <2>2. /\ call'.kind = call.kind /\ call'.slot = call.slot /\ call'.got = call.got
        /\ call'.res = lex.seq /\ call'.old = call.old
    BY <1>5 DEF IInv, TypeOK, CallType
  <2>3. /\ lex' \in LexerType /\ (lex'.on <=> lex.on)
        /\ lex'.own = lex.own /\ lex'.src = lex.src /\ Len(lex'.seq) = 1
    BY <1>4, <1>5
  <2>4. /\ IsInjective(Owned("lexer")')
        /\ Range(Owned("lexer")') = Range(lex.own) \union {b} \union Range(Name)
    <3>1. Name' = Name
      BY <2>2, <2>3 DEF Name
    <3> QED
      BY <3>1, <1>4, <1>5
  <2>5. Owned("call") = call.got /\ Owned("call")' = call.got \o lex.seq
    BY <1>1, <2>2, CallHolds, OwnersNext DEF IInv
  <2>6. /\ "lexer" \in Owner /\ "call" \in Owner /\ IsInjective(call.got)
        /\ Range(call.got) \subseteq used
        /\ Range(Owned("lexer")) \intersect Range(call.got) = {}
    BY <2>5 DEF IInv, OneOwner, Owner
  <2>7. Range(Owned("call")') = Range(call.got) \union Range(lex.seq) /\ IsInjective(Owned("call")')
    <3>1. Range(call.got) \intersect Range(lex.seq) = {} /\ IsInjective(lex.seq)
      BY <2>6, LexerHolds
    <3> QED
      <4>1. Range(call.got \o lex.seq) = Range(call.got) \union Range(lex.seq)
        BY <1>1, Concatenated
      <4>2. IsInjective(call.got \o lex.seq)
        BY <1>1, <2>6, <3>1, Concatenated
      <4> QED
        BY <2>5, <4>1, <4>2
  <2>8. \A x \in Owner : x # "lexer" /\ x # "call" => Owned(x)' = Owned(x)
    BY <1>2, <1>5, Owners, OwnersNext DEF Owner
  <2>9. OneOwner'
    <3> DEFINE A == {b}
    <3>1. A \intersect used = {} /\ used' = (used \ {}) \union A /\ ~ misfreed'
      BY <1>5, Mallocs DEF IInv, OneOwner
    <3>2. Range(Owned("lexer")') \union Range(Owned("call")')
            = ((Range(Owned("lexer")) \union Range(Owned("call"))) \ {}) \union A
      BY <2>4, <2>5, <2>7, LexerHolds
    <3>3. Range(Owned("lexer")') \intersect Range(Owned("call")') = {}
      BY <2>4, <2>6, <2>7, <3>1, LexerHolds
    <3> HIDE DEF A
    <3> QED
      BY <1>5, <2>4, <2>6, <2>7, <2>8, <3>1, <3>2, <3>3, Redistributed DEF IInv
  <2>10. TypeOK'
    BY <1>2, <1>5, <2>1, <2>3, Mallocs DEF IInv, TypeOK
  <2>11. Locals'
    BY <1>1, <1>2, <1>5, <2>2, <2>3 DEF IInv, Locals, Reading, Scanning, SlotReserved
  <2>12. Absent' /\ Linked'
    BY <1>1, <1>2, <1>5, <2>3 DEF IInv, Absent, Linked
  <2> QED
    BY <1>2, <2>9, <2>10, <2>11, <2>12 DEF IInv, NeverStale
<1>6. ASSUME NEW b \in Block, Malloc(b), lex' = [lex EXCEPT !.seq = <<b>>], ~ Scanning,
             result' = [result EXCEPT ![call.slot] = [kind |-> "TokSeq", own |-> lex.seq]], Returns
      PROVE  IInv'
  <2> DEFINE new == [kind |-> "TokSeq", own |-> lex.seq]
  <2>0. PICK s \in Slot : s = call.slot
    BY <1>3
  <2>1. /\ call' \in CallType /\ pc' = "idle" /\ call' = NoCall
        /\ call'.got = << >> /\ call'.res = << >> /\ call'.old = << >>
    BY <1>6, ReturnsTyped
  <2>2. call.old = << >> /\ call.got = << >>
    BY <1>1, <1>6 DEF Reading
  <2>3. /\ lex' \in LexerType /\ (lex'.on <=> lex.on)
        /\ lex'.own = lex.own /\ lex'.src = lex.src /\ Len(lex'.seq) = 1
    BY <1>4, <1>6
  <2>4. /\ IsInjective(Owned("lexer")')
        /\ Range(Owned("lexer")') = Range(lex.own) \union {b} \union Range(Name)
    <3>1. Name' = Name
      BY <2>1, <2>2, <2>3 DEF Name
    <3> QED
      BY <3>1, <1>4, <1>6
  <2>5. result' = [result EXCEPT ![s] = new] /\ result[s] = NoResult
    BY <1>3, <1>6, <2>0
  <2>6. new \in ResultType /\ new.own = lex.seq
    BY <1>1 DEF ResultType
  <2> HIDE DEF new
  <2>7. result' \in [Slot -> ResultType] /\ result'[s] = new /\ \A t \in Slot : t # s => result'[t] = result[t]
    BY <2>5, <2>6 DEF IInv, TypeOK
  <2>8. Owned(s) = << >> /\ Owned(s)' = lex.seq /\ s \in Owner /\ s # "lexer" /\ "lexer" \in Owner
    <3>1. s \in Owner /\ s # "lexer" /\ "lexer" \in Owner
      BY <2>5, PipelineAssumption DEF Owner
    <3>2. Owned(s) = << >>
      BY <2>5, Owners DEF NoResult
    <3>3. Owned(s)' = result'[s].own
      BY <2>5, OwnersNext
    <3> QED
      BY <2>6, <2>7, <3>1, <3>2, <3>3
  <2>9. \A x \in Owner : x # "lexer" /\ x # s => Owned(x)' = Owned(x)
    <3>1. Owned("call")' = Owned("call")
      BY <1>1, <2>1, <2>2, CallHolds DEF IInv
    <3> QED
      BY <1>2, <2>7, <3>1, Owners, OwnersNext DEF Owner
  <2>10. OneOwner'
    <3> DEFINE A == {b}
    <3>1. A \intersect used = {} /\ used' = (used \ {}) \union A /\ ~ misfreed'
      BY <1>6, Mallocs DEF IInv, OneOwner
    <3>2. Range(Owned("lexer")') \union Range(Owned(s)')
            = ((Range(Owned("lexer")) \union Range(Owned(s))) \ {}) \union A
      BY <2>4, <2>8, LexerHolds, EmptyBlocks
    <3>3. Range(Owned("lexer")') \intersect Range(Owned(s)') = {} /\ IsInjective(Owned(s)')
      BY <2>4, <2>8, <3>1, LexerHolds
    <3>4. Owned("call")' = << >>
      BY <1>6, CallHolds
    <3> HIDE DEF A
    <3> QED
      <4>1. OneOwner /\ s \in Owner /\ "lexer" \in Owner
        BY <2>8 DEF IInv
      <4>2. IsInjective(Owned("lexer")')
        BY <2>4
      <4> QED
        BY <2>9, <3>1, <3>2, <3>3, <3>4, <4>1, <4>2, Redistributed
  <2>11. TypeOK'
    BY <1>2, <1>6, <2>1, <2>3, <2>7, Mallocs DEF IInv, TypeOK
  <2>12. Locals'
    BY <2>1 DEF Locals
  <2>13. Linked'
    BY <1>2, <2>5, <2>7 DEF IInv, Linked, NoResult
  <2>14. Absent'
    BY <1>1, <1>2, <2>3 DEF IInv, Absent
  <2> QED
    BY <1>2, <2>10, <2>11, <2>12, <2>13, <2>14 DEF IInv, NeverStale
<1>7. ASSUME pc' = "fail", UNCHANGED <<heap, lex, result, call>>
      PROVE  IInv'
  <2>1. \A x \in Owner : Owned(x)' = Owned(x)
    BY <1>2, <1>7, SameOwned
  <2>2. OneOwner'
    BY <1>7, <2>1, Kept DEF IInv
  <2>3. TypeOK'
    BY <1>2, <1>7 DEF IInv, TypeOK, heap
  <2>4. Absent' /\ Locals' /\ Linked'
    BY <1>1, <1>2, <1>7 DEF IInv, Absent, Locals, Linked, Reading, Scanning, SlotReserved
  <2> QED
    BY <1>2, <2>2, <2>3, <2>4 DEF IInv, NeverStale
<1> QED
  BY <1>5, <1>6, <1>7 DEF Finalize

LEMMA WrapStep ==
  ASSUME IInv, Wrap
  PROVE  IInv'
<1> UNCHANGED lost
  BY DEF Wrap
<1>1. /\ pc = "wrap" /\ Reading /\ Scanning /\ lex.on
      /\ call.got \in Seq(Block) /\ call.res \in Seq(Block) /\ call.old \in Seq(Block)
      /\ lex.src \in Seq(Block)
  BY Typed DEF IInv, Locals, Wrap, Reading
<1>2. UNCHANGED <<stale, par, linked, tree>>
  BY DEF Wrap
<1>3. /\ Len(call.old) = 1 /\ call.old # << >> /\ call.got # << >>
      /\ lex.src = <<call.got[Len(call.got)]>>
      /\ call.slot \in Slot /\ result[call.slot] = NoResult
  <2>1. Len(call.old) = 1 /\ call.got # << >> /\ lex.src = <<call.got[Len(call.got)]>>
    BY <1>1 DEF Reading
  <2>2. call.slot \in Slot /\ result[call.slot] = NoResult
    BY <1>1 DEF Reading, SlotReserved, Scanning
  <2>3. call.old # << >>
    BY <2>1, EmptyBlocks
  <2> QED
    BY <2>1, <2>2, <2>3
<1>4. /\ Owned("call") = call.got \o call.res /\ "call" \in Owner
      /\ Range(Owned("call")) = Range(call.got) \union Range(call.res)
      /\ Range(Owned("call")) \subseteq used
      /\ IsInjective(call.got) /\ IsInjective(call.res)
      /\ Range(call.got) \intersect Range(call.res) = {}
  <2>1. Owned("call") = call.got \o call.res /\ "call" \in Owner
    BY Owners DEF Owner
  <2>2. IsInjective(Owned("call")) /\ Range(Owned("call")) \subseteq used
    BY <2>1 DEF IInv, OneOwner
  <2>3. Range(call.got \o call.res) = Range(call.got) \union Range(call.res)
    BY <1>1, Concatenated
  <2>4. /\ IsInjective(call.got) /\ IsInjective(call.res)
        /\ Range(call.got) \intersect Range(call.res) = {}
    <3>1. IsInjective(call.got \o call.res)
      BY <2>1, <2>2
    <3> QED
      BY <1>1, <3>1, Concatenated
  <2> QED
    BY <2>1, <2>2, <2>3, <2>4
<1>5. ASSUME NEW b \in Block, Malloc(b),
             result' = [result EXCEPT ![call.slot] =
                          [kind |-> "LexOut", own |-> <<b>> \o lex.src \o call.res]],
             lex' = [lex EXCEPT !.src = call.old],
             call' = [call EXCEPT !.got = SubSeq(@, 1, Len(@) - 1), !.res = << >>, !.old = << >>],
             pc' = "close"
      PROVE  IInv'
  <2> DEFINE one == <<b>>
             out == one \o lex.src \o call.res
             front == SubSeq(call.got, 1, Len(call.got) - 1)
             new == [kind |-> "LexOut", own |-> out]
  <2>0. PICK s \in Slot : s = call.slot
    BY <1>3
  <2>1. one \in Seq(Block) /\ Range(one) = {b} /\ IsInjective(one)
    BY OneBlock
  <2>2. /\ front \in Seq(Block) /\ call.got[Len(call.got)] \in Block
        /\ Range(call.got) = Range(front) \union {call.got[Len(call.got)]}
        /\ IsInjective(front) /\ call.got[Len(call.got)] \notin Range(front)
    BY <1>1, <1>3, <1>4, WithoutLast
  <2>3. Range(lex.src) = {call.got[Len(call.got)]} /\ IsInjective(lex.src)
    BY <1>3, <2>2, OneBlock
  <2>4. /\ result' = [result EXCEPT ![s] = new] /\ result[s] = NoResult
        /\ call' = [call EXCEPT !.got = front, !.res = << >>, !.old = << >>]
    BY <1>3, <1>5, <2>0
  <2>5. b \notin used /\ used' = used \union {b} /\ ~ misfreed'
    BY <1>5, Mallocs DEF IInv, OneOwner
  <2> HIDE DEF one, front
  <2>6. /\ out \in Seq(Block) /\ IsInjective(out)
        /\ Range(out) = {b} \union Range(lex.src) \union Range(call.res)
    <3>1. out \in Seq(Block) /\ Range(out) = Range(one) \union Range(lex.src) \union Range(call.res)
      BY <1>1, <2>1, Three
    <3>2. /\ Range(one) \intersect Range(lex.src) = {} /\ Range(one) \intersect Range(call.res) = {}
          /\ Range(lex.src) \intersect Range(call.res) = {}
      BY <1>4, <2>1, <2>2, <2>3, <2>5
    <3>3. IsInjective(out)
      BY <1>1, <1>4, <2>1, <2>3, <3>2, Three
    <3> QED
      BY <2>1, <3>1, <3>3
  <2> HIDE DEF out
  <2>7. new \in ResultType /\ new.own = out
    BY <2>6 DEF ResultType
  <2> HIDE DEF new
  <2>8. result' \in [Slot -> ResultType] /\ result'[s] = new /\ \A t \in Slot : t # s => result'[t] = result[t]
    BY <2>4, <2>7 DEF IInv, TypeOK
  <2>9. lex' \in LexerType
    BY <1>1, <1>5 DEF IInv, TypeOK, LexerType
  <2>10. lex'.own = lex.own /\ lex'.seq = lex.seq /\ (lex'.on <=> lex.on) /\ lex'.src = call.old
    BY <1>5 DEF IInv, TypeOK, LexerType
  <2>11. call' \in CallType
    BY <2>2, <2>4, EmptyBlocks DEF IInv, TypeOK, CallType
  <2>12. call'.got = front /\ call'.res = << >> /\ call'.old = << >>
    BY <2>4 DEF IInv, TypeOK, CallType
  <2>13. Owned("lexer")' = Owned("lexer")
    BY <1>3, <2>10, <2>12, Owners, OwnersNext
  <2>14. Owned(s) = << >> /\ Owned(s)' = out /\ s \in Owner /\ s # "call"
    <3>1. s \in Owner /\ s # "call"
      BY PipelineAssumption DEF Owner
    <3>2. Owned(s) = << >>
      BY <2>4, Owners DEF NoResult
    <3>3. Owned(s)' = result'[s].own
      BY OwnersNext
    <3> QED
      BY <2>7, <2>8, <3>1, <3>2, <3>3
  <2>15. Owned("call")' = front
    BY <2>2, <2>12, CallHolds
  <2>16. \A x \in Owner : x # "call" /\ x # s => Owned(x)' = Owned(x)
    BY <1>2, <2>8, <2>13, Owners, OwnersNext DEF Owner
  <2>17. OneOwner'
    <3> DEFINE A == {b}
    <3>1. A \intersect used = {} /\ used' = (used \ {}) \union A
      BY <2>5
    <3>2. Range(Owned("call")') \union Range(Owned(s)')
            = ((Range(Owned("call")) \union Range(Owned(s))) \ {}) \union A
      BY <1>4, <2>2, <2>3, <2>6, <2>14, <2>15, EmptyBlocks
    <3>3. Range(Owned("call")') \intersect Range(Owned(s)') = {}
      BY <1>4, <2>2, <2>3, <2>5, <2>6, <2>14, <2>15
    <3>4. OneOwner /\ IsInjective(Owned("call")') /\ IsInjective(Owned(s)')
      BY <2>2, <2>6, <2>14, <2>15 DEF IInv
    <3> HIDE DEF A
    <3> QED
      BY <1>4, <1>5, <2>5, <2>14, <2>16, <3>1, <3>2, <3>3, <3>4, Redistributed
  <2>18. TypeOK'
    <3>1. Len(lex'.own) = 3 /\ Len(lex'.seq) >= 1 /\ Len(lex'.src) = 1
      BY <1>1, <1>3, <2>10 DEF IInv, TypeOK
    <3> QED
      BY <1>2, <1>5, <2>8, <2>9, <2>11, <3>1, Mallocs DEF IInv, TypeOK
  <2>19. Locals'
    BY <1>5, <2>12 DEF Locals
  <2>20. Linked'
    BY <1>2, <2>4, <2>8 DEF IInv, Linked, NoResult
  <2>21. Absent'
    BY <1>1, <1>2, <2>10 DEF IInv, Absent
  <2> QED
    BY <1>2, <2>17, <2>18, <2>19, <2>20, <2>21 DEF IInv, NeverStale
<1>6. ASSUME Free(call.res), call' = [call EXCEPT !.res = << >>], pc' = "fail",
             UNCHANGED <<lex, result>>
      PROVE  IInv'
  <2>1. call' \in CallType
    BY <1>6, EmptyBlocks DEF IInv, TypeOK, CallType
  <2>2. /\ call'.kind = call.kind /\ call'.slot = call.slot /\ call'.got = call.got
        /\ call'.res = << >> /\ call'.old = call.old
    BY <1>6 DEF IInv, TypeOK, CallType
  <2>3. Owned("call")' = call.got
    BY <1>1, <2>2, CallHolds
  <2>4. \A x \in Owner : x # "call" => Owned(x)' = Owned(x)
    BY <1>2, <1>6, <2>2, Owners, OwnersNext DEF Owner
  <2>5. OneOwner'
    <3>1. /\ Range(call.res) \subseteq Range(Owned("call"))
          /\ Range(Owned("call")') = Range(Owned("call")) \ Range(call.res)
          /\ IsInjective(Owned("call")')
      BY <1>4, <2>3
    <3> QED
      BY <1>4, <1>6, <2>4, <3>1, Released DEF IInv
  <2>6. TypeOK'
    BY <1>2, <1>6, <2>1 DEF IInv, TypeOK, Free, FreeAllBut
  <2>7. Locals'
    BY <1>1, <1>2, <1>6, <2>2 DEF IInv, Locals, Reading, Scanning, SlotReserved
  <2>8. Absent' /\ Linked'
    BY <1>2, <1>6 DEF IInv, Absent, Linked
  <2> QED
    BY <1>2, <2>5, <2>6, <2>7, <2>8 DEF IInv, NeverStale
<1> QED
  BY <1>5, <1>6 DEF Wrap

LEMMA CloseStep ==
  ASSUME IInv, Close
  PROVE  IInv'
<1> UNCHANGED lost
  BY DEF Close
<1>1. pc = "close" /\ call.res = << >> /\ call.old = << >>
  BY DEF IInv, Locals, Close
<1>2. Free(call.got) /\ Returns /\ UNCHANGED <<stale, lex, result, par, linked, tree>>
  BY DEF Close
<1>3. call' \in CallType /\ pc' = "idle" /\ call' = NoCall /\ call'.old = << >>
  BY <1>2, ReturnsTyped
<1>4. \A x \in Owner : x # "call" => Owned(x)' = Owned(x)
  BY <1>1, <1>2, <1>3, Owners, OwnersNext DEF Owner
<1>5. OneOwner'
  BY <1>1, <1>2, <1>4, GivesUp
<1>6. TypeOK'
  BY <1>2, <1>3 DEF IInv, TypeOK, Free, FreeAllBut
<1>7. Absent' /\ Locals' /\ Linked'
  BY <1>2, <1>3 DEF IInv, Absent, Locals, Linked, NoCall, NewCall
<1> QED
  BY <1>2, <1>5, <1>6, <1>7 DEF IInv, NeverStale

LEMMA FailStep ==
  ASSUME IInv, Fail
  PROVE  IInv'
<1> UNCHANGED lost
  BY DEF Fail
<1>1. pc = "fail" /\ Reading /\ lex.on /\ call.res = << >> /\ call.old \in Seq(Block)
  BY Typed DEF IInv, Locals, Fail, Reading
<1>2. Free(call.got) /\ Returns /\ UNCHANGED <<stale, result, par, linked, tree>>
  BY DEF Fail
<1>3. call' \in CallType /\ pc' = "idle" /\ call' = NoCall /\ call'.old = << >>
  BY <1>2, ReturnsTyped
<1>4. /\ lex' \in LexerType /\ (lex'.on <=> lex.on) /\ lex'.own = lex.own /\ lex'.seq = lex.seq
      /\ lex'.src = Name /\ Len(Name) = 1
  <2>1. CASE Scanning
    <3>1. lex' = [lex EXCEPT !.src = call.old] /\ Len(call.old) = 1 /\ Name = call.old
      BY <1>1, <2>1, EmptyBlocks DEF Fail, Reading, Name
    <3>2. lex' \in LexerType
      BY <1>1, <3>1 DEF IInv, TypeOK, LexerType
    <3>3. lex'.own = lex.own /\ lex'.seq = lex.seq /\ (lex'.on <=> lex.on) /\ lex'.src = call.old
      BY <3>1 DEF IInv, TypeOK, LexerType
    <3> QED
      BY <3>1, <3>2, <3>3
  <2>2. CASE ~ Scanning
    <3>1. lex' = lex /\ Name = lex.src
      BY <1>1, <2>2 DEF Fail, Reading, Name
    <3> QED
      BY <1>1, <3>1 DEF IInv, TypeOK
  <2> QED
    BY <2>1, <2>2
<1>5. Owned("lexer")' = Owned("lexer")
  BY <1>3, <1>4, Owners, OwnersNext DEF Name
<1>6. \A x \in Owner : x # "call" => Owned(x)' = Owned(x)
  BY <1>2, <1>5, Owners, OwnersNext DEF Owner
<1>7. OneOwner'
  BY <1>1, <1>2, <1>6, GivesUp
<1>8. TypeOK'
  <2>1. Len(lex'.own) = 3 /\ Len(lex'.seq) >= 1 /\ Len(lex'.src) = 1
    BY <1>1, <1>4 DEF IInv, TypeOK
  <2> QED
    BY <1>2, <1>3, <1>4, <2>1 DEF IInv, TypeOK, Free, FreeAllBut
<1>9. Absent' /\ Locals' /\ Linked'
  BY <1>1, <1>2, <1>3, <1>4 DEF IInv, Absent, Locals, Linked, NoCall, NewCall
<1> QED
  BY <1>2, <1>7, <1>8, <1>9 DEF IInv, NeverStale

LEMMA ParseAllocatesStep ==
  ASSUME IInv, ParseAllocates
  PROVE  IInv'
<1> UNCHANGED lost
  BY DEF ParseAllocates
<1>1. /\ pc = "parse" /\ call.old = << >> /\ call.res = << >> /\ tree = << >>
      /\ call.got \in Seq(Block)
  BY Typed DEF IInv, Locals, ParseAllocates
<1>2. UNCHANGED <<stale, lex, result, par, linked, tree, pc>>
  BY DEF ParseAllocates
<1>3. PICK b \in Block : Malloc(b) /\ call' = [call EXCEPT !.got = Append(call.got, b)]
  BY DEF ParseAllocates
<1>4. Owned("call") = call.got /\ "call" \in Owner
  BY <1>1, CallHolds DEF IInv, Owner
<1> DEFINE got == Append(call.got, b)
<1>5. got \in Seq(Block) /\ Range(got) = Range(call.got) \union {b} /\ IsInjective(got)
  <2>1. IsInjective(call.got) /\ b \notin Range(call.got)
    BY <1>3, <1>4, Mallocs DEF IInv, OneOwner
  <2> QED
    BY <1>1, <2>1, Appended
<1>6. call' = [call EXCEPT !.got = got]
  BY <1>3
<1> HIDE DEF got
<1>7. /\ call'.got = got /\ call'.kind = call.kind /\ call'.old = call.old /\ call'.res = call.res
      /\ call'.slot = call.slot /\ call' \in CallType
  BY <1>5, <1>6 DEF IInv, TypeOK, CallType
<1>8. Owned("call")' = got
  BY <1>1, <1>5, <1>7, CallHolds
<1>9. \A x \in Owner : x # "call" => Owned(x)' = Owned(x)
  BY <1>2, <1>7, Owners, OwnersNext DEF Owner
<1>10. OneOwner'
  BY <1>1, <1>2, <1>3, <1>4, <1>5, <1>8, <1>9, Granted DEF IInv
<1>11. TypeOK'
  BY <1>2, <1>3, <1>7, Mallocs DEF IInv, TypeOK
<1>12. Absent' /\ Locals' /\ Linked'
  BY <1>1, <1>2, <1>7 DEF IInv, Absent, Locals, Linked
<1> QED
  BY <1>2, <1>10, <1>11, <1>12 DEF IInv, NeverStale

LEMMA ParseSucceedsStep ==
  ASSUME IInv, ParseSucceeds
  PROVE  IInv'
<1> UNCHANGED lost
  BY DEF ParseSucceeds
<1>1. /\ pc = "parse" /\ call.old = << >> /\ call.res = << >> /\ tree = << >>
      /\ call.got \in Seq(Block)
  BY Typed DEF IInv, Locals, ParseSucceeds
<1>2. tree' = call.got /\ UNCHANGED <<heap, stale, lex, result, par, linked>>
  BY DEF ParseSucceeds
<1>3. /\ call' \in CallType /\ pc' = "idle" /\ call' = NoCall
      /\ call'.got = << >> /\ call'.res = << >> /\ call'.old = << >>
  BY ReturnsTyped DEF ParseSucceeds
<1>4. /\ Owned("call") = call.got /\ Owned("tree") = << >>
      /\ Owned("tree")' = call.got /\ Owned("call")' = << >>
      /\ "call" \in Owner /\ "tree" \in Owner
  BY <1>1, <1>2, <1>3, Owners, OwnersNext, CallHolds, EmptyBlocks DEF IInv, Owner
<1>5. \A x \in Owner : x # "call" /\ x # "tree" => Owned(x)' = Owned(x)
  BY <1>1, <1>2, <1>3, Owners, OwnersNext DEF Owner
<1>6. OneOwner'
  <2> DEFINE A == {}
  <2>1. A \intersect used = {} /\ used' = (used \ A) \union A /\ ~ misfreed'
    BY <1>2 DEF IInv, OneOwner, heap
  <2>2. Range(Owned("call")') \union Range(Owned("tree")')
          = ((Range(Owned("call")) \union Range(Owned("tree"))) \ A) \union A
    BY <1>4, EmptyBlocks
  <2>3. Range(Owned("call")') \intersect Range(Owned("tree")') = {}
    BY <1>4, EmptyBlocks
  <2>4. OneOwner /\ IsInjective(Owned("call")') /\ IsInjective(Owned("tree")')
    BY <1>4, EmptyBlocks DEF IInv, OneOwner
  <2>5. A \subseteq Range(Owned("call")) \union Range(Owned("tree"))
    OBVIOUS
  <2> HIDE DEF A
  <2> QED
    BY <1>4, <1>5, <2>1, <2>2, <2>3, <2>4, <2>5, Redistributed
<1>7. TypeOK'
  BY <1>1, <1>2, <1>3 DEF IInv, TypeOK, heap
<1>8. Absent' /\ Locals' /\ Linked'
  BY <1>2, <1>3 DEF IInv, Absent, Locals, Linked, NoCall, NewCall
<1> QED
  BY <1>2, <1>6, <1>7, <1>8 DEF IInv, NeverStale

(* What a failed parse leaves behind is lost: it was the call's.           *)
LEMMA ParseFailsStep ==
  ASSUME IInv, ParseFails
  PROVE  IInv'
<1>1. /\ pc = "parse" /\ call.old = << >> /\ call.res = << >> /\ tree = << >>
      /\ call.got \in Seq(Block)
  BY Typed DEF IInv, Locals, ParseFails
<1>2. UNCHANGED <<stale, lex, result, par, linked, tree>>
  BY DEF ParseFails
<1>3. PICK left \in SUBSET {call.got[i] : i \in 2 .. Len(call.got)} :
        FreeAllBut(call.got, left) /\ lost' = lost \union left
  BY DEF ParseFails
<1>4. left \subseteq Range(call.got)
  BY <1>1, <1>3 DEF Range
<1>5. call' \in CallType /\ pc' = "idle" /\ call' = NoCall /\ call'.old = << >>
  BY ReturnsTyped DEF ParseFails
<1>6. Owned("call") = call.got /\ Owned("call")' = << >> /\ "call" \in Owner
  BY <1>1, CallHolds DEF IInv, Owner, ParseFails
<1>7. \A x \in Owner : x # "call" => Owned(x)' = Owned(x)
  BY <1>1, <1>2, <1>5, Owners, OwnersNext DEF Owner
<1> DEFINE F == Range(call.got)
           A == {}
<1>8. IsInjective(call.got) /\ F \subseteq used /\ F \intersect lost = {} /\ lost \subseteq used
  BY <1>6 DEF IInv, OneOwner
<1>9. /\ used' = used \ (F \ left) /\ ~ misfreed' /\ left \subseteq F
      /\ lost' = lost \union left
  BY <1>3, <1>4, <1>8 DEF FreeAllBut, IInv, OneOwner
<1>10. /\ Range(Owned("call")) = F /\ Range(Owned("call")') = {}
       /\ IsInjective(Owned("call")')
  BY <1>6, EmptyBlocks
<1>11. F \subseteq Block
  BY <1>1 DEF Range
<1> HIDE DEF F
<1>12. Live' = (Live \ F) \union A /\ lost' \subseteq used' /\ A \intersect Live = {}
  BY <1>8, <1>9 DEF Live
<1>13. Range(Owned("call")') \union Range(Owned("call")')
         = ((Range(Owned("call")) \union Range(Owned("call"))) \ F) \union A
  BY <1>10
<1> HIDE DEF A
<1>14. OneOwner'
  BY <1>6, <1>7, <1>9, <1>10, <1>12, <1>13, Moved DEF IInv
<1>15. TypeOK'
  <2>1. used' \subseteq Block /\ lost' \subseteq Block /\ misfreed' \in BOOLEAN
    BY <1>3, <1>9, <1>11 DEF IInv, TypeOK, FreeAllBut
  <2> QED
    BY <1>2, <1>5, <2>1 DEF IInv, TypeOK
<1>16. Absent' /\ Locals' /\ Linked'
  BY <1>2, <1>5 DEF IInv, Absent, Locals, Linked, NoCall, NewCall
<1> QED
  BY <1>2, <1>14, <1>15, <1>16 DEF IInv, NeverStale

(* Nothing is in a call's hands when none is in progress. *)
LEMMA Idle ==
  ASSUME IInv, pc = "idle"
  PROVE  call = NoCall /\ call.got = << >> /\ call.res = << >> /\ call.old = << >> /\ Name = lex.src
<1>1. call = NewCall("none", NoSlot, << >>)
  BY DEF IInv, Locals, NoCall
<1> QED
  BY <1>1 DEF NewCall, NoCall, Name

LEMMA IdleLocals ==
  ASSUME IInv, pc = "idle", UNCHANGED <<pc, call>>
  PROVE  Locals'
BY Idle DEF Locals

(* What is idle and frees all that an owner has. *)
LEMMA GivesBack ==
  ASSUME IInv, pc = "idle", UNCHANGED <<lost, pc, call>>, NEW w \in Owner, NEW s, Free(s),
         IsInjective(s), Range(s) = Range(Owned(w)), Owned(w)' = << >>,
         \A x \in Owner : x # w => Owned(x)' = Owned(x)
  PROVE  OneOwner'
<1>1. Owned("call")' = << >>
  BY Idle, EmptyBlocks, CallHolds
<1>2. Range(Owned(w)') = Range(Owned(w)) \ Range(s) /\ IsInjective(Owned(w)')
  BY EmptyBlocks
<1>3. Range(s) \subseteq Range(Owned(w))
  OBVIOUS
<1> QED
  BY <1>1, <1>2, <1>3, Released DEF IInv

LEMMA LexerResetStep ==
  ASSUME IInv, LexerReset
  PROVE  IInv'
<1> UNCHANGED lost
  BY DEF LexerReset
<1>1. pc = "idle" /\ lex.on /\ UNCHANGED <<result, par, linked, tree, pc, call>>
  BY DEF LexerReset
<1>2. lex.seq \in Seq(Block) /\ lex.seq # << >>
  <2>1. Len(lex.seq) >= 1
    BY <1>1 DEF IInv, TypeOK
  <2> QED
    BY <2>1, EmptyBlocks, Typed DEF IInv
<1> DEFINE seq == <<Head(lex.seq)>>
           rest == Tail(lex.seq)
<1>3. Free(rest) /\ lex' = [lex EXCEPT !.seq = seq, !.pend = "none"]
  BY DEF LexerReset, Strs
<1>4. /\ Head(lex.seq) \in Block /\ rest \in Seq(Block)
      /\ Range(lex.seq) = {Head(lex.seq)} \union Range(rest)
      /\ IsInjective(lex.seq) => IsInjective(rest) /\ Head(lex.seq) \notin Range(rest)
  BY <1>2, WithoutFirst
<1>5. seq \in Seq(Block) /\ Range(seq) = {Head(lex.seq)} /\ IsInjective(seq) /\ Len(seq) = 1
  BY <1>4, OneBlock
<1> HIDE DEF seq, rest
<1>6. lex' \in LexerType
  BY <1>3, <1>5 DEF IInv, TypeOK, LexerType
<1>7. lex'.own = lex.own /\ lex'.seq = seq /\ lex'.src = lex.src /\ (lex'.on <=> lex.on)
  BY <1>3 DEF IInv, TypeOK, LexerType
<1>8. stale' = FALSE
  BY <1>1, SrcUsed DEF IInv, NeverStale, Reads, LexerReset
<1>9. /\ IsInjective(Owned("lexer")')
      /\ Range(Owned("lexer")') = Range(lex.own) \union Range(seq) \union Range(Name)
  <2>1. Name' = Name
    BY <1>1, <1>7 DEF Name
  <2>2. Range(seq) \intersect Range(lex.own) = {} /\ Range(seq) \intersect Range(Name) = {}
    BY <1>4, <1>5, LexerHolds
  <2> QED
    BY <1>5, <1>7, <2>1, <2>2, LexerTakes
<1>10. \A x \in Owner : x # "lexer" => Owned(x)' = Owned(x)
  BY <1>1, Owners, OwnersNext DEF Owner
<1>11. OneOwner'
  <2>1. IsInjective(rest) /\ Range(rest) \subseteq Range(Owned("lexer")) /\ "lexer" \in Owner
    BY <1>4, LexerHolds
  <2>2. Range(Owned("lexer")') = Range(Owned("lexer")) \ Range(rest)
    BY <1>4, <1>5, <1>9, LexerHolds
  <2>3. Owned("call")' = << >>
    BY <1>1, Idle, EmptyBlocks, CallHolds
  <2> QED
    BY <1>3, <1>9, <1>10, <2>1, <2>2, <2>3, Released DEF IInv
<1>12. TypeOK'
  <2>1. Len(lex'.own) = 3 /\ Len(lex'.seq) >= 1 /\ Len(lex'.src) = 1
    <3>1. Len(lex'.own) = 3 /\ Len(lex'.src) = 1
      BY <1>1, <1>7 DEF IInv, TypeOK
    <3>2. Len(lex'.seq) = 1
      BY <1>5, <1>7
    <3> QED
      BY <3>1, <3>2
  <2> QED
    BY <1>1, <1>3, <1>6, <1>8, <2>1 DEF IInv, TypeOK, Free, FreeAllBut
<1>13. Absent' /\ Linked'
  BY <1>1, <1>7 DEF IInv, Absent, Linked
<1> QED
  BY <1>1, <1>8, <1>11, <1>12, <1>13, IdleLocals DEF IInv, NeverStale

LEMMA LexerFreeStep ==
  ASSUME IInv, LexerFree
  PROVE  IInv'
<1> UNCHANGED lost
  BY DEF LexerFree
<1>1. /\ pc = "idle" /\ Free(lex.src \o lex.own \o lex.seq) /\ lex' = NoLexer
      /\ UNCHANGED <<stale, result, par, linked, tree, pc, call>>
  BY DEF LexerFree
<1>2. lex.src \in Seq(Block) /\ lex.own \in Seq(Block) /\ lex.seq \in Seq(Block)
  BY Typed DEF IInv
<1>3. /\ lex'.on = FALSE /\ lex'.own = << >> /\ lex'.src = << >> /\ lex'.seq = << >>
      /\ lex' \in LexerType
  BY <1>1, EmptyBlocks DEF NoLexer, LexerType
<1>4. OneOwner'
  <2>1. Range(lex.src \o lex.own \o lex.seq) = Range(lex.src) \union Range(lex.own) \union Range(lex.seq)
    BY <1>2, Three
  <2>2. IsInjective(lex.src \o lex.own \o lex.seq)
    <3>1. /\ IsInjective(lex.src) /\ IsInjective(lex.own) /\ IsInjective(lex.seq)
          /\ Range(lex.src) \intersect Range(lex.own) = {}
          /\ Range(lex.src) \intersect Range(lex.seq) = {}
          /\ Range(lex.own) \intersect Range(lex.seq) = {}
      BY <1>1, Idle, LexerHolds
    <3> QED
      BY <1>2, <3>1, Three
  <2>3. Range(lex.src \o lex.own \o lex.seq) = Range(Owned("lexer")) /\ "lexer" \in Owner
    BY <1>1, <2>1, Idle, LexerHolds
  <2>4. Owned("lexer")' = << >>
    <3>1. Owned("lexer")' = << >> \o << >> \o << >>
      BY <1>1, <1>3, Idle, OwnersNext
    <3> QED
      BY <3>1
  <2>5. \A x \in Owner : x # "lexer" => Owned(x)' = Owned(x)
    BY <1>1, Owners, OwnersNext DEF Owner
  <2> QED
    BY <1>1, <2>2, <2>3, <2>4, <2>5, GivesBack
<1>5. TypeOK'
  BY <1>1, <1>3 DEF IInv, TypeOK, Free, FreeAllBut
<1>6. Absent' /\ Linked'
  BY <1>1 DEF IInv, Absent, Linked
<1> QED
  BY <1>1, <1>4, <1>5, <1>6, IdleLocals DEF IInv, NeverStale

LEMMA ResultFreeStep ==
  ASSUME IInv, NEW s \in Slot, ResultFree(s)
  PROVE  IInv'
<1> UNCHANGED lost
  BY DEF ResultFree
<1>1. /\ pc = "idle" /\ Free(result[s].own) /\ linked # s
      /\ result' = [result EXCEPT ![s] = NoResult]
      /\ UNCHANGED <<stale, lex, par, linked, tree, pc, call>>
  BY DEF ResultFree
<1>2. NoResult \in ResultType /\ NoResult.own = << >>
  BY EmptyBlocks DEF NoResult, ResultType
<1>3. /\ result' \in [Slot -> ResultType] /\ result'[s] = NoResult
      /\ \A t \in Slot : t # s => result'[t] = result[t]
  BY <1>1, <1>2 DEF IInv, TypeOK
<1>4. OneOwner'
  <2>1. Owned(s) = result[s].own /\ Owned(s)' = << >> /\ s \in Owner
    BY <1>2, <1>3, Owners, OwnersNext DEF Owner
  <2>2. IsInjective(result[s].own)
    BY <2>1 DEF IInv, OneOwner
  <2>3. \A x \in Owner : x # s => Owned(x)' = Owned(x)
    BY <1>1, <1>3, Owners, OwnersNext DEF Owner
  <2> QED
    BY <1>1, <2>1, <2>2, <2>3, GivesBack
<1>5. TypeOK'
  BY <1>1, <1>3 DEF IInv, TypeOK, Free, FreeAllBut
<1>6. Absent' /\ Linked'
  BY <1>1, <1>3 DEF IInv, Absent, Linked
<1> QED
  BY <1>1, <1>4, <1>5, <1>6, IdleLocals DEF IInv, NeverStale

LEMMA LinkStep ==
  ASSUME IInv, NEW s \in Slot, Link(s)
  PROVE  IInv'
<1> UNCHANGED lost
  BY DEF Link
<1>1. /\ pc = "idle" /\ par.on /\ par' = [par EXCEPT !.link = result[s].own] /\ linked' = s
      /\ UNCHANGED <<heap, stale, lex, result, tree, pc, call>>
  BY DEF Link
<1>2. par' \in ParserType
  BY <1>1, Typed DEF IInv, TypeOK, ParserType
<1>3. par'.own = par.own /\ par'.link = result[s].own /\ (par'.on <=> par.on)
  BY <1>1 DEF IInv, TypeOK, ParserType
<1>4. OneOwner'
  <2>1. \A x \in Owner : Owned(x)' = Owned(x)
    BY <1>1, <1>3, Owners, OwnersNext DEF Owner
  <2> QED
    BY <1>1, <2>1, Idle, EmptyBlocks, CallHolds, Kept DEF IInv
<1>5. TypeOK'
  BY <1>1, <1>2 DEF IInv, TypeOK, heap
<1>6. Absent' /\ Linked'
  BY <1>1, <1>3 DEF IInv, Absent, Linked
<1> QED
  BY <1>1, <1>4, <1>5, <1>6, IdleLocals DEF IInv, NeverStale

LEMMA ParserResetStep ==
  ASSUME IInv, ParserReset
  PROVE  IInv'
<1> UNCHANGED lost
  BY DEF ParserReset
<1>1. /\ pc = "idle" /\ par.on /\ par' = [par EXCEPT !.link = << >>] /\ linked' = NoSlot
      /\ UNCHANGED <<heap, stale, lex, result, tree, pc, call>>
  BY DEF ParserReset
<1>2. par' \in ParserType
  BY <1>1, EmptyBlocks DEF IInv, TypeOK, ParserType
<1>3. par'.own = par.own /\ par'.link = << >> /\ (par'.on <=> par.on)
  BY <1>1 DEF IInv, TypeOK, ParserType
<1>4. OneOwner'
  <2>1. \A x \in Owner : Owned(x)' = Owned(x)
    BY <1>1, <1>3, Owners, OwnersNext DEF Owner
  <2> QED
    BY <1>1, <2>1, Idle, EmptyBlocks, CallHolds, Kept DEF IInv
<1>5. TypeOK'
  BY <1>1, <1>2 DEF IInv, TypeOK, heap
<1>6. Absent' /\ Linked'
  BY <1>1, <1>3 DEF IInv, Absent, Linked
<1> QED
  BY <1>1, <1>4, <1>5, <1>6, IdleLocals DEF IInv, NeverStale

LEMMA ParserFreeStep ==
  ASSUME IInv, ParserFree
  PROVE  IInv'
<1> UNCHANGED lost
  BY DEF ParserFree
<1>1. /\ pc = "idle" /\ Free(par.own) /\ par' = NoParser /\ linked' = NoSlot
      /\ UNCHANGED <<stale, lex, result, tree, pc, call>>
  BY DEF ParserFree
<1>2. par' \in ParserType /\ par'.own = << >> /\ par'.link = << >>
  BY <1>1, EmptyBlocks DEF NoParser, ParserType
<1>3. OneOwner'
  <2>1. Owned("parser") = par.own /\ Owned("parser")' = << >> /\ "parser" \in Owner
    BY <1>2, Owners, OwnersNext DEF Owner
  <2>2. IsInjective(par.own)
    BY <2>1 DEF IInv, OneOwner
  <2>3. \A x \in Owner : x # "parser" => Owned(x)' = Owned(x)
    BY <1>1, Owners, OwnersNext DEF Owner
  <2> QED
    BY <1>1, <2>1, <2>2, <2>3, GivesBack
<1>4. TypeOK'
  BY <1>1, <1>2 DEF IInv, TypeOK, Free, FreeAllBut
<1>5. Absent' /\ Linked'
  BY <1>1, <1>2 DEF IInv, Absent, Linked
<1> QED
  BY <1>1, <1>3, <1>4, <1>5, IdleLocals DEF IInv, NeverStale

LEMMA TreeFreeStep ==
  ASSUME IInv, TreeFree
  PROVE  IInv'
<1> UNCHANGED lost
  BY DEF TreeFree
<1>1. /\ pc = "idle" /\ Free(tree) /\ tree' = << >>
      /\ UNCHANGED <<stale, lex, result, par, linked, pc, call>>
  BY DEF TreeFree
<1>2. OneOwner'
  <2>1. Owned("tree") = tree /\ Owned("tree")' = << >> /\ "tree" \in Owner
    BY <1>1, Owners, OwnersNext DEF Owner
  <2>2. IsInjective(tree)
    BY <2>1 DEF IInv, OneOwner
  <2>3. \A x \in Owner : x # "tree" => Owned(x)' = Owned(x)
    BY <1>1, Owners, OwnersNext DEF Owner
  <2> QED
    BY <1>1, <2>1, <2>2, <2>3, GivesBack
<1>3. TypeOK'
  BY <1>1, EmptyBlocks DEF IInv, TypeOK, Free, FreeAllBut
<1>4. Absent' /\ Linked'
  BY <1>1 DEF IInv, Absent, Linked
<1> QED
  BY <1>1, <1>2, <1>3, <1>4, IdleLocals DEF IInv, NeverStale

-----------------------------------------------------------------------------
LEMMA InitIInv == Init => IInv
<1> SUFFICES ASSUME Init PROVE IInv
  OBVIOUS
<1>1. /\ used = {} /\ lost = {} /\ misfreed = FALSE /\ stale = FALSE /\ linked = NoSlot /\ tree = << >>
      /\ lex = NoLexer /\ par = NoParser /\ pc = "idle" /\ call = NoCall
      /\ result = [s \in Slot |-> NoResult]
  BY DEF Init
<1>2. /\ lex \in LexerType /\ lex.on = FALSE
      /\ lex.own = << >> /\ lex.seq = << >> /\ lex.src = << >>
  BY <1>1, EmptyBlocks DEF NoLexer, LexerType
<1>3. par \in ParserType /\ par.own = << >> /\ par.link = << >>
  BY <1>1, EmptyBlocks DEF NoParser, ParserType
<1>4. /\ call \in CallType /\ call.got = << >> /\ call.res = << >> /\ call.old = << >>
  BY <1>1, EmptyBlocks DEF NoCall, NewCall, CallType
<1>5. NoResult \in ResultType /\ NoResult.own = << >>
  BY EmptyBlocks DEF NoResult, ResultType
<1>6. \A w \in Owner : Owned(w) = << >>
  <2>1. << >> \o << >> = << >> /\ << >> \o << >> \o << >> = << >>
    OBVIOUS
  <2>2. \A s \in Slot : result[s].own = << >>
    BY <1>1, <1>5
  <2> QED
    BY <1>1, <1>2, <1>3, <1>4, <2>1, <2>2, Owners DEF Owner
<1>7. OneOwner
  <2>1. "call" \in Owner
    BY DEF Owner
  <2> QED
    BY <1>1, <1>6, <2>1, EmptyBlocks DEF OneOwner
<1>8. TypeOK
  BY <1>1, <1>2, <1>3, <1>4, <1>5, EmptyBlocks DEF TypeOK
<1>9. Absent /\ Linked /\ NeverStale
  BY <1>1, <1>3 DEF Absent, Linked, NeverStale
<1>10. Locals
  BY <1>1, <1>4 DEF Locals
<1> QED
  BY <1>7, <1>8, <1>9, <1>10 DEF IInv

LEMMA NextIInv == IInv /\ [Next]_vars => IInv'
<1> SUFFICES ASSUME IInv, [Next]_vars PROVE IInv'
  OBVIOUS
<1>1. CASE Next
  <2>1. CASE Step
    BY <2>1, BuildStep, OpenStep, PushTokenStep, FeedLexemeStep, FeedDoneStep, FinalizeStep,
       WrapStep, CloseStep, FailStep, ParseAllocatesStep, ParseSucceedsStep, ParseFailsStep DEF Step
  <2>2. CASE ~ Step
    BY <1>1, <2>2, BeginNewStep, BeginFeedStep, BeginFinalizeStep, BeginScanStep, BeginParseStep,
       LexerResetStep, LexerFreeStep, ParserResetStep, ParserFreeStep, TreeFreeStep,
       ResultFreeStep, LinkStep DEF Next
  <2> QED
    BY <2>1, <2>2
<1>2. CASE UNCHANGED vars
  <2>1. UNCHANGED <<heap, lost, stale, lex, result, par, linked, tree, pc, call>>
    BY <1>2 DEF vars
  <2>2. OneOwner'
    <3>1. \A x \in Owner : Owned(x)' = Owned(x)
      BY <2>1, SameOwned
    <3>2. "call" \in Owner /\ (pc' = "idle" => Owned("call")' = << >>)
      <4>1. "call" \in Owner
        BY DEF Owner
      <4> QED
        BY <2>1, <3>1, <4>1 DEF IInv, OneOwner
    <3> QED
      BY <2>1, <3>1, <3>2, Kept DEF IInv
  <2>3. TypeOK' /\ Absent' /\ Linked' /\ NeverStale'
    BY <2>1 DEF IInv, TypeOK, Absent, Linked, NeverStale, heap
  <2>4. Locals'
    BY <2>1 DEF IInv, Locals, Parts, Scanning, Reading, SlotReserved
  <2> QED
    BY <2>2, <2>3, <2>4 DEF IInv
<1> QED
  BY <1>1, <1>2

(* The inductive invariant holds in every state. *)
THEOREM Invariant == Spec => []IInv
<1> QED
  BY InitIInv, NextIInv, PTL DEF Spec

(* Every variable of the pipeline keeps its type: a lexer has the three    *)
(* blocks of its own, a name and a sequence from its New to its Free, also *)
(* within the calls that exchange them (lexer.c:1082-1236).                *)
THEOREM TypeCorrect == Spec => []TypeOK
<1>1. IInv => TypeOK
  BY DEF IInv
<1> QED
  BY <1>1, Invariant, PTL

(* Every allocated block has exactly one owner, at every step of every call*)
(* and whichever malloc is refused, but for the nodes a failed parse has   *)
(* left behind: nothing else is leaked, nothing is freed twice, nothing is *)
(* what two structures would free (lexer.c:56-62, 212-228, 1082-1236,      *)
(* token.c, parser.c, rule.c:789-794).                                     *)
THEOREM BlocksOwnedOnce == Spec => []OneOwner
<1>1. IInv => OneOwner
  BY DEF IInv
<1> QED
  BY <1>1, Invariant, PTL

(* Neither the lexer's messages nor a parse ever read a block that has been*)
(* freed, if the caller keeps a LexOut while a parser is linked to it      *)
(* (lexer.c:1004 and 1044, parser.c:64-66 and 182).                        *)
THEOREM ReadsAllocated == Spec => []NeverStale
<1>1. IInv => NeverStale
  BY DEF IInv
<1> QED
  BY <1>1, Invariant, PTL
=============================================================================
