---------------------------- MODULE ParserProofs ----------------------------
(***************************************************************************)
(* Proofs about the parser: for every set of programs, a parse of a fresh  *)
(* one never reads beyond its last token, its state has its types, what    *)
(* the rules allocate has one owner from the first step to the last, and   *)
(* every step brings a parse nearer to its end.                            *)
(***************************************************************************)
EXTENDS Syntax, TLAPS, FiniteSetTheorems

(* Frames without the bounds on their nodes and tokens that the argument   *)
(* does not need.  An operand rule has a level, which is not that of the   *)
(* unary one while it deals with a binary operator, and a rule holds a     *)
(* node wherever it uses one.                                              *)
EmptyHanded == {"start", "expr", "opd", "lhs", "block", "cond"}

Frames ==
  {f \in [rule : Rule, lvl : 0 .. 8, at : Label, held : Seq(Nat), tok : Nat] :
     /\ f.rule = "Opd" => f.lvl \in 1 .. 8
     /\ f.rule = "Opd" /\ f.at \notin {"start", "opd"} => f.lvl # 1
     /\ f.at \notin EmptyHanded => f.held # << >>}

Typed ==
  /\ toks \in Program \union {<< >>}
  /\ off \in Nat
  /\ err \in [type : ParErr, msg : Nat, tok : Nat]
  /\ next \in Nat
  /\ res \in Nat
  /\ stack \in Seq(Frames)

(* Prog is the outermost rule of s; before it starts, or tests its loop,   *)
(* nothing has failed.                                                     *)
ProgOutermost(s, failed) ==
  \A k \in 1 .. Len(s) :
    s[k].rule = "Prog" =>
      /\ k = Len(s)
      /\ s[k].at \in {"start", "loop"} => k = 1 /\ ~ failed

(* While rules run, or after a failure, there is a token to look at.       *)
Within ==
  ~ astray =>
    /\ toks # << >>
    /\ stack # << >> \/ Failed => off < Len(toks)

IInv ==
  /\ Typed
  /\ pc = "run" => ProgOutermost(stack, Failed /\ ~ astray) /\ Within
  /\ CrashOnlyOutOfMemory

-----------------------------------------------------------------------------
(* What a call, a return and a local step do to the stack. *)

(* The callers of a rule are not at their start and not at a loop test, so *)
(* it is no matter to them whether it fails.                               *)
LEMMA PopOutermost ==
  ASSUME NEW s \in Seq(Frames), s # << >>, NEW f \in BOOLEAN, NEW g \in BOOLEAN,
         ProgOutermost(s, f)
  PROVE  Tail(s) \in Seq(Frames) /\ ProgOutermost(Tail(s), g)
<1> DEFINE t == Tail(s)
<1>1. t \in Seq(Frames) /\ Len(t) = Len(s) - 1 /\ Len(s) \in Nat
  OBVIOUS
<1>2. \A k \in 1 .. Len(t) : t[k] = s[k + 1]
  OBVIOUS
<1> HIDE DEF t
<1>3. ASSUME NEW k \in 1 .. Len(t), t[k].rule = "Prog"
      PROVE  k = Len(t) /\ t[k].at \notin {"start", "loop"}
  <2>1. s[k + 1].rule = "Prog" /\ k + 1 \in 1 .. Len(s) /\ k + 1 # 1
    BY <1>1, <1>2, <1>3
  <2>2. k + 1 = Len(s) /\ s[k + 1].at \notin {"start", "loop"}
    BY <2>1 DEF ProgOutermost
  <2> QED
    BY <1>1, <1>2, <2>2
<1>4. ProgOutermost(t, g)
  BY <1>3 DEF ProgOutermost
<1> QED
  BY <1>1, <1>4 DEF t

(* The running rule is replaced by another state of itself or by a rule    *)
(* that is not Prog.                                                       *)
LEMMA ReplaceOutermost ==
  ASSUME NEW s \in Seq(Frames), s # << >>, NEW f \in BOOLEAN, NEW g \in BOOLEAN,
         ProgOutermost(s, f),
         NEW frame \in Frames,
         frame.rule = "Prog" =>
           Head(s).rule = "Prog" /\ (frame.at \in {"start", "loop"} => ~ g)
  PROVE  /\ <<frame>> \o Tail(s) \in Seq(Frames)
         /\ ProgOutermost(<<frame>> \o Tail(s), g)
<1> DEFINE t == <<frame>> \o Tail(s)
<1>1. t \in Seq(Frames) /\ Len(t) = Len(s) /\ t[1] = frame
  OBVIOUS
<1>2. \A k \in 2 .. Len(s) : t[k] = s[k]
  OBVIOUS
<1>3. Head(s) = s[1] /\ 1 \in 1 .. Len(s)
  OBVIOUS
<1>4. ASSUME NEW k \in 1 .. Len(t), t[k].rule = "Prog"
      PROVE  k = Len(t) /\ (t[k].at \in {"start", "loop"} => k = 1 /\ ~ g)
  <2>1. CASE k = 1
    BY <1>1, <1>3, <1>4, <2>1 DEF ProgOutermost
  <2>2. CASE k # 1
    <3>1. k \in 2 .. Len(s) /\ k \in 1 .. Len(s)
      BY <1>1, <2>2
    <3> QED
      BY <1>1, <1>2, <1>4, <2>2, <3>1 DEF ProgOutermost
  <2> QED
    BY <2>1, <2>2
<1> HIDE DEF t
<1>5. ProgOutermost(t, g)
  BY <1>4 DEF ProgOutermost
<1> QED
  BY <1>1, <1>5 DEF t

(* A rule other than Prog is called, and the caller left at a label where  *)
(* it waits.                                                               *)
LEMMA PushOutermost ==
  ASSUME NEW s \in Seq(Frames), s # << >>, NEW f \in BOOLEAN, NEW g \in BOOLEAN,
         ProgOutermost(s, f),
         NEW callee \in Frames, callee.rule # "Prog",
         NEW frame \in Frames, frame.rule = Head(s).rule,
         frame.at \notin {"start", "loop"}
  PROVE  /\ <<callee, frame>> \o Tail(s) \in Seq(Frames)
         /\ ProgOutermost(<<callee, frame>> \o Tail(s), g)
<1> DEFINE t == <<callee, frame>> \o Tail(s)
<1>1. t \in Seq(Frames) /\ Len(t) = Len(s) + 1 /\ t[1] = callee /\ t[2] = frame
  OBVIOUS
<1>2. \A k \in 3 .. Len(t) : t[k] = s[k - 1]
  OBVIOUS
<1>3. Head(s) = s[1] /\ 1 \in 1 .. Len(s)
  OBVIOUS
<1>4. ASSUME NEW k \in 1 .. Len(t), t[k].rule = "Prog"
      PROVE  k = Len(t) /\ (t[k].at \in {"start", "loop"} => k = 1 /\ ~ g)
  <2>1. CASE k = 1
    BY <1>1, <1>4, <2>1
  <2>2. CASE k = 2
    BY <1>1, <1>3, <1>4, <2>2 DEF ProgOutermost
  <2>3. CASE k \notin {1, 2}
    <3>1. k \in 3 .. Len(t) /\ k - 1 \in 1 .. Len(s) /\ k - 1 # 1
      BY <1>1, <2>3
    <3> QED
      BY <1>1, <1>2, <1>4, <3>1 DEF ProgOutermost
  <2> QED
    BY <2>1, <2>2, <2>3
<1> HIDE DEF t
<1>5. ProgOutermost(t, g)
  BY <1>4 DEF ProgOutermost
<1> QED
  BY <1>1, <1>5 DEF t
-----------------------------------------------------------------------------
(* A step of a rule. *)

Running == IInv /\ pc = "run" /\ stack # << >>

(* The rest of the stack is as it should be, whether or not the step failed. *)
Settled ==
  /\ stack' \in Seq(Frames)
  /\ res' \in Nat
  /\ \A g \in BOOLEAN : ProgOutermost(stack', g)

(* At most one token is consumed, and not the last one.                    *)
Advances ==
  off' = off \/ (off' = off + 1 /\ Peek \notin {"NULL", "Eof"})

Move ==
  /\ UNCHANGED caller
  /\ Settled
  /\ Advances
  /\ err' \in [type : ParErr, msg : Nat, tok : Nat]
  /\ next' \in Nat

LEMMA RunningStack ==
  ASSUME Running
  PROVE  /\ stack \in Seq(Frames) /\ stack # << >>
         /\ (Failed /\ ~ astray) \in BOOLEAN
         /\ ProgOutermost(stack, Failed /\ ~ astray)
         /\ Top \in Frames
BY DEF Running, IInv, Typed, Top, Failed

LEMMA ReturnsSettles ==
  ASSUME Running, NEW node \in Nat, Returns(node)
  PROVE  Settled
<1>1. stack' = Tail(stack) /\ res' = node
  BY DEF Returns
<1>2. \A g \in BOOLEAN :
        Tail(stack) \in Seq(Frames) /\ ProgOutermost(Tail(stack), g)
  BY RunningStack, PopOutermost
<1> QED
  BY <1>1, <1>2 DEF Settled

LEMMA FrameTyped ==
  ASSUME NEW rule \in Rule, NEW lvl \in 0 .. 8, rule = "Opd" => lvl \in 1 .. 8
  PROVE  /\ Frame(rule, lvl) \in Frames
         /\ Frame(rule, lvl).rule = rule
         /\ Frame(rule, lvl).at = "start"
BY DEF Frame, Frames, Label, EmptyHanded

LEMMA BecomesSettles ==
  ASSUME Running, NEW callee \in Frames, callee.rule # "Prog", Becomes(callee)
  PROVE  Settled
<1>1. stack' = <<callee>> \o Tail(stack) /\ res' = res
  BY DEF Becomes
<1>2. \A g \in BOOLEAN :
        /\ <<callee>> \o Tail(stack) \in Seq(Frames)
        /\ ProgOutermost(<<callee>> \o Tail(stack), g)
  BY RunningStack, ReplaceOutermost
<1>3. res \in Nat
  BY DEF Running, IInv, Typed
<1> QED
  BY <1>1, <1>2, <1>3 DEF Settled

LEMMA CallsSettles ==
  ASSUME Running,
         NEW callee \in Frames, callee.rule # "Prog",
         NEW at \in Label, at \notin {"start", "loop"},
         NEW held \in Seq(Nat), NEW tok \in Nat,
         at \in EmptyHanded \/ held # << >>,
         at # "opd" /\ Top.rule = "Opd" => Top.lvl # 1,
         Calls(callee, at, held, tok)
  PROVE  Settled
<1> DEFINE frame == [Top EXCEPT !.at = at, !.held = held, !.tok = tok]
<1>1. stack' = <<callee, frame>> \o Tail(stack) /\ res' = res
  BY DEF Calls
<1>2. frame \in Frames /\ frame.rule = Head(stack).rule /\ frame.at = at
  BY RunningStack DEF Frames, Top
<1> HIDE DEF frame
<1>3. \A g \in BOOLEAN :
        /\ <<callee, frame>> \o Tail(stack) \in Seq(Frames)
        /\ ProgOutermost(<<callee, frame>> \o Tail(stack), g)
  BY <1>2, RunningStack, PushOutermost
<1>4. res \in Nat
  BY DEF Running, IInv, Typed
<1> QED
  BY <1>1, <1>3, <1>4 DEF Settled

(* A rule that goes on; Prog only does when nothing has failed.            *)
LEMMA StaysOutermost ==
  ASSUME Running, NEW at \in Label, NEW held \in Seq(Nat), held # << >>, Stays(at, held),
         Top.rule = "Opd" => Top.lvl # 1,
         NEW g \in BOOLEAN, Top.rule = "Prog" => ~ g
  PROVE  /\ stack' \in Seq(Frames) /\ res' \in Nat
         /\ ProgOutermost(stack', g)
<1> DEFINE frame == [Top EXCEPT !.at = at, !.held = held]
<1>1. stack' = <<frame>> \o Tail(stack) /\ res' = res
  BY DEF Stays
<1>2. frame \in Frames /\ frame.rule = Head(stack).rule
  BY RunningStack DEF Frames, Top
<1> HIDE DEF frame
<1>3. /\ <<frame>> \o Tail(stack) \in Seq(Frames)
      /\ ProgOutermost(<<frame>> \o Tail(stack), g)
  BY <1>2, RunningStack, ReplaceOutermost DEF Top
<1>4. res \in Nat
  BY DEF Running, IInv, Typed
<1> QED
  BY <1>1, <1>3, <1>4

LEMMA StaysSettles ==
  ASSUME Running, NEW at \in Label, NEW held \in Seq(Nat), held # << >>,
         Stays(at, held), Top.rule # "Prog", Top.rule = "Opd" => Top.lvl # 1
  PROVE  Settled
BY StaysOutermost DEF Settled

LEMMA MemoryTyped ==
  ASSUME Running
  PROVE  /\ next \in Nat /\ off \in Nat /\ res \in Nat
         /\ err \in [type : ParErr, msg : Nat, tok : Nat]
         /\ \A object : Allocates(object) => next' \in Nat
         /\ \A ids : Frees(ids) => next' \in Nat
         /\ \A i, n : Pushes(i, n) => next' \in Nat
         /\ UNCHANGED memory => next' \in Nat
BY DEF Running, IInv, Typed, Allocates, Frees, Pushes, memory

(* The tables of tokens hold neither the last token nor the absence of one. *)
LEMMA TableTokens ==
  /\ {"NULL", "Eof"} \cap DOMAIN LeafTag = {}
  /\ {"NULL", "Eof"} \cap DOMAIN UnaTag = {}
  /\ \A n \in 1 .. 8 : {"NULL", "Eof"} \cap DOMAIN BinTag[n] = {}
<1>1. \A n \in 1 .. 8 : n = 1 \/ n = 2 \/ n = 3 \/ n = 4 \/ n = 5 \/ n = 6 \/ n = 7 \/ n = 8
  OBVIOUS
<1> QED
  BY <1>1 DEF LeafTag, UnaTag, BinTag

(* Before a step of a rule, and before the position of an error is looked  *)
(* up, there is a token, and the last one is Eof.                          *)
LEMMA TokenAhead ==
  ASSUME IInv, pc = "run", stack # << >> \/ Failed, ~ astray
  PROVE  /\ Peek # "NULL"
         /\ off < Len(toks)
         /\ Peek = "Eof" <=> off + 1 = Len(toks)
<1>1. toks \in Program /\ off \in Nat /\ off < Len(toks)
  BY DEF IInv, Typed, Within
<1>2. /\ toks \in Seq(TokTag)
      /\ \A k \in 1 .. Len(toks) : toks[k] = "Eof" <=> k = Len(toks)
  BY <1>1, ParserAssumption
<1>3. off + 1 \in 1 .. Len(toks) /\ Peek = toks[off + 1] /\ Peek \in TokTag
  BY <1>1, <1>2 DEF Peek
<1>4. "NULL" \notin TokTag
  BY DEF TokTag, Keyword, Symbol
<1> QED
  BY <1>1, <1>2, <1>3, <1>4

(* Such a step keeps the invariant. *)
LEMMA GoesOn ==
  ASSUME Running, UNCHANGED caller, Advances,
         err' \in [type : ParErr, msg : Nat, tok : Nat],
         next' \in Nat, res' \in Nat, stack' \in Seq(Frames),
         ProgOutermost(stack', Failed' /\ ~ astray')
  PROVE  IInv'
<1>1. toks' = toks /\ pc' = "run" /\ astray' = astray
  BY DEF caller, Running
<1>2. Typed'
  <2>1. off' \in Nat
    BY MemoryTyped DEF Advances
  <2>2. toks \in Program \union {<< >>}
    BY DEF Running, IInv, Typed
  <2> QED
    BY <1>1, <2>1, <2>2 DEF Typed
<1>3. Within'
  <2>1. ASSUME ~ astray
        PROVE  toks # << >> /\ off' < Len(toks)
    <3>1. toks # << >> /\ off \in Nat /\ toks \in Program /\ Len(toks) \in Nat
      BY <2>1, ParserAssumption DEF Running, IInv, Within, Typed
    <3> QED
      BY <2>1, <3>1, TokenAhead DEF Advances, Running
  <2> QED
    BY <1>1, <2>1 DEF Within
<1>4. CrashOnlyOutOfMemory'
  BY <1>1 DEF CrashOnlyOutOfMemory
<1> QED
  BY <1>1, <1>2, <1>3, <1>4 DEF IInv

LEMMA MoveIInv ==
  ASSUME Running, Move
  PROVE  IInv'
<1>1. (Failed' /\ ~ astray') \in BOOLEAN
  BY DEF Failed
<1> QED
  BY <1>1, GoesOn DEF Move, Settled

(* The ways in which rules end. *)
LEMMA FailuresMove ==
  ASSUME Running, NEW ids, NEW node \in Nat,
         \/ OutOfMemory(ids)
         \/ Unexpected(ids, node)
         \/ GivesUp(ids, node)
  PROVE  Move
<1>1. UNCHANGED caller /\ off' = off /\ Frees(ids)
      /\ (Returns(0) \/ Returns(node))
      /\ (err' = err \/ err' = [err EXCEPT !.type = "NoEnoughMemory"]
                     \/ err' = [err EXCEPT !.type = "UnexpectedToken"])
  BY DEF OutOfMemory, Unexpected, GivesUp, Fails, Looks, parser
<1>2. Settled
  BY <1>1, ReturnsSettles
<1>3. err' \in [type : ParErr, msg : Nat, tok : Nat]
  BY <1>1, MemoryTyped DEF ParErr
<1>4. next' \in Nat
  BY <1>1, MemoryTyped
<1> QED
  BY <1>1, <1>2, <1>3, <1>4 DEF Move, Advances

LEMMA LooksMoves ==
  ASSUME Running, Settled, next' \in Nat,
         Looks \/ (Consumes /\ Peek \notin {"NULL", "Eof"})
  PROVE  Move
BY MemoryTyped DEF Looks, Consumes, parser, Move, Advances

LEMMA ReturnsNewSettles ==
  ASSUME Running, NEW tag, NEW tok, NEW kids, ReturnsNew(tag, tok, kids)
  PROVE  Settled /\ next' \in Nat
BY ReturnsSettles, MemoryTyped DEF ReturnsNew

(* A step that reads NULL keeps the invariant when memory ran out, or the  *)
(* parse did not begin with a fresh program.                               *)
LEMMA CrashesIInv ==
  ASSUME IInv, Crashes, off' \in Nat, next' \in Nat,
         err' \in [type : ParErr, msg : Nat, tok : Nat],
         astray \/ err'.type = "NoEnoughMemory"
  PROVE  IInv'
BY DEF IInv, Typed, Crashes, CrashOnlyOutOfMemory

(* So does one that only a token that is not there would allow. *)
LEMMA NullIInv ==
  ASSUME Running, Peek = "NULL", Crashes, UNCHANGED <<off, err>>
  PROVE  IInv'
<1>1. astray
  BY TokenAhead DEF Running
<1>2. next' = next
  BY DEF Crashes, memory
<1> QED
  BY <1>1, <1>2, MemoryTyped, CrashesIInv DEF Running

-----------------------------------------------------------------------------
(* One lemma per rule. *)

(* The nodes that a rule at hand can return or hold.                       *)
LEMMA NodesTyped ==
  ASSUME Running
  PROVE  /\ res \in Nat /\ next \in Nat /\ off + 1 \in Nat /\ 0 \in Nat
         /\ << >> \in Seq(Nat) /\ <<res>> \in Seq(Nat) /\ <<next>> \in Seq(Nat)
         /\ Top.held \in Seq(Nat) /\ Top.lvl \in 0 .. 8
         /\ Top.rule = "Opd" => Top.lvl \in 1 .. 8
         /\ Top.rule = "Opd" /\ Top.at \notin {"start", "opd"} => Top.lvl # 1
         /\ Top.at \notin EmptyHanded =>
              /\ Top.held # << >> /\ Top.held[1] \in Nat
              /\ <<Top.held[1]>> \in Seq(Nat)
              /\ <<Top.held[1], res>> \in Seq(Nat)
<1>1. res \in Nat /\ next \in Nat /\ off + 1 \in Nat
  BY MemoryTyped
<1>2. /\ Top.held \in Seq(Nat) /\ Top.lvl \in 0 .. 8
      /\ Top.rule = "Opd" => Top.lvl \in 1 .. 8
      /\ Top.rule = "Opd" /\ Top.at \notin {"start", "opd"} => Top.lvl # 1
      /\ Top.at \notin EmptyHanded => Top.held # << >>
  BY RunningStack DEF Frames
<1>3. Top.held # << >> => Top.held[1] \in Nat
  BY <1>2
<1> QED
  BY <1>1, <1>2, <1>3

LEMMA RulesTyped ==
  /\ \A n \in 1 .. 8 : Opd(n) \in Frames /\ Opd(n).rule # "Prog"
  /\ Expr \in Frames /\ Expr.rule # "Prog"
  /\ \A rule \in Rule \ {"Opd", "Prog"} :
       Frame(rule, 0) \in Frames /\ Frame(rule, 0).rule # "Prog"
<1>1. \A n \in 1 .. 8 : Opd(n) \in Frames /\ Opd(n).rule # "Prog"
  BY FrameTyped DEF Opd, Rule
<1>2. Expr \in Frames /\ Expr.rule # "Prog"
  BY <1>1 DEF Expr
<1>3. \A rule \in Rule \ {"Opd", "Prog"} :
        Frame(rule, 0) \in Frames /\ Frame(rule, 0).rule # "Prog"
  BY FrameTyped
<1> QED
  BY <1>1, <1>2, <1>3

LEMMA BaseStep ==
  ASSUME IInv, Base
  PROVE  IInv'
<1>1. Running
  BY DEF Base, BaseStarts, BaseCloses, At, Running
<1>2. CASE BaseStarts
  <2>1. CASE Peek \in DOMAIN LeafTag /\ Consumes
               /\ ReturnsNew(LeafTag[Peek], off + 1, << >>)
    BY <1>1, <2>1, TableTokens, ReturnsNewSettles, LooksMoves, MoveIInv
  <2>2. CASE OutOfMemory({})
    BY <1>1, <2>2, NodesTyped, FailuresMove, MoveIInv
  <2>3. CASE /\ Peek = "LeftParen"
             /\ Consumes
             /\ Calls(Expr, "expr", << >>, 0)
             /\ UNCHANGED memory
    <3>1. Settled
      BY <1>1, <1>2, <2>3, RulesTyped, NodesTyped, CallsSettles
         DEF BaseStarts, At, Label, EmptyHanded
    <3> QED
      BY <1>1, <2>3, <3>1, MemoryTyped, LooksMoves, MoveIInv
  <2>4. CASE Unexpected({}, 0)
    BY <1>1, <2>4, NodesTyped, FailuresMove, MoveIInv
  <2> QED
    BY <1>2, <2>1, <2>2, <2>3, <2>4 DEF BaseStarts
<1>3. CASE BaseCloses
  <2>1. CASE GivesUp({}, res)
    BY <1>1, <2>1, NodesTyped, FailuresMove, MoveIInv
  <2>2. CASE /\ Peek = "RightParen"
             /\ Consumes
             /\ Returns(res)
             /\ UNCHANGED memory
    BY <1>1, <2>2, NodesTyped, MemoryTyped, ReturnsSettles, LooksMoves, MoveIInv
  <2>3. CASE Unexpected(TreeOf(res), res)
    BY <1>1, <2>3, NodesTyped, FailuresMove, MoveIInv
  <2> QED
    BY <1>3, <2>1, <2>2, <2>3 DEF BaseCloses
<1> QED
  BY <1>2, <1>3 DEF Base

LEMMA UnaryStep ==
  ASSUME IInv, Unary
  PROVE  IInv'
<1>1. Running
  BY DEF Unary, UnaryStarts, UnaryEnds, At, Running
<1>2. CASE UnaryStarts
  <2>1. CASE Peek = "NULL" /\ Crashes /\ UNCHANGED <<off, err>>
    BY <1>1, <2>1, NullIInv
  <2>2. CASE /\ Peek \in DOMAIN UnaTag
             /\ Consumes
             /\ Calls(Opd(1), "opd", << >>, off + 1)
             /\ UNCHANGED memory
    <3>1. Opd(1) \in Frames /\ Opd(1).rule # "Prog"
      BY RulesTyped
    <3>2. Settled
      BY <1>1, <2>2, <3>1, NodesTyped, CallsSettles DEF Label, EmptyHanded
    <3> QED
      BY <1>1, <2>2, <3>2, TableTokens, MemoryTyped, LooksMoves, MoveIInv
  <2>3. CASE Looks /\ Becomes(Frame("Base", 0)) /\ UNCHANGED memory
    <3>1. Settled
      BY <1>1, <2>3, RulesTyped, BecomesSettles DEF Rule
    <3> QED
      BY <1>1, <2>3, <3>1, MemoryTyped, LooksMoves, MoveIInv
  <2> QED
    BY <1>2, <2>1, <2>2, <2>3 DEF UnaryStarts
<1>3. CASE UnaryEnds
  <2>1. CASE GivesUp({}, 0)
    BY <1>1, <2>1, NodesTyped, FailuresMove, MoveIInv
  <2>2. CASE Looks /\ ReturnsNew(UnaTag[toks[Top.tok]], Top.tok, <<res>>)
    BY <1>1, <2>2, ReturnsNewSettles, LooksMoves, MoveIInv
  <2>3. CASE OutOfMemory({})
    BY <1>1, <2>3, NodesTyped, FailuresMove, MoveIInv
  <2> QED
    BY <1>3, <2>1, <2>2, <2>3 DEF UnaryEnds
<1> QED
  BY <1>2, <1>3 DEF Unary

(* The loop of an operator rule, at either of the two places that test it. *)
LEMMA BinaryLoopsIInv ==
  ASSUME Running, Top.rule = "Opd", Top.lvl # 1, NEW lhs \in Nat, BinaryLoops(lhs)
  PROVE  IInv'
<1>1. Top.lvl \in 1 .. 8 /\ <<lhs>> \in Seq(Nat) /\ <<lhs>> # << >>
  BY NodesTyped
<1>2. CASE Peek = "NULL" /\ Crashes /\ UNCHANGED <<off, err>>
  BY <1>2, NullIInv
<1>3. CASE /\ Peek \in DOMAIN BinTag[Top.lvl]
           /\ Consumes
           /\ Calls(Opd(RightOpd(Top.lvl)), "rhs", <<lhs>>, off + 1)
           /\ UNCHANGED memory
  <2>1. RightOpd(Top.lvl) \in 1 .. 8
    BY <1>1 DEF RightOpd
  <2>2. /\ Opd(RightOpd(Top.lvl)) \in Frames
        /\ Opd(RightOpd(Top.lvl)).rule # "Prog"
    BY <2>1, RulesTyped
  <2>3. Settled
    BY <1>1, <1>3, <2>2, NodesTyped, CallsSettles DEF Label, EmptyHanded
  <2>4. Peek \notin {"NULL", "Eof"}
    BY <1>1, <1>3, TableTokens
  <2> QED
    BY <1>3, <2>3, <2>4, MemoryTyped, LooksMoves, MoveIInv
<1>4. CASE Looks /\ Returns(lhs) /\ UNCHANGED memory
  BY <1>4, MemoryTyped, ReturnsSettles, LooksMoves, MoveIInv
<1> QED
  BY <1>2, <1>3, <1>4 DEF BinaryLoops

LEMMA BinaryStep ==
  ASSUME IInv, Binary
  PROVE  IInv'
<1>1. Running /\ Top.rule = "Opd"
  BY DEF Binary, BinaryStarts, BinaryHasLhs, BinaryAgain, BinaryHasRhs, At, Running
<1>2. CASE BinaryStarts
  <2>1. Top.lvl \in 1 .. 8 /\ Top.lvl # 1
    BY <1>1, <1>2, NodesTyped DEF BinaryStarts
  <2>2. Opd(Top.lvl - 1) \in Frames /\ Opd(Top.lvl - 1).rule # "Prog"
    BY <2>1, RulesTyped
  <2>3. Settled
    BY <1>1, <1>2, <2>2, NodesTyped, CallsSettles DEF BinaryStarts, Label, EmptyHanded
  <2> QED
    BY <1>1, <1>2, <2>3, MemoryTyped, LooksMoves, MoveIInv DEF BinaryStarts
<1>3. CASE BinaryHasLhs
  <2>1. Top.lvl # 1
    BY <1>1, <1>3, NodesTyped DEF BinaryHasLhs, At
  <2>2. CASE GivesUp({}, 0)
    BY <1>1, <2>2, NodesTyped, FailuresMove, MoveIInv
  <2>3. CASE BinaryLoops(res)
    BY <1>1, <2>1, <2>3, NodesTyped, BinaryLoopsIInv
  <2> QED
    BY <1>3, <2>2, <2>3 DEF BinaryHasLhs
<1>4. CASE BinaryAgain
  BY <1>1, <1>4, NodesTyped, BinaryLoopsIInv DEF BinaryAgain, At, EmptyHanded
<1>5. CASE BinaryHasRhs
  <2>1. Top.lvl # 1 /\ Top.rule = "Opd"
    BY <1>1, <1>5, NodesTyped DEF BinaryHasRhs, At
  <2> DEFINE lhs == Top.held[1]
  <2>2. CASE GivesUp({lhs}, 0)
    BY <1>1, <2>2, NodesTyped, FailuresMove, MoveIInv
  <2>3. CASE /\ Looks
             /\ Allocates(Object(BinTag[Top.lvl][toks[Top.tok]], Top.tok, <<lhs, res>>))
             /\ Stays("loop", <<next>>)
    <3>1. next' \in Nat
      BY <1>1, <2>3, MemoryTyped
    <3>2. Settled
      BY <1>1, <2>1, <2>3, NodesTyped, StaysSettles DEF Label
    <3> QED
      BY <1>1, <2>3, <3>1, <3>2, LooksMoves, MoveIInv
  <2>4. CASE OutOfMemory(TreeOf(res) \union {lhs})
    BY <1>1, <2>4, NodesTyped, FailuresMove, MoveIInv
  <2> QED
    BY <1>5, <2>2, <2>3, <2>4 DEF BinaryHasRhs
<1> QED
  BY <1>2, <1>3, <1>4, <1>5 DEF Binary

LEMMA AsgnStep ==
  ASSUME IInv, AsgnStmt
  PROVE  IInv'
<1>1. Running
  BY DEF AsgnStmt, AssignStarts, AssignHasLhs, AssignEnds, At, Running
<1>2. Top.rule = "AsgnStmt"
  BY DEF AsgnStmt, AssignStarts, AssignHasLhs, AssignEnds, At
<1>3. CASE AssignStarts
  <2>1. CASE /\ Peek = "Name"
             /\ Consumes
             /\ Allocates(Object("Var", off + 1, << >>))
             /\ Stays("assign", <<next>>)
    <3>1. next' \in Nat
      BY <1>1, <2>1, MemoryTyped
    <3>2. Settled
      BY <1>1, <1>2, <2>1, NodesTyped, StaysSettles DEF Label
    <3> QED
      BY <1>1, <2>1, <3>1, <3>2, LooksMoves, MoveIInv
  <2>2. CASE /\ Peek = "Name"
             /\ off' = off + 1
             /\ err' = [err EXCEPT !.type = "NoEnoughMemory"]
             /\ Returns(0)
             /\ UNCHANGED <<caller, memory>>
    <3>1. Settled /\ next' \in Nat
      BY <1>1, <2>2, ReturnsSettles, MemoryTyped
    <3>2. err' \in [type : ParErr, msg : Nat, tok : Nat]
      BY <1>1, <2>2, MemoryTyped DEF ParErr
    <3> QED
      BY <1>1, <2>2, <3>1, <3>2, MoveIInv DEF Move, Advances
  <2>3. CASE Unexpected({}, 0)
    BY <1>1, <2>3, NodesTyped, FailuresMove, MoveIInv
  <2> QED
    BY <1>3, <2>1, <2>2, <2>3 DEF AssignStarts
<1>4. CASE AssignHasLhs
  <2>1. CASE /\ Peek = "Assign"
             /\ Consumes
             /\ Calls(Expr, "rhs", Top.held, 0)
             /\ UNCHANGED memory
    <3>1. Top.held # << >>
      BY <1>1, <1>4, NodesTyped DEF AssignHasLhs, At, EmptyHanded
    <3>2. Settled
      BY <1>1, <1>2, <2>1, <3>1, RulesTyped, NodesTyped, CallsSettles DEF Label
    <3> QED
      BY <1>1, <2>1, <3>2, MemoryTyped, LooksMoves, MoveIInv
  <2>2. CASE Unexpected(TreeOf(Top.held[1]), 0)
    BY <1>1, <2>2, NodesTyped, FailuresMove, MoveIInv
  <2> QED
    BY <1>4, <2>1, <2>2 DEF AssignHasLhs
<1>5. CASE AssignEnds
  <2> DEFINE lhs == Top.held[1]
  <2>1. CASE GivesUp(TreeOf(lhs), 0)
    BY <1>1, <2>1, NodesTyped, FailuresMove, MoveIInv
  <2>2. CASE Peek = "Semicolon" /\ Consumes /\ ReturnsNew("AsgnStmt", 0, <<lhs, res>>)
    BY <1>1, <2>2, ReturnsNewSettles, LooksMoves, MoveIInv
  <2>3. CASE /\ off' = off + 1
             /\ err' = [err EXCEPT !.type = "NoEnoughMemory"]
             /\ Crashes
    <3>1. /\ err' \in [type : ParErr, msg : Nat, tok : Nat]
          /\ err'.type = "NoEnoughMemory"
          /\ off' \in Nat /\ next' \in Nat
      BY <1>1, <2>3, MemoryTyped DEF ParErr, Crashes, memory
    <3> QED
      BY <1>1, <2>3, <3>1, CrashesIInv
  <2>4. CASE Unexpected(TreeOf(res) \union TreeOf(lhs), 0)
    BY <1>1, <2>4, NodesTyped, FailuresMove, MoveIInv
  <2> QED
    BY <1>5, <2>1, <2>2, <2>3, <2>4 DEF AssignEnds
<1> QED
  BY <1>3, <1>4, <1>5 DEF AsgnStmt

LEMMA BlockStep ==
  ASSUME IInv, Block
  PROVE  IInv'
<1>1. Running /\ Top.rule = "Block"
  BY DEF Block, BlockStarts, BlockOpens, BlockLoops, BlockHasStmt, At, Running
<1> DEFINE seq == Top.held[1]
<1>2. CASE BlockStarts
  <2>1. CASE Looks /\ Allocates(Object("Seq", 0, << >>)) /\ Stays("open", <<next>>)
    <3>1. Settled /\ next' \in Nat
      BY <1>1, <2>1, NodesTyped, MemoryTyped, StaysSettles DEF Label
    <3> QED
      BY <1>1, <2>1, <3>1, LooksMoves, MoveIInv
  <2>2. CASE OutOfMemory({})
    BY <1>1, <2>2, NodesTyped, FailuresMove, MoveIInv
  <2> QED
    BY <1>2, <2>1, <2>2 DEF BlockStarts
<1>3. CASE BlockOpens
  <2>1. Top.held # << >> /\ seq \in Nat
    BY <1>1, <1>3, NodesTyped DEF BlockOpens, At, EmptyHanded
  <2>2. CASE /\ Peek = "LeftBrace" /\ Consumes
             /\ Stays("loop", Top.held) /\ UNCHANGED memory
    <3>1. Settled /\ next' \in Nat
      BY <1>1, <2>1, <2>2, NodesTyped, MemoryTyped, StaysSettles DEF Label
    <3> QED
      BY <1>1, <2>2, <3>1, LooksMoves, MoveIInv
  <2>3. CASE Unexpected(TreeOf(seq), seq)
    BY <1>1, <2>1, <2>3, FailuresMove, MoveIInv
  <2> QED
    BY <1>3, <2>2, <2>3 DEF BlockOpens
<1>4. CASE BlockLoops
  <2>1. Top.held # << >> /\ seq \in Nat
    BY <1>1, <1>4, NodesTyped DEF BlockLoops, At, EmptyHanded
  <2>2. next' \in Nat
    BY <1>1, <1>4, MemoryTyped DEF BlockLoops
  <2>3. CASE Peek = "RightBrace" /\ Consumes /\ Returns(seq)
    BY <1>1, <2>1, <2>2, <2>3, ReturnsSettles, LooksMoves, MoveIInv
  <2>4. CASE Looks /\ Calls(Frame("Stmt", 0), "stmt", Top.held, 0)
    <3>1. Frame("Stmt", 0) \in Frames /\ Frame("Stmt", 0).rule # "Prog"
      BY RulesTyped DEF Rule
    <3>2. Settled
      BY <1>1, <2>1, <2>4, <3>1, NodesTyped, CallsSettles DEF Label
    <3> QED
      BY <1>1, <2>2, <2>4, <3>2, LooksMoves, MoveIInv
  <2> QED
    BY <1>4, <2>3, <2>4 DEF BlockLoops
<1>5. CASE BlockHasStmt
  <2>1. Top.held # << >> /\ seq \in Nat
    BY <1>1, <1>5, NodesTyped DEF BlockHasStmt, At, EmptyHanded
  <2>2. CASE GivesUp(TreeOf(seq), seq)
    BY <1>1, <2>1, <2>2, FailuresMove, MoveIInv
  <2>3. CASE Looks /\ Pushes(seq, res) /\ Stays("loop", Top.held)
    <3>1. Settled /\ next' \in Nat
      BY <1>1, <2>1, <2>3, NodesTyped, MemoryTyped, StaysSettles DEF Label
    <3> QED
      BY <1>1, <2>3, <3>1, LooksMoves, MoveIInv
  <2>4. CASE /\ Fails("NoEnoughMemory")
             /\ Frees({res} \union TreeOf(seq))
             /\ Returns(seq)
    <3>1. Settled /\ next' \in Nat
      BY <1>1, <2>1, <2>4, MemoryTyped, ReturnsSettles
    <3>2. err' \in [type : ParErr, msg : Nat, tok : Nat]
      BY <1>1, <2>4, MemoryTyped DEF Fails, ParErr
    <3> QED
      BY <1>1, <2>4, <3>1, <3>2, MoveIInv DEF Move, Advances, Fails
  <2> QED
    BY <1>5, <2>2, <2>3, <2>4 DEF BlockHasStmt
<1> QED
  BY <1>2, <1>3, <1>4, <1>5 DEF Block

LEMMA BlockStmtStep ==
  ASSUME IInv, BlockStmt
  PROVE  IInv'
<1>1. Running /\ Top.rule = "BlockStmt"
  BY DEF BlockStmt, BlockStmtStarts, BlockStmtEnds, At, Running
<1>2. CASE BlockStmtStarts
  <2>1. Frame("Block", 0) \in Frames /\ Frame("Block", 0).rule # "Prog"
    BY RulesTyped DEF Rule
  <2>2. Settled /\ next' \in Nat
    BY <1>1, <1>2, <2>1, NodesTyped, MemoryTyped, CallsSettles
       DEF BlockStmtStarts, Label, EmptyHanded
  <2> QED
    BY <1>1, <1>2, <2>2, LooksMoves, MoveIInv DEF BlockStmtStarts
<1>3. CASE BlockStmtEnds
  <2>1. CASE GivesUp({}, 0)
    BY <1>1, <2>1, NodesTyped, FailuresMove, MoveIInv
  <2>2. CASE Looks /\ ReturnsNew("BlockStmt", 0, <<res>>)
    BY <1>1, <2>2, ReturnsNewSettles, LooksMoves, MoveIInv
  <2>3. CASE OutOfMemory({})
    BY <1>1, <2>3, NodesTyped, FailuresMove, MoveIInv
  <2> QED
    BY <1>3, <2>1, <2>2, <2>3 DEF BlockStmtEnds
<1> QED
  BY <1>2, <1>3 DEF BlockStmt

LEMMA IfStep ==
  ASSUME IInv, IfStmt
  PROVE  IInv'
<1>1. Running /\ Top.rule = "IfStmt"
  BY DEF IfStmt, IfStarts, IfHasCond, IfHasThen, IfHasElse, At, Running
<1>2. Frame("BlockStmt", 0) \in Frames /\ Frame("BlockStmt", 0).rule # "Prog"
  BY RulesTyped DEF Rule
<1>3. CASE IfStarts
  <2>1. CASE Peek = "If" /\ Consumes /\ Calls(Expr, "cond", << >>, 0) /\ UNCHANGED memory
    <3>1. Settled /\ next' \in Nat
      BY <1>1, <2>1, RulesTyped, NodesTyped, MemoryTyped, CallsSettles DEF Label, EmptyHanded
    <3> QED
      BY <1>1, <2>1, <3>1, LooksMoves, MoveIInv
  <2>2. CASE Unexpected({}, 0)
    BY <1>1, <2>2, NodesTyped, FailuresMove, MoveIInv
  <2> QED
    BY <1>3, <2>1, <2>2 DEF IfStarts
<1>4. CASE IfHasCond
  <2>1. CASE GivesUp({}, 0)
    BY <1>1, <2>1, NodesTyped, FailuresMove, MoveIInv
  <2>2. CASE /\ Looks
             /\ Calls(Frame("BlockStmt", 0), "then", <<res>>, 0)
             /\ UNCHANGED memory
    <3>1. Settled /\ next' \in Nat
      BY <1>1, <1>2, <2>2, NodesTyped, MemoryTyped, CallsSettles DEF Label
    <3> QED
      BY <1>1, <2>2, <3>1, LooksMoves, MoveIInv
  <2> QED
    BY <1>4, <2>1, <2>2 DEF IfHasCond
<1>5. CASE IfHasThen
  <2> DEFINE cond == Top.held[1]
  <2>1. CASE GivesUp(TreeOf(cond), 0)
    BY <1>1, <2>1, NodesTyped, FailuresMove, MoveIInv
  <2>2. CASE /\ Peek = "Else"
             /\ Consumes
             /\ Calls(Frame("BlockStmt", 0), "else", <<cond, res>>, 0)
             /\ UNCHANGED memory
    <3>1. <<cond, res>> \in Seq(Nat) /\ <<cond, res>> # << >>
      BY <1>1, <1>5, NodesTyped DEF IfHasThen, At, EmptyHanded
    <3>2. Settled /\ next' \in Nat
      BY <1>1, <1>2, <2>2, <3>1, NodesTyped, MemoryTyped, CallsSettles DEF Label
    <3> QED
      BY <1>1, <2>2, <3>2, LooksMoves, MoveIInv
  <2>3. CASE Looks /\ ReturnsNew("IfStmt", 0, <<cond, res>>)
    BY <1>1, <2>3, ReturnsNewSettles, LooksMoves, MoveIInv
  <2>4. CASE OutOfMemory(TreeOf(res) \union TreeOf(cond))
    BY <1>1, <2>4, NodesTyped, FailuresMove, MoveIInv
  <2> QED
    BY <1>5, <2>1, <2>2, <2>3, <2>4 DEF IfHasThen
<1>6. CASE IfHasElse
  <2> DEFINE both == TreeOf(Top.held[1]) \union TreeOf(Top.held[2])
  <2>1. CASE GivesUp(both, 0)
    BY <1>1, <2>1, NodesTyped, FailuresMove, MoveIInv
  <2>2. CASE Looks /\ ReturnsNew("IfElseStmt", 0, Append(Top.held, res))
    BY <1>1, <2>2, ReturnsNewSettles, LooksMoves, MoveIInv
  <2>3. CASE OutOfMemory(TreeOf(res) \union both)
    BY <1>1, <2>3, NodesTyped, FailuresMove, MoveIInv
  <2> QED
    BY <1>6, <2>1, <2>2, <2>3 DEF IfHasElse
<1> QED
  BY <1>3, <1>4, <1>5, <1>6 DEF IfStmt

LEMMA StmtStep ==
  ASSUME IInv, StmtStarts
  PROVE  IInv'
<1>1. Running
  BY DEF StmtStarts, At, Running
<1>2. CASE Peek = "NULL" /\ Crashes /\ UNCHANGED <<off, err>>
  BY <1>1, <1>2, NullIInv
<1>3. CASE /\ Peek \in {"Name", "If", "LeftBrace"}
           /\ Looks
           /\ Becomes(Frame(StmtRule(Peek), 0))
           /\ UNCHANGED memory
  <2>1. StmtRule(Peek) \in Rule \ {"Opd", "Prog"}
    BY <1>3 DEF StmtRule, Rule
  <2>2. /\ Frame(StmtRule(Peek), 0) \in Frames
        /\ Frame(StmtRule(Peek), 0).rule # "Prog"
    BY <2>1, RulesTyped
  <2>3. Settled /\ next' \in Nat
    BY <1>1, <1>3, <2>2, MemoryTyped, BecomesSettles
  <2> QED
    BY <1>1, <1>3, <2>3, LooksMoves, MoveIInv
<1>4. CASE Unexpected({}, 0)
  BY <1>1, <1>4, NodesTyped, FailuresMove, MoveIInv
<1> QED
  BY <1>2, <1>3, <1>4 DEF StmtStarts

(* Prog is the one rule that consumes the last token: it is the only rule  *)
(* left then, and nothing has failed.                                      *)
LEMMA ProgStep ==
  ASSUME IInv, Prog
  PROVE  IInv'
<1>1. Running /\ Top.rule = "Prog"
  BY DEF Prog, ProgStarts, ProgLoops, ProgHasStmt, At, Running
<1>2. ProgOutermost(stack, Failed /\ ~ astray) /\ 1 \in 1 .. Len(stack) /\ Top = stack[1]
  BY <1>1, RunningStack DEF Top
<1>3. /\ Len(stack) = 1
      /\ Top.at \in {"start", "loop"} => ~ (Failed /\ ~ astray)
  BY <1>1, <1>2 DEF ProgOutermost
<1> DEFINE prog == Top.held[1]
<1>4. ASSUME ~ (Failed /\ ~ astray), Looks, next' \in Nat,
             NEW held \in Seq(Nat), held # << >>, Stays("loop", held)
      PROVE  IInv'
  <2>1. /\ Failed' = Failed /\ astray' = astray /\ off' = off
        /\ err' = err /\ UNCHANGED caller
    BY <1>4 DEF Looks, parser, caller, Failed
  <2>2. (Failed' /\ ~ astray') \in BOOLEAN /\ ~ (Failed' /\ ~ astray')
    BY <1>4, <2>1
  <2>3. /\ stack' \in Seq(Frames) /\ res' \in Nat
        /\ ProgOutermost(stack', Failed' /\ ~ astray')
    BY <1>1, <1>4, <2>2, StaysOutermost DEF Label
  <2> QED
    BY <1>1, <1>4, <2>1, <2>3, MemoryTyped, GoesOn DEF Advances
<1>5. CASE ProgStarts
  <2>1. CASE Looks /\ Allocates(Object("Prog", 0, << >>)) /\ Stays("loop", <<next>>)
    <3>1. ~ (Failed /\ ~ astray)
      BY <1>3, <1>5 DEF ProgStarts, At
    <3>2. <<next>> \in Seq(Nat) /\ <<next>> # << >> /\ next' \in Nat
      BY <1>1, <2>1, NodesTyped, MemoryTyped
    <3> QED
      BY <1>4, <2>1, <3>1, <3>2
  <2>2. CASE OutOfMemory({})
    BY <1>1, <2>2, NodesTyped, FailuresMove, MoveIInv
  <2> QED
    BY <1>5, <2>1, <2>2 DEF ProgStarts
<1>6. CASE ProgLoops
  <2>1. Top.held \in Seq(Nat) /\ Top.held # << >> /\ prog \in Nat
    BY <1>1, <1>6, NodesTyped DEF ProgLoops, At, EmptyHanded
  <2>2. next' \in Nat
    BY <1>1, <1>6, MemoryTyped DEF ProgLoops
  <2>3. CASE Peek = "Eof" /\ Consumes /\ Returns(prog)
    <3>1. Settled
      BY <1>1, <2>1, <2>3, ReturnsSettles
    <3>2. stack' = << >>
      BY <1>3, <2>3, RunningStack, <1>1 DEF Returns
    <3>3. off' = off + 1 /\ err' = err /\ UNCHANGED caller
      BY <2>3 DEF Consumes
    <3>4. ~ (Failed' /\ ~ astray')
      BY <1>3, <1>6, <3>3 DEF ProgLoops, At, Failed, caller
    <3>5. Typed'
      BY <1>1, <2>2, <3>1, <3>3 DEF Running, IInv, Typed, Settled, caller
    <3>6. Within'
      BY <1>1, <3>2, <3>3, <3>4 DEF Running, IInv, Within, caller
    <3>7. ProgOutermost(stack', Failed' /\ ~ astray')
      BY <3>2 DEF ProgOutermost
    <3> QED
      BY <1>1, <3>3, <3>5, <3>6, <3>7 DEF IInv, Running, CrashOnlyOutOfMemory, caller
  <2>4. CASE Looks /\ Calls(Frame("Stmt", 0), "stmt", Top.held, 0)
    <3>1. Frame("Stmt", 0) \in Frames /\ Frame("Stmt", 0).rule # "Prog"
      BY RulesTyped DEF Rule
    <3>2. Settled
      BY <1>1, <2>1, <2>4, <3>1, NodesTyped, CallsSettles DEF Label
    <3> QED
      BY <1>1, <2>2, <2>4, <3>2, LooksMoves, MoveIInv
  <2> QED
    BY <1>6, <2>3, <2>4 DEF ProgLoops
<1>7. CASE ProgHasStmt
  <2>1. CASE GivesUp(TreeOf(prog), 0)
    BY <1>1, <2>1, NodesTyped, FailuresMove, MoveIInv
  <2>2. CASE ~ Failed /\ Looks /\ Pushes(prog, res) /\ Stays("loop", Top.held)
    <3>1. Top.held \in Seq(Nat) /\ Top.held # << >> /\ next' \in Nat
      BY <1>1, <1>7, <2>2, NodesTyped, MemoryTyped DEF ProgHasStmt, At, EmptyHanded
    <3> QED
      BY <1>4, <2>2, <3>1
  <2>3. CASE OutOfMemory(TreeOf(res) \union TreeOf(prog))
    BY <1>1, <2>3, NodesTyped, FailuresMove, MoveIInv
  <2> QED
    BY <1>7, <2>1, <2>2, <2>3 DEF ProgHasStmt
<1> QED
  BY <1>5, <1>6, <1>7 DEF Prog

LEMMA ReturnStep ==
  ASSUME IInv, ParseReturns
  PROVE  IInv'
<1>1. Typed /\ stack' = stack /\ toks' = toks /\ off' = off /\ next' = next /\ res' = res
  BY DEF ParseReturns, IInv, Crashes, memory
<1>2. CASE ~ Failed /\ pc' = "done" /\ err' = err
  BY <1>1, <1>2 DEF IInv, Typed, CrashOnlyOutOfMemory
<1>3. CASE /\ pc' = "done"
           /\ \E msg \in {err.msg + 1} \union (IF FaultyAlloc THEN {err.msg} ELSE {}) :
                err' = [err EXCEPT !.msg = msg, !.tok = off + 1]
  <2>1. PICK msg \in {err.msg + 1} \union (IF FaultyAlloc THEN {err.msg} ELSE {}) :
          err' = [err EXCEPT !.msg = msg, !.tok = off + 1]
    BY <1>3
  <2>2. err \in [type : ParErr, msg : Nat, tok : Nat] /\ off + 1 \in Nat
    BY <1>1 DEF Typed
  <2>3. msg \in Nat
    BY <2>1, <2>2
  <2>4. err' \in [type : ParErr, msg : Nat, tok : Nat]
    BY <2>1, <2>2, <2>3
  <2> QED
    BY <1>1, <1>3, <2>4 DEF IInv, Typed, CrashOnlyOutOfMemory
<1>4. CASE Failed /\ Peek = "NULL" /\ Crashes /\ UNCHANGED <<off, err>>
  <2>1. pc = "run"
    BY DEF ParseReturns
  <2>2. astray
    BY <1>4, <2>1, TokenAhead
  <2> QED
    BY <1>1, <1>4, <2>2, CrashesIInv DEF Typed
<1> QED
  BY <1>2, <1>3, <1>4 DEF ParseReturns

(* What the caller may do. *)
LEMMA CallerStep ==
  ASSUME IInv,
         \/ \E p \in Program : Link(p)
         \/ Parse
         \/ Reset
         \/ FreeTree
  PROVE  IInv'
<1>1. Typed /\ << >> \in Seq(Frames)
  BY DEF IInv
<1>2. CASE \E p \in Program : Link(p)
  BY <1>1, <1>2 DEF Link, IInv, Typed, memory, CrashOnlyOutOfMemory
<1>3. CASE Parse
  <2>1. CASE toks = << >>
    BY <1>1, <1>3, <2>1 DEF Parse, IInv, Typed, parser, memory, CrashOnlyOutOfMemory
  <2>2. CASE toks # << >>
    <3>1. Frame("Prog", 0) \in Frames
      BY FrameTyped DEF Rule
    <3>2. stack' = <<Frame("Prog", 0)>> /\ stack' \in Seq(Frames)
      <4>1. stack' = <<Frame("Prog", 0)>>
        BY <1>3, <2>2 DEF Parse
      <4>2. \A f \in Frames : <<f>> \in Seq(Frames)
        OBVIOUS
      <4> QED
        BY <3>1, <4>1, <4>2
    <3>3. /\ pc' = "run" /\ astray' = (off # 0 \/ Failed)
          /\ toks' = toks /\ off' = off /\ err' = err /\ res' = res /\ next' = next
      BY <1>3, <2>2 DEF Parse, parser, memory
    <3>4. Typed'
      BY <1>1, <3>2, <3>3 DEF Typed
    <3>5. ~ (Failed' /\ ~ astray')
      BY <3>3 DEF Failed
    <3>6. ProgOutermost(stack', Failed' /\ ~ astray')
      BY <3>2, <3>5 DEF ProgOutermost
    <3>7. toks \in Program /\ Len(toks) > 0
      BY <1>1, <2>2, ParserAssumption DEF Typed
    <3>8. Within'
      BY <2>2, <3>3, <3>7 DEF Within
    <3> QED
      BY <3>3, <3>4, <3>6, <3>8 DEF IInv, CrashOnlyOutOfMemory
  <2> QED
    BY <2>1, <2>2
<1>4. CASE Reset
  <2>1. NoErr \in [type : ParErr, msg : Nat, tok : Nat]
    BY DEF NoErr, ParErr
  <2> QED
    BY <1>1, <1>4, <2>1 DEF Reset, IInv, Typed, memory, CrashOnlyOutOfMemory
<1>5. CASE FreeTree
  <2>1. next' = next
    BY <1>5 DEF FreeTree, Frees
  <2> QED
    BY <1>1, <1>5, <2>1 DEF FreeTree, IInv, Typed, parser, CrashOnlyOutOfMemory
<1> QED
  BY <1>2, <1>3, <1>4, <1>5

-----------------------------------------------------------------------------
LEMMA InitIInv ==
  ASSUME Init
  PROVE  IInv
BY DEF Init, IInv, Typed, NoErr, ParErr, CrashOnlyOutOfMemory

LEMMA StepIInv ==
  ASSUME IInv, [Next]_vars
  PROVE  IInv'
<1>1. CASE Next
  <2>1. CASE ParserStep
    BY <2>1, BaseStep, UnaryStep, BinaryStep, AsgnStep, BlockStep, BlockStmtStep,
       IfStep, StmtStep, ProgStep, ReturnStep DEF ParserStep
  <2>2. CASE (\E p \in Program : Link(p)) \/ Parse \/ Reset \/ FreeTree
    BY <2>2, CallerStep
  <2> QED
    BY <1>1, <2>1, <2>2 DEF Next
<1>2. CASE UNCHANGED vars
  <2>1. /\ Typed' = Typed
        /\ CrashOnlyOutOfMemory' = CrashOnlyOutOfMemory
        /\ Within' = Within /\ pc' = pc
        /\ stack' = stack /\ (Failed /\ ~ astray)' = (Failed /\ ~ astray)
    BY <1>2 DEF vars, Typed, CrashOnlyOutOfMemory, Within, Failed
  <2> QED
    BY <2>1 DEF IInv
<1> QED
  BY <1>1, <1>2

(* For every set of programs that end with their one Eof, in any sequence of
   calls with any allocation refused, a parse that began with a fresh program
   reads NULL only when there was no memory: Parser_Peek always has a token
   for ParRule_Stmt, Parser_ExpectAny and Parser_SetErrorInfo. *)
THEOREM NeverBeyondLastToken == Spec => []CrashOnlyOutOfMemory
<1>1. Init => IInv
  BY InitIInv
<1>2. IInv /\ [Next]_vars => IInv'
  BY StepIInv
<1>3. IInv => CrashOnlyOutOfMemory
  BY DEF IInv
<1> QED
  BY <1>1, <1>2, <1>3, PTL DEF Spec

-----------------------------------------------------------------------------
(* Types.  An operator's token is one of its level's table, and a rule that *)
(* has not failed has returned a node: these keep NULL and unknown tags out *)
(* of the tree.                                                             *)

(* Frames over n - 1 nodes and o consumed tokens of p. *)
FramesOf(n, o, p) ==
  {f \in [rule : Rule, lvl : 0 .. 8, at : Label, held : Seq(1 .. n - 1), tok : 0 .. o] :
     f.rule = "Opd" =>
       /\ f.at = "opd" => f.lvl = 1
       /\ f.at \in {"opd", "rhs"} => p[f.tok] \in DOMAIN BinTag[f.lvl]}

HeapOf(h, n) ==
  /\ DOMAIN h \subseteq 1 .. n - 1
  /\ \A i \in DOMAIN h :
       h[i] \in [tag : NodeTag, tok : Nat, kids : Seq(1 .. n - 1), ids : SUBSET (1 .. n - 1)]

(* Where a rule stands when another one has returned to it. *)
WaitLabel == {"expr", "opd", "lhs", "rhs", "cond", "then", "else", "block", "stmt"}

Returned == stack = << >> \/ Top.at \in WaitLabel

TInv ==
  /\ IInv
  /\ TypeOK
  /\ stack \in Seq(FramesOf(next, off, toks))
  /\ pc \in {"idle", "done"} => stack = << >>
  /\ pc = "run" /\ Returned /\ ~ Failed => res # 0

(* What a step of a rule does, as far as types go. *)
StackTyped ==
  /\ stack' \in Seq(FramesOf(next', off', toks))
  /\ res' \in 0 .. next' - 1
  /\ Returned' /\ ~ Failed' => res' # 0

HeapTyped ==
  /\ next' \in {next, next + 1}
  /\ HeapOf(heap', next')
  /\ misfreed' \in BOOLEAN

LEMMA SeqOfMore ==
  ASSUME NEW S, NEW T, S \subseteq T, NEW s \in Seq(S)
  PROVE  s \in Seq(T)
OBVIOUS

LEMMA FramesGrow ==
  ASSUME NEW n \in Nat, NEW m \in Nat, n <= m, NEW o \in Nat, NEW q \in Nat, o <= q, NEW p
  PROVE  FramesOf(n, o, p) \subseteq FramesOf(m, q, p)
<1>1. 1 .. n - 1 \subseteq 1 .. m - 1 /\ 0 .. o \subseteq 0 .. q
  OBVIOUS
<1>2. \A h \in Seq(1 .. n - 1) : h \in Seq(1 .. m - 1)
  BY <1>1, SeqOfMore
<1>3. ASSUME NEW f \in FramesOf(n, o, p) PROVE f \in FramesOf(m, q, p)
  <2>1. /\ f \in [rule : Rule, lvl : 0 .. 8, at : Label, held : Seq(1 .. n - 1), tok : 0 .. o]
        /\ f.rule = "Opd" =>
             /\ f.at = "opd" => f.lvl = 1
             /\ f.at \in {"opd", "rhs"} => p[f.tok] \in DOMAIN BinTag[f.lvl]
    BY DEF FramesOf
  <2>2. f.held \in Seq(1 .. m - 1) /\ f.tok \in 0 .. q
    BY <1>1, <1>2, <2>1
  <2>3. f \in [rule : Rule, lvl : 0 .. 8, at : Label, held : Seq(1 .. m - 1), tok : 0 .. q]
    BY <2>1, <2>2
  <2> QED
    BY <2>1, <2>3 DEF FramesOf
<1> QED
  BY <1>3

LEMMA HeapGrows ==
  ASSUME NEW n \in Nat, NEW h, HeapOf(h, n)
  PROVE  HeapOf(h, n + 1)
<1>1. 1 .. n - 1 \subseteq 1 .. n + 1 - 1
  OBVIOUS
<1>2. \A s \in Seq(1 .. n - 1) : s \in Seq(1 .. n + 1 - 1)
  BY <1>1, SeqOfMore
<1> QED
  BY <1>1, <1>2 DEF HeapOf

(* What holds when a rule runs. *)
LEMMA RunTyped ==
  ASSUME TInv, pc = "run", stack # << >>
  PROVE  /\ Running /\ next \in Nat \ {0} /\ off \in Nat /\ res \in 0 .. next - 1
         /\ HeapOf(heap, next) /\ misfreed \in BOOLEAN
         /\ Top \in FramesOf(next, off, toks)
         /\ Tail(stack) \in Seq(FramesOf(next, off, toks))
BY DEF TInv, TypeOK, Running, HeapOf, Top

LEMMA FirstOf ==
  ASSUME NEW S, NEW s \in Seq(S), s # << >>
  PROVE  s[1] \in S
<1>1. 1 \in 1 .. Len(s)
  OBVIOUS
<1> QED
  BY <1>1

(* Nodes at hand. *)
LEMMA NodesAtHand ==
  ASSUME TInv, pc = "run", stack # << >>
  PROVE  /\ Top.held \in Seq(1 .. next - 1) /\ Top.tok \in 0 .. off
         /\ Top.at \notin EmptyHanded => Top.held # << >> /\ Top.held[1] \in 1 .. next - 1
         /\ Returned /\ ~ Failed => res \in 1 .. next - 1
<1>1. Top \in FramesOf(next, off, toks) /\ Running /\ res \in 0 .. next - 1 /\ next \in Nat \ {0}
  BY RunTyped
<1>2. Top.held \in Seq(1 .. next - 1) /\ Top.tok \in 0 .. off
  BY <1>1 DEF FramesOf
<1>3. Top.at \notin EmptyHanded => Top.held # << >>
  BY <1>1, NodesTyped
<1>4. Top.held # << >> => Top.held[1] \in 1 .. next - 1
  BY <1>2, FirstOf
<1>5. Returned /\ ~ Failed => res # 0
  BY DEF TInv
<1> QED
  BY <1>1, <1>2, <1>3, <1>4, <1>5

LEMMA TreeOfTyped ==
  ASSUME NEW n \in Nat, HeapOf(heap, n), NEW i \in 1 .. n - 1
  PROVE  TreeOf(i) \subseteq 1 .. n - 1
BY DEF TreeOf, HeapOf

LEMMA AllocatesTyped ==
  ASSUME TInv, pc = "run", stack # << >>,
         NEW tag \in NodeTag, NEW tok \in Nat, NEW kids \in Seq(1 .. next - 1),
         Allocates(Object(tag, tok, kids))
  PROVE  HeapTyped /\ next' = next + 1 /\ next \in 1 .. next' - 1
<1>1. next \in Nat \ {0} /\ HeapOf(heap, next) /\ misfreed \in BOOLEAN
  BY RunTyped
<1> DEFINE object == Object(tag, tok, kids)
           ids == {next} \union UNION {TreeOf(kids[k]) : k \in DOMAIN kids}
<1>2. ids \in SUBSET (1 .. next + 1 - 1)
  <2>1. \A k \in DOMAIN kids : TreeOf(kids[k]) \subseteq 1 .. next - 1
    BY <1>1, TreeOfTyped
  <2> QED
    BY <1>1, <2>1
<1>3. object = [tag |-> tag, tok |-> tok, kids |-> kids, ids |-> ids]
  BY Zenon DEF Object
<1> HIDE DEF ids
<1>4. kids \in Seq(1 .. next + 1 - 1)
  <2>1. 1 .. next - 1 \subseteq 1 .. next + 1 - 1
    BY <1>1
  <2> QED
    BY <2>1, SeqOfMore
<1>5. object \in [tag : NodeTag, tok : Nat, kids : Seq(1 .. next + 1 - 1),
                  ids : SUBSET (1 .. next + 1 - 1)]
  BY <1>2, <1>3, <1>4
<1>6. /\ heap' = [i \in DOMAIN heap \union {next} |-> IF i = next THEN object ELSE heap[i]]
      /\ next' = next + 1 /\ misfreed' = misfreed
  BY DEF Allocates
<1> HIDE DEF object
<1>7. HeapOf(heap, next + 1)
  BY <1>1, HeapGrows
<1>8. HeapOf(heap', next + 1)
  BY <1>1, <1>5, <1>6, <1>7 DEF HeapOf
<1> QED
  BY <1>1, <1>6, <1>8 DEF HeapTyped

LEMMA FreesTyped ==
  ASSUME TInv, pc = "run", stack # << >>, NEW ids, Frees(ids)
  PROVE  HeapTyped /\ next' = next
<1>1. HeapOf(heap, next) /\ misfreed \in BOOLEAN
  BY RunTyped
<1>2. HeapOf(heap', next)
  BY <1>1 DEF Frees, HeapOf, Restrict
<1> QED
  BY <1>1, <1>2 DEF HeapTyped, Frees

LEMMA PushesTyped ==
  ASSUME TInv, pc = "run", stack # << >>,
         NEW i \in 1 .. next - 1, NEW n \in 1 .. next - 1, Pushes(i, n)
  PROVE  HeapTyped /\ next' = next
<1>1. HeapOf(heap, next) /\ misfreed \in BOOLEAN /\ next \in Nat
  BY RunTyped
<1>2. TreeOf(n) \subseteq 1 .. next - 1
  BY <1>1, TreeOfTyped
<1>3. /\ heap' = [heap EXCEPT ![i].kids = Append(@, n), ![i].ids = @ \union TreeOf(n)]
      /\ next' = next /\ misfreed' = misfreed
  BY DEF Pushes
<1>4. ASSUME i \in DOMAIN heap
      PROVE  heap'[i] \in [tag : NodeTag, tok : Nat, kids : Seq(1 .. next - 1),
                           ids : SUBSET (1 .. next - 1)]
  <2> DEFINE o == heap[i]
  <2>1. o \in [tag : NodeTag, tok : Nat, kids : Seq(1 .. next - 1), ids : SUBSET (1 .. next - 1)]
    BY <1>1, <1>4 DEF HeapOf
  <2>2. heap'[i] = [o EXCEPT !.kids = Append(o.kids, n), !.ids = o.ids \union TreeOf(n)]
    BY <1>3, <1>4
  <2>3. Append(o.kids, n) \in Seq(1 .. next - 1) /\ o.ids \union TreeOf(n) \in SUBSET (1 .. next - 1)
    BY <1>2, <2>1
  <2> HIDE DEF o
  <2> QED
    BY <2>1, <2>2, <2>3
<1>5. DOMAIN heap' = DOMAIN heap /\ \A j \in DOMAIN heap : j # i => heap'[j] = heap[j]
  BY <1>3
<1>6. HeapOf(heap', next)
  BY <1>1, <1>4, <1>5 DEF HeapOf
<1> QED
  BY <1>1, <1>3, <1>6 DEF HeapTyped

LEMMA SameTyped ==
  ASSUME TInv, pc = "run", stack # << >>, UNCHANGED memory
  PROVE  HeapTyped /\ next' = next
BY RunTyped DEF memory, HeapTyped

LEMMA NoMore ==
  ASSUME NEW n \in Nat, NEW m \in Nat, n <= m, NEW i \in 0 .. n - 1
  PROVE  i \in 0 .. m - 1
OBVIOUS

(* Moves of the stack. *)
LEMMA RestTyped ==
  ASSUME TInv, pc = "run", stack # << >>, next' \in {next, next + 1}, off' \in {off, off + 1}
  PROVE  /\ Tail(stack) \in Seq(FramesOf(next', off', toks))
         /\ Top \in FramesOf(next', off', toks)
         /\ res \in 0 .. next' - 1
         /\ next' \in Nat \ {0} /\ off' \in Nat
<1>1. /\ next \in Nat \ {0} /\ off \in Nat /\ res \in 0 .. next - 1
      /\ Top \in FramesOf(next, off, toks) /\ Tail(stack) \in Seq(FramesOf(next, off, toks))
  BY RunTyped
<1>2. /\ next \in Nat /\ next' \in Nat /\ next <= next' /\ off \in Nat /\ off' \in Nat
      /\ off <= off' /\ next' # 0
  BY <1>1
<1>3. FramesOf(next, off, toks) \subseteq FramesOf(next', off', toks)
  BY <1>2, FramesGrow
<1>4. Tail(stack) \in Seq(FramesOf(next', off', toks))
  BY <1>1, <1>3, SeqOfMore
<1>5. Top \in FramesOf(next', off', toks)
  BY <1>1, <1>3
<1>6. res \in 0 .. next' - 1
  <2>1. res \in 0 .. next - 1 /\ next \in Nat /\ next' \in Nat /\ next <= next'
    BY <1>1, <1>2
  <2> QED
    BY <2>1, NoMore
<1>7. next' \in Nat \ {0}
  BY <1>2
<1> QED
  BY <1>2, <1>4, <1>5, <1>6, <1>7

LEMMA ReturnsTyped ==
  ASSUME TInv, pc = "run", stack # << >>, next' \in {next, next + 1}, off' \in {off, off + 1},
         UNCHANGED caller,
         NEW node, node \in 0 .. next' - 1, Returns(node), ~ Failed' => node # 0
  PROVE  StackTyped
<1>1. stack' = Tail(stack) /\ res' = node /\ toks' = toks
  BY DEF Returns, caller
<1> QED
  BY <1>1, RestTyped DEF StackTyped

(* A frame is put in the place of the running rule's. *)
LEMMA ReplacedTyped ==
  ASSUME TInv, pc = "run", stack # << >>, next' \in {next, next + 1}, off' \in {off, off + 1},
         UNCHANGED caller, res' = res,
         NEW f \in FramesOf(next', off', toks), f.at \notin WaitLabel,
         stack' = <<f>> \o Tail(stack)
  PROVE  StackTyped
<1>1. Tail(stack) \in Seq(FramesOf(next', off', toks)) /\ toks' = toks /\ res \in 0 .. next' - 1
  BY RestTyped DEF caller
<1> DEFINE t == Tail(stack)
           s == <<f>> \o t
<1>2. s \in Seq(FramesOf(next', off', toks)) /\ s # << >> /\ Head(s) = f
  BY <1>1
<1>3. stack' = s
  OBVIOUS
<1> HIDE DEF s
<1>4. ~ Returned'
  BY <1>2, <1>3 DEF Returned, Top
<1> QED
  BY <1>1, <1>2, <1>3, <1>4 DEF StackTyped

(* The running rule's frame at another label, with other locals. *)
LEMMA FrameMoved ==
  ASSUME NEW n, NEW o, NEW p, NEW f \in FramesOf(n, o, p),
         NEW at \in Label, NEW held \in Seq(1 .. n - 1), NEW tok \in 0 .. o,
         f.rule = "Opd" /\ at = "opd" => f.lvl = 1,
         f.rule = "Opd" /\ at \in {"opd", "rhs"} => p[tok] \in DOMAIN BinTag[f.lvl]
  PROVE  /\ [f EXCEPT !.at = at, !.held = held, !.tok = tok] \in FramesOf(n, o, p)
         /\ [f EXCEPT !.at = at, !.held = held, !.tok = tok].at = at
BY DEF FramesOf

LEMMA StaysTyped ==
  ASSUME TInv, pc = "run", stack # << >>, next' \in {next, next + 1}, off' \in {off, off + 1},
         UNCHANGED caller,
         NEW at \in {"loop", "assign", "open"}, NEW held \in Seq(1 .. next' - 1), Stays(at, held)
  PROVE  StackTyped
<1> DEFINE f == [Top EXCEPT !.at = at, !.held = held]
<1>1. stack' = <<f>> \o Tail(stack) /\ res' = res
  BY DEF Stays
<1>2. f \in FramesOf(next', off', toks) /\ f.at = at
  <2>1. Top \in FramesOf(next', off', toks)
    BY RestTyped
  <2>2. at \in Label /\ at \notin {"opd", "rhs"}
    BY DEF Label
  <2> QED
    BY <2>1, <2>2 DEF FramesOf
<1> HIDE DEF f
<1>3. f.at \notin WaitLabel
  BY <1>2 DEF WaitLabel
<1> QED
  BY <1>1, <1>2, <1>3, ReplacedTyped

LEMMA StartTyped ==
  ASSUME NEW n \in Nat \ {0}, NEW o \in Nat, NEW p, NEW rule \in Rule, NEW lvl \in 0 .. 8
  PROVE  Frame(rule, lvl) \in FramesOf(n, o, p) /\ Frame(rule, lvl).at = "start"
<1>1. "start" \in Label /\ 0 \in 0 .. o /\ << >> \in Seq(1 .. n - 1)
  BY DEF Label
<1> QED
  BY <1>1 DEF Frame, FramesOf

LEMMA BecomesTyped ==
  ASSUME TInv, pc = "run", stack # << >>, next' \in {next, next + 1}, off' \in {off, off + 1},
         UNCHANGED caller, NEW rule \in Rule, NEW lvl \in 0 .. 8, Becomes(Frame(rule, lvl))
  PROVE  StackTyped
<1> DEFINE f == Frame(rule, lvl)
<1>1. stack' = <<f>> \o Tail(stack) /\ res' = res
  BY DEF Becomes
<1>2. f \in FramesOf(next', off', toks) /\ f.at = "start"
  BY RestTyped, StartTyped
<1> HIDE DEF f
<1>3. f.at \notin WaitLabel
  BY <1>2 DEF WaitLabel
<1> QED
  BY <1>1, <1>2, <1>3, ReplacedTyped

LEMMA CallsTyped ==
  ASSUME TInv, pc = "run", stack # << >>, next' \in {next, next + 1}, off' \in {off, off + 1},
         UNCHANGED caller, NEW rule \in Rule, NEW lvl \in 0 .. 8,
         NEW at \in Label, NEW held \in Seq(1 .. next' - 1), NEW tok \in 0 .. off',
         Top.rule = "Opd" /\ at = "opd" => Top.lvl = 1,
         Top.rule = "Opd" /\ at \in {"opd", "rhs"} => toks[tok] \in DOMAIN BinTag[Top.lvl],
         Calls(Frame(rule, lvl), at, held, tok)
  PROVE  StackTyped
<1> DEFINE f == Frame(rule, lvl)
           g == [Top EXCEPT !.at = at, !.held = held, !.tok = tok]
           F == FramesOf(next', off', toks)
           t == Tail(stack)
<1>1. stack' = <<f, g>> \o t /\ res' = res
  BY DEF Calls
<1>2. f \in F /\ f.at = "start"
  BY RestTyped, StartTyped
<1>3. Top \in F /\ t \in Seq(F) /\ toks' = toks /\ res \in 0 .. next' - 1
  BY RestTyped DEF caller
<1>4. g \in F
  BY <1>3, FrameMoved
<1> HIDE DEF f, g, F, t
<1> DEFINE s == <<f, g>> \o t
<1>5. s \in Seq(F) /\ s # << >> /\ Head(s) = f
  BY <1>2, <1>3, <1>4
<1>6. stack' = s
  BY <1>1
<1> HIDE DEF s
<1>7. ~ Returned'
  BY <1>2, <1>5, <1>6 DEF Returned, Top, WaitLabel
<1> QED
  BY <1>1, <1>3, <1>5, <1>6, <1>7 DEF StackTyped, F

(* Such a step keeps the types. *)
LEMMA StepTyped ==
  ASSUME TInv, pc = "run", stack # << >>, IInv', off' \in {off, off + 1},
         UNCHANGED caller, HeapTyped, StackTyped
  PROVE  TInv'
<1>1. /\ toks' = toks /\ pc' = "run" /\ ret' = ret /\ tree' = tree /\ mark' = mark
      /\ astray' = astray /\ calls' = calls
  BY DEF caller
<1>2. off \in Nat /\ off' \in Nat
  BY RunTyped
<1>3. next \in Nat \ {0} /\ next' \in Nat \ {0} /\ next <= next'
  BY RunTyped DEF HeapTyped
<1>4. FramesOf(next', off', toks) \subseteq
        [rule : Rule, lvl : 0 .. 8, at : Label, held : Seq(1 .. next' - 1), tok : 0 .. off']
  BY DEF FramesOf
<1>5. stack' \in Seq([rule : Rule, lvl : 0 .. 8, at : Label, held : Seq(1 .. next' - 1),
                      tok : 0 .. off'])
  BY <1>1, <1>4, SeqOfMore DEF StackTyped
<1>6. tree' \in 0 .. next' - 1 /\ mark' \in 1 .. next'
  <2>1. tree \in 0 .. next - 1 /\ mark \in 1 .. next
    BY DEF TInv, TypeOK
  <2>2. tree' \in 0 .. next' - 1
    BY <1>1, <1>3, <2>1, NoMore
  <2>3. mark' \in 1 .. next'
    BY <1>1, <1>3, <2>1
  <2> QED
    BY <2>2, <2>3
<1>7. err' \in [type : ParErr, msg : Nat, tok : Nat]
  BY DEF IInv, Typed
<1>8. /\ toks' \in Program \union {<< >>} /\ pc' \in {"idle", "run", "done", "crashed"}
      /\ ret' \in BOOLEAN /\ astray' \in BOOLEAN /\ calls' \in 0 .. MaxParse
  BY <1>1 DEF TInv, TypeOK
<1>9. TypeOK'
  BY <1>2, <1>3, <1>5, <1>6, <1>7, <1>8 DEF TypeOK, HeapTyped, HeapOf, StackTyped
<1> QED
  BY <1>1, <1>9 DEF TInv, StackTyped

(* So does reading NULL. *)
LEMMA CrashTyped ==
  ASSUME TInv, pc = "run", IInv', Crashes, off' \in {off, off + 1}
  PROVE  TInv'
<1>1. /\ toks' = toks /\ pc' = "crashed" /\ ret' = ret /\ tree' = tree /\ mark' = mark
      /\ astray' = astray /\ calls' = calls /\ stack' = stack /\ res' = res
      /\ heap' = heap /\ next' = next /\ misfreed' = misfreed
  BY DEF Crashes, memory
<1>2. TypeOK /\ stack \in Seq(FramesOf(next, off, toks))
  BY DEF TInv
<1>3. off \in Nat /\ off' \in Nat /\ next \in Nat /\ off <= off'
  BY <1>2 DEF TypeOK
<1>4. stack \in Seq(FramesOf(next, off', toks))
  BY <1>2, <1>3, FramesGrow, SeqOfMore
<1>5. FramesOf(next, off', toks) \subseteq
        [rule : Rule, lvl : 0 .. 8, at : Label, held : Seq(1 .. next - 1), tok : 0 .. off']
  BY DEF FramesOf
<1>6. stack \in Seq([rule : Rule, lvl : 0 .. 8, at : Label, held : Seq(1 .. next - 1),
                     tok : 0 .. off'])
  BY <1>4, <1>5, SeqOfMore
<1>7. err' \in [type : ParErr, msg : Nat, tok : Nat]
  BY DEF IInv, Typed
<1>8. TypeOK'
  BY <1>1, <1>2, <1>3, <1>6, <1>7 DEF TypeOK
<1> QED
  BY <1>1, <1>4, <1>8 DEF TInv

(* What the rules have in common: a step at a label, what fails, what is   *)
(* allocated and returned.                                                 *)
LEMMA FailuresTyped ==
  ASSUME TInv, pc = "run", stack # << >>, IInv',
         NEW ids, NEW node \in 0 .. next - 1,
         \/ OutOfMemory(ids) \/ Unexpected(ids, node) \/ GivesUp(ids, node)
         \/ Fails("NoEnoughMemory") /\ Frees(ids) /\ Returns(node)
  PROVE  TInv'
<1>1. /\ Frees(ids) /\ off' = off /\ UNCHANGED caller
      /\ \/ Returns(0)
         \/ Returns(node)
      /\ Failed'
  <2>1. err \in [type : ParErr, msg : Nat, tok : Nat]
    BY DEF TInv, TypeOK
  <2>2. CASE OutOfMemory(ids)
    BY <2>1, <2>2 DEF OutOfMemory, Fails, Failed
  <2>3. CASE Unexpected(ids, node)
    BY <2>1, <2>3 DEF Unexpected, Fails, Failed
  <2>4. CASE GivesUp(ids, node)
    BY <2>4 DEF GivesUp, Looks, parser, Failed
  <2>5. CASE Fails("NoEnoughMemory") /\ Frees(ids) /\ Returns(node)
    BY <2>1, <2>5 DEF Fails, Failed
  <2> QED
    BY <2>2, <2>3, <2>4, <2>5
<1>2. HeapTyped /\ next' = next
  BY <1>1, FreesTyped
<1>3. next' \in {next, next + 1} /\ off' \in {off, off + 1}
  BY <1>1, <1>2
<1>4. 0 \in 0 .. next' - 1 /\ node \in 0 .. next' - 1
  <2>1. next \in Nat \ {0}
    BY RunTyped
  <2> QED
    BY <1>2, <2>1
<1>5. StackTyped
  BY <1>1, <1>3, <1>4, ReturnsTyped
<1> QED
  BY <1>1, <1>2, <1>3, <1>5, StepTyped

LEMMA ReturnsNewTyped ==
  ASSUME TInv, pc = "run", stack # << >>, IInv', off' \in {off, off + 1}, UNCHANGED caller,
         NEW tag \in NodeTag, NEW tok \in Nat, NEW kids \in Seq(1 .. next - 1),
         ReturnsNew(tag, tok, kids)
  PROVE  TInv'
<1>1. HeapTyped /\ next' = next + 1 /\ next \in 1 .. next' - 1
  BY AllocatesTyped DEF ReturnsNew
<1>2. next' \in {next, next + 1} /\ next \in 0 .. next' - 1 /\ next # 0
  BY <1>1
<1>3. StackTyped
  BY <1>2, ReturnsTyped DEF ReturnsNew
<1> QED
  BY <1>1, <1>3, StepTyped

LEMMA ReturnsSameTyped ==
  ASSUME TInv, pc = "run", stack # << >>, IInv', off' \in {off, off + 1}, UNCHANGED caller,
         UNCHANGED memory, NEW node \in 1 .. next - 1, Returns(node)
  PROVE  TInv'
<1>1. HeapTyped /\ next' = next /\ next \in Nat
  BY SameTyped, RunTyped
<1>2. node \in 0 .. next' - 1 /\ node # 0
  BY <1>1
<1>3. StackTyped
  BY <1>1, <1>2, ReturnsTyped
<1> QED
  BY <1>1, <1>3, StepTyped

LEMMA CallsSameTyped ==
  ASSUME TInv, pc = "run", stack # << >>, IInv', off' \in {off, off + 1}, UNCHANGED caller,
         UNCHANGED memory, NEW rule \in Rule, NEW lvl \in 0 .. 8,
         NEW at \in Label, NEW held \in Seq(1 .. next - 1), NEW tok \in 0 .. off',
         Top.rule = "Opd" /\ at = "opd" => Top.lvl = 1,
         Top.rule = "Opd" /\ at \in {"opd", "rhs"} => toks[tok] \in DOMAIN BinTag[Top.lvl],
         Calls(Frame(rule, lvl), at, held, tok)
  PROVE  TInv'
<1>1. HeapTyped /\ next' = next
  BY SameTyped
<1>2. held \in Seq(1 .. next' - 1)
  BY <1>1
<1>3. StackTyped
  BY <1>1, <1>2, CallsTyped
<1> QED
  BY <1>1, <1>3, StepTyped

LEMMA BecomesSameTyped ==
  ASSUME TInv, pc = "run", stack # << >>, IInv', off' \in {off, off + 1}, UNCHANGED caller,
         UNCHANGED memory, NEW rule \in Rule, NEW lvl \in 0 .. 8, Becomes(Frame(rule, lvl))
  PROVE  TInv'
<1>1. HeapTyped /\ next' = next
  BY SameTyped
<1>2. StackTyped
  BY <1>1, BecomesTyped
<1> QED
  BY <1>1, <1>2, StepTyped

LEMMA StaysNewTyped ==
  ASSUME TInv, pc = "run", stack # << >>, IInv', off' \in {off, off + 1}, UNCHANGED caller,
         NEW tag \in NodeTag, NEW tok \in Nat, NEW kids \in Seq(1 .. next - 1),
         NEW at \in {"loop", "assign", "open"},
         Allocates(Object(tag, tok, kids)), Stays(at, <<next>>)
  PROVE  TInv'
<1>1. HeapTyped /\ next' = next + 1 /\ next \in 1 .. next' - 1
  BY AllocatesTyped
<1>2. <<next>> \in Seq(1 .. next' - 1)
  BY <1>1
<1>3. StackTyped
  BY <1>1, <1>2, StaysTyped
<1> QED
  BY <1>1, <1>3, StepTyped

LEMMA StaysSameTyped ==
  ASSUME TInv, pc = "run", stack # << >>, IInv', off' \in {off, off + 1}, UNCHANGED caller,
         HeapTyped, next' = next,
         NEW at \in {"loop", "assign", "open"}, Stays(at, Top.held)
  PROVE  TInv'
<1>1. Top.held \in Seq(1 .. next' - 1)
  BY NodesAtHand
<1>2. StackTyped
  BY <1>1, StaysTyped
<1> QED
  BY <1>2, StepTyped

(* The tokens of the tables are ahead, and number off + 1. *)
LEMMA AheadTyped ==
  ASSUME TInv, pc = "run", stack # << >>
  PROVE  /\ off \in Nat /\ off + 1 \in Nat /\ off + 1 \in 0 .. off + 1
         /\ Peek # "NULL" => toks[off + 1] = Peek
BY RunTyped DEF Peek

LEMMA NullNotInTable ==
  /\ "NULL" \notin DOMAIN LeafTag
  /\ \A n \in 1 .. 8 : "NULL" \notin DOMAIN BinTag[n]
  /\ BinTag[1] = UnaTag
BY DEF LeafTag, UnaTag, BinTag

LEMMA TagsTyped ==
  /\ \A x \in DOMAIN LeafTag : LeafTag[x] \in NodeTag
  /\ \A n \in 1 .. 8 : \A x \in DOMAIN BinTag[n] : BinTag[n][x] \in NodeTag
BY DEF NodeTag, Range

LEMMA StatementsTyped ==
  {"Var", "AsgnStmt", "IfStmt", "IfElseStmt", "BlockStmt", "Prog", "Seq"} \subseteq NodeTag
BY DEF NodeTag, Range, LeafTag

-----------------------------------------------------------------------------
(* The rules keep the types. *)

LEMMA BaseTyped ==
  ASSUME TInv, IInv', Base
  PROVE  TInv'
<1>1. CASE BaseStarts
  <2>1. pc = "run" /\ stack # << >>
    BY <1>1 DEF BaseStarts, At
  <2>2. CASE Peek \in DOMAIN LeafTag /\ Consumes /\ ReturnsNew(LeafTag[Peek], off + 1, << >>)
    <3>1. off' = off + 1 /\ UNCHANGED caller /\ LeafTag[Peek] \in NodeTag
      BY <2>2, TagsTyped DEF Consumes
    <3>2. << >> \in Seq(1 .. next - 1) /\ off + 1 \in Nat
      BY <2>1, AheadTyped
    <3> QED
      BY <2>1, <2>2, <3>1, <3>2, ReturnsNewTyped
  <2>3. CASE OutOfMemory({}) \/ Unexpected({}, 0)
    <3>1. 0 \in 0 .. next - 1
      BY <2>1, RunTyped
    <3> QED
      BY <2>1, <2>3, <3>1, FailuresTyped
  <2>4. CASE Peek = "LeftParen" /\ Consumes /\ Calls(Expr, "expr", << >>, 0) /\ UNCHANGED memory
    <3>1. off' = off + 1 /\ UNCHANGED caller /\ Calls(Frame("Opd", 8), "expr", << >>, 0)
      BY <2>4 DEF Consumes, Expr, Opd
    <3>2. << >> \in Seq(1 .. next - 1) /\ 0 \in 0 .. off' /\ 8 \in 0 .. 8
      BY <2>1, <3>1, AheadTyped
    <3>3. "Opd" \in Rule /\ "expr" \in Label
      BY DEF Rule, Label
    <3> QED
      BY <2>1, <2>4, <3>1, <3>2, <3>3, CallsSameTyped
  <2> QED
    BY <1>1, <2>2, <2>3, <2>4 DEF BaseStarts
<1>2. CASE BaseCloses
  <2>1. pc = "run" /\ stack # << >> /\ Returned
    BY <1>2 DEF BaseCloses, At, Returned, WaitLabel
  <2>2. res \in 0 .. next - 1
    BY <2>1, RunTyped
  <2>3. CASE GivesUp({}, res) \/ Unexpected(TreeOf(res), res)
    BY <2>1, <2>2, <2>3, FailuresTyped
  <2>4. CASE ~ Failed /\ Consumes /\ Returns(res) /\ UNCHANGED memory
    <3>1. res \in 1 .. next - 1
      BY <2>1, <2>4, NodesAtHand
    <3> QED
      BY <2>1, <2>4, <3>1, ReturnsSameTyped DEF Consumes
  <2> QED
    BY <1>2, <2>3, <2>4 DEF BaseCloses
<1> QED
  BY <1>1, <1>2 DEF Base

(* The token kept by an operator is one of its level's table. *)
LEMMA OperatorTyped ==
  ASSUME TInv, pc = "run", stack # << >>, Top.rule = "Opd"
  PROVE  /\ Top.lvl \in 1 .. 8
         /\ Top.at = "opd" => Top.lvl = 1
         /\ Top.at \in {"opd", "rhs"} => /\ toks[Top.tok] \in DOMAIN BinTag[Top.lvl]
                                         /\ BinTag[Top.lvl][toks[Top.tok]] \in NodeTag
<1>1. Top \in FramesOf(next, off, toks) /\ Running
  BY RunTyped
<1>2. Top.lvl \in 1 .. 8
  <2>1. Top \in Frames
    BY <1>1, RunningStack
  <2> QED
    BY <2>1 DEF Frames
<1>3. /\ Top.at = "opd" => Top.lvl = 1
      /\ Top.at \in {"opd", "rhs"} => toks[Top.tok] \in DOMAIN BinTag[Top.lvl]
  BY <1>1 DEF FramesOf
<1> QED
  BY <1>2, <1>3, TagsTyped

LEMMA UnaryTyped ==
  ASSUME TInv, IInv', Unary
  PROVE  TInv'
<1>1. CASE UnaryStarts
  <2>1. pc = "run" /\ stack # << >> /\ Top.rule = "Opd" /\ Top.lvl = 1
    BY <1>1 DEF UnaryStarts, At
  <2>2. CASE Peek = "NULL" /\ Crashes /\ UNCHANGED <<off, err>>
    BY <2>1, <2>2, CrashTyped
  <2>3. CASE /\ Peek \in DOMAIN UnaTag
             /\ Consumes
             /\ Calls(Opd(1), "opd", << >>, off + 1)
             /\ UNCHANGED memory
    <3>1. off' = off + 1 /\ UNCHANGED caller /\ Calls(Frame("Opd", 1), "opd", << >>, off + 1)
      BY <2>3 DEF Consumes, Opd
    <3>2. << >> \in Seq(1 .. next - 1) /\ off + 1 \in 0 .. off' /\ 1 \in 0 .. 8
      BY <2>1, <3>1, AheadTyped
    <3>3. "Opd" \in Rule /\ "opd" \in Label
      BY DEF Rule, Label
    <3>4. toks[off + 1] \in DOMAIN BinTag[Top.lvl]
      <4>1. Peek # "NULL"
        BY <2>3, NullNotInTable DEF UnaTag
      <4> QED
        BY <2>1, <2>3, <4>1, AheadTyped, NullNotInTable
    <3> QED
      BY <2>1, <2>3, <3>1, <3>2, <3>3, <3>4, CallsSameTyped
  <2>4. CASE Looks /\ Becomes(Frame("Base", 0)) /\ UNCHANGED memory
    <3>1. "Base" \in Rule /\ 0 \in 0 .. 8 /\ off' = off /\ UNCHANGED caller
      BY <2>4 DEF Rule, Looks, parser
    <3> QED
      BY <2>1, <2>4, <3>1, BecomesSameTyped
  <2> QED
    BY <1>1, <2>2, <2>3, <2>4 DEF UnaryStarts
<1>2. CASE UnaryEnds
  <2>1. pc = "run" /\ stack # << >> /\ Top.rule = "Opd" /\ Top.at = "opd" /\ Returned
    BY <1>2 DEF UnaryEnds, At, Returned, WaitLabel
  <2>2. CASE GivesUp({}, 0) \/ OutOfMemory({})
    <3>1. 0 \in 0 .. next - 1
      BY <2>1, RunTyped
    <3> QED
      BY <2>1, <2>2, <3>1, FailuresTyped
  <2>3. CASE ~ Failed /\ Looks /\ ReturnsNew(UnaTag[toks[Top.tok]], Top.tok, <<res>>)
    <3>1. off' = off /\ UNCHANGED caller
      BY <2>3 DEF Looks, parser
    <3>2. UnaTag[toks[Top.tok]] \in NodeTag
      BY <2>1, OperatorTyped, NullNotInTable
    <3>3. <<res>> \in Seq(1 .. next - 1) /\ Top.tok \in Nat
      BY <2>1, <2>3, NodesAtHand, AheadTyped
    <3> QED
      BY <2>1, <2>3, <3>1, <3>2, <3>3, ReturnsNewTyped
  <2> QED
    BY <1>2, <2>2, <2>3 DEF UnaryEnds
<1> QED
  BY <1>1, <1>2 DEF Unary

LEMMA BinaryLoopsTyped ==
  ASSUME TInv, IInv', pc = "run", stack # << >>, Top.rule = "Opd",
         NEW lhs \in 1 .. next - 1, BinaryLoops(lhs)
  PROVE  TInv'
<1>1. Top.lvl \in 1 .. 8
  BY OperatorTyped
<1>2. CASE Peek = "NULL" /\ Crashes /\ UNCHANGED <<off, err>>
  BY <1>2, CrashTyped
<1>3. CASE /\ Peek \in DOMAIN BinTag[Top.lvl]
           /\ Consumes
           /\ Calls(Opd(RightOpd(Top.lvl)), "rhs", <<lhs>>, off + 1)
           /\ UNCHANGED memory
  <2> DEFINE lvl == RightOpd(Top.lvl)
  <2>1. off' = off + 1 /\ UNCHANGED caller /\ Calls(Frame("Opd", lvl), "rhs", <<lhs>>, off + 1)
    BY <1>3 DEF Consumes, Opd
  <2>2. lvl \in 0 .. 8
    BY <1>1 DEF RightOpd
  <2>3. <<lhs>> \in Seq(1 .. next - 1) /\ off + 1 \in 0 .. off'
    BY <2>1, AheadTyped
  <2>4. "Opd" \in Rule /\ "rhs" \in Label
    BY DEF Rule, Label
  <2>5. toks[off + 1] \in DOMAIN BinTag[Top.lvl]
    <3>1. Peek # "NULL"
      BY <1>1, <1>3, NullNotInTable
    <3> QED
      BY <1>3, <3>1, AheadTyped
  <2> HIDE DEF lvl
  <2> QED
    BY <1>3, <2>1, <2>2, <2>3, <2>4, <2>5, CallsSameTyped
<1>4. CASE Looks /\ Returns(lhs) /\ UNCHANGED memory
  BY <1>4, ReturnsSameTyped DEF Looks, parser
<1> QED
  BY <1>2, <1>3, <1>4 DEF BinaryLoops

LEMMA BinaryTyped ==
  ASSUME TInv, IInv', Binary
  PROVE  TInv'
<1>1. pc = "run" /\ stack # << >> /\ Top.rule = "Opd"
  BY DEF Binary, BinaryStarts, BinaryHasLhs, BinaryAgain, BinaryHasRhs, At
<1>2. 0 \in 0 .. next - 1
  BY <1>1, RunTyped
<1>3. CASE BinaryStarts
  <2> DEFINE lvl == Top.lvl - 1
  <2>1. Calls(Frame("Opd", lvl), "lhs", << >>, 0) /\ UNCHANGED memory /\ off' = off /\ UNCHANGED caller
    BY <1>3 DEF BinaryStarts, Opd, Looks, parser
  <2>2. lvl \in 0 .. 8
    BY <1>1, OperatorTyped
  <2>3. << >> \in Seq(1 .. next - 1) /\ 0 \in 0 .. off'
    BY <1>1, <2>1, AheadTyped
  <2>4. "Opd" \in Rule /\ "lhs" \in Label
    BY DEF Rule, Label
  <2> HIDE DEF lvl
  <2> QED
    BY <1>1, <2>1, <2>2, <2>3, <2>4, CallsSameTyped
<1>4. CASE BinaryHasLhs
  <2>1. Returned
    BY <1>4 DEF BinaryHasLhs, At, Returned, WaitLabel
  <2>2. CASE GivesUp({}, 0)
    BY <1>1, <1>2, <2>2, FailuresTyped
  <2>3. CASE ~ Failed /\ BinaryLoops(res)
    BY <1>1, <2>1, <2>3, NodesAtHand, BinaryLoopsTyped
  <2> QED
    BY <1>4, <2>2, <2>3 DEF BinaryHasLhs
<1>5. CASE BinaryAgain
  <2>1. Top.at \notin EmptyHanded
    BY <1>5 DEF BinaryAgain, At, EmptyHanded
  <2> QED
    BY <1>1, <1>5, <2>1, NodesAtHand, BinaryLoopsTyped DEF BinaryAgain
<1>6. CASE BinaryHasRhs
  <2> DEFINE lhs == Top.held[1]
  <2>1. Top.at = "rhs" /\ Returned /\ Top.at \notin EmptyHanded
    BY <1>6 DEF BinaryHasRhs, At, Returned, WaitLabel, EmptyHanded
  <2>2. CASE GivesUp({lhs}, 0) \/ OutOfMemory(TreeOf(res) \union {lhs})
    BY <1>1, <1>2, <2>2, FailuresTyped
  <2>3. CASE /\ ~ Failed
             /\ Looks
             /\ Allocates(Object(BinTag[Top.lvl][toks[Top.tok]], Top.tok, <<lhs, res>>))
             /\ Stays("loop", <<next>>)
    <3>1. BinTag[Top.lvl][toks[Top.tok]] \in NodeTag
      BY <1>1, <2>1, OperatorTyped
    <3>2. <<lhs, res>> \in Seq(1 .. next - 1) /\ Top.tok \in Nat
      BY <1>1, <2>1, <2>3, NodesAtHand, AheadTyped
    <3>3. off' = off /\ UNCHANGED caller
      BY <2>3 DEF Looks, parser
    <3> QED
      BY <1>1, <2>3, <3>1, <3>2, <3>3, StaysNewTyped
  <2> QED
    BY <1>6, <2>2, <2>3 DEF BinaryHasRhs
<1> QED
  BY <1>3, <1>4, <1>5, <1>6 DEF Binary

LEMMA AsgnTyped ==
  ASSUME TInv, IInv', AsgnStmt
  PROVE  TInv'
<1>1. pc = "run" /\ stack # << >> /\ Top.rule = "AsgnStmt"
  BY DEF AsgnStmt, AssignStarts, AssignHasLhs, AssignEnds, At
<1>2. 0 \in 0 .. next - 1 /\ next \in Nat
  BY <1>1, RunTyped
<1>3. CASE AssignStarts
  <2>1. CASE Consumes /\ Allocates(Object("Var", off + 1, << >>)) /\ Stays("assign", <<next>>)
    <3>1. off' = off + 1 /\ UNCHANGED caller /\ << >> \in Seq(1 .. next - 1) /\ off + 1 \in Nat
      BY <1>1, <2>1, AheadTyped DEF Consumes
    <3> QED
      BY <1>1, <2>1, <3>1, StatementsTyped, StaysNewTyped
  <2>2. CASE /\ off' = off + 1
             /\ err' = [err EXCEPT !.type = "NoEnoughMemory"]
             /\ Returns(0)
             /\ UNCHANGED <<caller, memory>>
    <3>1. Failed'
      <4>1. err \in [type : ParErr, msg : Nat, tok : Nat]
        BY DEF TInv, TypeOK
      <4> QED
        BY <2>2, <4>1 DEF Failed
    <3>2. HeapTyped /\ next' = next
      BY <1>1, <2>2, SameTyped
    <3>3. off' \in {off, off + 1} /\ next' \in {next, next + 1} /\ 0 \in 0 .. next' - 1
      BY <1>2, <2>2, <3>2
    <3>4. UNCHANGED caller
      BY <2>2
    <3>5. StackTyped
      BY <1>1, <2>2, <3>1, <3>3, <3>4, ReturnsTyped
    <3> QED
      BY <1>1, <3>2, <3>3, <3>4, <3>5, StepTyped
  <2>3. CASE Unexpected({}, 0)
    BY <1>1, <1>2, <2>3, FailuresTyped
  <2> QED
    BY <1>3, <2>1, <2>2, <2>3 DEF AssignStarts
<1>4. CASE AssignHasLhs
  <2>1. CASE Consumes /\ Calls(Expr, "rhs", Top.held, 0) /\ UNCHANGED memory
    <3>1. off' = off + 1 /\ UNCHANGED caller /\ Calls(Frame("Opd", 8), "rhs", Top.held, 0)
      BY <2>1 DEF Consumes, Expr, Opd
    <3>2. Top.held \in Seq(1 .. next - 1) /\ 0 \in 0 .. off' /\ 8 \in 0 .. 8
      BY <1>1, <3>1, AheadTyped, NodesAtHand
    <3>3. "Opd" \in Rule /\ "rhs" \in Label
      BY DEF Rule, Label
    <3> QED
      BY <1>1, <2>1, <3>1, <3>2, <3>3, CallsSameTyped
  <2>2. CASE Unexpected(TreeOf(Top.held[1]), 0)
    BY <1>1, <1>2, <2>2, FailuresTyped
  <2> QED
    BY <1>4, <2>1, <2>2 DEF AssignHasLhs
<1>5. CASE AssignEnds
  <2> DEFINE lhs == Top.held[1]
  <2>1. Returned /\ Top.at \notin EmptyHanded
    BY <1>5 DEF AssignEnds, At, Returned, WaitLabel, EmptyHanded
  <2>2. CASE GivesUp(TreeOf(lhs), 0) \/ Unexpected(TreeOf(res) \union TreeOf(lhs), 0)
    BY <1>1, <1>2, <2>2, FailuresTyped
  <2>3. CASE ~ Failed /\ Consumes /\ ReturnsNew("AsgnStmt", 0, <<lhs, res>>)
    <3>1. off' = off + 1 /\ UNCHANGED caller
      BY <2>3 DEF Consumes
    <3>2. <<lhs, res>> \in Seq(1 .. next - 1)
      BY <1>1, <2>1, <2>3, NodesAtHand
    <3> QED
      BY <1>1, <2>3, <3>1, <3>2, StatementsTyped, ReturnsNewTyped
  <2>4. CASE off' = off + 1 /\ Crashes
    BY <1>1, <2>4, CrashTyped
  <2> QED
    BY <1>5, <2>2, <2>3, <2>4 DEF AssignEnds
<1> QED
  BY <1>3, <1>4, <1>5 DEF AsgnStmt

LEMMA BlockTyped ==
  ASSUME TInv, IInv', Block
  PROVE  TInv'
<1>1. pc = "run" /\ stack # << >> /\ Top.rule = "Block"
  BY DEF Block, BlockStarts, BlockOpens, BlockLoops, BlockHasStmt, At
<1>2. 0 \in 0 .. next - 1 /\ next \in Nat
  BY <1>1, RunTyped
<1> DEFINE seq == Top.held[1]
<1>3. Top.at \in {"open", "loop", "stmt"} => seq \in 1 .. next - 1 /\ seq \in 0 .. next - 1
  BY <1>1, <1>2, NodesAtHand DEF EmptyHanded
<1>4. CASE BlockStarts
  <2>1. CASE Looks /\ Allocates(Object("Seq", 0, << >>)) /\ Stays("open", <<next>>)
    <3>1. off' = off /\ UNCHANGED caller /\ << >> \in Seq(1 .. next - 1)
      BY <2>1 DEF Looks, parser
    <3> QED
      BY <1>1, <2>1, <3>1, StatementsTyped, StaysNewTyped
  <2>2. CASE OutOfMemory({})
    BY <1>1, <1>2, <2>2, FailuresTyped
  <2> QED
    BY <1>4, <2>1, <2>2 DEF BlockStarts
<1>5. CASE BlockOpens
  <2>1. Top.at = "open"
    BY <1>5 DEF BlockOpens, At
  <2>2. CASE Consumes /\ Stays("loop", Top.held) /\ UNCHANGED memory
    <3>1. off' = off + 1 /\ UNCHANGED caller
      BY <2>2 DEF Consumes
    <3>2. HeapTyped /\ next' = next
      BY <1>1, <2>2, SameTyped
    <3> QED
      BY <1>1, <2>2, <3>1, <3>2, StaysSameTyped
  <2>3. CASE Unexpected(TreeOf(seq), seq)
    BY <1>1, <1>3, <2>1, <2>3, FailuresTyped
  <2> QED
    BY <1>5, <2>2, <2>3 DEF BlockOpens
<1>6. CASE BlockLoops
  <2>1. Top.at = "loop"
    BY <1>6 DEF BlockLoops, At
  <2>2. CASE Consumes /\ Returns(seq) /\ UNCHANGED memory
    BY <1>1, <1>3, <2>1, <2>2, ReturnsSameTyped DEF Consumes
  <2>3. CASE Looks /\ Calls(Frame("Stmt", 0), "stmt", Top.held, 0) /\ UNCHANGED memory
    <3>1. off' = off /\ UNCHANGED caller
      BY <2>3 DEF Looks, parser
    <3>2. Top.held \in Seq(1 .. next - 1) /\ 0 \in 0 .. off' /\ 0 \in 0 .. 8
      BY <1>1, <3>1, AheadTyped, NodesAtHand
    <3>3. "Stmt" \in Rule /\ "stmt" \in Label
      BY DEF Rule, Label
    <3> QED
      BY <1>1, <2>3, <3>1, <3>2, <3>3, CallsSameTyped
  <2> QED
    BY <1>6, <2>2, <2>3 DEF BlockLoops
<1>7. CASE BlockHasStmt
  <2>1. Top.at = "stmt" /\ Returned
    BY <1>7 DEF BlockHasStmt, At, Returned, WaitLabel
  <2>2. CASE \/ GivesUp(TreeOf(seq), seq)
             \/ Fails("NoEnoughMemory") /\ Frees({res} \union TreeOf(seq)) /\ Returns(seq)
    BY <1>1, <1>3, <2>1, <2>2, FailuresTyped
  <2>3. CASE ~ Failed /\ Looks /\ Pushes(seq, res) /\ Stays("loop", Top.held)
    <3>1. res \in 1 .. next - 1
      BY <1>1, <2>1, <2>3, NodesAtHand
    <3>2. HeapTyped /\ next' = next
      BY <1>1, <1>3, <2>1, <2>3, <3>1, PushesTyped
    <3>3. off' = off /\ UNCHANGED caller
      BY <2>3 DEF Looks, parser
    <3> QED
      BY <1>1, <2>3, <3>2, <3>3, StaysSameTyped
  <2> QED
    BY <1>7, <2>2, <2>3 DEF BlockHasStmt
<1> QED
  BY <1>4, <1>5, <1>6, <1>7 DEF Block

LEMMA BlockStmtTyped ==
  ASSUME TInv, IInv', BlockStmt
  PROVE  TInv'
<1>1. pc = "run" /\ stack # << >>
  BY DEF BlockStmt, BlockStmtStarts, BlockStmtEnds, At
<1>2. 0 \in 0 .. next - 1
  BY <1>1, RunTyped
<1>3. CASE BlockStmtStarts
  <2>1. /\ off' = off /\ UNCHANGED caller /\ UNCHANGED memory
        /\ Calls(Frame("Block", 0), "block", << >>, 0)
    BY <1>3 DEF BlockStmtStarts, Looks, parser
  <2>2. << >> \in Seq(1 .. next - 1) /\ 0 \in 0 .. off' /\ 0 \in 0 .. 8
    BY <1>1, <2>1, AheadTyped
  <2>3. "Block" \in Rule /\ "block" \in Label
    BY DEF Rule, Label
  <2> QED
    BY <1>1, <2>1, <2>2, <2>3, CallsSameTyped
<1>4. CASE BlockStmtEnds
  <2>1. Returned
    BY <1>4 DEF BlockStmtEnds, At, Returned, WaitLabel
  <2>2. CASE GivesUp({}, 0) \/ OutOfMemory({})
    BY <1>1, <1>2, <2>2, FailuresTyped
  <2>3. CASE ~ Failed /\ Looks /\ ReturnsNew("BlockStmt", 0, <<res>>)
    <3>1. off' = off /\ UNCHANGED caller
      BY <2>3 DEF Looks, parser
    <3>2. <<res>> \in Seq(1 .. next - 1)
      BY <1>1, <2>1, <2>3, NodesAtHand
    <3> QED
      BY <1>1, <2>3, <3>1, <3>2, StatementsTyped, ReturnsNewTyped
  <2> QED
    BY <1>4, <2>2, <2>3 DEF BlockStmtEnds
<1> QED
  BY <1>3, <1>4 DEF BlockStmt

LEMMA IfTyped ==
  ASSUME TInv, IInv', IfStmt
  PROVE  TInv'
<1>1. pc = "run" /\ stack # << >> /\ Top.rule = "IfStmt"
  BY DEF IfStmt, IfStarts, IfHasCond, IfHasThen, IfHasElse, At
<1>2. 0 \in 0 .. next - 1
  BY <1>1, RunTyped
<1>3. {"cond", "then", "else"} \subseteq Label /\ {"Opd", "BlockStmt"} \subseteq Rule
  BY DEF Label, Rule
<1>4. CASE IfStarts
  <2>1. CASE Consumes /\ Calls(Expr, "cond", << >>, 0) /\ UNCHANGED memory
    <3>1. off' = off + 1 /\ UNCHANGED caller /\ Calls(Frame("Opd", 8), "cond", << >>, 0)
      BY <2>1 DEF Consumes, Expr, Opd
    <3>2. << >> \in Seq(1 .. next - 1) /\ 0 \in 0 .. off' /\ 8 \in 0 .. 8
      BY <1>1, <3>1, AheadTyped
    <3> QED
      BY <1>1, <1>3, <2>1, <3>1, <3>2, CallsSameTyped
  <2>2. CASE Unexpected({}, 0)
    BY <1>1, <1>2, <2>2, FailuresTyped
  <2> QED
    BY <1>4, <2>1, <2>2 DEF IfStarts
<1>5. CASE IfHasCond
  <2>1. Returned
    BY <1>5 DEF IfHasCond, At, Returned, WaitLabel
  <2>2. CASE GivesUp({}, 0)
    BY <1>1, <1>2, <2>2, FailuresTyped
  <2>3. CASE /\ ~ Failed
             /\ Looks
             /\ Calls(Frame("BlockStmt", 0), "then", <<res>>, 0)
             /\ UNCHANGED memory
    <3>1. off' = off /\ UNCHANGED caller
      BY <2>3 DEF Looks, parser
    <3>2. <<res>> \in Seq(1 .. next - 1) /\ 0 \in 0 .. off' /\ 0 \in 0 .. 8
      BY <1>1, <2>1, <2>3, <3>1, NodesAtHand, AheadTyped
    <3> QED
      BY <1>1, <1>3, <2>3, <3>1, <3>2, CallsSameTyped
  <2> QED
    BY <1>5, <2>2, <2>3 DEF IfHasCond
<1>6. CASE IfHasThen
  <2> DEFINE cond == Top.held[1]
  <2>1. Returned /\ Top.at \notin EmptyHanded
    BY <1>6 DEF IfHasThen, At, Returned, WaitLabel, EmptyHanded
  <2>2. CASE GivesUp(TreeOf(cond), 0) \/ OutOfMemory(TreeOf(res) \union TreeOf(cond))
    BY <1>1, <1>2, <2>2, FailuresTyped
  <2>3. CASE /\ ~ Failed
             /\ Consumes
             /\ Calls(Frame("BlockStmt", 0), "else", <<cond, res>>, 0)
             /\ UNCHANGED memory
    <3>1. off' = off + 1 /\ UNCHANGED caller
      BY <2>3 DEF Consumes
    <3>2. <<cond, res>> \in Seq(1 .. next - 1) /\ 0 \in 0 .. off' /\ 0 \in 0 .. 8
      BY <1>1, <2>1, <2>3, <3>1, NodesAtHand, AheadTyped
    <3> QED
      BY <1>1, <1>3, <2>3, <3>1, <3>2, CallsSameTyped
  <2>4. CASE ~ Failed /\ Looks /\ ReturnsNew("IfStmt", 0, <<cond, res>>)
    <3>1. off' = off /\ UNCHANGED caller
      BY <2>4 DEF Looks, parser
    <3>2. <<cond, res>> \in Seq(1 .. next - 1)
      BY <1>1, <2>1, <2>4, NodesAtHand
    <3> QED
      BY <1>1, <2>4, <3>1, <3>2, StatementsTyped, ReturnsNewTyped
  <2> QED
    BY <1>6, <2>2, <2>3, <2>4 DEF IfHasThen
<1>7. CASE IfHasElse
  <2> DEFINE both == TreeOf(Top.held[1]) \union TreeOf(Top.held[2])
  <2>1. Returned
    BY <1>7 DEF IfHasElse, At, Returned, WaitLabel
  <2>2. CASE GivesUp(both, 0) \/ OutOfMemory(TreeOf(res) \union both)
    BY <1>1, <1>2, <2>2, FailuresTyped
  <2>3. CASE ~ Failed /\ Looks /\ ReturnsNew("IfElseStmt", 0, Append(Top.held, res))
    <3>1. off' = off /\ UNCHANGED caller
      BY <2>3 DEF Looks, parser
    <3>2. Append(Top.held, res) \in Seq(1 .. next - 1)
      <4>1. Top.held \in Seq(1 .. next - 1) /\ res \in 1 .. next - 1
        BY <1>1, <2>1, <2>3, NodesAtHand
      <4> QED
        BY <4>1
    <3> QED
      BY <1>1, <2>3, <3>1, <3>2, StatementsTyped, ReturnsNewTyped
  <2> QED
    BY <1>7, <2>2, <2>3 DEF IfHasElse
<1> QED
  BY <1>4, <1>5, <1>6, <1>7 DEF IfStmt

LEMMA StmtTyped ==
  ASSUME TInv, IInv', StmtStarts
  PROVE  TInv'
<1>1. pc = "run" /\ stack # << >>
  BY DEF StmtStarts, At
<1>2. CASE Peek = "NULL" /\ Crashes /\ UNCHANGED <<off, err>>
  BY <1>1, <1>2, CrashTyped
<1>3. CASE /\ Peek \in {"Name", "If", "LeftBrace"}
           /\ Looks
           /\ Becomes(Frame(StmtRule(Peek), 0))
           /\ UNCHANGED memory
  <2>1. StmtRule(Peek) \in Rule /\ 0 \in 0 .. 8
    BY <1>3 DEF StmtRule, Rule
  <2>2. off' = off /\ UNCHANGED caller
    BY <1>3 DEF Looks, parser
  <2> QED
    BY <1>1, <1>3, <2>1, <2>2, BecomesSameTyped
<1>4. CASE Unexpected({}, 0)
  <2>1. 0 \in 0 .. next - 1
    BY <1>1, RunTyped
  <2> QED
    BY <1>1, <1>4, <2>1, FailuresTyped
<1> QED
  BY <1>2, <1>3, <1>4 DEF StmtStarts

LEMMA ProgTyped ==
  ASSUME TInv, IInv', Prog
  PROVE  TInv'
<1>1. pc = "run" /\ stack # << >> /\ Top.rule = "Prog"
  BY DEF Prog, ProgStarts, ProgLoops, ProgHasStmt, At
<1>2. 0 \in 0 .. next - 1 /\ next \in Nat
  BY <1>1, RunTyped
<1> DEFINE prog == Top.held[1]
<1>3. Top.at \in {"loop", "stmt"} => prog \in 1 .. next - 1
  BY <1>1, <1>2, NodesAtHand DEF EmptyHanded
<1>4. CASE ProgStarts
  <2>1. CASE Looks /\ Allocates(Object("Prog", 0, << >>)) /\ Stays("loop", <<next>>)
    <3>1. off' = off /\ UNCHANGED caller /\ << >> \in Seq(1 .. next - 1)
      BY <2>1 DEF Looks, parser
    <3> QED
      BY <1>1, <2>1, <3>1, StatementsTyped, StaysNewTyped
  <2>2. CASE OutOfMemory({})
    BY <1>1, <1>2, <2>2, FailuresTyped
  <2> QED
    BY <1>4, <2>1, <2>2 DEF ProgStarts
<1>5. CASE ProgLoops
  <2>1. Top.at = "loop"
    BY <1>5 DEF ProgLoops, At
  <2>2. CASE Consumes /\ Returns(prog) /\ UNCHANGED memory
    BY <1>1, <1>3, <2>1, <2>2, ReturnsSameTyped DEF Consumes
  <2>3. CASE Looks /\ Calls(Frame("Stmt", 0), "stmt", Top.held, 0) /\ UNCHANGED memory
    <3>1. off' = off /\ UNCHANGED caller
      BY <2>3 DEF Looks, parser
    <3>2. Top.held \in Seq(1 .. next - 1) /\ 0 \in 0 .. off' /\ 0 \in 0 .. 8
      BY <1>1, <3>1, AheadTyped, NodesAtHand
    <3>3. "Stmt" \in Rule /\ "stmt" \in Label
      BY DEF Rule, Label
    <3> QED
      BY <1>1, <2>3, <3>1, <3>2, <3>3, CallsSameTyped
  <2> QED
    BY <1>5, <2>2, <2>3 DEF ProgLoops
<1>6. CASE ProgHasStmt
  <2>1. Top.at = "stmt" /\ Returned
    BY <1>6 DEF ProgHasStmt, At, Returned, WaitLabel
  <2>2. CASE GivesUp(TreeOf(prog), 0) \/ OutOfMemory(TreeOf(res) \union TreeOf(prog))
    BY <1>1, <1>2, <2>2, FailuresTyped
  <2>3. CASE ~ Failed /\ Looks /\ Pushes(prog, res) /\ Stays("loop", Top.held)
    <3>1. res \in 1 .. next - 1
      BY <1>1, <2>1, <2>3, NodesAtHand
    <3>2. HeapTyped /\ next' = next
      BY <1>1, <1>3, <2>1, <2>3, <3>1, PushesTyped
    <3>3. off' = off /\ UNCHANGED caller
      BY <2>3 DEF Looks, parser
    <3> QED
      BY <1>1, <2>3, <3>2, <3>3, StaysSameTyped
  <2> QED
    BY <1>6, <2>2, <2>3 DEF ProgHasStmt
<1> QED
  BY <1>4, <1>5, <1>6 DEF Prog

-----------------------------------------------------------------------------
(* So do Parser_Parse's return and the caller. *)

LEMMA ReturnTyped ==
  ASSUME TInv, IInv', ParseReturns
  PROVE  TInv'
<1>1. /\ stack = << >> /\ stack' = stack /\ toks' = toks /\ off' = off /\ res' = res
      /\ heap' = heap /\ next' = next /\ misfreed' = misfreed /\ mark' = mark
      /\ astray' = astray /\ calls' = calls
      /\ \/ pc' = "done" /\ ret' \in BOOLEAN /\ tree' = res
         \/ pc' = "crashed" /\ ret' = ret /\ tree' = tree
  BY DEF ParseReturns, Crashes, memory
<1>2. TypeOK
  BY DEF TInv
<1>3. err' \in [type : ParErr, msg : Nat, tok : Nat]
  BY DEF IInv, Typed
<1>4. TypeOK'
  BY <1>1, <1>2, <1>3 DEF TypeOK
<1>5. stack' \in Seq(FramesOf(next', off', toks'))
  BY <1>1
<1> QED
  BY <1>1, <1>4, <1>5 DEF TInv

LEMMA CallerTyped ==
  ASSUME TInv, IInv', Parse \/ Reset \/ FreeTree \/ \E p \in Program : Link(p)
  PROVE  TInv'
<1>1. pc \in {"idle", "done"} /\ TypeOK /\ stack = << >>
  BY DEF TInv, Parse, Reset, FreeTree, Link
<1>2. next \in Nat \ {0} /\ off \in Nat /\ calls \in Nat /\ MaxParse \in Nat
  BY <1>1, ParserAssumption DEF TypeOK
<1>3. CASE \E p \in Program : Link(p)
  <2>1. PICK p \in Program : Link(p)
    BY <1>3
  <2>2. TypeOK'
    BY <1>1, <2>1 DEF Link, TypeOK, memory
  <2> QED
    BY <1>1, <2>1, <2>2 DEF TInv, Link
<1>4. CASE Parse
  <2>1. /\ toks' = toks /\ off' = off /\ err' = err /\ res' = res /\ tree' = tree
        /\ heap' = heap /\ next' = next /\ misfreed' = misfreed
        /\ calls < MaxParse /\ calls' = calls + 1
    BY <1>4 DEF Parse, parser, memory
  <2>2. calls' \in 0 .. MaxParse
    BY <1>2, <2>1
  <2>3. CASE pc' = "done" /\ ret' = FALSE /\ UNCHANGED <<stack, mark, astray>>
    <3>1. TypeOK'
      BY <1>1, <2>1, <2>2, <2>3 DEF TypeOK
    <3> QED
      BY <1>1, <2>1, <2>3, <3>1 DEF TInv
  <2>4. CASE /\ pc' = "run"
             /\ stack' = <<Frame("Prog", 0)>>
             /\ mark' = next
             /\ astray' = (off # 0 \/ Failed)
             /\ UNCHANGED ret
    <3> DEFINE f == Frame("Prog", 0)
    <3>1. f \in FramesOf(next, off, toks) /\ f.at = "start"
      <4>1. "Prog" \in Rule /\ 0 \in 0 .. 8
        BY DEF Rule
      <4> QED
        BY <1>2, <4>1, StartTyped
    <3>2. FramesOf(next, off, toks) \subseteq
            [rule : Rule, lvl : 0 .. 8, at : Label, held : Seq(1 .. next - 1), tok : 0 .. off]
      BY DEF FramesOf
    <3>3. stack' = <<f>>
      BY <2>4
    <3> HIDE DEF f
    <3>4. stack' \in Seq(FramesOf(next', off', toks')) /\ ~ Returned'
      BY <2>1, <3>1, <3>3 DEF Returned, Top, WaitLabel
    <3>5. stack' \in Seq([rule : Rule, lvl : 0 .. 8, at : Label, held : Seq(1 .. next' - 1),
                          tok : 0 .. off'])
      BY <2>1, <3>1, <3>2, <3>3
    <3>6. mark' \in 1 .. next' /\ astray' \in BOOLEAN
      BY <1>2, <2>1, <2>4
    <3>7. TypeOK'
      BY <1>1, <2>1, <2>2, <2>4, <3>5, <3>6 DEF TypeOK
    <3> QED
      BY <2>4, <3>4, <3>7 DEF TInv
  <2> QED
    BY <1>4, <2>3, <2>4 DEF Parse
<1>5. CASE Reset
  <2>1. err' \in [type : ParErr, msg : Nat, tok : Nat]
    BY DEF IInv, Typed
  <2>2. TypeOK'
    BY <1>1, <1>5, <2>1 DEF Reset, TypeOK, memory
  <2> QED
    BY <1>1, <1>5, <2>2 DEF TInv, Reset
<1>6. CASE FreeTree
  <2>1. HeapOf(heap', next) /\ misfreed' \in BOOLEAN /\ next' = next
    BY <1>1, <1>6 DEF FreeTree, Frees, TypeOK, HeapOf, Restrict
  <2>2. 0 \in 0 .. next' - 1
    BY <1>2, <2>1
  <2>3. TypeOK'
    BY <1>1, <1>6, <2>1, <2>2 DEF FreeTree, TypeOK, parser, HeapOf
  <2> QED
    BY <1>1, <1>6, <2>3 DEF TInv, FreeTree
<1> QED
  BY <1>3, <1>4, <1>5, <1>6

LEMMA InitTyped == Init => TInv
<1> SUFFICES ASSUME Init PROVE TInv
  OBVIOUS
<1>1. toks = << >> /\ off = 0 /\ err = NoErr /\ pc = "idle" /\ stack = << >> /\ res = 0
  BY DEF Init
<1>2. /\ ret = FALSE /\ tree = 0 /\ heap = << >> /\ next = 1 /\ misfreed = FALSE
      /\ mark = 1 /\ astray = FALSE /\ calls = 0
  BY DEF Init
<1>3. \A S : stack \in Seq(S)
  BY <1>1
<1>4. DOMAIN heap = {}
  BY <1>2
<1>5. res \in 0 .. next - 1 /\ tree \in 0 .. next - 1 /\ mark \in 1 .. next
  BY <1>1, <1>2
<1>6. calls \in 0 .. MaxParse
  BY <1>2, ParserAssumption
<1>7. err \in [type : ParErr, msg : Nat, tok : Nat]
  BY <1>1 DEF NoErr, ParErr
<1>8. TypeOK
  <2>1. /\ toks \in Program \union {<< >>} /\ off \in Nat
        /\ pc \in {"idle", "run", "done", "crashed"}
    BY <1>1
  <2>2. ret \in BOOLEAN /\ misfreed \in BOOLEAN /\ astray \in BOOLEAN
    BY <1>2, Zenon
  <2>3. next \in Nat \ {0}
    BY <1>2
  <2>4. DOMAIN heap \subseteq 1 .. next - 1
    BY <1>4
  <2> QED
    BY <1>3, <1>4, <1>5, <1>6, <1>7, <2>1, <2>2, <2>3, <2>4, Zenon DEF TypeOK
<1>9. IInv
  BY InitIInv
<1> QED
  BY <1>1, <1>3, <1>8, <1>9 DEF TInv

LEMMA NextTyped ==
  ASSUME TInv, [Next]_vars
  PROVE  TInv'
<1>1. IInv'
  BY StepIInv DEF TInv
<1>2. CASE UNCHANGED vars
  BY <1>1, <1>2 DEF TInv, TypeOK, Returned, Top, Failed, vars
<1>3. CASE Next
  BY <1>1, <1>3, BaseTyped, UnaryTyped, BinaryTyped, AsgnTyped, BlockTyped, BlockStmtTyped,
     IfTyped, StmtTyped, ProgTyped, ReturnTyped, CallerTyped
     DEF Next, ParserStep
<1> QED
  BY <1>2, <1>3

(* The parser's fields, its stack and the nodes are what the declarations
   of parser.c:16-32 and ast.h:8-49 allow: every rule hands back a node, and
   an operator's token is one of its level's table (rule.c:100-490). *)
THEOREM TypeCorrect == Spec => []TypeOK
<1>1. TInv => TypeOK
  BY DEF TInv
<1> QED
  BY <1>1, InitTyped, NextTyped, PTL DEF Spec

-----------------------------------------------------------------------------
(* Ownership.  The nodes below r in heap h are allocated, each one but r   *)
(* has one parent among them, and none is twice a child.                   *)
Parents(h, ids, i) == {j \in ids : i \in Range(h[j].kids)}

Shaped(h, r) ==
  /\ r \in DOMAIN h /\ r \in h[r].ids /\ h[r].ids \subseteq DOMAIN h
  /\ \A i \in h[r].ids : IsInjective(h[i].kids) /\ Range(h[i].kids) \subseteq h[r].ids \ {r}
  /\ \A i \in h[r].ids \ {r} : \E j \in h[r].ids : Parents(h, h[r].ids, i) = {j}

(* The trees of the nodes hs, and of all that the frames s hold. *)
Owns(h, hs) == UNION {h[hs[j]].ids : j \in DOMAIN hs}

Trees(h, s) == UNION {Owns(h, s[k].held) : k \in DOMAIN s}

(* The nodes hs are roots of trees apart, made since the mark m. *)
Apart(h, hs, m) ==
  /\ \A j \in DOMAIN hs : Shaped(h, hs[j]) /\ \A i \in h[hs[j]].ids : i >= m
  /\ \A a, b \in DOMAIN hs : a # b => h[hs[a]].ids \cap h[hs[b]].ids = {}

AllApart(h, s, m) ==
  /\ \A k \in DOMAIN s : Apart(h, s[k].held, m)
  /\ \A k, l \in DOMAIN s : k # l => Owns(h, s[k].held) \cap Owns(h, s[l].held) = {}

Fresh(h, m) == {i \in DOMAIN h : i >= m}

Arity(at) == IF at \in EmptyHanded THEN 0 ELSE IF at = "else" THEN 2 ELSE 1

(* Every frame holds as many nodes as its label says, all but the running  *)
(* rule wait for another one, and the outermost is Prog.                   *)
Stacked(s) ==
  \A k \in 1 .. Len(s) :
    /\ Len(s[k].held) = Arity(s[k].at)
    /\ k # 1 => s[k].at \in WaitLabel
    /\ k = Len(s) => s[k].rule = "Prog"

(* What the last call returned, if it did not fail. *)
Live == IF Returned /\ ~ Failed THEN <<res>> ELSE << >>

(* The rules running own trees apart, which are all that was allocated     *)
(* since the Parse began as long as nothing failed, and not the caller's.  *)
RunOwned ==
  /\ Stacked(stack)
  /\ tree # 0 => \A i \in heap[tree].ids : i < mark
  /\ AllApart(heap, stack, mark)
  /\ Apart(heap, Live, mark)
  /\ Owns(heap, Live) \cap Trees(heap, stack) = {}
  /\ ~ Failed /\ ~ astray => Fresh(heap, mark) \subseteq Owns(heap, Live) \union Trees(heap, stack)
  /\ stack = << >> /\ Failed => res = 0 \/ (astray /\ Shaped(heap, res))

OInv ==
  /\ TInv
  /\ ~ misfreed
  /\ tree # 0 => Shaped(heap, tree)
  /\ pc = "run" => RunOwned
  /\ Parsed /\ ~ ret => tree = 0
  /\ Parsed /\ ret => tree # 0 /\ Fresh(heap, mark) = heap[tree].ids

(* What is below r stays so in a heap with the same objects there. *)
Agree(h, g, S) == \A i \in S : i \in DOMAIN g /\ g[i] = h[i]

LEMMA ShapedStays ==
  ASSUME NEW h, NEW g, NEW r, Shaped(h, r), Agree(h, g, h[r].ids)
  PROVE  Shaped(g, r) /\ g[r].ids = h[r].ids
<1> DEFINE ids == h[r].ids
<1>1. r \in ids /\ \A i \in ids : i \in DOMAIN g /\ g[i] = h[i]
  BY DEF Shaped, Agree
<1>2. g[r].ids = ids
  BY <1>1
<1>3. \A i : Parents(g, ids, i) = Parents(h, ids, i)
  BY <1>1 DEF Parents
<1>4. /\ \A i \in ids : IsInjective(h[i].kids) /\ Range(h[i].kids) \subseteq ids \ {r}
      /\ \A i \in ids \ {r} : \E j \in ids : Parents(h, ids, i) = {j}
  BY DEF Shaped
<1> HIDE DEF ids
<1>5. \A i \in ids : IsInjective(g[i].kids) /\ Range(g[i].kids) \subseteq ids \ {r}
  BY <1>1, <1>4
<1>6. \A i \in ids \ {r} : \E j \in ids : Parents(g, ids, i) = {j}
  BY <1>3, <1>4
<1> QED
  BY <1>1, <1>2, <1>5, <1>6 DEF Shaped, ids

LEMMA ApartStays ==
  ASSUME NEW h, NEW g, NEW hs, NEW m, Apart(h, hs, m), Agree(h, g, Owns(h, hs))
  PROVE  Apart(g, hs, m) /\ Owns(g, hs) = Owns(h, hs)
<1>1. ASSUME NEW j \in DOMAIN hs
      PROVE  Shaped(g, hs[j]) /\ g[hs[j]].ids = h[hs[j]].ids
  <2>1. Shaped(h, hs[j]) /\ Agree(h, g, h[hs[j]].ids)
    BY <1>1 DEF Apart, Agree, Owns
  <2> QED
    BY <2>1, ShapedStays
<1>2. Owns(g, hs) = Owns(h, hs)
  BY <1>1 DEF Owns
<1>3. Apart(g, hs, m)
  BY <1>1 DEF Apart
<1> QED
  BY <1>2, <1>3

LEMMA AllApartStay ==
  ASSUME NEW h, NEW g, NEW s, NEW m, AllApart(h, s, m), Agree(h, g, Trees(h, s))
  PROVE  AllApart(g, s, m) /\ Trees(g, s) = Trees(h, s)
<1>1. ASSUME NEW k \in DOMAIN s
      PROVE  Apart(g, s[k].held, m) /\ Owns(g, s[k].held) = Owns(h, s[k].held)
  <2>1. Apart(h, s[k].held, m) /\ Agree(h, g, Owns(h, s[k].held))
    BY <1>1 DEF AllApart, Agree, Trees
  <2> QED
    BY <2>1, ApartStays
<1>2. Trees(g, s) = Trees(h, s)
  BY <1>1 DEF Trees
<1>3. AllApart(g, s, m)
  BY <1>1 DEF AllApart
<1> QED
  BY <1>2, <1>3

(* Trees apart are allocated, and as young as the mark says. *)
LEMMA ApartAllocated ==
  ASSUME NEW h, NEW hs, NEW m, Apart(h, hs, m)
  PROVE  Owns(h, hs) \subseteq Fresh(h, m)
BY DEF Apart, Owns, Shaped, Fresh

LEMMA AllApartAllocated ==
  ASSUME NEW h, NEW s, NEW m, AllApart(h, s, m)
  PROVE  Trees(h, s) \subseteq Fresh(h, m)
<1>1. \A k \in DOMAIN s : Owns(h, s[k].held) \subseteq Fresh(h, m)
  BY ApartAllocated DEF AllApart
<1> QED
  BY <1>1 DEF Trees

-----------------------------------------------------------------------------
(* Few nodes. *)

LEMMA ApartNone ==
  ASSUME NEW h, NEW m
  PROVE  Apart(h, << >>, m) /\ Owns(h, << >>) = {}
BY DEF Apart, Owns

LEMMA ApartOne ==
  ASSUME NEW h, NEW m, NEW r, Shaped(h, r), \A i \in h[r].ids : i >= m
  PROVE  Apart(h, <<r>>, m)
<1>1. DOMAIN <<r>> = {1} /\ <<r>>[1] = r
  OBVIOUS
<1> HIDE DEF Shaped
<1> QED
  BY <1>1 DEF Apart

LEMMA OwnsOne ==
  ASSUME NEW h, NEW r
  PROVE  Owns(h, <<r>>) = h[r].ids
<1>1. DOMAIN <<r>> = {1} /\ <<r>>[1] = r
  OBVIOUS
<1> QED
  BY <1>1 DEF Owns

LEMMA AppendParts ==
  ASSUME NEW S, NEW s \in Seq(S), NEW r \in S
  PROVE  /\ DOMAIN Append(s, r) = DOMAIN s \union {Len(s) + 1}
         /\ Len(s) + 1 \notin DOMAIN s
         /\ Append(s, r)[Len(s) + 1] = r
         /\ \A j \in DOMAIN s : Append(s, r)[j] = s[j]
<1>1. DOMAIN s = 1 .. Len(s) /\ Len(s) \in Nat
  OBVIOUS
<1>2. DOMAIN Append(s, r) = 1 .. Len(s) + 1
  OBVIOUS
<1>3. 1 .. Len(s) + 1 = 1 .. Len(s) \union {Len(s) + 1}
  BY <1>1
<1>4. Len(s) + 1 \notin DOMAIN s
  BY <1>1
<1>5. Append(s, r)[Len(s) + 1] = r /\ \A j \in 1 .. Len(s) : Append(s, r)[j] = s[j]
  OBVIOUS
<1> QED
  BY <1>1, <1>2, <1>3, <1>4, <1>5

LEMMA ApartAppend ==
  ASSUME NEW h, NEW m, NEW S, NEW s \in Seq(S), NEW r \in S,
         Apart(h, s, m), Apart(h, <<r>>, m), Owns(h, s) \cap Owns(h, <<r>>) = {}
  PROVE  Apart(h, Append(s, r), m) /\ Owns(h, Append(s, r)) = Owns(h, s) \union Owns(h, <<r>>)
<1> DEFINE t == Append(s, r)
           n == Len(s) + 1
<1>1. /\ DOMAIN t = DOMAIN s \union {n}
      /\ n \notin DOMAIN s
      /\ t[n] = r
      /\ \A j \in DOMAIN s : t[j] = s[j]
  BY AppendParts
<1>2. Owns(h, <<r>>) = h[r].ids
  BY OwnsOne
<1>3. Shaped(h, r) /\ \A i \in h[r].ids : i >= m
  <2>1. DOMAIN <<r>> = {1} /\ <<r>>[1] = r
    OBVIOUS
  <2> QED
    BY <2>1 DEF Apart
<1> HIDE DEF t, n
<1>4. Owns(h, t) = Owns(h, s) \union h[r].ids
  BY <1>1 DEF Owns
<1>5. \A j \in DOMAIN s : h[s[j]].ids \subseteq Owns(h, s)
  BY DEF Owns
<1>6. \A j \in DOMAIN t : Shaped(h, t[j]) /\ \A i \in h[t[j]].ids : i >= m
  BY <1>1, <1>3 DEF Apart
<1>7. ASSUME NEW a \in DOMAIN t, NEW b \in DOMAIN t, a # b
      PROVE  h[t[a]].ids \cap h[t[b]].ids = {}
  <2>1. CASE a \in DOMAIN s /\ b \in DOMAIN s
    BY <1>1, <1>7, <2>1 DEF Apart
  <2>2. CASE a = n \/ b = n
    BY <1>1, <1>2, <1>5, <1>7, <2>2
  <2> QED
    BY <1>1, <2>1, <2>2
<1> QED
  BY <1>2, <1>4, <1>6, <1>7 DEF Apart, t

-----------------------------------------------------------------------------
(* A stack is its first frame and the rest. *)

LEMMA ConsParts ==
  ASSUME NEW S, NEW f \in S, NEW t \in Seq(S)
  PROVE  LET s == <<f>> \o t
         IN  /\ s \in Seq(S) /\ s # << >> /\ Len(s) = Len(t) + 1 /\ Head(s) = f /\ Tail(s) = t
             /\ DOMAIN s = {1} \union {k + 1 : k \in DOMAIN t}
             /\ s[1] = f /\ \A k \in DOMAIN t : s[k + 1] = t[k] /\ k + 1 # 1
<1> DEFINE s == <<f>> \o t
<1>1. s \in Seq(S) /\ s # << >> /\ Len(s) = Len(t) + 1 /\ Head(s) = f
  OBVIOUS
<1>2. s[1] = f /\ \A k \in 1 .. Len(t) : s[k + 1] = t[k]
  OBVIOUS
<1>3. DOMAIN s = 1 .. Len(t) + 1 /\ DOMAIN t = 1 .. Len(t) /\ Len(t) \in Nat
  BY <1>1
<1>4. 1 .. Len(t) + 1 = {1} \union {k + 1 : k \in 1 .. Len(t)}
  <2>1. ASSUME NEW j \in 1 .. Len(t) + 1, j # 1
        PROVE  j \in {k + 1 : k \in 1 .. Len(t)}
    <3>1. j - 1 \in 1 .. Len(t) /\ j = (j - 1) + 1
      BY <1>3, <2>1
    <3> QED
      BY <3>1
  <2>2. \A k \in 1 .. Len(t) : k + 1 \in 1 .. Len(t) + 1
    BY <1>3
  <2>3. 1 \in 1 .. Len(t) + 1
    BY <1>3
  <2> QED
    BY <2>1, <2>2, <2>3
<1>5. Tail(s) = t
  OBVIOUS
<1>6. \A k \in 1 .. Len(t) : k + 1 # 1
  BY <1>3
<1> HIDE DEF s
<1> QED
  BY <1>1, <1>2, <1>3, <1>4, <1>5, <1>6 DEF s

LEMMA AllApartCons ==
  ASSUME NEW S, NEW f \in S, NEW t \in Seq(S), NEW h, NEW m,
         Apart(h, f.held, m), AllApart(h, t, m), Owns(h, f.held) \cap Trees(h, t) = {}
  PROVE  /\ AllApart(h, <<f>> \o t, m)
         /\ Trees(h, <<f>> \o t) = Owns(h, f.held) \union Trees(h, t)
<1> DEFINE s == <<f>> \o t
<1>1. /\ DOMAIN s = {1} \union {k + 1 : k \in DOMAIN t}
      /\ s[1] = f /\ \A k \in DOMAIN t : s[k + 1] = t[k]
  BY ConsParts
<1> HIDE DEF s
<1>2. Trees(h, s) = Owns(h, f.held) \union Trees(h, t)
  BY <1>1 DEF Trees
<1>3. \A k \in DOMAIN s : Apart(h, s[k].held, m)
  BY <1>1 DEF AllApart
<1>4. \A k \in DOMAIN t : Owns(h, t[k].held) \subseteq Trees(h, t)
  BY DEF Trees
<1>5. ASSUME NEW k \in DOMAIN s, NEW l \in DOMAIN s, k # l
      PROVE  Owns(h, s[k].held) \cap Owns(h, s[l].held) = {}
  <2>1. ASSUME NEW j \in DOMAIN s, j # 1
        PROVE  Owns(h, f.held) \cap Owns(h, s[j].held) = {}
    <3>1. PICK i \in DOMAIN t : s[j] = t[i]
      BY <1>1, <2>1
    <3> QED
      BY <1>4, <3>1
  <2>3. CASE k = 1 \/ l = 1
    BY <1>1, <1>5, <2>1, <2>3
  <2>2. CASE k # 1 /\ l # 1
    <3>1. PICK i \in DOMAIN t, j \in DOMAIN t : k = i + 1 /\ l = j + 1
      BY <1>1, <2>2
    <3>2. i # j
      BY <1>5, <3>1
    <3>3. s[k] = t[i] /\ s[l] = t[j]
      BY <1>1, <3>1
    <3> QED
      BY <3>2, <3>3 DEF AllApart
  <2> QED
    BY <2>2, <2>3
<1> QED
  BY <1>2, <1>3, <1>5 DEF AllApart, s

LEMMA AllApartTail ==
  ASSUME NEW S, NEW f \in S, NEW t \in Seq(S), NEW h, NEW m, AllApart(h, <<f>> \o t, m)
  PROVE  /\ Apart(h, f.held, m) /\ AllApart(h, t, m) /\ Owns(h, f.held) \cap Trees(h, t) = {}
         /\ Trees(h, <<f>> \o t) = Owns(h, f.held) \union Trees(h, t)
<1> DEFINE s == <<f>> \o t
<1>1. /\ DOMAIN s = {1} \union {k + 1 : k \in DOMAIN t}
      /\ s[1] = f /\ \A k \in DOMAIN t : s[k + 1] = t[k] /\ k + 1 # 1
  BY ConsParts
<1>2. DOMAIN t \subseteq Int
  OBVIOUS
<1>3. AllApart(h, s, m)
  OBVIOUS
<1> HIDE DEF s
<1>4. Trees(h, s) = Owns(h, f.held) \union Trees(h, t)
  <2>1. /\ DOMAIN s = {1} \union {k + 1 : k \in DOMAIN t}
        /\ s[1] = f /\ \A k \in DOMAIN t : s[k + 1] = t[k]
    BY <1>1
  <2> QED
    BY <2>1 DEF Trees
<1>5. Apart(h, f.held, m)
  BY <1>1, <1>3 DEF AllApart
<1>6. AllApart(h, t, m)
  <2>1. \A k \in DOMAIN t : Apart(h, t[k].held, m)
    BY <1>1, <1>3 DEF AllApart
  <2>2. ASSUME NEW k \in DOMAIN t, NEW l \in DOMAIN t, k # l
        PROVE  Owns(h, t[k].held) \cap Owns(h, t[l].held) = {}
    <3>1. k + 1 \in DOMAIN s /\ l + 1 \in DOMAIN s /\ k + 1 # l + 1
      BY <1>1, <1>2, <2>2
    <3>2. s[k + 1] = t[k] /\ s[l + 1] = t[l]
      BY <1>1
    <3> QED
      BY <1>3, <3>1, <3>2 DEF AllApart
  <2> QED
    BY <2>1, <2>2 DEF AllApart
<1>7. ASSUME NEW k \in DOMAIN t
      PROVE  Owns(h, f.held) \cap Owns(h, t[k].held) = {}
  <2>1. 1 \in DOMAIN s /\ k + 1 \in DOMAIN s /\ k + 1 # 1
    BY <1>1
  <2>2. s[1] = f /\ s[k + 1] = t[k]
    BY <1>1
  <2> QED
    BY <1>3, <2>1, <2>2 DEF AllApart
<1>8. Owns(h, f.held) \cap Trees(h, t) = {}
  BY <1>7 DEF Trees
<1> QED
  BY <1>4, <1>5, <1>6, <1>8 DEF s

(* Two frames before the rest, told by their places. *)
IsCons(s, f, t) == s = <<f>> \o t

TwoFirst(a, f, g, t, S) ==
  /\ a \in Seq(S) /\ Len(a) = Len(t) + 2
  /\ a[1] = f /\ a[2] = g /\ \A k \in 1 .. Len(t) : a[k + 2] = t[k]

LEMMA TwoPlaces ==
  ASSUME NEW S, NEW f \in S, NEW g \in S, NEW t \in Seq(S), NEW a, a = <<f, g>> \o t
  PROVE  TwoFirst(a, f, g, t, S)
<1> DEFINE b == <<f, g>> \o t
<1>1. /\ b \in Seq(S) /\ Len(b) = Len(t) + 2
      /\ b[1] = f /\ b[2] = g /\ \A k \in 1 .. Len(t) : b[k + 2] = t[k]
  OBVIOUS
<1>2. a = b
  OBVIOUS
<1> HIDE DEF b
<1> QED
  BY <1>1, <1>2 DEF TwoFirst

LEMMA ConsTwo ==
  ASSUME NEW S, NEW f \in S, NEW g \in S, NEW t \in Seq(S), NEW a,
         TwoFirst(a, f, g, t, S), NEW r, IsCons(r, g, t)
  PROVE  IsCons(a, f, r)
<1>1. /\ a \in Seq(S) /\ Len(a) = Len(t) + 2
      /\ a[1] = f /\ a[2] = g /\ \A k \in 1 .. Len(t) : a[k + 2] = t[k]
  BY DEF TwoFirst
<1> DEFINE b == <<f>> \o r
<1>2. r \in Seq(S) /\ Len(r) = Len(t) + 1 /\ r[1] = g /\ \A k \in 1 .. Len(t) : r[k + 1] = t[k]
  BY DEF IsCons
<1>3. b \in Seq(S) /\ Len(b) = Len(r) + 1 /\ b[1] = f /\ \A k \in 1 .. Len(r) : b[k + 1] = r[k]
  BY <1>2
<1>4. Len(t) \in Nat
  OBVIOUS
<1> HIDE DEF b
<1>5. Len(b) = Len(a)
  BY <1>1, <1>2, <1>3, <1>4
<1>6. ASSUME NEW k \in 1 .. Len(a) PROVE b[k] = a[k]
  <2>1. CASE k = 1
    BY <1>1, <1>3, <2>1
  <2>2. CASE k = 2
    <3>1. 1 \in 1 .. Len(r) /\ 2 = 1 + 1
      BY <1>2, <1>4
    <3>2. b[1 + 1] = r[1]
      BY <1>3, <3>1
    <3> QED
      BY <1>1, <1>2, <2>2, <3>2
  <2>3. CASE k # 1 /\ k # 2
    <3>1. k - 2 \in 1 .. Len(t) /\ k - 1 \in 1 .. Len(r) /\ k = (k - 2) + 2
          /\ k = (k - 1) + 1 /\ k - 1 = (k - 2) + 1
      BY <1>1, <1>2, <1>4, <2>3
    <3>2. a[k] = t[k - 2]
      BY <1>1, <3>1
    <3>3. r[k - 1] = t[k - 2]
      BY <1>2, <3>1
    <3>4. b[k] = r[k - 1]
      BY <1>3, <3>1
    <3> QED
      BY <3>2, <3>3, <3>4
  <2> QED
    BY <2>1, <2>2, <2>3
<1>7. a = b
  BY <1>1, <1>3, <1>5, <1>6
<1> QED
  BY <1>7 DEF b, IsCons

LEMMA StackedNone == Stacked(<< >>)
<1>1. 1 .. Len(<< >>) = {}
  OBVIOUS
<1> QED
  BY <1>1 DEF Stacked

LEMMA StackedCons ==
  ASSUME NEW S, NEW f \in S, NEW t \in Seq(S),
         Len(f.held) = Arity(f.at), t = << >> => f.rule = "Prog",
         t # << >> => Stacked(t) /\ t[1].at \in WaitLabel
  PROVE  Stacked(<<f>> \o t)
<1> DEFINE s == <<f>> \o t
<1>1. /\ s \in Seq(S) /\ Len(s) = Len(t) + 1
      /\ DOMAIN s = {1} \union {k + 1 : k \in DOMAIN t}
      /\ s[1] = f /\ \A k \in DOMAIN t : s[k + 1] = t[k] /\ k + 1 # 1
  BY ConsParts
<1>2. DOMAIN s = 1 .. Len(s) /\ DOMAIN t = 1 .. Len(t) /\ Len(t) \in Nat /\ (Len(t) = 0 => t = << >>)
  BY <1>1
<1> HIDE DEF s
<1>3. ASSUME NEW k \in 1 .. Len(s)
      PROVE  /\ Len(s[k].held) = Arity(s[k].at)
             /\ k # 1 => s[k].at \in WaitLabel
             /\ k = Len(s) => s[k].rule = "Prog"
  <2>1. CASE k = 1
    BY <1>1, <1>2, <2>1
  <2>2. CASE k # 1
    <3>1. PICK i \in 1 .. Len(t) : k = i + 1 /\ s[k] = t[i]
      BY <1>1, <1>2, <2>2
    <3>2. t # << >> /\ Stacked(t) /\ t[1].at \in WaitLabel
      BY <3>1
    <3>3. k = Len(s) => i = Len(t)
      <4>1. Len(s) = Len(t) + 1 /\ Len(t) \in Nat /\ i \in Int
        BY <1>1, <1>2, <3>1
      <4> QED
        BY <3>1, <4>1
    <3> QED
      BY <3>1, <3>2, <3>3 DEF Stacked
  <2> QED
    BY <2>1, <2>2
<1> QED
  BY <1>3 DEF Stacked, s

LEMMA StackedTail ==
  ASSUME NEW S, NEW f \in S, NEW t \in Seq(S), Stacked(<<f>> \o t)
  PROVE  /\ Len(f.held) = Arity(f.at) /\ (t = << >> => f.rule = "Prog")
         /\ t # << >> => Stacked(t) /\ t[1].at \in WaitLabel
<1> DEFINE s == <<f>> \o t
<1>1. /\ s \in Seq(S) /\ Len(s) = Len(t) + 1
      /\ DOMAIN s = {1} \union {k + 1 : k \in DOMAIN t}
      /\ s[1] = f /\ \A k \in DOMAIN t : s[k + 1] = t[k] /\ k + 1 # 1
  BY ConsParts
<1>2. DOMAIN s = 1 .. Len(s) /\ DOMAIN t = 1 .. Len(t) /\ Len(t) \in Nat
  BY <1>1
<1>3. t = << >> => Len(t) = 0
  OBVIOUS
<1>4. Stacked(s)
  OBVIOUS
<1> HIDE DEF s
<1>5. 1 \in 1 .. Len(s)
  BY <1>1, <1>2
<1>6. \A k \in 1 .. Len(t) : k + 1 \in 1 .. Len(s) /\ (k = Len(t) => k + 1 = Len(s))
  BY <1>1, <1>2
<1>7. Len(f.held) = Arity(f.at) /\ (t = << >> => f.rule = "Prog")
  BY <1>1, <1>2, <1>3, <1>4, <1>5 DEF Stacked
<1>8. ASSUME NEW k \in 1 .. Len(t)
      PROVE  /\ Len(t[k].held) = Arity(t[k].at)
             /\ t[k].at \in WaitLabel
             /\ k = Len(t) => t[k].rule = "Prog"
  <2>1. k + 1 \in 1 .. Len(s) /\ (k = Len(t) => k + 1 = Len(s))
    BY <1>6
  <2>2. s[k + 1] = t[k] /\ k + 1 # 1
    BY <1>1, <1>2
  <2> QED
    BY <1>4, <2>1, <2>2 DEF Stacked
<1>9. t # << >> => 1 \in 1 .. Len(t)
  OBVIOUS
<1> QED
  BY <1>7, <1>8, <1>9 DEF Stacked

-----------------------------------------------------------------------------
(* The nodes the running rule has in hand: its locals and, after a call    *)
(* that did not fail, what it returned; and those of the other rules.      *)
Hands == IF Returned /\ ~ Failed THEN Append(Top.held, res) ELSE Top.held

Others == Trees(heap, Tail(stack))

LEMMA StackParts ==
  ASSUME OInv, pc = "run", stack # << >>
  PROVE  /\ Top \in FramesOf(next, off, toks) /\ Tail(stack) \in Seq(FramesOf(next, off, toks))
         /\ stack = <<Top>> \o Tail(stack)
         /\ Top.held \in Seq(Nat) /\ res \in Nat
<1>1. TInv
  BY DEF OInv
<1>2. Top \in FramesOf(next, off, toks) /\ Tail(stack) \in Seq(FramesOf(next, off, toks))
  BY <1>1, RunTyped
<1>3. stack \in Seq(FramesOf(next, off, toks))
  BY <1>1 DEF TInv
<1>4. stack = <<Head(stack)>> \o Tail(stack)
  BY <1>3
<1>5. res \in Nat /\ next \in Nat
  BY <1>1, RunTyped
<1>6. Top.held \in Seq(1 .. next - 1)
  BY <1>1, NodesAtHand
<1>7. Top.held \in Seq(Nat)
  <2>1. 1 .. next - 1 \subseteq Nat
    OBVIOUS
  <2> QED
    BY <1>6, <2>1, SeqOfMore
<1> QED
  BY <1>2, <1>4, <1>5, <1>7 DEF Top

LEMMA InHand ==
  ASSUME OInv, pc = "run", stack # << >>
  PROVE  /\ Apart(heap, Hands, mark)
         /\ AllApart(heap, Tail(stack), mark)
         /\ Owns(heap, Hands) \cap Others = {}
         /\ ~ Failed /\ ~ astray => Fresh(heap, mark) \subseteq Owns(heap, Hands) \union Others
         /\ Len(Top.held) = Arity(Top.at)
         /\ Tail(stack) = << >> => Top.rule = "Prog"
         /\ Tail(stack) # << >> => Stacked(Tail(stack)) /\ Tail(stack)[1].at \in WaitLabel
<1>1. RunOwned
  BY DEF OInv
<1> DEFINE f == Top
           t == Tail(stack)
           S == FramesOf(next, off, toks)
<1>2. f \in S /\ t \in Seq(S) /\ stack = <<f>> \o t /\ f.held \in Seq(Nat) /\ res \in Nat
  BY StackParts
<1> HIDE DEF f, t, S
<1>3. /\ Apart(heap, f.held, mark) /\ AllApart(heap, t, mark)
      /\ Owns(heap, f.held) \cap Trees(heap, t) = {}
      /\ Trees(heap, stack) = Owns(heap, f.held) \union Trees(heap, t)
  BY <1>1, <1>2, AllApartTail DEF RunOwned
<1>4. /\ Len(f.held) = Arity(f.at) /\ (t = << >> => f.rule = "Prog")
      /\ t # << >> => Stacked(t) /\ t[1].at \in WaitLabel
  BY <1>1, <1>2, StackedTail DEF RunOwned
<1>5. /\ Apart(heap, Live, mark) /\ Owns(heap, Live) \cap Trees(heap, stack) = {}
      /\ ~ Failed /\ ~ astray => Fresh(heap, mark) \subseteq Owns(heap, Live) \union Trees(heap, stack)
  BY <1>1 DEF RunOwned
<1>6. /\ Apart(heap, Hands, mark)
      /\ Owns(heap, Hands) = Owns(heap, f.held) \union Owns(heap, Live)
  <2>1. CASE Returned /\ ~ Failed
    <3>1. Hands = Append(f.held, res) /\ Live = <<res>>
      BY <2>1 DEF Hands, Live, f
    <3>2. Owns(heap, f.held) \cap Owns(heap, <<res>>) = {}
      BY <1>3, <1>5, <3>1
    <3> QED
      BY <1>2, <1>3, <1>5, <3>1, <3>2, ApartAppend
  <2>2. CASE ~ (Returned /\ ~ Failed)
    <3>1. Hands = f.held /\ Live = << >>
      BY <2>2 DEF Hands, Live, f
    <3> QED
      BY <1>3, <3>1, ApartNone
  <2> QED
    BY <2>1, <2>2
<1>7. Owns(heap, Hands) \cap Others = {}
  BY <1>3, <1>5, <1>6 DEF Others, t
<1>8. ~ Failed /\ ~ astray => Fresh(heap, mark) \subseteq Owns(heap, Hands) \union Others
  BY <1>3, <1>5, <1>6 DEF Others, t
<1> QED
  BY <1>3, <1>4, <1>6, <1>7, <1>8 DEF f, t

(* A step touches nothing but the nodes in hand. *)
Spares ==
  /\ ~ misfreed'
  /\ Agree(heap, heap', DOMAIN heap \ Owns(heap, Hands))

(* It leaves the nodes hs, and of new nodes only those below them. *)
Carries(hs) ==
  /\ Apart(heap', hs, mark)
  /\ Owns(heap', hs) \cap Others = {}
  /\ ~ Failed' /\ ~ astray => Fresh(heap', mark) \subseteq Owns(heap', hs) \union Others

LEMMA SparesRest ==
  ASSUME OInv, pc = "run", stack # << >>, Spares
  PROVE  /\ AllApart(heap', Tail(stack), mark) /\ Trees(heap', Tail(stack)) = Others
         /\ tree # 0 => Shaped(heap', tree) /\ \A i \in heap'[tree].ids : i < mark
<1> DEFINE t == Tail(stack)
<1>1. /\ AllApart(heap, t, mark) /\ Owns(heap, Hands) \cap Others = {} /\ Apart(heap, Hands, mark)
  BY InHand
<1>2. Others \subseteq DOMAIN heap
  BY <1>1, AllApartAllocated DEF Others, Fresh
<1>3. Agree(heap, heap', Trees(heap, t))
  BY <1>1, <1>2 DEF Spares, Agree, Others
<1>4. AllApart(heap', t, mark) /\ Trees(heap', t) = Others
  BY <1>1, <1>3, AllApartStay DEF Others
<1>5. ASSUME tree # 0
      PROVE  Shaped(heap', tree) /\ \A i \in heap'[tree].ids : i < mark
  <2>1. Shaped(heap, tree) /\ \A i \in heap[tree].ids : i < mark
    BY <1>5 DEF OInv, RunOwned
  <2>2. heap[tree].ids \subseteq DOMAIN heap /\ DOMAIN heap \subseteq Int
    BY <2>1 DEF Shaped, OInv, TInv, TypeOK
  <2>3. mark \in Int
    BY DEF OInv, TInv, TypeOK
  <2>4. \A i \in Owns(heap, Hands) : i >= mark
    BY <1>1, ApartAllocated DEF Fresh
  <2>5. \A i \in heap[tree].ids : i \in DOMAIN heap \ Owns(heap, Hands)
    <3>1. ASSUME NEW i \in heap[tree].ids PROVE i \notin Owns(heap, Hands)
      <4>1. i \in Int /\ i < mark
        BY <2>1, <2>2, <3>1
      <4> QED
        BY <2>3, <2>4, <4>1
    <3> QED
      BY <2>2, <3>1
  <2>6. Agree(heap, heap', heap[tree].ids)
    BY <2>5 DEF Spares, Agree
  <2>7. Shaped(heap', tree) /\ heap'[tree].ids = heap[tree].ids
    BY <2>1, <2>6, ShapedStays
  <2> QED
    BY <2>1, <2>7
<1> QED
  BY <1>4, <1>5 DEF t

(* Such a step and a move of the stack. *)
LEMMA MovedOwned ==
  ASSUME OInv, pc = "run", stack # << >>, TInv', UNCHANGED caller, Spares,
         Stacked(stack'), AllApart(heap', stack', mark),
         Apart(heap', Live', mark), Owns(heap', Live') \cap Trees(heap', stack') = {},
         ~ Failed' /\ ~ astray =>
           Fresh(heap', mark) \subseteq Owns(heap', Live') \union Trees(heap', stack'),
         stack' = << >> /\ Failed' => res' = 0 \/ (astray /\ Shaped(heap', res'))
  PROVE  OInv'
<1>1. /\ pc' = "run" /\ ret' = ret /\ tree' = tree /\ mark' = mark /\ astray' = astray
  BY DEF caller
<1>2. tree # 0 => Shaped(heap', tree) /\ \A i \in heap'[tree].ids : i < mark
  BY SparesRest
<1>3. RunOwned'
  BY <1>1, <1>2, Zenon DEF RunOwned
<1>4. ~ Parsed'
  BY <1>1 DEF Parsed
<1> QED
  BY <1>1, <1>2, <1>3, <1>4 DEF OInv, Spares

LEMMA ReturnsOwned ==
  ASSUME OInv, pc = "run", stack # << >>, TInv', UNCHANGED caller, Spares,
         NEW node, Returns(node), ~ Failed' => Carries(<<node>>),
         Top.rule = "Prog" /\ Failed' => node = 0 \/ (astray /\ Shaped(heap', node))
  PROVE  OInv'
<1> DEFINE t == Tail(stack)
<1>1. stack' = t /\ res' = node
  BY DEF Returns
<1>2. /\ t = << >> => Top.rule = "Prog"
      /\ t # << >> => Stacked(t) /\ t[1].at \in WaitLabel
  BY InHand
<1>3. AllApart(heap', t, mark) /\ Trees(heap', t) = Others
  BY SparesRest
<1>4. Stacked(stack')
  <2>1. t = << >> => Stacked(t)
    BY StackedNone
  <2> QED
    BY <1>1, <1>2, <2>1
<1>5. Returned'
  <2>1. t \in Seq(FramesOf(next, off, toks))
    BY StackParts
  <2>2. t # << >> => Head(t) = t[1]
    BY <2>1
  <2> QED
    BY <1>1, <1>2, <2>2 DEF Returned, Top
<1>6. Live' = IF ~ Failed' THEN <<node>> ELSE << >>
  BY <1>1, <1>5 DEF Live
<1> HIDE DEF t
<1>7. /\ Apart(heap', Live', mark) /\ Owns(heap', Live') \cap Trees(heap', stack') = {}
      /\ ~ Failed' /\ ~ astray =>
           Fresh(heap', mark) \subseteq Owns(heap', Live') \union Trees(heap', stack')
  <2>1. CASE Failed'
    <3>1. Live' = << >>
      BY <1>6, <2>1
    <3> QED
      BY <2>1, <3>1, ApartNone
  <2>2. CASE ~ Failed'
    <3>1. Live' = <<node>> /\ Carries(<<node>>)
      BY <1>6, <2>2
    <3> QED
      BY <1>1, <1>3, <2>2, <3>1 DEF Carries
  <2> QED
    BY <2>1, <2>2
<1>8. stack' = << >> /\ Failed' => res' = 0 \/ (astray /\ Shaped(heap', res'))
  BY <1>1, <1>2
<1> QED
  BY <1>1, <1>3, <1>4, <1>7, <1>8, MovedOwned

LEMMA ReplacedOwned ==
  ASSUME OInv, pc = "run", stack # << >>, TInv', UNCHANGED caller, Spares,
         NEW f, stack' = <<f>> \o Tail(stack), f.at \notin WaitLabel, Len(f.held) = Arity(f.at),
         Top.rule = "Prog" => f.rule = "Prog", Carries(f.held)
  PROVE  OInv'
<1> DEFINE t == Tail(stack)
           S == FramesOf(next, off, toks) \union {f}
           s == <<f>> \o t
<1>1. /\ t = << >> => Top.rule = "Prog"
      /\ t # << >> => Stacked(t) /\ t[1].at \in WaitLabel
  BY InHand
<1>2. AllApart(heap', t, mark) /\ Trees(heap', t) = Others
  BY SparesRest
<1>3. f \in S /\ t \in Seq(S)
  <2>1. t \in Seq(FramesOf(next, off, toks)) /\ FramesOf(next, off, toks) \subseteq S
    BY StackParts
  <2> QED
    BY <2>1, SeqOfMore
<1>4. Apart(heap', f.held, mark) /\ Owns(heap', f.held) \cap Trees(heap', t) = {}
  BY <1>2 DEF Carries
<1>5. stack' = s
  OBVIOUS
<1> HIDE DEF t, S
<1>6. AllApart(heap', s, mark) /\ Trees(heap', s) = Owns(heap', f.held) \union Trees(heap', t)
  BY <1>2, <1>3, <1>4, AllApartCons
<1>7. Stacked(s)
  BY <1>1, <1>3, StackedCons
<1>8. s # << >> /\ Head(s) = f
  BY <1>3, ConsParts
<1> HIDE DEF s
<1>9. Live' = << >>
  BY <1>5, <1>8 DEF Live, Returned, Top
<1>10. ~ Failed' /\ ~ astray =>
         Fresh(heap', mark) \subseteq Owns(heap', Live') \union Trees(heap', stack')
  BY <1>2, <1>5, <1>6 DEF Carries
<1>11. Apart(heap', Live', mark) /\ Owns(heap', Live') \cap Trees(heap', stack') = {}
  BY <1>9, ApartNone
<1> QED
  BY <1>5, <1>6, <1>7, <1>8, <1>10, <1>11, MovedOwned

(* A frame f is put on the stack, the running rule's frame is then g. *)
PutsTwo(f, g) == stack' = <<f, g>> \o Tail(stack)

LEMMA CalledOwned ==
  ASSUME OInv, pc = "run", stack # << >>, TInv', UNCHANGED caller, Spares,
         NEW f, NEW g, PutsTwo(f, g), f.at = "start", f.held = << >>,
         f.rule # "Prog", g.at \in WaitLabel, Len(g.held) = Arity(g.at),
         Top.rule = "Prog" => g.rule = "Prog", Carries(g.held)
  PROVE  OInv'
<1> DEFINE t == Tail(stack)
           S == FramesOf(next, off, toks) \union {f, g}
           r == <<g>> \o t
           s == <<f>> \o r
<1>1. /\ t = << >> => Top.rule = "Prog"
      /\ t # << >> => Stacked(t) /\ t[1].at \in WaitLabel
  BY InHand
<1>2. AllApart(heap', t, mark) /\ Trees(heap', t) = Others
  BY SparesRest
<1>3. f \in S /\ g \in S /\ t \in Seq(S)
  <2>1. t \in Seq(FramesOf(next, off, toks)) /\ FramesOf(next, off, toks) \subseteq S
    BY StackParts
  <2> QED
    BY <2>1, SeqOfMore
<1>4. Apart(heap', g.held, mark) /\ Owns(heap', g.held) \cap Trees(heap', t) = {}
  BY <1>2 DEF Carries
<1> HIDE DEF S
<1>5. TwoFirst(stack', f, g, t, S)
  <2>1. stack' = <<f, g>> \o t
    BY DEF PutsTwo
  <2> HIDE DEF t
  <2> QED
    BY <1>3, <2>1, TwoPlaces
<1> HIDE DEF t
<1>16. IsCons(r, g, t)
  BY DEF IsCons
<1> HIDE DEF r
<1>17. stack' = s
  <2>1. IsCons(stack', f, r)
    BY <1>3, <1>5, <1>16, ConsTwo
  <2> QED
    BY <2>1 DEF IsCons
<1>6. AllApart(heap', r, mark) /\ Trees(heap', r) = Owns(heap', g.held) \union Trees(heap', t)
  BY <1>2, <1>3, <1>4, AllApartCons DEF r
<1>7. Stacked(r)
  BY <1>1, <1>3, StackedCons DEF r
<1>8. r \in Seq(S) /\ r # << >> /\ r[1] = g
  BY <1>3, ConsParts DEF r
<1>9. Apart(heap', f.held, mark) /\ Owns(heap', f.held) = {}
  BY ApartNone
<1>10. AllApart(heap', s, mark) /\ Trees(heap', s) = Trees(heap', r)
  BY <1>3, <1>6, <1>8, <1>9, AllApartCons DEF s
<1>11. Stacked(s)
  <2>1. Len(f.held) = Arity(f.at)
    BY DEF Arity, EmptyHanded
  <2> QED
    BY <1>3, <1>7, <1>8, <2>1, StackedCons DEF s
<1>12. s # << >> /\ Head(s) = f
  BY <1>3, <1>8, ConsParts DEF s
<1>13. Live' = << >>
  BY <1>12, <1>17 DEF Live, Returned, Top, WaitLabel
<1>14. ~ Failed' /\ ~ astray =>
         Fresh(heap', mark) \subseteq Owns(heap', Live') \union Trees(heap', stack')
  BY <1>2, <1>6, <1>10, <1>17 DEF Carries
<1>15. Apart(heap', Live', mark) /\ Owns(heap', Live') \cap Trees(heap', stack') = {}
  BY <1>13, ApartNone
<1> QED
  BY <1>10, <1>11, <1>12, <1>14, <1>17, <1>15, MovedOwned

-----------------------------------------------------------------------------
(* A new node above trees apart, and a tree added to a sequence. *)

LEMMA ShapedNew ==
  ASSUME NEW h, NEW n, n \notin DOMAIN h, NEW kids, NEW m, Apart(h, kids, m),
         NEW g, DOMAIN g = DOMAIN h \union {n}, \A i \in DOMAIN h : g[i] = h[i],
         g[n].kids = kids, g[n].ids = {n} \union Owns(h, kids)
  PROVE  Shaped(g, n)
<1> DEFINE O == Owns(h, kids)
           ids == {n} \union O
           T(j) == h[kids[j]].ids
<1>1. O \subseteq DOMAIN h /\ n \notin O
  BY ApartAllocated DEF Fresh
<1>2. ASSUME NEW j \in DOMAIN kids
      PROVE  /\ kids[j] \in T(j) /\ T(j) \subseteq O
             /\ \A i \in T(j) : IsInjective(h[i].kids) /\ Range(h[i].kids) \subseteq T(j) \ {kids[j]}
             /\ \A i \in T(j) \ {kids[j]} : \E p \in T(j) : Parents(h, T(j), i) = {p}
  BY DEF Apart, Shaped, Owns
<1>3. \A i \in O : \E j \in DOMAIN kids : i \in T(j)
  BY DEF Owns
<1>4. \A j, k \in DOMAIN kids : j # k => T(j) \cap T(k) = {}
  BY DEF Apart
<1>5. \A i \in O : g[i] = h[i]
  BY <1>1
<1> HIDE DEF O, T
<1>6. IsInjective(kids) /\ Range(kids) \subseteq O
  <2>1. ASSUME NEW a \in DOMAIN kids, NEW b \in DOMAIN kids, kids[a] = kids[b] PROVE a = b
    BY <1>2, <1>4, <2>1
  <2>2. \A a \in DOMAIN kids : kids[a] \in O
    BY <1>2
  <2> QED
    BY <2>1, <2>2 DEF IsInjective, Range
<1>7. ASSUME NEW i \in ids
      PROVE  IsInjective(g[i].kids) /\ Range(g[i].kids) \subseteq ids \ {n}
  <2>1. CASE i = n
    BY <1>1, <1>6, <2>1
  <2>2. CASE i \in O
    BY <1>1, <1>2, <1>3, <1>5, <2>2
  <2> QED
    BY <2>1, <2>2
<1>8. ASSUME NEW i \in O
      PROVE  \E p \in ids : Parents(g, ids, i) = {p}
  <2>1. PICK j \in DOMAIN kids : i \in T(j)
    BY <1>3
  <2>2. ASSUME NEW x \in O, i \in Range(g[x].kids)
        PROVE  x \in T(j) /\ i \in Range(h[x].kids) /\ i # kids[j]
    <3>1. PICK k \in DOMAIN kids : x \in T(k)
      BY <1>3
    <3>2. i \in T(k) \ {kids[k]}
      BY <1>2, <1>5, <2>2, <3>1
    <3>3. k = j
      BY <1>4, <2>1, <3>2
    <3> QED
      BY <1>5, <2>2, <3>1, <3>2, <3>3
  <2>3. CASE i = kids[j]
    <3>1. i \in Range(g[n].kids)
      BY <2>3 DEF Range
    <3>2. Parents(g, ids, i) = {n}
      BY <2>2, <2>3, <3>1 DEF Parents
    <3> QED
      BY <3>2
  <2>4. CASE i # kids[j]
    <3>1. PICK p \in T(j) : Parents(h, T(j), i) = {p}
      BY <1>2, <2>1, <2>4
    <3>2. i \notin Range(kids)
      <4>1. ASSUME NEW k \in DOMAIN kids, i = kids[k] PROVE FALSE
        <5>1. i \in T(k)
          BY <1>2, <4>1
        <5> QED
          BY <1>4, <2>1, <2>4, <4>1, <5>1
      <4> QED
        BY <4>1 DEF Range
    <3>3. p \in O /\ i \in Range(h[p].kids)
      BY <1>2, <3>1 DEF Parents
    <3>4. \A x \in ids : i \in Range(g[x].kids) => x = p
      BY <2>2, <3>1, <3>2 DEF Parents
    <3>5. Parents(g, ids, i) = {p}
      BY <1>5, <3>3, <3>4 DEF Parents
    <3> QED
      BY <3>3, <3>5
  <2> QED
    BY <2>3, <2>4
<1>9. g[n].ids = ids /\ n \in DOMAIN g /\ ids \subseteq DOMAIN g
  BY <1>1 DEF O
<1>10. \A i \in ids \ {n} : \E p \in ids : Parents(g, ids, i) = {p}
  BY <1>8
<1> HIDE DEF ids
<1>11. n \in ids
  BY DEF ids
<1> QED
  BY <1>7, <1>9, <1>10, <1>11 DEF Shaped

LEMMA ShapedPushed ==
  ASSUME NEW h, NEW s, NEW n, Shaped(h, s), Shaped(h, n), h[s].ids \cap h[n].ids = {},
         NEW S, h[s].kids \in Seq(S), n \in S,
         NEW g, DOMAIN g = DOMAIN h, \A i \in DOMAIN h \ {s} : g[i] = h[i],
         g[s].kids = Append(h[s].kids, n), g[s].ids = h[s].ids \union h[n].ids
  PROVE  Shaped(g, s)
<1> DEFINE A == h[s].ids
           B == h[n].ids
           ids == A \union B
           c == h[s].kids
           d == g[s].kids
<1>1. /\ s \in A /\ n \in B /\ A \subseteq DOMAIN h /\ B \subseteq DOMAIN h /\ A \cap B = {}
      /\ \A i \in A : IsInjective(h[i].kids) /\ Range(h[i].kids) \subseteq A \ {s}
      /\ \A i \in B : IsInjective(h[i].kids) /\ Range(h[i].kids) \subseteq B \ {n}
      /\ \A i \in A \ {s} : \E p \in A : Parents(h, A, i) = {p}
      /\ \A i \in B \ {n} : \E p \in B : Parents(h, B, i) = {p}
  BY DEF Shaped
<1>2. /\ DOMAIN d = DOMAIN c \union {Len(c) + 1}
      /\ Len(c) + 1 \notin DOMAIN c
      /\ d[Len(c) + 1] = n
      /\ \A j \in DOMAIN c : d[j] = c[j]
  BY AppendParts
<1>3. s \in DOMAIN g /\ g[s].ids = ids /\ ids \subseteq DOMAIN g
  BY <1>1
<1>4. \A i \in ids \ {s} : g[i].kids = h[i].kids
  BY <1>1
<1> HIDE DEF A, B
<1> DEFINE e == Len(c) + 1
<1> HIDE DEF e
<1>5. IsInjective(c) /\ Range(c) \subseteq A \ {s}
  BY <1>1
<1>6. Range(d) = Range(c) \union {n}
  <2>1. DOMAIN d = DOMAIN c \union {e} /\ d[e] = n /\ \A j \in DOMAIN c : d[j] = c[j]
    BY <1>2 DEF e
  <2> HIDE DEF c, d
  <2> QED
    BY <2>1 DEF Range
<1>7. IsInjective(d)
  <2>1. DOMAIN d = DOMAIN c \union {e} /\ d[e] = n /\ \A j \in DOMAIN c : d[j] = c[j]
    BY <1>2 DEF e
  <2>2. \A j \in DOMAIN c : c[j] # n
    BY <1>1, <1>5 DEF Range
  <2> HIDE DEF c, d
  <2> QED
    BY <1>5, <2>1, <2>2 DEF IsInjective
<1>8. ASSUME NEW i \in ids
      PROVE  IsInjective(g[i].kids) /\ Range(g[i].kids) \subseteq ids \ {s}
  <2>1. CASE i = s
    BY <1>1, <1>5, <1>6, <1>7, <2>1
  <2>2. CASE i # s /\ i \in A
    BY <1>1, <1>4, <2>2
  <2>3. CASE i # s /\ i \in B
    BY <1>1, <1>4, <2>3
  <2> QED
    BY <2>1, <2>2, <2>3
<1>9. ASSUME NEW i, NEW x \in A
      PROVE  i # n => (i \in Range(g[x].kids) <=> i \in Range(h[x].kids))
  <2>1. CASE x = s
    BY <1>6, <2>1
  <2>2. CASE x # s
    BY <1>4, <2>2
  <2> QED
    BY <2>1, <2>2
<1>10. ASSUME NEW x \in B
       PROVE  g[x].kids = h[x].kids /\ Range(h[x].kids) \subseteq B \ {n}
  BY <1>1, <1>4
<1>11. ASSUME NEW i \in ids \ {s}
       PROVE  \E p \in ids : Parents(g, ids, i) = {p}
  <2>1. CASE i \in A
    <3>1. PICK p \in A : Parents(h, A, i) = {p}
      BY <1>1, <1>11, <2>1
    <3>2. i # n /\ \A x \in B : i \notin Range(g[x].kids)
      BY <1>1, <1>10, <2>1
    <3>3. Parents(g, ids, i) = {p}
      BY <1>9, <3>1, <3>2 DEF Parents
    <3> QED
      BY <3>3
  <2>2. CASE i \in B /\ i # n
    <3>1. PICK p \in B : Parents(h, B, i) = {p}
      BY <1>1, <2>2
    <3>2. \A x \in A : i \notin Range(g[x].kids)
      BY <1>1, <1>9, <2>2
    <3>3. Parents(g, ids, i) = {p}
      BY <1>10, <3>1, <3>2 DEF Parents
    <3> QED
      BY <3>3
  <2>3. CASE i = n
    <3>1. \A x \in ids \ {s} : i \notin Range(g[x].kids)
      BY <1>1, <1>4, <1>10, <2>3
    <3>2. i \in Range(g[s].kids) /\ s \in ids
      BY <1>1, <1>6, <2>3
    <3>3. Parents(g, ids, i) = {s}
      BY <3>1, <3>2 DEF Parents
    <3> QED
      BY <3>2, <3>3
  <2> QED
    BY <2>1, <2>2, <2>3
<1>12. s \in ids
  BY <1>1
<1> HIDE DEF ids
<1> QED
  BY <1>3, <1>8, <1>11, <1>12 DEF Shaped

-----------------------------------------------------------------------------
(* What each use of the memory carries. *)

LEMMA TreeOfShaped ==
  ASSUME NEW r, Shaped(heap, r)
  PROVE  TreeOf(r) = heap[r].ids
BY DEF TreeOf, Shaped

LEMMA CarriesSame ==
  ASSUME OInv, pc = "run", stack # << >>, UNCHANGED memory, ~ Failed' => ~ Failed
  PROVE  Spares /\ Carries(Hands)
<1>1. heap' = heap /\ misfreed' = misfreed
  BY DEF memory
<1>2. ~ misfreed
  BY DEF OInv
<1>3. Agree(heap, heap, DOMAIN heap \ Owns(heap, Hands))
  BY DEF Agree
<1> QED
  BY <1>1, <1>2, <1>3, InHand DEF Spares, Carries

LEMMA FreesSpares ==
  ASSUME OInv, pc = "run", stack # << >>, NEW ids, ids \subseteq Owns(heap, Hands), Frees(ids)
  PROVE  Spares
<1>1. ids \subseteq DOMAIN heap
  BY InHand, ApartAllocated DEF Fresh
<1>2. ~ misfreed'
  BY <1>1 DEF OInv, Frees
<1>3. heap' = [i \in DOMAIN heap \ ids |-> heap[i]]
  <2>1. DOMAIN heap \cap (DOMAIN heap \ ids) = DOMAIN heap \ ids
    OBVIOUS
  <2> QED
    BY <2>1 DEF Frees, Restrict
<1>4. Agree(heap, heap', DOMAIN heap \ Owns(heap, Hands))
  BY <1>3 DEF Agree
<1> QED
  BY <1>2, <1>4 DEF Spares

LEMMA CarriesNew ==
  ASSUME OInv, pc = "run", stack # << >>, NEW tag, NEW tok, Allocates(Object(tag, tok, Hands)),
         ~ Failed' => ~ Failed
  PROVE  Spares /\ Carries(<<next>>)
<1> DEFINE o == Object(tag, tok, Hands)
           O == Owns(heap, Hands)
<1>1. /\ Apart(heap, Hands, mark) /\ O \cap Others = {}
      /\ ~ Failed /\ ~ astray => Fresh(heap, mark) \subseteq O \union Others
      /\ AllApart(heap, Tail(stack), mark)
  BY InHand
<1>2. O \subseteq Fresh(heap, mark) /\ Others \subseteq Fresh(heap, mark)
  BY <1>1, ApartAllocated, AllApartAllocated DEF Others
<1>3. next \in Nat /\ mark \in Nat /\ next >= mark /\ DOMAIN heap \subseteq 1 .. next - 1
  BY DEF OInv, TInv, TypeOK
<1>4. next \notin DOMAIN heap /\ next \notin Fresh(heap, mark)
  BY <1>3 DEF Fresh
<1>5. o.kids = Hands /\ o.ids = {next} \union O
  <2>1. o.kids = Hands /\ o.ids = {next} \union UNION {TreeOf(Hands[k]) : k \in DOMAIN Hands}
    BY DEF Object
  <2>2. \A k \in DOMAIN Hands : TreeOf(Hands[k]) = heap[Hands[k]].ids
    BY <1>1, TreeOfShaped DEF Apart
  <2>3. UNION {TreeOf(Hands[k]) : k \in DOMAIN Hands} = O
    BY <2>2 DEF Owns
  <2> QED
    BY <2>1, <2>3
<1>6. /\ heap' = [i \in DOMAIN heap \union {next} |-> IF i = next THEN o ELSE heap[i]]
      /\ misfreed' = misfreed
  BY DEF Allocates
<1> HIDE DEF o, O
<1>7. /\ DOMAIN heap' = DOMAIN heap \union {next}
      /\ \A i \in DOMAIN heap : heap'[i] = heap[i]
      /\ heap'[next] = o
  BY <1>4, <1>6
<1>8. Shaped(heap', next) /\ heap'[next].ids = {next} \union O
  <2>1. heap'[next].kids = Hands /\ heap'[next].ids = {next} \union Owns(heap, Hands)
    BY <1>5, <1>7 DEF O
  <2> QED
    BY <1>1, <1>4, <1>7, <2>1, ShapedNew DEF O
<1>9. Spares
  <2>1. ~ misfreed'
    BY <1>6 DEF OInv
  <2>2. Agree(heap, heap', DOMAIN heap \ Owns(heap, Hands))
    BY <1>7 DEF Agree
  <2> QED
    BY <2>1, <2>2 DEF Spares
<1>10. Apart(heap', <<next>>, mark)
  <2>1. \A i \in heap'[next].ids : i >= mark
    BY <1>2, <1>3, <1>8 DEF Fresh
  <2> QED
    BY <1>8, <2>1, ApartOne
<1>11. Owns(heap', <<next>>) = {next} \union O
  BY <1>8, OwnsOne
<1>12. Owns(heap', <<next>>) \cap Others = {}
  BY <1>1, <1>2, <1>4, <1>11 DEF O
<1>13. Fresh(heap', mark) \subseteq {next} \union Fresh(heap, mark)
  BY <1>7 DEF Fresh
<1> QED
  BY <1>1, <1>9, <1>10, <1>11, <1>12, <1>13 DEF Carries, O

LEMMA CarriesPushed ==
  ASSUME OInv, pc = "run", stack # << >>, NEW s, NEW n, Hands = <<s, n>>, Pushes(s, n),
         ~ Failed' => ~ Failed
  PROVE  Spares /\ Carries(<<s>>)
<1>1. /\ Apart(heap, Hands, mark) /\ Owns(heap, Hands) \cap Others = {}
      /\ ~ Failed /\ ~ astray => Fresh(heap, mark) \subseteq Owns(heap, Hands) \union Others
  BY InHand
<1>2. DOMAIN Hands = {1, 2} /\ Hands[1] = s /\ Hands[2] = n
  OBVIOUS
<1>3. /\ Shaped(heap, s) /\ Shaped(heap, n) /\ heap[s].ids \cap heap[n].ids = {}
      /\ \A i \in heap[s].ids \union heap[n].ids : i >= mark
      /\ Owns(heap, Hands) = heap[s].ids \union heap[n].ids
  BY <1>1, <1>2 DEF Apart, Owns
<1>4. s \in DOMAIN heap /\ n \in DOMAIN heap /\ s \in heap[s].ids
  BY <1>3 DEF Shaped
<1>5. /\ heap' = [heap EXCEPT ![s].kids = Append(@, n), ![s].ids = @ \union TreeOf(n)]
      /\ misfreed' = misfreed
  BY DEF Pushes
<1>6. heap[s] \in [tag : NodeTag, tok : Nat, kids : Seq(1 .. next - 1), ids : SUBSET (1 .. next - 1)]
      /\ n \in 1 .. next - 1
  BY <1>4 DEF OInv, TInv, TypeOK
<1>7. TreeOf(n) = heap[n].ids
  BY <1>3, TreeOfShaped
<1>8. /\ DOMAIN heap' = DOMAIN heap /\ \A i \in DOMAIN heap \ {s} : heap'[i] = heap[i]
      /\ heap'[s].kids = Append(heap[s].kids, n)
      /\ heap'[s].ids = heap[s].ids \union heap[n].ids
  <2> DEFINE o == heap[s]
  <2>1. /\ DOMAIN heap' = DOMAIN heap /\ \A i \in DOMAIN heap \ {s} : heap'[i] = heap[i]
        /\ heap'[s] = [o EXCEPT !.kids = Append(o.kids, n), !.ids = o.ids \union TreeOf(n)]
    BY <1>4, <1>5
  <2>2. o \in [tag : NodeTag, tok : Nat, kids : Seq(1 .. next - 1), ids : SUBSET (1 .. next - 1)]
    BY <1>6
  <2> HIDE DEF o
  <2>3. /\ heap'[s].kids = Append(o.kids, n)
        /\ heap'[s].ids = o.ids \union TreeOf(n)
    BY <2>1, <2>2
  <2> QED
    BY <1>7, <2>1, <2>3 DEF o
<1>9. Shaped(heap', s)
  <2>1. heap[s].kids \in Seq(1 .. next - 1)
    BY <1>6
  <2> QED
    BY <1>3, <1>6, <1>8, <2>1, ShapedPushed
<1>10. Owns(heap', <<s>>) = Owns(heap, Hands)
  BY <1>3, <1>8, OwnsOne
<1>11. Spares
  <2>1. ~ misfreed'
    BY <1>5 DEF OInv
  <2>2. Agree(heap, heap', DOMAIN heap \ Owns(heap, Hands))
    BY <1>3, <1>4, <1>8 DEF Agree
  <2> QED
    BY <2>1, <2>2 DEF Spares
<1>12. Apart(heap', <<s>>, mark)
  BY <1>3, <1>8, <1>9, ApartOne
<1>13. Fresh(heap', mark) = Fresh(heap, mark)
  BY <1>8 DEF Fresh
<1> QED
  BY <1>1, <1>10, <1>11, <1>12, <1>13 DEF Carries

-----------------------------------------------------------------------------
(* The nodes in hand, by the label. *)

LEMMA HandsByLabel ==
  ASSUME OInv, pc = "run", stack # << >>
  PROVE  /\ Top.at \in EmptyHanded => Top.held = << >>
         /\ Top.at \notin EmptyHanded \union {"else"} => Top.held = <<Top.held[1]>>
         /\ Top.at = "else" => Top.held = <<Top.held[1], Top.held[2]>>
         /\ Failed \/ Top.at \notin WaitLabel => Hands = Top.held
         /\ ~ Failed /\ Top.at \in WaitLabel => Hands = Append(Top.held, res)
<1> DEFINE h == Top.held
<1>1. h \in Seq(Nat) /\ Len(h) = Arity(Top.at)
  BY StackParts, InHand
<1>2. Returned <=> Top.at \in WaitLabel
  BY DEF Returned
<1> HIDE DEF h
<1>3. Len(h) = 0 => h = << >>
  BY <1>1
<1>4. Len(h) = 1 => h = <<h[1]>>
  BY <1>1
<1>5. Len(h) = 2 => h = <<h[1], h[2]>>
  BY <1>1
<1>6. "else" \notin EmptyHanded
  BY DEF EmptyHanded
<1> QED
  BY <1>1, <1>2, <1>3, <1>4, <1>5, <1>6 DEF h, Hands, Arity

(* A rule that fails frees no more than it has in hand. *)
LEMMA FailuresOwned ==
  ASSUME OInv, pc = "run", stack # << >>, TInv', UNCHANGED caller, Failed',
         NEW ids, ids \subseteq Owns(heap, Hands), Frees(ids) \/ UNCHANGED memory,
         NEW node, Returns(node), Top.rule = "Prog" => node = 0
  PROVE  OInv'
<1>1. Spares
  <2>1. CASE Frees(ids)
    BY <2>1, FreesSpares
  <2>2. CASE UNCHANGED memory
    BY <2>2, CarriesSame
  <2> QED
    BY <2>1, <2>2
<1> QED
  BY <1>1, ReturnsOwned

LEMMA FailsOwned ==
  ASSUME OInv, pc = "run", stack # << >>, TInv',
         NEW ids, ids \subseteq Owns(heap, Hands), NEW node, Top.rule = "Prog" => node = 0,
         \/ OutOfMemory(ids) \/ Unexpected(ids, node) \/ GivesUp(ids, node)
         \/ Fails("NoEnoughMemory") /\ Frees(ids) /\ Returns(node)
  PROVE  OInv'
<1>1. err \in [type : ParErr, msg : Nat, tok : Nat]
  BY DEF OInv, TInv, TypeOK
<1>2. /\ Frees(ids) /\ UNCHANGED caller /\ Failed'
      /\ \/ Returns(0)
         \/ Returns(node)
  <2>1. CASE OutOfMemory(ids)
    BY <1>1, <2>1 DEF OutOfMemory, Fails, Failed
  <2>2. CASE Unexpected(ids, node)
    BY <1>1, <2>2 DEF Unexpected, Fails, Failed
  <2>3. CASE GivesUp(ids, node)
    BY <2>3 DEF GivesUp, Looks, parser, Failed
  <2>4. CASE Fails("NoEnoughMemory") /\ Frees(ids) /\ Returns(node)
    BY <1>1, <2>4 DEF Fails, Failed
  <2> QED
    BY <2>1, <2>2, <2>3, <2>4
<1> QED
  BY <1>2, FailuresOwned

LEMMA CrashOwned ==
  ASSUME OInv, pc = "run", TInv', Crashes
  PROVE  OInv'
<1>1. /\ pc' = "crashed" /\ heap' = heap /\ misfreed' = misfreed /\ tree' = tree
  BY DEF Crashes, memory
<1>2. ~ Parsed'
  BY <1>1 DEF Parsed
<1> QED
  BY <1>1, <1>2 DEF OInv

LEMMA OwnsByLabel ==
  ASSUME OInv, pc = "run", stack # << >>
  PROVE  /\ {} \subseteq Owns(heap, Hands)
         /\ Top.at \notin EmptyHanded => /\ TreeOf(Top.held[1]) \subseteq Owns(heap, Hands)
                                         /\ Top.held[1] \in Owns(heap, Hands)
         /\ Top.at = "else" => TreeOf(Top.held[2]) \subseteq Owns(heap, Hands)
         /\ ~ Failed /\ Top.at \in WaitLabel => /\ TreeOf(res) \subseteq Owns(heap, Hands)
                                                /\ res \in Owns(heap, Hands)
<1> DEFINE h == Top.held
<1>1. ASSUME NEW j \in DOMAIN Hands
      PROVE  TreeOf(Hands[j]) \subseteq Owns(heap, Hands) /\ Hands[j] \in Owns(heap, Hands)
  <2>1. Shaped(heap, Hands[j])
    BY InHand DEF Apart
  <2>2. TreeOf(Hands[j]) = heap[Hands[j]].ids /\ Hands[j] \in heap[Hands[j]].ids
    BY <2>1, TreeOfShaped DEF Shaped
  <2> QED
    BY <2>2 DEF Owns
<1>2. h \in Seq(Nat) /\ Len(h) = Arity(Top.at) /\ res \in Nat
  BY StackParts, InHand
<1>3. Hands = h \/ Hands = Append(h, res)
  BY DEF Hands
<1>4. ~ Failed /\ Top.at \in WaitLabel => Hands = Append(h, res)
  BY HandsByLabel
<1> HIDE DEF h
<1>5. \A j \in DOMAIN h : j \in DOMAIN Hands /\ Hands[j] = h[j]
  BY <1>2, <1>3, AppendParts
<1>6. ~ Failed /\ Top.at \in WaitLabel => Len(h) + 1 \in DOMAIN Hands /\ Hands[Len(h) + 1] = res
  BY <1>2, <1>4, AppendParts
<1>7. Top.at \notin EmptyHanded => 1 \in DOMAIN h
  BY <1>2 DEF Arity
<1>8. Top.at = "else" => 2 \in DOMAIN h
  BY <1>2 DEF Arity, EmptyHanded
<1> QED
  BY <1>1, <1>5, <1>6, <1>7, <1>8 DEF h

-----------------------------------------------------------------------------
(* Moves with what they carry. *)

LEMMA LabelsWait ==
  /\ \A at \in {"start", "loop", "assign", "open"} : at \notin WaitLabel
  /\ \A at \in {"loop", "assign", "open"} : Arity(at) = 1
  /\ Arity("start") = 0
BY DEF WaitLabel, Arity, EmptyHanded

LEMMA AppendLonger ==
  ASSUME NEW S, NEW s \in Seq(S), NEW r \in S
  PROVE  Append(s, r) \in Seq(S) /\ Len(Append(s, r)) = Len(s) + 1
OBVIOUS

LEMMA OneNode ==
  ASSUME NEW h, NEW n, h = <<n>>, NEW r
  PROVE  Len(h) = 1 /\ Append(h, r) = <<n, r>>
<1> DEFINE S == {n, r}
           t == Append(h, r)
<1>1. Len(h) = 1 /\ h \in Seq(S) /\ h[1] = n /\ DOMAIN h = {1}
  OBVIOUS
<1>2. r \in S
  OBVIOUS
<1> HIDE DEF S
<1>3. t[Len(h) + 1] = r /\ \A j \in DOMAIN h : t[j] = h[j]
  BY <1>1, <1>2, AppendParts
<1>4. t \in Seq(S) /\ Len(t) = Len(h) + 1
  BY <1>1, <1>2, AppendLonger
<1> HIDE DEF t
<1>5. t \in Seq(S) /\ Len(t) = 2 /\ t[1] = n /\ t[2] = r
  BY <1>1, <1>3, <1>4
<1>6. t = <<n, r>>
  BY <1>5
<1> QED
  BY <1>1, <1>6 DEF t

LEMMA CallsOwned ==
  ASSUME OInv, pc = "run", stack # << >>, TInv', UNCHANGED caller, UNCHANGED memory,
         UNCHANGED err, NEW rule, rule # "Prog", NEW lvl, NEW at \in WaitLabel,
         NEW held, held = Hands, Len(held) = Arity(at), NEW tok,
         Calls(Frame(rule, lvl), at, held, tok)
  PROVE  OInv'
<1> DEFINE f == Frame(rule, lvl)
           g == [Top EXCEPT !.at = at, !.held = held, !.tok = tok]
<1>1. PutsTwo(f, g)
  BY DEF PutsTwo, Calls
<1>2. f.at = "start" /\ f.held = << >> /\ f.rule = rule
  BY DEF Frame
<1>3. g.at = at /\ g.held = held /\ g.rule = Top.rule
  <2>1. Top \in [rule : Rule, lvl : 0 .. 8, at : Label, held : Seq(1 .. next - 1), tok : 0 .. off]
    BY StackParts DEF FramesOf
  <2> QED
    BY <2>1
<1>4. Spares /\ Carries(held)
  <2>1. ~ Failed' => ~ Failed
    BY DEF Failed
  <2> QED
    BY <2>1, CarriesSame
<1> HIDE DEF f, g
<1> QED
  BY <1>1, <1>2, <1>3, <1>4, CalledOwned

LEMMA BecomesOwned ==
  ASSUME OInv, pc = "run", stack # << >>, TInv', UNCHANGED caller, UNCHANGED memory,
         UNCHANGED err, Top.rule # "Prog", Hands = << >>, NEW rule, NEW lvl,
         Becomes(Frame(rule, lvl))
  PROVE  OInv'
<1> DEFINE f == Frame(rule, lvl)
<1>1. stack' = <<f>> \o Tail(stack)
  BY DEF Becomes
<1>2. f.at = "start" /\ f.held = << >>
  BY DEF Frame
<1>3. Spares /\ Carries(<< >>)
  <2>1. ~ Failed' => ~ Failed
    BY DEF Failed
  <2> QED
    BY <2>1, CarriesSame
<1>4. Len(<< >>) = 0
  OBVIOUS
<1> HIDE DEF f
<1> QED
  BY <1>1, <1>2, <1>3, <1>4, LabelsWait, ReplacedOwned

LEMMA StaysOwned ==
  ASSUME OInv, pc = "run", stack # << >>, TInv', UNCHANGED caller, Spares,
         NEW at \in {"loop", "assign", "open"}, NEW held, Len(held) = 1, Carries(held),
         Stays(at, held)
  PROVE  OInv'
<1> DEFINE f == [Top EXCEPT !.at = at, !.held = held]
<1>1. stack' = <<f>> \o Tail(stack)
  BY DEF Stays
<1>2. f.at = at /\ f.held = held /\ f.rule = Top.rule
  <2>1. Top \in [rule : Rule, lvl : 0 .. 8, at : Label, held : Seq(1 .. next - 1), tok : 0 .. off]
    BY StackParts DEF FramesOf
  <2> QED
    BY <2>1
<1> HIDE DEF f
<1> QED
  BY <1>1, <1>2, LabelsWait, ReplacedOwned

LEMMA StaysNewOwned ==
  ASSUME OInv, pc = "run", stack # << >>, TInv', UNCHANGED caller, UNCHANGED err,
         NEW tag, NEW tok, NEW kids, kids = Hands,
         NEW at \in {"loop", "assign", "open"},
         Allocates(Object(tag, tok, kids)), Stays(at, <<next>>)
  PROVE  OInv'
<1>1. Spares /\ Carries(<<next>>)
  <2>1. ~ Failed' => ~ Failed
    BY DEF Failed
  <2> QED
    BY <2>1, CarriesNew
<1>2. Len(<<next>>) = 1
  OBVIOUS
<1> QED
  BY <1>1, <1>2, StaysOwned

LEMMA ReturnsNewOwned ==
  ASSUME OInv, pc = "run", stack # << >>, TInv', UNCHANGED caller, UNCHANGED err,
         Top.rule # "Prog", NEW tag, NEW tok, NEW kids, kids = Hands,
         ReturnsNew(tag, tok, kids)
  PROVE  OInv'
<1>1. Spares /\ Carries(<<next>>)
  <2>1. ~ Failed' => ~ Failed
    BY DEF Failed
  <2> QED
    BY <2>1, CarriesNew DEF ReturnsNew
<1>2. Returns(next)
  BY DEF ReturnsNew
<1> QED
  BY <1>1, <1>2, ReturnsOwned

LEMMA ReturnsSameOwned ==
  ASSUME OInv, pc = "run", stack # << >>, TInv', UNCHANGED caller, UNCHANGED err,
         UNCHANGED memory, Top.rule = "Prog" /\ Failed => astray,
         NEW node, Hands = <<node>>, Returns(node)
  PROVE  OInv'
<1>1. Failed' <=> Failed
  BY DEF Failed
<1>2. Spares /\ Carries(<<node>>)
  BY <1>1, CarriesSame
<1>3. Shaped(heap', node)
  <2>1. DOMAIN <<node>> = {1} /\ <<node>>[1] = node
    OBVIOUS
  <2>2. Apart(heap', <<node>>, mark)
    BY <1>2 DEF Carries
  <2> QED
    BY <2>1, <2>2 DEF Apart
<1> QED
  BY <1>1, <1>2, <1>3, ReturnsOwned

LEMMA StaysPushedOwned ==
  ASSUME OInv, pc = "run", stack # << >>, TInv', UNCHANGED caller, UNCHANGED err,
         Top.at = "stmt", ~ Failed,
         Pushes(Top.held[1], res), Stays("loop", Top.held)
  PROVE  OInv'
<1> DEFINE seq == Top.held[1]
<1>1. Top.held = <<seq>> /\ Hands = Append(Top.held, res)
  BY HandsByLabel DEF EmptyHanded, WaitLabel
<1> HIDE DEF seq
<1>2. Hands = <<seq, res>>
  BY <1>1, OneNode
<1>3. Len(Top.held) = 1
  BY <1>1, OneNode
<1>4. Spares /\ Carries(<<seq>>)
  <2>1. Pushes(seq, res) /\ (~ Failed' => ~ Failed)
    BY DEF seq
  <2> QED
    BY <1>2, <2>1, CarriesPushed
<1>5. Spares /\ Carries(Top.held)
  BY <1>1, <1>4
<1> QED
  BY <1>3, <1>5, StaysOwned

LEMMA LabelsCarry ==
  /\ \A at \in {"expr", "opd", "lhs", "block", "cond"} :
       at \in WaitLabel /\ at \in EmptyHanded /\ Arity(at) = 0
  /\ \A at \in {"rhs", "then", "stmt"} : at \in WaitLabel /\ at \notin EmptyHanded /\ Arity(at) = 1
  /\ \A at \in {"loop", "assign", "open"} : at \notin EmptyHanded /\ at \notin WaitLabel
  /\ "else" \in WaitLabel /\ "else" \notin EmptyHanded /\ Arity("else") = 2
  /\ "start" \in EmptyHanded /\ "start" \notin WaitLabel
  /\ Len(<< >>) = 0
  /\ \A r : Len(<<r>>) = 1
  /\ \A l, r : Len(<<l, r>>) = 2
<1>1. Len(<< >>) = 0 /\ (\A r : Len(<<r>>) = 1)
  OBVIOUS
<1>2. \A l, r : Len(<<l, r>>) = 2
  OBVIOUS
<1> QED
  BY <1>1, <1>2 DEF WaitLabel, EmptyHanded, Arity

LEMMA NodesInHand ==
  ASSUME OInv, pc = "run", stack # << >>
  PROVE  /\ Top.at = "start" => Hands = << >>
         /\ Top.at \in {"loop", "assign", "open"} =>
              Hands = Top.held /\ Top.held = <<Top.held[1]>> /\ Len(Top.held) = 1
         /\ Top.at \in {"expr", "opd", "lhs", "block", "cond"} /\ ~ Failed => Hands = <<res>>
         /\ Top.at \in {"rhs", "then", "stmt"} /\ ~ Failed => Hands = <<Top.held[1], res>>
         /\ Top.at = "else" /\ ~ Failed => Hands = Append(Top.held, res)
<1> DEFINE h == Top.held
<1>1. ASSUME Top.at \in {"expr", "opd", "lhs", "block", "cond"}, ~ Failed
      PROVE  Hands = <<res>>
  <2>1. h = << >> /\ Hands = Append(h, res)
    BY <1>1, HandsByLabel, LabelsCarry
  <2>2. Append(<< >>, res) = <<res>>
    OBVIOUS
  <2> QED
    BY <2>1, <2>2
<1>2. ASSUME Top.at \in {"rhs", "then", "stmt"}, ~ Failed
      PROVE  Hands = <<h[1], res>>
  <2>1. h = <<h[1]>> /\ Hands = Append(h, res)
    <3>1. Top.at \notin EmptyHanded \union {"else"} /\ Top.at \in WaitLabel
      BY <1>2, LabelsCarry
    <3> QED
      BY <1>2, <3>1, HandsByLabel
  <2> DEFINE n == h[1]
  <2>2. h = <<n>>
    BY <2>1
  <2> HIDE DEF n
  <2>3. Append(h, res) = <<n, res>>
    BY <2>2, OneNode
  <2> QED
    BY <2>1, <2>3 DEF n
<1>3. ASSUME Top.at \in {"loop", "assign", "open"}
      PROVE  Hands = h /\ h = <<h[1]>> /\ Len(h) = 1
  <2>1. Top.at \notin EmptyHanded \union {"else"} /\ Top.at \notin WaitLabel
    BY <1>3, LabelsCarry
  <2>2. Hands = h /\ h = <<h[1]>>
    BY <2>1, HandsByLabel
  <2>3. Len(h) = 1
    BY <1>3, InHand, LabelsWait
  <2> QED
    BY <2>2, <2>3
<1>4. Top.at = "start" => Hands = << >>
  BY HandsByLabel, LabelsCarry
<1>5. Top.at = "else" /\ ~ Failed => Hands = Append(h, res)
  BY HandsByLabel, LabelsCarry
<1> QED
  BY <1>1, <1>2, <1>3, <1>4, <1>5

-----------------------------------------------------------------------------
(* Each rule keeps what it owns. *)

LEMMA BaseOwned ==
  ASSUME OInv, TInv', Base
  PROVE  OInv'
<1>1. pc = "run" /\ stack # << >> /\ Top.rule = "Base"
  BY DEF Base, BaseStarts, BaseCloses, At
<1>2. CASE BaseStarts
  <2>1. Hands = << >>
    BY <1>1, <1>2, NodesInHand DEF BaseStarts, At
  <2>2. CASE Consumes /\ ReturnsNew(LeafTag[Peek], off + 1, << >>)
    BY <1>1, <2>1, <2>2, ReturnsNewOwned DEF Consumes
  <2>3. CASE OutOfMemory({}) \/ Unexpected({}, 0)
    BY <1>1, <2>3, FailsOwned
  <2>4. CASE Consumes /\ Calls(Expr, "expr", << >>, 0) /\ UNCHANGED memory
    <3>1. Calls(Frame("Opd", 8), "expr", << >>, 0) /\ UNCHANGED err /\ UNCHANGED caller
      BY <2>4 DEF Consumes, Expr, Opd
    <3> QED
      BY <1>1, <2>1, <2>4, <3>1, LabelsCarry, CallsOwned
  <2> QED
    BY <1>2, <2>2, <2>3, <2>4 DEF BaseStarts
<1>3. CASE BaseCloses
  <2>1. Top.at = "expr"
    BY <1>3 DEF BaseCloses, At
  <2>2. CASE GivesUp({}, res)
    BY <1>1, <2>2, FailsOwned
  <2>3. CASE ~ Failed /\ Consumes /\ Returns(res) /\ UNCHANGED memory
    BY <1>1, <2>1, <2>3, NodesInHand, ReturnsSameOwned DEF Consumes
  <2>4. CASE ~ Failed /\ Unexpected(TreeOf(res), res)
    BY <1>1, <2>1, <2>4, LabelsCarry, OwnsByLabel, FailsOwned
  <2> QED
    BY <1>3, <2>2, <2>3, <2>4 DEF BaseCloses
<1> QED
  BY <1>2, <1>3 DEF Base

LEMMA UnaryOwned ==
  ASSUME OInv, TInv', Unary
  PROVE  OInv'
<1>1. pc = "run" /\ stack # << >> /\ Top.rule = "Opd"
  BY DEF Unary, UnaryStarts, UnaryEnds, At
<1>2. CASE UnaryStarts
  <2>1. Hands = << >>
    BY <1>1, <1>2, NodesInHand DEF UnaryStarts, At
  <2>2. CASE Crashes
    BY <1>1, <2>2, CrashOwned
  <2>3. CASE Consumes /\ Calls(Opd(1), "opd", << >>, off + 1) /\ UNCHANGED memory
    <3>1. Calls(Frame("Opd", 1), "opd", << >>, off + 1) /\ UNCHANGED err /\ UNCHANGED caller
      BY <2>3 DEF Consumes, Opd
    <3> QED
      BY <1>1, <2>1, <2>3, <3>1, LabelsCarry, CallsOwned
  <2>4. CASE Looks /\ Becomes(Frame("Base", 0)) /\ UNCHANGED memory
    BY <1>1, <2>1, <2>4, BecomesOwned DEF Looks, parser
  <2> QED
    BY <1>2, <2>2, <2>3, <2>4 DEF UnaryStarts
<1>3. CASE UnaryEnds
  <2>1. Top.at = "opd"
    BY <1>3 DEF UnaryEnds, At
  <2>2. CASE GivesUp({}, 0) \/ OutOfMemory({})
    BY <1>1, <2>2, FailsOwned
  <2>3. CASE ~ Failed /\ Looks /\ ReturnsNew(UnaTag[toks[Top.tok]], Top.tok, <<res>>)
    BY <1>1, <2>1, <2>3, NodesInHand, ReturnsNewOwned DEF Looks, parser
  <2> QED
    BY <1>3, <2>2, <2>3 DEF UnaryEnds
<1> QED
  BY <1>2, <1>3 DEF Unary

LEMMA BinaryLoopsOwned ==
  ASSUME OInv, TInv', pc = "run", stack # << >>, Top.rule = "Opd",
         NEW lhs, Hands = <<lhs>>, BinaryLoops(lhs)
  PROVE  OInv'
<1>1. CASE Crashes
  BY <1>1, CrashOwned
<1>2. CASE Consumes /\ Calls(Opd(RightOpd(Top.lvl)), "rhs", <<lhs>>, off + 1) /\ UNCHANGED memory
  <2>1. Calls(Frame("Opd", RightOpd(Top.lvl)), "rhs", <<lhs>>, off + 1) /\ UNCHANGED err
        /\ UNCHANGED caller
    BY <1>2 DEF Consumes, Opd
  <2> QED
    BY <1>2, <2>1, LabelsCarry, CallsOwned
<1>3. CASE Looks /\ Returns(lhs) /\ UNCHANGED memory
  BY <1>3, ReturnsSameOwned DEF Looks, parser
<1> QED
  BY <1>1, <1>2, <1>3 DEF BinaryLoops

LEMMA BinaryOwned ==
  ASSUME OInv, TInv', Binary
  PROVE  OInv'
<1>1. pc = "run" /\ stack # << >> /\ Top.rule = "Opd"
  BY DEF Binary, BinaryStarts, BinaryHasLhs, BinaryAgain, BinaryHasRhs, At
<1>2. CASE BinaryStarts
  <2>1. Hands = << >>
    BY <1>1, <1>2, NodesInHand DEF BinaryStarts, At
  <2>2. /\ Calls(Frame("Opd", Top.lvl - 1), "lhs", << >>, 0)
        /\ UNCHANGED memory /\ UNCHANGED err /\ UNCHANGED caller
    BY <1>2 DEF BinaryStarts, Opd, Looks, parser
  <2> QED
    BY <1>1, <2>1, <2>2, LabelsCarry, CallsOwned
<1>3. CASE BinaryHasLhs
  <2>1. Top.at = "lhs"
    BY <1>3 DEF BinaryHasLhs, At
  <2>2. CASE GivesUp({}, 0)
    BY <1>1, <2>2, FailsOwned
  <2>3. CASE ~ Failed /\ BinaryLoops(res)
    BY <1>1, <2>1, <2>3, NodesInHand, BinaryLoopsOwned
  <2> QED
    BY <1>3, <2>2, <2>3 DEF BinaryHasLhs
<1>4. CASE BinaryAgain
  <2> DEFINE lhs == Top.held[1]
  <2>1. Hands = <<lhs>>
    BY <1>1, <1>4, NodesInHand DEF BinaryAgain, At
  <2>2. BinaryLoops(lhs)
    BY <1>4 DEF BinaryAgain
  <2> HIDE DEF lhs
  <2> QED
    BY <1>1, <2>1, <2>2, BinaryLoopsOwned
<1>5. CASE BinaryHasRhs
  <2> DEFINE lhs == Top.held[1]
  <2>1. Top.at = "rhs"
    BY <1>5 DEF BinaryHasRhs, At
  <2>2. lhs \in Owns(heap, Hands) /\ (~ Failed => TreeOf(res) \subseteq Owns(heap, Hands))
    BY <1>1, <2>1, LabelsCarry, OwnsByLabel
  <2>3. CASE GivesUp({lhs}, 0)
    <3>1. {lhs} \subseteq Owns(heap, Hands)
      BY <2>2
    <3> QED
      BY <1>1, <2>3, <3>1, FailsOwned
  <2>4. CASE ~ Failed /\ OutOfMemory(TreeOf(res) \union {lhs})
    <3>1. TreeOf(res) \union {lhs} \subseteq Owns(heap, Hands)
      BY <2>2, <2>4
    <3> QED
      BY <1>1, <2>4, <3>1, FailsOwned
  <2>5. CASE /\ ~ Failed
             /\ Looks
             /\ Allocates(Object(BinTag[Top.lvl][toks[Top.tok]], Top.tok, <<lhs, res>>))
             /\ Stays("loop", <<next>>)
    <3>1. Hands = <<lhs, res>>
      BY <1>1, <2>1, <2>5, NodesInHand
    <3>2. UNCHANGED err /\ UNCHANGED caller
      BY <2>5 DEF Looks, parser
    <3> HIDE DEF lhs
    <3> QED
      BY <1>1, <2>5, <3>1, <3>2, StaysNewOwned
  <2> QED
    BY <1>5, <2>3, <2>4, <2>5 DEF BinaryHasRhs
<1> QED
  BY <1>2, <1>3, <1>4, <1>5 DEF Binary

LEMMA AsgnOwned ==
  ASSUME OInv, TInv', AsgnStmt
  PROVE  OInv'
<1>1. pc = "run" /\ stack # << >> /\ Top.rule = "AsgnStmt"
  BY DEF AsgnStmt, AssignStarts, AssignHasLhs, AssignEnds, At
<1> DEFINE lhs == Top.held[1]
<1>2. CASE AssignStarts
  <2>1. Hands = << >>
    BY <1>1, <1>2, NodesInHand DEF AssignStarts, At
  <2>2. CASE Consumes /\ Allocates(Object("Var", off + 1, << >>)) /\ Stays("assign", <<next>>)
    BY <1>1, <2>1, <2>2, StaysNewOwned DEF Consumes
  <2>3. CASE /\ off' = off + 1
             /\ err' = [err EXCEPT !.type = "NoEnoughMemory"]
             /\ Returns(0)
             /\ UNCHANGED <<caller, memory>>
    <3>1. Failed'
      <4>1. err \in [type : ParErr, msg : Nat, tok : Nat]
        BY DEF OInv, TInv, TypeOK
      <4> QED
        BY <2>3, <4>1 DEF Failed
    <3>2. UNCHANGED caller /\ UNCHANGED memory /\ {} \subseteq Owns(heap, Hands)
      BY <2>3
    <3> QED
      BY <1>1, <2>3, <3>1, <3>2, FailuresOwned
  <2>4. CASE Unexpected({}, 0)
    BY <1>1, <2>4, FailsOwned
  <2> QED
    BY <1>2, <2>2, <2>3, <2>4 DEF AssignStarts
<1>3. CASE AssignHasLhs
  <2>1. Top.at = "assign"
    BY <1>3 DEF AssignHasLhs, At
  <2>2. CASE Consumes /\ Calls(Expr, "rhs", Top.held, 0) /\ UNCHANGED memory
    <3>1. Calls(Frame("Opd", 8), "rhs", Top.held, 0) /\ UNCHANGED err /\ UNCHANGED caller
      BY <2>2 DEF Consumes, Expr, Opd
    <3>2. Top.held = Hands /\ Len(Top.held) = Arity("rhs") /\ "rhs" \in WaitLabel
      BY <1>1, <2>1, NodesInHand, LabelsCarry
    <3> QED
      BY <1>1, <2>2, <3>1, <3>2, CallsOwned
  <2>3. CASE Unexpected(TreeOf(lhs), 0)
    <3>1. TreeOf(lhs) \subseteq Owns(heap, Hands)
      BY <1>1, <2>1, LabelsCarry, OwnsByLabel
    <3> QED
      BY <1>1, <2>3, <3>1, FailsOwned
  <2> QED
    BY <1>3, <2>2, <2>3 DEF AssignHasLhs
<1>4. CASE AssignEnds
  <2>1. Top.at = "rhs"
    BY <1>4 DEF AssignEnds, At
  <2>2. /\ TreeOf(lhs) \subseteq Owns(heap, Hands)
        /\ ~ Failed => TreeOf(res) \subseteq Owns(heap, Hands)
    BY <1>1, <2>1, LabelsCarry, OwnsByLabel
  <2>3. CASE GivesUp(TreeOf(lhs), 0)
    BY <1>1, <2>2, <2>3, FailsOwned
  <2>4. CASE ~ Failed /\ Unexpected(TreeOf(res) \union TreeOf(lhs), 0)
    <3>1. TreeOf(res) \union TreeOf(lhs) \subseteq Owns(heap, Hands)
      BY <2>2, <2>4
    <3> QED
      BY <1>1, <2>4, <3>1, FailsOwned
  <2>5. CASE ~ Failed /\ Consumes /\ ReturnsNew("AsgnStmt", 0, <<lhs, res>>)
    <3>1. Hands = <<lhs, res>>
      BY <1>1, <2>1, <2>5, NodesInHand
    <3>2. UNCHANGED err /\ UNCHANGED caller
      BY <2>5 DEF Consumes
    <3> HIDE DEF lhs
    <3> QED
      BY <1>1, <2>5, <3>1, <3>2, ReturnsNewOwned
  <2>6. CASE Crashes
    BY <1>1, <2>6, CrashOwned
  <2> QED
    BY <1>4, <2>3, <2>4, <2>5, <2>6 DEF AssignEnds
<1> QED
  BY <1>2, <1>3, <1>4 DEF AsgnStmt

LEMMA BlockOwned ==
  ASSUME OInv, TInv', Block
  PROVE  OInv'
<1>1. pc = "run" /\ stack # << >> /\ Top.rule = "Block"
  BY DEF Block, BlockStarts, BlockOpens, BlockLoops, BlockHasStmt, At
<1> DEFINE seq == Top.held[1]
<1>2. CASE BlockStarts
  <2>1. Hands = << >>
    BY <1>1, <1>2, NodesInHand DEF BlockStarts, At
  <2>2. CASE Looks /\ Allocates(Object("Seq", 0, << >>)) /\ Stays("open", <<next>>)
    BY <1>1, <2>1, <2>2, StaysNewOwned DEF Looks, parser
  <2>3. CASE OutOfMemory({})
    BY <1>1, <2>3, FailsOwned
  <2> QED
    BY <1>2, <2>2, <2>3 DEF BlockStarts
<1>3. CASE BlockOpens
  <2>1. Top.at = "open"
    BY <1>3 DEF BlockOpens, At
  <2>2. CASE Consumes /\ Stays("loop", Top.held) /\ UNCHANGED memory
    <3>1. UNCHANGED err /\ UNCHANGED caller
      BY <2>2 DEF Consumes
    <3>2. Top.held = Hands /\ Len(Top.held) = 1
      BY <1>1, <2>1, NodesInHand
    <3>3. ~ Failed' => ~ Failed
      BY <3>1 DEF Failed
    <3>4. Spares /\ Carries(Top.held)
      BY <1>1, <2>2, <3>2, <3>3, CarriesSame
    <3> QED
      BY <1>1, <2>2, <3>1, <3>2, <3>4, StaysOwned
  <2>3. CASE Unexpected(TreeOf(seq), seq)
    <3>1. TreeOf(seq) \subseteq Owns(heap, Hands)
      BY <1>1, <2>1, LabelsCarry, OwnsByLabel
    <3> QED
      BY <1>1, <2>3, <3>1, FailsOwned
  <2> QED
    BY <1>3, <2>2, <2>3 DEF BlockOpens
<1>4. CASE BlockLoops
  <2>1. Top.at = "loop"
    BY <1>4 DEF BlockLoops, At
  <2>2. /\ Top.held = Hands /\ Hands = <<seq>>
        /\ Len(Top.held) = Arity("stmt") /\ "stmt" \in WaitLabel
    BY <1>1, <2>1, NodesInHand, LabelsCarry
  <2>3. CASE Consumes /\ Returns(seq) /\ UNCHANGED memory
    BY <1>1, <2>2, <2>3, ReturnsSameOwned DEF Consumes
  <2>4. CASE Looks /\ Calls(Frame("Stmt", 0), "stmt", Top.held, 0) /\ UNCHANGED memory
    <3>1. UNCHANGED err /\ UNCHANGED caller
      BY <2>4 DEF Looks, parser
    <3> QED
      BY <1>1, <2>2, <2>4, <3>1, CallsOwned
  <2> QED
    BY <1>4, <2>3, <2>4 DEF BlockLoops
<1>5. CASE BlockHasStmt
  <2>1. Top.at = "stmt"
    BY <1>5 DEF BlockHasStmt, At
  <2>2. /\ TreeOf(seq) \subseteq Owns(heap, Hands)
        /\ ~ Failed => res \in Owns(heap, Hands)
    BY <1>1, <2>1, LabelsCarry, OwnsByLabel
  <2>3. CASE GivesUp(TreeOf(seq), seq)
    BY <1>1, <2>2, <2>3, FailsOwned
  <2>4. CASE ~ Failed /\ Looks /\ Pushes(seq, res) /\ Stays("loop", Top.held)
    <3>1. UNCHANGED err /\ UNCHANGED caller
      BY <2>4 DEF Looks, parser
    <3> QED
      BY <1>1, <2>1, <2>4, <3>1, StaysPushedOwned
  <2>5. CASE ~ Failed /\ Fails("NoEnoughMemory") /\ Frees({res} \union TreeOf(seq)) /\ Returns(seq)
    <3>1. {res} \union TreeOf(seq) \subseteq Owns(heap, Hands)
      BY <2>2, <2>5
    <3> QED
      BY <1>1, <2>5, <3>1, FailsOwned
  <2> QED
    BY <1>5, <2>3, <2>4, <2>5 DEF BlockHasStmt
<1> QED
  BY <1>2, <1>3, <1>4, <1>5 DEF Block

LEMMA BlockStmtOwned ==
  ASSUME OInv, TInv', BlockStmt
  PROVE  OInv'
<1>1. pc = "run" /\ stack # << >> /\ Top.rule = "BlockStmt"
  BY DEF BlockStmt, BlockStmtStarts, BlockStmtEnds, At
<1>2. CASE BlockStmtStarts
  <2>1. Hands = << >>
    BY <1>1, <1>2, NodesInHand DEF BlockStmtStarts, At
  <2>2. /\ Calls(Frame("Block", 0), "block", << >>, 0)
        /\ UNCHANGED memory /\ UNCHANGED err /\ UNCHANGED caller
    BY <1>2 DEF BlockStmtStarts, Looks, parser
  <2> QED
    BY <1>1, <2>1, <2>2, LabelsCarry, CallsOwned
<1>3. CASE BlockStmtEnds
  <2>1. Top.at = "block"
    BY <1>3 DEF BlockStmtEnds, At
  <2>2. CASE GivesUp({}, 0) \/ OutOfMemory({})
    BY <1>1, <2>2, FailsOwned
  <2>3. CASE ~ Failed /\ Looks /\ ReturnsNew("BlockStmt", 0, <<res>>)
    BY <1>1, <2>1, <2>3, NodesInHand, ReturnsNewOwned DEF Looks, parser
  <2> QED
    BY <1>3, <2>2, <2>3 DEF BlockStmtEnds
<1> QED
  BY <1>2, <1>3 DEF BlockStmt

LEMMA IfOwned ==
  ASSUME OInv, TInv', IfStmt
  PROVE  OInv'
<1>1. pc = "run" /\ stack # << >> /\ Top.rule = "IfStmt"
  BY DEF IfStmt, IfStarts, IfHasCond, IfHasThen, IfHasElse, At
<1>2. CASE IfStarts
  <2>1. Hands = << >>
    BY <1>1, <1>2, NodesInHand DEF IfStarts, At
  <2>2. CASE Consumes /\ Calls(Expr, "cond", << >>, 0) /\ UNCHANGED memory
    <3>1. Calls(Frame("Opd", 8), "cond", << >>, 0) /\ UNCHANGED err /\ UNCHANGED caller
      BY <2>2 DEF Consumes, Expr, Opd
    <3> QED
      BY <1>1, <2>1, <2>2, <3>1, LabelsCarry, CallsOwned
  <2>3. CASE Unexpected({}, 0)
    BY <1>1, <2>3, FailsOwned
  <2> QED
    BY <1>2, <2>2, <2>3 DEF IfStarts
<1>3. CASE IfHasCond
  <2>1. Top.at = "cond"
    BY <1>3 DEF IfHasCond, At
  <2>2. CASE GivesUp({}, 0)
    BY <1>1, <2>2, FailsOwned
  <2>3. CASE /\ ~ Failed
             /\ Looks
             /\ Calls(Frame("BlockStmt", 0), "then", <<res>>, 0)
             /\ UNCHANGED memory
    <3>1. <<res>> = Hands /\ Len(<<res>>) = Arity("then") /\ "then" \in WaitLabel
      BY <1>1, <2>1, <2>3, NodesInHand, LabelsCarry
    <3>2. UNCHANGED err /\ UNCHANGED caller
      BY <2>3 DEF Looks, parser
    <3> QED
      BY <1>1, <2>3, <3>1, <3>2, CallsOwned
  <2> QED
    BY <1>3, <2>2, <2>3 DEF IfHasCond
<1>4. CASE IfHasThen
  <2> DEFINE cond == Top.held[1]
  <2>1. Top.at = "then"
    BY <1>4 DEF IfHasThen, At
  <2>2. /\ TreeOf(cond) \subseteq Owns(heap, Hands)
        /\ ~ Failed => TreeOf(res) \subseteq Owns(heap, Hands) /\ Hands = <<cond, res>>
    BY <1>1, <2>1, LabelsCarry, OwnsByLabel, NodesInHand
  <2>3. CASE GivesUp(TreeOf(cond), 0)
    BY <1>1, <2>2, <2>3, FailsOwned
  <2>4. CASE ~ Failed /\ OutOfMemory(TreeOf(res) \union TreeOf(cond))
    <3>1. TreeOf(res) \union TreeOf(cond) \subseteq Owns(heap, Hands)
      BY <2>2, <2>4
    <3> QED
      BY <1>1, <2>4, <3>1, FailsOwned
  <2>5. CASE /\ ~ Failed
             /\ Consumes
             /\ Calls(Frame("BlockStmt", 0), "else", <<cond, res>>, 0)
             /\ UNCHANGED memory
    <3>1. <<cond, res>> = Hands /\ Len(<<cond, res>>) = Arity("else") /\ "else" \in WaitLabel
      BY <2>2, <2>5, LabelsCarry
    <3>2. UNCHANGED err /\ UNCHANGED caller
      BY <2>5 DEF Consumes
    <3> HIDE DEF cond
    <3> QED
      BY <1>1, <2>5, <3>1, <3>2, CallsOwned
  <2>6. CASE ~ Failed /\ Looks /\ ReturnsNew("IfStmt", 0, <<cond, res>>)
    <3>1. UNCHANGED err /\ UNCHANGED caller
      BY <2>6 DEF Looks, parser
    <3> HIDE DEF cond
    <3> QED
      BY <1>1, <2>2, <2>6, <3>1, ReturnsNewOwned
  <2> QED
    BY <1>4, <2>3, <2>4, <2>5, <2>6 DEF IfHasThen
<1>5. CASE IfHasElse
  <2> DEFINE both == TreeOf(Top.held[1]) \union TreeOf(Top.held[2])
  <2>1. Top.at = "else"
    BY <1>5 DEF IfHasElse, At
  <2>2. /\ both \subseteq Owns(heap, Hands)
        /\ ~ Failed => TreeOf(res) \subseteq Owns(heap, Hands) /\ Hands = Append(Top.held, res)
    BY <1>1, <2>1, LabelsCarry, OwnsByLabel, NodesInHand
  <2> HIDE DEF both
  <2>3. CASE GivesUp(both, 0)
    BY <1>1, <2>2, <2>3, FailsOwned
  <2>4. CASE ~ Failed /\ OutOfMemory(TreeOf(res) \union both)
    <3>1. TreeOf(res) \union both \subseteq Owns(heap, Hands)
      BY <2>2, <2>4
    <3> QED
      BY <1>1, <2>4, <3>1, FailsOwned
  <2>5. CASE ~ Failed /\ Looks /\ ReturnsNew("IfElseStmt", 0, Append(Top.held, res))
    <3>1. UNCHANGED err /\ UNCHANGED caller
      BY <2>5 DEF Looks, parser
    <3> QED
      BY <1>1, <2>2, <2>5, <3>1, ReturnsNewOwned
  <2> QED
    BY <1>5, <2>3, <2>4, <2>5 DEF IfHasElse, both
<1> QED
  BY <1>2, <1>3, <1>4, <1>5 DEF IfStmt

LEMMA StmtOwned ==
  ASSUME OInv, TInv', StmtStarts
  PROVE  OInv'
<1>1. pc = "run" /\ stack # << >> /\ Top.rule = "Stmt" /\ Hands = << >>
  BY NodesInHand DEF StmtStarts, At
<1>2. CASE Crashes
  BY <1>1, <1>2, CrashOwned
<1>3. CASE Looks /\ Becomes(Frame(StmtRule(Peek), 0)) /\ UNCHANGED memory
  BY <1>1, <1>3, BecomesOwned DEF Looks, parser
<1>4. CASE Unexpected({}, 0)
  BY <1>1, <1>4, FailsOwned
<1> QED
  BY <1>2, <1>3, <1>4 DEF StmtStarts

LEMMA ProgOwned ==
  ASSUME OInv, TInv', Prog
  PROVE  OInv'
<1>1. pc = "run" /\ stack # << >> /\ Top.rule = "Prog"
  BY DEF Prog, ProgStarts, ProgLoops, ProgHasStmt, At
<1> DEFINE prog == Top.held[1]
<1>2. CASE ProgStarts
  <2>1. Hands = << >>
    BY <1>1, <1>2, NodesInHand DEF ProgStarts, At
  <2>2. CASE Looks /\ Allocates(Object("Prog", 0, << >>)) /\ Stays("loop", <<next>>)
    BY <1>1, <2>1, <2>2, StaysNewOwned DEF Looks, parser
  <2>3. CASE OutOfMemory({})
    BY <1>1, <2>3, FailsOwned
  <2> QED
    BY <1>2, <2>2, <2>3 DEF ProgStarts
<1>3. CASE ProgLoops
  <2>1. Top.at = "loop"
    BY <1>3 DEF ProgLoops, At
  <2>2. /\ Top.held = Hands /\ Hands = <<prog>>
        /\ Len(Top.held) = Arity("stmt") /\ "stmt" \in WaitLabel
    BY <1>1, <2>1, NodesInHand, LabelsCarry
  <2>3. CASE Consumes /\ Returns(prog) /\ UNCHANGED memory
    <3>1. Failed => astray
      <4>1. ProgOutermost(stack, Failed /\ ~ astray)
        BY <1>1 DEF OInv, TInv, IInv
      <4>2. stack[1] = Top /\ 1 \in 1 .. Len(stack)
        BY <1>1 DEF OInv, TInv, Top
      <4> QED
        BY <1>1, <2>1, <4>1, <4>2 DEF ProgOutermost
    <3>2. UNCHANGED err /\ UNCHANGED caller
      BY <2>3 DEF Consumes
    <3> QED
      BY <1>1, <2>2, <2>3, <3>1, <3>2, ReturnsSameOwned
  <2>4. CASE Looks /\ Calls(Frame("Stmt", 0), "stmt", Top.held, 0) /\ UNCHANGED memory
    <3>1. UNCHANGED err /\ UNCHANGED caller
      BY <2>4 DEF Looks, parser
    <3> QED
      BY <1>1, <2>2, <2>4, <3>1, CallsOwned
  <2> QED
    BY <1>3, <2>3, <2>4 DEF ProgLoops
<1>4. CASE ProgHasStmt
  <2>1. Top.at = "stmt"
    BY <1>4 DEF ProgHasStmt, At
  <2>2. /\ TreeOf(prog) \subseteq Owns(heap, Hands)
        /\ ~ Failed => TreeOf(res) \subseteq Owns(heap, Hands)
    BY <1>1, <2>1, LabelsCarry, OwnsByLabel
  <2>3. CASE GivesUp(TreeOf(prog), 0)
    BY <1>1, <2>2, <2>3, FailsOwned
  <2>4. CASE ~ Failed /\ Looks /\ Pushes(prog, res) /\ Stays("loop", Top.held)
    <3>1. UNCHANGED err /\ UNCHANGED caller
      BY <2>4 DEF Looks, parser
    <3> QED
      BY <1>1, <2>1, <2>4, <3>1, StaysPushedOwned
  <2>5. CASE ~ Failed /\ OutOfMemory(TreeOf(res) \union TreeOf(prog))
    <3>1. TreeOf(res) \union TreeOf(prog) \subseteq Owns(heap, Hands)
      BY <2>2, <2>5
    <3> QED
      BY <1>1, <2>5, <3>1, FailsOwned
  <2> QED
    BY <1>4, <2>3, <2>4, <2>5 DEF ProgHasStmt
<1> QED
  BY <1>2, <1>3, <1>4 DEF Prog

-----------------------------------------------------------------------------
(* So do Parser_Parse's return and the caller. *)

LEMMA ReturnOwned ==
  ASSUME OInv, TInv', ParseReturns
  PROVE  OInv'
<1>1. pc = "run" /\ stack = << >> /\ RunOwned /\ TInv
  BY DEF ParseReturns, OInv
<1>2. CASE Crashes
  BY <1>1, <1>2, CrashOwned
<1>3. ASSUME ~ Crashes
      PROVE  /\ pc' = "done" /\ tree' = res /\ (ret' <=> ~ Failed)
             /\ heap' = heap /\ misfreed' = misfreed /\ mark' = mark /\ astray' = astray
  BY <1>3, Zenon DEF ParseReturns, memory
<1>4. CASE ~ Crashes /\ ~ Failed
  <2>1. Live = <<res>> /\ res # 0
    BY <1>1, <1>4 DEF Live, Returned, TInv
  <2>2. Apart(heap, <<res>>, mark) /\ Owns(heap, <<res>>) = heap[res].ids
    BY <1>1, <2>1, OwnsOne DEF RunOwned
  <2>3. Shaped(heap, res)
    <3>1. DOMAIN <<res>> = {1} /\ <<res>>[1] = res
      OBVIOUS
    <3> QED
      BY <2>2, <3>1 DEF Apart
  <2>4. ~ astray => Fresh(heap, mark) = heap[res].ids
    <3>1. Trees(heap, stack) = {}
      BY <1>1 DEF Trees
    <3>2. heap[res].ids \subseteq Fresh(heap, mark)
      BY <2>2, ApartAllocated
    <3> QED
      BY <1>1, <1>4, <2>1, <2>2, <3>1, <3>2 DEF RunOwned
  <2> QED
    BY <1>3, <1>4, <2>1, <2>3, <2>4 DEF OInv, Parsed
<1>5. CASE ~ Crashes /\ Failed
  <2>1. res = 0 \/ (astray /\ Shaped(heap, res))
    BY <1>1, <1>5 DEF RunOwned
  <2> QED
    BY <1>3, <1>5, <2>1 DEF OInv, Parsed
<1> QED
  BY <1>2, <1>4, <1>5

LEMMA CallerOwned ==
  ASSUME OInv, TInv', Parse \/ Reset \/ FreeTree \/ \E p \in Program : Link(p)
  PROVE  OInv'
<1>1. ~ misfreed /\ (tree # 0 => Shaped(heap, tree)) /\ TypeOK
  BY DEF OInv, TInv
<1>2. CASE Reset \/ \E p \in Program : Link(p)
  <2>1. pc' = "idle" /\ heap' = heap /\ misfreed' = misfreed /\ tree' = tree
    BY <1>2 DEF Reset, Link, memory
  <2> QED
    BY <1>1, <2>1 DEF OInv, Parsed
<1>3. CASE FreeTree
  <2>1. pc' = "idle" /\ tree' = 0 /\ tree # 0 /\ Frees(TreeOf(tree))
    BY <1>3 DEF FreeTree
  <2>2. TreeOf(tree) \subseteq DOMAIN heap
    BY <1>1, <2>1, TreeOfShaped DEF Shaped
  <2>3. ~ misfreed'
    BY <1>1, <2>1, <2>2 DEF Frees
  <2> QED
    BY <2>1, <2>3 DEF OInv, Parsed
<1>4. CASE Parse
  <2>1. toks' = toks /\ heap' = heap /\ misfreed' = misfreed /\ tree' = tree
    BY <1>4 DEF Parse, parser, memory
  <2>2. CASE toks = << >>
    <3>1. pc' = "done" /\ ~ Parsed'
      BY <1>4, <2>1, <2>2 DEF Parse, Parsed
    <3> QED
      BY <1>1, <2>1, <3>1 DEF OInv
  <2>3. CASE toks # << >>
    <3> DEFINE f == Frame("Prog", 0)
    <3>1. f.rule = "Prog" /\ f.at = "start" /\ f.held = << >>
      BY DEF Frame
    <3>2. pc' = "run" /\ stack' = <<f>> /\ mark' = next
      BY <1>4, <2>3 DEF Parse
    <3> HIDE DEF f
    <3>3. /\ Len(stack') = 1 /\ stack'[1] = f /\ Head(stack') = f
          /\ stack' # << >> /\ DOMAIN stack' = {1}
      BY <3>2
    <3>4. Stacked(stack')
      <4>1. Len(f.held) = Arity(f.at)
        BY <3>1, LabelsCarry, LabelsWait
      <4>2. \A k \in 1 .. Len(stack') : k = 1
        BY <3>3
      <4> QED
        BY <3>1, <3>3, <4>1, <4>2 DEF Stacked
    <3>5. AllApart(heap', stack', mark') /\ Trees(heap', stack') = {}
      <4>1. Apart(heap', f.held, mark') /\ Owns(heap', f.held) = {}
        BY <3>1, ApartNone
      <4> QED
        BY <3>3, <4>1 DEF AllApart, Trees
    <3>6. Live' = << >>
      BY <3>1, <3>3, LabelsCarry DEF Live, Returned, Top
    <3>7. Apart(heap', Live', mark') /\ Owns(heap', Live') = {}
      BY <3>6, ApartNone
    <3>8. Fresh(heap', mark') = {} /\ (tree' # 0 => \A i \in heap'[tree'].ids : i < mark')
      <4>1. next \in Nat /\ DOMAIN heap \subseteq 1 .. next - 1
        BY <1>1 DEF TypeOK
      <4>2. \A i \in DOMAIN heap : i < next /\ ~ (i >= next)
        BY <4>1
      <4> QED
        BY <1>1, <2>1, <3>2, <4>2 DEF Fresh, Shaped
    <3>9. RunOwned'
      BY <3>3, <3>4, <3>5, <3>7, <3>8 DEF RunOwned
    <3>10. ~ Parsed'
      BY <3>2 DEF Parsed
    <3> QED
      BY <1>1, <2>1, <3>9, <3>10 DEF OInv
  <2> QED
    BY <2>2, <2>3
<1> QED
  BY <1>2, <1>3, <1>4

LEMMA InitOwned == Init => OInv
<1> SUFFICES ASSUME Init PROVE OInv
  OBVIOUS
<1>1. TInv
  BY InitTyped
<1>2. pc = "idle" /\ ~ misfreed /\ tree = 0
  BY DEF Init
<1> QED
  BY <1>1, <1>2 DEF OInv, Parsed

LEMMA NextOwned ==
  ASSUME OInv, [Next]_vars
  PROVE  OInv'
<1>1. TInv'
  BY NextTyped DEF OInv
<1>2. CASE UNCHANGED vars
  <2>1. RunOwned' <=> RunOwned
    BY <1>2 DEF RunOwned, Live, Returned, Top, Failed, vars
  <2> QED
    BY <1>1, <1>2, <2>1 DEF OInv, Parsed, vars
<1>3. CASE Next
  BY <1>1, <1>3, BaseOwned, UnaryOwned, BinaryOwned, AsgnOwned, BlockOwned, BlockStmtOwned,
     IfOwned, StmtOwned, ProgOwned, ReturnOwned, CallerOwned
     DEF Next, ParserStep
<1> QED
  BY <1>2, <1>3

LEMMA OwnedHolds == OInv => Owned
<1> SUFFICES ASSUME OInv PROVE Owned
  OBVIOUS
<1>1. ~ misfreed /\ (tree # 0 => tree \in DOMAIN heap) /\ (Parsed /\ ~ ret => tree = 0)
  BY DEF OInv, Shaped
<1>2. ASSUME Parsed, ret
      PROVE  /\ {i \in DOMAIN heap : i >= mark} = Node(tree).ids
             /\ \A i \in Node(tree).ids : IsInjective(Node(i).kids)
             /\ \A i \in Node(tree).ids \ {tree} :
                  Cardinality({j \in Node(tree).ids : i \in Range(Node(j).kids)}) = 1
  <2>1. Shaped(heap, tree) /\ Fresh(heap, mark) = heap[tree].ids
    BY <1>2 DEF OInv
  <2>2. ASSUME NEW i \in heap[tree].ids \ {tree}
        PROVE  Cardinality(Parents(heap, heap[tree].ids, i)) = 1
    <3>1. PICK j \in heap[tree].ids : Parents(heap, heap[tree].ids, i) = {j}
      BY <2>1, <2>2 DEF Shaped
    <3> QED
      BY <3>1, FS_Singleton
  <2>3. \A i \in heap[tree].ids : IsInjective(heap[i].kids)
    BY <2>1 DEF Shaped
  <2> QED
    BY <2>1, <2>2, <2>3, Zenon DEF Node, Fresh, Parents
<1> QED
  BY <1>1, <1>2 DEF Owned

(* Whatever fails, no rule frees what is not allocated or what another rule
   or the caller still holds; a Parse that succeeds leaves of what it
   allocated exactly its tree, in which every node has one parent, and one
   that fails gives the caller no tree (the Free* labels of rule.c:100-775,
   AstNode_FreeTree and AstSeq_Free in ast.c:453-651). *)
THEOREM AlwaysOwned == Spec => []Owned
<1> QED
  BY InitOwned, NextOwned, OwnedHolds, PTL DEF Spec

-----------------------------------------------------------------------------
(* How far a Parse is from its end.                                        *)

(* No more tokens are consumed than there are. *)
VInv == OInv /\ off <= Len(toks)

LEMMA TokensTyped ==
  ASSUME TInv
  PROVE  off \in Nat /\ toks \in Seq(TokTag) /\ Len(toks) \in Nat /\ stack \in Seq(Frames)
<1>1. off \in Nat /\ toks \in Program \union {<< >>} /\ stack \in Seq(Frames)
  BY DEF TInv, IInv, Typed
<1>2. << >> \in Seq(TokTag)
  OBVIOUS
<1>3. toks \in Program => toks \in Seq(TokTag)
  BY ParserAssumption
<1>4. toks \in Seq(TokTag)
  BY <1>1, <1>2, <1>3
<1>5. Len(toks) \in Nat
  BY <1>4
<1> QED
  BY <1>1, <1>4, <1>5

LEMMA VariantTyped ==
  ASSUME VInv
  PROVE  Variant \in Seq(Nat)
<1>1. /\ off \in Nat /\ Len(toks) \in Nat /\ Len(toks) - off \in Nat
      /\ stack \in Seq(Frames)
  BY TokensTyped DEF VInv, OInv
<1>2. AtStart => StepsToLook(Top) \in Nat
  <2>1. AtStart => Top \in Frames
    BY <1>1 DEF AtStart, Top
  <2> QED
    BY <2>1 DEF Frames, StepsToLook
<1>3. StepsToCall \in Nat
  <2>1. CASE stack = << >>
    BY <2>1 DEF StepsToCall
  <2>2. CASE stack # << >>
    <3>1. Len(stack) \in Nat /\ Len(stack) >= 1
      BY <1>1, <2>2
    <3> QED
      BY <3>1 DEF StepsToCall
  <2> QED
    BY <2>1, <2>2
<1> QED
  BY <1>1, <1>2, <1>3 DEF Variant

(* The entry that changes first. *)
LEMMA FirstEntry ==
  /\ (~ Unwinding /\ Unwinding') => Smaller(Variant', Variant)
  /\ ((Unwinding <=> Unwinding') /\ Variant'[2] < Variant[2]) => Smaller(Variant', Variant)
  /\ ((Unwinding <=> Unwinding') /\ Variant'[2] = Variant[2] /\ Variant'[3] < Variant[3])
       => Smaller(Variant', Variant)
  /\ ((Unwinding <=> Unwinding') /\ Variant'[2] = Variant[2] /\ Variant'[3] = Variant[3]
       /\ Variant'[4] < Variant[4]) => Smaller(Variant', Variant)
<1> DEFINE v == Variant
           w == Variant'
<1>1. /\ DOMAIN v = 1 .. 4
      /\ v[1] = (IF Unwinding THEN 0 ELSE 1) /\ w[1] = (IF Unwinding' THEN 0 ELSE 1)
  BY DEF Variant
<1> HIDE DEF v, w
<1>2. ASSUME NEW k \in 1 .. 4, w[k] < v[k], \A j \in 1 .. k - 1 : w[j] = v[j]
      PROVE  Smaller(w, v)
  BY <1>1, <1>2 DEF Smaller
<1>3. (~ Unwinding /\ Unwinding') => Smaller(w, v)
  BY <1>1, <1>2
<1>4. (Unwinding <=> Unwinding') => w[1] = v[1]
  BY <1>1
<1>5. (w[1] = v[1] /\ w[2] < v[2]) => Smaller(w, v)
  BY <1>2
<1>6. (w[1] = v[1] /\ w[2] = v[2] /\ w[3] < v[3]) => Smaller(w, v)
  BY <1>2
<1>7. (w[1] = v[1] /\ w[2] = v[2] /\ w[3] = v[3] /\ w[4] < v[4]) => Smaller(w, v)
  BY <1>2
<1> QED
  BY <1>3, <1>4, <1>5, <1>6, <1>7 DEF v, w

(* A rule runs. *)
Runs == VInv /\ pc = "run" /\ stack # << >>

(* What a running rule and its step are made of. *)
LEMMA RunningParts ==
  ASSUME Runs
  PROVE  /\ Top \in Frames /\ Tail(stack) \in Seq(Frames)
         /\ Len(stack) \in Nat /\ Len(stack) >= 1 /\ Len(Tail(stack)) = Len(stack) - 1
         /\ off \in Nat /\ Len(toks) \in Nat
         /\ Peek # "NULL" => off + 1 <= Len(toks)
         /\ Tail(stack) # << >> => Head(Tail(stack)).at \in WaitLabel
<1>1. stack \in Seq(Frames) /\ off \in Nat /\ Len(toks) \in Nat /\ stack # << >>
  BY TokensTyped DEF Runs, VInv, OInv
<1>2. /\ Top \in Frames /\ Tail(stack) \in Seq(Frames)
      /\ Len(stack) \in Nat /\ Len(stack) >= 1 /\ Len(Tail(stack)) = Len(stack) - 1
  BY <1>1 DEF Top
<1>3. Peek # "NULL" => off + 1 <= Len(toks)
  BY <1>1 DEF Peek
<1>4. Tail(stack) # << >> => Tail(stack)[1].at \in WaitLabel
  BY InHand DEF Runs, VInv
<1>5. \A s \in Seq(Frames) : s # << >> => Head(s) = s[1]
  OBVIOUS
<1> QED
  BY <1>1, <1>2, <1>3, <1>4, <1>5

LEMMA Replaced ==
  ASSUME Runs, NEW f, stack' = <<f>> \o Tail(stack)
  PROVE  Top' = f /\ stack' # << >> /\ Len(stack') = Len(stack)
<1> DEFINE t == Tail(stack)
<1>1. t \in Seq(Frames) /\ Len(t) = Len(stack) - 1
  BY RunningParts
<1> HIDE DEF t
<1>2. <<f>> \o t # << >> /\ Head(<<f>> \o t) = f /\ Len(<<f>> \o t) = Len(t) + 1
  BY <1>1
<1>3. stack' = <<f>> \o t /\ Len(stack) \in Nat
  BY RunningParts DEF t
<1> QED
  BY <1>1, <1>2, <1>3 DEF Top

LEMMA Called ==
  ASSUME Runs, NEW f, NEW g, stack' = <<f, g>> \o Tail(stack)
  PROVE  Top' = f /\ stack' # << >>
<1> DEFINE t == Tail(stack)
<1>1. t \in Seq(Frames)
  BY RunningParts
<1> HIDE DEF t
<1>2. <<f, g>> \o t # << >> /\ Head(<<f, g>> \o t) = f
  BY <1>1
<1>3. stack' = <<f, g>> \o t
  BY DEF t
<1> QED
  BY <1>1, <1>2, <1>3 DEF Top

-----------------------------------------------------------------------------
(* The steps of a rule. *)

(* It consumes a token. *)
LEMMA ByToken ==
  ASSUME Runs, ~ Unwinding, off' = off + 1, toks' = toks, Peek # "NULL"
  PROVE  Smaller(Variant', Variant)
<1>1. off \in Nat /\ Len(toks) \in Nat
  BY RunningParts
<1>2. Variant'[2] = Len(toks) - (off + 1) /\ Variant[2] = Len(toks) - off
  BY DEF Variant
<1>3. Variant'[2] < Variant[2]
  BY <1>1, <1>2
<1> QED
  BY <1>3, FirstEntry

(* It calls another one, or goes on at a label where it looks at a token,  *)
(* nearer to the rule that looks at one if it was at its start.            *)
LEMMA Deeper ==
  ASSUME Runs, ~ Unwinding, off' = off, toks' = toks,
         stack' # << >>, Top'.at \in {"start", "open"}, Top'.rule # "Prog",
         AtStart => Top.rule # "Prog" /\ StepsToLook(Top') < StepsToLook(Top)
  PROVE  Smaller(Variant', Variant)
<1>1. AtStart'
  BY DEF AtStart
<1>2. ~ Unwinding'
  BY DEF Unwinding
<1>3. Variant'[2] = Variant[2]
  BY DEF Variant
<1>4. Variant'[3] = 0 /\ Variant'[4] = StepsToLook(Top')
  BY <1>1 DEF Variant
<1>5. CASE ~ AtStart
  <2>1. Variant[3] = 1
    BY <1>5 DEF Variant
  <2> QED
    BY <1>2, <1>3, <1>4, <2>1, FirstEntry
<1>6. CASE AtStart
  <2>1. Variant[3] = 0 /\ Variant[4] = StepsToLook(Top)
    BY <1>6 DEF Variant
  <2> QED
    BY <1>2, <1>3, <1>4, <1>6, <2>1, FirstEntry
<1> QED
  BY <1>5, <1>6

(* It returns, from its start only in error. *)
LEMMA Back ==
  ASSUME Runs, NEW node, Returns(node), toks' = toks, off' = off,
         Failed => Failed', AtStart => Failed'
  PROVE  Smaller(Variant', Variant)
<1>1. stack' = << >> \/ Top'.at \in WaitLabel
  BY RunningParts DEF Returns, Top
<1>2. ~ AtStart' /\ (Unwinding' <=> Failed')
  BY <1>1 DEF AtStart, Unwinding, WaitLabel
<1>3. Unwinding => Failed /\ ~ AtStart
  BY DEF Unwinding, AtStart
<1>4. CASE ~ Unwinding /\ Failed'
  BY <1>2, <1>4, FirstEntry
<1>5. CASE (Unwinding <=> Failed') /\ ~ AtStart
  <2>1. Variant'[2] = Variant[2]
    BY DEF Variant
  <2>2. Variant'[3] = 1 /\ Variant[3] = 1 /\ Variant'[4] = StepsToCall' /\ Variant[4] = StepsToCall
    BY <1>2, <1>5 DEF Variant
  <2>3. StepsToCall' = 2 * Len(Tail(stack))
    <3>1. ~ (stack' # << >> /\ Top'.at = "loop")
      BY <1>1 DEF WaitLabel
    <3>2. StepsToCall' = 2 * Len(stack') - 0
      BY <3>1 DEF StepsToCall
    <3>3. stack' = Tail(stack) /\ Len(Tail(stack)) \in Nat
      BY RunningParts DEF Returns
    <3> QED
      BY <3>2, <3>3
  <2>4. StepsToCall' < StepsToCall
    <3>1. Len(stack) \in Nat /\ Len(Tail(stack)) = Len(stack) - 1
      BY RunningParts
    <3>2. StepsToCall = 2 * Len(stack) - 1 \/ StepsToCall = 2 * Len(stack) - 0
      BY Zenon DEF StepsToCall
    <3>3. 2 * (Len(stack) - 1) < 2 * Len(stack) - 1 /\ 2 * (Len(stack) - 1) < 2 * Len(stack) - 0
      BY <3>1
    <3> QED
      BY <2>3, <3>1, <3>2, <3>3
  <2> QED
    BY <1>2, <1>5, <2>1, <2>2, <2>4, FirstEntry
<1> QED
  BY <1>2, <1>3, <1>4, <1>5

(* It goes round its loop, or into it. *)
LEMMA Round ==
  ASSUME Runs, ~ Unwinding, off' = off, toks' = toks,
         stack' # << >>, Len(stack') = Len(stack), Top'.at = "loop", Top.at # "loop",
         AtStart => Top.rule = "Prog"
  PROVE  Smaller(Variant', Variant)
<1>1. ~ AtStart' /\ ~ Unwinding'
  BY DEF AtStart, Unwinding
<1>2. Variant'[2] = Variant[2]
  BY DEF Variant
<1>3. Variant'[3] = 1 /\ Variant'[4] = StepsToCall'
  BY <1>1 DEF Variant
<1>4. CASE AtStart
  <2>1. Variant[3] = 2
    BY <1>4 DEF Variant
  <2> QED
    BY <1>1, <1>2, <1>3, <2>1, FirstEntry
<1>5. CASE ~ AtStart
  <2>1. Variant[3] = 1 /\ Variant[4] = StepsToCall
    BY <1>5 DEF Variant
  <2>2. StepsToCall = 2 * Len(stack) /\ StepsToCall' = 2 * Len(stack) - 1 /\ Len(stack) \in Nat
    BY RunningParts DEF StepsToCall
  <2> QED
    BY <1>1, <1>2, <1>3, <2>1, <2>2, FirstEntry
<1> QED
  BY <1>4, <1>5


-----------------------------------------------------------------------------
(* One lemma per rule. *)

Approaches ==
  /\ toks' = toks
  /\ off' \in {off, off + 1} /\ off' <= Len(toks)
  /\ pc' = "run" => Smaller(Variant', Variant)

LEMMA AtParts ==
  ASSUME VInv, NEW rule, NEW at, At(rule, at)
  PROVE  /\ Runs /\ Top.rule = rule /\ Top.at = at
         /\ at \in {"start", "loop", "open", "assign"} => ~ Unwinding
         /\ at \notin {"start", "open"} => ~ AtStart
         /\ ~ Failed => ~ Unwinding
         /\ Top \in Frames /\ off \in Nat /\ off <= Len(toks)
<1>1. Runs
  BY DEF At, Runs
<1>2. Top \in Frames /\ off \in Nat /\ off <= Len(toks)
  BY <1>1, RunningParts DEF Runs, VInv
<1> QED
  BY <1>1, <1>2 DEF At, Unwinding, AtStart

LEMMA TokenApproaches ==
  ASSUME Runs, ~ Unwinding, off' = off + 1, toks' = toks, Peek # "NULL"
  PROVE  Approaches
<1>1. off' <= Len(toks)
  BY RunningParts
<1> QED
  BY <1>1, ByToken DEF Approaches

LEMMA ConsumesApproaches ==
  ASSUME Runs, ~ Unwinding, Consumes, Peek # "NULL"
  PROVE  Approaches
<1>1. off' = off + 1 /\ toks' = toks
  BY DEF Consumes, caller
<1> QED
  BY <1>1, TokenApproaches

LEMMA FailureApproaches ==
  ASSUME Runs, NEW ids, NEW node,
         \/ OutOfMemory(ids)
         \/ Unexpected(ids, node)
         \/ GivesUp(ids, node)
  PROVE  Approaches
<1>1. err \in [type : ParErr, msg : Nat, tok : Nat]
  BY DEF Runs, VInv, OInv, TInv, IInv, Typed
<1>2. toks' = toks /\ off' = off /\ Failed' /\ \E n : Returns(n)
  BY <1>1 DEF OutOfMemory, Unexpected, GivesUp, Fails, Looks, Failed, parser, caller
<1>3. off' <= Len(toks)
  BY <1>2 DEF Runs, VInv
<1> QED
  BY <1>2, <1>3, Back DEF Approaches

LEMMA ReturnApproaches ==
  ASSUME Runs, NEW node, Returns(node), Looks, ~ AtStart
  PROVE  Approaches
<1>1. toks' = toks /\ off' = off /\ (Failed => Failed') /\ off' <= Len(toks)
  BY DEF Looks, parser, caller, Failed, Runs, VInv
<1> QED
  BY <1>1, Back DEF Approaches

LEMMA NewApproaches ==
  ASSUME Runs, NEW tag, NEW tok, NEW kids, ReturnsNew(tag, tok, kids), Looks, ~ AtStart
  PROVE  Approaches
BY ReturnApproaches DEF ReturnsNew

LEMMA BecomesApproaches ==
  ASSUME Runs, ~ Unwinding, Looks, NEW f, Becomes(f), f.at = "start", f.rule # "Prog",
         Top.rule # "Prog", StepsToLook(f) < StepsToLook(Top)
  PROVE  Approaches
<1>1. toks' = toks /\ off' = off /\ off' <= Len(toks)
  BY DEF Looks, parser, caller, Runs, VInv
<1>2. Top' = f /\ stack' # << >>
  BY Replaced DEF Becomes
<1> QED
  BY <1>1, <1>2, Deeper DEF Approaches

LEMMA CallApproaches ==
  ASSUME Runs, ~ Unwinding, Looks,
         NEW f, NEW at, NEW held, NEW tok, Calls(f, at, held, tok),
         f.at = "start", f.rule # "Prog",
         AtStart => Top.rule # "Prog" /\ StepsToLook(f) < StepsToLook(Top)
  PROVE  Approaches
<1>1. toks' = toks /\ off' = off /\ off' <= Len(toks)
  BY DEF Looks, parser, caller, Runs, VInv
<1>2. Top' = f /\ stack' # << >>
  BY Called DEF Calls
<1> QED
  BY <1>1, <1>2, Deeper DEF Approaches

LEMMA LoopApproaches ==
  ASSUME Runs, ~ Unwinding, Looks, NEW held, Stays("loop", held), Top.at # "loop",
         AtStart => Top.rule = "Prog"
  PROVE  Approaches
<1>1. toks' = toks /\ off' = off /\ off' <= Len(toks)
  BY DEF Looks, parser, caller, Runs, VInv
<1> DEFINE f == [Top EXCEPT !.at = "loop", !.held = held]
<1>2. Top' = f /\ stack' # << >> /\ Len(stack') = Len(stack)
  BY Replaced DEF Stays
<1>3. f.at = "loop"
  BY RunningParts DEF Frames
<1> QED
  BY <1>1, <1>2, <1>3, Round DEF Approaches

LEMMA CrashApproaches ==
  ASSUME Runs, Crashes, off' = off \/ (off' = off + 1 /\ Peek # "NULL")
  PROVE  Approaches
<1>1. off' <= Len(toks)
  BY RunningParts DEF Runs, VInv
<1> QED
  BY <1>1 DEF Crashes, Approaches

LEMMA BaseApproaches ==
  ASSUME VInv, Base
  PROVE  Approaches
<1>1. CASE BaseStarts
  <2>1. Runs /\ ~ Unwinding
    BY <1>1, AtParts DEF BaseStarts
  <2>2. CASE \E ids, node : OutOfMemory(ids) \/ Unexpected(ids, node)
    BY <2>1, <2>2, FailureApproaches
  <2>3. CASE Consumes /\ Peek \in DOMAIN LeafTag \union {"LeftParen"}
    <3>1. Peek # "NULL"
      BY <2>3, TableTokens
    <3> QED
      BY <2>1, <2>3, <3>1, ConsumesApproaches
  <2> QED
    BY <1>1, <2>2, <2>3 DEF BaseStarts
<1>2. CASE BaseCloses
  <2>1. Runs /\ (~ Failed => ~ Unwinding)
    BY <1>2, AtParts DEF BaseCloses
  <2>2. CASE \E ids, node : GivesUp(ids, node) \/ Unexpected(ids, node)
    BY <2>1, <2>2, FailureApproaches
  <2>3. CASE ~ Failed /\ Peek = "RightParen" /\ Consumes
    BY <2>1, <2>3, ConsumesApproaches
  <2> QED
    BY <1>2, <2>2, <2>3 DEF BaseCloses
<1> QED
  BY <1>1, <1>2 DEF Base

LEMMA UnaryApproaches ==
  ASSUME VInv, Unary
  PROVE  Approaches
<1>1. CASE UnaryStarts
  <2>1. Runs /\ ~ Unwinding /\ Top.rule = "Opd" /\ Top.lvl = 1
    BY <1>1, AtParts DEF UnaryStarts
  <2>2. CASE Crashes /\ UNCHANGED <<off, err>>
    BY <2>1, <2>2, CrashApproaches
  <2>3. CASE Peek \in DOMAIN UnaTag /\ Consumes
    <3>1. Peek # "NULL"
      BY <2>3, TableTokens
    <3> QED
      BY <2>1, <2>3, <3>1, ConsumesApproaches
  <2>4. CASE Looks /\ Becomes(Frame("Base", 0))
    <3>1. Frame("Base", 0).at = "start" /\ Frame("Base", 0).rule = "Base"
      BY DEF Frame
    <3>2. StepsToLook(Frame("Base", 0)) < StepsToLook(Top)
      BY <2>1, <3>1 DEF StepsToLook
    <3> QED
      BY <2>1, <2>4, <3>1, <3>2, BecomesApproaches
  <2> QED
    BY <1>1, <2>2, <2>3, <2>4 DEF UnaryStarts
<1>2. CASE UnaryEnds
  <2>1. Runs /\ ~ AtStart
    BY <1>2, AtParts DEF UnaryEnds
  <2>2. CASE \E ids, node : GivesUp(ids, node) \/ OutOfMemory(ids)
    BY <2>1, <2>2, FailureApproaches
  <2>3. CASE Looks /\ ReturnsNew(UnaTag[toks[Top.tok]], Top.tok, <<res>>)
    BY <2>1, <2>3, NewApproaches
  <2> QED
    BY <1>2, <2>2, <2>3 DEF UnaryEnds
<1> QED
  BY <1>1, <1>2 DEF Unary

LEMMA LoopsApproach ==
  ASSUME Runs, ~ Unwinding, ~ AtStart, Top.lvl \in 1 .. 8, NEW lhs, BinaryLoops(lhs)
  PROVE  Approaches
<1>1. CASE Crashes /\ UNCHANGED <<off, err>>
  BY <1>1, CrashApproaches
<1>2. CASE Peek \in DOMAIN BinTag[Top.lvl] /\ Consumes
  <2>1. Peek # "NULL"
    BY <1>2, TableTokens
  <2> QED
    BY <1>2, <2>1, ConsumesApproaches
<1>3. CASE Looks /\ Returns(lhs)
  BY <1>3, ReturnApproaches
<1> QED
  BY <1>1, <1>2, <1>3 DEF BinaryLoops

LEMMA BinaryApproaches ==
  ASSUME VInv, Binary
  PROVE  Approaches
<1> DEFINE Graded == Top.rule = "Opd" /\ Top.lvl \in 1 .. 8
<1>1. \A at : At("Opd", at) =>
        /\ Runs /\ Graded
        /\ at \in {"start", "loop", "open", "assign"} => ~ Unwinding
        /\ at \notin {"start", "open"} => ~ AtStart
        /\ ~ Failed => ~ Unwinding
        /\ Top.at = at
  BY AtParts DEF Frames
<1>2. CASE BinaryStarts
  <2> DEFINE f == Opd(Top.lvl - 1)
  <2>1. Runs /\ ~ Unwinding /\ Graded /\ Top.lvl # 1
    BY <1>1, <1>2 DEF BinaryStarts
  <2>2. f.at = "start" /\ f.rule = "Opd" /\ f.lvl = Top.lvl - 1
    BY DEF Opd, Frame
  <2>3. StepsToLook(f) < StepsToLook(Top)
    BY <2>1, <2>2 DEF StepsToLook
  <2>4. Looks /\ Calls(f, "lhs", << >>, 0)
    BY <1>2 DEF BinaryStarts
  <2> QED
    BY <2>1, <2>2, <2>3, <2>4, CallApproaches
<1>3. CASE BinaryHasLhs
  <2>1. Runs /\ ~ AtStart /\ (~ Failed => ~ Unwinding) /\ Graded
    BY <1>1, <1>3 DEF BinaryHasLhs
  <2>2. CASE \E ids, node : GivesUp(ids, node)
    BY <2>1, <2>2, FailureApproaches
  <2>3. CASE ~ Failed /\ BinaryLoops(res)
    BY <2>1, <2>3, LoopsApproach
  <2> QED
    BY <1>3, <2>2, <2>3 DEF BinaryHasLhs
<1>4. CASE BinaryAgain
  <2>1. Runs /\ ~ AtStart /\ ~ Unwinding /\ Graded
    BY <1>1, <1>4 DEF BinaryAgain
  <2> QED
    BY <1>4, <2>1, LoopsApproach DEF BinaryAgain
<1>5. CASE BinaryHasRhs
  <2>1. Runs /\ ~ AtStart /\ (~ Failed => ~ Unwinding) /\ Top.at = "rhs"
    BY <1>1, <1>5 DEF BinaryHasRhs
  <2>2. CASE \E ids, node : GivesUp(ids, node) \/ OutOfMemory(ids)
    BY <2>1, <2>2, FailureApproaches
  <2>3. CASE ~ Failed /\ Looks /\ Stays("loop", <<next>>)
    BY <2>1, <2>3, LoopApproaches
  <2> QED
    BY <1>5, <2>2, <2>3 DEF BinaryHasRhs
<1> QED
  BY <1>2, <1>3, <1>4, <1>5 DEF Binary

LEMMA AsgnApproaches ==
  ASSUME VInv, AsgnStmt
  PROVE  Approaches
<1>1. CASE AssignStarts
  <2>1. Runs /\ ~ Unwinding
    BY <1>1, AtParts DEF AssignStarts
  <2>2. CASE Peek = "Name" /\ off' = off + 1 /\ UNCHANGED caller
    BY <2>1, <2>2, TokenApproaches DEF caller
  <2>3. CASE \E ids, node : Unexpected(ids, node)
    BY <2>1, <2>3, FailureApproaches
  <2> QED
    BY <1>1, <2>2, <2>3 DEF AssignStarts, Consumes
<1>2. CASE AssignHasLhs
  <2>1. Runs /\ ~ Unwinding
    BY <1>2, AtParts DEF AssignHasLhs
  <2>2. CASE Peek = "Assign" /\ Consumes
    BY <2>1, <2>2, ConsumesApproaches
  <2>3. CASE \E ids, node : Unexpected(ids, node)
    BY <2>1, <2>3, FailureApproaches
  <2> QED
    BY <1>2, <2>2, <2>3 DEF AssignHasLhs
<1>3. CASE AssignEnds
  <2>1. Runs /\ (~ Failed => ~ Unwinding)
    BY <1>3, AtParts DEF AssignEnds
  <2>2. CASE \E ids, node : GivesUp(ids, node) \/ Unexpected(ids, node)
    BY <2>1, <2>2, FailureApproaches
  <2>3. CASE ~ Failed /\ Peek = "Semicolon" /\ Consumes
    BY <2>1, <2>3, ConsumesApproaches
  <2>4. CASE Peek = "Semicolon" /\ off' = off + 1 /\ Crashes
    BY <2>1, <2>4, CrashApproaches
  <2> QED
    BY <1>3, <2>2, <2>3, <2>4 DEF AssignEnds
<1> QED
  BY <1>1, <1>2, <1>3 DEF AsgnStmt

LEMMA BlockApproaches ==
  ASSUME VInv, Block
  PROVE  Approaches
<1>1. CASE BlockStarts
  <2>1. Runs /\ ~ Unwinding /\ Top \in Frames /\ Top.rule = "Block" /\ Top.at = "start"
    BY <1>1, AtParts DEF BlockStarts
  <2>2. CASE \E ids : OutOfMemory(ids)
    BY <2>1, <2>2, FailureApproaches
  <2>3. CASE Looks /\ Stays("open", <<next>>)
    <3> DEFINE f == [Top EXCEPT !.at = "open", !.held = <<next>>]
    <3>1. f.at = "open" /\ f.rule = "Block"
      BY <2>1 DEF Frames
    <3>2. Top' = f /\ stack' # << >>
      BY <2>1, <2>3, Replaced DEF Stays
    <3>3. StepsToLook(f) < StepsToLook(Top)
      BY <2>1, <3>1 DEF StepsToLook
    <3>4. toks' = toks /\ off' = off /\ off' <= Len(toks)
      BY <2>1, <2>3 DEF Looks, parser, caller, Runs, VInv
    <3> QED
      BY <2>1, <3>1, <3>2, <3>3, <3>4, Deeper DEF Approaches
  <2> QED
    BY <1>1, <2>2, <2>3 DEF BlockStarts
<1>2. CASE BlockOpens
  <2>1. Runs /\ ~ Unwinding
    BY <1>2, AtParts DEF BlockOpens
  <2>2. CASE Peek = "LeftBrace" /\ Consumes
    BY <2>1, <2>2, ConsumesApproaches
  <2>3. CASE \E ids, node : Unexpected(ids, node)
    BY <2>1, <2>3, FailureApproaches
  <2> QED
    BY <1>2, <2>2, <2>3 DEF BlockOpens
<1>3. CASE BlockLoops
  <2>1. Runs /\ ~ Unwinding /\ ~ AtStart
    BY <1>3, AtParts DEF BlockLoops
  <2>2. CASE Peek = "RightBrace" /\ Consumes
    BY <2>1, <2>2, ConsumesApproaches
  <2>3. CASE Looks /\ Calls(Frame("Stmt", 0), "stmt", Top.held, 0)
    BY <2>1, <2>3, CallApproaches DEF Frame
  <2> QED
    BY <1>3, <2>2, <2>3 DEF BlockLoops
<1>4. CASE BlockHasStmt
  <2>1. Runs /\ ~ AtStart /\ (~ Failed => ~ Unwinding) /\ Top.at = "stmt"
    BY <1>4, AtParts DEF BlockHasStmt
  <2>2. CASE \E ids, node : GivesUp(ids, node)
    BY <2>1, <2>2, FailureApproaches
  <2>3. CASE ~ Failed /\ Looks /\ Stays("loop", Top.held)
    BY <2>1, <2>3, LoopApproaches
  <2>4. CASE \E ids, node :
               FaultyAlloc /\ Fails("NoEnoughMemory") /\ Frees(ids) /\ Returns(node)
    <3>1. err \in [type : ParErr, msg : Nat, tok : Nat]
      BY <2>1 DEF Runs, VInv, OInv, TInv, IInv, Typed
    <3>2. toks' = toks /\ off' = off /\ Failed' /\ \E n : Returns(n)
      BY <2>4, <3>1 DEF Fails, Failed, caller
    <3>3. off' <= Len(toks)
      BY <2>1, <3>2 DEF Runs, VInv
    <3> QED
      BY <2>1, <3>2, <3>3, Back DEF Approaches
  <2> QED
    BY <1>4, <2>2, <2>3, <2>4 DEF BlockHasStmt
<1> QED
  BY <1>1, <1>2, <1>3, <1>4 DEF Block

LEMMA BlockStmtApproaches ==
  ASSUME VInv, BlockStmt
  PROVE  Approaches
<1>1. CASE BlockStmtStarts
  <2> DEFINE f == Frame("Block", 0)
  <2>1. Runs /\ ~ Unwinding /\ Top.rule = "BlockStmt"
    BY <1>1, AtParts DEF BlockStmtStarts
  <2>2. f.at = "start" /\ f.rule = "Block"
    BY DEF Frame
  <2>3. StepsToLook(f) < StepsToLook(Top)
    BY <2>1, <2>2 DEF StepsToLook
  <2>4. Looks /\ Calls(f, "block", << >>, 0)
    BY <1>1 DEF BlockStmtStarts
  <2> QED
    BY <2>1, <2>2, <2>3, <2>4, CallApproaches
<1>2. CASE BlockStmtEnds
  <2>1. Runs /\ ~ AtStart
    BY <1>2, AtParts DEF BlockStmtEnds
  <2>2. CASE \E ids, node : GivesUp(ids, node) \/ OutOfMemory(ids)
    BY <2>1, <2>2, FailureApproaches
  <2>3. CASE Looks /\ ReturnsNew("BlockStmt", 0, <<res>>)
    BY <2>1, <2>3, NewApproaches
  <2> QED
    BY <1>2, <2>2, <2>3 DEF BlockStmtEnds
<1> QED
  BY <1>1, <1>2 DEF BlockStmt

LEMMA IfApproaches ==
  ASSUME VInv, IfStmt
  PROVE  Approaches
<1>1. CASE IfStarts
  <2>1. Runs /\ ~ Unwinding
    BY <1>1, AtParts DEF IfStarts
  <2>2. CASE Peek = "If" /\ Consumes
    BY <2>1, <2>2, ConsumesApproaches
  <2>3. CASE \E ids, node : Unexpected(ids, node)
    BY <2>1, <2>3, FailureApproaches
  <2> QED
    BY <1>1, <2>2, <2>3 DEF IfStarts
<1>2. CASE IfHasCond
  <2>1. Runs /\ ~ AtStart /\ (~ Failed => ~ Unwinding)
    BY <1>2, AtParts DEF IfHasCond
  <2>2. CASE \E ids, node : GivesUp(ids, node)
    BY <2>1, <2>2, FailureApproaches
  <2>3. CASE ~ Failed /\ Looks /\ Calls(Frame("BlockStmt", 0), "then", <<res>>, 0)
    BY <2>1, <2>3, CallApproaches DEF Frame
  <2> QED
    BY <1>2, <2>2, <2>3 DEF IfHasCond
<1>3. CASE IfHasThen
  <2>1. Runs /\ ~ AtStart /\ (~ Failed => ~ Unwinding)
    BY <1>3, AtParts DEF IfHasThen
  <2>2. CASE \E ids, node : GivesUp(ids, node) \/ OutOfMemory(ids)
    BY <2>1, <2>2, FailureApproaches
  <2>3. CASE ~ Failed /\ Peek = "Else" /\ Consumes
    BY <2>1, <2>3, ConsumesApproaches
  <2>4. CASE Looks /\ ReturnsNew("IfStmt", 0, <<Top.held[1], res>>)
    BY <2>1, <2>4, NewApproaches
  <2> QED
    BY <1>3, <2>2, <2>3, <2>4 DEF IfHasThen
<1>4. CASE IfHasElse
  <2>1. Runs /\ ~ AtStart
    BY <1>4, AtParts DEF IfHasElse
  <2>2. CASE \E ids, node : GivesUp(ids, node) \/ OutOfMemory(ids)
    BY <2>1, <2>2, FailureApproaches
  <2>3. CASE Looks /\ ReturnsNew("IfElseStmt", 0, Append(Top.held, res))
    BY <2>1, <2>3, NewApproaches
  <2> QED
    BY <1>4, <2>2, <2>3 DEF IfHasElse
<1> QED
  BY <1>1, <1>2, <1>3, <1>4 DEF IfStmt

LEMMA StmtApproaches ==
  ASSUME VInv, StmtStarts
  PROVE  Approaches
<1>1. Runs /\ ~ Unwinding /\ Top.rule = "Stmt"
  BY AtParts DEF StmtStarts
<1>2. CASE Crashes /\ UNCHANGED <<off, err>>
  BY <1>1, <1>2, CrashApproaches
<1>3. CASE \E ids, node : Unexpected(ids, node)
  BY <1>1, <1>3, FailureApproaches
<1>4. CASE Peek \in {"Name", "If", "LeftBrace"} /\ Looks /\ Becomes(Frame(StmtRule(Peek), 0))
  <2> DEFINE f == Frame(StmtRule(Peek), 0)
  <2>1. f.at = "start" /\ f.rule \in {"AsgnStmt", "IfStmt", "BlockStmt"}
    BY <1>4 DEF Frame, StmtRule
  <2>2. StepsToLook(f) < StepsToLook(Top)
    BY <1>1, <2>1 DEF StepsToLook
  <2> QED
    BY <1>1, <1>4, <2>1, <2>2, BecomesApproaches
<1> QED
  BY <1>2, <1>3, <1>4 DEF StmtStarts

LEMMA ProgApproaches ==
  ASSUME VInv, Prog
  PROVE  Approaches
<1>1. CASE ProgStarts
  <2>1. Runs /\ ~ Unwinding /\ Top.rule = "Prog" /\ Top.at = "start"
    BY <1>1, AtParts DEF ProgStarts
  <2>2. CASE \E ids : OutOfMemory(ids)
    BY <2>1, <2>2, FailureApproaches
  <2>3. CASE Looks /\ Stays("loop", <<next>>)
    BY <2>1, <2>3, LoopApproaches
  <2> QED
    BY <1>1, <2>2, <2>3 DEF ProgStarts
<1>2. CASE ProgLoops
  <2>1. Runs /\ ~ Unwinding /\ ~ AtStart
    BY <1>2, AtParts DEF ProgLoops
  <2>2. CASE Peek = "Eof" /\ Consumes
    BY <2>1, <2>2, ConsumesApproaches
  <2>3. CASE Looks /\ Calls(Frame("Stmt", 0), "stmt", Top.held, 0)
    BY <2>1, <2>3, CallApproaches DEF Frame
  <2> QED
    BY <1>2, <2>2, <2>3 DEF ProgLoops
<1>3. CASE ProgHasStmt
  <2>1. Runs /\ ~ AtStart /\ (~ Failed => ~ Unwinding) /\ Top.at = "stmt"
    BY <1>3, AtParts DEF ProgHasStmt
  <2>2. CASE \E ids, node : GivesUp(ids, node) \/ OutOfMemory(ids)
    BY <2>1, <2>2, FailureApproaches
  <2>3. CASE ~ Failed /\ Looks /\ Stays("loop", Top.held)
    BY <2>1, <2>3, LoopApproaches
  <2> QED
    BY <1>3, <2>2, <2>3 DEF ProgHasStmt
<1> QED
  BY <1>1, <1>2, <1>3 DEF Prog

LEMMA StepApproaches ==
  ASSUME VInv, ParserStep
  PROVE  Approaches
<1>1. CASE ParseReturns
  <2>1. pc' # "run" /\ toks' = toks /\ off' = off
    BY <1>1 DEF ParseReturns, Crashes
  <2>2. off \in Nat /\ off <= Len(toks)
    BY TokensTyped DEF VInv, OInv
  <2> QED
    BY <2>1, <2>2 DEF Approaches
<1> QED
  BY <1>1, BaseApproaches, UnaryApproaches, BinaryApproaches, AsgnApproaches, BlockApproaches,
     BlockStmtApproaches, IfApproaches, StmtApproaches, ProgApproaches DEF ParserStep

-----------------------------------------------------------------------------
LEMMA InitVInv == Init => VInv
BY InitOwned DEF Init, VInv

LEMMA NextVInv ==
  ASSUME VInv, [Next]_vars
  PROVE  VInv'
<1>1. OInv'
  BY NextOwned DEF VInv
<1>2. toks' \in Seq(TokTag) /\ Len(toks') \in Nat
  <2>1. TInv'
    BY <1>1 DEF OInv
  <2>2. (TInv => Len(toks) \in Nat /\ toks \in Seq(TokTag))'
    BY TokensTyped, PTL
  <2> QED
    BY <2>1, <2>2
<1>3. CASE ParserStep
  BY <1>1, <1>3, StepApproaches DEF Approaches, VInv
<1>4. CASE \E p \in Program : Link(p)
  <2>1. off' = 0
    BY <1>4 DEF Link
  <2> QED
    BY <1>1, <1>2, <2>1 DEF VInv
<1>5. CASE Reset
  <2>1. off' = 0
    BY <1>5 DEF Reset
  <2> QED
    BY <1>1, <1>2, <2>1 DEF VInv
<1>6. CASE Parse \/ FreeTree \/ UNCHANGED vars
  <2>1. off' = off /\ toks' = toks
    BY <1>6 DEF Parse, FreeTree, parser, vars
  <2> QED
    BY <1>1, <2>1 DEF VInv
<1> QED
  BY <1>3, <1>4, <1>5, <1>6 DEF Next

(* For every set of programs, any sequence of calls and any refused
   allocations, every step of a Parse that does not end it makes the variant
   smaller: no rule is called without end, and no loop goes round without a
   token consumed or an error after which the rules only return
   (rule.c:100-775). *)
THEOREM AlwaysDescends == Spec => Descends
<1> DEFINE Steps == ParserStep /\ pc' = "run" => Smaller(Variant', Variant)
           Falls == ParserStep /\ pc' = "run" => Variant' \in Seq(Nat) /\ Smaller(Variant', Variant)
           Natural == Variant \in Seq(Nat)
<1>1. VInv => Steps
  BY StepApproaches DEF Approaches
<1>2. VInv => Natural
  BY VariantTyped
<1>3. Steps /\ Natural' => Falls
  OBVIOUS
<1>4. Descends <=> [][Falls]_vars
  BY DEF Descends
<1> HIDE DEF Steps, Falls, Natural
<1> QED
  BY <1>1, <1>2, <1>3, <1>4, InitVInv, NextVInv, PTL DEF Spec
=============================================================================
