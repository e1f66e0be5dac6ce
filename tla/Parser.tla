------------------------------- MODULE Parser -------------------------------
(***************************************************************************)
(* The parser of src/src/parser: a recursive descent over the tokens of a  *)
(* LexOut (rule.c), its driver (parser.c), and the nodes it allocates and  *)
(* frees (ast.c).                                                          *)
(*                                                                         *)
(* The C stack is a sequence of frames, the running rule first.  A step    *)
(* runs the rule up to its next call, its next loop test or its return;    *)
(* the value returned last is in res.  Nodes are objects of heap, named by *)
(* numbers that are never used again, 0 being NULL.                        *)
(***************************************************************************)
EXTENDS Integers, Sequences, Functions, Token

CONSTANTS
  Program,      (* the token sequences a lexer hands out, by their tags     *)
  MaxParse,     (* bound on the number of Parse calls                       *)
  FaultyAlloc   (* may an allocation fail?                                  *)

ASSUME ParserAssumption ==
  /\ \A p \in Program :
       /\ p \in Seq(TokTag) /\ p # << >>
       /\ \A k \in 1 .. Len(p) : p[k] = "Eof" <=> k = Len(p)
  /\ MaxParse \in Nat
  /\ FaultyAlloc \in BOOLEAN

(* What rule.c makes of each token: leaves, unary operators, and the       *)
(* binary operators of rule OpdN.                                          *)
LeafTag ==
  [Name |-> "Var", StrLit |-> "StrLit", NumLit |-> "NumLit",
   False |-> "BoolLit", True |-> "BoolLit"]

UnaTag == [Plus |-> "UnaPlusOp", Minus |-> "UnaMinusOp", Not |-> "LogNotOp"]

BinTag ==
  <<UnaTag,
    [Exponent |-> "BinExpOp"],
    [Asterisk |-> "BinMulOp", ForwardSlash |-> "BinDivOp", Percent |-> "BinModOp"],
    [Plus |-> "BinAddOp", Minus |-> "BinSubOp"],
    [LessThan |-> "RelLtOp", Lte |-> "RelLteOp",
     GreaterThan |-> "RelGtOp", Gte |-> "RelGteOp"],
    [Equ |-> "RelEquOp", Neq |-> "RelNeqOp"],
    [And |-> "LogAndOp"],
    [Or |-> "LogOrOp"]>>

NodeTag ==
  Range(LeafTag) \union (UNION {Range(BinTag[n]) : n \in 1 .. 8})
    \union {"AsgnStmt", "IfStmt", "IfElseStmt", "BlockStmt", "Prog", "Seq"}

(* Mutant of RightOpd: every level associates to the left. *)
RightOpdLeft(n) == n - 1

(* Opd2 and Opd8 call themselves for their right operand.                  *)
RightOpd(n) == IF n \in {2, 8} THEN n ELSE n - 1

(* The rules that look for an operator with ExpectAny.                     *)
Unguarded == {1, 3, 4, 5, 6}

VARIABLES
  toks,      (* tags of the linked tokens, << >> while none are linked      *)
  off,       (* tokens consumed                                             *)
  err,       (* type, messages appended to msg, and the token whose         *)
             (* position was recorded (0: none)                             *)
  pc,        (* between calls, in Parse, returned from it, or crashed       *)
  stack,     (* frames, the running rule first                              *)
  res,       (* the node the last rule returned                             *)
  ret,       (* what the last Parse returned                                *)
  tree,      (* the caller's tree                                           *)
  heap,      (* the nodes and statement sequences that are allocated        *)
  next,      (* name of the next one                                        *)
  misfreed,  (* has something been freed that was not allocated?            *)
  mark,      (* next when the last Parse began                              *)
  astray,    (* did it begin without a fresh program, or in error?          *)
  calls      (* number of Parse calls                                       *)

memory == <<heap, next, misfreed>>
parser == <<toks, off, err>>
caller == <<toks, pc, ret, tree, mark, astray, calls>>
vars == <<toks, off, err, pc, stack, res, ret, tree,
          heap, next, misfreed, mark, astray, calls>>

ParErr == {"Ok", "NoEnoughMemory", "UnexpectedToken"}

NoErr == [type |-> "Ok", msg |-> 0, tok |-> 0]

-----------------------------------------------------------------------------
(* Memory.  The field ids of an object names it and all that it owns:      *)
(* what AstNode_FreeTree and AstSeq_Free visit.  The tag of a statement    *)
(* sequence is Seq; the program's node and its sequence are one object.    *)

TreeOf(i) == IF i \in DOMAIN heap THEN heap[i].ids ELSE {i}

Object(tag, tok, kids) ==
  [tag |-> tag, tok |-> tok, kids |-> kids,
   ids |-> {next} \union UNION {TreeOf(kids[k]) : k \in DOMAIN kids}]

Allocates(object) ==
  /\ heap' = [i \in DOMAIN heap \union {next} |-> IF i = next THEN object ELSE heap[i]]
  /\ next' = next + 1
  /\ UNCHANGED misfreed

Frees(ids) ==
  /\ heap' = Restrict(heap, DOMAIN heap \ ids)
  /\ misfreed' = (misfreed \/ ~ (ids \subseteq DOMAIN heap))
  /\ UNCHANGED next

(* AstSeq_Push of node n to the sequence i. *)
Pushes(i, n) ==
  /\ heap' = [heap EXCEPT ![i].kids = Append(@, n), ![i].ids = @ \union TreeOf(n)]
  /\ UNCHANGED <<next, misfreed>>

-----------------------------------------------------------------------------
(* Control. *)

Rule ==
  {"Base", "Opd", "AsgnStmt", "Block", "BlockStmt", "IfStmt", "Stmt", "Prog"}

(* Where a rule stands: at its start, back from a call, or before a loop   *)
(* test or an expected token.                                              *)
Label ==
  {"start", "expr", "opd", "lhs", "rhs", "loop", "assign", "open", "stmt",
   "block", "cond", "then", "else"}

Frame(rule, lvl) ==
  [rule |-> rule, lvl |-> lvl, at |-> "start", held |-> << >>, tok |-> 0]

Top == Head(stack)

At(rule, at) ==
  pc = "run" /\ stack # << >> /\ Top.rule = rule /\ Top.at = at

Peek == IF off < Len(toks) THEN toks[off + 1] ELSE "NULL"

Failed == err.type # "Ok"

Consumes == off' = off + 1 /\ UNCHANGED <<err, caller>>
Looks == UNCHANGED <<parser, caller>>
Fails(type) == err' = [err EXCEPT !.type = type] /\ UNCHANGED <<off, caller>>

(* The rule goes on at label at, its locals being the nodes held. *)
Stays(at, held) ==
  /\ stack' = <<[Top EXCEPT !.at = at, !.held = held]>> \o Tail(stack)
  /\ UNCHANGED res

(* The rule calls another one and goes on at label at. *)
Calls(callee, at, held, tok) ==
  /\ stack' = <<callee, [Top EXCEPT !.at = at, !.held = held, !.tok = tok]>> \o Tail(stack)
  /\ UNCHANGED res

(* The rule returns what the other one returns. *)
Becomes(callee) ==
  /\ stack' = <<callee>> \o Tail(stack)
  /\ UNCHANGED res

Returns(node) ==
  /\ stack' = Tail(stack)
  /\ res' = node

(* A new node is allocated and returned.                                   *)
ReturnsNew(tag, tok, kids) ==
  Allocates(Object(tag, tok, kids)) /\ Returns(next)

(* Mutant of OutOfMemory: the error is not set. *)
OutOfMemorySilent(ids) ==
  /\ FaultyAlloc
  /\ Looks
  /\ Frees(ids)
  /\ Returns(0)

(* No memory: the nodes named by ids are freed, and NULL is returned.      *)
OutOfMemory(ids) ==
  /\ FaultyAlloc
  /\ Fails("NoEnoughMemory")
  /\ Frees(ids)
  /\ Returns(0)

(* Mutant of Unexpected: the token that is not expected is consumed. *)
UnexpectedConsumes(ids, node) ==
  /\ off' = off + 1
  /\ err' = [err EXCEPT !.type = "UnexpectedToken"]
  /\ UNCHANGED caller
  /\ Frees(ids)
  /\ Returns(node)

(* The token is not the expected one. *)
Unexpected(ids, node) ==
  /\ Fails("UnexpectedToken")
  /\ Frees(ids)
  /\ Returns(node)

(* A rule that was called failed. *)
GivesUp(ids, node) ==
  /\ Failed
  /\ Looks
  /\ Frees(ids)
  /\ Returns(node)

(* A NULL pointer is read. *)
Crashes ==
  /\ pc' = "crashed"
  /\ UNCHANGED <<toks, stack, res, ret, tree, memory, mark, astray, calls>>

Opd(n) == Frame("Opd", n)
Expr == Opd(8)

-----------------------------------------------------------------------------
(* ParRule_Base *)

BaseStarts ==
  /\ At("Base", "start")
  /\ \/ /\ Peek \in DOMAIN LeafTag
        /\ \/ Consumes /\ ReturnsNew(LeafTag[Peek], off + 1, << >>)
           \/ OutOfMemory({})
     \/ /\ Peek = "LeftParen"
        /\ Consumes
        /\ Calls(Expr, "expr", << >>, 0)
        /\ UNCHANGED memory
     \/ /\ Peek \notin DOMAIN LeafTag \union {"LeftParen"}
        /\ Unexpected({}, 0)

(* Without its ")" an expression is freed, and returned all the same. *)
BaseCloses ==
  /\ At("Base", "expr")
  /\ \/ GivesUp({}, res)
     \/ /\ ~Failed /\ Peek = "RightParen"
        /\ Consumes
        /\ Returns(res)
        /\ UNCHANGED memory
     \/ /\ ~Failed /\ Peek # "RightParen"
        /\ Unexpected(TreeOf(res), res)

-----------------------------------------------------------------------------
(* ParRule_Opd1 *)

UnaryStarts ==
  /\ At("Opd", "start")
  /\ Top.lvl = 1
  /\ \/ Peek = "NULL" /\ Crashes /\ UNCHANGED <<off, err>>
     \/ /\ Peek \in DOMAIN UnaTag
        /\ Consumes
        /\ Calls(Opd(1), "opd", << >>, off + 1)
        /\ UNCHANGED memory
     \/ /\ Peek \notin DOMAIN UnaTag \union {"NULL"}
        /\ Looks
        /\ Becomes(Frame("Base", 0))
        /\ UNCHANGED memory

(* Mutant of UnaryEnds: the failure of the operand is not looked at. *)
UnaryEndsUnchecked ==
  /\ At("Opd", "opd")
  /\ \/ Looks /\ ReturnsNew(UnaTag[toks[Top.tok]], Top.tok, <<res>>)
     \/ OutOfMemory({})

(* The operand is not freed when there is no memory for the operator. *)
UnaryEnds ==
  /\ At("Opd", "opd")
  /\ \/ GivesUp({}, 0)
     \/ /\ ~Failed
        /\ \/ Looks /\ ReturnsNew(UnaTag[toks[Top.tok]], Top.tok, <<res>>)
           \/ OutOfMemory({})

-----------------------------------------------------------------------------
(* ParRule_Opd2 to ParRule_Opd8 *)

BinaryStarts ==
  /\ At("Opd", "start")
  /\ Top.lvl # 1
  /\ Looks
  /\ Calls(Opd(Top.lvl - 1), "lhs", << >>, 0)
  /\ UNCHANGED memory

(* The loop's test, with the left operand lhs. *)
BinaryLoops(lhs) ==
  \/ Peek = "NULL" /\ Top.lvl \in Unguarded /\ Crashes /\ UNCHANGED <<off, err>>
  \/ /\ Peek \in DOMAIN BinTag[Top.lvl]
     /\ Consumes
     /\ Calls(Opd(RightOpd(Top.lvl)), "rhs", <<lhs>>, off + 1)
     /\ UNCHANGED memory
  \/ /\ Peek \notin DOMAIN BinTag[Top.lvl]
     /\ ~ (Peek = "NULL" /\ Top.lvl \in Unguarded)
     /\ Looks
     /\ Returns(lhs)
     /\ UNCHANGED memory

BinaryHasLhs ==
  /\ At("Opd", "lhs")
  /\ \/ GivesUp({}, 0)
     \/ ~Failed /\ BinaryLoops(res)

BinaryAgain == At("Opd", "loop") /\ BinaryLoops(Top.held[1])

(* On failure only the root of the left operand is freed (AstNode_Free).   *)
BinaryHasRhs ==
  /\ At("Opd", "rhs")
  /\ LET lhs == Top.held[1]
     IN  \/ GivesUp({lhs}, 0)
         \/ /\ ~Failed
            /\ \/ /\ Looks
                  /\ Allocates(Object(BinTag[Top.lvl][toks[Top.tok]], Top.tok, <<lhs, res>>))
                  /\ Stays("loop", <<next>>)
               \/ OutOfMemory(TreeOf(res) \union {lhs})

-----------------------------------------------------------------------------
(* ParRule_AsgnStmt *)

AssignStarts ==
  /\ At("AsgnStmt", "start")
  /\ \/ /\ Peek = "Name"
        /\ Consumes
        /\ Allocates(Object("Var", off + 1, << >>))
        /\ Stays("assign", <<next>>)
     \/ /\ Peek = "Name"
        /\ FaultyAlloc
        /\ off' = off + 1
        /\ err' = [err EXCEPT !.type = "NoEnoughMemory"]
        /\ Returns(0)
        /\ UNCHANGED <<caller, memory>>
     \/ Peek # "Name" /\ Unexpected({}, 0)

AssignHasLhs ==
  /\ At("AsgnStmt", "assign")
  /\ \/ /\ Peek = "Assign"
        /\ Consumes
        /\ Calls(Expr, "rhs", Top.held, 0)
        /\ UNCHANGED memory
     \/ Peek # "Assign" /\ Unexpected(TreeOf(Top.held[1]), 0)

(* Mutant of AssignEnds: a failed expression is freed too. *)
AssignEndsFreesRhs ==
  /\ At("AsgnStmt", "rhs")
  /\ \/ GivesUp(TreeOf(res) \union TreeOf(Top.held[1]), 0)
     \/ /\ ~Failed /\ Peek = "Semicolon"
        /\ Consumes
        /\ ReturnsNew("AsgnStmt", 0, <<Top.held[1], res>>)

(* No memory for the statement: FreeTree(NULL) reads the tag of NULL. *)
AssignEnds ==
  /\ At("AsgnStmt", "rhs")
  /\ LET lhs == Top.held[1]
     IN  \/ GivesUp(TreeOf(lhs), 0)
         \/ /\ ~Failed /\ Peek = "Semicolon"
            /\ \/ Consumes /\ ReturnsNew("AsgnStmt", 0, <<lhs, res>>)
               \/ /\ FaultyAlloc
                  /\ off' = off + 1
                  /\ err' = [err EXCEPT !.type = "NoEnoughMemory"]
                  /\ Crashes
         \/ /\ ~Failed /\ Peek # "Semicolon"
            /\ Unexpected(TreeOf(res) \union TreeOf(lhs), 0)

-----------------------------------------------------------------------------
(* ParRule_Block and ParRule_BlockStmt *)

BlockStarts ==
  /\ At("Block", "start")
  /\ \/ Looks /\ Allocates(Object("Seq", 0, << >>)) /\ Stays("open", <<next>>)
     \/ OutOfMemory({})

BlockOpens ==
  /\ At("Block", "open")
  /\ \/ Peek = "LeftBrace" /\ Consumes /\ Stays("loop", Top.held) /\ UNCHANGED memory
     \/ Peek # "LeftBrace" /\ Unexpected(TreeOf(Top.held[1]), Top.held[1])

BlockLoops ==
  /\ At("Block", "loop")
  /\ \/ Peek = "RightBrace" /\ Consumes /\ Returns(Top.held[1])
     \/ Peek # "RightBrace" /\ Looks /\ Calls(Frame("Stmt", 0), "stmt", Top.held, 0)
  /\ UNCHANGED memory

(* A statement that cannot be pushed is freed without its children. *)
BlockHasStmt ==
  /\ At("Block", "stmt")
  /\ LET seq == Top.held[1]
     IN  \/ GivesUp(TreeOf(seq), seq)
         \/ /\ ~Failed
            /\ \/ Looks /\ Pushes(seq, res) /\ Stays("loop", Top.held)
               \/ /\ FaultyAlloc
                  /\ Fails("NoEnoughMemory")
                  /\ Frees({res} \union TreeOf(seq))
                  /\ Returns(seq)

BlockStmtStarts ==
  /\ At("BlockStmt", "start")
  /\ Looks
  /\ Calls(Frame("Block", 0), "block", << >>, 0)
  /\ UNCHANGED memory

(* Without memory for the node the sequence is not freed. *)
BlockStmtEnds ==
  /\ At("BlockStmt", "block")
  /\ \/ GivesUp({}, 0)
     \/ /\ ~Failed
        /\ \/ Looks /\ ReturnsNew("BlockStmt", 0, <<res>>)
           \/ OutOfMemory({})

-----------------------------------------------------------------------------
(* ParRule_IfOrIfElseStmt *)

IfStarts ==
  /\ At("IfStmt", "start")
  /\ \/ Peek = "If" /\ Consumes /\ Calls(Expr, "cond", << >>, 0) /\ UNCHANGED memory
     \/ Peek # "If" /\ Unexpected({}, 0)

IfHasCond ==
  /\ At("IfStmt", "cond")
  /\ \/ GivesUp({}, 0)
     \/ /\ ~Failed
        /\ Looks
        /\ Calls(Frame("BlockStmt", 0), "then", <<res>>, 0)
        /\ UNCHANGED memory

(* Mutant of IfHasThen: the word else is not consumed. *)
IfHasThenKeepsElse ==
  /\ At("IfStmt", "then")
  /\ LET cond == Top.held[1]
     IN  \/ GivesUp(TreeOf(cond), 0)
         \/ /\ ~Failed /\ Peek = "Else"
            /\ Looks
            /\ Calls(Frame("BlockStmt", 0), "else", <<cond, res>>, 0)
            /\ UNCHANGED memory
         \/ /\ ~Failed /\ Peek # "Else"
            /\ Looks
            /\ ReturnsNew("IfStmt", 0, <<cond, res>>)

IfHasThen ==
  /\ At("IfStmt", "then")
  /\ LET cond == Top.held[1]
     IN  \/ GivesUp(TreeOf(cond), 0)
         \/ /\ ~Failed /\ Peek = "Else"
            /\ Consumes
            /\ Calls(Frame("BlockStmt", 0), "else", <<cond, res>>, 0)
            /\ UNCHANGED memory
         \/ /\ ~Failed /\ Peek # "Else"
            /\ \/ Looks /\ ReturnsNew("IfStmt", 0, <<cond, res>>)
               \/ OutOfMemory(TreeOf(res) \union TreeOf(cond))

IfHasElse ==
  /\ At("IfStmt", "else")
  /\ LET both == TreeOf(Top.held[1]) \union TreeOf(Top.held[2])
     IN  \/ GivesUp(both, 0)
         \/ /\ ~Failed
            /\ \/ Looks /\ ReturnsNew("IfElseStmt", 0, Append(Top.held, res))
               \/ OutOfMemory(TreeOf(res) \union both)

-----------------------------------------------------------------------------
(* ParRule_Stmt and ParRule_Prog *)

StmtRule(tag) ==
  CASE tag = "Name" -> "AsgnStmt"
    [] tag = "If" -> "IfStmt"
    [] tag = "LeftBrace" -> "BlockStmt"

StmtStarts ==
  /\ At("Stmt", "start")
  /\ \/ Peek = "NULL" /\ Crashes /\ UNCHANGED <<off, err>>
     \/ /\ Peek \in {"Name", "If", "LeftBrace"}
        /\ Looks
        /\ Becomes(Frame(StmtRule(Peek), 0))
        /\ UNCHANGED memory
     \/ /\ Peek \notin {"NULL", "Name", "If", "LeftBrace"}
        /\ Unexpected({}, 0)

ProgStarts ==
  /\ At("Prog", "start")
  /\ \/ Looks /\ Allocates(Object("Prog", 0, << >>)) /\ Stays("loop", <<next>>)
     \/ OutOfMemory({})

ProgLoops ==
  /\ At("Prog", "loop")
  /\ \/ Peek = "Eof" /\ Consumes /\ Returns(Top.held[1])
     \/ Peek # "Eof" /\ Looks /\ Calls(Frame("Stmt", 0), "stmt", Top.held, 0)
  /\ UNCHANGED memory

(* Mutant of ProgHasStmt: after a failed statement the loop goes on. *)
ProgHasStmtContinues ==
  /\ At("Prog", "stmt")
  /\ Looks
  /\ \/ Failed /\ UNCHANGED memory
     \/ ~Failed /\ Pushes(Top.held[1], res)
  /\ Stays("loop", Top.held)

ProgHasStmt ==
  /\ At("Prog", "stmt")
  /\ LET prog == Top.held[1]
     IN  \/ GivesUp(TreeOf(prog), 0)
         \/ /\ ~Failed
            /\ \/ Looks /\ Pushes(prog, res) /\ Stays("loop", Top.held)
               \/ OutOfMemory(TreeOf(res) \union TreeOf(prog))

-----------------------------------------------------------------------------
(* Parser_Parse returns: after an error, with the position of the token    *)
(* at off, which must be there, and a message if there is memory for it.   *)
ParseReturns ==
  /\ pc = "run" /\ stack = << >>
  /\ \/ /\ ~Failed
        /\ pc' = "done" /\ ret' = TRUE /\ tree' = res
        /\ UNCHANGED <<err, toks, off, stack, res, memory, mark, astray, calls>>
     \/ /\ Failed /\ Peek # "NULL"
        /\ pc' = "done" /\ ret' = FALSE /\ tree' = res
        /\ \E msg \in {err.msg + 1} \union (IF FaultyAlloc THEN {err.msg} ELSE {}) :
             err' = [err EXCEPT !.msg = msg, !.tok = off + 1]
        /\ UNCHANGED <<toks, off, stack, res, memory, mark, astray, calls>>
     \/ Failed /\ Peek = "NULL" /\ Crashes /\ UNCHANGED <<off, err>>

(* The caller.  Linking a program in place of one that was never parsed is *)
(* as good as linking it at first, and is left out.                        *)
Link(p) ==
  /\ pc \in {"idle", "done"}
  /\ off # 0 \/ toks = << >>
  /\ calls < MaxParse
  /\ toks' = p
  /\ off' = 0
  /\ pc' = "idle"
  /\ UNCHANGED <<err, stack, res, ret, tree, memory, mark, astray, calls>>

Parse ==
  /\ pc \in {"idle", "done"}
  /\ calls < MaxParse
  /\ calls' = calls + 1
  /\ IF toks = << >>
     THEN pc' = "done" /\ ret' = FALSE /\ UNCHANGED <<stack, mark, astray>>
     ELSE /\ pc' = "run"
          /\ stack' = <<Frame("Prog", 0)>>
          /\ mark' = next
          /\ astray' = (off # 0 \/ Failed)
          /\ UNCHANGED ret
  /\ UNCHANGED <<parser, res, tree, memory>>

Reset ==
  /\ pc \in {"idle", "done"}
  /\ toks' = << >>
  /\ off' = 0
  /\ err' = NoErr
  /\ pc' = "idle"
  /\ UNCHANGED <<stack, res, ret, tree, memory, mark, astray, calls>>

(* The caller frees the tree of a successful Parse. *)
FreeTree ==
  /\ pc = "done" /\ ret /\ tree # 0
  /\ Frees(TreeOf(tree))
  /\ tree' = 0
  /\ pc' = "idle"
  /\ UNCHANGED <<parser, stack, res, ret, mark, astray, calls>>

-----------------------------------------------------------------------------
Init ==
  /\ toks = << >> /\ off = 0 /\ err = NoErr
  /\ pc = "idle" /\ stack = << >> /\ res = 0
  /\ ret = FALSE /\ tree = 0
  /\ heap = << >> /\ next = 1 /\ misfreed = FALSE
  /\ mark = 1 /\ astray = FALSE /\ calls = 0

Base == BaseStarts \/ BaseCloses

Unary == UnaryStarts \/ UnaryEnds

Binary == BinaryStarts \/ BinaryHasLhs \/ BinaryAgain \/ BinaryHasRhs

AsgnStmt == AssignStarts \/ AssignHasLhs \/ AssignEnds

Block == BlockStarts \/ BlockOpens \/ BlockLoops \/ BlockHasStmt

BlockStmt == BlockStmtStarts \/ BlockStmtEnds

IfStmt == IfStarts \/ IfHasCond \/ IfHasThen \/ IfHasElse

Prog == ProgStarts \/ ProgLoops \/ ProgHasStmt

ParserStep ==
  \/ Base \/ Unary \/ Binary
  \/ AsgnStmt \/ Block \/ BlockStmt \/ IfStmt \/ StmtStarts \/ Prog
  \/ ParseReturns

Next ==
  \/ \E p \in Program : Link(p)
  \/ Parse
  \/ Reset
  \/ FreeTree
  \/ ParserStep

Spec == Init /\ [][Next]_vars

(* The parser's fields, its stack and the nodes are what the declarations  *)
(* of parser.c:16-32 and ast.h:8-49 and the rules' local variables allow.   *)
TypeOK ==
  /\ toks \in Program \union {<< >>}
  /\ off \in Nat
  /\ err \in [type : ParErr, msg : Nat, tok : Nat]
  /\ pc \in {"idle", "run", "done", "crashed"}
  /\ stack \in Seq([rule : Rule, lvl : 0 .. 8, at : Label,
                    held : Seq(1 .. next - 1), tok : 0 .. off])
  /\ res \in 0 .. next - 1 /\ ret \in BOOLEAN /\ tree \in 0 .. next - 1
  /\ next \in Nat \ {0} /\ DOMAIN heap \subseteq 1 .. next - 1
  /\ \A i \in DOMAIN heap :
       heap[i] \in [tag : NodeTag, tok : Nat, kids : Seq(1 .. next - 1),
                   ids : SUBSET (1 .. next - 1)]
  /\ misfreed \in BOOLEAN /\ mark \in 1 .. next /\ astray \in BOOLEAN
  /\ calls \in 0 .. MaxParse

(* A Parse runs until it returns; nothing obliges the caller to make one.  *)
FairSpec == Spec /\ WF_vars(ParserStep)
=============================================================================
