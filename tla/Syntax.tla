------------------------------- MODULE Syntax -------------------------------
(***************************************************************************)
(* What a parse should come to, said without the rules' recursion: a       *)
(* left-to-right scan that knows after each token whether the program can  *)
(* still be completed, and the shape of the tree in terms of the tokens.   *)
(***************************************************************************)
EXTENDS Parser, FiniteSets

Leaf == DOMAIN LeafTag
Prefix == DOMAIN UnaTag
Infix == UNION {DOMAIN BinTag[n] : n \in 2 .. 8}

(* The scan: what is expected, and what is open around it, innermost       *)
(* first: a parenthesis, an assignment, a condition, a then-block, a block.*)
Expecting(mode, open) == [mode |-> mode, open |-> open]

Scan(s, tag) ==
  LET inside == IF s.open = << >> THEN "program" ELSE Head(s.open)
      Open(mode, what) == Expecting(mode, <<what>> \o s.open)
      Close(mode) == Expecting(mode, Tail(s.open))
      Turn(mode, what) == Expecting(mode, <<what>> \o Tail(s.open))
      InStmts == s.mode \in {"stmt", "stmt or else"}
  IN  CASE InStmts /\ tag = "Name" -> Open("=", "assignment")
        [] InStmts /\ tag = "If" -> Open("operand", "condition")
        [] InStmts /\ tag = "LeftBrace" -> Open("stmt", "block")
        [] InStmts /\ tag = "RightBrace" /\ inside = "then" -> Close("stmt or else")
        [] InStmts /\ tag = "RightBrace" /\ inside = "block" -> Close("stmt")
        [] InStmts /\ tag = "Eof" /\ inside = "program" -> Expecting("end", << >>)
        [] s.mode = "stmt or else" /\ tag = "Else" -> Open("{", "block")
        [] s.mode = "{" /\ tag = "LeftBrace" -> Expecting("stmt", s.open)
        [] s.mode = "=" /\ tag = "Assign" -> Expecting("operand", s.open)
        [] s.mode = "operand" /\ tag \in Leaf -> Expecting("operator", s.open)
        [] s.mode = "operand" /\ tag \in Prefix -> s
        [] s.mode = "operand" /\ tag = "LeftParen" -> Open("operand", "paren")
        [] s.mode = "operator" /\ tag \in Infix -> Expecting("operand", s.open)
        [] s.mode = "operator" /\ tag = "RightParen" /\ inside = "paren" -> Close("operator")
        [] s.mode = "operator" /\ tag = "Semicolon" /\ inside = "assignment" -> Close("stmt")
        [] s.mode = "operator" /\ tag = "LeftBrace" /\ inside = "condition" -> Turn("stmt", "then")
        [] OTHER -> Expecting("wrong", << >>)

(* What is expected after each number of tokens of p. *)
Scans(p) ==
  LET after[n \in 0 .. Len(p)] ==
        IF n = 0 THEN Expecting("stmt", << >>) ELSE Scan(after[n - 1], p[n])
  IN  after

-----------------------------------------------------------------------------
(* A Parse of a fresh program by a parser that has not failed has returned. *)
Parsed == pc = "done" /\ toks # << >> /\ ~ astray

(* A parse succeeds exactly on the programs of the grammar, having consumed
   every token; else it names the first token with which no program can
   begin, unless memory ran out.  This is about the one token of lookahead
   of ParRule_* (rule.c), the error that every rule passes on at once, and
   the token at which Parser_SetErrorInfo looks (parser.c:161). *)
Judged ==
  Parsed =>
    LET after == Scans(toks)
    IN  IF ret
        THEN after[Len(toks)].mode = "end" /\ off = Len(toks)
        ELSE \/ err.type = "NoEnoughMemory" /\ FaultyAlloc
             \/ /\ err.type = "UnexpectedToken"
                /\ after[err.tok - 1].mode # "wrong"
                /\ after[err.tok].mode = "wrong"

-----------------------------------------------------------------------------
Node(i) == heap[i]

Under(i) == {Node(j).tok : j \in Node(i).ids} \ {0}

Precedes(S, T) == \A a \in S, b \in T : a < b

(* How many of the tokens of tag open are unclosed before token k. *)
Depth(open, close, k) ==
  Cardinality({j \in 1 .. k - 1 : toks[j] = open})
    - Cardinality({j \in 1 .. k - 1 : toks[j] = close})

Parens(k) == Depth("LeftParen", "RightParen", k)

(* The level of an operator's node: 1 for the unary ones, 0 for a leaf.    *)
Level(i) ==
  CASE Len(Node(i).kids) = 0 -> 0
    [] Len(Node(i).kids) = 1 -> 1
    [] OTHER -> CHOOSE n \in 2 .. 8 : Node(i).tag \in Range(BinTag[n])

(* May c be an operand of the operator node i, with no parentheses unless  *)
(* it binds tighter, or as tightly and on the side that associates?        *)
Binds(i, c, associates) ==
  \/ Level(c) = 0
  \/ Parens(Node(c).tok) > Parens(Node(i).tok)
  \/ /\ Parens(Node(c).tok) = Parens(Node(i).tok)
     /\ Level(c) < Level(i) \/ (associates /\ Level(c) = Level(i))

IsOperator(i) == Node(i).tok # 0 /\ Node(i).kids # << >>

WellBound(i) ==
  LET kids == Node(i).kids
      right == Level(i) \in {2, 8}
  IN  IF Len(kids) = 1
      THEN Precedes({Node(i).tok}, Under(kids[1])) /\ Binds(i, kids[1], TRUE)
      ELSE /\ Precedes(Under(kids[1]), {Node(i).tok})
           /\ Precedes({Node(i).tok}, Under(kids[2]))
           /\ Binds(i, kids[1], ~ right)
           /\ Binds(i, kids[2], right)

(* The tree says what the tokens say: each name, literal and operator is one
   node, below as many blocks as braces are open around it; operands are on
   their operator's sides, grouped by parentheses, then by the levels of
   ParRule_Opd1 to ParRule_Opd8, of which 2 and 8 associate to the right and
   the others to the left; statements and their parts are in order, and there
   are as many conditions and else-branches as the words if and else
   (rule.c:100-655). *)
WellShaped ==
  Parsed /\ ret =>
    LET N == Node(tree).ids
        Tagged(tags) == {i \in N : Node(i).tag \in tags}
        Words(tag) == {k \in DOMAIN toks : toks[k] = tag}
        Of(k) == {i \in N : Node(i).tok = k}
    IN  /\ \A k \in DOMAIN toks :
             IF toks[k] \in Leaf \union Prefix \union Infix
             THEN /\ Cardinality(Of(k)) = 1
                  /\ Depth("LeftBrace", "RightBrace", k)
                       = Cardinality({i \in Tagged({"BlockStmt"}) : k \in Under(i)})
             ELSE Of(k) = {}
        /\ \A i \in N : IsOperator(i) => WellBound(i)
        /\ \A i \in N : \A a, b \in DOMAIN Node(i).kids :
             a < b => Precedes(Under(Node(i).kids[a]), Under(Node(i).kids[b]))
        /\ Cardinality(Tagged({"IfStmt", "IfElseStmt"})) = Cardinality(Words("If"))
        /\ Cardinality(Tagged({"IfElseStmt"})) = Cardinality(Words("Else"))
        /\ \A k \in Words("Assign") :
             \E i \in Tagged({"AsgnStmt"}) :
               /\ Node(Node(i).kids[1]).tok = k - 1
               /\ Precedes({k}, Under(Node(i).kids[2]))

(* Nothing is freed that is not allocated, whatever fails; what a successful
   Parse leaves of its allocations is exactly its tree, with one parent for
   every node; and a caller is never given a tree that was freed (the Free*
   labels of rule.c, AstNode_FreeTree and AstSeq_Free in ast.c:453-651). *)
Owned ==
  /\ ~ misfreed
  /\ tree # 0 => tree \in DOMAIN heap
  /\ Parsed /\ ~ ret => tree = 0
  /\ Parsed /\ ret =>
       /\ {i \in DOMAIN heap : i >= mark} = Node(tree).ids
       /\ \A i \in Node(tree).ids : IsInjective(Node(i).kids)
       /\ \A i \in Node(tree).ids \ {tree} :
            Cardinality({j \in Node(tree).ids : i \in Range(Node(j).kids)}) = 1

(* A parse of a fresh program never reads beyond the last token: Parser_Peek
   may return NULL, and ParRule_Stmt, Parser_ExpectAny and Parser_SetErrorInfo
   use what it returns (rule.c:723, parser.c:125, parser.c:162).  The one way
   to read NULL is the statement node for which there was no memory
   (rule.c:566). *)
CrashOnlyOutOfMemory ==
  pc = "crashed" /\ ~ astray => err.type = "NoEnoughMemory"

-----------------------------------------------------------------------------
(* How far a Parse is from its end.  A failed one only returns from its    *)
(* rules, once one has returned.                                           *)
Unwinding == Failed /\ (stack = << >> \/ Top.at \notin {"start", "loop", "open", "assign"})

(* The running rule begins: rules are called until one looks at a token,   *)
AtStart == stack # << >> /\ Top.at \in {"start", "open"}

(* after so many more steps.                                               *)
StepsToLook(f) ==
  CASE f.rule = "Opd" -> f.lvl
    [] f.rule = "Stmt" -> 3
    [] f.rule = "BlockStmt" -> 2
    [] f.rule = "Block" -> IF f.at = "start" THEN 1 ELSE 0
    [] OTHER -> 0

(* Else rules return, and loops go on, until one is called again.          *)
StepsToCall == 2 * Len(stack) - (IF stack # << >> /\ Top.at = "loop" THEN 1 ELSE 0)

(* What gets smaller, the first entry that changes. *)
Variant ==
  <<IF Unwinding THEN 0 ELSE 1,
    Len(toks) - off,
    IF ~ AtStart THEN 1 ELSE IF Top.rule = "Prog" THEN 2 ELSE 0,
    IF AtStart THEN StepsToLook(Top) ELSE StepsToCall>>

Smaller(v, w) == \E k \in DOMAIN w : v[k] < w[k] /\ \A j \in 1 .. k - 1 : v[j] = w[j]

(* Every step of a Parse, from whatever state it was begun in, brings it nearer
   to its end: the loops over operators and over statements go round only
   behind a token that they or the rules they called consumed, the rules call
   each other only so deep without one, and after a failure no rule but
   returns (rule.c:100-775). *)
Descends ==
  [][ParserStep /\ pc' = "run" => Variant' \in Seq(Nat) /\ Smaller(Variant', Variant)]_vars

(* A Parse returns, or reads NULL: no loop of rule.c goes round without
   consuming a token or failing. *)
ParseEnds == pc = "run" ~> pc # "run"
=============================================================================
