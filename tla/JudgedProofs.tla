---------------------------- MODULE JudgedProofs -----------------------------
(***************************************************************************)
(* Proofs about what a parse comes to: for every set of programs, the      *)
(* descent accepts what the scan of Syntax accepts, and blames the token   *)
(* at which the scan goes wrong; and the tree it hands over has the shape  *)
(* that the tokens ask for.                                                *)
(*                                                                         *)
(* A rule that runs stands somewhere in the scan: its label, and what was  *)
(* open around it when it was called, say what the scan expects at off.    *)
(*                                                                         *)
(* What has been read is in the trees that the running rules hold, in the  *)
(* order of the stack, but for what a rule has begun and no node shows yet *)
(* (Tells, in the second half of the module).                              *)
(***************************************************************************)
EXTENDS ParserProofs, RecursionFacts, SequenceTheorems

What == {"paren", "assignment", "condition", "then", "block"}

(* What is open around a rule, and whether the block it is or calls is a   *)
(* statement, a then-block or an else-block.                               *)
Around == [open : Seq(What), role : {"stmt", "then", "else"}]

(* What a rule has opened for the one it called. *)
Opened(g, role) ==
  IF g.rule = "Base" THEN <<"paren">>
  ELSE IF g.rule = "AsgnStmt" THEN <<"assignment">>
  ELSE IF g.rule = "IfStmt" /\ g.at = "cond" THEN <<"condition">>
  ELSE IF g.rule = "Block" THEN <<IF role = "then" THEN "then" ELSE "block">>
  ELSE << >>

(* What is around the rule that g called, G being around g. *)
Inside(g, G) ==
  [open |-> Opened(g, G.role) \o G.open,
   role |-> IF g.rule = "IfStmt" /\ g.at # "cond" THEN g.at
            ELSE IF g.rule = "BlockStmt" THEN G.role
            ELSE "stmt"]

(* f is the rule of operands of level n; Base does the work of Opd1.       *)
IsOpd(f, n) == f.rule \in {"Opd", "Base"} /\ n = IF f.rule = "Base" THEN 1 ELSE f.lvl

IsStmt(f) == f.rule \in {"Stmt", "AsgnStmt", "IfStmt", "BlockStmt"}

(* g waits for the rule f, which it called, or for one that f became.      *)
Awaits(g, f) ==
  \/ g.rule = "Base" /\ g.at = "expr" /\ IsOpd(f, 8)
  \/ g.rule = "Opd" /\ g.at = "opd" /\ g.lvl = 1 /\ IsOpd(f, 1)
  \/ g.rule = "Opd" /\ g.at = "lhs" /\ IsOpd(f, g.lvl - 1)
  \/ g.rule = "Opd" /\ g.at = "rhs" /\ IsOpd(f, RightOpd(g.lvl))
  \/ g.rule = "AsgnStmt" /\ g.at = "rhs" /\ IsOpd(f, 8)
  \/ g.rule = "IfStmt" /\ g.at = "cond" /\ IsOpd(f, 8)
  \/ g.rule = "IfStmt" /\ g.at \in {"then", "else"} /\ f.rule = "BlockStmt"
  \/ g.rule = "BlockStmt" /\ g.at = "block" /\ f.rule = "Block"
  \/ g.rule \in {"Block", "Prog"} /\ g.at = "stmt" /\ IsStmt(f)

(* Every rule on the stack was called by the one below it; es says what is *)
(* around each.                                                            *)
Nested(s, es) ==
  /\ es \in Seq(Around) /\ Len(es) = Len(s)
  /\ \A k \in 1 .. Len(s) - 1 : Awaits(s[k + 1], s[k]) /\ es[k] = Inside(s[k + 1], es[k + 1])
  /\ s[Len(s)].rule = "Prog" /\ es[Len(s)].open = << >>

-----------------------------------------------------------------------------
(* Places in the scan; cur is what is expected, look the next token. *)

(* Before a statement or the end of its block. *)
AtStmt(cur, open, look) ==
  \E m \in {"stmt", "stmt or else"} :
    cur = Expecting(m, open) /\ (m = "stmt or else" => look # "Else")

(* Behind an operand, to which no operator of the levels up to n belongs.  *)
BehindOperand(cur, open, n, look) ==
  cur = Expecting("operator", open) /\ \A m \in 2 .. n : look \notin DOMAIN BinTag[m]

(* Before the brace of a block. *)
BeforeBlock(cur, E, look) ==
  \/ E.role = "stmt" /\ AtStmt(cur, E.open, look) /\ look = "LeftBrace"
  \/ E.role = "then" /\ BehindOperand(cur, <<"condition">> \o E.open, 8, look)
  \/ E.role = "else" /\ cur = Expecting("{", <<"block">> \o E.open)

(* Behind its closing brace. *)
BehindBlock(cur, E) ==
  cur = Expecting(IF E.role = "then" THEN "stmt or else" ELSE "stmt", E.open)

(* Where the running rule stands before its step. *)
Stands(f, E, cur, look) ==
  LET open == Inside(f, E).open
  IN  \/ f.rule = "Opd" /\ f.at = "start" /\ cur = Expecting("operand", E.open)
      \/ f.rule = "Base" /\ f.at = "start" /\ cur = Expecting("operand", E.open)
           /\ look \notin Prefix
      \/ f.rule = "Base" /\ f.at = "expr" /\ BehindOperand(cur, open, 8, look)
      \/ f.rule = "Opd" /\ f.at = "opd" /\ f.lvl = 1 /\ BehindOperand(cur, E.open, 1, look)
      \/ f.rule = "Opd" /\ f.at \in {"lhs", "rhs", "loop"}
           /\ BehindOperand(cur, E.open, f.lvl - 1, look)
      \/ f.rule = "AsgnStmt" /\ f.at = "start" /\ AtStmt(cur, E.open, look) /\ look = "Name"
      \/ f.rule = "AsgnStmt" /\ f.at = "assign" /\ cur = Expecting("=", open)
      \/ f.rule = "AsgnStmt" /\ f.at = "rhs" /\ BehindOperand(cur, open, 8, look)
      \/ f.rule = "IfStmt" /\ f.at = "start" /\ AtStmt(cur, E.open, look) /\ look = "If"
      \/ f.rule = "IfStmt" /\ f.at = "cond" /\ BehindOperand(cur, open, 8, look)
      \/ f.rule = "IfStmt" /\ f.at = "then" /\ cur = Expecting("stmt or else", E.open)
      \/ f.rule = "IfStmt" /\ f.at = "else" /\ cur = Expecting("stmt", E.open)
      \/ f.rule = "BlockStmt" /\ f.at = "start" /\ BeforeBlock(cur, E, look)
      \/ f.rule = "BlockStmt" /\ f.at = "block" /\ BehindBlock(cur, E)
      \/ f.rule = "Block" /\ f.at \in {"start", "open"} /\ BeforeBlock(cur, E, look)
      \/ f.rule = "Block" /\ f.at \in {"loop", "stmt"} /\ AtStmt(cur, open, look)
      \/ f.rule = "Stmt" /\ f.at = "start" /\ AtStmt(cur, E.open, look)
           /\ \/ E.open = << >> /\ look # "Eof"
              \/ E.open # << >> /\ Head(E.open) \in {"then", "block"} /\ look # "RightBrace"
      \/ f.rule = "Prog" /\ f.at \in {"start", "loop", "stmt"} /\ AtStmt(cur, << >>, look)

(* Where a rule leaves the scan when it returns. *)
Leaves(f, E, cur, look) ==
  \/ \E n \in 1 .. 8 : IsOpd(f, n) /\ BehindOperand(cur, E.open, n, look)
  \/ f.rule \in {"AsgnStmt", "IfStmt", "Stmt"} /\ AtStmt(cur, E.open, look)
  \/ f.rule \in {"BlockStmt", "Block"} /\ BehindBlock(cur, E)

(* What is expected at off. *)
Here == Scans(toks)[off]

(* The error a rule has set. *)
Blamed ==
  \/ err.type = "NoEnoughMemory" /\ FaultyAlloc
  \/ err.type = "UnexpectedToken" /\ Here.mode # "wrong" /\ Scan(Here, Peek).mode = "wrong"

Waits(f) == f.at \in {"expr", "opd", "lhs", "rhs", "cond", "then", "else", "block", "stmt"}

Follows ==
  /\ stack # << >> =>
       \E es : /\ Nested(stack, es)
               /\ IF Failed THEN Waits(Top) ELSE Stands(Top, es[1], Here, Peek)
  /\ Failed => Blamed
  /\ stack = << >> /\ ~ Failed => Here.mode = "end" /\ off = Len(toks)

JInv ==
  /\ IInv
  /\ pc = "run" /\ ~ astray => Follows
  /\ Judged

-----------------------------------------------------------------------------
(* The scan. *)

LEMMA OnTop ==
  ASSUME NEW S, NEW x \in S, NEW u \in Seq(S)
  PROVE  /\ <<x>> \o u \in Seq(S) /\ <<x>> \o u # << >>
         /\ Head(<<x>> \o u) = x /\ Tail(<<x>> \o u) = u
OBVIOUS

LEMMA TokenKinds ==
  /\ Leaf = {"Name", "StrLit", "NumLit", "False", "True"}
  /\ Prefix = {"Plus", "Minus", "Not"}
  /\ Infix = {"Exponent", "Asterisk", "ForwardSlash", "Percent", "Plus", "Minus", "LessThan",
              "Lte", "GreaterThan", "Gte", "Equ", "Neq", "And", "Or"}
<1>1. Leaf = {"Name", "StrLit", "NumLit", "False", "True"}
  BY DEF Leaf, LeafTag
<1>2. Prefix = {"Plus", "Minus", "Not"}
  BY DEF Prefix, UnaTag
<1>3. /\ DOMAIN BinTag[2] = {"Exponent"}
      /\ DOMAIN BinTag[3] = {"Asterisk", "ForwardSlash", "Percent"}
      /\ DOMAIN BinTag[4] = {"Plus", "Minus"}
      /\ DOMAIN BinTag[5] = {"LessThan", "Lte", "GreaterThan", "Gte"}
      /\ DOMAIN BinTag[6] = {"Equ", "Neq"}
      /\ DOMAIN BinTag[7] = {"And"}
      /\ DOMAIN BinTag[8] = {"Or"}
  BY DEF BinTag
<1>4. \A n \in 2 .. 8 : n = 2 \/ n = 3 \/ n = 4 \/ n = 5 \/ n = 6 \/ n = 7 \/ n = 8
  OBVIOUS
<1>5. Infix = DOMAIN BinTag[2] \union DOMAIN BinTag[3] \union DOMAIN BinTag[4]
                \union DOMAIN BinTag[5] \union DOMAIN BinTag[6] \union DOMAIN BinTag[7]
                \union DOMAIN BinTag[8]
  BY <1>4 DEF Infix
<1>6. Infix = {"Exponent", "Asterisk", "ForwardSlash", "Percent", "Plus", "Minus", "LessThan",
               "Lte", "GreaterThan", "Gte", "Equ", "Neq", "And", "Or"}
  BY <1>3, <1>5
<1> QED
  BY <1>1, <1>2, <1>6

LEMMA ScanStmt ==
  ASSUME NEW m \in {"stmt", "stmt or else"}, NEW open \in Seq(What), NEW tag
  PROVE  LET s == Expecting(m, open)
         IN  /\ tag = "Name" => Scan(s, tag) = Expecting("=", <<"assignment">> \o open)
             /\ tag = "If" => Scan(s, tag) = Expecting("operand", <<"condition">> \o open)
             /\ tag = "LeftBrace" => Scan(s, tag) = Expecting("stmt", <<"block">> \o open)
             /\ tag = "RightBrace" /\ open # << >> /\ Head(open) = "then" =>
                  Scan(s, tag) = Expecting("stmt or else", Tail(open))
             /\ tag = "RightBrace" /\ open # << >> /\ Head(open) = "block" =>
                  Scan(s, tag) = Expecting("stmt", Tail(open))
             /\ tag = "Eof" /\ open = << >> => Scan(s, tag) = Expecting("end", << >>)
             /\ tag = "Else" /\ m = "stmt or else" =>
                  Scan(s, tag) = Expecting("{", <<"block">> \o open)
<1> DEFINE s == Expecting(m, open)
<1>1. s.mode = m /\ s.open = open
  BY DEF Expecting
<1> HIDE DEF s
<1>2. tag = "Name" => Scan(s, tag) = Expecting("=", <<"assignment">> \o open)
  BY <1>1 DEF Scan
<1>3. tag = "If" => Scan(s, tag) = Expecting("operand", <<"condition">> \o open)
  BY <1>1 DEF Scan
<1>4. tag = "LeftBrace" => Scan(s, tag) = Expecting("stmt", <<"block">> \o open)
  BY <1>1 DEF Scan
<1>5. tag = "RightBrace" /\ open # << >> /\ Head(open) = "then" =>
        Scan(s, tag) = Expecting("stmt or else", Tail(open))
  BY <1>1 DEF Scan
<1>6. tag = "RightBrace" /\ open # << >> /\ Head(open) = "block" =>
        Scan(s, tag) = Expecting("stmt", Tail(open))
  BY <1>1 DEF Scan
<1>7. tag = "Eof" /\ open = << >> => Scan(s, tag) = Expecting("end", << >>)
  BY <1>1 DEF Scan
<1>8. tag = "Else" /\ m = "stmt or else" => Scan(s, tag) = Expecting("{", <<"block">> \o open)
  BY <1>1 DEF Scan
<1> QED
  BY <1>2, <1>3, <1>4, <1>5, <1>6, <1>7, <1>8 DEF s

LEMMA Innermost ==
  ASSUME NEW open \in Seq(What), open # << >>
  PROVE  Head(open) \in What /\ Head(open) # "program"
<1>1. Head(open) = open[1] /\ 1 \in 1 .. Len(open)
  OBVIOUS
<1>2. Head(open) \in What
  BY <1>1
<1> QED
  BY <1>2 DEF What

LEMMA Wrong == Expecting("wrong", << >>).mode = "wrong"
BY DEF Expecting

LEMMA ScanStmtWrong ==
  ASSUME NEW m \in {"stmt", "stmt or else"}, NEW open \in Seq(What), NEW tag,
         tag \notin {"Name", "If", "LeftBrace"},
         m = "stmt or else" => tag # "Else",
         \/ open = << >> /\ tag # "Eof"
         \/ open # << >> /\ tag # "RightBrace"
  PROVE  Scan(Expecting(m, open), tag).mode = "wrong"
<1> DEFINE s == Expecting(m, open)
<1>1. s.mode = m /\ s.open = open
  BY DEF Expecting
<1>2. open # << >> => Head(open) # "program"
  BY Innermost
<1> HIDE DEF s
<1>3. Scan(s, tag) = Expecting("wrong", << >>)
  BY <1>1, <1>2 DEF Scan
<1> QED
  BY <1>3, Wrong DEF s

LEMMA ScanOperand ==
  ASSUME NEW open \in Seq(What), NEW tag
  PROVE  LET s == Expecting("operand", open)
         IN  /\ tag \in Leaf => Scan(s, tag) = Expecting("operator", open)
             /\ tag \in Prefix => Scan(s, tag) = s
             /\ tag = "LeftParen" => Scan(s, tag) = Expecting("operand", <<"paren">> \o open)
             /\ tag \notin Leaf \union Prefix \union {"LeftParen"} => Scan(s, tag).mode = "wrong"
<1> DEFINE s == Expecting("operand", open)
<1>1. s.mode = "operand" /\ s.open = open
  BY DEF Expecting
<1>2. Leaf \cap Prefix = {} /\ "LeftParen" \notin Leaf \union Prefix
  BY TokenKinds
<1> HIDE DEF s
<1>3. tag \in Leaf => Scan(s, tag) = Expecting("operator", open)
  BY <1>1, <1>2 DEF Scan
<1>4. tag \in Prefix => Scan(s, tag) = s
  BY <1>1, <1>2 DEF Scan
<1>5. tag = "LeftParen" => Scan(s, tag) = Expecting("operand", <<"paren">> \o open)
  BY <1>1, <1>2 DEF Scan
<1>6. tag \notin Leaf \union Prefix \union {"LeftParen"} => Scan(s, tag) = Expecting("wrong", << >>)
  BY <1>1 DEF Scan
<1> QED
  BY <1>3, <1>4, <1>5, <1>6, Wrong DEF s

LEMMA ScanOperator ==
  ASSUME NEW open \in Seq(What), NEW tag
  PROVE  LET s == Expecting("operator", open)
         IN  /\ tag \in Infix => Scan(s, tag) = Expecting("operand", open)
             /\ tag = "RightParen" /\ open # << >> /\ Head(open) = "paren" =>
                  Scan(s, tag) = Expecting("operator", Tail(open))
             /\ tag = "Semicolon" /\ open # << >> /\ Head(open) = "assignment" =>
                  Scan(s, tag) = Expecting("stmt", Tail(open))
             /\ tag = "LeftBrace" /\ open # << >> /\ Head(open) = "condition" =>
                  Scan(s, tag) = Expecting("stmt", <<"then">> \o Tail(open))
<1> DEFINE s == Expecting("operator", open)
<1>1. s.mode = "operator" /\ s.open = open
  BY DEF Expecting
<1>2. {"RightParen", "Semicolon", "LeftBrace"} \cap Infix = {}
  BY TokenKinds
<1> HIDE DEF s
<1>3. tag \in Infix => Scan(s, tag) = Expecting("operand", open)
  BY <1>1, <1>2 DEF Scan
<1>4. tag = "RightParen" /\ open # << >> /\ Head(open) = "paren" =>
        Scan(s, tag) = Expecting("operator", Tail(open))
  BY <1>1, <1>2 DEF Scan
<1>5. tag = "Semicolon" /\ open # << >> /\ Head(open) = "assignment" =>
        Scan(s, tag) = Expecting("stmt", Tail(open))
  BY <1>1, <1>2 DEF Scan
<1>6. tag = "LeftBrace" /\ open # << >> /\ Head(open) = "condition" =>
        Scan(s, tag) = Expecting("stmt", <<"then">> \o Tail(open))
  BY <1>1, <1>2 DEF Scan
<1> QED
  BY <1>3, <1>4, <1>5, <1>6 DEF s

LEMMA ScanOperatorWrong ==
  ASSUME NEW open \in Seq(What), NEW tag, tag \notin Infix, open # << >>,
         Head(open) = "paren" => tag # "RightParen",
         Head(open) = "assignment" => tag # "Semicolon",
         Head(open) = "condition" => tag # "LeftBrace"
  PROVE  Scan(Expecting("operator", open), tag).mode = "wrong"
<1> DEFINE s == Expecting("operator", open)
<1>1. s.mode = "operator" /\ s.open = open
  BY DEF Expecting
<1> HIDE DEF s
<1>2. Scan(s, tag) = Expecting("wrong", << >>)
  BY <1>1 DEF Scan
<1> QED
  BY <1>2, Wrong DEF s

LEMMA ScanFixed ==
  ASSUME NEW open \in Seq(What), NEW tag
  PROVE  /\ tag = "Assign" => Scan(Expecting("=", open), tag) = Expecting("operand", open)
         /\ tag # "Assign" => Scan(Expecting("=", open), tag).mode = "wrong"
         /\ tag = "LeftBrace" => Scan(Expecting("{", open), tag) = Expecting("stmt", open)
         /\ tag # "LeftBrace" => Scan(Expecting("{", open), tag).mode = "wrong"
<1> DEFINE s == Expecting("=", open)
           t == Expecting("{", open)
<1>1. s.mode = "=" /\ s.open = open /\ t.mode = "{" /\ t.open = open
  BY DEF Expecting
<1> HIDE DEF s, t
<1>2. tag = "Assign" => Scan(s, tag) = Expecting("operand", open)
  BY <1>1 DEF Scan
<1>3. tag # "Assign" => Scan(s, tag) = Expecting("wrong", << >>)
  BY <1>1 DEF Scan
<1>4. tag = "LeftBrace" => Scan(t, tag) = Expecting("stmt", open)
  BY <1>1 DEF Scan
<1>5. tag # "LeftBrace" => Scan(t, tag) = Expecting("wrong", << >>)
  BY <1>1 DEF Scan
<1> QED
  BY <1>2, <1>3, <1>4, <1>5, Wrong DEF s, t

(* The scan of a program exists. *)
LEMMA ScansOf ==
  ASSUME NEW p, NEW L \in Nat, Len(p) = L
  PROVE  /\ Scans(p)[0] = Expecting("stmt", << >>)
         /\ \A n \in 1 .. L : Scans(p)[n] = Scan(Scans(p)[n - 1], p[n])
<1> DEFINE Begins == Expecting("stmt", << >>)
           Is(n, f) == f = [i \in 0 .. n |-> IF i = 0 THEN Begins ELSE Scan(f[i - 1], p[i])]
           G == {n \in Nat : \E f : Is(n, f)}
<1> HIDE DEF Begins
<1>1. 0 \in G
  <2> DEFINE f == [i \in 0 .. 0 |-> Begins]
             g == [i \in 0 .. 0 |-> IF i = 0 THEN Begins ELSE Scan(f[i - 1], p[i])]
  <2>1. f = g
    OBVIOUS
  <2> HIDE DEF f
  <2> QED
    BY <2>1
<1>2. ASSUME NEW n \in Nat, n \in G PROVE n + 1 \in G
  <2>1. PICK f : Is(n, f)
    BY <1>2
  <2>2. \A i \in 0 .. n : f[i] = IF i = 0 THEN Begins ELSE Scan(f[i - 1], p[i])
    BY <2>1
  <2> DEFINE g == [i \in 0 .. n + 1 |-> IF i = n + 1 THEN Scan(f[n], p[n + 1]) ELSE f[i]]
             h == [i \in 0 .. n + 1 |-> IF i = 0 THEN Begins ELSE Scan(g[i - 1], p[i])]
  <2>3. ASSUME NEW i \in 0 .. n + 1
        PROVE  g[i] = IF i = 0 THEN Begins ELSE Scan(g[i - 1], p[i])
    <3>1. CASE i = n + 1
      <4>1. g[i] = Scan(f[n], p[i]) /\ i # 0
        BY <3>1
      <4>2. g[i - 1] = f[n]
        BY <3>1
      <4> QED
        BY <4>1, <4>2
    <3>2. CASE i # n + 1
      <4>1. i \in 0 .. n /\ g[i] = f[i]
        BY <3>2
      <4>2. i # 0 => g[i - 1] = f[i - 1]
        BY <3>2
      <4> QED
        BY <4>1, <4>2, <2>2
    <3> QED
      BY <3>1, <3>2
  <2>4. g = h
    BY <2>3
  <2> HIDE DEF g
  <2>5. Is(n + 1, g)
    BY <2>4
  <2> QED
    BY <2>5
<1> HIDE DEF G
<1>3. L \in G
  BY <1>1, <1>2, NatIsAll
<1>4. \E f : Is(L, f)
  BY <1>3 DEF G
<1> DEFINE after == CHOOSE f : Is(L, f)
<1>5. Is(L, after)
  BY <1>4
<1>6. Scans(p) = after
  BY Zenon DEF Scans, Begins
<1> HIDE DEF after
<1>7. \A i \in 0 .. L : after[i] = IF i = 0 THEN Begins ELSE Scan(after[i - 1], p[i])
  BY <1>5
<1> QED
  BY <1>6, <1>7 DEF Begins

-----------------------------------------------------------------------------
(* Rules and where they stand. *)

(* All that the descent knows of a rule in the scan is its name, its level *)
(* and its label.                                                          *)
LEMMA Openings ==
  ASSUME NEW f, NEW E \in Around
  PROVE  /\ E.open \in Seq(What) /\ E.role \in {"stmt", "then", "else"}
         /\ << >> \o E.open = E.open
         /\ f.rule = "Base" => Inside(f, E).open = <<"paren">> \o E.open
         /\ f.rule = "AsgnStmt" => Inside(f, E).open = <<"assignment">> \o E.open
         /\ f.rule = "IfStmt" /\ f.at = "cond" => Inside(f, E).open = <<"condition">> \o E.open
         /\ f.rule = "Block" =>
              Inside(f, E).open = <<IF E.role = "then" THEN "then" ELSE "block">> \o E.open
         /\ \/ f.rule \in {"Opd", "BlockStmt", "Prog", "Stmt"}
            \/ f.rule = "IfStmt" /\ f.at # "cond"
            => Inside(f, E).open = E.open
<1>1. E.open \in Seq(What) /\ E.role \in {"stmt", "then", "else"}
  BY DEF Around
<1>2. << >> \o E.open = E.open
  BY <1>1
<1>3. Inside(f, E).open = Opened(f, E.role) \o E.open
  BY DEF Inside
<1>4. /\ f.rule = "Base" => Opened(f, E.role) = <<"paren">>
      /\ f.rule = "AsgnStmt" => Opened(f, E.role) = <<"assignment">>
      /\ f.rule = "IfStmt" /\ f.at = "cond" => Opened(f, E.role) = <<"condition">>
      /\ f.rule = "Block" => Opened(f, E.role) = <<IF E.role = "then" THEN "then" ELSE "block">>
      /\ \/ f.rule \in {"Opd", "BlockStmt", "Prog", "Stmt"}
         \/ f.rule = "IfStmt" /\ f.at # "cond"
         => Opened(f, E.role) = << >>
  BY DEF Opened
<1> QED
  BY <1>1, <1>2, <1>3, <1>4, Zenon

LEMMA Roles ==
  ASSUME NEW f, NEW E
  PROVE  /\ f.rule = "IfStmt" /\ f.at # "cond" => Inside(f, E).role = f.at
         /\ f.rule = "BlockStmt" => Inside(f, E).role = E.role
         /\ f.rule \notin {"IfStmt", "BlockStmt"} => Inside(f, E).role = "stmt"
         /\ f.rule = "IfStmt" /\ f.at = "cond" => Inside(f, E).role = "stmt"
BY DEF Inside

LEMMA OpenedWhat ==
  ASSUME NEW f, NEW role
  PROVE  Opened(f, role) \in Seq(What)
<1>1. \A w \in What : <<w>> \in Seq(What)
  OBVIOUS
<1>2. << >> \in Seq(What)
  OBVIOUS
<1>3. {"paren", "assignment", "condition", "then", "block"} = What
  BY DEF What
<1>4. <<IF role = "then" THEN "then" ELSE "block">> \in Seq(What)
  <2>1. (IF role = "then" THEN "then" ELSE "block") \in What
    BY <1>3
  <2> QED
    BY <1>1, <2>1
<1>5. <<"paren">> \in Seq(What) /\ <<"assignment">> \in Seq(What) /\ <<"condition">> \in Seq(What)
  BY <1>1, <1>3
<1> QED
  BY <1>2, <1>4, <1>5 DEF Opened

LEMMA InsideAround ==
  ASSUME NEW g, NEW f, Awaits(g, f), NEW E \in Around
  PROVE  Inside(g, E) \in Around
<1>1. E.open \in Seq(What) /\ E.role \in {"stmt", "then", "else"}
  BY Openings
<1>2. Opened(g, E.role) \o E.open \in Seq(What)
  BY <1>1, OpenedWhat
<1>3. g.rule = "IfStmt" /\ g.at # "cond" => g.at \in {"then", "else"}
  BY DEF Awaits
<1> DEFINE o == Opened(g, E.role) \o E.open
           r == IF g.rule = "IfStmt" /\ g.at # "cond" THEN g.at
                ELSE IF g.rule = "BlockStmt" THEN E.role
                ELSE "stmt"
<1>4. r \in {"stmt", "then", "else"}
  BY <1>1, <1>3
<1>5. Inside(g, E) = [open |-> o, role |-> r]
  BY Zenon DEF Inside
<1> HIDE DEF o, r
<1>6. o \in Seq(What)
  BY <1>2 DEF o
<1> QED
  BY <1>4, <1>5, <1>6 DEF Around

(* The two fields make up what is around a rule. *)
LEMMA SameAround ==
  ASSUME NEW E \in Around, NEW F \in Around, E.open = F.open, E.role = F.role
  PROVE  E = F
BY DEF Around

LEMMA AwaitsWaits ==
  ASSUME NEW g, NEW f, Awaits(g, f)
  PROVE  Waits(g) /\ f.rule # "Prog"
BY DEF Awaits, Waits, IsOpd, IsStmt

LEMMA AwaitsAlike ==
  ASSUME NEW g, NEW f, NEW h, h.rule = f.rule, h.lvl = f.lvl, Awaits(g, f)
  PROVE  Awaits(g, h)
BY DEF Awaits, IsOpd, IsStmt

(* Stands, label by label. *)
LEMMA Places ==
  ASSUME NEW f, NEW E \in Around, NEW cur, NEW look
  PROVE  LET open == Inside(f, E).open
         IN  /\ f.rule = "Opd" /\ f.at = "start" =>
                  (Stands(f, E, cur, look) <=> cur = Expecting("operand", E.open))
             /\ f.rule = "Base" /\ f.at = "start" =>
                  (Stands(f, E, cur, look) <=>
                     cur = Expecting("operand", E.open) /\ look \notin Prefix)
             /\ f.rule = "Base" /\ f.at = "expr" =>
                  (Stands(f, E, cur, look) <=> BehindOperand(cur, <<"paren">> \o E.open, 8, look))
             /\ f.rule = "Opd" /\ f.at = "opd" =>
                  (Stands(f, E, cur, look) <=>
                     f.lvl = 1 /\ BehindOperand(cur, E.open, 1, look))
             /\ f.rule = "Opd" /\ f.at \in {"lhs", "rhs", "loop"} =>
                  (Stands(f, E, cur, look) <=> BehindOperand(cur, E.open, f.lvl - 1, look))
             /\ f.rule = "AsgnStmt" /\ f.at = "start" =>
                  (Stands(f, E, cur, look) <=> AtStmt(cur, E.open, look) /\ look = "Name")
             /\ f.rule = "AsgnStmt" /\ f.at = "assign" =>
                  (Stands(f, E, cur, look) <=> cur = Expecting("=", <<"assignment">> \o E.open))
             /\ f.rule = "AsgnStmt" /\ f.at = "rhs" =>
                  (Stands(f, E, cur, look) <=>
                     BehindOperand(cur, <<"assignment">> \o E.open, 8, look))
             /\ f.rule = "IfStmt" /\ f.at = "start" =>
                  (Stands(f, E, cur, look) <=> AtStmt(cur, E.open, look) /\ look = "If")
             /\ f.rule = "IfStmt" /\ f.at = "cond" =>
                  (Stands(f, E, cur, look) <=>
                     BehindOperand(cur, <<"condition">> \o E.open, 8, look))
             /\ f.rule = "IfStmt" /\ f.at = "then" =>
                  (Stands(f, E, cur, look) <=> cur = Expecting("stmt or else", E.open))
             /\ f.rule = "IfStmt" /\ f.at = "else" =>
                  (Stands(f, E, cur, look) <=> cur = Expecting("stmt", E.open))
             /\ f.rule = "BlockStmt" /\ f.at = "start" =>
                  (Stands(f, E, cur, look) <=> BeforeBlock(cur, E, look))
             /\ f.rule = "BlockStmt" /\ f.at = "block" =>
                  (Stands(f, E, cur, look) <=> BehindBlock(cur, E))
             /\ f.rule = "Block" /\ f.at \in {"start", "open"} =>
                  (Stands(f, E, cur, look) <=> BeforeBlock(cur, E, look))
             /\ f.rule = "Block" /\ f.at \in {"loop", "stmt"} =>
                  (Stands(f, E, cur, look) <=> AtStmt(cur, open, look))
             /\ f.rule = "Stmt" /\ f.at = "start" =>
                  (Stands(f, E, cur, look) <=>
                     /\ AtStmt(cur, E.open, look)
                     /\ \/ E.open = << >> /\ look # "Eof"
                        \/ /\ E.open # << >> /\ Head(E.open) \in {"then", "block"}
                           /\ look # "RightBrace")
             /\ f.rule = "Prog" /\ f.at \in {"start", "loop", "stmt"} =>
                  (Stands(f, E, cur, look) <=> AtStmt(cur, << >>, look))
BY Openings, Zenon DEF Stands

(* Fewer levels, fewer operators to rule out. *)
LEMMA BehindFewer ==
  ASSUME NEW cur, NEW open, NEW look, NEW m \in Nat, NEW n \in Nat, m <= n,
         BehindOperand(cur, open, n, look)
  PROVE  BehindOperand(cur, open, m, look)
<1>1. \A k \in 2 .. m : k \in 2 .. n
  OBVIOUS
<1> QED
  BY <1>1 DEF BehindOperand

LEMMA BehindLeaf ==
  ASSUME NEW open, NEW look
  PROVE  BehindOperand(Expecting("operator", open), open, 1, look)
<1>1. 2 .. 1 = {}
  OBVIOUS
<1> QED
  BY <1>1 DEF BehindOperand

LEMMA BehindNone ==
  ASSUME NEW cur, NEW open, NEW look, BehindOperand(cur, open, 8, look)
  PROVE  cur = Expecting("operator", open) /\ look \notin Infix
BY DEF BehindOperand, Infix

(* The rule that called one which returns stands where the callee left. *)
LEMMA ReturnsTo ==
  ASSUME NEW g \in Frames, NEW f, NEW G \in Around, NEW cur, NEW look,
         Awaits(g, f), Leaves(f, Inside(g, G), cur, look),
         g.rule = "Prog" => G.open = << >>
  PROVE  Stands(g, G, cur, look)
<1> DEFINE E == Inside(g, G)
<1>1. E \in Around
  BY InsideAround
<1>2. g.lvl \in 0 .. 8 /\ (g.rule = "Opd" => g.lvl \in 1 .. 8)
  BY DEF Frames
<1>3. ASSUME NEW n \in Nat, IsOpd(f, n)
      PROVE  BehindOperand(cur, E.open, n, look)
  <2>1. f.rule \in {"Opd", "Base"}
    BY <1>3 DEF IsOpd
  <2>2. PICK m \in 1 .. 8 : IsOpd(f, m) /\ BehindOperand(cur, E.open, m, look)
    BY <2>1 DEF Leaves
  <2>3. m = n
    BY <1>3, <2>2 DEF IsOpd
  <2> QED
    BY <2>2, <2>3
<1>4. g.rule = "Base" => E.open = <<"paren">> \o G.open
  BY Openings
<1>5. g.rule = "AsgnStmt" => E.open = <<"assignment">> \o G.open
  BY Openings
<1>6. g.rule = "IfStmt" /\ g.at = "cond" => E.open = <<"condition">> \o G.open
  BY Openings
<1>7. \/ g.rule \in {"Opd", "BlockStmt", "Prog", "Stmt"}
      \/ g.rule = "IfStmt" /\ g.at # "cond"
      => E.open = G.open
  BY Openings
<1>8. f.rule \in {"BlockStmt", "Block"} => BehindBlock(cur, E)
  BY DEF Leaves, IsOpd
<1>9. f.rule \in {"AsgnStmt", "IfStmt", "Stmt"} => AtStmt(cur, E.open, look)
  BY DEF Leaves, IsOpd
<1>10. /\ g.rule = "IfStmt" /\ g.at # "cond" => E.role = g.at
       /\ g.rule = "BlockStmt" => E.role = G.role
       /\ g.rule \notin {"IfStmt", "BlockStmt"} => E.role = "stmt"
  BY Roles
<1>11. g.rule = "Block" => E = Inside(g, G)
  OBVIOUS
<1> HIDE DEF E
<1>12. CASE g.rule = "Base" /\ g.at = "expr" /\ IsOpd(f, 8)
  BY <1>3, <1>4, <1>12, Places
<1>13. CASE g.rule = "Opd" /\ g.at = "opd" /\ g.lvl = 1 /\ IsOpd(f, 1)
  BY <1>3, <1>7, <1>13, Places
<1>14. CASE g.rule = "Opd" /\ g.at = "lhs" /\ IsOpd(f, g.lvl - 1)
  <2>1. g.lvl - 1 \in Nat
    BY <1>2, <1>14
  <2> QED
    BY <1>3, <1>7, <1>14, <2>1, Places
<1>15. CASE g.rule = "Opd" /\ g.at = "rhs" /\ IsOpd(f, RightOpd(g.lvl))
  <2>1. g.lvl - 1 \in Nat /\ RightOpd(g.lvl) \in Nat /\ g.lvl - 1 <= RightOpd(g.lvl)
    BY <1>2, <1>15 DEF RightOpd
  <2>2. BehindOperand(cur, G.open, g.lvl - 1, look)
    BY <1>3, <1>7, <1>15, <2>1, BehindFewer
  <2> QED
    BY <1>15, <2>2, Places
<1>16. CASE g.rule = "AsgnStmt" /\ g.at = "rhs" /\ IsOpd(f, 8)
  BY <1>3, <1>5, <1>16, Places
<1>17. CASE g.rule = "IfStmt" /\ g.at = "cond" /\ IsOpd(f, 8)
  BY <1>3, <1>6, <1>17, Places
<1>18. CASE g.rule = "IfStmt" /\ g.at \in {"then", "else"} /\ f.rule = "BlockStmt"
  <2>1. E.role = g.at /\ E.open = G.open /\ BehindBlock(cur, E)
    BY <1>7, <1>8, <1>10, <1>18
  <2>2. CASE g.at = "then"
    <3>1. cur = Expecting("stmt or else", G.open)
      BY <2>1, <2>2 DEF BehindBlock
    <3> QED
      BY <1>18, <2>2, <3>1, Places
  <2>3. CASE g.at = "else"
    <3>1. cur = Expecting("stmt", G.open)
      BY <2>1, <2>3 DEF BehindBlock
    <3> QED
      BY <1>18, <2>3, <3>1, Places
  <2> QED
    BY <1>18, <2>2, <2>3
<1>19. CASE g.rule = "BlockStmt" /\ g.at = "block" /\ f.rule = "Block"
  <2>1. E.role = G.role /\ E.open = G.open /\ BehindBlock(cur, E)
    BY <1>7, <1>8, <1>10, <1>19
  <2>2. BehindBlock(cur, G)
    BY <2>1 DEF BehindBlock
  <2> QED
    BY <1>19, <2>2, Places
<1>20. CASE g.rule \in {"Block", "Prog"} /\ g.at = "stmt" /\ IsStmt(f)
  <2>1. AtStmt(cur, E.open, look)
    <3>1. CASE f.rule = "BlockStmt"
      <4>1. cur = Expecting("stmt", E.open)
        BY <1>8, <1>10, <1>20, <3>1 DEF BehindBlock
      <4> QED
        BY <4>1 DEF AtStmt
    <3> QED
      BY <1>9, <1>20, <3>1 DEF IsStmt
  <2>2. CASE g.rule = "Prog"
    BY <1>7, <1>20, <2>1, <2>2, Places
  <2>3. CASE g.rule = "Block"
    BY <1>11, <1>20, <2>1, <2>3, Places
  <2> QED
    BY <1>20, <2>2, <2>3
<1> QED
  BY <1>12, <1>13, <1>14, <1>15, <1>16, <1>17, <1>18, <1>19, <1>20 DEF Awaits

-----------------------------------------------------------------------------
(* The stack. *)

LEMMA LastOne ==
  ASSUME NEW S, NEW s \in Seq(S), s # << >>
  PROVE  Tail(s) = << >> <=> Len(s) = 1
<1> DEFINE t == Tail(s)
<1>1. t \in Seq(S) /\ Len(t) = Len(s) - 1 /\ Len(s) \in Nat
  OBVIOUS
<1> HIDE DEF t
<1>2. t = << >> <=> Len(t) = 0
  BY <1>1
<1> QED
  BY <1>1, <1>2 DEF t

LEMMA NestedTop ==
  ASSUME NEW s \in Seq(Frames), s # << >>, NEW es, Nested(s, es)
  PROVE  /\ Head(s) = s[1] /\ Head(s) \in Frames /\ es[1] \in Around
         /\ Head(s).rule = "Prog" <=> Tail(s) = << >>
         /\ Head(s).rule = "Prog" => es[1].open = << >>
<1>1. es \in Seq(Around) /\ Len(es) = Len(s) /\ Len(s) \in Nat /\ Len(s) > 0
  BY DEF Nested
<1>2. Head(s) = s[1] /\ s[1] \in Frames /\ es[1] \in Around
  BY <1>1
<1>3. CASE Len(s) = 1
  BY <1>1, <1>2, <1>3 DEF Nested
<1>4. CASE Len(s) # 1
  <2>1. 1 \in 1 .. Len(s) - 1
    BY <1>1, <1>4
  <2>2. Awaits(s[1 + 1], s[1])
    BY <2>1 DEF Nested
  <2>3. s[1].rule # "Prog"
    BY <2>2, AwaitsWaits
  <2>4. Tail(s) # << >>
    BY <1>4, LastOne
  <2> QED
    BY <1>2, <2>3, <2>4
<1> QED
  BY <1>3, <1>4

LEMMA NestedPop ==
  ASSUME NEW s \in Seq(Frames), NEW es, Nested(s, es), Tail(s) # << >>, s # << >>
  PROVE  /\ Nested(Tail(s), Tail(es))
         /\ Head(Tail(s)) = s[2] /\ Tail(es)[1] = es[2]
         /\ s[2] \in Frames /\ es[2] \in Around
         /\ Awaits(s[2], Head(s)) /\ es[1] = Inside(s[2], es[2])
<1> DEFINE t == Tail(s)
           ts == Tail(es)
<1>1. es \in Seq(Around) /\ Len(es) = Len(s) /\ Len(s) \in Nat /\ Len(s) > 1
  BY DEF Nested
<1>2. t \in Seq(Frames) /\ Len(t) = Len(s) - 1 /\ \A k \in 1 .. Len(s) - 1 : t[k] = s[k + 1]
  BY <1>1
<1>3. ts \in Seq(Around) /\ Len(ts) = Len(s) - 1 /\ \A k \in 1 .. Len(s) - 1 : ts[k] = es[k + 1]
  BY <1>1
<1>4. /\ \A k \in 1 .. Len(s) - 1 : Awaits(s[k + 1], s[k]) /\ es[k] = Inside(s[k + 1], es[k + 1])
      /\ s[Len(s)].rule = "Prog" /\ es[Len(s)].open = << >>
  BY DEF Nested
<1>5. Head(s) = s[1] /\ Head(t) = t[1] /\ t[1] = s[2] /\ ts[1] = es[2]
  BY <1>1, <1>2, <1>3
<1> HIDE DEF t, ts
<1>6. ASSUME NEW k \in 1 .. Len(t) - 1
      PROVE  Awaits(t[k + 1], t[k]) /\ ts[k] = Inside(t[k + 1], ts[k + 1])
  <2>1. k \in 1 .. Len(s) - 1 /\ k + 1 \in 1 .. Len(s) - 1
    BY <1>1, <1>2
  <2>2. Awaits(s[k + 1 + 1], s[k + 1]) /\ es[k + 1] = Inside(s[k + 1 + 1], es[k + 1 + 1])
    BY <1>4, <2>1
  <2> QED
    BY <1>2, <1>3, <2>1, <2>2
<1>7. t[Len(t)].rule = "Prog" /\ ts[Len(t)].open = << >>
  <2>1. Len(s) - 1 \in 1 .. Len(s) - 1 /\ Len(s) - 1 + 1 = Len(s)
    BY <1>1
  <2> QED
    BY <1>2, <1>3, <1>4, <2>1
<1>8. Nested(t, ts)
  BY <1>2, <1>3, <1>6, <1>7 DEF Nested
<1>9. 1 \in 1 .. Len(s) - 1 /\ 1 + 1 = 2
  BY <1>1
<1>10. Awaits(s[2], s[1]) /\ es[1] = Inside(s[2], es[2])
  BY <1>4, <1>9
<1>11. s[2] \in Frames /\ es[2] \in Around
  BY <1>1
<1> QED
  BY <1>5, <1>8, <1>10, <1>11 DEF t, ts

LEMMA NestedReplace ==
  ASSUME NEW s \in Seq(Frames), s # << >>, NEW es, Nested(s, es),
         NEW f \in Frames,
         Tail(s) = << >> => f.rule = "Prog",
         Tail(s) # << >> => Awaits(s[2], f)
  PROVE  /\ Nested(<<f>> \o Tail(s), es)
         /\ Head(<<f>> \o Tail(s)) = f
<1> DEFINE t == <<f>> \o Tail(s)
<1>1. es \in Seq(Around) /\ Len(es) = Len(s) /\ Len(s) \in Nat /\ Len(s) > 0
  BY DEF Nested
<1>2. t \in Seq(Frames) /\ Len(t) = Len(s) /\ t[1] = f /\ Head(t) = f
  BY <1>1
<1>3. \A k \in 2 .. Len(s) : t[k] = s[k]
  BY <1>1
<1>4. Tail(s) = << >> <=> Len(s) = 1
  BY LastOne
<1>5. /\ \A k \in 1 .. Len(s) - 1 : Awaits(s[k + 1], s[k]) /\ es[k] = Inside(s[k + 1], es[k + 1])
      /\ s[Len(s)].rule = "Prog" /\ es[Len(s)].open = << >>
  BY DEF Nested
<1> HIDE DEF t
<1>6. ASSUME NEW k \in 1 .. Len(s) - 1
      PROVE  Awaits(t[k + 1], t[k]) /\ es[k] = Inside(t[k + 1], es[k + 1])
  <2>1. k + 1 \in 2 .. Len(s) /\ t[k + 1] = s[k + 1]
    BY <1>1, <1>3
  <2>2. CASE k = 1
    <3>1. Awaits(s[2], f) /\ k + 1 = 2
      BY <1>1, <1>4, <2>2
    <3> QED
      BY <1>2, <1>5, <2>1, <2>2, <3>1
  <2>3. CASE k # 1
    <3>1. k \in 2 .. Len(s) /\ t[k] = s[k]
      BY <1>1, <1>3, <2>3
    <3> QED
      BY <1>5, <2>1, <3>1
  <2> QED
    BY <2>2, <2>3
<1>7. t[Len(t)].rule = "Prog"
  <2>1. CASE Len(s) = 1
    BY <1>2, <1>4, <2>1
  <2>2. CASE Len(s) # 1
    <3>1. Len(s) \in 2 .. Len(s)
      BY <1>1, <2>2
    <3> QED
      BY <1>2, <1>3, <1>5, <3>1
  <2> QED
    BY <2>1, <2>2
<1>8. Nested(t, es)
  BY <1>1, <1>2, <1>5, <1>6, <1>7 DEF Nested
<1> QED
  BY <1>2, <1>8 DEF t

LEMMA NestedPush ==
  ASSUME NEW s \in Seq(Frames), s # << >>, NEW es, Nested(s, es),
         NEW g \in Frames, g.rule = Head(s).rule, g.lvl = Head(s).lvl,
         NEW f \in Frames, Awaits(g, f)
  PROVE  /\ Nested(<<f, g>> \o Tail(s), <<Inside(g, es[1])>> \o es)
         /\ Head(<<f, g>> \o Tail(s)) = f
         /\ (<<Inside(g, es[1])>> \o es)[1] = Inside(g, es[1])
<1> DEFINE t == <<g>> \o Tail(s)
           u == <<f>> \o t
           v == <<f, g>> \o Tail(s)
           E == Inside(g, es[1])
           us == <<E>> \o es
<1>1. Tail(s) # << >> => Awaits(s[2], g)
  BY NestedPop, AwaitsAlike
<1>2. Tail(s) = << >> => g.rule = "Prog"
  BY NestedTop
<1>3. Nested(t, es)
  BY <1>1, <1>2, NestedReplace
<1>4. Tail(s) \in Seq(Frames)
  OBVIOUS
<1>5. u = v
  BY <1>4
<1>6. es \in Seq(Around) /\ Len(es) = Len(t) /\ es[1] \in Around
  BY <1>3, NestedTop DEF Nested
<1>7. E \in Around
  BY <1>6, InsideAround
<1>8. t \in Seq(Frames) /\ Len(t) \in Nat /\ Len(t) > 0 /\ t[1] = g
  BY <1>4
<1> HIDE DEF t, E
<1>9. u \in Seq(Frames) /\ Len(u) = Len(t) + 1 /\ u[1] = f /\ Head(u) = f
      /\ \A k \in 1 .. Len(t) : u[k + 1] = t[k]
  BY <1>8
<1>10. us \in Seq(Around) /\ Len(us) = Len(t) + 1 /\ us[1] = E
       /\ \A k \in 1 .. Len(t) : us[k + 1] = es[k]
  BY <1>6, <1>7, <1>8
<1> HIDE DEF u, us
<1>11. ASSUME NEW k \in 1 .. Len(u) - 1
       PROVE  Awaits(u[k + 1], u[k]) /\ us[k] = Inside(u[k + 1], us[k + 1])
  <2>1. k \in 1 .. Len(t) /\ u[k + 1] = t[k] /\ us[k + 1] = es[k]
    BY <1>8, <1>9, <1>10
  <2>2. CASE k = 1
    BY <1>8, <1>9, <1>10, <2>1, <2>2 DEF E
  <2>3. CASE k # 1
    <3>1. PICK j \in 1 .. Len(t) - 1 : k = j + 1
      <4>1. k - 1 \in 1 .. Len(t) - 1 /\ k = (k - 1) + 1
        BY <1>8, <2>1, <2>3
      <4> QED
        BY <4>1
    <3>2. Awaits(t[j + 1], t[j]) /\ es[j] = Inside(t[j + 1], es[j + 1])
      BY <1>3, <3>1 DEF Nested
    <3>3. u[k] = t[j] /\ us[k] = es[j] /\ j \in 1 .. Len(t)
      BY <1>8, <1>9, <1>10, <3>1
    <3> QED
      BY <2>1, <3>1, <3>2, <3>3
  <2> QED
    BY <2>2, <2>3
<1>12. u[Len(u)].rule = "Prog" /\ us[Len(u)].open = << >>
  <2>1. t[Len(t)].rule = "Prog" /\ es[Len(t)].open = << >>
    BY <1>3 DEF Nested
  <2>2. Len(t) \in 1 .. Len(t)
    BY <1>8
  <2> QED
    BY <1>9, <1>10, <2>1, <2>2
<1>13. Nested(u, us)
  BY <1>9, <1>10, <1>11, <1>12 DEF Nested
<1> QED
  BY <1>5, <1>9, <1>10, <1>13 DEF u, us, E

-----------------------------------------------------------------------------
(* What a step of a rule does to the place in the scan. *)

Going == Running /\ ~ astray /\ Follows

(* Nothing has failed, and es is what is around the rules.                 *)
Tracks(es) ==
  /\ Running /\ ~ astray /\ ~ Failed
  /\ Nested(stack, es) /\ Stands(Top, es[1], Here, Peek)

(* The running rule at another label. *)
Alike(f, at) == f.rule = Top.rule /\ f.lvl = Top.lvl /\ f.at = at

LEMMA Tracked ==
  ASSUME Going, ~ Failed \/ ~ Waits(Top)
  PROVE  \E es : Tracks(es)
BY DEF Going, Running, Follows, Tracks

LEMMA AheadOf ==
  ASSUME Running, ~ astray
  PROVE  /\ off \in Nat /\ off < Len(toks) /\ Len(toks) \in Nat
         /\ Peek = toks[off + 1] /\ Peek # "NULL"
         /\ Peek = "Eof" <=> off + 1 = Len(toks)
         /\ off + 1 \in 1 .. Len(toks) /\ off + 1 - 1 = off
<1>1. off \in Nat /\ toks \in Program
  BY DEF Running, IInv, Typed, Within
<1>2. Len(toks) \in Nat
  BY <1>1, ParserAssumption
<1>3. off < Len(toks) /\ Peek # "NULL" /\ (Peek = "Eof" <=> off + 1 = Len(toks))
  BY TokenAhead DEF Running
<1> QED
  BY <1>1, <1>2, <1>3 DEF Peek

LEMMA Kept ==
  ASSUME off' = off, UNCHANGED caller
  PROVE  Here' = Here /\ Peek' = Peek /\ toks' = toks
BY DEF Here, Peek, caller

LEMMA Consumed ==
  ASSUME Running, ~ astray, off' = off + 1, UNCHANGED caller
  PROVE  Here' = Scan(Here, Peek)
<1>1. Here' = Scans(toks)[off + 1]
  BY DEF Here, caller
<1>2. Scans(toks)[off + 1] = Scan(Scans(toks)[off + 1 - 1], toks[off + 1])
  BY AheadOf, ScansOf
<1> QED
  BY <1>1, <1>2, AheadOf DEF Here

LEMMA TracksTop ==
  ASSUME NEW es, Tracks(es)
  PROVE  /\ stack \in Seq(Frames) /\ stack # << >> /\ Top = Head(stack)
         /\ Top \in Frames /\ es[1] \in Around
         /\ es[1].open \in Seq(What) /\ es[1].role \in {"stmt", "then", "else"}
         /\ Top.rule = "Prog" <=> Tail(stack) = << >>
         /\ Top.rule = "Prog" => es[1].open = << >>
         /\ ~ Failed /\ Nested(stack, es)
<1>1. stack \in Seq(Frames) /\ stack # << >>
  BY RunningStack DEF Tracks
<1> QED
  BY <1>1, NestedTop, Openings DEF Tracks, Top

LEMMA FollowsReturns ==
  ASSUME NEW es, Tracks(es), NEW node, Returns(node), err' = err,
         Leaves(Top, es[1], Here', Peek')
  PROVE  Follows'
<1>1. Tail(stack) # << >>
  BY TracksTop DEF Leaves, IsOpd
<1>2. /\ Nested(Tail(stack), Tail(es))
      /\ Head(Tail(stack)) = stack[2] /\ Tail(es)[1] = es[2]
      /\ stack[2] \in Frames /\ es[2] \in Around
      /\ Awaits(stack[2], Top) /\ es[1] = Inside(stack[2], es[2])
  BY <1>1, TracksTop, NestedPop
<1>3. stack[2].rule = "Prog" => es[2].open = << >>
  <2>1. Tail(stack) \in Seq(Frames)
    BY TracksTop
  <2> QED
    BY <1>1, <1>2, <2>1, NestedTop
<1>4. Stands(stack[2], es[2], Here', Peek')
  BY <1>2, <1>3, ReturnsTo
<1>5. stack' = Tail(stack)
  BY DEF Returns
<1>6. ~ Failed'
  BY TracksTop DEF Failed
<1>7. Nested(stack', Tail(es)) /\ Stands(Top', Tail(es)[1], Here', Peek')
  BY <1>2, <1>4, <1>5 DEF Top
<1> QED
  BY <1>1, <1>5, <1>6, <1>7 DEF Follows

LEMMA FollowsStays ==
  ASSUME NEW es, Tracks(es), NEW at \in Label, NEW held \in Seq(Nat), held # << >>,
         Stays(at, held), err' = err, Top.rule = "Opd" => Top.lvl # 1,
         \A f : Alike(f, at) => Stands(f, es[1], Here', Peek')
  PROVE  Follows'
<1> DEFINE f == [Top EXCEPT !.at = at, !.held = held]
<1>1. stack' = <<f>> \o Tail(stack)
  BY DEF Stays
<1>2. f \in Frames /\ Alike(f, at)
  BY TracksTop DEF Frames, Alike
<1> HIDE DEF f
<1>3. Tail(stack) = << >> => f.rule = "Prog"
  BY <1>2, TracksTop DEF Alike
<1>4. Tail(stack) # << >> => Awaits(stack[2], f)
  BY <1>2, TracksTop, NestedPop, AwaitsAlike DEF Alike
<1>5. Nested(stack', es) /\ Top' = f /\ stack' # << >>
  <2>1. Tail(stack) \in Seq(Frames)
    BY TracksTop
  <2>2. <<f>> \o Tail(stack) # << >>
    BY <1>2, <2>1, OnTop
  <2> QED
    BY <1>1, <1>2, <1>3, <1>4, <2>2, TracksTop, NestedReplace DEF Top
<1>6. Stands(Top', es[1], Here', Peek')
  BY <1>2, <1>5
<1>7. ~ Failed'
  BY TracksTop DEF Failed
<1> QED
  BY <1>5, <1>6, <1>7 DEF Follows

LEMMA FollowsBecomes ==
  ASSUME NEW es, Tracks(es), NEW f \in Frames, Becomes(f), err' = err,
         Top.rule # "Prog",
         \A g : Awaits(g, Top) => Awaits(g, f),
         Stands(f, es[1], Here', Peek')
  PROVE  Follows'
<1>1. stack' = <<f>> \o Tail(stack)
  BY DEF Becomes
<1>2. Tail(stack) # << >> /\ Awaits(stack[2], f)
  BY TracksTop, NestedPop
<1>3. Nested(stack', es) /\ Top' = f /\ stack' # << >>
  <2>1. Tail(stack) \in Seq(Frames)
    BY TracksTop
  <2>2. <<f>> \o Tail(stack) # << >>
    BY <2>1, OnTop
  <2> QED
    BY <1>1, <1>2, <2>2, TracksTop, NestedReplace DEF Top
<1>4. ~ Failed'
  BY TracksTop DEF Failed
<1> QED
  BY <1>3, <1>4 DEF Follows

LEMMA FollowsCalls ==
  ASSUME NEW es, Tracks(es), NEW f \in Frames, NEW at \in Label, at \notin {"start", "loop"},
         NEW held \in Seq(Nat), NEW tok \in Nat, at \in EmptyHanded \/ held # << >>,
         at # "opd" /\ Top.rule = "Opd" => Top.lvl # 1,
         Calls(f, at, held, tok), err' = err,
         \A g : Alike(g, at) => /\ Awaits(g, f)
                                /\ Stands(f, Inside(g, es[1]), Here', Peek')
  PROVE  Follows'
<1> DEFINE g == [Top EXCEPT !.at = at, !.held = held, !.tok = tok]
<1>1. stack' = <<f, g>> \o Tail(stack)
  BY DEF Calls
<1>2. g \in Frames /\ Alike(g, at)
  BY TracksTop DEF Frames, Alike
<1> HIDE DEF g
<1> DEFINE us == <<Inside(g, es[1])>> \o es
<1>3. Awaits(g, f) /\ Stands(f, Inside(g, es[1]), Here', Peek')
  BY <1>2
<1>4. Nested(stack', us) /\ Top' = f /\ us[1] = Inside(g, es[1])
  BY <1>1, <1>2, <1>3, TracksTop, NestedPush DEF Top, Alike
<1>5. stack' # << >>
  <2>1. Tail(stack) \in Seq(Frames)
    BY TracksTop
  <2> QED
    BY <1>1, <1>2, <2>1
<1> HIDE DEF us
<1>6. ~ Failed'
  BY TracksTop DEF Failed
<1>7. Stands(Top', us[1], Here', Peek')
  BY <1>3, <1>4
<1> QED
  BY <1>4, <1>5, <1>6, <1>7 DEF Follows

(* The callers of a rule that failed wait. *)
LEMMA FollowsFails ==
  ASSUME Going, NEW node, Returns(node), Failed', Blamed'
  PROVE  Follows'
<1>1. stack \in Seq(Frames) /\ stack # << >>
  BY RunningStack DEF Going
<1>2. PICK es : Nested(stack, es)
  BY <1>1 DEF Going, Follows
<1>3. stack' = Tail(stack)
  BY DEF Returns
<1>4. ASSUME stack' # << >>
      PROVE  Nested(stack', Tail(es)) /\ Waits(Top')
  <2>1. Nested(Tail(stack), Tail(es)) /\ Head(Tail(stack)) = stack[2]
        /\ Awaits(stack[2], Head(stack))
    BY <1>1, <1>2, <1>3, <1>4, NestedPop
  <2> QED
    BY <1>3, <2>1, AwaitsWaits DEF Top
<1> QED
  BY <1>4 DEF Follows

LEMMA ErrorTyped ==
  ASSUME Going
  PROVE  /\ err \in [type : ParErr, msg : Nat, tok : Nat]
         /\ \A type : [err EXCEPT !.type = type].type = type
BY MemoryTyped DEF Going

LEMMA FollowsOutOfMemory ==
  ASSUME Going, FaultyAlloc, err' = [err EXCEPT !.type = "NoEnoughMemory"],
         NEW node, Returns(node)
  PROVE  Follows'
<1>1. err'.type = "NoEnoughMemory"
  BY ErrorTyped
<1>2. Failed' /\ Blamed'
  BY <1>1 DEF Failed, Blamed
<1> QED
  BY <1>2, FollowsFails

LEMMA FollowsOut ==
  ASSUME Going, NEW ids, OutOfMemory(ids)
  PROVE  Follows'
BY FollowsOutOfMemory DEF OutOfMemory, Fails

LEMMA FollowsUnexpected ==
  ASSUME Going, NEW ids, NEW node, Unexpected(ids, node),
         NEW m, NEW open, Here = Expecting(m, open), m # "wrong",
         Scan(Here, Peek).mode = "wrong"
  PROVE  Follows'
<1>1. err' = [err EXCEPT !.type = "UnexpectedToken"] /\ off' = off /\ UNCHANGED caller
      /\ Returns(node)
  BY DEF Unexpected, Fails
<1>2. err'.type = "UnexpectedToken"
  BY <1>1, ErrorTyped
<1>3. Here' = Here /\ Peek' = Peek
  BY <1>1, Kept
<1>4. Here.mode # "wrong"
  BY DEF Expecting
<1>5. Here'.mode # "wrong" /\ Scan(Here', Peek').mode = "wrong"
  BY <1>3, <1>4
<1>6. Failed' /\ Blamed'
  BY <1>2, <1>5 DEF Failed, Blamed
<1> QED
  BY <1>1, <1>6, FollowsFails

LEMMA FollowsGivesUp ==
  ASSUME Going, NEW ids, NEW node, GivesUp(ids, node)
  PROVE  Follows'
<1>1. Failed /\ err' = err /\ off' = off /\ UNCHANGED caller /\ Returns(node)
  BY DEF GivesUp, Looks, parser
<1>2. Here' = Here /\ Peek' = Peek
  BY <1>1, Kept
<1>3. Blamed
  BY <1>1 DEF Going, Follows
<1>4. Failed' /\ Blamed'
  BY <1>1, <1>2, <1>3 DEF Failed, Blamed
<1> QED
  BY <1>1, <1>4, FollowsFails

-----------------------------------------------------------------------------
(* One lemma per rule. *)

LEMMA Moves ==
  ASSUME Going
  PROVE  /\ Consumes => Here' = Scan(Here, Peek) /\ err' = err
         /\ Looks => Here' = Here /\ Peek' = Peek /\ err' = err
<1>1. Consumes => Here' = Scan(Here, Peek) /\ err' = err
  BY Consumed DEF Going, Consumes
<1>2. Looks => Here' = Here /\ Peek' = Peek /\ err' = err
  BY Kept DEF Looks, parser
<1> QED
  BY <1>1, <1>2

(* The rule of operands of a level begins before one. *)
LEMMA OperandCalled ==
  ASSUME NEW n \in 1 .. 8
  PROVE  /\ Opd(n) \in Frames /\ IsOpd(Opd(n), n)
         /\ \A E \in Around : \A look : Stands(Opd(n), E, Expecting("operand", E.open), look)
<1>1. Opd(n).rule = "Opd" /\ Opd(n).at = "start" /\ Opd(n).lvl = n
  BY DEF Opd, Frame
<1>2. Opd(n) \in Frames
  BY RulesTyped
<1>3. IsOpd(Opd(n), n)
  BY <1>1 DEF IsOpd
<1>4. ASSUME NEW E \in Around, NEW look
      PROVE  Stands(Opd(n), E, Expecting("operand", E.open), look)
  BY <1>1, Places
<1> QED
  BY <1>2, <1>3, <1>4

LEMMA RuleCalled ==
  ASSUME NEW rule \in Rule \ {"Opd", "Prog"}
  PROVE  Frame(rule, 0) \in Frames /\ Frame(rule, 0).rule = rule /\ Frame(rule, 0).at = "start"
BY FrameTyped

(* An operand rule is called for an operand inside what it opens. *)
LEMMA FollowsOperand ==
  ASSUME NEW es, Tracks(es), NEW n \in 1 .. 8,
         NEW at \in Label, at \notin {"start", "loop"},
         NEW held \in Seq(Nat), NEW tok \in Nat, at \in EmptyHanded \/ held # << >>,
         at # "opd" /\ Top.rule = "Opd" => Top.lvl # 1,
         Calls(Opd(n), at, held, tok), err' = err,
         \A g : Alike(g, at) =>
                  /\ IsOpd(Opd(n), n) => Awaits(g, Opd(n))
                  /\ Here' = Expecting("operand", Inside(g, es[1]).open)
  PROVE  Follows'
<1>1. Opd(n) \in Frames /\ IsOpd(Opd(n), n)
      /\ \A E \in Around : \A look : Stands(Opd(n), E, Expecting("operand", E.open), look)
  BY OperandCalled
<1>2. es[1] \in Around
  BY TracksTop
<1>3. ASSUME NEW g, Alike(g, at)
      PROVE  Awaits(g, Opd(n)) /\ Stands(Opd(n), Inside(g, es[1]), Here', Peek')
  <2>1. Awaits(g, Opd(n)) /\ Here' = Expecting("operand", Inside(g, es[1]).open)
    BY <1>1, <1>3
  <2>2. Inside(g, es[1]) \in Around
    BY <1>2, <2>1, InsideAround
  <2>3. Stands(Opd(n), Inside(g, es[1]), Expecting("operand", Inside(g, es[1]).open), Peek')
    BY <1>1, <2>2
  <2> QED
    BY <2>1, <2>3
<1> QED
  BY <1>1, <1>3, FollowsCalls

LEMMA LeavesOperand ==
  ASSUME NEW f, NEW E, NEW n \in 1 .. 8, NEW cur, NEW look, IsOpd(f, n),
         BehindOperand(cur, E.open, n, look)
  PROVE  Leaves(f, E, cur, look)
BY DEF Leaves

LEMMA BaseFollows ==
  ASSUME Going, Base
  PROVE  Follows'
<1>1. CASE BaseStarts
  <2>1. Top.rule = "Base" /\ Top.at = "start"
    BY <1>1 DEF BaseStarts, At
  <2>2. PICK es : Tracks(es)
    BY <2>1, Tracked DEF Waits
  <2> DEFINE open == es[1].open
  <2>3. es[1] \in Around /\ open \in Seq(What) /\ Here = Expecting("operand", open)
        /\ Peek \notin Prefix
    BY <2>1, <2>2, TracksTop, Places DEF Tracks
  <2>4. CASE Peek \in DOMAIN LeafTag /\ Consumes
               /\ ReturnsNew(LeafTag[Peek], off + 1, << >>)
    <3>1. Here' = Expecting("operator", open) /\ err' = err
      BY <2>3, <2>4, Moves, ScanOperand DEF Leaf
    <3>2. IsOpd(Top, 1)
      BY <2>1 DEF IsOpd
    <3>3. Leaves(Top, es[1], Here', Peek')
      BY <3>1, <3>2, BehindLeaf, LeavesOperand
    <3> QED
      BY <2>2, <2>4, <3>1, <3>3, FollowsReturns DEF ReturnsNew
  <2>5. CASE OutOfMemory({})
    BY <2>5, FollowsOut
  <2>6. CASE /\ Peek = "LeftParen"
             /\ Consumes
             /\ Calls(Expr, "expr", << >>, 0)
    <3>1. Here' = Expecting("operand", <<"paren">> \o open) /\ err' = err
      BY <2>3, <2>6, Moves, ScanOperand
    <3>2. ASSUME NEW g, Alike(g, "expr")
          PROVE  /\ IsOpd(Opd(8), 8) => Awaits(g, Opd(8))
                 /\ Here' = Expecting("operand", Inside(g, es[1]).open)
      <4>1. g.rule = "Base" /\ g.at = "expr"
        BY <2>1, <3>2 DEF Alike
      <4>2. Inside(g, es[1]).open = <<"paren">> \o open
        BY <2>3, <4>1, Openings
      <4> QED
        BY <3>1, <4>1, <4>2 DEF Awaits
    <3>3. "expr" \in Label /\ "expr" \in EmptyHanded /\ << >> \in Seq(Nat) /\ 0 \in Nat /\ 8 \in 1 .. 8
      BY DEF Label, EmptyHanded
    <3> QED
      BY <2>1, <2>2, <2>6, <3>1, <3>2, <3>3, FollowsOperand DEF Expr
  <2>7. CASE Peek \notin DOMAIN LeafTag \union {"LeftParen"} /\ Unexpected({}, 0)
    <3>1. Scan(Here, Peek).mode = "wrong"
      BY <2>3, <2>7, ScanOperand DEF Leaf
    <3> QED
      BY <2>3, <2>7, <3>1, FollowsUnexpected
  <2> QED
    BY <1>1, <2>4, <2>5, <2>6, <2>7 DEF BaseStarts
<1>2. CASE BaseCloses
  <2>1. Top.rule = "Base" /\ Top.at = "expr"
    BY <1>2 DEF BaseCloses, At
  <2>2. CASE GivesUp({}, res)
    BY <2>2, FollowsGivesUp
  <2>3. CASE ~ Failed /\ ~ GivesUp({}, res)
    <3>1. PICK es : Tracks(es)
      BY <2>3, Tracked
    <3> DEFINE open == es[1].open
    <3>2. /\ es[1] \in Around /\ open \in Seq(What)
          /\ Here = Expecting("operator", <<"paren">> \o open) /\ Peek \notin Infix
      <4>1. es[1] \in Around /\ open \in Seq(What) /\ Stands(Top, es[1], Here, Peek)
        BY <3>1, TracksTop DEF Tracks
      <4>2. BehindOperand(Here, <<"paren">> \o open, 8, Peek)
        BY <2>1, <4>1, Places
      <4> QED
        BY <4>1, <4>2, BehindNone
    <3>3. /\ <<"paren">> \o open \in Seq(What) /\ <<"paren">> \o open # << >>
          /\ Head(<<"paren">> \o open) = "paren" /\ Tail(<<"paren">> \o open) = open
      BY <3>2, OnTop DEF What
    <3>4. CASE Peek = "RightParen" /\ Consumes /\ Returns(res)
      <4>1. Here' = Expecting("operator", open) /\ err' = err
        BY <3>2, <3>3, <3>4, Moves, ScanOperator
      <4>2. IsOpd(Top, 1)
        BY <2>1 DEF IsOpd
      <4>3. Leaves(Top, es[1], Here', Peek')
        BY <4>1, <4>2, BehindLeaf, LeavesOperand
      <4> QED
        BY <3>1, <3>4, <4>1, <4>3, FollowsReturns
    <3>5. CASE Peek # "RightParen" /\ Unexpected(TreeOf(res), res)
      <4>1. Scan(Here, Peek).mode = "wrong"
        BY <3>2, <3>3, <3>5, ScanOperatorWrong
      <4> QED
        BY <3>2, <3>5, <4>1, FollowsUnexpected
    <3> QED
      BY <1>2, <2>3, <3>4, <3>5 DEF BaseCloses
  <2> QED
    BY <1>2, <2>2, <2>3 DEF BaseCloses
<1> QED
  BY <1>1, <1>2 DEF Base

LEMMA UnaryFollows ==
  ASSUME Going, Unary
  PROVE  pc' = "run" => Follows'
<1>1. CASE UnaryStarts
  <2>1. Top.rule = "Opd" /\ Top.at = "start" /\ Top.lvl = 1
    BY <1>1 DEF UnaryStarts, At
  <2>2. PICK es : Tracks(es)
    BY <2>1, Tracked DEF Waits
  <2> DEFINE open == es[1].open
  <2>3. es[1] \in Around /\ open \in Seq(What) /\ Here = Expecting("operand", open)
    BY <2>1, <2>2, TracksTop, Places DEF Tracks
  <2>4. Peek # "NULL"
    BY AheadOf DEF Going
  <2>5. CASE Peek \in DOMAIN UnaTag /\ Consumes /\ Calls(Opd(1), "opd", << >>, off + 1)
    <3>1. Here' = Expecting("operand", open) /\ err' = err
      BY <2>3, <2>5, Moves, ScanOperand DEF Prefix
    <3>2. ASSUME NEW g, Alike(g, "opd")
          PROVE  /\ IsOpd(Opd(1), 1) => Awaits(g, Opd(1))
                 /\ Here' = Expecting("operand", Inside(g, es[1]).open)
      <4>1. g.rule = "Opd" /\ g.at = "opd" /\ g.lvl = 1
        BY <2>1, <3>2 DEF Alike
      <4>2. Inside(g, es[1]).open = open
        BY <2>3, <4>1, Openings
      <4> QED
        BY <3>1, <4>1, <4>2 DEF Awaits
    <3>3. /\ "opd" \in Label /\ "opd" \in EmptyHanded /\ << >> \in Seq(Nat)
          /\ off + 1 \in Nat /\ 1 \in 1 .. 8
      BY MemoryTyped DEF Label, EmptyHanded, Going
    <3> QED
      BY <2>1, <2>2, <2>5, <3>1, <3>2, <3>3, FollowsOperand
  <2>6. CASE Peek \notin DOMAIN UnaTag \union {"NULL"} /\ Looks /\ Becomes(Frame("Base", 0))
    <3> DEFINE f == Frame("Base", 0)
    <3>1. f \in Frames /\ f.rule = "Base" /\ f.at = "start"
      BY RuleCalled DEF Rule
    <3> HIDE DEF f
    <3>2. ASSUME NEW g, Awaits(g, Top) PROVE Awaits(g, f)
      <4>1. \A n : IsOpd(Top, n) => IsOpd(f, n)
        BY <2>1, <3>1 DEF IsOpd
      <4>2. ~ IsStmt(Top) /\ Top.rule \notin {"BlockStmt", "Block"}
        BY <2>1 DEF IsStmt
      <4> QED
        BY <3>2, <4>1, <4>2 DEF Awaits
    <3>3. Here' = Here /\ Peek' = Peek /\ err' = err
      BY <2>6, Moves
    <3>4. Stands(f, es[1], Here', Peek')
      BY <2>3, <2>6, <3>1, <3>3, Places DEF Prefix
    <3> QED
      BY <2>1, <2>2, <2>6, <3>1, <3>2, <3>3, <3>4, FollowsBecomes DEF f
  <2> QED
    BY <1>1, <2>4, <2>5, <2>6 DEF UnaryStarts
<1>2. CASE UnaryEnds
  <2>1. Top.rule = "Opd" /\ Top.at = "opd"
    BY <1>2 DEF UnaryEnds, At
  <2>2. CASE GivesUp({}, 0)
    BY <2>2, FollowsGivesUp
  <2>3. CASE ~ Failed /\ Looks /\ ReturnsNew(UnaTag[toks[Top.tok]], Top.tok, <<res>>)
    <3>1. PICK es : Tracks(es)
      BY <2>3, Tracked
    <3>2. Here' = Here /\ Peek' = Peek /\ err' = err
      BY <2>3, Moves
    <3>3. Top.lvl = 1 /\ BehindOperand(Here', es[1].open, 1, Peek')
      BY <2>1, <3>1, <3>2, TracksTop, Places DEF Tracks
    <3>4. Leaves(Top, es[1], Here', Peek')
      BY <2>1, <3>3, LeavesOperand DEF IsOpd
    <3> QED
      BY <2>3, <3>1, <3>2, <3>4, FollowsReturns DEF ReturnsNew
  <2>4. CASE OutOfMemory({})
    BY <2>4, FollowsOut
  <2> QED
    BY <1>2, <2>2, <2>3, <2>4 DEF UnaryEnds
<1> QED
  BY <1>1, <1>2 DEF Unary

(* The loop of an operator rule: behind an operand to which no operator of *)
(* the lower levels belongs.                                               *)
LEMMA BinaryLoopsFollows ==
  ASSUME Going, ~ Failed, Top.rule = "Opd", Top.at \in {"lhs", "loop"}, NEW lhs \in Nat,
         BinaryLoops(lhs)
  PROVE  Follows'
<1>1. PICK es : Tracks(es)
  BY Tracked
<1> DEFINE open == es[1].open
<1>2. es[1] \in Around /\ open \in Seq(What) /\ Stands(Top, es[1], Here, Peek)
  BY <1>1, TracksTop DEF Tracks
<1>3. BehindOperand(Here, open, Top.lvl - 1, Peek)
  BY <1>2, Places
<1>4. Top.lvl \in 2 .. 8 /\ Top.lvl \in 1 .. 8
  <2>1. Top.lvl \in 1 .. 8 /\ Top.lvl # 1
    BY NodesTyped DEF Going
  <2> QED
    BY <2>1
<1>5. Peek # "NULL"
  BY AheadOf DEF Going
<1>6. CASE /\ Peek \in DOMAIN BinTag[Top.lvl]
           /\ Consumes
           /\ Calls(Opd(RightOpd(Top.lvl)), "rhs", <<lhs>>, off + 1)
  <2> DEFINE n == RightOpd(Top.lvl)
             held == <<lhs>>
  <2>1. Peek \in Infix /\ Here = Expecting("operator", open)
    BY <1>3, <1>4, <1>6 DEF Infix, BehindOperand
  <2>2. Here' = Expecting("operand", open) /\ err' = err
    BY <1>2, <1>6, <2>1, Moves, ScanOperator
  <2>3. n \in 1 .. 8
    BY <1>4 DEF RightOpd
  <2>4. ASSUME NEW g, Alike(g, "rhs")
        PROVE  /\ IsOpd(Opd(n), n) => Awaits(g, Opd(n))
               /\ Here' = Expecting("operand", Inside(g, es[1]).open)
    <3>1. g.rule = "Opd" /\ g.at = "rhs" /\ g.lvl = Top.lvl
      BY <2>4 DEF Alike
    <3>2. Inside(g, es[1]).open = open
      BY <1>2, <3>1, Openings
    <3> QED
      BY <2>2, <3>1, <3>2 DEF Awaits
  <2>5. "rhs" \in Label /\ held \in Seq(Nat) /\ held # << >> /\ off + 1 \in Nat
    BY MemoryTyped DEF Label, Going
  <2>6. Calls(Opd(n), "rhs", held, off + 1)
    BY <1>6
  <2> HIDE DEF n, held
  <2> QED
    BY <1>1, <1>4, <2>2, <2>3, <2>4, <2>5, <2>6, FollowsOperand
<1>7. CASE Peek \notin DOMAIN BinTag[Top.lvl] /\ Looks /\ Returns(lhs)
  <2>1. Here' = Here /\ Peek' = Peek /\ err' = err
    BY <1>7, Moves
  <2>2. \A m \in 2 .. Top.lvl : m = Top.lvl \/ m \in 2 .. Top.lvl - 1
    BY <1>4
  <2>3. BehindOperand(Here, open, Top.lvl, Peek)
    BY <1>3, <1>7, <2>2 DEF BehindOperand
  <2>4. IsOpd(Top, Top.lvl)
    BY DEF IsOpd
  <2>5. Leaves(Top, es[1], Here', Peek')
    BY <1>4, <2>1, <2>3, <2>4, LeavesOperand
  <2> QED
    BY <1>1, <1>7, <2>1, <2>5, FollowsReturns
<1> QED
  BY <1>5, <1>6, <1>7 DEF BinaryLoops

LEMMA BinaryFollows ==
  ASSUME Going, Binary
  PROVE  Follows'
<1>1. CASE BinaryStarts
  <2>1. Top.rule = "Opd" /\ Top.at = "start" /\ Top.lvl # 1
    BY <1>1 DEF BinaryStarts, At
  <2>2. PICK es : Tracks(es)
    BY <2>1, Tracked DEF Waits
  <2> DEFINE open == es[1].open
             n == Top.lvl - 1
  <2>3. es[1] \in Around /\ open \in Seq(What) /\ Here = Expecting("operand", open)
    BY <2>1, <2>2, TracksTop, Places DEF Tracks
  <2>4. Top.lvl \in 1 .. 8
    BY <2>1, NodesTyped DEF Going
  <2>5. n \in 1 .. 8
    BY <2>1, <2>4
  <2>6. Calls(Opd(n), "lhs", << >>, 0) /\ Here' = Expecting("operand", open) /\ err' = err
    BY <1>1, <2>3, Moves DEF BinaryStarts
  <2>7. ASSUME NEW g, Alike(g, "lhs")
        PROVE  /\ IsOpd(Opd(n), n) => Awaits(g, Opd(n))
               /\ Here' = Expecting("operand", Inside(g, es[1]).open)
    <3>1. g.rule = "Opd" /\ g.at = "lhs" /\ g.lvl = Top.lvl
      BY <2>1, <2>7 DEF Alike
    <3>2. Inside(g, es[1]).open = open
      BY <2>3, <3>1, Openings
    <3> QED
      BY <2>6, <3>1, <3>2 DEF Awaits
  <2>8. "lhs" \in Label /\ "lhs" \in EmptyHanded /\ << >> \in Seq(Nat) /\ 0 \in Nat
    BY DEF Label, EmptyHanded
  <2> HIDE DEF n
  <2> QED
    BY <2>1, <2>2, <2>5, <2>6, <2>7, <2>8, FollowsOperand
<1>2. CASE BinaryHasLhs
  <2>1. Top.rule = "Opd" /\ Top.at = "lhs" /\ res \in Nat
    BY <1>2, MemoryTyped DEF BinaryHasLhs, At, Going
  <2>2. CASE GivesUp({}, 0)
    BY <2>2, FollowsGivesUp
  <2>3. CASE ~ Failed /\ BinaryLoops(res)
    BY <2>1, <2>3, BinaryLoopsFollows
  <2> QED
    BY <1>2, <2>2, <2>3 DEF BinaryHasLhs
<1>3. CASE BinaryAgain
  <2>1. Top.rule = "Opd" /\ Top.at = "loop" /\ BinaryLoops(Top.held[1])
    BY <1>3 DEF BinaryAgain, At
  <2>2. Top.held[1] \in Nat
    BY <2>1, NodesTyped DEF Going, EmptyHanded
  <2>3. ~ Failed
    <3>1. PICK es : Tracks(es)
      BY <2>1, Tracked DEF Waits
    <3> QED
      BY <3>1, TracksTop
  <2> QED
    BY <2>1, <2>2, <2>3, BinaryLoopsFollows
<1>4. CASE BinaryHasRhs
  <2> DEFINE lhs == Top.held[1]
  <2>1. Top.rule = "Opd" /\ Top.at = "rhs"
    BY <1>4 DEF BinaryHasRhs, At
  <2>2. CASE GivesUp({lhs}, 0)
    BY <2>2, FollowsGivesUp
  <2>3. CASE ~ Failed /\ Looks /\ Stays("loop", <<next>>)
    <3>1. PICK es : Tracks(es)
      BY <2>3, Tracked
    <3>2. Here' = Here /\ Peek' = Peek /\ err' = err
      BY <2>3, Moves
    <3>3. es[1] \in Around /\ Stands(Top, es[1], Here, Peek)
      BY <3>1, TracksTop DEF Tracks
    <3>4. BehindOperand(Here', es[1].open, Top.lvl - 1, Peek')
      BY <2>1, <3>2, <3>3, Places
    <3>5. ASSUME NEW f, Alike(f, "loop") PROVE Stands(f, es[1], Here', Peek')
      <4>1. f.rule = "Opd" /\ f.at = "loop" /\ f.lvl = Top.lvl
        BY <2>1, <3>5 DEF Alike
      <4> QED
        BY <3>3, <3>4, <4>1, Places
    <3>6. /\ "loop" \in Label /\ <<next>> \in Seq(Nat) /\ <<next>> # << >> /\ Top.lvl # 1
      BY <2>1, NodesTyped DEF Label, Going
    <3> QED
      BY <2>3, <3>1, <3>2, <3>5, <3>6, FollowsStays
  <2>4. CASE OutOfMemory(TreeOf(res) \union {lhs})
    BY <2>4, FollowsOut
  <2> QED
    BY <1>4, <2>2, <2>3, <2>4 DEF BinaryHasRhs
<1> QED
  BY <1>1, <1>2, <1>3, <1>4 DEF Binary

LEMMA AsgnFollows ==
  ASSUME Going, AsgnStmt
  PROVE  pc' = "run" => Follows'
<1>1. CASE AssignStarts
  <2>1. Top.rule = "AsgnStmt" /\ Top.at = "start"
    BY <1>1 DEF AssignStarts, At
  <2>2. PICK es : Tracks(es)
    BY <2>1, Tracked DEF Waits
  <2> DEFINE open == es[1].open
  <2>3. es[1] \in Around /\ open \in Seq(What) /\ Stands(Top, es[1], Here, Peek)
    BY <2>2, TracksTop DEF Tracks
  <2>4. AtStmt(Here, open, Peek) /\ Peek = "Name"
    BY <2>1, <2>3, Places
  <2>5. PICK m \in {"stmt", "stmt or else"} : Here = Expecting(m, open)
    BY <2>4 DEF AtStmt
  <2>6. CASE Consumes /\ Stays("assign", <<next>>)
    <3>1. Here' = Expecting("=", <<"assignment">> \o open) /\ err' = err
      BY <2>3, <2>4, <2>5, <2>6, Moves, ScanStmt
    <3>2. ASSUME NEW f, Alike(f, "assign") PROVE Stands(f, es[1], Here', Peek')
      <4>1. f.rule = "AsgnStmt" /\ f.at = "assign"
        BY <2>1, <3>2 DEF Alike
      <4>2. Stands(f, es[1], Here', Peek') <=> Here' = Expecting("=", <<"assignment">> \o open)
        BY <2>3, <4>1, Places
      <4> QED
        BY <3>1, <4>2
    <3>3. "assign" \in Label /\ <<next>> \in Seq(Nat) /\ <<next>> # << >>
      BY NodesTyped DEF Label, Going
    <3> QED
      BY <2>1, <2>2, <2>6, <3>1, <3>2, <3>3, FollowsStays
  <2>7. CASE FaultyAlloc /\ err' = [err EXCEPT !.type = "NoEnoughMemory"] /\ Returns(0)
    BY <2>7, FollowsOutOfMemory
  <2> QED
    BY <1>1, <2>4, <2>6, <2>7 DEF AssignStarts
<1>2. CASE AssignHasLhs
  <2>1. Top.rule = "AsgnStmt" /\ Top.at = "assign"
    BY <1>2 DEF AssignHasLhs, At
  <2>2. PICK es : Tracks(es)
    BY <2>1, Tracked DEF Waits
  <2> DEFINE open == <<"assignment">> \o es[1].open
  <2>3. es[1] \in Around /\ es[1].open \in Seq(What) /\ Stands(Top, es[1], Here, Peek)
    BY <2>2, TracksTop DEF Tracks
  <2>4. open \in Seq(What) /\ Here = Expecting("=", open)
    BY <2>1, <2>3, Places, OnTop DEF What
  <2>5. CASE Peek = "Assign" /\ Consumes /\ Calls(Expr, "rhs", Top.held, 0)
    <3>1. Here' = Expecting("operand", open) /\ err' = err
      BY <2>4, <2>5, Moves, ScanFixed
    <3>2. ASSUME NEW g, Alike(g, "rhs")
          PROVE  /\ IsOpd(Opd(8), 8) => Awaits(g, Opd(8))
                 /\ Here' = Expecting("operand", Inside(g, es[1]).open)
      <4>1. g.rule = "AsgnStmt" /\ g.at = "rhs"
        BY <2>1, <3>2 DEF Alike
      <4>2. Inside(g, es[1]).open = open
        BY <2>3, <4>1, Openings
      <4> QED
        BY <3>1, <4>1, <4>2 DEF Awaits
    <3>3. "rhs" \in Label /\ Top.held \in Seq(Nat) /\ Top.held # << >> /\ 0 \in Nat /\ 8 \in 1 .. 8
      BY <2>1, NodesTyped DEF Label, EmptyHanded, Going
    <3> QED
      BY <2>1, <2>2, <2>5, <3>1, <3>2, <3>3, FollowsOperand DEF Expr
  <2>6. CASE Peek # "Assign" /\ Unexpected(TreeOf(Top.held[1]), 0)
    <3>1. Scan(Here, Peek).mode = "wrong"
      BY <2>4, <2>6, ScanFixed
    <3> QED
      BY <2>4, <2>6, <3>1, FollowsUnexpected
  <2> QED
    BY <1>2, <2>5, <2>6 DEF AssignHasLhs
<1>3. CASE AssignEnds
  <2> DEFINE lhs == Top.held[1]
  <2>1. Top.rule = "AsgnStmt" /\ Top.at = "rhs"
    BY <1>3 DEF AssignEnds, At
  <2>2. CASE GivesUp(TreeOf(lhs), 0)
    BY <2>2, FollowsGivesUp
  <2>3. CASE ~ Failed /\ ~ GivesUp(TreeOf(lhs), 0)
    <3>1. PICK es : Tracks(es)
      BY <2>3, Tracked
    <3> DEFINE open == es[1].open
    <3>2. es[1] \in Around /\ open \in Seq(What) /\ Stands(Top, es[1], Here, Peek)
      BY <3>1, TracksTop DEF Tracks
    <3>3. BehindOperand(Here, <<"assignment">> \o open, 8, Peek)
      BY <2>1, <3>2, Places
    <3>4. Here = Expecting("operator", <<"assignment">> \o open) /\ Peek \notin Infix
      BY <3>3, BehindNone
    <3>5. /\ <<"assignment">> \o open \in Seq(What) /\ <<"assignment">> \o open # << >>
          /\ Head(<<"assignment">> \o open) = "assignment"
          /\ Tail(<<"assignment">> \o open) = open
      BY <3>2, OnTop DEF What
    <3>6. CASE Peek = "Semicolon" /\ Consumes /\ ReturnsNew("AsgnStmt", 0, <<lhs, res>>)
      <4>1. Here' = Expecting("stmt", open) /\ err' = err
        BY <3>4, <3>5, <3>6, Moves, ScanOperator
      <4>2. Leaves(Top, es[1], Here', Peek')
        BY <2>1, <4>1 DEF Leaves, AtStmt
      <4> QED
        BY <3>1, <3>6, <4>1, <4>2, FollowsReturns DEF ReturnsNew
    <3>7. CASE Crashes
      BY <3>7 DEF Crashes
    <3>8. CASE Peek # "Semicolon" /\ Unexpected(TreeOf(res) \union TreeOf(lhs), 0)
      <4>1. Scan(Here, Peek).mode = "wrong"
        BY <3>4, <3>5, <3>8, ScanOperatorWrong
      <4> QED
        BY <3>4, <3>8, <4>1, FollowsUnexpected
    <3> QED
      BY <1>3, <2>3, <3>6, <3>7, <3>8 DEF AssignEnds
  <2> QED
    BY <1>3, <2>2, <2>3 DEF AssignEnds
<1> QED
  BY <1>1, <1>2, <1>3 DEF AsgnStmt

(* What the opening brace of a block does, whatever the block belongs to.  *)
LEMMA BlockOpened ==
  ASSUME NEW E \in Around, NEW cur, NEW look, BeforeBlock(cur, E, look)
  PROVE  /\ \E m, o : cur = Expecting(m, o) /\ m # "wrong"
         /\ look = "LeftBrace" =>
              Scan(cur, look)
                = Expecting("stmt", <<IF E.role = "then" THEN "then" ELSE "block">> \o E.open)
         /\ look # "LeftBrace" => Scan(cur, look).mode = "wrong"
<1> DEFINE open == E.open
           block == IF E.role = "then" THEN "then" ELSE "block"
<1>1. open \in Seq(What)
  BY Openings
<1>2. CASE E.role = "stmt" /\ AtStmt(cur, open, look) /\ look = "LeftBrace"
  <2>1. PICK m \in {"stmt", "stmt or else"} : cur = Expecting(m, open)
    BY <1>2 DEF AtStmt
  <2>2. Scan(cur, look) = Expecting("stmt", <<"block">> \o open)
    BY <1>1, <1>2, <2>1, ScanStmt
  <2>3. block = "block" /\ m # "wrong"
    BY <1>2
  <2> QED
    BY <1>2, <2>1, <2>2, <2>3
<1>3. CASE E.role = "then" /\ BehindOperand(cur, <<"condition">> \o open, 8, look)
  <2> DEFINE o == <<"condition">> \o open
  <2>1. cur = Expecting("operator", o) /\ look \notin Infix
    BY <1>3, BehindNone
  <2>2. o \in Seq(What) /\ o # << >> /\ Head(o) = "condition" /\ Tail(o) = open
    BY <1>1, OnTop DEF What
  <2> HIDE DEF o
  <2>3. look = "LeftBrace" => Scan(cur, look) = Expecting("stmt", <<"then">> \o open)
    BY <2>1, <2>2, ScanOperator
  <2>4. look # "LeftBrace" => Scan(cur, look).mode = "wrong"
    BY <2>1, <2>2, ScanOperatorWrong
  <2>5. block = "then"
    BY <1>3
  <2> QED
    BY <2>1, <2>3, <2>4, <2>5
<1>4. CASE E.role = "else" /\ cur = Expecting("{", <<"block">> \o open)
  <2> DEFINE o == <<"block">> \o open
  <2>1. o \in Seq(What)
    BY <1>1, OnTop DEF What
  <2> HIDE DEF o
  <2>2. cur = Expecting("{", o)
    BY <1>4 DEF o
  <2>3. look = "LeftBrace" => Scan(cur, look) = Expecting("stmt", o)
    BY <2>1, <2>2, ScanFixed
  <2>4. look # "LeftBrace" => Scan(cur, look).mode = "wrong"
    BY <2>1, <2>2, ScanFixed
  <2>5. o = <<block>> \o open
    BY <1>4 DEF o
  <2>6. \E m, u : cur = Expecting(m, u) /\ m # "wrong"
    <3> DEFINE brace == "{"
    <3>1. brace # "wrong" /\ cur = Expecting(brace, o)
      BY <2>2
    <3> HIDE DEF brace
    <3> QED
      BY <3>1
  <2> HIDE DEF block
  <2> QED
    BY <2>3, <2>4, <2>5, <2>6 DEF block
<1> QED
  BY <1>2, <1>3, <1>4 DEF BeforeBlock

LEMMA BlockFollows ==
  ASSUME Going, Block
  PROVE  Follows'
<1> DEFINE seq == Top.held[1]
<1>1. CASE BlockStarts
  <2>1. Top.rule = "Block" /\ Top.at = "start"
    BY <1>1 DEF BlockStarts, At
  <2>2. PICK es : Tracks(es)
    BY <2>1, Tracked DEF Waits
  <2>3. es[1] \in Around /\ Stands(Top, es[1], Here, Peek)
    BY <2>2, TracksTop DEF Tracks
  <2>4. BeforeBlock(Here, es[1], Peek)
    BY <2>1, <2>3, Places
  <2>5. CASE Looks /\ Stays("open", <<next>>)
    <3>1. Here' = Here /\ Peek' = Peek /\ err' = err
      BY <2>5, Moves
    <3>2. ASSUME NEW f, Alike(f, "open") PROVE Stands(f, es[1], Here', Peek')
      <4>1. f.rule = "Block" /\ f.at = "open"
        BY <2>1, <3>2 DEF Alike
      <4>2. Stands(f, es[1], Here', Peek') <=> BeforeBlock(Here', es[1], Peek')
        BY <2>3, <4>1, Places
      <4> QED
        BY <2>4, <3>1, <4>2
    <3>3. "open" \in Label /\ <<next>> \in Seq(Nat) /\ <<next>> # << >>
      BY NodesTyped DEF Label, Going
    <3> QED
      BY <2>1, <2>2, <2>5, <3>1, <3>2, <3>3, FollowsStays
  <2>6. CASE OutOfMemory({})
    BY <2>6, FollowsOut
  <2> QED
    BY <1>1, <2>5, <2>6 DEF BlockStarts
<1>2. CASE BlockOpens
  <2>1. Top.rule = "Block" /\ Top.at = "open"
    BY <1>2 DEF BlockOpens, At
  <2>2. PICK es : Tracks(es)
    BY <2>1, Tracked DEF Waits
  <2>3. es[1] \in Around /\ Stands(Top, es[1], Here, Peek)
    BY <2>2, TracksTop DEF Tracks
  <2>4. BeforeBlock(Here, es[1], Peek)
    BY <2>1, <2>3, Places
  <2> DEFINE o == <<IF es[1].role = "then" THEN "then" ELSE "block">> \o es[1].open
  <2>5. /\ \E m, open : Here = Expecting(m, open) /\ m # "wrong"
        /\ Peek = "LeftBrace" => Scan(Here, Peek) = Expecting("stmt", o)
        /\ Peek # "LeftBrace" => Scan(Here, Peek).mode = "wrong"
    BY <2>3, <2>4, BlockOpened
  <2>6. CASE Peek = "LeftBrace" /\ Consumes /\ Stays("loop", Top.held)
    <3>1. Here' = Expecting("stmt", o) /\ err' = err
      BY <2>5, <2>6, Moves
    <3>2. ASSUME NEW f, Alike(f, "loop") PROVE Stands(f, es[1], Here', Peek')
      <4>1. f.rule = "Block" /\ f.at = "loop"
        BY <2>1, <3>2 DEF Alike
      <4>2. Inside(f, es[1]).open = o
        BY <2>3, <4>1, Openings
      <4>3. AtStmt(Here', Inside(f, es[1]).open, Peek')
        BY <3>1, <4>2 DEF AtStmt
      <4> QED
        BY <2>3, <4>1, <4>3, Places
    <3>3. "loop" \in Label /\ Top.held \in Seq(Nat) /\ Top.held # << >>
      BY <2>1, NodesTyped DEF Label, EmptyHanded, Going
    <3> QED
      BY <2>1, <2>2, <2>6, <3>1, <3>2, <3>3, FollowsStays
  <2>7. CASE Peek # "LeftBrace" /\ Unexpected(TreeOf(seq), seq)
    <3>1. PICK m, open : Here = Expecting(m, open) /\ m # "wrong"
      BY <2>5
    <3> QED
      BY <2>5, <2>7, <3>1, FollowsUnexpected
  <2> QED
    BY <1>2, <2>6, <2>7 DEF BlockOpens
<1>3. CASE BlockLoops
  <2>1. Top.rule = "Block" /\ Top.at = "loop"
    BY <1>3 DEF BlockLoops, At
  <2>2. PICK es : Tracks(es)
    BY <2>1, Tracked DEF Waits
  <2>3. /\ es[1] \in Around /\ es[1].open \in Seq(What) /\ Stands(Top, es[1], Here, Peek)
        /\ es[1].role \in {"stmt", "then", "else"}
    BY <2>2, TracksTop DEF Tracks
  <2> DEFINE b == IF es[1].role = "then" THEN "then" ELSE "block"
             o == <<b>> \o es[1].open
  <2>4. b \in {"then", "block"} /\ b \in What
    BY DEF What
  <2>5. o \in Seq(What) /\ o # << >> /\ Head(o) = b /\ Tail(o) = es[1].open
    BY <2>3, <2>4, OnTop
  <2>6. Inside(Top, es[1]).open = o
    BY <2>1, <2>3, Openings
  <2>7. AtStmt(Here, o, Peek)
    BY <2>1, <2>3, <2>6, Places
  <2> HIDE DEF o
  <2>8. PICK m \in {"stmt", "stmt or else"} : Here = Expecting(m, o)
    BY <2>7 DEF AtStmt
  <2>9. CASE Peek = "RightBrace" /\ Consumes /\ Returns(seq)
    <3>1. Here' = Scan(Here, Peek) /\ err' = err
      BY <2>9, Moves
    <3>2. Here' = Expecting(IF es[1].role = "then" THEN "stmt or else" ELSE "stmt", es[1].open)
      <4>1. CASE es[1].role = "then"
        <5>1. b = "then"
          BY <4>1
        <5>2. Scan(Here, Peek) = Expecting("stmt or else", Tail(o))
          BY <2>5, <2>8, <2>9, <5>1, ScanStmt
        <5> QED
          BY <2>5, <3>1, <4>1, <5>2
      <4>2. CASE es[1].role # "then"
        <5>1. b = "block"
          BY <4>2
        <5>2. Scan(Here, Peek) = Expecting("stmt", Tail(o))
          BY <2>5, <2>8, <2>9, <5>1, ScanStmt
        <5> QED
          BY <2>5, <3>1, <4>2, <5>2
      <4> QED
        BY <4>1, <4>2
    <3>3. Leaves(Top, es[1], Here', Peek')
      BY <2>1, <3>2 DEF Leaves, BehindBlock
    <3> QED
      BY <2>2, <2>9, <3>1, <3>3, FollowsReturns
  <2>10. CASE Peek # "RightBrace" /\ Looks /\ Calls(Frame("Stmt", 0), "stmt", Top.held, 0)
    <3> DEFINE f == Frame("Stmt", 0)
    <3>1. f \in Frames /\ f.rule = "Stmt" /\ f.at = "start"
      BY RuleCalled DEF Rule
    <3>2. Calls(f, "stmt", Top.held, 0)
      BY <2>10
    <3> HIDE DEF f
    <3>3. Here' = Here /\ Peek' = Peek /\ err' = err
      BY <2>10, Moves
    <3>4. ASSUME NEW g, Alike(g, "stmt")
          PROVE  Awaits(g, f) /\ Stands(f, Inside(g, es[1]), Here', Peek')
      <4>1. g.rule = "Block" /\ g.at = "stmt"
        BY <2>1, <3>4 DEF Alike
      <4>2. Awaits(g, f)
        BY <3>1, <4>1 DEF Awaits, IsStmt
      <4>3. Inside(g, es[1]) \in Around
        BY <2>3, <4>2, InsideAround
      <4>4. Inside(g, es[1]).open = o
        BY <2>3, <4>1, Openings DEF o
      <4>5. AtStmt(Here', o, Peek') /\ Peek' # "RightBrace" /\ Head(o) \in {"then", "block"}
        BY <2>4, <2>5, <2>7, <2>10, <3>3
      <4>6. Stands(f, Inside(g, es[1]), Here', Peek')
        BY <2>5, <3>1, <4>3, <4>4, <4>5, Places
      <4> QED
        BY <4>2, <4>6
    <3>5. "stmt" \in Label /\ Top.held \in Seq(Nat) /\ Top.held # << >> /\ 0 \in Nat
      BY <2>1, NodesTyped DEF Label, EmptyHanded, Going
    <3> QED
      BY <2>1, <2>2, <3>1, <3>2, <3>3, <3>4, <3>5, FollowsCalls
  <2> QED
    BY <1>3, <2>9, <2>10 DEF BlockLoops
<1>4. CASE BlockHasStmt
  <2>1. Top.rule = "Block" /\ Top.at = "stmt"
    BY <1>4 DEF BlockHasStmt, At
  <2>2. CASE GivesUp(TreeOf(seq), seq)
    BY <2>2, FollowsGivesUp
  <2>3. CASE ~ Failed /\ Looks /\ Stays("loop", Top.held)
    <3>1. PICK es : Tracks(es)
      BY <2>3, Tracked
    <3>2. Here' = Here /\ Peek' = Peek /\ err' = err
      BY <2>3, Moves
    <3>3. es[1] \in Around /\ Stands(Top, es[1], Here, Peek)
      BY <3>1, TracksTop DEF Tracks
    <3>4. AtStmt(Here', Inside(Top, es[1]).open, Peek')
      BY <2>1, <3>2, <3>3, Places
    <3>5. ASSUME NEW f, Alike(f, "loop") PROVE Stands(f, es[1], Here', Peek')
      <4>1. f.rule = "Block" /\ f.at = "loop"
        BY <2>1, <3>5 DEF Alike
      <4>2. Inside(f, es[1]).open = Inside(Top, es[1]).open
        <5> DEFINE o == <<IF es[1].role = "then" THEN "then" ELSE "block">> \o es[1].open
        <5>1. Inside(f, es[1]).open = o
          BY <3>3, <4>1, Openings
        <5>2. Inside(Top, es[1]).open = o
          BY <2>1, <3>3, Openings
        <5> QED
          BY <5>1, <5>2
      <4>3. AtStmt(Here', Inside(f, es[1]).open, Peek')
        BY <3>4, <4>2
      <4> QED
        BY <3>3, <4>1, <4>3, Places
    <3>6. "loop" \in Label /\ Top.held \in Seq(Nat) /\ Top.held # << >>
      BY <2>1, NodesTyped DEF Label, EmptyHanded, Going
    <3> QED
      BY <2>1, <2>3, <3>1, <3>2, <3>5, <3>6, FollowsStays
  <2>4. CASE FaultyAlloc /\ Fails("NoEnoughMemory") /\ Returns(seq)
    BY <2>4, FollowsOutOfMemory DEF Fails
  <2> QED
    BY <1>4, <2>2, <2>3, <2>4 DEF BlockHasStmt
<1> QED
  BY <1>1, <1>2, <1>3, <1>4 DEF Block

LEMMA BlockStmtFollows ==
  ASSUME Going, BlockStmt
  PROVE  Follows'
<1>1. CASE BlockStmtStarts
  <2>1. Top.rule = "BlockStmt" /\ Top.at = "start"
    BY <1>1 DEF BlockStmtStarts, At
  <2>2. PICK es : Tracks(es)
    BY <2>1, Tracked DEF Waits
  <2>3. es[1] \in Around /\ Stands(Top, es[1], Here, Peek)
    BY <2>2, TracksTop DEF Tracks
  <2>4. BeforeBlock(Here, es[1], Peek)
    BY <2>1, <2>3, Places
  <2> DEFINE f == Frame("Block", 0)
  <2>5. f \in Frames /\ f.rule = "Block" /\ f.at = "start"
    BY RuleCalled DEF Rule
  <2>6. Calls(f, "block", << >>, 0) /\ Here' = Here /\ Peek' = Peek /\ err' = err
    BY <1>1, Moves DEF BlockStmtStarts
  <2> HIDE DEF f
  <2>7. ASSUME NEW g, Alike(g, "block")
        PROVE  Awaits(g, f) /\ Stands(f, Inside(g, es[1]), Here', Peek')
    <3>1. g.rule = "BlockStmt" /\ g.at = "block"
      BY <2>1, <2>7 DEF Alike
    <3>2. Awaits(g, f)
      BY <2>5, <3>1 DEF Awaits
    <3>3. Inside(g, es[1]) \in Around
      BY <2>3, <3>2, InsideAround
    <3>4. Inside(g, es[1]).open = es[1].open /\ Inside(g, es[1]).role = es[1].role
      <4>1. Inside(g, es[1]).open = es[1].open
        BY <2>3, <3>1, Openings
      <4>2. Inside(g, es[1]).role = es[1].role
        BY <3>1, Roles
      <4> QED
        BY <4>1, <4>2
    <3>5. Inside(g, es[1]) = es[1]
      BY <2>3, <3>3, <3>4, SameAround
    <3>6. Stands(f, es[1], Here', Peek') <=> BeforeBlock(Here', es[1], Peek')
      BY <2>3, <2>5, Places
    <3> QED
      BY <2>4, <2>6, <3>2, <3>5, <3>6
  <2>8. "block" \in Label /\ "block" \in EmptyHanded /\ << >> \in Seq(Nat) /\ 0 \in Nat
    BY DEF Label, EmptyHanded
  <2> QED
    BY <2>1, <2>2, <2>5, <2>6, <2>7, <2>8, FollowsCalls
<1>2. CASE BlockStmtEnds
  <2>1. Top.rule = "BlockStmt" /\ Top.at = "block"
    BY <1>2 DEF BlockStmtEnds, At
  <2>2. CASE GivesUp({}, 0)
    BY <2>2, FollowsGivesUp
  <2>3. CASE ~ Failed /\ Looks /\ ReturnsNew("BlockStmt", 0, <<res>>)
    <3>1. PICK es : Tracks(es)
      BY <2>3, Tracked
    <3>2. Here' = Here /\ Peek' = Peek /\ err' = err
      BY <2>3, Moves
    <3>3. es[1] \in Around /\ Stands(Top, es[1], Here, Peek)
      BY <3>1, TracksTop DEF Tracks
    <3>4. BehindBlock(Here', es[1])
      BY <2>1, <3>2, <3>3, Places
    <3>5. Leaves(Top, es[1], Here', Peek')
      BY <2>1, <3>4 DEF Leaves
    <3> QED
      BY <2>3, <3>1, <3>2, <3>5, FollowsReturns DEF ReturnsNew
  <2>4. CASE OutOfMemory({})
    BY <2>4, FollowsOut
  <2> QED
    BY <1>2, <2>2, <2>3, <2>4 DEF BlockStmtEnds
<1> QED
  BY <1>1, <1>2 DEF BlockStmt

LEMMA TopLevel == 8 \in 1 .. 8
OBVIOUS

LEMMA IfFollows ==
  ASSUME Going, IfStmt
  PROVE  Follows'
<1> DEFINE f == Frame("BlockStmt", 0)
<1>1. f \in Frames /\ f.rule = "BlockStmt" /\ f.at = "start"
  BY RuleCalled DEF Rule
<1>2. CASE IfStarts
  <2>1. Top.rule = "IfStmt" /\ Top.at = "start"
    BY <1>2 DEF IfStarts, At
  <2>2. PICK es : Tracks(es)
    BY <2>1, Tracked DEF Waits
  <2> DEFINE open == es[1].open
  <2>3. es[1] \in Around /\ open \in Seq(What) /\ Stands(Top, es[1], Here, Peek)
    BY <2>2, TracksTop DEF Tracks
  <2>4. AtStmt(Here, open, Peek) /\ Peek = "If"
    BY <2>1, <2>3, Places
  <2>5. PICK m \in {"stmt", "stmt or else"} : Here = Expecting(m, open)
    BY <2>4 DEF AtStmt
  <2>6. Consumes /\ Calls(Expr, "cond", << >>, 0)
    BY <1>2, <2>4 DEF IfStarts
  <2>7. Here' = Expecting("operand", <<"condition">> \o open) /\ err' = err
    BY <2>3, <2>4, <2>5, <2>6, Moves, ScanStmt
  <2>8. ASSUME NEW g, Alike(g, "cond")
        PROVE  /\ IsOpd(Opd(8), 8) => Awaits(g, Opd(8))
               /\ Here' = Expecting("operand", Inside(g, es[1]).open)
    <3>1. g.rule = "IfStmt" /\ g.at = "cond"
      BY <2>1, <2>8 DEF Alike
    <3>2. Inside(g, es[1]).open = <<"condition">> \o open
      BY <2>3, <3>1, Openings
    <3> QED
      BY <2>7, <3>1, <3>2 DEF Awaits
  <2>9. "cond" \in Label /\ "cond" \in EmptyHanded /\ << >> \in Seq(Nat) /\ 0 \in Nat /\ 8 \in 1 .. 8
    <3>1. "cond" \in Label /\ "cond" \in EmptyHanded
      BY DEF Label, EmptyHanded
    <3>2. << >> \in Seq(Nat) /\ 0 \in Nat
      BY NodesTyped DEF Going
    <3>3. 8 \in 1 .. 8
      BY TopLevel
    <3> QED
      BY <3>1, <3>2, <3>3
  <2> QED
    BY <2>1, <2>2, <2>6, <2>7, <2>8, <2>9, FollowsOperand DEF Expr
<1>3. CASE IfHasCond
  <2>1. Top.rule = "IfStmt" /\ Top.at = "cond"
    BY <1>3 DEF IfHasCond, At
  <2>2. CASE GivesUp({}, 0)
    BY <2>2, FollowsGivesUp
  <2>3. CASE ~ Failed /\ Looks /\ Calls(f, "then", <<res>>, 0)
    <3>1. PICK es : Tracks(es)
      BY <2>3, Tracked
    <3>2. Here' = Here /\ Peek' = Peek /\ err' = err
      BY <2>3, Moves
    <3>3. es[1] \in Around /\ Stands(Top, es[1], Here, Peek)
      BY <3>1, TracksTop DEF Tracks
    <3>4. BehindOperand(Here', <<"condition">> \o es[1].open, 8, Peek')
      BY <2>1, <3>2, <3>3, Places
    <3> DEFINE held == <<res>>
    <3>5. /\ "then" \in Label /\ held \in Seq(Nat) /\ held # << >> /\ 0 \in Nat
          /\ Calls(f, "then", held, 0)
      BY <2>3, NodesTyped DEF Label, Going
    <3> HIDE DEF f, held
    <3>6. ASSUME NEW g, Alike(g, "then")
          PROVE  Awaits(g, f) /\ Stands(f, Inside(g, es[1]), Here', Peek')
      <4>1. g.rule = "IfStmt" /\ g.at = "then"
        BY <2>1, <3>6 DEF Alike
      <4>2. Awaits(g, f)
        BY <1>1, <4>1 DEF Awaits
      <4> DEFINE E == Inside(g, es[1])
      <4>3. E \in Around
        BY <3>3, <4>2, InsideAround
      <4>4. E.role = "then"
        BY <4>1, Roles
      <4>5. E.open = es[1].open
        BY <3>3, <4>1, Openings
      <4> HIDE DEF E
      <4>6. BeforeBlock(Here', E, Peek')
        BY <3>4, <4>4, <4>5 DEF BeforeBlock
      <4>7. Stands(f, E, Here', Peek')
        BY <1>1, <4>3, <4>6, Places
      <4> QED
        BY <4>2, <4>7 DEF E
    <3> QED
      BY <1>1, <2>1, <3>1, <3>2, <3>5, <3>6, FollowsCalls
  <2> QED
    BY <1>3, <2>2, <2>3 DEF IfHasCond
<1>4. CASE IfHasThen
  <2> DEFINE cond == Top.held[1]
  <2>1. Top.rule = "IfStmt" /\ Top.at = "then"
    BY <1>4 DEF IfHasThen, At
  <2>2. CASE GivesUp(TreeOf(cond), 0)
    BY <2>2, FollowsGivesUp
  <2>3. CASE ~ Failed /\ Peek = "Else" /\ Consumes /\ Calls(f, "else", <<cond, res>>, 0)
    <3>1. PICK es : Tracks(es)
      BY <2>3, Tracked
    <3>2. es[1] \in Around /\ es[1].open \in Seq(What) /\ Stands(Top, es[1], Here, Peek)
      BY <3>1, TracksTop DEF Tracks
    <3>3. Here = Expecting("stmt or else", es[1].open)
      BY <2>1, <3>2, Places
    <3>4. Here' = Expecting("{", <<"block">> \o es[1].open) /\ err' = err
      BY <2>3, <3>2, <3>3, Moves, ScanStmt
    <3> DEFINE held == <<cond, res>>
    <3>5. /\ "else" \in Label /\ held \in Seq(Nat) /\ held # << >> /\ 0 \in Nat
          /\ Calls(f, "else", held, 0)
      BY <2>1, <2>3, NodesTyped DEF Label, EmptyHanded, Going
    <3> HIDE DEF f, held
    <3>6. ASSUME NEW g, Alike(g, "else")
          PROVE  Awaits(g, f) /\ Stands(f, Inside(g, es[1]), Here', Peek')
      <4>1. g.rule = "IfStmt" /\ g.at = "else"
        BY <2>1, <3>6 DEF Alike
      <4>2. Awaits(g, f)
        BY <1>1, <4>1 DEF Awaits
      <4> DEFINE E == Inside(g, es[1])
      <4>3. E \in Around
        BY <3>2, <4>2, InsideAround
      <4>4. E.role = "else"
        BY <4>1, Roles
      <4>5. E.open = es[1].open
        BY <3>2, <4>1, Openings
      <4> HIDE DEF E
      <4>6. BeforeBlock(Here', E, Peek')
        BY <3>4, <4>4, <4>5 DEF BeforeBlock
      <4>7. Stands(f, E, Here', Peek')
        BY <1>1, <4>3, <4>6, Places
      <4> QED
        BY <4>2, <4>7 DEF E
    <3> QED
      BY <1>1, <2>1, <3>1, <3>4, <3>5, <3>6, FollowsCalls
  <2>4. CASE ~ Failed /\ Peek # "Else" /\ Looks /\ ReturnsNew("IfStmt", 0, <<cond, res>>)
    <3>1. PICK es : Tracks(es)
      BY <2>4, Tracked
    <3>2. Here' = Here /\ Peek' = Peek /\ err' = err
      BY <2>4, Moves
    <3>3. es[1] \in Around /\ Stands(Top, es[1], Here, Peek)
      BY <3>1, TracksTop DEF Tracks
    <3>4. Here' = Expecting("stmt or else", es[1].open) /\ Peek' # "Else"
      BY <2>1, <2>4, <3>2, <3>3, Places
    <3>5. AtStmt(Here', es[1].open, Peek')
      BY <3>4 DEF AtStmt
    <3>6. Leaves(Top, es[1], Here', Peek')
      BY <2>1, <3>5 DEF Leaves
    <3> QED
      BY <2>4, <3>1, <3>2, <3>6, FollowsReturns DEF ReturnsNew
  <2>5. CASE OutOfMemory(TreeOf(res) \union TreeOf(cond))
    BY <2>5, FollowsOut
  <2> QED
    BY <1>4, <2>2, <2>3, <2>4, <2>5 DEF IfHasThen
<1>5. CASE IfHasElse
  <2> DEFINE both == TreeOf(Top.held[1]) \union TreeOf(Top.held[2])
  <2>1. Top.rule = "IfStmt" /\ Top.at = "else"
    BY <1>5 DEF IfHasElse, At
  <2>2. CASE GivesUp(both, 0)
    BY <2>2, FollowsGivesUp
  <2>3. CASE ~ Failed /\ Looks /\ ReturnsNew("IfElseStmt", 0, Append(Top.held, res))
    <3>1. PICK es : Tracks(es)
      BY <2>3, Tracked
    <3>2. Here' = Here /\ Peek' = Peek /\ err' = err
      BY <2>3, Moves
    <3>3. es[1] \in Around /\ Stands(Top, es[1], Here, Peek)
      BY <3>1, TracksTop DEF Tracks
    <3>4. Here' = Expecting("stmt", es[1].open)
      BY <2>1, <3>2, <3>3, Places
    <3>5. AtStmt(Here', es[1].open, Peek')
      BY <3>4 DEF AtStmt
    <3>6. Leaves(Top, es[1], Here', Peek')
      BY <2>1, <3>5 DEF Leaves
    <3> QED
      BY <2>3, <3>1, <3>2, <3>6, FollowsReturns DEF ReturnsNew
  <2>4. CASE OutOfMemory(TreeOf(res) \union both)
    BY <2>4, FollowsOut
  <2> QED
    BY <1>5, <2>2, <2>3, <2>4 DEF IfHasElse
<1> QED
  BY <1>2, <1>3, <1>4, <1>5 DEF IfStmt

LEMMA StmtFollows ==
  ASSUME Going, StmtStarts
  PROVE  pc' = "run" => Follows'
<1>1. Top.rule = "Stmt" /\ Top.at = "start"
  BY DEF StmtStarts, At
<1>2. PICK es : Tracks(es)
  BY <1>1, Tracked DEF Waits
<1> DEFINE open == es[1].open
<1>3. es[1] \in Around /\ open \in Seq(What) /\ Stands(Top, es[1], Here, Peek)
  BY <1>2, TracksTop DEF Tracks
<1>4. /\ AtStmt(Here, open, Peek)
      /\ \/ open = << >> /\ Peek # "Eof"
         \/ open # << >> /\ Peek # "RightBrace"
  BY <1>1, <1>3, Places
<1>5. Peek # "NULL"
  BY AheadOf DEF Going
<1>6. PICK m \in {"stmt", "stmt or else"} :
        Here = Expecting(m, open) /\ (m = "stmt or else" => Peek # "Else")
  BY <1>4 DEF AtStmt
<1>7. CASE Peek \in {"Name", "If", "LeftBrace"} /\ Looks /\ Becomes(Frame(StmtRule(Peek), 0))
  <2> DEFINE rule == StmtRule(Peek)
             f == Frame(rule, 0)
  <2>1. /\ Peek = "Name" => rule = "AsgnStmt"
        /\ Peek = "If" => rule = "IfStmt"
        /\ Peek = "LeftBrace" => rule = "BlockStmt"
        /\ rule \in {"AsgnStmt", "IfStmt", "BlockStmt"}
    BY <1>7 DEF StmtRule
  <2>2. Becomes(f)
    BY <1>7
  <2> HIDE DEF rule
  <2>3. f \in Frames /\ f.rule = rule /\ f.at = "start"
    BY <2>1, RuleCalled DEF Rule
  <2> HIDE DEF f
  <2>4. ASSUME NEW g, Awaits(g, Top) PROVE g.rule \in {"Block", "Prog"} /\ Awaits(g, f)
    <3>1. g.rule \in {"Block", "Prog"} /\ g.at = "stmt"
      BY <1>1, <2>4 DEF Awaits, IsOpd
    <3>2. IsStmt(f)
      BY <2>1, <2>3 DEF IsStmt
    <3> QED
      BY <3>1, <3>2 DEF Awaits
  <2>5. Here' = Here /\ Peek' = Peek /\ err' = err
    BY <1>7, Moves
  <2>6. es[1].role = "stmt"
    <3>1. Tail(stack) # << >> /\ stack \in Seq(Frames) /\ stack # << >> /\ Top = Head(stack)
          /\ Nested(stack, es)
      BY <1>1, <1>2, TracksTop
    <3>2. Awaits(stack[2], Top) /\ es[1] = Inside(stack[2], es[2])
      BY <3>1, NestedPop
    <3>3. stack[2].rule \in {"Block", "Prog"}
      BY <2>4, <3>2
    <3>4. Inside(stack[2], es[2]).role = "stmt"
      BY <3>3, Roles
    <3> QED
      BY <3>2, <3>4
  <2>7. AtStmt(Here', open, Peek')
    BY <1>4, <2>5
  <2>8. Stands(f, es[1], Here', Peek')
    <3>1. CASE Peek = "Name"
      BY <1>3, <2>1, <2>3, <2>5, <2>7, <3>1, Places
    <3>2. CASE Peek = "If"
      BY <1>3, <2>1, <2>3, <2>5, <2>7, <3>2, Places
    <3>3. CASE Peek = "LeftBrace"
      <4>1. BeforeBlock(Here', es[1], Peek')
        BY <2>5, <2>6, <2>7, <3>3 DEF BeforeBlock
      <4> QED
        BY <1>3, <2>1, <2>3, <3>3, <4>1, Places
    <3> QED
      BY <1>7, <3>1, <3>2, <3>3
  <2> QED
    BY <1>1, <1>2, <2>2, <2>3, <2>4, <2>5, <2>8, FollowsBecomes
<1>8. CASE Peek \notin {"NULL", "Name", "If", "LeftBrace"} /\ Unexpected({}, 0)
  <2>1. Scan(Expecting(m, open), Peek).mode = "wrong"
    BY <1>3, <1>4, <1>6, <1>8, ScanStmtWrong
  <2> QED
    BY <1>6, <1>8, <2>1, FollowsUnexpected
<1> QED
  BY <1>5, <1>7, <1>8 DEF StmtStarts

LEMMA ProgFollows ==
  ASSUME Going, Prog
  PROVE  Follows'
<1> DEFINE prog == Top.held[1]
<1>1. CASE ProgStarts
  <2>1. Top.rule = "Prog" /\ Top.at = "start"
    BY <1>1 DEF ProgStarts, At
  <2>2. PICK es : Tracks(es)
    BY <2>1, Tracked DEF Waits
  <2>3. es[1] \in Around /\ Stands(Top, es[1], Here, Peek)
    BY <2>2, TracksTop DEF Tracks
  <2>4. CASE Looks /\ Stays("loop", <<next>>)
    <3>1. Here' = Here /\ Peek' = Peek /\ err' = err
      BY <2>4, Moves
    <3>2. AtStmt(Here', << >>, Peek')
      BY <2>1, <2>3, <3>1, Places
    <3>3. ASSUME NEW f, Alike(f, "loop") PROVE Stands(f, es[1], Here', Peek')
      <4>1. f.rule = "Prog" /\ f.at = "loop"
        BY <2>1, <3>3 DEF Alike
      <4> QED
        BY <2>3, <3>2, <4>1, Places
    <3>4. "loop" \in Label /\ <<next>> \in Seq(Nat) /\ <<next>> # << >>
      BY NodesTyped DEF Label, Going
    <3> QED
      BY <2>1, <2>2, <2>4, <3>1, <3>3, <3>4, FollowsStays
  <2>5. CASE OutOfMemory({})
    BY <2>5, FollowsOut
  <2> QED
    BY <1>1, <2>4, <2>5 DEF ProgStarts
<1>2. CASE ProgLoops
  <2>1. Top.rule = "Prog" /\ Top.at = "loop"
    BY <1>2 DEF ProgLoops, At
  <2>2. PICK es : Tracks(es)
    BY <2>1, Tracked DEF Waits
  <2>3. /\ es[1] \in Around /\ Stands(Top, es[1], Here, Peek) /\ es[1].open = << >>
        /\ Tail(stack) = << >> /\ ~ Failed
    BY <2>1, <2>2, TracksTop DEF Tracks
  <2>4. AtStmt(Here, << >>, Peek)
    BY <2>1, <2>3, Places
  <2>5. PICK m \in {"stmt", "stmt or else"} : Here = Expecting(m, << >>)
    BY <2>4 DEF AtStmt
  <2>6. CASE Peek = "Eof" /\ Consumes /\ Returns(prog)
    <3>1. << >> \in Seq(What)
      BY <2>2, <2>3, TracksTop
    <3>2. Here' = Expecting("end", << >>) /\ err' = err
      BY <2>5, <2>6, <3>1, Moves, ScanStmt
    <3>3. Here'.mode = "end"
      BY <3>2 DEF Expecting
    <3>4. off' = Len(toks') /\ toks' = toks
      BY <2>6, AheadOf DEF Going, Consumes, caller
    <3>5. stack' = << >> /\ ~ Failed'
      BY <2>3, <2>6, <3>2 DEF Returns, Failed
    <3> QED
      BY <3>3, <3>4, <3>5 DEF Follows
  <2>7. CASE Peek # "Eof" /\ Looks /\ Calls(Frame("Stmt", 0), "stmt", Top.held, 0)
    <3> DEFINE f == Frame("Stmt", 0)
    <3>1. f \in Frames /\ f.rule = "Stmt" /\ f.at = "start"
      BY RuleCalled DEF Rule
    <3>2. Calls(f, "stmt", Top.held, 0)
      BY <2>7
    <3> HIDE DEF f
    <3>3. Here' = Here /\ Peek' = Peek /\ err' = err
      BY <2>7, Moves
    <3>4. ASSUME NEW g, Alike(g, "stmt")
          PROVE  Awaits(g, f) /\ Stands(f, Inside(g, es[1]), Here', Peek')
      <4>1. g.rule = "Prog" /\ g.at = "stmt"
        BY <2>1, <3>4 DEF Alike
      <4>2. Awaits(g, f)
        BY <3>1, <4>1 DEF Awaits, IsStmt
      <4> DEFINE E == Inside(g, es[1])
      <4>3. E \in Around
        BY <2>3, <4>2, InsideAround
      <4>4. E.open = << >>
        BY <2>3, <4>1, Openings
      <4> HIDE DEF E
      <4>5. AtStmt(Here', E.open, Peek') /\ Peek' # "Eof"
        BY <2>4, <2>7, <3>3, <4>4
      <4>6. Stands(f, E, Here', Peek')
        BY <3>1, <4>3, <4>4, <4>5, Places
      <4> QED
        BY <4>2, <4>6 DEF E
    <3>5. "stmt" \in Label /\ Top.held \in Seq(Nat) /\ Top.held # << >> /\ 0 \in Nat
      BY <2>1, NodesTyped DEF Label, EmptyHanded, Going
    <3> QED
      BY <2>1, <2>2, <3>1, <3>2, <3>3, <3>4, <3>5, FollowsCalls
  <2> QED
    BY <1>2, <2>6, <2>7 DEF ProgLoops
<1>3. CASE ProgHasStmt
  <2>1. Top.rule = "Prog" /\ Top.at = "stmt"
    BY <1>3 DEF ProgHasStmt, At
  <2>2. CASE GivesUp(TreeOf(prog), 0)
    BY <2>2, FollowsGivesUp
  <2>3. CASE ~ Failed /\ Looks /\ Stays("loop", Top.held)
    <3>1. PICK es : Tracks(es)
      BY <2>3, Tracked
    <3>2. Here' = Here /\ Peek' = Peek /\ err' = err
      BY <2>3, Moves
    <3>3. es[1] \in Around /\ Stands(Top, es[1], Here, Peek)
      BY <3>1, TracksTop DEF Tracks
    <3>4. AtStmt(Here', << >>, Peek')
      BY <2>1, <3>2, <3>3, Places
    <3>5. ASSUME NEW f, Alike(f, "loop") PROVE Stands(f, es[1], Here', Peek')
      <4>1. f.rule = "Prog" /\ f.at = "loop"
        BY <2>1, <3>5 DEF Alike
      <4> QED
        BY <3>3, <3>4, <4>1, Places
    <3>6. "loop" \in Label /\ Top.held \in Seq(Nat) /\ Top.held # << >>
      BY <2>1, NodesTyped DEF Label, EmptyHanded, Going
    <3> QED
      BY <2>1, <2>3, <3>1, <3>2, <3>5, <3>6, FollowsStays
  <2>4. CASE OutOfMemory(TreeOf(res) \union TreeOf(prog))
    BY <2>4, FollowsOut
  <2> QED
    BY <1>3, <2>2, <2>3, <2>4 DEF ProgHasStmt
<1> QED
  BY <1>1, <1>2, <1>3 DEF Prog

-----------------------------------------------------------------------------
(* What Parse says of where the descent ended. *)
LEMMA ReturnJudged ==
  ASSUME IInv, ParseReturns, ~ astray => Follows
  PROVE  Judged' /\ pc' # "run"
<1>1. pc = "run" /\ stack = << >>
  BY DEF ParseReturns
<1>2. CASE astray
  BY <1>1, <1>2 DEF ParseReturns, Crashes, Judged, Parsed
<1>3. CASE ~ astray
  <2>1. toks' = toks /\ off' = off
    BY DEF ParseReturns, Crashes
  <2>2. CASE ~ Failed /\ pc' = "done" /\ ret' = TRUE
    <3>1. Here.mode = "end" /\ off = Len(toks)
      BY <1>1, <1>3, <2>2 DEF Follows
    <3>2. Scans(toks)[Len(toks)].mode = "end"
      BY <3>1 DEF Here
    <3>3. Scans(toks')[Len(toks')].mode = "end" /\ off' = Len(toks')
      BY <2>1, <3>1, <3>2
    <3> QED
      BY <2>2, <3>3 DEF Judged
  <2>3. CASE /\ Failed /\ pc' = "done" /\ ret' = FALSE
             /\ \E msg \in {err.msg + 1} \union (IF FaultyAlloc THEN {err.msg} ELSE {}) :
                  err' = [err EXCEPT !.msg = msg, !.tok = off + 1]
    <3>1. Blamed
      BY <1>3, <2>3 DEF Follows
    <3>2. /\ off \in Nat /\ off < Len(toks) /\ Len(toks) \in Nat /\ Peek = toks[off + 1]
      <4>1. off \in Nat /\ toks \in Program
        BY <1>1, <1>3, <2>3 DEF IInv, Typed, Within
      <4>2. Len(toks) \in Nat
        BY <4>1, ParserAssumption
      <4>3. off < Len(toks)
        BY <1>1, <1>3, <2>3, TokenAhead
      <4> QED
        BY <4>1, <4>2, <4>3 DEF Peek
    <3>3. off + 1 \in 1 .. Len(toks) /\ off + 1 - 1 = off
      BY <3>2
    <3>4. Scans(toks)[off + 1] = Scan(Here, Peek)
      BY <3>2, <3>3, ScansOf DEF Here
    <3>5. err'.type = err.type /\ err'.tok = off + 1
      BY <2>3 DEF IInv, Typed
    <3>6. CASE err.type = "NoEnoughMemory" /\ FaultyAlloc
      BY <2>3, <3>5, <3>6 DEF Judged
    <3>7. CASE err.type = "UnexpectedToken" /\ Here.mode # "wrong" /\ Scan(Here, Peek).mode = "wrong"
      <4>1. Scans(toks)[err'.tok - 1].mode # "wrong" /\ Scans(toks)[err'.tok].mode = "wrong"
        <5>1. err'.tok - 1 = off
          BY <3>2, <3>5
        <5>2. Scans(toks)[err'.tok - 1] = Here
          BY <5>1 DEF Here
        <5>3. Scans(toks)[err'.tok] = Scan(Here, Peek)
          BY <3>4, <3>5
        <5> QED
          BY <3>7, <5>2, <5>3
      <4>2. Scans(toks')[err'.tok - 1].mode # "wrong" /\ Scans(toks')[err'.tok].mode = "wrong"
        BY <2>1, <4>1
      <4> QED
        BY <2>3, <3>5, <3>7, <4>2 DEF Judged
    <3> QED
      BY <2>3, <3>1, <3>6, <3>7 DEF Blamed
  <2>4. CASE Crashes
    BY <2>4 DEF Crashes, Judged, Parsed
  <2> QED
    BY <2>2, <2>3, <2>4 DEF ParseReturns
<1> QED
  BY <1>2, <1>3

LEMMA InitJInv ==
  ASSUME Init
  PROVE  JInv
BY InitIInv DEF Init, JInv, Judged, Parsed

(* A fresh program begins with its first statement, in no block. *)
LEMMA ParseFollows ==
  ASSUME IInv, Parse
  PROVE  /\ pc' = "run" /\ ~ astray' => Follows'
         /\ Judged'
<1>1. CASE toks = << >>
  <2>1. pc' = "done" /\ toks' = << >>
    BY <1>1 DEF Parse, parser
  <2> QED
    BY <2>1 DEF Judged, Parsed
<1>2. CASE toks # << >>
  <2>1. /\ pc' = "run" /\ astray' = (off # 0 \/ Failed)
        /\ toks' = toks /\ off' = off /\ err' = err
        /\ stack' = <<Frame("Prog", 0)>>
    BY <1>2 DEF Parse, parser
  <2>2. Judged'
    BY <2>1 DEF Judged, Parsed
  <2>3. ASSUME ~ astray' PROVE Follows'
    <3> DEFINE f == Frame("Prog", 0)
               E == [open |-> << >>, role |-> "stmt"]
               s == <<f>>
               es == <<E>>
    <3>1. f \in Frames /\ f.rule = "Prog" /\ f.at = "start"
      BY FrameTyped DEF Rule
    <3>2. E \in Around /\ E.open = << >>
      BY DEF Around
    <3>3. stack' = s
      BY <2>1
    <3> HIDE DEF f, E
    <3>4. s # << >> /\ Head(s) = f /\ Len(s) = 1 /\ s[1] = f
      OBVIOUS
    <3>5. es \in Seq(Around) /\ Len(es) = 1 /\ es[1] = E
      BY <3>2
    <3> HIDE DEF s, es
    <3>6. Nested(s, es)
      <4>1. 1 .. Len(s) - 1 = {}
        BY <3>4
      <4> QED
        BY <3>1, <3>2, <3>4, <3>5, <4>1 DEF Nested
    <3>7. off' = 0 /\ ~ Failed'
      BY <2>1, <2>3 DEF Failed
    <3>8. Here' = Expecting("stmt", << >>)
      <4>1. toks \in Program
        BY <1>2 DEF IInv, Typed
      <4>2. Len(toks) \in Nat
        BY <4>1, ParserAssumption
      <4>3. Scans(toks)[0] = Expecting("stmt", << >>)
        BY <4>2, ScansOf
      <4> QED
        BY <2>1, <3>7, <4>3 DEF Here
    <3>9. AtStmt(Here', << >>, Peek')
      BY <3>8 DEF AtStmt
    <3>10. Stands(f, E, Here', Peek')
      BY <3>1, <3>2, <3>9, Places
    <3>11. Top' = f
      BY <3>3, <3>4 DEF Top
    <3> QED
      BY <3>3, <3>4, <3>5, <3>6, <3>7, <3>10, <3>11 DEF Follows
  <2> QED
    BY <2>2, <2>3
<1> QED
  BY <1>1, <1>2

LEMMA StepJInv ==
  ASSUME JInv, [Next]_vars
  PROVE  JInv'
<1>1. IInv'
  BY StepIInv DEF JInv
<1>2. CASE Base \/ Unary \/ Binary \/ AsgnStmt \/ Block \/ BlockStmt \/ IfStmt \/ StmtStarts \/ Prog
  <2>1. Running
    BY <1>2 DEF JInv, Running, At, Base, BaseStarts, BaseCloses, Unary, UnaryStarts, UnaryEnds,
       Binary, BinaryStarts, BinaryHasLhs, BinaryAgain, BinaryHasRhs, AsgnStmt, AssignStarts,
       AssignHasLhs, AssignEnds, Block, BlockStarts, BlockOpens, BlockLoops, BlockHasStmt,
       BlockStmt, BlockStmtStarts, BlockStmtEnds, IfStmt, IfStarts, IfHasCond, IfHasThen,
       IfHasElse, StmtStarts, Prog, ProgStarts, ProgLoops, ProgHasStmt
  <2>2. astray' = astray /\ pc' # "done"
    <3>1. UNCHANGED caller \/ Crashes
      BY <1>2 DEF Base, BaseStarts, BaseCloses, Unary, UnaryStarts, UnaryEnds,
       Binary, BinaryStarts, BinaryHasLhs, BinaryAgain, BinaryLoops, BinaryHasRhs, AsgnStmt,
       AssignStarts, AssignHasLhs, AssignEnds, Block, BlockStarts, BlockOpens, BlockLoops,
       BlockHasStmt, BlockStmt, BlockStmtStarts, BlockStmtEnds, IfStmt, IfStarts, IfHasCond,
       IfHasThen, IfHasElse, StmtStarts, Prog, ProgStarts, ProgLoops, ProgHasStmt,
       Consumes, Looks, OutOfMemory, Unexpected, GivesUp, Fails
    <3> QED
      BY <2>1, <3>1 DEF caller, Crashes, Running
  <2>3. ASSUME pc' = "run", ~ astray' PROVE Follows'
    <3>1. Going
      BY <2>1, <2>2, <2>3 DEF JInv, Going, Running
    <3> QED
      BY <1>2, <2>3, <3>1, BaseFollows, UnaryFollows, BinaryFollows, AsgnFollows, BlockFollows,
         BlockStmtFollows, IfFollows, StmtFollows, ProgFollows
  <2> QED
    BY <1>1, <2>2, <2>3 DEF JInv, Judged, Parsed
<1>3. CASE ParseReturns
  <2>1. Judged' /\ pc' # "run"
    BY <1>3, ReturnJudged DEF JInv, ParseReturns
  <2> QED
    BY <1>1, <2>1 DEF JInv
<1>4. CASE Parse
  BY <1>1, <1>4, ParseFollows DEF JInv
<1>5. CASE (\E p \in Program : Link(p)) \/ Reset \/ FreeTree
  <2>1. pc' = "idle"
    BY <1>5 DEF Link, Reset, FreeTree
  <2> QED
    BY <1>1, <2>1 DEF JInv, Judged, Parsed
<1>6. CASE UNCHANGED vars
  <2>1. /\ pc' = pc /\ astray' = astray
        /\ Follows' = Follows /\ Judged' = Judged
    BY <1>6 DEF vars, Follows, Judged, Parsed, Failed, Top, Here, Peek, Blamed
  <2> QED
    BY <1>1, <2>1 DEF JInv
<1> QED
  BY <1>2, <1>3, <1>4, <1>5, <1>6 DEF Next, ParserStep

(* For every set of programs, in any sequence of calls with any allocation
   refused, a parse of a fresh program succeeds exactly when the scan accepts
   it, having consumed every token, and otherwise blames the first token with
   which no program can begin, unless memory ran out. *)
THEOREM AlwaysJudged == Spec => []Judged
<1>1. Init => JInv
  BY InitJInv
<1>2. JInv /\ [Next]_vars => JInv'
  BY StepJInv
<1>3. JInv => Judged
  BY DEF JInv
<1> QED
  BY <1>1, <1>2, <1>3, PTL DEF Spec

-----------------------------------------------------------------------------
(* The tree.  While nothing fails, what has been read is in the trees that *)
(* the rules hold, in the order of the rules, and in the frames that wait  *)
(* for an operand, a block or a branch.                                    *)

(* The tokens in the tree of node i of heap h, and in the trees of hs.     *)
Span(h, i) == {h[j].tok : j \in h[i].ids} \ {0}

Spans(h, hs) == UNION {Span(h, hs[j]) : j \in DOMAIN hs}

(* A rule that has read an operator and waits for its operand.             *)
Pends(f) == f.rule = "Opd" /\ f.at \in {"opd", "rhs"}

Marks(f) == IF Pends(f) THEN {f.tok} ELSE {}

(* The tokens a rule answers for, and those of all the rules s.            *)
Reach(h, f) == Spans(h, f.held) \union Marks(f)

Reaches(h, s) == UNION {Reach(h, s[k]) : k \in DOMAIN s}

Marked(s) == UNION {Marks(s[k]) : k \in DOMAIN s}

(* What a rule has begun and no node shows yet.                            *)
Begun(what, f) ==
  \/ what = "block" /\ f.rule = "BlockStmt" /\ f.at = "block"
  \/ what = "paren" /\ f.rule = "Base" /\ f.at = "expr"
  \/ what = "if" /\ f.rule = "IfStmt" /\ f.at \in {"cond", "then", "else"}
  \/ what = "else" /\ f.rule = "IfStmt" /\ f.at = "else"

Count(what, s) == Cardinality({k \in DOMAIN s : Begun(what, s[k])})

Weigh(what, f) == IF Begun(what, f) THEN 1 ELSE 0

(* The tokens in which names, literals and operators are written.          *)
Operand == Leaf \union Prefix \union Infix

Words(tags, n) == {k \in 1 .. n : toks[k] \in tags}

Braces(k) == Depth("LeftBrace", "RightBrace", k)

-----------------------------------------------------------------------------
(* Counting tokens. *)

(* One token more. *)
LEMMA WordsNext ==
  ASSUME NEW n \in Nat, NEW tags
  PROVE  /\ IsFiniteSet(Words(tags, n)) /\ Cardinality(Words(tags, n)) \in Nat
         /\ toks[n + 1] \in tags =>
              /\ Words(tags, n + 1) = Words(tags, n) \union {n + 1}
              /\ Cardinality(Words(tags, n + 1)) = Cardinality(Words(tags, n)) + 1
         /\ toks[n + 1] \notin tags => Words(tags, n + 1) = Words(tags, n)
<1> DEFINE W == Words(tags, n)
<1>1. IsFiniteSet(1 .. n) /\ W \in SUBSET (1 .. n)
  BY FS_Interval DEF Words
<1>2. IsFiniteSet(W) /\ Cardinality(W) \in Nat
  BY <1>1, FS_Subset, FS_CardinalityType
<1>3. n + 1 \notin W
  BY <1>1
<1>4. 1 .. n + 1 = (1 .. n) \union {n + 1}
  OBVIOUS
<1>5. toks[n + 1] \in tags => Words(tags, n + 1) = W \union {n + 1}
  BY <1>4 DEF Words
<1>6. toks[n + 1] \notin tags => Words(tags, n + 1) = W
  BY <1>4 DEF Words
<1> HIDE DEF W
<1>7. Cardinality(W \union {n + 1}) = Cardinality(W) + 1
  BY <1>2, <1>3, FS_AddElement
<1> QED
  BY <1>2, <1>5, <1>6, <1>7 DEF W

(* None of no tokens. *)
LEMMA WordsNone == \A tags : Words(tags, 0) = {} /\ Cardinality(Words(tags, 0)) = 0
<1>1. \A tags : Words(tags, 0) = {}
  BY DEF Words
<1> QED
  BY <1>1, FS_EmptySet

(* A depth is a difference of numbers of words. *)
LEMMA DepthOfWords ==
  ASSUME NEW open, NEW close, NEW k \in Nat
  PROVE  Depth(open, close, k + 1) = Cardinality(Words({open}, k)) - Cardinality(Words({close}, k))
<1> DEFINE m == k + 1
<1>2. m - 1 = k
  OBVIOUS
<1> HIDE DEF m
<1>1. Depth(open, close, m)
        = Cardinality({j \in 1 .. m - 1 : toks[j] = open})
            - Cardinality({j \in 1 .. m - 1 : toks[j] = close})
  BY DEF Depth
<1>3. {j \in 1 .. m - 1 : toks[j] = open} = Words({open}, k)
  BY <1>2 DEF Words
<1>4. {j \in 1 .. m - 1 : toks[j] = close} = Words({close}, k)
  BY <1>2 DEF Words
<1> QED
  BY <1>1, <1>3, <1>4 DEF m

(* What one token more does to the depths and the numbers of words.        *)
LEMMA DepthNext ==
  ASSUME NEW k \in Nat \ {0}
  PROVE  /\ Parens(k) \in Int /\ Braces(k) \in Int
         /\ Parens(k + 1) = Parens(k) + (IF toks[k] = "LeftParen" THEN 1
                                         ELSE IF toks[k] = "RightParen" THEN -1 ELSE 0)
         /\ Braces(k + 1) = Braces(k) + (IF toks[k] = "LeftBrace" THEN 1
                                         ELSE IF toks[k] = "RightBrace" THEN -1 ELSE 0)
<1>1. PICK n \in Nat : k = n + 1
  <2>1. k - 1 \in Nat /\ k = k - 1 + 1
    OBVIOUS
  <2> QED
    BY <2>1
<1>2. ASSUME NEW open, NEW close, open # close
      PROVE  /\ Depth(open, close, k) \in Int
             /\ Depth(open, close, k + 1) = Depth(open, close, k)
                  + (IF toks[k] = open THEN 1 ELSE IF toks[k] = close THEN -1 ELSE 0)
  <2> DEFINE A == Cardinality(Words({open}, n))
             B == Cardinality(Words({close}, n))
             A1 == Cardinality(Words({open}, k))
             B1 == Cardinality(Words({close}, k))
  <2>1. Depth(open, close, k) = A - B
    BY <1>1, DepthOfWords
  <2>2. Depth(open, close, k + 1) = A1 - B1
    BY DepthOfWords
  <2>3. A \in Nat /\ A1 = A + (IF toks[k] = open THEN 1 ELSE 0)
    BY <1>1, WordsNext
  <2>4. B \in Nat /\ B1 = B + (IF toks[k] = close THEN 1 ELSE 0)
    BY <1>1, WordsNext
  <2> HIDE DEF A, B, A1, B1
  <2> QED
    BY <1>2, <2>1, <2>2, <2>3, <2>4
<1> QED
  BY <1>2 DEF Parens, Braces

LEMMA DepthNone == Parens(1) = 0 /\ Braces(1) = 0
<1>1. 0 + 1 = 1 /\ 0 \in Nat
  OBVIOUS
<1>2. \A open, close : Depth(open, close, 1) = 0
  <2> TAKE open, close
  <2>1. Depth(open, close, 1) = Cardinality(Words({open}, 0)) - Cardinality(Words({close}, 0))
    BY <1>1, DepthOfWords
  <2> QED
    BY <2>1, WordsNone
<1> QED
  BY <1>2 DEF Parens, Braces

-----------------------------------------------------------------------------
(* A stack and its top. *)

(* Where the elements of s are, those of t below f.                        *)
Tops(s, f, t) ==
  /\ Len(t) \in Nat /\ Len(s) = Len(t) + 1 /\ s[1] = f
  /\ \A k \in 1 .. Len(t) : s[k + 1] = t[k]
  /\ DOMAIN s = 1 .. Len(s) /\ DOMAIN t = 1 .. Len(t)
  /\ \A k \in DOMAIN s : k = 1 \/ \E j \in DOMAIN t : k = j + 1

(* A stack with f on top of the rules t. *)
LEMMA TopPlaces ==
  ASSUME NEW S, NEW f \in S, NEW t \in Seq(S)
  PROVE  Tops(<<f>> \o t, f, t)
<1> DEFINE s == <<f>> \o t
<1>1. s \in Seq(S) /\ Len(s) = Len(t) + 1 /\ s[1] = f /\ Len(t) \in Nat
      /\ DOMAIN s = 1 .. Len(s) /\ DOMAIN t = 1 .. Len(t)
  OBVIOUS
<1>2. \A k \in 1 .. Len(t) : s[k + 1] = t[k]
  OBVIOUS
<1> DEFINE n == Len(t)
<1> HIDE DEF n
<1>3. ASSUME NEW k \in 1 .. n + 1, n \in Nat PROVE k = 1 \/ \E j \in 1 .. n : k = j + 1
  <2>1. k # 1 => k - 1 \in 1 .. n /\ k = k - 1 + 1
    BY <1>3
  <2> QED
    BY <2>1
<1> HIDE DEF s
<1>4. Tops(s, f, t)
  BY <1>1, <1>2, <1>3 DEF n, Tops
<1> QED
  BY <1>4 DEF s

(* What one rule more answers for. *)
LEMMA ReachesCons ==
  ASSUME NEW S, NEW f \in S, NEW t \in Seq(S), NEW h
  PROVE  /\ Reaches(h, <<f>> \o t) = Reach(h, f) \union Reaches(h, t)
         /\ Marked(<<f>> \o t) = Marks(f) \union Marked(t)
<1> DEFINE s == <<f>> \o t
<1>0. Tops(s, f, t)
  BY TopPlaces
<1> HIDE DEF s
<1>1. /\ s[1] = f /\ \A k \in 1 .. Len(t) : s[k + 1] = t[k]
      /\ DOMAIN s = 1 .. Len(s) /\ DOMAIN t = 1 .. Len(t)
      /\ Len(s) = Len(t) + 1 /\ Len(t) \in Nat
      /\ \A k \in DOMAIN s : k = 1 \/ \E j \in DOMAIN t : k = j + 1
  BY <1>0 DEF Tops
<1>2. 1 \in DOMAIN s /\ \A j \in DOMAIN t : j + 1 \in DOMAIN s
  BY <1>1
<1>3. {s[k] : k \in DOMAIN s} = {f} \union {t[k] : k \in DOMAIN t}
  BY <1>1, <1>2
<1>4. Reaches(h, s) = Reach(h, f) \union Reaches(h, t)
  <2>1. ASSUME NEW x \in Reaches(h, s) PROVE x \in Reach(h, f) \union Reaches(h, t)
    <3>1. PICK k \in DOMAIN s : x \in Reach(h, s[k])
      BY <2>1 DEF Reaches
    <3>2. k = 1 \/ \E j \in 1 .. Len(t) : s[k] = t[j] /\ j \in DOMAIN t
      BY <1>1
    <3> QED
      BY <1>1, <3>1, <3>2 DEF Reaches
  <2>2. \A x : x \in Reach(h, f) \union Reaches(h, t) => x \in Reaches(h, s)
    BY <1>1, <1>2 DEF Reaches
  <2> QED
    BY <2>1, <2>2
<1>5. Marked(s) = Marks(f) \union Marked(t)
  <2>1. ASSUME NEW x \in Marked(s) PROVE x \in Marks(f) \union Marked(t)
    <3>1. PICK k \in DOMAIN s : x \in Marks(s[k])
      BY <2>1 DEF Marked
    <3>2. k = 1 \/ \E j \in 1 .. Len(t) : s[k] = t[j] /\ j \in DOMAIN t
      BY <1>1
    <3> QED
      BY <1>1, <3>1, <3>2 DEF Marked
  <2>2. \A x : x \in Marks(f) \union Marked(t) => x \in Marked(s)
    BY <1>1, <1>2 DEF Marked
  <2> QED
    BY <2>1, <2>2
<1> QED
  BY <1>4, <1>5 DEF s

(* What one rule more has begun. *)
LEMMA CountCons ==
  ASSUME NEW S, NEW f \in S, NEW t \in Seq(S), NEW what
  PROVE  /\ Count(what, t) \in Nat
         /\ Count(what, <<f>> \o t) = Count(what, t) + Weigh(what, f)
         /\ Weigh(what, f) \in {0, 1}
<1> DEFINE s == <<f>> \o t
           A == {k \in DOMAIN t : Begun(what, t[k])}
           B == {k + 1 : k \in A}
           C == {k \in DOMAIN s : Begun(what, s[k])}
           m == [k \in A |-> k + 1]
<1>0. Tops(s, f, t)
  BY TopPlaces
<1> HIDE DEF s
<1>1. /\ s[1] = f /\ \A k \in 1 .. Len(t) : s[k + 1] = t[k]
      /\ DOMAIN s = 1 .. Len(s) /\ DOMAIN t = 1 .. Len(t)
      /\ Len(s) = Len(t) + 1 /\ Len(t) \in Nat
      /\ \A k \in DOMAIN s : k = 1 \/ \E j \in DOMAIN t : k = j + 1
  BY <1>0 DEF Tops
<1>2. 1 \in DOMAIN s /\ \A j \in DOMAIN t : j + 1 \in DOMAIN s
  BY <1>1
<1>3. IsFiniteSet(A) /\ Cardinality(A) \in Nat
  <2>1. IsFiniteSet(DOMAIN t)
    BY <1>1, FS_Interval
  <2> QED
    BY <2>1, FS_Subset, FS_CardinalityType
<1>4. IsFiniteSet(B) /\ Cardinality(B) = Cardinality(A)
  <2>1. A \subseteq Int
    BY <1>1
  <2> HIDE DEF A
  <2>2. m \in Surjection(A, B)
    BY DEF Surjection
  <2>3. m \in Injection(A, B)
    <3>1. m \in [A -> B]
      OBVIOUS
    <3>2. \A a, b \in A : m[a] = m[b] => a = b
      BY <2>1
    <3> HIDE DEF m, B
    <3> QED
      BY <3>1, <3>2 DEF Injection, IsInjective
  <2>4. ExistsBijection(A, B)
    BY <2>2, <2>3 DEF ExistsBijection, Bijection
  <2> QED
    BY <1>3, <2>4, FS_Bijection
<1>5. C = B \union (IF Begun(what, f) THEN {1} ELSE {})
  BY <1>1, <1>2
<1>6. 1 \notin B
  BY <1>1
<1> HIDE DEF A, B, C
<1>7. Cardinality(C) = Cardinality(A) + Weigh(what, f)
  <2>1. CASE Begun(what, f)
    <3>1. Cardinality(B \union {1}) = Cardinality(B) + 1
      BY <1>4, <1>6, FS_AddElement
    <3> QED
      BY <1>3, <1>4, <1>5, <2>1, <3>1 DEF Weigh
  <2>2. CASE ~ Begun(what, f)
    BY <1>3, <1>4, <1>5, <2>2 DEF Weigh
  <2> QED
    BY <2>1, <2>2
<1>8. Weigh(what, f) \in {0, 1}
  BY DEF Weigh
<1> QED
  BY <1>3, <1>7, <1>8 DEF Count, A, C, s

LEMMA CountNone == \A what : Count(what, << >>) = 0
<1>1. \A what : {k \in DOMAIN << >> : Begun(what, << >>[k])} = {}
  OBVIOUS
<1> QED
  BY <1>1, FS_EmptySet DEF Count

-----------------------------------------------------------------------------
(* What the trees and the frames say of the tokens. *)

(* The blocks made around token k.                                         *)
Blocks(h, k) == {i \in Fresh(h, mark) : h[i].tag = "BlockStmt" /\ k \in Span(h, i)}

Over(h, k) == Cardinality(Blocks(h, k))

(* Level, Binds and WellBound of Syntax, in any heap.                      *)
Rank(h, i) ==
  CASE Len(h[i].kids) = 0 -> 0
    [] Len(h[i].kids) = 1 -> 1
    [] OTHER -> CHOOSE n \in 2 .. 8 : h[i].tag \in Range(BinTag[n])

Bounded(h, c, n, p) ==
  \/ Rank(h, c) = 0
  \/ Parens(h[c].tok) > p
  \/ Parens(h[c].tok) = p /\ Rank(h, c) \in 0 .. n

(* Levels 2 and 8 associate to the right. *)
LeftOpd(n) == IF n \in {2, 8} THEN n - 1 ELSE n

WellPut(h, i) ==
  LET kids == h[i].kids
      n == Rank(h, i)
      p == Parens(h[i].tok)
  IN  /\ n \in 1 .. 8
      /\ IF Len(kids) = 1
         THEN Precedes({h[i].tok}, Span(h, kids[1])) /\ Bounded(h, kids[1], n, p)
         ELSE /\ Precedes(Span(h, kids[1]), {h[i].tok})
              /\ Precedes({h[i].tok}, Span(h, kids[2]))
              /\ Bounded(h, kids[1], LeftOpd(n), p)
              /\ Bounded(h, kids[2], RightOpd(n), p)

InRow(h, hs) ==
  \A a, b \in DOMAIN hs : a < b => Precedes(Span(h, hs[a]), Span(h, hs[b]))

(* The statement i is the assignment whose sign is token k.                *)
Assigns(h, i, k) ==
  /\ h[i].tag = "AsgnStmt" /\ DOMAIN h[i].kids = 1 .. 2
  /\ h[h[i].kids[1]].tok = k - 1
  /\ Precedes({k}, Span(h, h[i].kids[2]))

(* The rule f has read it and waits for its right side.                    *)
Assigning(h, f, k) ==
  f.rule = "AsgnStmt" /\ f.at = "rhs" /\ h[f.held[1]].tok = k - 1

(* The level of a rule's left operand, once it has read an operator and    *)
(* before.                                                                 *)
Lower(f) == IF f.at = "rhs" THEN LeftOpd(f.lvl) ELSE f.lvl

(* The level of the operand that a rule waits for.                         *)
Due(f) ==
  IF f.rule = "Base" THEN 8
  ELSE IF f.at = "opd" THEN 1
  ELSE IF f.at = "lhs" THEN f.lvl - 1
  ELSE RightOpd(f.lvl)

(* The tokens of the nodes. *)
Shown(h) == {h[i].tok : i \in Fresh(h, mark)}

(* What rule f on top of the rules t has read follows what they have read, *)
(* as deep as what is begun says.                                          *)
Fits(h, f, t) ==
  /\ InRow(h, f.held)
  /\ Precedes(Reaches(h, t), Reach(h, f))
  /\ Precedes(Spans(h, f.held), Marks(f))
  /\ \A k \in Reach(h, f) : Braces(k) = Over(h, k) + Count("block", t) + Weigh("block", f)
  /\ Pends(f) => Parens(f.tok) = Count("paren", t) /\ f.tok \notin Shown(h)
  /\ f.rule = "Opd" /\ f.at \in {"rhs", "loop"} =>
       Bounded(h, f.held[1], Lower(f), Count("paren", t))
  /\ f.rule \in {"Block", "Prog"} =>
       \A a \in DOMAIN f.held : h[f.held[a]].tag \in {"Seq", "Prog"} /\ h[f.held[a]].tok = 0

Beneath(s, k) == SubSeq(s, k + 1, Len(s))

Spine(h, s) == \A k \in 1 .. Len(s) : Fits(h, s[k], Beneath(s, k))

(* So does the node r that the rules s are given.                          *)
Holds(h, r, s) ==
  /\ Precedes(Reaches(h, s), Span(h, r))
  /\ \A k \in Span(h, r) : Braces(k) = Over(h, k) + Count("block", s)
  /\ s # << >> /\ Head(s).rule \in {"Opd", "Base"} =>
       Bounded(h, r, Due(Head(s)), Count("paren", s))

(* What is below the nodes since the mark is since the mark.               *)
Encloses(h, i) ==
  /\ i \in h[i].ids /\ h[i].ids \subseteq Fresh(h, mark)
  /\ h[i].kids \in Seq(Fresh(h, mark))
  /\ \A a \in DOMAIN h[i].kids : h[h[i].kids[a]].ids \subseteq h[i].ids

Closed(h) == \A i \in Fresh(h, mark) : Encloses(h, i)

(* The nodes: no two are of one token, children are in order, operators    *)
(* have the operands that their levels allow.                              *)
Sound(h, n) ==
  \A i \in Fresh(h, mark) :
    /\ h[i].tok # 0 => h[i].tok \in Words(Operand, n)
    /\ \A j \in Fresh(h, mark) : h[i].tok # 0 /\ h[j].tok = h[i].tok => i = j
    /\ InRow(h, h[i].kids)
    /\ h[i].tok # 0 /\ h[i].kids # << >> => WellPut(h, i)

(* Every word read is in a node, or a rule is about to make it one.        *)
Said(h, s, n) == Words(Operand, n) \subseteq Shown(h) \union Marked(s)

Done(h, k) == \E i \in Fresh(h, mark) : Assigns(h, i, k)

Awaited(h, s, k) == \E j \in DOMAIN s : Assigning(h, s[j], k)

(* So is every sign of an assignment. *)
Assigned(h, s, n) == \A k \in Words({"Assign"}, n) : Done(h, k) \/ Awaited(h, s, k)

Made(h, tags) == {i \in Fresh(h, mark) : h[i].tag \in tags}

(* Braces behind which the sequence is not, or no more, being read.        *)
Unopened(f) ==
  \/ f.rule = "Block" /\ f.at \in {"start", "open"}
  \/ f.rule = "BlockStmt" /\ f.at = "block"

Tallied(h, s, n) ==
  /\ Parens(n + 1) = Count("paren", s)
  /\ s # << >> => Braces(n + 1) = Count("block", s) - (IF Unopened(Head(s)) THEN 1 ELSE 0)
  /\ Cardinality(Words({"If"}, n))
       = Cardinality(Made(h, {"IfStmt", "IfElseStmt"})) + Count("if", s)
  /\ Cardinality(Words({"Else"}, n)) = Cardinality(Made(h, {"IfElseStmt"})) + Count("else", s)

(* The running rule f has just read a name to assign to, or has had all    *)
(* operators of its level, if they associate to the right.                 *)
Poised(h, f, n) ==
  /\ f.rule = "AsgnStmt" /\ f.at = "assign" => h[f.held[1]].tok = n
  /\ f.rule = "Opd" /\ f.at \in {"rhs", "loop"} /\ f.lvl \in {2, 8} =>
       toks[n + 1] \notin DOMAIN BinTag[f.lvl]

Waiting(s) == s = << >> \/ Head(s).at \in WaitLabel

(* The trees and the frames agree with the first n tokens.                 *)
Placed(h, s, r, n) ==
  /\ Spine(h, s) /\ Reaches(h, s) \subseteq 1 .. n
  /\ Waiting(s) => Holds(h, r, s) /\ Span(h, r) \subseteq 1 .. n
  /\ Closed(h) /\ Sound(h, n)

Tells(h, s, r, n) ==
  /\ Placed(h, s, r, n)
  /\ Said(h, s, n) /\ Assigned(h, s, n) /\ Tallied(h, s, n)
  /\ s # << >> => Poised(h, Head(s), n)

-----------------------------------------------------------------------------

(* What is beneath each rule of a stack. *)
LEMMA UnderTop ==
  ASSUME NEW S, NEW f \in S, NEW t \in Seq(S)
  PROVE  /\ Beneath(<<f>> \o t, 1) = t
         /\ \A k \in 1 .. Len(t) : Beneath(<<f>> \o t, k + 1) = Beneath(t, k)
<1> DEFINE s == <<f>> \o t
<1>1. Tops(s, f, t) /\ s \in Seq(S)
  BY TopPlaces
<1> HIDE DEF s
<1>2. ASSUME NEW k \in 0 .. Len(t), NEW v, v \in Seq(S), Len(v) = Len(t) - k,
             \A j \in 1 .. Len(v) : v[j] = t[k + j]
      PROVE  Beneath(s, k + 1) = v
  <2> DEFINE n == Len(t)
             u == SubSeq(s, k + 1 + 1, Len(s))
  <2>1. n \in Nat /\ Len(s) = n + 1 /\ \A j \in 1 .. n : s[j + 1] = t[j]
    BY <1>1 DEF Tops
  <2> HIDE DEF n
  <2>2. u \in Seq(S) /\ Len(u) = n - k /\ \A j \in 1 .. n - k : u[j] = s[j + k + 1]
    BY <1>1, <1>2, <2>1 DEF n
  <2> HIDE DEF u
  <2>3. \A j \in 1 .. n - k : u[j] = v[j]
    <3> TAKE j \in 1 .. n - k
    <3>1. k + j \in 1 .. n /\ s[(k + j) + 1] = t[k + j] /\ j + k + 1 = (k + j) + 1
      BY <1>2, <2>1 DEF n
    <3>2. v[j] = t[k + j]
      BY <1>2 DEF n
    <3> QED
      BY <2>2, <3>1, <3>2
  <2>4. Len(u) = Len(v) /\ \A j \in 1 .. Len(u) : u[j] = v[j]
    BY <1>2, <2>1, <2>2, <2>3 DEF n
  <2>5. u = v
    BY <1>2, <2>2, <2>4, SeqEqual
  <2> QED
    BY <2>5 DEF Beneath, u
<1>3. Beneath(s, 1) = t
  <2>1. 0 \in 0 .. Len(t) /\ Len(t) = Len(t) - 0 /\ \A j \in 1 .. Len(t) : t[j] = t[0 + j]
    BY <1>1 DEF Tops
  <2>2. 0 + 1 = 1
    OBVIOUS
  <2> QED
    BY <1>2, <2>1, <2>2
<1>4. ASSUME NEW k \in 1 .. Len(t) PROVE Beneath(s, k + 1) = Beneath(t, k)
  <2> DEFINE v == SubSeq(t, k + 1, Len(t))
  <2>1. v \in Seq(S) /\ Len(v) = Len(t) - k /\ \A j \in 1 .. Len(v) : v[j] = t[k + j]
    BY <1>4
  <2>2. k \in 0 .. Len(t)
    BY <1>1 DEF Tops
  <2>3. Beneath(s, k + 1) = v
    BY <1>2, <2>1, <2>2
  <2> QED
    BY <2>3 DEF Beneath
<1> QED
  BY <1>3, <1>4 DEF s

LEMMA SpineCons ==
  ASSUME NEW S, NEW f \in S, NEW t \in Seq(S), NEW h
  PROVE  Spine(h, <<f>> \o t) <=> Fits(h, f, t) /\ Spine(h, t)
<1> DEFINE s == <<f>> \o t
<1>1. /\ Beneath(s, 1) = t
      /\ \A k \in 1 .. Len(t) : Beneath(s, k + 1) = Beneath(t, k)
  BY UnderTop
<1>2. Tops(s, f, t)
  BY TopPlaces
<1> HIDE DEF s
<1>3. 1 \in 1 .. Len(s) /\ \A k \in 1 .. Len(t) : k + 1 \in 1 .. Len(s) /\ s[k + 1] = t[k]
  BY <1>2 DEF Tops
<1>4. ASSUME Spine(h, s) PROVE Fits(h, f, t) /\ Spine(h, t)
  <2>1. Fits(h, s[1], Beneath(s, 1))
    BY <1>3, <1>4 DEF Spine
  <2>2. ASSUME NEW k \in 1 .. Len(t) PROVE Fits(h, t[k], Beneath(t, k))
    <3>1. Fits(h, s[k + 1], Beneath(s, k + 1))
      BY <1>3, <1>4 DEF Spine
    <3> QED
      BY <1>1, <1>3, <3>1
  <2> QED
    BY <1>1, <1>2, <2>1, <2>2 DEF Tops, Spine
<1>5. ASSUME Fits(h, f, t), Spine(h, t) PROVE Spine(h, s)
  <2>1. ASSUME NEW k \in 1 .. Len(s) PROVE Fits(h, s[k], Beneath(s, k))
    <3>1. CASE k = 1
      BY <1>1, <1>2, <1>5, <3>1 DEF Tops
    <3>2. CASE k # 1
      <4>1. PICK j \in 1 .. Len(t) : k = j + 1
        BY <1>2, <3>2 DEF Tops
      <4>2. Fits(h, t[j], Beneath(t, j))
        BY <1>5 DEF Spine
      <4> QED
        BY <1>1, <1>3, <4>1, <4>2
    <3> QED
      BY <3>1, <3>2
  <2> QED
    BY <2>1 DEF Spine
<1> QED
  BY <1>4, <1>5 DEF s


-----------------------------------------------------------------------------
(* While the program and the mark stay, what is said of a heap and a stack *)
(* is the same before and after a step.                                    *)
LEMMA DepthsStay ==
  ASSUME toks' = toks
  PROVE  /\ \A tags, n : Words(tags, n)' = Words(tags, n)
         /\ \A k : Parens(k)' = Parens(k) /\ Braces(k)' = Braces(k)
<1>1. \A open, close, k : Depth(open, close, k)' = Depth(open, close, k)
  BY DEF Depth
<1>2. \A tags, n : Words(tags, n)' = Words(tags, n)
  BY DEF Words
<1> QED
  BY <1>1, <1>2 DEF Parens, Braces

LEMMA NodesStay ==
  ASSUME toks' = toks, mark' = mark
  PROVE  /\ \A h, k : Over(h, k)' = Over(h, k)
         /\ \A h : Shown(h)' = Shown(h) /\ (Closed(h)' <=> Closed(h))
         /\ \A h, tags : Made(h, tags)' = Made(h, tags)
         /\ \A h, c, n, p : Bounded(h, c, n, p)' <=> Bounded(h, c, n, p)
         /\ \A h, i : WellPut(h, i)' <=> WellPut(h, i)
<1>1. \A h, k : Over(h, k)' = Over(h, k)
  BY DEF Over, Blocks
<1>2. \A h : Shown(h)' = Shown(h) /\ (Closed(h)' <=> Closed(h))
  BY DEF Shown, Closed, Encloses
<1>3. \A h, tags : Made(h, tags)' = Made(h, tags)
  BY DEF Made
<1>4. \A h, c, n, p : Bounded(h, c, n, p)' <=> Bounded(h, c, n, p)
  BY DepthsStay DEF Bounded
<1>5. \A h, i : WellPut(h, i)' <=> WellPut(h, i)
  BY DepthsStay, <1>4 DEF WellPut
<1> QED
  BY <1>1, <1>2, <1>3, <1>4, <1>5

(* So is all that Tells says. *)
LEMMA MeaningStays ==
  ASSUME toks' = toks, mark' = mark, NEW h, NEW s, NEW r, NEW n
  PROVE  Tells(h, s, r, n)' <=> Tells(h, s, r, n)
<1>1. \A f, t : Fits(h, f, t)' <=> Fits(h, f, t)
  BY DepthsStay, NodesStay DEF Fits
<1>2. Spine(h, s)' <=> Spine(h, s)
  BY <1>1 DEF Spine
<1>3. Holds(h, r, s)' <=> Holds(h, r, s)
  BY DepthsStay, NodesStay DEF Holds
<1>4. Sound(h, n)' <=> Sound(h, n)
  BY DepthsStay, NodesStay DEF Sound
<1>5. Said(h, s, n)' <=> Said(h, s, n)
  BY DepthsStay, NodesStay DEF Said
<1>6. Assigned(h, s, n)' <=> Assigned(h, s, n)
  BY DepthsStay DEF Assigned, Done
<1>7. Tallied(h, s, n)' <=> Tallied(h, s, n)
  BY DepthsStay, NodesStay DEF Tallied
<1>8. \A f : Poised(h, f, n)' <=> Poised(h, f, n)
  BY DEF Poised
<1> QED
  BY NodesStay, <1>2, <1>3, <1>4, <1>5, <1>6, <1>7, <1>8 DEF Tells, Placed

-----------------------------------------------------------------------------
(* Heaps that differ in one node p, which is new or a sequence that has    *)
(* grown.                                                                  *)
Changes(h, g, p) ==
  /\ Fresh(g, mark) = Fresh(h, mark) \union {p}
  /\ \A i \in Fresh(h, mark) \ {p} : g[i] = h[i] /\ p \notin Range(h[i].kids)
  /\ p \in Fresh(h, mark) => g[p].tok = h[p].tok /\ g[p].tag = h[p].tag

LEMMA FirstPlaces ==
  ASSUME NEW S, NEW s \in Seq(S), s # << >>
  PROVE  1 \in DOMAIN s /\ (Len(s) # 1 => 2 \in DOMAIN s)
<1> DEFINE n == Len(s)
<1>1. n \in Nat /\ n # 0 /\ DOMAIN s = 1 .. n
  OBVIOUS
<1> HIDE DEF n
<1>2. 1 \in 1 .. n /\ (n # 1 => 2 \in 1 .. n)
  BY <1>1
<1> QED
  BY <1>1, <1>2 DEF n

(* The other nodes mean what they meant. *)
LEMMA SpanSteady ==
  ASSUME NEW h, NEW g, NEW p, Closed(h), Changes(h, g, p), NEW i \in Fresh(h, mark) \ {p}
  PROVE  /\ g[i] = h[i] /\ i \in Fresh(g, mark) /\ Span(g, i) = Span(h, i)
         /\ Rank(g, i) = Rank(h, i)
         /\ \A n, q : Bounded(g, i, n, q) <=> Bounded(h, i, n, q)
         /\ \A a \in DOMAIN h[i].kids : h[i].kids[a] \in Fresh(h, mark) \ {p}
<1>1. g[i] = h[i] /\ i \in Fresh(g, mark)
  BY DEF Changes
<1>2. \A j \in h[i].ids : g[j].tok = h[j].tok
  BY DEF Closed, Encloses, Changes
<1>3. Span(g, i) = Span(h, i)
  BY <1>1, <1>2 DEF Span
<1>4. Rank(g, i) = Rank(h, i)
  BY <1>1 DEF Rank
<1>5. \A n, q : Bounded(g, i, n, q) <=> Bounded(h, i, n, q)
  BY <1>1, <1>4, Zenon DEF Bounded
<1>6. ASSUME NEW a \in DOMAIN h[i].kids PROVE h[i].kids[a] \in Fresh(h, mark) \ {p}
  <2>1. h[i].kids \in Seq(Fresh(h, mark)) /\ p \notin Range(h[i].kids)
    BY DEF Closed, Encloses, Changes
  <2> QED
    BY <2>1 DEF Range
<1> QED
  BY <1>1, <1>3, <1>4, <1>5, <1>6

LEMMA NodeSteady ==
  ASSUME NEW h, NEW g, NEW p, Closed(h), Changes(h, g, p), NEW i \in Fresh(h, mark) \ {p}
  PROVE  /\ InRow(h, h[i].kids) => InRow(g, g[i].kids)
         /\ h[i].kids # << >> /\ WellPut(h, i) => WellPut(g, i)
         /\ \A k : Assigns(h, i, k) => Assigns(g, i, k)
<1> DEFINE kids == h[i].kids
<1>1. g[i] = h[i] /\ Rank(g, i) = Rank(h, i) /\ kids \in Seq(Fresh(h, mark))
  BY SpanSteady DEF Closed, Encloses
<1>2. ASSUME NEW a \in DOMAIN kids
      PROVE  /\ Span(g, kids[a]) = Span(h, kids[a]) /\ g[kids[a]] = h[kids[a]]
             /\ \A n, q : Bounded(g, kids[a], n, q) <=> Bounded(h, kids[a], n, q)
  <2>1. kids[a] \in Fresh(h, mark) \ {p}
    BY SpanSteady
  <2> QED
    BY <2>1, SpanSteady
<1>3. kids # << >> => 1 \in DOMAIN kids /\ (Len(kids) # 1 => 2 \in DOMAIN kids)
  BY <1>1, FirstPlaces
<1> HIDE DEF kids
<1>4. InRow(h, kids) => InRow(g, kids)
  BY <1>2 DEF InRow
<1>5. kids # << >> /\ WellPut(h, i) => WellPut(g, i)
  <2> SUFFICES ASSUME kids # << >>, WellPut(h, i) PROVE WellPut(g, i)
    OBVIOUS
  <2>0. h[i].kids = kids /\ g[i].kids = kids /\ g[i].tok = h[i].tok
    BY <1>1 DEF kids
  <2>1. CASE Len(kids) = 1
    BY <1>1, <1>2, <1>3, <2>0, <2>1, Zenon DEF WellPut
  <2>2. CASE Len(kids) # 1
    BY <1>1, <1>2, <1>3, <2>0, <2>2, Zenon DEF WellPut
  <2> QED
    BY <2>1, <2>2
<1>6. ASSUME NEW k, Assigns(h, i, k) PROVE Assigns(g, i, k)
  <2>1. DOMAIN kids = 1 .. 2 /\ h[i].tag = "AsgnStmt" /\ h[kids[1]].tok = k - 1
        /\ Precedes({k}, Span(h, kids[2]))
    BY <1>6 DEF Assigns, kids
  <2>2. 1 \in DOMAIN kids /\ 2 \in DOMAIN kids
    BY <2>1
  <2>3. g[i].kids = kids /\ g[i].tag = "AsgnStmt"
    BY <1>1, <2>1 DEF kids
  <2>4. g[kids[1]].tok = k - 1 /\ Precedes({k}, Span(g, kids[2]))
    BY <1>2, <2>1, <2>2
  <2> QED
    BY <2>1, <2>3, <2>4 DEF Assigns
<1> QED
  BY <1>1, <1>4, <1>5, <1>6 DEF kids

LEMMA ShownChanges ==
  ASSUME NEW h, NEW g, NEW p, Changes(h, g, p)
  PROVE  Shown(g) = Shown(h) \union {g[p].tok}
BY DEF Shown, Changes

(* Blocks and branches are counted. *)
LEMMA OverSame ==
  ASSUME NEW h, NEW g, NEW p, Closed(h), Changes(h, g, p), g[p].tag # "BlockStmt"
  PROVE  \A k : Over(g, k) = Over(h, k)
<1>1. ASSUME NEW k PROVE Blocks(g, k) = Blocks(h, k)
  <2>1. \A i \in Fresh(h, mark) \ {p} : g[i] = h[i] /\ Span(g, i) = Span(h, i)
    BY SpanSteady
  <2> QED
    BY <2>1 DEF Blocks, Changes
<1> QED
  BY <1>1 DEF Over

LEMMA OverNew ==
  ASSUME NEW h, NEW g, NEW p, Closed(h), Changes(h, g, p), p \notin Fresh(h, mark),
         IsFiniteSet(Fresh(h, mark)), NEW k
  PROVE  /\ Over(h, k) \in Nat
         /\ Over(g, k) = Over(h, k) + (IF g[p].tag = "BlockStmt" /\ k \in Span(g, p) THEN 1 ELSE 0)
<1> DEFINE B == Blocks(h, k)
           new == g[p].tag = "BlockStmt" /\ k \in Span(g, p)
<1>1. IsFiniteSet(B) /\ Cardinality(B) \in Nat /\ p \notin B
  BY FS_Subset, FS_CardinalityType DEF Blocks
<1>2. Blocks(g, k) = B \union (IF new THEN {p} ELSE {})
  <2>1. \A i \in Fresh(h, mark) \ {p} : g[i] = h[i] /\ Span(g, i) = Span(h, i)
    BY SpanSteady
  <2> QED
    BY <2>1 DEF Blocks, Changes
<1>4. Over(h, k) = Cardinality(B) /\ Over(g, k) = Cardinality(B \union (IF new THEN {p} ELSE {}))
  BY <1>2 DEF Over
<1> HIDE DEF B
<1>3. Cardinality(B \union {p}) = Cardinality(B) + 1
  BY <1>1, FS_AddElement
<1>5. CASE new
  <2>1. Over(g, k) = Cardinality(B \union {p})
    BY <1>4, <1>5
  <2>2. Over(h, k) \in Nat /\ Over(g, k) = Over(h, k) + 1
    BY <1>1, <1>3, <1>4, <2>1
  <2> QED
    BY <1>5, <2>2
<1>6. CASE ~ new
  <2>1. Over(g, k) = Cardinality(B)
    BY <1>4, <1>6
  <2>2. Over(h, k) \in Nat /\ Over(g, k) = Over(h, k) + 0
    BY <1>1, <1>4, <2>1
  <2> QED
    BY <1>6, <2>2
<1> QED
  BY <1>5, <1>6

LEMMA MadeSame ==
  ASSUME NEW h, NEW g, NEW p, Changes(h, g, p), NEW tags,
         g[p].tag \in tags => p \in Fresh(h, mark)
  PROVE  Made(g, tags) = Made(h, tags)
BY DEF Made, Changes

LEMMA MadeNew ==
  ASSUME NEW h, NEW g, NEW p, Changes(h, g, p), NEW tags, g[p].tag \in tags,
         p \notin Fresh(h, mark), IsFiniteSet(Fresh(h, mark))
  PROVE  Cardinality(Made(g, tags)) = Cardinality(Made(h, tags)) + 1
<1> DEFINE M == Made(h, tags)
<1>1. IsFiniteSet(M) /\ p \notin M
  BY FS_Subset DEF Made
<1>2. Made(g, tags) = M \union {p}
  BY DEF Made, Changes
<1> HIDE DEF M
<1> QED
  BY <1>1, <1>2, FS_AddElement DEF M

LEMMA MadeCounted ==
  ASSUME NEW h, IsFiniteSet(Fresh(h, mark)), NEW tags
  PROVE  Cardinality(Made(h, tags)) \in Nat
<1>1. IsFiniteSet(Made(h, tags))
  BY FS_Subset DEF Made
<1> QED
  BY <1>1, FS_CardinalityType

(* The nodes keep sound when the one that changes is sound.                *)
LEMMA SoundChanges ==
  ASSUME NEW h, NEW g, NEW p, Closed(h), Changes(h, g, p), NEW n \in Nat, NEW m \in Nat, n <= m,
         Sound(h, n),
         Encloses(g, p),
         g[p].tok # 0 => g[p].tok \in Words(Operand, m) /\ g[p].tok \notin Shown(h),
         InRow(g, g[p].kids),
         g[p].tok # 0 /\ g[p].kids # << >> => WellPut(g, p)
  PROVE  Closed(g) /\ Sound(g, m)
<1>1. Fresh(g, mark) = Fresh(h, mark) \union {p}
  BY DEF Changes
<1>2. ASSUME NEW i \in Fresh(g, mark), i # p PROVE i \in Fresh(h, mark) \ {p} /\ g[i] = h[i]
  BY <1>1, <1>2 DEF Changes
<1>3. ASSUME NEW i \in Fresh(g, mark) PROVE Encloses(g, i)
  <2>1. CASE i = p
    BY <2>1
  <2>2. CASE i # p
    <3>1. /\ i \in h[i].ids /\ h[i].ids \subseteq Fresh(h, mark) /\ h[i].kids \in Seq(Fresh(h, mark))
          /\ \A a \in DOMAIN h[i].kids : h[h[i].kids[a]].ids \subseteq h[i].ids
      BY <1>2, <2>2 DEF Closed, Encloses
    <3>2. h[i].kids \in Seq(Fresh(g, mark))
      BY <1>1, <3>1, SeqOfMore
    <3>3. \A a \in DOMAIN h[i].kids : g[h[i].kids[a]] = h[h[i].kids[a]]
      BY <1>2, <2>2, SpanSteady
    <3> QED
      BY <1>1, <1>2, <2>2, <3>1, <3>2, <3>3 DEF Encloses
  <2> QED
    BY <2>1, <2>2
<1>4. Words(Operand, n) \subseteq Words(Operand, m)
  BY DEF Words
<1>5. \A i, j \in Fresh(h, mark) : h[i].tok # 0 /\ h[j].tok = h[i].tok => i = j
  BY DEF Sound
<1>6. ASSUME NEW i \in Fresh(g, mark)
      PROVE  /\ g[i].tok # 0 => g[i].tok \in Words(Operand, m)
             /\ \A j \in Fresh(g, mark) : g[i].tok # 0 /\ g[j].tok = g[i].tok => i = j
             /\ InRow(g, g[i].kids)
             /\ g[i].tok # 0 /\ g[i].kids # << >> => WellPut(g, i)
  <2>1. ASSUME NEW j \in Fresh(g, mark), g[i].tok # 0, g[j].tok = g[i].tok PROVE i = j
    <3>1. CASE i # p /\ j # p
      BY <1>2, <1>5, <2>1, <3>1
    <3>2. ASSUME NEW a \in Fresh(g, mark), a # p PROVE g[a].tok \in Shown(h)
      BY <1>2, <3>2 DEF Shown
    <3> QED
      BY <2>1, <3>1, <3>2
  <2>2. CASE i = p
    BY <2>1, <2>2
  <2>3. CASE i # p
    <3>1. i \in Fresh(h, mark) \ {p} /\ g[i] = h[i]
      BY <1>2, <2>3
    <3>2. /\ h[i].tok # 0 => h[i].tok \in Words(Operand, n)
          /\ InRow(h, h[i].kids)
          /\ h[i].tok # 0 /\ h[i].kids # << >> => WellPut(h, i)
      BY <3>1 DEF Sound
    <3> QED
      BY <1>4, <2>1, <3>1, <3>2, NodeSteady
  <2> QED
    BY <2>2, <2>3
<1> QED
  BY <1>3, <1>6 DEF Closed, Sound

LEMMA SoundLater ==
  ASSUME NEW h, NEW n \in Nat, NEW m \in Nat, n <= m, Sound(h, n)
  PROVE  Sound(h, m)
<1>1. Words(Operand, n) \subseteq Words(Operand, m)
  BY DEF Words
<1> QED
  BY <1>1 DEF Sound

-----------------------------------------------------------------------------
(* The rules below the running one. *)

(* None of the rules t holds the node p. *)
Untouched(h, t, p) ==
  \A k \in DOMAIN t : \A a \in DOMAIN t[k].held : t[k].held[a] \in Fresh(h, mark) \ {p}

LEMMA BeneathParts ==
  ASSUME NEW S, NEW t \in Seq(S), NEW k \in 1 .. Len(t)
  PROVE  /\ Beneath(t, k) \in Seq(S)
         /\ \A j \in DOMAIN Beneath(t, k) : \E i \in DOMAIN t : Beneath(t, k)[j] = t[i]
<1> DEFINE n == Len(t)
           u == SubSeq(t, k + 1, n)
<1>1. n \in Nat /\ k \in 1 .. n /\ DOMAIN t = 1 .. n
  OBVIOUS
<1>2. u \in Seq(S) /\ DOMAIN u = 1 .. n - k /\ \A j \in 1 .. n - k : u[j] = t[j + k]
  OBVIOUS
<1> HIDE DEF n
<1> HIDE DEF u
<1>3. ASSUME NEW j \in DOMAIN u PROVE \E i \in DOMAIN t : u[j] = t[i]
  <2>1. j + k \in 1 .. n /\ j \in 1 .. n - k
    BY <1>1, <1>2, <1>3
  <2> QED
    BY <1>1, <1>2, <2>1
<1> QED
  BY <1>2, <1>3 DEF Beneath, u, n

(* What rule f holds is what it was. *)
LEMMA ReachSteady ==
  ASSUME NEW h, NEW g, NEW p, Closed(h), Changes(h, g, p), NEW f,
         \A a \in DOMAIN f.held : f.held[a] \in Fresh(h, mark) \ {p}
  PROVE  /\ Spans(g, f.held) = Spans(h, f.held) /\ Reach(g, f) = Reach(h, f)
         /\ InRow(h, f.held) => InRow(g, f.held)
<1>1. \A a \in DOMAIN f.held : Span(g, f.held[a]) = Span(h, f.held[a])
  BY SpanSteady
<1>2. Spans(g, f.held) = Spans(h, f.held)
  BY <1>1 DEF Spans
<1> QED
  BY <1>1, <1>2 DEF Reach, InRow

LEMMA ReachesSteady ==
  ASSUME NEW h, NEW g, NEW p, Closed(h), Changes(h, g, p), NEW t, Untouched(h, t, p)
  PROVE  Reaches(g, t) = Reaches(h, t)
<1>1. \A k \in DOMAIN t : Reach(g, t[k]) = Reach(h, t[k])
  BY ReachSteady DEF Untouched
<1> QED
  BY <1>1 DEF Reaches

LEMMA FitsSteady ==
  ASSUME NEW h, NEW g, NEW p, Closed(h), Changes(h, g, p), NEW f \in Frames,
         \A a \in DOMAIN f.held : f.held[a] \in Fresh(h, mark) \ {p},
         NEW t, Untouched(h, t, p), g[p].tok \notin Marks(f),
         \A k \in Reach(h, f) : Over(g, k) = Over(h, k),
         Fits(h, f, t)
  PROVE  Fits(g, f, t)
<1>1. Reaches(g, t) = Reaches(h, t)
  BY ReachesSteady
<1>2. /\ Spans(g, f.held) = Spans(h, f.held) /\ Reach(g, f) = Reach(h, f)
      /\ InRow(h, f.held) => InRow(g, f.held)
  BY ReachSteady
<1>3. InRow(g, f.held) /\ Precedes(Reaches(g, t), Reach(g, f))
      /\ Precedes(Spans(g, f.held), Marks(f))
  BY <1>1, <1>2 DEF Fits
<1>4. \A k \in Reach(g, f) : Braces(k) = Over(g, k) + Count("block", t) + Weigh("block", f)
  BY <1>2 DEF Fits
<1>5. Pends(f) => Parens(f.tok) = Count("paren", t) /\ f.tok \notin Shown(g)
  BY ShownChanges DEF Fits, Marks
<1>6. f.rule = "Opd" /\ f.at \in {"rhs", "loop"} =>
        Bounded(g, f.held[1], Lower(f), Count("paren", t))
  <2> SUFFICES ASSUME f.rule = "Opd", f.at \in {"rhs", "loop"}
               PROVE  Bounded(g, f.held[1], Lower(f), Count("paren", t))
    OBVIOUS
  <2>1. f.held \in Seq(Nat) /\ f.held # << >>
    BY DEF Frames, EmptyHanded
  <2>2. f.held[1] \in Fresh(h, mark) \ {p}
    BY <2>1, FirstPlaces
  <2>3. Bounded(h, f.held[1], Lower(f), Count("paren", t))
    BY DEF Fits
  <2> QED
    BY <2>2, <2>3, SpanSteady
<1>7. f.rule \in {"Block", "Prog"} =>
        \A a \in DOMAIN f.held : g[f.held[a]].tag \in {"Seq", "Prog"} /\ g[f.held[a]].tok = 0
  <2>1. \A a \in DOMAIN f.held : g[f.held[a]] = h[f.held[a]]
    BY SpanSteady
  <2> QED
    BY <2>1 DEF Fits
<1> QED
  BY <1>3, <1>4, <1>5, <1>6, <1>7 DEF Fits

LEMMA SpineSteady ==
  ASSUME NEW h, NEW g, NEW p, Closed(h), Changes(h, g, p),
         NEW t \in Seq(Frames), Untouched(h, t, p), g[p].tok \notin Marked(t),
         \A k \in Reaches(h, t) : Over(g, k) = Over(h, k),
         Spine(h, t)
  PROVE  Spine(g, t)
<1>1. ASSUME NEW k \in 1 .. Len(t) PROVE Fits(g, t[k], Beneath(t, k))
  <2> DEFINE f == t[k]
             u == Beneath(t, k)
  <2>1. k \in DOMAIN t /\ f \in Frames
    OBVIOUS
  <2>2. Fits(h, f, u)
    BY DEF Spine
  <2>3. Untouched(h, u, p)
    BY BeneathParts DEF Untouched
  <2>4. Reach(h, f) \subseteq Reaches(h, t) /\ Marks(f) \subseteq Marked(t)
    BY <2>1 DEF Reaches, Marked
  <2>5. \A a \in DOMAIN f.held : f.held[a] \in Fresh(h, mark) \ {p}
    BY <2>1 DEF Untouched
  <2> HIDE DEF f, u
  <2>6. Fits(g, f, u)
    BY <2>1, <2>2, <2>3, <2>4, <2>5, FitsSteady
  <2> QED
    BY <2>6 DEF f, u
<1> QED
  BY <1>1 DEF Spine

-----------------------------------------------------------------------------
(* A node more. *)

(* The tokens of one tree more. *)
LEMMA SpansAppend ==
  ASSUME NEW S, NEW hs \in Seq(S), NEW r \in S, NEW h
  PROVE  /\ Spans(h, Append(hs, r)) = Spans(h, hs) \union Span(h, r)
         /\ InRow(h, hs) /\ Precedes(Spans(h, hs), Span(h, r)) => InRow(h, Append(hs, r))
<1> DEFINE a == Append(hs, r)
           n == Len(hs) + 1
<1>1. /\ DOMAIN a = DOMAIN hs \union {n} /\ n \notin DOMAIN hs /\ a[n] = r
      /\ \A j \in DOMAIN hs : a[j] = hs[j] /\ j < n
  <2>1. \A j \in DOMAIN hs : j < n
    OBVIOUS
  <2> QED
    BY <2>1, AppendParts
<1>0. \A j \in DOMAIN hs : j \in Nat
  OBVIOUS
<1>5. n \in Nat
  OBVIOUS
<1> HIDE DEF a, n
<1>2. Spans(h, a) = Spans(h, hs) \union Span(h, r)
  <2>1. ASSUME NEW x \in Spans(h, a) PROVE x \in Spans(h, hs) \union Span(h, r)
    <3>1. PICK j \in DOMAIN a : x \in Span(h, a[j])
      BY <2>1 DEF Spans
    <3> QED
      BY <1>1, <3>1 DEF Spans
  <2>2. \A x : x \in Spans(h, hs) \union Span(h, r) => x \in Spans(h, a)
    BY <1>1 DEF Spans
  <2> QED
    BY <2>1, <2>2
<1>3. ASSUME InRow(h, hs), Precedes(Spans(h, hs), Span(h, r)) PROVE InRow(h, a)
  <2> SUFFICES ASSUME NEW b \in DOMAIN a, NEW c \in DOMAIN a, b < c
               PROVE  Precedes(Span(h, a[b]), Span(h, a[c]))
    BY DEF InRow
  <2>1. b \in DOMAIN hs
    BY <1>0, <1>1, <1>5
  <2>2. CASE c \in DOMAIN hs
    BY <1>1, <1>3, <2>1, <2>2 DEF InRow
  <2>3. CASE c = n
    <3>1. Span(h, a[b]) \subseteq Spans(h, hs)
      BY <1>1, <2>1 DEF Spans
    <3> QED
      BY <1>1, <1>3, <2>3, <3>1 DEF Precedes
  <2> QED
    BY <1>1, <2>2, <2>3
<1> QED
  BY <1>2, <1>3 DEF a

LEMMA SpansOne == \A h, r : Spans(h, <<r>>) = Span(h, r) /\ InRow(h, <<r>>)
<1>1. \A r : DOMAIN <<r>> = {1} /\ <<r>>[1] = r
  OBVIOUS
<1>2. \A h, r : Spans(h, <<r>>) = Span(h, r)
  BY <1>1 DEF Spans
<1>3. \A h, r : InRow(h, <<r>>)
  BY <1>1 DEF InRow
<1> QED
  BY <1>2, <1>3

LEMMA SpansNone == \A h : Spans(h, << >>) = {} /\ InRow(h, << >>)
BY DEF Spans, InRow

-----------------------------------------------------------------------------
(* The running rule. *)

Telling ==
  /\ OInv /\ pc = "run" /\ stack # << >> /\ ~ Failed /\ ~ astray
  /\ Tells(heap, stack, res, off)

(* The nodes hs in the hands of a rule called by the rules t, of which the *)
(* first o tokens have been read; b blocks are begun.                      *)
Bears(h, hs, t, o, b) ==
  /\ Spine(h, t) /\ Reaches(h, t) \subseteq 1 .. o
  /\ Closed(h) /\ Sound(h, o)
  /\ InRow(h, hs) /\ Precedes(Reaches(h, t), Spans(h, hs)) /\ Spans(h, hs) \subseteq 1 .. o
  /\ \A k \in Spans(h, hs) : Braces(k) = Over(h, k) + Count("block", t) + b

(* The operator of token k, read by a rule that the rules t called.        *)
Opens(h, k, t, o) ==
  /\ k \in 1 .. o /\ k \notin Marked(t) /\ k \notin Shown(h)
  /\ Precedes(Reaches(h, t), {k})
  /\ Braces(k) = Over(h, k) + Count("block", t)
  /\ Parens(k) = Count("paren", t)

LEMMA MarkedReached == \A h, t : Marked(t) \subseteq Reaches(h, t)
BY DEF Marked, Reaches, Reach

LEMMA TellingParts ==
  ASSUME Telling
  PROVE  /\ stack \in Seq(Frames) /\ Top \in Frames /\ Tail(stack) \in Seq(Frames)
         /\ stack = <<Top>> \o Tail(stack)
         /\ off \in Nat /\ next \in Nat /\ IsFiniteSet(Fresh(heap, mark))
         /\ next \notin DOMAIN heap /\ next >= mark /\ mark \in Nat
         /\ Top.held \in Seq(Nat) /\ res \in Nat
         /\ Waiting(stack) <=> Top.at \in WaitLabel
         /\ Returned <=> Top.at \in WaitLabel
<1>1. /\ stack \in Seq(Frames) /\ Top \in Frames /\ off \in Nat /\ next \in Nat
      /\ TypeOK
  BY RunningStack DEF Telling, OInv, TInv, Running, IInv, Typed
<1>2. Tail(stack) \in Seq(Frames)
  BY <1>1 DEF Telling
<1>3. stack = <<Top>> \o Tail(stack) /\ Top.held \in Seq(Nat) /\ res \in Nat
  BY StackParts DEF Telling
<1>4. DOMAIN heap \subseteq 1 .. next - 1 /\ mark \in 1 .. next
  BY <1>1 DEF TypeOK
<1>5. IsFiniteSet(Fresh(heap, mark))
  <2>1. IsFiniteSet(1 .. next - 1) /\ Fresh(heap, mark) \subseteq 1 .. next - 1
    BY <1>1, <1>4, FS_Interval DEF Fresh
  <2> QED
    BY <2>1, FS_Subset
<1>6. next \notin DOMAIN heap /\ next >= mark /\ mark \in Nat
  BY <1>1, <1>4
<1>7. /\ Waiting(stack) <=> Top.at \in WaitLabel
      /\ Returned <=> Top.at \in WaitLabel
  BY DEF Telling, Waiting, Returned, Top
<1> QED
  BY <1>1, <1>2, <1>3, <1>5, <1>6, <1>7

(* What the rules below hold is none of what is in hand, nor new. *)
LEMMA BelowUntouched ==
  ASSUME Telling, NEW p, p \in Owns(heap, Hands) \/ p \notin DOMAIN heap
  PROVE  Untouched(heap, Tail(stack), p)
<1> DEFINE t == Tail(stack)
<1>1. AllApart(heap, t, mark) /\ Owns(heap, Hands) \cap Trees(heap, t) = {}
  BY InHand DEF Telling, Others
<1> HIDE DEF t
<1>2. ASSUME NEW k \in DOMAIN t, NEW a \in DOMAIN t[k].held
      PROVE  t[k].held[a] \in Fresh(heap, mark) \ {p}
  <2> DEFINE i == t[k].held[a]
  <2>1. Apart(heap, t[k].held, mark)
    BY <1>1 DEF AllApart
  <2>2. i \in DOMAIN heap /\ i \in heap[i].ids /\ \A j \in heap[i].ids : j >= mark
    BY <2>1 DEF Apart, Shaped
  <2>3. i \in Owns(heap, t[k].held)
    BY <2>2 DEF Owns
  <2>4. i \in Trees(heap, t)
    BY <2>3 DEF Trees
  <2> QED
    BY <1>1, <2>2, <2>4 DEF Fresh
<1> QED
  BY <1>2 DEF Untouched, t

LEMMA HandsAreFresh ==
  ASSUME Telling
  PROVE  /\ \A a \in DOMAIN Hands : Hands[a] \in Fresh(heap, mark) /\ Hands[a] \in Owns(heap, Hands)
         /\ Hands \in Seq(Nat) /\ Hands \in Seq(Fresh(heap, mark))
<1>1. Apart(heap, Hands, mark)
  BY InHand DEF Telling
<1>2. ASSUME NEW a \in DOMAIN Hands
      PROVE  Hands[a] \in Fresh(heap, mark) /\ Hands[a] \in Owns(heap, Hands)
  BY <1>1 DEF Apart, Shaped, Fresh, Owns
<1>3. Hands \in Seq(Nat)
  BY TellingParts, AppendLonger DEF Hands
<1>4. Hands \in Seq(Fresh(heap, mark))
  <2> DEFINE hs == Hands
             F == Fresh(heap, mark)
  <2>1. hs \in Seq(Nat) /\ \A a \in DOMAIN hs : hs[a] \in F
    BY <1>2, <1>3
  <2> HIDE DEF hs, F
  <2>2. hs \in Seq(F)
    BY <2>1
  <2> QED
    BY <2>2 DEF hs, F
<1> QED
  BY <1>2, <1>3, <1>4

(* What a telling state says of the nodes in the running rule's hands. *)
LEMMA HandsBear ==
  ASSUME Telling
  PROVE  /\ Fits(heap, Top, Tail(stack))
         /\ Bears(heap, Hands, Tail(stack), off, Weigh("block", Top))
         /\ Pends(Top) =>
              /\ Opens(heap, Top.tok, Tail(stack), off)
              /\ Precedes(Spans(heap, Top.held), {Top.tok})
              /\ Precedes({Top.tok}, Span(heap, res))
<1> DEFINE t == Tail(stack)
           f == Top
           held == f.held
<1>1. /\ f \in Frames /\ t \in Seq(Frames) /\ stack = <<f>> \o t /\ off \in Nat
      /\ held \in Seq(Nat) /\ res \in Nat
      /\ Waiting(stack) <=> f.at \in WaitLabel
      /\ Returned <=> f.at \in WaitLabel
  BY TellingParts
<1>2. Fits(heap, f, t) /\ Spine(heap, t)
  <2>1. Spine(heap, <<f>> \o t)
    BY <1>1 DEF Telling, Tells, Placed
  <2> HIDE DEF f, t
  <2> QED
    BY <1>1, <2>1, SpineCons
<1>3. /\ Reaches(heap, stack) = Reach(heap, f) \union Reaches(heap, t)
      /\ Count("block", stack) = Count("block", t) + Weigh("block", f)
      /\ Count("block", t) \in Nat /\ Weigh("block", f) \in {0, 1}
  <2> HIDE DEF f, t
  <2> QED
    BY <1>1, ReachesCons, CountCons
<1>4. Reaches(heap, stack) \subseteq 1 .. off /\ Closed(heap) /\ Sound(heap, off)
  BY DEF Telling, Tells, Placed
<1>5. f.at \in WaitLabel => Holds(heap, res, stack) /\ Span(heap, res) \subseteq 1 .. off
  BY <1>1 DEF Telling, Tells, Placed
<1>6. /\ InRow(heap, held) /\ Precedes(Reaches(heap, t), Reach(heap, f))
      /\ Spans(heap, held) \subseteq Reach(heap, f) /\ Marks(f) \subseteq Reach(heap, f)
      /\ \A k \in Reach(heap, f) :
           Braces(k) = Over(heap, k) + Count("block", t) + Weigh("block", f)
  BY <1>2 DEF Fits, Reach
<1>7. f.at \in WaitLabel =>
        /\ Precedes(Reaches(heap, t), Span(heap, res)) /\ Precedes(Reach(heap, f), Span(heap, res))
        /\ \A k \in Span(heap, res) : Braces(k) = Over(heap, k) + Count("block", stack)
  BY <1>3, <1>5 DEF Holds, Precedes
<1>8. Bears(heap, Hands, t, off, Weigh("block", f))
  <2>1. CASE f.at \notin WaitLabel
    <3>1. Hands = held
      BY <1>1, <2>1 DEF Hands
    <3>2. Precedes(Reaches(heap, t), Spans(heap, held))
      BY <1>6 DEF Precedes
    <3> HIDE DEF f, t
    <3> QED
      BY <1>2, <1>3, <1>4, <1>6, <3>1, <3>2 DEF Bears
  <2>2. CASE f.at \in WaitLabel
    <3>1. Hands = Append(held, res)
      BY <1>1, <2>2 DEF Hands, Telling
    <3>2. Spans(heap, Hands) = Spans(heap, held) \union Span(heap, res)
      BY <1>1, <3>1, SpansAppend
    <3>3. InRow(heap, Hands)
      <4>1. Precedes(Spans(heap, held), Span(heap, res))
        BY <1>6, <1>7, <2>2 DEF Precedes
      <4> QED
        BY <1>1, <1>6, <3>1, <4>1, SpansAppend
    <3>4. Precedes(Reaches(heap, t), Spans(heap, Hands))
      BY <1>6, <1>7, <2>2, <3>2 DEF Precedes
    <3>5. Spans(heap, Hands) \subseteq 1 .. off
      BY <1>3, <1>4, <1>5, <1>6, <2>2, <3>2
    <3>6. ASSUME NEW k \in Spans(heap, Hands)
          PROVE  Braces(k) = Over(heap, k) + Count("block", t) + Weigh("block", f)
      <4>1. CASE k \in Spans(heap, held)
        BY <1>6, <4>1
      <4>2. CASE k \in Span(heap, res)
        <5>1. Braces(k) = Over(heap, k) + Count("block", stack)
          BY <1>7, <2>2, <4>2
        <5>2. Over(heap, k) \in Nat
          <6>1. IsFiniteSet(Blocks(heap, k))
            BY TellingParts, FS_Subset DEF Blocks
          <6> QED
            BY <6>1, FS_CardinalityType DEF Over
        <5> HIDE DEF f, t
        <5> QED
          BY <1>3, <5>1, <5>2
      <4> QED
        BY <3>2, <4>1, <4>2
    <3> HIDE DEF f, t
    <3> QED
      BY <1>2, <1>3, <1>4, <3>3, <3>4, <3>5, <3>6 DEF Bears
  <2> QED
    BY <2>1, <2>2
<1>9. ASSUME Pends(f)
      PROVE  /\ Opens(heap, f.tok, t, off)
             /\ Precedes(Spans(heap, held), {f.tok})
             /\ Precedes({f.tok}, Span(heap, res))
  <2>1. Marks(f) = {f.tok} /\ f.at \in WaitLabel /\ f.rule = "Opd"
    BY <1>9 DEF Marks, Pends, WaitLabel
  <2>2. f.tok \in 1 .. off
    BY <1>3, <1>4, <1>6, <2>1
  <2>3. Precedes(Reaches(heap, t), {f.tok})
    BY <1>6, <2>1 DEF Precedes
  <2>4. f.tok \notin Marked(t)
    BY <2>2, <2>3, MarkedReached DEF Precedes
  <2>5. Parens(f.tok) = Count("paren", t) /\ f.tok \notin Shown(heap)
        /\ Precedes(Spans(heap, held), {f.tok})
    BY <1>2, <1>9, <2>1 DEF Fits
  <2>6. Weigh("block", f) = 0
    BY <2>1 DEF Weigh, Begun
  <2>7. Braces(f.tok) = Over(heap, f.tok) + Count("block", t)
    <3>1. Braces(f.tok) = Over(heap, f.tok) + Count("block", t) + Weigh("block", f)
      BY <1>6, <2>1
    <3>2. Over(heap, f.tok) \in Nat
      <4>1. IsFiniteSet(Blocks(heap, f.tok))
        BY TellingParts, FS_Subset DEF Blocks
      <4> QED
        BY <4>1, FS_CardinalityType DEF Over
    <3> HIDE DEF f, t
    <3> QED
      BY <1>3, <2>6, <3>1, <3>2
  <2>8. Precedes({f.tok}, Span(heap, res))
    BY <1>6, <1>7, <2>1 DEF Precedes
  <2> QED
    BY <2>2, <2>3, <2>4, <2>5, <2>7, <2>8 DEF Opens
<1> QED
  BY <1>2, <1>8, <1>9

-----------------------------------------------------------------------------
(* What each use of the memory does to the trees. *)

LEMMA NewChanges ==
  ASSUME Telling, NEW tag, NEW tok, Allocates(Object(tag, tok, Hands))
  PROVE  /\ Changes(heap, heap', next) /\ Encloses(heap', next)
         /\ next \notin Fresh(heap, mark) /\ next \in Fresh(heap', mark)
         /\ heap'[next].tag = tag /\ heap'[next].tok = tok /\ heap'[next].kids = Hands
         /\ Span(heap', next) = Spans(heap, Hands) \union ({tok} \ {0})
<1> DEFINE hs == Hands
           F == Fresh(heap, mark)
           G == Fresh(heap', mark)
           ids == {next} \union UNION {TreeOf(hs[k]) : k \in DOMAIN hs}
<1>1. next \notin DOMAIN heap /\ next >= mark /\ Closed(heap)
  BY TellingParts DEF Telling, Tells, Placed
<1>2. \A a \in DOMAIN hs : hs[a] \in F /\ hs \in Seq(F)
  BY HandsAreFresh
<1>3. /\ DOMAIN heap' = DOMAIN heap \union {next}
      /\ \A i \in DOMAIN heap : heap'[i] = heap[i]
      /\ heap'[next].tag = tag /\ heap'[next].tok = tok /\ heap'[next].kids = hs
      /\ heap'[next].ids = ids
  BY <1>1 DEF Allocates, Object
<1>4. G = F \union {next} /\ next \notin F /\ F \subseteq DOMAIN heap
  BY <1>1, <1>3 DEF Fresh
<1>5. \A a \in DOMAIN hs : TreeOf(hs[a]) = heap[hs[a]].ids /\ heap[hs[a]].ids \subseteq F
  BY <1>1, <1>2, <1>4 DEF TreeOf, Closed, Encloses
<1>6. ASSUME NEW i \in F PROVE heap'[i] = heap[i] /\ next \notin Range(heap[i].kids)
  <2>1. heap[i].kids \in Seq(F)
    BY <1>1, <1>6 DEF Closed, Encloses
  <2> HIDE DEF F
  <2>2. Range(heap[i].kids) \subseteq F
    BY <2>1 DEF Range
  <2> QED
    BY <1>3, <1>4, <1>6, <2>2
<1>7. Changes(heap, heap', next)
  BY <1>4, <1>6 DEF Changes
<1>8. Encloses(heap', next)
  <2>1. next \in ids /\ ids \subseteq G
    BY <1>4, <1>5
  <2>2. hs \in Seq(G)
    <3>0. hs \in Seq(F)
      BY HandsAreFresh
    <3>1. F \subseteq G
      BY <1>4
    <3> HIDE DEF F, G, hs
    <3> QED
      BY <3>0, <3>1, SeqOfMore
  <2>3. \A a \in DOMAIN hs : heap'[hs[a]].ids \subseteq ids
    BY <1>2, <1>5, <1>6
  <2> QED
    BY <1>3, <2>1, <2>2, <2>3 DEF Encloses
<1>9. Span(heap', next) = Spans(heap, hs) \union ({tok} \ {0})
  <2>1. ids = {next} \union UNION {heap[hs[a]].ids : a \in DOMAIN hs}
    BY <1>5
  <2>2. \A a \in DOMAIN hs : \A j \in heap[hs[a]].ids : heap'[j].tok = heap[j].tok
    BY <1>5, <1>6
  <2>3. ASSUME NEW x \in Span(heap', next) PROVE x \in Spans(heap, hs) \union ({tok} \ {0})
    <3>1. PICK j \in ids : x = heap'[j].tok /\ x # 0
      BY <1>3, <2>3 DEF Span
    <3>2. CASE j = next
      BY <1>3, <3>1, <3>2
    <3>3. CASE j # next
      <4>1. PICK a \in DOMAIN hs : j \in heap[hs[a]].ids
        BY <2>1, <3>1, <3>3
      <4>2. x \in Span(heap, hs[a])
        BY <2>2, <3>1, <4>1 DEF Span
      <4> QED
        BY <4>2 DEF Spans
    <3> QED
      BY <3>2, <3>3
  <2>4. ASSUME NEW x \in Spans(heap, hs) PROVE x \in Span(heap', next)
    <3>1. PICK a \in DOMAIN hs : x \in Span(heap, hs[a])
      BY <2>4 DEF Spans
    <3>2. PICK j \in heap[hs[a]].ids : x = heap[j].tok /\ x # 0
      BY <3>1 DEF Span
    <3>3. j \in ids
      BY <2>1, <3>2
    <3> QED
      BY <1>3, <2>2, <3>2, <3>3 DEF Span
  <2>5. tok # 0 => tok \in Span(heap', next)
    BY <1>3 DEF Span
  <2> HIDE DEF hs
  <2> QED
    BY <2>3, <2>4, <2>5
<1> QED
  BY <1>3, <1>4, <1>7, <1>8, <1>9

(* The sequence in hand is nobody's child. *)
LEMMA RootNotKid ==
  ASSUME Telling, NEW a \in DOMAIN Hands, NEW i \in Fresh(heap, mark)
  PROVE  Hands[a] \notin Range(heap[i].kids)
<1> DEFINE s == Hands[a]
           t == Tail(stack)
<1>1. /\ Apart(heap, Hands, mark) /\ AllApart(heap, t, mark)
      /\ Owns(heap, Hands) \cap Trees(heap, t) = {}
      /\ Fresh(heap, mark) \subseteq Owns(heap, Hands) \union Trees(heap, t)
  BY InHand DEF Telling, Others
<1>2. Shaped(heap, s) /\ s \in heap[s].ids /\ s \in Owns(heap, Hands)
  <2>1. Shaped(heap, s)
    BY <1>1 DEF Apart
  <2>2. s \in heap[s].ids
    BY <2>1 DEF Shaped
  <2> QED
    BY <2>1, <2>2 DEF Owns
<1> HIDE DEF t
<1>3. CASE i \in Owns(heap, Hands)
  <2>1. PICK b \in DOMAIN Hands : i \in heap[Hands[b]].ids
    BY <1>3 DEF Owns
  <2>2. Range(heap[i].kids) \subseteq heap[Hands[b]].ids \ {Hands[b]}
    BY <1>1, <2>1 DEF Apart, Shaped
  <2>3. CASE a = b
    BY <2>2, <2>3
  <2>4. CASE a # b
    <3>1. heap[s].ids \cap heap[Hands[b]].ids = {}
      BY <1>1, <2>4 DEF Apart
    <3> QED
      BY <1>2, <2>2, <3>1
  <2> QED
    BY <2>3, <2>4
<1>4. CASE i \in Trees(heap, t)
  <2>1. PICK k \in DOMAIN t : i \in Owns(heap, t[k].held)
    BY <1>4 DEF Trees
  <2>2. PICK b \in DOMAIN t[k].held : i \in heap[t[k].held[b]].ids
    BY <2>1 DEF Owns
  <2>3. Shaped(heap, t[k].held[b])
    BY <1>1 DEF AllApart, Apart
  <2>4. Range(heap[i].kids) \subseteq heap[t[k].held[b]].ids
    BY <2>2, <2>3 DEF Shaped
  <2>5. heap[t[k].held[b]].ids \subseteq Trees(heap, t)
    BY DEF Trees, Owns
  <2> QED
    BY <1>1, <1>2, <2>4, <2>5
<1> QED
  BY <1>1, <1>3, <1>4

LEMMA PushChanges ==
  ASSUME Telling, NEW s, NEW r, Hands = <<s, r>>, Pushes(s, r), heap[s].tok = 0
  PROVE  /\ Changes(heap, heap', s) /\ Encloses(heap', s)
         /\ s \in Fresh(heap, mark) /\ s \in Owns(heap, Hands)
         /\ heap'[s].tag = heap[s].tag /\ heap'[s].tok = 0
         /\ Span(heap', s) = Span(heap, s) \union Span(heap, r)
         /\ heap'[s].kids = Append(heap[s].kids, r) /\ heap[s].kids \in Seq(Fresh(heap, mark))
         /\ r \in Fresh(heap, mark) \ {s}
         /\ s \notin Range(heap[s].kids)
<1> DEFINE F == Fresh(heap, mark)
<1>1. /\ DOMAIN Hands = {1, 2} /\ Hands[1] = s /\ Hands[2] = r
  OBVIOUS
<1>2. s \in F /\ r \in F /\ s \in Owns(heap, Hands) /\ Closed(heap)
  BY <1>1, HandsAreFresh DEF Telling, Tells, Placed
<1>3. heap[s].ids \cap heap[r].ids = {} /\ s # r
  <2>1. Apart(heap, Hands, mark)
    BY InHand DEF Telling
  <2>2. heap[s].ids \cap heap[r].ids = {}
    BY <1>1, <2>1 DEF Apart
  <2>3. s \in heap[s].ids /\ r \in heap[r].ids
    BY <1>2 DEF Closed, Encloses
  <2> QED
    BY <2>2, <2>3
<1>4. F \subseteq DOMAIN heap
  BY DEF Fresh
<1>5. \A i \in DOMAIN heap : heap[i] \in [tag : NodeTag, tok : Nat, kids : Seq(1 .. next - 1),
                                         ids : SUBSET (1 .. next - 1)]
  BY DEF Telling, OInv, TInv, TypeOK
<1>6. /\ DOMAIN heap' = DOMAIN heap
      /\ \A i \in DOMAIN heap \ {s} : heap'[i] = heap[i]
      /\ heap'[s].tag = heap[s].tag /\ heap'[s].tok = heap[s].tok
      /\ heap'[s].kids = Append(heap[s].kids, r)
      /\ heap'[s].ids = heap[s].ids \union heap[r].ids
  <2>1. TreeOf(r) = heap[r].ids
    BY <1>2, <1>4 DEF TreeOf
  <2> DEFINE o == heap[s]
             q == [[o EXCEPT !.kids = Append(@, r)] EXCEPT !.ids = @ \union heap[r].ids]
  <2>2. heap' = [heap EXCEPT ![s] = q]
    BY <2>1, Zenon DEF Pushes
  <2>3. s \in DOMAIN heap /\ o \in [tag : NodeTag, tok : Nat, kids : Seq(1 .. next - 1),
                                    ids : SUBSET (1 .. next - 1)]
    BY <1>2, <1>4, <1>5
  <2> HIDE DEF o
  <2>4. /\ q.tag = o.tag /\ q.tok = o.tok /\ q.kids = Append(o.kids, r)
        /\ q.ids = o.ids \union heap[r].ids
    BY <2>3
  <2> HIDE DEF q
  <2> QED
    BY <2>2, <2>3, <2>4 DEF o
<1>7. Fresh(heap', mark) = F
  BY <1>6 DEF Fresh
<1>8. \A i \in F : s \notin Range(heap[i].kids)
  BY <1>1, RootNotKid
<1>9. Changes(heap, heap', s)
  BY <1>2, <1>4, <1>6, <1>7, <1>8 DEF Changes
<1>10. /\ heap[s].kids \in Seq(F) /\ s \in heap[s].ids /\ heap[s].ids \subseteq F
       /\ \A a \in DOMAIN heap[s].kids : heap[heap[s].kids[a]].ids \subseteq heap[s].ids
       /\ heap[r].ids \subseteq F
  BY <1>2 DEF Closed, Encloses
<1>11. Encloses(heap', s)
  <2> DEFINE kids == heap[s].kids
  <2>1. Append(kids, r) \in Seq(F)
    <3> HIDE DEF F
    <3> QED
      BY <1>2, <1>10
  <2>2. /\ DOMAIN Append(kids, r) = DOMAIN kids \union {Len(kids) + 1}
        /\ Append(kids, r)[Len(kids) + 1] = r
        /\ \A j \in DOMAIN kids : Append(kids, r)[j] = kids[j]
    <3> HIDE DEF F, kids
    <3> QED
      BY <1>2, <1>10, AppendParts DEF kids
  <2>3. \A a \in DOMAIN kids : kids[a] # s /\ kids[a] \in DOMAIN heap
    <3>1. Range(kids) \subseteq F
      <4> HIDE DEF F
      <4> QED
        BY <1>10 DEF Range
    <3> QED
      BY <1>2, <1>4, <1>8, <3>1 DEF Range
  <2>4. ASSUME NEW a \in DOMAIN Append(kids, r)
        PROVE  heap'[Append(kids, r)[a]].ids \subseteq heap'[s].ids
    <3>1. CASE a \in DOMAIN kids
      BY <1>6, <1>10, <2>2, <2>3, <3>1
    <3>2. CASE a = Len(kids) + 1
      BY <1>2, <1>3, <1>4, <1>6, <2>2, <3>2
    <3> QED
      BY <2>2, <3>1, <3>2
  <2> QED
    BY <1>6, <1>7, <1>10, <2>1, <2>4 DEF Encloses
<1>12. Span(heap', s) = Span(heap, s) \union Span(heap, r)
  <2>1. \A j \in F : heap'[j].tok = heap[j].tok
    BY <1>4, <1>6
  <2> QED
    BY <1>6, <1>10, <2>1 DEF Span
<1> QED
  BY <1>2, <1>3, <1>6, <1>8, <1>9, <1>10, <1>11, <1>12

-----------------------------------------------------------------------------
(* What a rule has in hand afterwards. *)

LEMMA SpansSteady ==
  ASSUME NEW h, NEW g, NEW p, Closed(h), Changes(h, g, p), NEW hs,
         \A a \in DOMAIN hs : hs[a] \in Fresh(h, mark) \ {p}
  PROVE  Spans(g, hs) = Spans(h, hs) /\ (InRow(h, hs) => InRow(g, hs))
<1>1. \A a \in DOMAIN hs : Span(g, hs[a]) = Span(h, hs[a])
  BY SpanSteady
<1> QED
  BY <1>1 DEF Spans, InRow

LEMMA CountNat ==
  ASSUME NEW s \in Seq(Frames), NEW what
  PROVE  Count(what, s) \in Nat
<1>1. PICK f : f \in Frames
  BY FrameTyped DEF Rule
<1> QED
  BY <1>1, CountCons

LEMMA OverNat ==
  ASSUME NEW h, IsFiniteSet(Fresh(h, mark)), NEW k
  PROVE  Over(h, k) \in Nat
<1>1. IsFiniteSet(Blocks(h, k))
  BY FS_Subset DEF Blocks
<1> QED
  BY <1>1, FS_CardinalityType DEF Over

(* The token that is read next is none that was read before.               *)
LEMMA NextOpens ==
  ASSUME Telling, Weigh("block", Top) = 0, Weigh("paren", Top) = 0, ~ Unopened(Top)
  PROVE  /\ Opens(heap, off + 1, Tail(stack), off + 1)
         /\ Precedes(Spans(heap, Hands), {off + 1})
<1> DEFINE t == Tail(stack)
           f == Top
           k == off + 1
<1>1. /\ f \in Frames /\ t \in Seq(Frames) /\ stack = <<f>> \o t /\ off \in Nat
      /\ IsFiniteSet(Fresh(heap, mark)) /\ stack # << >> /\ Head(stack) = f
  BY TellingParts DEF Telling, Top
<1>2. Bears(heap, Hands, t, off, Weigh("block", f))
  BY HandsBear
<1>3. Parens(k) = Count("paren", stack) /\ Braces(k) = Count("block", stack)
  <2>1. Tallied(heap, stack, off)
    BY DEF Telling, Tells, Placed
  <2>2. Count("block", stack) \in Nat
    BY <1>1, CountNat DEF Telling, OInv, TInv
  <2> QED
    BY <1>1, <2>1, <2>2 DEF Tallied
<1>4. /\ Count("paren", stack) = Count("paren", t) /\ Count("block", stack) = Count("block", t)
      /\ Count("block", t) \in Nat
  <2> HIDE DEF f, t
  <2>1. /\ Count("paren", stack) = Count("paren", t) + Weigh("paren", f)
        /\ Count("block", stack) = Count("block", t) + Weigh("block", f)
        /\ Count("block", t) \in Nat /\ Count("paren", t) \in Nat
    BY <1>1, CountCons
  <2> QED
    BY <2>1 DEF f
<1>5. \A x \in 1 .. off : x < k
  BY <1>1
<1>6. k \notin 1 .. off /\ k \in 1 .. k
  BY <1>1
<1>7. Reaches(heap, t) \subseteq 1 .. off /\ Spans(heap, Hands) \subseteq 1 .. off /\ Sound(heap, off)
  BY <1>2 DEF Bears
<1>8. k \notin Marked(t)
  BY <1>6, <1>7, MarkedReached
<1>9. k \notin Shown(heap)
  <2>1. k # 0
    BY <1>1
  <2>2. \A i \in Fresh(heap, mark) : heap[i].tok # 0 => heap[i].tok \in 1 .. off
    BY <1>7 DEF Sound, Words
  <2> QED
    BY <1>6, <2>1, <2>2 DEF Shown
<1>10. Blocks(heap, k) = {}
  <2>1. \A i \in Fresh(heap, mark) : k \notin Span(heap, i)
    <3> TAKE i \in Fresh(heap, mark)
    <3>1. heap[i].ids \subseteq Fresh(heap, mark)
      BY <1>2 DEF Bears, Closed, Encloses
    <3> QED
      BY <1>9, <3>1 DEF Span, Shown
  <2> QED
    BY <2>1 DEF Blocks
<1>11. Over(heap, k) = 0
  BY <1>10, FS_EmptySet DEF Over
<1> HIDE DEF k, t, f
<1>12. Precedes(Reaches(heap, t), {k}) /\ Precedes(Spans(heap, Hands), {k})
  BY <1>5, <1>7 DEF Precedes
<1>13. Braces(k) = Over(heap, k) + Count("block", t) /\ Parens(k) = Count("paren", t)
  BY <1>3, <1>4, <1>11
<1>14. Opens(heap, k, t, k)
  BY <1>6, <1>8, <1>9, <1>12, <1>13 DEF Opens
<1> QED
  BY <1>12, <1>14 DEF k, t

(* A node above what was in hand. *)
LEMMA BearsNew ==
  ASSUME Telling, NEW tag, NEW tok, Allocates(Object(tag, tok, Hands)), NEW o \in {off, off + 1},
         Weigh("block", Top) = IF tag = "BlockStmt" THEN 1 ELSE 0,
         tok # 0 => /\ tok \in Words(Operand, o) /\ tag # "BlockStmt"
                    /\ Opens(heap, tok, Tail(stack), o)
                    /\ Hands # << >> => WellPut(heap', next)
  PROVE  Bears(heap', <<next>>, Tail(stack), o, 0)
<1> DEFINE t == Tail(stack)
           b == Weigh("block", Top)
           F == Fresh(heap, mark)
<1>1. /\ t \in Seq(Frames) /\ off \in Nat /\ o \in Nat /\ off <= o /\ IsFiniteSet(F)
      /\ next \notin DOMAIN heap
  BY TellingParts
<1>2. Bears(heap, Hands, t, off, b)
  BY HandsBear
<1>3. /\ Changes(heap, heap', next) /\ Encloses(heap', next) /\ next \notin F
      /\ heap'[next].tag = tag /\ heap'[next].tok = tok /\ heap'[next].kids = Hands
      /\ Span(heap', next) = Spans(heap, Hands) \union ({tok} \ {0})
  BY NewChanges
<1>4. Untouched(heap, t, next)
  BY <1>1, BelowUntouched
<1>5. \A a \in DOMAIN Hands : Hands[a] \in F \ {next}
  BY <1>3, HandsAreFresh
<1>6. /\ Spine(heap, t) /\ Reaches(heap, t) \subseteq 1 .. off /\ Closed(heap) /\ Sound(heap, off)
      /\ InRow(heap, Hands) /\ Precedes(Reaches(heap, t), Spans(heap, Hands))
      /\ Spans(heap, Hands) \subseteq 1 .. off
      /\ \A k \in Spans(heap, Hands) : Braces(k) = Over(heap, k) + Count("block", t) + b
  BY <1>2 DEF Bears
<1>7. Count("block", t) \in Nat
  BY <1>1, CountNat
<1> HIDE DEF t, b, F
<1>8. \A k : /\ Over(heap, k) \in Nat
             /\ Over(heap', k) = Over(heap, k)
                  + (IF tag = "BlockStmt" /\ k \in Span(heap', next) THEN 1 ELSE 0)
  BY <1>1, <1>3, <1>6, OverNew DEF F
<1>9. ASSUME NEW k \in Reaches(heap, t) PROVE Over(heap', k) = Over(heap, k)
  <2>1. CASE tag = "BlockStmt"
    <3>1. tok = 0
      BY <2>1
    <3>2. k \notin Spans(heap, Hands)
      <4>1. k \in Int
        BY <1>6
      <4>2. \A a, c \in Int : a < c => a # c
        OBVIOUS
      <4> QED
        BY <1>6, <4>1, <4>2 DEF Precedes
    <3>3. k \notin Span(heap', next)
      BY <1>3, <3>1, <3>2
    <3> QED
      BY <1>8, <3>3
  <2>2. CASE tag # "BlockStmt"
    BY <1>8, <2>2
  <2> QED
    BY <2>1, <2>2
<1>10. tok \notin Marked(t)
  <2>1. 0 \notin 1 .. off
    BY <1>1
  <2>2. 0 \notin Marked(t)
    BY <1>6, <2>1, MarkedReached
  <2> QED
    BY <2>2 DEF Opens, t
<1>11. Spine(heap', t)
  BY <1>1, <1>3, <1>4, <1>6, <1>9, <1>10, SpineSteady
<1>12. Reaches(heap', t) = Reaches(heap, t)
  BY <1>3, <1>4, <1>6, ReachesSteady
<1>13. InRow(heap', Hands)
  BY <1>3, <1>5, <1>6, SpansSteady DEF F
<1>14. tok # 0 => tok \notin Shown(heap)
  BY DEF Opens
<1>15. Closed(heap') /\ Sound(heap', o)
  <2>1. \A i \in {next} : heap'[i].tok # 0 =>
          heap'[i].tok \in Words(Operand, o) /\ heap'[i].tok \notin Shown(heap)
    BY <1>3, <1>14
  <2>2. InRow(heap', heap'[next].kids)
    BY <1>3, <1>13
  <2>3. heap'[next].tok # 0 /\ heap'[next].kids # << >> => WellPut(heap', next)
    BY <1>3
  <2> QED
    BY <1>1, <1>3, <1>6, <2>1, <2>2, <2>3, SoundChanges
<1>16. Precedes(Reaches(heap', t), Span(heap', next))
  <2>1. tok # 0 => Precedes(Reaches(heap, t), {tok})
    BY DEF Opens, t
  <2> QED
    BY <1>3, <1>6, <1>12, <2>1 DEF Precedes
<1>17. 1 .. off \subseteq 1 .. o
  BY <1>1
<1>18. Span(heap', next) \subseteq 1 .. o
  <2>1. tok # 0 => tok \in 1 .. o
    BY DEF Opens
  <2> QED
    BY <1>3, <1>6, <1>17, <2>1
<1>19. ASSUME NEW k \in Span(heap', next)
       PROVE  Braces(k) = Over(heap', k) + Count("block", t) + 0
  <2>1. CASE k \in Spans(heap, Hands)
    <3>1. Braces(k) = Over(heap, k) + Count("block", t) + b
      BY <1>6, <2>1
    <3>2. b = IF tag = "BlockStmt" THEN 1 ELSE 0
      BY DEF b
    <3>3. /\ Over(heap, k) \in Nat
          /\ Over(heap', k) = Over(heap, k) + (IF tag = "BlockStmt" THEN 1 ELSE 0)
      BY <1>8, <1>19
    <3> QED
      BY <1>7, <3>1, <3>2, <3>3
  <2>2. CASE k = tok /\ tok # 0
    <3>1. Braces(k) = Over(heap, k) + Count("block", t) /\ tag # "BlockStmt"
      BY <2>2 DEF Opens, t
    <3>2. Over(heap, k) \in Nat /\ Over(heap', k) = Over(heap, k)
      BY <1>8, <3>1
    <3> QED
      BY <1>7, <3>1, <3>2
  <2> QED
    BY <1>3, <1>19, <2>1, <2>2
<1>20. Spans(heap', <<next>>) = Span(heap', next) /\ InRow(heap', <<next>>)
  BY SpansOne
<1>21. Reaches(heap', t) \subseteq 1 .. o
  BY <1>6, <1>12, <1>17
<1>22. Bears(heap', <<next>>, t, o, 0)
  BY <1>11, <1>15, <1>16, <1>18, <1>19, <1>20, <1>21 DEF Bears
<1> QED
  BY <1>22 DEF t

(* A statement added to the sequence in hand. *)
LEMMA BearsPushed ==
  ASSUME Telling, NEW s, NEW r, Hands = <<s, r>>, Pushes(s, r), heap[s].tok = 0,
         heap[s].tag # "BlockStmt", Weigh("block", Top) = 0
  PROVE  Bears(heap', <<s>>, Tail(stack), off, 0)
<1> DEFINE t == Tail(stack)
           F == Fresh(heap, mark)
           kids == heap[s].kids
<1>1. t \in Seq(Frames) /\ off \in Nat /\ off <= off
  BY TellingParts
<1>2. Bears(heap, Hands, t, off, 0)
  BY HandsBear
<1>3. /\ Changes(heap, heap', s) /\ Encloses(heap', s) /\ s \in F /\ s \in Owns(heap, Hands)
      /\ heap'[s].tag = heap[s].tag /\ heap'[s].tok = 0
      /\ Span(heap', s) = Span(heap, s) \union Span(heap, r)
      /\ heap'[s].kids = Append(kids, r) /\ kids \in Seq(F)
      /\ r \in F \ {s} /\ s \notin Range(kids)
  BY PushChanges
<1>4. Untouched(heap, t, s)
  BY <1>3, BelowUntouched
<1>5. /\ Spine(heap, t) /\ Reaches(heap, t) \subseteq 1 .. off /\ Closed(heap) /\ Sound(heap, off)
      /\ InRow(heap, Hands) /\ Precedes(Reaches(heap, t), Spans(heap, Hands))
      /\ Spans(heap, Hands) \subseteq 1 .. off
      /\ \A k \in Spans(heap, Hands) : Braces(k) = Over(heap, k) + Count("block", t) + 0
  BY <1>2 DEF Bears
<1>6. /\ DOMAIN Hands = {1, 2} /\ Hands[1] = s /\ Hands[2] = r /\ 1 < 2
  OBVIOUS
<1>7. Precedes(Span(heap, s), Span(heap, r))
  BY <1>5, <1>6 DEF InRow
<1>8. Spans(heap, Hands) = Span(heap', s)
  BY <1>3, <1>6 DEF Spans
<1>9. \A a \in DOMAIN kids : kids[a] \in F \ {s}
  <2>1. kids \in Seq(F) /\ s \notin Range(kids)
    BY <1>3
  <2> HIDE DEF F, kids
  <2> QED
    BY <2>1 DEF Range
<1>10. Spans(heap', kids) = Spans(heap, kids) /\ InRow(heap', kids)
  <2>1. InRow(heap, kids)
    BY <1>3, <1>5 DEF Sound
  <2> QED
    BY <1>3, <1>5, <1>9, <2>1, SpansSteady
<1>11. Spans(heap, kids) \subseteq Span(heap, s)
  <2>1. \A a \in DOMAIN kids : heap[kids[a]].ids \subseteq heap[s].ids
    BY <1>3, <1>5 DEF Closed, Encloses
  <2> QED
    BY <2>1 DEF Spans, Span
<1>12. Span(heap', r) = Span(heap, r)
  BY <1>3, <1>5, SpanSteady
<1>13. InRow(heap', heap'[s].kids)
  <2>1. Precedes(Spans(heap', kids), Span(heap', r))
    BY <1>7, <1>10, <1>11, <1>12 DEF Precedes
  <2> HIDE DEF kids, F
  <2> QED
    BY <1>3, <1>10, <2>1, SpansAppend
<1> HIDE DEF t, F, kids
<1>14. Closed(heap') /\ Sound(heap', off)
  BY <1>1, <1>3, <1>5, <1>13, SoundChanges
<1>15. \A k : Over(heap', k) = Over(heap, k)
  BY <1>3, <1>5, OverSame
<1>16. Spine(heap', t)
  <2>1. 0 \notin Marked(t)
    <3>1. 0 \notin 1 .. off
      BY <1>1
    <3> QED
      BY <1>5, <3>1, MarkedReached
  <2> QED
    BY <1>1, <1>3, <1>4, <1>5, <1>15, <2>1, SpineSteady
<1>17. Reaches(heap', t) = Reaches(heap, t)
  BY <1>3, <1>4, <1>5, ReachesSteady
<1>18. Spans(heap', <<s>>) = Span(heap', s) /\ InRow(heap', <<s>>)
  BY SpansOne
<1>19. Bears(heap', <<s>>, t, off, 0)
  BY <1>5, <1>8, <1>14, <1>15, <1>16, <1>17, <1>18 DEF Bears
<1> QED
  BY <1>19 DEF t

-----------------------------------------------------------------------------
(* Moves of the stack. *)

(* A rule that has read the nodes it holds is put on the rules t.          *)
LEMMA FitsPut ==
  ASSUME NEW h, NEW hs, NEW t \in Seq(Frames), NEW m \in Nat, NEW o \in Nat, m <= o,
         Bears(h, hs, t, m, 0), IsFiniteSet(Fresh(h, mark)),
         NEW f \in Frames, f.held = hs,
         Pends(f) => Opens(h, f.tok, t, o) /\ Precedes(Spans(h, hs), {f.tok}),
         Weigh("block", f) = 0 \/ (hs = << >> /\ ~ Pends(f)),
         f.rule = "Opd" /\ f.at \in {"rhs", "loop"} =>
           Bounded(h, hs[1], Lower(f), Count("paren", t)),
         f.rule \in {"Block", "Prog"} =>
           \A a \in DOMAIN hs : h[hs[a]].tag \in {"Seq", "Prog"} /\ h[hs[a]].tok = 0
  PROVE  /\ Spine(h, <<f>> \o t) /\ Reaches(h, <<f>> \o t) \subseteq 1 .. o
         /\ Closed(h) /\ Sound(h, o)
<1>1. /\ Spine(h, t) /\ Reaches(h, t) \subseteq 1 .. m /\ Closed(h) /\ Sound(h, m)
      /\ InRow(h, hs) /\ Precedes(Reaches(h, t), Spans(h, hs)) /\ Spans(h, hs) \subseteq 1 .. m
      /\ \A k \in Spans(h, hs) : Braces(k) = Over(h, k) + Count("block", t) + 0
  BY DEF Bears
<1>2. /\ Count("block", t) \in Nat /\ \A k : Over(h, k) \in Nat
      /\ Weigh("block", f) \in {0, 1}
  BY CountNat, OverNat DEF Weigh
<1>3. Reach(h, f) = Spans(h, hs) \union Marks(f)
  BY DEF Reach
<1>4. ASSUME NEW k \in Reach(h, f)
      PROVE  Braces(k) = Over(h, k) + Count("block", t) + Weigh("block", f)
  <2>1. CASE k \in Spans(h, hs)
    <3>1. Weigh("block", f) = 0
      BY <2>1, SpansNone
    <3>2. Braces(k) = Over(h, k) + Count("block", t) + 0
      BY <1>1, <2>1
    <3> QED
      BY <3>1, <3>2
  <2>2. CASE Pends(f) /\ k = f.tok
    <3>1. Weigh("block", f) = 0 /\ Braces(k) = Over(h, k) + Count("block", t)
      BY <2>2 DEF Opens
    <3> QED
      BY <1>2, <3>1
  <2>3. k \in Marks(f) => Pends(f) /\ k = f.tok
    BY DEF Marks
  <2> QED
    BY <1>3, <1>4, <2>1, <2>2, <2>3
<1>5. Precedes(Reaches(h, t), Reach(h, f)) /\ Precedes(Spans(h, f.held), Marks(f))
  <2>1. Precedes(Reaches(h, t), Marks(f)) /\ Precedes(Spans(h, hs), Marks(f))
    BY DEF Marks, Opens, Precedes
  <2> QED
    BY <1>1, <1>3, <2>1 DEF Precedes
<1>6. Pends(f) => Parens(f.tok) = Count("paren", t) /\ f.tok \notin Shown(h)
  BY DEF Opens
<1>7. Fits(h, f, t)
  BY <1>1, <1>4, <1>5, <1>6 DEF Fits
<1>8. 1 .. m \subseteq 1 .. o
  OBVIOUS
<1>9. Reach(h, f) \subseteq 1 .. o
  BY <1>1, <1>3, <1>8 DEF Marks, Opens
<1>10. Reaches(h, <<f>> \o t) = Reach(h, f) \union Reaches(h, t)
  BY ReachesCons
<1>11. Spine(h, <<f>> \o t)
  BY <1>1, <1>7, SpineCons
<1>12. Sound(h, o)
  BY <1>1, SoundLater
<1> QED
  BY <1>1, <1>8, <1>9, <1>10, <1>11, <1>12

LEMMA PlacedReturns ==
  ASSUME NEW g, NEW r, NEW t \in Seq(Frames), NEW o \in Nat,
         Bears(g, <<r>>, t, o, 0), IsFiniteSet(Fresh(g, mark)),
         t # << >> /\ Head(t).rule \in {"Opd", "Base"} =>
           Bounded(g, r, Due(Head(t)), Count("paren", t))
  PROVE  Placed(g, t, r, o)
<1>1. /\ Spine(g, t) /\ Reaches(g, t) \subseteq 1 .. o /\ Closed(g) /\ Sound(g, o)
      /\ Precedes(Reaches(g, t), Span(g, r)) /\ Span(g, r) \subseteq 1 .. o
      /\ \A k \in Span(g, r) : Braces(k) = Over(g, k) + Count("block", t) + 0
  BY SpansOne DEF Bears
<1>2. Count("block", t) \in Nat /\ \A k : Over(g, k) \in Nat
  BY CountNat, OverNat
<1>3. \A k \in Span(g, r) : Braces(k) = Over(g, k) + Count("block", t)
  BY <1>1, <1>2
<1>4. Holds(g, r, t)
  BY <1>1, <1>3 DEF Holds
<1> QED
  BY <1>1, <1>4 DEF Placed

(* The running rule stands before a token, with a loop or an end to test.  *)
LEMMA PlacedStays ==
  ASSUME NEW g, NEW hs, NEW t \in Seq(Frames), NEW m \in Nat, NEW o \in Nat, m <= o,
         Bears(g, hs, t, m, 0), IsFiniteSet(Fresh(g, mark)),
         NEW f \in Frames, f.held = hs, f.at \notin WaitLabel,
         f.rule = "Opd" /\ f.at = "loop" => Bounded(g, hs[1], f.lvl, Count("paren", t)),
         f.rule \in {"Block", "Prog"} =>
           \A a \in DOMAIN hs : g[hs[a]].tag \in {"Seq", "Prog"} /\ g[hs[a]].tok = 0,
         NEW r
  PROVE  Placed(g, <<f>> \o t, r, o)
<1>1. ~ Pends(f) /\ Weigh("block", f) = 0 /\ f.at # "rhs" /\ Lower(f) = f.lvl
  BY DEF Pends, Weigh, Begun, WaitLabel, Lower
<1>2. /\ Spine(g, <<f>> \o t) /\ Reaches(g, <<f>> \o t) \subseteq 1 .. o
      /\ Closed(g) /\ Sound(g, o)
  BY <1>1, FitsPut
<1>3. ~ Waiting(<<f>> \o t)
  BY OnTop DEF Waiting
<1> QED
  BY <1>2, <1>3 DEF Placed

(* It calls a rule. *)
LEMMA PlacedCalls ==
  ASSUME NEW h, NEW hs, NEW t \in Seq(Frames), NEW m \in Nat, NEW o \in Nat, m <= o,
         Bears(h, hs, t, m, 0), IsFiniteSet(Fresh(h, mark)),
         NEW f \in Frames, f.held = hs,
         Pends(f) => Opens(h, f.tok, t, o) /\ Precedes(Spans(h, hs), {f.tok}),
         Weigh("block", f) = 0 \/ (hs = << >> /\ ~ Pends(f)),
         f.rule = "Opd" /\ f.at \in {"rhs", "loop"} =>
           Bounded(h, hs[1], Lower(f), Count("paren", t)),
         f.rule \in {"Block", "Prog"} =>
           \A a \in DOMAIN hs : h[hs[a]].tag \in {"Seq", "Prog"} /\ h[hs[a]].tok = 0,
         NEW c \in Frames, c.at = "start", c.held = << >>, NEW r
  PROVE  Placed(h, <<c>> \o (<<f>> \o t), r, o)
<1> DEFINE u == <<f>> \o t
<1>1. Spine(h, u) /\ Reaches(h, u) \subseteq 1 .. o /\ Closed(h) /\ Sound(h, o)
  BY FitsPut
<1>2. u \in Seq(Frames)
  BY OnTop
<1> HIDE DEF u
<1>3. ~ Pends(c) /\ Weigh("block", c) = 0 /\ Marks(c) = {}
  BY DEF Pends, Weigh, Begun, Marks
<1>4. Reach(h, c) = {}
  BY <1>3, SpansNone DEF Reach
<1>5. Fits(h, c, u)
  <2>1. InRow(h, c.held) /\ Precedes(Reaches(h, u), Reach(h, c))
        /\ Precedes(Spans(h, c.held), Marks(c))
    BY <1>3, <1>4, SpansNone DEF Precedes
  <2>2. \A a : a \notin DOMAIN c.held
    OBVIOUS
  <2> QED
    BY <1>3, <1>4, <2>1, <2>2 DEF Fits
<1>6. Spine(h, <<c>> \o u) /\ Reaches(h, <<c>> \o u) = Reaches(h, u)
  <2>1. Spine(h, <<c>> \o u)
    BY <1>1, <1>2, <1>5, SpineCons
  <2>2. Reaches(h, <<c>> \o u) = Reach(h, c) \union Reaches(h, u)
    BY <1>2, ReachesCons
  <2> QED
    BY <1>4, <2>1, <2>2
<1>7. ~ Waiting(<<c>> \o u)
  <2>1. Head(<<c>> \o u) = c /\ <<c>> \o u # << >>
    BY <1>2, OnTop
  <2> QED
    BY <2>1 DEF Waiting, WaitLabel
<1>8. Placed(h, <<c>> \o u, r, o)
  BY <1>1, <1>6, <1>7 DEF Placed
<1> QED
  BY <1>8 DEF u

-----------------------------------------------------------------------------
(* Words and their nodes. *)

(* The step changes no node, or one that the rules below do not hold: a new *)
(* one, or a sequence.                                                     *)
Grows(p) ==
  /\ Changes(heap, heap', p) /\ Untouched(heap, Tail(stack), p)
  /\ p \in Fresh(heap, mark) => heap[p].tag \in {"Seq", "Prog"}

Grown == heap' = heap \/ \E p : Grows(p)

LEMMA RestKept ==
  ASSUME Telling, Grown
  PROVE  /\ Shown(heap) \subseteq Shown(heap') /\ IsFiniteSet(Fresh(heap', mark))
         /\ \A k : Done(heap, k) => Done(heap', k)
         /\ \A k : Awaited(heap, Tail(stack), k) => Awaited(heap', Tail(stack), k)
<1> DEFINE t == Tail(stack)
<1>1. IsFiniteSet(Fresh(heap, mark)) /\ Closed(heap) /\ t \in Seq(Frames)
  BY TellingParts DEF Telling, Tells, Placed
<1> HIDE DEF t
<1>2. CASE heap' = heap
  BY <1>1, <1>2 DEF Shown, Done, Awaited, Assigning, Assigns
<1>3. ASSUME NEW p, Grows(p)
      PROVE  /\ Shown(heap) \subseteq Shown(heap') /\ IsFiniteSet(Fresh(heap', mark))
             /\ \A k : Done(heap, k) => Done(heap', k)
             /\ \A k : Awaited(heap, t, k) => Awaited(heap', t, k)
  <2>1. /\ Changes(heap, heap', p) /\ Untouched(heap, t, p)
        /\ p \in Fresh(heap, mark) => heap[p].tag \in {"Seq", "Prog"}
    BY <1>3 DEF Grows, t
  <2>2. Fresh(heap', mark) = Fresh(heap, mark) \union {p}
    BY <2>1 DEF Changes
  <2>3. IsFiniteSet(Fresh(heap', mark))
    BY <1>1, <2>2, FS_AddElement
  <2>4. ASSUME NEW k, Done(heap, k) PROVE Done(heap', k)
    <3>1. PICK i \in Fresh(heap, mark) : Assigns(heap, i, k)
      BY <2>4 DEF Done
    <3>2. i # p
      BY <2>1, <3>1 DEF Assigns
    <3>3. Assigns(heap', i, k)
      BY <1>1, <2>1, <3>1, <3>2, NodeSteady
    <3> QED
      BY <2>2, <3>3 DEF Done
  <2>5. ASSUME NEW k, Awaited(heap, t, k) PROVE Awaited(heap', t, k)
    <3>1. PICK j \in DOMAIN t : Assigning(heap, t[j], k)
      BY <2>5 DEF Awaited
    <3>2. t[j] \in Frames /\ t[j].at = "rhs"
      BY <1>1, <3>1 DEF Assigning
    <3>3. t[j].held \in Seq(Nat) /\ t[j].held # << >>
      BY <3>2 DEF Frames, EmptyHanded
    <3>4. t[j].held[1] \in Fresh(heap, mark) \ {p}
      BY <2>1, <3>3, FirstPlaces DEF Untouched
    <3>5. heap'[t[j].held[1]] = heap[t[j].held[1]]
      BY <2>1, <3>4 DEF Changes
    <3>6. Assigning(heap', t[j], k)
      BY <3>1, <3>5 DEF Assigning
    <3> QED
      BY <3>6 DEF Awaited
  <2>6. Shown(heap) \subseteq Shown(heap')
    BY <2>1, ShownChanges
  <2> QED
    BY <2>3, <2>4, <2>5, <2>6
<1> QED
  BY <1>2, <1>3 DEF Grown, t

LEMMA AwaitedCons ==
  ASSUME NEW f \in Frames, NEW t \in Seq(Frames), NEW h, NEW k
  PROVE  Awaited(h, <<f>> \o t, k) <=> Assigning(h, f, k) \/ Awaited(h, t, k)
<1> DEFINE s == <<f>> \o t
<1>1. Tops(s, f, t)
  BY TopPlaces
<1> HIDE DEF s
<1>2. /\ s[1] = f /\ \A j \in DOMAIN t : s[j + 1] = t[j] /\ j + 1 \in DOMAIN s
      /\ 1 \in DOMAIN s /\ \A i \in DOMAIN s : i = 1 \/ \E j \in DOMAIN t : i = j + 1
  BY <1>1 DEF Tops
<1>3. Awaited(h, s, k) <=> Assigning(h, f, k) \/ Awaited(h, t, k)
  BY <1>2 DEF Awaited
<1> QED
  BY <1>3 DEF s

LEMMA WordsKept ==
  ASSUME Telling, Grown, NEW o \in {off, off + 1}, NEW s,
         Marked(Tail(stack)) \subseteq Marked(s),
         \A k : Awaited(heap', Tail(stack), k) => Awaited(heap', s, k),
         Marks(Top) \subseteq Marked(s) \union Shown(heap'),
         o # off /\ toks[o] \in Operand => o \in Marked(s) \union Shown(heap'),
         o # off /\ toks[o] = "Assign" => Awaited(heap', s, o),
         \A k \in 1 .. off : Assigning(heap, Top, k) /\ toks[k] = "Assign" =>
                               Done(heap', k) \/ Awaited(heap', s, k)
  PROVE  Said(heap', s, o) /\ Assigned(heap', s, o)
<1> DEFINE t == Tail(stack)
           f == Top
<1>1. f \in Frames /\ t \in Seq(Frames) /\ stack = <<f>> \o t /\ off \in Nat
  BY TellingParts
<1>2. Said(heap, stack, off) /\ Assigned(heap, stack, off)
  BY DEF Telling, Tells
<1>3. /\ Shown(heap) \subseteq Shown(heap')
      /\ \A k : Done(heap, k) => Done(heap', k)
      /\ \A k : Awaited(heap, t, k) => Awaited(heap', t, k)
  BY RestKept
<1> HIDE DEF t, f
<1>4. /\ Marked(stack) = Marks(f) \union Marked(t)
      /\ \A k : Awaited(heap, stack, k) <=> Assigning(heap, f, k) \/ Awaited(heap, t, k)
  <2>1. Marked(<<f>> \o t) = Marks(f) \union Marked(t)
    BY <1>1, ReachesCons
  <2>2. \A k : Awaited(heap, <<f>> \o t, k) <=> Assigning(heap, f, k) \/ Awaited(heap, t, k)
    BY <1>1, AwaitedCons
  <2> QED
    BY <1>1, <2>1, <2>2
<1>5. ASSUME NEW tags, NEW k \in Words(tags, o)
      PROVE  k \in Words(tags, off) \/ (k = o /\ o # off /\ toks[o] \in tags)
  BY <1>1 DEF Words
<1>6. Said(heap', s, o)
  <2>1. ASSUME NEW k \in Words(Operand, o) PROVE k \in Shown(heap') \union Marked(s)
    <3>1. CASE k \in Words(Operand, off)
      <4>1. k \in Shown(heap) \union Marked(stack)
        BY <1>2, <3>1 DEF Said
      <4> QED
        BY <1>3, <1>4, <4>1 DEF t, f
    <3>2. CASE k = o /\ o # off /\ toks[o] \in Operand
      BY <3>2
    <3> QED
      BY <1>5, <3>1, <3>2
  <2> QED
    BY <2>1 DEF Said
<1>7. Assigned(heap', s, o)
  <2>1. ASSUME NEW k \in Words({"Assign"}, o) PROVE Done(heap', k) \/ Awaited(heap', s, k)
    <3>1. CASE k \in Words({"Assign"}, off)
      <4>1. Done(heap, k) \/ Assigning(heap, f, k) \/ Awaited(heap, t, k)
        BY <1>2, <1>4, <3>1 DEF Assigned
      <4>2. k \in 1 .. off /\ toks[k] = "Assign"
        BY <3>1 DEF Words
      <4> QED
        BY <1>3, <4>1, <4>2 DEF t, f
    <3>2. CASE k = o /\ o # off /\ toks[o] \in {"Assign"}
      BY <3>2
    <3> QED
      BY <1>5, <3>1, <3>2
  <2> QED
    BY <2>1 DEF Assigned
<1> QED
  BY <1>6, <1>7

-----------------------------------------------------------------------------
(* The sums. *)

(* Is tag the token that the step consumes, o being consumed afterwards?   *)
Read(tag, o) == IF o # off /\ toks[o] = tag THEN 1 ELSE 0

More(tags) == Cardinality(Made(heap', tags)) - Cardinality(Made(heap, tags))

Slack(f) == IF Unopened(f) THEN 1 ELSE 0

(* What is open, and the branches that are begun or made, change with the  *)
(* token consumed; the rules afterwards have begun so much.                *)
Balances(o, parens, blocks, ifs, elses) ==
  /\ parens = Weigh("paren", Top) + Read("LeftParen", o) - Read("RightParen", o)
  /\ blocks = Weigh("block", Top) - Slack(Top) + Read("LeftBrace", o) - Read("RightBrace", o)
  /\ ifs + More({"IfStmt", "IfElseStmt"}) = Weigh("if", Top) + Read("If", o)
  /\ elses + More({"IfElseStmt"}) = Weigh("else", Top) + Read("Else", o)

(* The tallies after a step, when what the rules have begun balances. *)
LEMMA TalliedKept ==
  ASSUME Telling, Grown, NEW o \in {off, off + 1}, NEW s \in Seq(Frames),
         NEW wp \in Int, NEW wb \in Int, NEW wi \in Int, NEW we \in Int,
         Count("paren", s) = Count("paren", Tail(stack)) + wp,
         Count("block", s) = Count("block", Tail(stack)) + wb,
         Count("if", s) = Count("if", Tail(stack)) + wi,
         Count("else", s) = Count("else", Tail(stack)) + we,
         NEW u \in {0, 1}, s # << >> => u = Slack(Head(s)),
         s # << >> => Balances(o, wp, wb - u, wi, we),
         s = << >> => \E b \in Int : Balances(o, wp, b, wi, we)
  PROVE  Tallied(heap', s, o)
<1> DEFINE t == Tail(stack)
           f == Top
           I == {"IfStmt", "IfElseStmt"}
           E == {"IfElseStmt"}
<1>1. /\ f \in Frames /\ t \in Seq(Frames) /\ stack = <<f>> \o t /\ off \in Nat
      /\ stack # << >> /\ Head(stack) = f /\ IsFiniteSet(Fresh(heap, mark))
      /\ IsFiniteSet(Fresh(heap', mark))
  BY TellingParts, RestKept DEF Telling, Top
<1> HIDE DEF t, f
<1>2. ASSUME NEW what
      PROVE  /\ Count(what, t) \in Nat /\ Weigh(what, f) \in {0, 1}
             /\ Count(what, stack) = Count(what, t) + Weigh(what, f)
  <2>1. /\ Count(what, t) \in Nat /\ Weigh(what, f) \in {0, 1}
        /\ Count(what, <<f>> \o t) = Count(what, t) + Weigh(what, f)
    <3>1. f \in Frames /\ t \in Seq(Frames)
      BY <1>1
    <3> QED
      BY <3>1, CountCons
  <2> QED
    BY <1>1, <2>1, Zenon
<1> DEFINE P == Parens(off + 1)
           B == Braces(off + 1)
           P1 == Parens(o + 1)
           B1 == Braces(o + 1)
<1>3. P \in Int /\ B \in Int
  <2>1. off + 1 \in Nat \ {0}
    BY <1>1
  <2> QED
    BY <2>1, DepthNext
<1>4. /\ P1 = P + Read("LeftParen", o) - Read("RightParen", o)
      /\ B1 = B + Read("LeftBrace", o) - Read("RightBrace", o)
  <2>1. CASE o = off
    BY <1>3, <2>1 DEF Read
  <2>2. CASE o # off
    <3>1. o = off + 1 /\ o \in Nat \ {0}
      BY <1>1, <2>2
    <3>2. /\ P1 = P + (IF toks[o] = "LeftParen" THEN 1
                       ELSE IF toks[o] = "RightParen" THEN -1 ELSE 0)
          /\ B1 = B + (IF toks[o] = "LeftBrace" THEN 1
                       ELSE IF toks[o] = "RightBrace" THEN -1 ELSE 0)
      BY <3>1, DepthNext
    <3> HIDE DEF P, B, P1, B1
    <3> QED
      BY <1>3, <2>2, <3>2 DEF Read
  <2> QED
    BY <2>1, <2>2
<1> HIDE DEF P, B, P1, B1
<1>5. ASSUME NEW tag
      PROVE  /\ Cardinality(Words({tag}, off)) \in Nat
             /\ Cardinality(Words({tag}, o)) = Cardinality(Words({tag}, off)) + Read(tag, o)
  <2>1. CASE o = off
    <3>1. Cardinality(Words({tag}, off)) \in Nat
      BY <1>1, WordsNext
    <3> QED
      BY <2>1, <3>1 DEF Read
  <2>2. CASE o # off
    <3>1. o = off + 1
      BY <2>2
    <3>2. /\ Cardinality(Words({tag}, off)) \in Nat
          /\ toks[o] \in {tag} => Cardinality(Words({tag}, o)) = Cardinality(Words({tag}, off)) + 1
          /\ toks[o] \notin {tag} => Words({tag}, o) = Words({tag}, off)
      BY <1>1, <3>1, WordsNext
    <3> QED
      BY <2>2, <3>2 DEF Read
  <2> QED
    BY <2>1, <2>2
<1>6. /\ Cardinality(Made(heap, I)) \in Nat /\ Cardinality(Made(heap', I)) \in Nat
      /\ Cardinality(Made(heap, E)) \in Nat /\ Cardinality(Made(heap', E)) \in Nat
  BY <1>1, MadeCounted
<1>7. Tallied(heap, stack, off)
  BY DEF Telling, Tells
<1>8. /\ P = Count("paren", stack) /\ B = Count("block", stack) - Slack(f)
      /\ Cardinality(Words({"If"}, off)) = Cardinality(Made(heap, I)) + Count("if", stack)
      /\ Cardinality(Words({"Else"}, off)) = Cardinality(Made(heap, E)) + Count("else", stack)
  BY <1>1, <1>7 DEF Tallied, Slack, P, B
<1>9. Slack(f) \in {0, 1} /\ \A tag : Read(tag, o) \in {0, 1}
  BY DEF Slack, Read
<1>10. PICK b \in Int : Balances(o, wp, b, wi, we) /\ (s # << >> => b = wb - u)
  <2>1. CASE s # << >>
    <3>1. wb - u \in Int /\ Balances(o, wp, wb - u, wi, we)
      BY <2>1
    <3> QED
      BY <3>1
  <2>2. CASE s = << >>
    BY <2>2
  <2> QED
    BY <2>1, <2>2
<1>11. /\ wp = Weigh("paren", f) + Read("LeftParen", o) - Read("RightParen", o)
       /\ b = Weigh("block", f) - Slack(f) + Read("LeftBrace", o) - Read("RightBrace", o)
       /\ wi + (Cardinality(Made(heap', I)) - Cardinality(Made(heap, I)))
            = Weigh("if", f) + Read("If", o)
       /\ we + (Cardinality(Made(heap', E)) - Cardinality(Made(heap, E)))
            = Weigh("else", f) + Read("Else", o)
  BY <1>10 DEF Balances, More, f
<1>12. /\ Count("paren", s) = Count("paren", t) + wp /\ Count("block", s) = Count("block", t) + wb
       /\ Count("if", s) = Count("if", t) + wi /\ Count("else", s) = Count("else", t) + we
  BY DEF t
<1> HIDE DEF I, E
<1>13. P1 = Count("paren", s)
  <2>1. /\ Count("paren", t) \in Nat /\ Weigh("paren", f) \in {0, 1}
        /\ Count("paren", stack) = Count("paren", t) + Weigh("paren", f)
    BY <1>2
  <2>2. Read("LeftParen", o) \in {0, 1} /\ Read("RightParen", o) \in {0, 1}
    BY <1>9
  <2>3. /\ P = Count("paren", stack) /\ Count("paren", s) = Count("paren", t) + wp
        /\ wp = Weigh("paren", f) + Read("LeftParen", o) - Read("RightParen", o)
    BY <1>8, <1>11, <1>12
  <2> QED
    BY <1>4, <2>1, <2>2, <2>3
<1>14. s # << >> => B1 = Count("block", s) - Slack(Head(s))
  <2> SUFFICES ASSUME s # << >> PROVE B1 = Count("block", s) - u
    OBVIOUS
  <2> QED
    <3>1. /\ Count("block", t) \in Nat /\ Weigh("block", f) \in {0, 1}
          /\ Count("block", stack) = Count("block", t) + Weigh("block", f)
      BY <1>2
    <3>2. Read("LeftBrace", o) \in {0, 1} /\ Read("RightBrace", o) \in {0, 1} /\ Slack(f) \in {0, 1}
      BY <1>9
    <3>3. /\ B = Count("block", stack) - Slack(f) /\ Count("block", s) = Count("block", t) + wb
          /\ b = Weigh("block", f) - Slack(f) + Read("LeftBrace", o) - Read("RightBrace", o)
          /\ b = wb - u
      BY <1>8, <1>10, <1>11, <1>12
    <3>4. B1 = B + Read("LeftBrace", o) - Read("RightBrace", o) /\ u \in {0, 1} /\ wb \in Int
      BY <1>4
    <3> DEFINE r == Read("LeftBrace", o)
               q == Read("RightBrace", o)
               c == Count("block", stack)
               d == Count("block", t)
               e == Count("block", s)
               v == Slack(f)
               w == Weigh("block", f)
    <3> HIDE DEF r, q, c, d, e, v, w
    <3>5. /\ d \in Nat /\ w \in {0, 1} /\ r \in {0, 1} /\ q \in {0, 1} /\ v \in {0, 1}
          /\ c = d + w /\ B = c - v /\ e = d + wb /\ b = w - v + r - q /\ b = wb - u
          /\ B1 = B + r - q
      BY <3>1, <3>2, <3>3, <3>4 DEF r, q, c, d, e, v, w
    <3>6. B1 = e - u
      <4>1. /\ d \in Int /\ w \in Int /\ r \in Int /\ q \in Int /\ v \in Int
            /\ u \in Int /\ wb \in Int
        BY <3>4, <3>5
      <4>2. b = wb - u /\ e = d + wb
        BY <3>5
      <4>3. e - u = d + b
        BY <4>1, <4>2
      <4>4. b = w - v + r - q /\ B1 = d + w - v + r - q
        BY <3>5
      <4> QED
        BY <4>1, <4>3, <4>4
    <3> QED
      BY <3>6 DEF e
<1>15. Cardinality(Words({"If"}, o)) = Cardinality(Made(heap', I)) + Count("if", s)
  <2>1. /\ Count("if", t) \in Nat /\ Weigh("if", f) \in {0, 1}
        /\ Count("if", stack) = Count("if", t) + Weigh("if", f)
    BY <1>2
  <2>2. /\ Cardinality(Words({"If"}, off)) \in Nat /\ Read("If", o) \in {0, 1}
        /\ Cardinality(Words({"If"}, o)) = Cardinality(Words({"If"}, off)) + Read("If", o)
    BY <1>5, <1>9
  <2>3. /\ Cardinality(Words({"If"}, off)) = Cardinality(Made(heap, I)) + Count("if", stack)
        /\ Count("if", s) = Count("if", t) + wi
        /\ wi + (Cardinality(Made(heap', I)) - Cardinality(Made(heap, I)))
             = Weigh("if", f) + Read("If", o)
    BY <1>8, <1>11, <1>12
  <2>4. Cardinality(Made(heap, I)) \in Nat /\ Cardinality(Made(heap', I)) \in Nat
    BY <1>6
  <2> DEFINE W == Cardinality(Words({"If"}, off))
             W1 == Cardinality(Words({"If"}, o))
             M == Cardinality(Made(heap, I))
             M1 == Cardinality(Made(heap', I))
             c == Count("if", t)
             d == Count("if", s)
             g == Weigh("if", f)
             r == Read("If", o)
  <2> HIDE DEF W, W1, M, M1, c, d, g, r
  <2>5. /\ W \in Nat /\ M \in Nat /\ M1 \in Nat /\ c \in Nat /\ g \in {0, 1} /\ r \in {0, 1}
        /\ W1 = W + r /\ W = M + (c + g) /\ d = c + wi /\ wi + (M1 - M) = g + r
    BY <2>1, <2>2, <2>3, <2>4 DEF W, W1, M, M1, c, d, g, r
  <2>6. W1 = M1 + d
    BY <2>5
  <2> QED
    BY <2>6 DEF W1, M1, d
<1>16. Cardinality(Words({"Else"}, o)) = Cardinality(Made(heap', E)) + Count("else", s)
  <2>1. /\ Count("else", t) \in Nat /\ Weigh("else", f) \in {0, 1}
        /\ Count("else", stack) = Count("else", t) + Weigh("else", f)
    BY <1>2
  <2>2. /\ Cardinality(Words({"Else"}, off)) \in Nat /\ Read("Else", o) \in {0, 1}
        /\ Cardinality(Words({"Else"}, o)) = Cardinality(Words({"Else"}, off)) + Read("Else", o)
    BY <1>5, <1>9
  <2>3. /\ Cardinality(Words({"Else"}, off)) = Cardinality(Made(heap, E)) + Count("else", stack)
        /\ Count("else", s) = Count("else", t) + we
        /\ we + (Cardinality(Made(heap', E)) - Cardinality(Made(heap, E)))
             = Weigh("else", f) + Read("Else", o)
    BY <1>8, <1>11, <1>12
  <2>4. Cardinality(Made(heap, E)) \in Nat /\ Cardinality(Made(heap', E)) \in Nat
    BY <1>6
  <2> DEFINE W == Cardinality(Words({"Else"}, off))
             W1 == Cardinality(Words({"Else"}, o))
             M == Cardinality(Made(heap, E))
             M1 == Cardinality(Made(heap', E))
             c == Count("else", t)
             d == Count("else", s)
             g == Weigh("else", f)
             r == Read("Else", o)
  <2> HIDE DEF W, W1, M, M1, c, d, g, r
  <2>5. /\ W \in Nat /\ M \in Nat /\ M1 \in Nat /\ c \in Nat /\ g \in {0, 1} /\ r \in {0, 1}
        /\ W1 = W + r /\ W = M + (c + g) /\ d = c + we /\ we + (M1 - M) = g + r
    BY <2>1, <2>2, <2>3, <2>4 DEF W, W1, M, M1, c, d, g, r
  <2>6. W1 = M1 + d
    BY <2>5
  <2> QED
    BY <2>6 DEF W1, M1, d
<1> QED
  BY <1>13, <1>14, <1>15, <1>16 DEF Tallied, Slack, P1, B1, I, E

-----------------------------------------------------------------------------
(* Each move of the stack keeps what the trees and the frames tell. *)

(* Which rules wait, and for what. *)
LEMMA AwaitsDue ==
  ASSUME NEW g, NEW f, Awaits(g, f)
  PROVE  /\ g.rule \in {"Opd", "Base"} => IsOpd(f, Due(g))
         /\ Slack(g) = IF f.rule = "Block" THEN 1 ELSE 0
         /\ g.at \in WaitLabel
         /\ g.rule = "Opd" /\ g.at \in {"rhs", "loop"} /\ g.lvl \in {2, 8} =>
              f.rule = "Opd" /\ f.lvl = g.lvl
<1>1. g.rule \in {"Opd", "Base"} => IsOpd(f, Due(g))
  BY DEF Awaits, Due
<1>2. f.rule = "Block" => g.rule = "BlockStmt" /\ g.at = "block"
  BY DEF Awaits, IsOpd, IsStmt
<1>3. Unopened(g) => f.rule = "Block"
  BY DEF Awaits, Unopened
<1>4. Slack(g) = IF f.rule = "Block" THEN 1 ELSE 0
  BY <1>2, <1>3 DEF Slack, Unopened
<1>5. g.at \in WaitLabel
  BY DEF Awaits, WaitLabel
<1>6. ASSUME g.rule = "Opd", g.at \in {"rhs", "loop"}, g.lvl \in {2, 8}
      PROVE  f.rule = "Opd" /\ f.lvl = g.lvl
  <2>1. IsOpd(f, RightOpd(g.lvl))
    BY <1>6 DEF Awaits
  <2> QED
    BY <1>6, <2>1 DEF IsOpd, RightOpd
<1> QED
  BY <1>1, <1>4, <1>5, <1>6

LEMMA CountsOver ==
  ASSUME Telling, NEW f \in Frames
  PROVE  /\ <<f>> \o Tail(stack) \in Seq(Frames) /\ <<f>> \o Tail(stack) # << >>
         /\ Head(<<f>> \o Tail(stack)) = f
         /\ \A what : /\ Count(what, <<f>> \o Tail(stack)) = Count(what, Tail(stack)) + Weigh(what, f)
                      /\ Count(what, Tail(stack)) \in Nat /\ Weigh(what, f) \in {0, 1}
         /\ Marked(<<f>> \o Tail(stack)) = Marks(f) \union Marked(Tail(stack))
         /\ \A h, k : Awaited(h, <<f>> \o Tail(stack), k)
                        <=> Assigning(h, f, k) \/ Awaited(h, Tail(stack), k)
<1> DEFINE t == Tail(stack)
<1>1. t \in Seq(Frames)
  BY TellingParts
<1> HIDE DEF t
<1>2. <<f>> \o t \in Seq(Frames) /\ <<f>> \o t # << >> /\ Head(<<f>> \o t) = f
  BY <1>1, OnTop
<1>3. \A what : /\ Count(what, <<f>> \o t) = Count(what, t) + Weigh(what, f)
                /\ Count(what, t) \in Nat /\ Weigh(what, f) \in {0, 1}
  BY <1>1, CountCons
<1>4. Marked(<<f>> \o t) = Marks(f) \union Marked(t)
  BY <1>1, ReachesCons
<1>5. \A h, k : Awaited(h, <<f>> \o t, k) <=> Assigning(h, f, k) \/ Awaited(h, t, k)
  BY <1>1, AwaitedCons
<1> QED
  BY <1>2, <1>3, <1>4, <1>5 DEF t

(* A rule returns: what it had in hand is what its caller is given. *)
LEMMA TellsReturns ==
  ASSUME Telling, NEW es, Tracks(es), Grown, NEW o \in {off, off + 1}, NEW r,
         Bears(heap', <<r>>, Tail(stack), o, 0),
         \A n : IsOpd(Top, n) => Bounded(heap', r, n, Count("paren", Tail(stack))),
         Top.rule = "Opd" /\ Top.lvl \in {2, 8} => toks[o + 1] \notin DOMAIN BinTag[Top.lvl],
         Marks(Top) \subseteq Shown(heap'),
         o # off => toks[o] # "Assign" /\ (toks[o] \in Operand => o \in Shown(heap')),
         \A k \in 1 .. off : Assigning(heap, Top, k) /\ toks[k] = "Assign" => Done(heap', k),
         Balances(o, 0, IF Top.rule = "Block" THEN -1 ELSE 0, 0, 0)
  PROVE  Tells(heap', Tail(stack), r, o)
<1> DEFINE t == Tail(stack)
           f == Top
           u == IF f.rule = "Block" THEN 1 ELSE 0
<1>1. t \in Seq(Frames) /\ o \in Nat /\ IsFiniteSet(Fresh(heap', mark))
  BY TellingParts, RestKept
<1>2. t # << >> => Awaits(Head(t), f)
  BY TracksTop, NestedPop
<1>3. t # << >> => Slack(Head(t)) = u /\ (Head(t).rule \in {"Opd", "Base"} => IsOpd(f, Due(Head(t))))
                   /\ Head(t).at \in WaitLabel
  BY <1>2, AwaitsDue
<1>4. Placed(heap', t, r, o)
  <2> HIDE DEF t, u
  <2>1. t # << >> /\ Head(t).rule \in {"Opd", "Base"} =>
          Bounded(heap', r, Due(Head(t)), Count("paren", t))
    BY <1>3 DEF t
  <2>2. Bears(heap', <<r>>, t, o, 0)
    BY DEF t
  <2> QED
    BY <1>1, <2>1, <2>2, PlacedReturns
<1>5. Said(heap', t, o) /\ Assigned(heap', t, o)
  BY WordsKept
<1>6. Tallied(heap', t, o)
  <2>1. \A what : Count(what, t) = Count(what, t) + 0
    <3> HIDE DEF t
    <3> TAKE what
    <3> DEFINE c == Count(what, t)
    <3>1. c \in Nat
      BY <1>1, CountNat
    <3> HIDE DEF c
    <3>2. c = c + 0
      BY <3>1
    <3> QED
      BY <3>2 DEF c
  <2>2. Balances(o, 0, 0 - u, 0, 0)
    BY DEF u
  <2>3. 0 \in Int /\ u \in {0, 1} /\ 0 - u \in Int
    OBVIOUS
  <2>4. t # << >> => u = Slack(Head(t))
    BY <1>3
  <2> HIDE DEF u
  <2> QED
    BY <1>1, <2>1, <2>2, <2>3, <2>4, TalliedKept
<1>7. t # << >> => Poised(heap', Head(t), o)
  <2> SUFFICES ASSUME t # << >> PROVE Poised(heap', Head(t), o)
    OBVIOUS
  <2> DEFINE g == Head(t)
  <2>1. Awaits(g, f) /\ g.at \in WaitLabel
    BY <1>2, <1>3
  <2> HIDE DEF g
  <2>2. g.at # "assign"
    BY <2>1 DEF WaitLabel
  <2>3. g.rule = "Opd" /\ g.at \in {"rhs", "loop"} /\ g.lvl \in {2, 8} =>
          f.rule = "Opd" /\ f.lvl = g.lvl
    BY <2>1, AwaitsDue
  <2>4. Poised(heap', g, o)
    BY <2>2, <2>3 DEF Poised
  <2> QED
    BY <2>4 DEF g
<1> QED
  BY <1>4, <1>5, <1>6, <1>7 DEF Tells

(* A rule goes on at another label. *)
LEMMA TellsStays ==
  ASSUME Telling, Grown, NEW o \in {off, off + 1}, NEW m \in {off, off + 1}, m <= o,
         NEW f \in Frames, f.at \notin WaitLabel,
         Bears(heap', f.held, Tail(stack), m, 0),
         f.rule = "Opd" /\ f.at = "loop" =>
           Bounded(heap', f.held[1], f.lvl, Count("paren", Tail(stack))),
         f.rule \in {"Block", "Prog"} =>
           \A a \in DOMAIN f.held :
             heap'[f.held[a]].tag \in {"Seq", "Prog"} /\ heap'[f.held[a]].tok = 0,
         Marks(Top) \subseteq Shown(heap'),
         o # off => toks[o] # "Assign" /\ (toks[o] \in Operand => o \in Shown(heap')),
         ~ (Top.rule = "AsgnStmt" /\ Top.at = "rhs"),
         Balances(o, 0, 0 - Slack(f), 0, 0),
         Poised(heap', f, o), NEW r
  PROVE  Tells(heap', <<f>> \o Tail(stack), r, o)
<1> DEFINE t == Tail(stack)
           s == <<f>> \o t
<1>1. /\ t \in Seq(Frames) /\ o \in Nat /\ m \in Nat /\ IsFiniteSet(Fresh(heap', mark))
  BY TellingParts, RestKept
<1>2. /\ s \in Seq(Frames) /\ s # << >> /\ Head(s) = f
      /\ \A what : Count(what, s) = Count(what, t) + Weigh(what, f)
      /\ Marked(s) = Marks(f) \union Marked(t)
      /\ \A h, k : Awaited(h, s, k) <=> Assigning(h, f, k) \/ Awaited(h, t, k)
  BY CountsOver
<1>3. Placed(heap', s, r, o)
  <2> DEFINE hs == f.held
             g == heap'
  <2>1. Bears(g, hs, t, m, 0) /\ f.held = hs /\ IsFiniteSet(Fresh(g, mark))
    BY <1>1
  <2>2. f.rule = "Opd" /\ f.at = "loop" => Bounded(g, hs[1], f.lvl, Count("paren", t))
    OBVIOUS
  <2>3. f.rule \in {"Block", "Prog"} =>
          \A a \in DOMAIN hs : g[hs[a]].tag \in {"Seq", "Prog"} /\ g[hs[a]].tok = 0
    OBVIOUS
  <2> HIDE DEF hs, g, t
  <2>4. Placed(g, <<f>> \o t, r, o)
    BY <1>1, <2>1, <2>2, <2>3, PlacedStays
  <2> QED
    BY <2>4 DEF g
<1>4. \A what : Weigh(what, f) = 0
  BY DEF Weigh, Begun, WaitLabel
<1>5. \A k : ~ Assigning(heap, Top, k)
  BY DEF Assigning
<1>6. Said(heap', s, o) /\ Assigned(heap', s, o)
  <2> HIDE DEF s
  <2> QED
    BY <1>2, <1>5, WordsKept
<1>7. Tallied(heap', s, o)
  <2> HIDE DEF s
  <2>1. \A what : Count(what, s) = Count(what, Tail(stack)) + 0
    BY <1>2, <1>4
  <2>2. Slack(f) \in {0, 1} /\ 0 \in Int /\ Slack(f) = Slack(Head(s))
    BY <1>2 DEF Slack
  <2> QED
    BY <1>2, <2>1, <2>2, TalliedKept
<1> QED
  BY <1>2, <1>3, <1>6, <1>7 DEF Tells

(* A rule calls another one. *)
LEMMA TellsCalls ==
  ASSUME Telling, heap' = heap, NEW o \in {off, off + 1},
         NEW c \in Frames, c.at = "start", c.held = << >>,
         NEW f \in Frames, f.held = Hands, f.at \in WaitLabel,
         Weigh("block", Top) = 0, Weigh("paren", Top) = 0, ~ Unopened(Top), Marks(Top) = {},
         Pends(f) => f.tok = o /\ o # off,
         Weigh("block", f) = 0 \/ (Hands = << >> /\ ~ Pends(f)),
         f.rule = "Opd" /\ f.at \in {"rhs", "loop"} =>
           Bounded(heap, Hands[1], Lower(f), Count("paren", Tail(stack))),
         f.rule \in {"Block", "Prog"} =>
           \A a \in DOMAIN Hands : heap[Hands[a]].tag \in {"Seq", "Prog"} /\ heap[Hands[a]].tok = 0,
         o # off => /\ toks[o] \in Operand => Pends(f)
                    /\ toks[o] = "Assign" => Assigning(heap, f, o),
         ~ (Top.rule = "AsgnStmt" /\ Top.at = "rhs"),
         Balances(o, Weigh("paren", f), Weigh("block", f) - Slack(c),
                  Weigh("if", f), Weigh("else", f)),
         NEW r
  PROVE  Tells(heap', <<c>> \o (<<f>> \o Tail(stack)), r, o)
<1> DEFINE t == Tail(stack)
           u == <<f>> \o t
           s == <<c>> \o u
<1>0. Grown
  BY DEF Grown
<1>1. /\ t \in Seq(Frames) /\ off \in Nat /\ o \in Nat /\ off <= o /\ IsFiniteSet(Fresh(heap, mark))
  BY TellingParts
<1>2. /\ u \in Seq(Frames)
      /\ \A what : /\ Count(what, u) = Count(what, t) + Weigh(what, f)
                   /\ Count(what, t) \in Nat /\ Weigh(what, f) \in {0, 1}
      /\ Marked(u) = Marks(f) \union Marked(t)
      /\ \A h, k : Awaited(h, u, k) <=> Assigning(h, f, k) \/ Awaited(h, t, k)
  BY CountsOver
<1>3. Bears(heap, Hands, t, off, 0)
  BY HandsBear
<1>4. Pends(f) => Opens(heap, f.tok, t, o) /\ Precedes(Spans(heap, Hands), {f.tok})
  BY NextOpens
<1>5. Placed(heap, s, r, o)
  <2> HIDE DEF t
  <2>1. f.rule = "Opd" /\ f.at \in {"rhs", "loop"} =>
          Bounded(heap, Hands[1], Lower(f), Count("paren", t))
    BY DEF t
  <2> DEFINE hs == Hands
  <2>2. /\ Bears(heap, hs, t, off, 0) /\ f.held = hs
        /\ Pends(f) => Opens(heap, f.tok, t, o) /\ Precedes(Spans(heap, hs), {f.tok})
        /\ Weigh("block", f) = 0 \/ (hs = << >> /\ ~ Pends(f))
        /\ f.rule = "Opd" /\ f.at \in {"rhs", "loop"} =>
             Bounded(heap, hs[1], Lower(f), Count("paren", t))
        /\ f.rule \in {"Block", "Prog"} =>
             \A a \in DOMAIN hs : heap[hs[a]].tag \in {"Seq", "Prog"} /\ heap[hs[a]].tok = 0
    BY <1>3, <1>4, <2>1
  <2> HIDE DEF hs
  <2> QED
    BY <1>1, <2>2, PlacedCalls
<1> HIDE DEF u, t
<1>6. /\ s \in Seq(Frames) /\ s # << >> /\ Head(s) = c
  BY <1>2, OnTop
<1>7. /\ \A what : /\ Count(what, s) = Count(what, u) + Weigh(what, c)
      /\ Marked(s) = Marks(c) \union Marked(u)
      /\ \A h, k : Awaited(h, s, k) <=> Assigning(h, c, k) \/ Awaited(h, u, k)
  <2>1. \A what : Count(what, s) = Count(what, u) + Weigh(what, c)
    BY <1>2, CountCons
  <2>2. Marked(s) = Marks(c) \union Marked(u)
    BY <1>2, ReachesCons
  <2>3. \A h, k : Awaited(h, s, k) <=> Assigning(h, c, k) \/ Awaited(h, u, k)
    BY <1>2, AwaitedCons
  <2> QED
    BY <2>1, <2>2, <2>3
<1>8. \A what : Weigh(what, c) = 0
  BY DEF Weigh, Begun
<1> HIDE DEF s
<1>9. Said(heap', s, o) /\ Assigned(heap', s, o)
  <2>1. \A k : ~ Assigning(heap, Top, k)
    BY DEF Assigning
  <2>2. o # off /\ toks[o] \in Operand => o \in Marked(s)
    BY <1>2, <1>7 DEF Marks
  <2>3. Marked(t) \subseteq Marked(s) /\ \A h, k : Awaited(h, t, k) => Awaited(h, s, k)
    BY <1>2, <1>7
  <2>4. o # off /\ toks[o] = "Assign" => Awaited(heap', s, o)
    BY <1>2, <1>7
  <2> QED
    BY <1>0, <2>1, <2>2, <2>3, <2>4, WordsKept DEF t
<1>10. Tallied(heap', s, o)
  <2> DEFINE W(what) == Weigh(what, f)
  <2>1. \A what : Count(what, s) = Count(what, t) + Weigh(what, f)
    <3> TAKE what
    <3>1. /\ Count(what, s) = Count(what, u) + 0
          /\ Count(what, u) = Count(what, t) + Weigh(what, f)
          /\ Count(what, t) \in Nat /\ Weigh(what, f) \in {0, 1}
      BY <1>2, <1>7, <1>8
    <3> QED
      BY <3>1
  <2>2. \A what : Weigh(what, f) \in Int
    BY <1>2
  <2>3. Slack(c) \in {0, 1} /\ Slack(c) = Slack(Head(s))
    BY <1>6 DEF Slack
  <2> QED
    BY <1>0, <1>6, <2>1, <2>2, <2>3, TalliedKept DEF t
<1>11. Poised(heap', c, o)
  BY DEF Poised
<1>12. Tells(heap', s, r, o)
  BY <1>5, <1>6, <1>9, <1>10, <1>11 DEF Tells, s
<1> QED
  BY <1>12 DEF s, u, t

-----------------------------------------------------------------------------
(* The moves with what they read. *)

Told == Tells(heap', stack', res', off')

(* The running rule at another label, with other locals. *)
Moved(f, at, held, tok) ==
  /\ f \in Frames /\ f.rule = Top.rule /\ f.lvl = Top.lvl
  /\ f.at = at /\ f.held = held /\ f.tok = tok

LEMMA TopMoved ==
  ASSUME Telling, NEW at \in Label, NEW held \in Seq(Nat), NEW tok \in Nat,
         at \in EmptyHanded \/ held # << >>,
         at \notin {"start", "opd"} /\ Top.rule = "Opd" => Top.lvl # 1
  PROVE  /\ Moved([Top EXCEPT !.at = at, !.held = held, !.tok = tok], at, held, tok)
         /\ Moved([Top EXCEPT !.at = at, !.held = held], at, held, Top.tok)
<1> DEFINE f == Top
<1>1. f \in Frames
  BY TellingParts
<1> HIDE DEF f
<1>2. f \in [rule : Rule, lvl : 0 .. 8, at : Label, held : Seq(Nat), tok : Nat]
  BY <1>1 DEF Frames
<1> DEFINE g == [f EXCEPT !.at = at, !.held = held, !.tok = tok]
           u == [f EXCEPT !.at = at, !.held = held]
<1>3. /\ g \in [rule : Rule, lvl : 0 .. 8, at : Label, held : Seq(Nat), tok : Nat]
      /\ g.rule = f.rule /\ g.lvl = f.lvl /\ g.at = at /\ g.held = held /\ g.tok = tok
  BY <1>2
<1>4. /\ u \in [rule : Rule, lvl : 0 .. 8, at : Label, held : Seq(Nat), tok : Nat]
      /\ u.rule = f.rule /\ u.lvl = f.lvl /\ u.at = at /\ u.held = held /\ u.tok = f.tok
  BY <1>2
<1> HIDE DEF g, u
<1>5. f.rule = "Opd" => f.lvl \in 1 .. 8 /\ (at \notin {"start", "opd"} => f.lvl # 1)
  BY <1>1 DEF Frames, f
<1>6. g \in Frames /\ u \in Frames
  BY <1>3, <1>4, <1>5 DEF Frames
<1> QED
  BY <1>3, <1>4, <1>6 DEF Moved, f, g, u

LEMMA NextRead ==
  ASSUME Telling
  PROVE  /\ Peek = toks[off + 1] /\ off \in Nat /\ off + 1 \in Nat /\ off + 1 # off
         /\ Peek # "NULL"
         /\ \A tag : Read(tag, off) = 0 /\ Read(tag, off + 1) = IF Peek = tag THEN 1 ELSE 0
<1>1. Running /\ ~ astray
  BY DEF Telling, OInv, TInv, Running
<1>2. Peek = toks[off + 1] /\ off \in Nat /\ Peek # "NULL"
  BY <1>1, AheadOf
<1>3. off + 1 # off /\ off + 1 \in Nat
  BY <1>2
<1> QED
  BY <1>2, <1>3 DEF Read

LEMMA MoreSame ==
  ASSUME Telling
  PROVE  /\ heap' = heap => \A tags : More(tags) = 0
         /\ \A tag, tok : Allocates(Object(tag, tok, Hands)) =>
              \A tags : More(tags) = IF tag \in tags THEN 1 ELSE 0
         /\ \A s, r : Hands = <<s, r>> /\ Pushes(s, r) /\ heap[s].tok = 0 =>
              \A tags : More(tags) = 0
<1>1. IsFiniteSet(Fresh(heap, mark))
  BY TellingParts
<1>2. \A tags : Cardinality(Made(heap, tags)) \in Nat
  BY <1>1, MadeCounted
<1>3. \A tags : Made(heap', tags) = Made(heap, tags) => More(tags) = 0
  BY <1>2 DEF More
<1>4. heap' = heap => \A tags : More(tags) = 0
  BY <1>3
<1>5. ASSUME NEW tag, NEW tok, Allocates(Object(tag, tok, Hands)), NEW tags
      PROVE  More(tags) = IF tag \in tags THEN 1 ELSE 0
  <2>1. /\ Changes(heap, heap', next) /\ next \notin Fresh(heap, mark)
        /\ heap'[next].tag = tag
    BY <1>5, NewChanges
  <2>2. CASE tag \in tags
    <3>1. Cardinality(Made(heap', tags)) = Cardinality(Made(heap, tags)) + 1
      BY <1>1, <2>1, <2>2, MadeNew
    <3> DEFINE a == Cardinality(Made(heap, tags))
               b == Cardinality(Made(heap', tags))
    <3>2. a \in Nat /\ b = a + 1
      BY <1>2, <3>1
    <3> HIDE DEF a, b
    <3>3. b - a = 1
      BY <3>2
    <3> QED
      BY <2>2, <3>3 DEF More, a, b
  <2>3. CASE tag \notin tags
    BY <1>3, <2>1, <2>3, MadeSame
  <2> QED
    BY <2>2, <2>3
<1>6. ASSUME NEW s, NEW r, Hands = <<s, r>>, Pushes(s, r), heap[s].tok = 0, NEW tags
      PROVE  More(tags) = 0
  <2>1. Changes(heap, heap', s) /\ s \in Fresh(heap, mark)
    BY <1>6, PushChanges
  <2>2. Made(heap', tags) = Made(heap, tags)
    BY <2>1, MadeSame
  <2> QED
    BY <1>3, <2>2
<1> QED
  BY <1>4, <1>5, <1>6

LEMMA NewGrows ==
  ASSUME Telling
  PROVE  /\ \A tag, tok : Allocates(Object(tag, tok, Hands)) =>
              /\ Grown /\ Shown(heap') = Shown(heap) \union {tok}
         /\ \A s, r : Hands = <<s, r>> /\ Pushes(s, r) /\ heap[s].tok = 0
                      /\ heap[s].tag \in {"Seq", "Prog"} => Grown
<1>1. ASSUME NEW tag, NEW tok, Allocates(Object(tag, tok, Hands))
      PROVE  Grown /\ Shown(heap') = Shown(heap) \union {tok}
  <2>1. /\ Changes(heap, heap', next) /\ next \notin Fresh(heap, mark)
        /\ heap'[next].tok = tok
    BY <1>1, NewChanges
  <2>2. Untouched(heap, Tail(stack), next)
    BY TellingParts, BelowUntouched
  <2>3. Shown(heap') = Shown(heap) \union {tok}
    BY <2>1, ShownChanges
  <2> QED
    BY <2>1, <2>2, <2>3 DEF Grown, Grows
<1>2. ASSUME NEW s, NEW r, Hands = <<s, r>>, Pushes(s, r), heap[s].tok = 0,
             heap[s].tag \in {"Seq", "Prog"}
      PROVE  Grown
  <2>1. Changes(heap, heap', s) /\ s \in Owns(heap, Hands)
    BY <1>2, PushChanges
  <2>2. Untouched(heap, Tail(stack), s)
    BY <2>1, BelowUntouched
  <2> QED
    BY <1>2, <2>1, <2>2 DEF Grown, Grows
<1> QED
  BY <1>1, <1>2

-----------------------------------------------------------------------------
(* What the running rule returns, or goes on with. *)

(* A rule returns a node that it was given. *)
LEMMA ReturnsTold ==
  ASSUME Telling, NEW es, Tracks(es), NEW node, Hands = <<node>>, Returns(node),
         UNCHANGED memory, NEW o \in {off, off + 1}, off' = o,
         Weigh("block", Top) = 0, Marks(Top) = {},
         \A n : IsOpd(Top, n) => Bounded(heap, node, n, Count("paren", Tail(stack))),
         Top.rule = "Opd" /\ Top.lvl \in {2, 8} => toks[o + 1] \notin DOMAIN BinTag[Top.lvl],
         o # off => toks[o] \notin Operand \union {"Assign"},
         Top.rule # "AsgnStmt",
         Balances(o, 0, IF Top.rule = "Block" THEN -1 ELSE 0, 0, 0)
  PROVE  Told
<1>1. heap' = heap
  BY DEF memory
<1>2. Grown
  BY <1>1 DEF Grown
<1>3. Bears(heap', <<node>>, Tail(stack), off, 0)
  BY <1>1, HandsBear
<1>4. off \in Nat
  BY TellingParts
<1>5. Bears(heap', <<node>>, Tail(stack), o, 0)
  <2>1. 1 .. off \subseteq 1 .. o /\ o \in Nat /\ off <= o
    BY <1>4
  <2>2. Sound(heap', o)
    BY <1>3, <1>4, <2>1, SoundLater DEF Bears
  <2> QED
    BY <1>3, <2>1, <2>2 DEF Bears
<1>6. \A k : ~ Assigning(heap, Top, k)
  BY DEF Assigning
<1>7. Tells(heap', Tail(stack), node, o)
  BY <1>1, <1>2, <1>5, <1>6, TellsReturns
<1> QED
  BY <1>7 DEF Told, Returns

(* It returns a new node of what it has in hand. *)
LEMMA ReturnsNewTold ==
  ASSUME Telling, NEW es, Tracks(es), NEW tag, NEW tok, NEW kids, kids = Hands,
         ReturnsNew(tag, tok, kids), NEW o \in {off, off + 1}, off' = o,
         Weigh("block", Top) = IF tag = "BlockStmt" THEN 1 ELSE 0,
         tok # 0 => /\ tok \in Words(Operand, o) /\ tag # "BlockStmt"
                    /\ Opens(heap, tok, Tail(stack), o)
                    /\ Hands # << >> => WellPut(heap', next),
         \A n : IsOpd(Top, n) => Bounded(heap', next, n, Count("paren", Tail(stack))),
         ~ (Top.rule = "Opd" /\ Top.lvl \in {2, 8}),
         Marks(Top) \subseteq {tok},
         o # off => toks[o] # "Assign" /\ (toks[o] \in Operand => o = tok),
         \A k \in 1 .. off : Assigning(heap, Top, k) /\ toks[k] = "Assign" => Done(heap', k),
         Balances(o, 0, IF Top.rule = "Block" THEN -1 ELSE 0, 0, 0)
  PROVE  Told
<1>1. Allocates(Object(tag, tok, Hands))
  BY DEF ReturnsNew
<1>2. Grown /\ Shown(heap') = Shown(heap) \union {tok}
  BY <1>1, NewGrows
<1>3. Bears(heap', <<next>>, Tail(stack), o, 0)
  BY <1>1, BearsNew
<1>4. Marks(Top) \subseteq Shown(heap')
  BY <1>2
<1>5. o # off => toks[o] # "Assign" /\ (toks[o] \in Operand => o \in Shown(heap'))
  BY <1>2
<1>6. Tells(heap', Tail(stack), next, o)
  BY <1>2, <1>3, <1>4, <1>5, TellsReturns
<1> QED
  BY <1>6 DEF Told, ReturnsNew, Returns

(* It goes on with a new node. *)
LEMMA StaysNewTold ==
  ASSUME Telling, NEW tag, NEW tok, NEW kids, kids = Hands, Allocates(Object(tag, tok, kids)),
         NEW at \in Label \ WaitLabel, at # "start", Stays(at, <<next>>),
         Top.rule = "Opd" => Top.lvl # 1,
         NEW o \in {off, off + 1}, off' = o,
         Weigh("block", Top) = 0, tag # "BlockStmt",
         tok # 0 => /\ tok \in Words(Operand, o)
                    /\ Opens(heap, tok, Tail(stack), o)
                    /\ Hands # << >> => WellPut(heap', next),
         Top.rule = "Opd" /\ at = "loop" =>
           Bounded(heap', next, Top.lvl, Count("paren", Tail(stack))),
         Top.rule \in {"Block", "Prog"} => tag \in {"Seq", "Prog"} /\ tok = 0,
         Marks(Top) \subseteq {tok},
         o # off => toks[o] # "Assign" /\ (toks[o] \in Operand => o = tok),
         ~ (Top.rule = "AsgnStmt" /\ Top.at = "rhs"),
         \A f : Moved(f, at, <<next>>, Top.tok) =>
                  Balances(o, 0, 0 - Slack(f), 0, 0) /\ Poised(heap', f, o)
  PROVE  Told
<1> DEFINE f == [Top EXCEPT !.at = at, !.held = <<next>>]
<1>1. Grown /\ Shown(heap') = Shown(heap) \union {tok}
  BY NewGrows
<1>2. next \in Nat /\ Top \in Frames
  BY TellingParts
<1>3. <<next>> \in Seq(Nat) /\ <<next>> # << >> /\ <<next>>[1] = next /\ DOMAIN <<next>> = {1}
  BY <1>2
<1>4. Moved(f, at, <<next>>, Top.tok)
  <2>1. Top.tok \in Nat
    BY <1>2 DEF Frames
  <2> QED
    BY <1>3, <2>1, TopMoved
<1> HIDE DEF f
<1>5. /\ f \in Frames /\ f.rule = Top.rule /\ f.lvl = Top.lvl /\ f.at = at /\ f.held = <<next>>
  BY <1>4 DEF Moved
<1>6. Bears(heap', f.held, Tail(stack), o, 0)
  BY <1>5, BearsNew
<1>7. heap'[next].tag = tag /\ heap'[next].tok = tok
  BY NewChanges
<1>8. Marks(Top) \subseteq Shown(heap')
      /\ (o # off => toks[o] # "Assign" /\ (toks[o] \in Operand => o \in Shown(heap')))
  BY <1>1
<1>9. f.rule \in {"Block", "Prog"} =>
        \A a \in DOMAIN f.held : heap'[f.held[a]].tag \in {"Seq", "Prog"} /\ heap'[f.held[a]].tok = 0
  BY <1>3, <1>5, <1>7
<1>10. f.rule = "Opd" /\ f.at = "loop" =>
         Bounded(heap', f.held[1], f.lvl, Count("paren", Tail(stack)))
  BY <1>3, <1>5
<1>11. Balances(o, 0, 0 - Slack(f), 0, 0) /\ Poised(heap', f, o) /\ f.at \notin WaitLabel
       /\ o <= o
  BY <1>4, <1>5, TellingParts
<1>12. Tells(heap', <<f>> \o Tail(stack), res, o)
  BY <1>1, <1>5, <1>6, <1>8, <1>9, <1>10, <1>11, TellsStays
<1> QED
  BY <1>12 DEF Told, Stays, f

(* It goes on with what it held. *)
LEMMA StaysTold ==
  ASSUME Telling, UNCHANGED memory, NEW f \in Frames, f.at \notin WaitLabel, f.held = Hands,
         stack' = <<f>> \o Tail(stack), res' = res,
         NEW o \in {off, off + 1}, off' = o,
         Weigh("block", Top) = 0, Marks(Top) = {},
         f.rule # "Opd" \/ f.at # "loop",
         f.rule \in {"Block", "Prog"} =>
           \A a \in DOMAIN Hands : heap[Hands[a]].tag \in {"Seq", "Prog"} /\ heap[Hands[a]].tok = 0,
         o # off => toks[o] \notin Operand \union {"Assign"},
         ~ (Top.rule = "AsgnStmt" /\ Top.at = "rhs"),
         Balances(o, 0, 0 - Slack(f), 0, 0), Poised(heap, f, o)
  PROVE  Told
<1>1. heap' = heap
  BY DEF memory
<1>2. Grown
  BY <1>1 DEF Grown
<1>3. Bears(heap', f.held, Tail(stack), off, 0)
  BY <1>1, HandsBear
<1>4. off \in {off, off + 1} /\ off <= o
  BY TellingParts
<1>5. Tells(heap', <<f>> \o Tail(stack), res, o)
  BY <1>1, <1>2, <1>3, <1>4, TellsStays
<1> QED
  BY <1>5 DEF Told

(* It pushes a statement to its sequence. *)
LEMMA PushedTold ==
  ASSUME Telling, Top.rule \in {"Block", "Prog"}, Top.at = "stmt",
         Pushes(Top.held[1], res), Stays("loop", Top.held), off' = off
  PROVE  Told
<1> DEFINE s == Top.held[1]
           f == [Top EXCEPT !.at = "loop", !.held = Top.held]
<1>1. Hands = <<s, res>> /\ Top.held = <<s>>
  BY NodesInHand, HandsByLabel, LabelsCarry DEF Telling
<1>2. heap[s].tag \in {"Seq", "Prog"} /\ heap[s].tok = 0
  <2>1. 1 \in DOMAIN Top.held
    BY <1>1
  <2> QED
    BY <2>1, HandsBear DEF Fits
<1>3. Weigh("block", Top) = 0 /\ Weigh("paren", Top) = 0 /\ Weigh("if", Top) = 0
      /\ Weigh("else", Top) = 0 /\ Slack(Top) = 0 /\ Marks(Top) = {}
  BY DEF Weigh, Begun, Slack, Unopened, Marks, Pends
<1>4. Moved(f, "loop", Top.held, Top.tok)
  <2>1. Top.tok \in Nat /\ Top.held \in Seq(Nat) /\ Top.held # << >>
    BY <1>1, TellingParts DEF Frames
  <2> QED
    BY <2>1, TopMoved DEF Label
<1> HIDE DEF s, f
<1>5. Grown /\ \A tags : More(tags) = 0
  BY <1>1, <1>2, NewGrows, MoreSame DEF s
<1>6. Bears(heap', <<s>>, Tail(stack), off, 0)
  BY <1>1, <1>2, <1>3, BearsPushed DEF s
<1>7. heap'[s].tag = heap[s].tag /\ heap'[s].tok = 0
  BY <1>1, <1>2, PushChanges DEF s
<1>8. f \in Frames /\ f.rule = Top.rule /\ f.at = "loop" /\ f.held = <<s>>
  BY <1>1, <1>4 DEF Moved
<1>9. f.rule \in {"Block", "Prog"} =>
        \A a \in DOMAIN f.held : heap'[f.held[a]].tag \in {"Seq", "Prog"} /\ heap'[f.held[a]].tok = 0
  BY <1>2, <1>7, <1>8
<1>10. Slack(f) = 0 /\ Poised(heap', f, off) /\ f.at \notin WaitLabel
  BY <1>8 DEF Slack, Unopened, Poised, WaitLabel
<1>11. Balances(off, 0, 0 - Slack(f), 0, 0)
  BY <1>3, <1>5, <1>10, NextRead DEF Balances
<1>12. off \in {off, off + 1} /\ off <= off
  BY TellingParts
<1>13. Tells(heap', <<f>> \o Tail(stack), res, off)
  BY <1>3, <1>5, <1>6, <1>8, <1>9, <1>10, <1>11, <1>12, TellsStays
<1> QED
  BY <1>13 DEF Told, Stays, f

-----------------------------------------------------------------------------
(* What it goes on with when it calls a rule. *)

(* It has begun nothing that the call would leave open. *)
Clear(f) ==
  /\ Weigh("block", f) = 0 /\ Weigh("paren", f) = 0 /\ ~ Unopened(f) /\ Marks(f) = {}
  /\ ~ (f.rule = "AsgnStmt" /\ f.at = "rhs")

(* What it says of the token consumed, f being its frame and c the rule's. *)
Explains(f, c, o) ==
  /\ Pends(f) => f.tok = o /\ o # off
  /\ Weigh("block", f) = 0 \/ (Hands = << >> /\ ~ Pends(f))
  /\ o # off => /\ toks[o] \in Operand => Pends(f)
                /\ toks[o] = "Assign" => Assigning(heap, f, o)
  /\ Weigh("paren", f) = Read("LeftParen", o) - Read("RightParen", o)
  /\ Weigh("block", f) - Slack(c) = Read("LeftBrace", o) - Read("RightBrace", o)
  /\ Weigh("if", f) = Weigh("if", Top) + Read("If", o)
  /\ Weigh("else", f) = Weigh("else", Top) + Read("Else", o)

(* It calls another rule and holds what it had in hand. *)
LEMMA CallsTold ==
  ASSUME Telling, NEW c \in Frames, c.at = "start", c.held = << >>,
         NEW at \in Label, at \in WaitLabel, NEW held, held = Hands, NEW tok \in Nat,
         at \in EmptyHanded \/ held # << >>,
         at # "opd" /\ Top.rule = "Opd" => Top.lvl # 1,
         Calls(c, at, held, tok), UNCHANGED memory,
         NEW o \in {off, off + 1}, off' = o, Clear(Top),
         Top.rule = "Opd" /\ at = "rhs" =>
           Bounded(heap, Hands[1], LeftOpd(Top.lvl), Count("paren", Tail(stack))),
         Top.rule \in {"Block", "Prog"} =>
           \A a \in DOMAIN Hands : heap[Hands[a]].tag \in {"Seq", "Prog"} /\ heap[Hands[a]].tok = 0,
         \A f : Moved(f, at, held, tok) => Explains(f, c, o)
  PROVE  Told
<1> DEFINE f == [Top EXCEPT !.at = at, !.held = held, !.tok = tok]
           t == Tail(stack)
<1>1. heap' = heap
  BY DEF memory
<1>2. Hands \in Seq(Nat) /\ t \in Seq(Frames)
  BY HandsAreFresh, TellingParts
<1>3. Moved(f, at, held, tok)
  <2>1. at # "start"
    BY DEF WaitLabel
  <2> QED
    BY <1>2, <2>1, TopMoved
<1>4. stack' = <<c, f>> \o t /\ res' = res
  BY DEF Calls
<1> HIDE DEF f
<1>5. /\ f \in Frames /\ f.rule = Top.rule /\ f.lvl = Top.lvl
      /\ f.at = at /\ f.held = Hands /\ f.tok = tok
  BY <1>3 DEF Moved
<1>6. Explains(f, c, o)
  BY <1>3
<1>7. /\ Pends(f) => f.tok = o /\ o # off
      /\ Weigh("block", f) = 0 \/ (Hands = << >> /\ ~ Pends(f))
      /\ o # off => /\ toks[o] \in Operand => Pends(f)
                    /\ toks[o] = "Assign" => Assigning(heap, f, o)
  BY <1>6 DEF Explains
<1>8. Balances(o, Weigh("paren", f), Weigh("block", f) - Slack(c), Weigh("if", f), Weigh("else", f))
  <2>1. \A tags : More(tags) = 0
    BY <1>1, MoreSame
  <2>2. Weigh("paren", Top) = 0 /\ Weigh("block", Top) = 0 /\ Slack(Top) = 0
    BY DEF Clear, Slack
  <2>3. \A tag : Read(tag, o) \in {0, 1}
    BY DEF Read
  <2>4. \A what : Weigh(what, f) \in {0, 1} /\ Weigh(what, Top) \in {0, 1}
    BY DEF Weigh
  <2>5. /\ Weigh("paren", f) = Weigh("paren", Top) + Read("LeftParen", o) - Read("RightParen", o)
        /\ Weigh("block", f) - Slack(c)
             = Weigh("block", Top) - Slack(Top) + Read("LeftBrace", o) - Read("RightBrace", o)
    BY <1>6, <2>2, <2>3 DEF Explains
  <2>6. /\ Weigh("if", f) + More({"IfStmt", "IfElseStmt"}) = Weigh("if", Top) + Read("If", o)
        /\ Weigh("else", f) + More({"IfElseStmt"}) = Weigh("else", Top) + Read("Else", o)
    BY <1>6, <2>1, <2>3, <2>4 DEF Explains
  <2> QED
    BY <2>5, <2>6 DEF Balances
<1>9. f.rule = "Opd" /\ f.at \in {"rhs", "loop"} =>
        Bounded(heap, Hands[1], Lower(f), Count("paren", t))
  <2>1. at # "loop"
    BY DEF WaitLabel
  <2> QED
    BY <1>5, <2>1 DEF Lower
<1>10. /\ Weigh("block", Top) = 0 /\ Weigh("paren", Top) = 0 /\ ~ Unopened(Top) /\ Marks(Top) = {}
       /\ ~ (Top.rule = "AsgnStmt" /\ Top.at = "rhs")
  BY DEF Clear
<1>11. f.rule \in {"Block", "Prog"} =>
         \A a \in DOMAIN Hands : heap[Hands[a]].tag \in {"Seq", "Prog"} /\ heap[Hands[a]].tok = 0
  BY <1>5
<1>12. Tells(heap', <<c>> \o (<<f>> \o t), res, o)
  BY <1>1, <1>5, <1>7, <1>8, <1>9, <1>10, <1>11, TellsCalls
<1>13. stack' = <<c>> \o (<<f>> \o t)
  <2> DEFINE a == <<c, f>> \o t
             r == <<f>> \o t
  <2>1. a = <<c, f>> \o t /\ IsCons(r, f, t)
    BY DEF IsCons
  <2> HIDE DEF a, r
  <2>2. TwoFirst(a, c, f, t, Frames)
    BY <1>2, <1>5, <2>1, TwoPlaces
  <2>3. IsCons(a, c, r)
    <3>1. f \in Frames /\ t \in Seq(Frames)
      BY <1>2, <1>5
    <3> HIDE DEF t
    <3> QED
      BY <3>1, <2>1, <2>2, ConsTwo
  <2> QED
    BY <1>4, <2>1, <2>3 DEF IsCons, a, r
<1> QED
  BY <1>4, <1>12, <1>13 DEF Told

(* The weights of a frame. *)
LEMMA Weights ==
  ASSUME NEW f
  PROVE  /\ Weigh("block", f) = IF f.rule = "BlockStmt" /\ f.at = "block" THEN 1 ELSE 0
         /\ Weigh("paren", f) = IF f.rule = "Base" /\ f.at = "expr" THEN 1 ELSE 0
         /\ Weigh("if", f) = IF f.rule = "IfStmt" /\ f.at \in {"cond", "then", "else"} THEN 1 ELSE 0
         /\ Weigh("else", f) = IF f.rule = "IfStmt" /\ f.at = "else" THEN 1 ELSE 0
         /\ Slack(f) = IF \/ f.rule = "Block" /\ f.at \in {"start", "open"}
                          \/ f.rule = "BlockStmt" /\ f.at = "block"
                       THEN 1 ELSE 0
<1>1. Weigh("block", f) = IF f.rule = "BlockStmt" /\ f.at = "block" THEN 1 ELSE 0
  BY DEF Weigh, Begun
<1>2. Weigh("paren", f) = IF f.rule = "Base" /\ f.at = "expr" THEN 1 ELSE 0
  BY DEF Weigh, Begun
<1>3. Weigh("if", f) = IF f.rule = "IfStmt" /\ f.at \in {"cond", "then", "else"} THEN 1 ELSE 0
  BY DEF Weigh, Begun
<1>4. Weigh("else", f) = IF f.rule = "IfStmt" /\ f.at = "else" THEN 1 ELSE 0
  BY DEF Weigh, Begun
<1>5. Slack(f) = IF \/ f.rule = "Block" /\ f.at \in {"start", "open"}
                    \/ f.rule = "BlockStmt" /\ f.at = "block"
                 THEN 1 ELSE 0
  BY DEF Slack, Unopened
<1> QED
  BY <1>1, <1>2, <1>3, <1>4, <1>5

(* The rules called. *)
LEMMA Callees ==
  /\ \A n \in 1 .. 8 : /\ Opd(n) \in Frames /\ Opd(n).at = "start" /\ Opd(n).held = << >>
                       /\ Opd(n).rule = "Opd" /\ Opd(n).lvl = n
  /\ \A rule \in Rule \ {"Opd", "Prog"} :
       /\ Frame(rule, 0) \in Frames /\ Frame(rule, 0).rule = rule
       /\ Frame(rule, 0).at = "start" /\ Frame(rule, 0).held = << >>
  /\ Expr = Opd(8)
<1>1. \A rule, lvl : /\ Frame(rule, lvl).at = "start" /\ Frame(rule, lvl).held = << >>
                     /\ Frame(rule, lvl).rule = rule /\ Frame(rule, lvl).lvl = lvl
  BY DEF Frame
<1> QED
  BY <1>1, RulesTyped DEF Opd, Expr

-----------------------------------------------------------------------------
(* Rules of operands. *)

LEMMA FailuresFail ==
  ASSUME Telling, NEW ids, NEW node,
         \/ OutOfMemory(ids) \/ Unexpected(ids, node) \/ GivesUp(ids, node)
         \/ \E type \in {"NoEnoughMemory", "UnexpectedToken"} : err' = [err EXCEPT !.type = type]
  PROVE  Failed'
<1>1. err \in [type : ParErr, msg : Nat, tok : Nat]
  BY DEF Telling, OInv, TInv, TypeOK
<1>2. \A type : [err EXCEPT !.type = type].type = type
  BY <1>1
<1>3. CASE GivesUp(ids, node)
  BY <1>3 DEF GivesUp, Looks, parser, Failed
<1>4. CASE \E type \in {"NoEnoughMemory", "UnexpectedToken"} : err' = [err EXCEPT !.type = type]
  BY <1>2, <1>4 DEF Failed
<1>5. CASE OutOfMemory(ids) \/ Unexpected(ids, node)
  BY <1>2, <1>5 DEF OutOfMemory, Unexpected, Fails, Failed
<1> QED
  BY <1>3, <1>4, <1>5

LEMMA DepthInt ==
  ASSUME NEW k \in Nat
  PROVE  Parens(k) \in Int
<1>1. CASE k = 0
  <2>1. \A tag : {j \in 1 .. k - 1 : toks[j] = tag} = {}
    BY <1>1
  <2>2. Cardinality({}) = 0
    BY FS_EmptySet
  <2>3. Parens(k) = 0 - 0
    BY <2>1, <2>2 DEF Parens, Depth
  <2> QED
    BY <2>3
<1>2. CASE k # 0
  BY <1>2, DepthNext
<1> QED
  BY <1>1, <1>2

(* The nodes that an operand rule has in hand bind as tightly as it asked. *)
LEMMA ToldBounds ==
  ASSUME Telling
  PROVE  /\ Top.at \in WaitLabel /\ Top.rule \in {"Opd", "Base"} =>
              Bounded(heap, res, Due(Top), Count("paren", Tail(stack)) + Weigh("paren", Top))
         /\ Top.rule = "Opd" /\ Top.at \in {"rhs", "loop"} =>
              Bounded(heap, Top.held[1], Lower(Top), Count("paren", Tail(stack)))
         /\ Count("paren", Tail(stack)) \in Nat
         /\ Poised(heap, Top, off)
<1> DEFINE t == Tail(stack)
<1>1. stack = <<Top>> \o t /\ Top \in Frames /\ t \in Seq(Frames) /\ stack # << >>
      /\ (Top.at \in WaitLabel => Waiting(stack)) /\ Head(stack) = Top
  BY TellingParts DEF Telling, Top
<1>2. Count("paren", stack) = Count("paren", t) + Weigh("paren", Top)
  <2> DEFINE f == Top
             s == stack
  <2>1. s = <<f>> \o t /\ f \in Frames /\ t \in Seq(Frames)
    BY <1>1
  <2> HIDE DEF f, t, s
  <2>2. Count("paren", s) = Count("paren", t) + Weigh("paren", f)
    BY <2>1, CountCons
  <2> QED
    BY <2>2 DEF f, s
<1>3. Count("paren", t) \in Nat
  BY <1>1, CountNat
<1>4. Top.at \in WaitLabel /\ Top.rule \in {"Opd", "Base"} =>
        Bounded(heap, res, Due(Top), Count("paren", stack))
  BY <1>1 DEF Telling, Tells, Placed, Holds
<1>5. Fits(heap, Top, t)
  BY HandsBear
<1>6. Poised(heap, Top, off)
  BY <1>1 DEF Telling, Tells
<1> QED
  BY <1>2, <1>3, <1>4, <1>5, <1>6 DEF Fits

LEMMA BaseTold ==
  ASSUME Telling, NEW es, Tracks(es), Base, ~ Failed'
  PROVE  Told
<1>1. pc = "run" /\ stack # << >> /\ Top.rule = "Base" /\ Marks(Top) = {} /\ OInv
  BY DEF Base, BaseStarts, BaseCloses, At, Marks, Pends, Telling
<1>2. CASE BaseStarts
  <2>1. Hands = << >> /\ Top.at = "start"
    BY <1>1, <1>2, NodesInHand DEF BaseStarts, At
  <2>2. \A what \in {"block", "paren", "if", "else"} : Weigh(what, Top) = 0
    BY <2>1, Weights
  <2>3. Slack(Top) = 0
    BY <1>1, Weights
  <2>4. CASE /\ Peek \in DOMAIN LeafTag /\ Consumes
             /\ ReturnsNew(LeafTag[Peek], off + 1, << >>)
    <3> DEFINE tag == LeafTag[Peek]
    <3>1. tag \in {"Var", "StrLit", "NumLit", "BoolLit"}
          /\ Peek \in {"Name", "StrLit", "NumLit", "False", "True"}
      BY <2>4 DEF LeafTag
    <3> HIDE DEF tag
    <3>2. off' = off + 1 /\ toks[off + 1] = Peek /\ off + 1 # 0 /\ off + 1 # off
      BY <2>4, NextRead DEF Consumes
    <3>3. off + 1 \in Words(Operand, off + 1)
      <4>1. Peek \in Operand
        BY <3>1, TokenKinds DEF Operand
      <4> QED
        BY <3>2, <4>1, NextRead DEF Words
    <3>4. Allocates(Object(tag, off + 1, Hands))
      BY <2>1, <2>4 DEF ReturnsNew, tag
    <3>5. \A n : Bounded(heap', next, n, Count("paren", Tail(stack)))
      <4>1. heap'[next].kids = << >>
        BY <2>1, <3>4, NewChanges
      <4>2. Rank(heap', next) = 0
        BY <4>1 DEF Rank
      <4> QED
        BY <4>2 DEF Bounded
    <3>6. Opens(heap, off + 1, Tail(stack), off + 1)
      BY <1>1, <2>2, NextOpens DEF Unopened
    <3>7. Balances(off + 1, 0, 0, 0, 0)
      <4>1. \A t \in {"LeftParen", "RightParen", "LeftBrace", "RightBrace", "If", "Else"} :
              Read(t, off + 1) = 0
        BY <3>1, NextRead
      <4>2. More({"IfStmt", "IfElseStmt"}) = 0 /\ More({"IfElseStmt"}) = 0
        BY <3>1, <3>4, MoreSame
      <4> QED
        BY <2>2, <2>3, <4>1, <4>2 DEF Balances
    <3>8. \A k : ~ Assigning(heap, Top, k)
      BY <1>1 DEF Assigning
    <3>9. toks[off + 1] # "Assign"
      BY <3>1, <3>2
    <3>10. ReturnsNew(tag, off + 1, << >>) /\ Hands = << >> /\ tag # "BlockStmt"
      BY <2>1, <2>4, <3>1 DEF tag
    <3> QED
      BY <1>1, <2>2, <3>2, <3>3, <3>5, <3>6, <3>7, <3>8, <3>9, <3>10, ReturnsNewTold
  <2>5. CASE Peek = "LeftParen" /\ Consumes /\ Calls(Expr, "expr", << >>, 0) /\ UNCHANGED memory
    <3>1. off' = off + 1 /\ toks[off + 1] = "LeftParen" /\ off + 1 # off
      BY <2>5, NextRead DEF Consumes
    <3>2. Clear(Top)
      BY <1>1, <2>2 DEF Clear, Unopened
    <3>3. ASSUME NEW f, Moved(f, "expr", << >>, 0)
          PROVE  Explains(f, Expr, off + 1)
      <4>1. f.rule = "Base" /\ f.at = "expr"
        BY <1>1, <3>3 DEF Moved
      <4>2. Weigh("paren", f) = 1 /\ Weigh("block", f) = 0 /\ Weigh("if", f) = 0
            /\ Weigh("else", f) = 0 /\ ~ Pends(f)
        BY <4>1, Weights DEF Pends
      <4>3. Slack(Expr) = 0
        BY Callees DEF Slack, Unopened
      <4>4. Read("LeftParen", off + 1) = 1
            /\ \A t \in {"RightParen", "LeftBrace", "RightBrace", "If", "Else"} : Read(t, off + 1) = 0
        BY <2>5, NextRead
      <4>5. toks[off + 1] \notin Operand
        BY <3>1, TokenKinds DEF Operand
      <4> QED
        BY <2>2, <3>1, <4>2, <4>3, <4>4, <4>5 DEF Explains
    <3>4. Expr \in Frames /\ Expr.at = "start" /\ Expr.held = << >>
      BY Callees
    <3>5. "expr" \in Label /\ "expr" \in WaitLabel /\ "expr" \in EmptyHanded
      BY DEF Label, WaitLabel, EmptyHanded
    <3> QED
      BY <1>1, <2>1, <2>5, <3>1, <3>2, <3>3, <3>4, <3>5, CallsTold
  <2> QED
    BY <1>2, <2>4, <2>5, FailuresFail DEF BaseStarts
<1>3. CASE BaseCloses
  <2>1. Top.at = "expr"
    BY <1>3 DEF BaseCloses, At
  <2>2. Hands = <<res>> /\ Weigh("block", Top) = 0 /\ Weigh("paren", Top) = 1
        /\ Weigh("if", Top) = 0 /\ Weigh("else", Top) = 0 /\ Slack(Top) = 0
    <3>1. ~ Failed
      BY DEF Telling
    <3> QED
      BY <1>1, <2>1, <3>1, NodesInHand, Weights
  <2>3. CASE Peek = "RightParen" /\ Consumes /\ Returns(res) /\ UNCHANGED memory
    <3>1. off' = off + 1 /\ toks[off + 1] = "RightParen" /\ off + 1 # off
      BY <2>3, NextRead DEF Consumes
    <3>2. \A n : Bounded(heap, res, n, Count("paren", Tail(stack)))
      <4> DEFINE p == Count("paren", Tail(stack))
                 d == Parens(heap[res].tok)
      <4>1. p \in Nat
        BY ToldBounds
      <4>2. Bounded(heap, res, 8, p + 1)
        <5>1. Top.at \in WaitLabel /\ Due(Top) = 8
          BY <1>1, <2>1 DEF WaitLabel, Due
        <5> QED
          BY <1>1, <2>2, <5>1, ToldBounds
      <4>3. d \in Int
        <5>1. res \in DOMAIN heap
          <6>1. 1 \in DOMAIN Hands /\ Hands[1] = res
            BY <2>2
          <6> QED
            BY <6>1, HandsAreFresh DEF Fresh
        <5>2. heap[res].tok \in Nat
          BY <1>1, <5>1 DEF OInv, TInv, TypeOK
        <5> QED
          BY <5>2, DepthInt
      <4>4. Rank(heap, res) = 0 \/ d > p + 1 \/ d = p + 1
        BY <4>2 DEF Bounded
      <4> HIDE DEF p, d
      <4>5. Rank(heap, res) = 0 \/ d > p
        BY <4>1, <4>3, <4>4
      <4> QED
        BY <4>5 DEF Bounded, p, d
    <3>3. Balances(off + 1, 0, 0, 0, 0)
      <4>1. Read("RightParen", off + 1) = 1
            /\ \A t \in {"LeftParen", "LeftBrace", "RightBrace", "If", "Else"} : Read(t, off + 1) = 0
        BY <2>3, NextRead
      <4>2. More({"IfStmt", "IfElseStmt"}) = 0 /\ More({"IfElseStmt"}) = 0
        BY <2>3, MoreSame DEF memory
      <4> QED
        BY <2>2, <4>1, <4>2 DEF Balances
    <3>4. toks[off + 1] \notin Operand \union {"Assign"}
      BY <3>1, TokenKinds DEF Operand
    <3> QED
      BY <1>1, <2>2, <2>3, <3>1, <3>2, <3>3, <3>4, ReturnsTold
  <2> QED
    BY <1>3, <2>3, FailuresFail DEF BaseCloses
<1> QED
  BY <1>2, <1>3 DEF Base

-----------------------------------------------------------------------------
(* Operators. *)

(* The level of an operator is that of the table its tag is in.            *)
LEMMA BinRank ==
  ASSUME NEW n \in 2 .. 8, NEW x \in DOMAIN BinTag[n]
  PROVE  /\ (CHOOSE m \in 2 .. 8 : BinTag[n][x] \in Range(BinTag[m])) = n
         /\ BinTag[n][x] \notin {"BlockStmt", "IfStmt", "IfElseStmt", "Seq", "Prog"}
         /\ x \in Operand
         /\ x \notin {"LeftParen", "RightParen", "LeftBrace", "RightBrace", "If", "Else", "Assign"}
<1>1. /\ Range(BinTag[2]) = {"BinExpOp"}
      /\ Range(BinTag[3]) = {"BinMulOp", "BinDivOp", "BinModOp"}
      /\ Range(BinTag[4]) = {"BinAddOp", "BinSubOp"}
      /\ Range(BinTag[5]) = {"RelLtOp", "RelLteOp", "RelGtOp", "RelGteOp"}
      /\ Range(BinTag[6]) = {"RelEquOp", "RelNeqOp"}
      /\ Range(BinTag[7]) = {"LogAndOp"}
      /\ Range(BinTag[8]) = {"LogOrOp"}
  BY DEF BinTag, Range
<1>2. \A m \in 2 .. 8 : m = 2 \/ m = 3 \/ m = 4 \/ m = 5 \/ m = 6 \/ m = 7 \/ m = 8
  OBVIOUS
<1> DEFINE tag == BinTag[n][x]
<1>3. tag \in Range(BinTag[n])
  BY DEF Range
<1> HIDE DEF tag
<1>4. ASSUME NEW m \in 2 .. 8, tag \in Range(BinTag[m])
      PROVE  m = n
  <2> DEFINE R(k) == Range(BinTag[k])
  <2>1. tag \in R(m) /\ tag \in R(n)
    BY <1>3, <1>4
  <2>2. /\ R(2) = {"BinExpOp"}
        /\ R(3) = {"BinMulOp", "BinDivOp", "BinModOp"}
        /\ R(4) = {"BinAddOp", "BinSubOp"}
        /\ R(5) = {"RelLtOp", "RelLteOp", "RelGtOp", "RelGteOp"}
        /\ R(6) = {"RelEquOp", "RelNeqOp"}
        /\ R(7) = {"LogAndOp"}
        /\ R(8) = {"LogOrOp"}
    BY <1>1
  <2> HIDE DEF R
  <2> QED
    BY <1>2, <2>1, <2>2
<1>5. (CHOOSE m \in 2 .. 8 : tag \in Range(BinTag[m])) = n
  BY <1>3, <1>4
<1>6. tag \notin {"BlockStmt", "IfStmt", "IfElseStmt", "Seq", "Prog"}
  BY <1>1, <1>2, <1>3
<1>7. x \in Infix
  BY DEF Infix
<1> QED
  BY <1>5, <1>6, <1>7, TokenKinds DEF Operand, tag

LEMMA UnaryTokens ==
  ASSUME NEW x \in DOMAIN UnaTag
  PROVE  /\ x \in Operand
         /\ x \notin {"LeftParen", "RightParen", "LeftBrace", "RightBrace", "If", "Else", "Assign"}
         /\ UnaTag[x] \in {"UnaPlusOp", "UnaMinusOp", "LogNotOp"}
<1>1. x \in Prefix
  BY DEF Prefix
<1> QED
  BY <1>1, TokenKinds DEF Operand, UnaTag

(* A rule of operators weighs nothing. *)
LEMMA OpdWeighs ==
  ASSUME NEW f, f.rule = "Opd"
  PROVE  /\ \A what \in {"block", "paren", "if", "else"} : Weigh(what, f) = 0
         /\ Slack(f) = 0 /\ ~ Unopened(f)
         /\ f.at \notin {"opd", "rhs"} => Marks(f) = {} /\ Clear(f) /\ ~ Pends(f)
<1>1. (\A what \in {"block", "paren", "if", "else"} : Weigh(what, f) = 0) /\ Slack(f) = 0
  BY Weights
<1>2. ~ Unopened(f)
  BY DEF Unopened
<1>3. f.at \notin {"opd", "rhs"} => Marks(f) = {} /\ ~ Pends(f)
  BY DEF Marks, Pends
<1> QED
  BY <1>1, <1>2, <1>3 DEF Clear

(* It consumes an operator and calls for an operand. *)
LEMMA OperatorCalls ==
  ASSUME Telling, Top.rule = "Opd", Top.at \notin {"opd", "rhs"}, Consumes,
         Peek \in Operand,
         Peek \notin {"LeftParen", "RightParen", "LeftBrace", "RightBrace", "If", "Else", "Assign"},
         NEW n \in 1 .. 8, NEW at \in {"opd", "rhs"},
         NEW held, held = Hands, held # << >> \/ at = "opd",
         at # "opd" => Top.lvl # 1,
         Calls(Opd(n), at, held, off + 1), UNCHANGED memory,
         at = "rhs" => Bounded(heap, Hands[1], LeftOpd(Top.lvl), Count("paren", Tail(stack)))
  PROVE  Told
<1>1. off' = off + 1 /\ toks[off + 1] = Peek /\ off + 1 # off /\ off + 1 \in Nat
  BY NextRead DEF Consumes
<1>2. Clear(Top) /\ Weigh("if", Top) = 0 /\ Weigh("else", Top) = 0
  BY OpdWeighs
<1>3. ASSUME NEW f, Moved(f, at, held, off + 1)
      PROVE  Explains(f, Opd(n), off + 1)
  <2>1. f.rule = "Opd" /\ f.at = at /\ f.tok = off + 1
    BY <1>3 DEF Moved
  <2>2. Pends(f) /\ \A what \in {"block", "paren", "if", "else"} : Weigh(what, f) = 0
    BY <2>1, OpdWeighs DEF Pends
  <2>3. Slack(Opd(n)) = 0
    BY Callees, OpdWeighs
  <2>4. \A t \in {"LeftParen", "RightParen", "LeftBrace", "RightBrace", "If", "Else"} :
          Read(t, off + 1) = 0
    BY NextRead
  <2> QED
    BY <1>1, <1>2, <2>1, <2>2, <2>3, <2>4 DEF Explains
<1>4. /\ Opd(n) \in Frames /\ Opd(n).at = "start" /\ Opd(n).held = << >>
      /\ at \in Label /\ at \in WaitLabel /\ (at \in EmptyHanded \/ held # << >>)
  BY Callees DEF Label, WaitLabel, EmptyHanded
<1>5. Top.rule \notin {"Block", "Prog"}
  OBVIOUS
<1> QED
  BY <1>1, <1>2, <1>3, <1>4, <1>5, CallsTold

LEMMA UnaryTold ==
  ASSUME Telling, NEW es, Tracks(es), Unary, ~ Failed', pc' = "run"
  PROVE  Told
<1>1. pc = "run" /\ stack # << >> /\ Top.rule = "Opd" /\ OInv /\ ~ Failed
  BY DEF Unary, UnaryStarts, UnaryEnds, At, Telling
<1>2. CASE UnaryStarts
  <2>1. Hands = << >> /\ Top.at = "start"
    BY <1>1, <1>2, NodesInHand DEF UnaryStarts, At
  <2>2. CASE Crashes
    BY <2>2 DEF Crashes
  <2>3. CASE /\ Peek \in DOMAIN UnaTag /\ Consumes
             /\ Calls(Opd(1), "opd", << >>, off + 1) /\ UNCHANGED memory
    BY <1>1, <2>1, <2>3, UnaryTokens, OperatorCalls
  <2>4. CASE Looks /\ Becomes(Frame("Base", 0)) /\ UNCHANGED memory
    <3> DEFINE f == Frame("Base", 0)
    <3>1. f \in Frames /\ f.rule = "Base" /\ f.at = "start" /\ f.held = << >>
      BY Callees DEF Rule
    <3>2. off' = off /\ stack' = <<f>> \o Tail(stack) /\ res' = res
      BY <2>4 DEF Looks, parser, Becomes
    <3> HIDE DEF f
    <3>3. f.at \notin WaitLabel /\ Slack(f) = 0 /\ Poised(heap, f, off)
      BY <3>1 DEF WaitLabel, Slack, Unopened, Poised
    <3>4. Weigh("block", Top) = 0 /\ Marks(Top) = {}
      BY <1>1, <2>1, OpdWeighs
    <3>5. Balances(off, 0, 0 - Slack(f), 0, 0)
      <4>1. More({"IfStmt", "IfElseStmt"}) = 0 /\ More({"IfElseStmt"}) = 0
        BY <2>4, MoreSame DEF memory
      <4> QED
        BY <1>1, <3>3, <4>1, OpdWeighs, NextRead DEF Balances
    <3> QED
      BY <1>1, <2>1, <2>4, <3>1, <3>2, <3>3, <3>4, <3>5, StaysTold
  <2> QED
    BY <1>2, <2>2, <2>3, <2>4 DEF UnaryStarts
<1>3. CASE UnaryEnds
  <2>1. Top.at = "opd" /\ Hands = <<res>>
    BY <1>1, <1>3, NodesInHand DEF UnaryEnds, At
  <2>2. CASE Looks /\ ReturnsNew(UnaTag[toks[Top.tok]], Top.tok, <<res>>)
    <3> DEFINE k == Top.tok
               tag == UnaTag[toks[k]]
               t == Tail(stack)
               p == Count("paren", t)
    <3>1. toks[k] \in DOMAIN UnaTag /\ Top.lvl = 1
      BY <1>1, <2>1, OperatorTyped, NullNotInTable DEF OInv
    <3>2. tag \in {"UnaPlusOp", "UnaMinusOp", "LogNotOp"} /\ toks[k] \in Operand
      BY <3>1, UnaryTokens
    <3>3. Pends(Top) /\ Marks(Top) = {k}
      BY <1>1, <2>1 DEF Pends, Marks
    <3>4. Opens(heap, k, t, off) /\ Precedes({k}, Span(heap, res))
      BY <3>3, HandsBear
    <3>5. Bounded(heap, res, 1, p)
      <4>1. Due(Top) = 1 /\ Top.at \in WaitLabel
        BY <1>1, <2>1 DEF Due, WaitLabel
      <4>2. Weigh("paren", Top) = 0 /\ p \in Nat
        BY <1>1, OpdWeighs, ToldBounds
      <4>3. p + 0 = p
        BY <4>2
      <4> QED
        BY <1>1, <4>1, <4>2, <4>3, ToldBounds
    <3> HIDE DEF tag, k
    <3>6. Allocates(Object(tag, k, Hands)) /\ off' = off
      BY <2>1, <2>2 DEF ReturnsNew, Looks, parser, tag, k
    <3>7. /\ Changes(heap, heap', next) /\ next \notin Fresh(heap, mark)
          /\ heap'[next].kids = <<res>> /\ heap'[next].tok = k
      BY <2>1, <3>6, NewChanges
    <3>8. Span(heap', res) = Span(heap, res) /\ Bounded(heap', res, 1, p)
      <4>1. res \in Fresh(heap, mark)
        <5>1. 1 \in DOMAIN Hands /\ Hands[1] = res
          BY <2>1
        <5> QED
          BY <5>1, HandsAreFresh
      <4>2. Closed(heap)
        BY DEF Telling, Tells, Placed
      <4> QED
        BY <3>5, <3>7, <4>1, <4>2, SpanSteady
    <3>9. Rank(heap', next) = 1 /\ Parens(heap'[next].tok) = p
      BY <3>4, <3>7 DEF Rank, Opens
    <3>10. WellPut(heap', next)
      <4>1. Len(heap'[next].kids) = 1 /\ heap'[next].kids[1] = res
        BY <3>7
      <4> QED
        BY <3>4, <3>7, <3>8, <3>9, <4>1 DEF WellPut
    <3>11. \A n : IsOpd(Top, n) => Bounded(heap', next, n, p)
      <4>1. 1 \in 0 .. 1
        OBVIOUS
      <4> QED
        BY <1>1, <3>1, <3>9, <4>1 DEF IsOpd, Bounded
    <3>12. k \in Words(Operand, off)
      BY <3>2, <3>4 DEF Words, Opens, k
    <3>13. Balances(off, 0, 0, 0, 0)
      <4>1. More({"IfStmt", "IfElseStmt"}) = 0 /\ More({"IfElseStmt"}) = 0
        BY <3>2, <3>6, MoreSame
      <4> QED
        BY <1>1, <4>1, OpdWeighs, NextRead DEF Balances
    <3>14. \A j : ~ Assigning(heap, Top, j)
      BY <1>1 DEF Assigning
    <3>15. ReturnsNew(tag, k, Hands)
      BY <2>1, <2>2 DEF tag, k
    <3>16. Weigh("block", Top) = 0 /\ tag # "BlockStmt" /\ Marks(Top) = {k}
           /\ ~ (Top.rule = "Opd" /\ Top.lvl \in {2, 8})
      BY <1>1, <3>1, <3>2, <3>3, OpdWeighs DEF k
    <3> QED
      BY <1>1, <3>4, <3>6, <3>10, <3>11, <3>12, <3>13, <3>14, <3>15, <3>16, ReturnsNewTold
  <2> QED
    BY <1>3, <2>2, FailuresFail DEF UnaryEnds
<1> QED
  BY <1>2, <1>3 DEF Unary

-----------------------------------------------------------------------------
(* Binary operators. *)

LEMMA BoundedMore ==
  ASSUME NEW h, NEW c, NEW p, NEW n \in Int, NEW m \in Int, n <= m, Bounded(h, c, n, p)
  PROVE  Bounded(h, c, m, p)
<1>1. 0 .. n \subseteq 0 .. m
  OBVIOUS
<1> QED
  BY <1>1 DEF Bounded

(* What the left operand binds, before a further operator and without one. *)
LEMMA LeftBound ==
  ASSUME Telling, Top.rule = "Opd", Top.at \in {"lhs", "loop"}, NEW lhs, Hands = <<lhs>>
  PROVE  LET p == Count("paren", Tail(stack))
         IN  /\ Bounded(heap, lhs, Top.lvl, p)
             /\ Peek \in DOMAIN BinTag[Top.lvl] => Bounded(heap, lhs, LeftOpd(Top.lvl), p)
             /\ Top.lvl \in 2 .. 8
<1> DEFINE p == Count("paren", Tail(stack))
           n == Top.lvl
<1>1. n \in 2 .. 8
  <2>1. Top \in Frames
    BY TellingParts
  <2>2. n \in 1 .. 8 /\ n # 1
    BY <2>1 DEF Frames
  <2> QED
    BY <2>2
<1>2. OInv /\ pc = "run" /\ stack # << >> /\ ~ Failed
  BY DEF Telling
<1>3. p \in Nat /\ Weigh("paren", Top) = 0
  BY ToldBounds, OpdWeighs
<1>4. CASE Top.at = "lhs"
  <2>1. lhs = res
    <3>1. <<lhs>> = <<res>>
      BY <1>2, <1>4, NodesInHand
    <3>2. <<lhs>>[1] = lhs /\ <<res>>[1] = res
      OBVIOUS
    <3> QED
      BY <3>1, <3>2
  <2>2. Due(Top) = n - 1 /\ Top.at \in WaitLabel
    BY <1>4 DEF Due, WaitLabel
  <2>3. p + 0 = p
    BY <1>3
  <2>4. Bounded(heap, lhs, n - 1, p)
    BY <1>3, <2>1, <2>2, <2>3, ToldBounds
  <2> HIDE DEF n, p
  <2>5. n - 1 \in Int /\ n \in Int /\ n - 1 <= n /\ LeftOpd(n) \in {n - 1, n}
    BY <1>1 DEF LeftOpd
  <2>6. Bounded(heap, lhs, n, p)
    BY <2>4, <2>5, BoundedMore
  <2> QED
    BY <1>1, <2>4, <2>5, <2>6 DEF n, p
<1>5. CASE Top.at = "loop"
  <2>1. lhs = Top.held[1]
    <3>1. Top.held = <<lhs>>
      BY <1>2, <1>5, NodesInHand
    <3> QED
      BY <3>1
  <2>2. Bounded(heap, lhs, n, p)
    BY <1>5, <2>1, ToldBounds DEF Lower
  <2>3. n \in {2, 8} => Peek \notin DOMAIN BinTag[n]
    BY <1>5, ToldBounds, NextRead DEF Poised
  <2>4. n \notin {2, 8} => LeftOpd(n) = n
    BY DEF LeftOpd
  <2> QED
    BY <1>1, <2>2, <2>3, <2>4
<1> QED
  BY <1>4, <1>5

LEMMA BinaryLoopsTold ==
  ASSUME Telling, NEW es, Tracks(es), Top.rule = "Opd", Top.at \in {"lhs", "loop"},
         NEW lhs, Hands = <<lhs>>, BinaryLoops(lhs), pc' = "run"
  PROVE  Told
<1> DEFINE p == Count("paren", Tail(stack))
<1>1. /\ Bounded(heap, lhs, Top.lvl, p)
      /\ Peek \in DOMAIN BinTag[Top.lvl] => Bounded(heap, lhs, LeftOpd(Top.lvl), p)
      /\ Top.lvl \in 2 .. 8
  BY LeftBound
<1>2. CASE Crashes
  BY <1>2 DEF Crashes
<1>3. CASE /\ Peek \in DOMAIN BinTag[Top.lvl] /\ Consumes
           /\ Calls(Opd(RightOpd(Top.lvl)), "rhs", <<lhs>>, off + 1) /\ UNCHANGED memory
  <2>1. /\ Peek \in Operand
        /\ Peek \notin {"LeftParen", "RightParen", "LeftBrace", "RightBrace", "If", "Else", "Assign"}
    BY <1>1, <1>3, BinRank
  <2>2. RightOpd(Top.lvl) \in 1 .. 8 /\ Top.lvl # 1
    BY <1>1 DEF RightOpd
  <2>3. Hands # << >> /\ Hands[1] = lhs
    OBVIOUS
  <2>4. Bounded(heap, Hands[1], LeftOpd(Top.lvl), p)
    BY <1>1, <1>3, <2>3
  <2> QED
    BY <1>3, <2>1, <2>2, <2>3, <2>4, OperatorCalls
<1>4. CASE /\ Peek \notin DOMAIN BinTag[Top.lvl] /\ Looks /\ Returns(lhs) /\ UNCHANGED memory
  <2>1. off' = off /\ Weigh("block", Top) = 0 /\ Marks(Top) = {}
    BY <1>4, OpdWeighs DEF Looks, parser
  <2>2. \A n : IsOpd(Top, n) => Bounded(heap, lhs, n, p)
    BY <1>1 DEF IsOpd
  <2>3. toks[off + 1] \notin DOMAIN BinTag[Top.lvl]
    BY <1>4, NextRead
  <2>4. Balances(off, 0, 0, 0, 0)
    <3>1. More({"IfStmt", "IfElseStmt"}) = 0 /\ More({"IfElseStmt"}) = 0
      BY <1>4, MoreSame DEF memory
    <3> QED
      BY <3>1, OpdWeighs, NextRead DEF Balances
  <2> QED
    BY <1>4, <2>1, <2>2, <2>3, <2>4, ReturnsTold
<1> QED
  BY <1>2, <1>3, <1>4 DEF BinaryLoops

(* The node of an operator between the operands in hand. *)
LEMMA OperatorNode ==
  ASSUME Telling, Top.rule = "Opd", Top.at = "rhs",
         Allocates(Object(BinTag[Top.lvl][toks[Top.tok]], Top.tok, Hands))
  PROVE  /\ Top.tok \in Words(Operand, off) /\ Opens(heap, Top.tok, Tail(stack), off)
         /\ WellPut(heap', next)
         /\ Bounded(heap', next, Top.lvl, Count("paren", Tail(stack)))
         /\ BinTag[Top.lvl][toks[Top.tok]] \notin {"BlockStmt", "IfStmt", "IfElseStmt"}
<1> DEFINE n == Top.lvl
           k == Top.tok
           tag == BinTag[n][toks[k]]
           p == Count("paren", Tail(stack))
           lhs == Top.held[1]
<1>1. OInv /\ pc = "run" /\ stack # << >> /\ ~ Failed
  BY DEF Telling
<1>2. n \in 2 .. 8 /\ toks[k] \in DOMAIN BinTag[n]
  <2>1. Top \in Frames
    BY TellingParts
  <2>2. n \in 1 .. 8 /\ n # 1
    BY <2>1 DEF Frames
  <2> QED
    BY <1>1, <2>2, OperatorTyped DEF OInv
<1>3. /\ (CHOOSE m \in 2 .. 8 : tag \in Range(BinTag[m])) = n
      /\ tag \notin {"BlockStmt", "IfStmt", "IfElseStmt"} /\ toks[k] \in Operand
  BY <1>2, BinRank
<1>4. Pends(Top)
  BY DEF Pends
<1>5. /\ Opens(heap, k, Tail(stack), off)
      /\ Precedes(Spans(heap, Top.held), {k}) /\ Precedes({k}, Span(heap, res))
  BY <1>4, HandsBear
<1>6. Hands = <<lhs, res>> /\ Top.held = <<lhs>>
  BY <1>1, NodesInHand, HandsByLabel, LabelsCarry
<1>7. Bounded(heap, lhs, LeftOpd(n), p)
  BY ToldBounds DEF Lower
<1>8. Bounded(heap, res, RightOpd(n), p)
  <2>1. Due(Top) = RightOpd(n) /\ Top.at \in WaitLabel
    BY DEF Due, WaitLabel
  <2>2. Weigh("paren", Top) = 0 /\ p \in Nat
    BY OpdWeighs, ToldBounds
  <2>3. p + 0 = p
    BY <2>2
  <2> QED
    BY <2>1, <2>2, <2>3, ToldBounds
<1> HIDE DEF tag, k, n, lhs
<1>9. /\ Changes(heap, heap', next) /\ next \notin Fresh(heap, mark)
      /\ heap'[next].kids = <<lhs, res>> /\ heap'[next].tok = k /\ heap'[next].tag = tag
  <2>1. Allocates(Object(tag, k, Hands))
    BY DEF tag, k, n
  <2> QED
    BY <1>6, <2>1, NewChanges
<1>10. lhs \in Fresh(heap, mark) /\ res \in Fresh(heap, mark)
  <2>1. 1 \in DOMAIN Hands /\ 2 \in DOMAIN Hands /\ Hands[1] = lhs /\ Hands[2] = res
    BY <1>6
  <2> QED
    BY <2>1, HandsAreFresh
<1>11. Closed(heap)
  BY DEF Telling, Tells, Placed
<1>12. Span(heap', lhs) = Span(heap, lhs) /\ Bounded(heap', lhs, LeftOpd(n), p)
  BY <1>7, <1>9, <1>10, <1>11, SpanSteady
<1>13. Span(heap', res) = Span(heap, res) /\ Bounded(heap', res, RightOpd(n), p)
  BY <1>8, <1>9, <1>10, <1>11, SpanSteady
<1>14. Precedes(Span(heap, lhs), {k})
  BY <1>5, <1>6, SpansOne DEF k
<1>15. Len(heap'[next].kids) = 2 /\ heap'[next].kids[1] = lhs /\ heap'[next].kids[2] = res
  BY <1>9
<1>16. Rank(heap', next) = n /\ Parens(heap'[next].tok) = p
  <2>1. Rank(heap', next) = (CHOOSE m \in 2 .. 8 : tag \in Range(BinTag[m]))
    BY <1>9, <1>15 DEF Rank
  <2> QED
    BY <1>3, <1>5, <1>9, <2>1 DEF Opens, k, tag, n
<1>17. WellPut(heap', next)
  <2>1. n \in 1 .. 8
    BY <1>2
  <2> QED
    BY <1>5, <1>9, <1>12, <1>13, <1>14, <1>15, <1>16, <2>1 DEF WellPut, k
<1>18. Bounded(heap', next, n, p)
  <2>1. n \in 0 .. n
    BY <1>2 DEF n
  <2> QED
    BY <1>16, <2>1 DEF Bounded
<1>19. k \in Words(Operand, off)
  BY <1>3, <1>5 DEF Words, Opens, k
<1> QED
  BY <1>3, <1>5, <1>17, <1>18, <1>19 DEF k, n, tag

LEMMA BinaryTold ==
  ASSUME Telling, NEW es, Tracks(es), Binary, ~ Failed', pc' = "run"
  PROVE  Told
<1>1. pc = "run" /\ stack # << >> /\ Top.rule = "Opd" /\ OInv /\ ~ Failed
  BY DEF Binary, BinaryStarts, BinaryHasLhs, BinaryAgain, BinaryHasRhs, At, Telling
<1>2. CASE BinaryStarts
  <2> DEFINE c == Opd(Top.lvl - 1)
  <2>1. Hands = << >> /\ Top.at = "start" /\ Top.lvl # 1
    BY <1>1, <1>2, NodesInHand DEF BinaryStarts, At
  <2>2. Looks /\ off' = off /\ Calls(c, "lhs", << >>, 0) /\ UNCHANGED memory
    BY <1>2 DEF BinaryStarts, Looks, parser
  <2>3. Top.lvl - 1 \in 1 .. 8
    <3>1. Top \in Frames
      BY TellingParts
    <3>2. Top.lvl \in 1 .. 8
      BY <1>1, <3>1 DEF Frames
    <3> QED
      BY <2>1, <3>2
  <2>4. c \in Frames /\ c.at = "start" /\ c.held = << >> /\ c.rule = "Opd"
    BY <2>3, Callees
  <2> HIDE DEF c
  <2>5. Clear(Top) /\ Weigh("if", Top) = 0 /\ Weigh("else", Top) = 0
    BY <1>1, <2>1, OpdWeighs
  <2>6. ASSUME NEW f, Moved(f, "lhs", << >>, 0)
        PROVE  Explains(f, c, off)
    <3>1. f.rule = "Opd" /\ f.at = "lhs"
      BY <1>1, <2>6 DEF Moved
    <3>2. ~ Pends(f) /\ \A what \in {"block", "paren", "if", "else"} : Weigh(what, f) = 0
      BY <3>1, OpdWeighs
    <3>3. Slack(c) = 0
      BY <2>4, OpdWeighs
    <3> QED
      BY <2>5, <3>2, <3>3, NextRead DEF Explains
  <2>7. "lhs" \in Label /\ "lhs" \in WaitLabel /\ "lhs" \in EmptyHanded
    BY DEF Label, WaitLabel, EmptyHanded
  <2> QED
    BY <1>1, <2>1, <2>2, <2>4, <2>5, <2>6, <2>7, CallsTold
<1>3. CASE BinaryHasLhs
  <2>1. Top.at = "lhs" /\ Hands = <<res>>
    BY <1>1, <1>3, NodesInHand DEF BinaryHasLhs, At
  <2>2. CASE BinaryLoops(res)
    BY <1>1, <2>1, <2>2, BinaryLoopsTold
  <2> QED
    BY <1>3, <2>2, FailuresFail DEF BinaryHasLhs
<1>4. CASE BinaryAgain
  <2> DEFINE lhs == Top.held[1]
  <2>1. Top.at = "loop" /\ Hands = <<lhs>>
    BY <1>1, <1>4, NodesInHand DEF BinaryAgain, At
  <2>2. BinaryLoops(lhs)
    BY <1>4 DEF BinaryAgain
  <2> HIDE DEF lhs
  <2> QED
    BY <1>1, <2>1, <2>2, BinaryLoopsTold
<1>5. CASE BinaryHasRhs
  <2> DEFINE lhs == Top.held[1]
             k == Top.tok
             tag == BinTag[Top.lvl][toks[k]]
  <2>1. Top.at = "rhs" /\ Hands = <<lhs, res>>
    BY <1>1, <1>5, NodesInHand DEF BinaryHasRhs, At
  <2>2. CASE Looks /\ Allocates(Object(tag, k, <<lhs, res>>)) /\ Stays("loop", <<next>>)
    <3>1. Allocates(Object(tag, k, Hands)) /\ off' = off /\ Stays("loop", <<next>>)
      BY <2>1, <2>2 DEF Looks, parser
    <3>2. /\ k \in Words(Operand, off) /\ Opens(heap, k, Tail(stack), off)
          /\ WellPut(heap', next)
          /\ Bounded(heap', next, Top.lvl, Count("paren", Tail(stack)))
          /\ tag \notin {"BlockStmt", "IfStmt", "IfElseStmt"}
      BY <1>1, <2>1, <3>1, OperatorNode
    <3>3. Marks(Top) = {k} /\ Weigh("block", Top) = 0
      BY <1>1, <2>1, OpdWeighs DEF Marks, Pends
    <3> HIDE DEF tag, k
    <3>4. ASSUME NEW f, Moved(f, "loop", <<next>>, Top.tok)
          PROVE  Balances(off, 0, 0 - Slack(f), 0, 0) /\ Poised(heap', f, off)
      <4>1. f.rule = "Opd" /\ f.at = "loop" /\ f.lvl = Top.lvl
        BY <1>1, <3>4 DEF Moved
      <4>2. Slack(f) = 0
        BY <4>1, OpdWeighs
      <4>3. Poised(heap', f, off)
        BY <1>1, <2>1, <4>1, ToldBounds DEF Poised
      <4>4. More({"IfStmt", "IfElseStmt"}) = 0 /\ More({"IfElseStmt"}) = 0
        BY <3>1, <3>2, MoreSame
      <4> QED
        BY <1>1, <4>2, <4>3, <4>4, OpdWeighs, NextRead DEF Balances
    <3>5. Top.lvl # 1
      <4>1. Top \in Frames
        BY TellingParts
      <4> QED
        BY <1>1, <2>1, <4>1 DEF Frames
    <3>6. "loop" \in Label \ WaitLabel
      BY DEF Label, WaitLabel
    <3> QED
      BY <1>1, <2>1, <3>1, <3>2, <3>3, <3>4, <3>5, <3>6, StaysNewTold
  <2> QED
    BY <1>5, <2>2, FailuresFail DEF BinaryHasRhs
<1> QED
  BY <1>2, <1>3, <1>4, <1>5 DEF Binary

-----------------------------------------------------------------------------
(* Assignments. *)

(* The assignment whose sign is token k is made of what is in hand. *)
LEMMA AssignmentNode ==
  ASSUME Telling, Top.rule = "AsgnStmt", Top.at = "rhs",
         Allocates(Object("AsgnStmt", 0, Hands)),
         NEW k \in 1 .. off, Assigning(heap, Top, k), toks[k] = "Assign"
  PROVE  Done(heap', k)
<1> DEFINE lhs == Top.held[1]
<1>1. OInv /\ pc = "run" /\ stack # << >> /\ ~ Failed
  BY DEF Telling
<1>2. Hands = <<lhs, res>>
  BY <1>1, NodesInHand
<1>3. heap[lhs].tok = k - 1
  BY DEF Assigning
<1> HIDE DEF lhs
<1>4. /\ Changes(heap, heap', next) /\ next \notin Fresh(heap, mark) /\ next \in Fresh(heap', mark)
      /\ heap'[next].kids = <<lhs, res>> /\ heap'[next].tag = "AsgnStmt"
  BY <1>2, NewChanges
<1>5. lhs \in Fresh(heap, mark) /\ res \in Fresh(heap, mark)
      /\ 1 \in DOMAIN Hands /\ 2 \in DOMAIN Hands /\ Hands[1] = lhs /\ Hands[2] = res
  <2>1. 1 \in DOMAIN Hands /\ 2 \in DOMAIN Hands /\ Hands[1] = lhs /\ Hands[2] = res
    BY <1>2
  <2> QED
    BY <2>1, HandsAreFresh
<1>6. Closed(heap) /\ Sound(heap, off)
  BY DEF Telling, Tells, Placed
<1>7. heap'[lhs] = heap[lhs] /\ Span(heap', res) = Span(heap, res)
  BY <1>4, <1>5, <1>6, SpanSteady
<1>8. Precedes(Span(heap, lhs), Span(heap, res))
  <2>1. InRow(heap, Hands) /\ 1 < 2
    BY HandsBear DEF Bears
  <2> QED
    BY <1>5, <2>1 DEF InRow
<1>9. k \in Nat /\ k >= 1
  OBVIOUS
<1>10. \A b \in Span(heap, res) : b \in Nat \ {0} /\ b # k
  <2> TAKE b \in Span(heap, res)
  <2>1. PICK j \in heap[res].ids : b = heap[j].tok /\ b # 0
    BY DEF Span
  <2>2. j \in Fresh(heap, mark)
    BY <1>5, <1>6, <2>1 DEF Closed, Encloses
  <2>3. b \in Words(Operand, off)
    BY <1>6, <2>1, <2>2 DEF Sound
  <2>4. b \in 1 .. off /\ toks[b] \in Operand
    BY <2>3 DEF Words
  <2>5. "Assign" \notin Operand
    BY TokenKinds DEF Operand
  <2> QED
    BY <2>1, <2>4, <2>5
<1>11. Precedes({k}, Span(heap, res))
  <2>1. CASE k = 1
    BY <1>10, <2>1 DEF Precedes
  <2>2. CASE k # 1
    <3>1. k - 1 \in Span(heap, lhs)
      <4>1. lhs \in heap[lhs].ids
        BY <1>5, <1>6 DEF Closed, Encloses
      <4>2. k - 1 # 0
        BY <1>9, <2>2
      <4> QED
        BY <1>3, <4>1, <4>2 DEF Span, lhs
    <3>2. \A b \in Span(heap, res) : k - 1 < b
      BY <1>8, <3>1 DEF Precedes
    <3>3. \A b \in Span(heap, res) : k < b
      BY <1>9, <1>10, <3>2
    <3> QED
      BY <3>3 DEF Precedes
  <2> QED
    BY <2>1, <2>2
<1>12. Assigns(heap', next, k)
  <2>1. /\ DOMAIN heap'[next].kids = 1 .. 2
        /\ heap'[next].kids[1] = lhs /\ heap'[next].kids[2] = res
    BY <1>4
  <2>2. heap'[lhs].tok = k - 1
    BY <1>3, <1>7 DEF lhs
  <2> QED
    BY <1>4, <1>7, <1>11, <2>1, <2>2 DEF Assigns
<1> QED
  BY <1>4, <1>12 DEF Done

LEMMA AsgnTold ==
  ASSUME Telling, NEW es, Tracks(es), AsgnStmt, ~ Failed', pc' = "run"
  PROVE  Told
<1>1. pc = "run" /\ stack # << >> /\ Top.rule = "AsgnStmt" /\ OInv /\ ~ Failed
  BY DEF AsgnStmt, AssignStarts, AssignHasLhs, AssignEnds, At, Telling
<1>2. /\ \A what \in {"block", "paren", "if", "else"} : Weigh(what, Top) = 0
      /\ Slack(Top) = 0 /\ Marks(Top) = {} /\ ~ Unopened(Top)
  BY <1>1, Weights DEF Marks, Pends, Unopened
<1> DEFINE lhs == Top.held[1]
<1>3. CASE AssignStarts
  <2>1. Top.at = "start" /\ Hands = << >>
    BY <1>1, <1>3, NodesInHand DEF AssignStarts, At
  <2>2. CASE /\ Peek = "Name" /\ Consumes
             /\ Allocates(Object("Var", off + 1, << >>)) /\ Stays("assign", <<next>>)
    <3>1. /\ off' = off + 1 /\ toks[off + 1] = "Name" /\ off + 1 # off
          /\ Allocates(Object("Var", off + 1, Hands))
      BY <2>1, <2>2, NextRead DEF Consumes
    <3>2. off + 1 \in Words(Operand, off + 1)
      <4>1. "Name" \in Operand
        BY TokenKinds DEF Operand
      <4> QED
        BY <3>1, <4>1, NextRead DEF Words
    <3>3. Opens(heap, off + 1, Tail(stack), off + 1)
      BY <1>2, NextOpens
    <3>4. heap'[next].tok = off + 1
      BY <3>1, NewChanges
    <3>5. ASSUME NEW f, Moved(f, "assign", <<next>>, Top.tok)
          PROVE  Balances(off + 1, 0, 0 - Slack(f), 0, 0) /\ Poised(heap', f, off + 1)
      <4>1. f.rule = "AsgnStmt" /\ f.at = "assign" /\ f.held = <<next>>
        BY <1>1, <3>5 DEF Moved
      <4>2. Slack(f) = 0
        BY <4>1, Weights
      <4>3. f.held[1] = next
        BY <4>1
      <4>4. Poised(heap', f, off + 1)
        BY <3>4, <4>1, <4>3 DEF Poised
      <4>5. More({"IfStmt", "IfElseStmt"}) = 0 /\ More({"IfElseStmt"}) = 0
        BY <3>1, MoreSame
      <4>6. \A t \in {"LeftParen", "RightParen", "LeftBrace", "RightBrace", "If", "Else"} :
              Read(t, off + 1) = 0
        BY <2>2, NextRead
      <4> QED
        BY <1>2, <4>2, <4>4, <4>5, <4>6 DEF Balances
    <3>6. "assign" \in Label \ WaitLabel
      BY DEF Label, WaitLabel
    <3> QED
      BY <1>1, <1>2, <2>1, <2>2, <3>1, <3>2, <3>3, <3>5, <3>6, StaysNewTold
  <2> QED
    BY <1>3, <2>2, FailuresFail DEF AssignStarts
<1>4. CASE AssignHasLhs
  <2>1. Top.at = "assign" /\ Hands = Top.held /\ Top.held # << >>
    <3>1. Top.at = "assign" /\ Hands = Top.held /\ Len(Top.held) = 1
      BY <1>1, <1>4, NodesInHand DEF AssignHasLhs, At
    <3>2. Len(<< >>) = 0
      OBVIOUS
    <3> QED
      BY <3>1, <3>2
  <2>2. CASE Peek = "Assign" /\ Consumes /\ Calls(Expr, "rhs", Top.held, 0) /\ UNCHANGED memory
    <3>1. off' = off + 1 /\ toks[off + 1] = "Assign" /\ off + 1 # off
      BY <2>2, NextRead DEF Consumes
    <3>2. Clear(Top)
      BY <1>2, <2>1 DEF Clear
    <3>3. ASSUME NEW f, Moved(f, "rhs", Top.held, 0)
          PROVE  Explains(f, Expr, off + 1)
      <4>1. f.rule = "AsgnStmt" /\ f.at = "rhs" /\ f.held = Top.held
        BY <1>1, <3>3 DEF Moved
      <4>2. ~ Pends(f) /\ \A what \in {"block", "paren", "if", "else"} : Weigh(what, f) = 0
        BY <4>1, Weights DEF Pends
      <4>3. Slack(Expr) = 0
        BY Callees DEF Slack, Unopened
      <4>4. \A t \in {"LeftParen", "RightParen", "LeftBrace", "RightBrace", "If", "Else"} :
              Read(t, off + 1) = 0
        BY <2>2, NextRead
      <4>5. toks[off + 1] \notin Operand
        BY <3>1, TokenKinds DEF Operand
      <4>6. Assigning(heap, f, off + 1)
        <5>1. heap[Top.held[1]].tok = off
          BY <1>1, <2>1, ToldBounds DEF Poised
        <5> DEFINE k == off + 1
        <5>2. k - 1 = off
          BY NextRead
        <5> HIDE DEF k
        <5>3. Assigning(heap, f, k)
          BY <4>1, <5>1, <5>2 DEF Assigning
        <5> QED
          BY <5>3 DEF k
      <4> QED
        BY <1>2, <4>2, <4>3, <4>4, <4>5, <4>6 DEF Explains
    <3>4. Expr \in Frames /\ Expr.at = "start" /\ Expr.held = << >>
      BY Callees
    <3>5. "rhs" \in Label /\ "rhs" \in WaitLabel
      BY DEF Label, WaitLabel
    <3> QED
      BY <1>1, <2>1, <2>2, <3>1, <3>2, <3>3, <3>4, <3>5, CallsTold
  <2> QED
    BY <1>4, <2>2, FailuresFail DEF AssignHasLhs
<1>5. CASE AssignEnds
  <2>1. Top.at = "rhs" /\ Hands = <<lhs, res>>
    BY <1>1, <1>5, NodesInHand DEF AssignEnds, At
  <2>2. CASE /\ Peek = "Semicolon" /\ Consumes
             /\ ReturnsNew("AsgnStmt", 0, <<lhs, res>>)
    <3>1. /\ off' = off + 1 /\ toks[off + 1] = "Semicolon" /\ off + 1 # off
          /\ ReturnsNew("AsgnStmt", 0, Hands)
      BY <2>1, <2>2, NextRead DEF Consumes
    <3> HIDE DEF lhs
    <3>2. Allocates(Object("AsgnStmt", 0, Hands))
      BY <3>1 DEF ReturnsNew
    <3>3. \A k \in 1 .. off : Assigning(heap, Top, k) /\ toks[k] = "Assign" => Done(heap', k)
      BY <1>1, <2>1, <3>2, AssignmentNode
    <3>4. Balances(off + 1, 0, 0, 0, 0)
      <4>1. More({"IfStmt", "IfElseStmt"}) = 0 /\ More({"IfElseStmt"}) = 0
        BY <3>2, MoreSame
      <4>2. \A t \in {"LeftParen", "RightParen", "LeftBrace", "RightBrace", "If", "Else"} :
              Read(t, off + 1) = 0
        BY <2>2, NextRead
      <4> QED
        BY <1>2, <4>1, <4>2 DEF Balances
    <3>5. \A n : ~ IsOpd(Top, n)
      BY <1>1 DEF IsOpd
    <3>6. toks[off + 1] \notin Operand /\ toks[off + 1] # "Assign"
      BY <3>1, TokenKinds DEF Operand
    <3> QED
      BY <1>1, <1>2, <3>1, <3>3, <3>4, <3>5, <3>6, ReturnsNewTold
  <2>3. CASE Crashes
    BY <2>3 DEF Crashes
  <2> QED
    BY <1>5, <2>2, <2>3, FailuresFail DEF AssignEnds
<1> QED
  BY <1>3, <1>4, <1>5 DEF AsgnStmt

-----------------------------------------------------------------------------
(* Statements. *)

(* A rule of statements that calls another one for part of itself. *)
LEMMA StatementWeighs ==
  ASSUME NEW f, f.rule \notin {"Base", "Opd"}
  PROVE  /\ Weigh("paren", f) = 0 /\ Marks(f) = {} /\ ~ Pends(f)
         /\ \A n : ~ IsOpd(f, n)
         /\ f.rule # "IfStmt" => Weigh("if", f) = 0 /\ Weigh("else", f) = 0
         /\ f.rule # "BlockStmt" => Weigh("block", f) = 0
         /\ f.rule # "AsgnStmt" => \A h, k : ~ Assigning(h, f, k)
         /\ Unopened(f) <=> Slack(f) = 1
         /\ Slack(f) \in {0, 1}
<1>1. /\ Weigh("paren", f) = 0
      /\ f.rule # "IfStmt" => Weigh("if", f) = 0 /\ Weigh("else", f) = 0
      /\ f.rule # "BlockStmt" => Weigh("block", f) = 0
  BY Weights
<1>2. Marks(f) = {} /\ ~ Pends(f)
  BY DEF Marks, Pends
<1>3. \A n : ~ IsOpd(f, n)
  BY DEF IsOpd
<1>4. f.rule # "AsgnStmt" => \A h, k : ~ Assigning(h, f, k)
  BY DEF Assigning
<1>5. (Unopened(f) <=> Slack(f) = 1) /\ Slack(f) \in {0, 1}
  BY DEF Slack
<1> QED
  BY <1>1, <1>2, <1>3, <1>4, <1>5

LEMMA SameMore ==
  ASSUME Telling, UNCHANGED memory
  PROVE  More({"IfStmt", "IfElseStmt"}) = 0 /\ More({"IfElseStmt"}) = 0
BY MoreSame DEF memory


LEMMA SequenceHeld ==
  ASSUME Telling, Top.rule \in {"Block", "Prog"}, Hands = Top.held
  PROVE  \A a \in DOMAIN Hands : heap[Hands[a]].tag \in {"Seq", "Prog"} /\ heap[Hands[a]].tok = 0
BY HandsBear DEF Fits

(* The loops over statements. *)
LEMMA StatementCalled ==
  ASSUME Telling, Top.rule \in {"Block", "Prog"}, Top.at = "loop", Looks,
         Calls(Frame("Stmt", 0), "stmt", Top.held, 0), UNCHANGED memory
  PROVE  Told
<1> DEFINE c == Frame("Stmt", 0)
<1>1. OInv /\ pc = "run" /\ stack # << >>
  BY DEF Telling
<1>2. Hands = Top.held /\ Top.held # << >>
  <2> DEFINE hs == Top.held
  <2>1. Hands = hs /\ Len(hs) = 1
    BY <1>1, NodesInHand
  <2> HIDE DEF hs
  <2>2. ASSUME hs = << >> PROVE FALSE
    <3>1. Len(hs) = 0
      BY <2>2, LabelsCarry, Zenon
    <3> QED
      BY <2>1, <3>1
  <2> QED
    BY <2>1, <2>2 DEF hs
<1>3. c \in Frames /\ c.rule = "Stmt" /\ c.at = "start" /\ c.held = << >>
  BY Callees DEF Rule
<1>4. Calls(c, "stmt", Top.held, 0) /\ off' = off
  BY DEF Looks, parser
<1> HIDE DEF c
<1>5. Slack(Top) = 0 /\ Slack(c) = 0 /\ Weigh("if", Top) = 0 /\ Weigh("else", Top) = 0
  BY <1>3, Weights
<1>6. Clear(Top)
  BY <1>5, StatementWeighs DEF Clear
<1>7. ASSUME NEW f, Moved(f, "stmt", Top.held, 0)
      PROVE  Explains(f, c, off)
  <2>1. f.rule \in {"Block", "Prog"}
    BY <1>7 DEF Moved
  <2>2. /\ Weigh("paren", f) = 0 /\ Weigh("block", f) = 0 /\ Weigh("if", f) = 0
        /\ Weigh("else", f) = 0 /\ ~ Pends(f)
    BY <2>1, StatementWeighs
  <2> QED
    BY <1>5, <2>2, NextRead DEF Explains
<1>8. "stmt" \in Label /\ "stmt" \in WaitLabel
  BY DEF Label, WaitLabel
<1>9. \A a \in DOMAIN Hands : heap[Hands[a]].tag \in {"Seq", "Prog"} /\ heap[Hands[a]].tok = 0
  BY <1>2, SequenceHeld
<1> QED
  BY <1>2, <1>3, <1>4, <1>6, <1>7, <1>8, <1>9, CallsTold

LEMMA SequenceStarts ==
  ASSUME Telling, Top.rule \in {"Block", "Prog"}, Top.at = "start", Looks,
         NEW tag \in {"Seq", "Prog"}, NEW at \in {"open", "loop"},
         at = "open" <=> Top.rule = "Block",
         Allocates(Object(tag, 0, << >>)), Stays(at, <<next>>)
  PROVE  Told
<1>1. Hands = << >>
  BY NodesInHand DEF Telling
<1>2. Allocates(Object(tag, 0, Hands)) /\ off' = off
  BY <1>1 DEF Looks, parser
<1>3. Weigh("block", Top) = 0 /\ Weigh("paren", Top) = 0 /\ Weigh("if", Top) = 0
      /\ Weigh("else", Top) = 0 /\ Marks(Top) = {}
  BY StatementWeighs
<1>4. ASSUME NEW f, Moved(f, at, <<next>>, Top.tok)
      PROVE  Balances(off, 0, 0 - Slack(f), 0, 0) /\ Poised(heap', f, off)
  <2>1. f.rule = Top.rule /\ f.at = at
    BY <1>4 DEF Moved
  <2>2. Slack(f) = Slack(Top) /\ Slack(f) \in {0, 1}
    BY <2>1, Weights
  <2>3. Poised(heap', f, off)
    BY <2>1 DEF Poised
  <2>4. More({"IfStmt", "IfElseStmt"}) = 0 /\ More({"IfElseStmt"}) = 0
    BY <1>2, MoreSame
  <2> QED
    BY <1>3, <2>2, <2>3, <2>4, NextRead DEF Balances
<1>5. at \in Label \ WaitLabel /\ at # "start"
  BY DEF Label, WaitLabel
<1> QED
  BY <1>1, <1>2, <1>3, <1>4, <1>5, StaysNewTold

LEMMA SequenceReturned ==
  ASSUME Telling, NEW es, Tracks(es), Top.rule \in {"Block", "Prog"}, Top.at = "loop", Consumes,
         Peek = IF Top.rule = "Block" THEN "RightBrace" ELSE "Eof",
         Returns(Top.held[1]), UNCHANGED memory
  PROVE  Told
<1> DEFINE node == Top.held[1]
           u == IF Top.rule = "Block" THEN -1 ELSE 0
<1>1. Hands = <<node>> /\ Returns(node)
  BY NodesInHand DEF Telling
<1> HIDE DEF node
<1>2. off' = off + 1 /\ toks[off + 1] = Peek /\ off + 1 # off
  BY NextRead DEF Consumes
<1>3. Weigh("block", Top) = 0 /\ Weigh("paren", Top) = 0 /\ Weigh("if", Top) = 0
      /\ Weigh("else", Top) = 0 /\ Marks(Top) = {} /\ Slack(Top) = 0
  BY StatementWeighs, Weights
<1>4. Balances(off + 1, 0, u, 0, 0)
  <2>1. More({"IfStmt", "IfElseStmt"}) = 0 /\ More({"IfElseStmt"}) = 0
    BY SameMore
  <2>2. \A t \in {"LeftParen", "RightParen", "LeftBrace", "If", "Else"} : Read(t, off + 1) = 0
    BY NextRead
  <2>3. u = 0 - Read("RightBrace", off + 1)
    <3>1. CASE Top.rule = "Block"
      BY <3>1, NextRead
    <3>2. CASE Top.rule # "Block"
      BY <3>2, NextRead
    <3> QED
      BY <3>1, <3>2
  <2>4. Read("RightBrace", off + 1) \in {0, 1}
    BY DEF Read
  <2> HIDE DEF u
  <2> QED
    BY <1>3, <2>1, <2>2, <2>3, <2>4 DEF Balances
<1>5. toks[off + 1] \notin Operand \union {"Assign"}
  BY <1>2, TokenKinds DEF Operand
<1>6. \A n : ~ IsOpd(Top, n)
  BY DEF IsOpd
<1> QED
  BY <1>1, <1>2, <1>3, <1>4, <1>5, <1>6, ReturnsTold

LEMMA BlockTold ==
  ASSUME Telling, NEW es, Tracks(es), Block, ~ Failed'
  PROVE  Told
<1>1. pc = "run" /\ stack # << >> /\ Top.rule = "Block" /\ OInv
  BY DEF Block, BlockStarts, BlockOpens, BlockLoops, BlockHasStmt, At, Telling
<1>2. CASE BlockStarts
  <2>1. Top.at = "start"
    BY <1>2 DEF BlockStarts, At
  <2>2. CASE Looks /\ Allocates(Object("Seq", 0, << >>)) /\ Stays("open", <<next>>)
    BY <1>1, <2>1, <2>2, SequenceStarts
  <2> QED
    BY <1>2, <2>2, FailuresFail DEF BlockStarts
<1>3. CASE BlockOpens
  <2>1. Top.at = "open"
    BY <1>3 DEF BlockOpens, At
  <2>2. CASE Peek = "LeftBrace" /\ Consumes /\ Stays("loop", Top.held) /\ UNCHANGED memory
    <3> DEFINE f == [Top EXCEPT !.at = "loop", !.held = Top.held]
    <3>1. off' = off + 1 /\ toks[off + 1] = Peek /\ off + 1 # off
      BY <2>2, NextRead DEF Consumes
    <3>2. Hands = Top.held /\ Top.held # << >>
      <4>1. Hands = Top.held /\ Len(Top.held) = 1
        BY <1>1, <2>1, NodesInHand
      <4>2. Len(<< >>) = 0
        OBVIOUS
      <4> QED
        BY <4>1, <4>2
    <3>3. Moved(f, "loop", Top.held, Top.tok)
      <4>1. Top.held \in Seq(Nat) /\ Top.tok \in Nat
        BY TellingParts DEF Frames
      <4> QED
        BY <1>1, <3>2, <4>1, TopMoved DEF Label
    <3>4. stack' = <<f>> \o Tail(stack) /\ res' = res
      BY <2>2 DEF Stays
    <3> HIDE DEF f
    <3>5. f \in Frames /\ f.rule = "Block" /\ f.at = "loop" /\ f.held = Hands
      BY <1>1, <3>2, <3>3 DEF Moved
    <3>6. f.at \notin WaitLabel /\ Poised(heap, f, off + 1)
      BY <3>5 DEF WaitLabel, Poised
    <3>7. /\ Weigh("block", Top) = 0 /\ Weigh("paren", Top) = 0 /\ Weigh("if", Top) = 0
          /\ Weigh("else", Top) = 0 /\ Marks(Top) = {} /\ Slack(Top) = 1 /\ Slack(f) = 0
      BY <1>1, <2>1, <3>5, StatementWeighs, Weights
    <3>8. Balances(off + 1, 0, 0 - Slack(f), 0, 0)
      <4>1. More({"IfStmt", "IfElseStmt"}) = 0 /\ More({"IfElseStmt"}) = 0
        BY <2>2, SameMore
      <4>2. /\ Read("LeftBrace", off + 1) = 1
            /\ \A t \in {"LeftParen", "RightParen", "RightBrace", "If", "Else"} : Read(t, off + 1) = 0
        BY <2>2, NextRead
      <4> QED
        BY <3>7, <4>1, <4>2 DEF Balances
    <3>9. toks[off + 1] \notin Operand \union {"Assign"}
      BY <2>2, <3>1, TokenKinds DEF Operand
    <3>10. \A a \in DOMAIN Hands :
             heap[Hands[a]].tag \in {"Seq", "Prog"} /\ heap[Hands[a]].tok = 0
      BY <1>1, <3>2, SequenceHeld
    <3> QED
      BY <1>1, <2>2, <3>1, <3>4, <3>5, <3>6, <3>7, <3>8, <3>9, <3>10, StaysTold
  <2> QED
    BY <1>3, <2>2, FailuresFail DEF BlockOpens
<1>4. CASE BlockLoops
  <2>1. Top.at = "loop" /\ UNCHANGED memory
    BY <1>4 DEF BlockLoops, At
  <2>2. CASE Peek = "RightBrace" /\ Consumes /\ Returns(Top.held[1])
    BY <1>1, <2>1, <2>2, SequenceReturned
  <2>3. CASE Looks /\ Calls(Frame("Stmt", 0), "stmt", Top.held, 0)
    BY <1>1, <2>1, <2>3, StatementCalled
  <2> QED
    BY <1>4, <2>2, <2>3 DEF BlockLoops
<1>5. CASE BlockHasStmt
  <2>1. Top.at = "stmt"
    BY <1>5 DEF BlockHasStmt, At
  <2>2. CASE Looks /\ Pushes(Top.held[1], res) /\ Stays("loop", Top.held)
    <3>1. off' = off
      BY <2>2 DEF Looks, parser
    <3> QED
      BY <1>1, <2>1, <2>2, <3>1, PushedTold
  <2>3. CASE Fails("NoEnoughMemory")
    BY <2>3, FailuresFail DEF Fails
  <2> QED
    BY <1>5, <2>2, <2>3, FailuresFail DEF BlockHasStmt
<1> QED
  BY <1>2, <1>3, <1>4, <1>5 DEF Block

LEMMA ProgTold ==
  ASSUME Telling, NEW es, Tracks(es), Prog, ~ Failed'
  PROVE  Told
<1>1. pc = "run" /\ stack # << >> /\ Top.rule = "Prog" /\ OInv
  BY DEF Prog, ProgStarts, ProgLoops, ProgHasStmt, At, Telling
<1>2. CASE ProgStarts
  <2>1. Top.at = "start"
    BY <1>2 DEF ProgStarts, At
  <2>2. CASE Looks /\ Allocates(Object("Prog", 0, << >>)) /\ Stays("loop", <<next>>)
    BY <1>1, <2>1, <2>2, SequenceStarts
  <2> QED
    BY <1>2, <2>2, FailuresFail DEF ProgStarts
<1>3. CASE ProgLoops
  <2>1. Top.at = "loop" /\ UNCHANGED memory
    BY <1>3 DEF ProgLoops, At
  <2>2. CASE Peek = "Eof" /\ Consumes /\ Returns(Top.held[1])
    BY <1>1, <2>1, <2>2, SequenceReturned
  <2>3. CASE Looks /\ Calls(Frame("Stmt", 0), "stmt", Top.held, 0)
    BY <1>1, <2>1, <2>3, StatementCalled
  <2> QED
    BY <1>3, <2>2, <2>3 DEF ProgLoops
<1>4. CASE ProgHasStmt
  <2>1. Top.at = "stmt"
    BY <1>4 DEF ProgHasStmt, At
  <2>2. CASE Looks /\ Pushes(Top.held[1], res) /\ Stays("loop", Top.held)
    <3>1. off' = off
      BY <2>2 DEF Looks, parser
    <3> QED
      BY <1>1, <2>1, <2>2, <3>1, PushedTold
  <2> QED
    BY <1>4, <2>2, FailuresFail DEF ProgHasStmt
<1> QED
  BY <1>2, <1>3, <1>4 DEF Prog

-----------------------------------------------------------------------------

(* A statement rule that has all its parts makes their node. *)
LEMMA StatementMade ==
  ASSUME Telling, NEW es, Tracks(es),
         \/ Top.rule = "BlockStmt" /\ Top.at = "block"
         \/ Top.rule = "IfStmt" /\ Top.at \in {"then", "else"},
         NEW tag,
         tag = IF Top.rule = "BlockStmt" THEN "BlockStmt"
               ELSE IF Top.at = "then" THEN "IfStmt" ELSE "IfElseStmt",
         Looks, ReturnsNew(tag, 0, Hands)
  PROVE  Told
<1>1. off' = off /\ Allocates(Object(tag, 0, Hands))
  BY DEF Looks, parser, ReturnsNew
<1>2. /\ Weigh("paren", Top) = 0 /\ Marks(Top) = {}
      /\ \A n : ~ IsOpd(Top, n)
      /\ \A k : ~ Assigning(heap, Top, k)
  BY StatementWeighs
<1>3. /\ Weigh("block", Top) = IF tag = "BlockStmt" THEN 1 ELSE 0
      /\ Slack(Top) = IF tag = "BlockStmt" THEN 1 ELSE 0
      /\ Weigh("if", Top) = IF tag = "BlockStmt" THEN 0 ELSE 1
      /\ Weigh("else", Top) = IF tag = "IfElseStmt" THEN 1 ELSE 0
      /\ tag \in {"BlockStmt", "IfStmt", "IfElseStmt"}
  BY Weights
<1>4. /\ More({"IfStmt", "IfElseStmt"}) = IF tag = "BlockStmt" THEN 0 ELSE 1
      /\ More({"IfElseStmt"}) = IF tag = "IfElseStmt" THEN 1 ELSE 0
  BY <1>1, <1>3, MoreSame
<1>5. Balances(off, 0, 0, 0, 0)
  <2>1. /\ Weigh("block", Top) - Slack(Top) = 0
        /\ More({"IfStmt", "IfElseStmt"}) = Weigh("if", Top)
        /\ More({"IfElseStmt"}) = Weigh("else", Top)
        /\ Weigh("if", Top) \in Nat /\ Weigh("else", Top) \in Nat
    BY <1>3, <1>4
  <2> DEFINE a == Weigh("block", Top) - Slack(Top)
             b == Weigh("if", Top)
             c == Weigh("else", Top)
  <2>2. a = 0 /\ More({"IfStmt", "IfElseStmt"}) = b /\ More({"IfElseStmt"}) = c
        /\ b \in Nat /\ c \in Nat
    BY <2>1
  <2>3. 0 = a + Read("LeftBrace", off) - Read("RightBrace", off)
        /\ 0 = Weigh("paren", Top) + Read("LeftParen", off) - Read("RightParen", off)
    BY <1>2, <2>2, NextRead
  <2>4. 0 + b = b + Read("If", off) /\ 0 + c = c + Read("Else", off)
    <3> HIDE DEF a, b, c
    <3> QED
      BY <2>2, NextRead
  <2> QED
    BY <2>2, <2>3, <2>4 DEF Balances
<1> QED
  BY <1>1, <1>2, <1>3, <1>5, ReturnsNewTold

LEMMA BlockStmtTold ==
  ASSUME Telling, NEW es, Tracks(es), BlockStmt, ~ Failed'
  PROVE  Told
<1>1. pc = "run" /\ stack # << >> /\ Top.rule = "BlockStmt" /\ OInv /\ ~ Failed
  BY DEF BlockStmt, BlockStmtStarts, BlockStmtEnds, At, Telling
<1>2. CASE BlockStmtStarts
  <2> DEFINE c == Frame("Block", 0)
  <2>1. Hands = << >> /\ Top.at = "start"
    BY <1>1, <1>2, NodesInHand DEF BlockStmtStarts, At
  <2>2. off' = off /\ Calls(c, "block", << >>, 0) /\ UNCHANGED memory
    BY <1>2 DEF BlockStmtStarts, Looks, parser
  <2>3. c \in Frames /\ c.rule = "Block" /\ c.at = "start" /\ c.held = << >>
    BY Callees DEF Rule
  <2> HIDE DEF c
  <2>4. /\ Slack(Top) = 0 /\ Slack(c) = 1 /\ Weigh("block", Top) = 0
        /\ Weigh("if", Top) = 0 /\ Weigh("else", Top) = 0
    BY <1>1, <2>1, <2>3, Weights
  <2>5. Clear(Top)
    BY <1>1, <2>4, StatementWeighs DEF Clear
  <2>6. ASSUME NEW f, Moved(f, "block", << >>, 0)
        PROVE  Explains(f, c, off)
    <3>1. f.rule = "BlockStmt" /\ f.at = "block"
      BY <1>1, <2>6 DEF Moved
    <3>2. /\ Weigh("block", f) = 1 /\ Weigh("paren", f) = 0 /\ Weigh("if", f) = 0
          /\ Weigh("else", f) = 0 /\ ~ Pends(f)
      BY <3>1, Weights, StatementWeighs
    <3> QED
      BY <2>1, <2>4, <3>2, NextRead DEF Explains
  <2>7. "block" \in Label /\ "block" \in WaitLabel /\ "block" \in EmptyHanded
    BY DEF Label, WaitLabel, EmptyHanded
  <2> QED
    BY <1>1, <2>1, <2>2, <2>3, <2>5, <2>6, <2>7, CallsTold
<1>3. CASE BlockStmtEnds
  <2>1. Top.at = "block" /\ Hands = <<res>>
    BY <1>1, <1>3, NodesInHand DEF BlockStmtEnds, At
  <2>2. CASE Looks /\ ReturnsNew("BlockStmt", 0, <<res>>)
    BY <1>1, <2>1, <2>2, StatementMade
  <2> QED
    BY <1>3, <2>2, FailuresFail DEF BlockStmtEnds
<1> QED
  BY <1>2, <1>3 DEF BlockStmt

(* The condition and the branches are called for. *)
LEMMA PartCalled ==
  ASSUME Telling, Top.rule = "IfStmt", Top.at \in {"start", "cond", "then"},
         NEW at \in {"cond", "then", "else"},
         NEW held, held = Hands, at = "cond" \/ held # << >>,
         NEW o \in {off, off + 1}, off' = o,
         at = "cond" <=> o # off /\ Peek = "If",
         at = "else" <=> o # off /\ Peek = "Else",
         at = "cond" <=> Top.at = "start",
         o # off => Peek \in {"If", "Else"},
         NEW c \in {Expr, Frame("BlockStmt", 0)}, Calls(c, at, held, 0), UNCHANGED memory
  PROVE  Told
<1>1. c \in Frames /\ c.rule \in {"Opd", "BlockStmt"} /\ c.at = "start" /\ c.held = << >>
  BY Callees DEF Rule
<1>2. /\ Slack(Top) = 0 /\ Slack(c) = 0
      /\ Weigh("if", Top) = (IF at = "cond" THEN 0 ELSE 1) /\ Weigh("else", Top) = 0
  BY <1>1, Weights
<1>3. Clear(Top)
  BY <1>2, StatementWeighs DEF Clear
<1>4. o # off => toks[o] = Peek /\ toks[o] \notin Operand \union {"Assign"}
  BY NextRead, TokenKinds DEF Operand
<1>5. /\ \A t \in {"LeftParen", "RightParen", "LeftBrace", "RightBrace"} : Read(t, o) = 0
      /\ Read("If", o) = IF at = "cond" THEN 1 ELSE 0
      /\ Read("Else", o) = IF at = "else" THEN 1 ELSE 0
  BY NextRead
<1>6. ASSUME NEW f, Moved(f, at, held, 0)
      PROVE  Explains(f, c, o)
  <2>1. f.rule = "IfStmt" /\ f.at = at
    BY <1>6 DEF Moved
  <2>2. /\ Weigh("block", f) = 0 /\ Weigh("paren", f) = 0 /\ ~ Pends(f)
        /\ Weigh("if", f) = 1 /\ Weigh("else", f) = IF at = "else" THEN 1 ELSE 0
    BY <2>1, Weights, StatementWeighs
  <2> QED
    BY <1>2, <1>4, <1>5, <2>2 DEF Explains
<1>7. at \in Label /\ at \in WaitLabel /\ (at \in EmptyHanded \/ held # << >>)
  BY DEF Label, WaitLabel, EmptyHanded
<1>8. 0 \in Nat /\ Top.rule \notin {"Opd", "Block", "Prog"}
  OBVIOUS
<1> QED
  BY <1>1, <1>3, <1>6, <1>7, <1>8, CallsTold

LEMMA IfTold ==
  ASSUME Telling, NEW es, Tracks(es), IfStmt, ~ Failed'
  PROVE  Told
<1>1. pc = "run" /\ stack # << >> /\ Top.rule = "IfStmt" /\ OInv /\ ~ Failed
  BY DEF IfStmt, IfStarts, IfHasCond, IfHasThen, IfHasElse, At, Telling
<1>2. CASE IfStarts
  <2>1. Hands = << >> /\ Top.at = "start"
    BY <1>1, <1>2, NodesInHand DEF IfStarts, At
  <2>2. CASE Peek = "If" /\ Consumes /\ Calls(Expr, "cond", << >>, 0) /\ UNCHANGED memory
    <3>1. off' = off + 1 /\ off + 1 # off
      BY <2>2, NextRead DEF Consumes
    <3> QED
      BY <1>1, <2>1, <2>2, <3>1, PartCalled
  <2> QED
    BY <1>2, <2>2, FailuresFail DEF IfStarts
<1>3. CASE IfHasCond
  <2>1. Hands = <<res>> /\ Top.at = "cond" /\ <<res>> # << >>
    BY <1>1, <1>3, NodesInHand DEF IfHasCond, At
  <2>2. CASE Looks /\ Calls(Frame("BlockStmt", 0), "then", <<res>>, 0) /\ UNCHANGED memory
    <3>1. off' = off
      BY <2>2 DEF Looks, parser
    <3> QED
      BY <1>1, <2>1, <2>2, <3>1, PartCalled
  <2> QED
    BY <1>3, <2>2, FailuresFail DEF IfHasCond
<1>4. CASE IfHasThen
  <2> DEFINE cond == Top.held[1]
  <2>1. Hands = <<cond, res>> /\ Top.at = "then" /\ <<cond, res>> # << >>
    BY <1>1, <1>4, NodesInHand DEF IfHasThen, At
  <2>2. CASE /\ Peek = "Else" /\ Consumes
             /\ Calls(Frame("BlockStmt", 0), "else", <<cond, res>>, 0) /\ UNCHANGED memory
    <3> HIDE DEF cond
    <3>1. off' = off + 1 /\ off + 1 # off
      BY <2>2, NextRead DEF Consumes
    <3> QED
      BY <1>1, <2>1, <2>2, <3>1, PartCalled
  <2>3. CASE Looks /\ ReturnsNew("IfStmt", 0, <<cond, res>>)
    <3> HIDE DEF cond
    <3> QED
      BY <1>1, <2>1, <2>3, StatementMade
  <2> QED
    BY <1>4, <2>2, <2>3, FailuresFail DEF IfHasThen
<1>5. CASE IfHasElse
  <2>1. Hands = Append(Top.held, res) /\ Top.at = "else"
    BY <1>1, <1>5, NodesInHand DEF IfHasElse, At
  <2>2. CASE Looks /\ ReturnsNew("IfElseStmt", 0, Append(Top.held, res))
    BY <1>1, <2>1, <2>2, StatementMade
  <2> QED
    BY <1>5, <2>2, FailuresFail DEF IfHasElse
<1> QED
  BY <1>2, <1>3, <1>4, <1>5 DEF IfStmt

LEMMA StmtTold ==
  ASSUME Telling, NEW es, Tracks(es), StmtStarts, ~ Failed', pc' = "run"
  PROVE  Told
<1>1. pc = "run" /\ stack # << >> /\ Top.rule = "Stmt" /\ Top.at = "start" /\ OInv
  BY DEF StmtStarts, At, Telling
<1>2. CASE Crashes
  BY <1>2 DEF Crashes
<1>3. CASE /\ Peek \in {"Name", "If", "LeftBrace"} /\ Looks
           /\ Becomes(Frame(StmtRule(Peek), 0)) /\ UNCHANGED memory
  <2> DEFINE f == Frame(StmtRule(Peek), 0)
  <2>1. StmtRule(Peek) \in {"AsgnStmt", "IfStmt", "BlockStmt"}
    BY <1>3 DEF StmtRule
  <2>2. /\ f \in Frames /\ f.rule \in {"AsgnStmt", "IfStmt", "BlockStmt"}
        /\ f.at = "start" /\ f.held = << >>
    BY <2>1, Callees DEF Rule
  <2>3. off' = off /\ stack' = <<f>> \o Tail(stack) /\ res' = res
    BY <1>3 DEF Looks, parser, Becomes
  <2> HIDE DEF f
  <2>4. Hands = << >>
    BY <1>1, NodesInHand
  <2>5. f.at \notin WaitLabel /\ Slack(f) = 0 /\ Poised(heap, f, off)
    BY <2>2, Weights DEF WaitLabel, Poised
  <2>6. /\ Weigh("block", Top) = 0 /\ Weigh("paren", Top) = 0 /\ Weigh("if", Top) = 0
        /\ Weigh("else", Top) = 0 /\ Marks(Top) = {} /\ Slack(Top) = 0
    BY <1>1, StatementWeighs, Weights
  <2>7. Balances(off, 0, 0 - Slack(f), 0, 0)
    <3>1. More({"IfStmt", "IfElseStmt"}) = 0 /\ More({"IfElseStmt"}) = 0
      BY <1>3, SameMore
    <3> QED
      BY <2>5, <2>6, <3>1, NextRead DEF Balances
  <2> QED
    BY <1>1, <1>3, <2>2, <2>3, <2>4, <2>5, <2>6, <2>7, StaysTold
<1> QED
  BY <1>2, <1>3, FailuresFail DEF StmtStarts

-----------------------------------------------------------------------------
(* What the tree of a finished parse says. *)

(* The tree of the last Parse, which succeeded, is told of the program.    *)
Finished ==
  /\ OInv /\ toks # << >> /\ Fresh(heap, mark) = Node(tree).ids
  /\ Tells(heap, << >>, tree, Len(toks))

LEMMA FinishedTyped ==
  ASSUME Finished
  PROVE  /\ Len(toks) \in Nat /\ DOMAIN toks = 1 .. Len(toks)
         /\ IsFiniteSet(Fresh(heap, mark))
         /\ \A i : Under(i) = Span(heap, i) /\ Level(i) = Rank(heap, i)
<1>1. toks \in Program /\ next \in Nat /\ DOMAIN heap \subseteq 1 .. next - 1
  BY DEF Finished, OInv, TInv, TypeOK
<1>2. toks \in Seq(TokTag)
  BY <1>1, ParserAssumption
<1>3. IsFiniteSet(1 .. next - 1) /\ Fresh(heap, mark) \subseteq 1 .. next - 1
  BY <1>1, FS_Interval DEF Fresh
<1>4. IsFiniteSet(Fresh(heap, mark))
  BY <1>3, FS_Subset
<1> QED
  BY <1>2, <1>4 DEF Under, Level, Span, Rank, Node

(* A word is one node, below the blocks around it; other tokens are none.  *)
LEMMA WordsFinished ==
  ASSUME Finished, NEW k \in DOMAIN toks
  PROVE  LET F == Fresh(heap, mark)
             Of == {i \in F : Node(i).tok = k}
         IN  IF toks[k] \in Operand
             THEN Cardinality(Of) = 1 /\ Braces(k) = Over(heap, k)
             ELSE Of = {}
<1> DEFINE F == Fresh(heap, mark)
           Of == {i \in F : Node(i).tok = k}
           n == Len(toks)
<1>1. k \in 1 .. n /\ n \in Nat
  BY FinishedTyped
<1>2. Sound(heap, n) /\ Said(heap, << >>, n) /\ Holds(heap, tree, << >>)
  BY DEF Finished, Tells, Placed, Waiting
<1>3. Marked(<< >>) = {}
  BY DEF Marked
<1>4. ASSUME toks[k] \in Operand PROVE Cardinality(Of) = 1 /\ Braces(k) = Over(heap, k)
  <2>1. k \in Words(Operand, n)
    BY <1>1, <1>4 DEF Words
  <2>2. PICK i \in F : heap[i].tok = k
    BY <1>2, <1>3, <2>1 DEF Said, Shown
  <2>3. k # 0
    BY <1>1
  <2>4. \A j \in F : heap[j].tok = k => i = j
    BY <1>2, <2>2, <2>3 DEF Sound
  <2>5. Of = {i}
    BY <2>2, <2>4 DEF Node
  <2>6. k \in Span(heap, tree)
    BY <2>2, <2>3 DEF Finished, Span, Node
  <2>7. Braces(k) = Over(heap, k) + Count("block", << >>)
    BY <1>2, <2>6 DEF Holds
  <2>8. Over(heap, k) \in Nat
    <3>1. Blocks(heap, k) \subseteq F
      BY DEF Blocks
    <3> QED
      BY <3>1, FinishedTyped, FS_Subset, FS_CardinalityType DEF Over
  <2>9. Braces(k) = Over(heap, k)
    BY <2>7, <2>8, CountNone
  <2>10. Cardinality({i}) = 1
    BY FS_Singleton
  <2> QED
    BY <2>5, <2>9, <2>10
<1>5. ASSUME toks[k] \notin Operand PROVE Of = {}
  <2>1. SUFFICES ASSUME NEW i \in F, heap[i].tok = k PROVE FALSE
    BY DEF Node
  <2>2. k # 0
    BY <1>1
  <2>3. k \in Words(Operand, n)
    BY <1>2, <2>1, <2>2 DEF Sound
  <2> QED
    BY <1>5, <2>3 DEF Words
<1> QED
  BY <1>4, <1>5

(* An operand's bound, as Syntax states it. *)
LEMMA BoundedBinds ==
  ASSUME Finished, NEW i, NEW c, NEW n \in 1 .. 8, Level(i) = n,
         NEW m \in {n, n - 1}, Bounded(heap, c, m, Parens(Node(i).tok))
  PROVE  Binds(i, c, m = n)
<1>1. Level(c) = Rank(heap, c)
  BY FinishedTyped
<1>2. CASE Rank(heap, c) = 0
  BY <1>1, <1>2 DEF Binds
<1>3. CASE Parens(heap[c].tok) > Parens(Node(i).tok)
  BY <1>3 DEF Binds, Node
<1>4. CASE Parens(heap[c].tok) = Parens(Node(i).tok) /\ Rank(heap, c) \in 0 .. m
  <2>1. Level(c) < n \/ (m = n /\ Level(c) = n)
    BY <1>1, <1>4
  <2> QED
    BY <1>4, <2>1 DEF Binds, Node
<1> QED
  BY <1>2, <1>3, <1>4 DEF Bounded

LEMMA OperatorsFinished ==
  ASSUME Finished, NEW i \in Fresh(heap, mark), IsOperator(i)
  PROVE  WellBound(i)
<1> DEFINE n == Rank(heap, i)
           kids == heap[i].kids
           p == Parens(heap[i].tok)
<1>1. WellPut(heap, i)
  BY DEF Finished, Tells, Placed, Sound, IsOperator, Node
<1>2. n \in 1 .. 8 /\ Level(i) = n
  BY <1>1, FinishedTyped DEF WellPut
<1>3. \A c : Under(c) = Span(heap, c)
  BY FinishedTyped
<1>4. \A c : \A m \in {n, n - 1} : Bounded(heap, c, m, p) => Binds(i, c, m = n)
  BY <1>2, BoundedBinds DEF Node
<1>5. CASE Len(kids) = 1
  <2>1. Precedes({heap[i].tok}, Span(heap, kids[1])) /\ Bounded(heap, kids[1], n, p)
    BY <1>1, <1>5 DEF WellPut
  <2>2. Binds(i, kids[1], TRUE)
    BY <1>4, <2>1
  <2> QED
    BY <1>3, <1>5, <2>1, <2>2 DEF WellBound, Node
<1>6. CASE Len(kids) # 1
  <2>1. /\ Precedes(Span(heap, kids[1]), {heap[i].tok})
        /\ Precedes({heap[i].tok}, Span(heap, kids[2]))
        /\ Bounded(heap, kids[1], LeftOpd(n), p)
        /\ Bounded(heap, kids[2], RightOpd(n), p)
    BY <1>1, <1>6 DEF WellPut
  <2>2. /\ LeftOpd(n) \in {n, n - 1} /\ RightOpd(n) \in {n, n - 1}
        /\ n \in {2, 8} => LeftOpd(n) # n /\ RightOpd(n) = n
        /\ n \notin {2, 8} => LeftOpd(n) = n /\ RightOpd(n) # n
    BY <1>2 DEF LeftOpd, RightOpd
  <2> HIDE DEF n, p, kids
  <2>3. Binds(i, kids[1], LeftOpd(n) = n) /\ Binds(i, kids[2], RightOpd(n) = n)
    BY <1>4, <2>1, <2>2
  <2>4. Binds(i, kids[1], n \notin {2, 8}) /\ Binds(i, kids[2], n \in {2, 8})
    <3>1. CASE n \in {2, 8}
      BY <2>2, <2>3, <3>1 DEF Binds
    <3>2. CASE n \notin {2, 8}
      BY <2>2, <2>3, <3>2 DEF Binds
    <3> QED
      BY <3>1, <3>2
  <2> QED
    BY <1>2, <1>3, <1>6, <2>1, <2>4 DEF WellBound, Node, kids
<1> QED
  BY <1>5, <1>6

(* As many conditions and branches as words, and an assignment per sign.   *)
LEMMA TalliesFinished ==
  ASSUME Finished
  PROVE  LET n == Len(toks)
         IN  /\ Cardinality(Made(heap, {"IfStmt", "IfElseStmt"})) = Cardinality(Words({"If"}, n))
             /\ Cardinality(Made(heap, {"IfElseStmt"})) = Cardinality(Words({"Else"}, n))
             /\ \A k \in Words({"Assign"}, n) : Done(heap, k)
<1> DEFINE n == Len(toks)
<1>1. Tallied(heap, << >>, n) /\ Assigned(heap, << >>, n)
  BY DEF Finished, Tells
<1>2. /\ Cardinality(Made(heap, {"IfStmt", "IfElseStmt"})) \in Nat
      /\ Cardinality(Made(heap, {"IfElseStmt"})) \in Nat
  BY FinishedTyped, MadeCounted
<1>3. Count("if", << >>) = 0 /\ Count("else", << >>) = 0
  BY CountNone
<1>4. /\ Cardinality(Words({"If"}, n))
           = Cardinality(Made(heap, {"IfStmt", "IfElseStmt"})) + 0
      /\ Cardinality(Words({"Else"}, n)) = Cardinality(Made(heap, {"IfElseStmt"})) + 0
  BY <1>1, <1>3 DEF Tallied
<1>5. \A k : ~ Awaited(heap, << >>, k)
  BY DEF Awaited
<1> QED
  BY <1>1, <1>2, <1>4, <1>5 DEF Assigned

(* So the tree of a parse that succeeded has the shape that Syntax asks for. *)
LEMMA FinishedShape ==
  ASSUME Finished
  PROVE  WellShaped
<1> DEFINE F == Fresh(heap, mark)
           n == Len(toks)
<1>1. Node(tree).ids = F /\ DOMAIN toks = 1 .. n /\ n \in Nat
  BY FinishedTyped DEF Finished
<1>2. \A i : Under(i) = Span(heap, i)
  BY FinishedTyped
<1>3. ASSUME NEW k \in DOMAIN toks
      PROVE  IF toks[k] \in Leaf \union Prefix \union Infix
             THEN /\ Cardinality({i \in F : Node(i).tok = k}) = 1
                  /\ Depth("LeftBrace", "RightBrace", k)
                       = Cardinality({i \in {j \in F : Node(j).tag \in {"BlockStmt"}} :
                                        k \in Under(i)})
             ELSE {i \in F : Node(i).tok = k} = {}
  <2>1. {i \in {j \in F : Node(j).tag \in {"BlockStmt"}} : k \in Under(i)} = Blocks(heap, k)
    BY <1>2 DEF Blocks, Node
  <2>2. Operand = Leaf \union Prefix \union Infix
    BY DEF Operand
  <2> QED
    BY <2>1, <2>2, WordsFinished DEF Over, Braces
<1>4. \A i \in F : IsOperator(i) => WellBound(i)
  BY OperatorsFinished
<1>5. ASSUME NEW i \in F, NEW a \in DOMAIN Node(i).kids, NEW b \in DOMAIN Node(i).kids, a < b
      PROVE  Precedes(Under(Node(i).kids[a]), Under(Node(i).kids[b]))
  <2>1. InRow(heap, heap[i].kids)
    BY DEF Finished, Tells, Placed, Sound
  <2> QED
    BY <1>2, <1>5, <2>1 DEF InRow, Node
<1>6. \A tag : {k \in DOMAIN toks : toks[k] = tag} = Words({tag}, n)
  BY <1>1 DEF Words
<1>7. \A tags : {i \in F : Node(i).tag \in tags} = Made(heap, tags)
  BY DEF Made, Node
<1>8. /\ Cardinality({i \in F : Node(i).tag \in {"IfStmt", "IfElseStmt"}})
           = Cardinality({k \in DOMAIN toks : toks[k] = "If"})
      /\ Cardinality({i \in F : Node(i).tag \in {"IfElseStmt"}})
           = Cardinality({k \in DOMAIN toks : toks[k] = "Else"})
  BY <1>6, <1>7, TalliesFinished
<1>9. ASSUME NEW k \in {j \in DOMAIN toks : toks[j] = "Assign"}
      PROVE  \E i \in {j \in F : Node(j).tag \in {"AsgnStmt"}} :
               /\ Node(Node(i).kids[1]).tok = k - 1
               /\ Precedes({k}, Under(Node(i).kids[2]))
  <2>1. Done(heap, k)
    BY <1>6, <1>9, TalliesFinished
  <2>2. PICK i \in F : Assigns(heap, i, k)
    BY <2>1 DEF Done
  <2>3. i \in {j \in F : Node(j).tag \in {"AsgnStmt"}}
    BY <2>2 DEF Assigns, Node
  <2>4. Node(Node(i).kids[1]).tok = k - 1 /\ Precedes({k}, Under(Node(i).kids[2]))
    BY <1>2, <2>2 DEF Assigns, Node
  <2> QED
    BY <2>3, <2>4
<1> HIDE DEF F
<1> QED
  BY <1>1, <1>3, <1>4, <1>5, <1>8, <1>9 DEF WellShaped

-----------------------------------------------------------------------------
(* Parse calls. *)

(* The trees agree with what has been read as long as nothing has failed.  *)
WInv ==
  /\ OInv /\ JInv
  /\ pc = "run" /\ ~ astray /\ ~ Failed => Tells(heap, stack, res, off)
  /\ Parsed /\ ret => Tells(heap, << >>, tree, Len(toks))

ARule == Base \/ Unary \/ Binary \/ AsgnStmt \/ Block \/ BlockStmt \/ IfStmt \/ StmtStarts \/ Prog

(* A rule neither forgets an error nor touches the caller's state, unless  *)
(* it crashes.                                                             *)
LEMMA RuleKeeps ==
  ASSUME IInv, ARule
  PROVE  /\ pc = "run" /\ stack # << >>
         /\ UNCHANGED caller \/ Crashes
         /\ Failed => Failed'
<1>1. pc = "run" /\ stack # << >>
  BY DEF ARule, At, Base, BaseStarts, BaseCloses, Unary, UnaryStarts, UnaryEnds,
     Binary, BinaryStarts, BinaryHasLhs, BinaryAgain, BinaryHasRhs, AsgnStmt, AssignStarts,
     AssignHasLhs, AssignEnds, Block, BlockStarts, BlockOpens, BlockLoops, BlockHasStmt,
     BlockStmt, BlockStmtStarts, BlockStmtEnds, IfStmt, IfStarts, IfHasCond, IfHasThen,
     IfHasElse, StmtStarts, Prog, ProgStarts, ProgLoops, ProgHasStmt
<1>2. UNCHANGED caller \/ Crashes
  BY DEF ARule, Base, BaseStarts, BaseCloses, Unary, UnaryStarts, UnaryEnds,
     Binary, BinaryStarts, BinaryHasLhs, BinaryAgain, BinaryLoops, BinaryHasRhs, AsgnStmt,
     AssignStarts, AssignHasLhs, AssignEnds, Block, BlockStarts, BlockOpens, BlockLoops,
     BlockHasStmt, BlockStmt, BlockStmtStarts, BlockStmtEnds, IfStmt, IfStarts, IfHasCond,
     IfHasThen, IfHasElse, StmtStarts, Prog, ProgStarts, ProgLoops, ProgHasStmt,
     Consumes, Looks, OutOfMemory, Unexpected, GivesUp, Fails
<1>3. \/ err' = err
      \/ \E type \in {"NoEnoughMemory", "UnexpectedToken"} : err' = [err EXCEPT !.type = type]
  BY DEF ARule, Base, BaseStarts, BaseCloses, Unary, UnaryStarts, UnaryEnds,
     Binary, BinaryStarts, BinaryHasLhs, BinaryAgain, BinaryLoops, BinaryHasRhs, AsgnStmt,
     AssignStarts, AssignHasLhs, AssignEnds, Block, BlockStarts, BlockOpens, BlockLoops,
     BlockHasStmt, BlockStmt, BlockStmtStarts, BlockStmtEnds, IfStmt, IfStarts, IfHasCond,
     IfHasThen, IfHasElse, StmtStarts, Prog, ProgStarts, ProgLoops, ProgHasStmt,
     Consumes, Looks, OutOfMemory, Unexpected, GivesUp, Fails, parser
<1>4. err \in [type : ParErr, msg : Nat, tok : Nat]
  BY DEF IInv, Typed
<1>5. Failed => Failed'
  BY <1>3, <1>4 DEF Failed
<1> QED
  BY <1>1, <1>2, <1>5

(* A step of a rule after which nothing has failed. *)
LEMMA RuleTold ==
  ASSUME WInv, ARule, pc' = "run", ~ astray', ~ Failed'
  PROVE  Tells(heap, stack, res, off)'
<1>1. /\ pc = "run" /\ stack # << >> /\ ~ Failed
      /\ UNCHANGED caller
  BY RuleKeeps DEF WInv, JInv, Crashes
<1>2. toks' = toks /\ mark' = mark /\ ~ astray
  BY <1>1 DEF caller
<1>3. Telling
  BY <1>1, <1>2 DEF WInv, Telling
<1>4. Going
  BY <1>1, <1>2 DEF WInv, JInv, Going, Running
<1>5. PICK es : Tracks(es)
  BY <1>1, <1>4, Tracked
<1>6. Told
  BY <1>3, <1>5, BaseTold, UnaryTold, BinaryTold, AsgnTold, BlockTold, BlockStmtTold, IfTold,
     StmtTold, ProgTold DEF ARule
<1> QED
  BY <1>2, <1>6, MeaningStays DEF Told

(* Nothing has been made or read when a program is begun.                  *)
LEMMA NothingTold ==
  ASSUME toks' = toks, NEW h, Fresh(h, mark') = {}, NEW r
  PROVE  Tells(h, <<Frame("Prog", 0)>>, r, 0)'
<1> DEFINE f == Frame("Prog", 0)
           s == <<f>>
<1>3. f.rule = "Prog" /\ f.at = "start" /\ f.held = << >>
  BY DEF Frame
<1> HIDE DEF f
<1>4. /\ Len(s) = 1 /\ s[1] = f /\ DOMAIN s = {1} /\ s # << >> /\ Head(s) = f
      /\ Beneath(s, 1) = << >>
  BY DEF Beneath
<1> HIDE DEF s
<1>6. /\ ~ Pends(f) /\ Marks(f) = {} /\ ~ Unopened(f)
      /\ \A what : ~ Begun(what, f)
  BY <1>3 DEF Pends, Marks, Unopened, Begun
<1>7. \A what : Count(what, s) = 0
  <2>1. \A what : {k \in DOMAIN s : Begun(what, s[k])} = {}
    BY <1>4, <1>6
  <2> QED
    BY <2>1, FS_EmptySet DEF Count
<1>8. Reach(h, f) = {} /\ Spans(h, f.held) = {} /\ Reaches(h, s) = {} /\ Reaches(h, << >>) = {}
  <2>1. Spans(h, f.held) = {}
    BY <1>3, SpansNone
  <2>2. Reach(h, f) = {}
    BY <1>6, <2>1 DEF Reach
  <2> QED
    BY <1>4, <2>1, <2>2 DEF Reaches
<1>9. Spine(h, s)'
  <2>1. Fits(h, f, << >>)'
    <3>1. InRow(h, f.held) /\ DOMAIN f.held = {}
      BY <1>3, SpansNone
    <3> QED
      BY <1>3, <1>6, <1>8, <3>1 DEF Fits, Precedes
  <2> QED
    BY <1>4, <2>1 DEF Spine
<1>10. ~ Waiting(s)
  BY <1>3, <1>4 DEF Waiting, WaitLabel
<1>11. Closed(h)' /\ Sound(h, 0)'
  BY DEF Closed, Sound
<1>12. Placed(h, s, r, 0)'
  BY <1>8, <1>9, <1>10, <1>11 DEF Placed
<1>13. \A tags : Words(tags, 0)' = {} /\ Cardinality(Words(tags, 0)') = 0
  BY DepthsStay, WordsNone
<1>14. Said(h, s, 0)' /\ Assigned(h, s, 0)'
  BY <1>13 DEF Said, Assigned
<1>15. Tallied(h, s, 0)'
  <2>1. \A tags : Cardinality(Made(h, tags)') = 0
    <3>1. \A tags : Made(h, tags)' = {}
      BY DEF Made
    <3> QED
      BY <3>1, FS_EmptySet
  <2>2. Parens(0 + 1)' = 0 /\ Braces(0 + 1)' = 0
    BY DepthsStay, DepthNone
  <2> QED
    BY <1>4, <1>6, <1>7, <1>13, <2>1, <2>2 DEF Tallied
<1>16. Poised(h, Head(s), 0)'
  BY <1>3, <1>4 DEF Poised
<1> QED
  BY <1>4, <1>12, <1>14, <1>15, <1>16 DEF Tells, s, f

LEMMA ParseTold ==
  ASSUME WInv, Parse, pc' = "run"
  PROVE  astray' \/ Failed' \/ Tells(heap, stack, res, off)'
<1>1. toks' = toks /\ heap' = heap /\ off' = off /\ err' = err
  BY DEF Parse, parser, memory
<1>2. toks # << >>
  BY DEF Parse
<1>3. stack' = <<Frame("Prog", 0)>> /\ mark' = next /\ astray' = (off # 0 \/ Failed)
  BY <1>2 DEF Parse
<1>4. Fresh(heap', mark') = {}
  <2>1. next \in Nat /\ DOMAIN heap \subseteq 1 .. next - 1
    BY DEF WInv, OInv, TInv, TypeOK
  <2> QED
    BY <1>1, <1>3, <2>1 DEF Fresh
<1>5. CASE off = 0
  BY <1>1, <1>3, <1>4, <1>5, NothingTold
<1>6. CASE off # 0
  BY <1>3, <1>6
<1> QED
  BY <1>5, <1>6

(* A Parse that succeeds hands over the tree of the whole program. *)
LEMMA ReturnTold ==
  ASSUME WInv, ParseReturns, (Parsed /\ ret)'
  PROVE  Tells(heap, << >>, tree, Len(toks))'
<1>1. /\ pc = "run" /\ stack = << >> /\ ~ Failed /\ tree' = res
      /\ toks' = toks /\ heap' = heap /\ mark' = mark /\ ~ astray
  BY DEF ParseReturns, Parsed, memory, Crashes
<1>2. off = Len(toks)
  BY <1>1 DEF WInv, JInv, Follows
<1>3. Tells(heap, << >>, res, Len(toks))
  BY <1>1, <1>2 DEF WInv
<1> QED
  BY <1>1, <1>3, MeaningStays

LEMMA InitWInv ==
  ASSUME Init
  PROVE  WInv
BY InitOwned, InitJInv DEF Init, WInv, Parsed

(* The invariant is inductive. *)
LEMMA StepWInv ==
  ASSUME WInv, [Next]_vars
  PROVE  WInv'
<1>1. OInv' /\ JInv' /\ IInv
  BY NextOwned, StepJInv DEF WInv, JInv
<1>2. CASE ARule
  <2>1. pc' # "done"
    BY <1>1, <1>2, RuleKeeps DEF caller, Crashes
  <2> QED
    BY <1>1, <1>2, <2>1, RuleTold DEF WInv, Parsed
<1>3. CASE ParseReturns
  <2>1. pc' # "run"
    BY <1>3 DEF ParseReturns, Crashes
  <2> QED
    BY <1>1, <1>3, <2>1, ReturnTold DEF WInv
<1>4. CASE Parse
  <2>1. ~ Parsed'
    BY <1>4 DEF Parse, Parsed, parser
  <2> QED
    BY <1>1, <1>4, <2>1, ParseTold DEF WInv
<1>5. CASE (\E p \in Program : Link(p)) \/ Reset \/ FreeTree
  <2>1. pc' = "idle"
    BY <1>5 DEF Link, Reset, FreeTree
  <2> QED
    BY <1>1, <2>1 DEF WInv, Parsed
<1>6. CASE UNCHANGED vars
  <2>1. /\ toks' = toks /\ mark' = mark /\ heap' = heap /\ stack' = stack /\ res' = res
        /\ off' = off /\ err' = err /\ pc' = pc /\ astray' = astray /\ ret' = ret /\ tree' = tree
    BY <1>6 DEF vars
  <2>2. /\ Tells(heap, stack, res, off)' <=> Tells(heap, stack, res, off)
        /\ Tells(heap, << >>, tree, Len(toks))' <=> Tells(heap, << >>, tree, Len(toks))
    BY <2>1, MeaningStays
  <2> QED
    BY <1>1, <2>1, <2>2 DEF WInv, Parsed, Failed
<1> QED
  BY <1>2, <1>3, <1>4, <1>5, <1>6 DEF Next, ParserStep, ARule

LEMMA ToldShape == WInv => WellShaped
<1> SUFFICES ASSUME WInv PROVE WellShaped
  OBVIOUS
<1>1. CASE Parsed /\ ret
  <2>1. Finished
    BY <1>1 DEF WInv, OInv, Parsed, Finished, Node
  <2> QED
    BY <2>1, FinishedShape
<1>2. CASE ~ (Parsed /\ ret)
  BY <1>2 DEF WellShaped
<1> QED
  BY <1>1, <1>2

(* For every set of programs, in any sequence of calls with any allocation
   refused, the tree of a parse that succeeds says what the tokens say: each
   name, literal and operator is one node, below as many blocks as braces are
   open around it; operands are on their operators' sides, grouped by the
   parentheses, then by the levels of ParRule_Opd1 to ParRule_Opd8, and on the
   side to which a level associates; parts are in order, and there are as many
   conditions, else-branches and assignments as their words (rule.c:100-775). *)
THEOREM AlwaysWellShaped == Spec => []WellShaped
<1> QED
  BY InitWInv, StepWInv, ToldShape, PTL DEF Spec
=============================================================================
