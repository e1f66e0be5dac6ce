------------------------------ MODULE Printing ------------------------------
(***************************************************************************)
(* TokSeq_PushAsStr of src/src/lexer/token.c and AstNode_PushAsStr of      *)
(* src/src/parser/ast.c.  What is printed is a sequence of pieces: what    *)
(* one FlexBuf_Push call appends, in full or not at all.  A program prints *)
(* while it holds no FixedBuf of its own (a bound: printing reads none).   *)
(*                                                                         *)
(* A tree is the sequence of the depths of its nodes in preorder, and a    *)
(* node its place there.                                                   *)
(***************************************************************************)
EXTENDS FixedBuf

CONSTANTS
  Toks,   (* the token sequences that are printed                          *)
  Trees,  (* the trees that are printed                                    *)
  Ind     (* the values of ind                                             *)

(* A token is printed by its tag, a string literal with its text.          *)
ASSUME PrintingAssumption ==
  /\ Toks \subseteq Seq([tag : {"Keyword", "StrLit"}, str : Text])
  /\ Trees \subseteq Seq(Nat)
  /\ \A tree \in Trees :
       /\ tree # << >> /\ tree[1] = 0
       /\ \A n \in 2 .. Len(tree) : tree[n] \in 1 .. tree[n - 1] + 1
  /\ Ind \subseteq Int

VARIABLES
  job,     (* what is being printed, or why nothing is                     *)
  work,    (* the arguments of the call                                    *)
  page,    (* the pieces in the caller's FlexBuf                           *)
  frames,  (* the calls of AstNode_PushAsStr_Recur in progress: the node,  *)
           (* and how many of its children have been called; 0 before its  *)
           (* line is printed                                              *)
  dep,     (* *dep                                                         *)
  ok       (* what the call returned                                       *)

printVars == <<job, work, page, frames, dep, ok>>
vars == <<bufVars, printVars>>

NoWork == [toks |-> << >>, tree |-> << >>, ind |-> 0]

Piece(kind, num) == [kind |-> kind, num |-> num, str |-> << >>]
StrPiece(s) == [kind |-> "StrLit", num |-> 0, str |-> s]

(* The bound above. *)
Quiet == job = "none" /\ call = NoCall /\ \A o \in Obj : fixed[o] = NULL

Ends(result) == job' = "done" /\ ok' = result

-----------------------------------------------------------------------------
(* TokSeq_PushAsStr. *)

(* Where the next token, or the bracket, goes. *)
Break(ind) ==
  (IF ind >= 0 THEN <<Piece("newline", 0)>> ELSE << >>)
    \o (IF ind > 0 THEN <<Piece("pad", ind)>> ELSE << >>)

(* Token_PushAsStr. *)
TokenPiece(tok) ==
  IF tok.tag = "StrLit" THEN StrPiece(Escaped(tok.str)) ELSE Piece("Keyword", 0)

(* Mutant of TokensText: a line break before the first token only. *)
TokensTextOnOneLine(toks, ind) ==
  <<Piece("TokSeq", Len(toks))>>
    \o (IF toks = << >> THEN << >>
        ELSE <<Piece("open", 0)>> \o Break(ind)
               \o FlattenSeq([k \in 1 .. Len(toks) - 1 |->
                                <<TokenPiece(toks[k]), Piece("comma", 0)>>])
               \o <<TokenPiece(Last(toks))>> \o Break(IF ind > 0 THEN 0 ELSE ind))
    \o <<Piece("close", 0)>>

(* What is merged into the caller's buffer. *)
TokensText(toks, ind) ==
  <<Piece("TokSeq", Len(toks))>>
    \o (IF toks = << >> THEN << >>
        ELSE <<Piece("open", 0)>> \o Break(ind)
               \o FlattenSeq([k \in 1 .. Len(toks) - 1 |->
                                <<TokenPiece(toks[k]), Piece("comma", 0)>> \o Break(ind)])
               \o <<TokenPiece(Last(toks))>> \o Break(IF ind > 0 THEN 0 ELSE ind))
    \o <<Piece("close", 0)>>

(* The text is made in a buffer of its own and merged, or a push refused.  *)
(* A string whose escaped text finds no memory is a pointer nobody has     *)
(* assigned: by luck NULL, and the call returns false, or anything.        *)
PrintTokens(toks, ind) ==
  /\ Quiet
  /\ work' = [NoWork EXCEPT !.toks = toks, !.ind = ind]
  /\ \/ page' = page \o TokensText(toks, ind) /\ Ends(TRUE)
     \/ UNCHANGED page /\ Ends(FALSE)
     \/ /\ \E k \in DOMAIN toks : toks[k].tag = "StrLit"
        /\ job' = "crashed"
        /\ UNCHANGED <<page, ok>>
  /\ UNCHANGED <<bufVars, frames, dep>>

-----------------------------------------------------------------------------
(* AstNode_PushAsStr. *)

Frame(node) == [node |-> node, called |-> 0, printed |-> FALSE]

(* The numbers of a finite set in increasing order.                        *)
InOrder(S) ==
  [k \in 1 .. Cardinality(S) |-> CHOOSE x \in S : Cardinality({y \in S : y < x}) = k - 1]

(* Node m is on the way from the root to node n. *)
IsAbove(tree, m, n) == m < n /\ \A i \in m + 1 .. n : tree[i] > tree[m]

(* The nodes directly below a node, from left to right. *)
Children(tree, node) ==
  InOrder({n \in 1 .. Len(tree) : IsAbove(tree, node, n) /\ tree[n] = tree[node] + 1})

BeginTree(tree, ind) ==
  /\ Quiet /\ ind >= 0
  /\ job' = "tree"
  /\ work' = [NoWork EXCEPT !.tree = tree, !.ind = ind]
  /\ frames' = <<Frame(1)>>
  /\ dep' = 0
  /\ UNCHANGED <<bufVars, page, ok>>

Top == Head(frames)

(* The running call returns to its caller, which goes on with its next     *)
(* child whatever it is told.                                              *)
Leaves(result) ==
  /\ frames' = Tail(frames)
  /\ IF Len(frames) = 1 THEN Ends(result) ELSE UNCHANGED <<job, ok>>

(* A refused push returns before the depth is counted.                     *)
Line(node) ==
  (IF work.ind * dep = 0 THEN << >> ELSE <<Piece("pad", work.ind * dep)>>)
    \o <<Piece("label", node), Piece("newline", 0)>>

(* Mutant of PrintLine: the depth is counted before the line break. *)
PrintLineCountsFirst ==
  /\ job = "tree" /\ ~ Top.printed
  /\ \/ /\ page' = page \o Line(Top.node)
        /\ frames' = <<[Top EXCEPT !.printed = TRUE]>> \o Tail(frames)
        /\ dep' = dep + 1
        /\ UNCHANGED <<job, ok>>
     \/ /\ \E n \in 0 .. Len(Line(Top.node)) - 1 :
             /\ page' = page \o SubSeq(Line(Top.node), 1, n)
             /\ dep' = IF n = Len(Line(Top.node)) - 1 THEN dep + 1 ELSE dep
        /\ Leaves(FALSE)
  /\ UNCHANGED <<bufVars, work>>

(* Mutant of PrintLine: the depth is not counted. *)
PrintLineKeepsDepth ==
  /\ job = "tree" /\ ~ Top.printed
  /\ \/ /\ page' = page \o Line(Top.node)
        /\ frames' = <<[Top EXCEPT !.printed = TRUE]>> \o Tail(frames)
        /\ UNCHANGED <<job, ok>>
     \/ /\ \E n \in 0 .. Len(Line(Top.node)) - 1 :
             page' = page \o SubSeq(Line(Top.node), 1, n)
        /\ Leaves(FALSE)
  /\ UNCHANGED <<bufVars, work, dep>>

PrintLine ==
  /\ job = "tree" /\ ~ Top.printed
  /\ \/ /\ page' = page \o Line(Top.node)
        /\ frames' = <<[Top EXCEPT !.printed = TRUE]>> \o Tail(frames)
        /\ dep' = dep + 1
        /\ UNCHANGED <<job, ok>>
     \/ /\ \E n \in 0 .. Len(Line(Top.node)) - 1 :
             page' = page \o SubSeq(Line(Top.node), 1, n)
        /\ Leaves(FALSE)
        /\ UNCHANGED dep
  /\ UNCHANGED <<bufVars, work>>

PrintChild ==
  /\ job = "tree" /\ Top.printed
  /\ LET below == Children(work.tree, Top.node)
     IN  /\ Top.called < Len(below)
         /\ frames' = <<Frame(below[Top.called + 1]), [Top EXCEPT !.called = @ + 1]>>
                        \o Tail(frames)
  /\ UNCHANGED <<bufVars, job, work, page, dep, ok>>

PrintReturns ==
  /\ job = "tree" /\ Top.printed
  /\ Top.called = Len(Children(work.tree, Top.node))
  /\ dep' = dep - 1
  /\ Leaves(TRUE)
  /\ UNCHANGED <<bufVars, work, page>>

-----------------------------------------------------------------------------
Init ==
  /\ BufInit
  /\ job = "none" /\ work = NoWork /\ page = << >>
  /\ frames = << >> /\ dep = 0 /\ ok = TRUE

(* The caller takes what was printed. *)
Take ==
  /\ job = "done"
  /\ job' = "none" /\ work' = NoWork /\ page' = << >> /\ dep' = 0 /\ ok' = TRUE
  /\ UNCHANGED <<bufVars, frames>>

Next ==
  \/ job = "none" /\ BufNext /\ UNCHANGED printVars
  \/ \E toks \in Toks, ind \in Ind : PrintTokens(toks, ind)
  \/ \E tree \in Trees, ind \in Ind : BeginTree(tree, ind)
  \/ PrintLine \/ PrintChild \/ PrintReturns
  \/ Take

Spec == Init /\ [][Next]_vars

-----------------------------------------------------------------------------
TypeOK ==
  /\ BufTypeOK
  /\ job \in {"none", "tree", "done", "crashed"}
  /\ work.toks \in Toks \union {<< >>} /\ work.tree \in Trees \union {<< >>}
  /\ work.ind \in Ind \union {0}
  /\ page \in Seq([kind : {"TokSeq", "open", "newline", "pad", "StrLit", "Keyword", "comma",
                           "close", "label"},
                   num : Int, str : Seq(Byte)])
  /\ frames \in Seq([node : Nat, called : Nat, printed : BOOLEAN])
  /\ dep \in Nat
  /\ ok \in BOOLEAN

Places(kinds) == {i \in DOMAIN page : page[i].kind \in kinds}

(* The tokens that can be read from the page are those of the sequence, in *)
(* number, order and text, each on a line of its own behind its            *)
(* indentation if there is one; and a call that returns false has printed  *)
(* nothing (token.c:295-352).                                              *)
TokensReadBack ==
  job = "done" /\ work.tree = << >> =>
    IF ~ ok THEN page = << >>
    ELSE LET at == InOrder(Places({"StrLit", "Keyword"}))
         IN  /\ page[1] = Piece("TokSeq", Len(at))
             /\ Len(at) = Len(work.toks)
             /\ \A k \in DOMAIN at :
                  LET tok == work.toks[k]
                  IN  /\ page[at[k]].kind = tok.tag
                      /\ tok.tag = "StrLit" => Quotes(page[at[k]].str, tok.str)
                      /\ k > 1 => page[at[k - 1] + 1].kind = "comma"
                      /\ work.ind > 0 =>
                           /\ page[at[k] - 2].kind = "newline"
                           /\ page[at[k] - 1] = Piece("pad", work.ind)

(* Whatever pushes were refused on the way, and although nobody looks at   *)
(* what the calls for the children return: the lines that are printed are  *)
(* in the order of the program, below the lines of all they belong to, and *)
(* indented by their depth; and true is returned exactly when the root's   *)
(* line is there (ast.c:282-422).                                          *)
TreeLines ==
  LET at == InOrder(Places({"label"}))
      node(k) == page[at[k]].num
      depth(k) == work.tree[node(k)]
  IN  job \in {"tree", "done"} /\ work.tree # << >> =>
        /\ \A k \in DOMAIN at :
             /\ k > 1 => node(k - 1) < node(k)
             /\ \A m \in 1 .. node(k) - 1 :
                  IsAbove(work.tree, m, node(k)) =>
                    \E j \in 1 .. k - 1 : node(j) = m /\ page[at[j] + 1].kind = "newline"
             /\ work.ind * depth(k) > 0 =>
                  page[at[k] - 1] = Piece("pad", work.ind * depth(k))
        /\ job = "done" =>
             /\ ok <=> Len(page) > 1 /\ page[2].kind = "newline"
             /\ dep = 0

(* The doc of TokSeq_PushAsStr: false "if an error occurs (e.g., memory    *)
(* allocation failure)" (token.c:292): no print ends otherwise.            *)
FailureReported == job # "crashed"
=============================================================================
