------------------------------ MODULE MCParser ------------------------------
(* The parser on small programs. *)
EXTENDS Syntax, SequencesExt

CONSTANTS
  ExprLen,    (* bound on the length of the expressions                     *)
  StmtLen     (* bound on the number of words of statements                 *)

Asgn(expr) == <<"Name", "Assign">> \o expr \o <<"Semicolon">>

Upto(n, words) == {FlattenSeq(s) : s \in UNION {[1 .. k -> words] : k \in 0 .. n}}

(* Every sequence of operands, parentheses, one operator of each kind of   *)
(* associativity and one that is unary too; every pair of binary operators;*)
(* parentheses on either side.                                             *)
Few == {"Exponent", "Asterisk", "Minus", "Or"}

Exprs ==
  Upto(ExprLen, {<<t>> : t \in Few \union {"Name", "LeftParen", "RightParen"}})
    \union {<<"NumLit", a, "Not", "True", b, "StrLit">> : a, b \in Infix}
    \union {<<"LeftParen", "Name", a, "Name", "RightParen", b, "Name">> : a, b \in Few}
    \union {<<"Name", a, "LeftParen", "Name", b, "Name", "RightParen">> : a, b \in Few}

(* Every sequence of the words of statements. *)
Texts ==
  Upto(StmtLen, {<<"Name">>, <<"If", "False">>, <<"Else">>, <<"LeftBrace">>,
                 <<"RightBrace">>, Asgn(<<"NumLit">>)})

(* Statements with blocks of at most one statement of stmts. *)
Around(stmts) ==
  LET blocks == {<<"LeftBrace">> \o s \o <<"RightBrace">> : s \in stmts \union {<< >>}}
  IN  stmts \union blocks
        \union {<<"If", "Plus", "Name">> \o b : b \in blocks}
        \union {<<"If", "Name">> \o a \o <<"Else">> \o b : a, b \in blocks}

Nested == Around(Around({Asgn(<<"NumLit">>)}))

MCProgram ==
  {Append(p, "Eof") : p \in {Asgn(e) : e \in Exprs} \union Texts \union Nested}

(* A program or two for each way in which a rule ends, for the runs in     *)
(* which every allocation may fail.                                        *)
MCFewPrograms ==
  {Append(p, "Eof") : p \in {
     << >>,
     Asgn(<<"LeftParen", "Minus", "Name", "Asterisk", "StrLit", "RightParen">>),
     <<"LeftBrace", "If", "Name", "LeftBrace", "RightBrace", "RightBrace">>,
     <<"If", "True", "LeftBrace", "RightBrace", "Else">> \o <<"LeftBrace">>
        \o Asgn(<<"NumLit">>) \o <<"RightBrace">>,
     <<"LeftBrace", "Name", "Assign", "Name", "Plus", "LeftParen", "Name", "Semicolon">>,
     <<"If", "Name", "LeftBrace", "RightBrace", "Else", "Name">>,
     <<"LeftBrace">> \o Asgn(<<"NumLit">>) \o <<"Else">>,
     <<"If", "Name", "LeftBrace">> \o Asgn(<<"Name", "Exponent", "Name", "Exponent">>),
     Asgn(<<"Name", "Or">>),
     <<"Name">>}}
=============================================================================
