----------------------------- MODULE MCPrinting -----------------------------
(* Printing with buffers of a few bytes, short token sequences and small   *)
(* trees.                                                                  *)
EXTENDS Printing, TLC

CONSTANTS a, b, c

MCObj == {a, b, c}
Symmetry == Permutations(MCObj)

(* Nothing, blanks, A, blanks around A, A LF A and " A A", and for Escape  *)
(* the quote, the backslash, \n as two bytes, the line feed and a byte     *)
(* that is not printable.                                                  *)
MCText ==
  {<< >>, <<32>>, <<65>>, <<9, 65, 13>>, <<65, 10, 65>>, <<32, 65, 65>>,
   <<34, 92>>, <<92, 110>>, <<10>>, <<155>>}

MCInd == {-1, 0, 2}

MCKeyword == [tag |-> "Keyword", str |-> << >>]
MCStrings == {[tag |-> "StrLit", str |-> s] : s \in MCText}
MCToks ==
  {<< >>, <<MCKeyword>>, <<MCKeyword, MCKeyword>>}
    \union {<<s, MCKeyword>> : s \in MCStrings} \union {<<MCKeyword, s>> : s \in MCStrings}

(* A program of nothing, of one assignment, of a unary and a binary        *)
(* operator, and an if with an else.                                       *)
MCTrees ==
  {<<0>>, <<0, 1, 2, 2>>, <<0, 1, 2, 3, 1>>, <<0, 1, 2, 2, 3, 2>>}

(* Every byte is escaped so that it is read back. *)
ASSUME EveryByteReadsBack == \A x \in Byte : Quotes(Escaped(<<x>>), <<x>>)
=============================================================================
