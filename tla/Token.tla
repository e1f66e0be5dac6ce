------------------------------- MODULE Token --------------------------------
(* The tags of tokens (src/src/lexer/token.h).                             *)

Keyword ==
  {"Let", "If", "Else", "False", "True", "Not", "Or", "And", "Match",
   "While", "For", "Break", "Continue", "Return"}

Symbol ==
  {"Assign", "Plus", "Minus", "Asterisk", "ForwardSlash", "Percent",
   "Exponent", "Equ", "Neq", "GreaterThan", "Gte", "LessThan", "Lte",
   "LeftParen", "RightParen", "LeftBracket", "RightBracket", "RightBrace",
   "LeftBrace", "Semicolon"}

TokTag == Keyword \union Symbol \union {"Name", "NumLit", "StrLit", "Eof"}
=============================================================================
