------------------------------ MODULE Keywords ------------------------------
(* The keyword table of src/src/lexer/lexer.c, row by row. *)
EXTENDS Integers, Sequences

Bytes(word) == [i \in 1 .. Len(word) |-> SubSeq(word, i, i)]

Ent(word, tok_tag) == [str |-> Bytes(word), tag |-> tok_tag]

(* Row 7 holds a word of eight letters. *)
kw_tok_map ==
  [n \in 0 .. 7 |->
     CASE n = 2 -> {Ent("if", "If"), Ent("or", "Or")}
       [] n = 3 -> {Ent("and", "And"), Ent("for", "For"),
                    Ent("let", "Let"), Ent("not", "Not")}
       [] n = 4 -> {Ent("else", "Else"), Ent("true", "True")}
       [] n = 5 -> {Ent("break", "Break"), Ent("false", "False"),
                    Ent("match", "Match"), Ent("while", "While")}
       [] n = 6 -> {Ent("return", "Return")}
       [] n = 7 -> {Ent("continue", "Continue")}
       [] OTHER -> {}]

max_kw_tok_len == 7
=============================================================================
