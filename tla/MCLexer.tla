------------------------------ MODULE MCLexer -------------------------------
(* Lexer with the keyword table of the program, on an alphabet with one    *)
(* byte or two of every kind, fed in buffers of a few bytes, and on whole  *)
(* words.                                                                  *)
EXTENDS Lexemes, Keywords, SequencesExt

MCLetter ==
  {"a", "b", "c", "d", "e", "f", "h", "i", "k", "l", "m", "n", "o", "r",
   "s", "t", "u", "w", "_"}
MCDigitVal == [d \in {"0", "7"} |-> IF d = "0" THEN 0 ELSE 7]
MCOther == {"?"}

MCWords == {e.str : e \in UNION {kw_tok_map[n] : n \in 2 .. 7}}

(* Every keyword, less its last byte, whole, and a byte longer. *)
MCWordChunk ==
  MCWords \union {Front(w) : w \in MCWords} \union {Append(w, "_") : w \in MCWords}

MCBytes(alphabet) == {<<b>> : b \in alphabet}
MCScanAlphabet ==
  {"i", "f", "7", "space", "LF", "CR", "quote", "=", "!", ">", "%", "?"}
MCScanChunk ==
  MCWordChunk \union MCBytes(MCScanAlphabet)
    \union {<< >>, <<"CR", "LF">>, <<"7", "=", "=", ">">>}

MCAngleChunk == MCBytes({"i", "space", "<", ">"})
MCLineChunk == MCBytes({"i", "LF", "CR"})
MCContinueChunk == {Bytes("continue"), <<"space">>}
=============================================================================
