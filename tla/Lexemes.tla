------------------------------ MODULE Lexemes -------------------------------
(***************************************************************************)
(* What the tokens of Lexer must say of the text they were read from.  The *)
(* definitions below know nothing of the machine: they locate a token by   *)
(* its row, column and length in the whole text and read its bytes there.  *)
(***************************************************************************)
EXTENDS Lexer, FiniteSets, FiniteSetsExt

Blank == {"space", "tab", "LF", "CR"}

(* The bytes of s that end a line: an LF, or a CR that no LF follows. *)
LineBreaks(s) ==
  {i \in 1 .. Len(s) :
     s[i] = "LF" \/ (s[i] = "CR" /\ (i = Len(s) \/ s[i + 1] # "LF"))}

Row(s, p) == Cardinality({i \in LineBreaks(s) : i < p})

Col(s, p) == p - 1 - Max({0} \union {i \in LineBreaks(s) : i < p})

(* The places of s at row and col: at most one, and none when the lexer    *)
(* miscounted.                                                             *)
Place(s, row, col) == {p \in 1 .. Len(s) + 1 : Row(s, p) = row /\ Col(s, p) = col}

(* The bytes of s that a lexeme at row, col of length len occupies. *)
Span(s, row, col, len) == UNION {p .. p + len - 1 : p \in Place(s, row, col)}

TokenSpan(s, t) == Span(s, t.row, t.col, t.len)

(* The bytes of s a span holds, << >> when part of it lies outside s. *)
Read(s, span) ==
  IF span # {} /\ Max(span) <= Len(s) THEN SubSeq(s, Min(span), Max(span)) ELSE << >>

Decimal(w) ==
  LET val[i \in 0 .. Len(w)] ==
        IF i = 0 THEN 0 ELSE 10 * val[i - 1] + DigitVal[w[i]]
  IN  Wrap(val[Len(w)])

KeywordEntries == UNION {KwTokMap[n] : n \in DOMAIN KwTokMap}

(* A word in a row that is not that of its length, or what the row's       *)
(* number of bytes leaves of it: the table says nothing useful of these.   *)
IsMisfiled(w) ==
  \E n \in DOMAIN KwTokMap : \E e \in KwTokMap[n] :
    Len(e.str) # n /\ w \in {e.str, SubSeq(e.str, 1, n)}

IsName(w) ==
  /\ w # << >> /\ w[1] \in Letter
  /\ \A i \in 1 .. Len(w) : w[i] \in NameByte

IsNumber(w) == w # << >> /\ \A i \in 1 .. Len(w) : w[i] \in Digit

IsStringBody(w) == \A i \in 1 .. Len(w) : w[i] \notin {"quote", "CR", "LF"}

Spelling ==
  [Assign |-> <<"=">>, Plus |-> <<"+">>, Minus |-> <<"-">>,
   Asterisk |-> <<"*">>, ForwardSlash |-> <<"/">>, Percent |-> <<"%">>,
   Exponent |-> <<"^">>, Equ |-> <<"=", "=">>, Neq |-> <<"!", "=">>,
   GreaterThan |-> <<">">>, Gte |-> <<">", "=">>, LessThan |-> <<"<">>,
   Lte |-> <<"<", "=">>, LeftParen |-> <<"(">>, RightParen |-> <<")">>,
   LeftBracket |-> <<"[">>, RightBracket |-> <<"]">>, LeftBrace |-> <<"{">>,
   RightBrace |-> <<"}">>, Semicolon |-> <<";">>]

(* Token t says what its lexeme w is.  Whether a misfiled word is a        *)
(* keyword is left open here; NoNameIsKeyword is about these.              *)
Says(t, w) ==
  \/ /\ t.tag = "Name" /\ IsName(w) /\ t.str = w
     /\ IsMisfiled(w) \/ w \notin {e.str : e \in KeywordEntries}
  \/ /\ t.tag \in Keyword /\ IsName(w)
     /\ IsMisfiled(w) \/ [str |-> w, tag |-> t.tag] \in KeywordEntries
  \/ t.tag = "NumLit" /\ IsNumber(w) /\ t.val = Decimal(w)
  \/ t.tag = "StrLit" /\ IsStringBody(t.str) /\ w = <<"quote">> \o t.str \o <<"quote">>
  \/ t.tag \in Symbol /\ w = Spelling[t.tag]

(* What only the end of the text makes of a lexeme: a string literal       *)
(* without its closing quote (lexer.c:822-835), and the braces of          *)
(* lexer.c:861-889 for ">" and "<".                                        *)
SaysAtEnd(t, w) ==
  \/ t.tag = "StrLit" /\ IsStringBody(t.str) /\ w = <<"quote">> \o t.str
  \/ t.tag = "RightBrace" /\ w = <<">">>
  \/ t.tag = "LeftBrace" /\ w = <<"<">>

(* The lexeme is as long as the byte after it allows. *)
Maximal(t, next) ==
  /\ t.tag \in Keyword \union {"Name"} => next \notin NameByte
  /\ t.tag = "NumLit" => next \notin Digit
  /\ t.tag \in {"Assign", "GreaterThan", "LessThan"} => next # "="

(* spans follow one another in s, and only blanks are left out. *)
Covers(s, spans) ==
  /\ \A j, k \in DOMAIN spans : j < k =>
       \A a \in spans[j], b \in spans[k] : a < b
  /\ \A i \in 1 .. Len(s) :
       s[i] \notin Blank => \E k \in DOMAIN spans : i \in spans[k]

TokenHolds(s, t) ==
  LET span == TokenSpan(s, t)
  IN  /\ Says(t, Read(s, span))
      /\ Max(span) < Len(s) => Maximal(t, s[Max(span) + 1])

(* The lexeme being read: it ends where the text does, and str or num      *)
(* already hold its value.                                                 *)
Reading == stat \notin {"Idle", "CrLf"}

PendingSpan == Span(text, tok.row, tok.off, tok.len)

PendingHolds ==
  LET w == Read(text, PendingSpan)
  IN  /\ w # << >> /\ Max(PendingSpan) = Len(text)
      /\ stat = "Name" => IsName(w) /\ str = w
      /\ stat = "NumLit" => IsNumber(w) /\ num = Decimal(w)
      /\ stat = "StrLit" => IsStringBody(str) /\ w = <<"quote">> \o str
      /\ stat \in {"AssignOrEqu", "Neq", "RightBraceOrGte", "LeftBraceOrLte"} =>
           w \in {<<b>> : b \in Operator} /\ OperatorStat(w[1]) = stat

-----------------------------------------------------------------------------
(* While no call has failed, the tokens read so far and the lexeme in      *)
(* progress spell the whole text consumed so far but its blanks, in order, *)
(* each at the position it claims and each as long as it can be: nothing   *)
(* is lost, doubled or misplaced by a byte that is handed back, by CR LF,  *)
(* by a call boundary in the middle of a lexeme or by a previous scan      *)
(* (Lexer_FeedByte, lexer.c:714-769).                                      *)
Lossless ==
  ret =>
    /\ \A k \in DOMAIN seq : TokenHolds(text, seq[k])
    /\ Reading => PendingHolds
    /\ Covers(text,
         [k \in DOMAIN seq |-> TokenSpan(text, seq[k])]
           \o (IF Reading THEN <<PendingSpan>> ELSE << >>))

(* Eof is the last token that a successful Finalize or scan hands out, at  *)
(* the position where its text ends, a CR at the end being a line break    *)
(* (lexer.c:1072-1116).                                                    *)
EofAtEnd ==
  out # NoOut =>
    LET end == Len(out.text) + 1
    IN  out.toks[Len(out.toks)] =
          [tag |-> "Eof", row |-> Row(out.text, end), col |-> Col(out.text, end),
           len |-> 0, str |-> << >>, val |-> 0]

(* What a successful Finalize or scan hands out is the tokens of its whole *)
(* text and Eof (lexer.c:1072-1116), whatever was fed, lost and reset      *)
(* before.                                                                 *)
OutputLossless ==
  /\ EofAtEnd
  /\ out # NoOut =>
       LET n    == Len(out.toks) - 1
           toks == SubSeq(out.toks, 1, n)
       IN  /\ \A k \in 1 .. n :
                \/ TokenHolds(out.text, toks[k])
                \/ /\ k = n
                   /\ SaysAtEnd(toks[k], Read(out.text, TokenSpan(out.text, toks[k])))
                   /\ Max(TokenSpan(out.text, toks[k])) = Len(out.text)
           /\ Covers(out.text, [k \in 1 .. n |-> TokenSpan(out.text, toks[k])])

(* An unexpected byte is reported where it is: at the first byte that was  *)
(* not consumed, counted from 1 (Lexer_SetErrorInfo, lexer.c:980-1013),    *)
(* also when an earlier byte of its lexeme was consumed by another call,    *)
(* and no message of an earlier failure is left before its own.            *)
ErrorAtByte ==
  err.type = "UnexpectedByte" =>
    /\ err.msg <= 1
    /\ err.line_no = Row(text, Len(text) + 1) + 1
    /\ err.col_no = Col(text, Len(text) + 1) + 1

(* A lexer that has consumed nothing since it was reset or handed out its  *)
(* tokens is as new, whatever happened to it before: no residue of an      *)
(* earlier text or failure reaches the next one, and in.src is its own     *)
(* buffer again and not one that a scan has freed (lexer.c:1128-1156).     *)
Pristine ==
  ret /\ text = << >> =>
    /\ stat = "Idle" /\ str = << >> /\ num = 0 /\ seq = << >>
    /\ tok = Tok0 /\ err = NoErr
    /\ pc = "idle" => src = "own"

(* A ">" at the end of the text is a GreaterThan token and "<" a LessThan: *)
(* the tests expect these tokens of the two bytes (test_lexer.c:174, :181, *)
(* :280, :287).                                                            *)
AngleIsComparison ==
  \A k \in DOMAIN out.toks :
    out.toks[k].tag \in {"RightBrace", "LeftBrace"} =>
      Read(out.text, TokenSpan(out.text, out.toks[k])) = Spelling[out.toks[k].tag]

(* No keyword is taken for a name: token.c prints the Continue token as    *)
(* "continue" (token.c:26), the last word of the table "of the keyword     *)
(* token" lengths (lexer.c:123-172).                                       *)
NoNameIsKeyword ==
  \A k \in DOMAIN seq :
    seq[k].tag = "Name" => seq[k].str \notin {e.str : e \in KeywordEntries}

(* Every Feed, scan and Finalize returns. *)
CallReturns == pc # "idle" ~> pc = "idle"

(* Every step of a call but its last consumes a byte, hands it back to the *)
(* state Idle from another one, or goes on to Finalize.  Idle hands none   *)
(* back: no byte is looked at more than twice, whatever the rest of the    *)
(* text, unless it follows a lone CR (Lexer_Feed's inner loop,             *)
(* lexer.c:1015-1037).                                                     *)
CallAdvances ==
  [][LexerStep /\ pc' # "idle" =>
       \/ pc = "feed" /\ pc' = "finalize"
       \/ UNCHANGED pc /\ todo # << >> /\ todo' = Tail(todo)
       \/ UNCHANGED <<pc, todo>> /\ stat # "Idle" /\ stat' = "Idle"]_vars
=============================================================================
