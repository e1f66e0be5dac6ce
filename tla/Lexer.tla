------------------------------- MODULE Lexer --------------------------------
(***************************************************************************)
(* The lexer of src/src/lexer/lexer.c: a finite state machine that is fed  *)
(* bytes and appends tokens to a sequence.  A Feed call is one step per    *)
(* iteration of its inner loop, so a byte that a handler hands back        *)
(* (FsmRes_Again) is seen twice.  Finalize, Reset and the beginning of a   *)
(* call are one step each.                                                 *)
(*                                                                         *)
(* Bytes are strings: printable ones stand for themselves, the others are  *)
(* "space", "tab", "LF", "CR" and "quote".  Buffers are used through what  *)
(* ByteSeq promises of them: a push appends all of its data or, when       *)
(* memory may run out (FaultyAlloc), is refused and changes nothing.       *)
(***************************************************************************)
EXTENDS Integers, Sequences, Token

CONSTANTS
  Letter,           (* A-Z, a-z and _                                       *)
  DigitVal,         (* value of each byte 0-9                               *)
  Other,            (* bytes that start no lexeme                           *)
  KwTokMap,         (* rows of keywords, indexed by length                  *)
  MaxKwTokLen,      (* the last row                                         *)
  UsizeMax,         (* the largest usize                                    *)
  Chunk,            (* the buffers callers feed or scan                     *)
  MaxText,          (* bound on the bytes fed in several calls              *)
  FaultyAlloc,      (* may an allocation fail?                              *)
  LoneCR            (* may input contain a CR that no LF follows?           *)

Wrap(n) == n % (UsizeMax + 1)

Digit == DOMAIN DigitVal
NameByte == Letter \union Digit
Punct == {"(", ")", "[", "]", "{", "}", "+", "-", "*", "/", "%", "^", ";"}
Operator == {"=", "!", ">", "<"}
Byte == NameByte \union Punct \union Operator \union Other
          \union {"space", "tab", "LF", "CR", "quote"}

FsmStat ==
  {"Idle", "CrLf", "Name", "NumLit", "StrLit", "AssignOrEqu", "Neq",
   "RightBraceOrGte", "LeftBraceOrLte"}

ASSUME LexerAssumption ==
  /\ Letter \intersect Digit = {}
  /\ NameByte \intersect
       (Punct \union Operator \union Other
          \union {"space", "tab", "LF", "CR", "quote"}) = {}
  /\ Other \intersect
       (Punct \union Operator
          \union {"space", "tab", "LF", "CR", "quote"}) = {}
  /\ DigitVal \in [Digit -> 0 .. 9]
  /\ UsizeMax \in Nat /\ UsizeMax >= 9
  /\ Chunk \subseteq Seq(Byte)
  /\ MaxText \in Nat
  /\ FaultyAlloc \in BOOLEAN
  /\ LoneCR \in BOOLEAN

(* Row n lists keywords of at least n bytes, told apart by the first n.    *)
ASSUME KeywordAssumption ==
  /\ MaxKwTokLen \in Nat
  /\ KwTokMap \in [0 .. MaxKwTokLen -> SUBSET [str : Seq(Letter), tag : Keyword]]
  /\ \A n \in 1 .. MaxKwTokLen : \A d, e \in KwTokMap[n] :
       /\ Len(d.str) >= n
       /\ SubSeq(d.str, 1, n) = SubSeq(e.str, 1, n) => d = e

VARIABLES
  stat,  (* state of the machine                                            *)
  str,   (* bytes of the name or string literal being read                  *)
  num,   (* value of the number being read                                  *)
  seq,   (* the tokens read                                                 *)
  tok,   (* position of the next byte (row, col) and of the lexeme being    *)
         (* read (off, len)                                                 *)
  err,   (* the last error, and how many messages were appended to msg      *)
  src,   (* the name in in.src: the lexer's own or that of a scan           *)
  pc,    (* inside Feed's loop, before Finalize's work, or between calls    *)
  scan,  (* is this call a ScanBuf or ScanFile?                             *)
  todo,  (* bytes the current call has not consumed                         *)
  ret,   (* what the last call returned, TRUE after a Reset                 *)
  text,  (* bytes consumed since the last Reset or successful Finalize      *)
  out    (* what the last call handed to its caller: tokens and their text  *)

machine == <<stat, str, num, seq>>
call == <<src, pc, scan, ret>>
vars == <<stat, str, num, seq, tok, err, src, pc, scan, todo, ret, text, out>>

Tok0 == [row |-> 0, col |-> 0, off |-> 0, len |-> 0]
NoErr == [type |-> "Ok", msg |-> 0, line_no |-> 0, col_no |-> 0]
NoOut == [text |-> << >>, toks |-> << >>]

-----------------------------------------------------------------------------
(* Positions and tokens. *)

NextRow(t) == [t EXCEPT !.row = Wrap(@ + 1), !.col = 0]
NewLexeme(t) == [t EXCEPT !.off = t.col, !.len = 1]
Longer(t) == [t EXCEPT !.len = @ + 1]

Token(tag, t, s, n) ==
  [tag |-> tag, row |-> t.row, col |-> t.off, len |-> t.len, str |-> s, val |-> n]

NormalToken(tag, t) == Token(tag, t, << >>, 0)

(* Mutant of NameToKeyword: the row before the right one is searched. *)
NameToKeywordShifted(name) ==
  IF Len(name) \in 1 .. MaxKwTokLen
     /\ \E e \in KwTokMap[Len(name) - 1] : SubSeq(e.str, 1, Len(name)) = name
  THEN (CHOOSE e \in KwTokMap[Len(name) - 1] : SubSeq(e.str, 1, Len(name)) = name).tag
  ELSE "Name"

(* The tag of a finished name: row Len(name) of the table is compared over *)
(* Len(name) bytes.                                                        *)
NameToKeyword(name) ==
  IF Len(name) \in 1 .. MaxKwTokLen
     /\ \E e \in KwTokMap[Len(name)] : SubSeq(e.str, 1, Len(name)) = name
  THEN (CHOOSE e \in KwTokMap[Len(name)] : SubSeq(e.str, 1, Len(name)) = name).tag
  ELSE "Name"

NameToken ==
  LET tag == NameToKeyword(str)
  IN  Token(tag, tok, IF tag = "Name" THEN str ELSE << >>, 0)

NumberToken == Token("NumLit", tok, << >>, num)

StringLiteralToken(t) == Token("StrLit", t, str, 0)

(* Mutant of PunctTag: a case without its assignment leaves tag as it was. *)
PunctTagUnset(b) ==
  CASE b = "(" -> "LeftParen"
    [] b = ")" -> "RightParen"
    [] b = "[" -> "LeftBracket"
    [] b = "]" -> "RightBracket"
    [] b = "{" -> "LeftBrace"
    [] b = "}" -> "RightBrace"
    [] b = "+" -> "Plus"
    [] b = "-" -> "Minus"
    [] b = "*" -> "Asterisk"
    [] b = "/" -> "ForwardSlash"
    [] b = "%" -> "uninitialised"
    [] b = "^" -> "Exponent"
    [] b = ";" -> "Semicolon"

PunctTag(b) ==
  CASE b = "(" -> "LeftParen"
    [] b = ")" -> "RightParen"
    [] b = "[" -> "LeftBracket"
    [] b = "]" -> "RightBracket"
    [] b = "{" -> "LeftBrace"
    [] b = "}" -> "RightBrace"
    [] b = "+" -> "Plus"
    [] b = "-" -> "Minus"
    [] b = "*" -> "Asterisk"
    [] b = "/" -> "ForwardSlash"
    [] b = "%" -> "Percent"
    [] b = "^" -> "Exponent"
    [] b = ";" -> "Semicolon"

OperatorStat(b) ==
  CASE b = "=" -> "AssignOrEqu"
    [] b = "!" -> "Neq"
    [] b = ">" -> "RightBraceOrGte"
    [] b = "<" -> "LeftBraceOrLte"

-----------------------------------------------------------------------------
(* What a handler answers.  t is the position it leaves. *)

(* Mutant of Return: a failed scan does not restore in.src. *)
ReturnKeepsSource(r) ==
  /\ pc' = "idle"
  /\ scan' = FALSE
  /\ src' = IF scan /\ r THEN "own" ELSE src
  /\ todo' = << >>
  /\ ret' = r

Return(r) ==
  /\ pc' = "idle"
  /\ scan' = FALSE
  /\ src' = IF scan THEN "own" ELSE src
  /\ todo' = << >>
  /\ ret' = r

(* Mutant of Ok: bytes of a line break move the column as well. *)
OkCountsBreaks(b, t) ==
  /\ tok' = [t EXCEPT !.col = @ + 1]
  /\ todo' = Tail(todo)
  /\ text' = Append(text, b)
  /\ UNCHANGED <<call, err, out>>

(* FsmRes_Ok: the byte is consumed. *)
Ok(b, t) ==
  /\ tok' = IF b \in {"CR", "LF"} THEN t ELSE [t EXCEPT !.col = @ + 1]
  /\ todo' = Tail(todo)
  /\ text' = Append(text, b)
  /\ UNCHANGED <<call, err, out>>

(* FsmRes_Again: the byte is handled once more, in the new state. *)
Again(t) ==
  /\ tok' = t
  /\ UNCHANGED <<call, err, todo, text, out>>

(* FsmRes_Error: the position of the byte is recorded, a message is        *)
(* appended if there is memory for it, and the call returns false.         *)
Error(type, t) ==
  /\ tok' = t
  /\ \E msg \in {err.msg + 1} \union (IF FaultyAlloc THEN {err.msg} ELSE {}) :
       err' = [type |-> type, msg |-> msg,
               line_no |-> Wrap(t.row + 1), col_no |-> Wrap(t.col + 1)]
  /\ Return(FALSE)
  /\ UNCHANGED <<text, out>>

OutOfMemory(t) == FaultyAlloc /\ Error("NoEnoughMemory", t)

-----------------------------------------------------------------------------
(* Lexer_FeedByte, one action per state of the machine. *)

IdleSkips(b) ==
  /\ b \in {"space", "tab", "LF", "CR"}
  /\ stat' = IF b = "CR" THEN "CrLf" ELSE "Idle"
  /\ Ok(b, IF b = "LF" THEN NextRow(tok) ELSE tok)
  /\ UNCHANGED <<str, num, seq>>

IdleStartsNumber(b) ==
  /\ b \in Digit
  /\ num' = DigitVal[b]
  /\ stat' = "NumLit"
  /\ Ok(b, NewLexeme(tok))
  /\ UNCHANGED <<str, seq>>

IdleStartsName(b) ==
  /\ b \in Letter
  /\ \/ /\ str' = <<b>>
        /\ stat' = "Name"
        /\ Ok(b, NewLexeme(tok))
     \/ /\ str' = << >>
        /\ OutOfMemory(tok)
        /\ UNCHANGED stat
  /\ UNCHANGED <<num, seq>>

IdleStartsString(b) ==
  /\ b = "quote"
  /\ str' = << >>
  /\ stat' = "StrLit"
  /\ Ok(b, NewLexeme(tok))
  /\ UNCHANGED <<num, seq>>

IdleStartsOperator(b) ==
  /\ b \in Operator
  /\ stat' = OperatorStat(b)
  /\ Ok(b, NewLexeme(tok))
  /\ UNCHANGED <<str, num, seq>>

IdlePushes(b) ==
  /\ b \in Punct
  /\ \/ /\ seq' = Append(seq, NormalToken(PunctTag(b), NewLexeme(tok)))
        /\ Ok(b, NewLexeme(tok))
     \/ /\ OutOfMemory(NewLexeme(tok))
        /\ UNCHANGED seq
  /\ UNCHANGED <<stat, str, num>>

IdleRejects(b) ==
  /\ b \in Other
  /\ Error("UnexpectedByte", tok)
  /\ UNCHANGED machine

FeedByte_Idle(b) ==
  /\ stat = "Idle"
  /\ \/ IdleSkips(b)
     \/ IdleStartsNumber(b)
     \/ IdleStartsName(b)
     \/ IdleStartsString(b)
     \/ IdleStartsOperator(b)
     \/ IdlePushes(b)
     \/ IdleRejects(b)

(* A byte other than LF is handed back without leaving the state. *)
FeedByte_CrLf(b) ==
  /\ stat = "CrLf"
  /\ IF b = "LF"
     THEN stat' = "Idle" /\ Ok(b, NextRow(tok))
     ELSE Again(NextRow(tok)) /\ UNCHANGED stat
  /\ UNCHANGED <<str, num, seq>>

(* Mutant of EndsBefore: the byte after the lexeme is consumed with it. *)
EndsBeforeConsumes(token) ==
  /\ \/ /\ seq' = Append(seq, token)
        /\ stat' = "Idle"
        /\ Ok(Head(todo), tok)
     \/ /\ OutOfMemory(tok)
        /\ UNCHANGED <<seq, stat>>
  /\ UNCHANGED <<str, num>>

(* Mutant of EndsBefore: the state of the lexeme is not left. *)
EndsBeforeStays(token) ==
  /\ \/ seq' = Append(seq, token) /\ Again(tok)
     \/ OutOfMemory(tok) /\ UNCHANGED seq
  /\ UNCHANGED <<stat, str, num>>

(* The lexeme is complete without b: push its token and look at b again.   *)
EndsBefore(token) ==
  /\ \/ /\ seq' = Append(seq, token)
        /\ stat' = "Idle"
        /\ Again(tok)
     \/ /\ OutOfMemory(tok)
        /\ UNCHANGED <<seq, stat>>
  /\ UNCHANGED <<str, num>>

(* The lexeme is complete with b, which is counted before the push. *)
EndsWith(b, token) ==
  /\ \/ /\ seq' = Append(seq, token)
        /\ stat' = "Idle"
        /\ Ok(b, Longer(tok))
     \/ /\ OutOfMemory(Longer(tok))
        /\ UNCHANGED <<seq, stat>>
  /\ UNCHANGED <<str, num>>

FeedByte_Name(b) ==
  /\ stat = "Name"
  /\ \/ /\ b \in NameByte
        /\ \/ str' = Append(str, b) /\ Ok(b, Longer(tok))
           \/ OutOfMemory(tok) /\ UNCHANGED str
        /\ UNCHANGED <<stat, num, seq>>
     \/ b \notin NameByte /\ EndsBefore(NameToken)

FeedByte_Num(b) ==
  /\ stat = "NumLit"
  /\ \/ /\ b \in Digit
        /\ num' = Wrap(Wrap(num * 10) + DigitVal[b])
        /\ Ok(b, Longer(tok))
        /\ UNCHANGED <<stat, str, seq>>
     \/ b \notin Digit /\ EndsBefore(NumberToken)

FeedByte_StrLit(b) ==
  /\ stat = "StrLit"
  /\ \/ /\ b \in {"CR", "LF"}
        /\ Error("UnexpectedByte", tok)
        /\ UNCHANGED machine
     \/ b = "quote" /\ EndsWith(b, StringLiteralToken(Longer(tok)))
     \/ /\ b \notin {"CR", "LF", "quote"}
        /\ \/ str' = Append(str, b) /\ Ok(b, Longer(tok))
           \/ OutOfMemory(tok) /\ UNCHANGED str
        /\ UNCHANGED <<stat, num, seq>>

(* An operator of one byte, or of two when the second is "=". *)
MayTakeEqual(b, alone, both) ==
  IF b = "="
  THEN EndsWith(b, NormalToken(both, Longer(tok)))
  ELSE EndsBefore(NormalToken(alone, tok))

FeedByte_AsgOrEqu(b) ==
  stat = "AssignOrEqu" /\ MayTakeEqual(b, "Assign", "Equ")

FeedByte_GtOrGte(b) ==
  stat = "RightBraceOrGte" /\ MayTakeEqual(b, "GreaterThan", "Gte")

FeedByte_LtOrLte(b) ==
  stat = "LeftBraceOrLte" /\ MayTakeEqual(b, "LessThan", "Lte")

(* Mutant of FeedByte_Neq: a byte other than "=" is handed back. *)
FeedByte_NeqRetries(b) ==
  /\ stat = "Neq"
  /\ \/ b = "=" /\ EndsWith(b, NormalToken("Neq", Longer(tok)))
     \/ b # "=" /\ Again(tok) /\ UNCHANGED machine

FeedByte_Neq(b) ==
  /\ stat = "Neq"
  /\ \/ b = "=" /\ EndsWith(b, NormalToken("Neq", Longer(tok)))
     \/ b # "=" /\ Error("UnexpectedByte", tok) /\ UNCHANGED machine

FeedByte ==
  /\ pc = "feed"
  /\ todo # << >>
  /\ LET b == Head(todo)
     IN  \/ FeedByte_Idle(b)
         \/ FeedByte_CrLf(b)
         \/ FeedByte_Name(b)
         \/ FeedByte_Num(b)
         \/ FeedByte_StrLit(b)
         \/ FeedByte_AsgOrEqu(b)
         \/ FeedByte_Neq(b)
         \/ FeedByte_GtOrGte(b)
         \/ FeedByte_LtOrLte(b)

(* Feed's loop is over: Feed returns, a scan goes on to Finalize. *)
FeedDone ==
  /\ pc = "feed"
  /\ todo = << >>
  /\ IF scan
     THEN pc' = "finalize" /\ UNCHANGED <<scan, src, todo, ret>>
     ELSE Return(TRUE)
  /\ UNCHANGED <<machine, tok, err, text, out>>

-----------------------------------------------------------------------------
(* Lexer_Finalize, with Lexer_FeedEol. *)

(* The token the end of input completes, if any.  Here ">" and "<" become  *)
(* braces, and a string literal needs no closing quote.                    *)
EolTokens ==
  CASE stat = "Name" -> <<NameToken>>
    [] stat = "NumLit" -> <<NumberToken>>
    [] stat = "StrLit" -> <<StringLiteralToken(tok)>>
    [] stat = "AssignOrEqu" -> <<NormalToken("Assign", tok)>>
    [] stat = "RightBraceOrGte" -> <<NormalToken("RightBrace", tok)>>
    [] stat = "LeftBraceOrLte" -> <<NormalToken("LeftBrace", tok)>>
    [] OTHER -> << >>

(* Mutant of EofTok: a CR at the end of input is not taken for a line      *)
(* break.                                                                  *)
EofTokSameRow == [tok EXCEPT !.off = tok.col, !.len = 0]

(* The position of the end of input: a pending CR is a line break. *)
EofTok ==
  LET t == IF stat = "CrLf" THEN NextRow(tok) ELSE tok
  IN  [t EXCEPT !.off = t.col, !.len = 0]

EofToken == NormalToken("Eof", EofTok)

FeedEolFails ==
  /\ \/ stat = "Neq" /\ Error("UnexpectedByte", tok)
     \/ EolTokens # << >> /\ OutOfMemory(tok)
  /\ UNCHANGED machine

(* The push of Eof or TokSeq_New fails.  No error is recorded; in the      *)
(* second case Eof is already in the sequence.                             *)
FinalizeFails ==
  /\ FaultyAlloc
  /\ stat # "Neq"
  /\ stat' = "Idle"
  /\ \E eof \in {<< >>, <<EofToken>>} : seq' = seq \o EolTokens \o eof
  /\ tok' = EofTok
  /\ Return(FALSE)
  /\ UNCHANGED <<str, num, err, text, out>>

(* The tokens are handed out and the lexer is as new.  A scan still has to *)
(* allocate its LexOut: if it cannot, the tokens are freed.                *)
FinalizeSucceeds ==
  /\ stat # "Neq"
  /\ stat' = "Idle"
  /\ str' = << >>
  /\ num' = 0
  /\ seq' = << >>
  /\ tok' = Tok0
  /\ err' = NoErr
  /\ text' = << >>
  /\ \/ /\ out' = [text |-> text, toks |-> seq \o EolTokens \o <<EofToken>>]
        /\ Return(TRUE)
     \/ /\ scan /\ FaultyAlloc
        /\ Return(FALSE)
        /\ UNCHANGED out

Finalize ==
  /\ pc = "finalize"
  /\ FeedEolFails \/ FinalizeFails \/ FinalizeSucceeds

-----------------------------------------------------------------------------
(* The caller.  After a call that returned false it resets the lexer       *)
(* before it uses it again, as the tests do (test_lexer.c:388).            *)

HasLoneCR(s) == \E i \in 1 .. Len(s) - 1 : s[i] = "CR" /\ s[i + 1] # "LF"

(* A text longer than MaxText is fed or scanned in one call. *)
MayFeed(c) ==
  /\ pc = "idle"
  /\ ret
  /\ text = << >> \/ Len(text) + Len(c) <= MaxText
  /\ LoneCR \/ ~HasLoneCR(text \o c)

BeginFeed(c) ==
  /\ MayFeed(c)
  /\ pc' = "feed"
  /\ todo' = c
  /\ out' = NoOut
  /\ UNCHANGED <<machine, tok, err, src, scan, ret, text>>

(* ScanBuf and ScanFile name their source before they feed, or fail.       *)
BeginScan(c) ==
  /\ MayFeed(c)
  /\ out' = NoOut
  /\ \/ /\ pc' = "feed" /\ scan' = TRUE /\ src' = "scan" /\ todo' = c
        /\ UNCHANGED ret
     \/ /\ FaultyAlloc
        /\ ret' = FALSE
        /\ UNCHANGED <<pc, scan, src, todo>>
  /\ UNCHANGED <<machine, tok, err, text>>

BeginFinalize ==
  /\ pc = "idle"
  /\ ret
  /\ pc' = "finalize"
  /\ out' = NoOut
  /\ UNCHANGED <<machine, tok, err, src, scan, todo, ret, text>>

(* Mutants of Reset: the tokens of the failed text, or its error message,  *)
(* are not cleared.                                                        *)
ResetKeepsTokens ==
  /\ pc = "idle"
  /\ stat' = "Idle"
  /\ str' = << >>
  /\ num' = 0
  /\ tok' = Tok0
  /\ err' = NoErr
  /\ text' = << >>
  /\ out' = NoOut
  /\ ret' = TRUE
  /\ UNCHANGED <<seq, src, pc, scan, todo>>

ResetKeepsMessage ==
  /\ pc = "idle"
  /\ stat' = "Idle"
  /\ str' = << >>
  /\ num' = 0
  /\ seq' = << >>
  /\ tok' = Tok0
  /\ err' = [NoErr EXCEPT !.msg = err.msg]
  /\ text' = << >>
  /\ out' = NoOut
  /\ ret' = TRUE
  /\ UNCHANGED <<src, pc, scan, todo>>

Reset ==
  /\ pc = "idle"
  /\ stat' = "Idle"
  /\ str' = << >>
  /\ num' = 0
  /\ seq' = << >>
  /\ tok' = Tok0
  /\ err' = NoErr
  /\ text' = << >>
  /\ out' = NoOut
  /\ ret' = TRUE
  /\ UNCHANGED <<src, pc, scan, todo>>

-----------------------------------------------------------------------------
Init ==
  /\ stat = "Idle"
  /\ str = << >>
  /\ num = 0
  /\ seq = << >>
  /\ tok = Tok0
  /\ err = NoErr
  /\ src = "own"
  /\ pc = "idle"
  /\ scan = FALSE
  /\ todo = << >>
  /\ ret = TRUE
  /\ text = << >>
  /\ out = NoOut

(* The steps of a call in progress. *)
LexerStep == FeedByte \/ FeedDone \/ Finalize

Next ==
  \/ \E c \in Chunk : BeginFeed(c) \/ BeginScan(c)
  \/ BeginFinalize
  \/ Reset
  \/ LexerStep

Spec == Init /\ [][Next]_vars

(* A call runs until it returns; nothing obliges the caller to make one.   *)
FairSpec == Spec /\ WF_vars(LexerStep)

-----------------------------------------------------------------------------
TokenType ==
  [tag : TokTag, row : Nat, col : Nat, len : Nat, str : Seq(Byte), val : 0 .. UsizeMax]

TypeOK ==
  /\ stat \in FsmStat
  /\ str \in Seq(Byte)
  /\ num \in 0 .. UsizeMax
  /\ seq \in Seq(TokenType)
  /\ tok \in [row : Nat, col : Nat, off : Nat, len : Nat]
  /\ err \in [type : {"Ok", "NoEnoughMemory", "UnexpectedByte"},
             msg : Nat, line_no : Nat, col_no : Nat]
  /\ src \in {"own", "scan"}
  /\ pc \in {"idle", "feed", "finalize"}
  /\ scan \in BOOLEAN
  /\ todo \in Seq(Byte)
  /\ ret \in BOOLEAN
  /\ text \in Seq(Byte)
  /\ out \in [text : Seq(Byte), toks : Seq(TokenType)]
=============================================================================
