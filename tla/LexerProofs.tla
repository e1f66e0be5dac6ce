---------------------------- MODULE LexerProofs ----------------------------
(***************************************************************************)
(* Proofs about Lexer, for every alphabet, keyword table, set of inputs    *)
(* and bound that satisfies its assumptions.                               *)
(***************************************************************************)
EXTENDS Lexemes, RecursionFacts, FiniteSetTheorems

-----------------------------------------------------------------------------
(* Types of the operators. *)

Position == [row : Nat, col : Nat, off : Nat, len : Nat]

LEMMA WrapType ==
  ASSUME NEW n \in Nat
  PROVE  Wrap(n) \in 0 .. UsizeMax /\ Wrap(n) \in Nat
BY LexerAssumption DEF Wrap

LEMMA PositionType ==
  ASSUME NEW t \in Position
  PROVE  /\ NextRow(t) \in Position
         /\ NewLexeme(t) \in Position
         /\ Longer(t) \in Position
         /\ [t EXCEPT !.col = @ + 1] \in Position
<1>1. NextRow(t) \in Position
  <2>1. Wrap(t.row + 1) \in Nat
    BY WrapType DEF Position
  <2> QED
    BY <2>1 DEF Position, NextRow
<1>2. NewLexeme(t) \in Position
  BY DEF Position, NewLexeme
<1>3. Longer(t) \in Position
  BY DEF Position, Longer
<1>4. [t EXCEPT !.col = @ + 1] \in Position
  BY DEF Position
<1> QED
  BY <1>1, <1>2, <1>3, <1>4

LEMMA TokenTyped ==
  ASSUME NEW tag \in TokTag, NEW t \in Position,
         NEW s \in Seq(Byte), NEW n \in 0 .. UsizeMax
  PROVE  Token(tag, t, s, n) \in TokenType
BY DEF Token, TokenType, Position

LEMMA NormalTokenTyped ==
  ASSUME NEW tag \in Symbol \union {"Eof"}, NEW t \in Position
  PROVE  NormalToken(tag, t) \in TokenType
<1>1. tag \in TokTag /\ << >> \in Seq(Byte) /\ 0 \in 0 .. UsizeMax
  BY LexerAssumption DEF TokTag
<1> QED
  BY <1>1, TokenTyped DEF NormalToken

LEMMA KeywordTyped ==
  ASSUME NEW name \in Seq(Byte)
  PROVE  NameToKeyword(name) \in TokTag
<1> DEFINE P(e) == SubSeq(e.str, 1, Len(name)) = name
           row == KwTokMap[Len(name)]
<1>1. CASE Len(name) \in 1 .. MaxKwTokLen /\ \E e \in row : P(e)
  <2>1. row \subseteq [str : Seq(Letter), tag : Keyword]
    BY <1>1, KeywordAssumption
  <2>2. (CHOOSE e \in row : P(e)) \in row
    BY <1>1
  <2>3. (CHOOSE e \in row : P(e)).tag \in Keyword
    BY <2>1, <2>2
  <2>4. NameToKeyword(name) = (CHOOSE e \in row : P(e)).tag
    BY <1>1 DEF NameToKeyword
  <2> QED
    BY <2>3, <2>4 DEF TokTag
<1>2. CASE ~(Len(name) \in 1 .. MaxKwTokLen /\ \E e \in row : P(e))
  BY <1>2 DEF NameToKeyword, TokTag
<1> QED
  BY <1>1, <1>2

(* The tokens that the machine pushes are well typed. *)
LEMMA PushedTokensTyped ==
  ASSUME TypeOK
  PROVE  /\ NameToken \in TokenType
         /\ NumberToken \in TokenType
         /\ \A t \in Position : StringLiteralToken(t) \in TokenType
<1>1. tok \in Position /\ str \in Seq(Byte) /\ num \in 0 .. UsizeMax
  BY DEF TypeOK, Position
<1>2. << >> \in Seq(Byte) /\ 0 \in 0 .. UsizeMax
  BY LexerAssumption
<1>3. NameToken \in TokenType
  BY <1>1, <1>2, KeywordTyped, TokenTyped DEF NameToken
<1>4. NumberToken \in TokenType
  BY <1>1, <1>2, TokenTyped DEF NumberToken, TokTag
<1>5. \A t \in Position : StringLiteralToken(t) \in TokenType
  BY <1>1, <1>2, TokenTyped DEF StringLiteralToken, TokTag
<1> QED
  BY <1>3, <1>4, <1>5

-----------------------------------------------------------------------------
(* The answers of a handler.  TypeOK is the conjunction of what handlers   *)
(* change themselves and of the rest, which only an answer changes.        *)

MachineOK ==
  /\ stat \in FsmStat
  /\ str \in Seq(Byte)
  /\ num \in 0 .. UsizeMax
  /\ seq \in Seq(TokenType)

CallOK ==
  /\ tok \in Position
  /\ err \in [type : {"Ok", "NoEnoughMemory", "UnexpectedByte"},
              msg : Nat, line_no : Nat, col_no : Nat]
  /\ src \in {"own", "scan"}
  /\ pc \in {"idle", "feed", "finalize"}
  /\ scan \in BOOLEAN
  /\ todo \in Seq(Byte)
  /\ ret \in BOOLEAN
  /\ text \in Seq(Byte)
  /\ out \in [text : Seq(Byte), toks : Seq(TokenType)]

LEMMA TypeSplit == TypeOK <=> MachineOK /\ CallOK
BY DEF TypeOK, MachineOK, CallOK, Position

LEMMA OkTyped ==
  ASSUME CallOK, todo # << >>, NEW t \in Position, Ok(Head(todo), t)
  PROVE  CallOK'
<1>1. [t EXCEPT !.col = @ + 1] \in Position
  BY PositionType
<1>2. tok' \in Position
  BY <1>1 DEF Ok
<1>3. todo' \in Seq(Byte) /\ text' \in Seq(Byte)
  BY DEF Ok, CallOK
<1> QED
  BY <1>2, <1>3 DEF Ok, CallOK, call

LEMMA AgainTyped ==
  ASSUME CallOK, NEW t \in Position, Again(t)
  PROVE  CallOK'
BY DEF Again, CallOK, call

LEMMA ReturnTyped ==
  ASSUME CallOK, NEW r \in BOOLEAN, Return(r)
  PROVE  /\ src' \in {"own", "scan"} /\ pc' \in {"idle", "feed", "finalize"}
         /\ scan' \in BOOLEAN /\ ret' \in BOOLEAN
         /\ todo' \in Seq(Byte)
<1>1. pc' = "idle" /\ scan' = FALSE /\ todo' = << >> /\ ret' = r
      /\ src' = IF scan THEN "own" ELSE src
  BY DEF Return
<1>2. << >> \in Seq(Byte)
  OBVIOUS
<1> QED
  BY <1>1, <1>2 DEF CallOK

LEMMA ErrorTyped ==
  ASSUME CallOK, NEW type \in {"NoEnoughMemory", "UnexpectedByte"},
         NEW t \in Position, Error(type, t)
  PROVE  CallOK'
<1>1. Wrap(t.row + 1) \in Nat /\ Wrap(t.col + 1) \in Nat
  BY WrapType DEF Position
<1>2. PICK msg \in {err.msg + 1} \union (IF FaultyAlloc THEN {err.msg} ELSE {}) :
        err' = [type |-> type, msg |-> msg,
                line_no |-> Wrap(t.row + 1), col_no |-> Wrap(t.col + 1)]
  BY DEF Error
<1>3. msg \in Nat
  BY <1>2 DEF CallOK
<1>4. err' \in [type : {"Ok", "NoEnoughMemory", "UnexpectedByte"},
                msg : Nat, line_no : Nat, col_no : Nat]
  BY <1>1, <1>2, <1>3
<1>5. tok' \in Position /\ text' = text /\ out' = out
  BY DEF Error
<1>6. /\ src' \in {"own", "scan"} /\ pc' \in {"idle", "feed", "finalize"}
      /\ scan' \in BOOLEAN /\ ret' \in BOOLEAN
      /\ todo' \in Seq(Byte)
  BY ReturnTyped DEF Error
<1>7. /\ text' \in Seq(Byte)
      /\ out' \in [text : Seq(Byte), toks : Seq(TokenType)]
  BY <1>5 DEF CallOK
<1> QED
  BY <1>4, <1>5, <1>6, <1>7 DEF CallOK

LEMMA OutOfMemoryTyped ==
  ASSUME CallOK, NEW t \in Position, OutOfMemory(t)
  PROVE  CallOK'
BY ErrorTyped DEF OutOfMemory

LEMMA EndsBeforeTyped ==
  ASSUME TypeOK, NEW token \in TokenType, EndsBefore(token)
  PROVE  TypeOK'
<1>1. MachineOK /\ CallOK /\ tok \in Position
  BY TypeSplit DEF CallOK
<1>2. MachineOK'
  <2>1. str' = str /\ num' = num
    BY DEF EndsBefore
  <2>2. \/ seq' = Append(seq, token) /\ stat' = "Idle"
        \/ seq' = seq /\ stat' = stat
    BY DEF EndsBefore
  <2>3. Append(seq, token) \in Seq(TokenType)
    BY <1>1 DEF MachineOK
  <2>4. seq' \in Seq(TokenType)
    BY <1>1, <2>2, <2>3 DEF MachineOK
  <2>5. stat' \in FsmStat
    BY <1>1, <2>2 DEF MachineOK, FsmStat
  <2> QED
    BY <1>1, <2>1, <2>4, <2>5 DEF MachineOK
<1>3. CallOK'
  BY <1>1, AgainTyped, OutOfMemoryTyped DEF EndsBefore
<1> QED
  BY <1>2, <1>3 DEF TypeOK, MachineOK, CallOK, Position

LEMMA EndsWithTyped ==
  ASSUME TypeOK, todo # << >>, NEW token \in TokenType, EndsWith(Head(todo), token)
  PROVE  TypeOK'
<1>1. MachineOK /\ CallOK /\ Longer(tok) \in Position
  BY TypeSplit, PositionType DEF CallOK
<1>2. MachineOK'
  <2>1. str' = str /\ num' = num
    BY DEF EndsWith
  <2>2. \/ seq' = Append(seq, token) /\ stat' = "Idle"
        \/ seq' = seq /\ stat' = stat
    BY DEF EndsWith
  <2>3. Append(seq, token) \in Seq(TokenType)
    BY <1>1 DEF MachineOK
  <2>4. seq' \in Seq(TokenType)
    BY <1>1, <2>2, <2>3 DEF MachineOK
  <2>5. stat' \in FsmStat
    BY <1>1, <2>2 DEF MachineOK, FsmStat
  <2> QED
    BY <1>1, <2>1, <2>4, <2>5 DEF MachineOK
<1>3. CallOK'
  BY <1>1, OkTyped, OutOfMemoryTyped DEF EndsWith
<1> QED
  BY <1>2, <1>3 DEF TypeOK, MachineOK, CallOK, Position
-----------------------------------------------------------------------------
(* Every handler keeps the types. *)

LEMMA OperatorStatTyped ==
  ASSUME NEW b \in Operator
  PROVE  OperatorStat(b) \in FsmStat
BY DEF Operator, OperatorStat, FsmStat

LEMMA PunctTagTyped ==
  ASSUME NEW b \in Punct
  PROVE  PunctTag(b) \in Symbol
BY DEF Punct, PunctTag, Symbol

LEMMA JoinTypes == MachineOK' /\ CallOK' => TypeOK'
BY DEF TypeOK, MachineOK, CallOK, Position

LEMMA IdleTyped ==
  ASSUME TypeOK, todo # << >>, FeedByte_Idle(Head(todo))
  PROVE  TypeOK'
<1> DEFINE b == Head(todo)
<1>1. MachineOK /\ CallOK /\ tok \in Position /\ b \in Byte
  BY TypeSplit DEF CallOK
<1>2. NewLexeme(tok) \in Position /\ NextRow(tok) \in Position
  BY <1>1, PositionType
<1> HIDE DEF b
<1> USE <1>1, <1>2, JoinTypes
<1>3. CASE IdleSkips(b)
  <2>1. MachineOK'
    BY <1>3 DEF IdleSkips, MachineOK, FsmStat
  <2>2. CallOK'
    BY <1>3, OkTyped DEF IdleSkips, b
  <2> QED
    BY <2>1, <2>2
<1>4. CASE IdleStartsNumber(b)
  <2>1. DigitVal[b] \in 0 .. UsizeMax
    BY <1>4, LexerAssumption DEF IdleStartsNumber
  <2>2. MachineOK'
    BY <1>4, <2>1 DEF IdleStartsNumber, MachineOK, FsmStat
  <2>3. CallOK'
    BY <1>4, OkTyped DEF IdleStartsNumber, b
  <2> QED
    BY <2>2, <2>3
<1>5. CASE IdleStartsName(b)
  <2>1. str' = <<b>> \/ str' = << >>
    BY <1>5 DEF IdleStartsName
  <2>2. str' \in Seq(Byte)
    <3>1. <<b>> \in Seq(Byte) /\ << >> \in Seq(Byte)
      OBVIOUS
    <3> QED
      BY <2>1, <3>1
  <2>3. stat' \in FsmStat
    BY <1>5 DEF IdleStartsName, MachineOK, FsmStat
  <2>4. MachineOK'
    BY <1>5, <2>2, <2>3 DEF IdleStartsName, MachineOK
  <2>5. CallOK'
    BY <1>5, OkTyped, OutOfMemoryTyped DEF IdleStartsName, b
  <2> QED
    BY <2>4, <2>5
<1>6. CASE IdleStartsString(b)
  <2>1. MachineOK'
    BY <1>6 DEF IdleStartsString, MachineOK, FsmStat
  <2>2. CallOK'
    BY <1>6, OkTyped DEF IdleStartsString, b
  <2> QED
    BY <2>1, <2>2
<1>7. CASE IdleStartsOperator(b)
  <2>1. MachineOK'
    BY <1>7, OperatorStatTyped DEF IdleStartsOperator, MachineOK
  <2>2. CallOK'
    BY <1>7, OkTyped DEF IdleStartsOperator, b
  <2> QED
    BY <2>1, <2>2
<1>8. CASE IdlePushes(b)
  <2> DEFINE token == NormalToken(PunctTag(b), NewLexeme(tok))
  <2>1. token \in TokenType
    BY <1>8, PunctTagTyped, NormalTokenTyped DEF IdlePushes
  <2>2. seq' = Append(seq, token) \/ seq' = seq
    BY <1>8 DEF IdlePushes
  <2> HIDE DEF token
  <2>3. Append(seq, token) \in Seq(TokenType)
    BY <2>1 DEF MachineOK
  <2>4. MachineOK'
    BY <1>8, <2>2, <2>3 DEF IdlePushes, MachineOK
  <2>5. CallOK'
    BY <1>8, OkTyped, OutOfMemoryTyped DEF IdlePushes, b
  <2> QED
    BY <2>4, <2>5
<1>9. CASE IdleRejects(b)
  <2>1. MachineOK'
    BY <1>9 DEF IdleRejects, MachineOK, machine
  <2>2. CallOK'
    BY <1>9, ErrorTyped DEF IdleRejects
  <2> QED
    BY <2>1, <2>2
<1> QED
  BY <1>3, <1>4, <1>5, <1>6, <1>7, <1>8, <1>9 DEF FeedByte_Idle, b

LEMMA CrLfTyped ==
  ASSUME TypeOK, todo # << >>, FeedByte_CrLf(Head(todo))
  PROVE  TypeOK'
<1>1. MachineOK /\ CallOK /\ NextRow(tok) \in Position
  BY TypeSplit, PositionType DEF CallOK
<1>2. MachineOK'
  BY <1>1 DEF FeedByte_CrLf, MachineOK, FsmStat
<1>3. CallOK'
  BY <1>1, OkTyped, AgainTyped DEF FeedByte_CrLf
<1> QED
  BY <1>2, <1>3, JoinTypes

LEMMA NameTyped ==
  ASSUME TypeOK, todo # << >>, FeedByte_Name(Head(todo))
  PROVE  TypeOK'
<1> DEFINE b == Head(todo)
<1>1. MachineOK /\ CallOK /\ tok \in Position /\ Longer(tok) \in Position
  BY TypeSplit, PositionType DEF CallOK
<1>b. b \in Byte
  BY DEF TypeOK
<1>2. CASE EndsBefore(NameToken)
  BY <1>2, PushedTokensTyped, EndsBeforeTyped
<1>3. CASE ~EndsBefore(NameToken)
  <2>1. str' \in Seq(Byte)
    BY <1>1, <1>b, <1>3 DEF FeedByte_Name, MachineOK
  <2>2. MachineOK'
    BY <1>1, <1>3, <2>1 DEF FeedByte_Name, MachineOK
  <2>3. CallOK'
    BY <1>1, <1>3, OkTyped, OutOfMemoryTyped DEF FeedByte_Name
  <2> QED
    BY <2>2, <2>3, JoinTypes
<1> QED
  BY <1>2, <1>3

LEMMA NumTyped ==
  ASSUME TypeOK, todo # << >>, FeedByte_Num(Head(todo))
  PROVE  TypeOK'
<1> DEFINE b == Head(todo)
<1>1. MachineOK /\ CallOK /\ Longer(tok) \in Position
  BY TypeSplit, PositionType DEF CallOK
<1>2. CASE EndsBefore(NumberToken)
  BY <1>2, PushedTokensTyped, EndsBeforeTyped
<1>3. CASE b \in Digit /\ ~EndsBefore(NumberToken)
  <2>1. DigitVal[b] \in Nat /\ num * 10 \in Nat
    BY <1>1, <1>3, LexerAssumption DEF MachineOK
  <2>2. Wrap(num * 10) \in Nat
    BY <2>1, WrapType
  <2>3. Wrap(num * 10) + DigitVal[b] \in Nat
    BY <2>1, <2>2
  <2>4. num' \in 0 .. UsizeMax
    BY <1>3, <2>3, WrapType DEF FeedByte_Num
  <2>5. MachineOK'
    BY <1>1, <1>3, <2>4 DEF FeedByte_Num, MachineOK
  <2>6. CallOK'
    BY <1>1, <1>3, OkTyped DEF FeedByte_Num
  <2> QED
    BY <2>5, <2>6, JoinTypes
<1> QED
  BY <1>2, <1>3 DEF FeedByte_Num

LEMMA StrLitTyped ==
  ASSUME TypeOK, todo # << >>, FeedByte_StrLit(Head(todo))
  PROVE  TypeOK'
<1> DEFINE b == Head(todo)
           token == StringLiteralToken(Longer(tok))
<1>1. MachineOK /\ CallOK /\ tok \in Position /\ Longer(tok) \in Position
  BY TypeSplit, PositionType DEF CallOK
<1>b. b \in Byte
  BY DEF TypeOK
<1>2. CASE EndsWith(b, token)
  BY <1>1, <1>2, PushedTokensTyped, EndsWithTyped
<1>3. CASE ~EndsWith(b, token)
  <2>1. str' \in Seq(Byte)
    BY <1>1, <1>b, <1>3 DEF FeedByte_StrLit, MachineOK, machine
  <2>2. MachineOK'
    BY <1>1, <1>3, <2>1 DEF FeedByte_StrLit, MachineOK, machine
  <2>3. CallOK'
    BY <1>1, <1>3, OkTyped, OutOfMemoryTyped, ErrorTyped DEF FeedByte_StrLit
  <2> QED
    BY <2>2, <2>3, JoinTypes
<1> QED
  BY <1>2, <1>3

LEMMA OperatorTyped ==
  ASSUME TypeOK, todo # << >>,
         NEW alone \in Symbol, NEW both \in Symbol,
         MayTakeEqual(Head(todo), alone, both)
  PROVE  TypeOK'
<1>1. tok \in Position /\ Longer(tok) \in Position
  BY TypeSplit, PositionType DEF CallOK
<1>2. /\ NormalToken(both, Longer(tok)) \in TokenType
      /\ NormalToken(alone, tok) \in TokenType
  BY <1>1, NormalTokenTyped
<1> QED
  BY <1>2, EndsWithTyped, EndsBeforeTyped DEF MayTakeEqual

LEMMA NeqTyped ==
  ASSUME TypeOK, todo # << >>, FeedByte_Neq(Head(todo))
  PROVE  TypeOK'
<1>1. MachineOK /\ CallOK /\ tok \in Position /\ Longer(tok) \in Position
  BY TypeSplit, PositionType DEF CallOK
<1>2. NormalToken("Neq", Longer(tok)) \in TokenType
  BY <1>1, NormalTokenTyped DEF Symbol
<1>3. CASE EndsWith(Head(todo), NormalToken("Neq", Longer(tok)))
  BY <1>2, <1>3, EndsWithTyped
<1>4. CASE Error("UnexpectedByte", tok) /\ UNCHANGED machine
  <2>1. MachineOK'
    BY <1>1, <1>4 DEF MachineOK, machine
  <2>2. CallOK'
    BY <1>1, <1>4, ErrorTyped
  <2> QED
    BY <2>1, <2>2, JoinTypes
<1> QED
  BY <1>3, <1>4 DEF FeedByte_Neq

LEMMA FeedByteTyped == TypeOK /\ FeedByte => TypeOK'
<1> SUFFICES ASSUME TypeOK, FeedByte
             PROVE  TypeOK'
  OBVIOUS
<1> DEFINE b == Head(todo)
<1>1. todo # << >>
  BY DEF FeedByte
<1>2. CASE FeedByte_AsgOrEqu(b) \/ FeedByte_GtOrGte(b) \/ FeedByte_LtOrLte(b)
  BY <1>1, <1>2, OperatorTyped
     DEF FeedByte_AsgOrEqu, FeedByte_GtOrGte, FeedByte_LtOrLte, Symbol
<1> QED
  BY <1>1, <1>2, IdleTyped, CrLfTyped, NameTyped, NumTyped, StrLitTyped, NeqTyped
     DEF FeedByte
-----------------------------------------------------------------------------
(* The other steps. *)

LEMMA FeedDoneTyped == TypeOK /\ FeedDone => TypeOK'
BY DEF FeedDone, Return, TypeOK, machine

LEMMA EolTyped ==
  ASSUME TypeOK
  PROVE  EolTokens \in Seq(TokenType) /\ EofTok \in Position /\ EofToken \in TokenType
<1>1. tok \in Position
  BY TypeSplit DEF CallOK
<1>2. EolTokens \in Seq(TokenType)
  <2>1. /\ <<NameToken>> \in Seq(TokenType)
        /\ <<NumberToken>> \in Seq(TokenType)
        /\ <<StringLiteralToken(tok)>> \in Seq(TokenType)
    BY <1>1, PushedTokensTyped
  <2>2. \A tag \in Symbol : <<NormalToken(tag, tok)>> \in Seq(TokenType)
    BY <1>1, NormalTokenTyped
  <2>3. <<NormalToken("Assign", tok)>> \in Seq(TokenType)
        /\ <<NormalToken("RightBrace", tok)>> \in Seq(TokenType)
        /\ <<NormalToken("LeftBrace", tok)>> \in Seq(TokenType)
    BY <2>2 DEF Symbol
  <2>4. << >> \in Seq(TokenType)
    OBVIOUS
  <2> QED
    BY <2>1, <2>3, <2>4, Zenon DEF EolTokens
<1>3. EofTok \in Position
  <2> DEFINE t == IF stat = "CrLf" THEN NextRow(tok) ELSE tok
  <2>1. t \in Position
    BY <1>1, PositionType
  <2>2. EofTok = [t EXCEPT !.off = t.col, !.len = 0]
    BY DEF EofTok
  <2> HIDE DEF t
  <2> QED
    BY <2>1, <2>2 DEF Position
<1>4. EofToken \in TokenType
  BY <1>3, NormalTokenTyped DEF EofToken
<1> QED
  BY <1>2, <1>3, <1>4

LEMMA FinalizeTyped == TypeOK /\ Finalize => TypeOK'
<1> SUFFICES ASSUME TypeOK, Finalize
             PROVE  TypeOK'
  OBVIOUS
<1>1. MachineOK /\ CallOK /\ tok \in Position
  BY TypeSplit DEF CallOK
<1>2. EolTokens \in Seq(TokenType) /\ EofTok \in Position /\ <<EofToken>> \in Seq(TokenType)
  BY EolTyped
<1>3. CASE FeedEolFails
  <2>1. MachineOK'
    BY <1>1, <1>3 DEF FeedEolFails, MachineOK, machine
  <2>2. CallOK'
    BY <1>1, <1>3, ErrorTyped, OutOfMemoryTyped DEF FeedEolFails
  <2> QED
    BY <2>1, <2>2, JoinTypes
<1>4. CASE FinalizeFails
  <2>1. seq' \in Seq(TokenType)
    <3>1. PICK eof \in {<< >>, <<EofToken>>} : seq' = seq \o EolTokens \o eof
      BY <1>4 DEF FinalizeFails
    <3>2. seq \in Seq(TokenType)
      BY <1>1 DEF MachineOK
    <3>3. CASE eof = << >>
      BY <1>2, <3>1, <3>2, <3>3
    <3>4. CASE eof = <<EofToken>>
      BY <1>2, <3>1, <3>2, <3>4
    <3> QED
      BY <3>1, <3>3, <3>4
  <2>2. MachineOK'
    BY <1>1, <1>4, <2>1 DEF FinalizeFails, MachineOK, FsmStat
  <2>3. CallOK'
    BY <1>1, <1>2, <1>4, ReturnTyped DEF FinalizeFails, CallOK
  <2> QED
    BY <2>2, <2>3, JoinTypes
<1>5. CASE FinalizeSucceeds
  <2>1. seq \o EolTokens \o <<EofToken>> \in Seq(TokenType)
    BY <1>1, <1>2 DEF MachineOK
  <2>2. Tok0 \in Position
    BY DEF Tok0, Position
  <2>3. NoErr \in [type : {"Ok", "NoEnoughMemory", "UnexpectedByte"},
                   msg : Nat, line_no : Nat, col_no : Nat]
    BY DEF NoErr
  <2>4. out' \in [text : Seq(Byte), toks : Seq(TokenType)]
    <3> DEFINE toks == seq \o EolTokens \o <<EofToken>>
    <3>1. out' = [text |-> text, toks |-> toks] \/ out' = out
      BY <1>5 DEF FinalizeSucceeds
    <3> HIDE DEF toks
    <3>2. text \in Seq(Byte) /\ out \in [text : Seq(Byte), toks : Seq(TokenType)]
      BY <1>1 DEF CallOK
    <3>3. [text |-> text, toks |-> toks] \in [text : Seq(Byte), toks : Seq(TokenType)]
      BY <2>1, <3>2 DEF toks
    <3> QED
      BY <3>1, <3>2, <3>3
  <2>5. MachineOK'
    BY <1>5, LexerAssumption DEF FinalizeSucceeds, MachineOK, FsmStat
  <2>6. CallOK'
    <3>1. /\ src' \in {"own", "scan"} /\ pc' \in {"idle", "feed", "finalize"}
          /\ scan' \in BOOLEAN /\ ret' \in BOOLEAN
          /\ todo' \in Seq(Byte)
      BY <1>1, <1>5, ReturnTyped DEF FinalizeSucceeds
    <3>2. tok' = Tok0 /\ err' = NoErr /\ text' = << >>
      BY <1>5 DEF FinalizeSucceeds
    <3>3. text' \in Seq(Byte)
      BY <3>2
    <3> QED
      BY <2>2, <2>3, <2>4, <3>1, <3>2, <3>3 DEF CallOK
  <2> QED
    BY <2>5, <2>6, JoinTypes
<1> QED
  BY <1>3, <1>4, <1>5 DEF Finalize

LEMMA ConstantsTyped ==
  /\ Tok0 \in Position
  /\ NoErr \in [type : {"Ok", "NoEnoughMemory", "UnexpectedByte"},
                msg : Nat, line_no : Nat, col_no : Nat]
  /\ NoOut \in [text : Seq(Byte), toks : Seq(TokenType)]
BY DEF Tok0, Position, NoErr, NoOut

LEMMA CallerTyped ==
  ASSUME TypeOK
  PROVE  /\ \A c \in Chunk : BeginFeed(c) \/ BeginScan(c) => TypeOK'
         /\ BeginFinalize \/ Reset => TypeOK'
<1>1. MachineOK /\ CallOK
  BY TypeSplit
<1>2. ASSUME NEW c \in Chunk, BeginFeed(c)
      PROVE  TypeOK'
  <2>1. c \in Seq(Byte)
    BY LexerAssumption
  <2>2. CallOK'
    BY <1>1, <1>2, <2>1, ConstantsTyped DEF BeginFeed, CallOK
  <2>3. MachineOK'
    BY <1>1, <1>2 DEF BeginFeed, MachineOK, machine
  <2> QED
    BY <2>2, <2>3, JoinTypes
<1>3. ASSUME NEW c \in Chunk, BeginScan(c)
      PROVE  TypeOK'
  <2>1. c \in Seq(Byte)
    BY LexerAssumption
  <2>2. CallOK'
    BY <1>1, <1>3, <2>1, ConstantsTyped DEF BeginScan, CallOK
  <2>3. MachineOK'
    BY <1>1, <1>3 DEF BeginScan, MachineOK, machine
  <2> QED
    BY <2>2, <2>3, JoinTypes
<1>4. ASSUME BeginFinalize
      PROVE  TypeOK'
  <2>1. CallOK'
    BY <1>1, <1>4, ConstantsTyped DEF BeginFinalize, CallOK
  <2>2. MachineOK'
    BY <1>1, <1>4 DEF BeginFinalize, MachineOK, machine
  <2> QED
    BY <2>1, <2>2, JoinTypes
<1>5. ASSUME Reset
      PROVE  TypeOK'
  <2>1. CallOK'
    BY <1>1, <1>5, ConstantsTyped DEF Reset, CallOK
  <2>2. MachineOK'
    BY <1>5, LexerAssumption DEF Reset, MachineOK, FsmStat
  <2> QED
    BY <2>1, <2>2, JoinTypes
<1> QED
  BY <1>2, <1>3, <1>4, <1>5

LEMMA InitTyped == Init => TypeOK
<1> SUFFICES ASSUME Init
             PROVE  TypeOK
  OBVIOUS
<1>1. MachineOK
  BY LexerAssumption DEF Init, MachineOK, FsmStat
<1>2. CallOK
  <2>1. << >> \in Seq(Byte)
    OBVIOUS
  <2>2. /\ tok = Tok0 /\ err = NoErr /\ src = "own" /\ pc = "idle" /\ scan = FALSE
        /\ todo = << >> /\ ret = TRUE /\ text = << >> /\ out = NoOut
    BY DEF Init
  <2> QED
    BY <2>1, <2>2, ConstantsTyped DEF CallOK
<1> QED
  BY <1>1, <1>2, TypeSplit

LEMMA StepTyped == TypeOK /\ [Next]_vars => TypeOK'
<1> SUFFICES ASSUME TypeOK, [Next]_vars
             PROVE  TypeOK'
  OBVIOUS
<1>1. CASE UNCHANGED vars
  BY <1>1 DEF vars, TypeOK
<1>2. CASE LexerStep
  BY <1>2, FeedByteTyped, FeedDoneTyped, FinalizeTyped DEF LexerStep
<1>3. CASE BeginFinalize \/ Reset \/ \E c \in Chunk : BeginFeed(c) \/ BeginScan(c)
  BY <1>3, CallerTyped
<1> QED
  BY <1>1, <1>2, <1>3 DEF Next

(* Over any sequence of calls, inputs and failures the machine, its        *)
(* tokens, its counters and the call in progress have their types.         *)
THEOREM TypeCorrect == Spec => []TypeOK
BY InitTyped, StepTyped, PTL DEF Spec
-----------------------------------------------------------------------------
(* A lexer that has consumed nothing is as new.  The strengthening says    *)
(* how a call ends: only between calls that failed is ret FALSE, and a     *)
(* name lent by a scan is in in.src only during the scan.                  *)

AsNew ==
  /\ stat = "Idle" /\ str = << >> /\ num = 0 /\ seq = << >>
  /\ tok = Tok0 /\ err = NoErr

PInv ==
  /\ ret /\ text = << >> => AsNew
  /\ pc # "idle" => ret
  /\ pc = "idle" => ~scan
  /\ ~scan => src = "own"

LEMMA PInvImplies == TypeOK /\ PInv => Pristine
BY DEF TypeOK, PInv, Pristine, AsNew

(* What FeedByte's answers have in common: a byte was consumed before or   *)
(* with this step, or the call fails.                                      *)
LEMMA FeedByteAnswers ==
  ASSUME TypeOK, PInv, FeedByte
  PROVE  (UNCHANGED call /\ text' # << >>) \/ Return(FALSE)
<1> DEFINE b == Head(todo)
<1>1. ret /\ text \in Seq(Byte) /\ (stat # "Idle" => text # << >>)
  BY DEF FeedByte, PInv, AsNew, TypeOK
<1>2. ASSUME NEW t, Ok(b, t)
      PROVE  UNCHANGED call /\ text' # << >>
  BY <1>1, <1>2 DEF Ok
<1>3. ASSUME NEW t, Again(t), stat # "Idle"
      PROVE  UNCHANGED call /\ text' # << >>
  BY <1>1, <1>3 DEF Again
<1>4. ASSUME NEW type, NEW t, Error(type, t)
      PROVE  Return(FALSE)
  BY <1>4 DEF Error
<1>5. ASSUME NEW t, OutOfMemory(t)
      PROVE  Return(FALSE)
  BY <1>4, <1>5 DEF OutOfMemory
<1> HIDE DEF b
<1>6. CASE FeedByte_Idle(b)
  BY <1>2, <1>4, <1>5, <1>6
     DEF FeedByte_Idle, IdleSkips, IdleStartsNumber, IdleStartsName,
         IdleStartsString, IdleStartsOperator, IdlePushes, IdleRejects
<1>7. CASE FeedByte_CrLf(b)
  BY <1>2, <1>3, <1>7 DEF FeedByte_CrLf
<1>8. ASSUME NEW token, EndsBefore(token), stat # "Idle"
      PROVE  (UNCHANGED call /\ text' # << >>) \/ Return(FALSE)
  BY <1>3, <1>5, <1>8 DEF EndsBefore
<1>9. ASSUME NEW token, EndsWith(b, token)
      PROVE  (UNCHANGED call /\ text' # << >>) \/ Return(FALSE)
  BY <1>2, <1>5, <1>9 DEF EndsWith
<1>10. CASE FeedByte_Name(b)
  BY <1>2, <1>5, <1>8, <1>10 DEF FeedByte_Name
<1>11. CASE FeedByte_Num(b)
  BY <1>2, <1>8, <1>11 DEF FeedByte_Num
<1>12. CASE FeedByte_StrLit(b)
  BY <1>2, <1>4, <1>5, <1>9, <1>12 DEF FeedByte_StrLit
<1>13. CASE FeedByte_Neq(b)
  BY <1>4, <1>9, <1>13 DEF FeedByte_Neq
<1>14. CASE FeedByte_AsgOrEqu(b) \/ FeedByte_GtOrGte(b) \/ FeedByte_LtOrLte(b)
  BY <1>8, <1>9, <1>14
     DEF FeedByte_AsgOrEqu, FeedByte_GtOrGte, FeedByte_LtOrLte, MayTakeEqual
<1> QED
  BY <1>6, <1>7, <1>10, <1>11, <1>12, <1>13, <1>14 DEF FeedByte, b

LEMMA FailurePInv ==
  ASSUME TypeOK, PInv, Return(FALSE)
  PROVE  PInv'
BY DEF Return, PInv, TypeOK

LEMMA InitPInv == Init => PInv
BY DEF Init, PInv, AsNew

LEMMA StepPInv == TypeOK /\ PInv /\ [Next]_vars => PInv'
<1> SUFFICES ASSUME TypeOK, PInv, [Next]_vars
             PROVE  PInv'
  OBVIOUS
<1>1. CASE UNCHANGED vars
  BY <1>1 DEF vars, PInv, AsNew
<1>2. CASE FeedByte
  <2>1. CASE Return(FALSE)
    BY <2>1, FailurePInv
  <2>2. CASE UNCHANGED call /\ text' # << >>
    BY <2>2 DEF call, PInv
  <2> QED
    BY <1>2, <2>1, <2>2, FeedByteAnswers
<1>3. CASE FeedDone
  <2>1. AsNew' <=> AsNew
    BY <1>3 DEF FeedDone, AsNew, machine
  <2>2. text' = text /\ ret
    BY <1>3 DEF FeedDone, PInv
  <2>3. CASE scan
    <3>1. pc' = "finalize" /\ UNCHANGED <<scan, src, ret>>
      BY <1>3, <2>3 DEF FeedDone
    <3> QED
      BY <2>1, <2>2, <2>3, <3>1 DEF PInv
  <2>4. CASE ~scan
    <3>1. pc' = "idle" /\ scan' = FALSE /\ src' = src /\ ret' = TRUE
      BY <1>3, <2>4 DEF FeedDone, Return
    <3> QED
      BY <2>1, <2>2, <2>4, <3>1 DEF PInv
  <2> QED
    BY <2>3, <2>4
<1>4. CASE Finalize
  <2>1. CASE FeedEolFails \/ FinalizeFails
    <3>1. Return(FALSE)
      BY <2>1 DEF FeedEolFails, FinalizeFails, OutOfMemory, Error
    <3> QED
      BY <3>1, FailurePInv
  <2>2. CASE FinalizeSucceeds
    BY <2>2 DEF FinalizeSucceeds, Return, PInv, AsNew, TypeOK
  <2> QED
    BY <1>4, <2>1, <2>2 DEF Finalize
<1>5. ASSUME NEW c \in Chunk, BeginFeed(c)
      PROVE  PInv'
  BY <1>5 DEF BeginFeed, MayFeed, PInv, AsNew, machine
<1>6. ASSUME NEW c \in Chunk, BeginScan(c)
      PROVE  PInv'
  <2>1. (AsNew' <=> AsNew) /\ text' = text /\ pc = "idle" /\ ret /\ ~scan /\ src = "own"
    BY <1>6 DEF BeginScan, MayFeed, PInv, AsNew, machine
  <2>2. CASE pc' = "feed" /\ scan' = TRUE /\ src' = "scan" /\ UNCHANGED ret
    BY <2>1, <2>2 DEF PInv
  <2>3. CASE ret' = FALSE /\ UNCHANGED <<pc, scan, src>>
    BY <2>1, <2>3 DEF PInv
  <2> QED
    BY <1>6, <2>2, <2>3 DEF BeginScan
<1>7. CASE BeginFinalize
  BY <1>7 DEF BeginFinalize, PInv, AsNew, machine
<1>8. CASE Reset
  BY <1>8 DEF Reset, PInv, AsNew
<1> QED
  BY <1>1, <1>2, <1>3, <1>4, <1>5, <1>6, <1>7, <1>8 DEF Next, LexerStep

(* Whatever was fed, failed and reset before, a lexer that has consumed    *)
(* nothing since is in the state Lexer_New leaves, with its own in.src.    *)
THEOREM AlwaysPristine == Spec => []Pristine
<1>1. Init => TypeOK /\ PInv
  BY InitTyped, InitPInv
<1>2. TypeOK /\ PInv /\ [Next]_vars => (TypeOK /\ PInv)'
  BY StepTyped, StepPInv
<1>3. TypeOK /\ PInv => Pristine
  BY PInvImplies
<1> QED
  BY <1>1, <1>2, <1>3, PTL DEF Spec

-----------------------------------------------------------------------------
(* Positions.  The lexer's row and column against the line breaks of the   *)
(* text it has consumed, as long as a text and its rows can be counted.    *)

TextsFit == MaxText < UsizeMax /\ \A c \in Chunk : Len(c) < UsizeMax

EndsCR(s) == s # << >> /\ s[Len(s)] = "CR"

(* The byte to follow s is in this row and column, m being the last break. *)
Located(s, row, col) ==
  /\ row = Cardinality(LineBreaks(s))
  /\ \E m \in {0} \union LineBreaks(s) :
       (\A i \in {0} \union LineBreaks(s) : i <= m) /\ col = Len(s) - m

LEMMA Unwrapped ==
  ASSUME NEW n \in 0 .. UsizeMax
  PROVE  Wrap(n) = n
BY LexerAssumption DEF Wrap

LEMMA BreaksFinite ==
  ASSUME NEW s \in Seq(Byte)
  PROVE  /\ LineBreaks(s) \subseteq 1 .. Len(s) /\ IsFiniteSet(LineBreaks(s))
         /\ Cardinality(LineBreaks(s)) \in 0 .. Len(s)
<1> DEFINE n == Len(s)
           B == LineBreaks(s)
<1>1. B \in SUBSET (1 .. n) /\ n \in Nat
  BY DEF LineBreaks
<1> HIDE DEF n, B
<1>2. IsFiniteSet(1 .. n) /\ Cardinality(1 .. n) = n
  <2>1. 1 \in Int /\ n \in Int
    BY <1>1
  <2>2. IsFiniteSet(1 .. n) /\ Cardinality(1 .. n) = IF 1 > n THEN 0 ELSE n - 1 + 1
    BY <2>1, FS_Interval
  <2> QED
    BY <1>1, <2>2
<1>3. IsFiniteSet(B) /\ Cardinality(B) <= Cardinality(1 .. n)
  BY <1>1, <1>2, FS_Subset
<1>4. Cardinality(B) \in Nat
  BY <1>3, FS_CardinalityType
<1>5. B \subseteq 1 .. n /\ Cardinality(B) \in 0 .. n
  BY <1>1, <1>2, <1>3, <1>4
<1> QED
  BY <1>3, <1>5 DEF n, B

LEMMA LocatedPlace ==
  ASSUME NEW s \in Seq(Byte), NEW row, NEW col, Located(s, row, col)
  PROVE  /\ row = Row(s, Len(s) + 1) /\ col = Col(s, Len(s) + 1)
         /\ row \in 0 .. Len(s) /\ col \in 0 .. Len(s)
<1> DEFINE B == LineBreaks(s)
           E == {0} \union B
<1>1. Len(s) \in Nat /\ B \subseteq 1 .. Len(s) /\ Cardinality(B) \in 0 .. Len(s)
  BY BreaksFinite
<1>2. {i \in B : i < Len(s) + 1} = B
  BY <1>1
<1>3. Row(s, Len(s) + 1) = Cardinality(B)
  BY <1>2 DEF Row
<1>4. PICK m \in E : (\A i \in E : i <= m) /\ col = Len(s) - m
  BY DEF Located
<1>5. m \in 0 .. Len(s)
  BY <1>1, <1>4
<1>6. Max(E) = m
  <2>1. \A i \in E : i \in Int /\ m >= i
    BY <1>1, <1>4, <1>5
  <2> HIDE DEF E
  <2>2. \A x \in E : (\A y \in E : x >= y) => x = m
    BY <1>4, <1>5, <2>1
  <2>3. \E x \in E : \A y \in E : x >= y
    BY <1>4, <2>1
  <2>4. Max(E) \in E /\ \A y \in E : Max(E) >= y
    BY <2>3, Zenon DEF Max
  <2> QED
    BY <2>2, <2>4
<1>7. Col(s, Len(s) + 1) = (Len(s) + 1) - 1 - Max(E)
  BY <1>2, Zenon DEF Col
<1>8. row = Cardinality(B)
  BY DEF Located
<1> HIDE DEF B, E
<1>9. col = (Len(s) + 1) - 1 - m /\ col \in 0 .. Len(s)
  BY <1>1, <1>4, <1>5
<1> QED
  BY <1>1, <1>3, <1>6, <1>7, <1>8, <1>9

(* What one more byte does to the line breaks. *)
LEMMA AppendedByte ==
  ASSUME NEW s \in Seq(Byte), NEW b \in Byte
  PROVE  /\ Append(s, b) \in Seq(Byte) /\ Len(Append(s, b)) = Len(s) + 1 /\ Len(s) \in Nat
         /\ Append(s, b)[Len(s) + 1] = b /\ \A i \in 1 .. Len(s) : Append(s, b)[i] = s[i]
         /\ EndsCR(Append(s, b)) <=> b = "CR"
<1>1. Append(s, b) \in Seq(Byte) /\ Len(Append(s, b)) = Len(s) + 1 /\ Len(s) \in Nat
  OBVIOUS
<1>2. Append(s, b)[Len(s) + 1] = b /\ \A i \in 1 .. Len(s) : Append(s, b)[i] = s[i]
  OBVIOUS
<1>3. Append(s, b) # << >>
  BY <1>1
<1> QED
  BY <1>1, <1>2, <1>3 DEF EndsCR

LEMMA BreaksAppended ==
  ASSUME NEW s \in Seq(Byte), NEW b \in Byte
  PROVE  /\ b \notin {"CR", "LF"} => LineBreaks(Append(s, b)) = LineBreaks(s)
         /\ b \in {"CR", "LF"} /\ ~ (b = "LF" /\ EndsCR(s)) =>
              LineBreaks(Append(s, b)) = LineBreaks(s) \union {Len(s) + 1}
         /\ b = "LF" /\ EndsCR(s) =>
              LineBreaks(Append(s, b)) = (LineBreaks(s) \ {Len(s)}) \union {Len(s) + 1}
<1> DEFINE t == Append(s, b)
           n == Len(s)
<1>1. n \in Nat /\ Len(t) = n + 1 /\ t[n + 1] = b /\ \A i \in 1 .. n : t[i] = s[i]
  BY AppendedByte
<1>2. s = << >> <=> n = 0
  BY <1>1
<1> HIDE DEF t, n
<1>3. \A i : i \in LineBreaks(t) <=>
        i \in 1 .. n + 1 /\ (t[i] = "LF" \/ (t[i] = "CR" /\ (i = n + 1 \/ t[i + 1] # "LF")))
  BY <1>1 DEF LineBreaks
<1>4. \A i : i \in LineBreaks(s) <=>
        i \in 1 .. n /\ (s[i] = "LF" \/ (s[i] = "CR" /\ (i = n \/ s[i + 1] # "LF")))
  BY DEF LineBreaks, n
<1>5. n + 1 \in LineBreaks(t) <=> b \in {"CR", "LF"}
  BY <1>1, <1>3
<1>6. \A i \in 1 .. n : i < n => (i \in LineBreaks(t) <=> i \in LineBreaks(s))
  <2> TAKE i \in 1 .. n
  <2> HAVE i < n
  <2>1. i \in 1 .. n + 1 /\ i # n + 1 /\ i + 1 \in 1 .. n
    BY <1>1
  <2> QED
    BY <1>1, <1>3, <1>4, <2>1
<1>7. n # 0 => (n \in LineBreaks(t) <=> s[n] = "LF" \/ (s[n] = "CR" /\ b # "LF"))
  BY <1>1, <1>3
<1>8. n # 0 => (n \in LineBreaks(s) <=> s[n] = "LF" \/ s[n] = "CR")
  BY <1>1, <1>4
<1>9. EndsCR(s) <=> n # 0 /\ s[n] = "CR"
  BY <1>2 DEF EndsCR, n
<1>10. \A i : i \in LineBreaks(t) => i \in 1 .. n \/ i = n + 1
  BY <1>1, <1>3
<1>11. \A i : i \in LineBreaks(s) => i \in 1 .. n
  BY <1>4
<1>12. \A i \in 1 .. n : (b # "LF" \/ ~ EndsCR(s)) => (i \in LineBreaks(t) <=> i \in LineBreaks(s))
  BY <1>1, <1>6, <1>7, <1>8, <1>9
<1>13. EndsCR(s) /\ b = "LF" => n \notin LineBreaks(t)
  BY <1>7, <1>9
<1>14. \A i \in 1 .. n : i # n => (i \in LineBreaks(t) <=> i \in LineBreaks(s))
  BY <1>1, <1>6
<1>15. b \notin {"CR", "LF"} => LineBreaks(t) = LineBreaks(s)
  BY <1>5, <1>10, <1>11, <1>12
<1>16. b \in {"CR", "LF"} /\ ~ (b = "LF" /\ EndsCR(s)) =>
         LineBreaks(t) = LineBreaks(s) \union {n + 1}
  BY <1>5, <1>10, <1>11, <1>12
<1>17. b = "LF" /\ EndsCR(s) => LineBreaks(t) = (LineBreaks(s) \ {n}) \union {n + 1}
  BY <1>5, <1>10, <1>11, <1>13, <1>14
<1> QED
  BY <1>15, <1>16, <1>17 DEF t, n

LEMMA LocatedByte ==
  ASSUME NEW s \in Seq(Byte), NEW b \in Byte \ {"CR", "LF"}, NEW row, NEW col,
         Located(s, row, col)
  PROVE  Located(Append(s, b), row, col + 1)
<1> DEFINE t == Append(s, b)
<1>1. LineBreaks(t) = LineBreaks(s) /\ Len(t) = Len(s) + 1 /\ Len(s) \in Nat
  BY BreaksAppended, AppendedByte
<1>2. LineBreaks(s) \subseteq 1 .. Len(s)
  BY BreaksFinite
<1> HIDE DEF t
<1>3. PICK m \in {0} \union LineBreaks(s) :
        (\A i \in {0} \union LineBreaks(s) : i <= m) /\ col = Len(s) - m
  BY DEF Located
<1>4. m \in Int
  BY <1>1, <1>2
<1>5. col + 1 = Len(t) - m
  BY <1>1, <1>3, <1>4
<1> QED
  BY <1>1, <1>3, <1>5 DEF Located, t

(* A line break: an LF, or a CR as long as no LF follows. *)
LEMMA LocatedBreak ==
  ASSUME NEW s \in Seq(Byte), NEW b \in {"CR", "LF"}, NEW row, NEW col
  PROVE  /\ Located(s, row, col) /\ ~ (b = "LF" /\ EndsCR(s)) => Located(Append(s, b), row + 1, 0)
         /\ Located(s, row, col) /\ b = "LF" /\ EndsCR(s) => Located(Append(s, b), row, 0)
<1> SUFFICES ASSUME Located(s, row, col)
             PROVE  /\ ~ (b = "LF" /\ EndsCR(s)) => Located(Append(s, b), row + 1, 0)
                    /\ b = "LF" /\ EndsCR(s) => Located(Append(s, b), row, 0)
  OBVIOUS
<1> DEFINE t == Append(s, b)
           n == Len(s)
<1>1. b \in Byte
  BY DEF Byte
<1>2. Len(t) = n + 1 /\ n \in Nat
  BY <1>1, AppendedByte
<1>3. /\ ~ (b = "LF" /\ EndsCR(s)) => LineBreaks(t) = LineBreaks(s) \union {n + 1}
      /\ b = "LF" /\ EndsCR(s) => LineBreaks(t) = (LineBreaks(s) \ {n}) \union {n + 1}
  BY <1>1, BreaksAppended
<1>4. LineBreaks(s) \subseteq 1 .. n /\ IsFiniteSet(LineBreaks(s)) /\ row = Cardinality(LineBreaks(s))
      /\ Cardinality(LineBreaks(s)) \in 0 .. n
  BY BreaksFinite DEF Located
<1>5. EndsCR(s) => n \in LineBreaks(s)
  <2>1. s # << >> => n \in 1 .. n
    BY <1>2
  <2> QED
    BY <2>1 DEF EndsCR, LineBreaks
<1> HIDE DEF t, n
<1>6. n + 1 \notin LineBreaks(s)
  BY <1>2, <1>4
<1>7. ASSUME ~ (b = "LF" /\ EndsCR(s))
      PROVE  Cardinality(LineBreaks(t)) = row + 1 /\ LineBreaks(t) \subseteq 1 .. n + 1
  <2>1. Cardinality(LineBreaks(s) \union {n + 1}) = Cardinality(LineBreaks(s)) + 1
    BY <1>4, <1>6, FS_AddElement
  <2>2. LineBreaks(t) = LineBreaks(s) \union {n + 1}
    BY <1>3, <1>7
  <2>3. Cardinality(LineBreaks(t)) = row + 1
    BY <1>4, <2>1, <2>2
  <2>4. LineBreaks(s) \union {n + 1} \subseteq 1 .. n + 1
    BY <1>2, <1>4
  <2> QED
    BY <2>2, <2>3, <2>4
<1>8. ASSUME b = "LF" /\ EndsCR(s)
      PROVE  Cardinality(LineBreaks(t)) = row /\ LineBreaks(t) \subseteq 1 .. n + 1
  <2> DEFINE R == LineBreaks(s) \ {n}
  <2>1. IsFiniteSet(R) /\ Cardinality(R) = row - 1 /\ row \in Nat
    BY <1>2, <1>4, <1>5, <1>8, FS_RemoveElement
  <2>2. n + 1 \notin R /\ R \subseteq 1 .. n
    BY <1>4, <1>6
  <2> HIDE DEF R
  <2>3. Cardinality(R \union {n + 1}) = row - 1 + 1
    BY <2>1, <2>2, FS_AddElement
  <2>4. LineBreaks(t) = R \union {n + 1}
    BY <1>3, <1>8 DEF R
  <2> QED
    BY <1>2, <2>1, <2>2, <2>3, <2>4
<1>9. n + 1 \in LineBreaks(t) /\ LineBreaks(t) \subseteq 1 .. n + 1
  BY <1>3, <1>7, <1>8
<1>10. \E m \in {0} \union LineBreaks(t) :
         (\A i \in {0} \union LineBreaks(t) : i <= m) /\ 0 = Len(t) - m
  <2>1. \A i \in {0} \union LineBreaks(t) : i <= n + 1
    BY <1>2, <1>9
  <2>2. 0 = Len(t) - (n + 1) /\ n + 1 \in {0} \union LineBreaks(t)
    BY <1>2, <1>9
  <2> QED
    BY <2>1, <2>2
<1> QED
  BY <1>7, <1>8, <1>10 DEF Located, t
-----------------------------------------------------------------------------
(* An unexpected byte is reported where it is.  The strengthening: no call *)
(* works with an error pending, the text can be counted, and tok is at the *)
(* end of the text, or a line before it while a CR waits for its LF.  In   *)
(* the state CrLf a byte other than LF is handed back for ever.            *)

Counted == Len(text) + Len(todo) < UsizeMax

PlaceKnown ==
  /\ stat # "CrLf" => Located(text, tok.row, tok.col) /\ (ret => ~EndsCR(text))
  /\ stat = "CrLf" =>
       \/ EndsCR(text) /\ Located(text, tok.row + 1, 0)
       \/ pc = "feed" /\ todo # << >> /\ Head(todo) # "LF"

LInv ==
  /\ ret => err = NoErr
  /\ Counted
  /\ PlaceKnown
  /\ ErrorAtByte

(* What holds in a call in progress. *)
Working == TypeOK /\ PInv /\ LInv /\ pc # "idle"

LEMMA WorkingClean ==
  ASSUME Working
  PROVE  /\ ret /\ err = NoErr /\ text \in Seq(Byte) /\ todo \in Seq(Byte) /\ tok \in Position
         /\ Len(text) \in Nat /\ Len(todo) \in Nat /\ UsizeMax \in Nat
         /\ Len(text) + Len(todo) < UsizeMax
BY TypeSplit, LexerAssumption DEF Working, PInv, LInv, Counted, CallOK

LEMMA NextByte ==
  ASSUME Working, todo # << >>
  PROVE  /\ Head(todo) \in Byte /\ Tail(todo) \in Seq(Byte)
         /\ Len(Tail(todo)) \in Nat /\ Len(Tail(todo)) + 1 = Len(todo)
BY WorkingClean

LEMMA OkCounted ==
  ASSUME Working, todo # << >>, NEW t, Ok(Head(todo), t)
  PROVE  Counted' /\ ret' = ret /\ err' = NoErr /\ text' = Append(text, Head(todo))
<1>1. text' = Append(text, Head(todo)) /\ todo' = Tail(todo) /\ ret' = ret /\ err' = err
  BY DEF Ok, call
<1>2. Len(text') = Len(text) + 1
  BY <1>1, WorkingClean, NextByte, AppendedByte
<1>3. Counted'
  BY <1>1, <1>2, WorkingClean, NextByte DEF Counted
<1> QED
  BY <1>1, <1>3, WorkingClean

LEMMA CleanError ==
  ASSUME err' = NoErr
  PROVE  ErrorAtByte'
BY DEF ErrorAtByte, NoErr

(* A byte inside a line. *)
LEMMA OkLocated ==
  ASSUME Working, todo # << >>, stat # "CrLf", stat' # "CrLf",
         Head(todo) \notin {"CR", "LF"},
         NEW t \in Position, t.row = tok.row, t.col = tok.col, Ok(Head(todo), t)
  PROVE  LInv'
<1> DEFINE b == Head(todo)
<1>1. Located(text, tok.row, tok.col)
  BY DEF Working, LInv, PlaceKnown
<1>2. b \in Byte \ {"CR", "LF"} /\ text \in Seq(Byte)
  BY NextByte, WorkingClean
<1>3. Located(Append(text, b), tok.row, tok.col + 1) /\ ~EndsCR(Append(text, b))
  BY <1>1, <1>2, LocatedByte, AppendedByte
<1>4. tok'.row = tok.row /\ tok'.col = tok.col + 1
  BY <1>2 DEF Ok, Position
<1>5. Counted' /\ err' = NoErr /\ text' = Append(text, b)
  BY OkCounted
<1>6. Located(text, tok.row, tok.col)' /\ ~EndsCR(text)'
  BY <1>3, <1>4, <1>5 DEF Located, EndsCR
<1>7. PlaceKnown'
  BY <1>6 DEF PlaceKnown
<1> QED
  BY <1>5, <1>7, CleanError DEF LInv

(* A byte that is handed back. *)
LEMMA AgainLocated ==
  ASSUME Working, stat # "CrLf", stat' # "CrLf", Again(tok)
  PROVE  LInv'
<1>1. UNCHANGED <<tok, err, todo, text>> /\ ret' = ret
  BY DEF Again, call
<1>2. (ret => err = NoErr)' /\ Counted'
  BY <1>1 DEF Working, LInv, Counted
<1>3. PlaceKnown'
  BY <1>1 DEF Working, LInv, PlaceKnown, Located, EndsCR
<1>4. ErrorAtByte'
  BY <1>1 DEF Working, LInv, ErrorAtByte
<1> QED
  BY <1>2, <1>3, <1>4 DEF LInv

(* A call that fails leaves the text as it is, and its error where tok is. *)
LEMMA ErrorLocated ==
  ASSUME Working, stat # "CrLf", stat' # "CrLf",
         NEW t \in Position, t.row = tok.row, t.col = tok.col,
         NEW type, Error(type, t)
  PROVE  LInv'
<1>1. /\ tok' = t /\ text' = text /\ todo' = << >> /\ ret' = FALSE
      /\ err'.type = type /\ err'.msg \in {err.msg, err.msg + 1}
      /\ err'.line_no = Wrap(t.row + 1) /\ err'.col_no = Wrap(t.col + 1)
  BY DEF Error, Return
<1>2. Located(text, tok.row, tok.col)
  BY DEF Working, LInv, PlaceKnown
<1>3. /\ tok.row = Row(text, Len(text) + 1) /\ tok.col = Col(text, Len(text) + 1)
      /\ tok.row \in 0 .. Len(text) /\ tok.col \in 0 .. Len(text)
  BY <1>2, WorkingClean, LocatedPlace
<1>4. tok.row + 1 \in 0 .. UsizeMax /\ tok.col + 1 \in 0 .. UsizeMax
  BY <1>3, WorkingClean
<1>5. Wrap(tok.row + 1) = tok.row + 1 /\ Wrap(tok.col + 1) = tok.col + 1
  BY <1>4, Unwrapped
<1>6. Counted'
  BY <1>1, WorkingClean DEF Counted
<1>7. PlaceKnown'
  BY <1>1, <1>2 DEF PlaceKnown, Located
<1>8. ErrorAtByte'
  <2>1. Row(text, Len(text) + 1)' = tok.row /\ Col(text, Len(text) + 1)' = tok.col
    BY <1>1, <1>3 DEF Row, Col, LineBreaks
  <2>2. err'.msg <= 1
    BY <1>1, WorkingClean DEF NoErr
  <2> QED
    BY <1>1, <1>5, <2>1, <2>2 DEF ErrorAtByte
<1> QED
  BY <1>1, <1>6, <1>7, <1>8 DEF LInv

LEMMA OutOfMemoryLocated ==
  ASSUME Working, stat # "CrLf", stat' # "CrLf",
         NEW t \in Position, t.row = tok.row, t.col = tok.col, OutOfMemory(t)
  PROVE  LInv'
BY ErrorLocated DEF OutOfMemory
-----------------------------------------------------------------------------
(* FeedByte. *)

LEMMA SamePlace ==
  ASSUME Working
  PROVE  \A t \in {tok, NewLexeme(tok), Longer(tok)} :
           t \in Position /\ t.row = tok.row /\ t.col = tok.col
<1>1. tok \in Position
  BY WorkingClean
<1> QED
  BY <1>1, PositionType DEF Position, NewLexeme, Longer

(* The answers that stay in a line, with the positions the handlers pass. *)
LEMMA AnswerLocated ==
  ASSUME Working, todo # << >>, stat # "CrLf", stat' # "CrLf",
         NEW t \in {tok, NewLexeme(tok), Longer(tok)}, NEW type,
         \/ Ok(Head(todo), t) /\ Head(todo) \notin {"CR", "LF"}
         \/ Again(tok)
         \/ Error(type, t)
         \/ OutOfMemory(t)
  PROVE  LInv'
<1>1. t \in Position /\ t.row = tok.row /\ t.col = tok.col
  BY SamePlace
<1> QED
  BY <1>1, OkLocated, AgainLocated, ErrorLocated, OutOfMemoryLocated

LEMMA BytesApart ==
  \A b \in NameByte \union Punct \union Operator \union {"quote", "space", "tab"} :
    b \notin {"CR", "LF"}
<1>1. \A b \in NameByte : b \notin {"CR", "LF"}
  BY LexerAssumption
<1> QED
  BY <1>1 DEF Punct, Operator

(* A line break, and the CR that may become one. *)
LEMMA BreakLocated ==
  ASSUME Working, todo # << >>,
         \/ /\ stat = "Idle" /\ IdleSkips(Head(todo)) /\ Head(todo) \in {"CR", "LF"}
         \/ /\ stat = "CrLf" /\ FeedByte_CrLf(Head(todo)) /\ Head(todo) = "LF"
  PROVE  LInv'
<1> DEFINE b == Head(todo)
<1>1. PICK t \in {tok, NextRow(tok)} :
        /\ Ok(b, t) /\ (b = "LF" => t = NextRow(tok)) /\ (b = "CR" => t = tok)
        /\ stat' = IF b = "CR" THEN "CrLf" ELSE "Idle"
  BY DEF IdleSkips, FeedByte_CrLf
<1>2. b \in {"CR", "LF"} /\ b \in Byte /\ text \in Seq(Byte) /\ tok \in Position
  BY NextByte, WorkingClean
<1>3. Counted' /\ err' = NoErr /\ text' = Append(text, b) /\ ret
  BY <1>1, OkCounted, WorkingClean
<1>4. tok' = t
  BY <1>1, <1>2 DEF Ok
<1>5. EndsCR(Append(text, b)) <=> b = "CR"
  BY <1>2, AppendedByte
<1>6. Located(Append(text, b), tok.row + 1, 0)
  <2>1. CASE stat = "Idle"
    <3>1. Located(text, tok.row, tok.col) /\ ~EndsCR(text)
      BY <1>3, <2>1 DEF Working, LInv, PlaceKnown
    <3> QED
      BY <1>2, <3>1, LocatedBreak
  <2>2. CASE stat = "CrLf" /\ b = "LF"
    <3>1. EndsCR(text) /\ Located(text, tok.row + 1, 0)
      BY <2>2 DEF Working, LInv, PlaceKnown
    <3> QED
      BY <1>2, <2>2, <3>1, LocatedBreak
  <2> QED
    BY <2>1, <2>2
<1>7. tok.row + 1 \in 0 .. UsizeMax
  <2>1. tok.row + 1 \in 0 .. Len(Append(text, b))
    BY <1>2, <1>6, AppendedByte, LocatedPlace
  <2>2. Len(Append(text, b)) = Len(text) + 1
    BY <1>2, AppendedByte
  <2> QED
    BY <2>1, <2>2, NextByte, WorkingClean
<1>8. NextRow(tok).row = tok.row + 1 /\ NextRow(tok).col = 0
  BY <1>2, <1>7, Unwrapped DEF NextRow, Position
<1>9. CASE b = "CR"
  <2>1. stat' = "CrLf" /\ tok' = tok
    BY <1>1, <1>4, <1>9
  <2>2. EndsCR(text)' /\ Located(text, tok.row + 1, 0)'
    BY <1>3, <1>5, <1>6, <1>9, <2>1 DEF EndsCR, Located
  <2>3. PlaceKnown'
    BY <2>1, <2>2 DEF PlaceKnown
  <2> QED
    BY <1>3, <2>3, CleanError DEF LInv
<1>10. CASE b = "LF"
  <2>1. stat' = "Idle" /\ tok'.row = tok.row + 1 /\ tok'.col = 0
    BY <1>1, <1>4, <1>8, <1>10
  <2>2. ~EndsCR(text)' /\ Located(text, tok.row, tok.col)'
    BY <1>3, <1>5, <1>6, <1>10, <2>1 DEF EndsCR, Located
  <2>3. PlaceKnown'
    BY <2>1, <2>2 DEF PlaceKnown
  <2> QED
    BY <1>3, <2>3, CleanError DEF LInv
<1> QED
  BY <1>2, <1>9, <1>10

LEMMA IdleLocated ==
  ASSUME Working, todo # << >>, FeedByte_Idle(Head(todo))
  PROVE  LInv'
<1> DEFINE b == Head(todo)
<1>0. stat = "Idle"
  BY DEF FeedByte_Idle
<1>1. CASE IdleSkips(b) /\ b \in {"CR", "LF"}
  BY <1>0, <1>1, BreakLocated
<1>2. CASE IdleSkips(b) /\ b \notin {"CR", "LF"}
  <2>1. stat' # "CrLf" /\ Ok(b, tok)
    BY <1>2 DEF IdleSkips
  <2> QED
    BY <1>0, <1>2, <2>1, AnswerLocated
<1>3. CASE IdleStartsNumber(b)
  <2>1. stat' # "CrLf" /\ Ok(b, NewLexeme(tok)) /\ b \notin {"CR", "LF"}
    BY <1>3, BytesApart DEF IdleStartsNumber, NameByte
  <2> QED
    BY <1>0, <2>1, AnswerLocated
<1>4. CASE IdleStartsName(b)
  <2>1. stat' # "CrLf" /\ b \notin {"CR", "LF"}
    BY <1>0, <1>4, BytesApart DEF IdleStartsName, NameByte
  <2>2. Ok(b, NewLexeme(tok)) \/ OutOfMemory(tok)
    BY <1>4 DEF IdleStartsName
  <2> QED
    BY <1>0, <2>1, <2>2, AnswerLocated
<1>5. CASE IdleStartsString(b)
  <2>1. stat' # "CrLf" /\ Ok(b, NewLexeme(tok)) /\ b \notin {"CR", "LF"}
    BY <1>5 DEF IdleStartsString
  <2> QED
    BY <1>0, <2>1, AnswerLocated
<1>6. CASE IdleStartsOperator(b)
  <2>1. stat' # "CrLf" /\ Ok(b, NewLexeme(tok)) /\ b \notin {"CR", "LF"}
    BY <1>6, BytesApart DEF IdleStartsOperator, OperatorStat, Operator
  <2> QED
    BY <1>0, <2>1, AnswerLocated
<1>7. CASE IdlePushes(b)
  <2>1. stat' # "CrLf" /\ b \notin {"CR", "LF"}
    BY <1>0, <1>7, BytesApart DEF IdlePushes
  <2>2. Ok(b, NewLexeme(tok)) \/ OutOfMemory(NewLexeme(tok))
    BY <1>7 DEF IdlePushes
  <2> QED
    BY <1>0, <2>1, <2>2, AnswerLocated
<1>8. CASE IdleRejects(b)
  <2>1. stat' # "CrLf" /\ Error("UnexpectedByte", tok)
    BY <1>0, <1>8 DEF IdleRejects, machine
  <2> QED
    BY <1>0, <2>1, AnswerLocated
<1> QED
  BY <1>1, <1>2, <1>3, <1>4, <1>5, <1>6, <1>7, <1>8 DEF FeedByte_Idle

LEMMA CrLfLocated ==
  ASSUME Working, todo # << >>, pc = "feed", FeedByte_CrLf(Head(todo))
  PROVE  LInv'
<1> DEFINE b == Head(todo)
<1>1. CASE b = "LF"
  BY <1>1, BreakLocated DEF FeedByte_CrLf
<1>2. CASE b # "LF"
  <2>1. stat' = "CrLf" /\ UNCHANGED <<pc, err, todo, text, ret>>
    BY <1>2 DEF FeedByte_CrLf, Again, call
  <2>2. PlaceKnown'
    BY <1>2, <2>1 DEF PlaceKnown
  <2>3. Counted' /\ err' = NoErr
    BY <2>1, WorkingClean DEF Counted
  <2> QED
    BY <2>2, <2>3, CleanError DEF LInv
<1> QED
  BY <1>1, <1>2

LEMMA LexemeEndLocated ==
  ASSUME Working, todo # << >>, stat # "CrLf", NEW token,
         EndsBefore(token) \/ (EndsWith(Head(todo), token) /\ Head(todo) \notin {"CR", "LF"})
  PROVE  LInv'
<1>1. stat' # "CrLf"
  BY DEF EndsBefore, EndsWith
<1>2. \/ Again(tok) \/ OutOfMemory(tok) \/ OutOfMemory(Longer(tok))
      \/ Ok(Head(todo), Longer(tok)) /\ Head(todo) \notin {"CR", "LF"}
  BY DEF EndsBefore, EndsWith
<1> QED
  BY <1>1, <1>2, AnswerLocated

LEMMA FeedByteLocated ==
  ASSUME TypeOK, PInv, LInv, FeedByte
  PROVE  LInv'
<1> DEFINE b == Head(todo)
<1>1. Working /\ todo # << >> /\ pc = "feed"
  BY DEF Working, FeedByte
<1>2. CASE FeedByte_Name(b)
  <2>1. stat = "Name"
    BY <1>2 DEF FeedByte_Name
  <2>2. CASE EndsBefore(NameToken)
    BY <1>1, <2>1, <2>2, LexemeEndLocated
  <2>3. CASE b \in NameByte /\ ~EndsBefore(NameToken)
    <3>1. stat' # "CrLf" /\ b \notin {"CR", "LF"}
      BY <1>2, <2>1, <2>3, BytesApart DEF FeedByte_Name
    <3>2. Ok(b, Longer(tok)) \/ OutOfMemory(tok)
      BY <1>2, <2>3 DEF FeedByte_Name
    <3> QED
      BY <1>1, <2>1, <3>1, <3>2, AnswerLocated
  <2> QED
    BY <1>2, <2>2, <2>3 DEF FeedByte_Name
<1>3. CASE FeedByte_Num(b)
  <2>1. stat = "NumLit"
    BY <1>3 DEF FeedByte_Num
  <2>2. CASE EndsBefore(NumberToken)
    BY <1>1, <2>1, <2>2, LexemeEndLocated
  <2>3. CASE b \in Digit /\ ~EndsBefore(NumberToken)
    <3>1. stat' # "CrLf" /\ b \notin {"CR", "LF"} /\ Ok(b, Longer(tok))
      BY <1>3, <2>1, <2>3, BytesApart DEF FeedByte_Num, NameByte
    <3> QED
      BY <1>1, <2>1, <3>1, AnswerLocated
  <2> QED
    BY <1>3, <2>2, <2>3 DEF FeedByte_Num
<1>4. CASE FeedByte_StrLit(b)
  <2>1. stat = "StrLit"
    BY <1>4 DEF FeedByte_StrLit
  <2>2. CASE b \in {"CR", "LF"}
    <3>1. stat' # "CrLf" /\ Error("UnexpectedByte", tok)
      BY <1>4, <2>1, <2>2 DEF FeedByte_StrLit, machine
    <3> QED
      BY <1>1, <2>1, <3>1, AnswerLocated
  <2>3. CASE b = "quote"
    <3>1. EndsWith(b, StringLiteralToken(Longer(tok)))
      BY <1>4, <2>3 DEF FeedByte_StrLit
    <3> QED
      BY <1>1, <2>1, <2>3, <3>1, LexemeEndLocated
  <2>4. CASE b \notin {"CR", "LF", "quote"}
    <3>1. stat' # "CrLf"
      BY <1>4, <2>1, <2>4 DEF FeedByte_StrLit
    <3>2. Ok(b, Longer(tok)) \/ OutOfMemory(tok)
      BY <1>4, <2>4 DEF FeedByte_StrLit
    <3> QED
      BY <1>1, <2>1, <2>4, <3>1, <3>2, AnswerLocated
  <2> QED
    BY <2>2, <2>3, <2>4
<1>5. CASE FeedByte_Neq(b)
  <2>1. stat = "Neq"
    BY <1>5 DEF FeedByte_Neq
  <2>2. CASE b = "="
    <3>1. EndsWith(b, NormalToken("Neq", Longer(tok)))
      BY <1>5, <2>2 DEF FeedByte_Neq
    <3> QED
      BY <1>1, <2>1, <2>2, <3>1, LexemeEndLocated
  <2>3. CASE b # "="
    <3>1. stat' # "CrLf" /\ Error("UnexpectedByte", tok)
      BY <1>5, <2>1, <2>3 DEF FeedByte_Neq, machine
    <3> QED
      BY <1>1, <2>1, <3>1, AnswerLocated
  <2> QED
    BY <2>2, <2>3
<1>6. ASSUME stat # "CrLf", NEW alone, NEW both, MayTakeEqual(b, alone, both)
      PROVE  LInv'
  <2>1. CASE b = "="
    <3>1. EndsWith(b, NormalToken(both, Longer(tok)))
      BY <1>6, <2>1 DEF MayTakeEqual
    <3> QED
      BY <1>1, <1>6, <2>1, <3>1, LexemeEndLocated
  <2>2. CASE b # "="
    <3>1. EndsBefore(NormalToken(alone, tok))
      BY <1>6, <2>2 DEF MayTakeEqual
    <3> QED
      BY <1>1, <1>6, <3>1, LexemeEndLocated
  <2> QED
    BY <2>1, <2>2
<1>7. CASE FeedByte_AsgOrEqu(b) \/ FeedByte_GtOrGte(b) \/ FeedByte_LtOrLte(b)
  BY <1>6, <1>7 DEF FeedByte_AsgOrEqu, FeedByte_GtOrGte, FeedByte_LtOrLte
<1> QED
  BY <1>1, <1>2, <1>3, <1>4, <1>5, <1>7, IdleLocated, CrLfLocated DEF FeedByte
-----------------------------------------------------------------------------
(* The other steps. *)

(* Where Finalize puts Eof: at the end of the text. *)
LEMMA EofLocated ==
  ASSUME Working, pc = "finalize"
  PROVE  /\ Located(text, EofTok.row, EofTok.col)
         /\ EofTok.off = EofTok.col /\ EofTok.len = 0
<1> DEFINE t == IF stat = "CrLf" THEN NextRow(tok) ELSE tok
<1>1. t \in Position /\ EofTok = [t EXCEPT !.off = t.col, !.len = 0]
  BY WorkingClean, PositionType DEF EofTok
<1>2. Located(text, t.row, t.col)
  <2>1. CASE stat = "CrLf"
    <3>1. Located(text, tok.row + 1, 0)
      BY <2>1 DEF Working, LInv, PlaceKnown
    <3>2. tok.row + 1 \in 0 .. UsizeMax
      BY <3>1, WorkingClean, LocatedPlace
    <3>3. NextRow(tok).row = tok.row + 1 /\ NextRow(tok).col = 0
      BY <3>2, WorkingClean, Unwrapped DEF NextRow, Position
    <3> QED
      BY <2>1, <3>1, <3>3
  <2>2. CASE stat # "CrLf"
    BY <2>2 DEF Working, LInv, PlaceKnown
  <2> QED
    BY <2>1, <2>2
<1> HIDE DEF t
<1>3. EofTok.row = t.row /\ EofTok.col = t.col /\ EofTok.off = t.col /\ EofTok.len = 0
  BY <1>1 DEF Position
<1> QED
  BY <1>2, <1>3

(* Nothing has been read. *)
LEMMA StartLocated == Located(<< >>, 0, 0) /\ ~EndsCR(<< >>) /\ Len(<< >>) = 0
<1>1. LineBreaks(<< >>) = {}
  BY DEF LineBreaks
<1>2. Cardinality({}) = 0
  BY FS_EmptySet
<1> QED
  BY <1>1, <1>2 DEF Located, EndsCR

LEMMA FreshLInv ==
  ASSUME text' = << >>, todo' = << >>, tok' = Tok0, err' = NoErr, stat' = "Idle"
  PROVE  LInv'
<1>1. Counted'
  BY StartLocated, LexerAssumption DEF Counted
<1>2. Located(text, tok.row, tok.col)' /\ ~EndsCR(text)'
  BY StartLocated DEF Located, EndsCR, Tok0
<1>3. PlaceKnown'
  BY <1>2 DEF PlaceKnown
<1> QED
  BY <1>1, <1>3, CleanError DEF LInv

LEMMA FinalizeLocated ==
  ASSUME TypeOK, PInv, LInv, Finalize
  PROVE  LInv'
<1>1. Working /\ pc = "finalize"
  BY DEF Working, Finalize
<1>2. CASE FeedEolFails
  <2>1. stat # "CrLf" /\ stat' = stat
    BY <1>2 DEF FeedEolFails, EolTokens, machine
  <2>2. tok \in Position /\ (Error("UnexpectedByte", tok) \/ OutOfMemory(tok))
    BY <1>1, <1>2, WorkingClean DEF FeedEolFails
  <2> QED
    BY <1>1, <2>1, <2>2, ErrorLocated, OutOfMemoryLocated
<1>3. CASE FinalizeFails
  <2>1. /\ stat' = "Idle" /\ tok' = EofTok /\ ret' = FALSE /\ todo' = << >>
        /\ text' = text /\ err' = err
    BY <1>3 DEF FinalizeFails, Return
  <2>2. Counted' /\ err' = NoErr
    BY <1>1, <2>1, WorkingClean, StartLocated DEF Counted
  <2>3. PlaceKnown'
    BY <1>1, <2>1, EofLocated DEF PlaceKnown, Located
  <2> QED
    BY <2>2, <2>3, CleanError DEF LInv
<1>4. CASE FinalizeSucceeds
  BY <1>4, FreshLInv DEF FinalizeSucceeds, Return
<1> QED
  BY <1>2, <1>3, <1>4 DEF Finalize

LEMMA FeedDoneLocated ==
  ASSUME TypeOK, PInv, LInv, FeedDone
  PROVE  LInv'
<1>1. Working /\ todo = << >>
  BY DEF Working, FeedDone
<1>2. UNCHANGED <<stat, tok, err, text>> /\ todo' = << >>
  BY <1>1 DEF FeedDone, Return, machine
<1>3. Counted' /\ err' = NoErr
  BY <1>1, <1>2, WorkingClean DEF Counted
<1>4. PlaceKnown'
  <2>1. ret
    BY <1>1, WorkingClean
  <2>2. stat # "CrLf" => Located(text, tok.row, tok.col)' /\ ~EndsCR(text)'
    BY <1>2, <2>1 DEF LInv, PlaceKnown, Located, EndsCR
  <2>3. stat = "CrLf" => EndsCR(text)' /\ Located(text, tok.row + 1, 0)'
    BY <1>1, <1>2 DEF LInv, PlaceKnown, Located, EndsCR
  <2> QED
    BY <1>2, <2>2, <2>3 DEF PlaceKnown
<1> QED
  BY <1>3, <1>4, CleanError DEF LInv

(* A call begins where the last one stopped. *)
LEMMA BeginLocated ==
  ASSUME TypeOK, PInv, LInv, pc = "idle", ret,
         UNCHANGED <<stat, tok, err, text>>, Counted'
  PROVE  LInv'
<1>1. PlaceKnown'
  <2>1. stat # "CrLf" => Located(text, tok.row, tok.col)' /\ ~EndsCR(text)'
    BY DEF LInv, PlaceKnown, Located, EndsCR
  <2>2. stat = "CrLf" => EndsCR(text)' /\ Located(text, tok.row + 1, 0)'
    BY DEF LInv, PlaceKnown, Located, EndsCR
  <2> QED
    BY <2>1, <2>2 DEF PlaceKnown
<1>2. err' = NoErr
  BY DEF LInv
<1> QED
  BY <1>1, <1>2, CleanError DEF LInv

LEMMA MayFeedCounted ==
  ASSUME TextsFit, TypeOK, NEW c \in Chunk, MayFeed(c)
  PROVE  Len(text) + Len(c) < UsizeMax
<1>1. Len(c) < UsizeMax /\ Len(c) \in Nat /\ MaxText < UsizeMax /\ MaxText \in Nat
      /\ UsizeMax \in Nat
  BY LexerAssumption DEF TextsFit
<1>2. Len(text) \in Nat
  BY DEF TypeOK
<1>3. CASE text = << >>
  BY <1>1, <1>3, StartLocated
<1>4. CASE Len(text) + Len(c) <= MaxText
  BY <1>1, <1>2, <1>4
<1> QED
  BY <1>3, <1>4 DEF MayFeed

LEMMA InitLInv == Init => LInv
<1> SUFFICES ASSUME Init
             PROVE  LInv
  OBVIOUS
<1>1. text = << >> /\ todo = << >> /\ tok = Tok0 /\ err = NoErr /\ stat = "Idle"
  BY DEF Init
<1>2. Counted
  BY <1>1, StartLocated, LexerAssumption DEF Counted
<1>3. PlaceKnown
  BY <1>1, StartLocated DEF PlaceKnown, Tok0
<1>4. ErrorAtByte
  BY <1>1 DEF ErrorAtByte, NoErr
<1> QED
  BY <1>1, <1>2, <1>3, <1>4 DEF LInv

LEMMA StepLInv == TextsFit /\ TypeOK /\ PInv /\ LInv /\ [Next]_vars => LInv'
<1> SUFFICES ASSUME TextsFit, TypeOK, PInv, LInv, [Next]_vars
             PROVE  LInv'
  OBVIOUS
<1>1. CASE UNCHANGED vars
  <2>1. UNCHANGED <<stat, tok, err, pc, todo, ret, text>>
    BY <1>1 DEF vars
  <2> QED
    BY <2>1 DEF LInv, Counted, PlaceKnown, Located, EndsCR, ErrorAtByte
<1>2. CASE LexerStep
  BY <1>2, FeedByteLocated, FeedDoneLocated, FinalizeLocated DEF LexerStep
<1>3. ASSUME NEW c \in Chunk, BeginFeed(c)
      PROVE  LInv'
  <2>1. pc = "idle" /\ ret /\ UNCHANGED <<stat, tok, err, text>> /\ todo' = c
    BY <1>3 DEF BeginFeed, MayFeed, machine
  <2>2. Counted'
    BY <1>3, <2>1, MayFeedCounted DEF BeginFeed, Counted
  <2> QED
    BY <2>1, <2>2, BeginLocated
<1>4. ASSUME NEW c \in Chunk, BeginScan(c)
      PROVE  LInv'
  <2>1. pc = "idle" /\ ret /\ UNCHANGED <<stat, tok, err, text>> /\ todo' \in {c, todo}
    BY <1>4 DEF BeginScan, MayFeed, machine
  <2>2. Counted'
    BY <1>4, <2>1, MayFeedCounted DEF BeginScan, Counted, LInv
  <2> QED
    BY <2>1, <2>2, BeginLocated
<1>5. CASE BeginFinalize
  <2>1. pc = "idle" /\ ret /\ UNCHANGED <<stat, tok, err, text, todo>>
    BY <1>5 DEF BeginFinalize, machine
  <2> QED
    BY <2>1, BeginLocated DEF LInv, Counted
<1>6. CASE Reset
  <2>1. todo' = todo /\ text' = << >> /\ tok' = Tok0 /\ err' = NoErr /\ stat' = "Idle"
    BY <1>6 DEF Reset
  <2>2. Len(todo) \in Nat /\ Len(text) \in Nat /\ UsizeMax \in Nat
    BY LexerAssumption DEF TypeOK
  <2>3. Counted'
    BY <2>1, <2>2, StartLocated DEF LInv, Counted
  <2>4. Located(text, tok.row, tok.col)' /\ ~EndsCR(text)'
    BY <2>1, StartLocated DEF Located, EndsCR, Tok0
  <2>5. PlaceKnown'
    BY <2>1, <2>4 DEF PlaceKnown
  <2> QED
    BY <2>1, <2>3, <2>5, CleanError DEF LInv
<1> QED
  BY <1>1, <1>2, <1>3, <1>4, <1>5, <1>6 DEF Next

(* For every alphabet, keyword table and sequence of calls on texts that   *)
(* usize can count: an unexpected byte is reported at the line and column  *)
(* where the text consumed so far ends, whatever calls it came in, and its *)
(* message is the only one.                                                *)
THEOREM AlwaysErrorAtByte ==
  ASSUME TextsFit
  PROVE  Spec => []ErrorAtByte
<1>1. Init => TypeOK /\ PInv /\ LInv
  BY InitTyped, InitPInv, InitLInv
<1>2. TypeOK /\ PInv /\ LInv /\ [Next]_vars => (TypeOK /\ PInv /\ LInv)'
  BY StepTyped, StepPInv, StepLInv
<1>3. LInv => ErrorAtByte
  BY DEF LInv
<1> QED
  BY <1>1, <1>2, <1>3, PTL DEF Spec
-----------------------------------------------------------------------------
(* The end of the output. *)

LEMMA LastAppended ==
  ASSUME NEW S, NEW p \in Seq(S), NEW q \in Seq(S), NEW x \in S
  PROVE  LET r == p \o q \o <<x>> IN r[Len(r)] = x
OBVIOUS

LEMMA EofHandedOut ==
  ASSUME TypeOK, PInv, LInv, Finalize, FinalizeSucceeds, out' # out
  PROVE  EofAtEnd'
<1> DEFINE toks == seq \o EolTokens \o <<EofToken>>
           end == Len(text) + 1
<1>1. Working /\ pc = "finalize"
  BY DEF Working, Finalize
<1>2. out' = [text |-> text, toks |-> toks]
  BY DEF FinalizeSucceeds
<1>3. seq \in Seq(TokenType) /\ EolTokens \in Seq(TokenType) /\ EofToken \in TokenType
  BY TypeSplit, EolTyped DEF MachineOK
<1>4. toks[Len(toks)] = EofToken
  BY <1>3, LastAppended
<1>5. Located(text, EofTok.row, EofTok.col) /\ EofTok.off = EofTok.col /\ EofTok.len = 0
  BY <1>1, EofLocated
<1>6. EofTok.row = Row(text, end) /\ EofTok.col = Col(text, end)
  BY <1>1, <1>5, WorkingClean, LocatedPlace
<1>7. EofToken = [tag |-> "Eof", row |-> Row(text, end), col |-> Col(text, end),
                  len |-> 0, str |-> << >>, val |-> 0]
  BY <1>5, <1>6 DEF EofToken, NormalToken, Token
<1> HIDE DEF toks
<1>8. out'.text = text /\ out'.toks = toks
  BY <1>2
<1> QED
  BY <1>4, <1>7, <1>8 DEF EofAtEnd, Row, Col, LineBreaks

(* What a step does to out. *)
LEMMA StepOut ==
  [Next]_vars => out' = out \/ out' = NoOut \/ (Finalize /\ FinalizeSucceeds)
<1> SUFFICES ASSUME [Next]_vars
             PROVE  out' = out \/ out' = NoOut \/ (Finalize /\ FinalizeSucceeds)
  OBVIOUS
<1>1. CASE FeedByte
  <2>1. \A b, t : Ok(b, t) => out' = out
    BY DEF Ok
  <2>2. \A t : Again(t) => out' = out
    BY DEF Again
  <2>3. \A type, t : Error(type, t) => out' = out
    BY DEF Error
  <2>4. \A t : OutOfMemory(t) => out' = out
    BY <2>3 DEF OutOfMemory
  <2>5. \A b, token : EndsBefore(token) \/ EndsWith(b, token) => out' = out
    BY <2>1, <2>2, <2>4 DEF EndsBefore, EndsWith
  <2>6. \A b : FeedByte_Idle(b) => out' = out
    BY <2>1, <2>3, <2>4
       DEF FeedByte_Idle, IdleSkips, IdleStartsNumber, IdleStartsName,
           IdleStartsString, IdleStartsOperator, IdlePushes, IdleRejects
  <2>7. \A b : FeedByte_CrLf(b) \/ FeedByte_Name(b) \/ FeedByte_Num(b) => out' = out
    BY <2>1, <2>2, <2>4, <2>5 DEF FeedByte_CrLf, FeedByte_Name, FeedByte_Num
  <2>8. \A b : FeedByte_StrLit(b) \/ FeedByte_Neq(b) => out' = out
    BY <2>1, <2>3, <2>4, <2>5 DEF FeedByte_StrLit, FeedByte_Neq
  <2>9. \A b : FeedByte_AsgOrEqu(b) \/ FeedByte_GtOrGte(b) \/ FeedByte_LtOrLte(b)
                 => out' = out
    BY <2>5 DEF FeedByte_AsgOrEqu, FeedByte_GtOrGte, FeedByte_LtOrLte, MayTakeEqual
  <2> QED
    BY <1>1, <2>6, <2>7, <2>8, <2>9 DEF FeedByte
<1>2. CASE FeedDone
  BY <1>2 DEF FeedDone
<1>3. CASE Finalize
  BY <1>3 DEF Finalize, FeedEolFails, FinalizeFails, OutOfMemory, Error
<1>4. CASE BeginFinalize \/ Reset \/ \E c \in Chunk : BeginFeed(c) \/ BeginScan(c)
  BY <1>4 DEF BeginFinalize, Reset, BeginFeed, BeginScan
<1>5. CASE UNCHANGED vars
  BY <1>5 DEF vars
<1> QED
  BY <1>1, <1>2, <1>3, <1>4, <1>5 DEF Next, LexerStep

LEMMA StepEofAtEnd == TypeOK /\ PInv /\ LInv /\ EofAtEnd /\ [Next]_vars => EofAtEnd'
<1> SUFFICES ASSUME TypeOK, PInv, LInv, EofAtEnd, [Next]_vars
             PROVE  EofAtEnd'
  OBVIOUS
<1>1. CASE out' = out
  BY <1>1 DEF EofAtEnd, Row, Col, LineBreaks
<1>2. CASE out' = NoOut
  BY <1>2 DEF EofAtEnd
<1>3. CASE out' # out /\ Finalize /\ FinalizeSucceeds
  BY <1>3, EofHandedOut
<1> QED
  BY <1>1, <1>2, <1>3, StepOut
-----------------------------------------------------------------------------
(* Extrema of sets of naturals. *)

LEMMA GreatestNat ==
  ASSUME NEW N \in Nat, NEW S \in SUBSET (0 .. N), S # {}
  PROVE  \E m \in S : \A x \in S : x <= m
<1> DEFINE T == {n \in Nat : \A x \in S : x <= n}
<1>1. N \in T
  OBVIOUS
<1>2. T \in SUBSET Nat /\ T # {}
  BY <1>1
<1>3. PICK m \in T : \A n \in T : m <= n
  <2> HIDE DEF T
  <2> QED
    BY <1>2, LeastNat
<1>4. CASE m \in S
  BY <1>4
<1>5. CASE m \notin S
  <2>1. PICK x \in S : TRUE
    OBVIOUS
  <2>2. x <= m /\ x # m /\ x \in Nat /\ m \in Nat
    BY <1>5
  <2>3. m - 1 \in Nat /\ ~ (m <= m - 1)
    BY <2>2
  <2>4. \A y \in S : y <= m - 1
    <3> TAKE y \in S
    <3>1. y <= m /\ y # m /\ y \in Nat /\ m \in Nat
      BY <1>5
    <3> QED
      BY <3>1
  <2>5. m - 1 \in T
    BY <2>3, <2>4
  <2> QED
    BY <1>3, <2>3, <2>5
<1> QED
  BY <1>4, <1>5

LEMMA MaxIsGreatest ==
  ASSUME NEW N \in Nat, NEW S \in SUBSET (0 .. N), S # {}
  PROVE  Max(S) \in S /\ Max(S) \in Nat /\ \A x \in S : x <= Max(S)
<1>1. PICK m \in S : \A x \in S : x <= m
  BY GreatestNat
<1>2. \A x \in S : m >= x
  BY <1>1
<1>3. Max(S) \in S /\ \A x \in S : Max(S) >= x
  BY <1>2, Zenon DEF Max
<1>4. Max(S) \in Nat
  <2>1. \A x \in S : x \in Nat
    OBVIOUS
  <2> QED
    BY <1>3, <2>1, Zenon
<1>5. ASSUME NEW x \in S PROVE x <= Max(S)
  <2>1. Max(S) >= x /\ x \in Nat
    BY <1>3
  <2> QED
    BY <1>4, <2>1
<1> QED
  BY <1>3, <1>4, <1>5

LEMMA IntervalEnds ==
  ASSUME NEW p \in Nat, NEW q \in Nat, p <= q
  PROVE  Max(p .. q) = q /\ Min(p .. q) = p
<1> DEFINE S == p .. q
<1>1. p \in S /\ q \in S /\ \A x \in S : p <= x /\ q >= x /\ x \in Int
  OBVIOUS
<1>2. \A x \in S : (q <= x => x = q) /\ (x <= p => x = p)
  BY <1>1
<1> HIDE DEF S
<1>3. Max(S) \in S /\ \A y \in S : Max(S) >= y
  BY <1>1, Zenon DEF Max
<1>4. Min(S) \in S /\ \A y \in S : Min(S) <= y
  BY <1>1, Zenon DEF Min
<1>5. Max(S) = q
  BY <1>1, <1>2, <1>3
<1>6. Min(S) = p
  BY <1>1, <1>2, <1>4
<1> QED
  BY <1>5, <1>6 DEF S

-----------------------------------------------------------------------------
(* Places.  A place is found by its row and column and stays where it is   *)
(* when the text grows.                                                    *)

BreaksBefore(s, p) == {i \in LineBreaks(s) : i < p}

LEMMA BreaksBeforeType ==
  ASSUME NEW s \in Seq(Byte), NEW p
  PROVE  /\ IsFiniteSet(BreaksBefore(s, p))
         /\ Max({0} \union BreaksBefore(s, p)) \in Nat
         /\ BreaksBefore(s, p) \subseteq 1 .. Len(s)
<1> DEFINE B == BreaksBefore(s, p)
<1>1. LineBreaks(s) \subseteq 1 .. Len(s) /\ IsFiniteSet(LineBreaks(s)) /\ Len(s) \in Nat
  BY BreaksFinite
<1>2. B \in SUBSET LineBreaks(s)
  BY DEF BreaksBefore
<1> HIDE DEF B
<1>3. IsFiniteSet(B)
  BY <1>1, <1>2, FS_Subset
<1>4. {0} \union B \in SUBSET (0 .. Len(s)) /\ {0} \union B # {}
  BY <1>1, <1>2
<1>5. Max({0} \union B) \in Nat
  BY <1>1, <1>4, MaxIsGreatest
<1>6. B \subseteq 1 .. Len(s)
  BY <1>1, <1>2
<1> QED
  BY <1>3, <1>5, <1>6 DEF B

LEMMA PlaceBefore ==
  ASSUME NEW s, NEW p
  PROVE  /\ Row(s, p) = Cardinality(BreaksBefore(s, p))
         /\ Col(s, p) = p - 1 - Max({0} \union BreaksBefore(s, p))
BY Zenon DEF Row, Col, BreaksBefore

LEMMA PlacesDiffer ==
  ASSUME NEW s \in Seq(Byte), NEW p \in Nat, NEW q \in Nat, p < q,
         Row(s, p) = Row(s, q)
  PROVE  Col(s, p) # Col(s, q)
<1>1. BreaksBefore(s, p) \in SUBSET BreaksBefore(s, q)
  <2> SUFFICES ASSUME NEW i \in LineBreaks(s), i < p
               PROVE  i < q
    BY DEF BreaksBefore
  <2>1. i \in Nat
    BY BreaksFinite
  <2> QED
    BY <2>1
<1>2. Cardinality(BreaksBefore(s, p)) = Cardinality(BreaksBefore(s, q))
  BY PlaceBefore
<1>3. BreaksBefore(s, p) = BreaksBefore(s, q)
  BY <1>1, <1>2, FS_Subset, BreaksBeforeType
<1> DEFINE m == Max({0} \union BreaksBefore(s, p))
<1>4. Col(s, p) = p - 1 - m /\ Col(s, q) = q - 1 - m
  BY <1>3, PlaceBefore
<1>5. m \in Nat
  BY BreaksBeforeType
<1> HIDE DEF m
<1> QED
  BY <1>4, <1>5

LEMMA PlaceUnique ==
  ASSUME NEW s \in Seq(Byte), NEW p \in Nat, NEW q \in Nat,
         Row(s, p) = Row(s, q), Col(s, p) = Col(s, q)
  PROVE  p = q
<1>1. ~ (p < q) /\ ~ (q < p)
  BY PlacesDiffer
<1> QED
  BY <1>1

LEMMA PlaceStays ==
  ASSUME NEW s \in Seq(Byte), NEW b \in Byte, NEW p \in 1 .. Len(s) + 1,
         p <= Len(s) \/ ~ (b = "LF" /\ EndsCR(s))
  PROVE  Row(Append(s, b), p) = Row(s, p) /\ Col(Append(s, b), p) = Col(s, p)
<1> DEFINE n == Len(s)
           B == LineBreaks(s)
           C == LineBreaks(Append(s, b))
<1>1. /\ b \notin {"CR", "LF"} => C = B
      /\ b \in {"CR", "LF"} /\ ~ (b = "LF" /\ EndsCR(s)) => C = B \union {n + 1}
      /\ b = "LF" /\ EndsCR(s) => C = (B \ {n}) \union {n + 1}
  BY BreaksAppended
<1>2. n \in Nat /\ B \subseteq 1 .. n
  BY BreaksFinite
<1> HIDE DEF n, B, C
<1>3. ~ (n + 1 < p) /\ (p <= n => ~ (n < p))
  BY <1>2 DEF n
<1>4. ~ (b = "LF" /\ EndsCR(s)) => {i \in C : i < p} = {i \in B : i < p}
  BY <1>1, <1>3
<1>5. b = "LF" /\ EndsCR(s) => {i \in C : i < p} = {i \in B : i < p}
  BY <1>1, <1>3 DEF n
<1>6. BreaksBefore(Append(s, b), p) = BreaksBefore(s, p)
  BY <1>4, <1>5 DEF BreaksBefore, B, C
<1> QED
  BY <1>6, PlaceBefore

-----------------------------------------------------------------------------
(* Spots.  A lexeme of len bytes that begins at byte p of s, which is in   *)
(* this row and column, and ends within s.                                 *)

Spot(s, row, col, len, p) ==
  /\ p \in 1 .. Len(s) /\ len \in Nat /\ len >= 1 /\ p + len - 1 <= Len(s)
  /\ Row(s, p) = row /\ Col(s, p) = col

LEMMA SpotSpan ==
  ASSUME NEW s \in Seq(Byte), NEW row, NEW col, NEW len, NEW p, Spot(s, row, col, len, p)
  PROVE  LET q == p + len - 1
         IN  /\ Span(s, row, col, len) = p .. q
             /\ p \in 1 .. Len(s) /\ q \in p .. Len(s)
             /\ Max(Span(s, row, col, len)) = q
             /\ Read(s, Span(s, row, col, len)) = SubSeq(s, p, q)
<1> DEFINE q == p + len - 1
<1>1. Len(s) \in Nat /\ p \in Nat /\ 1 <= p /\ p <= q /\ q <= Len(s) /\ q \in Nat
      /\ len \in Nat
  BY DEF Spot
<1>2. Place(s, row, col) = {p}
  <2>1. p \in Place(s, row, col)
    BY <1>1 DEF Place, Spot
  <2>2. ASSUME NEW r \in Place(s, row, col)
        PROVE  r = p
    <3>1. r \in Nat /\ Row(s, r) = Row(s, p) /\ Col(s, r) = Col(s, p)
      BY <1>1 DEF Place, Spot
    <3> QED
      BY <1>1, <3>1, PlaceUnique
  <2> QED
    BY <2>1, <2>2
<1>3. Span(s, row, col, len) = p .. q
  BY <1>2 DEF Span
<1> HIDE DEF q
<1>4. Max(p .. q) = q /\ Min(p .. q) = p /\ p .. q # {}
  <2>1. p \in p .. q
    BY <1>1
  <2>2. Max(p .. q) = q /\ Min(p .. q) = p
    BY <1>1, IntervalEnds
  <2> QED
    BY <2>1, <2>2
<1>5. Read(s, p .. q) = SubSeq(s, p, q)
  BY <1>1, <1>4 DEF Read
<1> QED
  BY <1>1, <1>3, <1>4, <1>5 DEF q

(* What can be read is at a spot. *)
LEMMA ReadSpot ==
  ASSUME NEW s \in Seq(Byte), NEW row, NEW col, NEW len \in Nat,
         Read(s, Span(s, row, col, len)) # << >>
  PROVE  \E p : Spot(s, row, col, len, p)
<1>1. Span(s, row, col, len) # {} /\ Max(Span(s, row, col, len)) <= Len(s)
  BY DEF Read
<1>2. PICK p \in Place(s, row, col) : p .. p + len - 1 # {}
  BY <1>1 DEF Span
<1>3. p \in Nat /\ 1 <= p /\ Row(s, p) = row /\ Col(s, p) = col /\ Len(s) \in Nat
  BY DEF Place
<1>4. len >= 1
  BY <1>2, <1>3
<1>5. Place(s, row, col) = {p}
  <2>1. ASSUME NEW r \in Place(s, row, col)
        PROVE  r = p
    <3>1. r \in Nat /\ Row(s, r) = Row(s, p) /\ Col(s, r) = Col(s, p)
      BY <1>3 DEF Place
    <3> QED
      BY <1>3, <3>1, PlaceUnique
  <2> QED
    BY <2>1
<1>6. Span(s, row, col, len) = p .. p + len - 1
  BY <1>5 DEF Span
<1> DEFINE q == p + len - 1
<1>7. q \in Nat /\ p <= q
  BY <1>3, <1>4
<1>8. Max(p .. q) = q
  BY <1>3, <1>7, IntervalEnds
<1>9. p + len - 1 <= Len(s)
  BY <1>1, <1>6, <1>8
<1> QED
  BY <1>3, <1>4, <1>9 DEF Spot

LEMMA SubSeqAppended ==
  ASSUME NEW s \in Seq(Byte), NEW b \in Byte, NEW p \in 1 .. Len(s), NEW q \in p .. Len(s)
  PROVE  SubSeq(Append(s, b), p, q) = SubSeq(s, p, q)
OBVIOUS

LEMMA SubSeqToEnd ==
  ASSUME NEW s \in Seq(Byte), NEW b \in Byte, NEW p \in 1 .. Len(s)
  PROVE  SubSeq(Append(s, b), p, Len(s) + 1) = Append(SubSeq(s, p, Len(s)), b)
OBVIOUS

LEMMA SubSeqLast ==
  ASSUME NEW s \in Seq(Byte), NEW b \in Byte
  PROVE  SubSeq(Append(s, b), Len(s) + 1, Len(s) + 1) = <<b>>
<1> DEFINE t == Append(s, b)
           n == Len(s) + 1
<1>1. t \in Seq(Byte) /\ Len(t) = n /\ n \in Nat /\ n >= 1 /\ t[n] = b
  BY AppendedByte
<1> HIDE DEF t, n
<1>2. SubSeq(t, n, n) = [i \in 1 .. n - n + 1 |-> t[i + n - 1]]
  BY <1>1
<1>3. n - n + 1 = 1 /\ 1 + n - 1 = n
  BY <1>1
<1>4. SubSeq(t, n, n) = <<t[n]>>
  BY <1>1, <1>2, <1>3
<1> QED
  BY <1>1, <1>4 DEF t, n

(* Spots stay when the text grows, ... *)
LEMMA SpotStays ==
  ASSUME NEW s \in Seq(Byte), NEW b \in Byte, NEW row, NEW col, NEW len, NEW p,
         Spot(s, row, col, len, p)
  PROVE  Spot(Append(s, b), row, col, len, p)
<1>1. /\ Len(s) \in Nat /\ p \in 1 .. Len(s) /\ p + len - 1 \in p .. Len(s)
      /\ Len(Append(s, b)) = Len(s) + 1
  BY AppendedByte DEF Spot
<1>2. Row(Append(s, b), p) = row /\ Col(Append(s, b), p) = col
  BY <1>1, PlaceStays DEF Spot
<1> QED
  BY <1>1, <1>2 DEF Spot

(* ... the last one can grow with it, ... *)
LEMMA SpotGrows ==
  ASSUME NEW s \in Seq(Byte), NEW b \in Byte, NEW row, NEW col, NEW len, NEW p,
         Spot(s, row, col, len, p), p + len - 1 = Len(s)
  PROVE  /\ Spot(Append(s, b), row, col, len + 1, p) /\ p + (len + 1) - 1 = Len(s) + 1
         /\ SubSeq(Append(s, b), p, Len(s) + 1) = Append(SubSeq(s, p, Len(s)), b)
<1>1. /\ Len(s) \in Nat /\ p \in 1 .. Len(s) /\ len \in Nat
      /\ Len(Append(s, b)) = Len(s) + 1
  BY AppendedByte DEF Spot
<1>2. Row(Append(s, b), p) = row /\ Col(Append(s, b), p) = col
  BY <1>1, PlaceStays DEF Spot
<1>3. Spot(Append(s, b), row, col, len + 1, p) /\ p + (len + 1) - 1 = Len(s) + 1
  BY <1>1, <1>2 DEF Spot
<1> QED
  BY <1>1, <1>3, SubSeqToEnd

(* ... and a new one is where the text ended. *)
LEMMA SpotBegins ==
  ASSUME NEW s \in Seq(Byte), NEW b \in Byte, NEW row, NEW col,
         Located(s, row, col), ~ (b = "LF" /\ EndsCR(s))
  PROVE  /\ Spot(Append(s, b), row, col, 1, Len(s) + 1)
         /\ SubSeq(Append(s, b), Len(s) + 1, Len(s) + 1) = <<b>>
<1>1. Len(s) \in Nat /\ Len(Append(s, b)) = Len(s) + 1
  BY AppendedByte
<1>2. row = Row(s, Len(s) + 1) /\ col = Col(s, Len(s) + 1)
  BY LocatedPlace
<1>3. Row(Append(s, b), Len(s) + 1) = row /\ Col(Append(s, b), Len(s) + 1) = col
  BY <1>1, <1>2, PlaceStays
<1>4. Spot(Append(s, b), row, col, 1, Len(s) + 1)
  BY <1>1, <1>3 DEF Spot
<1> QED
  BY <1>4, SubSeqLast
-----------------------------------------------------------------------------
(* Numbers.  The value that wraps at every digit is the wrapped value of   *)
(* the whole number.                                                       *)

LEMMA ModParts ==
  ASSUME NEW m \in Nat \ {0}, NEW n \in Nat
  PROVE  n = m * (n \div m) + (n % m) /\ n % m \in 0 .. m - 1 /\ n \div m \in Nat
OBVIOUS

LEMMA ModUnique ==
  ASSUME NEW m \in Nat \ {0}, NEW q \in Nat, NEW r \in 0 .. m - 1
  PROVE  (m * q + r) % m = r
<1> DEFINE n == m * q + r
           k == n \div m
           u == n % m
<1>1. n \in Nat
  OBVIOUS
<1>2. n = m * k + u /\ u \in 0 .. m - 1 /\ k \in Nat
  BY <1>1, ModParts
<1>3. m * q + r = m * k + u
  BY <1>2
<1> HIDE DEF k, u, n
<1>4. CASE k < q
  <2>1. PICK d \in Nat : q = k + 1 + d
    <3>1. q - k - 1 \in Nat /\ q = k + 1 + (q - k - 1)
      BY <1>2, <1>4
    <3> QED
      BY <3>1
  <2>2. m * q = m * k + m + m * d
    BY <1>2, <2>1
  <2>3. m * d \in Nat /\ m * k \in Nat
    BY <1>2, <2>1
  <2> QED
    BY <1>2, <1>3, <2>2, <2>3
<1>5. CASE q < k
  <2>1. PICK d \in Nat : k = q + 1 + d
    <3>1. k - q - 1 \in Nat /\ k = q + 1 + (k - q - 1)
      BY <1>2, <1>5
    <3> QED
      BY <3>1
  <2>2. m * k = m * q + m + m * d
    BY <1>2, <2>1
  <2>3. m * d \in Nat /\ m * q \in Nat
    BY <1>2, <2>1
  <2> QED
    BY <1>2, <1>3, <2>2, <2>3
<1>6. CASE k = q
  <2>1. m * q \in Nat
    OBVIOUS
  <2> QED
    BY <1>2, <1>3, <1>6, <2>1 DEF u, n
<1> QED
  BY <1>2, <1>4, <1>5, <1>6

LEMMA WrapAdds ==
  ASSUME NEW a \in Nat, NEW c \in Nat
  PROVE  Wrap(Wrap(a) + c) = Wrap(a + c)
<1> DEFINE m == UsizeMax + 1
           q == a \div m
           r == a % m
           k == (r + c) \div m
           u == (r + c) % m
<1>1. m \in Nat \ {0}
  BY LexerAssumption
<1> HIDE DEF m
<1>2. a = m * q + r /\ r \in 0 .. m - 1 /\ q \in Nat
  BY <1>1, ModParts
<1> HIDE DEF q, r
<1>3. r + c = m * k + u /\ u \in 0 .. m - 1 /\ k \in Nat
  <2>1. r + c \in Nat
    BY <1>2
  <2> QED
    BY <1>1, <2>1, ModParts
<1> HIDE DEF k
<1>4. a + c = m * (q + k) + u
  <2>1. m * (q + k) = m * q + m * k
    BY <1>1, <1>2, <1>3
  <2> HIDE DEF u
  <2>2. m * q \in Nat /\ m * k \in Nat
    BY <1>1, <1>2, <1>3
  <2> QED
    BY <1>2, <1>3, <2>1, <2>2
<1>5. (a + c) % m = u
  <2>1. q + k \in Nat
    BY <1>2, <1>3
  <2> HIDE DEF u
  <2> QED
    BY <1>1, <1>3, <1>4, <2>1, ModUnique
<1> QED
  BY <1>5 DEF Wrap, m, r, u

LEMMA WrapTen ==
  ASSUME NEW v \in Nat
  PROVE  Wrap(Wrap(v) * 10) = Wrap(10 * v)
<1> DEFINE m == UsizeMax + 1
           q == v \div m
           r == v % m
           k == (r * 10) \div m
           u == (r * 10) % m
<1>1. m \in Nat \ {0}
  BY LexerAssumption
<1> HIDE DEF m
<1>2. v = m * q + r /\ r \in 0 .. m - 1 /\ q \in Nat
  BY <1>1, ModParts
<1> HIDE DEF q, r
<1>3. r * 10 = m * k + u /\ u \in 0 .. m - 1 /\ k \in Nat
  <2>1. r * 10 \in Nat
    BY <1>2
  <2> QED
    BY <1>1, <2>1, ModParts
<1> HIDE DEF k
<1>4. 10 * v = m * (10 * q + k) + u
  <2> HIDE DEF u
  <2>1. m * (10 * q + k) = 10 * (m * q) + m * k
    BY <1>1, <1>2, <1>3
  <2>2. m * q \in Nat /\ m * k \in Nat
    BY <1>1, <1>2, <1>3
  <2> QED
    BY <1>2, <1>3, <2>1, <2>2
<1>5. (10 * v) % m = u
  <2> HIDE DEF u
  <2>1. 10 * q + k \in Nat
    BY <1>2, <1>3
  <2> QED
    BY <1>1, <1>3, <1>4, <2>1, ModUnique
<1> QED
  BY <1>5 DEF Wrap, m, r, u

(* The values of the first n prefixes of w. *)
Valued(w, n, f) ==
  f = [i \in 0 .. n |-> IF i = 0 THEN 0 ELSE 10 * f[i - 1] + DigitVal[w[i]]]

LEMMA ValuesExist ==
  ASSUME NEW w, NEW n \in Nat
  PROVE  \E f : Valued(w, n, f)
<1> DEFINE G == {k \in Nat : \E f : Valued(w, k, f)}
<1>1. 0 \in G
  <2> DEFINE f == [i \in 0 .. 0 |-> 0]
  <2>1. Valued(w, 0, f)
    BY DEF Valued
  <2> QED
    BY <2>1
<1>2. ASSUME NEW k \in Nat, k \in G
      PROVE  k + 1 \in G
  <2>1. PICK f : Valued(w, k, f)
    BY <1>2
  <2> DEFINE last == 10 * f[k] + DigitVal[w[k + 1]]
             g == [i \in 0 .. k + 1 |-> IF i = k + 1 THEN last ELSE f[i]]
             h == [i \in 0 .. k + 1 |-> IF i = 0 THEN 0 ELSE 10 * g[i - 1] + DigitVal[w[i]]]
  <2>2. \A i \in 0 .. k : f[i] = IF i = 0 THEN 0 ELSE 10 * f[i - 1] + DigitVal[w[i]]
    BY <2>1, Zenon DEF Valued
  <2>3. ASSUME NEW i \in 0 .. k + 1
        PROVE  g[i] = IF i = 0 THEN 0 ELSE 10 * g[i - 1] + DigitVal[w[i]]
    <3>1. CASE i = k + 1
      <4>1. g[i] = last /\ i - 1 = k /\ g[k] = f[k] /\ i # 0
        BY <3>1
      <4> QED
        BY <3>1, <4>1
    <3>2. CASE i # k + 1
      <4>1. i \in 0 .. k /\ g[i] = f[i]
        BY <3>2
      <4>2. i # 0 => g[i - 1] = f[i - 1]
        BY <3>2
      <4> HIDE DEF g
      <4> QED
        BY <2>2, <4>1, <4>2
    <3> QED
      BY <3>1, <3>2
  <2>4. g = h
    BY <2>3
  <2> HIDE DEF g
  <2>5. Valued(w, k + 1, g)
    BY <2>4 DEF Valued
  <2> QED
    BY <2>5
<1> HIDE DEF G
<1>3. n \in G
  BY <1>1, <1>2, NatIsAll
<1> QED
  BY <1>3 DEF G

LEMMA DigitValue == \A d \in Digit : DigitVal[d] \in 0 .. 9 /\ d \in Byte
BY LexerAssumption DEF Byte, NameByte

LEMMA DecimalValues ==
  ASSUME NEW w \in Seq(Byte), \A i \in 1 .. Len(w) : w[i] \in Digit
  PROVE  \E f : /\ Decimal(w) = Wrap(f[Len(w)])
                /\ f[0] = 0 /\ \A i \in 0 .. Len(w) : f[i] \in Nat
                /\ \A i \in 1 .. Len(w) : f[i] = 10 * f[i - 1] + DigitVal[w[i]]
<1> DEFINE n == Len(w)
           f == CHOOSE g : Valued(w, n, g)
<1>0. n \in Nat
  OBVIOUS
<1>1. Valued(w, n, f)
  BY <1>0, ValuesExist
<1>2. Decimal(w) = Wrap(f[n])
  BY Zenon DEF Decimal, Valued
<1> HIDE DEF f, n
<1>3. f[0] = 0 /\ \A i \in 1 .. n : f[i] = 10 * f[i - 1] + DigitVal[w[i]]
  <2>1. \A i \in 0 .. n : f[i] = IF i = 0 THEN 0 ELSE 10 * f[i - 1] + DigitVal[w[i]]
    BY <1>1, Zenon DEF Valued
  <2> QED
    BY <1>0, <2>1
<1>4. \A i \in 0 .. n : f[i] \in Nat
  <2> DEFINE G == {i \in 0 .. n : f[i] \in Nat}
  <2>1. 0 \in G
    BY <1>0, <1>3
  <2>2. ASSUME NEW i \in 0 .. n - 1, i \in G
        PROVE  i + 1 \in G
    <3>1. i + 1 \in 1 .. n /\ (i + 1) - 1 = i /\ f[i] \in Nat
      BY <1>0, <2>2
    <3>2. DigitVal[w[i + 1]] \in Nat
      BY <3>1, DigitValue DEF n
    <3>3. f[i + 1] = 10 * f[i] + DigitVal[w[i + 1]]
      BY <1>3, <3>1
    <3>4. f[i + 1] \in Nat
      BY <3>1, <3>2, <3>3
    <3> QED
      BY <3>1, <3>4
  <2> HIDE DEF G
  <2>3. \A i \in 0 .. n : i \in G
    BY <1>0, <2>1, <2>2, UpToAll
  <2> QED
    BY <2>3 DEF G
<1> QED
  BY <1>2, <1>3, <1>4 DEF n

LEMMA DecimalOfDigit ==
  ASSUME NEW d \in Digit
  PROVE  Decimal(<<d>>) = DigitVal[d]
<1> DEFINE w == <<d>>
<1>1. w \in Seq(Byte) /\ Len(w) = 1 /\ w[1] = d
  BY DigitValue
<1> HIDE DEF w
<1>2. PICK f : /\ Decimal(w) = Wrap(f[Len(w)])
               /\ f[0] = 0 /\ \A i \in 0 .. Len(w) : f[i] \in Nat
               /\ \A i \in 1 .. Len(w) : f[i] = 10 * f[i - 1] + DigitVal[w[i]]
  BY <1>1, DecimalValues
<1>3. f[1] = 10 * f[0] + DigitVal[d]
  <2>1. 1 \in 1 .. Len(w) /\ 1 - 1 = 0
    BY <1>1
  <2> QED
    BY <1>1, <1>2, <2>1
<1>4. DigitVal[d] \in 0 .. 9
  BY DigitValue
<1>5. f[1] = DigitVal[d]
  BY <1>2, <1>3, <1>4
<1>6. DigitVal[d] \in 0 .. UsizeMax
  BY <1>4, LexerAssumption
<1>7. Decimal(w) = DigitVal[d]
  BY <1>1, <1>2, <1>5, <1>6, Unwrapped
<1> QED
  BY <1>7 DEF w

(* Reading one more digit. *)
LEMMA DecimalAppended ==
  ASSUME NEW w \in Seq(Byte), \A i \in 1 .. Len(w) : w[i] \in Digit, NEW d \in Digit
  PROVE  Decimal(Append(w, d)) = Wrap(Wrap(Decimal(w) * 10) + DigitVal[d])
<1> DEFINE n == Len(w)
           t == Append(w, d)
<1>0. d \in Byte /\ DigitVal[d] \in Nat
  BY DigitValue
<1>1. /\ t \in Seq(Byte) /\ Len(t) = n + 1 /\ n \in Nat /\ t[n + 1] = d
      /\ \A i \in 1 .. n : t[i] = w[i]
  BY <1>0, AppendedByte
<1> HIDE DEF n, t
<1>2. \A i \in 1 .. Len(t) : t[i] \in Digit
  <2> TAKE i \in 1 .. Len(t)
  <2>1. i = n + 1 \/ i \in 1 .. n
    BY <1>1
  <2> QED
    BY <1>1, <2>1 DEF n
<1>3. PICK f : /\ Decimal(w) = Wrap(f[n])
               /\ f[0] = 0 /\ \A i \in 0 .. n : f[i] \in Nat
               /\ \A i \in 1 .. n : f[i] = 10 * f[i - 1] + DigitVal[w[i]]
  BY DecimalValues DEF n
<1>4. PICK g : /\ Decimal(t) = Wrap(g[Len(t)])
               /\ g[0] = 0 /\ \A i \in 0 .. Len(t) : g[i] \in Nat
               /\ \A i \in 1 .. Len(t) : g[i] = 10 * g[i - 1] + DigitVal[t[i]]
  BY <1>1, <1>2, DecimalValues
<1>5. \A i \in 0 .. n : g[i] = f[i]
  <2> DEFINE G == {i \in 0 .. n : g[i] = f[i]}
  <2>1. 0 \in G
    BY <1>1, <1>3, <1>4
  <2>2. ASSUME NEW i \in 0 .. n - 1, i \in G
        PROVE  i + 1 \in G
    <3>1. i + 1 \in 1 .. n /\ i + 1 \in 1 .. Len(t) /\ (i + 1) - 1 = i /\ g[i] = f[i]
      BY <1>1, <2>2
    <3>2. g[i + 1] = 10 * g[i] + DigitVal[t[i + 1]] /\ f[i + 1] = 10 * f[i] + DigitVal[w[i + 1]]
      BY <1>3, <1>4, <3>1
    <3>3. t[i + 1] = w[i + 1]
      BY <1>1, <3>1
    <3> QED
      BY <3>1, <3>2, <3>3
  <2> HIDE DEF G
  <2>3. \A i \in 0 .. n : i \in G
    BY <1>1, <2>1, <2>2, UpToAll
  <2> QED
    BY <2>3 DEF G
<1>6. g[n + 1] = 10 * f[n] + DigitVal[d] /\ f[n] \in Nat
  <2>1. n + 1 \in 1 .. Len(t) /\ (n + 1) - 1 = n /\ n \in 0 .. n
    BY <1>1
  <2> QED
    BY <1>1, <1>3, <1>4, <1>5, <2>1
<1>7. Decimal(t) = Wrap(10 * f[n] + DigitVal[d])
  BY <1>1, <1>4, <1>6
<1> DEFINE v == f[n]
<1>8. v \in Nat /\ Decimal(t) = Wrap(10 * v + DigitVal[d]) /\ Decimal(w) = Wrap(v)
  BY <1>3, <1>6, <1>7
<1> HIDE DEF v
<1>9. Wrap(Wrap(v) * 10) = Wrap(10 * v)
  BY <1>8, WrapTen
<1>10. Wrap(Wrap(10 * v) + DigitVal[d]) = Wrap(10 * v + DigitVal[d])
  <2>1. 10 * v \in Nat
    BY <1>8
  <2> QED
    BY <1>0, <2>1, WrapAdds
<1> QED
  BY <1>8, <1>9, <1>10 DEF t
-----------------------------------------------------------------------------
(* Tokens in a text.  t is the token of the bytes of s from p on. *)

End(t, p) == p + t.len - 1

HeldAt(s, t, p) ==
  /\ Spot(s, t.row, t.col, t.len, p)
  /\ Says(t, SubSeq(s, p, End(t, p)))
  /\ End(t, p) < Len(s) => Maximal(t, s[End(t, p) + 1])

LEMMA Spellings ==
  /\ Spelling["Assign"] = <<"=">> /\ Spelling["Plus"] = <<"+">> /\ Spelling["Minus"] = <<"-">>
  /\ Spelling["Asterisk"] = <<"*">> /\ Spelling["ForwardSlash"] = <<"/">>
  /\ Spelling["Percent"] = <<"%">> /\ Spelling["Exponent"] = <<"^">>
  /\ Spelling["Equ"] = <<"=", "=">> /\ Spelling["Neq"] = <<"!", "=">>
  /\ Spelling["GreaterThan"] = <<">">> /\ Spelling["Gte"] = <<">", "=">>
  /\ Spelling["LessThan"] = <<"<">> /\ Spelling["Lte"] = <<"<", "=">>
  /\ Spelling["LeftParen"] = <<"(">> /\ Spelling["RightParen"] = <<")">>
  /\ Spelling["LeftBracket"] = <<"[">> /\ Spelling["RightBracket"] = <<"]">>
  /\ Spelling["LeftBrace"] = <<"{">> /\ Spelling["RightBrace"] = <<"}">>
  /\ Spelling["Semicolon"] = <<";">>
BY DEF Spelling

LEMMA Spelled == \A tag \in Symbol : Spelling[tag] # << >>
<1>1. \A x, y : <<x>> # << >> /\ <<x, y>> # << >>
  OBVIOUS
<1> QED
  BY <1>1, Spellings, Zenon DEF Symbol

LEMMA SaysSomething ==
  ASSUME NEW t \in TokenType, NEW w, Says(t, w)
  PROVE  w # << >>
<1>1. CASE t.tag = "StrLit" /\ w = <<"quote">> \o t.str
  <2>1. t.str \in Seq(Byte) /\ <<"quote">> \in Seq(Byte)
    BY DEF TokenType, Byte
  <2> QED
    BY <1>1, <2>1
<1>2. CASE t.tag = "StrLit" /\ w = <<"quote">> \o t.str \o <<"quote">>
  <2>1. t.str \in Seq(Byte) /\ <<"quote">> \in Seq(Byte)
    BY DEF TokenType, Byte
  <2> QED
    BY <1>2, <2>1
<1>3. CASE t.tag \in Symbol /\ w = Spelling[t.tag]
  BY <1>3, Spelled
<1>4. CASE IsName(w) \/ IsNumber(w)
  BY <1>4 DEF IsName, IsNumber
<1> QED
  BY <1>2, <1>3, <1>4 DEF Says

LEMMA HeldWhere ==
  ASSUME NEW s \in Seq(Byte), NEW t \in TokenType, TokenHolds(s, t)
  PROVE  \E p : HeldAt(s, t, p)
<1> DEFINE span == TokenSpan(s, t)
<1>1. /\ Says(t, Read(s, span))
      /\ Max(span) < Len(s) => Maximal(t, s[Max(span) + 1])
  BY Zenon DEF TokenHolds
<1>2. Read(s, span) # << >>
  BY <1>1, SaysSomething
<1>3. t.len \in Nat
  BY DEF TokenType
<1>4. PICK p : Spot(s, t.row, t.col, t.len, p)
  BY <1>2, <1>3, ReadSpot DEF TokenSpan
<1>5. Max(span) = End(t, p) /\ Read(s, span) = SubSeq(s, p, End(t, p))
  BY <1>4, SpotSpan DEF TokenSpan, End
<1> HIDE DEF span
<1> QED
  BY <1>1, <1>4, <1>5 DEF HeldAt

LEMMA HeldHolds ==
  ASSUME NEW s \in Seq(Byte), NEW t, NEW p, HeldAt(s, t, p)
  PROVE  /\ TokenHolds(s, t) /\ TokenSpan(s, t) = p .. End(t, p)
         /\ Max(TokenSpan(s, t)) = End(t, p)
         /\ p \in 1 .. Len(s) /\ End(t, p) \in p .. Len(s)
<1>1. Spot(s, t.row, t.col, t.len, p)
  BY DEF HeldAt
<1>2. /\ TokenSpan(s, t) = p .. End(t, p) /\ Max(TokenSpan(s, t)) = End(t, p)
      /\ Read(s, TokenSpan(s, t)) = SubSeq(s, p, End(t, p))
      /\ p \in 1 .. Len(s) /\ End(t, p) \in p .. Len(s)
  BY <1>1, SpotSpan DEF TokenSpan, End
<1> QED
  BY <1>2 DEF HeldAt, TokenHolds

LEMMA HeldStays ==
  ASSUME NEW s \in Seq(Byte), NEW b \in Byte, NEW t, NEW p, HeldAt(s, t, p),
         End(t, p) = Len(s) => Maximal(t, b)
  PROVE  HeldAt(Append(s, b), t, p)
<1>1. Spot(s, t.row, t.col, t.len, p)
  BY DEF HeldAt
<1>2. Spot(Append(s, b), t.row, t.col, t.len, p)
  BY <1>1, SpotStays
<1>3. p \in 1 .. Len(s) /\ End(t, p) \in p .. Len(s) /\ Len(s) \in Nat
  BY HeldHolds
<1>6. SubSeq(Append(s, b), p, End(t, p)) = SubSeq(s, p, End(t, p))
  <2> DEFINE q == End(t, p)
  <2>1. p \in 1 .. Len(s) /\ q \in p .. Len(s)
    BY <1>3
  <2> HIDE DEF q
  <2>2. SubSeq(Append(s, b), p, q) = SubSeq(s, p, q)
    BY <2>1, SubSeqAppended
  <2> QED
    BY <2>2 DEF q
<1>4. /\ Append(s, b)[Len(s) + 1] = b
      /\ \A i \in 1 .. Len(s) : Append(s, b)[i] = s[i]
  BY AppendedByte
<1>5. Maximal(t, Append(s, b)[End(t, p) + 1])
  <2>1. CASE End(t, p) = Len(s)
    BY <1>4, <2>1
  <2>2. CASE End(t, p) # Len(s)
    <3>1. End(t, p) < Len(s) /\ End(t, p) + 1 \in 1 .. Len(s)
      BY <1>3, <2>2
    <3>2. Maximal(t, s[End(t, p) + 1])
      BY <3>1 DEF HeldAt
    <3> QED
      BY <1>4, <3>1, <3>2
  <2> QED
    BY <2>1, <2>2
<1> QED
  BY <1>2, <1>5, <1>6 DEF HeldAt

Spans(s, toks) == [k \in DOMAIN toks |-> TokenSpan(s, toks[k])]

(* All that a byte does to tokens which it does not belong to. *)
LEMMA TokensStay ==
  ASSUME NEW s \in Seq(Byte), NEW b \in Byte, NEW toks \in Seq(TokenType),
         \A k \in DOMAIN toks :
           /\ TokenHolds(s, toks[k])
           /\ Max(TokenSpan(s, toks[k])) = Len(s) => Maximal(toks[k], b)
  PROVE  /\ \A k \in DOMAIN toks :
              /\ TokenHolds(Append(s, b), toks[k])
              /\ Max(TokenSpan(Append(s, b), toks[k])) # Len(Append(s, b))
         /\ Spans(Append(s, b), toks) = Spans(s, toks)
<1>1. ASSUME NEW k \in DOMAIN toks
      PROVE  /\ TokenHolds(Append(s, b), toks[k])
             /\ Max(TokenSpan(Append(s, b), toks[k])) # Len(Append(s, b))
             /\ TokenSpan(Append(s, b), toks[k]) = TokenSpan(s, toks[k])
  <2> DEFINE t == toks[k]
  <2>1. t \in TokenType
    OBVIOUS
  <2>2. PICK p : HeldAt(s, t, p)
    BY <1>1, <2>1, HeldWhere
  <2>3. End(t, p) = Len(s) => Maximal(t, b)
    BY <1>1, <2>2, HeldHolds
  <2> HIDE DEF t
  <2>4. HeldAt(Append(s, b), t, p)
    BY <2>2, <2>3, HeldStays
  <2>5. Append(s, b) \in Seq(Byte) /\ Len(Append(s, b)) = Len(s) + 1 /\ Len(s) \in Nat
    BY AppendedByte
  <2>6. /\ TokenHolds(Append(s, b), t) /\ TokenSpan(Append(s, b), t) = p .. End(t, p)
        /\ Max(TokenSpan(Append(s, b), t)) = End(t, p)
    BY <2>4, <2>5, HeldHolds
  <2>7. TokenSpan(s, t) = p .. End(t, p) /\ p \in 1 .. Len(s) /\ End(t, p) \in p .. Len(s)
    BY <2>2, HeldHolds
  <2>8. End(t, p) # Len(Append(s, b))
    BY <2>5, <2>7
  <2> QED
    BY <2>6, <2>7, <2>8 DEF t
<1> QED
  BY <1>1 DEF Spans

LEMMA SpansType ==
  ASSUME NEW s \in Seq(Byte), NEW toks \in Seq(TokenType),
         \A k \in DOMAIN toks : TokenHolds(s, toks[k])
  PROVE  Spans(s, toks) \in Seq(SUBSET (1 .. Len(s)))
<1>1. ASSUME NEW k \in DOMAIN toks
      PROVE  TokenSpan(s, toks[k]) \in SUBSET (1 .. Len(s))
  <2> DEFINE t == toks[k]
  <2>1. t \in TokenType
    OBVIOUS
  <2>2. PICK p : HeldAt(s, t, p)
    BY <1>1, <2>1, HeldWhere
  <2> HIDE DEF t
  <2>3. TokenSpan(s, t) = p .. End(t, p) /\ p \in 1 .. Len(s) /\ End(t, p) \in p .. Len(s)
    BY <2>2, HeldHolds
  <2>4. p .. End(t, p) \in SUBSET (1 .. Len(s))
    BY <2>3
  <2> QED
    BY <2>3, <2>4 DEF t
<1>2. DOMAIN toks = 1 .. Len(toks) /\ Len(toks) \in Nat
  OBVIOUS
<1> QED
  BY <1>1, <1>2 DEF Spans

LEMMA SpansAppended ==
  ASSUME NEW s, NEW toks \in Seq(TokenType), NEW t \in TokenType,
         NEW N, Spans(s, toks) \in Seq(N), TokenSpan(s, t) \in N
  PROVE  Spans(s, Append(toks, t)) = Append(Spans(s, toks), TokenSpan(s, t))
<1> DEFINE n == Len(toks)
           X == Spans(s, toks)
           f == Append(X, TokenSpan(s, t))
           g == Spans(s, Append(toks, t))
<1>1. /\ DOMAIN toks = 1 .. n /\ n \in Nat /\ DOMAIN Append(toks, t) = 1 .. n + 1
      /\ Append(toks, t)[n + 1] = t /\ \A k \in 1 .. n : Append(toks, t)[k] = toks[k]
  OBVIOUS
<1>2. X = [k \in 1 .. n |-> TokenSpan(s, toks[k])]
  BY <1>1 DEF Spans
<1>3. X \in Seq(N) /\ Len(X) = n
  <2>1. X \in Seq(N) /\ DOMAIN X = 1 .. n
    BY <1>2
  <2> HIDE DEF X
  <2> QED
    BY <1>1, <2>1
<1> HIDE DEF X
<1>4. /\ f \in Seq(N) /\ DOMAIN f = 1 .. n + 1 /\ f[n + 1] = TokenSpan(s, t)
      /\ \A k \in 1 .. n : f[k] = X[k]
  BY <1>1, <1>3
<1>5. f = [k \in 1 .. n + 1 |-> f[k]]
  <2> HIDE DEF f
  <2> QED
    BY <1>4
<1>6. g = [k \in 1 .. n + 1 |-> TokenSpan(s, Append(toks, t)[k])]
  BY <1>1 DEF Spans
<1> HIDE DEF f, n
<1>7. \A k \in 1 .. n + 1 : f[k] = TokenSpan(s, Append(toks, t)[k])
  <2> TAKE k \in 1 .. n + 1
  <2>1. k = n + 1 \/ k \in 1 .. n
    BY <1>1
  <2> QED
    BY <1>1, <1>2, <1>4, <2>1
<1>8. f = g
  BY <1>5, <1>6, <1>7
<1> QED
  BY <1>8 DEF f, X

-----------------------------------------------------------------------------
(* What covers a text, as it grows. *)

LEMMA AppendIsConcat ==
  ASSUME NEW S, NEW X \in Seq(S), NEW e
  PROVE  X \o <<e>> = Append(X, e) /\ X \o << >> = X
OBVIOUS

LEMMA CoversBlank ==
  ASSUME NEW s \in Seq(Byte), NEW b \in Byte \intersect Blank, NEW X, Covers(s, X)
  PROVE  Covers(Append(s, b), X)
<1> DEFINE t == Append(s, b)
<1>1. /\ Len(t) = Len(s) + 1 /\ Len(s) \in Nat /\ t[Len(s) + 1] = b
      /\ \A i \in 1 .. Len(s) : t[i] = s[i]
  BY AppendedByte
<1> HIDE DEF t
<1>2. \A i \in 1 .. Len(t) : i \in 1 .. Len(s) \/ i = Len(s) + 1
  BY <1>1
<1>3. \A i \in 1 .. Len(t) : t[i] \notin Blank => \E k \in DOMAIN X : i \in X[k]
  BY <1>1, <1>2 DEF Covers
<1> QED
  BY <1>3 DEF Covers, t

LEMMA CoversNew ==
  ASSUME NEW s \in Seq(Byte), NEW b \in Byte, NEW X \in Seq(SUBSET (1 .. Len(s))), Covers(s, X)
  PROVE  Covers(Append(s, b), Append(X, Len(s) + 1 .. Len(s) + 1))
<1> DEFINE t == Append(s, b)
           n == Len(s)
           m == Len(X)
           P == n + 1 .. n + 1
           Y == Append(X, P)
<1>1. Len(t) = n + 1 /\ n \in Nat /\ t[n + 1] = b /\ \A i \in 1 .. n : t[i] = s[i]
  BY AppendedByte
<1>2. /\ DOMAIN X = 1 .. m /\ m \in Nat /\ DOMAIN Y = 1 .. m + 1 /\ Y[m + 1] = P
      /\ \A k \in 1 .. m : Y[k] = X[k] /\ X[k] \in SUBSET (1 .. n)
  OBVIOUS
<1>3. n + 1 \in P /\ \A a \in P : a = n + 1
  BY <1>1
<1> HIDE DEF t, n, m, P, Y
<1>4. ASSUME NEW j \in DOMAIN Y, NEW k \in DOMAIN Y, j < k, NEW a \in Y[j], NEW c \in Y[k]
      PROVE  a < c
  <2>1. j \in 1 .. m /\ (k \in 1 .. m \/ k = m + 1)
    BY <1>2, <1>4
  <2>2. CASE k \in 1 .. m
    BY <1>2, <1>4, <2>1, <2>2 DEF Covers
  <2>3. CASE k = m + 1
    <3>1. a \in 1 .. n /\ c = n + 1
      BY <1>2, <1>3, <1>4, <2>1, <2>3
    <3> QED
      BY <1>1, <3>1
  <2> QED
    BY <2>1, <2>2, <2>3
<1>5. ASSUME NEW i \in 1 .. Len(t), t[i] \notin Blank
      PROVE  \E k \in DOMAIN Y : i \in Y[k]
  <2>1. i \in 1 .. n \/ i = n + 1
    BY <1>1
  <2>2. CASE i \in 1 .. n
    <3>1. PICK k \in DOMAIN X : i \in X[k]
      BY <1>1, <1>5, <2>2 DEF Covers, n
    <3> QED
      BY <1>2, <3>1
  <2>3. CASE i = n + 1
    <3>1. m + 1 \in DOMAIN Y
      BY <1>2
    <3> QED
      BY <1>2, <1>3, <2>3, <3>1
  <2> QED
    BY <2>1, <2>2, <2>3
<1>6. Covers(t, Y)
  BY <1>4, <1>5 DEF Covers
<1> QED
  BY <1>6 DEF t, Y, P, n

LEMMA CoversGrows ==
  ASSUME NEW s \in Seq(Byte), NEW b \in Byte, NEW X \in Seq(SUBSET (1 .. Len(s))),
         NEW p \in 1 .. Len(s), Covers(s, Append(X, p .. Len(s)))
  PROVE  Covers(Append(s, b), Append(X, p .. Len(s) + 1))
<1> DEFINE t == Append(s, b)
           n == Len(s)
           m == Len(X)
           P == p .. n
           Q == p .. n + 1
           Y == Append(X, P)
           Z == Append(X, Q)
<1>1. Len(t) = n + 1 /\ n \in Nat /\ t[n + 1] = b /\ \A i \in 1 .. n : t[i] = s[i]
  BY AppendedByte
<1>2. /\ DOMAIN X = 1 .. m /\ m \in Nat
      /\ \A k \in 1 .. m : X[k] \in SUBSET (1 .. n)
      /\ DOMAIN Y = 1 .. m + 1 /\ Y[m + 1] = P /\ \A k \in 1 .. m : Y[k] = X[k]
      /\ DOMAIN Z = 1 .. m + 1 /\ Z[m + 1] = Q /\ \A k \in 1 .. m : Z[k] = X[k]
  OBVIOUS
<1>3. n + 1 \in Q /\ \A a : a \in Q <=> a \in P \/ a = n + 1
  BY <1>1
<1>4. Covers(s, Y)
  OBVIOUS
<1> HIDE DEF t, n, m, P, Q, Y, Z
<1>5. ASSUME NEW j \in DOMAIN Z, NEW k \in DOMAIN Z, j < k, NEW a \in Z[j], NEW c \in Z[k]
      PROVE  a < c
  <2>1. j \in 1 .. m /\ j \in DOMAIN Y /\ k \in DOMAIN Y /\ (k \in 1 .. m \/ k = m + 1)
    BY <1>2, <1>5
  <2>2. CASE k \in 1 .. m
    BY <1>2, <1>4, <1>5, <2>1, <2>2 DEF Covers
  <2>3. CASE k = m + 1 /\ c \in P
    BY <1>2, <1>4, <1>5, <2>1, <2>3 DEF Covers
  <2>4. CASE k = m + 1 /\ c = n + 1
    <3>1. a \in 1 .. n
      BY <1>2, <1>5, <2>1
    <3> QED
      BY <1>1, <2>4, <3>1
  <2> QED
    BY <1>2, <1>3, <1>5, <2>1, <2>2, <2>3, <2>4
<1>6. ASSUME NEW i \in 1 .. Len(t), t[i] \notin Blank
      PROVE  \E k \in DOMAIN Z : i \in Z[k]
  <2>1. i \in 1 .. n \/ i = n + 1
    BY <1>1
  <2>2. CASE i \in 1 .. n
    <3>1. PICK k \in DOMAIN Y : i \in Y[k]
      BY <1>1, <1>4, <1>6, <2>2 DEF Covers, n
    <3>2. k \in 1 .. m \/ k = m + 1
      BY <1>2
    <3> QED
      BY <1>2, <1>3, <3>1, <3>2
  <2>3. CASE i = n + 1
    <3>1. m + 1 \in DOMAIN Z
      BY <1>2
    <3> QED
      BY <1>2, <1>3, <2>3, <3>1
  <2> QED
    BY <2>1, <2>2, <2>3
<1>7. Covers(t, Z)
  BY <1>5, <1>6 DEF Covers
<1> QED
  BY <1>7 DEF t, Z, Q, n
-----------------------------------------------------------------------------
(* Lossless.  The strengthening: a token at the end of the text is as long *)
(* as it can be whatever comes, or the call is about to look at a byte     *)
(* that it cannot take.                                                    *)

Settled(t) ==
  t.tag \notin Keyword \union {"Name", "NumLit", "Assign", "GreaterThan", "LessThan"}

Tight ==
  \A k \in DOMAIN seq :
    Max(TokenSpan(text, seq[k])) = Len(text) =>
      Settled(seq[k]) \/ (pc = "feed" /\ todo # << >> /\ Maximal(seq[k], Head(todo)))

SInv == Lossless /\ (ret => Tight)

(* What the machine in state st with sr and nm knows of the bytes w. *)
Word(st, sr, nm, w) ==
  /\ st = "Name" => IsName(w) /\ sr = w
  /\ st = "NumLit" => IsNumber(w) /\ nm = Decimal(w)
  /\ st = "StrLit" => IsStringBody(sr) /\ w = <<"quote">> \o sr
  /\ st \in {"AssignOrEqu", "Neq", "RightBraceOrGte", "LeftBraceOrLte"} =>
       w \in {<<c>> : c \in Operator} /\ OperatorStat(w[1]) = st

(* Between the byte that FeedByte looks at and the answer. *)
Scanning == Working /\ SInv /\ pc = "feed" /\ todo # << >>

LEMMA SettledMaximal ==
  ASSUME NEW t, Settled(t), NEW b
  PROVE  Maximal(t, b)
BY DEF Settled, Maximal

LEMMA WorkingFacts ==
  ASSUME Working, SInv
  PROVE  /\ ret /\ text \in Seq(Byte) /\ Len(text) \in Nat
         /\ tok \in Position /\ str \in Seq(Byte) /\ stat \in FsmStat
         /\ seq \in Seq(TokenType)
         /\ \A k \in DOMAIN seq : TokenHolds(text, seq[k]) /\ seq[k] \in TokenType
         /\ Tight
         /\ Reading => PendingHolds
         /\ Spans(text, seq) \in Seq(SUBSET (1 .. Len(text)))
         /\ Covers(text, Spans(text, seq) \o (IF Reading THEN <<PendingSpan>> ELSE << >>))
<1>1. /\ ret /\ text \in Seq(Byte) /\ Len(text) \in Nat /\ tok \in Position
      /\ str \in Seq(Byte) /\ seq \in Seq(TokenType) /\ stat \in FsmStat
  BY WorkingClean, TypeSplit DEF Working, MachineOK
<1>2. Lossless /\ Tight
  BY <1>1 DEF SInv
<1>3. \A k \in DOMAIN seq : TokenHolds(text, seq[k])
  BY <1>1, <1>2, Zenon DEF Lossless
<1>4. Reading => PendingHolds
  BY <1>1, <1>2, Zenon DEF Lossless
<1>5. Covers(text, Spans(text, seq) \o (IF Reading THEN <<PendingSpan>> ELSE << >>))
  BY <1>1, <1>2, Zenon DEF Lossless, Spans
<1>6. Spans(text, seq) \in Seq(SUBSET (1 .. Len(text)))
  BY <1>1, <1>3, SpansType
<1>7. \A k \in DOMAIN seq : seq[k] \in TokenType
  BY <1>1
<1> QED
  BY <1>1, <1>2, <1>3, <1>4, <1>5, <1>6, <1>7

LEMMA ScanningFacts ==
  ASSUME Scanning
  PROVE  /\ ret /\ text \in Seq(Byte) /\ Len(text) \in Nat /\ Head(todo) \in Byte
         /\ tok \in Position /\ str \in Seq(Byte) /\ stat \in FsmStat
         /\ seq \in Seq(TokenType)
         /\ \A k \in DOMAIN seq : TokenHolds(text, seq[k]) /\ seq[k] \in TokenType
         /\ Tight
         /\ Reading => PendingHolds
         /\ Spans(text, seq) \in Seq(SUBSET (1 .. Len(text)))
         /\ Covers(text, Spans(text, seq) \o (IF Reading THEN <<PendingSpan>> ELSE << >>))
<1>1. Head(todo) \in Byte
  BY NextByte DEF Scanning
<1> QED
  BY <1>1, WorkingFacts DEF Scanning

(* The lexeme being read. *)
LEMMA PendingWhere ==
  ASSUME Working, SInv, Reading
  PROVE  \E p : /\ Spot(text, tok.row, tok.off, tok.len, p) /\ p + tok.len - 1 = Len(text)
                /\ p \in 1 .. Len(text) /\ PendingSpan = p .. Len(text)
                /\ Word(stat, str, num, SubSeq(text, p, Len(text)))
                /\ SubSeq(text, p, Len(text)) \in Seq(Byte)
                /\ SubSeq(text, p, Len(text)) # << >>
<1> DEFINE w == Read(text, PendingSpan)
<1>1. text \in Seq(Byte) /\ tok \in Position /\ PendingHolds /\ Len(text) \in Nat
  BY WorkingFacts
<1>2. w # << >> /\ Max(PendingSpan) = Len(text) /\ Word(stat, str, num, w)
  BY <1>1 DEF PendingHolds, Word
<1>3. tok.len \in Nat
  BY <1>1 DEF Position
<1>4. PICK p : Spot(text, tok.row, tok.off, tok.len, p)
  BY <1>1, <1>2, <1>3, ReadSpot DEF PendingSpan
<1> DEFINE q == p + tok.len - 1
<1>5. /\ PendingSpan = p .. q /\ p \in 1 .. Len(text) /\ q \in p .. Len(text)
      /\ Max(PendingSpan) = q /\ w = SubSeq(text, p, q)
  BY <1>1, <1>4, SpotSpan DEF PendingSpan
<1> HIDE DEF q, w
<1>6. q = Len(text)
  BY <1>2, <1>5
<1>7. PendingSpan = p .. Len(text) /\ w = SubSeq(text, p, Len(text))
  BY <1>5, <1>6
<1>8. w \in Seq(Byte)
  BY <1>1, <1>5, <1>7
<1> QED
  BY <1>2, <1>4, <1>5, <1>6, <1>7, <1>8 DEF q

LEMMA PendingMade ==
  ASSUME text' \in Seq(Byte), NEW p, Spot(text', tok'.row, tok'.off, tok'.len, p),
         p + tok'.len - 1 = Len(text'),
         SubSeq(text', p, Len(text')) # << >>,
         Word(stat', str', num', SubSeq(text', p, Len(text')))
  PROVE  PendingHolds' /\ PendingSpan' = p .. Len(text')
<1> DEFINE S == Span(text', tok'.row, tok'.off, tok'.len)
<1>1. S = p .. Len(text') /\ Max(S) = Len(text') /\ Read(text', S) = SubSeq(text', p, Len(text'))
  BY SpotSpan
<1>2. PendingSpan' = S
  BY DEF PendingSpan
<1> HIDE DEF S
<1>3. PendingHolds'
  BY <1>1, <1>2 DEF PendingHolds, Word
<1> QED
  BY <1>1, <1>2, <1>3

LEMMA SInvHolds ==
  ASSUME \A k \in DOMAIN seq' : TokenHolds(text', seq'[k]),
         Reading' => PendingHolds',
         Covers(text', Spans(text', seq') \o (IF Reading' THEN <<PendingSpan'>> ELSE << >>)),
         Tight'
  PROVE  SInv'
<1>1. (\A k \in DOMAIN seq : TokenHolds(text, seq[k]))'
  OBVIOUS
<1>2. Lossless'
  BY <1>1, Zenon DEF Lossless, Spans
<1> QED
  BY <1>2 DEF SInv

(* After a byte no older token is at the end of the text. *)
LEMMA OlderStay ==
  ASSUME Scanning,
         NEW t, t = Append(text, Head(todo))
  PROVE  /\ \A k \in DOMAIN seq :
              TokenHolds(t, seq[k]) /\ Max(TokenSpan(t, seq[k])) # Len(t)
         /\ Spans(t, seq) = Spans(text, seq)
         /\ t \in Seq(Byte) /\ Len(t) = Len(text) + 1
<1>1. /\ text \in Seq(Byte) /\ Head(todo) \in Byte /\ seq \in Seq(TokenType) /\ Tight
      /\ \A k \in DOMAIN seq : TokenHolds(text, seq[k])
  BY ScanningFacts
<1>2. ASSUME NEW k \in DOMAIN seq, Max(TokenSpan(text, seq[k])) = Len(text)
      PROVE  Maximal(seq[k], Head(todo))
  BY <1>1, <1>2, SettledMaximal DEF Tight
<1>3. \A k \in DOMAIN seq :
        /\ TokenHolds(text, seq[k])
        /\ Max(TokenSpan(text, seq[k])) = Len(text) => Maximal(seq[k], Head(todo))
  BY <1>1, <1>2
<1>4. /\ \A k \in DOMAIN seq :
           /\ TokenHolds(Append(text, Head(todo)), seq[k])
           /\ Max(TokenSpan(Append(text, Head(todo)), seq[k])) # Len(Append(text, Head(todo)))
      /\ Spans(Append(text, Head(todo)), seq) = Spans(text, seq)
  BY <1>1, <1>3, TokensStay
<1>5. Append(text, Head(todo)) \in Seq(Byte) /\ Len(Append(text, Head(todo))) = Len(text) + 1
  BY <1>1, AppendedByte
<1> QED
  BY <1>4, <1>5
-----------------------------------------------------------------------------
(* What the answers do to tokens. *)

LEMMA SkippedLossless ==
  ASSUME Scanning, ~Reading, ~Reading', Head(todo) \in Blank,
         text' = Append(text, Head(todo)), seq' = seq
  PROVE  SInv'
<1> DEFINE b == Head(todo)
<1>1. /\ text \in Seq(Byte) /\ b \in Byte
      /\ Spans(text, seq) \in Seq(SUBSET (1 .. Len(text)))
      /\ Covers(text, Spans(text, seq) \o << >>)
  BY ScanningFacts
<1>2. /\ \A k \in DOMAIN seq :
           TokenHolds(text', seq[k]) /\ Max(TokenSpan(text', seq[k])) # Len(text')
      /\ Spans(text', seq) = Spans(text, seq)
  BY OlderStay
<1>3. Spans(text, seq) \o << >> = Spans(text, seq)
  BY <1>1, AppendIsConcat
<1>4. Covers(text', Spans(text, seq))
  BY <1>1, <1>3, CoversBlank
<1>5. Covers(text', Spans(text', seq') \o (IF Reading' THEN <<PendingSpan'>> ELSE << >>))
  BY <1>2, <1>3, <1>4
<1>6. Tight'
  BY <1>2 DEF Tight
<1> QED
  BY <1>2, <1>5, <1>6, SInvHolds

(* A byte that Idle consumes as the first of a lexeme, where tok is. *)
LEMMA FirstByte ==
  ASSUME Scanning, stat = "Idle", Head(todo) \notin {"CR", "LF"}
  PROVE  LET t == Append(text, Head(todo))
             n == Len(text) + 1
         IN  /\ Spot(t, tok.row, tok.col, 1, n) /\ Len(t) = n /\ t \in Seq(Byte)
             /\ SubSeq(t, n, n) = <<Head(todo)>>
             /\ Covers(t, Append(Spans(text, seq), n .. n))
             /\ Spans(text, seq) \in Seq(SUBSET (1 .. n)) /\ n .. n \in SUBSET (1 .. n)
<1>1. /\ text \in Seq(Byte) /\ Len(text) \in Nat /\ Head(todo) \in Byte
      /\ Spans(text, seq) \in Seq(SUBSET (1 .. Len(text)))
  BY ScanningFacts
<1>2. Covers(text, Spans(text, seq))
  <2>1. Covers(text, Spans(text, seq) \o << >>)
    BY ScanningFacts DEF Reading
  <2> QED
    BY <1>1, <2>1, AppendIsConcat
<1>3. Located(text, tok.row, tok.col)
  BY DEF Scanning, Working, LInv, PlaceKnown
<1> DEFINE t == Append(text, Head(todo))
           n == Len(text) + 1
<1>4. Spot(t, tok.row, tok.col, 1, n) /\ SubSeq(t, n, n) = <<Head(todo)>>
  BY <1>1, <1>3, SpotBegins
<1>5. Covers(t, Append(Spans(text, seq), n .. n))
  BY <1>1, <1>2, CoversNew
<1>6. Len(t) = n /\ t \in Seq(Byte)
  BY <1>1, AppendedByte
<1>7. Spans(text, seq) \in Seq(SUBSET (1 .. n)) /\ n .. n \in SUBSET (1 .. n)
  <2> HIDE DEF n
  <2>1. n = Len(text) + 1 /\ n \in Nat /\ n >= 1
    BY <1>1 DEF n
  <2>2. SUBSET (1 .. Len(text)) \subseteq SUBSET (1 .. n)
    BY <1>1, <2>1
  <2>3. n .. n \in SUBSET (1 .. n)
    BY <2>1
  <2>4. Spans(text, seq) \in Seq(SUBSET (1 .. n))
    <3> DEFINE X == Spans(text, seq)
               S == SUBSET (1 .. Len(text))
               T == SUBSET (1 .. n)
    <3>1. X \in Seq(S) /\ S \subseteq T
      BY <1>1, <2>2
    <3> HIDE DEF X, S, T
    <3>2. X \in Seq(T)
      BY <3>1
    <3> QED
      BY <3>2 DEF X, T
  <2> QED
    BY <2>3, <2>4
<1> QED
  BY <1>4, <1>5, <1>6, <1>7

LEMMA StartedLossless ==
  ASSUME Scanning, stat = "Idle", Reading', Head(todo) \notin {"CR", "LF"},
         Ok(Head(todo), NewLexeme(tok)), seq' = seq,
         Word(stat', str', num', <<Head(todo)>>)
  PROVE  SInv'
<1> DEFINE b == Head(todo)
           n == Len(text) + 1
<1>1. /\ text' = Append(text, b) /\ tok'.row = tok.row /\ tok'.off = tok.col /\ tok'.len = 1
  <2>1. tok \in Position
    BY ScanningFacts
  <2> QED
    BY <2>1 DEF Ok, NewLexeme, Position
<1>2. /\ Spot(text', tok.row, tok.col, 1, n) /\ Len(text') = n /\ text' \in Seq(Byte)
      /\ SubSeq(text', n, n) = <<b>> /\ n \in Nat
      /\ Covers(text', Append(Spans(text, seq), n .. n))
      /\ Spans(text, seq) \in Seq(SUBSET (1 .. n)) /\ n .. n \in SUBSET (1 .. n)
  BY <1>1, FirstByte, ScanningFacts
<1>3. <<b>> # << >>
  OBVIOUS
<1>4. n + 1 - 1 = n
  BY <1>2
<1> HIDE DEF n
<1>5. PendingHolds' /\ PendingSpan' = n .. n
  BY <1>1, <1>2, <1>3, <1>4, PendingMade
<1>6. /\ \A k \in DOMAIN seq :
           TokenHolds(text', seq[k]) /\ Max(TokenSpan(text', seq[k])) # Len(text')
      /\ Spans(text', seq) = Spans(text, seq)
  BY <1>1, OlderStay
<1>7. Spans(text, seq) \o <<n .. n>> = Append(Spans(text, seq), n .. n)
  BY <1>2, AppendIsConcat
<1>8. Covers(text', Spans(text', seq') \o (IF Reading' THEN <<PendingSpan'>> ELSE << >>))
  BY <1>2, <1>5, <1>6, <1>7
<1>9. Tight'
  BY <1>6 DEF Tight
<1> QED
  BY <1>5, <1>6, <1>8, <1>9, SInvHolds

(* What appending a token to seq does, whatever the step before was. *)
LEMMA PushedLossless ==
  ASSUME Scanning, stat' = "Idle", NEW token \in TokenType, seq' = Append(seq, token),
         text' \in Seq(Byte),
         \A k \in DOMAIN seq : TokenHolds(text', seq[k]),
         NEW p, HeldAt(text', token, p), End(token, p) = Len(text'),
         NEW N, Spans(text', seq) \in Seq(N), p .. Len(text') \in N,
         Covers(text', Append(Spans(text', seq), p .. Len(text'))),
         \A k \in DOMAIN seq' :
           Max(TokenSpan(text', seq'[k])) = Len(text') =>
             \/ Settled(seq'[k])
             \/ pc' = "feed" /\ todo' # << >> /\ Maximal(seq'[k], Head(todo'))
  PROVE  SInv'
<1>1. seq \in Seq(TokenType)
  BY ScanningFacts
<1>2. TokenHolds(text', token) /\ TokenSpan(text', token) = p .. Len(text')
  BY HeldHolds
<1>3. Spans(text', seq') = Append(Spans(text', seq), p .. Len(text'))
  BY <1>1, <1>2, SpansAppended
<1>4. /\ DOMAIN seq' = (DOMAIN seq) \union {Len(seq) + 1}
      /\ seq'[Len(seq) + 1] = token /\ \A k \in DOMAIN seq : seq'[k] = seq[k]
  BY <1>1
<1>5. \A k \in DOMAIN seq' : TokenHolds(text', seq'[k])
  BY <1>2, <1>4
<1>6. ~Reading'
  BY DEF Reading
<1>7. Spans(text', seq') \o << >> = Spans(text', seq')
  <2>1. Append(Spans(text', seq), p .. Len(text')) \in Seq(N)
    OBVIOUS
  <2>2. Spans(text', seq') \in Seq(N)
    BY <1>3, <2>1
  <2> QED
    BY <2>2, AppendIsConcat
<1>8. Covers(text', Spans(text', seq') \o (IF Reading' THEN <<PendingSpan'>> ELSE << >>))
  BY <1>3, <1>6, <1>7
<1>9. Tight'
  BY DEF Tight
<1> QED
  BY <1>5, <1>6, <1>8, <1>9, SInvHolds

(* Only the new token may end where the text ends. *)
LEMMA NewestSettled ==
  ASSUME Scanning, NEW token, Settled(token), seq' = Append(seq, token),
         \A k \in DOMAIN seq : Max(TokenSpan(text', seq[k])) # Len(text')
  PROVE  \A k \in DOMAIN seq' :
           Max(TokenSpan(text', seq'[k])) = Len(text') => Settled(seq'[k])
<1>1. seq \in Seq(TokenType)
  BY ScanningFacts
<1>2. /\ DOMAIN seq' = (DOMAIN seq) \union {Len(seq) + 1}
      /\ seq'[Len(seq) + 1] = token /\ \A k \in DOMAIN seq : seq'[k] = seq[k]
  BY <1>1
<1> QED
  BY <1>2

LEMMA OneByteLossless ==
  ASSUME Scanning, stat = "Idle", stat' = "Idle", Head(todo) \notin {"CR", "LF"},
         text' = Append(text, Head(todo)),
         NEW token \in TokenType, seq' = Append(seq, token),
         token.row = tok.row, token.col = tok.col, token.len = 1,
         Says(token, <<Head(todo)>>), Settled(token)
  PROVE  SInv'
<1> DEFINE b == Head(todo)
           n == Len(text) + 1
<1>1. /\ Spot(text', tok.row, tok.col, 1, n) /\ Len(text') = n /\ text' \in Seq(Byte)
      /\ SubSeq(text', n, n) = <<b>> /\ n \in Nat
      /\ Covers(text', Append(Spans(text, seq), n .. n))
      /\ Spans(text, seq) \in Seq(SUBSET (1 .. n)) /\ n .. n \in SUBSET (1 .. n)
  BY FirstByte, ScanningFacts
<1> HIDE DEF n
<1>2. /\ \A k \in DOMAIN seq :
           TokenHolds(text', seq[k]) /\ Max(TokenSpan(text', seq[k])) # Len(text')
      /\ Spans(text', seq) = Spans(text, seq)
  BY OlderStay
<1>3. End(token, n) = n
  BY <1>1 DEF End
<1>4. HeldAt(text', token, n)
  <2>1. Spot(text', token.row, token.col, token.len, n)
    BY <1>1
  <2>2. Says(token, SubSeq(text', n, End(token, n)))
    BY <1>1, <1>3
  <2>3. ~ (End(token, n) < Len(text'))
    BY <1>1, <1>3
  <2> QED
    BY <2>1, <2>2, <2>3 DEF HeldAt
<1>5. \A k \in DOMAIN seq' :
        Max(TokenSpan(text', seq'[k])) = Len(text') => Settled(seq'[k])
  BY <1>2, NewestSettled
<1>6. Covers(text', Append(Spans(text', seq), n .. Len(text')))
  BY <1>1, <1>2
<1>7. Spans(text', seq) \in Seq(SUBSET (1 .. n)) /\ n .. Len(text') \in SUBSET (1 .. n)
  BY <1>1, <1>2
<1> QED
  BY <1>1, <1>2, <1>3, <1>4, <1>5, <1>6, <1>7, PushedLossless
(* A byte that the lexeme being read takes. *)
LEMMA TakenByte ==
  ASSUME Scanning, Reading, NEW p,
         Spot(text, tok.row, tok.off, tok.len, p), p + tok.len - 1 = Len(text),
         PendingSpan = p .. Len(text)
  PROVE  LET t == Append(text, Head(todo))
             n == Len(text) + 1
         IN  /\ Spot(t, tok.row, tok.off, tok.len + 1, p) /\ p + (tok.len + 1) - 1 = n
             /\ Len(t) = n /\ t \in Seq(Byte)
             /\ SubSeq(t, p, n) = Append(SubSeq(text, p, Len(text)), Head(todo))
             /\ Covers(t, Append(Spans(text, seq), p .. n))
<1>1. /\ text \in Seq(Byte) /\ Len(text) \in Nat /\ Head(todo) \in Byte
      /\ Spans(text, seq) \in Seq(SUBSET (1 .. Len(text)))
  BY ScanningFacts
<1>2. Covers(text, Append(Spans(text, seq), p .. Len(text)))
  <2>1. Covers(text, Spans(text, seq) \o <<p .. Len(text)>>)
    BY ScanningFacts
  <2>2. Spans(text, seq) \o <<p .. Len(text)>> = Append(Spans(text, seq), p .. Len(text))
    BY <1>1, AppendIsConcat
  <2> QED
    BY <2>1, <2>2
<1>3. p \in 1 .. Len(text)
  BY DEF Spot
<1> DEFINE t == Append(text, Head(todo))
           n == Len(text) + 1
<1>4. /\ Spot(t, tok.row, tok.off, tok.len + 1, p) /\ p + (tok.len + 1) - 1 = n
      /\ SubSeq(t, p, n) = Append(SubSeq(text, p, Len(text)), Head(todo))
  <2>1. Spot(t, tok.row, tok.off, tok.len + 1, p) /\ p + (tok.len + 1) - 1 = n
    BY <1>1, SpotGrows
  <2>2. SubSeq(t, p, n) = Append(SubSeq(text, p, Len(text)), Head(todo))
    BY <1>1, <1>3, SubSeqToEnd
  <2> QED
    BY <2>1, <2>2
<1>5. Covers(t, Append(Spans(text, seq), p .. n))
  BY <1>1, <1>2, <1>3, CoversGrows
<1>6. Len(t) = n /\ t \in Seq(Byte)
  BY <1>1, AppendedByte
<1> QED
  BY <1>4, <1>5, <1>6

LEMMA LongerTok ==
  ASSUME Scanning, Head(todo) \notin {"CR", "LF"}, Ok(Head(todo), Longer(tok))
  PROVE  /\ text' = Append(text, Head(todo))
         /\ tok'.row = tok.row /\ tok'.off = tok.off /\ tok'.len = tok.len + 1
<1>1. tok \in Position
  BY ScanningFacts
<1> QED
  BY <1>1 DEF Ok, Longer, Position

LEMMA GrownLossless ==
  ASSUME Scanning, Reading, stat' = stat, Head(todo) \notin {"CR", "LF"},
         Ok(Head(todo), Longer(tok)), seq' = seq,
         \A w \in Seq(Byte) : w # << >> /\ Word(stat, str, num, w) =>
           Word(stat', str', num', Append(w, Head(todo)))
  PROVE  SInv'
<1> DEFINE b == Head(todo)
           n == Len(text) + 1
<1>1. PICK p : /\ Spot(text, tok.row, tok.off, tok.len, p) /\ p + tok.len - 1 = Len(text)
               /\ p \in 1 .. Len(text) /\ PendingSpan = p .. Len(text)
               /\ Word(stat, str, num, SubSeq(text, p, Len(text)))
               /\ SubSeq(text, p, Len(text)) \in Seq(Byte)
               /\ SubSeq(text, p, Len(text)) # << >>
  BY PendingWhere DEF Scanning
<1> DEFINE w == SubSeq(text, p, Len(text))
<1>2. /\ text' = Append(text, b)
      /\ tok'.row = tok.row /\ tok'.off = tok.off /\ tok'.len = tok.len + 1
  BY LongerTok
<1>3. /\ Spot(text', tok.row, tok.off, tok.len + 1, p) /\ p + (tok.len + 1) - 1 = n
      /\ Len(text') = n /\ text' \in Seq(Byte)
      /\ SubSeq(text', p, n) = Append(w, b)
      /\ Covers(text', Append(Spans(text, seq), p .. n))
  BY <1>1, <1>2, TakenByte
<1>4. w \in Seq(Byte) /\ w # << >> /\ Word(stat, str, num, w) /\ b \in Byte
  BY <1>1, ScanningFacts
<1> HIDE DEF n, w, b
<1>5. Append(w, b) # << >>
  BY <1>4
<1>6. Word(stat', str', num', Append(w, b))
  BY <1>4 DEF b
<1>7. PendingHolds' /\ PendingSpan' = p .. n
  BY <1>2, <1>3, <1>5, <1>6, PendingMade
<1>8. /\ \A k \in DOMAIN seq :
           TokenHolds(text', seq[k]) /\ Max(TokenSpan(text', seq[k])) # Len(text')
      /\ Spans(text', seq) = Spans(text, seq)
  BY <1>2, OlderStay DEF b
<1>9. Spans(text, seq) \o <<p .. n>> = Append(Spans(text, seq), p .. n)
  BY ScanningFacts, AppendIsConcat
<1>10. Reading'
  BY DEF Reading
<1>11. Covers(text', Spans(text', seq') \o (IF Reading' THEN <<PendingSpan'>> ELSE << >>))
  BY <1>3, <1>7, <1>8, <1>9, <1>10
<1>12. Tight'
  BY <1>8 DEF Tight
<1> QED
  BY <1>7, <1>8, <1>11, <1>12, SInvHolds

LEMMA EndedLossless ==
  ASSUME Scanning, Reading, stat' = "Idle", Again(tok),
         NEW token \in TokenType, seq' = Append(seq, token),
         token.row = tok.row, token.col = tok.off, token.len = tok.len,
         \A w \in Seq(Byte) : w # << >> /\ Word(stat, str, num, w) => Says(token, w),
         Maximal(token, Head(todo))
  PROVE  SInv'
<1>1. PICK p : /\ Spot(text, tok.row, tok.off, tok.len, p) /\ p + tok.len - 1 = Len(text)
               /\ p \in 1 .. Len(text) /\ PendingSpan = p .. Len(text)
               /\ Word(stat, str, num, SubSeq(text, p, Len(text)))
               /\ SubSeq(text, p, Len(text)) \in Seq(Byte)
               /\ SubSeq(text, p, Len(text)) # << >>
  BY PendingWhere DEF Scanning
<1>2. text' = text /\ todo' = todo /\ pc' = pc
  BY DEF Again, call
<1>3. /\ text \in Seq(Byte) /\ Len(text) \in Nat /\ seq \in Seq(TokenType) /\ Tight
      /\ Spans(text, seq) \in Seq(SUBSET (1 .. Len(text)))
      /\ \A k \in DOMAIN seq : TokenHolds(text, seq[k])
      /\ Covers(text, Spans(text, seq) \o <<PendingSpan>>)
  BY ScanningFacts
<1>4. End(token, p) = Len(text)
  BY <1>1 DEF End
<1>5. HeldAt(text, token, p)
  <2>1. Spot(text, token.row, token.col, token.len, p)
    BY <1>1
  <2>2. Says(token, SubSeq(text, p, Len(text)))
    BY <1>1
  <2>3. Says(token, SubSeq(text, p, End(token, p)))
    BY <1>4, <2>2
  <2>4. ~ (End(token, p) < Len(text))
    BY <1>3, <1>4
  <2> QED
    BY <2>1, <2>3, <2>4 DEF HeldAt
<1>6. Covers(text, Append(Spans(text, seq), p .. Len(text)))
  <2>1. Covers(text, Spans(text, seq) \o <<p .. Len(text)>>)
    BY <1>1, <1>3
  <2>2. Spans(text, seq) \o <<p .. Len(text)>> = Append(Spans(text, seq), p .. Len(text))
    BY <1>3, AppendIsConcat
  <2> QED
    BY <2>1, <2>2
<1>7. p .. Len(text) \in SUBSET (1 .. Len(text))
  BY <1>1, <1>3
<1>8. \A k \in DOMAIN seq' :
        Max(TokenSpan(text', seq'[k])) = Len(text') =>
          \/ Settled(seq'[k])
          \/ pc' = "feed" /\ todo' # << >> /\ Maximal(seq'[k], Head(todo'))
  <2>1. /\ DOMAIN seq' = (DOMAIN seq) \union {Len(seq) + 1}
        /\ seq'[Len(seq) + 1] = token /\ \A k \in DOMAIN seq : seq'[k] = seq[k]
    BY <1>3
  <2>2. \A k \in DOMAIN seq :
          Max(TokenSpan(text', seq'[k])) = Len(text') =>
            \/ Settled(seq'[k])
            \/ pc' = "feed" /\ todo' # << >> /\ Maximal(seq'[k], Head(todo'))
    BY <1>2, <1>3, <2>1 DEF Tight
  <2>3. pc' = "feed" /\ todo' # << >> /\ Maximal(token, Head(todo'))
    BY <1>2 DEF Scanning
  <2> QED
    BY <2>1, <2>2, <2>3
<1> QED
  BY <1>2, <1>3, <1>4, <1>5, <1>6, <1>7, <1>8, PushedLossless

LEMMA ClosedLossless ==
  ASSUME Scanning, Reading, stat' = "Idle", Head(todo) \notin {"CR", "LF"},
         Ok(Head(todo), Longer(tok)),
         NEW token \in TokenType, seq' = Append(seq, token),
         token.row = tok.row, token.col = tok.off, token.len = tok.len + 1,
         \A w \in Seq(Byte) :
           w # << >> /\ Word(stat, str, num, w) => Says(token, Append(w, Head(todo))),
         Settled(token)
  PROVE  SInv'
<1> DEFINE b == Head(todo)
           n == Len(text) + 1
<1>1. PICK p : /\ Spot(text, tok.row, tok.off, tok.len, p) /\ p + tok.len - 1 = Len(text)
               /\ p \in 1 .. Len(text) /\ PendingSpan = p .. Len(text)
               /\ Word(stat, str, num, SubSeq(text, p, Len(text)))
               /\ SubSeq(text, p, Len(text)) \in Seq(Byte)
               /\ SubSeq(text, p, Len(text)) # << >>
  BY PendingWhere DEF Scanning
<1> DEFINE w == SubSeq(text, p, Len(text))
<1>2. text' = Append(text, b)
  BY LongerTok
<1>3. /\ Spot(text', tok.row, tok.off, tok.len + 1, p) /\ p + (tok.len + 1) - 1 = n
      /\ Len(text') = n /\ text' \in Seq(Byte)
      /\ SubSeq(text', p, n) = Append(w, b)
      /\ Covers(text', Append(Spans(text, seq), p .. n))
  BY <1>1, <1>2, TakenByte
<1>4. /\ \A k \in DOMAIN seq :
           TokenHolds(text', seq[k]) /\ Max(TokenSpan(text', seq[k])) # Len(text')
      /\ Spans(text', seq) = Spans(text, seq)
  BY <1>2, OlderStay
<1>5. Says(token, Append(w, b))
  BY <1>1
<1>6. /\ Spans(text, seq) \in Seq(SUBSET (1 .. Len(text))) /\ Len(text) \in Nat
      /\ p \in Nat /\ p >= 1
  BY <1>1, ScanningFacts
<1> HIDE DEF w, b
<1>7. End(token, p) = n
  BY <1>3 DEF End
<1>8. HeldAt(text', token, p)
  <2>0. n \in Nat
    BY <1>6
  <2> HIDE DEF n
  <2>1. Spot(text', token.row, token.col, token.len, p)
    BY <1>3
  <2>2. Says(token, SubSeq(text', p, End(token, p)))
    BY <1>3, <1>5, <1>7
  <2>3. ~ (End(token, p) < Len(text'))
    BY <1>3, <1>7, <2>0
  <2> QED
    BY <2>1, <2>2, <2>3 DEF HeldAt
<1>9. \A k \in DOMAIN seq' :
        Max(TokenSpan(text', seq'[k])) = Len(text') => Settled(seq'[k])
  BY <1>4, NewestSettled
<1>10. Spans(text', seq) \in Seq(SUBSET Nat) /\ p .. Len(text') \in SUBSET Nat
  <2>1. p .. Len(text') \in SUBSET Nat
    BY <1>3, <1>6
  <2> DEFINE X == Spans(text, seq)
             S == SUBSET (1 .. Len(text))
             T == SUBSET Nat
  <2>2. X \in Seq(S) /\ S \subseteq T
    BY <1>6
  <2>3. X \in Seq(T)
    <3> HIDE DEF X, S, T
    <3> QED
      BY <2>2
  <2> QED
    BY <1>4, <2>1, <2>3
<1>11. Covers(text', Append(Spans(text', seq), p .. Len(text')))
  BY <1>3, <1>4
<1> QED
  BY <1>3, <1>4, <1>7, <1>8, <1>9, <1>10, <1>11, PushedLossless
-----------------------------------------------------------------------------
(* What tokens say of the words they are made from. *)

LEMMA NameSays ==
  ASSUME NEW w \in Seq(Byte), IsName(w), NEW t, t.tag = NameToKeyword(w),
         t.str = IF t.tag = "Name" THEN w ELSE << >>
  PROVE  Says(t, w)
<1> DEFINE n == Len(w)
           row == KwTokMap[n]
           P(e) == SubSeq(e.str, 1, n) = w
<1>1. n \in Nat /\ n # 0 /\ SubSeq(w, 1, n) = w
  BY DEF IsName
<1>2. DOMAIN KwTokMap = 0 .. MaxKwTokLen /\ MaxKwTokLen \in Nat
  BY KeywordAssumption
<1>3. \A m \in 0 .. MaxKwTokLen : \A e \in KwTokMap[m] :
        e \in [str : Seq(Letter), tag : Keyword] /\ e \in KeywordEntries
  BY <1>2, KeywordAssumption DEF KeywordEntries
<1>4. CASE n \in 1 .. MaxKwTokLen /\ \E e \in row : P(e)
  <2> DEFINE e == CHOOSE d \in row : P(d)
  <2>1. e \in row /\ P(e)
    BY <1>4
  <2>2. NameToKeyword(w) = e.tag
    BY <1>4 DEF NameToKeyword
  <2> HIDE DEF e
  <2>3. e \in [str : Seq(Letter), tag : Keyword] /\ e \in KeywordEntries
    BY <1>3, <1>4, <2>1
  <2>4. IsMisfiled(w) \/ [str |-> w, tag |-> e.tag] \in KeywordEntries
    <3>1. CASE Len(e.str) = n
      <4>1. e.str = w
        <5>1. SubSeq(e.str, 1, Len(e.str)) = e.str
          BY <2>3
        <5> QED
          BY <2>1, <3>1, <5>1
      <4>2. e = [str |-> w, tag |-> e.tag]
        BY <2>3, <4>1
      <4> QED
        BY <2>3, <4>2
    <3>2. CASE Len(e.str) # n
      <4>1. w \in {e.str, SubSeq(e.str, 1, n)}
        BY <2>1
      <4>2. n \in DOMAIN KwTokMap
        BY <1>2, <1>4
      <4> QED
        BY <2>1, <3>2, <4>1, <4>2 DEF IsMisfiled
    <3> QED
      BY <3>1, <3>2
  <2> QED
    BY <2>2, <2>3, <2>4 DEF Says
<1>5. CASE ~(n \in 1 .. MaxKwTokLen /\ \E e \in row : P(e))
  <2>1. NameToKeyword(w) = "Name"
    BY <1>5 DEF NameToKeyword
  <2>2. ASSUME NEW e \in KeywordEntries, e.str = w, ~IsMisfiled(w)
        PROVE  FALSE
    <3>1. PICK m \in 0 .. MaxKwTokLen : e \in KwTokMap[m]
      BY <1>2 DEF KeywordEntries
    <3>2. CASE Len(e.str) = m
      BY <1>1, <1>2, <1>5, <2>2, <3>1, <3>2
    <3>3. CASE Len(e.str) # m
      BY <1>2, <2>2, <3>1, <3>3 DEF IsMisfiled
    <3> QED
      BY <3>2, <3>3
  <2> QED
    BY <2>1, <2>2 DEF Says
<1> QED
  BY <1>4, <1>5

LEMMA KeywordTag ==
  ASSUME NEW name \in Seq(Byte)
  PROVE  NameToKeyword(name) \in Keyword \union {"Name"}
<1> DEFINE P(e) == SubSeq(e.str, 1, Len(name)) = name
           row == KwTokMap[Len(name)]
<1>1. CASE Len(name) \in 1 .. MaxKwTokLen /\ \E e \in row : P(e)
  <2>1. row \subseteq [str : Seq(Letter), tag : Keyword]
    BY <1>1, KeywordAssumption
  <2>2. (CHOOSE e \in row : P(e)) \in row
    BY <1>1
  <2>3. (CHOOSE e \in row : P(e)).tag \in Keyword
    BY <2>1, <2>2
  <2> QED
    BY <1>1, <2>3 DEF NameToKeyword
<1>2. CASE ~(Len(name) \in 1 .. MaxKwTokLen /\ \E e \in row : P(e))
  BY <1>2 DEF NameToKeyword
<1> QED
  BY <1>1, <1>2

LEMMA NameTokenSays ==
  ASSUME stat = "Name", str \in Seq(Byte), NEW w, Word(stat, str, num, w)
  PROVE  Says(NameToken, w)
<1>1. w = str /\ IsName(str)
  BY DEF Word
<1>2. /\ NameToken.tag = NameToKeyword(str)
      /\ NameToken.str = IF NameToken.tag = "Name" THEN str ELSE << >>
  BY DEF NameToken, Token
<1> QED
  BY <1>1, <1>2, NameSays

LEMMA NumberTokenSays ==
  ASSUME stat = "NumLit", NEW w, Word(stat, str, num, w)
  PROVE  Says(NumberToken, w)
<1>1. NumberToken.tag = "NumLit" /\ NumberToken.val = num
  BY DEF NumberToken, Token
<1> QED
  BY <1>1 DEF Word, Says

(* The words of one byte. *)
LEMMA SymbolSays ==
  ASSUME NEW tag \in Symbol, NEW t, NEW w, w = Spelling[tag]
  PROVE  Says(NormalToken(tag, t), w)
BY DEF NormalToken, Token, Says

LEMMA PunctSpelled ==
  ASSUME NEW b \in Punct
  PROVE  /\ Spelling[PunctTag(b)] = <<b>> /\ PunctTag(b) \in Symbol
         /\ PunctTag(b) \notin Keyword \union {"Name", "NumLit", "Assign", "GreaterThan", "LessThan"}
<1>1. Spelling[PunctTag(b)] = <<b>>
  <2>1. /\ b = "(" => PunctTag(b) = "LeftParen"
        /\ b = ")" => PunctTag(b) = "RightParen"
        /\ b = "[" => PunctTag(b) = "LeftBracket"
        /\ b = "]" => PunctTag(b) = "RightBracket"
        /\ b = "{" => PunctTag(b) = "LeftBrace"
        /\ b = "}" => PunctTag(b) = "RightBrace"
        /\ b = "+" => PunctTag(b) = "Plus"
        /\ b = "-" => PunctTag(b) = "Minus"
        /\ b = "*" => PunctTag(b) = "Asterisk"
        /\ b = "/" => PunctTag(b) = "ForwardSlash"
        /\ b = "%" => PunctTag(b) = "Percent"
        /\ b = "^" => PunctTag(b) = "Exponent"
        /\ b = ";" => PunctTag(b) = "Semicolon"
    BY DEF PunctTag
  <2>2. b \in {"(", ")", "[", "]", "{", "}", "+", "-", "*", "/", "%", "^", ";"}
    BY DEF Punct
  <2> QED
    BY <2>1, <2>2, Spellings
<1>2. PunctTag(b) \in Symbol
  BY PunctTagTyped
<1>3. PunctTag(b) \notin Keyword \union {"Name", "NumLit", "Assign", "GreaterThan", "LessThan"}
  BY DEF Punct, PunctTag, Keyword
<1> QED
  BY <1>1, <1>2, <1>3

LEMMA OperatorWord ==
  ASSUME stat \in {"AssignOrEqu", "Neq", "RightBraceOrGte", "LeftBraceOrLte"},
         NEW w, Word(stat, str, num, w)
  PROVE  /\ stat = "AssignOrEqu" => w = <<"=">>
         /\ stat = "Neq" => w = <<"!">>
         /\ stat = "RightBraceOrGte" => w = <<">">>
         /\ stat = "LeftBraceOrLte" => w = <<"<">>
<1>1. w \in {<<c>> : c \in Operator} /\ OperatorStat(w[1]) = stat
  BY DEF Word
<1>2. PICK c \in Operator : w = <<c>>
  BY <1>1
<1>3. OperatorStat(c) = stat
  BY <1>1, <1>2
<1>4. c \in {"=", "!", ">", "<"}
  BY DEF Operator
<1>5. /\ stat = "AssignOrEqu" => c = "="
      /\ stat = "Neq" => c = "!"
      /\ stat = "RightBraceOrGte" => c = ">"
      /\ stat = "LeftBraceOrLte" => c = "<"
  BY <1>3, <1>4 DEF OperatorStat
<1> QED
  BY <1>2, <1>5

(* The words of a state, begun and continued. *)
LEMMA WordBegins ==
  ASSUME NEW b \in Byte
  PROVE  /\ b \in Digit => Word("NumLit", str, DigitVal[b], <<b>>)
         /\ b \in Letter => Word("Name", <<b>>, num, <<b>>)
         /\ b = "quote" => Word("StrLit", << >>, num, <<b>>)
         /\ b \in Operator => Word(OperatorStat(b), str, num, <<b>>)
<1>1. /\ <<b>> # << >> /\ Len(<<b>>) = 1 /\ <<b>>[1] = b
      /\ \A i \in 1 .. 1 : i = 1
  OBVIOUS
<1>2. b \in Digit => Word("NumLit", str, DigitVal[b], <<b>>)
  <2>1. b \in Digit => IsNumber(<<b>>) /\ Decimal(<<b>>) = DigitVal[b]
    BY <1>1, DecimalOfDigit DEF IsNumber
  <2> QED
    BY <2>1 DEF Word
<1>3. b \in Letter => Word("Name", <<b>>, num, <<b>>)
  <2>1. b \in Letter => IsName(<<b>>)
    BY <1>1 DEF IsName, NameByte
  <2> QED
    BY <2>1 DEF Word
<1>4. b = "quote" => Word("StrLit", << >>, num, <<b>>)
  <2>1. IsStringBody(<< >>) /\ <<"quote">> \o << >> = <<"quote">>
    BY DEF IsStringBody
  <2> QED
    BY <2>1 DEF Word
<1>5. b \in Operator => Word(OperatorStat(b), str, num, <<b>>)
  <2>1. b \in Operator =>
          /\ OperatorStat(b) \in {"AssignOrEqu", "Neq", "RightBraceOrGte", "LeftBraceOrLte"}
          /\ <<b>> \in {<<c>> : c \in Operator} /\ OperatorStat(<<b>>[1]) = OperatorStat(b)
    BY <1>1 DEF Operator, OperatorStat
  <2> QED
    BY <2>1 DEF Word
<1> QED
  BY <1>2, <1>3, <1>4, <1>5

LEMMA WordGrows ==
  ASSUME NEW w \in Seq(Byte), w # << >>, NEW b \in Byte, NEW sr \in Seq(Byte), NEW nm
  PROVE  /\ b \in NameByte /\ Word("Name", sr, nm, w) =>
              Word("Name", Append(sr, b), nm, Append(w, b))
         /\ b \in Digit /\ Word("NumLit", sr, nm, w) =>
              Word("NumLit", sr, Wrap(Wrap(nm * 10) + DigitVal[b]), Append(w, b))
         /\ b \notin {"CR", "LF", "quote"} /\ Word("StrLit", sr, nm, w) =>
              Word("StrLit", Append(sr, b), nm, Append(w, b))
<1> DEFINE v == Append(w, b)
           n == Len(w)
<1>1. /\ n \in Nat /\ Len(v) = n + 1 /\ v[n + 1] = b /\ \A i \in 1 .. n : v[i] = w[i]
  BY AppendedByte
<1>2. n # 0 /\ v # << >>
  BY <1>1
<1>3. \A i \in 1 .. Len(v) : i \in 1 .. n \/ i = n + 1
  BY <1>1
<1>4. v[1] = w[1]
  BY <1>1, <1>2
<1> HIDE DEF v, n
<1>5. b \in NameByte /\ IsName(w) => IsName(v)
  BY <1>1, <1>2, <1>3, <1>4 DEF IsName, n
<1>6. b \in Digit /\ IsNumber(w) => IsNumber(v)
  BY <1>1, <1>2, <1>3 DEF IsNumber, n
<1>7. b \in Digit /\ IsNumber(w) => Decimal(v) = Wrap(Wrap(Decimal(w) * 10) + DigitVal[b])
  BY DecimalAppended DEF IsNumber, v
<1>8. b \notin {"CR", "LF", "quote"} /\ IsStringBody(sr) => IsStringBody(Append(sr, b))
  <2>1. /\ Len(sr) \in Nat /\ Len(Append(sr, b)) = Len(sr) + 1
        /\ Append(sr, b)[Len(sr) + 1] = b
        /\ \A i \in 1 .. Len(sr) : Append(sr, b)[i] = sr[i]
    BY AppendedByte
  <2>2. \A i \in 1 .. Len(Append(sr, b)) : i \in 1 .. Len(sr) \/ i = Len(sr) + 1
    BY <2>1
  <2> QED
    BY <2>1, <2>2 DEF IsStringBody
<1>9. <<"quote">> \o Append(sr, b) = Append(<<"quote">> \o sr, b)
  <2>1. <<"quote">> \in Seq(Byte)
    BY DEF Byte
  <2> QED
    BY <2>1
<1>10. b \in NameByte /\ Word("Name", sr, nm, w) => Word("Name", Append(sr, b), nm, v)
  BY <1>5 DEF Word, v
<1>11. b \in Digit /\ Word("NumLit", sr, nm, w) =>
         Word("NumLit", sr, Wrap(Wrap(nm * 10) + DigitVal[b]), v)
  BY <1>6, <1>7 DEF Word
<1>12. b \notin {"CR", "LF", "quote"} /\ Word("StrLit", sr, nm, w) =>
         Word("StrLit", Append(sr, b), nm, v)
  BY <1>8, <1>9 DEF Word, v
<1> QED
  BY <1>10, <1>11, <1>12 DEF v
-----------------------------------------------------------------------------
(* Every handler keeps SInv. *)

LEMMA FailedLossless == ~ret' => SInv'
BY DEF SInv, Lossless

LEMMA ErrorFails ==
  /\ \A type, t : Error(type, t) => ~ret'
  /\ \A t : OutOfMemory(t) => ~ret'
<1>1. \A type, t : Error(type, t) => ~ret'
  BY DEF Error, Return
<1> QED
  BY <1>1 DEF OutOfMemory

LEMMA IdleLossless ==
  ASSUME Scanning, FeedByte_Idle(Head(todo))
  PROVE  SInv'
<1> DEFINE b == Head(todo)
<1>0. stat = "Idle" /\ b \in Byte /\ tok \in Position
  BY ScanningFacts DEF FeedByte_Idle
<1>1. CASE IdleSkips(b)
  <2>1. b \in Blank /\ text' = Append(text, b) /\ seq' = seq /\ stat' \in {"Idle", "CrLf"}
    BY <1>1 DEF IdleSkips, Ok, Blank
  <2>2. ~Reading /\ ~Reading'
    BY <1>0, <2>1 DEF Reading
  <2> QED
    BY <2>1, <2>2, SkippedLossless
<1>2. CASE IdleStartsNumber(b)
  <2>1. b \notin {"CR", "LF"}
    BY <1>2, BytesApart DEF IdleStartsNumber, NameByte
  <2>2. /\ stat' = "NumLit" /\ num' = DigitVal[b] /\ str' = str /\ seq' = seq
        /\ b \in Digit /\ Ok(b, NewLexeme(tok))
    BY <1>2 DEF IdleStartsNumber
  <2>3. Word(stat', str', num', <<b>>)
    BY <1>0, <2>2, WordBegins
  <2>4. Reading'
    BY <2>2 DEF Reading
  <2> QED
    BY <1>0, <2>1, <2>2, <2>3, <2>4, StartedLossless
<1>3. CASE IdleStartsName(b)
  <2>1. b \notin {"CR", "LF"} /\ b \in Letter /\ seq' = seq /\ num' = num
    BY <1>3, BytesApart DEF IdleStartsName, NameByte
  <2>2. CASE OutOfMemory(tok)
    BY <2>2, ErrorFails, FailedLossless
  <2>3. CASE str' = <<b>> /\ stat' = "Name" /\ Ok(b, NewLexeme(tok))
    <3>1. Word(stat', str', num', <<b>>)
      BY <1>0, <2>1, <2>3, WordBegins
    <3>2. Reading'
      BY <2>3 DEF Reading
    <3> QED
      BY <1>0, <2>1, <2>3, <3>1, <3>2, StartedLossless
  <2> QED
    BY <1>3, <2>2, <2>3 DEF IdleStartsName
<1>4. CASE IdleStartsString(b)
  <2>1. /\ stat' = "StrLit" /\ str' = << >> /\ num' = num /\ seq' = seq
        /\ b = "quote" /\ Ok(b, NewLexeme(tok))
    BY <1>4 DEF IdleStartsString
  <2>2. Word(stat', str', num', <<b>>)
    BY <1>0, <2>1, WordBegins
  <2>3. Reading' /\ b \notin {"CR", "LF"}
    BY <2>1 DEF Reading
  <2> QED
    BY <1>0, <2>1, <2>2, <2>3, StartedLossless
<1>5. CASE IdleStartsOperator(b)
  <2>1. /\ stat' = OperatorStat(b) /\ str' = str /\ num' = num /\ seq' = seq
        /\ b \in Operator /\ Ok(b, NewLexeme(tok))
    BY <1>5 DEF IdleStartsOperator
  <2>2. Word(stat', str', num', <<b>>)
    BY <1>0, <2>1, WordBegins
  <2>3. Reading' /\ b \notin {"CR", "LF"}
    BY <2>1, BytesApart DEF Reading, Operator, OperatorStat
  <2> QED
    BY <1>0, <2>1, <2>2, <2>3, StartedLossless
<1>6. CASE IdlePushes(b)
  <2> DEFINE token == NormalToken(PunctTag(b), NewLexeme(tok))
  <2>1. b \in Punct /\ stat' = "Idle"
    BY <1>0, <1>6 DEF IdlePushes
  <2>2. CASE OutOfMemory(NewLexeme(tok))
    BY <2>2, ErrorFails, FailedLossless
  <2>3. CASE seq' = Append(seq, token) /\ Ok(b, NewLexeme(tok))
    <3>1. /\ Spelling[PunctTag(b)] = <<b>> /\ PunctTag(b) \in Symbol
          /\ PunctTag(b) \notin
               Keyword \union {"Name", "NumLit", "Assign", "GreaterThan", "LessThan"}
      BY <2>1, PunctSpelled
    <3>2. token \in TokenType
      BY <1>0, <3>1, PositionType, NormalTokenTyped
    <3>3. Says(token, <<b>>)
      BY <3>1, SymbolSays
    <3>4. token.row = tok.row /\ token.col = tok.col /\ token.len = 1
      BY <1>0 DEF NormalToken, Token, NewLexeme, Position
    <3>5. Settled(token)
      BY <3>1 DEF Settled, NormalToken, Token
    <3>6. b \notin {"CR", "LF"} /\ text' = Append(text, b)
      BY <2>1, <2>3, BytesApart DEF Ok
    <3> HIDE DEF token
    <3> QED
      BY <1>0, <2>1, <2>3, <3>2, <3>3, <3>4, <3>5, <3>6, OneByteLossless
  <2> QED
    BY <1>6, <2>2, <2>3 DEF IdlePushes
<1>7. CASE IdleRejects(b)
  BY <1>7, ErrorFails, FailedLossless DEF IdleRejects
<1> QED
  BY <1>1, <1>2, <1>3, <1>4, <1>5, <1>6, <1>7 DEF FeedByte_Idle

(* A step that neither reads nor pushes. *)
LEMMA SameLossless ==
  ASSUME SInv, TypeOK, UNCHANGED <<seq, text>>, ret' => ret,
         \/ ~Reading /\ ~Reading'
         \/ UNCHANGED <<stat, str, num, tok>>,
         \/ UNCHANGED <<pc, todo>> \/ pc # "feed" \/ todo = << >>
  PROVE  SInv'
<1>1. CASE ~ret'
  BY <1>1, FailedLossless
<1>2. CASE ret'
  <2>1. ret /\ Lossless /\ Tight
    BY <1>2 DEF SInv
  <2>2. /\ \A k \in DOMAIN seq : TokenHolds(text, seq[k])
        /\ Reading => PendingHolds
        /\ Covers(text, Spans(text, seq) \o (IF Reading THEN <<PendingSpan>> ELSE << >>))
    BY <2>1, Zenon DEF Lossless, Spans
  <2>3. \A k \in DOMAIN seq' : TokenHolds(text', seq'[k])
    BY <2>2
  <2>4. Tight'
    BY <2>1 DEF Tight
  <2>5. CASE ~Reading /\ ~Reading'
    <3>1. Covers(text', Spans(text', seq') \o (IF Reading' THEN <<PendingSpan'>> ELSE << >>))
      BY <2>2, <2>5
    <3> QED
      BY <2>3, <2>4, <2>5, <3>1, SInvHolds
  <2>6. CASE UNCHANGED <<stat, str, num, tok>>
    <3>1. Reading' = Reading /\ PendingSpan' = PendingSpan
      BY <2>6 DEF Reading, PendingSpan
    <3>2. PendingHolds' = PendingHolds
      BY <2>6, <3>1 DEF PendingHolds
    <3>3. Covers(text', Spans(text', seq') \o (IF Reading' THEN <<PendingSpan'>> ELSE << >>))
      BY <2>2, <3>1
    <3> QED
      BY <2>2, <2>3, <2>4, <3>1, <3>2, <3>3, SInvHolds
  <2> QED
    BY <2>5, <2>6
<1> QED
  BY <1>1, <1>2 DEF TypeOK

LEMMA CrLfLossless ==
  ASSUME Scanning, FeedByte_CrLf(Head(todo))
  PROVE  SInv'
<1>0. stat = "CrLf" /\ ~Reading
  BY DEF FeedByte_CrLf, Reading
<1>1. CASE Head(todo) = "LF"
  <2>1. /\ Head(todo) \in Blank /\ text' = Append(text, Head(todo)) /\ seq' = seq
        /\ stat' = "Idle"
    BY <1>1 DEF FeedByte_CrLf, Ok, Blank
  <2>2. ~Reading'
    BY <2>1 DEF Reading
  <2> QED
    BY <1>0, <2>1, <2>2, SkippedLossless
<1>2. CASE Head(todo) # "LF"
  <2>1. stat' = "CrLf" /\ UNCHANGED <<seq, text, todo, pc, ret>>
    BY <1>0, <1>2 DEF FeedByte_CrLf, Again, call
  <2>2. ~Reading'
    BY <2>1 DEF Reading
  <2> QED
    BY <1>0, <2>1, <2>2, SameLossless DEF Scanning, Working
<1> QED
  BY <1>1, <1>2

(* A lexeme that ends before or with the byte. *)
LEMMA EndsLossless ==
  ASSUME Scanning, Reading, NEW token \in TokenType,
         token.row = tok.row, token.col = tok.off,
         \/ /\ EndsBefore(token) /\ token.len = tok.len
            /\ \A w \in Seq(Byte) : w # << >> /\ Word(stat, str, num, w) => Says(token, w)
            /\ Maximal(token, Head(todo))
         \/ /\ EndsWith(Head(todo), token) /\ token.len = tok.len + 1
            /\ Head(todo) \notin {"CR", "LF"} /\ Settled(token)
            /\ \A w \in Seq(Byte) :
                 w # << >> /\ Word(stat, str, num, w) => Says(token, Append(w, Head(todo)))
  PROVE  SInv'
<1>1. CASE OutOfMemory(tok) \/ OutOfMemory(Longer(tok))
  BY <1>1, ErrorFails, FailedLossless
<1>2. ASSUME EndsBefore(token), token.len = tok.len, ~OutOfMemory(tok),
             \A w \in Seq(Byte) : w # << >> /\ Word(stat, str, num, w) => Says(token, w),
             Maximal(token, Head(todo))
      PROVE  SInv'
  <2>1. seq' = Append(seq, token) /\ stat' = "Idle" /\ Again(tok)
    BY <1>2 DEF EndsBefore
  <2> QED
    BY <1>2, <2>1, EndedLossless
<1>3. ASSUME EndsWith(Head(todo), token), token.len = tok.len + 1,
             ~OutOfMemory(Longer(tok)),
             Head(todo) \notin {"CR", "LF"}, Settled(token),
             \A w \in Seq(Byte) :
               w # << >> /\ Word(stat, str, num, w) => Says(token, Append(w, Head(todo)))
      PROVE  SInv'
  <2>1. seq' = Append(seq, token) /\ stat' = "Idle" /\ Ok(Head(todo), Longer(tok))
    BY <1>3 DEF EndsWith
  <2> QED
    BY <1>3, <2>1, ClosedLossless
<1> QED
  BY <1>1, <1>2, <1>3

LEMMA NameLossless ==
  ASSUME Scanning, FeedByte_Name(Head(todo))
  PROVE  SInv'
<1> DEFINE b == Head(todo)
<1>0. /\ stat = "Name" /\ Reading /\ b \in Byte /\ tok \in Position /\ str \in Seq(Byte)
      /\ TypeOK
  BY ScanningFacts DEF FeedByte_Name, Reading, Scanning, Working
<1>1. CASE b \notin NameByte
  <2>1. EndsBefore(NameToken)
    BY <1>1 DEF FeedByte_Name
  <2>2. NameToken \in TokenType
    BY <1>0, PushedTokensTyped
  <2>3. NameToken.row = tok.row /\ NameToken.col = tok.off /\ NameToken.len = tok.len
    BY DEF NameToken, Token
  <2>4. \A w \in Seq(Byte) : w # << >> /\ Word(stat, str, num, w) => Says(NameToken, w)
    BY <1>0, NameTokenSays
  <2>5. NameToken.tag \in Keyword \union {"Name"}
    <3>1. CASE NameToken.tag \in Keyword
      BY <3>1
    <3>2. CASE NameToken.tag \notin Keyword
      <4>1. NameToken.tag = NameToKeyword(str)
        BY DEF NameToken, Token
      <4>2. NameToKeyword(str) \in Keyword \union {"Name"}
        BY <1>0, KeywordTag
      <4> QED
        BY <4>1, <4>2
    <3> QED
      BY <3>1, <3>2
  <2>6. Maximal(NameToken, b)
    BY <1>1, <2>5 DEF Maximal, Keyword
  <2> QED
    BY <1>0, <2>1, <2>2, <2>3, <2>4, <2>6, EndsLossless
<1>2. CASE b \in NameByte
  <2>1. b \notin {"CR", "LF"}
    BY <1>2, BytesApart
  <2>2. CASE OutOfMemory(tok)
    BY <2>2, ErrorFails, FailedLossless
  <2>3. CASE ~OutOfMemory(tok)
    <3>1. /\ str' = Append(str, b) /\ Ok(b, Longer(tok))
          /\ stat' = stat /\ num' = num /\ seq' = seq
      BY <1>2, <2>3 DEF FeedByte_Name
    <3>2. \A w \in Seq(Byte) : w # << >> /\ Word(stat, str, num, w) =>
            Word(stat', str', num', Append(w, b))
      BY <1>0, <1>2, <3>1, WordGrows
    <3> QED
      BY <1>0, <2>1, <3>1, <3>2, GrownLossless
  <2> QED
    BY <2>2, <2>3
<1> QED
  BY <1>1, <1>2

LEMMA NumLossless ==
  ASSUME Scanning, FeedByte_Num(Head(todo))
  PROVE  SInv'
<1> DEFINE b == Head(todo)
<1>0. /\ stat = "NumLit" /\ Reading /\ b \in Byte /\ tok \in Position /\ str \in Seq(Byte)
      /\ TypeOK
  BY ScanningFacts DEF FeedByte_Num, Reading, Scanning, Working
<1>1. CASE b \notin Digit
  <2>1. EndsBefore(NumberToken)
    BY <1>1 DEF FeedByte_Num
  <2>2. NumberToken \in TokenType
    BY <1>0, PushedTokensTyped
  <2>3. /\ NumberToken.row = tok.row /\ NumberToken.col = tok.off
        /\ NumberToken.len = tok.len /\ NumberToken.tag = "NumLit"
    BY DEF NumberToken, Token
  <2>4. \A w \in Seq(Byte) : w # << >> /\ Word(stat, str, num, w) => Says(NumberToken, w)
    BY <1>0, NumberTokenSays
  <2>5. Maximal(NumberToken, b)
    BY <1>1, <2>3 DEF Maximal, Keyword
  <2> QED
    BY <1>0, <2>1, <2>2, <2>3, <2>4, <2>5, EndsLossless
<1>2. CASE b \in Digit
  <2>1. b \notin {"CR", "LF"}
    BY <1>2, BytesApart DEF NameByte
  <2>2. /\ num' = Wrap(Wrap(num * 10) + DigitVal[b]) /\ Ok(b, Longer(tok))
        /\ stat' = stat /\ str' = str /\ seq' = seq
    BY <1>2 DEF FeedByte_Num
  <2>3. \A w \in Seq(Byte) : w # << >> /\ Word(stat, str, num, w) =>
          Word(stat', str', num', Append(w, b))
    BY <1>0, <1>2, <2>2, WordGrows
  <2> QED
    BY <1>0, <2>1, <2>2, <2>3, GrownLossless
<1> QED
  BY <1>1, <1>2

LEMMA StrLitLossless ==
  ASSUME Scanning, FeedByte_StrLit(Head(todo))
  PROVE  SInv'
<1> DEFINE b == Head(todo)
<1>0. /\ stat = "StrLit" /\ Reading /\ b \in Byte /\ tok \in Position /\ str \in Seq(Byte)
      /\ TypeOK
  BY ScanningFacts DEF FeedByte_StrLit, Reading, Scanning, Working
<1>1. CASE b \in {"CR", "LF"}
  BY <1>1, ErrorFails, FailedLossless DEF FeedByte_StrLit
<1>2. CASE b = "quote"
  <2> DEFINE token == StringLiteralToken(Longer(tok))
  <2>1. EndsWith(b, token)
    BY <1>2 DEF FeedByte_StrLit
  <2>2. token \in TokenType
    BY <1>0, PositionType, PushedTokensTyped
  <2>3. /\ token.row = tok.row /\ token.col = tok.off /\ token.len = tok.len + 1
        /\ token.tag = "StrLit" /\ token.str = str
    BY <1>0 DEF StringLiteralToken, Token, Longer, Position
  <2>4. Settled(token)
    BY <2>3 DEF Settled, Keyword
  <2>5. ASSUME NEW w \in Seq(Byte), Word(stat, str, num, w)
        PROVE  Says(token, Append(w, b))
    <3>1. IsStringBody(str) /\ w = <<"quote">> \o str
      BY <1>0, <2>5 DEF Word
    <3>2. Append(w, b) = <<"quote">> \o str \o <<"quote">>
      <4>1. <<"quote">> \in Seq(Byte)
        BY DEF Byte
      <4>2. Append(w, b) = w \o <<"quote">>
        BY <1>2
      <4> QED
        BY <3>1, <4>2
    <3> HIDE DEF token
    <3> QED
      BY <2>3, <3>1, <3>2 DEF Says
  <2> HIDE DEF token
  <2> QED
    BY <1>0, <1>2, <2>1, <2>2, <2>3, <2>4, <2>5, EndsLossless
<1>3. CASE b \notin {"CR", "LF", "quote"}
  <2>1. CASE OutOfMemory(tok)
    BY <2>1, ErrorFails, FailedLossless
  <2>2. CASE ~OutOfMemory(tok)
    <3>1. /\ str' = Append(str, b) /\ Ok(b, Longer(tok))
          /\ stat' = stat /\ num' = num /\ seq' = seq
      BY <1>3, <2>2 DEF FeedByte_StrLit
    <3>2. \A w \in Seq(Byte) : w # << >> /\ Word(stat, str, num, w) =>
            Word(stat', str', num', Append(w, b))
      BY <1>0, <1>3, <3>1, WordGrows
    <3> QED
      BY <1>0, <1>3, <3>1, <3>2, GrownLossless
  <2> QED
    BY <2>1, <2>2
<1> QED
  BY <1>1, <1>2, <1>3

LEMMA AppendToOne == \A c, d : Append(<<c>>, d) = <<c, d>>
<1> SUFFICES ASSUME NEW c, NEW d
             PROVE  Append(<<c>>, d) = <<c, d>>
  OBVIOUS
<1> DEFINE v == Append(<<c>>, d)
<1>1. <<c>> \in Seq({c, d}) /\ Len(<<c>>) = 1 /\ <<c>>[1] = c
  OBVIOUS
<1>2. v \in Seq({c, d}) /\ Len(v) = 2 /\ v[1] = c /\ v[2] = d
  BY <1>1
<1>3. <<c, d>> \in Seq({c, d}) /\ Len(<<c, d>>) = 2 /\ <<c, d>>[1] = c /\ <<c, d>>[2] = d
  OBVIOUS
<1> HIDE DEF v
<1>4. v = <<c, d>>
  BY <1>2, <1>3
<1> QED
  BY <1>4 DEF v

LEMMA WithEqual ==
  ASSUME Scanning, Reading, Head(todo) = "=", NEW both \in {"Equ", "Neq", "Gte", "Lte"},
         EndsWith("=", NormalToken(both, Longer(tok))),
         NEW c, Spelling[both] = <<c, "=">>,
         \A w \in Seq(Byte) : w # << >> /\ Word(stat, str, num, w) => w = <<c>>
  PROVE  SInv'
<1> DEFINE token == NormalToken(both, Longer(tok))
<1>0. tok \in Position /\ both \in Symbol
  BY ScanningFacts DEF Symbol
<1>1. token \in TokenType
  BY <1>0, PositionType, NormalTokenTyped
<1>2. token.row = tok.row /\ token.col = tok.off /\ token.len = tok.len + 1 /\ token.tag = both
  BY <1>0 DEF NormalToken, Token, Longer, Position
<1>3. Settled(token)
  BY <1>2 DEF Settled, Keyword
<1>4. ASSUME NEW w \in Seq(Byte), w # << >>, Word(stat, str, num, w)
      PROVE  Says(token, Append(w, "="))
  <2>1. w = <<c>>
    BY <1>4
  <2>2. Append(<<c>>, "=") = <<c, "=">>
    BY AppendToOne
  <2>3. Append(w, "=") = Spelling[both]
    BY <2>1, <2>2
  <2> QED
    BY <1>0, <2>3, SymbolSays
<1> HIDE DEF token
<1> QED
  BY <1>1, <1>2, <1>3, <1>4, EndsLossless DEF token

LEMMA Alone ==
  ASSUME Scanning, Reading, Head(todo) # "=", NEW alone \in {"Assign", "GreaterThan", "LessThan"},
         EndsBefore(NormalToken(alone, tok)),
         NEW c, Spelling[alone] = <<c>>,
         \A w \in Seq(Byte) : w # << >> /\ Word(stat, str, num, w) => w = <<c>>
  PROVE  SInv'
<1> DEFINE token == NormalToken(alone, tok)
<1>0. tok \in Position /\ alone \in Symbol
  BY ScanningFacts DEF Symbol
<1>1. token \in TokenType
  BY <1>0, NormalTokenTyped
<1>2. token.row = tok.row /\ token.col = tok.off /\ token.len = tok.len /\ token.tag = alone
  BY DEF NormalToken, Token
<1>3. Maximal(token, Head(todo))
  BY <1>2 DEF Maximal, Keyword
<1>4. \A w \in Seq(Byte) : w # << >> /\ Word(stat, str, num, w) => Says(token, w)
  BY <1>0, SymbolSays
<1> HIDE DEF token
<1> QED
  BY <1>1, <1>2, <1>3, <1>4, EndsLossless DEF token

LEMMA OperatorLossless ==
  ASSUME Scanning,
         \/ FeedByte_AsgOrEqu(Head(todo)) \/ FeedByte_GtOrGte(Head(todo))
         \/ FeedByte_LtOrLte(Head(todo)) \/ FeedByte_Neq(Head(todo))
  PROVE  SInv'
<1> DEFINE b == Head(todo)
<1>1. stat \in {"AssignOrEqu", "Neq", "RightBraceOrGte", "LeftBraceOrLte"} /\ Reading
  BY DEF FeedByte_AsgOrEqu, FeedByte_GtOrGte, FeedByte_LtOrLte, FeedByte_Neq, Reading
<1>2. ASSUME NEW st, NEW c, NEW alone \in {"Assign", "GreaterThan", "LessThan"},
             NEW both \in {"Equ", "Gte", "Lte"}, stat = st,
             Spelling[alone] = <<c>>, Spelling[both] = <<c, "=">>,
             \A w : Word(stat, str, num, w) => w = <<c>>,
             MayTakeEqual(b, alone, both)
      PROVE  SInv'
  BY <1>1, <1>2, WithEqual, Alone DEF MayTakeEqual
<1>3. CASE FeedByte_AsgOrEqu(b)
  <2>1. stat = "AssignOrEqu" /\ MayTakeEqual(b, "Assign", "Equ")
    BY <1>3 DEF FeedByte_AsgOrEqu
  <2>2. \A w : Word(stat, str, num, w) => w = <<"=">>
    BY <1>1, <2>1, OperatorWord
  <2> QED
    BY <1>2, <2>1, <2>2, Spellings
<1>4. CASE FeedByte_GtOrGte(b)
  <2>1. stat = "RightBraceOrGte" /\ MayTakeEqual(b, "GreaterThan", "Gte")
    BY <1>4 DEF FeedByte_GtOrGte
  <2>2. \A w : Word(stat, str, num, w) => w = <<">">>
    BY <1>1, <2>1, OperatorWord
  <2> QED
    BY <1>2, <2>1, <2>2, Spellings
<1>5. CASE FeedByte_LtOrLte(b)
  <2>1. stat = "LeftBraceOrLte" /\ MayTakeEqual(b, "LessThan", "Lte")
    BY <1>5 DEF FeedByte_LtOrLte
  <2>2. \A w : Word(stat, str, num, w) => w = <<"<">>
    BY <1>1, <2>1, OperatorWord
  <2> QED
    BY <1>2, <2>1, <2>2, Spellings
<1>6. CASE FeedByte_Neq(b)
  <2>1. CASE b # "="
    BY <1>6, <2>1, ErrorFails, FailedLossless DEF FeedByte_Neq
  <2>2. CASE b = "="
    <3>1. stat = "Neq" /\ EndsWith("=", NormalToken("Neq", Longer(tok)))
      BY <1>6, <2>2 DEF FeedByte_Neq
    <3>2. \A w : Word(stat, str, num, w) => w = <<"!">>
      BY <1>1, <3>1, OperatorWord
    <3> QED
      BY <1>1, <2>2, <3>1, <3>2, WithEqual, Spellings
  <2> QED
    BY <2>1, <2>2
<1> QED
  BY <1>3, <1>4, <1>5, <1>6

LEMMA FeedByteLossless == TypeOK /\ PInv /\ LInv /\ SInv /\ FeedByte => SInv'
<1> SUFFICES ASSUME TypeOK, PInv, LInv, SInv, FeedByte
             PROVE  SInv'
  OBVIOUS
<1>1. Scanning
  BY DEF Scanning, Working, FeedByte
<1> QED
  BY <1>1, IdleLossless, CrLfLossless, NameLossless, NumLossless, StrLitLossless,
     OperatorLossless DEF FeedByte
-----------------------------------------------------------------------------
(* The other steps. *)

LEMMA NothingLossless ==
  ASSUME text' = << >>, seq' = << >>, stat' = "Idle"
  PROVE  SInv'
<1>1. ~Reading'
  BY DEF Reading
<1>2. DOMAIN << >> = {} /\ Len(<< >>) = 0
  OBVIOUS
<1>3. Tight'
  BY <1>2 DEF Tight
<1>4. Spans(text', seq') \o << >> = << >>
  <2>1. Spans(text', seq') = << >>
    BY <1>2 DEF Spans
  <2> QED
    BY <2>1
<1>5. Covers(<< >>, << >>)
  BY <1>2 DEF Covers
<1>6. Covers(text', Spans(text', seq') \o (IF Reading' THEN <<PendingSpan'>> ELSE << >>))
  BY <1>1, <1>4, <1>5
<1>7. \A k \in DOMAIN seq' : TokenHolds(text', seq'[k])
  BY <1>2
<1> QED
  BY <1>1, <1>3, <1>6, <1>7, SInvHolds

LEMMA FinalizeLossless == Finalize => SInv'
<1> SUFFICES ASSUME Finalize
             PROVE  SInv'
  OBVIOUS
<1>1. CASE FeedEolFails
  BY <1>1, ErrorFails, FailedLossless DEF FeedEolFails
<1>2. CASE FinalizeFails
  <2>1. ~ret'
    BY <1>2 DEF FinalizeFails, Return
  <2> QED
    BY <2>1, FailedLossless
<1>3. CASE FinalizeSucceeds
  BY <1>3, NothingLossless DEF FinalizeSucceeds
<1> QED
  BY <1>1, <1>2, <1>3 DEF Finalize

LEMMA InitSInv == Init => SInv
<1> SUFFICES ASSUME Init
             PROVE  SInv
  OBVIOUS
<1>1. text = << >> /\ seq = << >> /\ ~Reading
  BY DEF Init, Reading
<1>2. DOMAIN << >> = {} /\ Len(<< >>) = 0
  OBVIOUS
<1>3. Tight
  BY <1>1, <1>2 DEF Tight
<1>4. Spans(text, seq) \o << >> = << >>
  <2>1. Spans(text, seq) = << >>
    BY <1>1, <1>2 DEF Spans
  <2> QED
    BY <2>1
<1>5. Covers(<< >>, << >>)
  BY <1>2 DEF Covers
<1>6. Covers(text, Spans(text, seq) \o (IF Reading THEN <<PendingSpan>> ELSE << >>))
  BY <1>1, <1>4, <1>5
<1>7. \A k \in DOMAIN seq : TokenHolds(text, seq[k])
  BY <1>1, <1>2
<1>8. Lossless
  BY <1>1, <1>6, <1>7, Zenon DEF Lossless, Spans
<1> QED
  BY <1>3, <1>8 DEF SInv

LEMMA StepSInv == TypeOK /\ PInv /\ LInv /\ SInv /\ [Next]_vars => SInv'
<1> SUFFICES ASSUME TypeOK, PInv, LInv, SInv, [Next]_vars
             PROVE  SInv'
  OBVIOUS
<1>1. CASE UNCHANGED vars
  <2>1. UNCHANGED <<stat, str, num, seq, tok, pc, todo, ret, text>>
    BY <1>1 DEF vars
  <2> QED
    BY <2>1, SameLossless
<1>2. CASE FeedByte
  BY <1>2, FeedByteLossless
<1>3. CASE FeedDone
  <2>1. ret /\ todo = << >> /\ UNCHANGED <<stat, str, num, seq, tok, text>>
    BY <1>3 DEF FeedDone, machine, PInv
  <2> QED
    BY <2>1, SameLossless
<1>4. CASE Finalize
  BY <1>4, FinalizeLossless
<1>5. ASSUME NEW c \in Chunk, BeginFeed(c) \/ BeginScan(c)
      PROVE  SInv'
  <2>1. pc # "feed" /\ ret /\ UNCHANGED <<stat, str, num, seq, tok, text>>
    BY <1>5 DEF BeginFeed, BeginScan, MayFeed, machine
  <2> QED
    BY <2>1, SameLossless
<1>6. CASE BeginFinalize
  <2>1. pc # "feed" /\ ret /\ UNCHANGED <<stat, str, num, seq, tok, text>>
    BY <1>6 DEF BeginFinalize, machine
  <2> QED
    BY <2>1, SameLossless
<1>7. CASE Reset
  BY <1>7, NothingLossless DEF Reset
<1> QED
  BY <1>1, <1>2, <1>3, <1>4, <1>5, <1>6, <1>7 DEF Next, LexerStep

(* For every alphabet, keyword table and sequence of calls on texts that   *)
(* usize can count: while no call has failed, the tokens and the lexeme    *)
(* being read spell the whole text consumed so far but its blanks, in      *)
(* order, each where it says it is, with the value its bytes have and as   *)
(* long as it can be.                                                      *)
THEOREM AlwaysLossless ==
  ASSUME TextsFit
  PROVE  Spec => []Lossless
<1>1. Init => TypeOK /\ PInv /\ LInv /\ SInv
  BY InitTyped, InitPInv, InitLInv, InitSInv
<1>2. TypeOK /\ PInv /\ LInv /\ SInv /\ [Next]_vars => (TypeOK /\ PInv /\ LInv /\ SInv)'
  BY StepTyped, StepPInv, StepLInv, StepSInv
<1>3. SInv => Lossless
  BY DEF SInv
<1> QED
  BY <1>1, <1>2, <1>3, PTL DEF Spec
-----------------------------------------------------------------------------
(* What a successful Finalize hands out. *)

(* The tokens of s, of which the last may have been ended by the end.      *)
Handed(s, toks) ==
  /\ \A k \in DOMAIN toks :
       \/ TokenHolds(s, toks[k])
       \/ /\ k = Len(toks)
          /\ SaysAtEnd(toks[k], Read(s, TokenSpan(s, toks[k])))
          /\ Max(TokenSpan(s, toks[k])) = Len(s)
  /\ Covers(s, Spans(s, toks))

LEMMA LastHanded ==
  ASSUME Working, SInv, Reading, NEW token \in TokenType,
         token.row = tok.row, token.col = tok.off, token.len = tok.len,
         \A w \in Seq(Byte) :
           w # << >> /\ Word(stat, str, num, w) => Says(token, w) \/ SaysAtEnd(token, w)
  PROVE  Handed(text, Append(seq, token))
<1> DEFINE n == Len(text)
           toks == Append(seq, token)
<1>1. /\ text \in Seq(Byte) /\ n \in Nat /\ seq \in Seq(TokenType)
      /\ \A k \in DOMAIN seq : TokenHolds(text, seq[k])
      /\ Spans(text, seq) \in Seq(SUBSET (1 .. n))
      /\ Covers(text, Spans(text, seq) \o <<PendingSpan>>)
  BY WorkingFacts
<1>2. PICK p : /\ Spot(text, tok.row, tok.off, tok.len, p) /\ p + tok.len - 1 = n
               /\ p \in 1 .. n /\ PendingSpan = p .. n
               /\ Word(stat, str, num, SubSeq(text, p, n))
               /\ SubSeq(text, p, n) \in Seq(Byte)
               /\ SubSeq(text, p, n) # << >>
  BY PendingWhere
<1> HIDE DEF n, toks
<1>3. Spot(text, token.row, token.col, token.len, p) /\ p + token.len - 1 = n
  BY <1>2
<1>4. /\ TokenSpan(text, token) = p .. n /\ Max(TokenSpan(text, token)) = n
      /\ Read(text, TokenSpan(text, token)) = SubSeq(text, p, n)
  BY <1>1, <1>3, SpotSpan DEF TokenSpan
<1>5. \/ Says(token, Read(text, TokenSpan(text, token)))
      \/ SaysAtEnd(token, Read(text, TokenSpan(text, token)))
  BY <1>2, <1>4
<1>6. \/ TokenHolds(text, token)
      \/ SaysAtEnd(token, Read(text, TokenSpan(text, token)))
  <2>1. ~ (Max(TokenSpan(text, token)) < n)
    BY <1>1, <1>4
  <2> QED
    BY <1>5, <2>1 DEF TokenHolds, n
<1>7. /\ DOMAIN toks = (DOMAIN seq) \union {Len(toks)}
      /\ toks[Len(toks)] = token /\ \A k \in DOMAIN seq : toks[k] = seq[k]
  BY <1>1 DEF toks
<1>8. Spans(text, toks) = Append(Spans(text, seq), p .. n)
  <2>1. p .. n \in SUBSET (1 .. n)
    BY <1>1, <1>2
  <2> QED
    BY <1>1, <1>4, <2>1, SpansAppended DEF toks
<1>9. Covers(text, Spans(text, toks))
  <2>1. Spans(text, seq) \o <<p .. n>> = Append(Spans(text, seq), p .. n)
    BY <1>1, AppendIsConcat
  <2> QED
    BY <1>1, <1>2, <1>8, <2>1
<1> QED
  BY <1>1, <1>4, <1>6, <1>7, <1>9 DEF Handed, toks, n

LEMMA AllHanded ==
  ASSUME Working, SInv, stat # "Neq"
  PROVE  Handed(text, seq \o EolTokens)
<1>0. /\ stat \in FsmStat /\ tok \in Position /\ str \in Seq(Byte) /\ seq \in Seq(TokenType)
      /\ TypeOK
  BY WorkingFacts DEF Working
<1>1. ASSUME NEW token \in TokenType, EolTokens = <<token>>, Reading,
             token.row = tok.row, token.col = tok.off, token.len = tok.len,
             \A w \in Seq(Byte) :
               w # << >> /\ Word(stat, str, num, w) => Says(token, w) \/ SaysAtEnd(token, w)
      PROVE  Handed(text, seq \o EolTokens)
  <2>1. Handed(text, Append(seq, token))
    BY <1>1, LastHanded
  <2>2. seq \o <<token>> = Append(seq, token)
    BY <1>0
  <2> QED
    BY <1>1, <2>1, <2>2
<1>2. CASE stat \in {"Idle", "CrLf"}
  <2>1. ~Reading /\ EolTokens = << >>
    BY <1>2 DEF Reading, EolTokens
  <2>2. seq \o EolTokens = seq
    BY <1>0, <2>1
  <2>3. /\ \A k \in DOMAIN seq : TokenHolds(text, seq[k])
        /\ Covers(text, Spans(text, seq) \o << >>)
        /\ Spans(text, seq) \in Seq(SUBSET (1 .. Len(text)))
    BY <2>1, WorkingFacts
  <2>4. Covers(text, Spans(text, seq))
    BY <2>3, AppendIsConcat
  <2> QED
    BY <2>2, <2>3, <2>4 DEF Handed
<1>3. CASE stat = "Name"
  <2>1. EolTokens = <<NameToken>> /\ Reading
    BY <1>3 DEF EolTokens, Reading
  <2>2. NameToken.row = tok.row /\ NameToken.col = tok.off /\ NameToken.len = tok.len
    BY DEF NameToken, Token
  <2>3. \A w \in Seq(Byte) : Word(stat, str, num, w) => Says(NameToken, w)
    BY <1>0, <1>3, NameTokenSays
  <2> QED
    BY <1>0, <1>1, <2>1, <2>2, <2>3, PushedTokensTyped
<1>4. CASE stat = "NumLit"
  <2>1. EolTokens = <<NumberToken>> /\ Reading
    BY <1>4 DEF EolTokens, Reading
  <2>2. NumberToken.row = tok.row /\ NumberToken.col = tok.off /\ NumberToken.len = tok.len
    BY DEF NumberToken, Token
  <2>3. \A w \in Seq(Byte) : Word(stat, str, num, w) => Says(NumberToken, w)
    BY <1>4, NumberTokenSays
  <2> QED
    BY <1>0, <1>1, <2>1, <2>2, <2>3, PushedTokensTyped
<1>5. CASE stat = "StrLit"
  <2> DEFINE token == StringLiteralToken(tok)
  <2>1. EolTokens = <<token>> /\ Reading
    BY <1>5 DEF EolTokens, Reading
  <2>2. /\ token.row = tok.row /\ token.col = tok.off /\ token.len = tok.len
        /\ token.tag = "StrLit" /\ token.str = str
    BY DEF StringLiteralToken, Token
  <2>3. token \in TokenType
    BY <1>0, PushedTokensTyped
  <2> HIDE DEF token
  <2>4. \A w \in Seq(Byte) : Word(stat, str, num, w) => SaysAtEnd(token, w)
    BY <1>5, <2>2 DEF Word, SaysAtEnd
  <2> QED
    BY <1>1, <2>1, <2>2, <2>3, <2>4
<1>6. ASSUME NEW tag \in {"Assign", "RightBrace", "LeftBrace"}
      PROVE  /\ NormalToken(tag, tok) \in TokenType
             /\ NormalToken(tag, tok).row = tok.row /\ NormalToken(tag, tok).col = tok.off
             /\ NormalToken(tag, tok).len = tok.len /\ NormalToken(tag, tok).tag = tag
  <2>1. tag \in Symbol
    BY DEF Symbol
  <2>2. NormalToken(tag, tok) \in TokenType
    BY <1>0, <2>1, NormalTokenTyped
  <2> QED
    BY <2>2 DEF NormalToken, Token
<1>7. CASE stat = "AssignOrEqu"
  <2> DEFINE token == NormalToken("Assign", tok)
  <2>1. EolTokens = <<token>> /\ Reading
    BY <1>7 DEF EolTokens, Reading
  <2>2. \A w \in Seq(Byte) : Word(stat, str, num, w) => Says(token, w)
    <3>1. \A w : Word(stat, str, num, w) => w = <<"=">>
      BY <1>7, OperatorWord
    <3> QED
      BY <3>1, Spellings, SymbolSays DEF Symbol
  <2>3. /\ token \in TokenType /\ token.row = tok.row /\ token.col = tok.off
        /\ token.len = tok.len
    BY <1>6
  <2> HIDE DEF token
  <2> QED
    BY <1>1, <2>1, <2>2, <2>3
<1>8. CASE stat = "RightBraceOrGte"
  <2> DEFINE token == NormalToken("RightBrace", tok)
  <2>1. EolTokens = <<token>> /\ Reading
    BY <1>8 DEF EolTokens, Reading
  <2>2. /\ token \in TokenType /\ token.row = tok.row /\ token.col = tok.off
        /\ token.len = tok.len /\ token.tag = "RightBrace"
    BY <1>6
  <2> HIDE DEF token
  <2>3. \A w \in Seq(Byte) : Word(stat, str, num, w) => SaysAtEnd(token, w)
    BY <1>8, <2>2, OperatorWord DEF SaysAtEnd
  <2> QED
    BY <1>1, <2>1, <2>2, <2>3
<1>9. CASE stat = "LeftBraceOrLte"
  <2> DEFINE token == NormalToken("LeftBrace", tok)
  <2>1. EolTokens = <<token>> /\ Reading
    BY <1>9 DEF EolTokens, Reading
  <2>2. /\ token \in TokenType /\ token.row = tok.row /\ token.col = tok.off
        /\ token.len = tok.len /\ token.tag = "LeftBrace"
    BY <1>6
  <2> HIDE DEF token
  <2>3. \A w \in Seq(Byte) : Word(stat, str, num, w) => SaysAtEnd(token, w)
    BY <1>9, <2>2, OperatorWord DEF SaysAtEnd
  <2> QED
    BY <1>1, <2>1, <2>2, <2>3
<1> QED
  BY <1>0, <1>2, <1>3, <1>4, <1>5, <1>7, <1>8, <1>9 DEF FsmStat

LEMMA OutputOf ==
  ASSUME NEW toks \in Seq(TokenType), NEW eof \in TokenType,
         out' = [text |-> text, toks |-> toks \o <<eof>>],
         Handed(text, toks), EofAtEnd'
  PROVE  OutputLossless'
<1> DEFINE all == toks \o <<eof>>
           n == Len(all) - 1
<1>1. n = Len(toks) /\ SubSeq(all, 1, n) = toks /\ DOMAIN toks = 1 .. n
  <2>1. Len(all) = Len(toks) + 1 /\ Len(toks) \in Nat /\ DOMAIN toks = 1 .. Len(toks)
    OBVIOUS
  <2>2. n = Len(toks)
    BY <2>1
  <2>3. SubSeq(all, 1, Len(toks)) = toks
    OBVIOUS
  <2> QED
    BY <2>1, <2>2, <2>3
<1>2. out'.text = text /\ out'.toks = all
  OBVIOUS
<1> HIDE DEF all
<1>3. Len(out'.toks) - 1 = n
  BY <1>2
<1> HIDE DEF n
<1>4. SubSeq(out'.toks, 1, n) = toks
  BY <1>1, <1>2
<1>5. \A k \in 1 .. n :
        \/ TokenHolds(text, toks[k])
        \/ /\ k = n
           /\ SaysAtEnd(toks[k], Read(text, TokenSpan(text, toks[k])))
           /\ Max(TokenSpan(text, toks[k])) = Len(text)
  BY <1>1 DEF Handed
<1>6. Covers(text, [k \in 1 .. n |-> TokenSpan(text, toks[k])])
  <2>1. Spans(text, toks) = [k \in 1 .. n |-> TokenSpan(text, toks[k])]
    BY <1>1 DEF Spans
  <2> QED
    BY <2>1 DEF Handed
<1> QED
  BY <1>2, <1>3, <1>4, <1>5, <1>6 DEF OutputLossless

LEMMA StepOutput ==
  TypeOK /\ PInv /\ LInv /\ SInv /\ OutputLossless /\ [Next]_vars => OutputLossless'
<1> SUFFICES ASSUME TypeOK, PInv, LInv, SInv, OutputLossless, [Next]_vars
             PROVE  OutputLossless'
  OBVIOUS
<1>0. EofAtEnd'
  BY StepEofAtEnd DEF OutputLossless
<1>1. CASE out' = out
  BY <1>0, <1>1 DEF OutputLossless
<1>2. CASE out' = NoOut
  BY <1>0, <1>2 DEF OutputLossless
<1>3. CASE out' # out /\ Finalize /\ FinalizeSucceeds
  <2>1. Working /\ stat # "Neq"
    BY <1>3 DEF Working, Finalize, FinalizeSucceeds
  <2>2. out' = [text |-> text, toks |-> seq \o EolTokens \o <<EofToken>>]
    BY <1>3 DEF FinalizeSucceeds
  <2>3. seq \in Seq(TokenType) /\ EolTokens \in Seq(TokenType) /\ EofToken \in TokenType
    BY TypeSplit, EolTyped DEF MachineOK
  <2> DEFINE toks == seq \o EolTokens
  <2>4. toks \in Seq(TokenType) /\ Handed(text, toks)
    BY <2>1, <2>3, AllHanded
  <2>5. out' = [text |-> text, toks |-> toks \o <<EofToken>>]
    BY <2>2
  <2> HIDE DEF toks
  <2> QED
    BY <1>0, <2>3, <2>4, <2>5, OutputOf
<1> QED
  BY <1>1, <1>2, <1>3, StepOut

(* For every alphabet, keyword table and sequence of calls on texts that   *)
(* usize can count: what a successful Finalize or scan hands out is the    *)
(* tokens of its whole text, in order, and Eof; only the last lexeme may   *)
(* be one that the end of the text made of its bytes.                      *)
THEOREM AlwaysOutputLossless ==
  ASSUME TextsFit
  PROVE  Spec => []OutputLossless
<1>1. Init => TypeOK /\ PInv /\ LInv /\ SInv /\ OutputLossless
  BY InitTyped, InitPInv, InitLInv, InitSInv DEF Init, OutputLossless, EofAtEnd
<1>2. /\ TypeOK /\ PInv /\ LInv /\ SInv /\ OutputLossless
      /\ [Next]_vars
      => (TypeOK /\ PInv /\ LInv /\ SInv /\ OutputLossless)'
  BY StepTyped, StepPInv, StepLInv, StepSInv, StepOutput
<1> QED
  BY <1>1, <1>2, PTL DEF Spec

-----------------------------------------------------------------------------
(* A call comes to its end.  The invariant: no CR without its LF is in     *)
(* what is consumed and what is to be, and behind a CR the machine waits.  *)

CInv ==
  /\ TypeOK
  /\ ~ HasLoneCR(text \o todo)
  /\ stat = "CrLf" => EndsCR(text)
  /\ pc # "feed" => todo = << >>

LEMMA LoneInPrefix ==
  ASSUME NEW s \in Seq(Byte), NEW t \in Seq(Byte), HasLoneCR(s)
  PROVE  HasLoneCR(s \o t)
<1>1. PICK i \in 1 .. Len(s) - 1 : s[i] = "CR" /\ s[i + 1] # "LF"
  BY DEF HasLoneCR
<1>2. (s \o t)[i] = s[i] /\ (s \o t)[i + 1] = s[i + 1] /\ i \in 1 .. Len(s \o t) - 1
  BY <1>1
<1> QED
  BY <1>1, <1>2 DEF HasLoneCR

LEMMA NoneLone == ~ HasLoneCR(<< >>)
BY DEF HasLoneCR

LEMMA AppendedFirst ==
  ASSUME NEW s \in Seq(Byte), NEW t \in Seq(Byte), t # << >>
  PROVE  Append(s, Head(t)) \o Tail(t) = s \o t
OBVIOUS

(* The byte behind a CR is an LF. *)
LEMMA LineFeedFollows ==
  ASSUME CInv, todo # << >>, stat = "CrLf"
  PROVE  Head(todo) = "LF"
<1>1. text \in Seq(Byte) /\ todo \in Seq(Byte)
  BY DEF CInv, TypeOK
<1>2. text # << >> /\ text[Len(text)] = "CR"
  BY DEF CInv, EndsCR
<1> DEFINE i == Len(text)
           s == text \o todo
<1>3. i \in 1 .. Len(s) - 1 /\ s[i] = text[i] /\ s[i + 1] = todo[1]
  BY <1>1, <1>2
<1>4. s[i + 1] = "LF"
  BY <1>2, <1>3 DEF CInv, HasLoneCR
<1> QED
  BY <1>1, <1>3, <1>4

(* What FeedByte does to the bytes.                                        *)
LEMMA ByteAnswers ==
  ASSUME CInv, FeedByte
  PROVE  \/ /\ pc' = pc /\ todo' = Tail(todo) /\ text' = Append(text, Head(todo))
            /\ stat' = "CrLf" => Head(todo) = "CR"
         \/ pc' = pc /\ todo' = todo /\ text' = text /\ stat # "Idle" /\ stat' = "Idle"
         \/ /\ pc' = "idle" /\ todo' = << >> /\ text' = text
            /\ stat' = "CrLf" => stat = "CrLf"
<1> DEFINE b == Head(todo)
           Consumed == pc' = pc /\ todo' = Tail(todo) /\ text' = Append(text, b)
           Kept == pc' = pc /\ todo' = todo /\ text' = text
           Over == pc' = "idle" /\ todo' = << >> /\ text' = text
           Goal == \/ Consumed /\ (stat' = "CrLf" => b = "CR")
                   \/ Kept /\ stat # "Idle" /\ stat' = "Idle"
                   \/ Over /\ (stat' = "CrLf" => stat = "CrLf")
<1> SUFFICES Goal
  OBVIOUS
<1>1. \A t : Ok(b, t) => Consumed
  BY DEF Ok, call
<1>2. \A t : Again(t) => Kept
  BY DEF Again, call
<1>3. \A type, t : Error(type, t) => Over
  BY DEF Error, Return
<1>4. \A t : OutOfMemory(t) => Over
  BY <1>3 DEF OutOfMemory
<1>5. stat = "CrLf" => b = "LF"
  BY LineFeedFollows DEF FeedByte
<1> HIDE DEF b, Consumed, Kept, Over
<1>6. CASE FeedByte_Idle(b)
  <2>1. CASE IdleSkips(b)
    BY <1>1, <2>1 DEF IdleSkips
  <2>2. CASE IdleStartsNumber(b) \/ IdleStartsName(b) \/ IdleStartsString(b)
    BY <1>1, <1>4, <2>2 DEF IdleStartsNumber, IdleStartsName, IdleStartsString
  <2>3. CASE IdleStartsOperator(b)
    <3>1. OperatorStat(b) # "CrLf"
      BY <2>3 DEF IdleStartsOperator, OperatorStat, Operator
    <3> QED
      BY <1>1, <2>3, <3>1 DEF IdleStartsOperator
  <2>4. CASE IdlePushes(b) \/ IdleRejects(b)
    <3>1. stat' = "Idle"
      BY <1>6, <2>4 DEF IdlePushes, IdleRejects, FeedByte_Idle, machine
    <3> QED
      BY <1>1, <1>3, <1>4, <2>4, <3>1 DEF IdlePushes, IdleRejects
  <2> QED
    BY <1>6, <2>1, <2>2, <2>3, <2>4 DEF FeedByte_Idle
<1>7. CASE FeedByte_CrLf(b)
  BY <1>1, <1>5, <1>7 DEF FeedByte_CrLf
<1>8. ASSUME NEW token, EndsBefore(token), stat # "Idle"
      PROVE  Goal
  BY <1>2, <1>4, <1>8 DEF EndsBefore
<1>9. ASSUME NEW token, EndsWith(b, token)
      PROVE  Goal
  BY <1>1, <1>4, <1>9 DEF EndsWith
<1>10. CASE FeedByte_Name(b)
  BY <1>1, <1>4, <1>8, <1>10 DEF FeedByte_Name
<1>11. CASE FeedByte_Num(b)
  BY <1>1, <1>8, <1>11 DEF FeedByte_Num
<1>12. CASE FeedByte_StrLit(b)
  BY <1>1, <1>3, <1>4, <1>9, <1>12 DEF FeedByte_StrLit, machine
<1>13. CASE FeedByte_Neq(b)
  BY <1>3, <1>9, <1>13 DEF FeedByte_Neq, machine
<1>14. CASE FeedByte_AsgOrEqu(b) \/ FeedByte_GtOrGte(b) \/ FeedByte_LtOrLte(b)
  BY <1>8, <1>9, <1>14
     DEF FeedByte_AsgOrEqu, FeedByte_GtOrGte, FeedByte_LtOrLte, MayTakeEqual
<1> QED
  BY <1>6, <1>7, <1>10, <1>11, <1>12, <1>13, <1>14 DEF FeedByte, b

LEMMA StepAdvances ==
  ASSUME CInv, LexerStep, pc' # "idle"
  PROVE  \/ pc = "feed" /\ pc' = "finalize"
         \/ UNCHANGED pc /\ todo # << >> /\ todo' = Tail(todo)
         \/ UNCHANGED <<pc, todo>> /\ stat # "Idle" /\ stat' = "Idle"
<1>1. CASE FeedByte
  BY <1>1, ByteAnswers DEF FeedByte
<1>2. CASE FeedDone
  BY <1>2 DEF FeedDone, Return
<1>3. ~ Finalize
  BY DEF Finalize, FeedEolFails, FinalizeFails, FinalizeSucceeds, Error, OutOfMemory, Return
<1> QED
  BY <1>1, <1>2, <1>3 DEF LexerStep

LEMMA InitCInv == Init => CInv
<1> SUFFICES ASSUME Init PROVE CInv
  OBVIOUS
<1>1. TypeOK
  BY InitTyped
<1>2. text = << >> /\ todo = << >> /\ stat = "Idle"
  BY DEF Init
<1>3. text \o todo = << >>
  BY <1>2
<1> QED
  BY <1>1, <1>2, <1>3, NoneLone DEF CInv

LEMMA FeedByteCInv ==
  ASSUME CInv, FeedByte, TypeOK'
  PROVE  CInv'
<1>1. text \in Seq(Byte) /\ todo \in Seq(Byte) /\ todo # << >> /\ pc = "feed"
  BY DEF CInv, TypeOK, FeedByte
<1>2. CASE /\ pc' = pc /\ todo' = Tail(todo) /\ text' = Append(text, Head(todo))
           /\ stat' = "CrLf" => Head(todo) = "CR"
  <2>1. text' \o todo' = text \o todo
    BY <1>1, <1>2, AppendedFirst
  <2>2. ~ HasLoneCR(text' \o todo')
    BY <2>1 DEF CInv
  <2>3. stat' = "CrLf" => EndsCR(text')
    <3>1. Head(todo) \in Byte
      BY <1>1
    <3>2. text' # << >> /\ text'[Len(text')] = Head(todo)
      BY <1>1, <1>2, <3>1
    <3> QED
      BY <1>2, <3>2 DEF EndsCR
  <2> QED
    BY <1>1, <1>2, <2>2, <2>3 DEF CInv
<1>3. CASE pc' = pc /\ todo' = todo /\ text' = text /\ stat # "Idle" /\ stat' = "Idle"
  BY <1>1, <1>3 DEF CInv
<1>4. CASE /\ pc' = "idle" /\ todo' = << >> /\ text' = text
           /\ stat' = "CrLf" => stat = "CrLf"
  <2>1. text' \o todo' = text
    BY <1>1, <1>4
  <2>2. ~ HasLoneCR(text)
    BY <1>1, LoneInPrefix DEF CInv
  <2> QED
    BY <1>4, <2>1, <2>2 DEF CInv
<1> QED
  BY <1>2, <1>3, <1>4, ByteAnswers

(* Between the bytes nothing is left to do. *)
LEMMA IdleCInv ==
  ASSUME CInv, TypeOK', todo' = << >>, text' \in {text, << >>},
         stat' = "CrLf" => stat = "CrLf" /\ text' = text
  PROVE  CInv'
<1>1. text \in Seq(Byte) /\ todo \in Seq(Byte)
  BY DEF CInv, TypeOK
<1>2. text' \o todo' = text'
  BY <1>1
<1>3. ~ HasLoneCR(text')
  BY <1>1, LoneInPrefix, NoneLone DEF CInv
<1> QED
  BY <1>2, <1>3 DEF CInv

LEMMA StepCInv ==
  ASSUME ~ LoneCR, CInv, [Next]_vars
  PROVE  CInv'
<1>1. TypeOK'
  BY StepTyped DEF CInv
<1>2. CASE FeedByte
  BY <1>1, <1>2, FeedByteCInv
<1>3. CASE FeedDone
  <2>1. todo' = << >> /\ text' = text /\ stat' = stat
    BY <1>3 DEF FeedDone, Return, machine
  <2> QED
    BY <1>1, <2>1, IdleCInv
<1>4. CASE Finalize
  <2>1. todo' = << >> /\ text' \in {text, << >>}
    BY <1>4 DEF Finalize, FeedEolFails, FinalizeFails, FinalizeSucceeds, Error, OutOfMemory, Return
  <2>2. stat' = "CrLf" => stat = "CrLf" /\ text' = text
    BY <1>4 DEF Finalize, FeedEolFails, FinalizeFails, FinalizeSucceeds, Error, OutOfMemory, machine
  <2> QED
    BY <1>1, <2>1, <2>2, IdleCInv
<1>5. CASE BeginFinalize \/ Reset
  <2>1. todo' = todo /\ pc = "idle" /\ text' \in {text, << >>}
    BY <1>5 DEF BeginFinalize, Reset
  <2>2. stat' = "CrLf" => stat = "CrLf" /\ text' = text
    BY <1>5 DEF BeginFinalize, Reset, machine
  <2>3. todo' = << >>
    BY <2>1 DEF CInv
  <2> QED
    BY <1>1, <2>1, <2>2, <2>3, IdleCInv
<1>6. ASSUME NEW c \in Chunk, MayFeed(c), todo' = c, pc' = "feed", UNCHANGED <<machine, text>>
      PROVE  CInv'
  BY <1>1, <1>6 DEF MayFeed, CInv, machine, EndsCR
<1>7. ASSUME NEW c \in Chunk, BeginFeed(c) \/ BeginScan(c)
      PROVE  CInv'
  <2>1. CASE todo' = c /\ pc' = "feed"
    BY <1>6, <1>7, <2>1 DEF BeginFeed, BeginScan
  <2>2. CASE todo' = todo /\ pc' = pc
    <3>1. pc = "idle" /\ text' = text /\ stat' = stat
      BY <1>7 DEF BeginFeed, BeginScan, MayFeed, machine
    <3>2. todo' = << >>
      BY <2>2, <3>1 DEF CInv
    <3> QED
      BY <1>1, <3>1, <3>2, IdleCInv
  <2> QED
    BY <1>7, <2>1, <2>2 DEF BeginFeed, BeginScan
<1>8. CASE UNCHANGED vars
  BY <1>1, <1>8 DEF vars, machine, call, CInv, EndsCR
<1> QED
  BY <1>2, <1>3, <1>4, <1>5, <1>7, <1>8 DEF Next, LexerStep

(* For every alphabet, keyword table and sequence of calls on texts without
   a lone CR, with any allocation refused: a call consumes a byte or hands it
   back to Idle with every step, until it returns or goes on to Finalize. *)
THEOREM AlwaysAdvances ==
  ASSUME ~ LoneCR
  PROVE  Spec => CallAdvances
<1> DEFINE Advances ==
      LexerStep /\ pc' # "idle" =>
        \/ pc = "feed" /\ pc' = "finalize"
        \/ UNCHANGED pc /\ todo # << >> /\ todo' = Tail(todo)
        \/ UNCHANGED <<pc, todo>> /\ stat # "Idle" /\ stat' = "Idle"
<1>1. CInv => Advances
  BY StepAdvances
<1>2. CInv /\ [Next]_vars => CInv'
  BY StepCInv
<1>3. CallAdvances <=> [][Advances]_vars
  BY DEF CallAdvances
<1> HIDE DEF Advances
<1> QED
  BY <1>1, <1>2, <1>3, InitCInv, PTL DEF Spec
=============================================================================
