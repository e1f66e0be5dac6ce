------------------------------ MODULE Pipeline -------------------------------
(***************************************************************************)
(* From a text to a tree: a lexer, the results it hands out, a parser that *)
(* borrows one of them, and a tree, each owning blocks of memory           *)
(* (lexer.c, token.c, parser.c and ast.c of src/src).  Texts and tokens    *)
(* are those of Lexer and Parser; here only what owns memory is kept.      *)
(*                                                                         *)
(* A block is the memory of one structure; a FixedBuf, a FlexBuf or a      *)
(* TokSeq and the array behind it are one block, and so are a node of the  *)
(* tree and its string.  malloc grants any block that is free, or nothing.  *)
(***************************************************************************)
EXTENDS Integers, Sequences, Functions

CONSTANTS
  Block,     (* the blocks of memory                                        *)
  Slot,      (* variables in which the caller keeps what the lexer returns  *)
  NoSlot,
  Chunk,     (* the buffers the caller feeds or scans, as lexemes           *)
  MaxStr     (* bound on the names and strings of a text                    *)

(* The tokens of names and strings own a FixedBuf, those of words (keywords,
   operators, numbers) nothing; a bad lexeme has an unexpected byte.        *)
Lexeme == {"named", "word", "bad"}

ASSUME PipelineAssumption ==
  /\ Chunk \subseteq Seq(Lexeme)
  /\ MaxStr \in Nat
  /\ NoSlot \notin Slot
  /\ Slot \intersect {"lexer", "parser", "tree", "call"} = {}

VARIABLES
  used,      (* the blocks that are allocated                               *)
  lost,      (* those of them that failed parses have left behind           *)
  misfreed,  (* has a block been freed that was not allocated?              *)
  stale,     (* has a block been read that was not allocated?               *)
  lex,       (* the lexer: its own blocks, in.src, seq, the lexeme in str   *)
  result,    (* the LexOut or TokSeq in every slot                          *)
  par,       (* the parser: its own blocks, those of the LexOut it points to*)
  linked,    (* the slot the caller linked last, NoSlot after a Reset       *)
  tree,      (* the blocks of the caller's tree                             *)
  pc,        (* where the call in progress stands                           *)
  call       (* its kind and local variables                                *)

heap == <<used, misfreed>>
vars == <<heap, lost, stale, lex, result, par, linked, tree, pc, call>>

NoLexer == [on |-> FALSE, own |-> << >>, src |-> << >>, seq |-> << >>, pend |-> "none"]
NoParser == [on |-> FALSE, own |-> << >>, link |-> << >>]
NoResult == [kind |-> "none", own |-> << >>]

NewCall(kind, slot, todo) ==
  [kind |-> kind, slot |-> slot, todo |-> todo, got |-> << >>, res |-> << >>, old |-> << >>]

NoCall == NewCall("none", NoSlot, << >>)

-----------------------------------------------------------------------------
(* Memory. *)

(* malloc grants b; MeMem_Free takes back the blocks of s in turn, all or   *)
(* but for those in left.                                                  *)
Malloc(b) ==
  /\ b \notin used
  /\ used' = used \union {b}
  /\ UNCHANGED misfreed

FreeAllBut(s, left) ==
  /\ used' = used \ (Range(s) \ left)
  /\ misfreed' = (misfreed \/ ~ IsInjective(s) \/ ~ (Range(s) \subseteq used))

Free(s) == FreeAllBut(s, {})

Reads(s) == stale' = (stale \/ ~ (Range(s) \subseteq used))

Begins(at, locals) ==
  /\ pc = "idle"
  /\ pc' = at
  /\ call' = locals

Returns == pc' = "idle" /\ call' = NoCall

-----------------------------------------------------------------------------
(* Lexer_New and Parser_New: the blocks are allocated one after the other, *)
(* and given back in the reverse order when one is refused.                *)

BeginNew(kind) ==
  /\ IF kind = "lexer" THEN ~ lex.on ELSE ~ par.on
  /\ Begins("build", NewCall(kind, NoSlot, << >>))
  /\ UNCHANGED <<heap, lost, stale, lex, result, par, linked, tree>>

Parts == IF call.kind = "lexer" THEN 5 ELSE 2

(* The parts are src, str, seq, err.msg and the lexer; err.msg and the     *)
(* parser.                                                                 *)
Built(p) ==
  IF call.kind = "lexer"
  THEN /\ lex' = [on |-> TRUE, own |-> <<p[2], p[4], p[5]>>, src |-> <<p[1]>>,
                  seq |-> <<p[3]>>, pend |-> "none"]
       /\ UNCHANGED par
  ELSE /\ par' = [on |-> TRUE, own |-> p, link |-> << >>]
       /\ UNCHANGED lex

Build ==
  /\ pc = "build"
  /\ \/ \E b \in Block :
          /\ Malloc(b)
          /\ LET p == Append(call.got, b)
             IN  IF Len(p) = Parts
                 THEN Built(p) /\ Returns
                 ELSE call' = [call EXCEPT !.got = p] /\ UNCHANGED <<lex, par, pc>>
     \/ Free(call.got) /\ Returns /\ UNCHANGED <<lex, par>>
  /\ UNCHANGED <<lost, stale, result, linked, tree>>

-----------------------------------------------------------------------------
(* Lexer_Feed, Lexer_Finalize, Lexer_ScanBuf and Lexer_ScanFile. *)

NamedIn(s) == Len(SelectSeq(s, LAMBDA k : k = "named"))

(* The FixedBufs of the tokens of a sequence.                              *)
Strs(seq) == Tail(seq)

MayRead(c) ==
  /\ lex.on
  /\ Len(Strs(lex.seq)) + NamedIn(<<lex.pend>> \o c) <= MaxStr

BeginFeed(c) ==
  /\ MayRead(c)
  /\ Begins("feed", NewCall("feed", NoSlot, c))
  /\ UNCHANGED <<heap, lost, stale, lex, result, par, linked, tree>>

BeginFinalize(s) ==
  /\ lex.on /\ result[s] = NoResult
  /\ Begins("finalize", NewCall("finalize", s, << >>))
  /\ UNCHANGED <<heap, lost, stale, lex, result, par, linked, tree>>

BeginScan(kind, c, s) ==
  /\ MayRead(c) /\ result[s] = NoResult
  /\ Begins("open", NewCall(kind, s, c))
  /\ UNCHANGED <<heap, lost, stale, lex, result, par, linked, tree>>

Scanning == call.kind \in {"buf", "file"}

(* A file is read into a FixedBuf; the name of the source is another one,  *)
(* which takes the place of in.src.                                        *)
Open ==
  /\ pc = "open"
  /\ \/ \E b \in Block :
          /\ Malloc(b)
          /\ LET got == Append(call.got, b)
             IN  IF call.kind = "file" /\ Len(got) = 1
                 THEN call' = [call EXCEPT !.got = got] /\ UNCHANGED <<lex, pc>>
                 ELSE /\ call' = [call EXCEPT !.got = got, !.old = lex.src]
                      /\ lex' = [lex EXCEPT !.src = <<b>>]
                      /\ pc' = "feed"
     \/ Free(call.got) /\ Returns /\ UNCHANGED lex
  /\ UNCHANGED <<lost, stale, result, par, linked, tree>>

(* The lexeme in str becomes a token: of a name or a string with a FixedBuf*)
(* of its own, which is freed again if the push is refused.  A string that *)
(* does not end is an unexpected byte at the end, whose message names the  *)
(* source.                                                                 *)
PushToken ==
  /\ pc \in {"feed", "finalize"}
  /\ lex.pend # "none"
  /\ \/ /\ lex.pend = "named"
        /\ \E b \in Block :
             Malloc(b) /\ lex' = [lex EXCEPT !.seq = Append(@, b), !.pend = "none"]
        /\ UNCHANGED <<stale, pc>>
     \/ /\ lex.pend = "word"
        /\ lex' = [lex EXCEPT !.pend = "none"]
        /\ UNCHANGED <<heap, stale, pc>>
     \/ Reads(lex.src) /\ pc' = "fail" /\ UNCHANGED <<heap, lex>>
  /\ UNCHANGED <<lost, result, par, linked, tree, call>>

(* The message of an unexpected byte names the source.                     *)
FeedLexeme ==
  /\ pc = "feed" /\ call.todo # << >> /\ lex.pend = "none"
  /\ IF Head(call.todo) = "bad"
     THEN Reads(lex.src) /\ pc' = "fail" /\ UNCHANGED <<lex, call>>
     ELSE /\ lex' = [lex EXCEPT !.pend = Head(call.todo)]
          /\ call' = [call EXCEPT !.todo = Tail(@)]
          /\ UNCHANGED <<pc, stale>>
  /\ UNCHANGED <<heap, lost, result, par, linked, tree>>

FeedDone ==
  /\ pc = "feed" /\ call.todo = << >>
  /\ IF Scanning THEN pc' = "finalize" /\ UNCHANGED call ELSE Returns
  /\ UNCHANGED <<heap, lost, stale, lex, result, par, linked, tree>>

(* Eof is pushed and a new sequence takes the place of the one handed out, *)
(* unless the push or the new one is refused.                              *)
Finalize ==
  /\ pc = "finalize" /\ lex.pend = "none"
  /\ \/ \E b \in Block :
          /\ Malloc(b)
          /\ lex' = [lex EXCEPT !.seq = <<b>>]
          /\ IF Scanning
             THEN /\ call' = [call EXCEPT !.res = lex.seq] /\ pc' = "wrap"
                  /\ UNCHANGED result
             ELSE /\ result' = [result EXCEPT ![call.slot] = [kind |-> "TokSeq", own |-> lex.seq]]
                  /\ Returns
     \/ pc' = "fail" /\ UNCHANGED <<heap, lex, result, call>>
  /\ UNCHANGED <<lost, stale, par, linked, tree>>

(* Mutant of Wrap: the tokens of a scan without a LexOut are not freed.    *)
WrapKeepsTokens ==
  /\ pc = "wrap"
  /\ \/ \E b \in Block :
          /\ Malloc(b)
          /\ result' = [result EXCEPT ![call.slot] =
                          [kind |-> "LexOut", own |-> <<b>> \o lex.src \o call.res]]
          /\ lex' = [lex EXCEPT !.src = call.old]
          /\ call' = [call EXCEPT !.got = SubSeq(@, 1, Len(@) - 1), !.res = << >>, !.old = << >>]
          /\ pc' = "close"
     \/ /\ call' = [call EXCEPT !.res = << >>]
        /\ pc' = "fail"
        /\ UNCHANGED <<heap, lex, result>>
  /\ UNCHANGED <<lost, stale, par, linked, tree>>

(* LexOut_New: the source's name and the tokens are the LexOut's from now  *)
(* on, or the tokens are freed.                                            *)
Wrap ==
  /\ pc = "wrap"
  /\ \/ \E b \in Block :
          /\ Malloc(b)
          /\ result' = [result EXCEPT ![call.slot] =
                          [kind |-> "LexOut", own |-> <<b>> \o lex.src \o call.res]]
          /\ lex' = [lex EXCEPT !.src = call.old]
          /\ call' = [call EXCEPT !.got = SubSeq(@, 1, Len(@) - 1), !.res = << >>, !.old = << >>]
          /\ pc' = "close"
     \/ /\ Free(call.res)
        /\ call' = [call EXCEPT !.res = << >>]
        /\ pc' = "fail"
        /\ UNCHANGED <<lex, result>>
  /\ UNCHANGED <<lost, stale, par, linked, tree>>

(* ScanFile frees what it read. *)
Close ==
  /\ pc = "close"
  /\ Free(call.got)
  /\ Returns
  /\ UNCHANGED <<lost, stale, lex, result, par, linked, tree>>

(* A call returns false: a scan puts the lexer's own name back and frees   *)
(* its own and what it read.                                               *)
Fail ==
  /\ pc = "fail"
  /\ IF Scanning THEN lex' = [lex EXCEPT !.src = call.old] ELSE UNCHANGED lex
  /\ Free(call.got)
  /\ Returns
  /\ UNCHANGED <<lost, stale, result, par, linked, tree>>

(* Mutant of LexerReset: the sequence itself is freed. *)
LexerResetFrees ==
  /\ pc = "idle" /\ lex.on
  /\ Reads(lex.src)
  /\ Free(lex.seq)
  /\ lex' = [lex EXCEPT !.seq = << >>, !.pend = "none"]
  /\ UNCHANGED <<lost, result, par, linked, tree, pc, call>>

LexerReset ==
  /\ pc = "idle" /\ lex.on
  /\ Reads(lex.src)
  /\ Free(Strs(lex.seq))
  /\ lex' = [lex EXCEPT !.seq = <<Head(@)>>, !.pend = "none"]
  /\ UNCHANGED <<lost, result, par, linked, tree, pc, call>>

LexerFree ==
  /\ pc = "idle" /\ lex.on
  /\ Free(lex.src \o lex.own \o lex.seq)
  /\ lex' = NoLexer
  /\ UNCHANGED <<lost, stale, result, par, linked, tree, pc, call>>

-----------------------------------------------------------------------------
(* The caller's results, and the parser.  A caller frees a LexOut when no  *)
(* parser is linked to it.                                                 *)

ResultFree(s) ==
  /\ pc = "idle" /\ result[s] # NoResult /\ linked # s
  /\ Free(result[s].own)
  /\ result' = [result EXCEPT ![s] = NoResult]
  /\ UNCHANGED <<lost, stale, lex, par, linked, tree, pc, call>>

Link(s) ==
  /\ pc = "idle" /\ par.on /\ result[s].kind = "LexOut"
  /\ par' = [par EXCEPT !.link = result[s].own]
  /\ linked' = s
  /\ UNCHANGED <<heap, lost, stale, lex, result, tree, pc, call>>

(* Without a sequence Parse returns at once; else it reads the tokens.     *)
BeginParse ==
  /\ par.on /\ par.link # << >> /\ tree = << >>
  /\ Begins("parse", NewCall("parse", NoSlot, << >>))
  /\ Reads(par.link)
  /\ UNCHANGED <<heap, lost, lex, result, par, linked, tree>>

(* The program's node and a copy of the string of every name and literal.  *)
TreeSize == 1 + Len(par.link) - 3

(* Mutant of ParseAllocates: the node takes the token's own string.        *)
ParseAllocatesNothing ==
  /\ pc = "parse" /\ Len(call.got) < TreeSize
  /\ \E b \in Block :
       /\ IF call.got = << >>
          THEN Malloc(b)
          ELSE b = par.link[3 + Len(call.got)] /\ UNCHANGED heap
       /\ call' = [call EXCEPT !.got = Append(@, b)]
  /\ UNCHANGED <<lost, stale, lex, result, par, linked, tree, pc>>

ParseAllocates ==
  /\ pc = "parse" /\ Len(call.got) < TreeSize
  /\ \E b \in Block : Malloc(b) /\ call' = [call EXCEPT !.got = Append(@, b)]
  /\ UNCHANGED <<lost, stale, lex, result, par, linked, tree, pc>>

ParseSucceeds ==
  /\ pc = "parse" /\ Len(call.got) = TreeSize
  /\ tree' = call.got
  /\ Returns
  /\ UNCHANGED <<heap, lost, stale, lex, result, par, linked>>

(* An unexpected token or a refused allocation: the program's node is      *)
(* freed with the statements it has, but of the operands, blocks and       *)
(* statements not yet in it the rules free some and leave others behind.   *)
(* Which ones depends on the rules that run, and is Parser's model.        *)
ParseFails ==
  /\ pc = "parse"
  /\ \E left \in SUBSET {call.got[i] : i \in 2 .. Len(call.got)} :
       /\ FreeAllBut(call.got, left)
       /\ lost' = lost \union left
  /\ Returns
  /\ UNCHANGED <<stale, lex, result, par, linked, tree>>

(* Mutant of ParserReset: seq is not set to NULL. *)
ParserResetKeepsSeq ==
  /\ pc = "idle" /\ par.on
  /\ linked' = NoSlot
  /\ UNCHANGED <<heap, lost, stale, lex, result, par, tree, pc, call>>

ParserReset ==
  /\ pc = "idle" /\ par.on
  /\ par' = [par EXCEPT !.link = << >>]
  /\ linked' = NoSlot
  /\ UNCHANGED <<heap, lost, stale, lex, result, tree, pc, call>>

ParserFree ==
  /\ pc = "idle" /\ par.on
  /\ Free(par.own)
  /\ par' = NoParser
  /\ linked' = NoSlot
  /\ UNCHANGED <<lost, stale, lex, result, tree, pc, call>>

TreeFree ==
  /\ pc = "idle" /\ tree # << >>
  /\ Free(tree)
  /\ tree' = << >>
  /\ UNCHANGED <<lost, stale, lex, result, par, linked, pc, call>>

-----------------------------------------------------------------------------
Init ==
  /\ used = {} /\ lost = {} /\ misfreed = FALSE /\ stale = FALSE
  /\ lex = NoLexer /\ par = NoParser /\ linked = NoSlot
  /\ result = [s \in Slot |-> NoResult]
  /\ tree = << >>
  /\ pc = "idle" /\ call = NoCall

Step ==
  \/ Build \/ Open \/ PushToken \/ FeedLexeme \/ FeedDone
  \/ Finalize \/ Wrap \/ Close \/ Fail
  \/ ParseAllocates \/ ParseSucceeds \/ ParseFails

Next ==
  \/ \E kind \in {"lexer", "parser"} : BeginNew(kind)
  \/ \E c \in Chunk : BeginFeed(c)
  \/ \E s \in Slot : BeginFinalize(s)
  \/ \E kind \in {"buf", "file"}, c \in Chunk, s \in Slot : BeginScan(kind, c, s)
  \/ BeginParse
  \/ Step
  \/ LexerReset \/ LexerFree \/ ParserReset \/ ParserFree \/ TreeFree
  \/ \E s \in Slot : ResultFree(s) \/ Link(s)

Spec == Init /\ [][Next]_vars

-----------------------------------------------------------------------------
LexerType ==
  [on : BOOLEAN, own : Seq(Block), src : Seq(Block), seq : Seq(Block),
   pend : {"none", "word", "named"}]

ParserType == [on : BOOLEAN, own : Seq(Block), link : Seq(Block)]

ResultType == [kind : {"none", "TokSeq", "LexOut"}, own : Seq(Block)]

CallType ==
  [kind : {"none", "lexer", "parser", "feed", "finalize", "buf", "file", "parse"},
   slot : Slot \union {NoSlot}, todo : Seq(Lexeme),
   got : Seq(Block), res : Seq(Block), old : Seq(Block)]

TypeOK ==
  /\ used \subseteq Block /\ lost \subseteq Block /\ misfreed \in BOOLEAN /\ stale \in BOOLEAN
  /\ lex \in LexerType
  /\ lex.on => Len(lex.own) = 3 /\ Len(lex.src) = 1 /\ Len(lex.seq) >= 1
  /\ result \in [Slot -> ResultType]
  /\ par \in ParserType
  /\ linked \in Slot \union {NoSlot}
  /\ tree \in Seq(Block)
  /\ pc \in {"idle", "build", "open", "feed", "finalize", "wrap", "close", "fail", "parse"}
  /\ call \in CallType

(* Who has to free which blocks.  While a scan runs, in.src is the name    *)
(* the scan has made, and the lexer's own one is in old_src.               *)
Owner == {"lexer", "parser", "tree", "call"} \union Slot

Owned(w) ==
  CASE w = "lexer" -> lex.own \o lex.seq \o (IF call.old = << >> THEN lex.src ELSE call.old)
    [] w = "parser" -> par.own
    [] w = "tree" -> tree
    [] w = "call" -> call.got \o call.res
    [] OTHER -> result[w].own

(* Every block that is allocated has exactly one owner, at every step of   *)
(* every call and whatever was refused, but for the nodes that failed      *)
(* parses have lost, which nobody points to: nothing else is leaked,       *)
(* nothing will be freed twice, a LexOut shares nothing with its lexer and *)
(* a tree nothing with the tokens it was made of; and no block is freed    *)
(* that is not allocated (the labels of lexer.c:212-228, 1148-1155 and     *)
(* 1217-1223, token.c:188 and 375, lexer.c:56-62, rule.c:789-794).         *)
OneOwner ==
  /\ ~ misfreed
  /\ \A w \in Owner : IsInjective(Owned(w)) /\ Range(Owned(w)) \subseteq used \ lost
  /\ \A v, w \in Owner : v # w => Range(Owned(v)) \intersect Range(Owned(w)) = {}
  /\ lost \subseteq used
  /\ used \ lost \subseteq UNION {Range(Owned(w)) : w \in Owner}
  /\ pc = "idle" => Owned("call") = << >>

(* What is read is allocated, by a caller that frees a LexOut only when no *)
(* parser is linked to it: in.src at an unexpected byte and at a Reset     *)
(* (lexer.c:1004, 1044), and the LexOut of a Parse after any Links, Resets *)
(* and Frees (parser.c:64-66, 182).                                        *)
NeverStale == ~ stale
=============================================================================
