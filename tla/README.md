# A TLA+ development of menos

menos is a small interpreter front end in C: growable and fixed byte buffers, a
lexer that is fed bytes and produces tokens, and a recursive-descent parser that
turns tokens into a tree. This directory holds TLA+ models of it, the TLC
configurations that check them and proofs for TLAPS. `PROJECT.json` maps every
definition to the lines it stands for. Paths below are relative to `src/src/`
of the repository unless they begin with `test`.

## Inventory

| component | state | operations | depends on |
|---|---|---|---|
| memory (`memory/allocate.c`) | the heap | Malloc, Realloc, Free | the C library |
| FlexBuf (`util/flex_buf.c`) | `buf`, `cap`, `len` | New, Clear, PushByte/DupByte/Buf/Str/StrWithNull/Fmt, Compact, Merge, Join, ToFixedBuf, Free | memory |
| FixedBuf (`util/fixed_buf.c`) | `buf` (NULL for no bytes), `len` | NewWithLen, NewFrom{Buf,Str,StrWithNull,Fmt,File}, Escape, Strip, Clone, Join, Clear, Free | memory, stdio |
| Token, TokSeq (`lexer/token.c`) | tag, position, text or value; array with `cap` and `len` | Token_Init, TokSeq_New, Push, Clear, Free, printing | FixedBuf, FlexBuf |
| keyword table (`lexer/lexer.c`) | constant rows by word length | NameToKeyword | - |
| Lexer (`lexer/lexer.c`) | machine state, pending text and number, token sequence, position, error, source name | New, Feed, Finalize, ScanBuf, ScanFile, Reset, Free, error queries | all above |
| LexOut (`lexer/lexer.c`) | source name and token sequence of one scan | New, queries, Free | FixedBuf, TokSeq |
| Parser driver (`parser/parser.c`) | source and tokens (borrowed from a LexOut), index, error | New, Link, Peek, Check, Expect, ExpectAny, Consume, Parse, Reset, Free | LexOut, rules |
| grammar rules (`parser/rule.c`) | the C stack of the descent | one function per rule | Parser driver, AST |
| AST (`parser/ast.c`) | tagged nodes, child pointers, statement sequences | New, Push, Free, FreeTree, printing | memory, FlexBuf |

The program is single-threaded and keeps nothing on disk. Components interact
by calls, and through ownership: a scan's source name belongs to the scan until
a LexOut takes it over, a Finalize swaps the lexer's sequence for a new one, the
parser borrows what a LexOut owns, a tree node owns its children.

### Hard behaviours, and what makes each component correct

- **FlexBuf.** Growth rounds *down* to a multiple of 8 before it doubles, so
  that the new capacity covers the length is an arithmetic fact and not an
  obvious one. A refused realloc must leave the object and its block as they
  were. Clear, Compact and growth in any order must never expose bytes that
  nobody pushed. Correct means: a byte sequence whose pushes happen in full or
  not at all.
- **FixedBuf.** `buf` is NULL exactly for no bytes, on which Strip, Clone and Join rely
  without looking. A constructor asks for up to four blocks one after the other, and each
  label gives back those it has got by then. Strip
  works with two indices and has a case for what is left at each end. Escape has a path on
  which nothing was assigned. Correct means: a text of the bytes that were put in, an escaped
  text from which they can be read back, no block lost whichever allocation is refused.
- **Lexer.** A byte that ends a lexeme is handed back (`FsmRes_Again`) and
  handled twice. A lexeme, a CR LF pair or a string may be split between two
  calls. The end of the input is handled by a second copy of the state machine.
  A call may fail at any allocation and at any byte; what it leaves behind has
  to be cleared by the reset. Correct means: tokens account for the whole text,
  at the positions they claim; errors point at the right byte; a reset lexer is
  as new; every call returns.
- **Tokens and LexOut.** Buffers owned by tokens are freed once, on
  every path (Clear, a failed scan, LexOut_Free). A scan lends its source name to the lexer
  and gives it to the LexOut or takes it back; the parser keeps a pointer into a LexOut that
  it does not own. Correct means: every block has one owner at every step, but for those of
  nodes that a failed parse has left behind, and what is read is still allocated.
- **Printing.** A sequence is printed into a buffer of its own and merged, a tree into the
  caller's buffer with a depth that recursive calls share; pushes may be refused anywhere.
  Correct means: the tokens can be read from what is printed, and a line has the
  depth of its node whatever was refused before it.
- **Parser, rules, AST.** The descent holds partly built trees on the C
  stack; each rule unwinds by labels of its own when a token is not expected or an allocation is
  refused, and several of them free less than they hold (see Findings). The error is sticky, Link does not clear it, and Parse may be called
  again. Correct means: a program is accepted as the grammar says, with the
  associativity of each level; on failure no node is freed twice, and on success nothing is
  left but the tree; no token beyond the last one is read.

## What is modelled

| module | kind | models |
|---|---|---|
| `Growth` | operators | the capacity arithmetic shared by every push, with the width of `usize` |
| `FlexBuf` | state machine | every operation of `util/flex_buf.c` on a set of handles |
| `ByteSeq` | abstract specification | what a FlexBuf promises: append all or nothing |
| `Lexer` | state machine | `lexer.c`: every handler, Feed, Finalize, ScanBuf, ScanFile, Reset |
| `Lexemes` | properties | a reading of text positions that knows nothing of the machine, and the properties stated with it |
| `Keywords` | constant | the table `kw_tok_map` |
| `Token` | constant | the tags of tokens, shared by lexer and parser |
| `Parser` | state machine | every rule of `parser/rule.c`, Link, Parse and Reset of `parser/parser.c`, allocation and freeing of nodes in `parser/ast.c` |
| `Syntax` | properties | a left-to-right scan that says which programs can be completed, the shape a tree must have, and the properties stated with them |
| `FixedBuf` | state machine | every call of `util/fixed_buf.c` on a set of variables |
| `Printing` | state machine | `TokSeq_PushAsStr` and the recursion of `AstNode_PushAsStr`, in a program that uses `FixedBuf` (EXTENDS it) between its prints |
| `Pipeline` | state machine | who owns which memory, from Lexer_New over scans, LexOuts, Link and Parse to the Frees, in every order a caller may choose |
| `MCFlexBuf`, `MCLexer`, `MCParser`, `MCPrinting`, `MCPipeline` | TLC | alphabets, chunks, programs and bounds |
| `FlexBufProofs`, `LexerProofs`, `ParserProofs`, `JudgedProofs`, `PipelineProofs`, `FixedBufProofs`, `PrintingProofs` | TLAPS | the theorems |
| `RecursionFacts` | TLAPS | least numbers, induction over sets of naturals, what `FlattenSeq` returns |

**FlexBuf to code.** `fb[o]` is the object behind handle `o`: `alive` between
New and Free, `buf` one of `null`, `block` (a block it owns) and `freed` (a block
realloc gave back), `cap`, `len` and `mem`, the bytes of its block, with `Junk`
where nobody wrote. `ret` is the last Boolean result. Each exported call is one
action. The three copies of the growth code (PushByte, PushDupByte, PushBuf) are one
operator `Push`; PushStr and PushStrWithNull are PushBuf of a chunk. An
allocation may be refused wherever the code asks for one and is always refused
above `MaxAlloc`. `overrun` remembers whether PushFmt wrote past `mini_buf`;
what it overwrites there is not followed further. PushFmt's texts have a
length that `vsnprintf` reports without error.

**Lexer to code.** `stat`, `str`, `num`, `seq`, `tok`, `err` are the fields of
`struct _Lexer`; `src` says whether `in.src` is the lexer's own buffer or that
of a scan. `pc`, `scan`, `todo` are the control of the call in progress: one
step `FeedByte` is one iteration of Feed's inner loop, `FeedDone` its end,
`Finalize` one call of Lexer_Finalize with the rest of the scan around it.
`text` (bytes consumed since the lexer was last fresh) and `out` (what the last
call handed out) are observers: the code has no such fields and no action reads
`text` but to record it in `out` and to bound the input. Bytes are names of
kinds: `"CR"`, `"quote"` and so on; one or two bytes of each kind stand for
all of it because no handler tells them apart. A token's keyword, name, number
or text is kept, the wording of error messages is abstracted to how many
were appended since the last reset. `str`, `msg` and `seq` are used through
what `ByteSeq` promises of a buffer: a push happens in full or is refused.

**Parser to code.** The C stack is `stack`, a sequence of frames with the running
rule first. A frame has the rule (`lvl` is the N of `ParRule_OpdN`; Expr is Opd8,
Opd0 is Base), the label `at` where it goes on, and its locals: the nodes it
holds and the operator token it consumed. A step runs a rule up to its next call,
loop test or return. Opd2 to Opd8 are seven copies of one text, and
`BinaryStarts`, `BinaryLoops`, `BinaryHasLhs`, `BinaryAgain`, `BinaryHasRhs` are
that text once; what differs is in the tables `BinTag`, `RightOpd` and `Unguarded` (the levels
that look for a token with ExpectAny, which does not test for NULL). `toks` and
`off` are the linked tokens and the index; `err` the error type, the number of
messages appended and the token whose position was recorded. `heap` maps the
names of allocated nodes and statement sequences to their tag, token and
children, and `ids` to what FreeTree visits from them. The program's node and its
sequence, and a node and the string it owns, are one object: they are
allocated and freed together. `misfreed`, `mark`, `astray` and `calls` are
observers: whether something was freed that was not there, where the last
Parse began to allocate, whether it began without a fresh program or in error.
Reading NULL ends in `pc = "crashed"`. The branches for a NULL token are in the
model although no run takes them but for `ParRule_Stmt`'s: that they are not
taken is what `CrashOnlyOutOfMemory` says.

**FixedBuf to code.** `fixed[o]` is what a variable of the program holds: `ptr` says
whether that is an object, NULL, or a pointer that no statement has assigned; `buf`
whether its `buf` is not NULL; `text` its bytes. `blocks` counts what malloc has granted and nobody
has freed. A call that makes a buffer is a sequence of steps, one for every allocation
(`FmtAllocates`, `EscapeAllocates`, `EscapePushes`, `BufAllocates`, `ObjAllocates`) and one for every
label it unwinds through (`FreeBuf`, `FreeDst`, `Returns`). `call` is the call in progress: `at` the
step it has come to, `o` the variable that gets its result, `from` the buffer Escape reads, `text` the bytes
the result is to hold, `buf` and `obj` whether it has these two blocks, and `tmp` how many blocks it has only
for its own time: the formatted text of NewFromFmt, or the object and the block of Escape's
FlexBuf. NewFromBuf, NewFromFmt, NewFromFile, Clone, Join and Escape differ in where they begin. The file system
is external: the read of NewFromFile may come short, which frees both blocks. Strip, Clear and Free
allocate nothing and are one step. `LeftIdx` and `RightIdx` are the values of `left_idx` and `right_idx`
after the loops of Strip. `Escaped` is, byte by byte, the switch of `FixedBuf_ToEscapedFlexBuf`. NewFromFmt takes no text
of exactly the size of `mini_buf`, the boundary that `flexbuf_fmt` shows of the same code in FlexBuf.

**Printing to code.** `page` is the caller's FlexBuf as a sequence of pieces, one for
what one push appends: a line break, a padding of so many spaces, a token, a
string, the label of a node. `TokensText` is the page of a whole sequence, because it
is merged in one push. A tree is the sequence of the depths of its nodes in preorder;
`frames` are the calls of `AstNode_PushAsStr_Recur` in progress, `dep` is `*dep`. PrintLine prints a node's
line or stops in the middle of it; PrintChild calls the next child and, like the code, does not
look at what it returns; PrintReturns counts the depth back. A program prints when its variables
are empty and no call makes a buffer (`Quiet`): printing reads none of them and makes and frees only buffers of its
own. Trees are printed with `ind >= 0`.

**Pipeline to code.** A block is any member of one pool, `Block`: `Malloc` grants any
block that is free, so that a freed block may come back as a part of any structure, and a pointer kept too long
then reads what is there now. That a tree has a block of a token, or two results have one in common, are states of the
model; that they are not reached is what `OneOwner` says. A structure and the array or string behind
it (a FixedBuf, a FlexBuf, a TokSeq, a node with its string) are one block: they are allocated and freed
together, in the steps that `FixedBuf`, `FlexBuf` and `Parser` show. Texts are reduced
to lexemes: `named` becomes a token that owns a FixedBuf, `word` one that owns nothing,
`bad` is an unexpected byte. `lex`, `par`, `result`, `tree` are the lexer, the parser, the caller's
results and tree, as sequences of the blocks they point to; `call` holds the locals of
the call in progress. A step is one allocation or one branch, and every allocation may be refused.
The caller may feed, scan, finalize, reset and free in any order, also after a failure. What
it may not do is named in the guards: use an object it has freed, overwrite a result or a tree
it has not freed (the slots), and free a LexOut while a parser is linked to it (`linked`). A
failed parse frees the program's node and any part of what else it got; the rest stays allocated
and is remembered in `lost`. Which nodes these are depends on the rule that failed and is `Parser`'s model; here it is any set
of them, which includes what the rules of the code leave behind after a syntax error and after a refusal.

**Switches for known divergences.** `LoneCR` allows a CR that no LF follows
and `CompactEmpty` allows Compact on an empty buffer that has a block. In both
cases the code does something the documentation and tests exclude (see Findings);
the runs about everything else keep them off. After a lone CR Feed never returns, so
that nothing further can be said of such a text.

**The caller of the lexer.** In `Lexer`, after a call that returned false the caller resets the lexer
before it feeds it again, as the tests do (`test/test_lexer.c:388`). What a Feed or Finalize after
a failure does to tokens is not modelled; what it does to memory is, in `Pipeline`.

## Runs

| run | shows | bounds |
|---|---|---|
| `flexbuf` | length within capacity, block owned, no unwritten byte, and refinement of `ByteSeq`, over all calls and refusals | 2 handles, 2 bytes, chunks of 0, 2 and 3 bytes, InitCap and Align 2, MaxAlloc 4, mini_buf 2; symmetric handles |
| `flexbuf_compact_empty` | finding: Compact of an empty buffer acts | as above, `CompactEmpty` |
| `flexbuf_fmt` | finding: a text of exactly `sizeof(mini_buf)` bytes | as above, with such a text |
| `lexer_scan` | tokens and the pending lexeme account for the text, and so does what is handed out, with each keyword, its prefix and its extension tagged as the whole word (`continue` and its prefix, which the table misfiles, as a name or a keyword); errors are at the byte; a reset lexer is as new; calls return and look at no byte more than twice | every text of up to 4 bytes over 12 bytes, in every division into chunks, and every keyword, less its last byte, whole and a byte longer, fed to a fresh lexer; the real table; any allocation refused; any number of failures and resets |
| `lexer_continue` | finding: `continue` is a name | two chunks |
| `lexer_angle_eof` | finding: `>` and `<` at the end become braces | 2 bytes |
| `lexer_lone_cr` | finding: Feed does not return | 2 bytes |
| `parser_programs` | a program is accepted exactly when the scan of `Syntax` accepts it, an error is at the first token with which no program can begin, the tree has the grouping of parentheses and levels, and every parse returns | all expressions of up to 4 tokens over 7 tags, every pair of binary operators, parentheses on either side, all texts of up to 3 statement words, blocks and ifs nested twice; one parse |
| `parser_faults` | nothing is freed that is not allocated, a success leaves exactly its tree, a parse of a fresh program never reads past the end, verdicts stay right, every step brings a parse nearer to its end | 10 programs, one or two for each way a rule ends; any allocation refused; two parses with Link, Reset and FreeTree in any order |
| `pipeline` | every allocated block has exactly one owner or was left behind by a failed parse, nothing is freed twice, a tree shares nothing with the tokens it was made from, nothing freed is read | one lexer, one parser, one tree, 2 symmetric slots for results, texts of 2 lexemes at a time, at most 2 names or strings in the lexer, one pool of 16 blocks, seen up to their names |
| `printing` | whichever allocation of a FixedBuf is refused, the labels free what the call has got by then; `buf` is NULL exactly for no bytes, Strip and Escape against their references, tokens can be read from the page, lines of a tree are at their depth | 3 symmetric variables, 10 texts of up to 3 bytes, together at most 6 bytes; 23 sequences of up to 2 tokens, 4 trees of up to 6 nodes, `ind` of -1, 0 and 2; any allocation refused |
| `printing_escape` | finding: a print that finds no memory for an escaped string may use an unassigned pointer | as above |

Why the bounds are enough. *FlexBuf*: with InitCap and Align 2, two growths
fit below MaxAlloc 4 and the third is refused; chunks of 2 and 3 make a
first push that is below, at and above InitCap; two handles make Merge and Join
possible (Join needs a third only for two different sources, and its
result can be built in one handle from the other one twice, a case that exercises both
pushes). *Lexer*: the machine's longest chain of states is
lexeme, handed-back byte, next lexeme; four bytes hold a two-byte operator or a
keyword between two other lexemes, a string literal with two quotes, or a line
break in the middle. A chunk of four bytes and chunks of one make every division
of those texts reachable, the empty chunk included. `UsizeMax` is 31 in the runs
so that number literals wrap (77 does). `MaxText` bounds the bytes fed in several calls between two
resets, and a longer text is fed in one call; neither bounds the number of calls: a lexer may be reset,
fail and finalize for ever.

*Pipeline*: what failed parses leave behind is never given back, so that in a long run the pool becomes
smaller and in the end every allocation is refused; 16 blocks hold a lexer, a parser, two results and a tree
before that. No step tells one block from another, so states that differ only in the names of the blocks are one to TLC:
the view `Shape` of `MCPipeline` calls a block by the first pointer to it and counts the ones nothing points
to. Two slots are needed for a parser linked to a LexOut
while the other one is made, freed and linked. With two names in a sequence a scan can fail between the first and the second, and a parse
can leave one copy behind and free the other. *Printing*: three variables are the operands and the result of
Join. The texts have blanks at either end, at both, inside, and nothing else; one byte and more between
blanks; and one byte for each case of Escape but `\t` and `\r`; that every one of the 256 bytes is read
back is an assumption of `MCPrinting` that TLC evaluates. The trees have a node with several children, one whose child has
children, and a return over two levels.

*Parser*: the levels differ only in their operators and in the level of the right
operand, so every pair of operators, with a unary operator between, shows every
grouping of two levels; a third level adds nothing because a rule knows only
the level below. Four free tokens hold every local mistake (an operator
without operand, a parenthesis unopened or unclosed). `MaxParse` is 2 because what one parse
leaves to the next is `off`, `err` and the caller's tree, and one parse brings each about.
Deadlock is not checked in these two runs, nor in `printing`: a process that has read NULL, or through
a pointer nobody assigned, stops.

**Fairness.** `FairSpec` adds weak fairness of `LexerStep`, the steps of a
call in progress. The code justifies it: a call runs on the caller's thread
until it returns, nothing in it waits. The caller is under no obligation to
call at all. `CallReturns` therefore says that the machine leaves the inner loop
for every byte, which a handler that answers Again without changing
state would prevent. It is checked with refused allocations, for input without lone CRs;
`lexer_lone_cr` shows that it fails with them. `CallAdvances` says why it holds otherwise, without fairness: a byte that is handed back finds the
machine in Idle, which hands none back. `FairSpec` of `Parser` is the same
for `ParserStep`, and `ParseEnds` says that no loop of `rule.c` goes round without
consuming a token or failing. `Descends` says why, without fairness and for parses begun in any state.

## Proofs

The theorems hold for every value of the constants that
satisfies the named assumptions.

Assumptions. `GrowthAssumption`: `InitCap >= 2 * (Align - 1)`, which is exactly
what makes a capacity rounded down and doubled cover the length (the code has 16 and
8). `AddressSpaceAssumption`: sizes of blocks that exist, and a
length added to one, stay in the lower half of `usize`, as they do in a 64-bit
address space; a 32-bit build would not guarantee it. `FlexBufAssumption`,
`LexerAssumption` and `KeywordAssumption` give types, kinds of bytes that do not
overlap, and a table whose rows hold words at least as long as their index and
told apart by that many bytes. `ParserAssumption`: every program handed to the parser
ends with its one Eof, which `lexer_scan` checks of what the lexer hands out. `FixedBufAssumption`: a program has finitely
many variables, `NoObj` is none of them, and texts are sequences of bytes. `PrintingAssumption`: tokens have such texts, and a
tree's depths in preorder are those of a tree, 0 for its root and otherwise at most one more than that of the node
before. `PipelineAssumption`: names are told apart, in particular a slot
of the caller is not called like the lexer or the parser.

| theorem | says |
|---|---|
| `FlexBufProofs!TypeCorrect`, `LenAlwaysWithinCap`, `ContentAlwaysWritten` | the three invariants of FlexBuf |
| `FlexBufProofs!BlockAlwaysOwned` | the same of `BlockOwned`, when no empty buffer is compacted |
| `FlexBufProofs!GrowCovers` | `NewCap(need) >= need`, without wrapping |
| `FlexBufProofs!Refinement` | FlexBuf implements `ByteSeq`, steps map to steps or stutters |
| `LexerProofs!TypeCorrect` | Lexer's type invariant |
| `LexerProofs!AlwaysPristine` | a lexer that has consumed nothing since a reset or a result is as new |
| `LexerProofs!AlwaysErrorAtByte` | an unexpected byte is reported at its line and column, once (`ErrorAtByte`), for texts that `usize` can count |
| `LexerProofs!AlwaysLossless` | while no call has failed, the tokens and the lexeme being read spell the consumed text but its blanks, each where it says, with its value and as long as it can be (`Lossless`), for the same texts |
| `LexerProofs!AlwaysOutputLossless` | what is handed out is the tokens of its whole text and Eof at its end (`OutputLossless`), for the same texts |
| `LexerProofs!AlwaysAdvances` | each step of a call but its last consumes a byte, hands it back to Idle from another state or goes on to Finalize (`CallAdvances`), for texts without a lone CR |
| `ParserProofs!NeverBeyondLastToken` | a parse of a fresh program looks at no token beyond the last (`CrashOnlyOutOfMemory`) |
| `ParserProofs!TypeCorrect` | Parser's type invariant: no NULL and no unknown tag gets into the tree |
| `ParserProofs!AlwaysOwned` | nothing unallocated is freed, and a successful parse leaves exactly its tree, in which every node has one parent (`Owned`) |
| `ParserProofs!AlwaysDescends` | every step of a Parse but its last makes its variant smaller (`Descends`), so that no Parse goes on for ever |
| `JudgedProofs!AlwaysJudged` | a parse of a fresh program accepts what the scan accepts and otherwise blames the token at which the scan goes wrong, unless memory ran out (`Judged`) |
| `JudgedProofs!AlwaysWellShaped` | the tree of a parse of a fresh program that succeeds has the words of the program as its nodes, once each, grouped as parentheses, braces and levels say, with its parts in order (`WellShaped`) |
| `PipelineProofs!TypeCorrect` | Pipeline's type invariant: a lexer always has its three own blocks, its source's name and its sequence |
| `PipelineProofs!BlocksOwnedOnce` | every allocated block has one owner or was left behind by a failed parse, what was left behind is nobody's, nothing unallocated is freed, whatever was refused (`OneOwner`) |
| `PipelineProofs!ReadsAllocated` | no freed block is read (`NeverStale`) |
| `FixedBufProofs!BuffersTyped` | FixedBuf's type invariant |
| `PrintingProofs!PrintsBetweenCalls` | a behaviour of `Printing` is one of `FixedBuf` |
| `PrintingProofs!AlwaysAccounted` | at every step the blocks malloc has granted are those the buffers hold and those the call in progress has got, so that a refused constructor keeps nothing (`BlocksAccounted`) |
| `PrintingProofs!AlwaysNullIffEmpty` | a buffer has no block exactly while it has no bytes (`NullIffEmpty`) |
| `PrintingProofs!AlwaysStripsToText` | Strip leaves the text between the blanks, for texts of any length (`StripsToText`) |
| `PrintingProofs!AlwaysEscapeReadsBack` | what Escape makes is read back as the original, for texts of any length (`EscapeReadsBack`) |
| `PrintingProofs!AlwaysTyped` | Printing's type invariant: `*dep` never falls below 0, whatever was refused |
| `PrintingProofs!AlwaysTokensReadBack` | the tokens read from what is printed are those of the sequence, for sequences of any length and any `ind`, and a failed print has printed nothing (`TokensReadBack`) |
| `PrintingProofs!AlwaysTreeLines` | whatever was refused, the lines of a tree are in order, under those they belong to, indented by their depth, and the answer is whether the root's line is there, for trees of any size (`TreeLines`) |

The argument for FlexBuf. The invariants are not inductive alone: a push writes inside
its block only if the capacity is the block's size, the arithmetic does not wrap only
if capacities stay below `MaxAlloc`, and a handle without an object must
not carry a stale length. `IInv` is that conjunction (`WellFormed` of every
object). One lemma per operator says what it does to a well-formed
object (`ResizedWellFormed`, `WrittenWellFormed`, `PushedWellFormed`), one lemma replaces a
single object in `fb`, and `StepIInv` has one step per call. The refinement reuses
`IInv`: a growth keeps the content (`ResizedContent`), a write appends
to it (`WrittenContent`), so a push is `Append2` or `Refuse`, a Compact `Accept`
or `Refuse`.

The argument for Lexer. The type invariant goes through one lemma per answer of a
handler (`OkTyped`, `AgainTyped`, `ErrorTyped`), then one per state. `Pristine` alone is not inductive: in
the middle of a call with nothing consumed the machine must already be known to
be as new, and `in.src` must be a scan's only while a scan runs. `PInv` says both. The induction
step is that each handler either consumes a byte (and `text` grows), fails (and `ret`
is false until a Reset), or hands a byte back, which it only does in a state a fresh
lexer is not in.
`ErrorAtByte` needs to know where `tok` is (`LInv`): at the end of the text (`Located`: the row is the number of line breaks, the column what
follows the last), or in the line before while a CR waits for its LF, and no text ends in a CR in any other state, because then an LF would take a line
break back that has been counted. `BreaksAppended` says what one byte does to the set of breaks, `LocatedByte` and `LocatedBreak` what
it does to the place. This theorem and the next two suppose `TextsFit`: fewer bytes than `usize` has values are fed in one call, and in several calls. Without it rows and
columns wrap and the statement is false; a text of `usize` length does not exist in memory. The constants of the runs satisfy it.
`Lossless` locates a token by row and column, so its proof first shows that at most one byte of a text is at a row and column (`PlaceUnique`) and
that the place of a byte does not change when the text grows (`PlaceStays`), unless an LF follows a CR, which `LInv` excludes for a byte that begins a
lexeme. `Spot` and `HeldAt` then speak of a lexeme that begins at byte `p`, `HeldWhere` and `HeldHolds` go from spans to spots and back. `Lossless` alone is not
inductive: a byte that follows a token could belong to it. `Tight` adds that a token at the end of the text
is of a kind no byte prolongs, or that the call is about to look at a byte, handed back, which it cannot take; `SInv` is the two together. Every handler's answer is one of
five: a blank is skipped (`SkippedLossless`), a lexeme is begun (`StartedLossless`), prolonged (`GrownLossless`), ended before the byte (`EndedLossless`)
or with it (`ClosedLossless`, `OneByteLossless`), and one lemma per state shows which. `Word` is what a state knows of the bytes read; that the number that wraps at
every digit is the wrapped value of all digits is `DecimalAppended`, from `WrapTen` and `WrapAdds`. What the tag of a finished name may be is `NameSays`: it holds of
every table that `KeywordAssumption` admits because words filed in a row that is not that of their length are left
open by `Says` (`IsMisfiled`); the program has one, `continue`, and `lexer_continue` shows what becomes of it.
`OutputLossless` follows for the tokens pushed before, and for the lexeme that the end of the text completes from `Word` (`AllHanded`).

The argument for Parser. A token is there to be looked at as long as Eof has not been consumed,
and only ParRule_Prog consumes it. So the invariant `IInv` says, while a fresh program is parsed:
there is a token at `off` while any rule runs or after a failure (`Within`), and
`Prog` is at the bottom of the stack, at its loop test only when it is
alone there and nothing has failed (`ProgOutermost`). The second part is what makes the
step that consumes Eof harmless: the stack is empty after it, and no
error is left to be located. Frames are typed only as far as the argument needs.
Three lemmas say what a return, a replacement and a call do to the stack, a step is a
`Move` when it does one of these and consumes at most a token other than Eof, and one
lemma per rule shows that its steps are Moves.
`TypeOK` needs two facts more (`TInv`): a rule that returns without a failure returns a node, which is why the callers
may put `res` into a tree, and the token an operator rule keeps during a call is one of its level's table, which is why
its node has a tag. `HeapTyped` and `StackTyped` say of a step what `Allocates`, `Frees`, `Pushes` and the moves
of the stack give, and `StepTyped` puts the two together for every rule.
`Owned` speaks of the memory when a parse has returned, so its invariant (`OInv`) has to say
who owns what while rules run (`RunOwned`): a node is the root of a tree whose nodes are allocated and have one parent each (`Shaped`),
the locals of each rule and the node returned last are roots of trees made since the parse began that have no node in common (`Apart`, `AllApart`),
and, as long as nothing has failed, there is no other new node. After a failure the last part is not true, since several rules free too little,
the others still are: what is freed is freed once. `Arity` says how many nodes a rule holds at each label. A step
of a rule touches only the trees of the nodes in its hands (`Spares`) and goes on with nodes that own all of these and what is new (`Carries`); one lemma
says this of each use of the memory (`CarriesNew`, `CarriesPushed`, `CarriesSame`, `FreesSpares`), one lemma per move of the stack takes
it to `OInv'`, and one lemma per rule puts them together. The caller's older tree is untouched because all its nodes are below `mark`.

The argument for Descends. `Variant` has four natural numbers, compared from the first on: whether a failed parse only returns
from its rules yet, the tokens left, whether the running rule is at its start, and then how many rules are called before one looks at a token
(`StepsToLook`), or how many returns and loop tests are left. The invariant (`VInv`) is `OInv` and that no more tokens are consumed than there are.
There are four kinds of steps: a token is consumed, a rule is called, a rule returns (a failure is a return), a loop is entered or gone round. Each
has a lemma (`ByToken`, `Deeper`, `Back`, `Round`) that says which number is smaller, and one lemma per rule names the kind of each of its steps.
A return needs of the invariant that callers wait at labels from which they return or go on, which keeps
a failed parse from being resumed. Of `ParseEnds` this leaves only that a running parse has a step to take, which is ENABLED and so stays with TLC.

The argument for CallAdvances. That a byte handed back is handed back to Idle is a matter of each handler, but for the one of
state CrLf, which hands a byte other than LF back to itself. The invariant (`CInv`) keeps such a byte away: no CR without
an LF behind it is in the text consumed and what the call still has, taken together, and in the state CrLf the text
ends in a CR (`LineFeedFollows`). This is where the assumption on lone CRs enters, for all divisions of a text into calls: the CR may end one and its LF begin the next.
Of `CallReturns` this leaves only that a call in progress has a step to take.
A step that changes nothing is a stutter, of which an action property says nothing; the lemmas behind the two theorems, `StepAdvances` and
`StepApproaches`, are about every step and show that there is none.

The argument for Judged. The reference, `Scan`, is a machine with one stack of open constructs; the parser has one frame per
rule. The invariant `JInv` relates the two at every step (`Follows`): what is open around each frame is determined by the frames below it
(`Nested`, `Inside`), and the label of the running frame says what the scan expects at `off` and which operators the next
token is already known not to be (`Stands`: behind an operand of level n no operator of the levels up to n). Without the second
half an operator rule that returns would not know that the token it leaves belongs to a rule below. `Awaits` says which rules a
frame can have called, `Leaves` where a rule leaves the scan when it returns, and `ReturnsTo` that this is where the
caller goes on. After a failure the frames only wait (`Waits`), the error is that of the token at `off` (`Blamed`) and nothing
is consumed any more. Four lemmas (`FollowsReturns`, `FollowsStays`, `FollowsBecomes`, `FollowsCalls`) say what a move of the
stack needs, three what a failure needs; one lemma per rule then compares its test of the next token with the scan's step. `Scans` is a recursive function
over the tokens, which exists by `ScansOf`.

The argument for WellShaped. The property speaks of the tree of a whole program; while rules run there is no such tree, but
many small ones in the locals of the frames. The invariant (`Tells`) says what they and the frames together
tell of the first `off` tokens, as long as nothing has failed:

- Every name, literal and operator read is in one node made since the mark, or is the operator that a frame has read and
  keeps in `tok` until its operand is there (`Said`, `Sound`, `Marked`). Nodes are counted only through
  this: no two are of one token, so each token has one.
- What a frame holds comes behind what the frames below it hold, and what was returned last behind all
  of them (`Fits`, `Holds`). Without that, a new node's children could not be known to be in order, nor on their operator's
  sides. `Encloses` says that what is below a new node was made since the mark too.
- The braces open at a token of a tree are the blocks around it in the tree plus the block statements begun below it on the stack;
  the parentheses open at an operator are those that frames below it have begun; so are the conditions and branches
  not made yet (`Begun`, `Count`, `Tallied`). A node's level and the parentheses around it bound what it may hold: `Bounded` says
  that the node a rule is given is a leaf, in more parentheses, or of a level up to the one that was asked for
  (`Due`), and `LeftOpd` what the left operand of an operator may be, which for levels 2 and 8 is one level less.
  The rules of levels 2 and 8 call themselves for the right operand, so the token behind it is no operator
  of their level (`Poised`): their loop makes one node at most, whose left operand is of a lower level.
- A sign of an assignment has its node, or a frame waits for the right side and holds the name just before
  the sign (`Assigned`).

A rule's step makes at most one node of all that it has in its hands, or pushes the one it was given to its
sequence, so the heaps before and after differ in one node (`Changes`); `SpanSteady`, `SoundChanges` and
`SpineSteady` say that the others mean what they meant, because by `OInv` nobody else holds or owns what is in the hands.
`TellsReturns`, `TellsStays` and `TellsCalls` then say what each move of the stack keeps, `Balances` what it must do
to the tallies with the token it consumes, and one lemma per rule (`BaseTold` to `ProgTold`) computes that. Where a rule
stands in the scan (`JInv`) tells it which tokens those are. When Parse returns the stack is empty and `off` is the number of
tokens, so nothing is begun or waited for, and the tree is all there is since the mark (`OInv`): `FinishedShape` reads `WellShaped` off `Tells`.

The argument for Pipeline. `OneOwner` says which blocks are owned by whom and `NeverStale` what is read, but neither
is inductive: `IInv` adds that what is not there owns nothing (`Absent`), that a call's local variables are
empty between calls and hold what the step reached says (`Locals`), and that the LexOut a parser points to is the
one in the slot the caller linked last, or none (`Linked`). A step moves blocks between
two owners at most; `Redistributed` says what such a move does to `OneOwner`, whichever the owners
are, and one lemma per step of a call shows that the step is such a move. A failed parse moves the blocks it does not
free from the call to `lost`, whichever they are. `NeverStale` then follows from
`Linked`: the caller does not free a LexOut while the parser is linked to it.

The argument for FixedBuf. `BlocksAccounted` counts at every step, in the middle of a call too, so its invariant
(`Sound`) has to say what a call has got by the time it has come to a step (`GotByNow`): before `buf` it has neither block nor object, at `obj` and `FreeBuf` no object,
and at `return` an object with a block exactly for some bytes, or none of the two. `Targets` says that the variable of the
result is not an object yet, so that nothing is overwritten, and that the one Escape reads is. `OneMember` says how a cardinality changes when one variable
joins or leaves a set, `OneCounted` what becomes of the count when one variable changes. There are three
kinds of steps: a call begins (`BeginsSound`), goes on to another step (`GoesTo`) or ends with an assignment (`CallEnds`); one
lemma per step shows of which kind it is and that it changes `blocks` by as much as its locals and the
variables. `NullIffEmpty` and the type of the texts (`AllWellFormed`) are inductive together with `GotByNow`, which
says that what is returned has a block exactly for some bytes, once it is known what Strip keeps: `Left` and `Right` show that the two indices exist,
by the least number with a property, and `KeptText` that what lies between them is not empty and is the trimmed text. That
text against the count of its non-blank bytes (`EmptiedText`, `KeptHasTwo`) is `StripsToText`.
`ReadsBack` is an induction over the bytes of the original from the last to the first: the reader's recursive function
exists (`UnescapedReads`), reads the escaped form of one byte as this byte and goes on behind it (`PartRead`),
and `FlattenSeq` puts these forms one behind the other (`RecursionFacts!PartPlaces`). That all of it holds
of `Printing` follows from `PrintsBetweenCalls`.

The argument for Printing. `TokensReadBack` and `TreeLines` speak of places on the page taken in order. `InOrder` is a
definition of the module because that of the library is made with an operator of TLC's that the prover cannot open;
`OrderExists` shows by induction that a bounded set can be put in order, `InOrderIs` that whatever increases and has
its members is that order. `TextShape` says where in the printed text the tokens are, from `RecursionFacts!PartPlaces`; these places increase, nothing else
there is a token, and so they are the order. A tree's call is over after many steps, so `TreeLines`
needs an invariant of those in between (`Printed`). `Walk`: the frames are the way from the root to the running call's node, each in the
middle of the call for its successor, so that what is above the node has a frame (`AboveHasFrame`) and what is still to be called comes behind it
(`NextIsBehind`). `Behind`: every frame that has printed its line has that line on the page, and no label there is at or behind a node still to be called.
`Lines` is `TreeLines` without the order. What a call prints, a line or the part of one before a refused push, is
an extension by at most its own label (`LinesGrow`), which keeps `Lines` because of the first two. `dep` is the number of frames whose
line is printed: a refused push returns before it is counted. One lemma for each of the three changes of
the stack says what becomes of `Walk`, one of `Behind`, and one lemma per action puts them together.

Induction over naturals is done with sets: `LeastNat`, from the library's `WFMin`, gives the least member of a set, and
`NatIsAll` and `UpToAll` that a set with 0 that is closed under + 1 holds them all. The library's induction theorems, whose parameter is an
operator, cannot be instantiated by the provers; these can.

Only model-checked: `ParseEnds` and `CallReturns`, which are liveness: liveness under fairness is out of the prover's reach.
That a parse and a call of the lexer cannot go on for ever is proved (`AlwaysDescends`, `AlwaysAdvances`); that they are not stuck is ENABLED.
Every invariant and every action property that a passing run checks is also a theorem.

## Findings

1. **Compact of an empty buffer** (`util/flex_buf.c:380`). The doc says no action
   is taken; the code calls realloc with size 0, which may free the block, and
   reports a failure with `buf` still set. Run `flexbuf_compact_empty`.
2. **A text of exactly 256 bytes** (`util/flex_buf.c:279`). The comparison
   of the length with `sizeof(mini_buf)` forgets the NUL. Run `flexbuf_fmt`.
3. **`continue`** (`lexer/lexer.c:159`) is filed under length 7, the largest
   length that is looked up, and is lexed as a name. Run `lexer_continue`.
4. **`>` and `<` at the end of the input** (`lexer/lexer.c:867`, `:882`)
   become braces. Run `lexer_angle_eof`.
5. **A lone CR** (`lexer/lexer.c:506`) followed by any byte but LF keeps Feed in its inner loop.
   Run `lexer_lone_cr`.
6. **Escape without memory** (`util/fixed_buf.c:249`). When the escaped text finds no memory Escape returns a
   variable that no statement assigned, and Token_PushAsStr goes on with it where the doc of
   `TokSeq_PushAsStr` promises `false`. Run `printing_escape`.

More things the models show and no document contradicts:

- Finalize returns false without an error type when it cannot push Eof (`FinalizeFails`),
  and after its second failure point the Eof is already in the sequence.
- Strip drops a single byte between blanks, and a buffer of one byte (`util/fixed_buf.c:299`), as
  `StripsToText` states.
- `FixedBuf_NewFromFmt` has the boundary of finding 2 too (`util/fixed_buf.c:98`).
- TokSeq_PushAsStr breaks lines for `ind >= 0` where its doc (`lexer/token.c:285`) speaks of `ind` not
  zero, and ends an empty sequence in `]>` without the `[`.
- AstNode_PushAsStr does not look at what its calls for the children return: it answers true
  although lines are missing. With a negative `ind` it would ask for nearly 2^64 spaces (`parser/ast.c:293`).
- String literals of a tree are printed as they are, those of tokens escaped.
- The table of hex digits for error messages has an extra 0 (`lexer/lexer.c:969`).

What the parser's model shows and no document speaks of, so that no run claims otherwise:

- Failed parses leave nodes behind: binary operators free only the root of their left operand
  (`AstNode_Free`), Opd1 nothing of its operand when there is no memory for
  the operator, BlockStmt not its sequence, Block only the root of the statement it cannot push.
- AsgnStmt calls `AstNode_FreeTree(NULL)` when there is no memory for its node
  (`rule.c:566`): the one crash of a parse of a fresh program.
- Link does not clear the error of an earlier parse, so every later one fails until a Reset; an empty
  program then ends in `Parser_SetErrorInfo` reading a token past the end. A
  second Parse without a Link starts at the end of the tokens and reads NULL in ParRule_Stmt.
  Both are `astray` in the model.

## Not modelled

- `AstSeq_Clear`, `AstSeq_PushAsStr`, `TokSeq_Compact` and the constructors of nodes that nothing calls
  (`AstNode_NewUnaOp`, `AstNode_NewBinOp`). TokSeq's array grows by the text of FlexBuf's PushByte.
- Opening and reading files beyond their failing, the wording of messages, the labels of printed trees,
  positions and numbers of printed tokens: formatting that no property is about.
- A lone CR, but for the run that shows what Feed does with it; a negative `ind` for trees; a
  formatted text of exactly 256 bytes in FixedBuf.
- `test/` is read for what it expects; `test/greatest.h` is a vendored test framework.

## Plan

1. `FlexBuf` with `ByteSeq`, `Lexer` with `Lexemes` and `Keywords` (done).
2. `Parser` with `Syntax`: the descent as a machine with an explicit stack, and its nodes
   (done; the theorems that it reads no token past the end, and what it accepts and blames, too).
3. `Pipeline`: Lexer_New, scan, LexOut, Link, Parse, the Frees in the
   orders callers may choose (done).
4. `FixedBuf` and `Printing`: Strip, Escape and the printed forms against reference definitions,
   with failures (done; the theorem that no block is lost too).
5. Proofs about `Pipeline`: `OneOwner`, and from it `NeverStale`; about `FixedBuf`: `NullIffEmpty`, Strip and Escape (done).
6. Proofs about `Parser`: type correctness (which needs that an operator's token is in its level's
   table, and that a rule that has not failed returned a node), and that nothing is freed twice (frames hold
   disjoint trees that are all allocated) (done).
7. Proofs about `Lexer`: errors are at their byte, nothing of the text is lost, doubled or misplaced
   (done).
8. Proofs about `Printing`'s own state: its type invariant, `TokensReadBack` and `TreeLines` (done).
9. Proof of `WellShaped`: what the trees and the frames say of the tokens read (done).
10. Proofs that every step of a parse and of a call of the lexer brings it nearer to its end (done).
