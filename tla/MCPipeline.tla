----------------------------- MODULE MCPipeline -----------------------------
(* Pipeline with a few short texts and two results at a time. *)
EXTENDS Pipeline, FiniteSets, TLC

CONSTANTS
  a, b,
  Blocks  (* number of blocks *)

MCBlock == 1 .. Blocks
MCSlot == {a, b}
Symmetry == Permutations(MCSlot)
MCChunk == {<<"named">>, <<"named", "named">>, <<"word", "bad">>}

(* No step tells one block from another: a view of the state in which a    *)
(* block that something points to is called by the first pointer to it,    *)
(* and the others are only counted.                                        *)
Pointers ==
  lex.own \o lex.src \o lex.seq \o par.own \o par.link \o tree
    \o call.got \o call.res \o call.old \o result[a].own \o result[b].own

Shape ==
  LET first == [x \in Range(Pointers) |->
                  CHOOSE i \in DOMAIN Pointers :
                    Pointers[i] = x /\ \A j \in 1 .. i - 1 : Pointers[j] # x]
      Named(s) == [i \in DOMAIN s |-> first[s[i]]]
      Places(S) == <<{first[x] : x \in S \intersect Range(Pointers)}, Cardinality(S)>>
  IN  <<Places(used), Places(lost), misfreed, stale,
        [lex EXCEPT !.own = Named(@), !.src = Named(@), !.seq = Named(@)],
        [s \in Slot |-> [result[s] EXCEPT !.own = Named(@)]],
        [par EXCEPT !.own = Named(@), !.link = Named(@)],
        linked, Named(tree), pc,
        [call EXCEPT !.got = Named(@), !.res = Named(@), !.old = Named(@)]>>
=============================================================================
