------------------------------ MODULE ByteSeq ------------------------------
(***************************************************************************)
(* What a FlexBuf promises its callers, with no mention of capacity,       *)
(* blocks or allocation: every live object holds a sequence of bytes, a    *)
(* push appends all of its data or none of it, and ret tells which.        *)
(***************************************************************************)
EXTENDS Sequences

CONSTANTS
  Obj,    (* handles of the buffers                        *)
  Chunk   (* the byte sequences that callers push          *)

VARIABLES
  alive,    (* the handles that hold an object             *)
  content,  (* the bytes of each one                       *)
  ret       (* the Boolean the last Boolean call returned  *)

vars == <<alive, content, ret>>

Init ==
  /\ alive = {}
  /\ content = [o \in Obj |-> << >>]
  /\ ret = TRUE

Create(o, s) ==
  /\ o \notin alive
  /\ alive' = alive \union {o}
  /\ content' = [content EXCEPT ![o] = s]
  /\ ret' = TRUE

Append2(o, s) ==
  /\ o \in alive
  /\ content' = [content EXCEPT ![o] = @ \o s]
  /\ ret' = TRUE
  /\ UNCHANGED alive

(* Out of memory: the caller is told, and no buffer changes. *)
Refuse ==
  /\ ret' = FALSE
  /\ UNCHANGED <<alive, content>>

(* Compact changes nothing a caller can read. *)
Accept ==
  /\ ret' = TRUE
  /\ UNCHANGED <<alive, content>>

Clear(o) ==
  /\ o \in alive
  /\ content' = [content EXCEPT ![o] = << >>]
  /\ UNCHANGED <<alive, ret>>

Free(o) ==
  /\ o \in alive
  /\ alive' = alive \ {o}
  /\ content' = [content EXCEPT ![o] = << >>]
  /\ UNCHANGED ret

Next ==
  \/ \E o \in Obj :
       \/ Create(o, << >>)
       \/ Clear(o)
       \/ Free(o)
       \/ \E s \in Chunk : Append2(o, s)
  \/ \E d \in alive, s \in alive : Append2(d, content[s])
  \/ \E o \in Obj, a \in alive, b \in alive :
       Create(o, content[a] \o content[b])
  \/ Accept
  \/ Refuse

Spec == Init /\ [][Next]_vars
=============================================================================
