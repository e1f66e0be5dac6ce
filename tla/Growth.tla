------------------------------- MODULE Growth -------------------------------
(***************************************************************************)
(* The capacity arithmetic every push of a FlexBuf performs                *)
(* (src/src/util/flex_buf.c).  Sizes are of type usize: additions and      *)
(* shifts wrap modulo UsizeMax + 1.                                        *)
(*                                                                         *)
(* In the code InitCap is 16 and Align is 8 (the mask ~0x7UL), and         *)
(* UsizeMax is 2^64 - 1.  They are parameters, so that TLC can reach       *)
(* several growths with few bytes and the theorems hold for every choice   *)
(* that satisfies GrowthAssumption.                                        *)
(***************************************************************************)
EXTENDS Integers

CONSTANTS
  InitCap,  (* capacity of the first block, INIT_CAP *)
  Align,    (* a requested length is rounded down to a multiple of Align *)
  UsizeMax  (* the largest usize *)

ASSUME GrowthAssumption ==
  /\ Align \in Nat \ {0}
  /\ InitCap \in Nat \ {0}
  /\ InitCap >= 2 * (Align - 1)
  /\ UsizeMax \in Nat
  /\ InitCap <= UsizeMax

Usize == 0 .. UsizeMax

Wrap(n) == n % (UsizeMax + 1)

(* Mutant of NewCap: rounds down without doubling. *)
NewCapWithoutDoubling(need) ==
  IF need < InitCap THEN InitCap ELSE Wrap(need - (need % Align))

(* The capacity requested when need bytes do not fit: INIT_CAP for a small *)
(* length, else (need & ~0x7) << 1.                                        *)
NewCap(need) ==
  IF need < InitCap THEN InitCap ELSE Wrap(2 * (need - (need % Align)))

(* The half of usize in which the shift of NewCap does not wrap. *)
Shiftable == 0 .. (UsizeMax \div 2)
=============================================================================
