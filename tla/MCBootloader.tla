---------------------------- MODULE MCBootloader ----------------------------
(***************************************************************************)
(* One executable of one word, one of two whose last bytes are padding, and *)
(* one that does not fit; the first may be in the flash from the start.     *)
(***************************************************************************)
EXTENDS Bootloader

(* The bytes 14, 15, 10 and 12. *)
MCSignature == 14 + 16 * (15 + 16 * (10 + 16 * 12))

MCKeys == [u |-> 1, s |-> 2, l |-> 3, e |-> 4, r |-> 5, y |-> 6, h |-> 7]

Short == <<8, 2, 0, 9>>
Padded == <<11, 3, 8, 2, 10, 9>>
Large == <<8, 8, 9, 9, 1, 0, 0, 1, 2, 0, 3, 0>>

(* As long as Padded, which it replaces in the flash. *)
Other == <<15, 15, 3, 9, 12, 7, 15, 15>>
OtherOnly == {Other}

MCFiles  == {Short, Padded, Large}
MCStored == {Padded}
=============================================================================
