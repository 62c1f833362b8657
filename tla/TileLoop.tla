------------------------------ MODULE TileLoop ------------------------------
(***************************************************************************)
(* The loop that every vector kernel of the runtime is built around: a     *)
(* do-while over tiles of vl elements.  Most kernels refit vl before each   *)
(* tile ("if (j+vl) < len then MAX_VLEN else len-j"); some configure it     *)
(* once.  vl is a local of the whole function, so a sweep begins with       *)
(* whatever the last tile of the sweep before it left there.                *)
(***************************************************************************)
EXTENDS Integers

VARIABLES
  n,      (* Length of the array that one sweep covers.                     *)
  cap,    (* MAX_VLEN_ADD or MAX_VLEN_MAC.                                  *)
  fixed,  (* The vector length is configured once and never refitted.       *)
  vl,     (* The vector length of the last tile.                            *)
  j,      (* Elements done in this sweep.                                   *)
  at      (* "tile": inside a sweep, "out": between sweeps.                 *)

tileVars == <<n, cap, fixed, vl, j, at>>

TypeOK ==
  /\ n \in Nat \ {0}
  /\ cap \in Nat \ {0}
  /\ fixed \in BOOLEAN
  /\ vl \in Nat
  /\ j \in Nat
  /\ at \in {"tile", "out"}

(* The tiled kernels start with vl = MAX_VLEN, the ones for one row per     *)
(* tile with vl = n; a kernel that never refits is called with a multiple.  *)
Init ==
  /\ n \in Nat \ {0}
  /\ cap \in Nat \ {0}
  /\ fixed \in BOOLEAN
  /\ \/ vl = cap
     \/ n <= cap /\ vl = n
  /\ fixed => \E q \in 0 .. n : n = q * vl
  /\ j = n
  /\ at = "out"

Sweep ==
  /\ at = "out"
  /\ j' = 0
  /\ at' = "tile"
  /\ UNCHANGED <<n, cap, fixed, vl>>

(* The refit, kernels.h:44. *)
Refitted == IF fixed THEN vl ELSE IF j + vl < n THEN cap ELSE n - j

Tile ==
  /\ at = "tile"
  /\ vl' = Refitted
  /\ j' = j + Refitted
  /\ at' = IF j' < n THEN "tile" ELSE "out"
  /\ UNCHANGED <<n, cap, fixed>>

Next == Sweep \/ Tile

Spec == Init /\ [][Next]_tileVars

-----------------------------------------------------------------------------

(* No tile reaches past the array, whatever length it has: a tile that did  *)
(* would store into the memory behind it.                                   *)
InBounds == j <= n

(* The engine is never given a vector length that it cannot carry out: none *)
(* (csr_vl = 0 makes S_ALU count through 127) and none beyond the register  *)
(* group of an operand (the group of the next operand, or the compiler's    *)
(* registers, would be overwritten).                                        *)
LegalLength == vl \in 1 .. cap

(* What makes both inductive: a refitted vl is the cap until the last tile, *)
(* and a vl below the cap left over from the last tile is either the whole  *)
(* array or replaced by the first refit of the next sweep.                  *)
Carried ==
  /\ at = "tile" => j < n
  /\ at = "out" => j = n
  /\ IF fixed THEN /\ \E q \in 0 .. n : n = q * vl
                   /\ \E q \in 0 .. n : n - j = q * vl
     ELSE /\ vl = cap \/ (vl <= n /\ (j = 0 \/ at = "out") /\ (n <= cap => vl = n))
          /\ at = "tile" /\ j > 0 => j >= cap

Inv == TypeOK /\ InBounds /\ LegalLength /\ Carried

Abstract == INSTANCE Coverage WITH rest <- j .. n - 1

(* Every sweep covers each element once, in tiles that fit. *)
ImplementsCoverage == Abstract!Spec
=============================================================================
