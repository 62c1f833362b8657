---------------------------- MODULE MCBusFabric ----------------------------
(***************************************************************************)
(* One address of every region.                                             *)
(***************************************************************************)
EXTENDS BusFabric

MCAdr == Regions
MCRegionOf == [a \in MCAdr |-> a]
=============================================================================
