-------------------------------- MODULE MCVendor --------------------------------
(***************************************************************************)
(* Instances of VendorPublication for TLC.  The two lock files lock the    *)
(* same packages by name and version, so that only the receipt tells their *)
(* trees apart.                                                            *)
(***************************************************************************)
EXTENDS VendorPublication, TLC

MCPackages == [l \in Lockfile |-> {"package"}]

MCSymmetry == Permutations(Proc)
=================================================================================
