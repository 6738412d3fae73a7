----------------------------- MODULE MCOwnership -----------------------------
(***************************************************************************)
(* Instances of Ownership for TLC: two overlapping regions, one apart and  *)
(* a chest, whose overlaps come from the code's own bounding-box test.     *)
(***************************************************************************)
EXTENDS RegionLedger, TLC

CONSTANTS Alice, Bob, Camp, Farm, Mine, Chest

MCAgents == {Alice, Bob}
MCRegions == {Camp, Farm, Mine}
MCTargets == MCRegions \cup {Chest}

BoxRef(x1, z1, x2, z2, d) ==
    [x1 |-> x1, z1 |-> z1, x2 |-> x2, z2 |-> z2, dim |-> d]

(* Camp and Farm share a corner column; the corners of Farm are reversed.  *)
(* Mine has the coordinates of Camp in another dimension.                  *)
MCRef == (Camp :> BoxRef(0, 0, 1, 1, "overworld"))
         @@ (Farm :> BoxRef(2, 2, 1, 1, "overworld"))
         @@ (Mine :> BoxRef(0, 0, 1, 1, "nether"))

MCOverlaps ==
    {p \in MCRegions \X MCRegions :
        RegionsOverlap(NormalizeRegion(MCRef[p[1]]), NormalizeRegion(MCRef[p[2]]))}

=============================================================================
