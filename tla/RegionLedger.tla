---------------------------- MODULE RegionLedger ----------------------------
(***************************************************************************)
(* The ownership ledger together with the geometry of its region claims    *)
(* (core/civilization/ownership.py): a region target is an axis-aligned    *)
(* bounding box over the surface, in one dimension of the world, whose     *)
(* corners an agent may give in any order; two regions conflict when       *)
(* _regions_overlap says so of their normalized refs.                      *)
(***************************************************************************)
EXTENDS Ownership, Integers

CONSTANTS Coords,  \* integer block coordinates
          Dims,    \* dimensions of the world
          Ref      \* the target_ref of each region, as the agent gave it

ASSUME CoordsAssumption == Coords \subseteq Int

(* A region target_ref as the agent gives it.                              *)
Refs == [x1 : Coords, z1 : Coords, x2 : Coords, z2 : Coords, dim : Dims]

Least(i, j) == IF i <= j THEN i ELSE j
Greatest(i, j) == IF i <= j THEN j ELSE i

(* normalize_region_ref: x1 <= x2 and z1 <= z2.                            *)
NormalizeRegion(ref) ==
    [x1 |-> Least(ref.x1, ref.x2), z1 |-> Least(ref.z1, ref.z2),
     x2 |-> Greatest(ref.x1, ref.x2), z2 |-> Greatest(ref.z1, ref.z2),
     dim |-> ref.dim]

(* Mutant: boxes that share only an edge are taken for disjoint.           *)
OverlapNeedsArea(a, b) ==
    /\ a.dim = b.dim
    /\ ~(a.x2 <= b.x1 \/ b.x2 <= a.x1)
    /\ ~(a.z2 <= b.z1 \/ b.z2 <= a.z1)

(* _regions_overlap on two normalized refs.                                *)
RegionsOverlap(a, b) ==
    /\ a.dim = b.dim
    /\ ~(a.x2 < b.x1 \/ b.x2 < a.x1)
    /\ ~(a.z2 < b.z1 \/ b.z2 < a.z1)

(* The reference definition: the block column (x, z) of dimension d lies   *)
(* between the two corners of the ref, whatever their order.               *)
Between(i, p, q) == (p <= i /\ i <= q) \/ (q <= i /\ i <= p)

Covers(ref, d, x, z) ==
    /\ ref.dim = d
    /\ Between(x, ref.x1, ref.x2)
    /\ Between(z, ref.z1, ref.z2)

(* Two normalized regions overlap exactly when some block column lies in   *)
(* both of the boxes the agents gave (a claim cannot slip past the check   *)
(* by naming its corners in another order or by sharing only an edge).     *)
OverlapIsSharedColumn ==
    \A older, newer \in Refs :
        RegionsOverlap(NormalizeRegion(older), NormalizeRegion(newer)) <=>
            \E d \in Dims, x, z \in Coords :
                Covers(older, d, x, z) /\ Covers(newer, d, x, z)

-----------------------------------------------------------------------------
(* _find_conflict tests the normalized ref of the new claim against those  *)
(* of _active_regions.                                                     *)
OverlappingRegions ==
    {p \in Regions \X Regions :
        RegionsOverlap(NormalizeRegion(Ref[p[1]]), NormalizeRegion(Ref[p[2]]))}

ASSUME RefAssumption ==
    /\ Ref \in [Regions -> Refs]
    /\ Overlaps = OverlappingRegions

(* Land has one owner (ownership.py: claim, _find_conflict,                *)
(* _regions_overlap): until a damaged log is resumed, no block column of   *)
(* the world lies inside the boxes of two claims that are both still held, *)
(* whatever the order of their corners and however little they share.      *)
OneOwnerPerColumn ==
    origin = "intact" =>
        \A c, d \in Held(mem) :
            (c # d /\ deeds[c].target \in Regions /\ deeds[d].target \in Regions) =>
                ~\E w \in Dims, x, z \in Coords :
                    /\ Covers(Ref[deeds[c].target], w, x, z)
                    /\ Covers(Ref[deeds[d].target], w, x, z)

=============================================================================
