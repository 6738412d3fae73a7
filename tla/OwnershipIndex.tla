--------------------------- MODULE OwnershipIndex ---------------------------
(***************************************************************************)
(* The ownership index of core/civilization/ownership.py as a value, and   *)
(* the functions on it that the live operations and the replay share.      *)
(*                                                                         *)
(* A claim is named by its claim_id, a positive number; its immutable      *)
(* content [owner, target] is passed in as a deed.  A target stands for a  *)
(* canonical target_ref, so _ref_key is the target itself.                 *)
(***************************************************************************)
EXTENDS Naturals

CONSTANTS Targets,   \* every claimable thing: structures, containers, regions
          Regions,   \* the targets of target_type "region"
          Overlaps   \* pairs of regions whose bounding boxes intersect

ASSUME RegionsAssumption ==
    /\ Regions \subseteq Targets
    /\ Overlaps \subseteq Regions \X Regions
    /\ \A r \in Regions : <<r, r>> \in Overlaps
    /\ \A r, s \in Regions : <<r, s>> \in Overlaps => <<s, r>> \in Overlaps

NoClaim == 0

(* _active, the keys of _by_id, the ids of _by_id with released_at set,    *)
(* and _active_regions (a list in the code; only membership is ever used). *)
Index(Ids) == [active   : [Targets -> Ids \cup {NoClaim}],
               known    : SUBSET Ids,
               released : SUBSET Ids,
               regions  : SUBSET Ids]

EmptyIndex == [active   |-> [t \in Targets |-> NoClaim],
               known    |-> {},
               released |-> {},
               regions  |-> {}]

(* _by_id entries without released_at: what release() will still release.  *)
Held(ix) == ix.known \ ix.released

(* Mutant: region claims are filed by key only.                            *)
IndexByKeyOnly(ix, c, t) ==
    [active   |-> [ix.active EXCEPT ![t] = c],
     known    |-> ix.known \cup {c},
     released |-> ix.released,
     regions  |-> ix.regions]

(* _index_active: overwrites whatever the key pointed to.                  *)
IndexActive(ix, c, t) ==
    [active   |-> [ix.active EXCEPT ![t] = c],
     known    |-> ix.known \cup {c},
     released |-> ix.released,
     regions  |-> IF t \in Regions THEN ix.regions \cup {c} ELSE ix.regions]

(* release(): stamp released_at, then _deindex_active, which pops the key  *)
(* whichever claim it points to.                                           *)
DeindexActive(ix, c, t) ==
    [active   |-> [ix.active EXCEPT ![t] = NoClaim],
     known    |-> ix.known,
     released |-> ix.released \cup {c},
     regions  |-> ix.regions \ {c}]

(* Mutant: regions conflict only when they are the same.                   *)
FindConflictByKey(ix, deed, t) == {ix.active[t]} \ {NoClaim}

(* _find_conflict: the claims that stop a claim on t.  Regions scan        *)
(* _active_regions for an overlap, the other types look their key up.      *)
FindConflict(ix, deed, t) ==
    IF t \in Regions
      THEN {c \in ix.regions : <<deed[c].target, t>> \in Overlaps}
      ELSE {ix.active[t]} \ {NoClaim}

(* _apply_replay, by the action of the record.  A "claim" line is indexed  *)
(* without a conflict check, a "release" line only counts for a held       *)
(* claim, a "conflict" line changes nothing.                               *)
ReplayClaim(ix, c, t) == IndexActive(ix, c, t)

(* Mutants: a replayed release that leaves the claim to be released again, *)
(* and one that does not ask whether the claim is held.                    *)
ReplayReleaseUnstamped(ix, c, t) ==
    IF c \in Held(ix)
      THEN [active |-> [ix.active EXCEPT ![t] = NoClaim], known |-> ix.known,
            released |-> ix.released, regions |-> ix.regions \ {c}]
      ELSE ix

ReplayReleaseUnchecked(ix, c, t) == DeindexActive(ix, c, t)

ReplayRelease(ix, c, t) ==
    IF c \in Held(ix) THEN DeindexActive(ix, c, t) ELSE ix

ReplayConflict(ix) == ix

=============================================================================
