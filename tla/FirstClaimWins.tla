--------------------------- MODULE FirstClaimWins ---------------------------
(***************************************************************************)
(* What the ownership ledger promises to the other civilization mechanics: *)
(* a registry of owners in which a target can only be acquired while       *)
(* nothing that blocks it is owned, and only changes hands by being        *)
(* vacated first.  The promise holds until a simulation is resumed from a  *)
(* log that an append failed to reach.  There are no claim ids, no index   *)
(* and no file here.                                                       *)
(***************************************************************************)
CONSTANTS Agents, Targets, Overlaps, Nobody

VARIABLES owner,  \* who owns each target
          origin  \* "damaged" once the registry came from an incomplete log

registry == <<owner, origin>>

Blocks(t, u) == t = u \/ <<u, t>> \in Overlaps

Init ==
    /\ owner = [t \in Targets |-> Nobody]
    /\ origin = "intact"

Acquire(a, t) ==
    /\ origin = "intact"
    /\ \A u \in Targets : Blocks(t, u) => owner[u] = Nobody
    /\ owner' = [owner EXCEPT ![t] = a]
    /\ UNCHANGED origin

Vacate(t) ==
    /\ origin = "intact"
    /\ owner[t] # Nobody
    /\ owner' = [owner EXCEPT ![t] = Nobody]
    /\ UNCHANGED origin

(* Resumed from an incomplete log, the registry may show any owners, and   *)
(* what it does from then on is not promised.                              *)
Restore ==
    /\ owner' \in [Targets -> Agents \cup {Nobody}]
    /\ origin' = "damaged"

Next ==
    \/ \E t \in Targets : Vacate(t) \/ \E a \in Agents : Acquire(a, t)
    \/ Restore

Spec == Init /\ [][Next]_registry

=============================================================================
