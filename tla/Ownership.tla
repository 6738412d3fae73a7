------------------------------ MODULE Ownership ------------------------------
(***************************************************************************)
(* The ownership ledger of the civilization layer                          *)
(* (core/civilization/ownership.py, called through ClaimOwnershipTool and  *)
(* ReleaseOwnershipTool of tools/civilization.py): an in-memory index, an  *)
(* append-only log, appends that may fail while the simulation carries on, *)
(* and resumed simulations that rebuild the index from the log.            *)
(*                                                                         *)
(* Every operation is synchronous and ends with its single append, so one  *)
(* operation is one step.  A process that dies before the append has lost  *)
(* nothing but its memory: that step is not taken.  A process that dies    *)
(* inside the append is a damaged append followed by Resume.               *)
(***************************************************************************)
EXTENDS OwnershipIndex, JsonlLog, Sequences

CONSTANTS Agents,     \* agent ids
          Nobody,     \* "no owner" in the abstract registry
          MaxClaims,  \* bound on the claims issued
          MaxFaults   \* bound on appends that raise OSError

ASSUME OwnershipAssumption ==
    /\ MaxClaims \in Nat
    /\ MaxFaults \in Nat
    /\ Nobody \notin Agents

VARIABLES deeds,   \* content of the claims ever granted, by claim_id
          mem,     \* the live index
          file,    \* ownership_log.jsonl
          faults,  \* appends that raised OSError so far
          origin,  \* "damaged" once a simulation resumed from a log with a fault
          letGo    \* ghost: claims that release() has released

vars == <<deeds, mem, file, faults, origin, letGo>>

Deed == [owner : Agents, target : Targets]

Init ==
    /\ deeds = <<>>
    /\ mem = EmptyIndex
    /\ file = Blank(EmptyIndex)
    /\ faults = 0
    /\ origin = "intact"
    /\ letGo = {}

(* _append_event: the record reaches the file, or OSError is swallowed.    *)
AppendEvent(next) ==
    \/ /\ file' = Written(file, next)
       /\ faults' = faults
    \/ /\ faults < MaxFaults
       /\ file' \in Damaged(file, next)
       /\ faults' = faults + 1

(* claim() on a free target: index, then append.                           *)
Claim(a, t) ==
    LET c == Len(deeds) + 1 IN
    /\ Len(deeds) < MaxClaims
    /\ FindConflict(mem, deeds, t) = {}
    /\ deeds' = Append(deeds, [owner |-> a, target |-> t])
    /\ mem' = IndexActive(mem, c, t)
    /\ AppendEvent(ReplayClaim(file.img, c, t))
    /\ UNCHANGED <<origin, letGo>>

(* claim() on a taken target: only a "conflict" line is appended.          *)
ClaimConflict(a, t) ==
    /\ FindConflict(mem, deeds, t) # {}
    /\ AppendEvent(ReplayConflict(file.img))
    /\ UNCHANGED <<deeds, mem, origin, letGo>>

(* release() called by agent a: the claim must be held; neither the tool   *)
(* nor the ledger compares a with the owner.                               *)
Release(a, c) ==
    /\ c \in Held(mem)
    /\ mem' = DeindexActive(mem, c, deeds[c].target)
    /\ AppendEvent(ReplayRelease(file.img, c, deeds[c].target))
    /\ letGo' = letGo \cup {c}
    /\ UNCHANGED <<deeds, origin>>

(* A new process opens the same sim folder: __init__ runs _replay.         *)
Resume ==
    /\ mem' = file.img
    /\ origin' = IF faults > 0 THEN "damaged" ELSE origin
    /\ UNCHANGED <<deeds, file, faults, letGo>>

Next ==
    \/ \E a \in Agents, t \in Targets : Claim(a, t) \/ ClaimConflict(a, t)
    \/ \E a \in Agents, c \in 1..Len(deeds) : Release(a, c)
    \/ Resume

Spec == Init /\ [][Next]_vars

-----------------------------------------------------------------------------
Ids == 1..Len(deeds)

(* Types of all the variables.                                             *)
TypeOK ==
    /\ deeds \in Seq(Deed)
    /\ mem \in Index(Ids)
    /\ file \in Files(Index(Ids))
    /\ faults \in Nat
    /\ origin \in {"intact", "damaged"}
    /\ letGo \in SUBSET Ids

(* Two claims clash when one would have stopped the other.                 *)
Clash(c, d) ==
    \/ deeds[c].target = deeds[d].target
    \/ <<deeds[c].target, deeds[d].target>> \in Overlaps

(* No two claims that are both still held are on the same or overlapping   *)
(* targets.                                                                *)
Exclusive == \A c, d \in Held(mem) : c # d => ~Clash(c, d)

(* First claim wins (ownership.py: claim, _find_conflict): as long as no   *)
(* simulation was resumed from a damaged log, an owner's target is never   *)
(* granted a second time, whatever appends fail underneath.                *)
FirstClaimHolds == origin = "intact" => Exclusive

(* The three structures of the index name the same claims: _active has     *)
(* exactly the held claims at their keys, _active_regions exactly the held *)
(* region claims.                                                          *)
StructuresAgree ==
    /\ \A t \in Targets : \A c \in Ids :
          mem.active[t] = c <=> (c \in Held(mem) /\ deeds[c].target = t)
    /\ mem.regions = {c \in Held(mem) : deeds[c].target \in Regions}

(* What list_owned_by shows (it reads _active), what release accepts (it   *)
(* reads _by_id) and what blocks a region claim (it reads _active_regions) *)
(* never diverge before a damaged log is resumed.                          *)
IndexConsistent == origin = "intact" => StructuresAgree

(* The live index is sound: of the right types, exclusive, and of one mind *)
(* in its three structures.                                                *)
IndexSound == TypeOK /\ FirstClaimHolds /\ IndexConsistent

(* While every append succeeded, the log replays to exactly the live       *)
(* index, so resumed simulations inherit every claim and every release.    *)
LogRebuildsIndex == faults = 0 => (file.img = mem /\ file.tail = "closed")

(* Whatever appends fail or tear, replay never makes a claim up: what it   *)
(* files under a target was granted on that target, and what it reports    *)
(* released was released by someone.                                       *)
ReplayInventsNothing ==
    \A ix \in {file.img, file.base} :
        /\ ix.released \subseteq letGo \cap ix.known
        /\ \A t \in Targets : ix.active[t] # NoClaim =>
              /\ ix.active[t] \in Held(ix)
              /\ deeds[ix.active[t]].target = t

(* The registry the other mechanics rely on, read off the live index.      *)
OwnerOf == [t \in Targets |-> IF mem.active[t] = NoClaim
                                THEN Nobody
                                ELSE deeds[mem.active[t]].owner]

Registry == INSTANCE FirstClaimWins WITH owner <- OwnerOf

(* The ledger implements first-claim-wins: until a damaged log is resumed, *)
(* every step, failed appends and resumed simulations included, acquires a *)
(* free target, vacates one, or changes no owner.                          *)
ImplementsRegistry == Registry!Spec

=============================================================================
