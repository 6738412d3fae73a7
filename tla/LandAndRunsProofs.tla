------------------------ MODULE LandAndRunsProofs ------------------------
(***************************************************************************)
(* Proofs of two unrelated components, in two parts that share nothing.    *)
(*                                                                         *)
(* Land: the ownership ledger, for every set of agents and targets, every  *)
(* overlap relation and every number of claims and failing appends.  Only  *)
(* the theorems about regions use the assumption that overlaps come from   *)
(* the bounding boxes of the code.                                         *)
(*                                                                         *)
(* Runs: the books of SimulationRun, the claims of Publishing, and the     *)
(* supervisors of EmbodiedRun.                                             *)
(***************************************************************************)
EXTENDS RegionLedger, MCRuns, SequenceTheorems, TLAPS

-----------------------------------------------------------------------------
(* Part one, land: the index.                                              *)

(* A ledger index over the first m claim ids is one over the first n >= m. *)
LEMMA IndexMonotone ==
    ASSUME NEW m \in Nat, NEW n \in Nat, m <= n, NEW ix \in Index(1..m)
    PROVE  ix \in Index(1..n)
<1>1. 1..m \subseteq 1..n
  OBVIOUS
<1>2. QED
  BY <1>1 DEF Index

(* _index_active keeps the index well formed.                              *)
LEMMA IndexActiveType ==
    ASSUME NEW S, NEW ix \in Index(S), NEW c \in S, NEW t \in Targets
    PROVE  IndexActive(ix, c, t) \in Index(S)
BY DEF Index, IndexActive

(* So does a release, which stamps the claim and calls _deindex_active.    *)
LEMMA DeindexActiveType ==
    ASSUME NEW S, NEW ix \in Index(S), NEW c \in S, NEW t \in Targets
    PROVE  DeindexActive(ix, c, t) \in Index(S)
BY DEF Index, DeindexActive

(* Whatever one append does, the file's images are the old base, the old   *)
(* image or the image with the record applied; a closed file that is       *)
(* written to without a fault gains exactly the record.                    *)
LEMMA AppendImages ==
    ASSUME NEW S, NEW f \in Files(S), NEW next \in S, NEW g,
           g = Written(f, next) \/ g \in Damaged(f, next)
    PROVE  /\ g \in Files(S)
           /\ g.img \in {f.base, f.img, next}
           /\ g.base \in {f.base, f.img, next}
           /\ g = Written(f, next) /\ f.tail = "closed"
                => g.img = next /\ g.tail = "closed"
BY DEF Files, Written, Damaged, TornPart, TornWhole, Blank

(* The types are inductive by themselves: one step per operation.          *)
LEMMA TypeInduction == TypeOK /\ [Next]_vars => TypeOK'
<1> SUFFICES ASSUME TypeOK, [Next]_vars PROVE TypeOK'
  OBVIOUS
<1> USE DEF TypeOK, Ids
<1>1. ASSUME NEW a \in Agents, NEW t \in Targets, Claim(a, t)
      PROVE  TypeOK'
  <2> DEFINE c == Len(deeds) + 1
  <2>1. /\ Len(deeds) \in Nat
        /\ Len(deeds') = c
        /\ deeds' \in Seq(Deed)
    BY <1>1 DEF Claim, Deed
  <2>2. /\ mem \in Index(1..c)
        /\ file \in Files(Index(1..c))
    BY <2>1, IndexMonotone DEF Files
  <2>3. mem' \in Index(1..c)
    BY <1>1, <2>1, <2>2, IndexActiveType DEF Claim
  <2>4. ReplayClaim(file.img, c, t) \in Index(1..c)
    BY <2>1, <2>2, IndexActiveType DEF ReplayClaim, Files
  <2>5. /\ file' \in Files(Index(1..c))
        /\ faults' \in Nat
    BY <1>1, <2>2, <2>4, AppendImages DEF Claim, AppendEvent
  <2>6. /\ letGo' \subseteq 1..c
        /\ origin' \in {"intact", "damaged"}
    <3>1. 1..Len(deeds) \subseteq 1..c /\ c \in 1..c
      BY <2>1
    <3>2. letGo \subseteq 1..Len(deeds)
      OBVIOUS
    <3>3. letGo' = letGo /\ origin' = origin
      BY <1>1 DEF Claim
    <3> QED
      BY <3>1, <3>2, <3>3
  <2> QED
    BY <2>1, <2>3, <2>5, <2>6
<1>2. ASSUME NEW a \in Agents, NEW t \in Targets, ClaimConflict(a, t)
      PROVE  TypeOK'
  BY <1>2, AppendImages DEF ClaimConflict, AppendEvent, ReplayConflict, Files
<1>3. ASSUME NEW a \in Agents, NEW c \in 1..Len(deeds), Release(a, c)
      PROVE  TypeOK'
  <2>1. deeds[c].target \in Targets
    <3>1. deeds[c] \in Deed
      <4> HIDE DEF TypeOK, Ids
      <4> QED BY DEF TypeOK
    <3> QED
      BY <3>1 DEF Deed
  <2>2. mem' \in Index(Ids)
    BY <1>3, <2>1, DeindexActiveType DEF Release
  <2>3. ReplayRelease(file.img, c, deeds[c].target) \in Index(Ids)
    BY <2>1, DeindexActiveType DEF ReplayRelease, Files
  <2>4. file' \in Files(Index(Ids)) /\ faults' \in Nat
    BY <1>3, <2>3, AppendImages DEF Release, AppendEvent
  <2> QED
    BY <1>3, <2>2, <2>4 DEF Release
<1>4. CASE Resume
  BY <1>4 DEF Resume, Files
<1>5. CASE UNCHANGED vars
  BY <1>5 DEF vars
<1> QED
  BY <1>1, <1>2, <1>3, <1>4, <1>5 DEF Next

(* The variables keep their types: an index only ever names claims that    *)
(* were granted, in memory and in every replay of the log.                 *)
THEOREM TypeCorrect == Spec => []TypeOK
<1>1. Init => TypeOK
  BY DEF Init, TypeOK, EmptyIndex, Index, Files, Blank, Ids, NoClaim, Deed
<1> QED
  BY <1>1, TypeInduction, PTL DEF Spec

-----------------------------------------------------------------------------
(* A target that _find_conflict reports free is not claimed, and overlaps  *)
(* no claim: this is where _active and _active_regions must both be        *)
(* complete.                                                               *)
LEMMA FreeMeansUnblocked ==
    ASSUME TypeOK, StructuresAgree, NEW t \in Targets,
           FindConflict(mem, deeds, t) = {}, NEW d \in Held(mem)
    PROVE  deeds[d].target # t /\ <<deeds[d].target, t>> \notin Overlaps
<1>1. d \in Ids
  BY DEF TypeOK, Index, Held
<1>2. CASE t \in Regions
  <2>1. d \in mem.regions => <<deeds[d].target, t>> \notin Overlaps
    BY <1>2 DEF FindConflict
  <2>2. CASE deeds[d].target \in Regions
    <3>1. d \in mem.regions
      BY <2>2 DEF StructuresAgree
    <3> QED
      BY <1>2, <2>1, <3>1, RegionsAssumption
  <2>3. CASE deeds[d].target \notin Regions
    BY <1>2, <2>3, RegionsAssumption
  <2> QED
    BY <2>2, <2>3
<1>3. CASE t \notin Regions
  <2>1. mem.active[t] = NoClaim
    BY <1>3 DEF FindConflict
  <2>2. d # NoClaim
    BY <1>1 DEF Ids, NoClaim
  <2>3. deeds[d].target # t
    BY <1>1, <2>1, <2>2 DEF StructuresAgree
  <2> QED
    BY <1>3, <2>3, RegionsAssumption
<1> QED
  BY <1>2, <1>3

(* claim() on a free target keeps the three structures in agreement and    *)
(* the held claims apart.                                                  *)
LEMMA ClaimKeepsExclusive ==
    ASSUME TypeOK, StructuresAgree, Exclusive,
           NEW a \in Agents, NEW t \in Targets, Claim(a, t)
    PROVE  StructuresAgree' /\ Exclusive'
<1> DEFINE c == Len(deeds) + 1
<1>1. /\ Len(deeds) \in Nat
      /\ Ids' = Ids \cup {c}
      /\ c \notin Ids
      /\ c # NoClaim
      /\ deeds'[c] = [owner |-> a, target |-> t]
      /\ \A d \in Ids : deeds'[d] = deeds[d] /\ d # NoClaim
  BY DEF Claim, TypeOK, Ids, NoClaim
<1>2. /\ mem.known \subseteq Ids
      /\ mem.released \subseteq Ids
      /\ mem.regions \subseteq Ids
      /\ mem.active \in [Targets -> Ids \cup {NoClaim}]
  BY DEF TypeOK, Index
<1>3. /\ mem' = IndexActive(mem, c, t)
      /\ FindConflict(mem, deeds, t) = {}
  BY DEF Claim
<1>4. /\ Held(mem') = Held(mem) \cup {c}
      /\ Held(mem) \subseteq Ids
  BY <1>1, <1>2, <1>3 DEF Held, IndexActive
<1>5. \A d \in Held(mem) :
          deeds[d].target # t /\ <<deeds[d].target, t>> \notin Overlaps
  BY <1>3, FreeMeansUnblocked
<1>6. StructuresAgree'
  <2>1. ASSUME NEW u \in Targets, NEW d \in Ids'
        PROVE  mem'.active[u] = d <=> (d \in Held(mem') /\ deeds'[d].target = u)
    <3>1. mem'.active[u] = IF u = t THEN c ELSE mem.active[u]
      BY <1>2, <1>3 DEF IndexActive
    <3>2. CASE d = c
      <4>1. u # t => mem.active[u] # c
        BY <1>1, <1>2
      <4> QED
        BY <1>1, <1>4, <3>1, <3>2, <4>1
    <3>3. CASE d \in Ids
      <4>1. mem.active[u] = d <=> (d \in Held(mem) /\ deeds[d].target = u)
        BY <3>3 DEF StructuresAgree
      <4>2. d # c /\ deeds'[d] = deeds[d]
        BY <1>1, <3>3
      <4> QED
        BY <1>4, <1>5, <3>1, <4>1, <4>2
    <3> QED
      BY <1>1, <3>2, <3>3
  <2>2. mem'.regions = {d \in Held(mem') : deeds'[d].target \in Regions}
    <3>1. mem.regions = {d \in Held(mem) : deeds[d].target \in Regions}
      BY DEF StructuresAgree
    <3>2. mem'.regions = IF t \in Regions THEN mem.regions \cup {c} ELSE mem.regions
      BY <1>3 DEF IndexActive
    <3> QED
      BY <1>1, <1>4, <3>1, <3>2
  <2> QED
    BY <2>1, <2>2 DEF StructuresAgree
<1>7. Exclusive'
  <2>1. ASSUME NEW d \in Held(mem'), NEW e \in Held(mem'), d # e
        PROVE  ~Clash(d, e)'
    <3>1. CASE d \in Held(mem) /\ e \in Held(mem)
      <4>1. ~Clash(d, e)
        BY <2>1, <3>1 DEF Exclusive
      <4>2. deeds'[d] = deeds[d] /\ deeds'[e] = deeds[e]
        BY <1>1, <1>4, <3>1
      <4> QED
        BY <4>1, <4>2 DEF Clash
    <3>2. CASE d \in Held(mem) /\ e = c
      <4>1. deeds[d].target # t /\ <<deeds[d].target, t>> \notin Overlaps
        BY <1>5, <3>2
      <4>2. deeds'[d] = deeds[d] /\ deeds'[e].target = t
        BY <1>1, <1>4, <3>2
      <4> QED
        BY <4>1, <4>2 DEF Clash
    <3>3. CASE d = c /\ e \in Held(mem)
      <4>1. deeds[e].target # t /\ <<deeds[e].target, t>> \notin Overlaps
        BY <1>5, <3>3
      <4>2. <<t, deeds[e].target>> \notin Overlaps
        BY <4>1, RegionsAssumption
      <4> QED
        BY <1>1, <1>4, <3>3, <4>1, <4>2 DEF Clash
    <3> QED
      BY <1>4, <2>1, <3>1, <3>2, <3>3
  <2> QED
    BY <2>1 DEF Exclusive
<1> QED
  BY <1>6, <1>7

(* release() keeps them too: the key it pops is that of the claim released.*)
LEMMA ReleaseKeepsExclusive ==
    ASSUME TypeOK, StructuresAgree, Exclusive,
           NEW a \in Agents, NEW c \in Ids, Release(a, c)
    PROVE  StructuresAgree' /\ Exclusive'
<1>1. /\ deeds' = deeds
      /\ Ids' = Ids
      /\ mem' = DeindexActive(mem, c, deeds[c].target)
      /\ c \in Held(mem)
      /\ \A d \in Ids : d # NoClaim
  BY DEF Release, Ids, NoClaim
<1>2. mem.active \in [Targets -> Ids \cup {NoClaim}]
  BY DEF TypeOK, Index
<1>3. Held(mem') = Held(mem) \ {c}
  BY <1>1 DEF Held, DeindexActive
<1>4. StructuresAgree'
  <2>1. ASSUME NEW u \in Targets, NEW d \in Ids
        PROVE  mem'.active[u] = d <=> (d \in Held(mem') /\ deeds[d].target = u)
    <3>1. mem'.active[u] = IF u = deeds[c].target THEN NoClaim ELSE mem.active[u]
      BY <1>1, <1>2 DEF DeindexActive
    <3>2. mem.active[u] = d <=> (d \in Held(mem) /\ deeds[d].target = u)
      BY DEF StructuresAgree
    <3>3. mem.active[u] = c <=> deeds[c].target = u
      BY <1>1 DEF StructuresAgree
    <3> QED
      BY <1>1, <1>3, <3>1, <3>2, <3>3
  <2>2. mem'.regions = {d \in Held(mem') : deeds[d].target \in Regions}
    <3>1. mem'.regions = mem.regions \ {c}
      BY <1>1 DEF DeindexActive
    <3> QED
      BY <1>3, <3>1 DEF StructuresAgree
  <2> QED
    BY <1>1, <2>1, <2>2 DEF StructuresAgree
<1>5. Exclusive'
  BY <1>1, <1>3 DEF Exclusive, Clash
<1> QED
  BY <1>4, <1>5

-----------------------------------------------------------------------------
(* The inductive invariant.  FirstClaimHolds needs the agreement of the    *)
(* structures (claim() consults _active and _active_regions, never _by_id),*)
(* and both need to know that an undamaged log replays to the live index,  *)
(* or Resume could replace a good index by another one.                    *)
LedgerInv ==
    /\ TypeOK
    /\ FirstClaimHolds
    /\ IndexConsistent
    /\ LogRebuildsIndex
    /\ origin = "damaged" => faults > 0

(* While no append failed, what a step appends replays to what it did to   *)
(* the live index.                                                         *)
LEMMA LogFollowsIndex ==
    ASSUME TypeOK, LogRebuildsIndex, [Next]_vars, TypeOK'
    PROVE  LogRebuildsIndex'
<1> SUFFICES ASSUME faults' = 0
             PROVE  file'.img = mem' /\ file'.tail = "closed"
  BY DEF LogRebuildsIndex
<1>1. file \in Files(Index(Ids)) /\ faults \in Nat
  BY DEF TypeOK
<1>2. ASSUME NEW next, AppendEvent(next)
      PROVE  /\ faults = 0
             /\ file.tail = "closed" => file'.img = next /\ file'.tail = "closed"
  BY <1>1, <1>2 DEF AppendEvent, Written, Blank
<1>3. ASSUME NEW a \in Agents, NEW t \in Targets, Claim(a, t)
      PROVE  file'.img = mem' /\ file'.tail = "closed"
  BY <1>2, <1>3 DEF Claim, ReplayClaim, LogRebuildsIndex
<1>4. ASSUME NEW a \in Agents, NEW t \in Targets, ClaimConflict(a, t)
      PROVE  file'.img = mem' /\ file'.tail = "closed"
  BY <1>2, <1>4 DEF ClaimConflict, ReplayConflict, LogRebuildsIndex
<1>5. ASSUME NEW a \in Agents, NEW c \in 1..Len(deeds), Release(a, c)
      PROVE  file'.img = mem' /\ file'.tail = "closed"
  BY <1>2, <1>5 DEF Release, ReplayRelease, LogRebuildsIndex
<1>6. CASE Resume
  BY <1>6 DEF Resume, LogRebuildsIndex
<1>7. CASE UNCHANGED vars
  BY <1>7 DEF vars, LogRebuildsIndex
<1> QED
  BY <1>3, <1>4, <1>5, <1>6, <1>7 DEF Next

(* The inductive invariant of the ledger is kept by every step.            *)
LEMMA LedgerInduction == LedgerInv /\ [Next]_vars => LedgerInv'
<1> SUFFICES ASSUME LedgerInv, [Next]_vars PROVE LedgerInv'
  OBVIOUS
<1>1. TypeOK /\ TypeOK'
  BY TypeInduction DEF LedgerInv
<1>2. LogRebuildsIndex /\ LogRebuildsIndex'
  BY <1>1, LogFollowsIndex DEF LedgerInv
<1>3. faults \in Nat /\ origin \in {"intact", "damaged"}
  BY <1>1 DEF TypeOK
<1>4. /\ origin' = "intact" => StructuresAgree' /\ Exclusive'
      /\ origin' = "damaged" => faults' > 0
  <2>1. ASSUME NEW next, AppendEvent(next)
        PROVE  faults' >= faults /\ faults' \in Nat
    BY <1>3, <2>1 DEF AppendEvent
  <2>2. ASSUME NEW a \in Agents, NEW t \in Targets, Claim(a, t)
        PROVE  /\ origin' = "intact" => StructuresAgree' /\ Exclusive'
               /\ origin' = "damaged" => faults' > 0
    <3>1. origin' = origin /\ faults' >= faults /\ faults' \in Nat
      BY <2>1, <2>2 DEF Claim
    <3> QED
      BY <1>1, <1>3, <2>2, <3>1, ClaimKeepsExclusive
         DEF LedgerInv, FirstClaimHolds, IndexConsistent
  <2>3. ASSUME NEW a \in Agents, NEW t \in Targets, ClaimConflict(a, t)
        PROVE  /\ origin' = "intact" => StructuresAgree' /\ Exclusive'
               /\ origin' = "damaged" => faults' > 0
    <3>1. /\ origin' = origin /\ faults' >= faults /\ faults' \in Nat
          /\ deeds' = deeds /\ mem' = mem
      BY <2>1, <2>3 DEF ClaimConflict
    <3> QED
      BY <1>3, <3>1 DEF LedgerInv, FirstClaimHolds, IndexConsistent,
                        StructuresAgree, Exclusive, Clash, Ids, Held
  <2>4. ASSUME NEW a \in Agents, NEW c \in 1..Len(deeds), Release(a, c)
        PROVE  /\ origin' = "intact" => StructuresAgree' /\ Exclusive'
               /\ origin' = "damaged" => faults' > 0
    <3>1. origin' = origin /\ faults' >= faults /\ faults' \in Nat
      BY <2>1, <2>4 DEF Release
    <3> QED
      BY <1>1, <1>3, <2>4, <3>1, ReleaseKeepsExclusive
         DEF LedgerInv, FirstClaimHolds, IndexConsistent, Ids
  <2>5. CASE Resume
    <3>1. CASE faults = 0
      <4>1. mem' = mem /\ deeds' = deeds /\ origin' = origin /\ faults' = faults
        BY <1>2, <2>5, <3>1 DEF Resume, LogRebuildsIndex
      <4> QED
        BY <1>3, <4>1 DEF LedgerInv, FirstClaimHolds, IndexConsistent,
                          StructuresAgree, Exclusive, Clash, Ids, Held
    <3>2. CASE faults # 0
      BY <1>3, <2>5, <3>2 DEF Resume
    <3> QED
      BY <3>1, <3>2
  <2>6. CASE UNCHANGED vars
    BY <1>3, <2>6 DEF vars, LedgerInv, FirstClaimHolds, IndexConsistent,
                      StructuresAgree, Exclusive, Clash, Ids, Held
  <2> QED
    BY <2>2, <2>3, <2>4, <2>5, <2>6 DEF Next
<1> QED
  BY <1>1, <1>2, <1>4 DEF LedgerInv, FirstClaimHolds, IndexConsistent

(* It holds in every reachable state.                                      *)
LEMMA LedgerInvHolds == Spec => []LedgerInv
<1>1. Init => LedgerInv
  <2> SUFFICES ASSUME Init PROVE LedgerInv
    OBVIOUS
  <2>1. TypeOK
    BY DEF Init, TypeOK, EmptyIndex, Index, Files, Blank, Ids, NoClaim, Deed
  <2>2. Held(mem) = {} /\ mem.regions = {} /\ Ids = {}
    BY DEF Init, Held, EmptyIndex, Ids
  <2>3. StructuresAgree /\ Exclusive
    BY <2>2 DEF StructuresAgree, Exclusive
  <2>4. LogRebuildsIndex /\ origin = "intact"
    BY DEF Init, LogRebuildsIndex, Blank
  <2> QED
    BY <2>1, <2>3, <2>4 DEF LedgerInv, FirstClaimHolds, IndexConsistent
<1> QED
  BY <1>1, LedgerInduction, PTL DEF Spec

(* The live index has its types, is exclusive and is of one mind in its    *)
(* three structures (ownership.py: claim, release, _index_active).         *)
THEOREM IndexIsSound == Spec => []IndexSound
<1>1. LedgerInv => IndexSound
  BY DEF LedgerInv, IndexSound
<1> QED
  BY <1>1, LedgerInvHolds, PTL

(* First claim wins: no two held claims are on the same or overlapping     *)
(* targets, whatever agents do and whatever appends fail, until a          *)
(* simulation is resumed from a log in which an append had failed          *)
(* (ownership.py: claim, release, _find_conflict).                         *)
THEOREM FirstClaimWinsHolds == Spec => []FirstClaimHolds
<1>1. LedgerInv => FirstClaimHolds
  BY DEF LedgerInv
<1> QED
  BY <1>1, LedgerInvHolds, PTL

(* _active, _by_id and _active_regions never diverge, under the same       *)
(* condition.                                                              *)
THEOREM IndexStaysConsistent == Spec => []IndexConsistent
<1>1. LedgerInv => IndexConsistent
  BY DEF LedgerInv
<1> QED
  BY <1>1, LedgerInvHolds, PTL

(* Resumed simulations inherit prior claims (ownership.py: _replay): as    *)
(* long as no append failed, the log replays to the live index.            *)
THEOREM ResumeInheritsClaims == Spec => []LogRebuildsIndex
<1>1. LedgerInv => LogRebuildsIndex
  BY DEF LedgerInv
<1> QED
  BY <1>1, LedgerInvHolds, PTL

-----------------------------------------------------------------------------
(* A granted claim acquires a registry entry that nothing blocks.          *)
LEMMA ClaimAcquires ==
    ASSUME TypeOK, StructuresAgree, origin = "intact",
           NEW a \in Agents, NEW t \in Targets, Claim(a, t)
    PROVE  Registry!Acquire(a, t)
<1> DEFINE c == Len(deeds) + 1
<1>1. /\ Len(deeds) \in Nat
      /\ c # NoClaim
      /\ deeds'[c].owner = a
      /\ \A d \in Ids : deeds'[d] = deeds[d] /\ d # NoClaim
  BY DEF Claim, TypeOK, Ids, NoClaim
<1>2. mem.active \in [Targets -> Ids \cup {NoClaim}]
  BY DEF TypeOK, Index
<1>3. \A u \in Targets : mem'.active[u] = IF u = t THEN c ELSE mem.active[u]
  BY <1>2 DEF Claim, IndexActive
<1>4. ASSUME NEW u \in Targets, Registry!Blocks(t, u)
      PROVE  OwnerOf[u] = Nobody
  <2>1. mem.active[u] = NoClaim
    <3> SUFFICES ASSUME mem.active[u] # NoClaim PROVE FALSE
      OBVIOUS
    <3>1. mem.active[u] \in Held(mem) /\ deeds[mem.active[u]].target = u
      BY <1>2 DEF StructuresAgree
    <3>2. u # t /\ <<u, t>> \notin Overlaps
      BY <3>1, FreeMeansUnblocked DEF Claim
    <3> QED
      BY <1>4, <3>2 DEF Registry!Blocks
  <2> QED
    BY <2>1 DEF OwnerOf
<1>5. OwnerOf' = [OwnerOf EXCEPT ![t] = a]
  <2>1. ASSUME NEW u \in Targets
        PROVE  OwnerOf'[u] = IF u = t THEN a ELSE OwnerOf[u]
    BY <1>1, <1>2, <1>3 DEF OwnerOf
  <2> QED
    BY <2>1 DEF OwnerOf
<1> QED
  BY <1>4, <1>5 DEF Registry!Acquire, Claim

(* A release vacates the entry of the claim it names, and no other.        *)
LEMMA ReleaseVacates ==
    ASSUME TypeOK, StructuresAgree, origin = "intact",
           NEW a \in Agents, NEW c \in Ids, Release(a, c)
    PROVE  deeds[c].target \in Targets /\ Registry!Vacate(deeds[c].target)
<1>1. deeds[c] \in Deed /\ deeds' = deeds
  BY DEF TypeOK, Ids, Release
<1>2. deeds[c].target \in Targets /\ deeds[c].owner \in Agents
  BY <1>1 DEF Deed
<1>3. mem.active \in [Targets -> Ids \cup {NoClaim}]
  BY DEF TypeOK, Index
<1>4. mem.active[deeds[c].target] = c /\ c # NoClaim
  BY <1>2 DEF StructuresAgree, Release, Ids, NoClaim
<1>5. OwnerOf[deeds[c].target] # Nobody
  BY <1>2, <1>4, OwnershipAssumption DEF OwnerOf
<1>6. \A u \in Targets :
        mem'.active[u] = IF u = deeds[c].target THEN NoClaim ELSE mem.active[u]
  BY <1>2, <1>3 DEF Release, DeindexActive
<1>7. OwnerOf' = [OwnerOf EXCEPT ![deeds[c].target] = Nobody]
  BY <1>1, <1>2, <1>6 DEF OwnerOf
<1> QED
  BY <1>2, <1>5, <1>7 DEF Registry!Vacate, Release

(* The ledger implements the first-claim-wins registry: until a log that   *)
(* an append failed to reach is resumed, every operation and every resumed *)
(* simulation acquires a free target, vacates one, or leaves every owner   *)
(* as it was (ownership.py: claim, release, _replay).                      *)
THEOREM LedgerImplementsRegistry == Spec => ImplementsRegistry
<1> DEFINE OwnersTyped == OwnerOf \in [Targets -> Agents \cup {Nobody}]
<1>1. Init => Registry!Init
  BY DEF Init, Registry!Init, OwnerOf, EmptyIndex
<1>2. TypeOK => OwnersTyped
  <2> SUFFICES ASSUME TypeOK, NEW t \in Targets, mem.active[t] # NoClaim
               PROVE  deeds[mem.active[t]].owner \in Agents
    BY DEF OwnerOf
  <2>1. mem.active[t] \in 1..Len(deeds)
    BY DEF TypeOK, Index, Ids
  <2>2. deeds[mem.active[t]] \in Deed
    BY <2>1 DEF TypeOK
  <2> QED
    BY <2>2 DEF Deed
<1>3. ASSUME LedgerInv, OwnersTyped', [Next]_vars
      PROVE  [Registry!Next]_<<OwnerOf, origin>>
  <2>1. CASE origin' = "damaged"
    BY <1>3, <2>1 DEF Registry!Next, Registry!Restore
  <2>2. CASE origin' # "damaged"
    <3>1. origin = "intact" /\ origin' = "intact"
      BY <1>3, <2>2 DEF LedgerInv, TypeOK, Next, vars, Claim, ClaimConflict,
                        Release, Resume
    <3>2. /\ TypeOK /\ StructuresAgree
          /\ Resume => file.img = mem
      BY <1>3, <3>1 DEF LedgerInv, IndexConsistent, LogRebuildsIndex, TypeOK, Resume
    <3>3. ASSUME NEW a \in Agents, NEW t \in Targets, Claim(a, t)
          PROVE  Registry!Next
      BY <3>1, <3>2, <3>3, ClaimAcquires DEF Registry!Next
    <3>4. ASSUME NEW a \in Agents, NEW t \in Targets, ClaimConflict(a, t)
          PROVE  UNCHANGED <<OwnerOf, origin>>
      BY <3>4 DEF ClaimConflict, OwnerOf
    <3>5. ASSUME NEW a \in Agents, NEW c \in 1..Len(deeds), Release(a, c)
          PROVE  Registry!Next
      BY <3>1, <3>2, <3>5, ReleaseVacates DEF Registry!Next, Ids
    <3>6. CASE Resume
      BY <3>1, <3>2, <3>6 DEF Resume, OwnerOf
    <3>7. CASE UNCHANGED vars
      BY <3>7 DEF vars, OwnerOf
    <3> QED
      BY <1>3, <3>3, <3>4, <3>5, <3>6, <3>7 DEF Next
  <2> QED
    BY <2>1, <2>2
<1>4. LedgerInv => TypeOK
  BY DEF LedgerInv
<1> HIDE DEF OwnersTyped
<1> QED
  BY <1>1, <1>2, <1>3, <1>4, LedgerInvHolds, PTL
     DEF Spec, ImplementsRegistry, Registry!Spec, Registry!registry

-----------------------------------------------------------------------------
(* What ReplayInventsNothing says of one replay image, given the claims    *)
(* granted and the claims released so far.                                 *)
Truthful(ix, granted, released) ==
    /\ ix.released \subseteq released \cap ix.known
    /\ \A t \in Targets : ix.active[t] # NoClaim =>
          /\ ix.active[t] \in Held(ix)
          /\ granted[ix.active[t]].target = t

(* Replaying one more "claim" line, for the claim just granted.            *)
LEMMA ReplayClaimTruthful ==
    ASSUME NEW n \in Nat, NEW ix \in Index(1..n), NEW t \in Targets,
           NEW ds, NEW es, NEW lg, Truthful(ix, ds, lg),
           \A d \in 1..n : es[d] = ds[d], es[n+1].target = t
    PROVE  /\ Truthful(ix, es, lg)
           /\ Truthful(ReplayClaim(ix, n+1, t), es, lg)
<1>1. /\ ix.active \in [Targets -> 1..n \cup {NoClaim}]
      /\ ix.known \subseteq 1..n
      /\ ix.released \subseteq 1..n
      /\ n + 1 \notin 1..n
  BY DEF Index
<1>2. Truthful(ix, es, lg)
  BY <1>1 DEF Truthful
<1> DEFINE jx == IndexActive(ix, n+1, t)
<1>3. /\ \A u \in Targets : jx.active[u] = IF u = t THEN n+1 ELSE ix.active[u]
      /\ jx.known = ix.known \cup {n+1}
      /\ jx.released = ix.released
  BY <1>1 DEF IndexActive
<1>4. Held(jx) = Held(ix) \cup {n+1}
  BY <1>1, <1>3 DEF Held
<1> HIDE DEF jx
<1>5. Truthful(jx, es, lg)
  BY <1>1, <1>2, <1>3, <1>4 DEF Truthful
<1> QED
  BY <1>2, <1>5 DEF ReplayClaim, jx

(* Replaying one more "release" line.                                      *)
LEMMA ReplayReleaseTruthful ==
    ASSUME NEW S, NEW ix \in Index(S), NoClaim \notin S, NEW c \in S,
           NEW ds, NEW lg, NEW u \in Targets, ds[c].target = u,
           Truthful(ix, ds, lg)
    PROVE  /\ Truthful(ix, ds, lg \cup {c})
           /\ Truthful(ReplayRelease(ix, c, u), ds, lg \cup {c})
<1>1. Truthful(ix, ds, lg \cup {c})
  BY DEF Truthful
<1>2. CASE c \in Held(ix)
  <2> DEFINE jx == DeindexActive(ix, c, u)
  <2>1. ix.active \in [Targets -> S \cup {NoClaim}]
    BY DEF Index
  <2>2. /\ \A v \in Targets : jx.active[v] = IF v = u THEN NoClaim ELSE ix.active[v]
        /\ jx.known = ix.known
        /\ jx.released = ix.released \cup {c}
        /\ Held(jx) = Held(ix) \ {c}
    BY <2>1 DEF DeindexActive, Held
  <2> HIDE DEF jx
  <2>3. Truthful(jx, ds, lg \cup {c})
    BY <1>1, <1>2, <2>1, <2>2 DEF Truthful, Held
  <2> QED
    BY <1>1, <1>2, <2>3 DEF ReplayRelease, jx
<1>3. CASE c \notin Held(ix)
  BY <1>1, <1>3 DEF ReplayRelease
<1> QED
  BY <1>2, <1>3

(* Whatever appends fail or tear, a replay of the log makes up neither a   *)
(* claim nor a release (ownership.py: _replay, _apply_replay;              *)
(* jsonl.py: append_jsonl).                                                *)
THEOREM ReplayIsTruthful == Spec => []ReplayInventsNothing
<1> DEFINE Inv == /\ Truthful(file.img, deeds, letGo)
                  /\ Truthful(file.base, deeds, letGo)
<1>1. Inv <=> ReplayInventsNothing
  BY DEF ReplayInventsNothing, Truthful
<1>2. Init => Inv
  BY DEF Init, Truthful, Blank, EmptyIndex, NoClaim
<1>3. TypeOK /\ Inv /\ [Next]_vars => Inv'
  <2> SUFFICES ASSUME TypeOK, Inv, [Next]_vars
               PROVE  Inv'
    OBVIOUS
  <2>1. /\ Len(deeds) \in Nat
        /\ file \in Files(Index(Ids))
        /\ file.img \in Index(Ids) /\ file.base \in Index(Ids)
    BY DEF TypeOK, Files
  <2>2. ASSUME NEW next, AppendEvent(next)
        PROVE  /\ file'.img \in {file.base, file.img, next}
               /\ file'.base \in {file.base, file.img, next}
    BY <2>1, <2>2 DEF AppendEvent, Files, Written, Damaged, TornPart,
                      TornWhole, Blank
  <2>3. ASSUME NEW a \in Agents, NEW t \in Targets, Claim(a, t)
        PROVE  Inv'
    <3> DEFINE next == ReplayClaim(file.img, Len(deeds) + 1, t)
    <3>1. /\ \A d \in Ids : deeds'[d] = deeds[d]
          /\ deeds'[Len(deeds) + 1].target = t
          /\ letGo' = letGo
          /\ AppendEvent(next)
      BY <2>1, <2>3 DEF Claim, TypeOK, Ids
    <3>2. /\ Truthful(file.img, deeds', letGo)
          /\ Truthful(next, deeds', letGo)
      BY <2>1, <3>1, ReplayClaimTruthful DEF Ids
    <3>3. Truthful(file.base, deeds', letGo)
      BY <2>1, <3>1, ReplayClaimTruthful DEF Ids
    <3>4. /\ file'.img \in {file.base, file.img, next}
          /\ file'.base \in {file.base, file.img, next}
      BY <2>2, <3>1
    <3> QED
      BY <3>1, <3>2, <3>3, <3>4
  <2>4. ASSUME NEW a \in Agents, NEW t \in Targets, ClaimConflict(a, t)
        PROVE  Inv'
    <3>1. /\ deeds' = deeds /\ letGo' = letGo
          /\ file'.img \in {file.base, file.img}
          /\ file'.base \in {file.base, file.img}
      BY <2>2, <2>4 DEF ClaimConflict, ReplayConflict
    <3> QED
      BY <3>1
  <2>5. ASSUME NEW a \in Agents, NEW c \in 1..Len(deeds), Release(a, c)
        PROVE  Inv'
    <3> DEFINE u == deeds[c].target
               next == ReplayRelease(file.img, c, u)
    <3>1. deeds' = deeds /\ letGo' = letGo \cup {c} /\ AppendEvent(next)
      BY <2>5 DEF Release
    <3>2. u \in Targets /\ c \in Ids /\ NoClaim \notin Ids
      <4>1. deeds[c] \in Deed
        BY DEF TypeOK
      <4> QED
        BY <4>1 DEF Deed, Ids, NoClaim
    <3>3. /\ Truthful(file.img, deeds, letGo \cup {c})
          /\ Truthful(next, deeds, letGo \cup {c})
      BY <2>1, <3>2, ReplayReleaseTruthful
    <3>4. Truthful(file.base, deeds, letGo \cup {c})
      BY <2>1, <3>2, ReplayReleaseTruthful
    <3>5. /\ file'.img \in {file.base, file.img, next}
          /\ file'.base \in {file.base, file.img, next}
      BY <2>2, <3>1
    <3> QED
      BY <3>1, <3>3, <3>4, <3>5
  <2>6. CASE Resume
    BY <2>6 DEF Resume
  <2>7. CASE UNCHANGED vars
    BY <2>7 DEF vars
  <2> QED
    BY <2>3, <2>4, <2>5, <2>6, <2>7 DEF Next
<1> HIDE DEF Inv
<1>4. Spec => []Inv
  BY <1>2, <1>3, TypeCorrect, PTL DEF Spec
<1> QED
  BY <1>1, <1>4, PTL

-----------------------------------------------------------------------------
(* What first-claim-wins means on the map, for coordinates of any size.    *)
(* On one axis: two normalized intervals are not apart exactly when some   *)
(* coordinate lies between the ends of both.  The larger of the two lower  *)
(* ends is a witness, and it is one of the coordinates given.              *)
LEMMA IntervalsMeet ==
    ASSUME NEW p \in Coords, NEW q \in Coords, NEW r \in Coords, NEW s \in Coords
    PROVE  ~(Greatest(p, q) < Least(r, s) \/ Greatest(r, s) < Least(p, q))
             <=> \E i \in Coords : Between(i, p, q) /\ Between(i, r, s)
<1> USE CoordsAssumption DEF Greatest, Least, Between
<1>1. ASSUME NEW i \in Coords, Between(i, p, q), Between(i, r, s)
      PROVE  ~(Greatest(p, q) < Least(r, s) \/ Greatest(r, s) < Least(p, q))
  BY <1>1
<1>2. ASSUME ~(Greatest(p, q) < Least(r, s) \/ Greatest(r, s) < Least(p, q))
      PROVE  \E i \in Coords : Between(i, p, q) /\ Between(i, r, s)
  <2> DEFINE w == Greatest(Least(p, q), Least(r, s))
  <2>1. w \in Coords
    OBVIOUS
  <2>2. Between(w, p, q) /\ Between(w, r, s)
    BY <1>2
  <2> QED
    BY <2>1, <2>2
<1> QED
  BY <1>1, <1>2

(* _regions_overlap on normalized refs decides whether two boxes share a   *)
(* block column.                                                           *)
LEMMA OverlapDecides ==
    ASSUME NEW a \in Refs, NEW b \in Refs
    PROVE  RegionsOverlap(NormalizeRegion(a), NormalizeRegion(b)) <=>
             \E d \in Dims, x, z \in Coords :
                 Covers(a, d, x, z) /\ Covers(b, d, x, z)
<1>1. /\ a.x1 \in Coords /\ a.x2 \in Coords /\ a.z1 \in Coords /\ a.z2 \in Coords
      /\ b.x1 \in Coords /\ b.x2 \in Coords /\ b.z1 \in Coords /\ b.z2 \in Coords
      /\ a.dim \in Dims /\ b.dim \in Dims
  BY DEF Refs
<1>2. RegionsOverlap(NormalizeRegion(a), NormalizeRegion(b)) <=>
        /\ a.dim = b.dim
        /\ ~(\/ Greatest(a.x1, a.x2) < Least(b.x1, b.x2)
             \/ Greatest(b.x1, b.x2) < Least(a.x1, a.x2))
        /\ ~(\/ Greatest(a.z1, a.z2) < Least(b.z1, b.z2)
             \/ Greatest(b.z1, b.z2) < Least(a.z1, a.z2))
  BY DEF RegionsOverlap, NormalizeRegion
<1>3. RegionsOverlap(NormalizeRegion(a), NormalizeRegion(b)) <=>
        /\ a.dim = b.dim
        /\ \E x \in Coords : Between(x, a.x1, a.x2) /\ Between(x, b.x1, b.x2)
        /\ \E z \in Coords : Between(z, a.z1, a.z2) /\ Between(z, b.z1, b.z2)
  BY <1>1, <1>2, IntervalsMeet
<1> QED
  BY <1>1, <1>3 DEF Covers

(* Two region claims conflict exactly when their boxes share a block       *)
(* column, for any integer coordinates and any order of the corners        *)
(* (ownership.py: normalize_region_ref, _regions_overlap).                 *)
THEOREM OverlapCheckIsExact == OverlapIsSharedColumn
BY OverlapDecides DEF OverlapIsSharedColumn

(* Two held claims that do not clash share no block column.                *)
LEMMA ExclusiveSeparatesLand ==
    ASSUME FirstClaimHolds
    PROVE  OneOwnerPerColumn
<1> SUFFICES ASSUME origin = "intact",
                    NEW c \in Held(mem), NEW d \in Held(mem), c # d,
                    deeds[c].target \in Regions, deeds[d].target \in Regions
             PROVE  ~\E w \in Dims, x, z \in Coords :
                        /\ Covers(Ref[deeds[c].target], w, x, z)
                        /\ Covers(Ref[deeds[d].target], w, x, z)
  BY DEF OneOwnerPerColumn
<1> DEFINE r == deeds[c].target
           s == deeds[d].target
<1>1. <<r, s>> \notin Overlaps
  BY DEF FirstClaimHolds, Exclusive, Clash
<1>2. ~RegionsOverlap(NormalizeRegion(Ref[r]), NormalizeRegion(Ref[s]))
  BY <1>1, RefAssumption DEF OverlappingRegions
<1>3. Ref[r] \in Refs /\ Ref[s] \in Refs
  BY RefAssumption
<1> QED
  BY <1>2, <1>3, OverlapDecides

(* Until a damaged log is resumed, no block column is owned twice, for any *)
(* number of agents, regions and claims, any coordinates and any order of  *)
(* the corners (ownership.py: claim, _find_conflict, _regions_overlap).    *)
THEOREM LandHasOneOwner == Spec => []OneOwnerPerColumn
BY FirstClaimWinsHolds, ExclusiveSeparatesLand, PTL

-----------------------------------------------------------------------------
(* Part two, runs: the books of a run.                                     *)
Pcs == {"off", "setup", "check", "trigger", "phase", "stats", "agents", "total", "reflect",
        "read", "book", "status", "config", "render", "spawn", "ended", "dead"}

RunRecords ==
    [pc : Pcs, total : Nat, bill : Nat, actual : Nat, after : {"check", "trigger", "config"},
     status : RunStatuses, body : BOOLEAN, cancelled : BOOLEAN, left : 0 .. Rounds]

RunTypes ==
    /\ mode \in Modes
    /\ row \in [status : RunStatuses, cost : Nat, turns : BOOLEAN]
    /\ spent \in Nat
    /\ run \in RunRecords
    /\ stopped \in BOOLEAN
    /\ starts \in Nat /\ errors \in Nat
    /\ since \in 0 .. spent
    /\ blind \in BOOLEAN /\ revived \in BOOLEAN

(* What the process knows of was spent; what it has read and not booked    *)
(* yet is what it knew and what was spent besides.                         *)
TotalCovered ==
    /\ run.total + (IF run.pc \in {"stats", "agents", "total"} THEN run.bill ELSE 0) <= spent
    /\ run.pc = "book" => run.total <= run.actual /\ run.actual + since = spent
    /\ run.pc = "off" => starts = 0 /\ spent = 0 /\ row.cost = 0
    /\ run.pc # "off" => starts >= 1
    /\ run.pc \in {"read", "book"} /\ run.after = "trigger" => mode = "persistent"
    /\ mode # "persistent" /\ run.pc \in {"trigger", "phase", "stats", "agents", "total"} =>
           run.left > 0

(* The row is charged what the process knows of, and the bill it books.    *)
RowFollows ==
    errors = 0 /\ ~revived =>
        /\ row.cost <= spent
        /\ Alive => row.cost <= run.total + (IF run.pc \in {"agents", "total"} THEN run.bill ELSE 0)
        /\ Alive /\ starts = 1 =>
              row.cost = run.total + (IF run.pc \in {"agents", "total"} THEN run.bill ELSE 0)

(* Where the cap was checked after the last read, or nothing was spent     *)
(* before it.  A persistent run may begin with costs and reads them first. *)
Checked ==
    ~blind /\ (Working \/ run.pc = "trigger"
                 \/ (mode # "persistent" /\ run.pc \in {"off", "setup", "check"})) =>
        spent - since <= MaxCost

RunInv == RunTypes /\ TotalCovered /\ RowFollows /\ Checked

LEMMA RunStart == RunInit => RunInv
<1> SUFFICES ASSUME RunInit PROVE RunInv
  OBVIOUS
<1>1. RunTypes
  <2>1. run \in RunRecords
    <3>1. Rounds \in 0 .. Rounds
      BY RunAssumption
    <3> QED
      BY <3>1 DEF RunInit, RunRecords, Pcs, RunStatuses
  <2>2. row \in [status : RunStatuses, cost : Nat, turns : BOOLEAN]
    BY DEF RunInit, RunStatuses
  <2>3. since \in 0 .. spent /\ spent \in Nat /\ starts \in Nat /\ errors \in Nat /\ mode \in Modes
    BY DEF RunInit
  <2>4. stopped \in BOOLEAN /\ blind \in BOOLEAN /\ revived \in BOOLEAN
    BY DEF RunInit
  <2> QED
    BY <2>1, <2>2, <2>3, <2>4 DEF RunTypes
<1>2. TotalCovered /\ RowFollows /\ Checked
  BY RunAssumption DEF RunInit, TotalCovered, RowFollows, Checked, Alive, Working
<1> QED
  BY <1>1, <1>2 DEF RunInv

(* What a process starts with.                                             *)
LEMMA Launched ==
    ASSUME RunTypes, NEW total \in Nat, Launch(total)
    PROVE  /\ run' \in RunRecords /\ run'.pc = "setup" /\ run'.total = total
           /\ row' = [row EXCEPT !.status = "running"] /\ starts' = starts + 1
           /\ UNCHANGED <<mode, spent, stopped, errors>>
<1> DEFINE start == [run EXCEPT !.pc = "setup", !.total = total, !.bill = 0, !.status = "none",
                                !.body = TRUE, !.cancelled = FALSE, !.left = Rounds]
<1>1. /\ run \in RunRecords /\ "setup" \in Pcs /\ "none" \in RunStatuses
      /\ Rounds \in 0 .. Rounds /\ 0 \in Nat /\ TRUE \in BOOLEAN /\ FALSE \in BOOLEAN
  BY RunAssumption DEF RunTypes, Pcs, RunStatuses
<1>2. start \in RunRecords /\ start.pc = "setup" /\ start.total = total
  BY <1>1 DEF RunRecords
<1> HIDE DEF start
<1>3. run' = start
  BY DEF Launch, start
<1> QED
  BY <1>2, <1>3 DEF Launch

(* Where the cost check goes on to, and that it goes on below the cap.     *)
LEMMA CheckedNext ==
    ASSUME NEW r \in RunRecords, r.after = run.after, NEW next \in AfterCheck(r)
    PROVE  /\ next \in RunRecords /\ next.total = r.total /\ next.left = r.left
           /\ next.pc \in {"config", "status", "check", "trigger"}
           /\ next.pc \in {"check", "trigger"} => r.total <= MaxCost /\ next.pc = r.after
<1>1. /\ Capped(r) \in RunRecords /\ Capped(r).total = r.total /\ Capped(r).left = r.left
      /\ Capped(r).pc = "status"
  BY DEF Capped, RunRecords, Pcs, RunStatuses
<1>2. ASSUME NEW pc \in {"config", "check", "trigger"}
      PROVE  /\ [r EXCEPT !.pc = pc] \in RunRecords /\ [r EXCEPT !.pc = pc].total = r.total
             /\ [r EXCEPT !.pc = pc].left = r.left /\ [r EXCEPT !.pc = pc].pc = pc
  BY DEF RunRecords, Pcs
<1>3. r.after \in {"config", "check", "trigger"} /\ r.total \in Nat /\ MaxCost \in Nat
  BY RunAssumption DEF RunRecords
<1> DEFINE config == [r EXCEPT !.pc = "config"]
           on == [r EXCEPT !.pc = r.after]
           rolling == IF mode = "persistent" THEN {Capped(r)} ELSE {}
<1>4. AfterCheck(r) = IF r.after = "config" THEN {config}
                      ELSE IF OverCap(r.total) THEN {Capped(r)}
                      ELSE {on} \cup rolling
  <2>1. on = [r EXCEPT !.pc = run.after] /\ (r.after = "config" <=> run.after = "config")
    OBVIOUS
  <2> QED
    BY <2>1 DEF AfterCheck
<1>5. rolling \subseteq {Capped(r)}
  OBVIOUS
<1>6. /\ config \in RunRecords /\ config.total = r.total /\ config.left = r.left /\ config.pc = "config"
      /\ r.after # "config" => on \in RunRecords /\ on.total = r.total /\ on.left = r.left /\ on.pc = r.after
  BY <1>2, <1>3
<1> HIDE DEF config, on, rolling
<1>7. \/ r.after = "config" /\ next = config
      \/ next = Capped(r)
      \/ r.after # "config" /\ ~OverCap(r.total) /\ next = on
  BY <1>4, <1>5
<1>8. ~OverCap(r.total) => r.total <= MaxCost
  BY <1>3 DEF OverCap
<1> QED
  BY <1>1, <1>3, <1>6, <1>7, <1>8

LEMMA RunKept == RunInv /\ RunNext => RunInv'
<1> SUFFICES ASSUME RunInv, RunNext PROVE RunInv'
  OBVIOUS
<1>t. /\ mode \in Modes /\ row \in [status : RunStatuses, cost : Nat, turns : BOOLEAN]
      /\ spent \in Nat /\ run \in RunRecords /\ stopped \in BOOLEAN /\ starts \in Nat /\ errors \in Nat
      /\ since \in 0 .. spent /\ blind \in BOOLEAN /\ revived \in BOOLEAN
      /\ Rounds \in Nat /\ MaxCost \in Nat /\ Bills \subseteq Nat
  BY RunAssumption DEF RunInv, RunTypes
<1>i. TotalCovered /\ RowFollows /\ Checked
  BY DEF RunInv
<1>1. ASSUME Create PROVE RunInv'
  <2>1. Launch(0) /\ UNCHANGED books /\ run.pc = "off"
    BY <1>1 DEF Create, At
  <2>2. /\ run' \in RunRecords /\ run'.pc = "setup" /\ run'.total = 0
        /\ row' = [row EXCEPT !.status = "running"] /\ starts' = starts + 1
        /\ UNCHANGED <<mode, spent, stopped, errors, since, blind, revived>>
    BY <2>1, Launched DEF RunInv, books
  <2>3. row' \in [status : RunStatuses, cost : Nat, turns : BOOLEAN] /\ row'.cost = row.cost
    BY <1>t, <2>2 DEF RunStatuses
  <2>4. RunTypes'
    BY <1>t, <2>2, <2>3 DEF RunTypes
  <2>5. TotalCovered' /\ RowFollows' /\ Checked'
    BY <1>t, <1>i, <2>1, <2>2, <2>3 DEF TotalCovered, RowFollows, Checked, Alive, Working
  <2> QED
    BY <2>4, <2>5 DEF RunInv
<1>2. ASSUME ApiCreates PROVE RunInv'
  <2>1. RunTypes'
    <3>1. run' \in RunRecords
      BY <1>2, <1>t, <1>i DEF ApiCreates, At, RunRecords, Pcs, RunStatuses, books, TotalCovered
    <3>2. row' \in [status : RunStatuses, cost : Nat, turns : BOOLEAN]
      BY <1>2, <1>t, <1>i DEF ApiCreates, At, RunRecords, RunStatuses, books, TotalCovered
    <3>3. /\ spent' \in Nat /\ since' \in 0 .. spent' /\ mode' \in Modes
          /\ starts' \in Nat /\ errors' \in Nat
      BY <1>2, <1>t DEF ApiCreates, At, books
    <3>4. stopped' \in BOOLEAN /\ blind' \in BOOLEAN /\ revived' \in BOOLEAN
      BY <1>2, <1>t DEF ApiCreates, At, books
    <3> QED
      BY <3>1, <3>2, <3>3, <3>4 DEF RunTypes
  <2>2. TotalCovered'
    BY <1>2, <1>t, <1>i DEF ApiCreates, At, RunRecords, Pcs, books, TotalCovered
  <2>3. RowFollows'
    BY <1>2, <1>t, <1>i DEF ApiCreates, At, RunRecords, Pcs, books, TotalCovered, RowFollows, Alive
  <2>4. Checked'
    BY <1>2, <1>t, <1>i DEF ApiCreates, At, RunRecords, Pcs, books, TotalCovered, Checked, Working
  <2> QED
    BY <2>1, <2>2, <2>3, <2>4 DEF RunInv
<1>3. ASSUME Attach PROVE RunInv'
  <2> DEFINE total == IF mode = "persistent" /\ row.status = "running" THEN spent ELSE 0
  <2>1. /\ Launch(total) /\ UNCHANGED <<since, blind>>
        /\ revived' = (revived \/ row.status # "running")
        /\ run.pc = "off" \/ (mode = "persistent" /\ run.pc \in {"ended", "dead"})
    BY <1>3 DEF Attach, At
  <2>2. total \in Nat /\ total <= spent
    BY <1>t
  <2>3. /\ run' \in RunRecords /\ run'.pc = "setup" /\ run'.total = total
        /\ row' = [row EXCEPT !.status = "running"] /\ starts' = starts + 1
        /\ UNCHANGED <<mode, spent, stopped, errors>>
    BY <2>1, <2>2, Launched DEF RunInv
  <2>4. row' \in [status : RunStatuses, cost : Nat, turns : BOOLEAN] /\ row'.cost = row.cost
    BY <1>t, <2>3 DEF RunStatuses
  <2>5. revived' \in BOOLEAN
    BY <2>1
  <2>6. RunTypes'
    BY <1>t, <2>1, <2>3, <2>4, <2>5 DEF RunTypes
  <2>7. TotalCovered' /\ Checked'
    BY <1>t, <1>i, <2>1, <2>2, <2>3, <2>4 DEF TotalCovered, Checked, Working
  <2>8. RowFollows'
    <3> SUFFICES ASSUME errors = 0, ~revived, row.status = "running"
                 PROVE  /\ row.cost <= spent /\ row.cost <= total
                        /\ starts + 1 = 1 => row.cost = total
      <4>1. starts' \in Nat /\ run'.pc \notin {"agents", "total"}
        BY <1>t, <2>3
      <4> QED
        <5>1. ~revived' => ~revived /\ row.status = "running"
          BY <2>1
        <5> QED
          BY <1>t, <2>3, <2>4, <4>1, <5>1 DEF RowFollows
    <3>1. row.cost <= spent /\ row.cost \in Nat
      BY <1>t, <1>i DEF RowFollows
    <3>2. CASE run.pc = "off"
      BY <1>t, <1>i, <3>2 DEF TotalCovered
    <3>3. CASE mode = "persistent" /\ run.pc # "off"
      BY <1>t, <1>i, <3>1, <3>3 DEF TotalCovered
    <3> QED
      BY <2>1, <3>2, <3>3
  <2> QED
    BY <2>6, <2>7, <2>8 DEF RunInv
<1>4. ASSUME SetUp PROVE RunInv'
  <2>1. RunTypes'
    <3>1. run' \in RunRecords
      BY <1>4, <1>t, <1>i DEF SetUp, At, Goes, Error, RunRecords, Pcs, RunStatuses, books, TotalCovered
    <3>2. row' \in [status : RunStatuses, cost : Nat, turns : BOOLEAN]
      BY <1>4, <1>t, <1>i DEF SetUp, At, Goes, Error, RunRecords, RunStatuses, books, TotalCovered
    <3>3. /\ spent' \in Nat /\ since' \in 0 .. spent' /\ mode' \in Modes
          /\ starts' \in Nat /\ errors' \in Nat
      BY <1>4, <1>t DEF SetUp, At, Goes, Error, books
    <3>4. stopped' \in BOOLEAN /\ blind' \in BOOLEAN /\ revived' \in BOOLEAN
      BY <1>4, <1>t DEF SetUp, At, Goes, Error, books
    <3> QED
      BY <3>1, <3>2, <3>3, <3>4 DEF RunTypes
  <2>2. TotalCovered'
    BY <1>4, <1>t, <1>i DEF SetUp, At, Goes, Error, RunRecords, Pcs, books, TotalCovered
  <2>3. RowFollows'
    BY <1>4, <1>t, <1>i DEF SetUp, At, Goes, Error, RunRecords, Pcs, books, TotalCovered, RowFollows, Alive
  <2>4. Checked'
    BY <1>4, <1>t, <1>i DEF SetUp, At, Goes, Error, RunRecords, Pcs, books, TotalCovered, Checked, Working
  <2> QED
    BY <2>1, <2>2, <2>3, <2>4 DEF RunInv
<1>5. ASSUME Check PROVE RunInv'
  <2>1. run.pc = "check" /\ UNCHANGED <<mode, row, spent, stopped, starts, errors, since, blind, revived>>
    BY <1>5 DEF Check, At, books
  <2>2. /\ run' \in RunRecords /\ run'.total = run.total /\ run'.left = run.left
        /\ \/ run'.pc = "status"
           \/ mode = "persistent" /\ run'.pc = "read" /\ run'.after = "trigger"
           \/ mode # "persistent" /\ run'.pc \in {"phase", "trigger"} /\ run.left > 0
    <3>1. CASE Terminated
      <4>1. \E status \in {"cancelled", "completed"} :
                run' = [run EXCEPT !.pc = "status", !.status = status]
        BY <1>5, <3>1 DEF Check, Ends
      <4> QED
        BY <1>t, <4>1 DEF RunRecords, Pcs, RunStatuses
    <3>2. CASE ~Terminated /\ mode = "persistent"
      <4>1. run' = [run EXCEPT !.pc = "read", !.after = "trigger"]
        BY <1>5, <3>2 DEF Check
      <4> QED
        BY <1>t, <3>2, <4>1 DEF RunRecords, Pcs
    <3>3. CASE ~Terminated /\ mode # "persistent"
      <4>1. \E pc \in {"phase", "trigger"} : run' = [run EXCEPT !.pc = pc]
        BY <1>5, <3>3 DEF Check, Goes
      <4>2. run.left \in 0 .. Rounds /\ run.left # 0
        BY <1>t, <3>3 DEF Terminated, RunRecords
      <4>3. run.left > 0
        BY <1>t, <4>2
      <4> QED
        BY <1>t, <3>3, <4>1, <4>3 DEF RunRecords, Pcs
    <3> QED
      BY <3>1, <3>2, <3>3
  <2>3. RunTypes'
    BY <1>t, <2>1, <2>2 DEF RunTypes
  <2>4. TotalCovered'
    BY <1>t, <1>i, <2>1, <2>2 DEF TotalCovered, RunRecords
  <2>5. RowFollows' /\ Checked'
    BY <1>t, <1>i, <2>1, <2>2 DEF RowFollows, Checked, Alive, Working
  <2> QED
    BY <2>3, <2>4, <2>5 DEF RunInv
<1>6. ASSUME Trigger PROVE RunInv'
  <2>1. RunTypes'
    <3>1. run' \in RunRecords
      <4>1. CASE run' = [run EXCEPT !.pc = "phase"]
        BY <1>t, <4>1 DEF RunRecords, Pcs
      <4>2. ASSUME NEW left, run' = [run EXCEPT !.pc = "check", !.left = left], left \in 0 .. Rounds
            PROVE  run' \in RunRecords
        BY <1>t, <4>2 DEF RunRecords, Pcs
      <4>3. run.left \in 0 .. Rounds /\ (mode # "persistent" => run.left - 1 \in 0 .. Rounds)
        BY <1>6, <1>t, <1>i DEF Trigger, At, TotalCovered, RunRecords
      <4> QED
        BY <1>6, <4>1, <4>2, <4>3 DEF Trigger, Goes
    <3>2. row' \in [status : RunStatuses, cost : Nat, turns : BOOLEAN]
      BY <1>6, <1>t, <1>i DEF Trigger, At, Goes, RunRecords, RunStatuses, books, TotalCovered
    <3>3. /\ spent' \in Nat /\ since' \in 0 .. spent' /\ mode' \in Modes
          /\ starts' \in Nat /\ errors' \in Nat
      BY <1>6, <1>t DEF Trigger, At, Goes, books
    <3>4. stopped' \in BOOLEAN /\ blind' \in BOOLEAN /\ revived' \in BOOLEAN
      BY <1>6, <1>t DEF Trigger, At, Goes, books
    <3> QED
      BY <3>1, <3>2, <3>3, <3>4 DEF RunTypes
  <2>2. TotalCovered'
    BY <1>6, <1>t, <1>i DEF Trigger, At, Goes, RunRecords, Pcs, books, TotalCovered
  <2>3. RowFollows'
    BY <1>6, <1>t, <1>i DEF Trigger, At, Goes, RunRecords, Pcs, books, TotalCovered, RowFollows, Alive
  <2>4. Checked'
    BY <1>6, <1>t, <1>i DEF Trigger, At, Goes, RunRecords, Pcs, books, TotalCovered, Checked, Working
  <2> QED
    BY <2>1, <2>2, <2>3, <2>4 DEF RunInv
<1>7. ASSUME RunPhase PROVE RunInv'
  <2>1. RunTypes'
    <3>1. run' \in RunRecords
      BY <1>7, <1>t, <1>i DEF RunPhase, At, Spends, RunRecords, Pcs, RunStatuses, books, TotalCovered
    <3>2. row' \in [status : RunStatuses, cost : Nat, turns : BOOLEAN]
      BY <1>7, <1>t, <1>i DEF RunPhase, At, Spends, RunRecords, RunStatuses, books, TotalCovered
    <3>3. /\ spent' \in Nat /\ since' \in 0 .. spent' /\ mode' \in Modes
          /\ starts' \in Nat /\ errors' \in Nat
      BY <1>7, <1>t DEF RunPhase, At, Spends, books
    <3>4. stopped' \in BOOLEAN /\ blind' \in BOOLEAN /\ revived' \in BOOLEAN
      BY <1>7, <1>t DEF RunPhase, At, Spends, books
    <3> QED
      BY <3>1, <3>2, <3>3, <3>4 DEF RunTypes
  <2>2. TotalCovered'
    BY <1>7, <1>t, <1>i DEF RunPhase, At, Spends, RunRecords, Pcs, books, TotalCovered
  <2>3. RowFollows'
    BY <1>7, <1>t, <1>i DEF RunPhase, At, Spends, RunRecords, Pcs, books, TotalCovered, RowFollows, Alive
  <2>4. Checked'
    BY <1>7, <1>t, <1>i DEF RunPhase, At, Spends, RunRecords, Pcs, books, TotalCovered, Checked, Working
  <2> QED
    BY <2>1, <2>2, <2>3, <2>4 DEF RunInv
<1>8. ASSUME IncrementStats PROVE RunInv'
  <2>1. RunTypes'
    <3>1. run' \in RunRecords
      BY <1>8, <1>t, <1>i DEF IncrementStats, At, Goes, RunRecords, Pcs, RunStatuses, books, TotalCovered
    <3>2. row' \in [status : RunStatuses, cost : Nat, turns : BOOLEAN]
      <4>1. row' = [row EXCEPT !.cost = row.cost + run.bill, !.turns = TRUE]
        BY <1>8 DEF IncrementStats
      <4>2. row.cost + run.bill \in Nat
        BY <1>t DEF RunRecords
      <4> QED
        BY <1>t, <4>1, <4>2
    <3>3. /\ spent' \in Nat /\ since' \in 0 .. spent' /\ mode' \in Modes
          /\ starts' \in Nat /\ errors' \in Nat
      BY <1>8, <1>t DEF IncrementStats, At, Goes, books
    <3>4. stopped' \in BOOLEAN /\ blind' \in BOOLEAN /\ revived' \in BOOLEAN
      BY <1>8, <1>t DEF IncrementStats, At, Goes, books
    <3> QED
      BY <3>1, <3>2, <3>3, <3>4 DEF RunTypes
  <2>2. TotalCovered'
    BY <1>8, <1>t, <1>i DEF IncrementStats, At, Goes, RunRecords, Pcs, books, TotalCovered
  <2>3. RowFollows'
    BY <1>8, <1>t, <1>i DEF IncrementStats, At, Goes, RunRecords, Pcs, books, TotalCovered, RowFollows, Alive
  <2>4. Checked'
    BY <1>8, <1>t, <1>i DEF IncrementStats, At, Goes, RunRecords, Pcs, books, TotalCovered, Checked, Working
  <2> QED
    BY <2>1, <2>2, <2>3, <2>4 DEF RunInv
<1>9. ASSUME UpdateAgents PROVE RunInv'
  <2>1. RunTypes'
    <3>1. run' \in RunRecords
      BY <1>9, <1>t, <1>i DEF UpdateAgents, At, Goes, RunRecords, Pcs, RunStatuses, books, TotalCovered
    <3>2. row' \in [status : RunStatuses, cost : Nat, turns : BOOLEAN]
      BY <1>9, <1>t, <1>i DEF UpdateAgents, At, Goes, RunRecords, RunStatuses, books, TotalCovered
    <3>3. /\ spent' \in Nat /\ since' \in 0 .. spent' /\ mode' \in Modes
          /\ starts' \in Nat /\ errors' \in Nat
      BY <1>9, <1>t DEF UpdateAgents, At, Goes, books
    <3>4. stopped' \in BOOLEAN /\ blind' \in BOOLEAN /\ revived' \in BOOLEAN
      BY <1>9, <1>t DEF UpdateAgents, At, Goes, books
    <3> QED
      BY <3>1, <3>2, <3>3, <3>4 DEF RunTypes
  <2>2. TotalCovered'
    BY <1>9, <1>t, <1>i DEF UpdateAgents, At, Goes, RunRecords, Pcs, books, TotalCovered
  <2>3. RowFollows'
    BY <1>9, <1>t, <1>i DEF UpdateAgents, At, Goes, RunRecords, Pcs, books, TotalCovered, RowFollows, Alive
  <2>4. Checked'
    BY <1>9, <1>t, <1>i DEF UpdateAgents, At, Goes, RunRecords, Pcs, books, TotalCovered, Checked, Working
  <2> QED
    BY <2>1, <2>2, <2>3, <2>4 DEF RunInv
<1>10. ASSUME AddTotal PROVE RunInv'
  <2>1. RunTypes'
    <3>1. run' \in RunRecords
      <4>1. ASSUME NEW total \in Nat, NEW left \in 0 .. Rounds,
                   run' = [run EXCEPT !.pc = "reflect", !.total = total, !.left = left]
            PROVE  run' \in RunRecords
        BY <1>t, <4>1 DEF RunRecords, Pcs
      <4>2. run.left \in 0 .. Rounds /\ (mode # "persistent" => run.left - 1 \in 0 .. Rounds)
        BY <1>10, <1>t, <1>i DEF AddTotal, At, TotalCovered, RunRecords
      <4>3. run.total + run.bill \in Nat
        BY <1>t DEF RunRecords
      <4> QED
        BY <1>10, <4>1, <4>2, <4>3 DEF AddTotal
    <3>2. row' \in [status : RunStatuses, cost : Nat, turns : BOOLEAN]
      BY <1>10, <1>t, <1>i DEF AddTotal, At, RunRecords, RunStatuses, books, TotalCovered
    <3>3. /\ spent' \in Nat /\ since' \in 0 .. spent' /\ mode' \in Modes
          /\ starts' \in Nat /\ errors' \in Nat
      BY <1>10, <1>t DEF AddTotal, At, books
    <3>4. stopped' \in BOOLEAN /\ blind' \in BOOLEAN /\ revived' \in BOOLEAN
      BY <1>10, <1>t DEF AddTotal, At, books
    <3> QED
      BY <3>1, <3>2, <3>3, <3>4 DEF RunTypes
  <2>2. TotalCovered'
    BY <1>10, <1>t, <1>i DEF AddTotal, At, RunRecords, Pcs, books, TotalCovered
  <2>3. RowFollows'
    BY <1>10, <1>t, <1>i DEF AddTotal, At, RunRecords, Pcs, books, TotalCovered, RowFollows, Alive
  <2>4. Checked'
    BY <1>10, <1>t, <1>i DEF AddTotal, At, RunRecords, Pcs, books, TotalCovered, Checked, Working
  <2> QED
    BY <2>1, <2>2, <2>3, <2>4 DEF RunInv
<1>11. ASSUME Reflect PROVE RunInv'
  <2>1. RunTypes'
    <3>1. run' \in RunRecords
      BY <1>11, <1>t, <1>i DEF Reflect, At, Spends, RunRecords, Pcs, RunStatuses, books, TotalCovered
    <3>2. row' \in [status : RunStatuses, cost : Nat, turns : BOOLEAN]
      BY <1>11, <1>t, <1>i DEF Reflect, At, Spends, RunRecords, RunStatuses, books, TotalCovered
    <3>3. /\ spent' \in Nat /\ since' \in 0 .. spent' /\ mode' \in Modes
          /\ starts' \in Nat /\ errors' \in Nat
      BY <1>11, <1>t DEF Reflect, At, Spends, books
    <3>4. stopped' \in BOOLEAN /\ blind' \in BOOLEAN /\ revived' \in BOOLEAN
      BY <1>11, <1>t DEF Reflect, At, Spends, books
    <3> QED
      BY <3>1, <3>2, <3>3, <3>4 DEF RunTypes
  <2>2. TotalCovered'
    BY <1>11, <1>t, <1>i DEF Reflect, At, Spends, RunRecords, Pcs, books, TotalCovered
  <2>3. RowFollows'
    BY <1>11, <1>t, <1>i DEF Reflect, At, Spends, RunRecords, Pcs, books, TotalCovered, RowFollows, Alive
  <2>4. Checked'
    BY <1>11, <1>t, <1>i DEF Reflect, At, Spends, RunRecords, Pcs, books, TotalCovered, Checked, Working
  <2> QED
    BY <2>1, <2>2, <2>3, <2>4 DEF RunInv
<1>12. ASSUME PhaseRaises PROVE RunInv'
  <2>1. RunTypes'
    <3>1. run' \in RunRecords
      BY <1>12, <1>t, <1>i DEF PhaseRaises, Awaiting, Working, At, Error, Failed, RunRecords, Pcs, RunStatuses, books, TotalCovered
    <3>2. row' \in [status : RunStatuses, cost : Nat, turns : BOOLEAN]
      BY <1>12, <1>t, <1>i DEF PhaseRaises, Awaiting, Working, At, Error, Failed, RunRecords, RunStatuses, books, TotalCovered
    <3>3. /\ spent' \in Nat /\ since' \in 0 .. spent' /\ mode' \in Modes
          /\ starts' \in Nat /\ errors' \in Nat
      BY <1>12, <1>t DEF PhaseRaises, Awaiting, Working, At, Error, Failed, books
    <3>4. stopped' \in BOOLEAN /\ blind' \in BOOLEAN /\ revived' \in BOOLEAN
      BY <1>12, <1>t DEF PhaseRaises, Awaiting, Working, At, Error, Failed, books
    <3> QED
      BY <3>1, <3>2, <3>3, <3>4 DEF RunTypes
  <2>2. TotalCovered'
    BY <1>12, <1>t, <1>i DEF PhaseRaises, Awaiting, Working, At, Error, Failed, RunRecords, Pcs, books, TotalCovered
  <2>3. RowFollows'
    BY <1>12, <1>t, <1>i DEF PhaseRaises, Awaiting, Working, At, Error, Failed, RunRecords, Pcs, books, TotalCovered, RowFollows, Alive
  <2>4. Checked'
    BY <1>12, <1>t, <1>i DEF PhaseRaises, Awaiting, Working, At, Error, Failed, RunRecords, Pcs, books, TotalCovered, Checked, Working
  <2> QED
    BY <2>1, <2>2, <2>3, <2>4 DEF RunInv
<1>13. ASSUME Background PROVE RunInv'
  <2>1. RunTypes'
    <3>1. run' \in RunRecords
      BY <1>13, <1>t, <1>i DEF Background, Alive, Spends, RunRecords, Pcs, RunStatuses, books, TotalCovered
    <3>2. row' \in [status : RunStatuses, cost : Nat, turns : BOOLEAN]
      BY <1>13, <1>t, <1>i DEF Background, Alive, Spends, RunRecords, RunStatuses, books, TotalCovered
    <3>3. /\ spent' \in Nat /\ since' \in 0 .. spent' /\ mode' \in Modes
          /\ starts' \in Nat /\ errors' \in Nat
      BY <1>13, <1>t DEF Background, Alive, Spends, books
    <3>4. stopped' \in BOOLEAN /\ blind' \in BOOLEAN /\ revived' \in BOOLEAN
      BY <1>13, <1>t DEF Background, Alive, Spends, books
    <3> QED
      BY <3>1, <3>2, <3>3, <3>4 DEF RunTypes
  <2>2. TotalCovered'
    <3>1. PICK extra \in Nat : /\ spent' = spent + extra /\ since' = since + extra
                               /\ UNCHANGED <<mode, row, run, starts>> /\ run.pc # "off"
      BY <1>13, <1>t DEF Background, Spends, Alive
    <3>2. run.total \in Nat /\ run.bill \in Nat /\ run.actual \in Nat
      BY <1>t DEF RunRecords
    <3> QED
      BY <1>t, <1>i, <3>1, <3>2 DEF TotalCovered
  <2>3. RowFollows'
    BY <1>13, <1>t, <1>i DEF Background, Alive, Spends, RunRecords, Pcs, books, TotalCovered, RowFollows, Alive
  <2>4. Checked'
    BY <1>13, <1>t, <1>i DEF Background, Alive, Spends, RunRecords, Pcs, books, TotalCovered, Checked, Working
  <2> QED
    BY <2>1, <2>2, <2>3, <2>4 DEF RunInv
<1>14. ASSUME ReadCosts PROVE RunInv'
  <2>1. RunTypes'
    <3>1. run' \in RunRecords
      BY <1>14, <1>t, <1>i DEF ReadCosts, At, RunRecords, Pcs, RunStatuses, books, TotalCovered
    <3>2. row' \in [status : RunStatuses, cost : Nat, turns : BOOLEAN]
      BY <1>14, <1>t, <1>i DEF ReadCosts, At, RunRecords, RunStatuses, books, TotalCovered
    <3>3. /\ spent' \in Nat /\ since' \in 0 .. spent' /\ mode' \in Modes
          /\ starts' \in Nat /\ errors' \in Nat
      BY <1>14, <1>t DEF ReadCosts, At, books
    <3>4. stopped' \in BOOLEAN /\ blind' \in BOOLEAN /\ revived' \in BOOLEAN
      BY <1>14, <1>t DEF ReadCosts, At, books
    <3> QED
      BY <3>1, <3>2, <3>3, <3>4 DEF RunTypes
  <2>2. TotalCovered'
    BY <1>14, <1>t, <1>i DEF ReadCosts, At, RunRecords, Pcs, books, TotalCovered
  <2>3. RowFollows'
    BY <1>14, <1>t, <1>i DEF ReadCosts, At, RunRecords, Pcs, books, TotalCovered, RowFollows, Alive
  <2>4. Checked'
    BY <1>14, <1>t, <1>i DEF ReadCosts, At, RunRecords, Pcs, books, TotalCovered, Checked, Working
  <2> QED
    BY <2>1, <2>2, <2>3, <2>4 DEF RunInv
<1>15. ASSUME BookCosts PROVE RunInv'
  <2> DEFINE told == [run EXCEPT !.total = run.actual]
  <2>1. /\ run.pc = "book" /\ row' = [row EXCEPT !.cost = row.cost + (run.actual - run.total)]
        /\ run' \in AfterCheck(told) /\ blind' = FALSE
        /\ UNCHANGED <<mode, spent, stopped, starts, errors, since, revived>>
    BY <1>15 DEF BookCosts, At
  <2>2. told \in RunRecords /\ told.total = run.actual /\ told.left = run.left /\ told.after = run.after
    BY <1>t DEF RunRecords
  <2>3. /\ run' \in RunRecords /\ run'.total = run.actual
        /\ run'.pc \in {"config", "status", "check", "trigger"}
        /\ run'.pc \in {"check", "trigger"} => run.actual <= MaxCost
        /\ run'.pc = "trigger" => run.after = "trigger" /\ run'.left = run.left
    <3> HIDE DEF told
    <3>1. /\ run' \in RunRecords /\ run'.total = told.total /\ run'.left = told.left
          /\ run'.pc \in {"config", "status", "check", "trigger"}
          /\ run'.pc \in {"check", "trigger"} => told.total <= MaxCost /\ run'.pc = told.after
      BY <2>1, <2>2, CheckedNext
    <3> QED
      BY <2>2, <3>1
  <2>4. run.actual \in Nat /\ run.total \in Nat /\ run.total <= run.actual /\ run.actual + since = spent
    BY <1>t, <1>i, <2>1 DEF TotalCovered, RunRecords
  <2>5. /\ row' \in [status : RunStatuses, cost : Nat, turns : BOOLEAN]
        /\ row'.cost = row.cost + (run.actual - run.total)
    BY <1>t, <2>1, <2>4
  <2>6. RunTypes'
    BY <1>t, <2>1, <2>3, <2>5 DEF RunTypes
  <2>7. TotalCovered'
    BY <1>t, <1>i, <2>1, <2>3, <2>4 DEF TotalCovered
  <2>8. RowFollows'
    BY <1>t, <1>i, <2>1, <2>3, <2>4, <2>5 DEF RowFollows, Alive
  <2>9. Checked'
    BY <1>t, <2>1, <2>3, <2>4 DEF Checked, Working
  <2> QED
    BY <2>6, <2>7, <2>8, <2>9 DEF RunInv
<1>16. ASSUME ReconcileFails PROVE RunInv'
  <2>1. /\ run.pc \in {"read", "book"} /\ run' \in AfterCheck(run) /\ blind' = TRUE
        /\ errors' = errors + 1 /\ UNCHANGED <<mode, spent, stopped, starts, since, revived>>
        /\ \/ row' = row
           \/ run.pc = "book" /\ row' = [row EXCEPT !.cost = row.cost + (run.actual - run.total)]
    BY <1>16 DEF ReconcileFails, At, Error
  <2>2. /\ run' \in RunRecords /\ run'.total = run.total /\ run'.left = run.left
        /\ run'.pc \in {"config", "status", "check", "trigger"}
        /\ run'.pc = "trigger" => run.after = "trigger"
    BY <1>t, <2>1, CheckedNext
  <2>3. row' \in [status : RunStatuses, cost : Nat, turns : BOOLEAN]
    <3>1. run.pc = "book" => row.cost + (run.actual - run.total) \in Nat
      BY <1>t, <1>i DEF TotalCovered, RunRecords
    <3> QED
      BY <1>t, <2>1, <3>1
  <2>4. RunTypes'
    BY <1>t, <2>1, <2>2, <2>3 DEF RunTypes
  <2>5. TotalCovered'
    BY <1>t, <1>i, <2>1, <2>2 DEF TotalCovered, RunRecords
  <2>6. RowFollows' /\ Checked'
    BY <1>t, <2>1 DEF RowFollows, Checked
  <2> QED
    BY <2>4, <2>5, <2>6 DEF RunInv
<1>17. ASSUME RollingRaises PROVE RunInv'
  <2>1. RunTypes'
    <3>1. run' \in RunRecords
      BY <1>17, <1>t, <1>i DEF RollingRaises, At, OverCap, Failed, Error, RunRecords, Pcs, RunStatuses, books, TotalCovered
    <3>2. row' \in [status : RunStatuses, cost : Nat, turns : BOOLEAN]
      BY <1>17, <1>t, <1>i DEF RollingRaises, At, OverCap, Failed, Error, RunRecords, RunStatuses, books, TotalCovered
    <3>3. /\ spent' \in Nat /\ since' \in 0 .. spent' /\ mode' \in Modes
          /\ starts' \in Nat /\ errors' \in Nat
      BY <1>17, <1>t DEF RollingRaises, At, OverCap, Failed, Error, books
    <3>4. stopped' \in BOOLEAN /\ blind' \in BOOLEAN /\ revived' \in BOOLEAN
      BY <1>17, <1>t DEF RollingRaises, At, OverCap, Failed, Error, books
    <3> QED
      BY <3>1, <3>2, <3>3, <3>4 DEF RunTypes
  <2>2. TotalCovered'
    BY <1>17, <1>t, <1>i DEF RollingRaises, At, OverCap, Failed, Error, RunRecords, Pcs, books, TotalCovered
  <2>3. RowFollows'
    BY <1>17, <1>t, <1>i DEF RollingRaises, At, OverCap, Failed, Error, RunRecords, Pcs, books, TotalCovered, RowFollows, Alive
  <2>4. Checked'
    BY <1>17, <1>t, <1>i DEF RollingRaises, At, OverCap, Failed, Error, RunRecords, Pcs, books, TotalCovered, Checked, Working
  <2> QED
    BY <2>1, <2>2, <2>3, <2>4 DEF RunInv
<1>18. ASSUME UpdateStatus PROVE RunInv'
  <2>1. RunTypes'
    <3>1. run' \in RunRecords
      BY <1>18, <1>t, <1>i DEF UpdateStatus, At, RunRecords, Pcs, RunStatuses, books, TotalCovered
    <3>2. row' \in [status : RunStatuses, cost : Nat, turns : BOOLEAN]
      BY <1>18, <1>t, <1>i DEF UpdateStatus, At, RunRecords, RunStatuses, books, TotalCovered
    <3>3. /\ spent' \in Nat /\ since' \in 0 .. spent' /\ mode' \in Modes
          /\ starts' \in Nat /\ errors' \in Nat
      BY <1>18, <1>t DEF UpdateStatus, At, books
    <3>4. stopped' \in BOOLEAN /\ blind' \in BOOLEAN /\ revived' \in BOOLEAN
      BY <1>18, <1>t DEF UpdateStatus, At, books
    <3> QED
      BY <3>1, <3>2, <3>3, <3>4 DEF RunTypes
  <2>2. TotalCovered'
    BY <1>18, <1>t, <1>i DEF UpdateStatus, At, RunRecords, Pcs, books, TotalCovered
  <2>3. RowFollows'
    BY <1>18, <1>t, <1>i DEF UpdateStatus, At, RunRecords, Pcs, books, TotalCovered, RowFollows, Alive
  <2>4. Checked'
    BY <1>18, <1>t, <1>i DEF UpdateStatus, At, RunRecords, Pcs, books, TotalCovered, Checked, Working
  <2> QED
    BY <2>1, <2>2, <2>3, <2>4 DEF RunInv
<1>19. ASSUME UpdateConfig PROVE RunInv'
  <2>1. RunTypes'
    <3>1. run' \in RunRecords
      BY <1>19, <1>t, <1>i DEF UpdateConfig, At, Goes, RunRecords, Pcs, RunStatuses, books, TotalCovered
    <3>2. row' \in [status : RunStatuses, cost : Nat, turns : BOOLEAN]
      BY <1>19, <1>t, <1>i DEF UpdateConfig, At, Goes, RunRecords, RunStatuses, books, TotalCovered
    <3>3. /\ spent' \in Nat /\ since' \in 0 .. spent' /\ mode' \in Modes
          /\ starts' \in Nat /\ errors' \in Nat
      BY <1>19, <1>t DEF UpdateConfig, At, Goes, books
    <3>4. stopped' \in BOOLEAN /\ blind' \in BOOLEAN /\ revived' \in BOOLEAN
      BY <1>19, <1>t DEF UpdateConfig, At, Goes, books
    <3> QED
      BY <3>1, <3>2, <3>3, <3>4 DEF RunTypes
  <2>2. TotalCovered'
    BY <1>19, <1>t, <1>i DEF UpdateConfig, At, Goes, RunRecords, Pcs, books, TotalCovered
  <2>3. RowFollows'
    BY <1>19, <1>t, <1>i DEF UpdateConfig, At, Goes, RunRecords, Pcs, books, TotalCovered, RowFollows, Alive
  <2>4. Checked'
    BY <1>19, <1>t, <1>i DEF UpdateConfig, At, Goes, RunRecords, Pcs, books, TotalCovered, Checked, Working
  <2> QED
    BY <2>1, <2>2, <2>3, <2>4 DEF RunInv
<1>20. ASSUME FinalizeRaises PROVE RunInv'
  <2>1. RunTypes'
    <3>1. run' \in RunRecords
      BY <1>20, <1>t, <1>i DEF FinalizeRaises, At, Error, RunRecords, Pcs, RunStatuses, books, TotalCovered
    <3>2. row' \in [status : RunStatuses, cost : Nat, turns : BOOLEAN]
      BY <1>20, <1>t, <1>i DEF FinalizeRaises, At, Error, RunRecords, RunStatuses, books, TotalCovered
    <3>3. /\ spent' \in Nat /\ since' \in 0 .. spent' /\ mode' \in Modes
          /\ starts' \in Nat /\ errors' \in Nat
      BY <1>20, <1>t DEF FinalizeRaises, At, Error, books
    <3>4. stopped' \in BOOLEAN /\ blind' \in BOOLEAN /\ revived' \in BOOLEAN
      BY <1>20, <1>t DEF FinalizeRaises, At, Error, books
    <3> QED
      BY <3>1, <3>2, <3>3, <3>4 DEF RunTypes
  <2>2. TotalCovered'
    BY <1>20, <1>t, <1>i DEF FinalizeRaises, At, Error, RunRecords, Pcs, books, TotalCovered
  <2>3. RowFollows'
    BY <1>20, <1>t, <1>i DEF FinalizeRaises, At, Error, RunRecords, Pcs, books, TotalCovered, RowFollows, Alive
  <2>4. Checked'
    BY <1>20, <1>t, <1>i DEF FinalizeRaises, At, Error, RunRecords, Pcs, books, TotalCovered, Checked, Working
  <2> QED
    BY <2>1, <2>2, <2>3, <2>4 DEF RunInv
<1>21. ASSUME Cancel PROVE RunInv'
  <2>1. RunTypes'
    <3>1. run' \in RunRecords
      BY <1>21, <1>t, <1>i DEF Cancel, Alive, RunRecords, Pcs, RunStatuses, books, TotalCovered
    <3>2. row' \in [status : RunStatuses, cost : Nat, turns : BOOLEAN]
      BY <1>21, <1>t, <1>i DEF Cancel, Alive, RunRecords, RunStatuses, books, TotalCovered
    <3>3. /\ spent' \in Nat /\ since' \in 0 .. spent' /\ mode' \in Modes
          /\ starts' \in Nat /\ errors' \in Nat
      BY <1>21, <1>t DEF Cancel, Alive, books
    <3>4. stopped' \in BOOLEAN /\ blind' \in BOOLEAN /\ revived' \in BOOLEAN
      BY <1>21, <1>t DEF Cancel, Alive, books
    <3> QED
      BY <3>1, <3>2, <3>3, <3>4 DEF RunTypes
  <2>2. TotalCovered'
    BY <1>21, <1>t, <1>i DEF Cancel, Alive, RunRecords, Pcs, books, TotalCovered
  <2>3. RowFollows'
    BY <1>21, <1>t, <1>i DEF Cancel, Alive, RunRecords, Pcs, books, TotalCovered, RowFollows, Alive
  <2>4. Checked'
    BY <1>21, <1>t, <1>i DEF Cancel, Alive, RunRecords, Pcs, books, TotalCovered, Checked, Working
  <2> QED
    BY <2>1, <2>2, <2>3, <2>4 DEF RunInv
<1>22. ASSUME Kill PROVE RunInv'
  <2>1. RunTypes'
    <3>1. run' \in RunRecords
      BY <1>22, <1>t, <1>i DEF Kill, RunRecords, Pcs, RunStatuses, books, TotalCovered
    <3>2. row' \in [status : RunStatuses, cost : Nat, turns : BOOLEAN]
      BY <1>22, <1>t, <1>i DEF Kill, RunRecords, RunStatuses, books, TotalCovered
    <3>3. /\ spent' \in Nat /\ since' \in 0 .. spent' /\ mode' \in Modes
          /\ starts' \in Nat /\ errors' \in Nat
      BY <1>22, <1>t DEF Kill, books
    <3>4. stopped' \in BOOLEAN /\ blind' \in BOOLEAN /\ revived' \in BOOLEAN
      BY <1>22, <1>t DEF Kill, books
    <3> QED
      BY <3>1, <3>2, <3>3, <3>4 DEF RunTypes
  <2>2. TotalCovered'
    BY <1>22, <1>t, <1>i DEF Kill, RunRecords, Pcs, books, TotalCovered
  <2>3. RowFollows'
    BY <1>22, <1>t, <1>i DEF Kill, RunRecords, Pcs, books, TotalCovered, RowFollows, Alive
  <2>4. Checked'
    BY <1>22, <1>t, <1>i DEF Kill, RunRecords, Pcs, books, TotalCovered, Checked, Working
  <2> QED
    BY <2>1, <2>2, <2>3, <2>4 DEF RunInv
<1>23. ASSUME Crash PROVE RunInv'
  <2>1. RunTypes'
    <3>1. run' \in RunRecords
      BY <1>23, <1>t, <1>i DEF Crash, Alive, Goes, RunRecords, Pcs, RunStatuses, books, TotalCovered
    <3>2. row' \in [status : RunStatuses, cost : Nat, turns : BOOLEAN]
      BY <1>23, <1>t, <1>i DEF Crash, Alive, Goes, RunRecords, RunStatuses, books, TotalCovered
    <3>3. /\ spent' \in Nat /\ since' \in 0 .. spent' /\ mode' \in Modes
          /\ starts' \in Nat /\ errors' \in Nat
      BY <1>23, <1>t DEF Crash, Alive, Goes, books
    <3>4. stopped' \in BOOLEAN /\ blind' \in BOOLEAN /\ revived' \in BOOLEAN
      BY <1>23, <1>t DEF Crash, Alive, Goes, books
    <3> QED
      BY <3>1, <3>2, <3>3, <3>4 DEF RunTypes
  <2>2. TotalCovered'
    BY <1>23, <1>t, <1>i DEF Crash, Alive, Goes, RunRecords, Pcs, books, TotalCovered
  <2>3. RowFollows'
    BY <1>23, <1>t, <1>i DEF Crash, Alive, Goes, RunRecords, Pcs, books, TotalCovered, RowFollows, Alive
  <2>4. Checked'
    BY <1>23, <1>t, <1>i DEF Crash, Alive, Goes, RunRecords, Pcs, books, TotalCovered, Checked, Working
  <2> QED
    BY <2>1, <2>2, <2>3, <2>4 DEF RunInv
<1> QED
  BY <1>1, <1>2, <1>3, <1>4, <1>5, <1>6, <1>7, <1>8, <1>9, <1>10, <1>11, <1>12, <1>13, <1>14, <1>15, <1>16, <1>17, <1>18, <1>19, <1>20, <1>21, <1>22, <1>23 DEF RunNext, RunStep

LEMMA RunGoesOn ==
    ASSUME RunInv, run.pc \in {"render", "spawn"}, NEW pc \in {"spawn", "ended"}, RunGoes(pc)
    PROVE  RunInv'
<1>1. /\ run' = [run EXCEPT !.pc = pc]
      /\ UNCHANGED <<mode, row, spent, stopped, starts, errors, since, blind, revived>>
  BY DEF RunGoes, Goes, books
<1>2. run \in RunRecords
  BY DEF RunInv, RunTypes
<1>3. run' \in RunRecords /\ run'.pc = pc /\ run'.total = run.total
  BY <1>1, <1>2 DEF RunRecords, Pcs
<1>4. RunTypes' /\ TotalCovered'
  BY <1>1, <1>3 DEF RunInv, RunTypes, TotalCovered
<1>5. RowFollows' /\ Checked'
  BY <1>1, <1>3 DEF RunInv, RowFollows, Checked, Alive, Working
<1> QED
  BY <1>4, <1>5 DEF RunInv

LEMMA PublishingKeepsRun == RunInv /\ [PublishNext]_<<runVars, publishVars>> => RunInv'
<1> SUFFICES ASSUME RunInv, [PublishNext]_<<runVars, publishVars>> PROVE RunInv'
  OBVIOUS
<1>1. CASE RunNext
  BY <1>1, RunKept
<1>2. CASE FinalStep
  BY <1>2, RunGoesOn
  DEF FinalStep, EndWithoutRender, MarkUnrenderable, ClaimRender, SpawnRender, At
<1>3. CASE UNCHANGED runVars
  BY <1>3 DEF runVars, books, RunInv, RunTypes, TotalCovered, RowFollows, Checked, Alive, Working
<1>4. ASSUME NEW h \in Helpers, HelperStep(h) \/ Die(h) PROVE UNCHANGED runVars
  BY <1>4 DEF HelperStep, Die, Boot, Render, ReadFresh, ClaimPublish, SpawnUpload, Fetch, Upload,
              UploadRaises, Record
<1>5. ManualRender => UNCHANGED runVars
  BY DEF ManualRender
<1> QED
  BY <1>1, <1>2, <1>3, <1>4, <1>5 DEF PublishNext

THEOREM RunInvHolds == PublishSpec => []RunInv
BY RunStart, PublishingKeepsRun, PTL DEF PublishSpec

(* Types of the row and of the orchestrator: what the process believes was *)
(* spent never exceeds what was, and it never runs a phase too many.       *)
THEOREM RunTypeCorrect == PublishSpec => []RunTypeOK
<1>1. RunInv => RunTypeOK
  BY DEF RunInv, RunTypes, RunRecords, Pcs, TotalCovered, RunTypeOK
<1> QED
  BY <1>1, RunInvHolds, PTL

(* The pairs of increments in run, run_autonomous, _check_cost_limit and   *)
(* _finalize: without an await that raises, and without reviving a row     *)
(* that had ended, the row is never charged more than was spent, and the   *)
(* first process keeps it equal to its own total.                          *)
THEOREM RowFollowsTheRun == PublishSpec => []RecordFollowsTotal
<1>1. RunInv => RecordFollowsTotal
  BY DEF RunInv, RowFollows, RecordFollowsTotal
<1> QED
  BY <1>1, RunInvHolds, PTL

(* The cap of a run is overshot by what one round spends, whoever spends   *)
(* besides, unless a reconciliation failed.                                *)
THEOREM OneRoundOverTheCap == PublishSpec => []OvershootIsOneRound
<1>1. RunInv => OvershootIsOneRound
  BY DEF RunInv, Checked, OvershootIsOneRound
<1> QED
  BY <1>1, RunInvHolds, PTL

-----------------------------------------------------------------------------
(* Publishing: the claims on a video.                                      *)
HelperRecords ==
    [job : {"none", "render", "upload"},
     pc  : {"free", "boot", "render", "fresh", "claim", "spawn", "fetch", "upload", "record", "give up"},
     attempt : Nat]

PublishTypes ==
    /\ helper \in [Helpers -> HelperRecords]
    /\ \A h \in Helpers :
          /\ helper[h].job = "render" => helper[h].pc \in {"boot", "render", "fresh", "claim", "spawn"}
          /\ helper[h].job = "upload" => helper[h].pc \in {"boot", "fetch", "upload", "record", "give up"}
    /\ uploads \in Nat /\ unclear \in Nat /\ manual \in Nat

(* A renderer that nobody started by hand holds the claim of its video     *)
(* until it has stored it.                                                 *)
OneRender ==
    /\ ~row.turns => Rendering = {} /\ run.pc # "spawn"
    /\ manual = 0 =>
          /\ \A g, h \in Rendering : g = h
          /\ run.pc = "spawn" => video = "rendering" /\ Rendering = {}
          /\ \A h \in Rendering :
                video = IF helper[h].pc \in {"boot", "render"} THEN "rendering" ELSE "done"

OneHolder ==
    /\ \A g, h \in Holders : g = h
    /\ Holders # {} => tube = "publishing"

(* Before a claim is made, and until its holder has uploaded, every video  *)
(* that YouTube has is one whose upload raised.                            *)
OneVideo ==
    /\ uploads <= unclear + 1
    /\ tube \in {"none", "failed"} => uploads = unclear
    /\ tube = "done" => uploads > 0
    /\ \A h \in Holders :
          uploads = unclear + (IF Is(h, "upload", "record") THEN 1 ELSE 0)

PublishInv == PublishTypes /\ OneRender /\ OneHolder /\ OneVideo

(* The run itself touches no claim, and turns that were taken stay so.     *)
LEMMA RunsApart ==
    ASSUME RunInv, RunNext
    PROVE  (run'.pc = "spawn" => run.pc = "spawn") /\ (row.turns => row'.turns)
<1>t. /\ run \in RunRecords /\ row \in [status : RunStatuses, cost : Nat, turns : BOOLEAN]
      /\ RunTypes
  BY DEF RunInv, RunTypes
<1>1. CASE Create
  <2>1. \E total \in Nat : Launch(total)
    BY <1>1 DEF Create, RunTypes, RunInv
  <2> QED
    BY <1>t, <2>1, Launched
<1>2. CASE ApiCreates
  BY <1>t, <1>2 DEF ApiCreates, At, RunRecords
<1>3. CASE Attach
  <2>1. \E total \in Nat : Launch(total)
    BY <1>3 DEF Attach, RunTypes, RunInv
  <2> QED
    BY <1>t, <2>1, Launched
<1>4. CASE SetUp
  BY <1>t, <1>4 DEF SetUp, At, Goes, Error, RunRecords
<1>5. CASE Check
  BY <1>t, <1>5 DEF Check, At, Goes, Ends, Terminated, RunRecords
<1>6. CASE Trigger
  BY <1>t, <1>6 DEF Trigger, At, Goes, RunRecords
<1>7. CASE RunPhase
  BY <1>t, <1>7 DEF RunPhase, At, Spends, RunRecords
<1>8. CASE IncrementStats
  BY <1>t, <1>8 DEF IncrementStats, At, Goes, RunRecords
<1>9. CASE UpdateAgents
  BY <1>t, <1>9 DEF UpdateAgents, At, Goes, RunRecords
<1>10. CASE AddTotal
  BY <1>t, <1>10 DEF AddTotal, At, RunRecords
<1>11. CASE Reflect
  BY <1>t, <1>11 DEF Reflect, At, Spends, RunRecords
<1>12. CASE PhaseRaises
  BY <1>t, <1>12 DEF PhaseRaises, Awaiting, Working, At, Error, Failed, RunRecords
<1>13. CASE Background
  BY <1>t, <1>13 DEF Background, Alive, Spends, RunRecords
<1>14. CASE ReadCosts
  BY <1>t, <1>14 DEF ReadCosts, At, RunRecords
<1>15. CASE BookCosts
  <2>1. /\ run' \in AfterCheck([run EXCEPT !.total = run.actual]) /\ row'.turns = row.turns
        /\ [run EXCEPT !.total = run.actual] \in RunRecords /\ [run EXCEPT !.total = run.actual].after = run.after
    BY <1>t, <1>15 DEF BookCosts, RunRecords
  <2> QED
    BY <2>1, CheckedNext
<1>16. CASE ReconcileFails
  <2>1. /\ run' \in AfterCheck(run) /\ row'.turns = row.turns
        /\ run \in RunRecords /\ run.after = run.after
    BY <1>t, <1>16 DEF ReconcileFails, RunRecords
  <2> QED
    BY <2>1, CheckedNext
<1>17. CASE RollingRaises
  BY <1>t, <1>17 DEF RollingRaises, At, OverCap, Failed, Error, RunRecords
<1>18. CASE UpdateStatus
  BY <1>t, <1>18 DEF UpdateStatus, At, RunRecords
<1>19. CASE UpdateConfig
  BY <1>t, <1>19 DEF UpdateConfig, At, Goes, RunRecords
<1>20. CASE FinalizeRaises
  BY <1>t, <1>20 DEF FinalizeRaises, At, Error, RunRecords
<1>21. CASE Cancel
  BY <1>t, <1>21 DEF Cancel, Alive, RunRecords
<1>22. CASE Kill
  BY <1>t, <1>22 DEF Kill, RunRecords
<1>23. CASE Crash
  BY <1>t, <1>23 DEF Crash, Alive, Goes, RunRecords
<1> QED
  BY <1>1, <1>2, <1>3, <1>4, <1>5, <1>6, <1>7, <1>8, <1>9, <1>10, <1>11, <1>12, <1>13, <1>14, <1>15, <1>16, <1>17, <1>18, <1>19, <1>20, <1>21, <1>22, <1>23 DEF RunNext, RunStep

LEMMA PublishStart == RunInit /\ PublishInit => PublishInv
<1> SUFFICES ASSUME RunInit, PublishInit PROVE PublishInv
  OBVIOUS
<1>1. Free \in HelperRecords /\ Free.job = "none"
  BY DEF Free, HelperRecords
<1>2. PublishTypes /\ \A h \in Helpers : helper[h].job = "none"
  BY <1>1 DEF PublishInit, PublishTypes
<1>3. Rendering = {} /\ Holders = {} /\ run.pc # "spawn"
  BY <1>2 DEF RunInit, Rendering, Holders, Is
<1> QED
  BY <1>2, <1>3 DEF PublishInit, PublishInv, OneRender, OneHolder, OneVideo

(* Steps that touch no helper, no holder's claim and no upload.            *)
LEMMA VideoSteps ==
    ASSUME PublishInv, UNCHANGED <<tube, helper, uploads, unclear, manual>>,
           row.turns => row'.turns,
           row'.turns \/ run'.pc # "spawn",
           \/ UNCHANGED video /\ (run'.pc = "spawn" => run.pc = "spawn")
           \/ run'.pc # "spawn" /\ (manual = 0 => Rendering = {})
           \/ manual = 0 => Rendering = {} /\ video' = "rendering"
    PROVE  PublishInv'
<1>1. PublishTypes' /\ Rendering' = Rendering /\ Holders' = Holders
  BY DEF PublishInv, PublishTypes, Rendering, Holders, Is
<1>2. OneRender'
  BY <1>1 DEF PublishInv, OneRender
<1>3. OneHolder' /\ OneVideo'
  BY <1>1 DEF PublishInv, OneHolder, OneVideo, Is
<1> QED
  BY <1>1, <1>2, <1>3 DEF PublishInv

LEMMA OneMore == \A n \in Nat : n + 1 <= n + 1 /\ n + 0 <= n + 1 /\ n + 0 = n /\ n + 1 > 0 /\ n + 1 # 0 /\ n + 1 \in Nat
OBVIOUS

LEMMA OneMoreOr == \A m, n \in Nat : m <= n + 1 => m <= 1 + n
OBVIOUS

(* A step of one helper, or its start.                                     *)
LEMMA HelperSteps ==
    ASSUME PublishInv, NEW h \in Helpers, NEW rec \in HelperRecords,
           helper' = [helper EXCEPT ![h] = rec],
           rec.job = "render" => rec.pc \in {"boot", "render", "fresh", "claim", "spawn"},
           rec.job = "upload" => rec.pc \in {"boot", "fetch", "upload", "record", "give up"},
           uploads' \in Nat, unclear' \in Nat, manual' \in Nat,
           row.turns => row'.turns, run'.pc = "spawn" => run.pc = "spawn",
           rec.job = "render" => h \in Rendering \/ row.turns,
           manual' = 0 =>
              /\ manual = 0
              /\ rec.job = "render" =>
                    /\ h \in Rendering \/ (Rendering = {} /\ run'.pc # "spawn")
                    /\ video' = IF rec.pc \in {"boot", "render"} THEN "rendering" ELSE "done"
              /\ h \notin Rendering /\ rec.job # "render" => UNCHANGED video,
           \* the claim of the uploader
           rec.job = "upload" \/ (rec.job = "render" /\ rec.pc = "spawn") =>
              /\ h \in Holders \/ tube \in {"none", "failed"}
              /\ tube' = "publishing"
              /\ uploads' = unclear' + (IF rec.job = "upload" /\ rec.pc = "record" THEN 1 ELSE 0),
           ~(rec.job = "upload" \/ (rec.job = "render" /\ rec.pc = "spawn")) =>
              /\ h \in Holders \/ (UNCHANGED <<tube, uploads, unclear>>)
              /\ uploads' <= unclear' + 1
              /\ tube' \in {"none", "failed"} => uploads' = unclear'
              /\ tube' = "done" => uploads' > 0
    PROVE  PublishInv'
<1>1. /\ PublishTypes
      /\ helper'[h] = rec /\ \A g \in Helpers : g # h => helper'[g] = helper[g]
      /\ helper' \in [Helpers -> HelperRecords]
  BY DEF PublishInv, PublishTypes
<1>2. PublishTypes'
  BY <1>1 DEF PublishTypes
<1>3. /\ \A g \in Helpers : g # h => (g \in Rendering' <=> g \in Rendering) /\ (g \in Holders' <=> g \in Holders)
      /\ h \in Rendering' <=> rec.job = "render"
      /\ h \in Holders' <=> rec.job = "upload" \/ (rec.job = "render" /\ rec.pc = "spawn")
      /\ Rendering \subseteq Helpers /\ Rendering' \subseteq Helpers
      /\ Holders \subseteq Helpers /\ Holders' \subseteq Helpers
  BY <1>1 DEF Rendering, Holders, Is
<1>4. OneRender'
  <2>1. ~row'.turns => Rendering' = {} /\ run'.pc # "spawn"
    BY <1>3 DEF PublishInv, OneRender
  <2>2. ASSUME manual' = 0
        PROVE  /\ \A f, g \in Rendering' : f = g
               /\ run'.pc = "spawn" => video' = "rendering" /\ Rendering' = {}
               /\ \A g \in Rendering' :
                     video' = IF helper'[g].pc \in {"boot", "render"} THEN "rendering" ELSE "done"
    <3>1. /\ \A f, g \in Rendering : f = g
          /\ \A g \in Rendering : video = IF helper[g].pc \in {"boot", "render"} THEN "rendering" ELSE "done"
          /\ run.pc = "spawn" => video = "rendering" /\ Rendering = {}
      BY <2>2 DEF PublishInv, OneRender
    <3>2. \A f, g \in Rendering' : f = g
      BY <1>3, <2>2, <3>1
    <3>3. ASSUME NEW g \in Rendering'
          PROVE  video' = IF helper'[g].pc \in {"boot", "render"} THEN "rendering" ELSE "done"
      <4>1. CASE g = h
        BY <1>1, <1>3, <2>2, <4>1
      <4>2. CASE g # h
        BY <1>1, <1>3, <2>2, <3>1, <3>2, <4>2
      <4> QED
        BY <4>1, <4>2
    <3>4. ASSUME run'.pc = "spawn" PROVE video' = "rendering" /\ Rendering' = {}
      <4>1. Rendering = {} /\ video = "rendering"
        BY <3>1, <3>4
      <4>2. rec.job # "render" /\ video' = video
        BY <2>2, <3>4, <4>1
      <4> QED
        BY <1>3, <4>1, <4>2
    <3> QED
      BY <3>2, <3>3, <3>4
  <2> QED
    BY <2>1, <2>2 DEF OneRender
<1>5. OneHolder'
  BY <1>3 DEF PublishInv, OneHolder
<1>6. OneVideo'
  <2>1. CASE h \in Holders'
    <3>1. \A g \in Holders' : g = h
      BY <1>5, <2>1 DEF OneHolder
    <3>2. Is(h, "upload", "record")' <=> rec.job = "upload" /\ rec.pc = "record"
      BY <1>1 DEF Is
    <3>3. uploads' <= unclear' + 1
      <4>1. uploads' = unclear' + 1 \/ uploads' = unclear' + 0
        BY <1>3, <2>1
      <4> QED
        BY <4>1, OneMore
    <3> QED
      BY <1>3, <2>1, <3>1, <3>2, <3>3 DEF OneVideo
  <2>2. CASE h \notin Holders' /\ h \in Holders
    <3>1. Holders' = {}
      BY <1>3, <2>2 DEF PublishInv, OneHolder
    <3> QED
      BY <1>3, <2>2, <3>1 DEF OneVideo
  <2>3. CASE h \notin Holders' /\ h \notin Holders
    <3>1. UNCHANGED <<tube, uploads, unclear>>
      BY <1>3, <2>3
    <3>2. \A g \in Holders' : g \in Holders /\ g # h /\ (Is(g, "upload", "record")' <=> Is(g, "upload", "record"))
      BY <1>1, <1>3, <2>3 DEF Is
    <3> QED
      BY <3>1, <3>2 DEF PublishInv, OneVideo
  <2> QED
    BY <2>1, <2>2, <2>3
<1> QED
  BY <1>2, <1>4, <1>5, <1>6 DEF PublishInv

LEMMA PublishKept ==
    RunInv /\ PublishInv /\ [PublishNext]_<<runVars, publishVars>> => PublishInv'
<1> SUFFICES ASSUME RunInv, PublishInv, [PublishNext]_<<runVars, publishVars>> PROVE PublishInv'
  OBVIOUS
<1>t. /\ helper \in [Helpers -> HelperRecords] /\ uploads \in Nat /\ unclear \in Nat /\ manual \in Nat
      /\ uploads <= unclear + 1
      /\ \A h \in Helpers :
          /\ helper[h].job = "render" => helper[h].pc \in {"boot", "render", "fresh", "claim", "spawn"}
          /\ helper[h].job = "upload" => helper[h].pc \in {"boot", "fetch", "upload", "record", "give up"}
  BY DEF PublishInv, PublishTypes, OneVideo
<1>s. Rendering \subseteq Helpers /\ Holders \subseteq Helpers
      /\ \A h \in Helpers : /\ h \in Rendering <=> helper[h].job = "render"
                            /\ h \in Holders <=> helper[h].job = "upload" \/ Is(h, "render", "spawn")
  BY DEF Rendering, Holders
(* What the claims say of a renderer and of a holder.                      *)
<1>r. ASSUME NEW h \in Rendering
      PROVE  /\ row.turns
             /\ manual = 0 => video = (IF helper[h].pc \in {"boot", "render"} THEN "rendering" ELSE "done")
  BY DEF PublishInv, OneRender
<1>h. ASSUME NEW h \in Holders
      PROVE  /\ tube = "publishing"
             /\ uploads = unclear + (IF Is(h, "upload", "record") THEN 1 ELSE 0)
  BY DEF PublishInv, OneHolder, OneVideo
<1>n. tube \in {"none", "failed"} => uploads = unclear /\ Holders = {}
  BY DEF PublishInv, OneHolder, OneVideo
<1>f. Free \in HelperRecords /\ Free.job = "none"
      /\ Renderer \in HelperRecords /\ Renderer.job = "render" /\ Renderer.pc = "boot"
      /\ Uploader \in HelperRecords /\ Uploader.job = "upload" /\ Uploader.pc = "boot"
  BY DEF Free, Renderer, Uploader, HelperRecords
<1>g. run \in RunRecords
  BY DEF RunInv, RunTypes

<1>1. CASE RunNext /\ UNCHANGED publishVars
  <2>1. (run'.pc = "spawn" => run.pc = "spawn") /\ (row.turns => row'.turns)
    BY <1>1, RunsApart
  <2>2. row'.turns \/ run'.pc # "spawn"
    BY <2>1 DEF PublishInv, OneRender
  <2> QED
    BY <1>1, <2>1, <2>2, VideoSteps DEF publishVars
<1>2. CASE EndWithoutRender
  <2>1. run'.pc = "ended" /\ row' = row
    BY <1>2, <1>g DEF EndWithoutRender, RunGoes, Goes, RunRecords
  <2> QED
    BY <1>2, <2>1, VideoSteps DEF EndWithoutRender, publishVars
<1>3. CASE MarkUnrenderable
  <2>1. run'.pc = "ended" /\ row' = row /\ ~row.turns
    BY <1>3, <1>g DEF MarkUnrenderable, RunGoes, Goes, RunRecords
  <2>2. Rendering = {}
    BY <2>1 DEF PublishInv, OneRender
  <2> QED
    BY <1>3, <2>1, <2>2, VideoSteps DEF MarkUnrenderable
<1>4. CASE ClaimRender
  <2>1. row' = row /\ row.turns /\ UNCHANGED <<tube, helper, uploads, unclear, manual>>
    BY <1>4 DEF ClaimRender, RunGoes
  <2>2. CASE Claimable(video)
    <3>1. video' = "rendering" /\ video \in {"none", "failed"}
      BY <1>4, <2>2 DEF ClaimRender, Claimable
    <3>2. manual = 0 => Rendering = {}
      BY <1>r, <3>1
    <3> QED
      BY <2>1, <3>1, <3>2, VideoSteps
  <2>3. CASE ~Claimable(video)
    <3>1. UNCHANGED video /\ run'.pc = "ended"
      BY <1>4, <1>g, <2>3 DEF ClaimRender, RunGoes, Goes, RunRecords
    <3> QED
      BY <2>1, <3>1, VideoSteps
  <2> QED
    BY <2>2, <2>3
<1>5. CASE SpawnRender
  <2>1. run.pc = "spawn" /\ run'.pc = "ended" /\ row' = row
        /\ UNCHANGED <<tube, uploads, unclear, manual>>
    BY <1>5, <1>g DEF SpawnRender, At, RunGoes, Goes, RunRecords
  <2>2. row.turns /\ (manual = 0 => video = "rendering" /\ Rendering = {})
    BY <2>1 DEF PublishInv, OneRender
  <2>3. CASE UNCHANGED helper
    BY <2>1, <2>2, <2>3, VideoSteps
  <2>4. ASSUME NEW h \in Helpers, helper[h] = Free, helper' = [helper EXCEPT ![h] = Renderer],
               UNCHANGED video
        PROVE  PublishInv'
    <3>1. h \notin Rendering /\ h \notin Holders
      BY <1>f, <1>s, <2>4 DEF Is
    <3> QED
      BY <1>f, <1>t, <2>1, <2>2, <2>4, <3>1, HelperSteps DEF PublishInv, OneVideo
  <2> QED
    BY <1>5, <2>3, <2>4 DEF SpawnRender
<1>6. CASE ManualRender
  <2>1. /\ row.turns /\ manual' = manual + 1 /\ UNCHANGED <<run, row, video, tube, uploads, unclear>>
        /\ \E h \in Helpers : helper[h] = Free /\ helper' = [helper EXCEPT ![h] = Renderer]
    BY <1>6 DEF ManualRender, runVars
  <2>2. PICK h \in Helpers : helper[h] = Free /\ helper' = [helper EXCEPT ![h] = Renderer]
    BY <2>1
  <2>3. h \notin Rendering /\ h \notin Holders
    BY <1>f, <1>s, <2>2 DEF Is
  <2>4. manual' \in Nat /\ manual' # 0
    BY <1>t, <2>1, OneMore
  <2>5. tube \in {"none", "failed"} => uploads = unclear
    BY <1>n
  <2>6. tube = "done" => uploads > 0
    BY DEF PublishInv, OneVideo
  <2> QED
    BY <1>f, <1>t, <2>1, <2>2, <2>3, <2>4, <2>5, <2>6, HelperSteps
<1>d. /\ tube \in {"none", "failed"} => uploads = unclear
      /\ tube = "done" => uploads > 0
  BY DEF PublishInv, OneVideo
<1>z. uploads \in Nat /\ unclear \in Nat /\ unclear + 0 = unclear /\ uploads + 1 \in Nat /\ unclear + 1 \in Nat
  BY OneMore DEF PublishInv, PublishTypes
(* The other steps are of one helper.                                      *)
<1>7. ASSUME NEW h \in Helpers, Boot(h, "render", "render") PROVE PublishInv'
  <2> DEFINE rec == [helper[h] EXCEPT !.pc = "render"]
  <2>1. /\ helper[h].pc = "boot" /\ helper[h].job = "render"
        /\ helper' = [helper EXCEPT ![h] = rec]
        /\ UNCHANGED <<run, row, video, tube, uploads, unclear, manual>>
    BY <1>7 DEF Boot, Is, Step, runVars
  <2>2. rec \in HelperRecords /\ rec.job = "render" /\ rec.pc = "render"
    BY <1>t, <2>1 DEF HelperRecords
  <2> HIDE DEF rec
  <2>3. h \in Rendering /\ h \notin Holders
    BY <1>s, <2>1 DEF Is
  <2>4. manual = 0 => video = "rendering"
    BY <1>r, <2>1, <2>3
  <2> QED
    BY <1>t, <1>d, <2>1, <2>2, <2>3, <2>4, HelperSteps
<1>8. ASSUME NEW h \in Helpers, Boot(h, "upload", "fetch") PROVE PublishInv'
  <2> DEFINE rec == [helper[h] EXCEPT !.pc = "fetch"]
  <2>1. /\ helper[h].pc = "boot" /\ helper[h].job = "upload"
        /\ helper' = [helper EXCEPT ![h] = rec]
        /\ UNCHANGED <<run, row, video, tube, uploads, unclear, manual>>
    BY <1>8 DEF Boot, Is, Step, runVars
  <2>2. rec \in HelperRecords /\ rec.job = "upload" /\ rec.pc = "fetch"
    BY <1>t, <2>1 DEF HelperRecords
  <2> HIDE DEF rec
  <2>3. h \notin Rendering /\ h \in Holders /\ ~Is(h, "upload", "record")
    BY <1>s, <2>1 DEF Is
  <2>4. tube = "publishing" /\ uploads = unclear + 0
    BY <1>h, <2>3
  <2> QED
    BY <1>t, <1>d, <2>1, <2>2, <2>3, <2>4, HelperSteps
<1>9. ASSUME NEW h \in Helpers, Render(h) PROVE PublishInv'
  <2>1. /\ helper[h].pc = "render" /\ helper[h].job = "render"
        /\ UNCHANGED <<run, row, tube, uploads, unclear, manual>>
        /\ \/ helper' = [helper EXCEPT ![h] = Free]
           \/ video' = "done" /\ helper' = [helper EXCEPT ![h] = [helper[h] EXCEPT !.pc = "fresh"]]
    BY <1>9 DEF Render, Is, Step, Leaves, runVars
  <2>2. h \in Rendering /\ h \notin Holders
    BY <1>s, <2>1 DEF Is
  <2>3. CASE helper' = [helper EXCEPT ![h] = Free]
    BY <1>t, <1>d, <1>f, <2>1, <2>2, <2>3, HelperSteps
  <2>4. CASE video' = "done" /\ helper' = [helper EXCEPT ![h] = [helper[h] EXCEPT !.pc = "fresh"]]
    <3> DEFINE rec == [helper[h] EXCEPT !.pc = "fresh"]
    <3>1. rec \in HelperRecords /\ rec.job = "render" /\ rec.pc = "fresh"
      BY <1>t, <2>1 DEF HelperRecords
    <3>2. helper' = [helper EXCEPT ![h] = rec]
      BY <2>4
    <3> HIDE DEF rec
    <3> QED
      BY <1>t, <1>d, <2>1, <2>2, <2>4, <3>1, <3>2, HelperSteps
  <2> QED
    BY <2>1, <2>3, <2>4
<1>10. ASSUME NEW h \in Helpers, ReadFresh(h) PROVE PublishInv'
  <2>1. /\ helper[h].pc = "fresh" /\ helper[h].job = "render"
        /\ UNCHANGED <<run, row, video, tube, uploads, unclear, manual>>
        /\ \/ helper' = [helper EXCEPT ![h] = Free]
           \/ helper' = [helper EXCEPT ![h] = [helper[h] EXCEPT !.pc = "claim"]]
    BY <1>10 DEF ReadFresh, Is, Step, Leaves, runVars
  <2>2. h \in Rendering /\ h \notin Holders
    BY <1>s, <2>1 DEF Is
  <2>3. CASE helper' = [helper EXCEPT ![h] = Free]
    BY <1>t, <1>d, <1>f, <2>1, <2>2, <2>3, HelperSteps
  <2>4. CASE helper' = [helper EXCEPT ![h] = [helper[h] EXCEPT !.pc = "claim"]]
    <3> DEFINE rec == [helper[h] EXCEPT !.pc = "claim"]
    <3>1. rec \in HelperRecords /\ rec.job = "render" /\ rec.pc = "claim"
      BY <1>t, <2>1 DEF HelperRecords
    <3>2. helper' = [helper EXCEPT ![h] = rec]
      BY <2>4
    <3>3. manual = 0 => video = "done"
      BY <1>r, <2>1, <2>2
    <3> HIDE DEF rec
    <3> QED
      BY <1>t, <1>d, <2>1, <2>2, <3>1, <3>2, <3>3, HelperSteps
  <2> QED
    BY <2>1, <2>3, <2>4
<1>11. ASSUME NEW h \in Helpers, ClaimPublish(h) PROVE PublishInv'
  <2>1. /\ helper[h].pc = "claim" /\ helper[h].job = "render"
        /\ UNCHANGED <<run, row, video, uploads, unclear, manual>>
        /\ \/ tube' = tube /\ helper' = [helper EXCEPT ![h] = Free]
           \/ /\ tube \in {"none", "failed"} /\ tube' = "publishing"
              /\ helper' = [helper EXCEPT ![h] = [helper[h] EXCEPT !.pc = "spawn"]]
    BY <1>11 DEF ClaimPublish, Claimable, Is, Step, Leaves, runVars
  <2>2. h \in Rendering /\ h \notin Holders
    BY <1>s, <2>1 DEF Is
  <2>3. CASE tube' = tube /\ helper' = [helper EXCEPT ![h] = Free]
    BY <1>t, <1>d, <1>f, <2>1, <2>2, <2>3, HelperSteps
  <2>4. CASE /\ tube \in {"none", "failed"} /\ tube' = "publishing"
             /\ helper' = [helper EXCEPT ![h] = [helper[h] EXCEPT !.pc = "spawn"]]
    <3> DEFINE rec == [helper[h] EXCEPT !.pc = "spawn"]
    <3>1. rec \in HelperRecords /\ rec.job = "render" /\ rec.pc = "spawn"
      BY <1>t, <2>1 DEF HelperRecords
    <3>2. helper' = [helper EXCEPT ![h] = rec]
      BY <2>4
    <3>3. manual = 0 => video = "done"
      BY <1>r, <2>1, <2>2
    <3>4. uploads = unclear + 0
      BY <1>n, <1>z, <2>4
    <3> HIDE DEF rec
    <3> QED
      BY <1>t, <2>1, <2>2, <2>4, <3>1, <3>2, <3>3, <3>4, HelperSteps
  <2> QED
    BY <2>1, <2>3, <2>4
<1>12. ASSUME NEW h \in Helpers, SpawnUpload(h) PROVE PublishInv'
  <2>1. /\ helper[h].pc = "spawn" /\ helper[h].job = "render"
        /\ UNCHANGED <<run, row, video, uploads, unclear, manual>>
        /\ \/ tube' = "failed" /\ helper' = [helper EXCEPT ![h] = Free]
           \/ tube' = tube /\ helper' = [helper EXCEPT ![h] = Uploader]
    BY <1>12 DEF SpawnUpload, Is, Leaves, runVars
  <2>2. h \in Rendering /\ h \in Holders /\ ~Is(h, "upload", "record")
    BY <1>s, <2>1 DEF Is
  <2>3. tube = "publishing" /\ uploads = unclear + 0 /\ uploads = unclear
    BY <1>z, <1>h, <2>2
  <2> QED
    BY <1>t, <1>f, <2>1, <2>2, <2>3, HelperSteps
<1>13. ASSUME NEW h \in Helpers, Fetch(h) PROVE PublishInv'
  <2>1. /\ helper[h].pc = "fetch" /\ helper[h].job = "upload"
        /\ UNCHANGED <<run, row, video, uploads, unclear, manual>>
        /\ \/ tube' = "failed" /\ helper' = [helper EXCEPT ![h] = Free]
           \/ tube' = tube /\ helper' = [helper EXCEPT ![h] = [helper[h] EXCEPT !.pc = "upload"]]
    BY <1>13 DEF Fetch, Is, Step, Leaves, runVars
  <2>2. h \notin Rendering /\ h \in Holders /\ ~Is(h, "upload", "record")
    BY <1>s, <2>1 DEF Is
  <2>3. tube = "publishing" /\ uploads = unclear + 0 /\ uploads = unclear
    BY <1>z, <1>h, <2>2
  <2>4. CASE tube' = "failed" /\ helper' = [helper EXCEPT ![h] = Free]
    BY <1>t, <1>f, <2>1, <2>2, <2>3, <2>4, HelperSteps
  <2>5. CASE tube' = tube /\ helper' = [helper EXCEPT ![h] = [helper[h] EXCEPT !.pc = "upload"]]
    <3> DEFINE rec == [helper[h] EXCEPT !.pc = "upload"]
    <3>1. rec \in HelperRecords /\ rec.job = "upload" /\ rec.pc = "upload"
      BY <1>t, <2>1 DEF HelperRecords
    <3>2. helper' = [helper EXCEPT ![h] = rec]
      BY <2>5
    <3> HIDE DEF rec
    <3> QED
      BY <1>t, <2>1, <2>2, <2>3, <2>5, <3>1, <3>2, HelperSteps
  <2> QED
    BY <2>1, <2>4, <2>5
<1>14. ASSUME NEW h \in Helpers, Upload(h) PROVE PublishInv'
  <2> DEFINE rec == [helper[h] EXCEPT !.pc = "record"]
  <2>1. /\ helper[h].pc = "upload" /\ helper[h].job = "upload"
        /\ helper' = [helper EXCEPT ![h] = rec] /\ uploads' = uploads + 1
        /\ UNCHANGED <<run, row, video, tube, unclear, manual>>
    BY <1>14 DEF Upload, Is, Step, runVars
  <2>2. rec \in HelperRecords /\ rec.job = "upload" /\ rec.pc = "record"
    BY <1>t, <2>1 DEF HelperRecords
  <2> HIDE DEF rec
  <2>3. h \notin Rendering /\ h \in Holders /\ ~Is(h, "upload", "record")
    BY <1>s, <2>1 DEF Is
  <2>4. tube = "publishing" /\ uploads = unclear
    BY <1>z, <1>h, <2>3
  <2>5. uploads' \in Nat
    BY <1>z, <2>1
  <2> QED
    BY <1>t, <2>1, <2>2, <2>3, <2>4, <2>5, HelperSteps
<1>15. ASSUME NEW h \in Helpers, UploadRaises(h) PROVE PublishInv'
  <2>1. /\ helper[h].pc = "upload" /\ helper[h].job = "upload"
        /\ UNCHANGED <<run, row, video, tube, manual>>
        /\ \/ uploads' = uploads + 1 /\ unclear' = unclear + 1
           \/ UNCHANGED <<uploads, unclear>>
        /\ \/ helper' = [helper EXCEPT ![h] = [helper[h] EXCEPT !.attempt = helper[h].attempt + 1]]
           \/ helper' = [helper EXCEPT ![h] = [helper[h] EXCEPT !.pc = "give up"]]
    BY <1>15 DEF UploadRaises, Is, Step, runVars
  <2>2. h \notin Rendering /\ h \in Holders /\ ~Is(h, "upload", "record")
    BY <1>s, <2>1 DEF Is
  <2>3. tube = "publishing" /\ uploads = unclear
    BY <1>z, <1>h, <2>2
  <2>4. uploads' \in Nat /\ unclear' \in Nat
    BY <1>z, <2>1
  <2>7. uploads' = unclear'
    BY <2>1, <2>3
  <2>8. uploads' = unclear' + 0
    BY <2>4, <2>7, OneMore
  <2>5. CASE helper' = [helper EXCEPT ![h] = [helper[h] EXCEPT !.attempt = helper[h].attempt + 1]]
    <3> DEFINE rec == [helper[h] EXCEPT !.attempt = helper[h].attempt + 1]
    <3>3. helper[h] \in HelperRecords /\ helper[h].attempt + 1 \in Nat
      BY <1>t, OneMore DEF HelperRecords
    <3>1. rec \in HelperRecords /\ rec.job = "upload" /\ rec.pc = "upload"
      BY <2>1, <3>3 DEF HelperRecords
    <3>2. helper' = [helper EXCEPT ![h] = rec]
      BY <2>5
    <3> HIDE DEF rec
    <3> QED
      BY <1>t, <2>1, <2>2, <2>3, <2>4, <2>8, <3>1, <3>2, HelperSteps
  <2>6. CASE helper' = [helper EXCEPT ![h] = [helper[h] EXCEPT !.pc = "give up"]]
    <3> DEFINE rec == [helper[h] EXCEPT !.pc = "give up"]
    <3>1. rec \in HelperRecords /\ rec.job = "upload" /\ rec.pc = "give up"
      BY <1>t, <2>1 DEF HelperRecords
    <3>2. helper' = [helper EXCEPT ![h] = rec]
      BY <2>6
    <3> HIDE DEF rec
    <3> QED
      BY <1>t, <2>1, <2>2, <2>3, <2>4, <2>8, <3>1, <3>2, HelperSteps
  <2> QED
    BY <2>1, <2>5, <2>6
<1>16. ASSUME NEW h \in Helpers, Record(h) PROVE PublishInv'
  <2>1. /\ helper[h].job = "upload" /\ helper' = [helper EXCEPT ![h] = Free]
        /\ UNCHANGED <<run, row, video, uploads, unclear, manual>>
        /\ \/ helper[h].pc = "record" /\ tube' = "done"
           \/ helper[h].pc = "give up" /\ tube' = "failed"
    <3>1. \/ Is(h, "upload", "record") /\ tube' = "done"
          \/ Is(h, "upload", "give up") /\ tube' = "failed"
      <4>1. \A end \in {<<"record", "done">>, <<"give up", "failed">>} :
               end = <<"record", "done">> \/ end = <<"give up", "failed">>
        OBVIOUS
      <4>2. <<"record", "done">>[1] = "record" /\ <<"record", "done">>[2] = "done"
            /\ <<"give up", "failed">>[1] = "give up" /\ <<"give up", "failed">>[2] = "failed"
        OBVIOUS
      <4> QED
        BY <1>16, <4>1, <4>2, Zenon DEF Record
    <3> QED
      BY <1>16, <3>1 DEF Record, Is, Leaves, runVars
  <2>2. h \notin Rendering /\ h \in Holders
    BY <1>s, <2>1 DEF Is
  <2>3. CASE helper[h].pc = "record" /\ tube' = "done"
    <3>1. Is(h, "upload", "record")
      BY <2>1, <2>3 DEF Is
    <3>2. uploads = unclear + 1
      BY <1>h, <2>2, <3>1
    <3>3. uploads > 0 /\ uploads <= unclear + 1
      BY <1>z, <3>2, OneMore
    <3> QED
      BY <1>t, <1>f, <2>1, <2>2, <2>3, <3>3, HelperSteps
  <2>4. CASE helper[h].pc = "give up" /\ tube' = "failed"
    <3>1. ~Is(h, "upload", "record")
      BY <2>4 DEF Is
    <3>2. uploads = unclear
      BY <1>z, <1>h, <2>2, <3>1
    <3> QED
      BY <1>t, <1>f, <2>1, <2>2, <2>4, <3>2, HelperSteps
  <2> QED
    BY <2>1, <2>3, <2>4
<1>17. ASSUME NEW h \in Helpers, Die(h) PROVE PublishInv'
  <2>1. /\ helper[h] # Free /\ helper' = [helper EXCEPT ![h] = Free]
        /\ UNCHANGED <<run, row, video, tube, uploads, unclear, manual>>
    BY <1>17 DEF Die, Leaves, runVars
  <2>2. h \in Rendering => h \in Rendering /\ TRUE
    OBVIOUS
  <2> QED
    BY <1>t, <1>d, <1>f, <2>1, HelperSteps
<1>18. CASE UNCHANGED <<runVars, publishVars>>
  <2>1. UNCHANGED <<run, row, video, tube, helper, uploads, unclear, manual>>
    BY <1>18 DEF runVars, publishVars
  <2>2. row'.turns \/ run'.pc # "spawn"
    BY <2>1 DEF PublishInv, OneRender
  <2> QED
    BY <2>1, <2>2, VideoSteps
<1>19. ASSUME NEW h \in Helpers, HelperStep(h) \/ Die(h) PROVE PublishInv'
  BY <1>7, <1>8, <1>9, <1>10, <1>11, <1>12, <1>13, <1>14, <1>15, <1>16, <1>17, <1>19 DEF HelperStep
<1> QED
  BY <1>1, <1>2, <1>3, <1>4, <1>5, <1>6, <1>18, <1>19 DEF PublishNext, FinalStep

THEOREM PublishInvHolds == PublishSpec => [](RunInv /\ PublishInv)
BY RunStart, PublishStart, PublishingKeepsRun, PublishKept, PTL DEF PublishSpec

LEMMA PublishedFits == PublishInv => PublishedOnce
<1> SUFFICES ASSUME PublishInv PROVE PublishedOnce
  OBVIOUS
<1>1. uploads <= 1 + unclear
  BY OneMoreOr DEF PublishInv, PublishTypes, OneVideo
<1> QED
  BY <1>1 DEF PublishInv, OneRender, OneHolder, OneVideo, PublishedOnce

(* claim_for_render and claim_for_youtube_publish: no two processes hold   *)
(* the claim on an upload, and no two render unless one was started by     *)
(* hand; YouTube has at most one video more than there were uploads that   *)
(* raised after they had been accepted, and one when the row says done.    *)
THEOREM PublishedAtMostOnce == PublishSpec => []PublishedOnce
BY PublishInvHolds, PublishedFits, PTL

(* Supervisors of an embodied run.                                         *)
SupPcs == {"off", "find", "create", "setup", "ask", "bill", "launch", "watch", "kill", "final",
           "over", "dead"}
KidStates == {"none", "running", "told", "zero", "nonzero"}
Reasons == Stops \cup {"none", "exit", "completed", "supervisor_error"}
Endings == {"completed", "cancelled", "failed"}

SupRecords ==
    [pc : SupPcs, reason : Reasons, cancelled : BOOLEAN, row : Nat,
     status : Endings \cup {"none"}]

(* What a verdict on a run says is true of the harness.                    *)
Truth(status, reason, kid) ==
    /\ status = "completed" => reason = "completed" /\ kid = "zero"
    /\ status = "cancelled" => reason \in Stops
    /\ status = "cancelled" /\ reason \in {"kill_switch", "goal_reached"} =>
           kid \in {"none", "zero", "nonzero"}

(* A supervisor that goes around has told its harness nothing, and may     *)
(* have been cancelled meanwhile; one that ends has a verdict that is true.*)
SupFits(pc, reason, status, kid) ==
    /\ pc \in {"off", "find", "create", "setup", "launch"} => kid = "none"
    /\ pc \in {"ask", "bill", "watch"} => kid # "told"
    /\ pc \in {"off", "find", "create", "setup", "launch", "ask", "bill", "watch"} =>
           reason \in {"none", "cancelled"}
    /\ kid = "running" => pc \in {"ask", "bill", "watch", "dead"}
    /\ pc = "kill" => reason \in Stops
    /\ pc = "final" => reason # "none" /\ status \in Endings /\ Truth(status, reason, kid)

(* The supervisor whose verdict a row holds is over, and left its harness  *)
(* as the verdict says.                                                    *)
RowFits(row1, sups1, kids1) ==
    row1.status \in {"completed", "cancelled"} =>
        /\ row1.by \in Supervisors
        /\ sups1[row1.by].pc = "over"
        /\ Truth(row1.status, row1.reason, kids1[row1.by])

SimRecords ==
    [status : Endings \cup {"none", "running"}, reason : Reasons, by : Supervisors \cup {"none"}]

EmbodiedInv ==
    /\ sups \in [Supervisors -> SupRecords]
    /\ kids \in [Supervisors -> KidStates]
    /\ sims \in Seq(SimRecords)
    /\ \A s \in Supervisors : SupFits(sups[s].pc, sups[s].reason, sups[s].status, kids[s])
    /\ \A r \in DOMAIN sims : RowFits(sims[r], sups, kids)

LEMMA EmbodiedStart == EmbodiedInit => EmbodiedInv
<1> SUFFICES ASSUME EmbodiedInit PROVE EmbodiedInv
  OBVIOUS
<1>1. Unstarted \in SupRecords /\ Unstarted.pc = "off" /\ Unstarted.reason = "none"
  BY DEF Unstarted, SupRecords, SupPcs, Reasons
<1>2. /\ sups \in [Supervisors -> SupRecords] /\ kids \in [Supervisors -> KidStates]
      /\ \A s \in Supervisors : sups[s] = Unstarted /\ kids[s] = "none"
  BY <1>1 DEF EmbodiedInit, KidStates
<1>3. sims \in Seq(SimRecords) /\ DOMAIN sims = {}
  BY DEF EmbodiedInit
<1>4. \A s \in Supervisors : SupFits(sups[s].pc, sups[s].reason, sups[s].status, kids[s])
  BY <1>1, <1>2 DEF SupFits
<1> QED
  BY <1>2, <1>3, <1>4 DEF EmbodiedInv

(* A step of one supervisor or of its harness: the rows keep their verdict,*)
(* lose it, or get that of a supervisor that is over.                      *)
LEMMA SupSteps ==
    ASSUME EmbodiedInv, NEW s \in Supervisors, NEW p \in SupRecords, NEW k \in KidStates,
           sups[s].pc # "over",
           sups' = [sups EXCEPT ![s] = p], kids' = [kids EXCEPT ![s] = k],
           SupFits(p.pc, p.reason, p.status, k),
           sims' \in Seq(SimRecords),
           \A r \in DOMAIN sims' :
              \/ r \in DOMAIN sims /\ sims'[r] = sims[r]
              \/ sims'[r].status \notin {"completed", "cancelled"}
              \/ /\ sims'[r].by = s /\ p.pc = "over"
                 /\ Truth(sims'[r].status, sims'[r].reason, k)
    PROVE  EmbodiedInv'
<1>1. /\ sups' \in [Supervisors -> SupRecords] /\ kids' \in [Supervisors -> KidStates]
      /\ sups'[s] = p /\ kids'[s] = k
      /\ \A t \in Supervisors : t # s => sups'[t] = sups[t] /\ kids'[t] = kids[t]
  BY DEF EmbodiedInv
<1>2. ASSUME NEW t \in Supervisors
      PROVE  SupFits(sups'[t].pc, sups'[t].reason, sups'[t].status, kids'[t])
  <2>1. CASE t = s
    BY <1>1, <2>1
  <2>2. CASE t # s
    BY <1>1, <2>2 DEF EmbodiedInv
  <2> QED
    BY <2>1, <2>2
<1>3. ASSUME NEW r \in DOMAIN sims' PROVE RowFits(sims'[r], sups', kids')
  <2>1. CASE r \in DOMAIN sims /\ sims'[r] = sims[r]
    <3>1. RowFits(sims[r], sups, kids)
      BY <2>1 DEF EmbodiedInv
    <3> QED
      BY <1>1, <2>1, <3>1 DEF RowFits
  <2>2. CASE sims'[r].status \notin {"completed", "cancelled"}
    BY <2>2 DEF RowFits
  <2>3. CASE sims'[r].by = s /\ p.pc = "over" /\ Truth(sims'[r].status, sims'[r].reason, k)
    BY <1>1, <2>3 DEF RowFits
  <2> QED
    BY <2>1, <2>2, <2>3
<1> QED
  BY <1>1, <1>2, <1>3 DEF EmbodiedInv

(* A supervisor that goes to another place, and what becomes of its kid.   *)
LEMMA SupMoves ==
    ASSUME EmbodiedInv, NEW s \in Supervisors, NEW pc \in SupPcs, NEW k \in KidStates,
           sups[s].pc # "over", Moves(s, pc),
           kids' = [kids EXCEPT ![s] = k] \/ (UNCHANGED kids /\ k = kids[s]),
           SupFits(pc, sups[s].reason, sups[s].status, k), UNCHANGED sims
    PROVE  EmbodiedInv'
<1> DEFINE p == [sups[s] EXCEPT !.pc = pc]
<1>1. sups[s] \in SupRecords /\ kids \in [Supervisors -> KidStates]
  BY DEF EmbodiedInv
<1>2. p \in SupRecords /\ p.pc = pc /\ p.reason = sups[s].reason /\ p.status = sups[s].status
  BY <1>1 DEF SupRecords
<1>3. sups' = [sups EXCEPT ![s] = p]
  BY DEF Moves
<1> HIDE DEF p
<1>4. kids' = [kids EXCEPT ![s] = k]
  BY <1>1
<1>5. sims' \in Seq(SimRecords)
  BY DEF EmbodiedInv
<1> QED
  BY <1>2, <1>3, <1>4, <1>5, SupSteps

(* A supervisor that comes to a verdict.                                   *)
LEMMA SupEnds ==
    ASSUME EmbodiedInv, NEW s \in Supervisors, NEW status \in Endings, NEW reason \in Reasons,
           NEW k \in KidStates,
           sups[s].pc # "over", EndsWith(s, status, reason),
           kids' = [kids EXCEPT ![s] = k] \/ (UNCHANGED kids /\ k = kids[s]),
           SupFits("final", First(s, reason), status, k), UNCHANGED sims
    PROVE  EmbodiedInv'
<1> DEFINE p == [sups[s] EXCEPT !.pc = "final", !.status = status, !.reason = First(s, reason)]
<1>1. sups[s] \in SupRecords /\ kids \in [Supervisors -> KidStates]
  BY DEF EmbodiedInv
<1>2. First(s, reason) \in Reasons
  BY <1>1 DEF First, SupRecords
<1>3. p \in SupRecords /\ p.pc = "final" /\ p.reason = First(s, reason) /\ p.status = status
  BY <1>1, <1>2 DEF SupRecords, SupPcs
<1>4. sups' = [sups EXCEPT ![s] = p]
  BY DEF EndsWith
<1> HIDE DEF p
<1>5. kids' = [kids EXCEPT ![s] = k]
  BY <1>1
<1>6. sims' \in Seq(SimRecords)
  BY DEF EmbodiedInv
<1> QED
  BY <1>3, <1>4, <1>5, <1>6, SupSteps

(* should_stop said yes to a supervisor that goes around.                  *)
LEMMA SupStops ==
    ASSUME EmbodiedInv, NEW s \in Supervisors, NEW reason \in Stops,
           sups[s].pc \in {"ask", "bill"}, StopsFor(s, reason), UNCHANGED sims
    PROVE  EmbodiedInv'
<1>1. /\ sups[s] \in SupRecords /\ kids[s] \in KidStates /\ kids[s] # "told"
      /\ sups[s].reason \in {"none", "cancelled"} /\ reason \in Reasons
  BY DEF EmbodiedInv, SupFits, Reasons
<1>2. First(s, reason) \in Stops /\ First(s, reason) # "none"
  BY <1>1 DEF First, Stops
<1>3. CASE kids[s] = "none"
  <2>1. EndsWith(s, "cancelled", reason) /\ UNCHANGED kids
    BY <1>3 DEF StopsFor
  <2>2. SupFits("final", First(s, reason), "cancelled", "none")
    BY <1>2 DEF SupFits, Truth, Endings
  <2> QED
    BY <1>1, <1>3, <2>1, <2>2, SupEnds DEF Endings
<1>4. CASE kids[s] = "running"
  <2> DEFINE p == [sups[s] EXCEPT !.pc = "kill", !.reason = First(s, reason)]
  <2>1. sups' = [sups EXCEPT ![s] = p]
    BY <1>4 DEF StopsFor
  <2>2. kids' = [kids EXCEPT ![s] = "told"]
    BY <1>4 DEF StopsFor, Told
  <2>3. p \in SupRecords /\ p.pc = "kill" /\ p.reason = First(s, reason)
    BY <1>1, <1>2 DEF SupRecords, SupPcs, Reasons
  <2> HIDE DEF p
  <2>4. SupFits(p.pc, p.reason, p.status, "told")
    BY <1>2, <2>3 DEF SupFits
  <2>5. sims' \in Seq(SimRecords) /\ "told" \in KidStates
    BY DEF EmbodiedInv, KidStates
  <2> QED
    BY <2>1, <2>2, <2>3, <2>4, <2>5, SupSteps
<1>5. CASE kids[s] \in {"zero", "nonzero"}
  <2>1. PICK status \in {"cancelled", "failed"} : EndsWith(s, status, reason) /\ UNCHANGED kids
    BY <1>5 DEF StopsFor
  <2>2. SupFits("final", First(s, reason), status, kids[s]) /\ status \in Endings
    BY <1>2, <1>5 DEF SupFits, Truth, Endings
  <2> QED
    BY <1>1, <2>1, <2>2, SupEnds
<1> QED
  BY <1>1, <1>3, <1>4, <1>5 DEF KidStates

LEMMA RowReplaced ==
    ASSUME NEW rows \in Seq(SimRecords), NEW i, NEW v \in SimRecords
    PROVE  /\ [rows EXCEPT ![i] = v] \in Seq(SimRecords)
           /\ \A q \in DOMAIN [rows EXCEPT ![i] = v] :
                 q \in DOMAIN rows /\ ([rows EXCEPT ![i] = v][q] = rows[q] \/ [rows EXCEPT ![i] = v][q] = v)
<1>1. /\ Len(rows) \in Nat /\ DOMAIN rows = 1 .. Len(rows)
      /\ \A q \in 1 .. Len(rows) : rows[q] \in SimRecords
  OBVIOUS
<1>2. [rows EXCEPT ![i] = v] \in [1 .. Len(rows) -> SimRecords]
  BY <1>1
<1>3. [rows EXCEPT ![i] = v] \in Seq(SimRecords)
  BY <1>1, <1>2, SeqDef
<1> QED
  BY <1>1, <1>2, <1>3

LEMMA EmbodiedKept == EmbodiedInv /\ [EmbodiedNext]_embodiedVars => EmbodiedInv'
<1> SUFFICES ASSUME EmbodiedInv, [EmbodiedNext]_embodiedVars PROVE EmbodiedInv'
  OBVIOUS
<1>t. \A s \in Supervisors :
        /\ sups[s] \in SupRecords /\ kids[s] \in KidStates
        /\ SupFits(sups[s].pc, sups[s].reason, sups[s].status, kids[s])
  BY DEF EmbodiedInv
<1>s. sims \in Seq(SimRecords) /\ kids \in [Supervisors -> KidStates]
  BY DEF EmbodiedInv
<1>1. CASE UNCHANGED <<sups, kids, sims>>
  BY <1>1 DEF EmbodiedInv
<1>2. ASSUME NEW s \in Supervisors, StartSupervisor(s) PROVE EmbodiedInv'
  <2>1. sups[s].pc = "off" /\ UNCHANGED kids
    BY <1>2 DEF StartSupervisor, In
  <2>2. CASE Moves(s, "find") /\ UNCHANGED sims
    <3>1. SupFits("find", sups[s].reason, sups[s].status, kids[s])
      BY <1>t, <2>1 DEF SupFits
    <3> QED
      BY <1>t, <2>1, <2>2, <3>1, SupMoves DEF SupPcs
  <2>3. ASSUME NEW r \in DOMAIN sims,
               sups' = [sups EXCEPT ![s].pc = "setup", ![s].row = r],
               sims' = [sims EXCEPT ![r].status = "running"]
        PROVE  EmbodiedInv'
    <3> DEFINE p == [sups[s] EXCEPT !.pc = "setup", !.row = r]
    <3>1. r \in Nat
      BY <1>s
    <3>2. p \in SupRecords /\ p.pc = "setup" /\ p.reason = sups[s].reason /\ p.status = sups[s].status
      BY <1>t, <3>1 DEF SupRecords, SupPcs
    <3>3. sups' = [sups EXCEPT ![s] = p]
      BY <2>3
    <3> HIDE DEF p
    <3>4. SupFits(p.pc, p.reason, p.status, kids[s])
      BY <1>t, <2>1, <3>2 DEF SupFits
    <3>5. kids' = [kids EXCEPT ![s] = kids[s]]
      BY <1>s, <2>1
    <3>6. sims[r] \in SimRecords
      BY <1>s
    <3>7. [sims[r] EXCEPT !.status = "running"] \in SimRecords
          /\ [sims[r] EXCEPT !.status = "running"].status = "running"
      BY <3>6 DEF SimRecords
    <3>8. /\ sims' \in Seq(SimRecords)
          /\ \A q \in DOMAIN sims' : q \in DOMAIN sims /\ (sims'[q] = sims[q] \/ sims'[q].status = "running")
      BY <1>s, <2>3, <3>7
    <3> QED
      BY <1>t, <2>1, <3>2, <3>3, <3>4, <3>5, <3>8, SupSteps
  <2> QED
    BY <1>2, <2>2, <2>3 DEF StartSupervisor
<1>3. ASSUME NEW s \in Supervisors, FindRow(s) PROVE EmbodiedInv'
  <2>1. sups[s].pc = "find" /\ UNCHANGED <<kids, sims>>
    BY <1>3 DEF FindRow, In
  <2>2. CASE sups' = [sups EXCEPT ![s].pc = "setup", ![s].row = Len(sims)]
    <3> DEFINE p == [sups[s] EXCEPT !.pc = "setup", !.row = Len(sims)]
    <3>1. Len(sims) \in Nat
      BY <1>s
    <3>2. p \in SupRecords /\ p.pc = "setup" /\ p.reason = sups[s].reason /\ p.status = sups[s].status
      BY <1>t, <3>1 DEF SupRecords, SupPcs
    <3>3. sups' = [sups EXCEPT ![s] = p]
      BY <2>2
    <3> HIDE DEF p
    <3>4. SupFits(p.pc, p.reason, p.status, kids[s])
      BY <1>t, <2>1, <3>2 DEF SupFits
    <3>5. kids' = [kids EXCEPT ![s] = kids[s]] /\ sims' \in Seq(SimRecords)
      BY <1>s, <2>1
    <3> QED
      BY <1>t, <2>1, <3>2, <3>3, <3>4, <3>5, SupSteps
  <2>3. CASE Moves(s, "create")
    <3>1. SupFits("create", sups[s].reason, sups[s].status, kids[s])
      BY <1>t, <2>1 DEF SupFits
    <3> QED
      BY <1>t, <2>1, <2>3, <3>1, SupMoves DEF SupPcs
  <2> QED
    BY <1>3, <2>2, <2>3 DEF FindRow
<1>4. ASSUME NEW s \in Supervisors, CreateRow(s) PROVE EmbodiedInv'
  <2> DEFINE p == [sups[s] EXCEPT !.pc = "setup", !.row = Len(sims) + 1]
  <2>1. /\ sups[s].pc = "create" /\ UNCHANGED kids
        /\ sims' = Append(sims, NewRun) /\ sups' = [sups EXCEPT ![s] = p]
    BY <1>4 DEF CreateRow, In
  <2>2. Len(sims) + 1 \in Nat
    BY <1>s
  <2>3. p \in SupRecords /\ p.pc = "setup" /\ p.reason = sups[s].reason /\ p.status = sups[s].status
    BY <1>t, <2>2 DEF SupRecords, SupPcs
  <2> HIDE DEF p
  <2>4. SupFits(p.pc, p.reason, p.status, kids[s])
    BY <1>t, <2>1, <2>3 DEF SupFits
  <2>5. kids' = [kids EXCEPT ![s] = kids[s]]
    BY <1>s, <2>1
  <2>6. NewRun \in SimRecords /\ NewRun.status = "running"
    BY DEF NewRun, SimRecords, Reasons
  <2>7. /\ sims' \in Seq(SimRecords)
        /\ \A q \in DOMAIN sims' : (q \in DOMAIN sims /\ sims'[q] = sims[q]) \/ sims'[q] = NewRun
    BY <1>s, <2>1, <2>6
  <2>8. NewRun.status \notin {"completed", "cancelled"} /\ sups[s].pc # "over"
    BY <2>1, <2>6
  <2>9. \A q \in DOMAIN sims' : \/ q \in DOMAIN sims /\ sims'[q] = sims[q]
                               \/ sims'[q].status \notin {"completed", "cancelled"}
    BY <2>7, <2>8
  <2> QED
    BY <1>t, <2>1, <2>3, <2>4, <2>5, <2>7, <2>8, <2>9, SupSteps
<1>5. ASSUME NEW s \in Supervisors, SetUpRun(s) PROVE EmbodiedInv'
  <2>1. sups[s].pc = "setup" /\ Moves(s, "ask") /\ UNCHANGED <<kids, sims>>
    BY <1>5 DEF SetUpRun, In
  <2>2. SupFits("ask", sups[s].reason, sups[s].status, kids[s])
    BY <1>t, <2>1 DEF SupFits
  <2> QED
    BY <1>t, <2>1, <2>2, SupMoves DEF SupPcs
<1>6. ASSUME NEW s \in Supervisors, SetUpFails(s) PROVE EmbodiedInv'
  <2>1. sups[s].pc \in {"find", "create", "setup"} /\ Moves(s, "over") /\ UNCHANGED <<kids, sims>>
    BY <1>6 DEF SetUpFails
  <2>2. SupFits("over", sups[s].reason, sups[s].status, kids[s])
    BY <1>t, <2>1 DEF SupFits
  <2> QED
    BY <1>t, <2>1, <2>2, SupMoves DEF SupPcs
<1>7. ASSUME NEW s \in Supervisors, AskSwitch(s) PROVE EmbodiedInv'
  <2>1. sups[s].pc = "ask" /\ UNCHANGED sims
    BY <1>7 DEF AskSwitch, In
  <2>2. \/ StopsFor(s, "cancelled") \/ StopsFor(s, "kill_switch")
        \/ Moves(s, "bill") /\ UNCHANGED kids
    BY <1>7 DEF AskSwitch
  <2>3. SupFits("bill", sups[s].reason, sups[s].status, kids[s])
    BY <1>t, <2>1 DEF SupFits
  <2>4. CASE Moves(s, "bill") /\ UNCHANGED kids
    BY <1>t, <2>1, <2>3, <2>4, SupMoves DEF SupPcs
  <2> QED
    BY <2>1, <2>2, <2>4, SupStops DEF Stops
<1>8. ASSUME NEW s \in Supervisors, AskCosts(s) PROVE EmbodiedInv'
  <2>1. sups[s].pc = "bill" /\ UNCHANGED sims
    BY <1>8 DEF AskCosts, In
  <2>2. CASE EndsWith(s, "cancelled", "cost_cap") /\ Told(s)
    <3>1. SupFits("final", First(s, "cost_cap"), "cancelled",
                  IF kids[s] = "running" THEN "told" ELSE kids[s])
      BY <1>t, <2>1 DEF SupFits, Truth, Endings, First, Stops
    <3>2. (IF kids[s] = "running" THEN "told" ELSE kids[s]) \in KidStates
      BY <1>t DEF KidStates
    <3> QED
      BY <1>t, <2>1, <2>2, <3>1, <3>2, SupEnds DEF Endings, Reasons, Stops, Told
  <2>3. CASE StopsFor(s, "goal_reached")
    BY <2>1, <2>3, SupStops DEF Stops
  <2>4. CASE Moves(s, IF kids[s] = "none" THEN "launch" ELSE "watch") /\ UNCHANGED kids
    <3>1. SupFits(IF kids[s] = "none" THEN "launch" ELSE "watch", sups[s].reason, sups[s].status, kids[s])
      BY <1>t, <2>1 DEF SupFits
    <3> QED
      BY <1>t, <2>1, <2>4, <3>1, SupMoves DEF SupPcs
  <2> QED
    BY <1>8, <2>2, <2>3, <2>4 DEF AskCosts
<1>9. ASSUME NEW s \in Supervisors, LaunchKid(s) PROVE EmbodiedInv'
  <2>1. /\ sups[s].pc = "launch" /\ Moves(s, "watch") /\ UNCHANGED sims
        /\ kids' = [kids EXCEPT ![s] = "running"]
    BY <1>9 DEF LaunchKid, In
  <2>2. SupFits("watch", sups[s].reason, sups[s].status, "running")
    BY <1>t, <2>1 DEF SupFits
  <2> QED
    BY <1>t, <2>1, <2>2, SupMoves DEF SupPcs, KidStates
<1>10. ASSUME NEW s \in Supervisors, SupervisorRaises(s) PROVE EmbodiedInv'
  <2>1. /\ sups[s].pc \in {"ask", "bill", "launch"} /\ EndsWith(s, "failed", "supervisor_error")
        /\ Told(s) /\ UNCHANGED sims
    BY <1>10 DEF SupervisorRaises
  <2>2. SupFits("final", First(s, "supervisor_error"), "failed",
                IF kids[s] = "running" THEN "told" ELSE kids[s])
    BY <1>t, <2>1 DEF SupFits, Truth, Endings, First
  <2>3. (IF kids[s] = "running" THEN "told" ELSE kids[s]) \in KidStates
    BY <1>t DEF KidStates
  <2> QED
    BY <1>t, <2>1, <2>2, <2>3, SupEnds DEF Endings, Reasons, Told
<1>11. ASSUME NEW s \in Supervisors, PollTimeout(s) PROVE EmbodiedInv'
  <2>1. sups[s].pc = "watch" /\ Moves(s, "ask") /\ UNCHANGED <<kids, sims>>
    BY <1>11 DEF PollTimeout, In
  <2>2. SupFits("ask", sups[s].reason, sups[s].status, kids[s])
    BY <1>t, <2>1 DEF SupFits
  <2> QED
    BY <1>t, <2>1, <2>2, SupMoves DEF SupPcs
<1>12. ASSUME NEW s \in Supervisors, KidReturns(s) PROVE EmbodiedInv'
  <2>1. sups[s].pc = "watch" /\ UNCHANGED sims /\ sups[s].reason \in {"none", "cancelled"}
    BY <1>t, <1>12 DEF KidReturns, In, SupFits
  <2>2. CASE /\ kids[s] = "nonzero" /\ UNCHANGED kids
             /\ EndsWith(s, IF sups[s].reason \in Stops THEN "cancelled" ELSE "failed", "exit")
    <3> DEFINE status == IF sups[s].reason \in Stops THEN "cancelled" ELSE "failed"
    <3>1. SupFits("final", First(s, "exit"), status, kids[s]) /\ status \in Endings
      BY <2>1, <2>2 DEF SupFits, Truth, Endings, First, Stops
    <3>2. EndsWith(s, status, "exit")
      BY <2>2
    <3> HIDE DEF status
    <3> QED
      BY <1>t, <2>1, <2>2, <3>1, <3>2, SupEnds DEF Reasons
  <2>3. CASE /\ kids[s] = "zero" /\ UNCHANGED kids
             /\ EndsWith(s, IF sups[s].reason \in Stops THEN "cancelled" ELSE "completed", "completed")
    <3> DEFINE status == IF sups[s].reason \in Stops THEN "cancelled" ELSE "completed"
    <3>1. SupFits("final", First(s, "completed"), status, kids[s]) /\ status \in Endings
      BY <2>1, <2>3 DEF SupFits, Truth, Endings, First, Stops
    <3>2. EndsWith(s, status, "completed")
      BY <2>3
    <3> HIDE DEF status
    <3> QED
      BY <1>t, <2>1, <2>3, <3>1, <3>2, SupEnds DEF Reasons
  <2>4. CASE kids[s] = "zero" /\ Moves(s, "ask") /\ kids' = [kids EXCEPT ![s] = "none"]
    <3>1. SupFits("ask", sups[s].reason, sups[s].status, "none")
      BY <2>1 DEF SupFits
    <3> QED
      BY <1>t, <2>1, <2>4, <3>1, SupMoves DEF SupPcs, KidStates
  <2> QED
    BY <1>12, <2>2, <2>3, <2>4 DEF KidReturns
<1>13. ASSUME NEW s \in Supervisors, ReapKid(s) PROVE EmbodiedInv'
  <2>1. /\ sups[s].pc = "kill" /\ UNCHANGED sims /\ kids' = [kids EXCEPT ![s] = "nonzero"]
        /\ EndsWith(s, "cancelled", sups[s].reason)
    BY <1>13 DEF ReapKid, In
  <2>2. sups[s].reason \in Stops /\ sups[s].reason \in Reasons
    BY <1>t, <2>1 DEF SupFits, Reasons
  <2>3. SupFits("final", First(s, sups[s].reason), "cancelled", "nonzero")
    BY <2>2 DEF SupFits, Truth, Endings, First, Stops
  <2> QED
    BY <1>t, <2>1, <2>2, <2>3, SupEnds DEF Endings, KidStates
<1>14. ASSUME NEW s \in Supervisors, FinalizeRow(s) PROVE EmbodiedInv'
  <2> DEFINE p == [sups[s] EXCEPT !.pc = "over"]
             v == [status |-> sups[s].status, reason |-> sups[s].reason, by |-> s]
  <2>1. /\ sups[s].pc = "final" /\ UNCHANGED kids
        /\ sims' = [sims EXCEPT ![sups[s].row] = v] /\ sups' = [sups EXCEPT ![s] = p]
    BY <1>14 DEF FinalizeRow, In, Moves
  <2>2. p \in SupRecords /\ p.pc = "over" /\ p.reason = sups[s].reason /\ p.status = sups[s].status
    BY <1>t DEF SupRecords, SupPcs
  <2>3. /\ v \in SimRecords /\ v.by = s
        /\ v.status = sups[s].status /\ v.reason = sups[s].reason
    BY <1>t DEF SimRecords, SupRecords
  <2> HIDE DEF p, v
  <2>4. SupFits(p.pc, p.reason, p.status, kids[s]) /\ Truth(v.status, v.reason, kids[s])
    BY <1>t, <2>1, <2>2, <2>3 DEF SupFits
  <2>5. kids' = [kids EXCEPT ![s] = kids[s]]
    BY <1>s, <2>1
  <2>6. /\ sims' \in Seq(SimRecords)
        /\ \A q \in DOMAIN sims' : q \in DOMAIN sims /\ (sims'[q] = sims[q] \/ sims'[q] = v)
    BY <1>s, <2>1, <2>3, RowReplaced
  <2>7. \A q \in DOMAIN sims' :
           \/ q \in DOMAIN sims /\ sims'[q] = sims[q]
           \/ sims'[q].by = s /\ p.pc = "over" /\ Truth(sims'[q].status, sims'[q].reason, kids[s])
    BY <2>2, <2>3, <2>4, <2>6
  <2>8. sups[s].pc # "over" /\ sups' = [sups EXCEPT ![s] = p] /\ sims' \in Seq(SimRecords)
        /\ p \in SupRecords /\ kids[s] \in KidStates
    BY <1>t, <2>1, <2>2, <2>6
  <2>9. SupFits(p.pc, p.reason, p.status, kids[s])
    BY <2>4
  <2> QED
    BY <2>5, <2>7, <2>8, <2>9, SupSteps
<1>15. ASSUME NEW s \in Supervisors, FinalizeRowFails(s) PROVE EmbodiedInv'
  <2>1. sups[s].pc = "final" /\ Moves(s, "over") /\ UNCHANGED <<kids, sims>>
    BY <1>15 DEF FinalizeRowFails, In
  <2>2. SupFits("over", sups[s].reason, sups[s].status, kids[s])
    BY <1>t, <2>1 DEF SupFits
  <2> QED
    BY <1>t, <2>1, <2>2, SupMoves DEF SupPcs
<1>16. ASSUME NEW s \in Supervisors, CancelRun(s) PROVE EmbodiedInv'
  <2> DEFINE p == [sups[s] EXCEPT !.cancelled = TRUE, !.reason = First(s, "cancelled")]
  <2>1. /\ sups[s].pc \notin {"off", "over", "dead"} /\ UNCHANGED <<kids, sims>>
        /\ sups' = [sups EXCEPT ![s] = p]
    BY <1>16 DEF CancelRun, Supervising
  <2>2. First(s, "cancelled") \in Reasons
    BY <1>t DEF First, SupRecords, Reasons, Stops
  <2>3. p \in SupRecords /\ p.pc = sups[s].pc /\ p.reason = First(s, "cancelled") /\ p.status = sups[s].status
    BY <1>t, <2>2 DEF SupRecords
  <2> HIDE DEF p
  <2>4. SupFits(p.pc, p.reason, p.status, kids[s])
    BY <1>t, <2>1, <2>3 DEF SupFits, First, Stops
  <2>5. kids' = [kids EXCEPT ![s] = kids[s]] /\ sims' \in Seq(SimRecords)
    BY <1>s, <2>1
  <2> QED
    BY <1>t, <2>1, <2>3, <2>4, <2>5, SupSteps
<1>17. ASSUME NEW s \in Supervisors, InterruptRun(s) PROVE EmbodiedInv'
  <2>1. /\ sups[s].pc \notin {"off", "over", "dead"} /\ UNCHANGED sims
        /\ Moves(s, "over") /\ Told(s)
    BY <1>17 DEF InterruptRun, Supervising
  <2>2. (IF kids[s] = "running" THEN "told" ELSE kids[s]) \in KidStates
    BY <1>t DEF KidStates
  <2>3. SupFits("over", sups[s].reason, sups[s].status, IF kids[s] = "running" THEN "told" ELSE kids[s])
    BY DEF SupFits
  <2> QED
    BY <2>1, <2>2, <2>3, SupMoves DEF SupPcs, Told
<1>18. ASSUME NEW s \in Supervisors, SupervisorDies(s) PROVE EmbodiedInv'
  <2>1. /\ sups[s].pc \notin {"off", "over", "dead"} /\ UNCHANGED <<kids, sims>>
        /\ Moves(s, "dead")
    BY <1>18 DEF SupervisorDies, Supervising
  <2>2. SupFits("dead", sups[s].reason, sups[s].status, kids[s])
    BY DEF SupFits
  <2> QED
    BY <1>t, <2>1, <2>2, SupMoves DEF SupPcs
(* A harness that was told to end, or ends, contradicts no verdict.        *)
<1>19. ASSUME NEW s \in Supervisors, KidEnds(s) PROVE EmbodiedInv'
  <2>1. kids[s] \in {"running", "told"} /\ UNCHANGED <<sups, sims>>
    BY <1>19 DEF KidEnds
  <2>2. PICK k \in {"zero", "nonzero"} : kids' = [kids EXCEPT ![s] = k]
    BY <1>19 DEF KidEnds
  <2>3. /\ kids' \in [Supervisors -> KidStates] /\ kids'[s] = k
        /\ \A t \in Supervisors : t # s => kids'[t] = kids[t]
    BY <1>s, <2>2 DEF KidStates
  <2>4. SupFits(sups[s].pc, sups[s].reason, sups[s].status, k)
    BY <1>t, <2>1, <2>2 DEF SupFits, Truth
  <2>5. \A t \in Supervisors : SupFits(sups'[t].pc, sups'[t].reason, sups'[t].status, kids'[t])
    BY <1>t, <2>1, <2>3, <2>4
  <2>6. ASSUME NEW r \in DOMAIN sims' PROVE RowFits(sims'[r], sups', kids')
    <3>1. RowFits(sims[r], sups, kids)
      BY <2>1, <2>6 DEF EmbodiedInv
    <3> QED
      BY <2>1, <2>2, <2>3, <3>1 DEF RowFits, Truth
  <2> QED
    BY <2>1, <2>3, <2>5, <2>6 DEF EmbodiedInv
<1> QED
  BY <1>1, <1>2, <1>3, <1>4, <1>5, <1>6, <1>7, <1>8, <1>9, <1>10, <1>11, <1>12, <1>13, <1>14, <1>15,
     <1>16, <1>17, <1>18, <1>19
  DEF EmbodiedNext, SupervisorStep, OthersAct, embodiedVars

LEMMA EmbodiedFits == EmbodiedInv => EmbodiedSound
<1> SUFFICES ASSUME EmbodiedInv PROVE EmbodiedSound
  OBVIOUS
<1>1. KidsAreWatched
  BY DEF EmbodiedInv, SupFits, KidsAreWatched
<1>2. RowsTellTheEnd
  BY DEF EmbodiedInv, RowFits, Truth, RowsTellTheEnd
<1> QED
  BY <1>1, <1>2 DEF EmbodiedSound

(* No harness runs that nobody told to end and no living supervisor        *)
(* watches; and a row says of a run what happened to it (the finally of    *)
(* _default_command_runner, should_stop, _finalize).                       *)
THEOREM SupervisorsAreSound == EmbodiedSpec => []EmbodiedSound
BY EmbodiedStart, EmbodiedKept, EmbodiedFits, PTL DEF EmbodiedSpec

(* Every behaviour of the runs' instance is one of both.                   *)
THEOREM DetachedAreSound == RunsSpec => []DetachedSound
<1>1. RunsInit => RunInv /\ PublishInv /\ EmbodiedInv
  BY RunStart, PublishStart, EmbodiedStart DEF RunsInit
<1>2. [RunsNext]_runsVars => [PublishNext]_<<runVars, publishVars>> /\ [EmbodiedNext]_embodiedVars
  BY DEF RunsNext, Headless, Embodied, runsVars
<1>3. RunInv /\ PublishInv /\ EmbodiedInv /\ [RunsNext]_runsVars => (RunInv /\ PublishInv /\ EmbodiedInv)'
  BY <1>2, PublishingKeepsRun, PublishKept, EmbodiedKept
<1>4. PublishInv => PublishedOnce
  BY PublishedFits
<1>5. EmbodiedInv => EmbodiedSound
  BY EmbodiedFits
<1> QED
  BY <1>1, <1>3, <1>4, <1>5, PTL DEF RunsSpec, DetachedSound

=============================================================================
