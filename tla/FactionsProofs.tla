--------------------------- MODULE FactionsProofs ---------------------------
(***************************************************************************)
(* Proofs about Factions: for any factions, agents and terms, any number   *)
(* of treaties, wars, defections and failed appends, and a crash between   *)
(* any two log lines.                                                      *)
(***************************************************************************)
EXTENDS Factions, FiniteSetTheorems, TLAPS

(* No treaty and no war is on record that was never made.                  *)
DipKnown(dip, ts) == \A t \in TreatyIds : t > Len(ts) => dip.treaty[t] = "none"
WarKnown(cf, ws) == \A w \in WarIds : w > Len(ws) => cf.status[w] = "none"

(* ActiveHasQuorum of one ledger.                                          *)
Majority(cf, ws, w) == 2 * Cardinality(cf.seconders[w]) > ws[w].size
Quorate(cf, ws) ==
    \A w \in 1..Len(ws) : cf.status[w] \in {"active", "resolved"} => Majority(cf, ws, w)

DipGood(dip, ts) == InOneFaction(dip) /\ DipKnown(dip, ts)
WarGood(cf, ws) == WarKnown(cf, ws) /\ Quorate(cf, ws)

DipLines ==
    [log : {"dip"}, ev : {"proposed", "signed", "broken"}, id : TreatyIds]
    \cup [log : {"dip"}, ev : {"defected"}, agent : Agents,
          from : FactionIds \cup {NoFaction}, to : FactionIds]
WarLines ==
    [log : {"war"}, ev : {"war_declared", "war_seconded", "war_activated", "surrendered"},
     id : WarIds, agent : Agents, status : WarStatuses]

(* What is on record when a line that an operation wrote is replayed.      *)
DipFits(dip, line, ts) ==
    /\ line.ev = "proposed" => line.id \in 1..Len(ts) /\ dip.treaty[line.id] = "none"
    /\ line.ev = "defected" => line.from = FactionOf(dip.members, line.agent)

WarFits(cf, line, ws) ==
    /\ line.id \in 1..Len(ws)
    /\ line.ev = "war_declared" =>
          /\ cf.status[line.id] = "none"
          /\ line.status \in {"pending", "active"}
          /\ line.status = "active" => ws[line.id].size < 2
    /\ line.ev = "war_seconded" => cf.status[line.id] = "pending"
    /\ line.ev = "war_activated" => cf.status[line.id] \in {"pending", "active"} /\ Majority(cf, ws, line.id)
    /\ line.ev = "surrendered" => cf.status[line.id] = "active"

(* The lines that are still to be written lead from the files to memory:   *)
(* one line of the diplomacy ledger, the breaks a theft causes, or one or  *)
(* two lines of a war.                                                     *)
OneDipLine ==
    \E line \in DipLines :
        /\ queue = <<line>>
        /\ DipFits(disk.dip.img, line, treaties)
        /\ mem.dip = ReplayDiplomacy(disk.dip.img, line)
        /\ mem.war = disk.war.img

Breaks ==
    /\ \A i \in 1..Len(queue) :
          /\ queue[i].log = "dip" /\ queue[i].ev = "broken"
          /\ queue[i].id \in TreatyIds
          /\ disk.dip.img.treaty[queue[i].id] = "active"
    /\ \A i, j \in 1..Len(queue) : i # j => queue[i].id # queue[j].id
    /\ mem.dip.members = disk.dip.img.members
    /\ \A t \in TreatyIds :
          mem.dip.treaty[t] = IF \E i \in 1..Len(queue) : queue[i].id = t
                                THEN "broken" ELSE disk.dip.img.treaty[t]
    /\ mem.war = disk.war.img

OneWarLine ==
    \E line \in WarLines :
        /\ queue = <<line>>
        /\ WarFits(disk.war.img, line, wars)
        /\ mem.war = ReplayWar(disk.war.img, line)
        /\ mem.dip = disk.dip.img

TwoWarLines ==
    \E first, second \in WarLines :
        /\ queue = <<first, second>>
        /\ WarFits(disk.war.img, first, wars)
        /\ WarFits(ReplayWar(disk.war.img, first), second, wars)
        /\ mem.war = ReplayWar(ReplayWar(disk.war.img, first), second)
        /\ mem.dip = disk.dip.img

(* Breaks covers the empty queue.                                          *)
QueueExplains == OneDipLine \/ Breaks \/ OneWarLine \/ TwoWarLines

(* While appends work.                                                     *)
Sound ==
    /\ disk.dip = Blank(disk.dip.img) /\ disk.war = Blank(disk.war.img)
    /\ DipGood(mem.dip, treaties) /\ DipGood(disk.dip.img, treaties)
    /\ WarGood(mem.war, wars) /\ WarGood(disk.war.img, wars)
    /\ QueueExplains

SoundWhileAppendsWork == faults = 0 => Sound

(* The quorum of a war is the one its faction had when it was declared.    *)
QuorumFixed == \A w \in 1..Len(wars) : wars[w].quorum = RequiredQuorum(wars[w].size)

LedgersInv == TypeOK /\ NobodyStranded /\ QuorumFixed /\ SoundWhileAppendsWork

-----------------------------------------------------------------------------
(* A nonempty set of natural numbers has a least one: of the intervals     *)
(* 1 .. n one contains no other.                                           *)
LEMMA LeastNumber ==
    ASSUME NEW S, S \subseteq Nat, S # {}
    PROVE  \E n \in S : \A m \in S : n <= m
<1> DEFINE T == {1 .. n : n \in S}
<1>1. ASSUME NEW t \in T PROVE t \in FiniteSubsetsOf(Nat)
  <2>1. PICK n \in S : t = 1 .. n
    OBVIOUS
  <2>2. IsFiniteSet(1 .. n) /\ 1 .. n \subseteq Nat
    BY FS_Interval
  <2> QED
    BY <2>1, <2>2 DEF FiniteSubsetsOf
<1>2. T # {}
  OBVIOUS
<1> HIDE DEF T
<1>3. PICK least \in T : \A t \in T : ~ (<<t, least>> \in StrictSubsetOrdering(Nat))
  <2>1. T \subseteq FiniteSubsetsOf(Nat)
    BY <1>1
  <2> QED
    BY <2>1, <1>2, FS_StrictSubsetOrderingWellFounded, WFMin
<1>4. PICK n \in S : least = 1 .. n
  BY <1>3 DEF T
<1>5. ASSUME NEW m \in S, m < n PROVE FALSE
  <2>1. 1 .. m \in T /\ 1 .. n \in T
    BY DEF T
  <2>2. 1 .. m \subseteq 1 .. n /\ n \in 1 .. n /\ n \notin 1 .. m
    BY <1>5
  <2>3. <<1 .. m, 1 .. n>> \in StrictSubsetOrdering(Nat)
    BY <2>2 DEF StrictSubsetOrdering
  <2> QED
    BY <1>3, <1>4, <2>1, <2>3
<1> QED
  BY <1>5

(* get_faction_for finds a faction that lists the agent, if there is one.  *)
LEMMA FactionFound ==
    ASSUME NEW members \in [FactionIds -> SUBSET Agents], NEW a
    PROVE  \/ FactionOf(members, a) \in FactionIds /\ a \in members[FactionOf(members, a)]
           \/ FactionOf(members, a) = NoFaction /\ \A f \in FactionIds : a \notin members[f]
<1> DEFINE at == {i \in 1..Len(FactionOrder) : a \in members[FactionOrder[i]]}
<1>1. CASE at = {}
  BY <1>1, FactionsAssumption DEF FactionOf, FactionIds
<1>2. CASE at # {}
  <2>1. at \subseteq Nat
    BY FactionsAssumption
  <2>2. \E i \in at : \A j \in at : i <= j
    BY <1>2, <2>1, LeastNumber
  <2>3. (CHOOSE i \in at : \A j \in at : i <= j) \in at
    BY <2>2
  <2> QED
    BY <1>2, <2>3 DEF FactionOf, FactionIds
<1> QED
  BY <1>1, <1>2

-----------------------------------------------------------------------------
(* What the operations do to a ledger keeps its type.                      *)
LEMMA DiplomacyTypes ==
    ASSUME NEW dip \in Diplomacy
    PROVE  /\ \A t \in TreatyIds, status \in TreatyStatuses :
                 SetTreaty(dip, t, status) \in Diplomacy
           /\ \A a \in Agents, from, to \in FactionIds \cup {NoFaction} :
                 MoveMember(dip, a, from, to) \in Diplomacy
<1>1. ASSUME NEW t \in TreatyIds, NEW status \in TreatyStatuses
      PROVE  SetTreaty(dip, t, status) \in Diplomacy
  BY DEF SetTreaty, Diplomacy
<1>2. ASSUME NEW a \in Agents, NEW from, NEW to
      PROVE  MoveMember(dip, a, from, to) \in Diplomacy
  BY DEF MoveMember, Diplomacy
<1> QED
  BY <1>1, <1>2

LEMMA DipReplayType ==
    ASSUME NEW dip \in Diplomacy, NEW line \in DipLines
    PROVE  ReplayDiplomacy(dip, line) \in Diplomacy
<1>1. CASE line.ev = "defected"
  <2>1. line.agent \in Agents /\ line.to \in FactionIds /\ line.from \in FactionIds \cup {NoFaction}
    BY <1>1 DEF DipLines
  <2> QED
    BY <1>1, <2>1, DiplomacyTypes DEF ReplayDiplomacy
<1>2. CASE line.ev # "defected"
  <2>1. line.id \in TreatyIds /\ line.ev \in {"proposed", "signed", "broken"}
    BY <1>2 DEF DipLines
  <2> QED
    BY <1>2, <2>1, DiplomacyTypes DEF ReplayDiplomacy, TreatyStatuses
<1> QED
  BY <1>1, <1>2

LEMMA WarReplayType ==
    ASSUME NEW cf \in Conflict, NEW line \in WarLines
    PROVE  ReplayWar(cf, line) \in Conflict
<1>1. line.id \in WarIds /\ line.agent \in Agents /\ line.status \in WarStatuses
      /\ line.ev \in {"war_declared", "war_seconded", "war_activated", "surrendered"}
  BY DEF WarLines
<1>2. AddWar(cf, line.id, line.agent, line.status) \in Conflict
  BY <1>1 DEF AddWar, Conflict
<1>3. [cf EXCEPT !.seconders[line.id] = @ \cup {line.agent}] \in Conflict
  BY <1>1 DEF Conflict
<1>4. \A status \in WarStatuses : [cf EXCEPT !.status[line.id] = status] \in Conflict
  BY <1>1 DEF Conflict
<1> QED
  BY <1>1, <1>2, <1>3, <1>4 DEF ReplayWar, WarStatuses

-----------------------------------------------------------------------------
(* The lines that operations write.                                        *)
LEMMA LineTypes ==
    /\ Lines = DipLines \cup WarLines
    /\ \A line \in DipLines : line.log = "dip"
    /\ \A line \in WarLines : line.log = "war"
    /\ \A ev \in {"proposed", "signed", "broken"}, t \in TreatyIds : TreatyLine(ev, t) \in DipLines
    /\ \A a \in Agents, from \in FactionIds \cup {NoFaction}, to \in FactionIds :
          DefectLine(a, from, to) \in DipLines
    /\ \A ev \in {"war_declared", "war_seconded", "war_activated", "surrendered"},
          w \in WarIds, a \in Agents, status \in WarStatuses : WarLine(ev, w, a, status) \in WarLines
<1>1. Lines = DipLines \cup WarLines
  BY DEF Lines, DipLines, WarLines
<1>2. \A line \in DipLines : line.log = "dip"
  BY DEF DipLines
<1>3. \A line \in WarLines : line.log = "war"
  BY DEF WarLines
<1>4. \A ev \in {"proposed", "signed", "broken"}, t \in TreatyIds : TreatyLine(ev, t) \in DipLines
  BY DEF DipLines, TreatyLine
<1>5. \A a \in Agents, from \in FactionIds \cup {NoFaction}, to \in FactionIds :
         DefectLine(a, from, to) \in DipLines
  BY DEF DipLines, DefectLine
<1>6. \A ev \in {"war_declared", "war_seconded", "war_activated", "surrendered"},
         w \in WarIds, a \in Agents, status \in WarStatuses : WarLine(ev, w, a, status) \in WarLines
  BY DEF WarLines, WarLine
<1> QED
  BY <1>1, <1>2, <1>3, <1>4, <1>5, <1>6

(* What an append, complete or not, leaves of a file.                      *)
LEMMA FileAfterAppend ==
    ASSUME NEW Image, NEW f \in Files(Image), NEW next \in Image
    PROVE  /\ \A g \in Damaged(f, next) \cup {Written(f, next)} :
                 /\ g \in Files(Image)
                 /\ {g.img, g.base} \subseteq {f.img, f.base, next}
           /\ f = Blank(f.img) => Written(f, next) = Blank(next)
BY DEF Files, Damaged, Written, TornPart, TornWhole, Blank

(* A step of the log: one file moves by one line, the rest stays.          *)
LEMMA AppendStep ==
    ASSUME TypeOK, Write \/ WriteFails
    PROVE  LET line == Head(queue) IN
           /\ queue # <<>> /\ queue' = Tail(queue) /\ line \in Lines
           /\ UNCHANGED <<mem, contents>>
           /\ disk' \in [dip : Files(Diplomacy), war : Files(Conflict)]
           /\ faults' \in 0..MaxFaults /\ (faults' = 0 => faults = 0)
           /\ line \in DipLines =>
                 /\ disk'.war = disk.war
                 /\ {disk'.dip.img, disk'.dip.base} \subseteq
                       {disk.dip.img, disk.dip.base, ReplayDiplomacy(disk.dip.img, line)}
                 /\ faults' = 0 /\ disk.dip = Blank(disk.dip.img) =>
                       disk'.dip = Blank(ReplayDiplomacy(disk.dip.img, line))
           /\ line \in WarLines =>
                 /\ disk'.dip = disk.dip
                 /\ {disk'.war.img, disk'.war.base} \subseteq
                       {disk.war.img, disk.war.base, ReplayWar(disk.war.img, line)}
                 /\ faults' = 0 /\ disk.war = Blank(disk.war.img) =>
                       disk'.war = Blank(ReplayWar(disk.war.img, line))
<1> DEFINE line == Head(queue)
<1>1. queue \in Seq(Lines) /\ queue # <<>> /\ queue' = Tail(queue) /\ UNCHANGED <<mem, contents>>
  BY DEF TypeOK, Write, WriteFails, Idle
<1>2. line \in Lines
  BY <1>1
<1>3. /\ disk.dip \in Files(Diplomacy) /\ disk.war \in Files(Conflict)
      /\ disk = [dip |-> disk.dip, war |-> disk.war]
      /\ disk.dip.img \in Diplomacy /\ disk.war.img \in Conflict
  BY DEF TypeOK, Files
<1>4. faults' \in 0..MaxFaults /\ (faults' = 0 => faults = 0)
  BY FactionsAssumption DEF TypeOK, Write, WriteFails
<1>5. CASE line \in DipLines
  <2>1. line.log = "dip" /\ Replayed(line) = ReplayDiplomacy(disk.dip.img, line)
    BY <1>5, LineTypes DEF Replayed
  <2> DEFINE next == ReplayDiplomacy(disk.dip.img, line)
  <2>2. next \in Diplomacy
    BY <1>3, <1>5, DipReplayType
  <2>3. \E g \in Damaged(disk.dip, next) \cup {Written(disk.dip, next)} :
           /\ disk' = [disk EXCEPT !["dip"] = g]
           /\ faults' = 0 => g = Written(disk.dip, next)
    <3> HIDE DEF next
    <3>1. CASE Write
      <4>1. disk' = [disk EXCEPT ![line.log] = Written(disk[line.log], Replayed(line))]
        BY <3>1 DEF Write
      <4> QED
        BY <4>1, <2>1 DEF next
    <3>2. CASE WriteFails
      <4>1. \E g \in Damaged(disk[line.log], Replayed(line)) : disk' = [disk EXCEPT ![line.log] = g]
        BY <3>2 DEF WriteFails
      <4>2. faults' # 0
        BY <3>2 DEF WriteFails, TypeOK
      <4> QED
        BY <4>1, <4>2, <2>1 DEF next
    <3> QED
      BY <3>1, <3>2
  <2> HIDE DEF next
  <2>4. PICK g \in Damaged(disk.dip, next) \cup {Written(disk.dip, next)} :
           /\ disk' = [disk EXCEPT !["dip"] = g]
           /\ faults' = 0 => g = Written(disk.dip, next)
    BY <2>3
  <2>5. disk'.dip = g /\ disk'.war = disk.war /\ disk' = [dip |-> g, war |-> disk.war]
    BY <1>3, <2>4
  <2>6. /\ g \in Files(Diplomacy)
        /\ {g.img, g.base} \subseteq {disk.dip.img, disk.dip.base, next}
        /\ disk.dip = Blank(disk.dip.img) => Written(disk.dip, next) = Blank(next)
    BY <1>3, <2>2, <2>4, FileAfterAppend
  <2>7. line \notin WarLines
    BY <2>1, LineTypes
  <2> QED
    BY <1>1, <1>2, <1>3, <1>4, <2>4, <2>5, <2>6, <2>7 DEF next
<1>6. CASE line \in WarLines
  <2>1. line.log = "war" /\ Replayed(line) = ReplayWar(disk.war.img, line)
    BY <1>6, LineTypes DEF Replayed
  <2> DEFINE next == ReplayWar(disk.war.img, line)
  <2>2. next \in Conflict
    BY <1>3, <1>6, WarReplayType
  <2>3. \E g \in Damaged(disk.war, next) \cup {Written(disk.war, next)} :
           /\ disk' = [disk EXCEPT !["war"] = g]
           /\ faults' = 0 => g = Written(disk.war, next)
    <3> HIDE DEF next
    <3>1. CASE Write
      <4>1. disk' = [disk EXCEPT ![line.log] = Written(disk[line.log], Replayed(line))]
        BY <3>1 DEF Write
      <4> QED
        BY <4>1, <2>1 DEF next
    <3>2. CASE WriteFails
      <4>1. \E g \in Damaged(disk[line.log], Replayed(line)) : disk' = [disk EXCEPT ![line.log] = g]
        BY <3>2 DEF WriteFails
      <4>2. faults' # 0
        BY <3>2 DEF WriteFails, TypeOK
      <4> QED
        BY <4>1, <4>2, <2>1 DEF next
    <3> QED
      BY <3>1, <3>2
  <2> HIDE DEF next
  <2>4. PICK g \in Damaged(disk.war, next) \cup {Written(disk.war, next)} :
           /\ disk' = [disk EXCEPT !["war"] = g]
           /\ faults' = 0 => g = Written(disk.war, next)
    BY <2>3
  <2>5. disk'.war = g /\ disk'.dip = disk.dip /\ disk' = [dip |-> disk.dip, war |-> g]
    BY <1>3, <2>4
  <2>6. /\ g \in Files(Conflict)
        /\ {g.img, g.base} \subseteq {disk.war.img, disk.war.base, next}
        /\ disk.war = Blank(disk.war.img) => Written(disk.war, next) = Blank(next)
    BY <1>3, <2>2, <2>4, FileAfterAppend
  <2>7. line \notin DipLines
    BY <2>1, LineTypes
  <2> QED
    BY <1>1, <1>2, <1>3, <1>4, <2>4, <2>5, <2>6, <2>7 DEF next
<1> QED
  BY <1>2, <1>5, <1>6, LineTypes

-----------------------------------------------------------------------------
(* A tuple of lines is a queue.                                            *)
LEMMA QueueTypes ==
    /\ <<>> \in Seq(Lines)
    /\ \A line \in Lines : <<line>> \in Seq(Lines)
    /\ \A first, second \in Lines : <<first, second>> \in Seq(Lines)
OBVIOUS

(* The size and the seconders of a faction are counted.                    *)
LEMMA Counted ==
    ASSUME NEW S \in SUBSET Agents
    PROVE  IsFiniteSet(S) /\ Cardinality(S) \in Nat /\ RequiredQuorum(Cardinality(S)) \in Nat
<1>1. IsFiniteSet(S) /\ Cardinality(S) \in Nat
  BY FS_Subset, FS_CardinalityType, FactionsAssumption
<1> QED
  BY <1>1 DEF RequiredQuorum

(* A memory with one of the two ledgers replaced.                          *)
LEMMA MemTypes ==
    ASSUME mem \in [dip : Diplomacy, war : Conflict]
    PROVE  /\ mem.dip \in Diplomacy /\ mem.war \in Conflict
           /\ \A dip \in Diplomacy : /\ [mem EXCEPT !.dip = dip] \in [dip : Diplomacy, war : Conflict]
                                     /\ [mem EXCEPT !.dip = dip].dip = dip
                                     /\ [mem EXCEPT !.dip = dip].war = mem.war
           /\ \A cf \in Conflict : /\ [mem EXCEPT !.war = cf] \in [dip : Diplomacy, war : Conflict]
                                   /\ [mem EXCEPT !.war = cf].war = cf
                                   /\ [mem EXCEPT !.war = cf].dip = mem.dip
OBVIOUS

(* The ledger of wars after a second.                                      *)
Seconded(cf, w, seconders, status) ==
    [cf EXCEPT !.seconders[w] = seconders, !.status[w] = status]

LEMMA WarTypes ==
    ASSUME NEW cf \in Conflict, NEW w \in WarIds, NEW status \in WarStatuses
    PROVE  /\ \A a \in Agents : AddWar(cf, w, a, status) \in Conflict
           /\ [cf EXCEPT !.status[w] = status] \in Conflict
           /\ \A S \in SUBSET Agents : Seconded(cf, w, S, status) \in Conflict
<1>1. \A a \in Agents : AddWar(cf, w, a, status) \in Conflict
  BY DEF AddWar, Conflict
<1>2. [cf EXCEPT !.status[w] = status] \in Conflict
  BY DEF Conflict
<1>3. \A S \in SUBSET Agents : Seconded(cf, w, S, status) \in Conflict
  BY DEF Seconded, Conflict
<1> QED
  BY <1>1, <1>2, <1>3

LEMMA TypesStart == Init => TypeOK
<1> SUFFICES ASSUME Init PROVE TypeOK
  OBVIOUS
<1>1. SeededDiplomacy \in Diplomacy
  BY SeedsAssumption DEF SeededDiplomacy, Diplomacy, TreatyStatuses
<1>2. NoConflict \in Conflict
  BY DEF NoConflict, Conflict, WarStatuses
<1>3. Blank(SeededDiplomacy) \in Files(Diplomacy) /\ Blank(NoConflict) \in Files(Conflict)
  BY <1>1, <1>2 DEF Blank, Files
<1> QED
  BY <1>1, <1>2, <1>3, FactionsAssumption DEF Init, TypeOK

(* One operation after the other; a line of the log keeps its type when it *)
(* is written (AppendStep).                                                *)
LEMMA TypesKept == TypeOK /\ [Next]_vars => TypeOK'
<1> SUFFICES ASSUME TypeOK, [Next]_vars PROVE TypeOK'
  OBVIOUS
<1>m. /\ mem \in [dip : Diplomacy, war : Conflict]
      /\ mem.dip \in Diplomacy /\ mem.war \in Conflict
      /\ mem.dip.members \in [FactionIds -> SUBSET Agents]
      /\ mem.war.seconders \in [WarIds -> SUBSET Agents]
  BY DEF TypeOK, Diplomacy, Conflict
<1>t. TreatyIds \subseteq Nat /\ WarIds \subseteq Nat
  BY DEF TreatyIds, WarIds
<1>1. ASSUME NEW a \in Agents, NEW g \in FactionIds, NEW terms \in TermSets, ProposeTreaty(a, g, terms)
      PROVE  TypeOK'
  <2> DEFINE t == Len(treaties) + 1
             f == FactionOf(mem.dip.members, a)
  <2>1. f \in FactionIds
    BY <1>1, <1>m, FactionFound DEF ProposeTreaty
  <2>2. t \in TreatyIds
    BY <1>1, FactionsAssumption DEF ProposeTreaty, TreatyIds, TypeOK
  <2>3. treaties' \in Seq([from : FactionIds, to : FactionIds, terms : TermSets])
    <3>1. [from |-> f, to |-> g, terms |-> terms] \in [from : FactionIds, to : FactionIds, terms : TermSets]
      BY <2>1
    <3> QED
      BY <1>1, <3>1 DEF ProposeTreaty, TypeOK
  <2>4. mem' \in [dip : Diplomacy, war : Conflict]
    <3>1. SetTreaty(mem.dip, t, "proposed") \in Diplomacy
      BY <1>m, <2>2, DiplomacyTypes DEF TreatyStatuses
    <3>2. mem' = [mem EXCEPT !.dip = SetTreaty(mem.dip, t, "proposed")]
      BY <1>1 DEF ProposeTreaty
    <3> QED
      BY <1>m, <3>1, <3>2
  <2>5. queue' \in Seq(Lines)
    BY <1>1, <2>2, LineTypes, QueueTypes DEF ProposeTreaty
  <2> QED
    BY <1>1, <2>3, <2>4, <2>5 DEF ProposeTreaty, TypeOK
<1>2. ASSUME NEW t \in 1..Len(treaties), NEW status \in {"active", "broken"}, NEW ev \in {"signed", "broken"},
             mem' = [mem EXCEPT !.dip = SetTreaty(mem.dip, t, status)],
             queue' = <<TreatyLine(ev, t)>>, UNCHANGED <<disk, faults, contents>>
      PROVE  TypeOK'
  <2>1. t \in TreatyIds
    BY FactionsAssumption DEF TreatyIds, TypeOK
  <2>2. mem' \in [dip : Diplomacy, war : Conflict]
    <3>1. SetTreaty(mem.dip, t, status) \in Diplomacy
      BY <1>m, <2>1, DiplomacyTypes DEF TreatyStatuses
    <3> QED
      BY <1>2, <1>m, <3>1
  <2>3. queue' \in Seq(Lines)
    BY <1>2, <2>1, LineTypes, QueueTypes
  <2> QED
    BY <1>2, <2>2, <2>3 DEF contents, TypeOK
<1>3. ASSUME NEW a \in Agents, NEW g \in FactionIds, Defect(a, g) PROVE TypeOK'
  <2> DEFINE f == FactionOf(mem.dip.members, a)
  <2>1. f \in FactionIds \cup {NoFaction}
    BY <1>m, FactionFound
  <2>2. mem' \in [dip : Diplomacy, war : Conflict]
    <3>1. MoveMember(mem.dip, a, f, g) \in Diplomacy
      BY <1>m, <2>1, DiplomacyTypes
    <3>2. mem' = [mem EXCEPT !.dip = MoveMember(mem.dip, a, f, g)]
      BY <1>3 DEF Defect
    <3> QED
      BY <1>m, <3>1, <3>2
  <2>3. queue' \in Seq(Lines)
    BY <1>3, <2>1, LineTypes, QueueTypes DEF Defect
  <2> QED
    BY <1>3, <2>2, <2>3, FactionsAssumption DEF Defect, TypeOK
<1>4. ASSUME NEW thief \in Agents, NEW victim \in Agents, TheftDetected(thief, victim) PROVE TypeOK'
  <2> DEFINE breached == Pacts(mem.dip, FactionOf(mem.dip.members, thief), FactionOf(mem.dip.members, victim))
  <2>1. breached \subseteq TreatyIds /\ IsFiniteSet(breached) /\ Cardinality(breached) \in Nat
    <3>1. breached \subseteq 1..Len(treaties) /\ Len(treaties) \in Nat
      BY DEF Pacts, TypeOK
    <3>2. IsFiniteSet(1..Len(treaties))
      BY <3>1, FS_Interval
    <3>3. 1..Len(treaties) \subseteq TreatyIds
      BY FactionsAssumption, <3>1 DEF TreatyIds, TypeOK
    <3> QED
      BY <3>1, <3>2, <3>3, FS_Subset, FS_CardinalityType
  <2> HIDE DEF breached
  <2>2. mem' = [mem EXCEPT !.dip.treaty =
                   [t \in TreatyIds |-> IF t \in breached THEN "broken" ELSE mem.dip.treaty[t]]]
    BY <1>4 DEF TheftDetected, breached
  <2>3. mem' \in [dip : Diplomacy, war : Conflict]
    <3>1. [mem.dip EXCEPT !.treaty =
              [t \in TreatyIds |-> IF t \in breached THEN "broken" ELSE mem.dip.treaty[t]]] \in Diplomacy
      BY <1>m DEF Diplomacy, TreatyStatuses
    <3> QED
      BY <1>m, <2>2, <3>1
  <2>4. PICK order \in InOrder(breached) : queue' = [i \in DOMAIN order |-> TreatyLine("broken", order[i])]
    BY <1>4 DEF TheftDetected, breached
  <2>5. queue' \in Seq(Lines)
    <3>1. DOMAIN order = 1..Cardinality(breached) /\ \A i \in DOMAIN order : order[i] \in TreatyIds
      BY <2>1 DEF InOrder
    <3>2. \A i \in DOMAIN order : TreatyLine("broken", order[i]) \in Lines
      BY <3>1, LineTypes
    <3> QED
      BY <2>1, <2>4, <3>1, <3>2
  <2> QED
    BY <1>4, <2>3, <2>5 DEF TheftDetected, contents, TypeOK
<1>5. ASSUME NEW a \in Agents, NEW g \in FactionIds, DeclareWar(a, g) PROVE TypeOK'
  <2> DEFINE w == Len(wars) + 1
             f == FactionOf(mem.dip.members, a)
             size == Cardinality(mem.dip.members[f])
             status == IF 1 >= RequiredQuorum(size) THEN "active" ELSE "pending"
  <2>1. f \in FactionIds
    BY <1>5, <1>m, FactionFound DEF DeclareWar
  <2>2. w \in WarIds
    BY <1>5, FactionsAssumption DEF DeclareWar, WarIds, TypeOK
  <2>3. size \in Nat /\ RequiredQuorum(size) \in Nat
    BY <1>m, <2>1, Counted
  <2>4. status \in WarStatuses
    BY DEF WarStatuses
  <2>5. wars' \in Seq([from : FactionIds, to : FactionIds, size : Nat, quorum : Nat])
        /\ Len(wars') <= MaxWars
    <3> HIDE DEF f
    <3>1. wars' = Append(wars, [from |-> f, to |-> g, size |-> size, quorum |-> RequiredQuorum(size)])
      BY <1>5 DEF DeclareWar, f
    <3> HIDE DEF size
    <3>2. [from |-> f, to |-> g, size |-> size, quorum |-> RequiredQuorum(size)]
             \in [from : FactionIds, to : FactionIds, size : Nat, quorum : Nat]
      BY <2>1, <2>3
    <3>3. w <= MaxWars
      BY <1>5 DEF DeclareWar
    <3> QED
      BY <3>1, <3>2, <3>3 DEF TypeOK
  <2>6. mem' \in [dip : Diplomacy, war : Conflict]
    <3>1. AddWar(mem.war, w, a, status) \in Conflict
      BY <1>m, <2>2, <2>4, WarTypes
    <3>2. mem' = [mem EXCEPT !.war = AddWar(mem.war, w, a, status)]
      BY <1>5 DEF DeclareWar
    <3> QED
      BY <1>m, <3>1, <3>2
  <2>7. queue' \in Seq(Lines)
    <3> DEFINE first == WarLine("war_declared", w, a, status)
               second == WarLine("war_activated", w, a, status)
    <3>1. first \in Lines /\ second \in Lines
      BY <2>2, <2>4, LineTypes
    <3>2. queue' = IF status = "active" THEN <<first, second>> ELSE <<first>>
      BY <1>5 DEF DeclareWar
    <3> HIDE DEF first, second
    <3> QED
      BY <3>1, <3>2, QueueTypes
  <2> QED
    BY <1>5, <2>5, <2>6, <2>7 DEF DeclareWar, TypeOK
<1>6. ASSUME NEW a \in Agents, NEW w \in 1..Len(wars), SecondWar(a, w) PROVE TypeOK'
  <2> DEFINE seconders == mem.war.seconders[w] \cup {a}
             status == IF Cardinality(seconders) >= wars[w].quorum THEN "active" ELSE "pending"
  <2>1. w \in WarIds /\ seconders \in SUBSET Agents
    <3>1. w \in WarIds
      BY FactionsAssumption DEF WarIds, TypeOK
    <3> QED
      BY <1>m, <3>1
  <2>2. status \in WarStatuses
    BY DEF WarStatuses
  <2>3. mem' \in [dip : Diplomacy, war : Conflict]
    <3>1. mem' = [mem EXCEPT !.war.seconders[w] = seconders, !.war.status[w] = status]
      BY <1>6 DEF SecondWar
    <3> HIDE DEF seconders, status
    <3>2. Seconded(mem.war, w, seconders, status) \in Conflict
      BY <1>m, <2>1, <2>2, WarTypes
    <3>3. mem' = [mem EXCEPT !.war = Seconded(mem.war, w, seconders, status)]
      BY <1>m, <3>1 DEF Seconded
    <3> QED
      BY <1>m, <3>2, <3>3
  <2>4. queue' \in Seq(Lines)
    <3> DEFINE first == WarLine("war_seconded", w, a, status)
               second == WarLine("war_activated", w, a, status)
    <3>1. first \in Lines /\ second \in Lines
      BY <2>1, <2>2, LineTypes
    <3>2. queue' = IF status = "active" THEN <<first, second>> ELSE <<first>>
      BY <1>6 DEF SecondWar
    <3> HIDE DEF first, second
    <3> QED
      BY <3>1, <3>2, QueueTypes
  <2> QED
    BY <1>6, <2>3, <2>4 DEF SecondWar, contents, TypeOK
<1>7. ASSUME NEW a \in Agents, NEW w \in 1..Len(wars), Surrender(a, w) PROVE TypeOK'
  <2>1. w \in WarIds
    BY FactionsAssumption DEF WarIds, TypeOK
  <2>2. mem' \in [dip : Diplomacy, war : Conflict]
    <3>1. [mem.war EXCEPT !.status[w] = "resolved"] \in Conflict
      BY <1>m, <2>1, WarTypes DEF WarStatuses
    <3>2. mem' = [mem EXCEPT !.war = [mem.war EXCEPT !.status[w] = "resolved"]]
      BY <1>7, <1>m DEF Surrender
    <3> QED
      BY <1>m, <3>1, <3>2
  <2>3. queue' \in Seq(Lines)
    BY <1>7, <2>1, LineTypes, QueueTypes DEF Surrender, WarStatuses
  <2> QED
    BY <1>7, <2>2, <2>3 DEF Surrender, contents, TypeOK
<1>8. CASE Write \/ WriteFails
  <2>1. /\ queue # <<>> /\ queue' = Tail(queue) /\ UNCHANGED <<mem, contents>>
        /\ disk' \in [dip : Files(Diplomacy), war : Files(Conflict)] /\ faults' \in 0..MaxFaults
    BY <1>8, AppendStep
  <2>2. queue' \in Seq(Lines)
    BY <2>1 DEF TypeOK
  <2> QED
    BY <2>1, <2>2 DEF contents, TypeOK
<1>9. CASE Crash
  <2>1. [dip |-> disk.dip.img, war |-> disk.war.img] \in [dip : Diplomacy, war : Conflict]
    BY DEF TypeOK, Files
  <2> QED
    BY <1>9, <2>1, QueueTypes DEF Crash, contents, TypeOK
<1>10. CASE UNCHANGED vars
  BY <1>10 DEF vars, TypeOK
<1>11. ASSUME NEW a \in Agents, NEW t \in 1..Len(treaties), SignTreaty(a, t) PROVE TypeOK'
  BY <1>2, <1>11 DEF SignTreaty
<1>12. ASSUME NEW t \in 1..Len(treaties), BreakTreaty(t) PROVE TypeOK'
  BY <1>2, <1>12 DEF BreakTreaty
<1> QED
  BY <1>1, <1>3, <1>4, <1>5, <1>6, <1>7, <1>8, <1>9, <1>10, <1>11, <1>12 DEF Next

-----------------------------------------------------------------------------
(* NobodyStranded of one ledger.                                           *)
Settled(dip) == \A f \in FactionIds : \A a \in Seeds[f] : \E g \in FactionIds : a \in dip.members[g]

(* The members of the factions after a defection.                          *)
LEMMA Moved ==
    ASSUME NEW dip \in Diplomacy, NEW a, NEW from, NEW to \in FactionIds
    PROVE  /\ MoveMember(dip, a, from, to).treaty = dip.treaty
           /\ \A g \in FactionIds :
                 MoveMember(dip, a, from, to).members[g] =
                    IF g = to THEN dip.members[g] \cup {a}
                    ELSE IF g = from THEN dip.members[g] \ {a} ELSE dip.members[g]
BY DEF MoveMember, Diplomacy

(* Replay takes an agent out of a faction only to put it into another.     *)
LEMMA ReplaySettled ==
    ASSUME NEW dip \in Diplomacy, Settled(dip), NEW line \in DipLines
    PROVE  Settled(ReplayDiplomacy(dip, line))
<1>1. CASE line.ev = "defected"
  <2>1. line.to \in FactionIds
    BY <1>1 DEF DipLines
  <2>2. ReplayDiplomacy(dip, line) = MoveMember(dip, line.agent, line.from, line.to)
    BY <1>1 DEF ReplayDiplomacy
  <2> DEFINE next == MoveMember(dip, line.agent, line.from, line.to)
  <2>3. /\ line.agent \in next.members[line.to]
        /\ \A g \in FactionIds : dip.members[g] \ {line.agent} \subseteq next.members[g]
    <3> HIDE DEF next
    <3>1. \A g \in FactionIds : next.members[g] =
             IF g = line.to THEN dip.members[g] \cup {line.agent}
             ELSE IF g = line.from THEN dip.members[g] \ {line.agent} ELSE dip.members[g]
      BY <2>1, Moved DEF next
    <3> QED
      BY <2>1, <3>1
  <2> HIDE DEF next
  <2>4. Settled(next)
    BY <2>1, <2>3 DEF Settled
  <2> QED
    BY <2>2, <2>4 DEF next
<1>2. CASE line.ev # "defected"
  <2>1. line.ev \in {"proposed", "signed", "broken"}
    BY <1>2 DEF DipLines
  <2>2. ReplayDiplomacy(dip, line).members = dip.members
    <3>1. \A status \in TreatyStatuses : SetTreaty(dip, line.id, status).members = dip.members
      BY DEF SetTreaty, Diplomacy
    <3> QED
      BY <2>1, <3>1 DEF ReplayDiplomacy, TreatyStatuses
  <2> QED
    BY <2>2 DEF Settled
<1> QED
  BY <1>1, <1>2

LEMMA SettledStart == Init => NobodyStranded
BY DEF Init, NobodyStranded, AllDiplomacy, Blank, SeededDiplomacy

LEMMA SettledKept == TypeOK /\ NobodyStranded /\ [Next]_vars => NobodyStranded'
<1> SUFFICES ASSUME TypeOK, NobodyStranded, [Next]_vars PROVE NobodyStranded'
  OBVIOUS
<1>m. /\ mem \in [dip : Diplomacy, war : Conflict] /\ mem.dip \in Diplomacy
      /\ disk.dip.img \in Diplomacy
      /\ Settled(mem.dip) /\ Settled(disk.dip.img) /\ Settled(disk.dip.base)
  BY DEF TypeOK, Files, NobodyStranded, AllDiplomacy, Settled
<1>f. ASSUME UNCHANGED disk, Settled(mem'.dip) PROVE NobodyStranded'
  BY <1>f, <1>m DEF NobodyStranded, AllDiplomacy, Settled
<1>1. ASSUME UNCHANGED disk, mem'.dip.members = mem.dip.members PROVE NobodyStranded'
  BY <1>1, <1>f, <1>m DEF Settled
<1>2. ASSUME NEW a \in Agents, NEW g \in FactionIds, NEW terms \in TermSets, ProposeTreaty(a, g, terms)
      PROVE  NobodyStranded'
  <2>1. mem'.dip.members = mem.dip.members
    BY <1>2, <1>m DEF ProposeTreaty, SetTreaty, Diplomacy
  <2> QED
    BY <1>1, <1>2, <2>1 DEF ProposeTreaty
<1>3. ASSUME NEW a \in Agents, NEW t \in 1..Len(treaties), SignTreaty(a, t) PROVE NobodyStranded'
  <2>1. mem'.dip.members = mem.dip.members
    BY <1>3, <1>m DEF SignTreaty, SetTreaty, Diplomacy
  <2> QED
    BY <1>1, <1>3, <2>1 DEF SignTreaty
<1>4. ASSUME NEW t \in 1..Len(treaties), BreakTreaty(t) PROVE NobodyStranded'
  <2>1. mem'.dip.members = mem.dip.members
    BY <1>4, <1>m DEF BreakTreaty, SetTreaty, Diplomacy
  <2> QED
    BY <1>1, <1>4, <2>1 DEF BreakTreaty
<1>5. ASSUME NEW a \in Agents, NEW g \in FactionIds, Defect(a, g) PROVE NobodyStranded'
  <2> DEFINE f == FactionOf(mem.dip.members, a)
             line == DefectLine(a, f, g)
  <2>1. f \in FactionIds \cup {NoFaction}
    BY <1>m, FactionFound DEF Diplomacy
  <2>2. line \in DipLines
    BY <2>1, LineTypes
  <2>3. mem'.dip = ReplayDiplomacy(mem.dip, line)
    BY <1>5, <1>m DEF Defect, DefectLine, ReplayDiplomacy
  <2> QED
    BY <1>5, <1>f, <1>m, <2>2, <2>3, ReplaySettled DEF Defect
<1>6. ASSUME NEW thief \in Agents, NEW victim \in Agents, TheftDetected(thief, victim) PROVE NobodyStranded'
  <2>1. mem'.dip.members = mem.dip.members
    BY <1>6, <1>m DEF TheftDetected, Diplomacy
  <2> QED
    BY <1>1, <1>6, <2>1 DEF TheftDetected
<1>7. ASSUME NEW a \in Agents, NEW g \in FactionIds, DeclareWar(a, g) PROVE NobodyStranded'
  <2>1. mem'.dip.members = mem.dip.members
    BY <1>7, <1>m DEF DeclareWar
  <2> QED
    BY <1>1, <1>7, <2>1 DEF DeclareWar
<1>8. ASSUME NEW a \in Agents, NEW w \in 1..Len(wars), SecondWar(a, w) \/ Surrender(a, w) PROVE NobodyStranded'
  <2>1. mem'.dip.members = mem.dip.members
    BY <1>8, <1>m DEF SecondWar, Surrender
  <2> QED
    BY <1>1, <1>8, <2>1 DEF SecondWar, Surrender
<1>9. CASE Write \/ WriteFails
  <2> DEFINE line == Head(queue)
  <2>1. CASE line \in DipLines
    <3>1. /\ UNCHANGED mem
          /\ {disk'.dip.img, disk'.dip.base} \subseteq
                {disk.dip.img, disk.dip.base, ReplayDiplomacy(disk.dip.img, line)}
      BY <1>9, <2>1, AppendStep
    <3>2. Settled(ReplayDiplomacy(disk.dip.img, line))
      BY <1>m, <2>1, ReplaySettled
    <3>3. Settled(disk'.dip.img) /\ Settled(disk'.dip.base) /\ Settled(mem'.dip)
      BY <1>m, <3>1, <3>2
    <3> QED
      BY <3>3 DEF NobodyStranded, AllDiplomacy, Settled
  <2>2. CASE line \in WarLines
    <3>1. UNCHANGED mem /\ disk'.dip = disk.dip
      BY <1>9, <2>2, AppendStep
    <3> QED
      BY <3>1 DEF NobodyStranded, AllDiplomacy
  <2> QED
    BY <1>9, <2>1, <2>2, AppendStep, LineTypes
<1>10. CASE Crash
  BY <1>10, <1>f, <1>m DEF Crash
<1>11. CASE UNCHANGED vars
  BY <1>11 DEF vars, NobodyStranded, AllDiplomacy
<1> QED
  BY <1>2, <1>3, <1>4, <1>5, <1>6, <1>7, <1>8, <1>9, <1>10, <1>11 DEF Next

-----------------------------------------------------------------------------
(* A line that fits what is on record keeps the factions apart and a       *)
(* treaty unknown until it is made.                                        *)
LEMMA DipGoodKept ==
    ASSUME NEW ts, Len(ts) \in Nat, NEW dip \in Diplomacy, NEW line \in DipLines, DipFits(dip, line, ts), DipGood(dip, ts)
    PROVE  DipGood(ReplayDiplomacy(dip, line), ts)
<1>1. CASE line.ev = "defected"
  <2> DEFINE next == MoveMember(dip, line.agent, line.from, line.to)
  <2>0. line.to \in FactionIds
    BY <1>1 DEF DipLines
  <2>1. ReplayDiplomacy(dip, line) = next
    BY <1>1 DEF ReplayDiplomacy
  <2> HIDE DEF next
  <2>2. \A g \in FactionIds : next.members[g] =
              IF g = line.to THEN dip.members[g] \cup {line.agent}
              ELSE IF g = line.from THEN dip.members[g] \ {line.agent} ELSE dip.members[g]
    BY <2>0 DEF next, MoveMember, Diplomacy
  <2>3. DipKnown(next, ts)
    <3>1. next.treaty = dip.treaty
      BY <2>0, Moved DEF next
    <3> QED
      BY <3>1 DEF DipGood, DipKnown
  <2>4. ASSUME NEW g \in FactionIds, line.agent \in dip.members[g] PROVE g = line.from
    <3>1. line.from = FactionOf(dip.members, line.agent)
      BY <1>1 DEF DipFits
    <3>2. line.from \in FactionIds /\ line.agent \in dip.members[line.from]
      BY <2>4, <3>1, FactionFound DEF Diplomacy
    <3> QED
      BY <2>4, <3>2 DEF DipGood, InOneFaction
  <2>5. InOneFaction(next)
    <3> SUFFICES ASSUME NEW f \in FactionIds, NEW g \in FactionIds, f # g,
                        NEW a, a \in next.members[f], a \in next.members[g]
                 PROVE  FALSE
      BY DEF InOneFaction
    <3>1. CASE a = line.agent
      BY <2>0, <2>2, <2>4, <3>1
    <3>2. CASE a # line.agent
      <4>1. a \in dip.members[f] /\ a \in dip.members[g]
        BY <2>2, <3>2
      <4> QED
        BY <4>1 DEF DipGood, InOneFaction
    <3> QED
      BY <3>1, <3>2
  <2> QED
    BY <2>1, <2>3, <2>5 DEF DipGood
<1>2. CASE line.ev # "defected"
  <2>1. line.id \in TreatyIds /\ line.ev \in {"proposed", "signed", "broken"}
    BY <1>2 DEF DipLines
  <2>2. \A status \in TreatyStatuses :
           /\ SetTreaty(dip, line.id, status).members = dip.members
           /\ \A t \in TreatyIds : SetTreaty(dip, line.id, status).treaty[t] =
                 IF t = line.id THEN status ELSE dip.treaty[t]
    BY <2>1 DEF SetTreaty, Diplomacy
  <2>3. CASE line.ev = "proposed"
    <3>1. /\ ReplayDiplomacy(dip, line) = SetTreaty(dip, line.id, "proposed")
          /\ line.id \in 1..Len(ts) /\ Len(ts) \in Nat
      BY <2>3 DEF ReplayDiplomacy, DipFits
    <3>2. InOneFaction(SetTreaty(dip, line.id, "proposed"))
      BY <2>2 DEF DipGood, InOneFaction, TreatyStatuses
    <3>3. DipKnown(SetTreaty(dip, line.id, "proposed"), ts)
      BY <2>2, <3>1 DEF DipGood, DipKnown, TreatyStatuses
    <3> QED
      BY <3>1, <3>2, <3>3 DEF DipGood
  <2>4. ASSUME NEW status \in TreatyStatuses, dip.treaty[line.id] # "none"
        PROVE  DipGood(SetTreaty(dip, line.id, status), ts)
    <3>1. InOneFaction(SetTreaty(dip, line.id, status))
      BY <2>2 DEF DipGood, InOneFaction
    <3>2. DipKnown(SetTreaty(dip, line.id, status), ts)
      BY <2>1, <2>2, <2>4 DEF DipGood, DipKnown
    <3> QED
      BY <3>1, <3>2 DEF DipGood
  <2>5. CASE line.ev = "signed"
    BY <2>4, <2>5 DEF ReplayDiplomacy, TreatyStatuses
  <2>6. CASE line.ev = "broken"
    BY <2>4, <2>6 DEF ReplayDiplomacy, TreatyStatuses
  <2> QED
    BY <2>1, <2>3, <2>5, <2>6
<1> QED
  BY <1>1, <1>2

(* What one war line does to a ledger.                                     *)
LEMMA WarReplay ==
    ASSUME NEW cf \in Conflict, NEW line \in WarLines,
           line.ev # "war_declared" => cf.status[line.id] # "none"
    PROVE  /\ \A w \in WarIds : w # line.id =>
                 /\ ReplayWar(cf, line).status[w] = cf.status[w]
                 /\ ReplayWar(cf, line).seconders[w] = cf.seconders[w]
           /\ line.ev = "war_declared" =>
                 /\ ReplayWar(cf, line).status[line.id] = line.status
                 /\ ReplayWar(cf, line).seconders[line.id] = {line.agent}
           /\ line.ev = "war_seconded" =>
                 /\ ReplayWar(cf, line).status[line.id] = cf.status[line.id]
                 /\ ReplayWar(cf, line).seconders[line.id] = cf.seconders[line.id] \cup {line.agent}
           /\ line.ev = "war_activated" =>
                 /\ ReplayWar(cf, line).status[line.id] = "active"
                 /\ ReplayWar(cf, line).seconders[line.id] = cf.seconders[line.id]
           /\ line.ev = "surrendered" =>
                 /\ ReplayWar(cf, line).status[line.id] = "resolved"
                 /\ ReplayWar(cf, line).seconders[line.id] = cf.seconders[line.id]
<1>1. line.id \in WarIds /\ line.ev \in {"war_declared", "war_seconded", "war_activated", "surrendered"}
  BY DEF WarLines
<1>2. CASE line.ev = "war_declared"
  BY <1>1, <1>2 DEF ReplayWar, AddWar, Conflict
<1>3. CASE line.ev = "war_seconded"
  <2>1. ReplayWar(cf, line) = [cf EXCEPT !.seconders[line.id] = @ \cup {line.agent}]
    BY <1>3 DEF ReplayWar
  <2> QED
    BY <1>1, <1>3, <2>1 DEF Conflict
<1>4. CASE line.ev = "war_activated"
  <2>1. ReplayWar(cf, line) = [cf EXCEPT !.status[line.id] = "active"]
    BY <1>4 DEF ReplayWar
  <2> QED
    BY <1>1, <1>4, <2>1 DEF Conflict
<1>5. CASE line.ev = "surrendered"
  <2>1. ReplayWar(cf, line) = [cf EXCEPT !.status[line.id] = "resolved"]
    BY <1>5 DEF ReplayWar
  <2> QED
    BY <1>1, <1>5, <2>1 DEF Conflict
<1> QED
  BY <1>1, <1>2, <1>3, <1>4, <1>5

(* A line that fits what is on record keeps every war that was active one  *)
(* that has its majority.                                                  *)
LEMMA WarGoodKept ==
    ASSUME NEW ws \in Seq([from : FactionIds, to : FactionIds, size : Nat, quorum : Nat]),
           Len(ws) <= MaxWars,
           NEW cf \in Conflict, NEW line \in WarLines, WarFits(cf, line, ws), WarGood(cf, ws)
    PROVE  WarGood(ReplayWar(cf, line), ws)
<1> DEFINE next == ReplayWar(cf, line)
<1>1. /\ line.id \in 1..Len(ws) /\ line.id \in WarIds /\ Len(ws) \in Nat
      /\ 1..Len(ws) \subseteq WarIds /\ WarIds \subseteq Nat
      /\ line.ev \in {"war_declared", "war_seconded", "war_activated", "surrendered"}
  BY FactionsAssumption DEF WarFits, WarIds, WarLines
<1>0. line.ev # "war_declared" => cf.status[line.id] # "none"
  BY <1>1 DEF WarFits
<1>2. \A w \in WarIds : w # line.id => next.status[w] = cf.status[w] /\ next.seconders[w] = cf.seconders[w]
  BY <1>0, WarReplay
<1>3. next.status[line.id] \in {"active", "resolved"} => Majority(next, ws, line.id)
  <2>1. CASE line.ev = "war_declared"
    <3>1. next.status[line.id] = line.status /\ next.seconders[line.id] = {line.agent}
      BY <1>0, <2>1, WarReplay
    <3>2. line.status \in {"pending", "active"} /\ (line.status = "active" => ws[line.id].size < 2)
      BY <2>1 DEF WarFits
    <3>3. Cardinality({line.agent}) = 1
      BY FS_Singleton
    <3>4. ws[line.id].size \in Nat
      <4> DEFINE W == [from : FactionIds, to : FactionIds, size : Nat, quorum : Nat]
      <4>1. ws \in Seq(W)
        OBVIOUS
      <4>2. \A x \in W : x.size \in Nat
        OBVIOUS
      <4> HIDE DEF W
      <4>3. ws[line.id] \in W
        BY <1>1, <4>1
      <4> QED
        BY <4>2, <4>3
    <3> QED
      BY <3>1, <3>2, <3>3, <3>4 DEF Majority
  <2>2. CASE line.ev = "war_seconded"
    BY <1>0, <2>2, WarReplay DEF WarFits
  <2>3. CASE line.ev = "war_activated"
    <3>1. next.seconders[line.id] = cf.seconders[line.id] /\ Majority(cf, ws, line.id)
      BY <1>0, <2>3, WarReplay DEF WarFits
    <3> QED
      BY <3>1 DEF Majority
  <2>4. CASE line.ev = "surrendered"
    <3>1. next.seconders[line.id] = cf.seconders[line.id] /\ cf.status[line.id] = "active"
      BY <1>0, <2>4, WarReplay DEF WarFits
    <3> QED
      BY <1>1, <3>1 DEF WarGood, Quorate, Majority
  <2> QED
    BY <1>1, <2>1, <2>2, <2>3, <2>4
<1> HIDE DEF next
<1>4. WarKnown(next, ws)
  <2> SUFFICES ASSUME NEW w \in WarIds, w > Len(ws) PROVE next.status[w] = "none"
    BY DEF WarKnown
  <2>1. w # line.id
    BY <1>1
  <2> QED
    BY <1>2, <2>1 DEF WarGood, WarKnown
<1>5. Quorate(next, ws)
  <2> SUFFICES ASSUME NEW w \in 1..Len(ws), next.status[w] \in {"active", "resolved"}
               PROVE  Majority(next, ws, w)
    BY DEF Quorate
  <2>1. CASE w = line.id
    BY <1>3, <2>1
  <2>2. CASE w # line.id
    BY <1>1, <1>2, <2>2 DEF WarGood, Quorate, Majority
  <2> QED
    BY <2>1, <2>2
<1> QED
  BY <1>4, <1>5 DEF WarGood, next

(* Between operations memory is what the files replay to.                  *)
LEMMA IdleMatches ==
    ASSUME TypeOK, Sound, queue = <<>>
    PROVE  mem.dip = disk.dip.img /\ mem.war = disk.war.img
<1>1. Breaks
  <2>1. \A x, y : <<>> # <<x>> /\ <<>> # <<x, y>>
    OBVIOUS
  <2> QED
    BY <2>1 DEF Sound, QueueExplains, OneDipLine, OneWarLine, TwoWarLines
<1>2. mem.dip \in Diplomacy /\ disk.dip.img \in Diplomacy
  BY DEF TypeOK, Files
<1>3. /\ mem.dip.members = disk.dip.img.members
      /\ \A t \in TreatyIds : mem.dip.treaty[t] = disk.dip.img.treaty[t]
  BY <1>1 DEF Breaks
<1>4. mem.dip = disk.dip.img
  BY <1>2, <1>3 DEF Diplomacy
<1> QED
  BY <1>1, <1>4 DEF Breaks

(* The line at the head of the queue fits what is on record.               *)
LEMMA HeadFits ==
    ASSUME TypeOK, Sound, queue # <<>>
    PROVE  \/ Head(queue) \in DipLines /\ DipFits(disk.dip.img, Head(queue), treaties)
           \/ Head(queue) \in WarLines /\ WarFits(disk.war.img, Head(queue), wars)
<1>1. CASE OneDipLine
  BY <1>1 DEF OneDipLine
<1>2. CASE OneWarLine
  BY <1>2 DEF OneWarLine
<1>3. CASE TwoWarLines
  BY <1>3 DEF TwoWarLines
<1>4. CASE Breaks
  <2>1. Head(queue) = queue[1] /\ 1 \in 1..Len(queue) /\ Head(queue) \in Lines
    BY DEF TypeOK
  <2>2. Head(queue).log = "dip" /\ Head(queue).ev = "broken"
    BY <1>4, <2>1 DEF Breaks
  <2>3. Head(queue) \in DipLines
    BY <2>1, <2>2, LineTypes
  <2> QED
    BY <2>2, <2>3 DEF DipFits
<1> QED
  BY <1>1, <1>2, <1>3, <1>4 DEF Sound, QueueExplains

(* An operation on the diplomacy ledger leaves one line.                   *)
LEMMA DipOperation ==
    ASSUME TypeOK, TypeOK', Sound, queue = <<>>, NEW line \in DipLines,
           queue' = <<line>>, mem' = [mem EXCEPT !.dip = ReplayDiplomacy(mem.dip, line)],
           UNCHANGED <<disk, wars>>, treaties' = treaties \/ Len(treaties') = Len(treaties) + 1,
           line.ev = "proposed" => Len(treaties') = Len(treaties) + 1 /\ line.id = Len(treaties'),
           line.ev = "defected" => line.from = FactionOf(mem.dip.members, line.agent)
    PROVE  Sound'
<1>1. /\ mem.dip = disk.dip.img /\ mem.war = disk.war.img /\ mem.dip \in Diplomacy
      /\ mem \in [dip : Diplomacy, war : Conflict]
      /\ Len(treaties) \in Nat /\ Len(treaties') \in Nat
  BY IdleMatches DEF TypeOK
<1>2. mem'.dip = ReplayDiplomacy(mem.dip, line) /\ mem'.war = mem.war
  BY <1>1
<1>3. DipGood(mem.dip, treaties')
  <2>1. DipGood(mem.dip, treaties)
    BY DEF Sound
  <2>2. Len(treaties') >= Len(treaties)
    BY <1>1
  <2>3. DipKnown(mem.dip, treaties')
    BY <1>1, <2>1, <2>2 DEF DipGood, DipKnown, TreatyIds
  <2> QED
    BY <2>1, <2>3 DEF DipGood
<1>4. DipFits(mem.dip, line, treaties')
  <2>1. CASE line.ev = "proposed"
    <3>1. line.id \in TreatyIds /\ line.id > Len(treaties) /\ line.id \in 1..Len(treaties')
      BY <1>1, <2>1 DEF DipLines
    <3>2. mem.dip.treaty[line.id] = "none"
      BY <3>1 DEF Sound, DipGood, DipKnown
    <3> QED
      BY <2>1, <3>1, <3>2 DEF DipFits
  <2>2. CASE line.ev # "proposed"
    BY <1>1, <2>2 DEF DipFits
  <2> QED
    BY <2>1, <2>2
<1>5. DipGood(mem'.dip, treaties')
  BY <1>1, <1>2, <1>3, <1>4, DipGoodKept
<1>6. OneDipLine'
  BY <1>1, <1>2, <1>4 DEF OneDipLine
<1> QED
  BY <1>1, <1>2, <1>3, <1>5, <1>6 DEF Sound, QueueExplains

(* An operation on the wars leaves one line or two.                        *)
LEMMA WarOperation ==
    ASSUME TypeOK, TypeOK', Sound, queue = <<>>, UNCHANGED <<disk, treaties>>,
           wars' = wars \/ \E war : wars' = Append(wars, war),
           mem'.dip = mem.dip, NEW first \in WarLines, WarFits(mem.war, first, wars'),
           NEW middle, middle = ReplayWar(mem.war, first),
           \/ queue' = <<first>> /\ mem'.war = middle
           \/ \E second \in WarLines :
                 /\ queue' = <<first, second>> /\ WarFits(middle, second, wars')
                 /\ mem'.war = ReplayWar(middle, second)
    PROVE  Sound'
<1> DEFINE W == [from : FactionIds, to : FactionIds, size : Nat, quorum : Nat]
<1>1. /\ mem.dip = disk.dip.img /\ mem.war = disk.war.img /\ mem.war \in Conflict
      /\ wars \in Seq(W) /\ wars' \in Seq(W) /\ Len(wars') <= MaxWars
  BY IdleMatches DEF TypeOK
<1>2. WarGood(mem.war, wars')
  <2> HIDE DEF W
  <2>1. WarGood(mem.war, wars)
    BY DEF Sound
  <2>2. CASE wars' = wars
    BY <2>1, <2>2
  <2>3. ASSUME NEW war, wars' = Append(wars, war) PROVE WarGood(mem.war, wars')
    <3>1. /\ Len(wars) \in Nat /\ Len(wars') = Len(wars) + 1
          /\ \A w \in 1..Len(wars) : wars'[w] = wars[w]
      BY <1>1, <2>3
    <3>2. Len(wars') \in WarIds /\ WarIds \subseteq Nat
      BY <1>1, <3>1, FactionsAssumption DEF WarIds
    <3>3. WarKnown(mem.war, wars')
      BY <2>1, <3>1, <3>2 DEF WarGood, WarKnown
    <3>4. mem.war.status[Len(wars')] = "none"
      BY <2>1, <3>1, <3>2 DEF WarGood, WarKnown
    <3>5. Quorate(mem.war, wars')
      BY <2>1, <3>1, <3>4 DEF WarGood, Quorate, Majority
    <3> QED
      BY <3>3, <3>5 DEF WarGood
  <2> QED
    BY <2>2, <2>3
<1>3. middle \in Conflict /\ WarGood(middle, wars')
  BY <1>1, <1>2, WarReplayType, WarGoodKept
<1>4. CASE queue' = <<first>> /\ mem'.war = middle
  <2>1. OneWarLine'
    BY <1>1, <1>4 DEF OneWarLine
  <2> QED
    BY <1>1, <1>2, <1>3, <1>4, <2>1 DEF Sound, QueueExplains
<1>5. ASSUME NEW second \in WarLines, queue' = <<first, second>>, WarFits(middle, second, wars'),
             mem'.war = ReplayWar(middle, second)
      PROVE  Sound'
  <2>1. WarGood(mem'.war, wars')
    BY <1>1, <1>3, <1>5, WarGoodKept
  <2>2. TwoWarLines'
    BY <1>1, <1>5 DEF TwoWarLines
  <2> QED
    BY <1>1, <1>2, <2>1, <2>2 DEF Sound, QueueExplains
<1> QED
  BY <1>4, <1>5

(* The quorum is more than half of the faction.                            *)
LEMMA QuorumIsMajority ==
    ASSUME NEW n \in Nat
    PROVE  /\ RequiredQuorum(n) \in Nat \ {0} /\ 2 * RequiredQuorum(n) > n
           /\ 1 >= RequiredQuorum(n) => n < 2
BY DEF RequiredQuorum

LEMMA QuorumKept == TypeOK /\ QuorumFixed /\ [Next]_vars => QuorumFixed'
<1> SUFFICES ASSUME TypeOK, QuorumFixed, [Next]_vars PROVE QuorumFixed'
  OBVIOUS
<1>1. ASSUME NEW a \in Agents, NEW g \in FactionIds, DeclareWar(a, g) PROVE QuorumFixed'
  <2> DEFINE size == Cardinality(mem.dip.members[FactionOf(mem.dip.members, a)])
             war == [from |-> FactionOf(mem.dip.members, a), to |-> g, size |-> size,
                     quorum |-> RequiredQuorum(size)]
  <2>1. wars' = Append(wars, war)
    BY <1>1 DEF DeclareWar
  <2>2. war.quorum = RequiredQuorum(war.size)
    OBVIOUS
  <2> HIDE DEF war
  <2>3. /\ Len(wars) \in Nat /\ Len(wars') = Len(wars) + 1 /\ wars'[Len(wars) + 1] = war
        /\ \A w \in 1..Len(wars) : wars'[w] = wars[w]
    BY <2>1 DEF TypeOK
  <2> QED
    BY <2>2, <2>3 DEF QuorumFixed
<1>2. CASE UNCHANGED wars
  BY <1>2 DEF QuorumFixed
<1>3. ASSUME NEW a \in Agents, NEW g \in FactionIds, NEW terms \in TermSets, ProposeTreaty(a, g, terms)
      PROVE  UNCHANGED wars
  BY <1>3 DEF ProposeTreaty
<1>4. ASSUME NEW a \in Agents, NEW t \in 1..Len(treaties), SignTreaty(a, t) PROVE UNCHANGED wars
  BY <1>4 DEF SignTreaty, contents
<1>5. ASSUME NEW t \in 1..Len(treaties), BreakTreaty(t) PROVE UNCHANGED wars
  BY <1>5 DEF BreakTreaty, contents
<1>6. ASSUME NEW a \in Agents, NEW g \in FactionIds, Defect(a, g) PROVE UNCHANGED wars
  BY <1>6 DEF Defect
<1>7. ASSUME NEW thief \in Agents, NEW victim \in Agents, TheftDetected(thief, victim) PROVE UNCHANGED wars
  BY <1>7 DEF TheftDetected, contents
<1>8. ASSUME NEW a \in Agents, NEW w \in 1..Len(wars), SecondWar(a, w) \/ Surrender(a, w) PROVE UNCHANGED wars
  BY <1>8 DEF SecondWar, Surrender, contents
<1>9. CASE Write \/ WriteFails \/ Crash \/ UNCHANGED vars
  BY <1>2, <1>9 DEF Write, WriteFails, Crash, contents, vars
<1> QED
  BY <1>1, <1>2, <1>3, <1>4, <1>5, <1>6, <1>7, <1>8, <1>9 DEF Next

LEMMA SoundStart == Init => Sound
<1> SUFFICES ASSUME Init PROVE Sound
  OBVIOUS
<1>1. /\ mem.dip = SeededDiplomacy /\ mem.war = NoConflict
      /\ disk.dip = Blank(SeededDiplomacy) /\ disk.war = Blank(NoConflict)
      /\ treaties = <<>> /\ wars = <<>> /\ queue = <<>>
  BY DEF Init
<1>2. disk.dip.img = SeededDiplomacy /\ disk.war.img = NoConflict
  BY <1>1 DEF Blank
<1>3. DipGood(SeededDiplomacy, <<>>)
  BY SeedsAssumption DEF DipGood, DipKnown, InOneFaction, SeededDiplomacy
<1>4. WarGood(NoConflict, <<>>)
  BY DEF WarGood, WarKnown, Quorate, NoConflict
<1>5. Breaks
  BY <1>1, <1>2 DEF Breaks
<1> QED
  BY <1>1, <1>2, <1>3, <1>4, <1>5 DEF Sound, QueueExplains

(* While appends work, writing the next line moves the file one step       *)
(* closer to memory.                                                       *)
LEMMA SoundAppend ==
    ASSUME TypeOK, TypeOK', Sound, Write \/ WriteFails, faults' = 0
    PROVE  Sound'
<1> DEFINE line == Head(queue)
<1>1. /\ queue # <<>> /\ queue' = Tail(queue) /\ line \in Lines
      /\ mem' = mem /\ treaties' = treaties /\ wars' = wars
  BY AppendStep DEF contents
<1>2. /\ disk.dip = Blank(disk.dip.img) /\ disk.war = Blank(disk.war.img)
      /\ disk.dip.img \in Diplomacy /\ disk.war.img \in Conflict
      /\ wars \in Seq([from : FactionIds, to : FactionIds, size : Nat, quorum : Nat])
      /\ Len(wars) <= MaxWars /\ Len(treaties) \in Nat
  BY DEF Sound, TypeOK, Files
<1>3. CASE OneDipLine
  <2>1. PICK l \in DipLines :
           /\ queue = <<l>> /\ DipFits(disk.dip.img, l, treaties)
           /\ mem.dip = ReplayDiplomacy(disk.dip.img, l) /\ mem.war = disk.war.img
    BY <1>3 DEF OneDipLine
  <2>2. line = l /\ queue' = <<>>
    BY <1>1, <2>1
  <2>3. disk'.war = disk.war /\ disk'.dip = Blank(mem.dip) /\ disk'.dip.img = mem.dip
    BY <1>2, <2>1, <2>2, AppendStep DEF Blank
  <2>4. Breaks'
    BY <1>1, <2>1, <2>2, <2>3 DEF Breaks
  <2> QED
    BY <1>1, <1>2, <2>1, <2>3, <2>4 DEF Sound, QueueExplains
<1>4. CASE OneWarLine
  <2>1. PICK l \in WarLines :
           /\ queue = <<l>> /\ WarFits(disk.war.img, l, wars)
           /\ mem.war = ReplayWar(disk.war.img, l) /\ mem.dip = disk.dip.img
    BY <1>4 DEF OneWarLine
  <2>2. line = l /\ queue' = <<>>
    BY <1>1, <2>1
  <2>3. disk'.dip = disk.dip /\ disk'.war = Blank(mem.war) /\ disk'.war.img = mem.war
    BY <1>2, <2>1, <2>2, AppendStep DEF Blank
  <2>4. Breaks'
    BY <1>1, <2>1, <2>2, <2>3 DEF Breaks
  <2> QED
    BY <1>1, <1>2, <2>1, <2>3, <2>4 DEF Sound, QueueExplains
<1>5. CASE TwoWarLines
  <2>1. PICK l \in WarLines, second \in WarLines :
           /\ queue = <<l, second>> /\ WarFits(disk.war.img, l, wars)
           /\ WarFits(ReplayWar(disk.war.img, l), second, wars)
           /\ mem.war = ReplayWar(ReplayWar(disk.war.img, l), second) /\ mem.dip = disk.dip.img
    BY <1>5 DEF TwoWarLines
  <2>2. line = l /\ queue' = <<second>>
    BY <1>1, <2>1
  <2> DEFINE next == ReplayWar(disk.war.img, l)
  <2>3. disk'.dip = disk.dip /\ disk'.war = Blank(next) /\ disk'.war.img = next
    BY <1>2, <2>1, <2>2, AppendStep DEF Blank
  <2>4. WarGood(next, wars)
    BY <1>2, <2>1, WarGoodKept DEF Sound
  <2>5. OneWarLine'
    BY <1>1, <2>1, <2>2, <2>3 DEF OneWarLine
  <2> HIDE DEF next
  <2> QED
    BY <1>1, <1>2, <2>3, <2>4, <2>5 DEF Sound, QueueExplains
<1>6. CASE Breaks
  <2>1. /\ line = queue[1] /\ 1 \in 1..Len(queue) /\ Len(queue) \in Nat
        /\ Len(queue') = Len(queue) - 1 /\ \A i \in 1..Len(queue') : queue'[i] = queue[i + 1]
    BY <1>1 DEF TypeOK
  <2>2. /\ line.log = "dip" /\ line.ev = "broken" /\ line.id \in TreatyIds
        /\ disk.dip.img.treaty[line.id] = "active"
    BY <1>6, <2>1 DEF Breaks
  <2>3. line \in DipLines
    BY <1>1, <2>2, LineTypes
  <2> DEFINE next == ReplayDiplomacy(disk.dip.img, line)
  <2>4. disk'.war = disk.war /\ disk'.dip = Blank(next) /\ disk'.dip.img = next
    BY <1>2, <2>3, AppendStep DEF Blank
  <2>5. /\ next.members = disk.dip.img.members
        /\ \A t \in TreatyIds :
              next.treaty[t] = IF t = line.id THEN "broken" ELSE disk.dip.img.treaty[t]
    BY <1>2, <2>2 DEF ReplayDiplomacy, SetTreaty, Diplomacy
  <2>6. DipGood(next, treaties)
    BY <1>2, <2>2, <2>3, DipGoodKept DEF Sound, DipFits
  <2> HIDE DEF next, line
  <2>7. Breaks'
    <3>1. ASSUME NEW i \in 1..Len(queue')
          PROVE  /\ i + 1 \in 1..Len(queue) /\ i + 1 # 1 /\ queue'[i] = queue[i + 1]
                 /\ queue'[i].log = "dip" /\ queue'[i].ev = "broken" /\ queue'[i].id \in TreatyIds
                 /\ queue'[i].id # line.id /\ next.treaty[queue'[i].id] = "active"
      <4>1. i + 1 \in 1..Len(queue) /\ i + 1 # 1 /\ queue'[i] = queue[i + 1]
        BY <2>1
      <4>2. queue[i + 1].id # line.id
        BY <1>6, <2>1, <4>1 DEF Breaks
      <4> QED
        BY <1>6, <2>5, <4>1, <4>2 DEF Breaks
    <3>2. ASSUME NEW i \in 1..Len(queue'), NEW j \in 1..Len(queue'), i # j
          PROVE  queue'[i].id # queue'[j].id
      <4>1. i + 1 # j + 1
        BY <3>2
      <4> QED
        BY <1>6, <3>1, <4>1 DEF Breaks
    <3>3. mem.dip.members = next.members /\ mem.war = disk.war.img
      BY <1>6, <2>5 DEF Breaks
    <3>4. ASSUME NEW t \in TreatyIds
          PROVE  mem.dip.treaty[t] = IF \E i \in 1..Len(queue') : queue'[i].id = t
                                       THEN "broken" ELSE next.treaty[t]
      <4>0. mem.dip.treaty[t] = IF \E i \in 1..Len(queue) : queue[i].id = t
                                  THEN "broken" ELSE disk.dip.img.treaty[t]
        BY <1>6 DEF Breaks
      <4>1. CASE t = line.id
        <5>1. mem.dip.treaty[t] = "broken"
          BY <2>1, <4>0, <4>1
        <5> QED
          BY <2>5, <3>1, <4>1, <5>1
      <4>2. CASE t # line.id
        <5>1. (\E i \in 1..Len(queue) : queue[i].id = t) <=> \E i \in 1..Len(queue') : queue'[i].id = t
          <6>1. ASSUME NEW i \in 1..Len(queue), queue[i].id = t
                PROVE  i - 1 \in 1..Len(queue') /\ queue'[i - 1].id = t
            <7>1. i # 1
              BY <2>1, <4>2, <6>1
            <7>2. i - 1 \in 1..Len(queue') /\ queue'[i - 1] = queue[i]
              BY <2>1, <7>1
            <7> QED
              BY <6>1, <7>2
          <6> QED
            BY <3>1, <6>1
        <5> QED
          BY <2>5, <4>0, <4>2, <5>1
      <4> QED
        BY <4>1, <4>2
    <3> QED
      BY <1>1, <2>4, <3>1, <3>2, <3>3, <3>4 DEF Breaks
  <2> QED
    BY <1>1, <1>2, <2>4, <2>6, <2>7 DEF Sound, QueueExplains
<1> QED
  BY <1>3, <1>4, <1>5, <1>6 DEF Sound, QueueExplains

(* A detected theft leaves one "broken" line for each treaty it breaks.    *)
LEMMA SoundTheft ==
    ASSUME TypeOK, TypeOK', Sound, NEW thief \in Agents, NEW victim \in Agents,
           TheftDetected(thief, victim)
    PROVE  Sound'
<1> DEFINE breached == Pacts(mem.dip, FactionOf(mem.dip.members, thief), FactionOf(mem.dip.members, victim))
           after == [t \in TreatyIds |-> IF t \in breached THEN "broken" ELSE mem.dip.treaty[t]]
<1>1. /\ queue = <<>> /\ UNCHANGED <<disk, treaties, wars>>
      /\ mem' = [mem EXCEPT !.dip.treaty = after]
  BY DEF TheftDetected, Idle, contents
<1>2. /\ breached \subseteq 1..Len(treaties) /\ 1..Len(treaties) \subseteq TreatyIds
      /\ \A t \in breached : mem.dip.treaty[t] = "active"
      /\ Len(treaties) \in Nat
  BY FactionsAssumption DEF Pacts, TypeOK, TreatyIds
<1>3. Cardinality(breached) \in Nat
  <2>1. IsFiniteSet(1..Len(treaties))
    BY <1>2, FS_Interval
  <2> HIDE DEF breached
  <2> QED
    BY <1>2, <2>1, FS_Subset, FS_CardinalityType
<1>4. \E order \in InOrder(breached) : queue' = [i \in DOMAIN order |-> TreatyLine("broken", order[i])]
  BY DEF TheftDetected
<1> HIDE DEF breached
<1>5. PICK order \in InOrder(breached) : queue' = [i \in DOMAIN order |-> TreatyLine("broken", order[i])]
  BY <1>4
<1>6. /\ DOMAIN order = 1..Cardinality(breached)
      /\ {order[i] : i \in DOMAIN order} = breached
      /\ \A i, j \in DOMAIN order : i # j => order[i] # order[j]
  <2>1. /\ order \in [1..Cardinality(breached) -> breached]
        /\ {order[i] : i \in DOMAIN order} = breached
        /\ \A i, j \in DOMAIN order : i < j => order[i] < order[j]
    BY DEF InOrder
  <2>2. \A i \in DOMAIN order : order[i] \in Nat
    <3>1. breached \subseteq Nat
      BY <1>2
    <3> QED
      BY <2>1, <3>1
  <2> QED
    BY <1>3, <2>1, <2>2
<1>7. /\ Len(queue') = Cardinality(breached)
      /\ \A i \in 1..Len(queue') : /\ queue'[i].log = "dip" /\ queue'[i].ev = "broken"
                                   /\ queue'[i].id = order[i]
  BY <1>3, <1>5, <1>6 DEF TreatyLine
<1>8. /\ mem.dip = disk.dip.img /\ mem.war = disk.war.img /\ mem.dip \in Diplomacy
      /\ mem \in [dip : Diplomacy, war : Conflict]
  BY <1>1, IdleMatches DEF TypeOK
<1>9. mem'.war = mem.war /\ mem'.dip.members = mem.dip.members /\ mem'.dip.treaty = after
  BY <1>1, <1>8 DEF Diplomacy
<1> HIDE DEF after
<1>10. \A t \in TreatyIds : mem'.dip.treaty[t] = IF t \in breached THEN "broken" ELSE mem.dip.treaty[t]
  BY <1>9 DEF after
<1>11. Breaks'
  <2>1. \A i \in 1..Len(queue') :
           /\ queue'[i].log = "dip" /\ queue'[i].ev = "broken" /\ queue'[i].id \in TreatyIds
           /\ disk'.dip.img.treaty[queue'[i].id] = "active"
    BY <1>1, <1>2, <1>6, <1>7, <1>8
  <2>2. \A i, j \in 1..Len(queue') : i # j => queue'[i].id # queue'[j].id
    BY <1>6, <1>7
  <2>3. \A t \in TreatyIds : (\E i \in 1..Len(queue') : queue'[i].id = t) <=> t \in breached
    BY <1>6, <1>7
  <2>4. \A t \in TreatyIds :
           mem'.dip.treaty[t] = IF \E i \in 1..Len(queue') : queue'[i].id = t
                                  THEN "broken" ELSE disk'.dip.img.treaty[t]
    BY <1>1, <1>8, <1>10, <2>3
  <2> QED
    BY <1>1, <1>8, <1>9, <2>1, <2>2, <2>4 DEF Breaks
<1>12. DipGood(mem'.dip, treaties)
  <2>1. DipGood(mem.dip, treaties)
    BY DEF Sound
  <2>2. DipKnown(mem'.dip, treaties)
    BY <1>2, <1>10, <2>1 DEF DipGood, DipKnown
  <2> QED
    BY <1>9, <2>1, <2>2 DEF DipGood, InOneFaction
<1> QED
  BY <1>1, <1>9, <1>11, <1>12 DEF Sound, QueueExplains

(* Every operation, write and crash, while appends work.                   *)
LEMMA SoundKept ==
    ASSUME TypeOK, TypeOK', QuorumFixed, SoundWhileAppendsWork, [Next]_vars
    PROVE  SoundWhileAppendsWork'
<1> SUFFICES ASSUME faults' = 0 PROVE Sound'
  BY DEF SoundWhileAppendsWork
<1>m. /\ mem \in [dip : Diplomacy, war : Conflict]
      /\ mem.dip \in Diplomacy /\ mem.war \in Conflict
      /\ Len(treaties) \in Nat /\ Len(wars) \in Nat
      /\ 1..Len(treaties) \subseteq TreatyIds /\ 1..Len(wars) \subseteq WarIds
  BY FactionsAssumption DEF TypeOK, TreatyIds, WarIds
<1>s. ASSUME UNCHANGED faults PROVE Sound
  BY <1>s DEF SoundWhileAppendsWork
<1>1. ASSUME NEW a \in Agents, NEW g \in FactionIds, NEW terms \in TermSets, ProposeTreaty(a, g, terms)
      PROVE  Sound'
  <2> DEFINE line == TreatyLine("proposed", Len(treaties) + 1)
  <2>1. /\ Sound /\ queue = <<>> /\ UNCHANGED <<disk, wars>>
        /\ Len(treaties') = Len(treaties) + 1 /\ queue' = <<line>>
    BY <1>1, <1>s DEF ProposeTreaty, Idle, TypeOK
  <2>2. line \in DipLines
    BY <1>1, <1>m, LineTypes DEF ProposeTreaty, TreatyIds
  <2>3. line.ev = "proposed" /\ line.id = Len(treaties) + 1
    BY DEF TreatyLine
  <2>4. mem' = [mem EXCEPT !.dip = ReplayDiplomacy(mem.dip, line)]
    BY <1>1, <2>3 DEF ProposeTreaty, ReplayDiplomacy
  <2> HIDE DEF line
  <2> QED
    BY <2>1, <2>2, <2>3, <2>4, DipOperation
<1>2. ASSUME NEW a \in Agents, NEW t \in 1..Len(treaties), SignTreaty(a, t) PROVE Sound'
  <2> DEFINE line == TreatyLine("signed", t)
  <2>1. Sound /\ queue = <<>> /\ UNCHANGED <<disk, wars, treaties>> /\ queue' = <<line>>
    BY <1>2, <1>s DEF SignTreaty, Idle, contents
  <2>2. line \in DipLines
    BY <1>m, LineTypes
  <2>3. line.ev = "signed" /\ line.id = t
    BY DEF TreatyLine
  <2>4. mem' = [mem EXCEPT !.dip = ReplayDiplomacy(mem.dip, line)]
    BY <1>2, <2>3 DEF SignTreaty, ReplayDiplomacy
  <2> HIDE DEF line
  <2> QED
    BY <2>1, <2>2, <2>3, <2>4, DipOperation
<1>3. ASSUME NEW t \in 1..Len(treaties), BreakTreaty(t) PROVE Sound'
  <2> DEFINE line == TreatyLine("broken", t)
  <2>1. Sound /\ queue = <<>> /\ UNCHANGED <<disk, wars, treaties>> /\ queue' = <<line>>
    BY <1>3, <1>s DEF BreakTreaty, Idle, contents
  <2>2. line \in DipLines
    BY <1>m, LineTypes
  <2>3. line.ev = "broken" /\ line.id = t
    BY DEF TreatyLine
  <2>4. mem' = [mem EXCEPT !.dip = ReplayDiplomacy(mem.dip, line)]
    BY <1>3, <2>3 DEF BreakTreaty, ReplayDiplomacy
  <2> HIDE DEF line
  <2> QED
    BY <2>1, <2>2, <2>3, <2>4, DipOperation
<1>4. ASSUME NEW a \in Agents, NEW g \in FactionIds, Defect(a, g) PROVE Sound'
  <2> DEFINE f == FactionOf(mem.dip.members, a)
             line == DefectLine(a, f, g)
  <2>1. Sound /\ queue = <<>> /\ UNCHANGED <<disk, wars, treaties>> /\ queue' = <<line>>
    BY <1>4, <1>s DEF Defect, Idle
  <2>2. line \in DipLines
    BY <1>m, FactionFound, LineTypes DEF Diplomacy
  <2>3. line.ev = "defected" /\ line.agent = a /\ line.from = f /\ line.to = g
    BY DEF DefectLine
  <2>4. mem' = [mem EXCEPT !.dip = ReplayDiplomacy(mem.dip, line)]
    BY <1>4, <2>3 DEF Defect, ReplayDiplomacy
  <2> HIDE DEF line
  <2> QED
    BY <2>1, <2>2, <2>3, <2>4, DipOperation
<1>5. ASSUME NEW thief \in Agents, NEW victim \in Agents, TheftDetected(thief, victim) PROVE Sound'
  <2>1. Sound
    BY <1>5, <1>s DEF TheftDetected
  <2> QED
    BY <1>5, <2>1, SoundTheft
<1>6. ASSUME NEW a \in Agents, NEW g \in FactionIds, DeclareWar(a, g) PROVE Sound'
  <2> DEFINE w == Len(wars) + 1
             size == Cardinality(mem.dip.members[FactionOf(mem.dip.members, a)])
             status == IF 1 >= RequiredQuorum(size) THEN "active" ELSE "pending"
             first == WarLine("war_declared", w, a, status)
             second == WarLine("war_activated", w, a, status)
             war == [from |-> FactionOf(mem.dip.members, a), to |-> g, size |-> size,
                     quorum |-> RequiredQuorum(size)]
             middle == ReplayWar(mem.war, first)
  <2>1. /\ Sound /\ queue = <<>> /\ UNCHANGED <<disk, treaties>> /\ wars' = Append(wars, war)
        /\ mem' = [mem EXCEPT !.war = AddWar(mem.war, w, a, status)]
        /\ queue' = IF status = "active" THEN <<first, second>> ELSE <<first>>
    BY <1>6, <1>s DEF DeclareWar, Idle
  <2>2. w \in WarIds /\ w \in 1..Len(wars') /\ wars'[w] = war /\ w > Len(wars)
    <3> HIDE DEF war
    <3>1. wars \in Seq([from : FactionIds, to : FactionIds, size : Nat, quorum : Nat]) /\ w <= MaxWars
      BY <1>6 DEF DeclareWar, TypeOK
    <3> QED
      BY <1>m, <2>1, <3>1, FactionsAssumption DEF WarIds
  <2>3. size \in Nat
    <3>1. FactionOf(mem.dip.members, a) \in FactionIds
      BY <1>6, <1>m, FactionFound DEF DeclareWar, Diplomacy
    <3>2. mem.dip.members[FactionOf(mem.dip.members, a)] \in SUBSET Agents
      BY <1>m, <3>1 DEF Diplomacy
    <3> QED
      BY <3>2, Counted
  <2>4. wars'[w].size = size
    BY <2>2
  <2>5. status \in {"pending", "active"} /\ (status = "active" => size < 2)
    <3> HIDE DEF size
    <3> QED
      BY <2>3, QuorumIsMajority
  <2> HIDE DEF war, size, status
  <2>6. first \in WarLines /\ second \in WarLines
    BY <2>2, <2>5, LineTypes DEF WarStatuses
  <2>7. /\ first.ev = "war_declared" /\ first.id = w /\ first.agent = a /\ first.status = status
        /\ second.ev = "war_activated" /\ second.id = w
    BY DEF WarLine
  <2> HIDE DEF first, second
  <2>8. mem.war.status[w] = "none"
    BY <2>1, <2>2 DEF Sound, WarGood, WarKnown
  <2>9. WarFits(mem.war, first, wars')
    BY <2>2, <2>4, <2>5, <2>7, <2>8 DEF WarFits
  <2>10. middle = AddWar(mem.war, w, a, status)
    BY <2>7 DEF ReplayWar
  <2>11. mem'.war = middle /\ mem'.dip = mem.dip
    BY <1>m, <2>1, <2>10
  <2>12. ASSUME status = "active"
         PROVE  WarFits(middle, second, wars') /\ mem'.war = ReplayWar(middle, second)
    <3>1. middle.status[w] = "active" /\ middle.seconders[w] = {a}
      BY <1>m, <2>2, <2>10, <2>12 DEF AddWar, Conflict
    <3>2. Majority(middle, wars', w)
      <4>1. Cardinality({a}) = 1
        BY FS_Singleton
      <4> QED
        BY <2>3, <2>4, <2>5, <2>12, <3>1, <4>1 DEF Majority
    <3>3. ReplayWar(middle, second) = [middle EXCEPT !.status[w] = "active"]
      BY <2>7, <3>1 DEF ReplayWar
    <3>4. middle \in Conflict
      BY <1>m, <2>6, WarReplayType
    <3>5. [middle EXCEPT !.status[w] = "active"] = middle
      BY <2>2, <3>1, <3>4 DEF Conflict
    <3> QED
      BY <2>2, <2>7, <2>11, <3>1, <3>2, <3>3, <3>5 DEF WarFits
  <2> HIDE DEF middle
  <2>13. middle = ReplayWar(mem.war, first)
    BY DEF middle
  <2>14. CASE status = "active"
    BY <2>1, <2>6, <2>9, <2>11, <2>12, <2>13, <2>14, WarOperation
  <2>15. CASE status # "active"
    BY <2>1, <2>6, <2>9, <2>11, <2>13, <2>15, WarOperation
  <2> QED
    BY <2>14, <2>15
<1>7. ASSUME NEW a \in Agents, NEW w \in 1..Len(wars), SecondWar(a, w) PROVE Sound'
  <2> DEFINE seconders == mem.war.seconders[w] \cup {a}
             status == IF Cardinality(seconders) >= wars[w].quorum THEN "active" ELSE "pending"
             first == WarLine("war_seconded", w, a, status)
             second == WarLine("war_activated", w, a, status)
             middle == ReplayWar(mem.war, first)
  <2>1. /\ Sound /\ queue = <<>> /\ UNCHANGED <<disk, treaties, wars>>
        /\ mem' = [mem EXCEPT !.war.seconders[w] = seconders, !.war.status[w] = status]
        /\ queue' = IF status = "active" THEN <<first, second>> ELSE <<first>>
        /\ mem.war.status[w] = "pending"
    BY <1>7, <1>s DEF SecondWar, Idle, contents
  <2>2. w \in WarIds
    BY <1>m
  <2>3. seconders \in SUBSET Agents
    BY <1>m, <2>2 DEF Conflict
  <2>4. status = "active" => 2 * Cardinality(seconders) > wars[w].size
    <3> HIDE DEF seconders
    <3>1. Cardinality(seconders) \in Nat
      BY <2>3, Counted
    <3>2. wars[w].size \in Nat
      <4> DEFINE W == [from : FactionIds, to : FactionIds, size : Nat, quorum : Nat]
      <4>1. \A x \in W : x.size \in Nat
        OBVIOUS
      <4>2. wars \in Seq(W)
        BY DEF TypeOK
      <4> HIDE DEF W
      <4> QED
        BY <4>1, <4>2
    <3>3. wars[w].quorum = RequiredQuorum(wars[w].size)
      BY DEF QuorumFixed
    <3>4. wars[w].quorum \in Nat /\ 2 * wars[w].quorum > wars[w].size
      BY <3>2, <3>3, QuorumIsMajority
    <3> DEFINE c == Cardinality(seconders)
               q == wars[w].quorum
               n == wars[w].size
    <3>5. status = "active" => c >= q
      OBVIOUS
    <3> HIDE DEF c, q, n, status
    <3>6. c \in Nat /\ q \in Nat /\ n \in Nat /\ 2 * q > n
      BY <3>1, <3>2, <3>4 DEF c, q, n
    <3>7. status = "active" => 2 * c > n
      BY <3>5, <3>6
    <3> QED
      BY <3>7 DEF c, n
  <2>5. status \in {"pending", "active"}
    OBVIOUS
  <2> HIDE DEF status
  <2>6. first \in WarLines /\ second \in WarLines
    BY <2>2, <2>5, LineTypes DEF WarStatuses
  <2>7. /\ first.ev = "war_seconded" /\ first.id = w /\ first.agent = a
        /\ second.ev = "war_activated" /\ second.id = w
    BY DEF WarLine
  <2> HIDE DEF first, second
  <2>8. WarFits(mem.war, first, wars')
    BY <2>1, <2>7 DEF WarFits
  <2>9. middle = [mem.war EXCEPT !.seconders[w] = seconders]
    BY <2>1, <2>7 DEF ReplayWar
  <2>10. middle.status[w] = "pending" /\ middle.seconders[w] = seconders /\ middle \in Conflict
    BY <1>m, <2>1, <2>2, <2>3, <2>9 DEF Conflict
  <2>11. /\ mem'.dip = mem.dip
         /\ mem'.war = [mem.war EXCEPT !.seconders[w] = seconders, !.status[w] = status]
    BY <1>m, <2>1
  <2>12. mem'.war = [middle EXCEPT !.status[w] = status]
    <3> HIDE DEF seconders
    <3> QED
      BY <1>m, <2>9, <2>11 DEF Conflict
  <2>13. CASE status = "active"
    <3>1. WarFits(middle, second, wars')
      BY <2>1, <2>4, <2>7, <2>10, <2>13 DEF WarFits, Majority
    <3>2. mem'.war = ReplayWar(middle, second)
      BY <2>7, <2>10, <2>12, <2>13 DEF ReplayWar
    <3> HIDE DEF middle
    <3>3. middle = ReplayWar(mem.war, first)
      BY DEF middle
    <3> QED
      BY <2>1, <2>6, <2>8, <2>11, <2>13, <3>1, <3>2, <3>3, WarOperation
  <2>14. CASE status = "pending"
    <3>1. mem'.war = middle
      BY <2>2, <2>10, <2>12, <2>14 DEF Conflict
    <3> HIDE DEF middle
    <3>2. middle = ReplayWar(mem.war, first)
      BY DEF middle
    <3> QED
      BY <2>1, <2>6, <2>8, <2>11, <2>14, <3>1, <3>2, WarOperation
  <2> QED
    BY <2>5, <2>13, <2>14
<1>8. ASSUME NEW a \in Agents, NEW w \in 1..Len(wars), Surrender(a, w) PROVE Sound'
  <2> DEFINE first == WarLine("surrendered", w, a, "resolved")
  <2>1. /\ Sound /\ queue = <<>> /\ UNCHANGED <<disk, treaties, wars>>
        /\ mem' = [mem EXCEPT !.war.status[w] = "resolved"] /\ queue' = <<first>>
        /\ mem.war.status[w] = "active"
    BY <1>8, <1>s DEF Surrender, Idle, contents
  <2>2. first \in WarLines
    BY <1>m, LineTypes DEF WarStatuses
  <2>3. first.ev = "surrendered" /\ first.id = w
    BY DEF WarLine
  <2> HIDE DEF first
  <2>4. WarFits(mem.war, first, wars')
    BY <2>1, <2>3 DEF WarFits
  <2>5. ReplayWar(mem.war, first) = [mem.war EXCEPT !.status[w] = "resolved"]
    BY <2>1, <2>3 DEF ReplayWar
  <2>6. mem'.dip = mem.dip /\ mem'.war = ReplayWar(mem.war, first)
    BY <1>m, <2>1, <2>5
  <2> QED
    BY <2>1, <2>2, <2>4, <2>6, WarOperation
<1>9. CASE Write \/ WriteFails
  <2>1. faults = 0
    BY <1>9, AppendStep
  <2> QED
    BY <1>9, <2>1, SoundAppend DEF SoundWhileAppendsWork
<1>10. CASE Crash
  <2>1. /\ Sound /\ disk' = disk /\ treaties' = treaties /\ wars' = wars /\ queue' = <<>>
        /\ mem'.dip = disk.dip.img /\ mem'.war = disk.war.img
    BY <1>10, <1>s DEF Crash, contents
  <2>2. Breaks'
    BY <2>1 DEF Breaks
  <2> QED
    BY <2>1, <2>2 DEF Sound, QueueExplains
<1>11. CASE UNCHANGED vars
  BY <1>11, <1>s DEF vars, Sound, QueueExplains, OneDipLine, OneWarLine, TwoWarLines, Breaks
<1> QED
  BY <1>1, <1>2, <1>3, <1>4, <1>5, <1>6, <1>7, <1>8, <1>9, <1>10, <1>11 DEF Next

-----------------------------------------------------------------------------
LEMMA InvStart == Init => LedgersInv
<1>1. Init => wars = <<>>
  BY DEF Init
<1>2. wars = <<>> => QuorumFixed
  BY DEF QuorumFixed
<1> QED
  BY <1>1, <1>2, TypesStart, SettledStart, SoundStart DEF LedgersInv, SoundWhileAppendsWork

LEMMA InvKept == LedgersInv /\ [Next]_vars => LedgersInv'
BY TypesKept, SettledKept, QuorumKept, SoundKept DEF LedgersInv

(* The inductive invariant of the two ledgers.                             *)
THEOREM LedgersInvHolds == Spec => []LedgersInv
BY InvStart, InvKept, PTL DEF Spec

(* Defections, crashes and replays keep every agent in one faction at most *)
(* while appends work, and every seeded agent in some faction whatever     *)
(* lines are lost.                                                         *)
THEOREM FactionsAreSound == Spec => []FactionsSound
<1>1. LedgersInv => FactionsSound
  <2> SUFFICES ASSUME LedgersInv PROVE OneFaction
    BY DEF LedgersInv, FactionsSound
  <2> SUFFICES ASSUME faults = 0, NEW dip \in AllDiplomacy PROVE InOneFaction(dip)
    BY DEF OneFaction
  <2>1. Sound
    BY DEF LedgersInv, SoundWhileAppendsWork
  <2>2. disk.dip.base = disk.dip.img
    BY <2>1 DEF Sound, Blank
  <2> QED
    BY <2>1, <2>2 DEF Sound, DipGood, AllDiplomacy
<1> QED
  BY <1>1, LedgersInvHolds, PTL

(* While no append failed, no simulation, live or resumed after crashes at *)
(* any line, finds a war active or resolved that was not seconded by a     *)
(* majority of its faction as it was when war was declared                 *)
(* (conflict.py:548-646, 1151-1190).                                       *)
THEOREM WarsHaveAQuorum == Spec => []ActiveHasQuorum
<1>1. LedgersInv => ActiveHasQuorum
  <2> SUFFICES ASSUME LedgersInv, faults = 0, NEW cf \in AllConflict, NEW w \in 1..Len(wars),
                      cf.status[w] \in {"active", "resolved"}
               PROVE  2 * Cardinality(cf.seconders[w]) > wars[w].size
    BY DEF ActiveHasQuorum
  <2>1. Sound
    BY DEF LedgersInv, SoundWhileAppendsWork
  <2>2. disk.war.base = disk.war.img
    BY <2>1 DEF Sound, Blank
  <2>3. Quorate(cf, wars)
    BY <2>1, <2>2 DEF Sound, WarGood, AllConflict
  <2> QED
    BY <2>3 DEF Quorate, Majority
<1> QED
  BY <1>1, LedgersInvHolds, PTL

(* While appends work the two logs replay to the live ledgers between      *)
(* operations.                                                             *)
THEOREM LogsRebuild == Spec => []LogsRebuildLedgers
<1>1. LedgersInv => LogsRebuildLedgers
  <2> SUFFICES ASSUME LedgersInv, queue = <<>>, faults = 0
               PROVE  mem = [dip |-> disk.dip.img, war |-> disk.war.img]
    BY DEF LogsRebuildLedgers, Idle
  <2>1. TypeOK /\ Sound
    BY DEF LedgersInv, SoundWhileAppendsWork
  <2>2. mem.dip = disk.dip.img /\ mem.war = disk.war.img
    BY <2>1, IdleMatches
  <2>3. mem = [dip |-> mem.dip, war |-> mem.war]
    BY <2>1 DEF TypeOK
  <2> QED
    BY <2>2, <2>3
<1> QED
  BY <1>1, LedgersInvHolds, PTL

LEMMA OnlyAppendsWrite == [Next]_vars => UNCHANGED disk \/ Write \/ WriteFails
<1>1. ASSUME NEW a \in Agents, NEW g \in FactionIds, NEW terms \in TermSets, ProposeTreaty(a, g, terms)
      PROVE  UNCHANGED disk
  BY <1>1 DEF ProposeTreaty
<1>2. ASSUME NEW a \in Agents, NEW t \in 1..Len(treaties), SignTreaty(a, t) PROVE UNCHANGED disk
  BY <1>2 DEF SignTreaty
<1>3. ASSUME NEW t \in 1..Len(treaties), BreakTreaty(t) PROVE UNCHANGED disk
  BY <1>3 DEF BreakTreaty
<1>4. ASSUME NEW a \in Agents, NEW g \in FactionIds, Defect(a, g) \/ DeclareWar(a, g) PROVE UNCHANGED disk
  BY <1>4 DEF Defect, DeclareWar
<1>5. ASSUME NEW thief \in Agents, NEW victim \in Agents, TheftDetected(thief, victim) PROVE UNCHANGED disk
  BY <1>5 DEF TheftDetected
<1>6. ASSUME NEW a \in Agents, NEW w \in 1..Len(wars), SecondWar(a, w) \/ Surrender(a, w) PROVE UNCHANGED disk
  BY <1>6 DEF SecondWar, Surrender
<1>7. CASE Crash \/ UNCHANGED vars
  BY <1>7 DEF Crash, vars
<1> QED
  BY <1>1, <1>2, <1>3, <1>4, <1>5, <1>6, <1>7 DEF Next

(* While appends work no line that is written makes a treaty or a war fall *)
(* back to an earlier status.                                              *)
THEOREM NothingIsUndone == Spec => NothingComesBack
<1> DEFINE Forward(dip, cf, nextDip, nextCf) ==
        /\ \A t \in TreatyIds :
              /\ dip.treaty[t] = "broken" => nextDip.treaty[t] = "broken"
              /\ dip.treaty[t] = "active" => nextDip.treaty[t] \in {"active", "broken"}
        /\ \A w \in WarIds :
              /\ cf.status[w] = "resolved" => nextCf.status[w] = "resolved"
              /\ cf.status[w] = "active" => nextCf.status[w] \in {"active", "resolved"}
<1>1. ASSUME LedgersInv, [Next]_vars, faults' = 0
      PROVE  Forward(disk.dip.img, disk.war.img, disk'.dip.img, disk'.war.img)
  <2>1. CASE UNCHANGED disk
    BY <2>1
  <2>2. CASE Write \/ WriteFails
    <3> DEFINE line == Head(queue)
    <3>1. faults = 0 /\ TypeOK /\ queue # <<>>
      BY <1>1, <2>2, AppendStep DEF LedgersInv
    <3>2. Sound
      BY <1>1, <3>1 DEF LedgersInv, SoundWhileAppendsWork
    <3>3. /\ disk.dip = Blank(disk.dip.img) /\ disk.war = Blank(disk.war.img)
          /\ disk.dip.img \in Diplomacy /\ disk.war.img \in Conflict
      BY <3>1, <3>2 DEF Sound, TypeOK, Files
    <3>4. CASE line \in DipLines /\ DipFits(disk.dip.img, line, treaties)
      <4> DEFINE dip == disk.dip.img
                 next == ReplayDiplomacy(dip, line)
      <4>1. disk'.war = disk.war /\ disk'.dip.img = next
        BY <1>1, <2>2, <3>1, <3>3, <3>4, AppendStep DEF Blank
      <4>2. ASSUME NEW t \in TreatyIds
            PROVE  /\ dip.treaty[t] = "broken" => next.treaty[t] = "broken"
                   /\ dip.treaty[t] = "active" => next.treaty[t] \in {"active", "broken"}
        <5> HIDE DEF line, dip
        <5>1. line.ev \in {"proposed", "signed", "broken", "defected"} /\ dip \in Diplomacy
          BY <3>3, <3>4 DEF DipLines, dip
        <5>2. CASE line.ev = "proposed"
          <6>1. line.id \in TreatyIds /\ dip.treaty[line.id] = "none"
            BY <3>4, <5>2 DEF DipFits, DipLines, dip
          <6>2. next = SetTreaty(dip, line.id, "proposed")
            BY <5>2 DEF ReplayDiplomacy
          <6> QED
            BY <5>1, <6>1, <6>2 DEF SetTreaty, Diplomacy
        <5>3. CASE line.ev = "signed"
          BY <5>1, <5>3 DEF ReplayDiplomacy, SetTreaty, Diplomacy
        <5>4. CASE line.ev = "broken"
          BY <5>1, <5>4 DEF ReplayDiplomacy, SetTreaty, Diplomacy
        <5>5. CASE line.ev = "defected"
          <6>1. next = MoveMember(dip, line.agent, line.from, line.to)
            BY <5>5 DEF ReplayDiplomacy
          <6>2. next.treaty = dip.treaty
            BY <5>1, <6>1 DEF MoveMember, Diplomacy
          <6> QED
            BY <6>2
        <5> QED
          BY <5>1, <5>2, <5>3, <5>4, <5>5
      <4> QED
        BY <4>1, <4>2
    <3>5. CASE line \in WarLines /\ WarFits(disk.war.img, line, wars)
      <4> DEFINE cf == disk.war.img
                 next == ReplayWar(cf, line)
      <4>1. disk'.dip = disk.dip /\ disk'.war.img = next
        BY <1>1, <2>2, <3>1, <3>3, <3>5, AppendStep DEF Blank
      <4>2. ASSUME NEW w \in WarIds
            PROVE  /\ cf.status[w] = "resolved" => next.status[w] = "resolved"
                   /\ cf.status[w] = "active" => next.status[w] \in {"active", "resolved"}
        <5>1. line.ev # "war_declared" => cf.status[line.id] # "none"
          BY <3>5 DEF WarFits, WarLines
        <5>2. line.ev \in {"war_declared", "war_seconded", "war_activated", "surrendered"}
          BY <3>5 DEF WarLines
        <5>3. w # line.id => next.status[w] = cf.status[w]
          BY <3>3, <3>5, <5>1, WarReplay
        <5>4. CASE w = line.id /\ line.ev = "war_declared"
          BY <3>5, <5>4 DEF WarFits
        <5>5. CASE w = line.id /\ line.ev = "war_seconded"
          BY <3>5, <5>5 DEF WarFits
        <5>6. CASE w = line.id /\ line.ev = "war_activated"
          <6>1. next.status[w] = "active" /\ cf.status[w] # "resolved"
            BY <3>3, <3>5, <5>1, <5>6, WarReplay DEF WarFits
          <6> QED
            BY <6>1
        <5>7. CASE w = line.id /\ line.ev = "surrendered"
          <6>1. next.status[w] = "resolved"
            BY <3>3, <3>5, <5>1, <5>7, WarReplay
          <6> QED
            BY <6>1
        <5> QED
          BY <5>2, <5>3, <5>4, <5>5, <5>6, <5>7
      <4> QED
        BY <4>1, <4>2
    <3> QED
      BY <3>1, <3>2, <3>4, <3>5, HeadFits
  <2> QED
    BY <1>1, <2>1, <2>2, OnlyAppendsWrite
<1>2. LedgersInv /\ [Next]_vars =>
        [faults' = 0 =>
            /\ \A t \in TreatyIds :
                  /\ disk.dip.img.treaty[t] = "broken" => disk'.dip.img.treaty[t] = "broken"
                  /\ disk.dip.img.treaty[t] = "active" => disk'.dip.img.treaty[t] \in {"active", "broken"}
            /\ \A w \in WarIds :
                  /\ disk.war.img.status[w] = "resolved" => disk'.war.img.status[w] = "resolved"
                  /\ disk.war.img.status[w] = "active" => disk'.war.img.status[w] \in {"active", "resolved"}]_vars
  BY <1>1
<1> QED
  BY <1>2, LedgersInvHolds, PTL DEF Spec, NothingComesBack

=============================================================================
