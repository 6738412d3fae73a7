------------------------------ MODULE Factions ------------------------------
(***************************************************************************)
(* Factions, treaties and wars: the diplomacy ledger                       *)
(* (core/civilization/diplomacy.py), the war half of the conflict ledger   *)
(* (conflict.py), and the treaty breaks that a detected theft causes       *)
(* (_emit_theft_consequences in tools/civilization.py).                    *)
(*                                                                         *)
(* As in Economy, an operation is one step on the memory that leaves the   *)
(* lines it appends in queue; Write appends them one by one and Crash may  *)
(* strike before any of them.  Faction.treaties, a list nobody reads, and  *)
(* the wording of treaties and wars are left out.                          *)
(***************************************************************************)
EXTENDS Integers, Sequences, FiniteSets, JsonlLog

CONSTANTS Agents,
          FactionOrder,  \* faction ids in the order the scenario seeds them
          Seeds,         \* the members the scenario gives each faction
          TermSets,      \* the terms a treaty may have
          MaxTreaties, MaxWars, MaxDefections, MaxFaults

FactionIds == {FactionOrder[i] : i \in 1..Len(FactionOrder)}

(* What get_faction_for answers for an agent that no faction lists: None.  *)
NoFaction == "no faction"

ASSUME FactionsAssumption ==
    /\ FactionOrder \in Seq(FactionIds)
    /\ NoFaction \notin FactionIds
    /\ IsFiniteSet(Agents)
    /\ {MaxTreaties, MaxWars, MaxDefections, MaxFaults} \subseteq Nat

(* Scenario files put an agent in one faction only.                        *)
ASSUME SeedsAssumption ==
    /\ Seeds \in [FactionIds -> SUBSET Agents]
    /\ \A f, g \in FactionIds : f # g => Seeds[f] \cap Seeds[g] = {}

VARIABLES treaties,   \* content of the treaties proposed, by treaty id
          wars,       \* content of the wars declared, by war id
          mem,        \* the two live ledgers
          disk,       \* the two log files
          queue,      \* lines the running operation has yet to append
          defections, \* defections so far
          faults      \* appends that raised OSError so far

vars == <<treaties, wars, mem, disk, queue, defections, faults>>
contents == <<treaties, wars, defections>>

TreatyIds == 1..MaxTreaties
WarIds == 1..MaxWars

TreatyStatuses == {"none", "proposed", "active", "broken"}
WarStatuses == {"none", "pending", "active", "resolved"}

(* _factions (their members) and _treaties; and _wars.                     *)
Diplomacy == [members : [FactionIds -> SUBSET Agents], treaty : [TreatyIds -> TreatyStatuses]]
Conflict  == [status : [WarIds -> WarStatuses], seconders : [WarIds -> SUBSET Agents]]

(* __init__ seeds the factions before it replays the log.                  *)
SeededDiplomacy == [members |-> Seeds, treaty |-> [t \in TreatyIds |-> "none"]]
NoConflict == [status |-> [w \in WarIds |-> "none"], seconders |-> [w \in WarIds |-> {}]]

Init ==
    /\ treaties = <<>> /\ wars = <<>>
    /\ mem = [dip |-> SeededDiplomacy, war |-> NoConflict]
    /\ disk = [dip |-> Blank(SeededDiplomacy), war |-> Blank(NoConflict)]
    /\ queue = <<>>
    /\ defections = 0
    /\ faults = 0

Idle == queue = <<>>

(* get_faction_for: the first faction, in seeding order, that lists the    *)
(* agent; NoFaction when none does.                                        *)
FactionOf(members, a) ==
    LET at == {i \in 1..Len(FactionOrder) : a \in members[FactionOrder[i]]} IN
    IF at = {} THEN NoFaction
    ELSE FactionOrder[CHOOSE i \in at : \A j \in at : i <= j]

-----------------------------------------------------------------------------
(* What the operations do to a ledger, live and on replay.                 *)
SetTreaty(dip, t, status) == [dip EXCEPT !.treaty[t] = status]

(* Mutant: the defector is also kept in the old faction.                   *)
JoinOnly(dip, a, from, to) == [dip EXCEPT !.members[to] = @ \cup {a}]

(* from is NoFaction for an agent that had none.                           *)
MoveMember(dip, a, from, to) ==
    [dip EXCEPT !.members = [f \in FactionIds |->
        IF f = to THEN @[f] \cup {a}
        ELSE IF f = from THEN @[f] \ {a} ELSE @[f]]]

(* A declared war carries its status; the initiator is its first seconder. *)
AddWar(cf, w, a, status) ==
    [cf EXCEPT !.status[w] = status, !.seconders[w] = {a}]

(* The lines of the two logs.                                              *)
TreatyLine(ev, t) == [log |-> "dip", ev |-> ev, id |-> t]
DefectLine(a, from, to) == [log |-> "dip", ev |-> "defected", agent |-> a, from |-> from, to |-> to]
WarLine(ev, w, a, status) == [log |-> "war", ev |-> ev, id |-> w, agent |-> a, status |-> status]

(* _apply_replay of the diplomacy ledger: "signed" counts for a proposed   *)
(* treaty only and "broken" for an active one; "defected" trusts the line. *)
ReplayDiplomacy(dip, line) ==
    CASE line.ev = "proposed" -> SetTreaty(dip, line.id, "proposed")
      [] line.ev = "signed"   ->
             IF dip.treaty[line.id] = "proposed" THEN SetTreaty(dip, line.id, "active") ELSE dip
      [] line.ev = "broken"   ->
             IF dip.treaty[line.id] = "active" THEN SetTreaty(dip, line.id, "broken") ELSE dip
      [] line.ev = "defected" -> MoveMember(dip, line.agent, line.from, line.to)

(* Mutant: "war_seconded" lines are not replayed.                          *)
ReplayNoSeconds(cf, line) ==
    IF line.ev # "war_declared" /\ cf.status[line.id] = "none" THEN cf
    ELSE CASE line.ev = "war_declared"  -> AddWar(cf, line.id, line.agent, line.status)
           [] line.ev = "war_seconded"  -> cf
           [] line.ev = "war_activated" -> [cf EXCEPT !.status[line.id] = "active"]
           [] line.ev = "surrendered"   -> [cf EXCEPT !.status[line.id] = "resolved"]

(* _apply_replay of the war lines: they count for any war that is known,   *)
(* whatever its status.                                                    *)
ReplayWar(cf, line) ==
    IF line.ev # "war_declared" /\ cf.status[line.id] = "none" THEN cf
    ELSE CASE line.ev = "war_declared"  -> AddWar(cf, line.id, line.agent, line.status)
           [] line.ev = "war_seconded"  ->
                  [cf EXCEPT !.seconders[line.id] = @ \cup {line.agent}]
           [] line.ev = "war_activated" -> [cf EXCEPT !.status[line.id] = "active"]
           [] line.ev = "surrendered"   -> [cf EXCEPT !.status[line.id] = "resolved"]

Replayed(line) ==
    IF line.log = "dip" THEN ReplayDiplomacy(disk.dip.img, line)
                        ELSE ReplayWar(disk.war.img, line)

(* _append_event for the next line: it is written, or OSError is swallowed *)
(* and the operation carries on with the line after it.                    *)
Write ==
    /\ ~Idle
    /\ LET line == Head(queue) IN
          disk' = [disk EXCEPT ![line.log] = Written(@, Replayed(line))]
    /\ queue' = Tail(queue)
    /\ UNCHANGED <<mem, faults, contents>>

WriteFails ==
    /\ ~Idle
    /\ faults < MaxFaults
    /\ LET line == Head(queue) IN
          \E damaged \in Damaged(disk[line.log], Replayed(line)) :
              disk' = [disk EXCEPT ![line.log] = damaged]
    /\ queue' = Tail(queue)
    /\ faults' = faults + 1
    /\ UNCHANGED <<mem, contents>>

(* The process dies and the simulation is resumed from the files.          *)
Crash ==
    /\ mem' = [dip |-> disk.dip.img, war |-> disk.war.img]
    /\ queue' = <<>>
    /\ UNCHANGED <<disk, faults, contents>>

-----------------------------------------------------------------------------
(* propose, by a member of a faction, to another faction.                  *)
ProposeTreaty(a, g, terms) ==
    LET t == Len(treaties) + 1
        f == FactionOf(mem.dip.members, a)
    IN
    /\ Idle
    /\ t <= MaxTreaties
    /\ f \notin {NoFaction, g}
    /\ treaties' = Append(treaties, [from |-> f, to |-> g, terms |-> terms])
    /\ mem' = [mem EXCEPT !.dip = SetTreaty(@, t, "proposed")]
    /\ queue' = <<TreatyLine("proposed", t)>>
    /\ UNCHANGED <<wars, disk, defections, faults>>

(* sign: a party other than the proposing faction, judged by where the     *)
(* signer is now.                                                          *)
SignTreaty(a, t) ==
    /\ Idle
    /\ mem.dip.treaty[t] = "proposed"
    /\ FactionOf(mem.dip.members, a) = treaties[t].to
    /\ mem' = [mem EXCEPT !.dip = SetTreaty(@, t, "active")]
    /\ queue' = <<TreatyLine("signed", t)>>
    /\ UNCHANGED <<disk, faults, contents>>

(* break_: any agent may break any active treaty.                          *)
BreakTreaty(t) ==
    /\ Idle
    /\ mem.dip.treaty[t] = "active"
    /\ mem' = [mem EXCEPT !.dip = SetTreaty(@, t, "broken")]
    /\ queue' = <<TreatyLine("broken", t)>>
    /\ UNCHANGED <<disk, faults, contents>>

(* defect: the line records the faction the agent was found in.            *)
Defect(a, g) ==
    LET f == FactionOf(mem.dip.members, a) IN
    /\ Idle
    /\ defections < MaxDefections
    /\ f # g
    /\ defections' = defections + 1
    /\ mem' = [mem EXCEPT !.dip = MoveMember(@, a, f, g)]
    /\ queue' = <<DefectLine(a, f, g)>>
    /\ UNCHANGED <<treaties, wars, disk, faults>>

(* treaties_between that carry non_aggression.                             *)
Pacts(dip, f, g) ==
    {t \in 1..Len(treaties) :
        /\ dip.treaty[t] = "active"
        /\ {f, g} = {treaties[t].from, treaties[t].to}
        /\ "non_aggression" \in treaties[t].terms}

(* The treaties of a set in the order they were made in.                   *)
InOrder(S) ==
    {s \in [1..Cardinality(S) -> S] :
        /\ {s[i] : i \in DOMAIN s} = S
        /\ \A i, j \in DOMAIN s : i < j => s[i] < s[j]}

(* _emit_theft_consequences of a detected theft: every such treaty between *)
(* the two factions is broken, one break_ and so one line after the other. *)
TheftDetected(thief, victim) ==
    LET f == FactionOf(mem.dip.members, thief)
        g == FactionOf(mem.dip.members, victim)
        breached == Pacts(mem.dip, f, g)
    IN
    /\ Idle
    /\ NoFaction \notin {f, g} /\ f # g
    /\ breached # {}
    /\ mem' = [mem EXCEPT !.dip.treaty =
                  [t \in TreatyIds |-> IF t \in breached THEN "broken" ELSE @[t]]]
    /\ \E order \in InOrder(breached) :
          queue' = [i \in DOMAIN order |-> TreatyLine("broken", order[i])]
    /\ UNCHANGED <<disk, faults, contents>>

(* Mutant: half of the members is enough.                                  *)
QuorumOfHalf(n) == IF n \div 2 > 1 THEN n \div 2 ELSE 1

(* required_quorum for a faction of n members.                             *)
RequiredQuorum(n) == IF n \div 2 + 1 > 1 THEN n \div 2 + 1 ELSE 1

(* declare_war: the quorum is fixed by the size of the faction now; a war  *)
(* that needs no more seconders is active at once, and a second line says  *)
(* so.  size is a ghost.                                                   *)
DeclareWar(a, g) ==
    LET w == Len(wars) + 1
        f == FactionOf(mem.dip.members, a)
        size == Cardinality(mem.dip.members[f])
        status == IF 1 >= RequiredQuorum(size) THEN "active" ELSE "pending"
        declared == WarLine("war_declared", w, a, status)
    IN
    /\ Idle
    /\ w <= MaxWars
    /\ f \notin {NoFaction, g}
    /\ wars' = Append(wars, [from |-> f, to |-> g, size |-> size,
                             quorum |-> RequiredQuorum(size)])
    /\ mem' = [mem EXCEPT !.war = AddWar(@, w, a, status)]
    /\ queue' = IF status = "active"
                  THEN <<declared, WarLine("war_activated", w, a, status)>>
                  ELSE <<declared>>
    /\ UNCHANGED <<treaties, disk, defections, faults>>

(* Mutant: a surrendered war can be seconded again.                        *)
SecondAgain(a, w) ==
    LET seconders == mem.war.seconders[w] \cup {a}
        status == IF Cardinality(seconders) >= wars[w].quorum THEN "active" ELSE "pending"
        seconded == WarLine("war_seconded", w, a, status)
    IN
    /\ Idle
    /\ mem.war.status[w] # "active"
    /\ FactionOf(mem.dip.members, a) = wars[w].from
    /\ mem' = [mem EXCEPT !.war.seconders[w] = seconders, !.war.status[w] = status]
    /\ queue' = IF status = "active"
                  THEN <<seconded, WarLine("war_activated", w, a, status)>>
                  ELSE <<seconded>>
    /\ UNCHANGED <<disk, faults, contents>>

(* second_war, by a current member of the declaring faction; seconding     *)
(* twice is allowed and counts once.                                       *)
SecondWar(a, w) ==
    LET seconders == mem.war.seconders[w] \cup {a}
        status == IF Cardinality(seconders) >= wars[w].quorum THEN "active" ELSE "pending"
        seconded == WarLine("war_seconded", w, a, status)
    IN
    /\ Idle
    /\ mem.war.status[w] = "pending"
    /\ FactionOf(mem.dip.members, a) = wars[w].from
    /\ mem' = [mem EXCEPT !.war.seconders[w] = seconders, !.war.status[w] = status]
    /\ queue' = IF status = "active"
                  THEN <<seconded, WarLine("war_activated", w, a, status)>>
                  ELSE <<seconded>>
    /\ UNCHANGED <<disk, faults, contents>>

(* surrender of a war: any agent may end any active war.                   *)
Surrender(a, w) ==
    /\ Idle
    /\ mem.war.status[w] = "active"
    /\ mem' = [mem EXCEPT !.war.status[w] = "resolved"]
    /\ queue' = <<WarLine("surrendered", w, a, "resolved")>>
    /\ UNCHANGED <<disk, faults, contents>>

Next ==
    \/ \E a \in Agents, g \in FactionIds, terms \in TermSets : ProposeTreaty(a, g, terms)
    \/ \E a \in Agents, t \in 1..Len(treaties) : SignTreaty(a, t)
    \/ \E t \in 1..Len(treaties) : BreakTreaty(t)
    \/ \E a \in Agents, g \in FactionIds : Defect(a, g) \/ DeclareWar(a, g)
    \/ \E thief, victim \in Agents : TheftDetected(thief, victim)
    \/ \E a \in Agents, w \in 1..Len(wars) : SecondWar(a, w) \/ Surrender(a, w)
    \/ Write
    \/ WriteFails
    \/ Crash

Spec == Init /\ [][Next]_vars

-----------------------------------------------------------------------------
Lines ==
    [log : {"dip"}, ev : {"proposed", "signed", "broken"}, id : TreatyIds]
    \cup [log : {"dip"}, ev : {"defected"}, agent : Agents,
          from : FactionIds \cup {NoFaction}, to : FactionIds]
    \cup [log : {"war"}, ev : {"war_declared", "war_seconded", "war_activated", "surrendered"},
          id : WarIds, agent : Agents, status : WarStatuses]

(* Types of all the variables.                                             *)
TypeOK ==
    /\ treaties \in Seq([from : FactionIds, to : FactionIds, terms : TermSets])
    /\ wars \in Seq([from : FactionIds, to : FactionIds, size : Nat, quorum : Nat])
    /\ Len(treaties) <= MaxTreaties /\ Len(wars) <= MaxWars
    /\ mem \in [dip : Diplomacy, war : Conflict]
    /\ disk \in [dip : Files(Diplomacy), war : Files(Conflict)]
    /\ queue \in Seq(Lines)
    /\ defections \in 0..MaxDefections
    /\ faults \in 0..MaxFaults

(* The live ledgers and the ones a replay may rebuild.                     *)
AllDiplomacy == {mem.dip, disk.dip.img, disk.dip.base}
AllConflict == {mem.war, disk.war.img, disk.war.base}

InOneFaction(dip) ==
    \A f, g \in FactionIds : f # g => dip.members[f] \cap dip.members[g] = {}

(* get_faction_for returns the first faction that lists the agent, which   *)
(* is the only one as long as the log is complete: however agents defect   *)
(* and wherever a crash strikes, nobody is counted in two factions.        *)
OneFaction == faults = 0 => \A dip \in AllDiplomacy : InOneFaction(dip)

(* Whatever "defected" lines are lost, replay leaves every seeded agent in *)
(* some faction.                                                           *)
NobodyStranded ==
    \A dip \in AllDiplomacy, f \in FactionIds : \A a \in Seeds[f] :
        \E g \in FactionIds : a \in dip.members[g]

(* Defections, crashes and replays keep the factions apart: the types hold *)
(* and, of the agents, nobody is in two factions and nobody in none.       *)
FactionsSound == TypeOK /\ OneFaction /\ NobodyStranded

(* While no append failed, a war that has become active was seconded by    *)
(* more than half of the faction as it was when war was declared, whoever  *)
(* defects meanwhile and wherever a crash cuts an operation short; a       *)
(* resumed simulation never finds one that was not.  (A lost war_seconded  *)
(* line before a written war_activated line is replayed to one that was    *)
(* not: replay of war_activated counts nobody.)                            *)
ActiveHasQuorum ==
    faults = 0 =>
        \A cf \in AllConflict, w \in 1..Len(wars) :
            cf.status[w] \in {"active", "resolved"}
                => 2 * Cardinality(cf.seconders[w]) > wars[w].size

(* Between operations the two logs together replay to exactly the live     *)
(* ledgers, after any history of crashes, while appends work.              *)
LogsRebuildLedgers ==
    Idle /\ faults = 0 => mem = [dip |-> disk.dip.img, war |-> disk.war.img]

(* While appends work nothing that is on record is undone: no line makes a *)
(* treaty or a war fall back to an earlier status, although replay applies *)
(* war lines whatever the status.                                          *)
NothingComesBack ==
    [][faults' = 0 =>
        /\ \A t \in TreatyIds :
              /\ disk.dip.img.treaty[t] = "broken" => disk'.dip.img.treaty[t] = "broken"
              /\ disk.dip.img.treaty[t] = "active" => disk'.dip.img.treaty[t] \in {"active", "broken"}
        /\ \A w \in WarIds :
              /\ disk.war.img.status[w] = "resolved" => disk'.war.img.status[w] = "resolved"
              /\ disk.war.img.status[w] = "active" => disk'.war.img.status[w] \in {"active", "resolved"}]_vars

=============================================================================
