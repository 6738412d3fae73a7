--------------------------- MODULE DisputesProofs ---------------------------
(***************************************************************************)
(* Proofs about disputes and the ledgers their judgements change, for every*)
(* set of agents, plots, thefts and treaties, every bound on claims,       *)
(* disputes and offers, and any number of crashes and appends that fail.   *)
(***************************************************************************)
EXTENDS Disputes, SumTheorems

-----------------------------------------------------------------------------
(* Types.                                                                  *)

Deed  == [owner : Agents, target : Plots]
Suit  == [initiator : Agents, respondent : Agents, type : DisputeTypes]
Terms == [from : Agents, to : Agents, of : DisputeIds]
TreatyStates == [Treaties -> {"active", "broken"}]

(* Whoever was judged against an opponent is an agent.                     *)
Judged(cs) == \A d \in DisputeIds : cs[d].status = "judged" => cs[d].winner \in Agents
Cases == {cs \in [DisputeIds -> Case] : Judged(cs)}
Ledgers(n) == [own : Own!Index(1..n), trade : SUBSET OfferIds, dip : TreatyStates, con : Cases]

(* The lines about the first n claims.                                     *)
OwnLines(n) == {OwnLine(ev, c) : ev \in {"claim", "release", "conflict"}, c \in 1..n}
OfferLines == {OfferLine(o) : o \in OfferIds}
BreakLines == {BreakLine(t) : t \in Treaties}
OpenLines == {CaseLine("opened", d, evidence) : d \in DisputeIds, evidence \in Seq(Entries)}
EvidenceLines == {CaseLine("evidence_submitted", d, entry) : d \in DisputeIds, entry \in Entries}
RuleLines == {CaseLine(ev, d, w) : ev \in {"judged", "resolved"}, d \in DisputeIds, w \in Agents}
EndLines == {CaseLine(ev, d, "nobody") : ev \in {"escalated", "surrendered"}, d \in DisputeIds}
CaseLines == OpenLines \cup EvidenceLines \cup RuleLines \cup EndLines
Lines(n) == OwnLines(n) \cup OfferLines \cup BreakLines \cup CaseLines

DiskTypes ==
    disk \in [own : Files(Own!Index(1..Len(deeds))), trade : Files(SUBSET OfferIds),
              dip : Files(TreatyStates), con : Files(Cases)]

DisputeInv ==
    /\ deeds \in Seq(Deed) /\ disputes \in Seq(Suit) /\ offers \in Seq(Terms)
    /\ mem \in Ledgers(Len(deeds))
    /\ DiskTypes
    /\ losses \in 0..MaxLosses /\ faults \in 0..MaxFaults
    /\ Len(disputes) <= MaxDisputes
    /\ queue \in Seq(Lines(Len(deeds)))

LEMMA LineFacts ==
    ASSUME NEW n
    PROVE  /\ \A line \in OwnLines(n) :
                 /\ line.log = "own" /\ line.id \in 1..n
                 /\ line.ev \in {"claim", "release", "conflict"}
           /\ \A line \in OfferLines : line.log = "trade" /\ line.id \in OfferIds
           /\ \A line \in BreakLines : line.log = "dip" /\ line.id \in Treaties
           /\ \A line \in CaseLines : line.log = "con" /\ line.id \in DisputeIds
           /\ \A line \in OpenLines : line.ev = "opened" /\ line.data \in Seq(Entries)
           /\ \A line \in EvidenceLines :
                 line.ev = "evidence_submitted" /\ line.data \in Entries
           /\ \A line \in RuleLines : line.ev \in {"judged", "resolved"} /\ line.data \in Agents
           /\ \A line \in EndLines : line.ev \in {"escalated", "surrendered"}
BY DEF OwnLines, OfferLines, BreakLines, CaseLines, OpenLines, EvidenceLines, RuleLines,
       EndLines, OwnLine, OfferLine, BreakLine, CaseLine

LEMMA LinesGrow ==
    ASSUME NEW n \in Nat, NEW m \in Nat, n <= m
    PROVE  Lines(n) \subseteq Lines(m)
<1>1. 1..n \subseteq 1..m
  OBVIOUS
<1>2. OwnLines(n) \subseteq OwnLines(m)
  BY <1>1 DEF OwnLines
<1> QED
  BY <1>2 DEF Lines

LEMMA LedgersGrow ==
    ASSUME NEW n \in Nat, NEW m \in Nat, n <= m
    PROVE  /\ Own!Index(1..n) \subseteq Own!Index(1..m)
           /\ Ledgers(n) \subseteq Ledgers(m)
<1>1. 1..n \subseteq 1..m
  OBVIOUS
<1>2. Own!Index(1..n) \subseteq Own!Index(1..m)
  BY <1>1 DEF Own!Index
<1> QED
  BY <1>2 DEF Ledgers

-----------------------------------------------------------------------------
(* Replay of one line on a set of ledgers.                                 *)

OwnStep(dd, ix, line) ==
    CASE line.ev = "claim"    -> Own!ReplayClaim(ix, line.id, dd[line.id].target)
      [] line.ev = "release"  -> Own!ReplayRelease(ix, line.id, dd[line.id].target)
      [] line.ev = "conflict" -> Own!ReplayConflict(ix)

Step(dd, L, line) ==
    CASE line.log = "own"   -> [L EXCEPT !.own = OwnStep(dd, L.own, line)]
      [] line.log = "trade" -> [L EXCEPT !.trade = L.trade \cup {line.id}]
      [] line.log = "dip"   -> [L EXCEPT !.dip[line.id] = "broken"]
      [] line.log = "con"   -> [L EXCEPT !.con = ReplayCase(L.con, line)]

LEMMA CaseTypes ==
    ASSUME NEW cs \in Cases, NEW line \in CaseLines
    PROVE  ReplayCase(cs, line) \in Cases
<1> DEFINE d == line.id
<1>1. d \in DisputeIds /\ cs \in [DisputeIds -> Case] /\ Judged(cs)
  BY LineFacts DEF Cases
<1>2. cs[d] \in Case
  BY <1>1
<1>3. CASE line \in OpenLines
  <2>1. line.ev = "opened" /\ line.data \in Seq(Entries)
    BY <1>3, LineFacts
  <2>2. [status |-> "open", evidence |-> line.data, winner |-> "nobody"] \in Case
    BY <2>1 DEF Case, Statuses
  <2>3. ReplayCase(cs, line) = [cs EXCEPT ![d] =
            [status |-> "open", evidence |-> line.data, winner |-> "nobody"]]
    BY <2>1 DEF ReplayCase
  <2> QED
    BY <1>1, <2>2, <2>3 DEF Cases, Judged
<1>4. CASE line \in EvidenceLines
  <2>1. line.ev = "evidence_submitted" /\ line.data \in Entries
    BY <1>4, LineFacts
  <2>2. Append(cs[d].evidence, line.data) \in Seq(Entries)
    BY <1>2, <2>1 DEF Case
  <2>3. Attach(cs, d, line.data) \in Cases
    BY <1>1, <1>2, <2>2 DEF Attach, Case, Cases, Judged
  <2> QED
    BY <2>1, <2>3 DEF ReplayCase
<1>5. CASE line \in RuleLines
  <2>1. line.ev \in {"judged", "resolved"} /\ line.data \in Agents
    BY <1>5, LineFacts
  <2>2. Rule(cs, d, line.data) \in Cases
    BY <1>1, <1>2, <2>1 DEF Rule, Case, Statuses, Cases, Judged
  <2>3. [Close(cs, d, "resolved") EXCEPT ![d].winner = line.data] \in Cases
    BY <1>1, <1>2, <2>1 DEF Close, Case, Statuses, Cases, Judged
  <2> QED
    BY <2>1, <2>2, <2>3 DEF ReplayCase
<1>6. CASE line \in EndLines
  <2>1. line.ev \in {"escalated", "surrendered"}
    BY <1>6, LineFacts
  <2>2. Close(cs, d, "escalated") \in Cases /\ Close(cs, d, "surrendered") \in Cases
    BY <1>1, <1>2 DEF Close, Case, Statuses, Cases, Judged
  <2> QED
    BY <2>1, <2>2 DEF ReplayCase
<1> QED
  BY <1>3, <1>4, <1>5, <1>6 DEF CaseLines

LEMMA OwnStepTypes ==
    ASSUME NEW dd \in Seq(Deed), NEW ix \in Own!Index(1..Len(dd)),
           NEW line \in OwnLines(Len(dd))
    PROVE  OwnStep(dd, ix, line) \in Own!Index(1..Len(dd))
<1> DEFINE c == line.id
           p == dd[c].target
<1>1. c \in 1..Len(dd) /\ line.ev \in {"claim", "release", "conflict"}
  BY LineFacts
<1>2. dd[c] \in Deed
  BY <1>1
<1>3. p \in Plots
  BY <1>2 DEF Deed
<1> HIDE DEF c, p
<1>4. Own!ReplayClaim(ix, c, p) \in Own!Index(1..Len(dd))
  BY <1>1, <1>3 DEF Own!ReplayClaim, Own!IndexActive, Own!Index
<1>5. Own!ReplayRelease(ix, c, p) \in Own!Index(1..Len(dd))
  BY <1>1, <1>3 DEF Own!ReplayRelease, Own!DeindexActive, Own!Index
<1>6. Own!ReplayConflict(ix) \in Own!Index(1..Len(dd))
  BY DEF Own!ReplayConflict
<1> QED
  BY <1>1, <1>4, <1>5, <1>6 DEF OwnStep, c, p

(* What the four files replay to.                                          *)
LEMMA Rebuilding ==
    ASSUME DiskTypes
    PROVE  /\ Rebuilt = [own |-> disk.own.img, trade |-> disk.trade.img,
                         dip |-> disk.dip.img, con |-> disk.con.img]
           /\ Rebuilt \in Ledgers(Len(deeds))
<1>1. DOMAIN disk = {"own", "trade", "dip", "con"}
  BY DEF DiskTypes
<1>2. Rebuilt = [own |-> disk.own.img, trade |-> disk.trade.img,
                 dip |-> disk.dip.img, con |-> disk.con.img]
  BY <1>1 DEF Rebuilt
<1> QED
  BY <1>2 DEF DiskTypes, Ledgers, Files

(* The image a file has after one more line.                               *)
LEMMA ReplayedTypes ==
    ASSUME DisputeInv, NEW line \in Lines(Len(deeds))
    PROVE  /\ line.log \in {"own", "trade", "dip", "con"}
           /\ line.log = "own" => Replayed(line) \in Own!Index(1..Len(deeds))
           /\ line.log = "trade" => Replayed(line) \in SUBSET OfferIds
           /\ line.log = "dip" => Replayed(line) \in TreatyStates
           /\ line.log = "con" => Replayed(line) \in Cases
<1>1. /\ disk.own.img \in Own!Index(1..Len(deeds)) /\ disk.trade.img \in SUBSET OfferIds
      /\ disk.dip.img \in TreatyStates /\ disk.con.img \in Cases
  BY DEF DisputeInv, DiskTypes, Files
<1>2. CASE line \in OwnLines(Len(deeds))
  <2>1. line.log = "own"
    BY <1>2, LineFacts
  <2>2. OwnStep(deeds, disk.own.img, line) \in Own!Index(1..Len(deeds))
    BY <1>1, <1>2, OwnStepTypes DEF DisputeInv
  <2>3. Replayed(line) = OwnStep(deeds, disk.own.img, line)
    BY <2>1 DEF Replayed, ReplayOwn, OwnStep
  <2> QED
    BY <2>1, <2>2, <2>3
<1>3. CASE line \in OfferLines
  BY <1>1, <1>3, LineFacts DEF Replayed
<1>4. CASE line \in BreakLines
  BY <1>1, <1>4, LineFacts DEF Replayed, TreatyStates
<1>5. CASE line \in CaseLines
  <2>1. line.log = "con"
    BY <1>5, LineFacts
  <2>2. ReplayCase(disk.con.img, line) \in Cases
    BY <1>1, <1>5, CaseTypes
  <2> QED
    BY <2>1, <2>2 DEF Replayed
<1> QED
  BY <1>2, <1>3, <1>4, <1>5 DEF Lines

LEMMA AppendImages ==
    ASSUME NEW S, NEW f \in Files(S), NEW next \in S, NEW g,
           g = Written(f, next) \/ g \in Damaged(f, next)
    PROVE  g \in Files(S)
BY DEF Files, Written, Damaged, TornPart, TornWhole, Blank

(* One line leaves the queue for one of the four files.                    *)
Appends(line, file) ==
    /\ disk' = [disk EXCEPT ![line.log] = file]
    /\ \/ file = Written(disk[line.log], Replayed(line))
       \/ file \in Damaged(disk[line.log], Replayed(line))

LEMMA WriteIsAppend ==
    ASSUME Write \/ WriteFails
    PROVE  /\ queue # <<>> /\ queue' = Tail(queue)
           /\ UNCHANGED <<deeds, disputes, offers, losses, mem>>
           /\ \E file : Appends(Head(queue), file)
<1>1. CASE Write
  <2>1. disk' = [disk EXCEPT ![Head(queue).log] =
                               Written(disk[Head(queue).log], Replayed(Head(queue)))]
    BY <1>1 DEF Write
  <2> QED
    BY <1>1, <2>1 DEF Write, Appends, Idle, contents
<1>2. CASE WriteFails
  <2>1. PICK file \in Damaged(disk[Head(queue).log], Replayed(Head(queue))) :
          disk' = [disk EXCEPT ![Head(queue).log] = file]
    BY <1>2 DEF WriteFails
  <2> QED
    BY <1>2, <2>1 DEF WriteFails, Appends, Idle, contents
<1> QED
  BY <1>1, <1>2

LEMMA AppendTypes ==
    ASSUME DisputeInv, queue # <<>>, NEW file, Appends(Head(queue), file),
           queue' = Tail(queue), UNCHANGED <<deeds, disputes, offers, losses, mem>>,
           faults' \in 0..MaxFaults
    PROVE  DisputeInv'
<1> DEFINE line == Head(queue)
           L == Lines(Len(deeds))
           OwnImages == Own!Index(1..Len(deeds))
<1>1. queue \in Seq(L)
  BY DEF DisputeInv
<1>2. line \in L /\ Tail(queue) \in Seq(L)
  <2> HIDE DEF L
  <2> QED
    BY <1>1
<1>3. disk \in [own : Files(OwnImages), trade : Files(SUBSET OfferIds),
                dip : Files(TreatyStates), con : Files(Cases)]
  BY DEF DisputeInv, DiskTypes
<1>4. /\ line.log \in {"own", "trade", "dip", "con"}
      /\ line.log = "own" => Replayed(line) \in OwnImages
      /\ line.log = "trade" => Replayed(line) \in SUBSET OfferIds
      /\ line.log = "dip" => Replayed(line) \in TreatyStates
      /\ line.log = "con" => Replayed(line) \in Cases
  BY <1>2, ReplayedTypes
<1>5. /\ disk' = [disk EXCEPT ![line.log] = file]
      /\ \/ file = Written(disk[line.log], Replayed(line))
         \/ file \in Damaged(disk[line.log], Replayed(line))
  BY DEF Appends
<1> HIDE DEF line, OwnImages
<1>6. disk' \in [own : Files(OwnImages), trade : Files(SUBSET OfferIds),
                 dip : Files(TreatyStates), con : Files(Cases)]
  <2>1. CASE line.log = "own"
    <3>1. file \in Files(OwnImages)
      BY <1>3, <1>4, <1>5, <2>1, AppendImages
    <3> QED
      BY <1>3, <1>5, <2>1, <3>1
  <2>2. CASE line.log = "trade"
    <3>1. file \in Files(SUBSET OfferIds)
      BY <1>3, <1>4, <1>5, <2>2, AppendImages
    <3> QED
      BY <1>3, <1>5, <2>2, <3>1
  <2>3. CASE line.log = "dip"
    <3>1. file \in Files(TreatyStates)
      BY <1>3, <1>4, <1>5, <2>3, AppendImages
    <3> QED
      BY <1>3, <1>5, <2>3, <3>1
  <2>4. CASE line.log = "con"
    <3>1. file \in Files(Cases)
      BY <1>3, <1>4, <1>5, <2>4, AppendImages
    <3> QED
      BY <1>3, <1>5, <2>4, <3>1
  <2> QED
    BY <1>4, <2>1, <2>2, <2>3, <2>4
<1> QED
  BY <1>2, <1>6 DEF DisputeInv, DiskTypes, OwnImages

LEMMA CrashTypes ==
    ASSUME DisputeInv, Crash
    PROVE  DisputeInv'
<1>1. /\ mem' = Rebuilt /\ queue' = <<>> /\ losses' = losses + 1 /\ losses < MaxLosses
      /\ UNCHANGED <<deeds, disputes, offers, disk, faults>>
  BY DEF Crash
<1>2. MaxLosses \in Nat
  BY DisputesAssumption
<1>3. losses' \in 0..MaxLosses
  BY <1>1, <1>2 DEF DisputeInv
<1>4. mem' \in Ledgers(Len(deeds))
  BY <1>1, Rebuilding DEF DisputeInv
<1>5. queue' \in Seq(Lines(Len(deeds)))
  BY <1>1
<1> QED
  BY <1>1, <1>3, <1>4, <1>5 DEF DisputeInv, DiskTypes

LEMMA OneLine ==
    ASSUME NEW S, NEW line \in S
    PROVE  <<line>> \in Seq(S) /\ Len(<<line>>) = 1 /\ <<line>>[1] = line
OBVIOUS

(* What an operation has to leave behind.                                  *)
LEMMA OperationTypes ==
    ASSUME DisputeInv, deeds' \in Seq(Deed), Len(deeds) <= Len(deeds'),
           disputes' \in Seq(Suit), Len(disputes') <= MaxDisputes, offers' \in Seq(Terms),
           mem' \in Ledgers(Len(deeds')), queue' \in Seq(Lines(Len(deeds'))),
           UNCHANGED <<disk, losses, faults>>
    PROVE  DisputeInv'
<1>1. Len(deeds) \in Nat /\ Len(deeds') \in Nat
  BY DEF DisputeInv
<1>2. Own!Index(1..Len(deeds)) \subseteq Own!Index(1..Len(deeds'))
  BY <1>1, LedgersGrow
<1>3. DiskTypes'
  BY <1>2 DEF DisputeInv, DiskTypes, Files
<1> QED
  BY <1>3 DEF DisputeInv

LEMMA StepTypes ==
    ASSUME NEW dd \in Seq(Deed), NEW L \in Ledgers(Len(dd)), NEW line \in Lines(Len(dd))
    PROVE  Step(dd, L, line) \in Ledgers(Len(dd))
<1>1. CASE line \in OwnLines(Len(dd))
  <2>1. OwnStep(dd, L.own, line) \in Own!Index(1..Len(dd))
    BY <1>1, OwnStepTypes DEF Ledgers
  <2>2. line.log = "own"
    BY <1>1, LineFacts
  <2> HIDE DEF Cases
  <2> QED
    BY <2>1, <2>2 DEF Step, Ledgers
<1>2. CASE line \in OfferLines
  <2>1. line.log = "trade" /\ line.id \in OfferIds
    BY <1>2, LineFacts
  <2> QED
    BY <2>1 DEF Step, Ledgers
<1>3. CASE line \in BreakLines
  <2>1. line.log = "dip" /\ line.id \in Treaties
    BY <1>3, LineFacts
  <2>2. [L.dip EXCEPT ![line.id] = "broken"] \in TreatyStates
    BY <2>1 DEF Ledgers, TreatyStates
  <2> QED
    BY <2>1, <2>2 DEF Step, Ledgers
<1>4. CASE line \in CaseLines
  <2>1. line.log = "con"
    BY <1>4, LineFacts
  <2>2. ReplayCase(L.con, line) \in Cases
    BY <1>4, CaseTypes DEF Ledgers
  <2> QED
    BY <2>1, <2>2 DEF Step, Ledgers
<1> QED
  BY <1>1, <1>2, <1>3, <1>4 DEF Lines

-----------------------------------------------------------------------------
(* The operations that append one line: the memory takes the step that the *)
(* line stands for.                                                        *)

Logged(line) ==
    /\ line \in Lines(Len(deeds'))
    /\ queue' = <<line>>
    /\ mem' = Step(deeds', mem, line)
    /\ queue = <<>>
    /\ UNCHANGED <<disk, losses, faults>>

LEMMA ClaimLogs ==
    ASSUME DisputeInv, NEW a \in Agents, NEW p \in Plots, Claim(a, p)
    PROVE  /\ Logged(OwnLine("claim", Len(deeds) + 1))
           /\ deeds' = Append(deeds, [owner |-> a, target |-> p])
           /\ UNCHANGED <<disputes, offers>>
<1> DEFINE c == Len(deeds) + 1
           line == OwnLine("claim", c)
<1>1. Len(deeds) \in Nat /\ deeds \in Seq(Deed)
  BY DEF DisputeInv
<1>2. deeds' = Append(deeds, [owner |-> a, target |-> p])
  BY DEF Claim
<1>3. Len(deeds') = c /\ deeds'[c].target = p /\ c \in 1..c
  BY <1>1, <1>2
<1>4. line \in OwnLines(c)
  BY <1>3 DEF OwnLines
<1>5. line.log = "own" /\ line.ev = "claim" /\ line.id = c
  BY DEF OwnLine
<1>6. Step(deeds', mem, line) = [mem EXCEPT !.own = Own!IndexActive(mem.own, c, p)]
  BY <1>3, <1>5 DEF Step, OwnStep, Own!ReplayClaim
<1>7. mem' = [mem EXCEPT !.own = Own!IndexActive(mem.own, c, p)]
  BY DEF Claim, DisputeInv, Ledgers
<1> QED
  BY <1>2, <1>3, <1>4, <1>6, <1>7 DEF Claim, Logged, Lines, Idle

LEMMA ReleaseLogs ==
    ASSUME DisputeInv, NEW c \in 1..Len(deeds), Release(c)
    PROVE  /\ Logged(OwnLine("release", c))
           /\ c \in Own!Held(mem.own)
           /\ UNCHANGED <<deeds, disputes, offers>>
<1> DEFINE line == OwnLine("release", c)
<1>1. line \in OwnLines(Len(deeds))
  BY DEF OwnLines
<1>2. line.log = "own" /\ line.ev = "release" /\ line.id = c
  BY DEF OwnLine
<1>3. deeds' = deeds /\ c \in Own!Held(mem.own)
  BY DEF Release, contents
<1>4. Step(deeds', mem, line) =
        [mem EXCEPT !.own = Own!DeindexActive(mem.own, c, deeds[c].target)]
  BY <1>2, <1>3 DEF Step, OwnStep, Own!ReplayRelease
<1>5. mem' = [mem EXCEPT !.own = Own!DeindexActive(mem.own, c, deeds[c].target)]
  BY DEF Release, DisputeInv, Ledgers
<1> QED
  BY <1>1, <1>3, <1>4, <1>5 DEF Release, Logged, Lines, Idle, contents

LEMMA BreakLogs ==
    ASSUME DisputeInv, NEW t \in Treaties, BreakTreaty(t)
    PROVE  /\ Logged(BreakLine(t))
           /\ UNCHANGED <<deeds, disputes, offers>>
<1> DEFINE line == BreakLine(t)
<1>1. line \in BreakLines
  BY DEF BreakLines
<1>2. line.log = "dip" /\ line.id = t
  BY DEF BreakLine
<1>3. Step(deeds', mem, line) = [mem EXCEPT !.dip[t] = "broken"]
  BY <1>2 DEF Step
<1> QED
  BY <1>1, <1>3 DEF BreakTreaty, Logged, Lines, Idle, contents

LEMMA CaseLogs ==
    ASSUME NEW line \in CaseLines, Idle, mem' = [mem EXCEPT !.con = ReplayCase(mem.con, line)],
           queue' = <<line>>, UNCHANGED <<disk, losses, faults>>
    PROVE  Logged(line)
<1>1. line.log = "con"
  BY LineFacts
<1> QED
  BY <1>1 DEF Logged, Lines, Step, Idle

LEMMA OpenLogs ==
    ASSUME DisputeInv, NEW a \in Agents, NEW b \in Agents, NEW type \in DisputeTypes,
           NEW refs \in Seq(Refs), OpenDispute(a, b, type, refs)
    PROVE  LET evidence == [i \in DOMAIN refs |-> [ref |-> refs[i], by |-> a]]
               d == Len(disputes) + 1
           IN  /\ Logged(CaseLine("opened", d, evidence))
               /\ d \in DisputeIds /\ evidence \in Seq(Entries)
               /\ \A i \in DOMAIN evidence : Citable(evidence[i].ref)
               /\ disputes' = Append(disputes, [initiator |-> a, respondent |-> b, type |-> type])
               /\ UNCHANGED <<deeds, offers>>
<1> DEFINE evidence == [i \in DOMAIN refs |-> [ref |-> refs[i], by |-> a]]
           d == Len(disputes) + 1
           line == CaseLine("opened", d, evidence)
<1>1. d \in DisputeIds
  BY DisputesAssumption DEF DisputeInv, OpenDispute, DisputeIds
<1>2. DOMAIN refs = 1..Len(refs) /\ Len(refs) \in Nat /\ \A i \in DOMAIN refs : refs[i] \in Refs
  BY DEF DisputeInv
<1>3. evidence \in Seq(Entries)
  BY <1>2 DEF Entries
<1>4. line \in CaseLines
  BY <1>1, <1>3 DEF CaseLines, OpenLines
<1>5. \A i \in DOMAIN evidence : Citable(evidence[i].ref)
  BY DEF OpenDispute
<1>6. mem' = [mem EXCEPT !.con = ReplayCase(mem.con, line)]
  BY DEF OpenDispute, DisputeInv, Ledgers
<1>7. queue' = <<line>> /\ Idle /\ UNCHANGED <<disk, losses, faults>>
  BY DEF OpenDispute
<1>8. Logged(line)
  <2> HIDE DEF line
  <2> QED
    BY <1>4, <1>6, <1>7, CaseLogs
<1> QED
  BY <1>1, <1>3, <1>5, <1>8 DEF OpenDispute

LEMMA SubmitLogs ==
    ASSUME DisputeInv, NEW d \in 1..Len(disputes), NEW a \in Agents, NEW ref \in Refs,
           SubmitEvidence(d, a, ref)
    PROVE  /\ Logged(CaseLine("evidence_submitted", d, [ref |-> ref, by |-> a]))
           /\ d \in DisputeIds /\ mem.con[d].status = "open" /\ Citable(ref)
           /\ UNCHANGED <<deeds, disputes, offers>>
<1> DEFINE entry == [ref |-> ref, by |-> a]
           line == CaseLine("evidence_submitted", d, entry)
<1>1. d \in DisputeIds
  BY DisputesAssumption DEF DisputeInv, DisputeIds
<1>2. line \in CaseLines
  BY <1>1 DEF CaseLines, EvidenceLines, Entries
<1>3. line.ev = "evidence_submitted" /\ line.id = d /\ line.data = entry
  BY DEF CaseLine
<1>4. ReplayCase(mem.con, line) = Attach(mem.con, d, entry)
  BY <1>3 DEF ReplayCase, SubmitEvidence
<1>5. mem' = [mem EXCEPT !.con = ReplayCase(mem.con, line)]
  BY <1>4 DEF SubmitEvidence, DisputeInv, Ledgers
<1>6. queue' = <<line>> /\ Idle /\ UNCHANGED <<disk, losses, faults>>
  BY DEF SubmitEvidence, contents
<1>7. Logged(line)
  <2> HIDE DEF line
  <2> QED
    BY <1>2, <1>5, <1>6, CaseLogs
<1> QED
  BY <1>1, <1>7 DEF SubmitEvidence, contents

LEMMA JudgementLogs ==
    ASSUME DisputeInv, NEW d \in 1..Len(disputes), RequestJudgement(d)
    PROVE  /\ \E w \in Winners(mem.own, mem.con[d], d) : Logged(CaseLine("judged", d, w))
           /\ d \in DisputeIds /\ mem.con[d].status = "open"
           /\ UNCHANGED <<deeds, disputes, offers>>
<1>1. d \in DisputeIds
  BY DisputesAssumption DEF DisputeInv, DisputeIds
<1>2. PICK w \in Winners(mem.own, mem.con[d], d) :
        /\ mem' = [mem EXCEPT !.con = Rule(mem.con, d, w)]
        /\ queue' = <<CaseLine("judged", d, w)>>
  BY DEF RequestJudgement, DisputeInv, Ledgers
<1> DEFINE line == CaseLine("judged", d, w)
<1>3. disputes[d] \in Suit
  BY DEF DisputeInv
<1>4. w \in Agents
  BY <1>2, <1>3 DEF Winners, Parties, Suit
<1>5. line \in CaseLines
  BY <1>1, <1>4 DEF CaseLines, RuleLines
<1>6. line.ev = "judged" /\ line.id = d /\ line.data = w
  BY DEF CaseLine
<1>7. ReplayCase(mem.con, line) = Rule(mem.con, d, w)
  BY <1>6 DEF ReplayCase, RequestJudgement
<1>8. mem' = [mem EXCEPT !.con = ReplayCase(mem.con, line)]
  BY <1>2, <1>7
<1>9. queue' = <<line>> /\ Idle /\ UNCHANGED <<disk, losses, faults>>
  BY <1>2 DEF RequestJudgement, contents
<1>10. Logged(line)
  <2> HIDE DEF line
  <2> QED
    BY <1>5, <1>8, <1>9, CaseLogs
<1> QED
  BY <1>1, <1>2, <1>10 DEF RequestJudgement, contents

LEMMA EndLogs ==
    ASSUME DisputeInv, NEW d \in 1..Len(disputes), NEW ev \in {"escalated", "surrendered"},
           \/ ev = "escalated" /\ Escalate(d)
           \/ ev = "surrendered" /\ Surrender(d)
    PROVE  /\ Logged(CaseLine(ev, d, "nobody"))
           /\ d \in DisputeIds
           /\ ev = "escalated" => mem.con[d].status = "judged"
           /\ ev = "surrendered" => mem.con[d].status \in {"open", "judged"}
           /\ UNCHANGED <<deeds, disputes, offers>>
<1> DEFINE line == CaseLine(ev, d, "nobody")
<1>1. d \in DisputeIds
  BY DisputesAssumption DEF DisputeInv, DisputeIds
<1>2. line \in CaseLines
  BY <1>1 DEF CaseLines, EndLines
<1>3. line.ev = ev /\ line.id = d
  BY DEF CaseLine
<1>4. ReplayCase(mem.con, line) = Close(mem.con, d, ev)
  BY <1>3 DEF ReplayCase, Escalate, Surrender
<1>5. mem' = [mem EXCEPT !.con = ReplayCase(mem.con, line)]
  BY <1>4 DEF Escalate, Surrender, DisputeInv, Ledgers
<1>6. queue' = <<line>> /\ Idle /\ UNCHANGED <<disk, losses, faults>>
  BY DEF Escalate, Surrender, contents
<1>7. Logged(line)
  <2> HIDE DEF line
  <2> QED
    BY <1>2, <1>5, <1>6, CaseLogs
<1> QED
  BY <1>1, <1>7 DEF Escalate, Surrender, contents

(* Such an operation leaves every type as it was.                          *)
LEMMA LoggedTypes ==
    ASSUME DisputeInv, NEW line, Logged(line), deeds' \in Seq(Deed), Len(deeds) <= Len(deeds'),
           disputes' \in Seq(Suit), Len(disputes') <= MaxDisputes, offers' = offers
    PROVE  DisputeInv'
<1>1. /\ line \in Lines(Len(deeds')) /\ queue' = <<line>> /\ mem' = Step(deeds', mem, line)
      /\ UNCHANGED <<disk, losses, faults>>
  BY DEF Logged
<1>2. Len(deeds) \in Nat /\ Len(deeds') \in Nat
  BY DEF DisputeInv
<1>3. mem \in Ledgers(Len(deeds'))
  BY <1>2, LedgersGrow DEF DisputeInv
<1>4. mem' \in Ledgers(Len(deeds'))
  BY <1>1, <1>3, StepTypes
<1>5. queue' \in Seq(Lines(Len(deeds')))
  BY <1>1, OneLine
<1> QED
  BY <1>1, <1>4, <1>5, OperationTypes DEF DisputeInv

-----------------------------------------------------------------------------
(* Paths: lines replayed one by one lead from some ledgers to others.      *)

IsPath(p, dd, L, lines, M) ==
    /\ p[0] = L /\ p[Len(lines)] = M
    /\ \A i \in 1..Len(lines) : p[i] = Step(dd, p[i-1], lines[i])

Path(dd, L, lines, M) == \E p : IsPath(p, dd, L, lines, M)

Extends(dd, longer) ==
    /\ Len(dd) <= Len(longer)
    /\ \A c \in 1..Len(dd) : longer[c] = dd[c]

LEMMA EmptyPath ==
    ASSUME NEW dd, NEW L, NEW M
    PROVE  Path(dd, L, <<>>, M) <=> L = M
<1>1. ASSUME L = M PROVE Path(dd, L, <<>>, M)
  <2> DEFINE p == [i \in 0..0 |-> L]
  <2>1. IsPath(p, dd, L, <<>>, M)
    BY <1>1 DEF IsPath
  <2> QED
    BY <2>1 DEF Path
<1>2. ASSUME Path(dd, L, <<>>, M) PROVE L = M
  <2>1. PICK p : IsPath(p, dd, L, <<>>, M)
    BY <1>2 DEF Path
  <2> QED
    BY <2>1 DEF IsPath
<1> QED
  BY <1>1, <1>2

LEMMA PathGrows ==
    ASSUME NEW S, NEW dd, NEW L, NEW lines \in Seq(S), NEW M, NEW line \in S,
           Path(dd, L, lines, M)
    PROVE  Path(dd, L, Append(lines, line), Step(dd, M, line))
<1> DEFINE n == Len(lines)
           longer == Append(lines, line)
<1>1. PICK p : IsPath(p, dd, L, lines, M)
  BY DEF Path
<1>2. /\ n \in Nat /\ Len(longer) = n + 1 /\ longer[n + 1] = line
      /\ \A i \in 1..n : longer[i] = lines[i]
  OBVIOUS
<1> DEFINE q == [i \in 0..(n + 1) |-> IF i = n + 1 THEN Step(dd, M, line) ELSE p[i]]
<1>3. /\ q[n + 1] = Step(dd, M, line)
      /\ \A i \in 0..n : q[i] = p[i]
  BY <1>2
<1>4. p[0] = L /\ p[n] = M /\ \A i \in 1..n : p[i] = Step(dd, p[i-1], lines[i])
  BY <1>1 DEF IsPath
<1> HIDE DEF q, longer, n
<1>5. q[0] = L /\ q[n + 1] = Step(dd, M, line)
  BY <1>2, <1>3, <1>4
<1>6. ASSUME NEW i \in 1..(n + 1) PROVE q[i] = Step(dd, q[i-1], longer[i])
  <2>1. CASE i = n + 1
    <3>1. i - 1 = n /\ n \in 0..n
      BY <1>2, <2>1
    <3> QED
      BY <1>2, <1>3, <1>4, <2>1, <3>1
  <2>2. CASE i \in 1..n
    <3>1. i \in 0..n /\ i - 1 \in 0..n
      BY <1>2, <2>2
    <3> QED
      BY <1>2, <1>3, <1>4, <2>2, <3>1
  <2> QED
    BY <1>2, <2>1, <2>2
<1>7. IsPath(q, dd, L, longer, Step(dd, M, line))
  BY <1>2, <1>5, <1>6 DEF IsPath
<1> QED
  BY <1>7 DEF Path, longer

LEMMA PathShrinks ==
    ASSUME NEW S, NEW dd, NEW L, NEW lines \in Seq(S), lines # <<>>, NEW M,
           Path(dd, L, lines, M)
    PROVE  Path(dd, Step(dd, L, Head(lines)), Tail(lines), M)
<1> DEFINE n == Len(lines)
           rest == Tail(lines)
<1>1. PICK p : IsPath(p, dd, L, lines, M)
  BY DEF Path
<1>2. /\ n \in Nat /\ n > 0 /\ Len(rest) = n - 1 /\ lines[1] = Head(lines)
      /\ \A i \in 1..(n - 1) : rest[i] = lines[i + 1]
  OBVIOUS
<1> DEFINE q == [i \in 0..(n - 1) |-> p[i + 1]]
<1>3. \A i \in 0..(n - 1) : q[i] = p[i + 1]
  BY <1>2
<1>4. p[0] = L /\ p[n] = M /\ \A i \in 1..n : p[i] = Step(dd, p[i-1], lines[i])
  BY <1>1 DEF IsPath
<1> HIDE DEF q, rest, n
<1>5. 0 \in 0..(n - 1) /\ n - 1 \in 0..(n - 1) /\ 1 \in 1..n /\ 0 + 1 = 1 /\ 1 - 1 = 0
      /\ (n - 1) + 1 = n
  BY <1>2
<1>6. q[0] = Step(dd, L, Head(lines)) /\ q[n - 1] = M
  <2>1. q[0] = p[1] /\ p[1] = Step(dd, p[1 - 1], lines[1])
    BY <1>3, <1>4, <1>5
  <2>2. q[n - 1] = p[n]
    BY <1>3, <1>5
  <2> QED
    BY <1>2, <1>4, <1>5, <2>1, <2>2
<1>7. ASSUME NEW i \in 1..(n - 1) PROVE q[i] = Step(dd, q[i-1], rest[i])
  <2>1. i \in 0..(n - 1) /\ i - 1 \in 0..(n - 1) /\ i + 1 \in 1..n
        /\ (i - 1) + 1 = i /\ (i + 1) - 1 = i
    BY <1>2
  <2>2. q[i] = p[i + 1] /\ q[i - 1] = p[i] /\ rest[i] = lines[i + 1]
    BY <1>2, <1>3, <2>1
  <2>3. p[i + 1] = Step(dd, p[(i + 1) - 1], lines[i + 1])
    BY <1>4, <2>1
  <2> QED
    BY <2>1, <2>2, <2>3
<1>8. IsPath(q, dd, Step(dd, L, Head(lines)), rest, M)
  BY <1>2, <1>6, <1>7 DEF IsPath
<1> QED
  BY <1>8 DEF Path, rest

(* Later claims leave the meaning of earlier lines alone.                  *)
LEMMA PathKept ==
    ASSUME NEW dd \in Seq(Deed), NEW longer, Extends(dd, longer), NEW L,
           NEW lines \in Seq(Lines(Len(dd))), NEW M, Path(dd, L, lines, M)
    PROVE  Path(longer, L, lines, M)
<1>1. PICK p : IsPath(p, dd, L, lines, M)
  BY DEF Path
<1>2. ASSUME NEW K, NEW line \in Lines(Len(dd))
      PROVE  Step(longer, K, line) = Step(dd, K, line)
  <2>1. CASE line \in OwnLines(Len(dd))
    <3>1. line.log = "own" /\ line.id \in 1..Len(dd)
      BY <2>1, LineFacts
    <3>2. longer[line.id] = dd[line.id]
      BY <3>1 DEF Extends
    <3> QED
      BY <3>1, <3>2 DEF Step, OwnStep
  <2>2. CASE line \notin OwnLines(Len(dd))
    <3>1. line.log \in {"trade", "dip", "con"}
      BY <2>2, LineFacts DEF Lines
    <3> QED
      BY <3>1 DEF Step
  <2> QED
    BY <2>1, <2>2
<1>3. \A i \in 1..Len(lines) : lines[i] \in Lines(Len(dd))
  OBVIOUS
<1>4. IsPath(p, longer, L, lines, M)
  BY <1>1, <1>2, <1>3 DEF IsPath
<1> QED
  BY <1>4 DEF Path

-----------------------------------------------------------------------------
(* The consequences of a judgement, entry by entry.                        *)

StageLines(n) == OwnLines(n) \cup BreakLines
Stages(n) ==
    [ix : Own!Index(1..n), deeds : Seq(Deed), offers : Seq(Terms), trade : SUBSET OfferIds,
     dip : TreatyStates, lines : Seq(StageLines(n)), winner : Agents, loser : Agents]
IsStage(st) == st \in Stages(Len(st.deeds))

(* The ledgers of a stage, when the disputes are cs.                       *)
Left(st, cs) == [own |-> st.ix, trade |-> st.trade, dip |-> st.dip, con |-> cs]

(* Of the claims in C none has become known or is held again, and no       *)
(* treaty has come back.                                                   *)
LaterOn(L, M, C) ==
    /\ \A c \in C : c \in M.own.known <=> c \in L.own.known
    /\ \A c \in C : c \in Own!Held(M.own) => c \in Own!Held(L.own)
    /\ \A t \in Treaties : L.dip[t] = "broken" => M.dip[t] = "broken"
    /\ L.trade \subseteq M.trade

Later(L, M, n) == LaterOn(L, M, 1..n)

IsClaim(line) == line.log = "own" /\ line.ev = "claim"

(* The claims that lines announce are not among the first n.               *)
NewClaims(lines, n) == \A i \in 1..Len(lines) : IsClaim(lines[i]) => lines[i].id > n

SameParties(st, new) ==
    new.offers = st.offers /\ new.trade = st.trade
    /\ new.winner = st.winner /\ new.loser = st.loser

Follows(start, st, cs) ==
    /\ IsStage(st)
    /\ Extends(start.deeds, st.deeds)
    /\ SameParties(start, st)
    /\ Path(st.deeds, Left(start, cs), st.lines, Left(st, cs))
    /\ NewClaims(st.lines, Len(start.deeds))
    /\ Later(Left(start, cs), Left(st, cs), Len(start.deeds))

LEMMA StageIs ==
    ASSUME NEW st, IsStage(st)
    PROVE  /\ Len(st.deeds) \in Nat /\ st.ix \in Own!Index(1..Len(st.deeds))
           /\ st.deeds \in Seq(Deed) /\ st.offers \in Seq(Terms) /\ st.trade \in SUBSET OfferIds
           /\ st.dip \in TreatyStates /\ st.lines \in Seq(StageLines(Len(st.deeds)))
           /\ st.winner \in Agents /\ st.loser \in Agents
           /\ st \in Stages(Len(st.deeds))
BY DEF IsStage, Stages

LEMMA StageLinesAre ==
    ASSUME NEW n \in Nat, NEW m \in Nat, n <= m
    PROVE  /\ StageLines(n) \subseteq Lines(n)
           /\ StageLines(n) \subseteq StageLines(m)
           /\ \A lines \in Seq(StageLines(n)) : lines \in Seq(Lines(n))
           /\ \A lines \in Seq(StageLines(n)) : lines \in Seq(StageLines(m))
<1>1. 1..n \subseteq 1..m
  OBVIOUS
<1>2. StageLines(n) \subseteq Lines(n)
  BY DEF StageLines, Lines
<1>3. StageLines(n) \subseteq StageLines(m)
  BY <1>1 DEF StageLines, OwnLines
<1> QED
  BY <1>2, <1>3

LEMMA LaterIsTransitive ==
    ASSUME NEW L, NEW M, NEW N, NEW n, Later(L, M, n), Later(M, N, n)
    PROVE  Later(L, N, n)
BY DEF Later, LaterOn

LEMMA ExtendsIsTransitive ==
    ASSUME NEW S, NEW d1 \in Seq(S), NEW d2 \in Seq(S), NEW d3 \in Seq(S),
           Extends(d1, d2), Extends(d2, d3)
    PROVE  Extends(d1, d3)
BY DEF Extends

(* One more line.                                                          *)
LEMMA FollowsOn ==
    ASSUME NEW start, IsStage(start), NEW cs, NEW st, Follows(start, st, cs),
           NEW new, IsStage(new), Extends(st.deeds, new.deeds), SameParties(st, new),
           NEW line \in StageLines(Len(new.deeds)), new.lines = Append(st.lines, line),
           Left(new, cs) = Step(new.deeds, Left(st, cs), line),
           IsClaim(line) => line.id > Len(start.deeds),
           Later(Left(st, cs), Left(new, cs), Len(start.deeds))
    PROVE  Follows(start, new, cs)
<1> DEFINE n == Len(st.deeds)
           m == Len(new.deeds)
<1>1. IsStage(st)
  BY DEF Follows
<1>2. n \in Nat /\ m \in Nat /\ n <= m
  BY <1>1, StageIs DEF Extends
<1>3. st.lines \in Seq(StageLines(n)) /\ st.deeds \in Seq(Deed)
  BY <1>1, StageIs
<1>4. st.lines \in Seq(Lines(n)) /\ st.lines \in Seq(StageLines(m))
  BY <1>2, <1>3, StageLinesAre
<1> HIDE DEF n, m
<1>5. Path(new.deeds, Left(start, cs), st.lines, Left(st, cs))
  <2>1. Path(st.deeds, Left(start, cs), st.lines, Left(st, cs))
    BY DEF Follows
  <2> QED
    BY <1>3, <1>4, <2>1, PathKept DEF n
<1>6. Path(new.deeds, Left(start, cs), new.lines, Left(new, cs))
  BY <1>4, <1>5, PathGrows DEF m
<1>7. NewClaims(new.lines, Len(start.deeds))
  <2>1. NewClaims(st.lines, Len(start.deeds))
    BY DEF Follows
  <2>2. /\ Len(new.lines) = Len(st.lines) + 1 /\ new.lines[Len(st.lines) + 1] = line
        /\ \A i \in 1..Len(st.lines) : new.lines[i] = st.lines[i]
        /\ Len(st.lines) \in Nat
    BY <1>4
  <2>3. ASSUME NEW i \in 1..Len(new.lines), IsClaim(new.lines[i])
        PROVE  new.lines[i].id > Len(start.deeds)
    <3>1. CASE i = Len(st.lines) + 1
      BY <2>2, <2>3, <3>1
    <3>2. CASE i \in 1..Len(st.lines)
      BY <2>1, <2>2, <2>3, <3>2 DEF NewClaims
    <3> QED
      BY <2>2, <3>1, <3>2
  <2> QED
    BY <2>3 DEF NewClaims
<1>8. Later(Left(start, cs), Left(new, cs), Len(start.deeds))
  BY LaterIsTransitive DEF Follows
<1>9. Extends(start.deeds, new.deeds)
  <2>1. start.deeds \in Seq(Deed) /\ new.deeds \in Seq(Deed)
    BY StageIs
  <2> QED
    BY <1>3, <2>1, ExtendsIsTransitive DEF Follows
<1>10. SameParties(start, new)
  BY DEF SameParties, Follows
<1> QED
  BY <1>6, <1>7, <1>8, <1>9, <1>10 DEF Follows

(* A cited claim is released.                                              *)
Freed(st, c) ==
    [st EXCEPT !.ix = Own!DeindexActive(st.ix, c, st.deeds[c].target),
               !.lines = Append(st.lines, OwnLine("release", c))]

(* Its plot is claimed for the winner ...                                  *)
Granted(st, p) ==
    [st EXCEPT !.ix = Own!IndexActive(st.ix, Len(st.deeds) + 1, p),
               !.deeds = Append(st.deeds, [owner |-> st.winner, target |-> p]),
               !.lines = Append(st.lines, OwnLine("claim", Len(st.deeds) + 1))]

(* ... or refused.                                                         *)
Refused(st, c) == [st EXCEPT !.lines = Append(st.lines, OwnLine("conflict", c))]

Broken(st, t) ==
    [st EXCEPT !.dip[t] = "broken", !.lines = Append(st.lines, BreakLine(t))]

LEMMA FreedFollows ==
    ASSUME NEW start, IsStage(start), NEW cs, NEW st, Follows(start, st, cs),
           NEW c \in 1..Len(st.deeds), c \in Own!Held(st.ix)
    PROVE  /\ Follows(start, Freed(st, c), cs)
           /\ Later(Left(st, cs), Left(Freed(st, c), cs), Len(start.deeds))
           /\ c \notin Own!Held(Freed(st, c).ix)
           /\ Freed(st, c).deeds = st.deeds
<1> DEFINE n == Len(st.deeds)
           p == st.deeds[c].target
           ix == Own!DeindexActive(st.ix, c, p)
           line == OwnLine("release", c)
           new == Freed(st, c)
<1>1. IsStage(st)
  BY DEF Follows
<1>2. /\ n \in Nat /\ st.ix \in Own!Index(1..n) /\ st.deeds \in Seq(Deed) /\ st \in Stages(n)
      /\ st.lines \in Seq(StageLines(n))
  BY <1>1, StageIs
<1>3. p \in Plots
  <2>1. st.deeds[c] \in Deed
    BY <1>2
  <2> QED
    BY <2>1 DEF Deed
<1>4. ix \in Own!Index(1..n)
  BY <1>2, <1>3 DEF Own!DeindexActive, Own!Index
<1>5. line \in StageLines(n) /\ line.log = "own" /\ line.ev = "release" /\ line.id = c
  BY DEF StageLines, OwnLines, OwnLine
<1>6. Append(st.lines, line) \in Seq(StageLines(n))
  BY <1>2, <1>5
<1>7. /\ new \in Stages(n) /\ new.deeds = st.deeds /\ new.ix = ix /\ new.dip = st.dip
      /\ new.lines = Append(st.lines, line) /\ SameParties(st, new) /\ IsStage(new)
  BY <1>2, <1>4, <1>6 DEF Freed, Stages, SameParties, IsStage
<1>8. ix.known = st.ix.known /\ Own!Held(ix) = Own!Held(st.ix) \ {c}
  BY DEF Own!DeindexActive, Own!Held
<1>9. OwnStep(new.deeds, st.ix, line) = ix
  BY <1>5, <1>7 DEF OwnStep, Own!ReplayRelease
<1>10. Left(new, cs) = Step(new.deeds, Left(st, cs), line)
  <2>1. Step(new.deeds, Left(st, cs), line) = [Left(st, cs) EXCEPT !.own = ix]
    BY <1>5, <1>9 DEF Step, Left
  <2> QED
    BY <1>7, <2>1 DEF Left, SameParties
<1>11. Later(Left(st, cs), Left(new, cs), Len(start.deeds))
  BY <1>7, <1>8 DEF Later, LaterOn, Left, SameParties
<1>12. Extends(st.deeds, new.deeds) /\ ~IsClaim(line)
  BY <1>2, <1>5, <1>7 DEF Extends, IsClaim
<1> HIDE DEF line, ix, new
<1>13. Follows(start, new, cs)
  BY <1>5, <1>7, <1>10, <1>11, <1>12, FollowsOn
<1> QED
  BY <1>7, <1>8, <1>11, <1>13 DEF new

LEMMA GrantedFollows ==
    ASSUME NEW start, IsStage(start), NEW cs, NEW st, Follows(start, st, cs),
           NEW p \in Plots
    PROVE  /\ Follows(start, Granted(st, p), cs)
           /\ Later(Left(st, cs), Left(Granted(st, p), cs), Len(start.deeds))
           /\ Extends(st.deeds, Granted(st, p).deeds)
           /\ \A c \in 1..Len(st.deeds) :
                 c \in Own!Held(Granted(st, p).ix) => c \in Own!Held(st.ix)
<1> DEFINE n == Len(st.deeds)
           m == n + 1
           deed == [owner |-> st.winner, target |-> p]
           ix == Own!IndexActive(st.ix, m, p)
           line == OwnLine("claim", m)
           new == Granted(st, p)
<1>1. IsStage(st)
  BY DEF Follows
<1>2. /\ n \in Nat /\ st.ix \in Own!Index(1..n) /\ st.deeds \in Seq(Deed) /\ st \in Stages(n)
      /\ st.lines \in Seq(StageLines(n)) /\ st.winner \in Agents
  BY <1>1, StageIs
<1>3. /\ Append(st.deeds, deed) \in Seq(Deed) /\ Len(Append(st.deeds, deed)) = m
      /\ \A c \in 1..n : Append(st.deeds, deed)[c] = st.deeds[c]
      /\ Append(st.deeds, deed)[m] = deed
  BY <1>2 DEF Deed
<1>4. ix \in Own!Index(1..m)
  <2>1. st.ix \in Own!Index(1..m) /\ m \in 1..m
    BY <1>2, LedgersGrow
  <2> QED
    BY <2>1 DEF Own!IndexActive, Own!Index
<1>5. line \in StageLines(m) /\ line.log = "own" /\ line.ev = "claim" /\ line.id = m
  BY <1>2 DEF StageLines, OwnLines, OwnLine
<1>6. Append(st.lines, line) \in Seq(StageLines(m))
  <2>1. st.lines \in Seq(StageLines(m))
    BY <1>2, StageLinesAre
  <2> QED
    BY <1>5, <2>1
<1>7. /\ new.deeds = Append(st.deeds, deed) /\ new.ix = ix /\ new.dip = st.dip
      /\ new.lines = Append(st.lines, line) /\ SameParties(st, new) /\ new \in Stages(m)
  BY <1>2, <1>3, <1>4, <1>6 DEF Granted, Stages, SameParties
<1>8. IsStage(new) /\ Extends(st.deeds, new.deeds) /\ Len(new.deeds) = m
  BY <1>2, <1>3, <1>7 DEF IsStage, Extends
<1>9. /\ ix.known = st.ix.known \cup {m} /\ ix.released = st.ix.released
      /\ \A c \in 1..n : c \in ix.known <=> c \in st.ix.known
      /\ \A c \in 1..n : c \in Own!Held(ix) => c \in Own!Held(st.ix)
  <2>1. ix.known = st.ix.known \cup {m} /\ ix.released = st.ix.released
    BY DEF Own!IndexActive
  <2>2. \A c \in 1..n : c # m
    BY <1>2
  <2> QED
    BY <2>1, <2>2 DEF Own!Held
<1>10. OwnStep(new.deeds, st.ix, line) = ix
  <2>1. new.deeds[m].target = p
    BY <1>3, <1>7
  <2> QED
    BY <1>5, <2>1 DEF OwnStep, Own!ReplayClaim
<1>11. Left(new, cs) = Step(new.deeds, Left(st, cs), line)
  <2>1. Step(new.deeds, Left(st, cs), line) = [Left(st, cs) EXCEPT !.own = ix]
    BY <1>5, <1>10 DEF Step, Left
  <2> QED
    BY <1>7, <2>1 DEF Left, SameParties
<1>12. Len(start.deeds) \in Nat /\ Len(start.deeds) <= n
  BY StageIs DEF Follows, Extends
<1>13. Later(Left(st, cs), Left(new, cs), Len(start.deeds))
  <2>1. \A c \in 1..Len(start.deeds) : c \in 1..n
    BY <1>2, <1>12
  <2> QED
    BY <1>7, <1>9, <2>1 DEF Later, LaterOn, Left, SameParties
<1>14. line.id > Len(start.deeds)
  BY <1>2, <1>5, <1>12
<1> HIDE DEF line, ix, new, deed
<1>15. Follows(start, new, cs)
  BY <1>5, <1>7, <1>8, <1>11, <1>13, <1>14, FollowsOn
<1> QED
  BY <1>7, <1>8, <1>9, <1>13, <1>15 DEF new

LEMMA RefusedFollows ==
    ASSUME NEW start, IsStage(start), NEW cs, NEW st, Follows(start, st, cs),
           NEW c \in 1..Len(st.deeds)
    PROVE  /\ Follows(start, Refused(st, c), cs)
           /\ Later(Left(st, cs), Left(Refused(st, c), cs), Len(start.deeds))
           /\ Refused(st, c).deeds = st.deeds /\ Refused(st, c).ix = st.ix
<1> DEFINE n == Len(st.deeds)
           line == OwnLine("conflict", c)
           new == Refused(st, c)
<1>1. IsStage(st)
  BY DEF Follows
<1>2. /\ n \in Nat /\ st.deeds \in Seq(Deed) /\ st \in Stages(n)
      /\ st.lines \in Seq(StageLines(n))
  BY <1>1, StageIs
<1>3. line \in StageLines(n) /\ line.log = "own" /\ line.ev = "conflict"
  BY DEF StageLines, OwnLines, OwnLine
<1>4. Append(st.lines, line) \in Seq(StageLines(n))
  BY <1>2, <1>3
<1>5. /\ new \in Stages(n) /\ new.deeds = st.deeds /\ new.ix = st.ix /\ new.dip = st.dip
      /\ new.lines = Append(st.lines, line) /\ SameParties(st, new) /\ IsStage(new)
  BY <1>2, <1>4 DEF Refused, Stages, SameParties, IsStage
<1>6. OwnStep(new.deeds, st.ix, line) = st.ix
  BY <1>3 DEF OwnStep, Own!ReplayConflict
<1>7. Left(new, cs) = Step(new.deeds, Left(st, cs), line)
  <2>1. Step(new.deeds, Left(st, cs), line) = [Left(st, cs) EXCEPT !.own = st.ix]
    BY <1>3, <1>6 DEF Step, Left
  <2> QED
    BY <1>5, <2>1 DEF Left, SameParties
<1>8. Later(Left(st, cs), Left(new, cs), Len(start.deeds))
  BY <1>5 DEF Later, LaterOn, Left, SameParties
<1>9. Extends(st.deeds, new.deeds) /\ ~IsClaim(line)
  BY <1>2, <1>3, <1>5 DEF Extends, IsClaim
<1> HIDE DEF line, new
<1>10. Follows(start, new, cs)
  BY <1>3, <1>5, <1>7, <1>8, <1>9, FollowsOn
<1> QED
  BY <1>5, <1>8, <1>10 DEF new

LEMMA BrokenFollows ==
    ASSUME NEW start, IsStage(start), NEW cs, NEW st, Follows(start, st, cs),
           NEW t \in Treaties
    PROVE  /\ Follows(start, Broken(st, t), cs)
           /\ Later(Left(st, cs), Left(Broken(st, t), cs), Len(start.deeds))
           /\ Broken(st, t).deeds = st.deeds /\ Broken(st, t).dip[t] = "broken"
<1> DEFINE n == Len(st.deeds)
           line == BreakLine(t)
           new == Broken(st, t)
           dip == [st.dip EXCEPT ![t] = "broken"]
<1>1. IsStage(st)
  BY DEF Follows
<1>2. /\ n \in Nat /\ st.deeds \in Seq(Deed) /\ st \in Stages(n) /\ st.dip \in TreatyStates
      /\ st.lines \in Seq(StageLines(n))
  BY <1>1, StageIs
<1>3. line \in StageLines(n) /\ line.log = "dip" /\ line.id = t
  BY DEF StageLines, BreakLines, BreakLine
<1>4. Append(st.lines, line) \in Seq(StageLines(n))
  BY <1>2, <1>3
<1>5. dip \in TreatyStates /\ dip[t] = "broken"
      /\ \A u \in Treaties : st.dip[u] = "broken" => dip[u] = "broken"
  BY <1>2 DEF TreatyStates
<1>6. /\ new \in Stages(n) /\ new.deeds = st.deeds /\ new.ix = st.ix /\ new.dip = dip
      /\ new.lines = Append(st.lines, line) /\ SameParties(st, new) /\ IsStage(new)
  BY <1>2, <1>4, <1>5 DEF Broken, Stages, SameParties, IsStage
<1>7. Left(new, cs) = Step(new.deeds, Left(st, cs), line)
  <2>1. Step(new.deeds, Left(st, cs), line) = [Left(st, cs) EXCEPT !.dip = dip]
    BY <1>3 DEF Step, Left
  <2> QED
    BY <1>6, <2>1 DEF Left, SameParties
<1>8. Later(Left(st, cs), Left(new, cs), Len(start.deeds))
  BY <1>5, <1>6 DEF Later, LaterOn, Left, SameParties
<1>9. Extends(st.deeds, new.deeds) /\ ~IsClaim(line)
  BY <1>2, <1>3, <1>6 DEF Extends, IsClaim
<1> HIDE DEF line, new, dip
<1>10. Follows(start, new, cs)
  BY <1>3, <1>6, <1>7, <1>8, <1>9, FollowsOn
<1> QED
  BY <1>5, <1>6, <1>8, <1>10 DEF new

LEMMA TwoLines ==
    ASSUME NEW S, NEW lines \in Seq(S), NEW a \in S, NEW b \in S
    PROVE  lines \o <<a, b>> = Append(Append(lines, a), b)
OBVIOUS

(* What an entry of the evidence was cited for has been done.              *)
Done(type, entry, st, n) ==
    /\ type = "territorial" /\ entry.ref.type = "ownership" /\ entry.ref.id \in 1..n =>
          ~(entry.ref.id \in Own!Held(st.ix) /\ st.deeds[entry.ref.id].owner = st.loser)
    /\ type = "treaty_violation" /\ entry.ref.type = "diplomacy" =>
          st.dip[entry.ref.id] = "broken"

LEMMA TransferFollows ==
    ASSUME NEW start, IsStage(start), NEW cs, NEW st, Follows(start, st, cs),
           NEW entry \in Entries
    PROVE  /\ Follows(start, Transfer(entry, st), cs)
           /\ Later(Left(st, cs), Left(Transfer(entry, st), cs), Len(start.deeds))
           /\ Extends(st.deeds, Transfer(entry, st).deeds)
           /\ Done("territorial", entry, Transfer(entry, st), Len(start.deeds))
<1> DEFINE c == entry.ref.id
           p == st.deeds[c].target
           n == Len(st.deeds)
           m == Len(start.deeds)
           due == /\ entry.ref.type = "ownership" /\ c \in Own!Held(st.ix)
                  /\ st.deeds[c].owner = st.loser
           freed == Freed(st, c)
           new == Transfer(entry, st)
<1>1. IsStage(st)
  BY DEF Follows
<1>2. /\ n \in Nat /\ st.ix \in Own!Index(1..n) /\ st.deeds \in Seq(Deed) /\ st \in Stages(n)
      /\ st.lines \in Seq(StageLines(n))
  BY <1>1, StageIs
<1>3. m \in Nat /\ m <= n
  BY StageIs DEF Follows, Extends
<1>4. CASE ~due
  <2>1. new = st
    BY <1>4 DEF Transfer
  <2>2. Later(Left(st, cs), Left(st, cs), m) /\ Extends(st.deeds, st.deeds)
    BY <1>2 DEF Later, LaterOn, Extends
  <2> QED
    BY <1>4, <2>1, <2>2 DEF Done
<1>5. CASE due
  <2>1. c \in 1..n /\ c \in Own!Held(st.ix)
    BY <1>2, <1>5 DEF Own!Index, Own!Held
  <2>2. p \in Plots
    <3>1. st.deeds[c] \in Deed
      BY <1>2, <2>1
    <3> QED
      BY <3>1 DEF Deed
  <2>3. /\ Follows(start, freed, cs)
        /\ Later(Left(st, cs), Left(freed, cs), m)
        /\ c \notin Own!Held(freed.ix)
        /\ freed.deeds = st.deeds
    BY <2>1, FreedFollows
  <2>4. /\ freed.ix = Own!DeindexActive(st.ix, c, p)
        /\ freed.lines = Append(st.lines, OwnLine("release", c))
        /\ freed.winner = st.winner
    BY <1>2 DEF Freed, Stages
  <2>5. /\ OwnLine("release", c) \in StageLines(n) /\ OwnLine("conflict", c) \in StageLines(n)
        /\ OwnLine("release", c) \in StageLines(n + 1)
        /\ OwnLine("claim", n + 1) \in StageLines(n + 1)
        /\ st.lines \in Seq(StageLines(n + 1))
    <3>1. n + 1 \in Nat /\ n <= n + 1 /\ c \in 1..(n + 1) /\ n + 1 \in 1..(n + 1)
      BY <1>2, <2>1
    <3>2. st.lines \in Seq(StageLines(n + 1))
      BY <1>2, <3>1, StageLinesAre
    <3> QED
      BY <2>1, <3>1, <3>2 DEF StageLines, OwnLines
  <2>6. CASE Own!FindConflict(Own!DeindexActive(st.ix, c, p), st.deeds, p) # {}
    <3>1. new = [st EXCEPT !.ix = Own!DeindexActive(st.ix, c, p),
                           !.lines = st.lines \o <<OwnLine("release", c), OwnLine("conflict", c)>>]
      BY <1>2, <1>5, <2>6 DEF Transfer, Stages
    <3>2. st.lines \o <<OwnLine("release", c), OwnLine("conflict", c)>>
            = Append(Append(st.lines, OwnLine("release", c)), OwnLine("conflict", c))
      BY <1>2, <2>5, TwoLines
    <3>3. new = Refused(freed, c)
      BY <1>2, <3>1, <3>2 DEF Refused, Freed, Stages
    <3>4. /\ Follows(start, new, cs) /\ Later(Left(freed, cs), Left(new, cs), m)
          /\ new.deeds = freed.deeds /\ new.ix = freed.ix
      BY <2>1, <2>3, <3>3, RefusedFollows
    <3>5. Later(Left(st, cs), Left(new, cs), m)
      BY <2>3, <3>4, LaterIsTransitive
    <3>6. Extends(st.deeds, new.deeds)
      BY <1>2, <2>3, <3>4 DEF Extends
    <3>7. Done("territorial", entry, new, m)
      BY <2>3, <3>4 DEF Done
    <3> QED
      BY <3>4, <3>5, <3>6, <3>7
  <2>7. CASE Own!FindConflict(Own!DeindexActive(st.ix, c, p), st.deeds, p) = {}
    <3>1. new = [st EXCEPT !.ix = Own!IndexActive(Own!DeindexActive(st.ix, c, p), n + 1, p),
                           !.deeds = Append(st.deeds, [owner |-> st.winner, target |-> p]),
                           !.lines = st.lines \o <<OwnLine("release", c), OwnLine("claim", n + 1)>>]
      BY <1>2, <1>5, <2>7 DEF Transfer, Stages
    <3>2. st.lines \o <<OwnLine("release", c), OwnLine("claim", n + 1)>>
            = Append(Append(st.lines, OwnLine("release", c)), OwnLine("claim", n + 1))
      BY <2>5, TwoLines
    <3>3. new = Granted(freed, p)
      BY <1>2, <2>3, <2>4, <3>1, <3>2 DEF Granted, Freed, Stages
    <3>4. /\ Follows(start, new, cs) /\ Later(Left(freed, cs), Left(new, cs), m)
          /\ Extends(st.deeds, new.deeds)
          /\ c \in Own!Held(new.ix) => c \in Own!Held(freed.ix)
      BY <2>1, <2>2, <2>3, <3>3, GrantedFollows
    <3>5. Later(Left(st, cs), Left(new, cs), m)
      BY <2>3, <3>4, LaterIsTransitive
    <3>6. Done("territorial", entry, new, m)
      BY <2>3, <3>4 DEF Done
    <3> QED
      BY <3>4, <3>5, <3>6
  <2> QED
    BY <2>6, <2>7
<1> QED
  BY <1>4, <1>5

LEMMA BreakFollows ==
    ASSUME NEW start, IsStage(start), NEW cs, NEW st, Follows(start, st, cs),
           NEW entry \in Entries
    PROVE  /\ Follows(start, BreakCited(entry, st), cs)
           /\ Later(Left(st, cs), Left(BreakCited(entry, st), cs), Len(start.deeds))
           /\ Extends(st.deeds, BreakCited(entry, st).deeds)
           /\ Done("treaty_violation", entry, BreakCited(entry, st), Len(start.deeds))
<1> DEFINE t == entry.ref.id
           new == BreakCited(entry, st)
           due == entry.ref.type = "diplomacy" /\ st.dip[t] = "active"
<1>1. IsStage(st)
  BY DEF Follows
<1>2. st.deeds \in Seq(Deed) /\ st.dip \in TreatyStates /\ st \in Stages(Len(st.deeds))
  BY <1>1, StageIs
<1>3. entry.ref.type = "diplomacy" => t \in Treaties
  BY DEF Entries, Refs
<1>4. Later(Left(st, cs), Left(st, cs), Len(start.deeds)) /\ Extends(st.deeds, st.deeds)
  BY <1>2 DEF Later, LaterOn, Extends
<1>5. CASE ~due
  <2>1. new = st
    BY <1>5 DEF BreakCited
  <2>2. entry.ref.type = "diplomacy" => st.dip[t] = "broken"
    BY <1>2, <1>3, <1>5 DEF TreatyStates
  <2> QED
    BY <1>4, <2>1, <2>2 DEF Done
<1>6. CASE due
  <2>1. new = Broken(st, t)
    BY <1>2, <1>6 DEF BreakCited, Broken, Stages
  <2>2. /\ Follows(start, new, cs) /\ Later(Left(st, cs), Left(new, cs), Len(start.deeds))
        /\ new.deeds = st.deeds /\ new.dip[t] = "broken"
    BY <1>3, <1>6, <2>1, BrokenFollows
  <2> QED
    BY <1>4, <2>2 DEF Done
<1> QED
  BY <1>5, <1>6

LEMMA ApplyFollows ==
    ASSUME NEW start, IsStage(start), NEW cs, NEW st, Follows(start, st, cs),
           NEW entry \in Entries, NEW type
    PROVE  /\ Follows(start, Apply(type, entry, st), cs)
           /\ Later(Left(st, cs), Left(Apply(type, entry, st), cs), Len(start.deeds))
           /\ Extends(st.deeds, Apply(type, entry, st).deeds)
           /\ Done(type, entry, Apply(type, entry, st), Len(start.deeds))
<1>1. CASE type = "territorial"
  <2>1. Apply(type, entry, st) = Transfer(entry, st)
    BY <1>1 DEF Apply
  <2> QED
    BY <1>1, <2>1, TransferFollows
<1>2. CASE type = "treaty_violation"
  <2>1. Apply(type, entry, st) = BreakCited(entry, st)
    BY <1>2 DEF Apply
  <2> QED
    BY <1>2, <2>1, BreakFollows
<1>3. CASE type \notin {"territorial", "treaty_violation"}
  <2>1. Apply(type, entry, st) = st
    BY <1>3 DEF Apply
  <2>2. st.deeds \in Seq(Deed)
    BY StageIs DEF Follows
  <2>3. Later(Left(st, cs), Left(st, cs), Len(start.deeds)) /\ Extends(st.deeds, st.deeds)
    BY <2>2 DEF Later, LaterOn, Extends
  <2> QED
    BY <1>3, <2>1, <2>3 DEF Done
<1> QED
  BY <1>1, <1>2, <1>3

(* The recursion in ApplyAll defines a function.                           *)
Applied(st, type, evidence, start, n) ==
    st = [i \in 0..n |-> IF i = 0 THEN start ELSE Apply(type, evidence[i], st[i-1])]

LEMMA ApplyAllUnfolds ==
    ASSUME NEW type, NEW evidence, Len(evidence) \in Nat, NEW start
    PROVE  \E st : /\ Applied(st, type, evidence, start, Len(evidence))
                   /\ ApplyAll(type, evidence, start) = st[Len(evidence)]
<1> DEFINE T == {n \in Nat : \E st : Applied(st, type, evidence, start, n)}
<1>1. 0 \in T
  <2>1. Applied([i \in 0..0 |-> start], type, evidence, start, 0)
    BY DEF Applied
  <2> QED
    BY <2>1
<1>2. ASSUME NEW n \in Nat, n \in T PROVE n + 1 \in T
  <2>1. PICK st : Applied(st, type, evidence, start, n)
    BY <1>2
  <2> DEFINE longer == [i \in 0..(n + 1) |->
                          IF i = 0 THEN start ELSE Apply(type, evidence[i], st[i-1])]
  <2>2. \A i \in 0..n : longer[i] = st[i]
    BY <2>1 DEF Applied
  <2>3. \A i \in 0..(n + 1) : i # 0 => i - 1 \in 0..n
    OBVIOUS
  <2>4. longer = [i \in 0..(n + 1) |->
                    IF i = 0 THEN start ELSE Apply(type, evidence[i], longer[i-1])]
    BY <2>2, <2>3
  <2>5. Applied(longer, type, evidence, start, n + 1)
    BY <2>4 DEF Applied
  <2> QED
    BY <2>5
<1>3. Len(evidence) \in T
  <2> HIDE DEF T
  <2> QED
    BY <1>1, <1>2, NaturalsByInduction
<1>4. \E st : Applied(st, type, evidence, start, Len(evidence))
  BY <1>3
<1> DEFINE st == CHOOSE st : Applied(st, type, evidence, start, Len(evidence))
<1>5. Applied(st, type, evidence, start, Len(evidence))
  BY <1>4
<1>6. ApplyAll(type, evidence, start) = st[Len(evidence)]
  BY DEF ApplyAll, Applied
<1> HIDE DEF st
<1> QED
  BY <1>5, <1>6

(* What has been done stays done.                                          *)
LEMMA DoneStays ==
    ASSUME NEW type, NEW entry \in Entries, NEW n \in Nat, NEW cs, NEW st, NEW new,
           n <= Len(st.deeds), Done(type, entry, st, n), Later(Left(st, cs), Left(new, cs), n),
           Extends(st.deeds, new.deeds), new.loser = st.loser, Len(st.deeds) \in Nat
    PROVE  Done(type, entry, new, n)
<1>1. entry.ref.type = "diplomacy" => entry.ref.id \in Treaties
  BY DEF Entries, Refs
<1>2. \A c \in 1..n : new.deeds[c] = st.deeds[c]
  BY DEF Extends
<1> QED
  BY <1>1, <1>2 DEF Done, Later, LaterOn, Left

LEMMA ApplyAllFollows ==
    ASSUME NEW type, NEW evidence \in Seq(Entries), NEW start, IsStage(start), start.lines = <<>>,
           NEW cs
    PROVE  /\ Follows(start, ApplyAll(type, evidence, start), cs)
           /\ \A i \in 1..Len(evidence) :
                 Done(type, evidence[i], ApplyAll(type, evidence, start), Len(start.deeds))
<1> DEFINE n == Len(evidence)
           m == Len(start.deeds)
<1>1. n \in Nat /\ \A i \in 1..n : evidence[i] \in Entries
  OBVIOUS
<1>2. PICK st : /\ Applied(st, type, evidence, start, n)
                /\ ApplyAll(type, evidence, start) = st[n]
  BY <1>1, ApplyAllUnfolds
<1>3. st[0] = start /\ \A i \in 1..n : st[i] = Apply(type, evidence[i], st[i-1])
  BY <1>1, <1>2 DEF Applied
<1> DEFINE Good(i) == /\ Follows(start, st[i], cs)
                      /\ \A j \in 1..i : Done(type, evidence[j], st[i], m)
           T == {i \in Nat : i <= n => Good(i)}
<1>4. m \in Nat /\ start.deeds \in Seq(Deed)
  BY StageIs
<1>5. 0 \in T
  <2>1. Path(start.deeds, Left(start, cs), start.lines, Left(start, cs))
    BY EmptyPath
  <2>2. NewClaims(start.lines, m)
    BY DEF NewClaims
  <2>3. Extends(start.deeds, start.deeds) /\ SameParties(start, start)
        /\ Later(Left(start, cs), Left(start, cs), m)
    BY <1>4 DEF Extends, SameParties, Later, LaterOn
  <2>4. Follows(start, start, cs)
    BY <2>1, <2>2, <2>3 DEF Follows
  <2> QED
    BY <1>3, <2>4
<1>6. ASSUME NEW i \in Nat, i \in T PROVE i + 1 \in T
  <2> SUFFICES ASSUME i + 1 <= n PROVE Good(i + 1)
    OBVIOUS
  <2>1. Good(i) /\ i + 1 \in 1..n /\ (i + 1) - 1 = i
    BY <1>1, <1>6
  <2>2. st[i + 1] = Apply(type, evidence[i + 1], st[i])
    BY <1>3, <2>1
  <2> DEFINE entry == evidence[i + 1]
             old == st[i]
             new == st[i + 1]
  <2>3. entry \in Entries /\ Follows(start, old, cs) /\ new = Apply(type, entry, old)
    BY <1>1, <2>1, <2>2
  <2>4. /\ Follows(start, new, cs) /\ Later(Left(old, cs), Left(new, cs), m)
        /\ Extends(old.deeds, new.deeds) /\ Done(type, entry, new, m)
    <3> HIDE DEF entry, old, new
    <3> QED
      BY <2>3, ApplyFollows
  <2>5. m <= Len(old.deeds) /\ Len(old.deeds) \in Nat /\ new.loser = old.loser
    BY <2>3, <2>4, StageIs DEF Follows, SameParties, Extends
  <2>6. ASSUME NEW j \in 1..i PROVE Done(type, evidence[j], new, m)
    <3>1. j \in 1..n /\ evidence[j] \in Entries /\ Done(type, evidence[j], old, m)
      BY <1>1, <2>1
    <3> HIDE DEF old, new
    <3> QED
      BY <1>4, <2>4, <2>5, <3>1, DoneStays
  <2>7. \A j \in 1..(i + 1) : j \in 1..i \/ j = i + 1
    OBVIOUS
  <2> QED
    BY <2>4, <2>6, <2>7
<1>7. n \in T
  <2> HIDE DEF T
  <2> QED
    BY <1>1, <1>5, <1>6, NaturalsByInduction
<1> QED
  BY <1>1, <1>2, <1>7

-----------------------------------------------------------------------------
(* What is right about a dispute on a set of ledgers, when claims dd,      *)
(* disputes ss and offers oo have been made.                               *)

LoserOf(suit, w) == IF w = suit.initiator THEN suit.respondent ELSE suit.initiator

(* The winners the evidence allows.                                        *)
Best(own, case, suit) ==
    {w \in {suit.initiator, suit.respondent} :
        \A a \in {suit.initiator, suit.respondent} : Score(own, case, a) <= Score(own, case, w)}

(* What a reference obliges the loser to has been carried out.             *)
Fulfilled(dd, oo, L, suit, loser, d, ref) ==
    /\ suit.type = "territorial" /\ ref.type = "ownership" =>
          ~(ref.id \in Own!Held(L.own) /\ dd[ref.id].owner = loser)
    /\ suit.type = "treaty_violation" /\ ref.type = "diplomacy" => L.dip[ref.id] = "broken"
    /\ suit.type = "theft" /\ Stolen(ref, loser) =>
          \E o \in L.trade : o \in 1..Len(oo) /\ oo[o].of = d

Cites(case, C) ==
    \A i \in 1..Len(case.evidence) :
        case.evidence[i].ref.type = "ownership" => case.evidence[i].ref.id \in C

Settled(dd, oo, L, suit, d) ==
    \A i \in 1..Len(L.con[d].evidence) :
        Fulfilled(dd, oo, L, suit, LoserOf(suit, L.con[d].winner), d, L.con[d].evidence[i].ref)

SoundCase(dd, ss, oo, L, d) ==
    /\ d > Len(ss) => L.con[d] = NoCase
    /\ L.con[d].status = "open" => L.con[d].winner = "nobody"
    /\ Cites(L.con[d], 1..Len(dd))
    /\ L.con[d].winner # "nobody" => L.con[d].winner \in Best(L.own, L.con[d], ss[d])
    /\ L.con[d].status = "resolved" => Settled(dd, oo, L, ss[d], d)

Sound(dd, ss, oo, L) == \A d \in DisputeIds : SoundCase(dd, ss, oo, L, d)

(* A score only depends on what the cited claims are.                      *)
LEMMA ScoreStays ==
    ASSUME NEW case \in Case, NEW C, Cites(case, C), NEW own, NEW own2, NEW a,
           \A c \in C : c \in own2.known <=> c \in own.known
    PROVE  Score(own2, case, a) = Score(own, case, a)
<1> DEFINE Submitted == {i \in DOMAIN case.evidence : case.evidence[i].by = a}
<1>1. DOMAIN case.evidence = 1..Len(case.evidence)
  BY DEF Case
<1>2. \A i \in Submitted : Weight(own2, case.evidence[i]) = Weight(own, case.evidence[i])
  <2> TAKE i \in Submitted
  <2>1. CASE case.evidence[i].ref.type = "ownership"
    <3>1. case.evidence[i].ref.id \in C
      BY <1>1, <2>1 DEF Cites
    <3> QED
      BY <2>1, <3>1 DEF Weight, Supported
  <2>2. CASE case.evidence[i].ref.type # "ownership"
    <3>1. case.evidence[i] \in Entries
      BY DEF Case
    <3>2. case.evidence[i].ref.type \in {"theft", "diplomacy", "utterance"}
      BY <2>2, <3>1 DEF Entries, Refs
    <3> QED
      BY <3>2 DEF Weight, Supported
  <2> QED
    BY <2>1, <2>2
<1>3. [i \in Submitted |-> Weight(own2, case.evidence[i])]
        = [i \in Submitted |-> Weight(own, case.evidence[i])]
  BY <1>2
<1> QED
  BY <1>3 DEF Score

(* A dispute stays right while nobody touches it.                          *)
LEMMA CaseStays ==
    ASSUME NEW dd, NEW ss, NEW oo, NEW dd2, NEW ss2, NEW oo2,
           Len(dd) \in Nat, Len(ss) \in Nat, Len(oo) \in Nat,
           Len(dd2) \in Nat, Len(ss2) \in Nat, Len(oo2) \in Nat,
           Extends(dd, dd2), Extends(ss, ss2), Extends(oo, oo2),
           NEW L, NEW M, NEW d \in DisputeIds, L.con[d] \in Case, M.con[d] = L.con[d],
           SoundCase(dd, ss, oo, L, d),
           NEW C, LaterOn(L, M, C), Cites(L.con[d], C)
    PROVE  SoundCase(dd2, ss2, oo2, M, d)
<1> DEFINE case == L.con[d]
<1>1. /\ d > Len(ss) => case = NoCase
      /\ case.status = "open" => case.winner = "nobody"
      /\ Cites(case, 1..Len(dd))
      /\ case.winner # "nobody" => case.winner \in Best(L.own, case, ss[d])
      /\ case.status = "resolved" => Settled(dd, oo, L, ss[d], d)
  BY DEF SoundCase
<1>2. /\ Len(dd) <= Len(dd2) /\ \A c \in 1..Len(dd) : dd2[c] = dd[c]
      /\ Len(ss) <= Len(ss2) /\ \A c \in 1..Len(ss) : ss2[c] = ss[c]
      /\ Len(oo) <= Len(oo2) /\ \A c \in 1..Len(oo) : oo2[c] = oo[c]
  BY DEF Extends
<1>3. \/ case = NoCase
      \/ d \in 1..Len(ss) /\ ss2[d] = ss[d]
  BY <1>1, <1>2, DisputesAssumption DEF DisputeIds
<1>4. NoCase.winner = "nobody" /\ NoCase.status = "none"
  BY DEF NoCase
<1>5. Cites(case, 1..Len(dd2))
  <2>1. \A c \in 1..Len(dd) : c \in 1..Len(dd2)
    BY <1>2
  <2> QED
    BY <1>1, <2>1 DEF Cites
<1>6. case.winner # "nobody" => case.winner \in Best(M.own, case, ss2[d])
  <2>1. \A c \in C : c \in M.own.known <=> c \in L.own.known
    BY DEF LaterOn
  <2>2. \A a : Score(M.own, case, a) = Score(L.own, case, a)
    BY <2>1, ScoreStays
  <2> QED
    BY <1>1, <1>3, <1>4, <2>2 DEF Best
<1>7. case.status = "resolved" => Settled(dd2, oo2, M, ss2[d], d)
  <2> SUFFICES ASSUME case.status = "resolved", NEW i \in 1..Len(case.evidence)
               PROVE  Fulfilled(dd2, oo2, M, ss2[d], LoserOf(ss2[d], case.winner), d,
                                case.evidence[i].ref)
    BY DEF Settled
  <2> DEFINE ref == case.evidence[i].ref
             loser == LoserOf(ss[d], case.winner)
  <2>1. ss2[d] = ss[d]
    BY <1>3, <1>4
  <2>2. Fulfilled(dd, oo, L, ss[d], loser, d, ref)
    BY <1>1 DEF Settled
  <2>3. ref.type = "ownership" => ref.id \in 1..Len(dd) /\ ref.id \in C
    BY <1>1 DEF Cites
  <2>4. ref.type = "diplomacy" => ref.id \in Treaties
    <3>1. ref \in Refs
      <4>1. case.evidence[i] \in Entries
        BY DEF Case
      <4> QED
        BY <4>1 DEF Entries
    <3> HIDE DEF ref
    <3> QED
      BY <3>1 DEF Refs
  <2> HIDE DEF ref, loser, case
  <2>5. \A o \in 1..Len(oo) : o \in 1..Len(oo2) /\ oo2[o] = oo[o]
    BY <1>2
  <2>6. ref.type = "ownership" => dd2[ref.id] = dd[ref.id]
    BY <1>2, <2>3
  <2>7. Fulfilled(dd2, oo2, M, ss[d], loser, d, ref)
    BY <2>2, <2>3, <2>4, <2>5, <2>6 DEF Fulfilled, LaterOn
  <2> QED
    BY <2>1, <2>7 DEF ref, loser, case
<1>8. d > Len(ss2) => case = NoCase
  BY <1>1, <1>2, DisputesAssumption DEF DisputeIds
<1>9. M.con[d] = case
  OBVIOUS
<1> HIDE DEF case
<1> QED
  BY <1>1, <1>5, <1>6, <1>7, <1>8, <1>9 DEF SoundCase

-----------------------------------------------------------------------------
(* An accepted judgement: what its consequences leave, in all.             *)

OtherLines(n) == OwnLines(n) \cup BreakLines \cup OfferLines

OneMore(oo, longer, d) ==
    \/ longer = oo
    \/ \E terms : longer = Append(oo, terms) /\ terms.of = d

Outcome(start, st, cs, suit, d, evidence) ==
    /\ Left(st, cs).own \in Own!Index(1..Len(st.deeds))
    /\ st.trade \in SUBSET OfferIds /\ st.dip \in TreatyStates
    /\ st.deeds \in Seq(Deed) /\ Extends(start.deeds, st.deeds)
    /\ st.offers \in Seq(Terms) /\ OneMore(start.offers, st.offers, d)
    /\ st.winner = start.winner
    /\ st.lines \in Seq(OtherLines(Len(st.deeds)))
    /\ NewClaims(st.lines, Len(start.deeds))
    /\ Path(st.deeds, Left(start, cs), st.lines, Left(st, cs))
    /\ Later(Left(start, cs), Left(st, cs), Len(start.deeds))
    /\ \A i \in 1..Len(evidence) :
          (evidence[i].ref.type = "ownership" => evidence[i].ref.id \in 1..Len(start.deeds))
            => Fulfilled(st.deeds, st.offers, Left(st, cs), suit, start.loser, d, evidence[i].ref)

LEMMA TransfersOutcome ==
    ASSUME NEW start, IsStage(start), start.lines = <<>>, NEW cs, NEW suit \in Suit,
           NEW d, NEW evidence \in Seq(Entries), suit.type # "theft"
    PROVE  Outcome(start, ApplyAll(suit.type, evidence, start), cs, suit, d, evidence)
<1> DEFINE st == ApplyAll(suit.type, evidence, start)
<1>1. /\ Follows(start, st, cs)
      /\ \A i \in 1..Len(evidence) : Done(suit.type, evidence[i], st, Len(start.deeds))
  BY ApplyAllFollows
<1> HIDE DEF st
<1>2. IsStage(st) /\ st.winner = start.winner /\ st.loser = start.loser
      /\ st.offers = start.offers
  BY <1>1 DEF Follows, SameParties
<1>3. /\ Len(st.deeds) \in Nat /\ st.ix \in Own!Index(1..Len(st.deeds))
      /\ st.deeds \in Seq(Deed) /\ st.offers \in Seq(Terms) /\ st.trade \in SUBSET OfferIds
      /\ st.dip \in TreatyStates /\ st.lines \in Seq(StageLines(Len(st.deeds)))
  BY <1>2, StageIs
<1>4. st.lines \in Seq(OtherLines(Len(st.deeds)))
  <2>1. StageLines(Len(st.deeds)) \subseteq OtherLines(Len(st.deeds))
    BY DEF StageLines, OtherLines
  <2> QED
    BY <1>3, <2>1
<1>5. ASSUME NEW i \in 1..Len(evidence),
             evidence[i].ref.type = "ownership" => evidence[i].ref.id \in 1..Len(start.deeds)
      PROVE  Fulfilled(st.deeds, st.offers, Left(st, cs), suit, start.loser, d, evidence[i].ref)
  <2>1. Done(suit.type, evidence[i], st, Len(start.deeds))
    BY <1>1
  <2> QED
    BY <1>2, <1>5, <2>1 DEF Fulfilled, Done, Left
<1>6. Left(st, cs).own = st.ix
  BY DEF Left
<1>7. /\ Extends(start.deeds, st.deeds) /\ NewClaims(st.lines, Len(start.deeds))
      /\ Path(st.deeds, Left(start, cs), st.lines, Left(st, cs))
      /\ Later(Left(start, cs), Left(st, cs), Len(start.deeds))
  BY <1>1 DEF Follows
<1>8. Outcome(start, st, cs, suit, d, evidence)
  BY <1>2, <1>3, <1>4, <1>5, <1>6, <1>7 DEF Outcome, OneMore
<1> QED
  BY <1>8 DEF st

LEMMA RestitutionOutcome ==
    ASSUME NEW start, IsStage(start), start.lines = <<>>, NEW cs, NEW suit \in Suit,
           NEW d \in DisputeIds, NEW evidence \in Seq(Entries), suit.type = "theft",
           Len(Restitution(start, d, evidence).offers) <= MaxOffers
    PROVE  Outcome(start, Restitution(start, d, evidence), cs, suit, d, evidence)
<1> DEFINE st == Restitution(start, d, evidence)
           new == Len(start.offers) + 1
           owed == \E i \in 1..Len(evidence) : Stolen(evidence[i].ref, start.loser)
           terms == [from |-> start.loser, to |-> start.winner, of |-> d]
           line == OfferLine(new)
<1>1. /\ Len(start.deeds) \in Nat /\ start.ix \in Own!Index(1..Len(start.deeds))
      /\ start.deeds \in Seq(Deed) /\ start.offers \in Seq(Terms)
      /\ start.trade \in SUBSET OfferIds /\ start.dip \in TreatyStates
      /\ start.winner \in Agents /\ start.loser \in Agents
      /\ start \in Stages(Len(start.deeds))
  BY StageIs
<1>2. DOMAIN evidence = 1..Len(evidence)
  OBVIOUS
<1>3. Extends(start.deeds, start.deeds)
  BY <1>1 DEF Extends
<1>4. CASE ~owed
  <2>1. st = start
    BY <1>2, <1>4 DEF Restitution
  <2>2. Path(start.deeds, Left(start, cs), start.lines, Left(start, cs))
    BY EmptyPath
  <2>3. NewClaims(start.lines, Len(start.deeds)) /\ start.lines \in Seq(OtherLines(Len(start.deeds)))
    BY DEF NewClaims
  <2>4. Later(Left(start, cs), Left(start, cs), Len(start.deeds))
    BY DEF Later, LaterOn
  <2>5. \A i \in 1..Len(evidence) :
          Fulfilled(start.deeds, start.offers, Left(start, cs), suit, start.loser, d,
                    evidence[i].ref)
    BY <1>4 DEF Fulfilled
  <2>6. Left(start, cs).own = start.ix
    BY DEF Left
  <2>7. Outcome(start, start, cs, suit, d, evidence)
    BY <1>1, <1>3, <2>2, <2>3, <2>4, <2>5, <2>6 DEF Outcome, OneMore
  <2> QED
    BY <2>1, <2>7
<1>5. CASE owed
  <2>1. st = [start EXCEPT !.offers = Append(start.offers, terms),
                           !.trade = start.trade \cup {new},
                           !.lines = Append(start.lines, line)]
    BY <1>1, <1>2, <1>5 DEF Restitution, Stages
  <2>2. /\ st.offers = Append(start.offers, terms) /\ st.trade = start.trade \cup {new}
        /\ st.lines = Append(start.lines, line) /\ st.ix = start.ix /\ st.deeds = start.deeds
        /\ st.dip = start.dip /\ st.winner = start.winner
    BY <1>1, <2>1 DEF Stages
  <2>3. /\ st.offers \in Seq(Terms) /\ Len(st.offers) = new /\ st.offers[new] = terms
        /\ new \in 1..new /\ Len(start.offers) \in Nat
    BY <1>1, <2>2 DEF Terms
  <2>4. new \in OfferIds
    BY <2>3, DisputesAssumption DEF OfferIds
  <2>5. line \in OfferLines /\ line.log = "trade" /\ line.id = new
    BY <2>4 DEF OfferLines, OfferLine
  <2>6. Append(<<>>, line) \in Seq(OtherLines(Len(start.deeds)))
    <3>1. line \in OtherLines(Len(start.deeds))
      BY <2>5 DEF OtherLines
    <3> HIDE DEF line
    <3> QED
      BY <3>1
  <2>7. Path(start.deeds, Left(start, cs), Append(<<>>, line),
             Step(start.deeds, Left(start, cs), line))
    <3>1. Path(start.deeds, Left(start, cs), <<>>, Left(start, cs))
      BY EmptyPath
    <3>2. line \in {line} /\ <<>> \in Seq({line})
      OBVIOUS
    <3> HIDE DEF line
    <3> QED
      BY <3>1, <3>2, PathGrows
  <2>8. Step(start.deeds, Left(start, cs), line) = Left(st, cs)
    <3>1. Step(start.deeds, Left(start, cs), line)
            = [Left(start, cs) EXCEPT !.trade = start.trade \cup {new}]
      BY <2>5 DEF Step, Left
    <3> QED
      BY <2>2, <3>1 DEF Left
  <2>9. NewClaims(st.lines, Len(start.deeds))
    <3>1. Len(Append(<<>>, line)) = 1 /\ Append(<<>>, line)[1] = line
      OBVIOUS
    <3> QED
      BY <2>2, <2>5, <3>1 DEF NewClaims, IsClaim
  <2>10. Later(Left(start, cs), Left(st, cs), Len(start.deeds))
    BY <2>2 DEF Later, LaterOn, Left
  <2>11. \A i \in 1..Len(evidence) :
           Fulfilled(st.deeds, st.offers, Left(st, cs), suit, start.loser, d, evidence[i].ref)
    <3>1. new \in Left(st, cs).trade /\ new \in 1..Len(st.offers) /\ st.offers[new].of = d
      BY <2>2, <2>3 DEF Left
    <3> QED
      BY <3>1 DEF Fulfilled
  <2>12. OneMore(start.offers, st.offers, d)
    BY <2>2 DEF OneMore
  <2>13. Left(st, cs).own = start.ix
    BY <2>2 DEF Left
  <2>14. st.trade \in SUBSET OfferIds
    BY <1>1, <2>2, <2>4
  <2> HIDE DEF st, line, terms, new
  <2>15. st.lines \in Seq(OtherLines(Len(st.deeds)))
         /\ Path(st.deeds, Left(start, cs), st.lines, Left(st, cs))
    BY <2>2, <2>6, <2>7, <2>8
  <2>16. Outcome(start, st, cs, suit, d, evidence)
    BY <1>1, <1>3, <2>2, <2>3, <2>9, <2>10, <2>11, <2>12, <2>13, <2>14, <2>15 DEF Outcome
  <2> QED
    BY <2>16 DEF st
<1> QED
  BY <1>4, <1>5

(* What accept_judgement does, in these terms.                             *)
Accepts(d, st, line) ==
    /\ Outcome(Before(d), st, mem.con, disputes[d], d, mem.con[d].evidence)
    /\ line = CaseLine("resolved", d, mem.con[d].winner)
    /\ line \in CaseLines
    /\ deeds' = st.deeds /\ offers' = st.offers
    /\ mem' = Step(st.deeds, Left(st, mem.con), line)
    /\ queue' = Append(st.lines, line)

LEMMA AcceptIs ==
    ASSUME DisputeInv, NEW d \in 1..Len(disputes), AcceptJudgement(d)
    PROVE  /\ \E st, line : Accepts(d, st, line)
           /\ d \in DisputeIds /\ mem.con[d].status = "judged"
           /\ Left(Before(d), mem.con) = mem
           /\ Idle /\ UNCHANGED <<disputes, disk, losses, faults>>
<1> DEFINE case == mem.con[d]
           suit == disputes[d]
           start == Before(d)
           st == Consequences(d)
           line == CaseLine("resolved", d, case.winner)
<1>1. d \in DisputeIds
  BY DisputesAssumption DEF DisputeInv, DisputeIds
<1>2. suit \in Suit
  BY DEF DisputeInv
<1>3. mem \in Ledgers(Len(deeds)) /\ Len(deeds) \in Nat
  BY DEF DisputeInv
<1>4. case \in Case /\ case.status = "judged" /\ case.winner \in Agents
  BY <1>1, <1>3 DEF Ledgers, Cases, Judged, AcceptJudgement
<1>5. case.evidence \in Seq(Entries)
  BY <1>4 DEF Case
<1>6. Loser(d, case.winner) \in Agents
  BY <1>2 DEF Loser, Suit
<1>7. /\ start.deeds = deeds /\ start.lines = <<>> /\ start.winner = case.winner
      /\ start.ix = mem.own /\ start.trade = mem.trade /\ start.dip = mem.dip
  BY DEF Before
<1>8. IsStage(start)
  <2>1. <<>> \in Seq(StageLines(Len(deeds)))
    OBVIOUS
  <2> HIDE DEF case
  <2> QED
    BY <1>3, <1>4, <1>6, <2>1 DEF IsStage, Stages, Before, case, DisputeInv, Ledgers
<1>9. Left(start, mem.con) = mem
  BY <1>3, <1>7 DEF Left, Ledgers
<1>10. Len(st.offers) <= MaxOffers
  BY DEF AcceptJudgement
<1>11. Outcome(start, st, mem.con, suit, d, case.evidence)
  <2>1. CASE suit.type = "theft"
    <3>1. st = Restitution(start, d, case.evidence)
      BY <2>1 DEF Consequences
    <3> HIDE DEF start, st, case, suit
    <3> QED
      BY <1>1, <1>2, <1>5, <1>7, <1>8, <1>10, <2>1, <3>1, RestitutionOutcome
  <2>2. CASE suit.type # "theft"
    <3>1. st = ApplyAll(suit.type, case.evidence, start)
      BY <2>2 DEF Consequences
    <3> HIDE DEF start, st, case, suit
    <3> QED
      BY <1>2, <1>5, <1>7, <1>8, <2>2, <3>1, TransfersOutcome
  <2> QED
    BY <2>1, <2>2
<1>12. st.winner = case.winner
  <2>1. st.winner = start.winner
    <3> HIDE DEF start, st, case, suit
    <3> QED
      BY <1>11 DEF Outcome
  <2> QED
    BY <1>7, <2>1
<1>13. line \in CaseLines
  BY <1>1, <1>4 DEF CaseLines, RuleLines
<1>14. line.log = "con" /\ line.ev = "resolved" /\ line.id = d /\ line.data = case.winner
  BY DEF CaseLine
<1>15. ReplayCase(mem.con, line) = Close(mem.con, d, "resolved")
  <2>1. ReplayCase(mem.con, line) =
          [Close(mem.con, d, "resolved") EXCEPT ![d].winner = case.winner]
    BY <1>4, <1>14 DEF ReplayCase
  <2>2. mem.con \in [DisputeIds -> Case]
    BY <1>3 DEF Ledgers, Cases
  <2>3. Close(mem.con, d, "resolved") \in [DisputeIds -> Case]
        /\ Close(mem.con, d, "resolved")[d] \in Case
        /\ Close(mem.con, d, "resolved")[d].winner = case.winner
    BY <1>1, <1>4, <2>2 DEF Close, Case, Statuses
  <2>4. [Close(mem.con, d, "resolved") EXCEPT ![d].winner = case.winner]
          = Close(mem.con, d, "resolved")
    <3> DEFINE cs == Close(mem.con, d, "resolved")
    <3>1. cs \in [DisputeIds -> Case] /\ cs[d] \in Case /\ cs[d].winner = case.winner
      BY <2>3
    <3> HIDE DEF cs, case
    <3>2. [cs[d] EXCEPT !.winner = case.winner] = cs[d]
      BY <3>1 DEF Case
    <3>3. [cs EXCEPT ![d] = [cs[d] EXCEPT !.winner = case.winner]] = cs
      BY <1>1, <3>1, <3>2
    <3>4. [cs EXCEPT ![d].winner = case.winner] = cs
      BY <3>3
    <3> QED
      BY <3>4 DEF cs, case
  <2> QED
    BY <2>1, <2>4
<1>16. mem' = Step(st.deeds, Left(st, mem.con), line)
  <2>1. mem' = [own |-> st.ix, trade |-> st.trade, dip |-> st.dip,
                con |-> Close(mem.con, d, "resolved")]
    BY DEF AcceptJudgement
  <2>2. Step(st.deeds, Left(st, mem.con), line)
          = [Left(st, mem.con) EXCEPT !.con = ReplayCase(mem.con, line)]
    BY <1>14 DEF Step, Left
  <2> HIDE DEF st, line
  <2> QED
    BY <1>15, <2>1, <2>2 DEF Left
<1>17. deeds' = st.deeds /\ offers' = st.offers /\ queue' = Append(st.lines, line)
       /\ Idle /\ UNCHANGED <<disputes, disk, losses, faults>>
  BY <1>12 DEF AcceptJudgement
<1>18. Accepts(d, st, line)
  <2> HIDE DEF st
  <2> QED
    BY <1>11, <1>13, <1>16, <1>17 DEF Accepts
<1> HIDE DEF st, line
<1> QED
  BY <1>1, <1>4, <1>9, <1>17, <1>18

LEMMA AcceptTypes ==
    ASSUME DisputeInv, NEW d \in 1..Len(disputes), AcceptJudgement(d)
    PROVE  DisputeInv'
<1>1. PICK st, line : Accepts(d, st, line)
  BY AcceptIs
<1>2. UNCHANGED <<disputes, disk, losses, faults>>
  BY AcceptIs
<1>3. Outcome(Before(d), st, mem.con, disputes[d], d, mem.con[d].evidence)
  BY <1>1 DEF Accepts
<1>4. /\ st.ix \in Own!Index(1..Len(st.deeds)) /\ st.trade \in SUBSET OfferIds
      /\ st.dip \in TreatyStates /\ st.deeds \in Seq(Deed) /\ st.offers \in Seq(Terms)
      /\ Extends(deeds, st.deeds) /\ st.lines \in Seq(OtherLines(Len(st.deeds)))
  BY <1>3 DEF Outcome, Left, Before
<1>5. Left(st, mem.con) \in Ledgers(Len(st.deeds))
  BY <1>4 DEF Left, Ledgers, DisputeInv
<1>6. line \in CaseLines /\ line \in Lines(Len(st.deeds))
  BY <1>1 DEF Accepts, Lines
<1>7. mem' \in Ledgers(Len(st.deeds))
  BY <1>1, <1>4, <1>5, <1>6, StepTypes DEF Accepts
<1>8. queue' \in Seq(Lines(Len(st.deeds)))
  <2>1. OtherLines(Len(st.deeds)) \subseteq Lines(Len(st.deeds))
    BY DEF OtherLines, Lines
  <2>2. st.lines \in Seq(Lines(Len(st.deeds)))
    BY <1>4, <2>1
  <2> QED
    BY <1>1, <1>6, <2>2 DEF Accepts
<1>9. deeds' = st.deeds /\ offers' = st.offers /\ Len(deeds) <= Len(st.deeds)
  BY <1>1, <1>4 DEF Accepts, Extends
<1> QED
  BY <1>2, <1>4, <1>7, <1>8, <1>9, OperationTypes DEF DisputeInv

-----------------------------------------------------------------------------
(* The types are inductive.                                                *)

LEMMA TypesStart == Init => DisputeInv
<1> SUFFICES ASSUME Init PROVE DisputeInv
  OBVIOUS
<1>1. Own!EmptyIndex \in Own!Index(1..0)
  BY DEF Own!EmptyIndex, Own!Index
<1>2. AllActive \in TreatyStates
  BY DEF AllActive, TreatyStates
<1>3. NoCases \in Cases
  BY DEF NoCases, NoCase, Cases, Judged, Case, Statuses
<1>4. Len(deeds) = 0 /\ Len(disputes) = 0 /\ deeds \in Seq(Deed) /\ disputes \in Seq(Suit)
      /\ offers \in Seq(Terms)
  BY DEF Init
<1>5. mem \in Ledgers(Len(deeds))
  BY <1>1, <1>2, <1>3, <1>4 DEF Init, Ledgers
<1>6. DiskTypes
  BY <1>1, <1>2, <1>3, <1>4 DEF Init, DiskTypes, Files, Blank
<1>7. queue \in Seq(Lines(Len(deeds)))
  BY DEF Init
<1>8. losses \in 0..MaxLosses /\ faults \in 0..MaxFaults /\ Len(disputes) <= MaxDisputes
  BY <1>4, DisputesAssumption DEF Init
<1> QED
  BY <1>4, <1>5, <1>6, <1>7, <1>8 DEF DisputeInv

LEMMA OpenTypes ==
    ASSUME DisputeInv, NEW a \in Agents, NEW b \in Agents, NEW type \in DisputeTypes,
           NEW refs \in Seq(Refs), OpenDispute(a, b, type, refs)
    PROVE  DisputeInv'
<1>1. PICK line : Logged(line)
  BY OpenLogs
<1>2. disputes' = Append(disputes, [initiator |-> a, respondent |-> b, type |-> type])
      /\ UNCHANGED <<deeds, offers>> /\ Len(disputes) + 1 \in DisputeIds
  BY OpenLogs
<1>3. disputes' \in Seq(Suit) /\ Len(disputes') <= MaxDisputes
  BY <1>2, DisputesAssumption DEF DisputeInv, DisputeIds, Suit
<1>4. deeds' \in Seq(Deed) /\ Len(deeds) <= Len(deeds')
  BY <1>2 DEF DisputeInv
<1> QED
  BY <1>1, <1>2, <1>3, <1>4, LoggedTypes

LEMMA ClaimTypes ==
    ASSUME DisputeInv, NEW a \in Agents, NEW p \in Plots, Claim(a, p)
    PROVE  DisputeInv'
<1>1. PICK line : Logged(line)
  BY ClaimLogs
<1>2. deeds' = Append(deeds, [owner |-> a, target |-> p]) /\ UNCHANGED <<disputes, offers>>
  BY ClaimLogs
<1>3. deeds' \in Seq(Deed) /\ Len(deeds) <= Len(deeds')
  BY <1>2 DEF DisputeInv, Deed
<1> QED
  BY <1>1, <1>2, <1>3, LoggedTypes DEF DisputeInv

LEMMA SameContentTypes ==
    ASSUME DisputeInv, NEW line, Logged(line), UNCHANGED <<deeds, disputes, offers>>
    PROVE  DisputeInv'
<1>1. Len(deeds) <= Len(deeds')
  BY DEF DisputeInv
<1> QED
  BY <1>1, LoggedTypes DEF DisputeInv

LEMMA NoRefs == <<>> \in Seq(Refs) /\ \A ref \in Refs : <<ref>> \in Seq(Refs)
OBVIOUS

LEMMA TypesKept == DisputeInv /\ [Next]_vars => DisputeInv'
<1> SUFFICES ASSUME DisputeInv, [Next]_vars PROVE DisputeInv'
  OBVIOUS
<1>1. ASSUME Write \/ WriteFails PROVE DisputeInv'
  <2>1. /\ queue # <<>> /\ queue' = Tail(queue)
        /\ UNCHANGED <<deeds, disputes, offers, losses, mem>>
    BY <1>1, WriteIsAppend
  <2>2. PICK file : Appends(Head(queue), file)
    BY <1>1, WriteIsAppend
  <2>3. faults' \in 0..MaxFaults
    BY <1>1, DisputesAssumption DEF Write, WriteFails, DisputeInv
  <2> QED
    BY <2>1, <2>2, <2>3, AppendTypes
<1>2. CASE Crash
  BY <1>2, CrashTypes
<1>3. ASSUME NEW a \in Agents, NEW p \in Plots, Claim(a, p) PROVE DisputeInv'
  BY <1>3, ClaimTypes
<1>4. ASSUME NEW c \in 1..Len(deeds), Release(c) PROVE DisputeInv'
  BY <1>4, ReleaseLogs, SameContentTypes
<1>5. ASSUME NEW t \in Treaties, BreakTreaty(t) PROVE DisputeInv'
  BY <1>5, BreakLogs, SameContentTypes
<1>6. ASSUME NEW a \in Agents, NEW b \in Agents, NEW type \in DisputeTypes, NEW refs \in Seq(Refs),
             OpenDispute(a, b, type, refs)
      PROVE  DisputeInv'
  BY <1>6, OpenTypes
<1>7. ASSUME NEW d \in 1..Len(disputes), NEW a \in Agents, NEW ref \in Refs,
             SubmitEvidence(d, a, ref)
      PROVE  DisputeInv'
  BY <1>7, SubmitLogs, SameContentTypes
<1>8. ASSUME NEW d \in 1..Len(disputes), RequestJudgement(d) PROVE DisputeInv'
  BY <1>8, JudgementLogs, SameContentTypes
<1>9. ASSUME NEW d \in 1..Len(disputes), AcceptJudgement(d) PROVE DisputeInv'
  BY <1>9, AcceptTypes
<1>10. ASSUME NEW d \in 1..Len(disputes), Escalate(d) \/ Surrender(d) PROVE DisputeInv'
  BY <1>10, EndLogs, SameContentTypes
<1>11. CASE UNCHANGED vars
  BY <1>11 DEF vars, DisputeInv, DiskTypes
<1> QED
  BY <1>1, <1>2, <1>3, <1>4, <1>5, <1>6, <1>7, <1>8, <1>9, <1>10, <1>11, NoRefs,
     DisputesAssumption DEF Next

LEMMA TypesImply == DisputeInv => TypeOK
<1> SUFFICES ASSUME DisputeInv PROVE TypeOK
  OBVIOUS
<1>1. DOMAIN disk = {"own", "trade", "dip", "con"} /\ DiskTypes
  BY DEF DisputeInv, DiskTypes
<1>2. [log \in DOMAIN disk |-> disk[log].base] =
        [own |-> disk.own.base, trade |-> disk.trade.base,
         dip |-> disk.dip.base, con |-> disk.con.base]
  BY <1>1
<1>3. [log \in DOMAIN disk |-> disk[log].base] \in Ledgers(Len(deeds))
  BY <1>1, <1>2 DEF DiskTypes, Ledgers, Files
<1>4. Rebuilt \in Ledgers(Len(deeds))
  BY <1>1, Rebuilding
<1>5. Cases \subseteq [DisputeIds -> Case]
  BY DEF Cases
<1> QED
  BY <1>3, <1>4, <1>5 DEF DisputeInv, TypeOK, Ledgers, Deed, Suit, Terms, TreatyStates

(* The ledgers and the files keep their types, and a judged dispute has a  *)
(* winner, whatever crashes and failing appends leave of the logs.         *)
THEOREM DisputeTypesCorrect == Spec => []TypeOK
<1>1. Spec => []DisputeInv
  BY TypesStart, TypesKept, PTL DEF Spec
<1> QED
  BY <1>1, TypesImply, PTL

-----------------------------------------------------------------------------
(* Restitution is offered once per run of the process.                     *)

Paid(oo, d) == {o \in DOMAIN oo : oo[o].of = d}

PaidInv ==
    /\ DisputeInv
    /\ \A o \in 1..Len(offers) : offers[o].of <= Len(disputes)
    /\ \A d \in DisputeIds :
          /\ Cardinality(Paid(offers, d)) <= 1 + losses
          /\ mem.con[d].status # "resolved" => Cardinality(Paid(offers, d)) <= losses

LEMMA PaidIsFinite ==
    ASSUME NEW oo \in Seq(Terms), NEW d
    PROVE  IsFiniteSet(Paid(oo, d)) /\ Cardinality(Paid(oo, d)) \in Nat
<1>1. IsFiniteSet(1..Len(oo)) /\ DOMAIN oo = 1..Len(oo)
  BY FS_Interval
<1> QED
  BY <1>1, FS_Subset, FS_CardinalityType DEF Paid

LEMMA PaidOnceMore ==
    ASSUME NEW oo \in Seq(Terms), NEW longer, NEW d, NEW e, OneMore(oo, longer, e)
    PROVE  /\ d # e => Paid(longer, d) = Paid(oo, d)
           /\ Cardinality(Paid(longer, d)) <= Cardinality(Paid(oo, d)) + 1
<1>1. IsFiniteSet(Paid(oo, d)) /\ Cardinality(Paid(oo, d)) \in Nat
  BY PaidIsFinite
<1>2. CASE longer = oo
  BY <1>1, <1>2
<1>3. ASSUME NEW terms, longer = Append(oo, terms), terms.of = e
      PROVE  /\ d # e => Paid(longer, d) = Paid(oo, d)
             /\ Cardinality(Paid(longer, d)) <= Cardinality(Paid(oo, d)) + 1
  <2> DEFINE n == Len(oo) + 1
  <2>1. /\ DOMAIN longer = DOMAIN oo \cup {n} /\ longer[n] = terms /\ n \notin DOMAIN oo
        /\ \A o \in DOMAIN oo : longer[o] = oo[o]
    BY <1>3
  <2>2. \/ Paid(longer, d) = Paid(oo, d) /\ d # e
        \/ Paid(longer, d) = Paid(oo, d) \cup {n} /\ d = e
    BY <1>3, <2>1 DEF Paid
  <2>3. n \notin Paid(oo, d)
    BY <2>1 DEF Paid
  <2> HIDE DEF n
  <2>4. Cardinality(Paid(oo, d) \cup {n}) = Cardinality(Paid(oo, d)) + 1
    BY <1>1, <2>3, FS_AddElement
  <2>5. CASE Paid(longer, d) = Paid(oo, d) /\ d # e
    BY <1>1, <2>5
  <2>6. CASE Paid(longer, d) = Paid(oo, d) \cup {n} /\ d = e
    <3>1. Cardinality(Paid(longer, d)) = Cardinality(Paid(oo, d)) + 1
      BY <2>4, <2>6
    <3> QED
      BY <1>1, <2>6, <3>1
  <2> QED
    BY <2>2, <2>5, <2>6
<1> QED
  BY <1>2, <1>3 DEF OneMore

(* A line changes the dispute it is about and no other.                    *)
LEMMA OtherCases ==
    ASSUME NEW cs \in Cases, NEW line \in CaseLines, NEW d \in DisputeIds, d # line.id
    PROVE  ReplayCase(cs, line)[d] = cs[d]
<1>1. cs \in [DisputeIds -> Case] /\ line.id \in DisputeIds
      /\ line.ev \in {"opened", "evidence_submitted", "judged", "resolved", "escalated",
                      "surrendered"}
  BY LineFacts DEF Cases, CaseLines
<1>2. /\ Attach(cs, line.id, line.data)[d] = cs[d]
      /\ Rule(cs, line.id, line.data)[d] = cs[d]
      /\ \A status : Close(cs, line.id, status)[d] = cs[d]
      /\ [Close(cs, line.id, "resolved") EXCEPT ![line.id].winner = line.data][d] = cs[d]
  BY <1>1 DEF Attach, Rule, Close
<1>3. CASE line.ev = "opened"
  BY <1>1, <1>3 DEF ReplayCase
<1>4. CASE line.ev = "evidence_submitted"
  BY <1>2, <1>4 DEF ReplayCase
<1>5. CASE line.ev = "judged"
  BY <1>2, <1>5 DEF ReplayCase
<1>6. CASE line.ev = "resolved"
  BY <1>2, <1>6 DEF ReplayCase
<1>7. CASE line.ev = "escalated"
  BY <1>2, <1>7 DEF ReplayCase
<1>8. CASE line.ev = "surrendered"
  BY <1>2, <1>8 DEF ReplayCase
<1> QED
  BY <1>1, <1>3, <1>4, <1>5, <1>6, <1>7, <1>8

(* The disputes a step on the ledgers touches.                             *)
LEMMA StepCases ==
    ASSUME NEW dd, NEW n, NEW L, L \in Ledgers(n), NEW line \in Lines(n), NEW d \in DisputeIds,
           line \in CaseLines => d # line.id
    PROVE  Step(dd, L, line).con[d] = L.con[d]
<1>1. L.con \in Cases /\ L = [own |-> L.own, trade |-> L.trade, dip |-> L.dip, con |-> L.con]
  BY DEF Ledgers
<1>2. CASE line \in CaseLines
  <2>1. line.log = "con"
    BY <1>2, LineFacts
  <2>2. Step(dd, L, line).con = ReplayCase(L.con, line)
    BY <1>1, <2>1 DEF Step
  <2> QED
    BY <1>1, <1>2, <2>2, OtherCases
<1>3. CASE line \notin CaseLines
  <2>1. line.log \in {"own", "trade", "dip"}
    BY <1>3, LineFacts DEF Lines
  <2>2. Step(dd, L, line).con = L.con
    BY <1>1, <2>1 DEF Step
  <2> QED
    BY <2>2
<1> QED
  BY <1>2, <1>3

LEMMA NothingPaid ==
    ASSUME PaidInv, NEW d \in DisputeIds, d > Len(disputes)
    PROVE  Cardinality(Paid(offers, d)) = 0
<1>1. DOMAIN offers = 1..Len(offers) /\ Len(disputes) \in Nat /\ d \in Nat
  BY DisputesAssumption DEF PaidInv, DisputeInv, DisputeIds
<1>2. \A o \in 1..Len(offers) : offers[o].of # d
  <2> TAKE o \in 1..Len(offers)
  <2>1. offers[o].of <= Len(disputes) /\ offers[o] \in Terms
    BY DEF PaidInv, DisputeInv
  <2>2. offers[o].of \in Nat
    BY <2>1, DisputesAssumption DEF Terms, DisputeIds
  <2> QED
    BY <1>1, <2>1, <2>2
<1>3. Paid(offers, d) = {}
  BY <1>1, <1>2 DEF Paid
<1> QED
  BY <1>3, FS_EmptySet

LEMMA LoggedPaid ==
    ASSUME PaidInv, DisputeInv', NEW line, Logged(line), offers' = offers,
           Len(disputes) <= Len(disputes'), Len(deeds) <= Len(deeds'),
           line \in CaseLines => \/ mem.con[line.id].status # "resolved"
                                 \/ line.id > Len(disputes)
    PROVE  PaidInv'
<1>1. /\ line \in Lines(Len(deeds')) /\ mem' = Step(deeds', mem, line) /\ losses' = losses
  BY DEF Logged
<1>2. Len(deeds) \in Nat /\ Len(deeds') \in Nat /\ Len(disputes) \in Nat
      /\ Len(disputes') \in Nat /\ losses \in Nat
  BY DisputesAssumption DEF PaidInv, DisputeInv
<1>3. mem \in Ledgers(Len(deeds'))
  BY <1>2, LedgersGrow DEF PaidInv, DisputeInv
<1>4. ASSUME NEW o \in 1..Len(offers') PROVE offers'[o].of <= Len(disputes')
  <2>1. offers[o].of <= Len(disputes) /\ offers[o] \in Terms
    BY <1>4 DEF PaidInv, DisputeInv
  <2>2. offers[o].of \in Nat
    BY <2>1, DisputesAssumption DEF Terms, DisputeIds
  <2> QED
    BY <1>2, <2>1, <2>2
<1>5. ASSUME NEW d \in DisputeIds
      PROVE  /\ Cardinality(Paid(offers', d)) <= 1 + losses'
             /\ mem'.con[d].status # "resolved" => Cardinality(Paid(offers', d)) <= losses'
  <2>1. CASE line \in CaseLines /\ d = line.id /\ d > Len(disputes)
    <3> DEFINE paid == Cardinality(Paid(offers', d))
    <3>1. paid = 0
      BY <2>1, NothingPaid
    <3> HIDE DEF paid
    <3>2. paid <= 1 + losses' /\ paid <= losses'
      BY <1>1, <1>2, <3>1
    <3> QED
      BY <3>2 DEF paid
  <2>2. CASE line \in CaseLines /\ d = line.id /\ mem.con[d].status # "resolved"
    BY <1>1, <2>2 DEF PaidInv
  <2>3. CASE ~(line \in CaseLines /\ d = line.id)
    <3>1. line \in CaseLines => d # line.id
      BY <2>3
    <3> DEFINE n == Len(deeds')
    <3>2. mem \in Ledgers(n) /\ line \in Lines(n)
      BY <1>1, <1>3
    <3> HIDE DEF n
    <3>3. Step(deeds', mem, line).con[d] = mem.con[d]
      BY <3>1, <3>2, StepCases
    <3>4. mem'.con[d] = mem.con[d]
      BY <1>1, <3>3
    <3> QED
      BY <1>1, <3>4 DEF PaidInv
  <2> QED
    BY <2>1, <2>2, <2>3
<1> QED
  BY <1>4, <1>5 DEF PaidInv

LEMMA SamePaid ==
    ASSUME PaidInv, DisputeInv', UNCHANGED <<disputes, offers, mem, losses>>
    PROVE  PaidInv'
BY DEF PaidInv

LEMMA CrashPaid ==
    ASSUME PaidInv, DisputeInv', Crash
    PROVE  PaidInv'
<1>1. losses' = losses + 1 /\ UNCHANGED <<disputes, offers>> /\ losses \in Nat
  BY DisputesAssumption DEF Crash, PaidInv, DisputeInv
<1>2. ASSUME NEW d \in DisputeIds
      PROVE  /\ Cardinality(Paid(offers, d)) <= 1 + losses'
             /\ Cardinality(Paid(offers, d)) <= losses'
  <2>1. Cardinality(Paid(offers, d)) <= 1 + losses /\ Cardinality(Paid(offers, d)) \in Nat
    BY PaidIsFinite DEF PaidInv, DisputeInv
  <2> QED
    BY <1>1, <2>1
<1> QED
  BY <1>1, <1>2 DEF PaidInv

LEMMA AcceptPaid ==
    ASSUME PaidInv, DisputeInv', NEW d \in 1..Len(disputes), AcceptJudgement(d)
    PROVE  PaidInv'
<1>1. PICK st, line : Accepts(d, st, line)
  BY AcceptIs DEF PaidInv
<1>2. /\ d \in DisputeIds /\ mem.con[d].status = "judged"
      /\ UNCHANGED <<disputes, disk, losses, faults>>
  BY AcceptIs DEF PaidInv
<1>3. Outcome(Before(d), st, mem.con, disputes[d], d, mem.con[d].evidence)
  BY <1>1 DEF Accepts
<1>4. /\ st.ix \in Own!Index(1..Len(st.deeds)) /\ st.trade \in SUBSET OfferIds
      /\ st.dip \in TreatyStates /\ st.deeds \in Seq(Deed)
      /\ OneMore(offers, st.offers, d)
  BY <1>3 DEF Outcome, Left, Before
<1>5. offers' = st.offers /\ offers \in Seq(Terms) /\ offers' \in Seq(Terms)
  BY <1>1 DEF Accepts, PaidInv, DisputeInv
<1>6. line \in CaseLines /\ line.id = d /\ line \in Lines(Len(st.deeds))
  BY <1>1 DEF Accepts, CaseLine, Lines
<1>7. ASSUME NEW e \in DisputeIds, e # d PROVE mem'.con[e] = mem.con[e]
  <2>1. Left(st, mem.con) \in Ledgers(Len(st.deeds))
    BY <1>4 DEF Left, Ledgers, PaidInv, DisputeInv
  <2>2. Step(st.deeds, Left(st, mem.con), line).con[e] = Left(st, mem.con).con[e]
    BY <1>6, <1>7, <2>1, StepCases
  <2> QED
    BY <1>1, <2>2 DEF Accepts, Left
<1>8. ASSUME NEW o \in 1..Len(offers') PROVE offers'[o].of <= Len(disputes')
  <2>1. CASE o \in 1..Len(offers) /\ offers'[o] = offers[o]
    BY <1>2, <2>1 DEF PaidInv
  <2>2. CASE offers'[o].of = d
    BY <1>2, <2>2 DEF PaidInv, DisputeInv
  <2>3. \/ o \in 1..Len(offers) /\ offers'[o] = offers[o]
        \/ offers'[o].of = d
    <3>1. CASE st.offers = offers
      BY <1>5, <3>1
    <3>2. ASSUME NEW terms, st.offers = Append(offers, terms), terms.of = d
          PROVE  \/ o \in 1..Len(offers) /\ offers'[o] = offers[o]
                 \/ offers'[o].of = d
      <4>1. Len(offers') = Len(offers) + 1 /\ offers'[Len(offers) + 1] = terms
            /\ \A q \in 1..Len(offers) : offers'[q] = offers[q]
            /\ Len(offers) \in Nat
        BY <1>5, <3>2
      <4> QED
        BY <3>2, <4>1
    <3> QED
      BY <1>4, <3>1, <3>2 DEF OneMore
  <2> QED
    BY <2>1, <2>2, <2>3
<1>9. mem'.con[d].status = "resolved"
  <2>1. mem' = [own |-> Consequences(d).ix, trade |-> Consequences(d).trade,
                dip |-> Consequences(d).dip, con |-> Close(mem.con, d, "resolved")]
    BY DEF AcceptJudgement
  <2>2. mem.con \in [DisputeIds -> Case] /\ mem.con[d] \in Case
    BY <1>2 DEF PaidInv, DisputeInv, Ledgers, Cases
  <2>3. Close(mem.con, d, "resolved")[d].status = "resolved"
    BY <1>2, <2>2 DEF Close, Case
  <2> QED
    BY <2>1, <2>3
<1>10. ASSUME NEW e \in DisputeIds
       PROVE  /\ Cardinality(Paid(offers', e)) <= 1 + losses'
              /\ mem'.con[e].status # "resolved" => Cardinality(Paid(offers', e)) <= losses'
  <2>1. CASE e = d
    <3>1. Cardinality(Paid(offers, d)) <= losses
      BY <1>2 DEF PaidInv
    <3>2. Cardinality(Paid(offers', d)) <= Cardinality(Paid(offers, d)) + 1
      BY <1>4, <1>5, PaidOnceMore
    <3>3. Cardinality(Paid(offers, d)) \in Nat /\ Cardinality(Paid(offers', d)) \in Nat
      BY <1>5, PaidIsFinite
    <3>4. losses \in Nat
      BY DisputesAssumption DEF PaidInv, DisputeInv
    <3> QED
      BY <1>2, <1>9, <2>1, <3>1, <3>2, <3>3, <3>4
  <2>2. CASE e # d
    <3>1. Paid(offers', e) = Paid(offers, e)
      BY <1>4, <1>5, <2>2, PaidOnceMore
    <3> QED
      BY <1>2, <1>7, <2>2, <3>1 DEF PaidInv
  <2> QED
    BY <2>1, <2>2
<1> QED
  BY <1>8, <1>10 DEF PaidInv

LEMMA PaidStart == Init => PaidInv
<1> SUFFICES ASSUME Init PROVE PaidInv
  OBVIOUS
<1>1. offers = <<>> /\ losses = 0 /\ DisputeInv
  BY TypesStart DEF Init
<1>2. \A d \in DisputeIds : Paid(offers, d) = {}
  BY <1>1 DEF Paid
<1>3. \A d \in DisputeIds : Cardinality(Paid(offers, d)) = 0
  BY <1>2, FS_EmptySet
<1> QED
  BY <1>1, <1>3 DEF PaidInv

LEMMA PaidKept == PaidInv /\ [Next]_vars => PaidInv'
<1> SUFFICES ASSUME PaidInv, [Next]_vars PROVE PaidInv'
  OBVIOUS
<1>1. DisputeInv /\ DisputeInv'
  BY TypesKept DEF PaidInv
<1>2. Len(deeds) <= Len(deeds) /\ Len(disputes) <= Len(disputes)
  BY <1>1 DEF DisputeInv
<1>3. ASSUME Write \/ WriteFails PROVE PaidInv'
  BY <1>1, <1>3, WriteIsAppend, SamePaid
<1>4. CASE Crash
  BY <1>1, <1>4, CrashPaid
<1>5. ASSUME NEW a \in Agents, NEW p \in Plots, Claim(a, p) PROVE PaidInv'
  <2> DEFINE line == OwnLine("claim", Len(deeds) + 1)
  <2>1. Logged(line) /\ UNCHANGED <<disputes, offers>>
        /\ deeds' = Append(deeds, [owner |-> a, target |-> p])
    BY <1>1, <1>5, ClaimLogs
  <2>2. Len(deeds) <= Len(deeds')
    BY <1>1, <2>1 DEF DisputeInv
  <2>3. line \notin CaseLines
    <3>1. line.log # "con"
      BY DEF OwnLine
    <3> QED
      BY <3>1, LineFacts
  <2> HIDE DEF line
  <2> QED
    BY <1>1, <1>2, <2>1, <2>2, <2>3, LoggedPaid
<1>6. ASSUME NEW c \in 1..Len(deeds), Release(c) PROVE PaidInv'
  <2> DEFINE line == OwnLine("release", c)
  <2>1. Logged(line) /\ UNCHANGED <<deeds, disputes, offers>>
    BY <1>1, <1>6, ReleaseLogs
  <2>2. line \notin CaseLines
    <3>1. line.log # "con"
      BY DEF OwnLine
    <3> QED
      BY <3>1, LineFacts
  <2> HIDE DEF line
  <2> QED
    BY <1>1, <1>2, <2>1, <2>2, LoggedPaid
<1>7. ASSUME NEW t \in Treaties, BreakTreaty(t) PROVE PaidInv'
  <2> DEFINE line == BreakLine(t)
  <2>1. Logged(line) /\ UNCHANGED <<deeds, disputes, offers>>
    BY <1>1, <1>7, BreakLogs
  <2>2. line \notin CaseLines
    <3>1. line.log # "con"
      BY DEF BreakLine
    <3> QED
      BY <3>1, LineFacts
  <2> HIDE DEF line
  <2> QED
    BY <1>1, <1>2, <2>1, <2>2, LoggedPaid
<1>8. ASSUME NEW a \in Agents, NEW b \in Agents, NEW type \in DisputeTypes, NEW refs \in Seq(Refs),
             OpenDispute(a, b, type, refs)
      PROVE  PaidInv'
  <2> DEFINE d == Len(disputes) + 1
             line == CaseLine("opened", d, [i \in DOMAIN refs |-> [ref |-> refs[i], by |-> a]])
  <2>1. /\ Logged(line) /\ UNCHANGED <<deeds, offers>>
        /\ disputes' = Append(disputes, [initiator |-> a, respondent |-> b, type |-> type])
    BY <1>1, <1>8, OpenLogs
  <2>2. line.id = d /\ d > Len(disputes) /\ Len(disputes) <= Len(disputes')
    BY <1>1, <2>1 DEF CaseLine, DisputeInv
  <2> HIDE DEF line
  <2> QED
    BY <1>1, <1>2, <2>1, <2>2, LoggedPaid
<1>9. ASSUME NEW d \in 1..Len(disputes), NEW a \in Agents, NEW ref \in Refs,
             SubmitEvidence(d, a, ref)
      PROVE  PaidInv'
  <2> DEFINE line == CaseLine("evidence_submitted", d, [ref |-> ref, by |-> a])
  <2>1. /\ Logged(line) /\ UNCHANGED <<deeds, disputes, offers>>
        /\ mem.con[d].status = "open"
    BY <1>1, <1>9, SubmitLogs
  <2>2. line.id = d
    BY DEF CaseLine
  <2> HIDE DEF line
  <2> QED
    BY <1>1, <1>2, <2>1, <2>2, LoggedPaid
<1>10. ASSUME NEW d \in 1..Len(disputes), RequestJudgement(d) PROVE PaidInv'
  <2>1. PICK w : Logged(CaseLine("judged", d, w))
    BY <1>1, <1>10, JudgementLogs
  <2>2. mem.con[d].status = "open" /\ UNCHANGED <<deeds, disputes, offers>>
    BY <1>1, <1>10, JudgementLogs
  <2> DEFINE line == CaseLine("judged", d, w)
  <2>3. line.id = d /\ Logged(line)
    BY <2>1 DEF CaseLine
  <2> HIDE DEF line
  <2> QED
    BY <1>1, <1>2, <2>2, <2>3, LoggedPaid
<1>11. ASSUME NEW d \in 1..Len(disputes), AcceptJudgement(d) PROVE PaidInv'
  BY <1>1, <1>11, AcceptPaid
<1>12. ASSUME NEW d \in 1..Len(disputes), NEW ev \in {"escalated", "surrendered"},
              \/ ev = "escalated" /\ Escalate(d)
              \/ ev = "surrendered" /\ Surrender(d)
       PROVE  PaidInv'
  <2> DEFINE line == CaseLine(ev, d, "nobody")
  <2>1. /\ Logged(line) /\ UNCHANGED <<deeds, disputes, offers>>
        /\ mem.con[d].status # "resolved"
    BY <1>1, <1>12, EndLogs
  <2>2. line.id = d
    BY DEF CaseLine
  <2> HIDE DEF line
  <2> QED
    BY <1>1, <1>2, <2>1, <2>2, LoggedPaid
<1>13. CASE UNCHANGED vars
  BY <1>1, <1>13, SamePaid DEF vars
<1> QED
  BY <1>3, <1>4, <1>5, <1>6, <1>7, <1>8, <1>9, <1>10, <1>11, <1>12, <1>13, NoRefs,
     DisputesAssumption DEF Next

LEMMA PaidImplies == PaidInv => PaidOncePerRun
<1> SUFFICES ASSUME PaidInv, NEW d \in 1..Len(disputes)
             PROVE  Cardinality({o \in DOMAIN offers : offers[o].of = d}) <= 1 + losses
  BY DEF PaidOncePerRun
<1>1. d \in DisputeIds
  BY DisputesAssumption DEF PaidInv, DisputeInv, DisputeIds
<1> QED
  BY <1>1 DEF PaidInv, Paid

-----------------------------------------------------------------------------
(* While no append has failed, the lines left in queue lead from what the  *)
(* logs rebuild to the live ledgers; the line about a dispute is the last  *)
(* one, and no dispute on record cites a claim that is still in queue.     *)

Closed ==
    /\ disk.own.tail = "closed" /\ disk.trade.tail = "closed"
    /\ disk.dip.tail = "closed" /\ disk.con.tail = "closed"

Keeps(cs, new) ==
    \A d \in DisputeIds :
        /\ cs[d].status \in {"resolved", "surrendered", "escalated"} =>
              new[d].status = cs[d].status
        /\ cs[d].winner # "nobody" => new[d].winner = cs[d].winner

CaseLast(lines) == \A i \in 1..Len(lines) : lines[i].log = "con" => i = Len(lines)

CitesAll(cs, C) == \A d \in DisputeIds : Cites(cs[d], C)

Unread(lines, dd, cs) ==
    \A i \in 1..Len(lines) : IsClaim(lines[i]) => CitesAll(cs, (1..Len(dd)) \ {lines[i].id})

InStep ==
    /\ Closed
    /\ Path(deeds, Rebuilt, queue, mem)
    /\ CaseLast(queue)
    /\ Keeps(disk.con.img, mem.con)
    /\ Sound(deeds, disputes, offers, mem)
    /\ Sound(deeds, disputes, offers, Rebuilt)
    /\ Unread(queue, deeds, disk.con.img)

LogInv == DisputeInv /\ (faults = 0 => InStep)

LEMMA SameExtends == \A dd, S : dd \in Seq(S) => Extends(dd, dd)
BY DEF Extends

LEMMA SameLater == \A L, C : LaterOn(L, L, C)
BY DEF LaterOn

(* Disputes stay right while nobody touches them.                          *)
LEMMA SoundStays ==
    ASSUME NEW dd, NEW ss, NEW oo, NEW dd2, NEW ss2, NEW oo2,
           Len(dd) \in Nat, Len(ss) \in Nat, Len(oo) \in Nat,
           Len(dd2) \in Nat, Len(ss2) \in Nat, Len(oo2) \in Nat,
           Extends(dd, dd2), Extends(ss, ss2), Extends(oo, oo2),
           NEW L, NEW M, L.con \in Cases, M.con = L.con, Sound(dd, ss, oo, L),
           NEW C, LaterOn(L, M, C), CitesAll(L.con, C)
    PROVE  Sound(dd2, ss2, oo2, M)
<1> SUFFICES ASSUME NEW d \in DisputeIds PROVE SoundCase(dd2, ss2, oo2, M, d)
  BY DEF Sound
<1>1. L.con[d] \in Case /\ M.con[d] = L.con[d]
  BY DEF Cases
<1>2. SoundCase(dd, ss, oo, L, d) /\ Cites(L.con[d], C)
  BY DEF Sound, CitesAll
<1> QED
  BY <1>1, <1>2, CaseStays

LEMMA SoundCites ==
    ASSUME NEW dd, NEW ss, NEW oo, NEW L, Sound(dd, ss, oo, L)
    PROVE  CitesAll(L.con, 1..Len(dd))
BY DEF Sound, SoundCase, CitesAll

(* When nothing is left to append, the logs are up to date.                *)
LEMMA UpToDate ==
    ASSUME InStep, queue = <<>>
    PROVE  mem = Rebuilt
<1>1. Path(deeds, Rebuilt, <<>>, mem)
  BY DEF InStep
<1> QED
  BY <1>1, EmptyPath

-----------------------------------------------------------------------------
(* An append that works brings the logs one line further.                  *)

LEMMA WriteReplays ==
    ASSUME DisputeInv, DisputeInv', Closed, Write
    PROVE  Closed' /\ Rebuilt' = Step(deeds, Rebuilt, Head(queue))
<1> DEFINE line == Head(queue)
           next == Replayed(line)
<1>1. line \in Lines(Len(deeds)) /\ line.log \in {"own", "trade", "dip", "con"}
  BY WriteIsAppend, ReplayedTypes DEF DisputeInv
<1>2. disk' = [disk EXCEPT ![line.log] = Written(disk[line.log], next)]
  BY DEF Write
<1>3. /\ disk.own.tail = "closed" /\ disk.trade.tail = "closed"
      /\ disk.dip.tail = "closed" /\ disk.con.tail = "closed"
  BY DEF Closed
<1>4. disk[line.log].tail = "closed"
  BY <1>1, <1>3
<1>5. Written(disk[line.log], next) = Blank(next)
  BY <1>4 DEF Written
<1>6. DOMAIN disk = {"own", "trade", "dip", "con"} /\ DOMAIN disk' = {"own", "trade", "dip", "con"}
  BY DEF DisputeInv, DiskTypes
<1>7. Blank(next).img = next /\ Blank(next).tail = "closed"
  BY DEF Blank
<1> DEFINE R == [own |-> disk.own.img, trade |-> disk.trade.img,
                 dip |-> disk.dip.img, con |-> disk.con.img]
           R2 == [own |-> disk'.own.img, trade |-> disk'.trade.img,
                  dip |-> disk'.dip.img, con |-> disk'.con.img]
<1>8. Rebuilt = R /\ Rebuilt' = R2
  BY <1>6 DEF Rebuilt
<1>9. /\ line.log = "own" => next = OwnStep(deeds, R.own, line)
      /\ line.log = "trade" => next = R.trade \cup {line.id}
      /\ line.log = "dip" => next = [R.dip EXCEPT ![line.id] = "broken"]
      /\ line.log = "con" => next = ReplayCase(R.con, line)
  BY DEF Replayed, ReplayOwn, OwnStep
<1> HIDE DEF line, next
<1>10. /\ line.log = "own" => R2 = [R EXCEPT !.own = next]
       /\ line.log = "trade" => R2 = [R EXCEPT !.trade = next]
       /\ line.log = "dip" => R2 = [R EXCEPT !.dip = next]
       /\ line.log = "con" => R2 = [R EXCEPT !.con = next]
  BY <1>2, <1>5, <1>6, <1>7
<1>11. Closed'
  BY <1>1, <1>2, <1>3, <1>5, <1>6, <1>7 DEF Closed
<1>12. R2 = Step(deeds, R, line)
  <2>1. CASE line.log = "own"
    BY <1>9, <1>10, <2>1 DEF Step
  <2>2. CASE line.log = "trade"
    BY <1>9, <1>10, <2>2 DEF Step
  <2>3. CASE line.log = "dip"
    BY <1>9, <1>10, <2>3 DEF Step
  <2>4. CASE line.log = "con"
    BY <1>9, <1>10, <2>4 DEF Step
  <2> QED
    BY <1>1, <2>1, <2>2, <2>3, <2>4
<1> QED
  BY <1>8, <1>11, <1>12 DEF line

(* A line that is about no dispute leaves what it is not about alone.      *)
LEMMA LineIsLater ==
    ASSUME NEW dd, NEW n \in Nat, NEW L \in Ledgers(n), NEW line \in Lines(n), line.log # "con",
           NEW C, IsClaim(line) => line.id \notin C
    PROVE  LaterOn(L, Step(dd, L, line), C) /\ Step(dd, L, line).con = L.con
<1> DEFINE M == Step(dd, L, line)
<1>1. L = [own |-> L.own, trade |-> L.trade, dip |-> L.dip, con |-> L.con]
      /\ L.own \in Own!Index(1..n) /\ L.dip \in TreatyStates
  BY DEF Ledgers
<1>2. CASE line \in OwnLines(n)
  <2>1. line.log = "own" /\ line.ev \in {"claim", "release", "conflict"}
    BY <1>2, LineFacts
  <2> DEFINE ix == OwnStep(dd, L.own, line)
  <2>2. M = [L EXCEPT !.own = ix]
    BY <2>1 DEF Step
  <2>3. /\ line.ev = "claim" => ix.known = L.own.known \cup {line.id}
                                /\ ix.released = L.own.released
        /\ line.ev # "claim" => ix.known = L.own.known
                                /\ L.own.released \subseteq ix.released
    BY <2>1 DEF OwnStep, Own!ReplayClaim, Own!IndexActive, Own!ReplayRelease,
                Own!DeindexActive, Own!ReplayConflict
  <2>4. line.ev = "claim" => line.id \notin C
    BY <2>1 DEF IsClaim
  <2> HIDE DEF ix, M
  <2>5. M.own = ix /\ M.dip = L.dip /\ M.trade = L.trade /\ M.con = L.con
    BY <1>1, <2>2
  <2> QED
    BY <2>3, <2>4, <2>5 DEF LaterOn, Own!Held, M
<1>3. CASE line \in OfferLines
  <2>1. line.log = "trade"
    BY <1>3, LineFacts
  <2>2. M = [L EXCEPT !.trade = L.trade \cup {line.id}]
    BY <2>1 DEF Step
  <2> QED
    BY <1>1, <2>2 DEF LaterOn
<1>4. CASE line \in BreakLines
  <2>1. line.log = "dip" /\ line.id \in Treaties
    BY <1>4, LineFacts
  <2>2. M = [L EXCEPT !.dip[line.id] = "broken"]
    BY <2>1 DEF Step
  <2>3. M.own = L.own /\ M.trade = L.trade /\ M.con = L.con
        /\ M.dip = [L.dip EXCEPT ![line.id] = "broken"]
    BY <1>1, <2>2
  <2> HIDE DEF M
  <2> QED
    BY <1>1, <2>1, <2>3 DEF LaterOn, TreatyStates, M
<1> QED
  BY <1>2, <1>3, <1>4, LineFacts DEF Lines

LEMMA WriteInStep ==
    ASSUME DisputeInv, DisputeInv', InStep, Write
    PROVE  /\ InStep'
           /\ Keeps(disk.con.img, disk.con.img')
<1> DEFINE line == Head(queue)
           rest == Tail(queue)
           n == Len(deeds)
<1>1. /\ queue # <<>> /\ queue' = rest
      /\ UNCHANGED <<deeds, disputes, offers, losses, mem>>
  BY WriteIsAppend
<1>2. Closed' /\ Rebuilt' = Step(deeds, Rebuilt, line)
  BY WriteReplays DEF InStep
<1>3. /\ queue \in Seq(Lines(n)) /\ n \in Nat /\ Len(disputes) \in Nat /\ Len(offers) \in Nat
  BY DEF DisputeInv
<1>4. /\ line \in Lines(n) /\ rest \in Seq(Lines(n)) /\ Len(rest) = Len(queue) - 1
      /\ line = queue[1] /\ Len(queue) \in Nat /\ Len(queue) > 0
      /\ \A i \in 1..Len(rest) : i + 1 \in 1..Len(queue) /\ rest[i] = queue[i + 1]
  <2> DEFINE S == Lines(n)
  <2> HIDE DEF S
  <2>1. queue \in Seq(S) /\ queue # <<>>
    BY <1>1, <1>3 DEF S
  <2>2. /\ line \in S /\ rest \in Seq(S) /\ Len(rest) = Len(queue) - 1
        /\ line = queue[1] /\ Len(queue) \in Nat /\ Len(queue) > 0
        /\ \A i \in 1..Len(rest) : i + 1 \in 1..Len(queue) /\ rest[i] = queue[i + 1]
    BY <2>1
  <2> QED
    BY <2>2 DEF S
<1>5. Path(deeds, Rebuilt', rest, mem)
  BY <1>1, <1>2, <1>3, PathShrinks DEF InStep
<1>6. Rebuilt \in Ledgers(n) /\ Rebuilt' \in Ledgers(n)
      /\ Rebuilt.con = disk.con.img /\ Rebuilt'.con = disk.con.img'
  <2>1. DOMAIN disk = {"own", "trade", "dip", "con"} /\ DOMAIN disk' = {"own", "trade", "dip", "con"}
    BY DEF DisputeInv, DiskTypes
  <2>2. Rebuilt.con = disk.con.img /\ Rebuilt'.con = disk.con.img'
    BY <2>1 DEF Rebuilt
  <2>3. Rebuilt \in Ledgers(n)
    BY Rebuilding DEF DisputeInv
  <2> QED
    BY <1>2, <1>3, <1>4, <2>2, <2>3, StepTypes DEF DisputeInv
<1>7. /\ Path(deeds, Rebuilt, queue, mem) /\ CaseLast(queue) /\ Keeps(disk.con.img, mem.con)
      /\ Sound(deeds, disputes, offers, mem) /\ Sound(deeds, disputes, offers, Rebuilt)
      /\ Unread(queue, deeds, disk.con.img)
  BY DEF InStep
<1> HIDE DEF line, rest, n
<1>8. CaseLast(rest)
  BY <1>4, <1>7 DEF CaseLast
<1>9. CASE line.log = "con"
  <2>1. Len(queue) = 1
    BY <1>4, <1>7, <1>9 DEF CaseLast
  <2>2. rest = <<>>
    BY <1>4, <2>1
  <2>3. Rebuilt' = mem
    BY <1>5, <2>2, EmptyPath
  <2>4. disk.con.img' = mem.con
    BY <1>6, <2>3
  <2>5. Keeps(disk.con.img', mem.con)
    BY <2>4 DEF Keeps
  <2>6. Unread(rest, deeds, disk.con.img')
    BY <2>2 DEF Unread
  <2> QED
    BY <1>1, <1>2, <1>5, <1>7, <1>8, <2>3, <2>4, <2>5, <2>6 DEF InStep
<1>10. CASE line.log # "con"
  <2> DEFINE C == IF IsClaim(line) THEN (1..n) \ {line.id} ELSE 1..n
  <2>1. CitesAll(Rebuilt.con, C)
    <3>1. CASE IsClaim(line)
      <4>1. 1 \in 1..Len(queue)
        BY <1>4
      <4> QED
        BY <1>4, <1>6, <1>7, <3>1, <4>1 DEF Unread, n
    <3>2. CASE ~IsClaim(line)
      BY <1>7, <3>2, SoundCites DEF n
    <3> QED
      BY <3>1, <3>2
  <2>2. IsClaim(line) => line.id \notin C
    OBVIOUS
  <2> HIDE DEF C
  <2>3. LaterOn(Rebuilt, Rebuilt', C) /\ Rebuilt'.con = Rebuilt.con
    BY <1>2, <1>3, <1>4, <1>6, <1>10, <2>2, LineIsLater
  <2>4. Extends(deeds, deeds) /\ Extends(disputes, disputes) /\ Extends(offers, offers)
    BY SameExtends DEF DisputeInv
  <2>5. Rebuilt.con \in Cases
    BY <1>6 DEF Ledgers
  <2>6. Sound(deeds, disputes, offers, Rebuilt')
    BY <1>3, <1>7, <2>1, <2>3, <2>4, <2>5, SoundStays DEF n
  <2>7. disk.con.img' = disk.con.img
    BY <1>6, <2>3
  <2>8. Unread(rest, deeds, disk.con.img)
    BY <1>4, <1>7 DEF Unread
  <2>9. Keeps(disk.con.img, disk.con.img)
    BY DEF Keeps
  <2> QED
    BY <1>1, <1>2, <1>5, <1>7, <1>8, <2>6, <2>7, <2>8, <2>9 DEF InStep
<1> QED
  BY <1>9, <1>10

-----------------------------------------------------------------------------
(* The operations that append one line.                                    *)

LEMMA LoggedInStep ==
    ASSUME DisputeInv, DisputeInv', InStep, NEW line, Logged(line),
           Extends(deeds, deeds'), Extends(disputes, disputes'), offers' = offers,
           Sound(deeds', disputes', offers', mem'), Keeps(mem.con, mem'.con),
           IsClaim(line) => line.id > Len(deeds)
    PROVE  InStep'
<1>1. /\ line \in Lines(Len(deeds')) /\ queue' = <<line>> /\ mem' = Step(deeds', mem, line)
      /\ queue = <<>> /\ disk' = disk
  BY DEF Logged
<1>2. mem = Rebuilt /\ Rebuilt' = Rebuilt
  BY <1>1, UpToDate DEF Rebuilt
<1>3. /\ Len(deeds) \in Nat /\ Len(deeds') \in Nat /\ Len(disputes) \in Nat
      /\ Len(disputes') \in Nat /\ Len(offers) \in Nat /\ Len(deeds) <= Len(deeds')
  BY DEF DisputeInv, Extends
<1>4. Path(deeds', Rebuilt', queue', mem')
  <2> DEFINE S == Lines(Len(deeds'))
  <2>1. Path(deeds', mem, <<>>, mem)
    BY EmptyPath
  <2>2. <<>> \in Seq(S) /\ Append(<<>>, line) = <<line>> /\ line \in S
    BY <1>1
  <2> HIDE DEF S
  <2>3. Path(deeds', mem, Append(<<>>, line), Step(deeds', mem, line))
    BY <2>1, <2>2, PathGrows
  <2> QED
    BY <1>1, <1>2, <2>2, <2>3
<1>5. Len(<<line>>) = 1 /\ <<line>>[1] = line
  OBVIOUS
<1>6. CaseLast(queue')
  BY <1>1, <1>5 DEF CaseLast
<1>7. disk.con.img = mem.con /\ disk'.con.img = mem.con
  BY <1>1, <1>2, Rebuilding DEF DisputeInv
<1>8. CitesAll(mem.con, 1..Len(deeds))
  BY SoundCites DEF InStep
<1>9. Sound(deeds', disputes', offers', Rebuilt')
  <2>1. Sound(deeds, disputes, offers, mem) /\ mem.con \in Cases
    BY DEF InStep, DisputeInv, Ledgers
  <2>2. Extends(offers, offers)
    BY SameExtends DEF DisputeInv
  <2>3. Sound(deeds', disputes', offers, mem)
    BY <1>3, <1>8, <2>1, <2>2, SameLater, SoundStays
  <2> QED
    BY <1>2, <2>3
<1>10. Unread(queue', deeds', disk'.con.img)
  <2>1. ASSUME IsClaim(line) PROVE CitesAll(mem.con, (1..Len(deeds')) \ {line.id})
    <3>1. \A c \in 1..Len(deeds) : c \in (1..Len(deeds')) \ {line.id}
      BY <1>3, <2>1
    <3> QED
      BY <1>8, <3>1 DEF CitesAll, Cites
  <2>2. \A i \in 1..Len(queue') : queue'[i] = line
    BY <1>1, <1>5
  <2> QED
    BY <1>7, <2>1, <2>2 DEF Unread
<1>11. Closed'
  BY <1>1 DEF Closed, InStep
<1>12. Keeps(disk'.con.img, mem'.con)
  BY <1>1, <1>7
<1> QED
  BY <1>4, <1>6, <1>9, <1>10, <1>11, <1>12 DEF InStep

(* A line about land or a treaty.                                          *)
LEMMA SideInStep ==
    ASSUME DisputeInv, DisputeInv', InStep, NEW line, Logged(line), line.log # "con",
           Extends(deeds, deeds'), UNCHANGED <<disputes, offers>>,
           IsClaim(line) => line.id > Len(deeds)
    PROVE  InStep'
<1>1. line \in Lines(Len(deeds')) /\ mem' = Step(deeds', mem, line)
  BY DEF Logged
<1>2. /\ Len(deeds) \in Nat /\ Len(deeds') \in Nat /\ Len(disputes) \in Nat
      /\ Len(offers) \in Nat /\ Len(deeds) <= Len(deeds')
  BY DEF DisputeInv, Extends
<1>3. mem \in Ledgers(Len(deeds'))
  BY <1>2, LedgersGrow DEF DisputeInv
<1>4. IsClaim(line) => line.id \notin 1..Len(deeds)
  BY <1>2
<1>5. LaterOn(mem, mem', 1..Len(deeds)) /\ mem'.con = mem.con
  BY <1>1, <1>2, <1>3, <1>4, LineIsLater
<1>6. Extends(disputes, disputes) /\ Extends(offers, offers)
  BY SameExtends DEF DisputeInv
<1>7. Sound(deeds, disputes, offers, mem) /\ CitesAll(mem.con, 1..Len(deeds))
      /\ mem.con \in Cases
  BY SoundCites DEF InStep, DisputeInv, Ledgers
<1>8. Sound(deeds', disputes', offers', mem')
  BY <1>2, <1>5, <1>6, <1>7, SoundStays
<1>9. Keeps(mem.con, mem'.con)
  BY <1>5 DEF Keeps
<1> QED
  BY <1>6, <1>8, <1>9, LoggedInStep

(* A line about a dispute: that one dispute has to be right afterwards.    *)
KeepsCase(case, new) ==
    /\ case.status \in {"resolved", "surrendered", "escalated"} => new.status = case.status
    /\ case.winner # "nobody" => new.winner = case.winner

LEMMA CaseInStep ==
    ASSUME DisputeInv, DisputeInv', InStep, NEW line, Logged(line), line \in CaseLines,
           UNCHANGED <<deeds, offers>>, Extends(disputes, disputes'),
           SoundCase(deeds, disputes', offers, [mem EXCEPT !.con = ReplayCase(mem.con, line)],
                     line.id),
           KeepsCase(mem.con[line.id], ReplayCase(mem.con, line)[line.id])
    PROVE  InStep'
<1>1. mem' = Step(deeds, mem, line) /\ line.log = "con" /\ line.id \in DisputeIds
  BY LineFacts DEF Logged
<1>2. mem' = [mem EXCEPT !.con = ReplayCase(mem.con, line)]
  BY <1>1 DEF Step
<1>3. mem \in Ledgers(Len(deeds)) /\ mem.con \in Cases
      /\ Len(deeds) \in Nat /\ Len(disputes) \in Nat /\ Len(disputes') \in Nat
      /\ Len(offers) \in Nat
  BY DEF DisputeInv, Ledgers
<1>4. /\ mem'.own = mem.own /\ mem'.trade = mem.trade /\ mem'.dip = mem.dip
      /\ mem'.con = ReplayCase(mem.con, line)
  BY <1>2, <1>3 DEF Ledgers
<1>5. LaterOn(mem, mem', 1..Len(deeds))
  BY <1>4 DEF LaterOn
<1>6. Extends(deeds, deeds) /\ Extends(offers, offers)
  BY SameExtends DEF DisputeInv
<1>7. Sound(deeds, disputes, offers, mem) /\ CitesAll(mem.con, 1..Len(deeds))
  BY SoundCites DEF InStep
<1>8. ASSUME NEW d \in DisputeIds, d # line.id
      PROVE  SoundCase(deeds, disputes', offers, mem', d) /\ mem'.con[d] = mem.con[d]
  <2>1. mem'.con[d] = mem.con[d]
    BY <1>3, <1>4, <1>8, OtherCases
  <2>2. mem.con[d] \in Case /\ SoundCase(deeds, disputes, offers, mem, d)
        /\ Cites(mem.con[d], 1..Len(deeds))
    BY <1>3, <1>7 DEF Cases, Sound, CitesAll
  <2> QED
    BY <1>3, <1>5, <1>6, <2>1, <2>2, CaseStays
<1>9. Sound(deeds', disputes', offers', mem')
  BY <1>2, <1>8 DEF Sound
<1>10. Keeps(mem.con, mem'.con)
  BY <1>4, <1>8 DEF Keeps, KeepsCase
<1>11. ~IsClaim(line)
  BY <1>1 DEF IsClaim
<1> QED
  BY <1>6, <1>9, <1>10, <1>11, LoggedInStep

LEMMA SameBest ==
    ASSUME NEW own, NEW case, NEW new, NEW suit, new.evidence = case.evidence
    PROVE  Best(own, new, suit) = Best(own, case, suit)
<1>1. \A a : Score(own, new, a) = Score(own, case, a)
  BY DEF Score
<1> QED
  BY <1>1 DEF Best

LEMMA WinnersAreBest ==
    ASSUME NEW own, NEW case, NEW d
    PROVE  Winners(own, case, d) = Best(own, case, disputes[d])
BY DEF Winners, Best, Parties

LEMMA OpenInStep ==
    ASSUME DisputeInv, DisputeInv', InStep, NEW a \in Agents, NEW b \in Agents,
           NEW type \in DisputeTypes, NEW refs \in Seq(Refs), OpenDispute(a, b, type, refs)
    PROVE  InStep'
<1> DEFINE evidence == [i \in DOMAIN refs |-> [ref |-> refs[i], by |-> a]]
           d == Len(disputes) + 1
           line == CaseLine("opened", d, evidence)
           new == [status |-> "open", evidence |-> evidence, winner |-> "nobody"]
           L == [mem EXCEPT !.con = ReplayCase(mem.con, line)]
<1>1. /\ Logged(line) /\ d \in DisputeIds /\ evidence \in Seq(Entries)
      /\ \A i \in DOMAIN evidence : Citable(evidence[i].ref)
      /\ disputes' = Append(disputes, [initiator |-> a, respondent |-> b, type |-> type])
      /\ UNCHANGED <<deeds, offers>>
  BY OpenLogs
<1> HIDE DEF evidence, d
<1>2. line.ev = "opened" /\ line.id = d /\ line.data = evidence
  BY DEF CaseLine
<1>3. mem \in Ledgers(Len(deeds)) /\ mem.con \in [DisputeIds -> Case]
      /\ Len(disputes) \in Nat /\ disputes \in Seq(Suit) /\ Len(deeds) \in Nat
  BY DEF DisputeInv, Ledgers, Cases
<1>4. line \in CaseLines
  BY <1>1 DEF CaseLines, OpenLines
<1>5. ReplayCase(mem.con, line) = [mem.con EXCEPT ![d] = new]
  BY <1>2 DEF ReplayCase
<1>6. L.con = ReplayCase(mem.con, line)
  BY <1>3 DEF Ledgers
<1>7. L.con[d] = new
  BY <1>1, <1>3, <1>5, <1>6
<1>8. Len(disputes') = d /\ Extends(disputes, disputes')
  BY <1>1, <1>3 DEF d, Extends
<1>9. Cites(new, 1..Len(deeds))
  <2> SUFFICES ASSUME NEW i \in 1..Len(evidence), evidence[i].ref.type = "ownership"
               PROVE  evidence[i].ref.id \in 1..Len(deeds)
    BY DEF Cites
  <2>1. evidence[i] \in Entries /\ i \in DOMAIN evidence
    BY <1>1
  <2>2. evidence[i].ref.id \in 1..MaxClaims
    BY <2>1 DEF Entries, Refs
  <2>3. evidence[i].ref.id <= Len(deeds)
    BY <1>1, <2>1 DEF Citable
  <2> QED
    BY <1>3, <2>2, <2>3, DisputesAssumption
<1>10. SoundCase(deeds, disputes', offers, L, d)
  <2> HIDE DEF L
  <2> QED
    BY <1>1, <1>7, <1>8, <1>9, DisputesAssumption DEF SoundCase, DisputeIds
<1>11. mem.con[d] = NoCase
  BY <1>1, <1>3 DEF InStep, Sound, SoundCase, d
<1>12. KeepsCase(mem.con[d], ReplayCase(mem.con, line)[d])
  BY <1>11 DEF KeepsCase, NoCase
<1> HIDE DEF line
<1> QED
  BY <1>1, <1>2, <1>4, <1>8, <1>10, <1>12, CaseInStep

LEMMA SubmitInStep ==
    ASSUME DisputeInv, DisputeInv', InStep, NEW d \in 1..Len(disputes), NEW a \in Agents,
           NEW ref \in Refs, SubmitEvidence(d, a, ref)
    PROVE  InStep'
<1> DEFINE entry == [ref |-> ref, by |-> a]
           line == CaseLine("evidence_submitted", d, entry)
           case == mem.con[d]
           new == [case EXCEPT !.evidence = Append(case.evidence, entry)]
           L == [mem EXCEPT !.con = ReplayCase(mem.con, line)]
<1>1. /\ Logged(line) /\ d \in DisputeIds /\ case.status = "open" /\ Citable(ref)
      /\ UNCHANGED <<deeds, disputes, offers>>
  BY SubmitLogs
<1>2. line.ev = "evidence_submitted" /\ line.id = d /\ line.data = entry
  BY DEF CaseLine
<1>3. mem \in Ledgers(Len(deeds)) /\ mem.con \in [DisputeIds -> Case] /\ case \in Case
      /\ Len(deeds) \in Nat
  BY <1>1 DEF DisputeInv, Ledgers, Cases
<1>4. line \in CaseLines
  BY <1>1 DEF CaseLines, EvidenceLines, Entries
<1>5. ReplayCase(mem.con, line) = [mem.con EXCEPT ![d].evidence = Append(case.evidence, entry)]
  BY <1>1, <1>2 DEF ReplayCase, Attach
<1>6. L.con = ReplayCase(mem.con, line)
  BY <1>3 DEF Ledgers
<1>7. L.con[d] = new
  BY <1>1, <1>3, <1>5, <1>6
<1>8. Extends(disputes, disputes)
  BY SameExtends DEF DisputeInv
<1>9. SoundCase(deeds, disputes, offers, mem, d)
  BY <1>1 DEF InStep, Sound
<1>10. new.status = "open" /\ new.winner = case.winner /\ new.winner = "nobody"
       /\ new.evidence = Append(case.evidence, entry) /\ case.evidence \in Seq(Entries)
  BY <1>1, <1>3, <1>9 DEF Case, SoundCase
<1>11. Cites(new, 1..Len(deeds))
  <2> SUFFICES ASSUME NEW i \in 1..Len(new.evidence), new.evidence[i].ref.type = "ownership"
               PROVE  new.evidence[i].ref.id \in 1..Len(deeds)
    BY DEF Cites
  <2>1. CASE i \in 1..Len(case.evidence)
    <3>1. new.evidence[i] = case.evidence[i]
      BY <1>10, <2>1
    <3> QED
      BY <1>9, <2>1, <3>1 DEF SoundCase, Cites
  <2>2. CASE i \notin 1..Len(case.evidence)
    <3>1. new.evidence[i].ref = ref /\ ref.type = "ownership"
      BY <1>10, <2>2
    <3>2. ref.id \in 1..MaxClaims
      BY <3>1 DEF Refs
    <3>3. ref.id <= Len(deeds)
      BY <1>1, <3>1 DEF Citable
    <3>4. ref.id \in 1..Len(deeds)
      BY <1>3, <3>2, <3>3, DisputesAssumption
    <3> QED
      BY <3>1, <3>4
  <2> QED
    BY <2>1, <2>2
<1>12. SoundCase(deeds, disputes, offers, L, d)
  <2>1. d <= Len(disputes) /\ d \in Nat /\ Len(disputes) \in Nat
    BY DEF DisputeInv
  <2> HIDE DEF L, new
  <2> QED
    BY <1>7, <1>10, <1>11, <2>1 DEF SoundCase
<1>13. KeepsCase(case, ReplayCase(mem.con, line)[d])
  <2> HIDE DEF L, new
  <2> QED
    BY <1>1, <1>6, <1>7, <1>10 DEF KeepsCase
<1> HIDE DEF line
<1> QED
  BY <1>1, <1>2, <1>4, <1>8, <1>12, <1>13, CaseInStep

LEMMA JudgementInStep ==
    ASSUME DisputeInv, DisputeInv', InStep, NEW d \in 1..Len(disputes), RequestJudgement(d)
    PROVE  InStep'
<1> DEFINE case == mem.con[d]
<1>1. /\ d \in DisputeIds /\ case.status = "open" /\ UNCHANGED <<deeds, disputes, offers>>
  BY JudgementLogs
<1>2. PICK w \in Winners(mem.own, case, d) : Logged(CaseLine("judged", d, w))
  BY JudgementLogs
<1> DEFINE line == CaseLine("judged", d, w)
           new == [case EXCEPT !.status = "judged", !.winner = w]
           L == [mem EXCEPT !.con = ReplayCase(mem.con, line)]
<1>3. mem \in Ledgers(Len(deeds)) /\ mem.con \in [DisputeIds -> Case] /\ case \in Case
  BY <1>1 DEF DisputeInv, Ledgers, Cases
<1>4. w \in Agents
  <2>1. disputes[d] \in Suit
    BY DEF DisputeInv
  <2> QED
    BY <1>2, <2>1 DEF Winners, Parties, Suit
<1>5. line \in CaseLines
  BY <1>1, <1>4 DEF CaseLines, RuleLines
<1>6. line.ev = "judged" /\ line.id = d /\ line.data = w
  BY DEF CaseLine
<1>7. ReplayCase(mem.con, line) = [mem.con EXCEPT ![d].status = "judged", ![d].winner = w]
  BY <1>1, <1>6 DEF ReplayCase, Rule
<1>8. L.con = ReplayCase(mem.con, line) /\ L.own = mem.own
  BY <1>3 DEF Ledgers
<1>9. L.con[d] = new
  BY <1>1, <1>3, <1>7, <1>8
<1>10. new.status = "judged" /\ new.winner = w /\ new.evidence = case.evidence
  BY <1>3 DEF Case
<1>11. SoundCase(deeds, disputes, offers, mem, d) /\ Extends(disputes, disputes)
  BY <1>1, SameExtends DEF InStep, Sound, DisputeInv
<1>12. w \in Best(mem.own, new, disputes[d])
  <2> HIDE DEF new
  <2> QED
    BY <1>2, <1>10, SameBest, WinnersAreBest
<1>13. SoundCase(deeds, disputes, offers, L, d)
  <2>1. d <= Len(disputes) /\ d \in Nat /\ Len(disputes) \in Nat
    BY DEF DisputeInv
  <2>2. Cites(new, 1..Len(deeds))
    BY <1>10, <1>11 DEF SoundCase, Cites
  <2> HIDE DEF L, new
  <2> QED
    BY <1>8, <1>9, <1>10, <1>12, <2>1, <2>2 DEF SoundCase
<1>14. KeepsCase(case, ReplayCase(mem.con, line)[d])
  BY <1>1, <1>11 DEF KeepsCase, SoundCase
<1> HIDE DEF line
<1> QED
  BY <1>1, <1>2, <1>5, <1>6, <1>11, <1>13, <1>14, CaseInStep DEF line

LEMMA EndInStep ==
    ASSUME DisputeInv, DisputeInv', InStep, NEW d \in 1..Len(disputes),
           NEW ev \in {"escalated", "surrendered"},
           \/ ev = "escalated" /\ Escalate(d)
           \/ ev = "surrendered" /\ Surrender(d)
    PROVE  InStep'
<1> DEFINE case == mem.con[d]
           line == CaseLine(ev, d, "nobody")
           new == [case EXCEPT !.status = ev]
           L == [mem EXCEPT !.con = ReplayCase(mem.con, line)]
<1>1. /\ Logged(line) /\ d \in DisputeIds
      /\ ev = "escalated" => case.status = "judged"
      /\ ev = "surrendered" => case.status \in {"open", "judged"}
      /\ UNCHANGED <<deeds, disputes, offers>>
  BY EndLogs
<1>2. mem \in Ledgers(Len(deeds)) /\ mem.con \in [DisputeIds -> Case] /\ case \in Case
  BY <1>1 DEF DisputeInv, Ledgers, Cases
<1>3. line \in CaseLines
  BY <1>1 DEF CaseLines, EndLines
<1>4. line.ev = ev /\ line.id = d
  BY DEF CaseLine
<1>5. ReplayCase(mem.con, line) = [mem.con EXCEPT ![d].status = ev]
  BY <1>1, <1>4 DEF ReplayCase, Close
<1>6. L.con = ReplayCase(mem.con, line) /\ L.own = mem.own
  BY <1>2 DEF Ledgers
<1>7. L.con[d] = new
  BY <1>1, <1>2, <1>5, <1>6
<1>8. new.status = ev /\ new.winner = case.winner /\ new.evidence = case.evidence
  BY <1>2 DEF Case
<1>9. SoundCase(deeds, disputes, offers, mem, d) /\ Extends(disputes, disputes)
  BY <1>1, SameExtends DEF InStep, Sound, DisputeInv
<1>10. SoundCase(deeds, disputes, offers, L, d)
  <2>1. d <= Len(disputes) /\ d \in Nat /\ Len(disputes) \in Nat
    BY DEF DisputeInv
  <2>2. Cites(new, 1..Len(deeds))
    BY <1>8, <1>9 DEF SoundCase, Cites
  <2> HIDE DEF new
  <2>3. Best(mem.own, new, disputes[d]) = Best(mem.own, case, disputes[d])
    BY <1>8, SameBest
  <2> HIDE DEF L
  <2> QED
    BY <1>6, <1>7, <1>8, <1>9, <2>1, <2>2, <2>3 DEF SoundCase
<1>11. KeepsCase(case, ReplayCase(mem.con, line)[d])
  <2> HIDE DEF new
  <2> QED
    BY <1>1, <1>6, <1>7, <1>8 DEF KeepsCase
<1> HIDE DEF line
<1> QED
  BY <1>1, <1>3, <1>4, <1>9, <1>10, <1>11, CaseInStep

-----------------------------------------------------------------------------
(* An accepted judgement.                                                  *)

LEMMA FulfilledSame ==
    ASSUME NEW dd, NEW oo, NEW L, NEW M, NEW suit, NEW loser, NEW d, NEW ref,
           M.own = L.own, M.dip = L.dip, M.trade = L.trade,
           Fulfilled(dd, oo, L, suit, loser, d, ref)
    PROVE  Fulfilled(dd, oo, M, suit, loser, d, ref)
BY DEF Fulfilled

LEMMA AcceptInStep ==
    ASSUME DisputeInv, DisputeInv', InStep, NEW d \in 1..Len(disputes), AcceptJudgement(d)
    PROVE  InStep'
<1> DEFINE case == mem.con[d]
           suit == disputes[d]
           n == Len(deeds)
           start == Before(d)
<1>1. /\ d \in DisputeIds /\ case.status = "judged" /\ Left(start, mem.con) = mem
      /\ queue = <<>> /\ UNCHANGED <<disputes, disk, losses, faults>>
  BY AcceptIs DEF Idle
<1>2. PICK st, line : Accepts(d, st, line)
  BY AcceptIs
<1> DEFINE M == Left(st, mem.con)
<1>3. /\ Outcome(start, st, mem.con, suit, d, case.evidence)
      /\ line = CaseLine("resolved", d, case.winner) /\ line \in CaseLines
      /\ deeds' = st.deeds /\ offers' = st.offers
      /\ mem' = Step(st.deeds, M, line) /\ queue' = Append(st.lines, line)
  BY <1>2 DEF Accepts
<1>4. start.deeds = deeds /\ start.offers = offers /\ start.loser = LoserOf(suit, case.winner)
  BY DEF Before, Loser, LoserOf
<1>5. /\ M.own \in Own!Index(1..Len(st.deeds)) /\ st.trade \in SUBSET OfferIds
      /\ st.dip \in TreatyStates /\ st.deeds \in Seq(Deed) /\ Extends(deeds, st.deeds)
      /\ st.offers \in Seq(Terms) /\ OneMore(offers, st.offers, d)
      /\ st.lines \in Seq(OtherLines(Len(st.deeds))) /\ NewClaims(st.lines, n)
      /\ Path(st.deeds, mem, st.lines, M) /\ Later(mem, M, n)
      /\ \A i \in 1..Len(case.evidence) :
            (case.evidence[i].ref.type = "ownership" => case.evidence[i].ref.id \in 1..n)
              => Fulfilled(st.deeds, st.offers, M, suit, start.loser, d, case.evidence[i].ref)
  <2> HIDE DEF case, suit, start, M
  <2>1. Outcome(start, st, mem.con, suit, d, case.evidence) /\ M = Left(st, mem.con)
    BY <1>3 DEF M
  <2> QED
    BY <1>1, <1>4, <2>1 DEF Outcome
<1>6. M.con = mem.con /\ M.trade = st.trade /\ M.dip = st.dip
      /\ M = [own |-> M.own, trade |-> M.trade, dip |-> M.dip, con |-> M.con]
  BY DEF Left
<1>7. /\ mem \in Ledgers(n) /\ mem.con \in Cases /\ mem.con \in [DisputeIds -> Case]
      /\ case \in Case /\ n \in Nat /\ Len(offers) \in Nat /\ Len(disputes) \in Nat
      /\ offers \in Seq(Terms) /\ disputes \in Seq(Suit) /\ deeds \in Seq(Deed)
  BY <1>1 DEF DisputeInv, Ledgers, Cases
<1>8. line.log = "con" /\ line.ev = "resolved" /\ line.id = d /\ line.data = case.winner
  BY <1>3 DEF CaseLine
<1> HIDE DEF M, start
<1>9. M \in Ledgers(Len(st.deeds))
  BY <1>5, <1>6, <1>7 DEF Ledgers
<1>10. /\ mem'.own = M.own /\ mem'.trade = M.trade /\ mem'.dip = M.dip
       /\ mem'.con = ReplayCase(mem.con, line)
  <2>1. mem' = [M EXCEPT !.con = ReplayCase(M.con, line)]
    BY <1>3, <1>8 DEF Step
  <2> QED
    BY <1>6, <2>1
<1>11. mem = Rebuilt /\ Rebuilt' = Rebuilt
  BY <1>1, UpToDate DEF Rebuilt
<1>12. /\ Len(deeds') \in Nat /\ Len(offers') \in Nat /\ n <= Len(deeds')
       /\ Extends(deeds, deeds') /\ Extends(disputes, disputes')
       /\ Extends(offers, offers')
  <2>1. Extends(offers, st.offers)
    <3>1. CASE st.offers = offers
      BY <1>7, <3>1, SameExtends
    <3>2. ASSUME NEW terms, st.offers = Append(offers, terms) PROVE Extends(offers, st.offers)
      BY <1>7, <3>2 DEF Extends
    <3> QED
      BY <1>5, <3>1, <3>2 DEF OneMore
  <2>2. Extends(disputes, disputes)
    BY <1>7, SameExtends
  <2> QED
    BY <1>1, <1>3, <1>5, <2>1, <2>2 DEF Extends
<1>13. Path(deeds', Rebuilt', queue', mem')
  <2> DEFINE S == Lines(Len(st.deeds))
  <2>1. OtherLines(Len(st.deeds)) \subseteq S /\ line \in S
    BY <1>3 DEF OtherLines, Lines
  <2> HIDE DEF S
  <2>2. st.lines \in Seq(S)
    BY <1>5, <2>1
  <2>3. Path(st.deeds, mem, Append(st.lines, line), Step(st.deeds, M, line))
    BY <1>5, <2>1, <2>2, PathGrows
  <2> QED
    BY <1>3, <1>11, <2>3
<1>14. /\ Len(st.lines) \in Nat /\ Len(queue') = Len(st.lines) + 1
       /\ queue'[Len(st.lines) + 1] = line
       /\ \A i \in 1..Len(st.lines) : queue'[i] = st.lines[i]
                                      /\ st.lines[i] \in OtherLines(Len(st.deeds))
  <2> DEFINE S == OtherLines(Len(st.deeds))
  <2>1. st.lines \in Seq(S) /\ queue' = Append(st.lines, line)
    BY <1>3, <1>5
  <2> HIDE DEF S
  <2>2. /\ Len(st.lines) \in Nat /\ Len(queue') = Len(st.lines) + 1
        /\ queue'[Len(st.lines) + 1] = line
        /\ \A i \in 1..Len(st.lines) : queue'[i] = st.lines[i] /\ st.lines[i] \in S
    BY <2>1
  <2> QED
    BY <2>2 DEF S
<1>15. CaseLast(queue')
  <2>1. \A other \in OtherLines(Len(st.deeds)) : other.log # "con"
    BY LineFacts DEF OtherLines
  <2>2. ASSUME NEW i \in 1..Len(queue'), queue'[i].log = "con" PROVE i = Len(queue')
    <3>1. i \notin 1..Len(st.lines)
      BY <1>14, <2>1, <2>2
    <3> QED
      BY <1>14, <3>1
  <2> QED
    BY <2>2 DEF CaseLast
<1>16. CitesAll(mem.con, 1..n) /\ Sound(deeds, disputes, offers, mem)
  BY SoundCites DEF InStep
<1>17. disk.con.img = mem.con /\ disk'.con.img = mem.con
  BY <1>1, <1>11, Rebuilding DEF DisputeInv
<1>18. Unread(queue', deeds', disk'.con.img)
  <2>1. ASSUME NEW i \in 1..Len(queue'), IsClaim(queue'[i])
        PROVE  CitesAll(mem.con, (1..Len(deeds')) \ {queue'[i].id})
    <3>1. queue'[i] # line
      BY <1>8, <2>1 DEF IsClaim
    <3>2. i \in 1..Len(st.lines)
      BY <1>14, <3>1
    <3>3. queue'[i].id > n
      BY <1>5, <1>14, <2>1, <3>2 DEF NewClaims
    <3>4. \A c \in 1..n : c \in (1..Len(deeds')) \ {queue'[i].id}
      BY <1>7, <1>12, <3>3
    <3> QED
      BY <1>16, <3>4 DEF CitesAll, Cites
  <2> QED
    BY <1>17, <2>1 DEF Unread
<1>19. LaterOn(mem, mem', 1..n)
  BY <1>5, <1>10 DEF Later, LaterOn
<1>20. ASSUME NEW e \in DisputeIds, e # d
       PROVE  SoundCase(deeds', disputes', offers', mem', e) /\ mem'.con[e] = mem.con[e]
  <2>1. mem'.con[e] = mem.con[e]
    BY <1>3, <1>7, <1>8, <1>10, <1>20, OtherCases
  <2>2. mem.con[e] \in Case /\ SoundCase(deeds, disputes, offers, mem, e)
        /\ Cites(mem.con[e], 1..n)
    BY <1>7, <1>16 DEF Sound, CitesAll
  <2> QED
    BY <1>1, <1>7, <1>12, <1>19, <2>1, <2>2, CaseStays
<1> DEFINE new == [case EXCEPT !.status = "resolved", !.winner = case.winner]
<1>21. mem'.con[d] = new
  <2>1. ReplayCase(mem.con, line) =
          [Close(mem.con, d, "resolved") EXCEPT ![d].winner = case.winner]
    BY <1>1, <1>8 DEF ReplayCase
  <2> QED
    BY <1>1, <1>7, <1>10, <2>1 DEF Close
<1>22. new.status = "resolved" /\ new.winner = case.winner /\ new.evidence = case.evidence
  BY <1>7 DEF Case
<1> HIDE DEF new
<1>23. SoundCase(deeds, disputes, offers, mem, d) /\ Cites(case, 1..n)
  BY <1>1, <1>16 DEF Sound, CitesAll
<1>24. Cites(new, 1..Len(deeds'))
  <2>1. \A c \in 1..n : c \in 1..Len(deeds')
    BY <1>12
  <2> QED
    BY <1>22, <1>23, <2>1 DEF Cites
<1>25. new.winner # "nobody" => new.winner \in Best(mem'.own, new, suit)
  <2>1. \A c \in 1..n : c \in mem'.own.known <=> c \in mem.own.known
    BY <1>19 DEF LaterOn
  <2>2. \A a : Score(mem'.own, case, a) = Score(mem.own, case, a)
    BY <1>7, <1>23, <2>1, ScoreStays
  <2>3. Best(mem'.own, case, suit) = Best(mem.own, case, suit)
    BY <2>2 DEF Best
  <2>4. Best(mem'.own, new, suit) = Best(mem'.own, case, suit)
    BY <1>22, SameBest
  <2> QED
    BY <1>22, <1>23, <2>3, <2>4 DEF SoundCase
<1>26. Settled(deeds', offers', mem', suit, d)
  <2> SUFFICES ASSUME NEW i \in 1..Len(new.evidence)
               PROVE  Fulfilled(deeds', offers', mem', suit, LoserOf(suit, new.winner), d,
                                new.evidence[i].ref)
    BY <1>21 DEF Settled
  <2> DEFINE ref == case.evidence[i].ref
  <2>1. i \in 1..Len(case.evidence) /\ new.evidence[i].ref = ref
    BY <1>22
  <2>2. ref.type = "ownership" => ref.id \in 1..n
    BY <1>23, <2>1 DEF Cites
  <2>3. Fulfilled(st.deeds, st.offers, M, suit, start.loser, d, ref)
    BY <1>5, <2>1, <2>2
  <2> HIDE DEF ref, case, suit
  <2>4. Fulfilled(deeds', offers', mem', suit, start.loser, d, ref)
    BY <1>3, <1>10, <2>3, FulfilledSame
  <2> QED
    BY <1>4, <1>22, <2>1, <2>4
<1>27. SoundCase(deeds', disputes', offers', mem', d)
  <2>1. ~(d > Len(disputes)) /\ disputes' = disputes
    BY <1>1, <1>7
  <2> QED
    BY <1>21, <1>22, <1>24, <1>25, <1>26, <2>1 DEF SoundCase
<1>28. Sound(deeds', disputes', offers', mem')
  BY <1>20, <1>27 DEF Sound
<1>29. Keeps(disk'.con.img, mem'.con)
  BY <1>1, <1>17, <1>20, <1>21, <1>22 DEF Keeps
<1>30. Sound(deeds', disputes', offers', Rebuilt')
  <2>1. Sound(deeds', disputes', offers', mem)
    BY <1>1, <1>7, <1>12, <1>16, SameLater, SoundStays
  <2> QED
    BY <1>11, <2>1
<1>31. Closed'
  BY <1>1 DEF Closed, InStep
<1> QED
  BY <1>13, <1>15, <1>18, <1>28, <1>29, <1>30, <1>31 DEF InStep

LEMMA CrashInStep ==
    ASSUME DisputeInv, InStep, Crash
    PROVE  InStep'
<1>1. mem' = Rebuilt /\ queue' = <<>> /\ UNCHANGED <<deeds, disputes, offers, disk>>
      /\ Rebuilt' = Rebuilt
  BY DEF Crash, Rebuilt
<1>2. Path(deeds', Rebuilt', queue', mem')
  BY <1>1, EmptyPath
<1>3. Rebuilt.con = disk.con.img
  BY Rebuilding DEF DisputeInv
<1>4. Keeps(disk'.con.img, mem'.con)
  BY <1>1, <1>3 DEF Keeps
<1>5. CaseLast(queue') /\ Unread(queue', deeds', disk'.con.img)
  BY <1>1 DEF CaseLast, Unread
<1>6. Sound(deeds', disputes', offers', mem') /\ Sound(deeds', disputes', offers', Rebuilt')
  BY <1>1 DEF InStep
<1>7. Closed'
  BY <1>1 DEF Closed, InStep
<1> QED
  BY <1>2, <1>4, <1>5, <1>6, <1>7 DEF InStep

-----------------------------------------------------------------------------
(* The logs and the ledgers stay in step.                                  *)

LEMMA LogStart == Init => LogInv
<1> SUFFICES ASSUME Init PROVE LogInv
  OBVIOUS
<1>1. DisputeInv
  BY TypesStart
<1>2. /\ deeds = <<>> /\ disputes = <<>> /\ queue = <<>>
      /\ mem.con = NoCases /\ disk.con.img = NoCases
  BY DEF Init, Blank
<1>3. mem = Rebuilt
  BY <1>1, Rebuilding DEF Init, Blank, DisputeInv
<1>4. Closed
  BY DEF Init, Closed, Blank
<1>5. Path(deeds, Rebuilt, queue, mem)
  BY <1>2, <1>3, EmptyPath
<1>6. CaseLast(queue) /\ Unread(queue, deeds, disk.con.img)
  BY <1>2 DEF CaseLast, Unread
<1>7. Keeps(disk.con.img, mem.con)
  BY <1>2 DEF Keeps
<1>8. Sound(deeds, disputes, offers, mem)
  <2> SUFFICES ASSUME NEW d \in DisputeIds PROVE SoundCase(deeds, disputes, offers, mem, d)
    BY DEF Sound
  <2>1. mem.con[d] = NoCase
    BY <1>2 DEF NoCases
  <2> QED
    BY <2>1 DEF NoCase, SoundCase, Cites
<1> QED
  BY <1>1, <1>3, <1>4, <1>5, <1>6, <1>7, <1>8 DEF LogInv, InStep

LEMMA LogKept ==
    LogInv /\ [Next]_vars
      => /\ LogInv'
         /\ faults' = 0 => Keeps(disk.con.img, disk'.con.img)
<1> SUFFICES ASSUME LogInv, [Next]_vars
             PROVE  /\ LogInv'
                    /\ faults' = 0 => Keeps(disk.con.img, disk'.con.img)
  OBVIOUS
<1>1. DisputeInv /\ DisputeInv'
  BY TypesKept DEF LogInv
<1> DEFINE Kept == faults' = 0 => InStep' /\ Keeps(disk.con.img, disk'.con.img)
<1>2. ASSUME disk' = disk PROVE Keeps(disk.con.img, disk'.con.img)
  BY <1>2 DEF Keeps
<1>3. CASE Write
  <2>1. faults' = faults
    BY <1>3 DEF Write
  <2>2. faults = 0 => InStep
    BY DEF LogInv
  <2> QED
    BY <1>1, <1>3, <2>1, <2>2, WriteInStep DEF LogInv
<1>4. CASE WriteFails
  <2>1. faults' # 0
    BY <1>1, <1>4, DisputesAssumption DEF WriteFails, DisputeInv
  <2> QED
    BY <1>1, <2>1 DEF LogInv
<1>5. CASE faults # 0 /\ faults' = faults
  BY <1>1, <1>5 DEF LogInv
<1> SUFFICES ASSUME faults = 0, faults' = faults, ~Write, ~WriteFails
             PROVE  InStep' /\ Keeps(disk.con.img, disk'.con.img)
  <2>1. ~Write /\ ~WriteFails => faults' = faults
    BY <1>1 DEF Next, vars, Crash, Claim, Release, BreakTreaty, OpenDispute, SubmitEvidence,
                RequestJudgement, AcceptJudgement, Escalate, Surrender, contents
  <2> QED
    BY <1>1, <1>3, <1>4, <1>5, <2>1 DEF LogInv
<1>6. InStep
  BY DEF LogInv
<1>7. CASE Crash
  BY <1>1, <1>2, <1>6, <1>7, CrashInStep DEF Crash
<1>8. ASSUME NEW line, Logged(line) PROVE Keeps(disk.con.img, disk'.con.img)
  BY <1>2, <1>8 DEF Logged
<1>9. ASSUME NEW a \in Agents, NEW p \in Plots, Claim(a, p)
      PROVE  InStep' /\ Keeps(disk.con.img, disk'.con.img)
  <2> DEFINE line == OwnLine("claim", Len(deeds) + 1)
  <2>1. Logged(line) /\ UNCHANGED <<disputes, offers>>
        /\ deeds' = Append(deeds, [owner |-> a, target |-> p])
    BY <1>1, <1>9, ClaimLogs
  <2>2. line.log # "con" /\ line.id > Len(deeds)
    BY <1>1 DEF OwnLine, DisputeInv
  <2>3. Extends(deeds, deeds')
    BY <1>1, <2>1 DEF Extends, DisputeInv
  <2> HIDE DEF line
  <2> QED
    BY <1>1, <1>6, <1>8, <2>1, <2>2, <2>3, SideInStep
<1>10. ASSUME NEW c \in 1..Len(deeds), Release(c)
       PROVE  InStep' /\ Keeps(disk.con.img, disk'.con.img)
  <2> DEFINE line == OwnLine("release", c)
  <2>1. Logged(line) /\ UNCHANGED <<deeds, disputes, offers>>
    BY <1>1, <1>10, ReleaseLogs
  <2>2. line.log # "con" /\ ~IsClaim(line)
    BY DEF OwnLine, IsClaim
  <2>3. Extends(deeds, deeds')
    BY <1>1, <2>1, SameExtends DEF DisputeInv
  <2> HIDE DEF line
  <2> QED
    BY <1>1, <1>6, <1>8, <2>1, <2>2, <2>3, SideInStep
<1>11. ASSUME NEW t \in Treaties, BreakTreaty(t)
       PROVE  InStep' /\ Keeps(disk.con.img, disk'.con.img)
  <2> DEFINE line == BreakLine(t)
  <2>1. Logged(line) /\ UNCHANGED <<deeds, disputes, offers>>
    BY <1>1, <1>11, BreakLogs
  <2>2. line.log # "con" /\ ~IsClaim(line)
    BY DEF BreakLine, IsClaim
  <2>3. Extends(deeds, deeds')
    BY <1>1, <2>1, SameExtends DEF DisputeInv
  <2> HIDE DEF line
  <2> QED
    BY <1>1, <1>6, <1>8, <2>1, <2>2, <2>3, SideInStep
<1>12. ASSUME NEW a \in Agents, NEW b \in Agents, NEW type \in DisputeTypes,
              NEW refs \in Seq(Refs), OpenDispute(a, b, type, refs)
       PROVE  InStep' /\ Keeps(disk.con.img, disk'.con.img)
  <2>1. disk' = disk
    BY <1>12 DEF OpenDispute
  <2> QED
    BY <1>1, <1>2, <1>6, <1>12, <2>1, OpenInStep
<1>13. ASSUME NEW d \in 1..Len(disputes), NEW a \in Agents, NEW ref \in Refs,
              SubmitEvidence(d, a, ref)
       PROVE  InStep' /\ Keeps(disk.con.img, disk'.con.img)
  BY <1>1, <1>2, <1>6, <1>13, SubmitInStep DEF SubmitEvidence
<1>14. ASSUME NEW d \in 1..Len(disputes), RequestJudgement(d)
       PROVE  InStep' /\ Keeps(disk.con.img, disk'.con.img)
  BY <1>1, <1>2, <1>6, <1>14, JudgementInStep DEF RequestJudgement
<1>15. ASSUME NEW d \in 1..Len(disputes), AcceptJudgement(d)
       PROVE  InStep' /\ Keeps(disk.con.img, disk'.con.img)
  <2>1. disk' = disk
    BY <1>1, <1>15, AcceptIs
  <2> QED
    BY <1>1, <1>2, <1>6, <1>15, <2>1, AcceptInStep
<1>16. ASSUME NEW d \in 1..Len(disputes), NEW ev \in {"escalated", "surrendered"},
              \/ ev = "escalated" /\ Escalate(d)
              \/ ev = "surrendered" /\ Surrender(d)
       PROVE  InStep' /\ Keeps(disk.con.img, disk'.con.img)
  <2>1. disk' = disk
    BY <1>16 DEF Escalate, Surrender
  <2> QED
    BY <1>1, <1>2, <1>6, <1>16, <2>1, EndInStep
<1>17. CASE UNCHANGED vars
  BY <1>2, <1>6, <1>17 DEF vars, InStep, Closed, Rebuilt
<1> QED
  BY <1>7, <1>9, <1>10, <1>11, <1>12, <1>13, <1>14, <1>15, <1>16, <1>17, NoRefs,
     DisputesAssumption DEF Next

-----------------------------------------------------------------------------
(* What that says of verdicts.                                             *)

LEMMA LogInvariant == Spec => []LogInv
BY LogStart, LogKept, PTL DEF Spec

LEMMA InStepFits ==
    ASSUME DisputeInv, InStep, NEW d \in 1..Len(disputes), NEW L \in {mem, Rebuilt},
           L.con[d].winner # "nobody"
    PROVE  L.con[d].winner \in Winners(L.own, L.con[d], d)
<1>1. d \in DisputeIds
  BY DisputesAssumption DEF DisputeInv, DisputeIds
<1>2. SoundCase(deeds, disputes, offers, L, d)
  BY <1>1 DEF InStep, Sound
<1> QED
  BY <1>2, WinnersAreBest DEF SoundCase

LEMMA InStepIsCarriedOut ==
    ASSUME LogInv
    PROVE  ResolvedIsCarriedOut
<1> SUFFICES ASSUME faults = 0, NEW d \in 1..Len(disputes), OnRecord(d).status = "resolved",
                    NEW i \in DOMAIN OnRecord(d).evidence
             PROVE  LET loser == Loser(d, OnRecord(d).winner)
                        ref == OnRecord(d).evidence[i].ref
                    IN  /\ disputes[d].type = "territorial" /\ ref.type = "ownership" =>
                              ~(ref.id \in Own!Held(disk.own.img) /\ deeds[ref.id].owner = loser)
                        /\ disputes[d].type = "treaty_violation" /\ ref.type = "diplomacy" =>
                              disk.dip.img[ref.id] = "broken"
                        /\ disputes[d].type = "theft" /\ Stolen(ref, loser) =>
                              \E o \in disk.trade.img : offers[o].of = d
  BY DEF ResolvedIsCarriedOut
<1>1. DisputeInv /\ InStep
  BY DEF LogInv
<1>2. d \in DisputeIds
  BY <1>1, DisputesAssumption DEF DisputeInv, DisputeIds
<1>3. /\ Rebuilt.own = disk.own.img /\ Rebuilt.trade = disk.trade.img
      /\ Rebuilt.dip = disk.dip.img /\ Rebuilt.con = disk.con.img
      /\ disk.con.img \in Cases
  BY <1>1, Rebuilding DEF DisputeInv, DiskTypes, Files
<1> DEFINE case == OnRecord(d)
<1>4. case = Rebuilt.con[d] /\ case \in Case
  BY <1>2, <1>3 DEF OnRecord, Cases
<1>5. i \in 1..Len(case.evidence)
  BY <1>4 DEF Case
<1>6. SoundCase(deeds, disputes, offers, Rebuilt, d)
  BY <1>1, <1>2 DEF InStep, Sound
<1>7. Fulfilled(deeds, offers, Rebuilt, disputes[d], LoserOf(disputes[d], case.winner), d,
                case.evidence[i].ref)
  BY <1>4, <1>5, <1>6 DEF SoundCase, Settled
<1>8. Loser(d, case.winner) = LoserOf(disputes[d], case.winner)
  BY DEF Loser, LoserOf
<1> HIDE DEF case
<1> QED
  BY <1>3, <1>7, <1>8 DEF Fulfilled, case

(* The verdict, live and on record, is one that its evidence supports, and *)
(* stays so while land changes hands and crashes rebuild the ledgers, as   *)
(* long as no append fails.                                                *)
THEOREM VerdictsFit == Spec => []VerdictsSound
<1>1. LogInv => VerdictsSound
  <2> SUFFICES ASSUME LogInv PROVE TypeOK /\ VerdictFitsEvidence
    BY DEF VerdictsSound
  <2>1. TypeOK
    BY TypesImply DEF LogInv
  <2>2. VerdictFitsEvidence
    BY InStepFits DEF VerdictFitsEvidence, LogInv
  <2> QED
    BY <2>1, <2>2
<1> QED
  BY <1>1, LogInvariant, PTL

(* Between two operations the logs replay to exactly the live ledgers, as  *)
(* long as no append fails.                                                *)
THEOREM IdleDisputesAreDurable == Spec => []IdleIsDurable
<1>1. LogInv => IdleIsDurable
  BY UpToDate DEF LogInv, IdleIsDurable, Idle
<1> QED
  BY <1>1, LogInvariant, PTL

(* The consequences of an accepted judgement (conflict.py:640-1030), with  *)
(* an offer of restitution if the loser took anything in a cited theft,    *)
(* are on record before the dispute is on record as resolved, wherever a   *)
(* crash strikes, as long as no append fails; and, whatever appends fail,  *)
(* a theft is paid for once per run of the process.                        *)
THEOREM JudgementsAreCarriedOut == Spec => []JudgementCarriedOut
<1>1. Spec => []PaidInv
  BY PaidStart, PaidKept, PTL DEF Spec
<1>2. LogInv /\ PaidInv => JudgementCarriedOut
  BY InStepIsCarriedOut, PaidImplies DEF JudgementCarriedOut
<1> QED
  BY <1>1, <1>2, LogInvariant, PTL

(* A verdict on record is final: no crash, and no order in which the       *)
(* operations run, reopens a closed dispute or replaces a winner.          *)
THEOREM VerdictsAreFinal == Spec => VerdictsStand
<1> DEFINE Stand ==
        faults' = 0 => \A d \in DisputeIds :
          LET was == disk.con.img[d]  is == disk.con.img[d]' IN
          /\ was.status \in {"resolved", "surrendered", "escalated"} => is.status = was.status
          /\ was.winner # "nobody" => is.winner = was.winner
<1>1. LogInv /\ [Next]_vars => Stand
  BY LogKept DEF Keeps
<1> HIDE DEF Stand
<1>2. LogInv /\ [Next]_vars => [Stand]_vars
  BY <1>1
<1>3. Spec => [][Stand]_vars
  BY <1>2, LogInvariant, PTL DEF Spec
<1> QED
  BY <1>3 DEF VerdictsStand, Stand

=============================================================================
