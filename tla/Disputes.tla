------------------------------ MODULE Disputes ------------------------------
(***************************************************************************)
(* Disputes and their consequences: the dispute half of the conflict       *)
(* ledger (core/civilization/conflict.py) with the sibling ledgers that an *)
(* accepted judgement changes: ownership (land is transferred), trade      *)
(* (restitution is offered) and diplomacy (treaties are broken).           *)
(*                                                                         *)
(* As in Economy, an operation is one step on the memory that leaves the   *)
(* lines it appends in queue; Write appends them one by one and Crash may  *)
(* strike before any of them.  Theft attempts are on record from the start *)
(* and treaties start active: Economy and Factions model how they arise.   *)
(* Relationship deltas, returned to the caller, change no ledger.          *)
(***************************************************************************)
EXTENDS Integers, FiniteSets, Sequences, Functions, JsonlLog

CONSTANTS Agents, Plots,
          Attempts, ThiefOf,  \* theft attempts on record, and their thieves
          EmptyHanded,        \* those among them that found nothing to take
          Treaties,           \* treaties on record
          MaxClaims, MaxDisputes, MaxOffers,
          MaxEvidence,        \* bound on the entries of one dispute
          Plaintiffs,         \* agents that open disputes
          DisputeTypes,       \* the _VALID_DISPUTE_TYPES that are opened
          FragileLogs,        \* logs whose appends may raise OSError
          MaxLosses, MaxFaults

ASSUME DisputesAssumption ==
    /\ ThiefOf \in [Attempts -> Agents]
    /\ Plaintiffs \subseteq Agents
    /\ EmptyHanded \subseteq Attempts
    /\ {MaxClaims, MaxDisputes, MaxOffers, MaxEvidence, MaxLosses, MaxFaults} \subseteq Nat

Own == INSTANCE OwnershipIndex
           WITH Targets <- Plots, Regions <- Plots, Overlaps <- {<<p, p>> : p \in Plots}

VARIABLES deeds,     \* content of the claims granted, by claim id
          disputes,  \* content of the disputes opened, by dispute id
          offers,    \* content of the restitution offers, by offer id
          mem,       \* the four live ledgers
          disk,      \* the four log files
          queue,     \* lines the running operation has yet to append
          losses,    \* crashes that lost something, so far
          faults     \* appends that raised OSError so far

vars == <<deeds, disputes, offers, mem, disk, queue, losses, faults>>
contents == <<deeds, disputes, offers, losses>>

DisputeIds == 1..MaxDisputes
OfferIds == 1..MaxOffers

(* EvidenceRef: what the entry points to, and who submitted it.  An        *)
(* utterance stands for any reference no ledger can confirm.               *)
Refs == [type : {"ownership"}, id : 1..MaxClaims]
        \cup [type : {"theft"}, id : Attempts]
        \cup [type : {"diplomacy"}, id : Treaties]
        \cup {[type |-> "utterance", id |-> 0]}

Entries == [ref : Refs, by : Agents]

Statuses == {"none", "open", "judged", "resolved", "surrendered", "escalated"}

(* A dispute of _disputes.  Status "surrendered" is "resolved" with an     *)
(* outcome that has surrendered_by.                                        *)
Case == [status : Statuses, evidence : Seq(Entries), winner : Agents \cup {"nobody"}]

NoCase == [status |-> "none", evidence |-> <<>>, winner |-> "nobody"]

NoCases == [d \in DisputeIds |-> NoCase]
AllActive == [t \in Treaties |-> "active"]

Init ==
    /\ deeds = <<>> /\ disputes = <<>> /\ offers = <<>>
    /\ mem = [own |-> Own!EmptyIndex, trade |-> {}, dip |-> AllActive, con |-> NoCases]
    /\ disk = [own |-> Blank(Own!EmptyIndex), trade |-> Blank({}),
               dip |-> Blank(AllActive), con |-> Blank(NoCases)]
    /\ queue = <<>>
    /\ losses = 0
    /\ faults = 0

Idle == queue = <<>>

Loser(d, winner) ==
    IF winner = disputes[d].initiator THEN disputes[d].respondent ELSE disputes[d].initiator

-----------------------------------------------------------------------------
(* The lines of the four logs.                                             *)
OwnLine(ev, c) == [log |-> "own", ev |-> ev, id |-> c]
OfferLine(o) == [log |-> "trade", ev |-> "proposed", id |-> o]
BreakLine(t) == [log |-> "dip", ev |-> "broken", id |-> t]
CaseLine(ev, d, data) == [log |-> "con", ev |-> ev, id |-> d, data |-> data]

(* What the operations do to a dispute, live and on replay.                *)
Attach(cs, d, entry) == [cs EXCEPT ![d].evidence = Append(@, entry)]
Rule(cs, d, winner) == [cs EXCEPT ![d].status = "judged", ![d].winner = winner]
Close(cs, d, status) == [cs EXCEPT ![d].status = status]

(* Mutant: a "judged" line does not need an open dispute.                  *)
ReplayRulesAgain(cs, line) ==
    LET d == line.id IN
    CASE line.ev = "opened" ->
             [cs EXCEPT ![d] = [status |-> "open", evidence |-> line.data, winner |-> "nobody"]]
      [] line.ev = "evidence_submitted" -> Attach(cs, d, line.data)
      [] line.ev = "judged" -> Rule(cs, d, line.data)
      [] line.ev \in {"resolved", "surrendered", "escalated"} -> Close(cs, d, "open")

(* _apply_replay of the dispute lines: evidence and judgements count for   *)
(* an open dispute, an escalation for a judged one, the others for any     *)
(* dispute that is known.                                                  *)
ReplayCase(cs, line) ==
    LET d == line.id
        status == cs[d].status
    IN
    CASE line.ev = "opened" ->
             [cs EXCEPT ![d] = [status |-> "open", evidence |-> line.data, winner |-> "nobody"]]
      [] line.ev = "evidence_submitted" -> IF status = "open" THEN Attach(cs, d, line.data) ELSE cs
      [] line.ev = "judged"     -> IF status = "open" THEN Rule(cs, d, line.data) ELSE cs
      [] line.ev = "escalated"  -> IF status = "judged" THEN Close(cs, d, line.ev) ELSE cs
      [] line.ev = "resolved"   ->
             IF status = "none" THEN cs
             ELSE [Close(cs, d, line.ev) EXCEPT ![d].winner = line.data]
      [] line.ev = "surrendered" -> IF status = "none" THEN cs ELSE Close(cs, d, line.ev)

ReplayOwn(ix, line) ==
    CASE line.ev = "claim"    -> Own!ReplayClaim(ix, line.id, deeds[line.id].target)
      [] line.ev = "release"  -> Own!ReplayRelease(ix, line.id, deeds[line.id].target)
      [] line.ev = "conflict" -> Own!ReplayConflict(ix)

Replayed(line) ==
    CASE line.log = "own"   -> ReplayOwn(disk.own.img, line)
      [] line.log = "trade" -> disk.trade.img \cup {line.id}
      [] line.log = "dip"   -> [disk.dip.img EXCEPT ![line.id] = "broken"]
      [] line.log = "con"   -> ReplayCase(disk.con.img, line)

(* _append_event for the next line: it is written, or OSError is swallowed *)
(* and the operation carries on with the line after it.                    *)
Write ==
    /\ ~Idle
    /\ LET line == Head(queue) IN
          disk' = [disk EXCEPT ![line.log] = Written(@, Replayed(line))]
    /\ queue' = Tail(queue)
    /\ UNCHANGED <<mem, faults, contents>>

WriteFails ==
    /\ ~Idle
    /\ faults < MaxFaults
    /\ Head(queue).log \in FragileLogs
    /\ LET line == Head(queue) IN
          \E damaged \in Damaged(disk[line.log], Replayed(line)) :
              disk' = [disk EXCEPT ![line.log] = damaged]
    /\ queue' = Tail(queue)
    /\ faults' = faults + 1
    /\ UNCHANGED <<mem, contents>>

(* What a resumed simulation rebuilds from the files.                      *)
Rebuilt == [log \in DOMAIN disk |-> disk[log].img]

(* The process dies and the simulation is resumed from the files.  A crash *)
(* that loses nothing changes nothing and is not counted.                  *)
Crash ==
    /\ ~Idle \/ mem # Rebuilt
    /\ losses < MaxLosses
    /\ losses' = losses + 1
    /\ mem' = Rebuilt
    /\ queue' = <<>>
    /\ UNCHANGED <<deeds, disputes, offers, disk, faults>>

-----------------------------------------------------------------------------
(* What happens around a dispute: land is claimed and released, and any    *)
(* agent breaks a treaty.                                                  *)
Claim(a, p) ==
    LET c == Len(deeds) + 1 IN
    /\ Idle
    /\ c <= MaxClaims
    /\ Own!FindConflict(mem.own, deeds, p) = {}
    /\ deeds' = Append(deeds, [owner |-> a, target |-> p])
    /\ mem' = [mem EXCEPT !.own = Own!IndexActive(@, c, p)]
    /\ queue' = <<OwnLine("claim", c)>>
    /\ UNCHANGED <<disputes, offers, disk, losses, faults>>

Release(c) ==
    /\ Idle
    /\ c \in Own!Held(mem.own)
    /\ mem' = [mem EXCEPT !.own = Own!DeindexActive(@, c, deeds[c].target)]
    /\ queue' = <<OwnLine("release", c)>>
    /\ UNCHANGED <<disk, faults, contents>>

BreakTreaty(t) ==
    /\ Idle
    /\ mem.dip[t] = "active"
    /\ mem' = [mem EXCEPT !.dip[t] = "broken"]
    /\ queue' = <<BreakLine(t)>>
    /\ UNCHANGED <<disk, faults, contents>>

(* A reference an agent can name: a claim id exists once it was granted.   *)
Citable(ref) == ref.type = "ownership" => ref.id <= Len(deeds)

(* open_dispute, with at most one piece of evidence.                       *)
OpenDispute(a, b, type, refs) ==
    LET d == Len(disputes) + 1
        evidence == [i \in DOMAIN refs |-> [ref |-> refs[i], by |-> a]]
        line == CaseLine("opened", d, evidence)
    IN
    /\ Idle
    /\ d <= MaxDisputes
    /\ a # b
    /\ \A i \in DOMAIN refs : Citable(refs[i])
    /\ disputes' = Append(disputes, [initiator |-> a, respondent |-> b, type |-> type])
    /\ mem' = [mem EXCEPT !.con = ReplayCase(@, line)]
    /\ queue' = <<line>>
    /\ UNCHANGED <<deeds, offers, disk, losses, faults>>

Parties(d) == {disputes[d].initiator, disputes[d].respondent}

(* Mutant: evidence is taken after the judgement as well.                  *)
SubmitLate(d, a, ref) ==
    /\ Idle
    /\ mem.con[d].status \in {"open", "judged"}
    /\ Len(mem.con[d].evidence) < MaxEvidence
    /\ a \in Parties(d)
    /\ Citable(ref)
    /\ \A i \in DOMAIN mem.con[d].evidence : mem.con[d].evidence[i].ref # ref
    /\ mem' = [mem EXCEPT !.con = Attach(@, d, [ref |-> ref, by |-> a])]
    /\ queue' = <<CaseLine("evidence_submitted", d, [ref |-> ref, by |-> a])>>
    /\ UNCHANGED <<disk, faults, contents>>

(* submit_evidence, by a party, of something not attached yet.             *)
SubmitEvidence(d, a, ref) ==
    /\ Idle
    /\ mem.con[d].status = "open"
    /\ Len(mem.con[d].evidence) < MaxEvidence
    /\ a \in Parties(d)
    /\ Citable(ref)
    /\ \A i \in DOMAIN mem.con[d].evidence : mem.con[d].evidence[i].ref # ref
    /\ mem' = [mem EXCEPT !.con = Attach(@, d, [ref |-> ref, by |-> a])]
    /\ queue' = <<CaseLine("evidence_submitted", d, [ref |-> ref, by |-> a])>>
    /\ UNCHANGED <<disk, faults, contents>>

(* _build_support_index and _ref_supported: the reference resolves.        *)
Supported(own, ref) ==
    CASE ref.type = "ownership" -> ref.id \in own.known
      [] ref.type \in {"theft", "diplomacy"} -> TRUE
      [] ref.type = "utterance" -> FALSE

(* _auto_judge: 2.0 for supported evidence, 0.5 otherwise, in halves.      *)
Weight(own, entry) == IF Supported(own, entry.ref) THEN 4 ELSE 1

Score(own, case, a) ==
    LET Submitted == {i \in DOMAIN case.evidence : case.evidence[i].by = a}
    IN  SumFunction([i \in Submitted |-> Weight(own, case.evidence[i])])

(* The party with the higher score; the hash that breaks a tie may favour  *)
(* either.                                                                 *)
Winners(own, case, d) ==
    {w \in Parties(d) : \A a \in Parties(d) : Score(own, case, a) <= Score(own, case, w)}

(* request_judgement, by anyone.                                           *)
RequestJudgement(d) ==
    /\ Idle
    /\ mem.con[d].status = "open"
    /\ \E w \in Winners(mem.own, mem.con[d], d) :
          /\ mem' = [mem EXCEPT !.con = Rule(@, d, w)]
          /\ queue' = <<CaseLine("judged", d, w)>>
    /\ UNCHANGED <<disk, faults, contents>>

(* The loser does not accept: the dispute is escalated.                    *)
Escalate(d) ==
    /\ Idle
    /\ mem.con[d].status = "judged"
    /\ mem' = [mem EXCEPT !.con = Close(@, d, "escalated")]
    /\ queue' = <<CaseLine("escalated", d, "nobody")>>
    /\ UNCHANGED <<disk, faults, contents>>

(* surrender of a dispute: by anyone, with no consequences.                *)
Surrender(d) ==
    /\ Idle
    /\ mem.con[d].status \in {"open", "judged"}
    /\ mem' = [mem EXCEPT !.con = Close(@, d, "surrendered")]
    /\ queue' = <<CaseLine("surrendered", d, "nobody")>>
    /\ UNCHANGED <<disk, faults, contents>>

-----------------------------------------------------------------------------
(* The loser accepts: _apply_consequences, then the dispute is resolved.   *)

(* _apply_territorial_transfer for one entry: a cited claim that the loser *)
(* still holds is released, then claimed for the winner (who may be turned *)
(* down: the plot can be blocked by another claim a damaged log revived).  *)
Transfer(entry, st) ==
    LET c == entry.ref.id
        p == st.deeds[c].target
        freed == Own!DeindexActive(st.ix, c, p)
        new == Len(st.deeds) + 1
    IN
    IF ~(entry.ref.type = "ownership" /\ c \in Own!Held(st.ix) /\ st.deeds[c].owner = st.loser)
      THEN st
    ELSE IF Own!FindConflict(freed, st.deeds, p) # {}
      THEN [st EXCEPT !.ix = freed,
                      !.lines = @ \o <<OwnLine("release", c), OwnLine("conflict", c)>>]
    ELSE [st EXCEPT !.ix = Own!IndexActive(freed, new, p),
                    !.deeds = Append(@, [owner |-> st.winner, target |-> p]),
                    !.lines = @ \o <<OwnLine("release", c), OwnLine("claim", new)>>]

(* _apply_treaty_break for one entry.                                      *)
BreakCited(entry, st) ==
    LET t == entry.ref.id IN
    IF entry.ref.type = "diplomacy" /\ st.dip[t] = "active"
      THEN [st EXCEPT !.dip[t] = "broken", !.lines = Append(@, BreakLine(t))]
      ELSE st

(* The entries of the evidence are taken in the order they were submitted. *)
Apply(type, entry, st) ==
    CASE type = "territorial"      -> Transfer(entry, st)
      [] type = "treaty_violation" -> BreakCited(entry, st)
      [] OTHER                     -> st

ApplyAll(type, evidence, start) ==
    LET st[i \in 0..Len(evidence)] ==
            IF i = 0 THEN start ELSE Apply(type, evidence[i], st[i-1])
    IN  st[Len(evidence)]

(* The reference is to a theft in which the loser took something.          *)
Stolen(ref, loser) ==
    ref.type = "theft" /\ ThiefOf[ref.id] = loser /\ ref.id \notin EmptyHanded

(* _apply_theft_restitution: one offer of all that was taken in the thefts *)
(* of the loser that the evidence names, unless that is nothing.           *)
Restitution(st, d, evidence) ==
    LET new == Len(st.offers) + 1 IN
    IF \E i \in DOMAIN evidence : Stolen(evidence[i].ref, st.loser)
      THEN [st EXCEPT !.offers = Append(@, [from |-> st.loser, to |-> st.winner, of |-> d]),
                      !.trade = @ \cup {new},
                      !.lines = Append(@, OfferLine(new))]
      ELSE st

Before(d) ==
    [ix |-> mem.own, deeds |-> deeds, offers |-> offers, trade |-> mem.trade,
     dip |-> mem.dip, lines |-> <<>>,
     winner |-> mem.con[d].winner, loser |-> Loser(d, mem.con[d].winner)]

Consequences(d) ==
    IF disputes[d].type = "theft"
      THEN Restitution(Before(d), d, mem.con[d].evidence)
      ELSE ApplyAll(disputes[d].type, mem.con[d].evidence, Before(d))

(* Mutant: the resolved line is appended first.                            *)
ResolveFirst(d) ==
    LET st == Consequences(d) IN
    /\ Idle
    /\ mem.con[d].status = "judged"
    /\ Len(st.deeds) <= MaxClaims /\ Len(st.offers) <= MaxOffers
    /\ deeds' = st.deeds /\ offers' = st.offers
    /\ mem' = [own |-> st.ix, trade |-> st.trade, dip |-> st.dip,
               con |-> Close(mem.con, d, "resolved")]
    /\ queue' = <<CaseLine("resolved", d, st.winner)>> \o st.lines
    /\ UNCHANGED <<disputes, disk, losses, faults>>

(* accept_judgement with accept=true, by the loser.                        *)
AcceptJudgement(d) ==
    LET st == Consequences(d) IN
    /\ Idle
    /\ mem.con[d].status = "judged"
    /\ Len(st.deeds) <= MaxClaims /\ Len(st.offers) <= MaxOffers
    /\ deeds' = st.deeds /\ offers' = st.offers
    /\ mem' = [own |-> st.ix, trade |-> st.trade, dip |-> st.dip,
               con |-> Close(mem.con, d, "resolved")]
    /\ queue' = Append(st.lines, CaseLine("resolved", d, st.winner))
    /\ UNCHANGED <<disputes, disk, losses, faults>>

-----------------------------------------------------------------------------
Next ==
    \/ Write \/ WriteFails \/ Crash
    \/ \E a \in Agents, p \in Plots : Claim(a, p)
    \/ \E c \in 1..Len(deeds) : Release(c)
    \/ \E t \in Treaties : BreakTreaty(t)
    \/ \E a \in Plaintiffs, b \in Agents, type \in DisputeTypes :
          OpenDispute(a, b, type, <<>>) \/ \E ref \in Refs : OpenDispute(a, b, type, <<ref>>)
    \/ \E d \in 1..Len(disputes) :
          \/ \E a \in Agents, ref \in Refs : SubmitEvidence(d, a, ref)
          \/ RequestJudgement(d) \/ AcceptJudgement(d) \/ Escalate(d) \/ Surrender(d)

Spec == Init /\ [][Next]_vars

-----------------------------------------------------------------------------
(* Types of all the variables.                                             *)
TypeOK ==
    LET Ledgers == [own   : Own!Index(1..Len(deeds)), trade : SUBSET OfferIds,
                    dip   : [Treaties -> {"active", "broken"}], con : [DisputeIds -> Case]]
    IN
    /\ deeds \in Seq([owner : Agents, target : Plots])
    /\ disputes \in Seq([initiator : Agents, respondent : Agents, type : DisputeTypes])
    /\ offers \in Seq([from : Agents, to : Agents, of : DisputeIds])
    /\ mem \in Ledgers
    /\ Rebuilt \in Ledgers
    /\ [log \in DOMAIN disk |-> disk[log].base] \in Ledgers
    /\ losses \in 0..MaxLosses /\ faults \in 0..MaxFaults

(* The dispute as the logs show it now.                                    *)
OnRecord(d) == disk.con.img[d]

(* conflict.py, accept_judgement: the lines of the consequences precede    *)
(* the "resolved" line, so wherever a crash strikes, a dispute on record   *)
(* as resolved has been carried out on record: no cited claim is still the *)
(* loser's, no cited treaty is still active, and restitution was offered   *)
(* if the loser took anything in a cited theft.                            *)
ResolvedIsCarriedOut ==
    faults = 0 => \A d \in 1..Len(disputes) : OnRecord(d).status = "resolved" =>
        LET loser == Loser(d, OnRecord(d).winner)
            cited == {OnRecord(d).evidence[i].ref : i \in DOMAIN OnRecord(d).evidence}
        IN \A ref \in cited :
              /\ disputes[d].type = "territorial" /\ ref.type = "ownership" =>
                    ~(ref.id \in Own!Held(disk.own.img) /\ deeds[ref.id].owner = loser)
              /\ disputes[d].type = "treaty_violation" /\ ref.type = "diplomacy" =>
                    disk.dip.img[ref.id] = "broken"
              /\ disputes[d].type = "theft" /\ Stolen(ref, loser) =>
                    \E o \in disk.trade.img : offers[o].of = d

(* An accepted theft judgement is paid for once: a second restitution      *)
(* offer for a dispute takes a crash that forgot the first acceptance.     *)
PaidOncePerRun ==
    \A d \in 1..Len(disputes) :
        Cardinality({o \in DOMAIN offers : offers[o].of = d}) <= 1 + losses

(* An accepted judgement is carried out: before it is on record as         *)
(* resolved, and no more than once per run of the process.                 *)
JudgementCarriedOut == ResolvedIsCarriedOut /\ PaidOncePerRun

(* The verdict, live and on record, is the one its evidence supports       *)
(* (_auto_judge), although evidence, claims and releases go on around the  *)
(* judgement and restarts rebuild the ledgers it was judged with.          *)
VerdictFitsEvidence ==
    faults = 0 => \A d \in 1..Len(disputes) : \A ledgers \in {mem, Rebuilt} :
        LET case == ledgers.con[d] IN
        case.winner # "nobody" => case.winner \in Winners(ledgers.own, case, d)

(* The ledgers, live and on record, are well formed and their verdicts are *)
(* the ones the evidence supports.                                         *)
VerdictsSound == TypeOK /\ VerdictFitsEvidence

(* While appends work, between two operations the logs replay to exactly   *)
(* the live ledgers, evidence and verdicts included.                       *)
IdleIsDurable ==
    faults = 0 /\ Idle => mem = Rebuilt

(* A verdict is final on record: an escalated, surrendered or resolved     *)
(* dispute is never reopened or judged anew, and a judged one never loses  *)
(* its winner, wherever crashes strike, as long as no append has failed (a *)
(* torn line may take a whole record with it).                             *)
VerdictsStand ==
    [][faults' = 0 => \A d \in DisputeIds :
          LET was == disk.con.img[d]  is == disk.con.img[d]' IN
          /\ was.status \in {"resolved", "surrendered", "escalated"} => is.status = was.status
          /\ was.winner # "nobody" => is.winner = was.winner]_vars

=============================================================================
