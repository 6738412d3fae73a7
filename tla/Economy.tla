------------------------------- MODULE Economy -------------------------------
(***************************************************************************)
(* Trade, theft and the ownership of chests working together               *)
(* (core/civilization/trade.py, theft.py, ownership.py).  One operation    *)
(* updates several in-memory ledgers and appends to several log files, one *)
(* line after the other.  Operations are synchronous, so nothing runs      *)
(* between those appends, but the process may die there: the simulation is *)
(* then resumed from whatever reached the three files.                     *)
(*                                                                         *)
(* An operation is one step on the memory (which nobody sees half-done)    *)
(* that leaves the lines it will append in queue, in the code's order;     *)
(* Write appends them one by one, and Crash may strike before any of them  *)
(* (a process that dies inside an append is WriteFails, then Crash).       *)
(***************************************************************************)
EXTENDS TradeBook, JsonlLog, SequencesExt, FiniteSetsExt

CONSTANTS Chests,      \* container target_refs
          OfferTerms,  \* give/want bundles and chests an offer may name
          Loots,       \* bundles a thief may ask for
          Stocks,      \* quantities the bootstrap sets
          MaxOffers, MaxClaims, MaxThefts, MaxSeeds, MaxFaults

ASSUME EconomyAssumption ==
    /\ IsFiniteSet(Agents) /\ IsFiniteSet(Materials)
    /\ OfferTerms \subseteq [give : Bundles, want : Bundles,
                             giveChests : Seq(Chests), wantChests : Seq(Chests)]
    /\ Loots \subseteq Bundles
    /\ Stocks \subseteq Nat
    /\ {MaxOffers, MaxClaims, MaxThefts, MaxSeeds, MaxFaults} \subseteq Nat

Own == INSTANCE OwnershipIndex
           WITH Targets <- Chests, Regions <- {}, Overlaps <- {}

VARIABLES deeds,  \* content of the chest claims granted, by claim id
          offers, \* content of the offers made, by offer id
          thefts, \* content of the theft attempts made, by attempt id
          mem,    \* the three live ledgers
          disk,   \* the three log files
          queue,  \* lines the running operation has yet to append
          seeds,  \* bootstrap inventory_set events so far
          faults  \* appends that raised OSError so far

vars == <<deeds, offers, thefts, mem, disk, queue, seeds, faults>>
contents == <<deeds, offers, thefts, seeds>>

OfferIds == 1..MaxOffers
TheftIds == 1..MaxThefts

(* An attempt is unknown to the theft ledger, undetected, or detected.     *)
TheftStates == {"none", "secret", "detected"}

NoTheft == [i \in TheftIds |-> "none"]

Init ==
    /\ deeds = <<>> /\ offers = <<>> /\ thefts = <<>>
    /\ mem = [own |-> Own!EmptyIndex, trade |-> EmptyBook(OfferIds), theft |-> NoTheft]
    /\ disk = [own |-> Blank(Own!EmptyIndex), trade |-> Blank(EmptyBook(OfferIds)),
               theft |-> Blank(NoTheft)]
    /\ queue = <<>>
    /\ seeds = 0
    /\ faults = 0

Idle == queue = <<>>

-----------------------------------------------------------------------------
(* The lines of the three logs.                                            *)
OwnLine(ev, c) == [log |-> "own", ev |-> ev, id |-> c]
TradeLine(ev, o) == [log |-> "trade", ev |-> ev, id |-> o]
SetLine(a, m, qty, bootstrap) ==
    [log |-> "trade", ev |-> "inventory_set",
     agent |-> a, material |-> m, qty |-> qty, bootstrap |-> bootstrap]
TheftLine(ev, i, detected) ==
    [log |-> "theft", ev |-> ev, id |-> i, detected |-> detected]

(* _apply_replay of the three ledgers.                                     *)
ReplayOwn(ix, line) ==
    CASE line.ev = "claim"    -> Own!ReplayClaim(ix, line.id, deeds[line.id].target)
      [] line.ev = "release"  -> Own!ReplayRelease(ix, line.id, deeds[line.id].target)
      [] line.ev = "conflict" -> Own!ReplayConflict(ix)

ReplayTrade(bk, line) ==
    CASE line.ev = "inventory_set" ->
             SetInventory(bk, line.agent, line.material, line.qty, line.bootstrap)
      [] line.ev = "proposed" -> Propose(bk, line.id)
      [] line.ev = "accepted" -> ReplayAccepted(bk, line.id, offers[line.id])
      [] line.ev = "rejected" -> ReplayRejected(bk, line.id)

(* A "report" line of an attempt the log does not hold changes nothing.    *)
ReplayTheft(th, line) ==
    CASE line.ev = "attempt" ->
             [th EXCEPT ![line.id] = IF line.detected THEN "detected" ELSE "secret"]
      [] line.ev = "report"  ->
             [th EXCEPT ![line.id] = IF @ = "none" THEN @ ELSE "detected"]

Replayed(line) ==
    CASE line.log = "own"   -> ReplayOwn(disk.own.img, line)
      [] line.log = "trade" -> ReplayTrade(disk.trade.img, line)
      [] line.log = "theft" -> ReplayTheft(disk.theft.img, line)

(* _append_event for the next line: it is written, or OSError is swallowed *)
(* and the operation carries on with the line after it.                    *)
Write ==
    /\ ~Idle
    /\ LET line == Head(queue) IN
          disk' = [disk EXCEPT ![line.log] = Written(@, Replayed(line))]
    /\ queue' = Tail(queue)
    /\ UNCHANGED <<mem, faults, contents>>

WriteFails ==
    /\ ~Idle
    /\ faults < MaxFaults
    /\ LET line == Head(queue) IN
          \E damaged \in Damaged(disk[line.log], Replayed(line)) :
              disk' = [disk EXCEPT ![line.log] = damaged]
    /\ queue' = Tail(queue)
    /\ faults' = faults + 1
    /\ UNCHANGED <<mem, contents>>

(* The process dies and the simulation is resumed from the files.          *)
Crash ==
    /\ mem' = [own |-> disk.own.img, trade |-> disk.trade.img, theft |-> disk.theft.img]
    /\ queue' = <<>>
    /\ UNCHANGED <<disk, faults, contents>>

-----------------------------------------------------------------------------
(* set_inventory called by the bootstrap of a simulation.                  *)
Seed(a, m, qty) ==
    /\ Idle
    /\ seeds < MaxSeeds
    /\ seeds' = seeds + 1
    /\ mem' = [mem EXCEPT !.trade = SetInventory(@, a, m, qty, TRUE)]
    /\ queue' = <<SetLine(a, m, qty, TRUE)>>
    /\ UNCHANGED <<deeds, offers, thefts, disk, faults>>

(* OwnershipLedger.claim of chest k for agent a inside a larger operation: *)
(* st carries the index, the deeds and the lines so far.                   *)
ClaimChest(st, a, k) ==
    LET c == Len(st.deeds) + 1 IN
    IF Own!FindConflict(st.ix, st.deeds, k) = {}
      THEN [ix    |-> Own!IndexActive(st.ix, c, k),
            deeds |-> Append(st.deeds, [owner |-> a, target |-> k]),
            lines |-> Append(st.lines, OwnLine("claim", c))]
      ELSE [st EXCEPT !.lines = Append(@, OwnLine("conflict", st.ix.active[k]))]

ReleaseChest(st, c) ==
    [st EXCEPT !.ix = Own!DeindexActive(@, c, st.deeds[c].target),
               !.lines = Append(@, OwnLine("release", c))]

NoLines == [ix |-> mem.own, deeds |-> deeds, lines |-> <<>>]

(* ClaimOwnershipTool and ReleaseOwnershipTool on a chest.                 *)
Claim(a, k) ==
    LET st == ClaimChest(NoLines, a, k) IN
    /\ Idle
    /\ Len(st.deeds) <= MaxClaims
    /\ mem' = [mem EXCEPT !.own = st.ix]
    /\ deeds' = st.deeds
    /\ queue' = st.lines
    /\ UNCHANGED <<offers, thefts, disk, seeds, faults>>

Release(c) ==
    LET st == ReleaseChest(NoLines, c) IN
    /\ Idle
    /\ c \in Own!Held(mem.own)
    /\ mem' = [mem EXCEPT !.own = st.ix]
    /\ queue' = st.lines
    /\ UNCHANGED <<deeds, offers, thefts, disk, seeds, faults>>

(* TradeLedger.propose: not to oneself, and not an empty trade.            *)
ProposeTrade(a, b, terms) ==
    LET o == Len(offers) + 1 IN
    /\ Idle
    /\ o <= MaxOffers
    /\ a # b
    /\ \/ terms.give # NoGoods \/ terms.want # NoGoods
       \/ terms.giveChests # <<>> \/ terms.wantChests # <<>>
    /\ offers' = Append(offers,
          [from |-> a, to |-> b, give |-> terms.give, want |-> terms.want,
           giveChests |-> terms.giveChests, wantChests |-> terms.wantChests])
    /\ mem' = [mem EXCEPT !.trade = Propose(@, o)]
    /\ queue' = <<TradeLine("proposed", o)>>
    /\ UNCHANGED <<deeds, thefts, disk, seeds, faults>>

(* Mutant: whoever owns the chest loses it.                                *)
SeizeContainer(st, k, giver, taker) ==
    LET held == st.ix.active[k]
        freed == IF held # Own!NoClaim THEN ReleaseChest(st, held) ELSE st
    IN  ClaimChest(freed, taker, k)

(* _transfer_container: release the chest if the giver owns it, then claim *)
(* it for the taker, whatever became of the release.                       *)
TransferContainer(st, k, giver, taker) ==
    LET held == st.ix.active[k]
        freed == IF held # Own!NoClaim /\ st.deeds[held].owner = giver
                   THEN ReleaseChest(st, held) ELSE st
    IN  ClaimChest(freed, taker, k)

(* _apply_container_transfers: the given chests, then the wanted ones.     *)
Moves(offer) ==
    [i \in 1..Len(offer.giveChests) |->
        [chest |-> offer.giveChests[i], giver |-> offer.from, taker |-> offer.to]]
    \o [i \in 1..Len(offer.wantChests) |->
           [chest |-> offer.wantChests[i], giver |-> offer.to, taker |-> offer.from]]

Transfers(start, moves) ==
    LET st[i \in 0..Len(moves)] ==
            IF i = 0 THEN start
            ELSE TransferContainer(st[i-1], moves[i].chest, moves[i].giver, moves[i].taker)
    IN  st[Len(moves)]

ContainerTransfers(offer) == Transfers(NoLines, Moves(offer))

(* TradeLedger.accept: swap, transfer the chests (their lines go to the    *)
(* ownership log), and only then append "accepted" to the trade log.       *)
AcceptTrade(a, o) ==
    LET st == ContainerTransfers(offers[o]) IN
    /\ Idle
    /\ Acceptable(mem.trade, o, offers[o], a)
    /\ Len(st.deeds) <= MaxClaims
    /\ mem' = [mem EXCEPT !.trade = Settle(@, o, offers[o]), !.own = st.ix]
    /\ deeds' = st.deeds
    /\ queue' = Append(st.lines, TradeLine("accepted", o))
    /\ UNCHANGED <<offers, thefts, disk, seeds, faults>>

(* TradeLedger.reject.                                                     *)
RejectTrade(a, o) ==
    /\ Idle
    /\ mem.trade.status[o] = "pending"
    /\ offers[o].to = a
    /\ mem' = [mem EXCEPT !.trade = Decline(@, o)]
    /\ queue' = <<TradeLine("rejected", o)>>
    /\ UNCHANGED <<deeds, offers, thefts, disk, seeds, faults>>

(* A theft debits the victim and credits the thief by set_inventory: the   *)
(* goods in gone have left the victim, those in got have reached the thief *)
(* ...                                                                     *)
Carried(f, thief, victim, taken, gone, got) ==
    [a \in Agents |-> [m \in Materials |->
        CASE a = victim /\ m \in gone -> f[a][m] - taken[m]
          [] a = thief /\ m \in got   -> f[a][m] + taken[m]
          [] OTHER                    -> f[a][m]]]

PartLoot(bk, thief, victim, taken, gone, got) ==
    [bk EXCEPT !.inv = Carried(@, thief, victim, taken, gone, got),
               !.external = Carried(@, thief, victim, taken, gone, got)]

MoveLoot(bk, thief, victim, taken) ==
    PartLoot(bk, thief, victim, taken, Materials, Materials)

LeftWith(inv, victim, m, taken) == SetLine(victim, m, inv[victim][m] - taken[m], FALSE)
GainedBy(inv, thief, m, taken) == SetLine(thief, m, inv[thief][m] + taken[m], FALSE)

(* Mutant: the thief is credited before the victim is debited.             *)
CreditFirst(inv, thief, victim, taken, order) ==
    [i \in 1..(2 * Len(order)) |->
        LET m == order[(i + 1) \div 2] IN
        IF i % 2 = 1 THEN GainedBy(inv, thief, m, taken) ELSE LeftWith(inv, victim, m, taken)]

(* ... one material after the other, which leaves two lines for each.      *)
LootLines(inv, thief, victim, taken, order) ==
    [i \in 1..(2 * Len(order)) |->
        LET m == order[(i + 1) \div 2] IN
        IF i % 2 = 1 THEN LeftWith(inv, victim, m, taken) ELSE GainedBy(inv, thief, m, taken)]

(* What is there of what was asked for.                                    *)
Takes(inv, victim, loot) ==
    [m \in Materials |->
        CASE inv[victim][m] <= 0 -> 0
          [] inv[victim][m] > 0 /\ inv[victim][m] < loot[m] -> inv[victim][m]
          [] OTHER -> loot[m]]

(* The materials taken, in the order the thief asked for them.             *)
Orders(taken) == SetToSeqs({m \in Materials : taken[m] > 0})

(* set_inventory raises ValueError rather than leave the thief in debt: a  *)
(* replay of a damaged log may have left a debt larger than the loot.      *)
Refused(inv, thief, taken) ==
    {m \in Materials : taken[m] > 0 /\ inv[thief][m] + taken[m] < 0}

(* TheftLedger.attempt: the goods move, then the attempt is logged; the    *)
(* detection roll is a hash of run, tick and thief, so any outcome.        *)
Steal(thief, victim, k, loot, detected) ==
    LET i == Len(thefts) + 1
        inv == mem.trade.inv
        taken == Takes(inv, victim, loot)
    IN
    /\ Idle
    /\ i <= MaxThefts
    /\ thief # victim
    /\ Refused(inv, thief, taken) = {}
    /\ thefts' = Append(thefts, [thief |-> thief, chest |-> k])
    /\ mem' = [mem EXCEPT !.trade = MoveLoot(@, thief, victim, taken),
                          !.theft[i] = IF detected THEN "detected" ELSE "secret"]
    /\ \E order \in Orders(taken) :
          queue' = Append(LootLines(inv, thief, victim, taken, order),
                          TheftLine("attempt", i, detected))
    /\ UNCHANGED <<deeds, offers, disk, seeds, faults>>

(* An attempt that the ValueError leaves: what the thief asked for first   *)
(* has moved, the refused material has only left the victim, and there is  *)
(* neither an attempt on record nor a line about one.                      *)
StealRaises(thief, victim, loot) ==
    LET inv == mem.trade.inv
        taken == Takes(inv, victim, loot)
        refused == Refused(inv, thief, taken)
    IN
    /\ Idle
    /\ thief # victim
    /\ \E order \in Orders(taken) : \E n \in 1..Len(order) :
          /\ order[n] \in refused
          /\ \A j \in 1..(n - 1) : order[j] \notin refused
          /\ mem' = [mem EXCEPT !.trade =
                        PartLoot(@, thief, victim, taken, {order[j] : j \in 1..n},
                                                          {order[j] : j \in 1..(n - 1)})]
          /\ queue' = SubSeq(LootLines(inv, thief, victim, taken, order), 1, 2 * n - 1)
    /\ UNCHANGED <<contents, disk, faults>>

(* The known attempts of a thief on a chest; report_theft takes the latest *)
(* one, detected or not.                                                   *)
Matches(thief, k) ==
    {i \in 1..Len(thefts) : /\ mem.theft[i] # "none"
                            /\ thefts[i] = [thief |-> thief, chest |-> k]}

ReportTheft(thief, k) ==
    LET i == Max(Matches(thief, k)) IN
    /\ Idle
    /\ Matches(thief, k) # {}
    /\ mem' = [mem EXCEPT !.theft[i] = "detected"]
    /\ queue' = <<TheftLine("report", i, TRUE)>>
    /\ UNCHANGED <<deeds, offers, thefts, disk, seeds, faults>>

Next ==
    \/ \E a \in Agents, m \in Materials, qty \in Stocks : Seed(a, m, qty)
    \/ \E a \in Agents, k \in Chests : Claim(a, k)
    \/ \E c \in 1..Len(deeds) : Release(c)
    \/ \E a, b \in Agents, terms \in OfferTerms : ProposeTrade(a, b, terms)
    \/ \E a \in Agents, o \in 1..Len(offers) : AcceptTrade(a, o) \/ RejectTrade(a, o)
    \/ \E a, b \in Agents, k \in Chests, loot \in Loots, d \in BOOLEAN :
          Steal(a, b, k, loot, d)
    \/ \E a, b \in Agents, loot \in Loots : StealRaises(a, b, loot)
    \/ \E a \in Agents, k \in Chests : ReportTheft(a, k)
    \/ Write
    \/ WriteFails
    \/ Crash

Spec == Init /\ [][Next]_vars

-----------------------------------------------------------------------------
(* Types of all the variables.                                             *)
TypeOK ==
    /\ deeds \in Seq([owner : Agents, target : Chests])
    /\ offers \in Seq([from : Agents, to : Agents, give : Bundles, want : Bundles,
                       giveChests : Seq(Chests), wantChests : Seq(Chests)])
    /\ thefts \in Seq([thief : Agents, chest : Chests])
    /\ mem \in [own   : Own!Index(1..Len(deeds)),
                trade : Books(OfferIds),
                theft : [TheftIds -> TheftStates]]
    /\ disk \in [own   : Files(Own!Index(1..Len(deeds))),
                 trade : Files(Books(OfferIds)),
                 theft : Files([TheftIds -> TheftStates])]
    /\ seeds \in 0..MaxSeeds
    /\ faults \in 0..MaxFaults

(* The live trade ledger and the two that a replay may rebuild.            *)
AllBooks == {mem.trade, disk.trade.img, disk.trade.base}

(* accept and attempt check holdings before they debit them, and replay    *)
(* debits without looking: no holding is ever negative, neither live nor   *)
(* in a simulation resumed after a crash at any line, while appends work.  *)
NoNegativeHoldings ==
    faults = 0 => \A bk \in AllBooks, a \in Agents, m \in Materials : bk.inv[a][m] >= 0

Total(bk, m) == SumFunction([a \in Agents |-> bk.inv[a][m]])

(* A theft or a swap cut short by a crash may lose goods but never makes   *)
(* any: no ledger holds more of a material than its bootstrap put there.   *)
NothingDuplicated ==
    faults = 0 => \A bk \in AllBooks, m \in Materials : Total(bk, m) <= bk.minted[m]

(* Goods are conserved by trades and thefts cut short anywhere: the books  *)
(* are well formed, nothing is owed, nothing is made.                      *)
GoodsConserved == TypeOK /\ NoNegativeHoldings /\ NothingDuplicated

(* What an accepted offer adds to the holding of a.                        *)
Gain(o, a, m) ==
    LET swing == offers[o].want[m] - offers[o].give[m] IN
    CASE a = offers[o].from -> swing
      [] a = offers[o].to   -> -swing
      [] OTHER              -> 0

(* Whatever appends fail and wherever a crash strikes, every holding is    *)
(* what inventory_set events and the offers marked accepted add up to: no  *)
(* trade is applied twice, or applied without being marked.                *)
BooksBalance ==
    \A bk \in AllBooks, a \in Agents, m \in Materials :
        LET accepted == {o \in 1..Len(offers) : bk.status[o] = "accepted"} IN
        bk.inv[a][m] = bk.external[a][m]
                         + SumFunction([o \in accepted |-> Gain(o, a, m)])

(* Between operations the three logs together replay to exactly the live   *)
(* ledgers, after any history of crashes, while appends work.              *)
IdleIsDurable ==
    Idle /\ faults = 0 =>
        mem = [own |-> disk.own.img, trade |-> disk.trade.img, theft |-> disk.theft.img]

ChestOwner(ix, dd, k) == {dd[c].owner : c \in {ix.active[k]} \ {Own!NoClaim}}

(* o hands chest k from agent x to agent y.                                *)
HandsOver(o, k, x, y) ==
    \/ offers[o].from = x /\ offers[o].to = y /\ k \in ToSet(offers[o].giveChests)
    \/ offers[o].to = x /\ offers[o].from = y /\ k \in ToSet(offers[o].wantChests)

Accepts(o) == mem.trade.status[o] = "pending" /\ mem'.trade.status[o] = "accepted"

(* A chest passes directly from one agent to another only when the offer   *)
(* being accepted is between these two and names that chest: no operation  *)
(* takes a chest from a bystander.                                         *)
ChestsMoveOnlyByTrade ==
    [][queue' # <<>> /\ Idle =>
        \A k \in Chests, x, y \in Agents :
            /\ x # y
            /\ ChestOwner(mem.own, deeds, k) = {x}
            /\ ChestOwner(mem'.own, deeds', k) = {y}
            => \E o \in 1..Len(offers) : Accepts(o) /\ HandsOver(o, k, x, y)]_vars

=============================================================================
