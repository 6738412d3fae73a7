---------------------------- MODULE EconomyProofs ----------------------------
(***************************************************************************)
(* Proofs about the trade, theft and ownership ledgers working together,   *)
(* for every set of agents, materials and chests, every set of offers and  *)
(* loots, and any number of claims, offers, thefts, crashes and appends    *)
(* that fail.                                                              *)
(***************************************************************************)
EXTENDS Economy, SumTheorems

-----------------------------------------------------------------------------
(* Types.                                                                  *)

Deed  == [owner : Agents, target : Chests]
Offer == [from : Agents, to : Agents, give : Bundles, want : Bundles,
          giveChests : Seq(Chests), wantChests : Seq(Chests)]
Theft == [thief : Agents, chest : Chests]
Thefts == [TheftIds -> TheftStates]
Ledgers(n) == [own : Own!Index(1..n), trade : Books(OfferIds), theft : Thefts]

(* The lines about the first n claims, offers 1..no and thefts 1..nt.      *)
OwnLines(n) == {OwnLine(ev, c) : ev \in {"claim", "release", "conflict"}, c \in 1..n}
OfferLines(no) ==
    {TradeLine(ev, o) : ev \in {"proposed", "accepted", "rejected"}, o \in 1..no}
SetLines ==
    {SetLine(a, m, qty, b) : a \in Agents, m \in Materials, qty \in Int, b \in BOOLEAN}
TheftLines(nt) ==
    {TheftLine(ev, i, d) : ev \in {"attempt", "report"}, i \in 1..nt, d \in BOOLEAN}
Lines(n, no, nt) == OwnLines(n) \cup OfferLines(no) \cup SetLines \cup TheftLines(nt)

EconomyTypes ==
    /\ TypeOK
    /\ Len(offers) <= MaxOffers
    /\ Len(thefts) <= MaxThefts
    /\ \A o \in 1..Len(offers) : offers[o].from # offers[o].to
    /\ queue \in Seq(Lines(Len(deeds), Len(offers), Len(thefts)))

LEMMA LineLogs ==
    ASSUME NEW n, NEW no, NEW nt
    PROVE  /\ \A line \in OwnLines(n) : line.log = "own"
           /\ \A line \in OfferLines(no) \cup SetLines : line.log = "trade"
           /\ \A line \in TheftLines(nt) : line.log = "theft"
           /\ \A line \in OwnLines(n) :
                 line.ev \in {"claim", "release", "conflict"} /\ line.id \in 1..n
           /\ \A line \in OfferLines(no) :
                 line.ev \in {"proposed", "accepted", "rejected"} /\ line.id \in 1..no
           /\ \A line \in SetLines :
                 /\ line.ev = "inventory_set"
                 /\ line.agent \in Agents /\ line.material \in Materials
                 /\ line.qty \in Int /\ line.bootstrap \in BOOLEAN
           /\ \A line \in TheftLines(nt) :
                 line.ev \in {"attempt", "report"} /\ line.id \in 1..nt
BY DEF OwnLines, OfferLines, SetLines, TheftLines, OwnLine, TradeLine, SetLine, TheftLine

LEMMA LineTypes ==
    ASSUME NEW n, NEW no, NEW nt
    PROVE  /\ \A ev \in {"claim", "release", "conflict"}, c \in 1..n :
                 OwnLine(ev, c) \in Lines(n, no, nt)
           /\ \A ev \in {"proposed", "accepted", "rejected"}, o \in 1..no :
                 TradeLine(ev, o) \in Lines(n, no, nt)
           /\ \A a \in Agents, m \in Materials, qty \in Int, b \in BOOLEAN :
                 SetLine(a, m, qty, b) \in Lines(n, no, nt)
           /\ \A ev \in {"attempt", "report"}, i \in 1..nt, d \in BOOLEAN :
                 TheftLine(ev, i, d) \in Lines(n, no, nt)
BY DEF Lines, OwnLines, OfferLines, SetLines, TheftLines

LEMMA OneLine ==
    ASSUME NEW S, NEW line \in S
    PROVE  <<line>> \in Seq(S) /\ Len(<<line>>) = 1 /\ <<line>>[1] = line
OBVIOUS

(* More claims, offers and thefts leave lines and ledgers well typed.      *)
LEMMA LinesGrow ==
    ASSUME NEW n \in Nat, NEW no \in Nat, NEW nt \in Nat,
           NEW n2 \in Nat, NEW no2 \in Nat, NEW nt2 \in Nat,
           n <= n2, no <= no2, nt <= nt2
    PROVE  Lines(n, no, nt) \subseteq Lines(n2, no2, nt2)
<1>1. 1..n \subseteq 1..n2 /\ 1..no \subseteq 1..no2 /\ 1..nt \subseteq 1..nt2
  OBVIOUS
<1>2. OwnLines(n) \subseteq OwnLines(n2)
  BY <1>1 DEF OwnLines
<1>3. OfferLines(no) \subseteq OfferLines(no2)
  BY <1>1 DEF OfferLines
<1>4. TheftLines(nt) \subseteq TheftLines(nt2)
  BY <1>1 DEF TheftLines
<1> QED
  BY <1>2, <1>3, <1>4 DEF Lines

LEMMA LedgersGrow ==
    ASSUME NEW n \in Nat, NEW n2 \in Nat, n <= n2
    PROVE  /\ Own!Index(1..n) \subseteq Own!Index(1..n2)
           /\ Ledgers(n) \subseteq Ledgers(n2)
<1>1. 1..n \subseteq 1..n2
  OBVIOUS
<1>2. Own!Index(1..n) \subseteq Own!Index(1..n2)
  BY <1>1 DEF Own!Index
<1> QED
  BY <1>2 DEF Ledgers

(* set_inventory and the ghosts it keeps.                                  *)
LEMMA SetInventoryType ==
    ASSUME NEW bk \in Books(OfferIds), NEW a \in Agents, NEW m \in Materials,
           NEW qty \in Int, NEW b \in BOOLEAN
    PROVE  SetInventory(bk, a, m, qty, b) \in Books(OfferIds)
<1> DEFINE added == qty - bk.inv[a][m]
           inv == [bk.inv EXCEPT ![a][m] = qty]
           external == [bk.external EXCEPT ![a][m] = @ + added]
           minted == [bk.minted EXCEPT ![m] = IF b THEN @ + added ELSE @]
<1>1. bk.inv[a][m] \in Int
  BY DEF Books
<1>2. inv \in [Agents -> [Materials -> Int]]
  BY DEF Books
<1>3. external \in [Agents -> [Materials -> Int]]
  BY <1>1 DEF Books
<1>4. minted \in [Materials -> Int]
  BY <1>1 DEF Books
<1>5. SetInventory(bk, a, m, qty, b) =
        [bk EXCEPT !.inv = inv, !.external = external, !.minted = minted]
  BY DEF SetInventory, Books
<1> HIDE DEF added, inv, external, minted
<1> QED
  BY <1>2, <1>3, <1>4, <1>5 DEF Books

(* What the functions on the trade book return.                            *)
LEMMA BookTypes ==
    ASSUME NEW bk \in Books(OfferIds), NEW o \in OfferIds
    PROVE  /\ \A a \in Agents, m \in Materials, qty \in Int, b \in BOOLEAN :
                 SetInventory(bk, a, m, qty, b) \in Books(OfferIds)
           /\ Propose(bk, o) \in Books(OfferIds)
           /\ Decline(bk, o) \in Books(OfferIds)
           /\ \A offer \in Offer : Settle(bk, o, offer) \in Books(OfferIds)
<1>1. ASSUME NEW a \in Agents, NEW m \in Materials, NEW qty \in Int, NEW b \in BOOLEAN
      PROVE  SetInventory(bk, a, m, qty, b) \in Books(OfferIds)
  BY SetInventoryType
<1>2. Propose(bk, o) \in Books(OfferIds) /\ Decline(bk, o) \in Books(OfferIds)
  BY DEF Propose, Decline, Books, Statuses
<1>3. ASSUME NEW offer \in Offer
      PROVE  Settle(bk, o, offer) \in Books(OfferIds)
  <2>1. Swap(bk.inv, offer) \in [Agents -> [Materials -> Int]]
    BY DEF Swap, ApplyDelta, Books, Offer, Bundles
  <2> QED
    BY <2>1 DEF Settle, Books, Statuses
<1> QED
  BY <1>1, <1>2, <1>3

(* A replay of a well-typed line on well-typed ledgers.                    *)
LEMMA ReplayTypes ==
    ASSUME EconomyTypes, NEW line \in Lines(Len(deeds), Len(offers), Len(thefts))
    PROVE  /\ line.log = "own" => \A ix \in Own!Index(1..Len(deeds)) :
                 ReplayOwn(ix, line) \in Own!Index(1..Len(deeds))
           /\ line.log = "trade" => \A bk \in Books(OfferIds) :
                 ReplayTrade(bk, line) \in Books(OfferIds)
           /\ line.log = "theft" => \A th \in Thefts : ReplayTheft(th, line) \in Thefts
           /\ line.log \in {"own", "trade", "theft"}
<1> USE DEF EconomyTypes
<1> DEFINE n == Len(deeds)
           no == Len(offers)
           nt == Len(thefts)
<1>1. CASE line \in OwnLines(n)
  <2>1. /\ line.log = "own" /\ line.id \in 1..n
        /\ line.ev \in {"claim", "release", "conflict"}
    BY <1>1, LineLogs
  <2>2. deeds[line.id].target \in Chests
    <3>1. deeds \in Seq(Deed)
      BY DEF TypeOK, Deed
    <3>2. deeds[line.id] \in Deed
      BY <2>1, <3>1
    <3> QED
      BY <3>2 DEF Deed
  <2>3. ASSUME NEW ix \in Own!Index(1..n) PROVE ReplayOwn(ix, line) \in Own!Index(1..n)
    <3> DEFINE c == line.id
               k == deeds[line.id].target
    <3>1. Own!ReplayClaim(ix, c, k) \in Own!Index(1..n)
      BY <2>1, <2>2 DEF Own!ReplayClaim, Own!IndexActive, Own!Index
    <3>2. Own!ReplayRelease(ix, c, k) \in Own!Index(1..n)
      BY <2>1, <2>2 DEF Own!ReplayRelease, Own!DeindexActive, Own!Index
    <3>3. Own!ReplayConflict(ix) \in Own!Index(1..n)
      BY DEF Own!ReplayConflict
    <3> QED
      BY <2>1, <3>1, <3>2, <3>3 DEF ReplayOwn
  <2> QED
    BY <2>1, <2>3
<1>2. CASE line \in OfferLines(no)
  <2>1. /\ line.log = "trade" /\ line.id \in 1..no
        /\ line.ev \in {"proposed", "accepted", "rejected"}
    BY <1>2, LineLogs
  <2>2. line.id \in OfferIds /\ offers[line.id] \in Offer
    <3>1. offers \in Seq(Offer) /\ MaxOffers \in Nat
      BY EconomyAssumption DEF TypeOK, Offer
    <3> QED
      BY <2>1, <3>1 DEF OfferIds
  <2>3. ASSUME NEW bk \in Books(OfferIds) PROVE ReplayTrade(bk, line) \in Books(OfferIds)
    <3>1. Settle(bk, line.id, offers[line.id]) \in Books(OfferIds)
      BY <2>2, BookTypes
    <3>2. Propose(bk, line.id) \in Books(OfferIds) /\ Decline(bk, line.id) \in Books(OfferIds)
      BY <2>2, BookTypes
    <3> QED
      BY <2>1, <3>1, <3>2 DEF ReplayTrade, ReplayAccepted, ReplayRejected
  <2> QED
    BY <2>1, <2>3
<1>3. CASE line \in SetLines
  <2>1. /\ line.log = "trade" /\ line.ev = "inventory_set"
        /\ line.agent \in Agents /\ line.material \in Materials
        /\ line.qty \in Int /\ line.bootstrap \in BOOLEAN
    BY <1>3, LineLogs
  <2>2. ASSUME NEW bk \in Books(OfferIds) PROVE ReplayTrade(bk, line) \in Books(OfferIds)
    BY <2>1, SetInventoryType DEF ReplayTrade
  <2> QED
    BY <2>1, <2>2
<1>4. CASE line \in TheftLines(nt)
  <2>1. /\ line.log = "theft" /\ line.id \in 1..nt /\ line.ev \in {"attempt", "report"}
    BY <1>4, LineLogs
  <2>2. line.id \in TheftIds
    BY <2>1, EconomyAssumption DEF TypeOK, TheftIds
  <2>3. ASSUME NEW th \in Thefts PROVE ReplayTheft(th, line) \in Thefts
    BY <2>1, <2>2 DEF ReplayTheft, Thefts, TheftStates
  <2> QED
    BY <2>1, <2>3
<1> QED
  BY <1>1, <1>2, <1>3, <1>4 DEF Lines

-----------------------------------------------------------------------------
(* The chests that change hands with an offer.                             *)

(* An index, deeds and the lines about them.                               *)
Stages(n) == [ix : Own!Index(1..n), deeds : Seq(Deed), lines : Seq(OwnLines(n))]
IsStage(st) == st \in Stages(Len(st.deeds))

Extends(dd, longer) ==
    /\ Len(dd) <= Len(longer)
    /\ \A c \in 1..Len(dd) : longer[c] = dd[c]

Move == [chest : Chests, giver : Agents, taker : Agents]

LEMMA OwnLinesGrow ==
    ASSUME NEW n \in Nat, NEW n2 \in Nat, n <= n2, NEW lines \in Seq(OwnLines(n))
    PROVE  lines \in Seq(OwnLines(n2))
<1>1. 1..n \subseteq 1..n2
  OBVIOUS
<1>2. OwnLines(n) \subseteq OwnLines(n2)
  BY <1>1 DEF OwnLines
<1> HIDE DEF OwnLines
<1> QED
  BY <1>2

(* Without regions a chest is free when its key points to no claim.        *)
LEMMA FreeChest ==
    ASSUME NEW ix, NEW dd, NEW k
    PROVE  Own!FindConflict(ix, dd, k) = {ix.active[k]} \ {Own!NoClaim}
BY DEF Own!FindConflict

(* What claim() does to a stage.                                           *)
LEMMA ClaimStage ==
    ASSUME NEW st, IsStage(st), NEW a \in Agents, NEW k \in Chests
    PROVE  /\ IsStage(ClaimChest(st, a, k))
           /\ Extends(st.deeds, ClaimChest(st, a, k).deeds)
<1> DEFINE n == Len(st.deeds)
           c == n + 1
           new == ClaimChest(st, a, k)
           deed == [owner |-> a, target |-> k]
<1>1. /\ n \in Nat /\ st.ix \in Own!Index(1..n) /\ st.deeds \in Seq(Deed)
      /\ st.lines \in Seq(OwnLines(n)) /\ st \in Stages(n)
  BY DEF IsStage, Stages
<1>2. CASE st.ix.active[k] = Own!NoClaim
  <2>1. new = [ix    |-> Own!IndexActive(st.ix, c, k),
               deeds |-> Append(st.deeds, deed),
               lines |-> Append(st.lines, OwnLine("claim", c))]
    BY <1>2, FreeChest DEF ClaimChest
  <2>2. /\ Append(st.deeds, deed) \in Seq(Deed)
        /\ Len(Append(st.deeds, deed)) = c
        /\ \A d \in 1..n : Append(st.deeds, deed)[d] = st.deeds[d]
    BY <1>1 DEF Deed
  <2>3. st.ix \in Own!Index(1..c) /\ c \in 1..c
    BY <1>1, LedgersGrow
  <2>4. Own!IndexActive(st.ix, c, k) \in Own!Index(1..c)
    BY <2>3 DEF Own!IndexActive, Own!Index
  <2>5. st.lines \in Seq(OwnLines(c))
    BY <1>1, OwnLinesGrow
  <2>6. OwnLine("claim", c) \in OwnLines(c)
    BY <2>3 DEF OwnLines
  <2>7. Append(st.lines, OwnLine("claim", c)) \in Seq(OwnLines(c))
    BY <2>5, <2>6
  <2> QED
    BY <1>1, <2>1, <2>2, <2>4, <2>7 DEF IsStage, Stages, Extends
<1>3. CASE st.ix.active[k] # Own!NoClaim
  <2>1. new = [st EXCEPT !.lines = Append(@, OwnLine("conflict", st.ix.active[k]))]
    BY <1>3, FreeChest DEF ClaimChest
  <2>2. st.ix.active[k] \in 1..n
    BY <1>1, <1>3 DEF Own!Index
  <2>3. OwnLine("conflict", st.ix.active[k]) \in OwnLines(n)
    BY <2>2 DEF OwnLines
  <2>4. Append(st.lines, OwnLine("conflict", st.ix.active[k])) \in Seq(OwnLines(n))
    BY <1>1, <2>3
  <2>5. new.deeds = st.deeds /\ new \in Stages(n)
    BY <1>1, <2>1, <2>4 DEF Stages
  <2> QED
    BY <1>1, <2>5 DEF IsStage, Extends
<1> QED
  BY <1>2, <1>3

(* What release() does to a stage.                                         *)
LEMMA ReleaseStage ==
    ASSUME NEW st, IsStage(st), NEW c \in 1..Len(st.deeds)
    PROVE  IsStage(ReleaseChest(st, c)) /\ ReleaseChest(st, c).deeds = st.deeds
<1> DEFINE n == Len(st.deeds)
           ix == Own!DeindexActive(st.ix, c, st.deeds[c].target)
<1>1. /\ n \in Nat /\ st.ix \in Own!Index(1..n) /\ st.deeds \in Seq(Deed)
      /\ st.lines \in Seq(OwnLines(n)) /\ st \in Stages(n)
  BY DEF IsStage, Stages
<1>2. st.deeds[c] \in Deed
  BY <1>1
<1>3. ix \in Own!Index(1..n)
  BY <1>1, <1>2 DEF Own!DeindexActive, Own!Index, Deed
<1>4. OwnLine("release", c) \in OwnLines(n)
  BY DEF OwnLines
<1>5. Append(st.lines, OwnLine("release", c)) \in Seq(OwnLines(n))
  BY <1>1, <1>4
<1>6. ReleaseChest(st, c) =
        [st EXCEPT !.ix = ix, !.lines = Append(st.lines, OwnLine("release", c))]
  BY <1>1 DEF ReleaseChest, Stages
<1> HIDE DEF ix
<1> QED
  BY <1>1, <1>3, <1>5, <1>6 DEF IsStage, Stages

LEMMA TransferStage ==
    ASSUME NEW st, IsStage(st), NEW move \in Move
    PROVE  LET new == TransferContainer(st, move.chest, move.giver, move.taker)
           IN  IsStage(new) /\ Extends(st.deeds, new.deeds)
<1> DEFINE k == move.chest
           held == st.ix.active[k]
           gives == held # Own!NoClaim /\ st.deeds[held].owner = move.giver
           freed == IF gives THEN ReleaseChest(st, held) ELSE st
<1>1. k \in Chests /\ move.taker \in Agents
  BY DEF Move
<1>2. gives => held \in 1..Len(st.deeds)
  BY <1>1 DEF IsStage, Stages, Own!Index
<1>3. IsStage(freed) /\ freed.deeds = st.deeds
  BY <1>2, ReleaseStage
<1>4. TransferContainer(st, k, move.giver, move.taker) = ClaimChest(freed, move.taker, k)
  BY DEF TransferContainer
<1> HIDE DEF freed, k
<1> QED
  BY <1>1, <1>3, <1>4, ClaimStage DEF k

(* The recursion in Transfers defines a function.                          *)
Steps(st, start, moves, n) ==
    st = [i \in 0..n |->
            IF i = 0 THEN start
            ELSE TransferContainer(st[i-1], moves[i].chest, moves[i].giver, moves[i].taker)]

LEMMA TransfersUnfold ==
    ASSUME NEW start, NEW moves, Len(moves) \in Nat
    PROVE  \E st : Steps(st, start, moves, Len(moves)) /\ Transfers(start, moves) = st[Len(moves)]
<1> DEFINE T == {n \in Nat : \E st : Steps(st, start, moves, n)}
           Moved(r, i) == TransferContainer(r, moves[i].chest, moves[i].giver, moves[i].taker)
<1>1. 0 \in T
  <2>1. Steps([i \in 0..0 |-> start], start, moves, 0)
    BY DEF Steps
  <2> QED
    BY <2>1
<1>2. ASSUME NEW n \in Nat, n \in T PROVE n + 1 \in T
  <2>1. PICK st : Steps(st, start, moves, n)
    BY <1>2
  <2> DEFINE longer == [i \in 0..(n + 1) |->
                          IF i = 0 THEN start ELSE Moved(st[i-1], i)]
  <2>2. \A i \in 0..n : longer[i] = st[i]
    BY <2>1 DEF Steps
  <2>3. \A i \in 0..(n + 1) : i # 0 => i - 1 \in 0..n
    OBVIOUS
  <2>4. longer = [i \in 0..(n + 1) |-> IF i = 0 THEN start ELSE Moved(longer[i-1], i)]
    BY <2>2, <2>3
  <2>5. Steps(longer, start, moves, n + 1)
    BY <2>4 DEF Steps
  <2> QED
    BY <2>5
<1>3. Len(moves) \in T
  <2> HIDE DEF T
  <2> QED
    BY <1>1, <1>2, NaturalsByInduction
<1>4. \E st : Steps(st, start, moves, Len(moves))
  BY <1>3
<1> DEFINE st == CHOOSE st : Steps(st, start, moves, Len(moves))
<1>5. Steps(st, start, moves, Len(moves))
  BY <1>4
<1>6. Transfers(start, moves) = st[Len(moves)]
  BY DEF Transfers, Steps
<1> HIDE DEF st
<1> QED
  BY <1>5, <1>6

(* The moves of an offer: first what the proposer gives, then what it      *)
(* wants.                                                                  *)
LEMMA MovesOf ==
    ASSUME NEW offer \in Offer
    PROVE  /\ Moves(offer) \in Seq(Move)
           /\ \A i \in 1..Len(Moves(offer)) :
                 \/ /\ Moves(offer)[i].giver = offer.from /\ Moves(offer)[i].taker = offer.to
                    /\ Moves(offer)[i].chest \in ToSet(offer.giveChests)
                 \/ /\ Moves(offer)[i].giver = offer.to /\ Moves(offer)[i].taker = offer.from
                    /\ Moves(offer)[i].chest \in ToSet(offer.wantChests)
<1> DEFINE g == offer.giveChests
           w == offer.wantChests
           gives == [i \in 1..Len(g) |->
                       [chest |-> g[i], giver |-> offer.from, taker |-> offer.to]]
           wants == [i \in 1..Len(w) |->
                       [chest |-> w[i], giver |-> offer.to, taker |-> offer.from]]
<1>1. g \in Seq(Chests) /\ w \in Seq(Chests) /\ offer.from \in Agents /\ offer.to \in Agents
  BY DEF Offer
<1>2. gives \in Seq(Move) /\ Len(gives) = Len(g)
  BY <1>1 DEF Move
<1>3. wants \in Seq(Move) /\ Len(wants) = Len(w)
  BY <1>1 DEF Move
<1>4. Moves(offer) = gives \o wants
  BY DEF Moves
<1>5. /\ gives \o wants \in Seq(Move) /\ Len(gives \o wants) = Len(g) + Len(w)
      /\ \A i \in 1..Len(g) : (gives \o wants)[i] = gives[i]
      /\ \A i \in (Len(g) + 1)..(Len(g) + Len(w)) : (gives \o wants)[i] = wants[i - Len(g)]
  <2>1. g \in Seq(Chests) /\ w \in Seq(Chests)
    BY <1>1
  <2> HIDE DEF gives, wants, g, w
  <2> QED
    BY <1>2, <1>3, <2>1
<1>6. /\ \A i \in 1..Len(g) : gives[i].chest \in ToSet(g)
      /\ \A i \in 1..Len(w) : wants[i].chest \in ToSet(w)
  BY <1>1 DEF ToSet
<1>7. ASSUME NEW i \in 1..Len(Moves(offer))
      PROVE  \/ /\ Moves(offer)[i].giver = offer.from /\ Moves(offer)[i].taker = offer.to
                /\ Moves(offer)[i].chest \in ToSet(offer.giveChests)
             \/ /\ Moves(offer)[i].giver = offer.to /\ Moves(offer)[i].taker = offer.from
                /\ Moves(offer)[i].chest \in ToSet(offer.wantChests)
  <2>1. Len(g) \in Nat /\ Len(w) \in Nat
    BY <1>1
  <2>2. i \in 1..(Len(g) + Len(w))
    <3> HIDE DEF gives, wants, g, w
    <3> QED
      BY <1>4, <1>5
  <2>3. CASE i \in 1..Len(g)
    <3>1. Moves(offer)[i] = gives[i]
      BY <1>4, <1>5, <2>3
    <3>2. gives[i] = [chest |-> g[i], giver |-> offer.from, taker |-> offer.to]
      BY <2>3
    <3> HIDE DEF gives
    <3> QED
      BY <1>6, <2>3, <3>1, <3>2
  <2>4. CASE i \notin 1..Len(g)
    <3>1. i - Len(g) \in 1..Len(w) /\ i \in (Len(g) + 1)..(Len(g) + Len(w))
      <4> HIDE DEF g, w
      <4> QED
        BY <2>1, <2>2, <2>4
    <3>2. Moves(offer)[i] = wants[i - Len(g)]
      BY <1>4, <1>5, <3>1
    <3>3. wants[i - Len(g)] =
            [chest |-> w[i - Len(g)], giver |-> offer.to, taker |-> offer.from]
      BY <3>1
    <3> HIDE DEF wants
    <3> QED
      BY <1>6, <3>1, <3>2, <3>3
  <2> QED
    BY <2>3, <2>4
<1> QED
  BY <1>4, <1>5, <1>7

LEMMA ExtendsIsTransitive ==
    ASSUME NEW S, NEW d1 \in Seq(S), NEW d2 \in Seq(S), NEW d3 \in Seq(S),
           Extends(d1, d2), Extends(d2, d3)
    PROVE  Extends(d1, d3)
BY DEF Extends

(* All the stages of an offer's transfers, with the moves that led there.  *)
LEMMA StagesOfTransfers ==
    ASSUME NEW start, IsStage(start), NEW moves \in Seq(Move),
           NEW st, Steps(st, start, moves, Len(moves))
    PROVE  /\ st[0] = start
           /\ \A i \in 0..Len(moves) : IsStage(st[i]) /\ Extends(start.deeds, st[i].deeds)
           /\ \A i \in 1..Len(moves) :
                 st[i] = TransferContainer(st[i-1], moves[i].chest, moves[i].giver,
                                           moves[i].taker)
<1> DEFINE n == Len(moves)
           Good(s) == IsStage(s) /\ Extends(start.deeds, s.deeds)
           T == {i \in Nat : i <= n => Good(st[i])}
<1>1. n \in Nat /\ \A i \in 1..n : moves[i] \in Move
  OBVIOUS
<1>2. st[0] = start
  BY <1>1 DEF Steps
<1>3. \A i \in 1..n : st[i] = TransferContainer(st[i-1], moves[i].chest, moves[i].giver,
                                                moves[i].taker)
  BY <1>1 DEF Steps
<1>4. 0 \in T
  BY <1>2 DEF Extends, IsStage, Stages
<1>5. ASSUME NEW i \in Nat, i \in T PROVE i + 1 \in T
  <2> SUFFICES ASSUME i + 1 <= n PROVE Good(st[i + 1])
    OBVIOUS
  <2>1. Good(st[i]) /\ i + 1 \in 1..n /\ (i + 1) - 1 = i
    BY <1>1, <1>5
  <2>2. moves[i + 1] \in Move
    BY <1>1, <2>1
  <2>3. st[i + 1] = TransferContainer(st[i], moves[i + 1].chest, moves[i + 1].giver,
                                      moves[i + 1].taker)
    BY <1>3, <2>1
  <2>4. IsStage(st[i + 1]) /\ Extends(st[i].deeds, st[i + 1].deeds)
    BY <2>1, <2>2, <2>3, TransferStage
  <2>5. start.deeds \in Seq(Deed) /\ st[i].deeds \in Seq(Deed) /\ st[i + 1].deeds \in Seq(Deed)
    BY <2>1, <2>4 DEF IsStage, Stages
  <2> QED
    BY <2>1, <2>4, <2>5, ExtendsIsTransitive
<1>6. Nat \subseteq T
  <2> HIDE DEF T
  <2> QED
    BY <1>4, <1>5, NaturalsByInduction
<1>7. \A i \in 0..n : Good(st[i])
  BY <1>1, <1>6
<1> QED
  BY <1>2, <1>3, <1>7

LEMMA FirstStage ==
    ASSUME TypeOK
    PROVE  IsStage(NoLines) /\ NoLines.deeds = deeds /\ NoLines.ix = mem.own
<1>1. deeds \in Seq(Deed) /\ mem.own \in Own!Index(1..Len(deeds))
  BY DEF TypeOK, Deed
<1>2. <<>> \in Seq(OwnLines(Len(deeds)))
  OBVIOUS
<1> QED
  BY <1>1, <1>2 DEF NoLines, IsStage, Stages

-----------------------------------------------------------------------------
(* Every operation keeps the types.                                        *)

(* An operation leaves its lines waiting, and the files alone.             *)
LEMMA OperationTypes ==
    ASSUME EconomyTypes,
           NEW n, NEW no, NEW nt,
           deeds' \in Seq(Deed), n = Len(deeds'), Extends(deeds, deeds'),
           offers' \in Seq(Offer), no = Len(offers'), Extends(offers, offers'), no <= MaxOffers,
           \A o \in 1..no : offers'[o].from # offers'[o].to,
           thefts' \in Seq(Theft), nt = Len(thefts'), Extends(thefts, thefts'), nt <= MaxThefts,
           mem' \in Ledgers(n), disk' = disk, seeds' \in 0..MaxSeeds, faults' = faults,
           queue' \in Seq(Lines(n, no, nt))
    PROVE  EconomyTypes'
<1>1. Len(deeds) \in Nat /\ n \in Nat /\ Len(deeds) <= n
  BY DEF EconomyTypes, TypeOK, Extends
<1>2. Own!Index(1..Len(deeds)) \subseteq Own!Index(1..n)
  BY <1>1, LedgersGrow
<1>3. disk' \in [own : Files(Own!Index(1..n)), trade : Files(Books(OfferIds)),
                 theft : Files(Thefts)]
  BY <1>2 DEF EconomyTypes, TypeOK, Files, Thefts
<1>4. TypeOK'
  BY <1>3 DEF EconomyTypes, TypeOK, Deed, Offer, Theft, Ledgers, Thefts
<1> QED
  BY <1>4 DEF EconomyTypes

LEMMA ExtendsAtAll ==
    ASSUME NEW S, NEW s \in Seq(S)
    PROVE  Extends(s, s) /\ \A x \in S : Extends(s, Append(s, x))
BY DEF Extends

LEMMA SeedTypes ==
    ASSUME EconomyTypes, NEW a \in Agents, NEW m \in Materials, NEW qty \in Stocks,
           Seed(a, m, qty)
    PROVE  EconomyTypes'
<1>0. /\ deeds' = deeds /\ offers' = offers /\ thefts' = thefts
      /\ disk' = disk /\ faults' = faults /\ queue' = <<SetLine(a, m, qty, TRUE)>>
      /\ mem' = [mem EXCEPT !.trade = SetInventory(@, a, m, qty, TRUE)]
  BY DEF Seed
<1>1. qty \in Int
  BY EconomyAssumption
<1>2. /\ deeds \in Seq(Deed) /\ offers \in Seq(Offer) /\ thefts \in Seq(Theft)
      /\ mem \in Ledgers(Len(deeds))
  BY DEF EconomyTypes, TypeOK, Deed, Offer, Theft, Ledgers, Thefts
<1>3. SetInventory(mem.trade, a, m, qty, TRUE) \in Books(OfferIds)
  BY <1>1, <1>2, SetInventoryType DEF Ledgers
<1>4. mem' \in Ledgers(Len(deeds))
  BY <1>0, <1>2, <1>3 DEF Ledgers
<1>6. queue' \in Seq(Lines(Len(deeds), Len(offers), Len(thefts)))
  <2>1. SetLine(a, m, qty, TRUE) \in Lines(Len(deeds), Len(offers), Len(thefts))
    BY <1>1, LineTypes
  <2> QED
    BY <1>0, <2>1, OneLine
<1>7. seeds' \in 0..MaxSeeds
  BY EconomyAssumption DEF Seed, EconomyTypes, TypeOK
<1>8. Extends(deeds, deeds) /\ Extends(offers, offers) /\ Extends(thefts, thefts)
  BY <1>2, ExtendsAtAll
<1> QED
  BY <1>0, <1>2, <1>4, <1>6, <1>7, <1>8, OperationTypes DEF EconomyTypes

(* Claims, releases and transfers of chests end in a stage.                *)
LEMMA StageTypes ==
    ASSUME EconomyTypes, NEW st, IsStage(st), Extends(deeds, st.deeds),
           NEW trade \in Books(OfferIds), NEW lines \in Seq(Lines(Len(st.deeds), Len(offers), Len(thefts))),
           mem' = [mem EXCEPT !.trade = trade, !.own = st.ix], deeds' = st.deeds,
           queue' = lines, offers' = offers, thefts' = thefts, disk' = disk,
           seeds' = seeds, faults' = faults
    PROVE  EconomyTypes'
<1> DEFINE n == Len(st.deeds)
<1>1. st.deeds \in Seq(Deed) /\ st.ix \in Own!Index(1..n)
  BY DEF IsStage, Stages
<1>2. /\ offers \in Seq(Offer) /\ thefts \in Seq(Theft) /\ mem \in Ledgers(Len(deeds))
      /\ seeds \in 0..MaxSeeds
  BY DEF EconomyTypes, TypeOK, Offer, Theft, Ledgers, Thefts
<1>3. mem' \in Ledgers(n)
  BY <1>1, <1>2 DEF Ledgers
<1>4. Extends(offers, offers) /\ Extends(thefts, thefts)
  BY <1>2, ExtendsAtAll
<1> QED
  BY <1>1, <1>2, <1>3, <1>4, OperationTypes DEF EconomyTypes

LEMMA StageLines ==
    ASSUME EconomyTypes, NEW st, IsStage(st)
    PROVE  st.lines \in Seq(Lines(Len(st.deeds), Len(offers), Len(thefts)))
<1>1. st.lines \in Seq(OwnLines(Len(st.deeds)))
  BY DEF IsStage, Stages
<1>2. OwnLines(Len(st.deeds)) \subseteq Lines(Len(st.deeds), Len(offers), Len(thefts))
  BY DEF Lines
<1> QED
  BY <1>1, <1>2

LEMMA ChestTypes ==
    ASSUME EconomyTypes,
           \/ \E a \in Agents, k \in Chests : Claim(a, k)
           \/ \E c \in 1..Len(deeds) : Release(c)
    PROVE  EconomyTypes'
<1>1. /\ IsStage(NoLines) /\ NoLines.deeds = deeds /\ deeds \in Seq(Deed)
      /\ mem \in Ledgers(Len(deeds))
  BY FirstStage DEF EconomyTypes, TypeOK, Deed, Ledgers, Thefts
<1>2. ASSUME NEW a \in Agents, NEW k \in Chests, Claim(a, k) PROVE EconomyTypes'
  <2> DEFINE st == ClaimChest(NoLines, a, k)
  <2>1. IsStage(st) /\ Extends(deeds, st.deeds)
    BY <1>1, ClaimStage
  <2>2. /\ mem' = [mem EXCEPT !.trade = mem.trade, !.own = st.ix] /\ deeds' = st.deeds
        /\ queue' = st.lines /\ offers' = offers /\ thefts' = thefts /\ disk' = disk
        /\ seeds' = seeds /\ faults' = faults /\ mem.trade \in Books(OfferIds)
    BY <1>1, <1>2 DEF Claim, Ledgers
  <2> HIDE DEF st
  <2> QED
    BY <2>1, <2>2, StageLines, StageTypes
<1>3. ASSUME NEW c \in 1..Len(deeds), Release(c) PROVE EconomyTypes'
  <2> DEFINE st == ReleaseChest(NoLines, c)
  <2>1. IsStage(st) /\ st.deeds = deeds
    BY <1>1, ReleaseStage
  <2>2. /\ mem' = [mem EXCEPT !.trade = mem.trade, !.own = st.ix] /\ deeds' = st.deeds
        /\ queue' = st.lines /\ offers' = offers /\ thefts' = thefts /\ disk' = disk
        /\ seeds' = seeds /\ faults' = faults /\ mem.trade \in Books(OfferIds)
    BY <1>1, <1>3, <2>1 DEF Release, Ledgers
  <2>3. Extends(deeds, st.deeds)
    BY <1>1, <2>1, ExtendsAtAll
  <2> HIDE DEF st
  <2> QED
    BY <2>1, <2>2, <2>3, StageLines, StageTypes
<1> QED
  BY <1>2, <1>3

LEMMA BasicTypes ==
    ASSUME EconomyTypes
    PROVE  /\ deeds \in Seq(Deed) /\ offers \in Seq(Offer) /\ thefts \in Seq(Theft)
           /\ mem \in Ledgers(Len(deeds)) /\ seeds \in 0..MaxSeeds /\ faults \in 0..MaxFaults
           /\ mem.trade \in Books(OfferIds) /\ mem.theft \in Thefts
           /\ mem.own \in Own!Index(1..Len(deeds))
           /\ Extends(deeds, deeds) /\ Extends(offers, offers) /\ Extends(thefts, thefts)
           /\ Len(deeds) \in Nat /\ Len(offers) \in Nat /\ Len(thefts) \in Nat
           /\ 1..Len(offers) \subseteq OfferIds /\ 1..Len(thefts) \subseteq TheftIds
<1>1. /\ deeds \in Seq(Deed) /\ offers \in Seq(Offer) /\ thefts \in Seq(Theft)
      /\ mem \in Ledgers(Len(deeds)) /\ seeds \in 0..MaxSeeds /\ faults \in 0..MaxFaults
  BY DEF EconomyTypes, TypeOK, Deed, Offer, Theft, Ledgers, Thefts
<1>2. /\ mem.trade \in Books(OfferIds) /\ mem.theft \in Thefts
      /\ mem.own \in Own!Index(1..Len(deeds))
  BY <1>1 DEF Ledgers
<1>3. Extends(deeds, deeds) /\ Extends(offers, offers) /\ Extends(thefts, thefts)
  BY <1>1, ExtendsAtAll
<1>4. /\ Len(deeds) \in Nat /\ Len(offers) \in Nat /\ Len(thefts) \in Nat
      /\ Len(offers) <= MaxOffers /\ Len(thefts) <= MaxThefts
      /\ MaxOffers \in Nat /\ MaxThefts \in Nat
  BY <1>1, EconomyAssumption DEF EconomyTypes
<1>5. 1..Len(offers) \subseteq OfferIds /\ 1..Len(thefts) \subseteq TheftIds
  BY <1>4 DEF OfferIds, TheftIds
<1> QED
  BY <1>1, <1>2, <1>3, <1>4, <1>5

LEMMA ProposeTypes ==
    ASSUME EconomyTypes, NEW a \in Agents, NEW b \in Agents, NEW terms \in OfferTerms,
           ProposeTrade(a, b, terms)
    PROVE  EconomyTypes'
<1> DEFINE o == Len(offers) + 1
           offer == [from |-> a, to |-> b, give |-> terms.give, want |-> terms.want,
                     giveChests |-> terms.giveChests, wantChests |-> terms.wantChests]
<1>1. /\ o <= MaxOffers /\ a # b /\ offers' = Append(offers, offer)
      /\ mem' = [mem EXCEPT !.trade = Propose(@, o)] /\ queue' = <<TradeLine("proposed", o)>>
      /\ UNCHANGED <<deeds, thefts, disk, seeds, faults>>
  BY DEF ProposeTrade
<1>2. offer \in Offer
  BY EconomyAssumption DEF Offer
<1> HIDE DEF offer
<1>3. /\ offers' \in Seq(Offer) /\ Len(offers') = o /\ Extends(offers, offers')
      /\ \A i \in 1..Len(offers) : offers'[i] = offers[i]
      /\ offers'[o] = offer
  BY <1>1, <1>2, BasicTypes, ExtendsAtAll
<1>4. \A i \in 1..o : offers'[i].from # offers'[i].to
  <2>1. \A i \in 1..o : i \in 1..Len(offers) \/ i = o
    BY BasicTypes
  <2>2. offer.from # offer.to
    BY <1>1 DEF offer
  <2> QED
    BY <1>3, <2>1, <2>2 DEF EconomyTypes
<1>5. o \in OfferIds /\ o \in 1..o
  BY <1>1, BasicTypes, EconomyAssumption DEF OfferIds
<1>6. mem' \in Ledgers(Len(deeds))
  <2>1. Propose(mem.trade, o) \in Books(OfferIds)
    BY <1>5, BasicTypes, BookTypes
  <2> QED
    BY <1>1, <2>1, BasicTypes DEF Ledgers
<1>7. queue' \in Seq(Lines(Len(deeds), o, Len(thefts)))
  <2>1. TradeLine("proposed", o) \in Lines(Len(deeds), o, Len(thefts))
    BY <1>5, LineTypes
  <2> QED
    BY <1>1, <2>1, OneLine
<1> QED
  BY <1>1, <1>3, <1>4, <1>6, <1>7, BasicTypes, OperationTypes DEF EconomyTypes

(* The transfers of an accepted offer, from the live ledgers.              *)
LEMMA AcceptStages ==
    ASSUME EconomyTypes, NEW o \in 1..Len(offers)
    PROVE  /\ Moves(offers[o]) \in Seq(Move)
           /\ IsStage(ContainerTransfers(offers[o]))
           /\ Extends(deeds, ContainerTransfers(offers[o]).deeds)
           /\ \E st : /\ Steps(st, NoLines, Moves(offers[o]), Len(Moves(offers[o])))
                      /\ ContainerTransfers(offers[o]) = st[Len(Moves(offers[o]))]
<1> DEFINE moves == Moves(offers[o])
<1>1. offers[o] \in Offer
  BY BasicTypes
<1>2. moves \in Seq(Move) /\ Len(moves) \in Nat
  BY <1>1, MovesOf
<1> HIDE DEF moves
<1>3. PICK st : Steps(st, NoLines, moves, Len(moves)) /\ Transfers(NoLines, moves) = st[Len(moves)]
  BY <1>2, TransfersUnfold
<1>4. IsStage(NoLines) /\ NoLines.deeds = deeds
  BY FirstStage DEF EconomyTypes
<1>5. \A i \in 0..Len(moves) : IsStage(st[i]) /\ Extends(deeds, st[i].deeds)
  BY <1>2, <1>3, <1>4, StagesOfTransfers
<1>6. ContainerTransfers(offers[o]) = st[Len(moves)] /\ Len(moves) \in 0..Len(moves)
  BY <1>2, <1>3 DEF ContainerTransfers, moves
<1> QED
  BY <1>2, <1>3, <1>5, <1>6 DEF moves

LEMMA AcceptTypes ==
    ASSUME EconomyTypes, NEW a \in Agents, NEW o \in 1..Len(offers), AcceptTrade(a, o)
    PROVE  EconomyTypes'
<1> DEFINE st == ContainerTransfers(offers[o])
           trade == Settle(mem.trade, o, offers[o])
           lines == Append(st.lines, TradeLine("accepted", o))
<1>1. IsStage(st) /\ Extends(deeds, st.deeds)
  BY AcceptStages
<1>2. trade \in Books(OfferIds)
  BY BasicTypes, BookTypes
<1>3. lines \in Seq(Lines(Len(st.deeds), Len(offers), Len(thefts)))
  <2>1. TradeLine("accepted", o) \in Lines(Len(st.deeds), Len(offers), Len(thefts))
    BY LineTypes
  <2>2. st.lines \in Seq(Lines(Len(st.deeds), Len(offers), Len(thefts)))
    BY <1>1, StageLines
  <2> HIDE DEF st
  <2> QED
    BY <2>1, <2>2
<1>4. /\ mem' = [mem EXCEPT !.trade = trade, !.own = st.ix] /\ deeds' = st.deeds
      /\ queue' = lines
      /\ offers' = offers /\ thefts' = thefts /\ disk' = disk
      /\ seeds' = seeds /\ faults' = faults
  BY BasicTypes DEF AcceptTrade, Ledgers
<1> HIDE DEF st, trade, lines
<1> QED
  BY <1>1, <1>2, <1>3, <1>4, StageTypes

LEMMA RejectTypes ==
    ASSUME EconomyTypes, NEW a \in Agents, NEW o \in 1..Len(offers), RejectTrade(a, o)
    PROVE  EconomyTypes'
<1>1. /\ mem' = [mem EXCEPT !.trade = Decline(@, o)] /\ queue' = <<TradeLine("rejected", o)>>
      /\ UNCHANGED <<deeds, offers, thefts, disk, seeds, faults>>
  BY DEF RejectTrade
<1>2. Decline(mem.trade, o) \in Books(OfferIds)
  BY BasicTypes, BookTypes
<1>3. mem' \in Ledgers(Len(deeds))
  BY <1>1, <1>2, BasicTypes DEF Ledgers
<1>4. queue' \in Seq(Lines(Len(deeds), Len(offers), Len(thefts)))
  BY <1>1, LineTypes, OneLine
<1> QED
  BY <1>1, <1>3, <1>4, BasicTypes, OperationTypes DEF EconomyTypes

(* What a thief takes is there, and is not a debt.                         *)
LEMMA TakesType ==
    ASSUME NEW inv \in [Agents -> [Materials -> Int]], NEW victim \in Agents, NEW loot \in Bundles
    PROVE  /\ Takes(inv, victim, loot) \in Bundles
           /\ \A m \in Materials : Takes(inv, victim, loot)[m] > 0
                 => Takes(inv, victim, loot)[m] <= inv[victim][m]
BY DEF Takes, Bundles

LEMMA CarriedType ==
    ASSUME NEW f \in [Agents -> [Materials -> Int]], NEW thief \in Agents,
           NEW victim \in Agents, NEW taken \in Bundles, NEW gone, NEW got
    PROVE  Carried(f, thief, victim, taken, gone, got) \in [Agents -> [Materials -> Int]]
BY DEF Carried, Bundles

LEMMA PartLootType ==
    ASSUME NEW bk \in Books(OfferIds), NEW thief \in Agents, NEW victim \in Agents,
           NEW taken \in Bundles, NEW gone, NEW got
    PROVE  PartLoot(bk, thief, victim, taken, gone, got) \in Books(OfferIds)
<1>1. bk.inv \in [Agents -> [Materials -> Int]] /\ bk.external \in [Agents -> [Materials -> Int]]
  BY DEF Books
<1>2. \A f \in [Agents -> [Materials -> Int]] :
         Carried(f, thief, victim, taken, gone, got) \in [Agents -> [Materials -> Int]]
  BY CarriedType
<1>3. /\ Carried(bk.inv, thief, victim, taken, gone, got) \in [Agents -> [Materials -> Int]]
      /\ Carried(bk.external, thief, victim, taken, gone, got) \in [Agents -> [Materials -> Int]]
  BY <1>1, <1>2
<1> QED
  BY <1>3 DEF PartLoot, Books

LEMMA MoveLootType ==
    ASSUME NEW bk \in Books(OfferIds), NEW thief \in Agents, NEW victim \in Agents,
           NEW taken \in Bundles
    PROVE  MoveLoot(bk, thief, victim, taken) \in Books(OfferIds)
BY PartLootType DEF MoveLoot

(* The lines of a theft name each material that is taken, once.            *)
LEMMA OrderType ==
    ASSUME NEW S, S \subseteq Materials, NEW order \in SetToSeqs(S)
    PROVE  /\ order \in Seq(S) /\ Len(order) \in Nat
           /\ \A i, j \in 1..Len(order) : i # j => order[i] # order[j]
           /\ \A m \in S : \E i \in 1..Len(order) : order[i] = m
<1>1. IsFiniteSet(S) /\ Cardinality(S) \in Nat
  BY EconomyAssumption, FS_Subset, FS_CardinalityType
<1> DEFINE n == Cardinality(S)
<1>2. order \in [1..n -> S] /\ \A i, j \in 1..n : i # j => order[i] # order[j]
  BY DEF SetToSeqs
<1>3. order \in Seq(S) /\ Len(order) = n
  BY <1>1, <1>2
<1>4. \A m \in S : \E i \in 1..n : order[i] = m
  <2>1. IsFiniteSet(1..n) /\ Cardinality(1..n) = n
    BY <1>1, FS_Interval
  <2>2. order \in Injection(1..n, S)
    BY <1>2 DEF Injection, IsInjective
  <2>3. order \in Surjection(1..n, S)
    BY <1>1, <2>1, <2>2, FS_Injection
  <2> QED
    BY <2>3 DEF Surjection
<1> QED
  BY <1>1, <1>2, <1>3, <1>4

LEMMA LootLinesType ==
    ASSUME NEW inv \in [Agents -> [Materials -> Int]], NEW thief \in Agents, NEW victim \in Agents,
           NEW taken \in Bundles, NEW order \in Seq(Materials), NEW n, NEW no, NEW nt
    PROVE  /\ LootLines(inv, thief, victim, taken, order) \in Seq(Lines(n, no, nt))
           /\ Len(LootLines(inv, thief, victim, taken, order)) = 2 * Len(order)
<1> DEFINE k == 2 * Len(order)
           L(i) == IF i % 2 = 1 THEN LeftWith(inv, victim, order[(i + 1) \div 2], taken)
                   ELSE GainedBy(inv, thief, order[(i + 1) \div 2], taken)
<1>1. k \in Nat
  OBVIOUS
<1>2. ASSUME NEW i \in 1..k PROVE L(i) \in Lines(n, no, nt)
  <2> DEFINE m == order[(i + 1) \div 2]
  <2>1. (i + 1) \div 2 \in 1..Len(order)
    OBVIOUS
  <2>2. m \in Materials
    BY <2>1
  <2>3. inv[victim][m] - taken[m] \in Int /\ inv[thief][m] + taken[m] \in Int /\ FALSE \in BOOLEAN
    BY <2>2, SMTT(30) DEF Bundles
  <2> HIDE DEF m
  <2>4. LeftWith(inv, victim, m, taken) \in Lines(n, no, nt)
    BY <2>2, <2>3, LineTypes DEF LeftWith
  <2>5. GainedBy(inv, thief, m, taken) \in Lines(n, no, nt)
    BY <2>2, <2>3, LineTypes DEF GainedBy
  <2> QED
    BY <2>4, <2>5 DEF m
<1>3. LootLines(inv, thief, victim, taken, order) = [i \in 1..k |-> L(i)]
  BY DEF LootLines
<1> HIDE DEF L, k
<1>4. [i \in 1..k |-> L(i)] \in Seq(Lines(n, no, nt)) /\ Len([i \in 1..k |-> L(i)]) = k
  BY <1>1, <1>2
<1> QED
  BY <1>3, <1>4 DEF k

LEMMA StealTypes ==
    ASSUME EconomyTypes, NEW thief \in Agents, NEW victim \in Agents, NEW k \in Chests,
           NEW loot \in Loots, NEW detected \in BOOLEAN, Steal(thief, victim, k, loot, detected)
    PROVE  EconomyTypes'
<1> DEFINE i == Len(thefts) + 1
           inv == mem.trade.inv
           taken == Takes(inv, victim, loot)
           S == {m \in Materials : taken[m] > 0}
           verdict == IF detected THEN "detected" ELSE "secret"
           theft == [thief |-> thief, chest |-> k]
<1>1. PICK order \in SetToSeqs(S) :
        queue' = Append(LootLines(inv, thief, victim, taken, order),
                        TheftLine("attempt", i, detected))
  BY DEF Steal, Orders
<1>2. /\ i <= MaxThefts /\ thefts' = Append(thefts, theft)
      /\ mem' = [mem EXCEPT !.trade = MoveLoot(@, thief, victim, taken), !.theft[i] = verdict]
      /\ UNCHANGED <<deeds, offers, disk, seeds, faults>>
  BY DEF Steal
<1>3. inv \in [Agents -> [Materials -> Int]] /\ taken \in Bundles
  <2>1. inv \in [Agents -> [Materials -> Int]]
    BY BasicTypes DEF Books
  <2> QED
    BY <2>1, EconomyAssumption, TakesType
<1>4. order \in Seq(Materials)
  <2>1. order \in Seq(S)
    BY OrderType
  <2> HIDE DEF S
  <2>2. S \subseteq Materials
    BY DEF S
  <2> QED
    BY <2>1, <2>2
<1>5. i \in TheftIds /\ i \in 1..i /\ Len(thefts) <= i /\ i \in Nat
  BY <1>2, BasicTypes, EconomyAssumption DEF TheftIds
<1> HIDE DEF taken, inv
<1>6. queue' \in Seq(Lines(Len(deeds), Len(offers), i))
  <2>1. LootLines(inv, thief, victim, taken, order) \in Seq(Lines(Len(deeds), Len(offers), i))
    BY <1>3, <1>4, LootLinesType
  <2>2. TheftLine("attempt", i, detected) \in Lines(Len(deeds), Len(offers), i)
    BY <1>5, LineTypes
  <2> QED
    BY <1>1, <2>1, <2>2
<1>7. mem' \in Ledgers(Len(deeds))
  <2>1. MoveLoot(mem.trade, thief, victim, taken) \in Books(OfferIds)
    BY <1>3, BasicTypes, MoveLootType
  <2>2. [mem.theft EXCEPT ![i] = verdict] \in Thefts
    BY <1>5, BasicTypes DEF Thefts, TheftStates
  <2>3. mem' = [mem EXCEPT !.trade = MoveLoot(mem.trade, thief, victim, taken),
                           !.theft = [mem.theft EXCEPT ![i] = verdict]]
    BY <1>2, BasicTypes DEF Ledgers
  <2> HIDE DEF verdict
  <2> QED
    BY <2>1, <2>2, <2>3, BasicTypes DEF Ledgers
<1>8. thefts' \in Seq(Theft) /\ Len(thefts') = i /\ Extends(thefts, thefts')
  <2>1. theft \in Theft
    BY DEF Theft
  <2> HIDE DEF theft
  <2> QED
    BY <1>2, <2>1, BasicTypes, ExtendsAtAll
<1> QED
  BY <1>2, <1>5, <1>6, <1>7, <1>8, BasicTypes, OperationTypes DEF EconomyTypes

(* A theft that raises leaves a part of the lines of a theft.              *)
LEMMA RaisedTheft ==
    ASSUME EconomyTypes, NEW thief \in Agents, NEW victim \in Agents, NEW loot \in Loots,
           StealRaises(thief, victim, loot)
    PROVE  /\ queue = <<>> /\ deeds' = deeds /\ offers' = offers /\ thefts' = thefts
           /\ seeds' = seeds /\ disk' = disk /\ faults' = faults /\ mem'.own = mem.own
           /\ mem'.theft = mem.theft
           /\ Takes(mem.trade.inv, victim, loot) \in Bundles
           /\ \E gone, got :
                 mem' = [mem EXCEPT !.trade =
                          PartLoot(@, thief, victim, Takes(mem.trade.inv, victim, loot), gone, got)]
           /\ queue' \in Seq(SetLines)
           /\ \E m \in Materials :
                 /\ Takes(mem.trade.inv, victim, loot)[m] > 0
                 /\ mem.trade.inv[thief][m] + Takes(mem.trade.inv, victim, loot)[m] < 0
<1> DEFINE inv == mem.trade.inv
           taken == Takes(inv, victim, loot)
           S == {m \in Materials : taken[m] > 0}
<1> DEFINE Halts(order, n) ==
        /\ order[n] \in Refused(inv, thief, taken)
        /\ mem' = [mem EXCEPT !.trade =
                      PartLoot(@, thief, victim, taken, {order[j] : j \in 1..n},
                                                        {order[j] : j \in 1..(n - 1)})]
        /\ queue' = SubSeq(LootLines(inv, thief, victim, taken, order), 1, 2 * n - 1)
<1>0. PICK order \in SetToSeqs(S) : \E n \in 1..Len(order) : Halts(order, n)
  BY DEF StealRaises, Orders
<1>1. PICK n \in 1..Len(order) : Halts(order, n)
  BY <1>0
<1>2. /\ queue = <<>> /\ deeds' = deeds /\ offers' = offers /\ thefts' = thefts
      /\ seeds' = seeds /\ disk' = disk /\ faults' = faults
  BY DEF StealRaises, Idle, contents
<1>3. inv \in [Agents -> [Materials -> Int]] /\ taken \in Bundles
  <2>1. inv \in [Agents -> [Materials -> Int]]
    BY BasicTypes DEF Books
  <2> QED
    BY <2>1, EconomyAssumption, TakesType
<1>4. order \in Seq(Materials) /\ Len(order) \in Nat
  <2>1. order \in Seq(S) /\ Len(order) \in Nat
    BY OrderType
  <2> HIDE DEF S
  <2>2. S \subseteq Materials
    BY DEF S
  <2> QED
    BY <2>1, <2>2
<1>5. \E m \in Materials : taken[m] > 0 /\ inv[thief][m] + taken[m] < 0
  BY <1>1 DEF Refused
<1>6. mem'.own = mem.own /\ mem'.theft = mem.theft
  BY <1>1, BasicTypes DEF Ledgers
<1> HIDE DEF taken, inv, S
<1> DEFINE lines == LootLines(inv, thief, victim, taken, order)
<1>7. lines \in Seq(SetLines) /\ Len(lines) = 2 * Len(order)
  <2>1. Lines(0, 0, 0) = SetLines
    BY DEF Lines, OwnLines, OfferLines, TheftLines
  <2> QED
    BY <1>3, <1>4, <2>1, LootLinesType
<1> HIDE DEF lines
<1>8. SubSeq(lines, 1, 2 * n - 1) \in Seq(SetLines)
  <2>1. 2 * n - 1 \in Nat /\ 2 * n - 1 <= 2 * Len(order)
    BY <1>4
  <2>2. \A j \in 1..(2 * n - 1) : lines[j] \in SetLines
    BY <1>7, <2>1
  <2> QED
    BY <1>7, <2>1, <2>2
<1>9. queue' \in Seq(SetLines)
  BY <1>1, <1>8 DEF lines
<1> QED
  BY <1>1, <1>2, <1>3, <1>5, <1>6, <1>9 DEF taken, inv

LEMMA StealRaisesTypes ==
    ASSUME EconomyTypes, NEW thief \in Agents, NEW victim \in Agents, NEW loot \in Loots,
           StealRaises(thief, victim, loot)
    PROVE  EconomyTypes'
<1> DEFINE taken == Takes(mem.trade.inv, victim, loot)
<1>1. PICK gone, got : mem' = [mem EXCEPT !.trade = PartLoot(@, thief, victim, taken, gone, got)]
  BY RaisedTheft
<1>2. taken \in Bundles /\ queue' \in Seq(SetLines)
  BY RaisedTheft
<1>3. /\ deeds' = deeds /\ offers' = offers /\ thefts' = thefts
      /\ seeds' = seeds /\ disk' = disk /\ faults' = faults
  BY RaisedTheft
<1> HIDE DEF taken
<1>4. mem' \in Ledgers(Len(deeds))
  <2>1. PartLoot(mem.trade, thief, victim, taken, gone, got) \in Books(OfferIds)
    BY <1>2, BasicTypes, PartLootType
  <2> QED
    BY <1>1, <2>1, BasicTypes DEF Ledgers
<1>5. queue' \in Seq(Lines(Len(deeds), Len(offers), Len(thefts)))
  <2>1. SetLines \subseteq Lines(Len(deeds), Len(offers), Len(thefts))
    BY DEF Lines
  <2> QED
    BY <1>2, <2>1
<1> QED
  BY <1>3, <1>4, <1>5, BasicTypes, OperationTypes DEF EconomyTypes

(* A nonempty set of numbers up to n has a largest one.                    *)
LEMMA LargestNumber ==
    ASSUME NEW n \in Nat, NEW S \in SUBSET (1..n), S # {}
    PROVE  Max(S) \in S
<1> DEFINE T == {m \in Nat : \A X \in SUBSET (1..m) :
                    X # {} => \E x \in X : \A y \in X : x >= y}
<1>1. 0 \in T
  <2>1. 1..0 = {}
    OBVIOUS
  <2> QED
    BY <2>1
<1>2. ASSUME NEW m \in Nat, m \in T PROVE m + 1 \in T
  <2> SUFFICES ASSUME NEW X \in SUBSET (1..(m + 1)), X # {}
               PROVE  \E x \in X : \A y \in X : x >= y
    OBVIOUS
  <2>1. CASE m + 1 \in X
    BY <2>1
  <2>2. CASE m + 1 \notin X
    <3>1. X \in SUBSET (1..m)
      BY <2>2
    <3> QED
      BY <1>2, <3>1
  <2> QED
    BY <2>1, <2>2
<1>3. n \in T
  <2> HIDE DEF T
  <2> QED
    BY <1>1, <1>2, NaturalsByInduction
<1>4. \E x \in S : \A y \in S : x >= y
  BY <1>3
<1> QED
  BY <1>4 DEF Max

LEMMA ReportTypes ==
    ASSUME EconomyTypes, NEW thief \in Agents, NEW k \in Chests, ReportTheft(thief, k)
    PROVE  /\ EconomyTypes'
           /\ Max(Matches(thief, k)) \in 1..Len(thefts)
           /\ mem.theft[Max(Matches(thief, k))] # "none"
<1> DEFINE i == Max(Matches(thief, k))
<1>1. /\ mem' = [mem EXCEPT !.theft[i] = "detected"]
      /\ queue' = <<TheftLine("report", i, TRUE)>>
      /\ UNCHANGED <<deeds, offers, thefts, disk, seeds, faults>>
      /\ Matches(thief, k) # {}
  BY DEF ReportTheft
<1>2. i \in Matches(thief, k)
  <2>1. Matches(thief, k) \in SUBSET (1..Len(thefts))
    BY DEF Matches
  <2> QED
    BY <1>1, <2>1, BasicTypes, LargestNumber
<1>3. i \in 1..Len(thefts) /\ mem.theft[i] # "none"
  BY <1>2 DEF Matches
<1>4. i \in TheftIds
  BY <1>3, BasicTypes
<1> HIDE DEF i
<1>5. mem' \in Ledgers(Len(deeds))
  <2>1. [mem.theft EXCEPT ![i] = "detected"] \in Thefts
    BY <1>4, BasicTypes DEF Thefts, TheftStates
  <2>2. mem' = [mem EXCEPT !.theft = [mem.theft EXCEPT ![i] = "detected"]]
    BY <1>1, BasicTypes DEF Ledgers
  <2> QED
    BY <2>1, <2>2, BasicTypes DEF Ledgers
<1>6. queue' \in Seq(Lines(Len(deeds), Len(offers), Len(thefts)))
  <2>1. TheftLine("report", i, TRUE) \in Lines(Len(deeds), Len(offers), Len(thefts))
    <3>1. TRUE \in BOOLEAN
      OBVIOUS
    <3> QED
      BY <1>3, <3>1, LineTypes
  <2> QED
    BY <1>1, <2>1, OneLine
<1>7. EconomyTypes'
  BY <1>1, <1>5, <1>6, BasicTypes, OperationTypes DEF EconomyTypes
<1> QED
  BY <1>3, <1>7 DEF i

(* Whatever one append does, the file's images are the old base, the old   *)
(* image or the image with the record applied.                             *)
LEMMA AppendImages ==
    ASSUME NEW S, NEW f \in Files(S), NEW next \in S, NEW g,
           g = Written(f, next) \/ g \in Damaged(f, next)
    PROVE  /\ g \in Files(S)
           /\ g.img \in {f.base, f.img, next}
           /\ g.base \in {f.base, f.img, next}
BY DEF Files, Written, Damaged, TornPart, TornWhole, Blank

(* One line leaves the queue for one of the three files.                   *)
Appends(line, file) ==
    /\ disk' = [disk EXCEPT ![line.log] = file]
    /\ \/ file = Written(disk[line.log], Replayed(line))
       \/ file \in Damaged(disk[line.log], Replayed(line))

LEMMA AppendTypes ==
    ASSUME EconomyTypes, queue # <<>>, NEW file, Appends(Head(queue), file),
           queue' = Tail(queue), UNCHANGED <<deeds, offers, thefts, seeds, mem>>,
           faults' \in 0..MaxFaults
    PROVE  EconomyTypes'
<1> DEFINE line == Head(queue)
           L == Lines(Len(deeds), Len(offers), Len(thefts))
           OwnImages == Own!Index(1..Len(deeds))
<1>1. queue \in Seq(L)
  BY DEF EconomyTypes
<1>2. line \in L /\ Tail(queue) \in Seq(L)
  <2> HIDE DEF L
  <2> QED
    BY <1>1
<1>3. /\ disk \in [own : Files(OwnImages), trade : Files(Books(OfferIds)), theft : Files(Thefts)]
  BY DEF EconomyTypes, TypeOK, Thefts
<1> HIDE DEF line, OwnImages
<1>4. /\ disk' = [disk EXCEPT ![line.log] = file]
      /\ \/ file = Written(disk[line.log], Replayed(line))
         \/ file \in Damaged(disk[line.log], Replayed(line))
  BY DEF Appends, line
<1>5. /\ line.log = "own" => \A ix \in OwnImages : ReplayOwn(ix, line) \in OwnImages
      /\ line.log = "trade" => \A bk \in Books(OfferIds) :
            ReplayTrade(bk, line) \in Books(OfferIds)
      /\ line.log = "theft" => \A th \in Thefts : ReplayTheft(th, line) \in Thefts
      /\ line.log \in {"own", "trade", "theft"}
  BY <1>2, ReplayTypes DEF OwnImages
<1>6. /\ disk.own.img \in OwnImages /\ disk.trade.img \in Books(OfferIds)
      /\ disk.theft.img \in Thefts
  BY <1>3 DEF Files
<1>7. disk' \in [own : Files(OwnImages), trade : Files(Books(OfferIds)), theft : Files(Thefts)]
  <2>1. CASE line.log = "own"
    <3>1. Replayed(line) \in OwnImages
      BY <1>5, <1>6, <2>1 DEF Replayed
    <3>2. file \in Files(OwnImages)
      BY <1>3, <1>4, <2>1, <3>1, AppendImages
    <3> QED
      BY <1>3, <1>4, <2>1, <3>2
  <2>2. CASE line.log = "trade"
    <3>1. Replayed(line) \in Books(OfferIds)
      BY <1>5, <1>6, <2>2 DEF Replayed
    <3>2. file \in Files(Books(OfferIds))
      BY <1>3, <1>4, <2>2, <3>1, AppendImages
    <3> QED
      BY <1>3, <1>4, <2>2, <3>2
  <2>3. CASE line.log = "theft"
    <3>1. Replayed(line) \in Thefts
      BY <1>5, <1>6, <2>3 DEF Replayed
    <3>2. file \in Files(Thefts)
      BY <1>3, <1>4, <2>3, <3>1, AppendImages
    <3> QED
      BY <1>3, <1>4, <2>3, <3>2
  <2> QED
    BY <1>5, <2>1, <2>2, <2>3
<1> QED
  BY <1>2, <1>7 DEF EconomyTypes, TypeOK, OwnImages, Thefts

LEMMA CrashTypes ==
    ASSUME EconomyTypes, Crash
    PROVE  EconomyTypes'
<1>1. /\ mem' = [own |-> disk.own.img, trade |-> disk.trade.img, theft |-> disk.theft.img]
      /\ queue' = <<>> /\ UNCHANGED <<disk, deeds, offers, thefts, seeds, faults>>
  BY DEF Crash, contents
<1>2. disk \in [own : Files(Own!Index(1..Len(deeds))), trade : Files(Books(OfferIds)),
                theft : Files(Thefts)]
  BY DEF EconomyTypes, TypeOK, Thefts
<1>3. mem' \in Ledgers(Len(deeds))
  BY <1>1, <1>2 DEF Ledgers, Files
<1>4. queue' \in Seq(Lines(Len(deeds), Len(offers), Len(thefts)))
  BY <1>1
<1> QED
  BY <1>1, <1>3, <1>4, BasicTypes, OperationTypes DEF EconomyTypes

LEMMA WriteIsAppend ==
    ASSUME Write \/ WriteFails
    PROVE  /\ queue # <<>> /\ queue' = Tail(queue)
           /\ UNCHANGED <<deeds, offers, thefts, seeds, mem>>
           /\ \E file : Appends(Head(queue), file)
<1>1. CASE Write
  <2>1. disk' = [disk EXCEPT ![Head(queue).log] =
                               Written(disk[Head(queue).log], Replayed(Head(queue)))]
    BY <1>1 DEF Write
  <2> QED
    BY <1>1, <2>1 DEF Write, Appends, Idle, contents
<1>2. CASE WriteFails
  <2>1. PICK file \in Damaged(disk[Head(queue).log], Replayed(Head(queue))) :
          disk' = [disk EXCEPT ![Head(queue).log] = file]
    BY <1>2 DEF WriteFails
  <2> QED
    BY <1>2, <2>1 DEF WriteFails, Appends, Idle, contents
<1> QED
  BY <1>1, <1>2

LEMMA TypesStart == Init => EconomyTypes
<1> SUFFICES ASSUME Init PROVE EconomyTypes
  OBVIOUS
<1>1. Own!EmptyIndex \in Own!Index(1..0)
  BY DEF Own!EmptyIndex, Own!Index
<1>2. EmptyBook(OfferIds) \in Books(OfferIds)
  BY DEF EmptyBook, Books, NoGoods, Statuses
<1>3. NoTheft \in [TheftIds -> TheftStates]
  BY DEF NoTheft, TheftStates
<1>4. Len(deeds) = 0 /\ Len(offers) = 0 /\ Len(thefts) = 0
  BY DEF Init
<1>5. TypeOK
  <2>1. mem \in [own : Own!Index(1..0), trade : Books(OfferIds), theft : [TheftIds -> TheftStates]]
    BY <1>1, <1>2, <1>3 DEF Init
  <2>2. disk \in [own : Files(Own!Index(1..0)), trade : Files(Books(OfferIds)),
                  theft : Files([TheftIds -> TheftStates])]
    BY <1>1, <1>2, <1>3 DEF Init, Files, Blank
  <2>3. seeds \in 0..MaxSeeds /\ faults \in 0..MaxFaults
    BY EconomyAssumption DEF Init
  <2> QED
    BY <1>4, <2>1, <2>2, <2>3 DEF Init, TypeOK
<1> QED
  BY <1>4, <1>5, EconomyAssumption DEF EconomyTypes, Init

LEMMA TypesKept == EconomyTypes /\ [Next]_vars => EconomyTypes'
<1> SUFFICES ASSUME EconomyTypes, [Next]_vars PROVE EconomyTypes'
  OBVIOUS
<1>1. CASE \E a \in Agents, m \in Materials, qty \in Stocks : Seed(a, m, qty)
  BY <1>1, SeedTypes
<1>2. CASE \/ \E a \in Agents, k \in Chests : Claim(a, k)
           \/ \E c \in 1..Len(deeds) : Release(c)
  BY <1>2, ChestTypes
<1>3. CASE \E a, b \in Agents, terms \in OfferTerms : ProposeTrade(a, b, terms)
  BY <1>3, ProposeTypes
<1>4. CASE \E a \in Agents, o \in 1..Len(offers) : AcceptTrade(a, o) \/ RejectTrade(a, o)
  BY <1>4, AcceptTypes, RejectTypes
<1>5. CASE \E a, b \in Agents, k \in Chests, loot \in Loots, d \in BOOLEAN :
              Steal(a, b, k, loot, d)
  BY <1>5, StealTypes
<1>10. CASE \E a, b \in Agents, loot \in Loots : StealRaises(a, b, loot)
  BY <1>10, StealRaisesTypes
<1>6. CASE \E a \in Agents, k \in Chests : ReportTheft(a, k)
  BY <1>6, ReportTypes
<1>7. CASE Write \/ WriteFails
  <2>1. faults' \in 0..MaxFaults
    BY <1>7, EconomyAssumption DEF Write, WriteFails, EconomyTypes, TypeOK
  <2> QED
    BY <1>7, <2>1, WriteIsAppend, AppendTypes
<1>8. CASE Crash
  BY <1>8, CrashTypes
<1>9. CASE UNCHANGED vars
  BY <1>9 DEF vars, EconomyTypes, TypeOK
<1> QED
  BY <1>1, <1>2, <1>3, <1>4, <1>5, <1>6, <1>7, <1>8, <1>9, <1>10 DEF Next

(* The types hold, whatever is traded, stolen, lost or resumed.            *)
THEOREM EconomyTypeCorrect == Spec => []TypeOK
<1>1. EconomyTypes => TypeOK
  BY DEF EconomyTypes
<1> QED
  BY <1>1, TypesStart, TypesKept, PTL DEF Spec

-----------------------------------------------------------------------------
(* Chests change hands.                                                    *)

(* A key of _active points to a claim of that chest.                       *)
Keyed(ix, dd) == \A k \in Chests : ix.active[k] # Own!NoClaim => dd[ix.active[k]].target = k

LEMMA KeyedLater ==
    ASSUME NEW dd \in Seq(Deed), NEW longer, Extends(dd, longer),
           NEW ix \in Own!Index(1..Len(dd)), Keyed(ix, dd)
    PROVE  /\ Keyed(ix, longer)
           /\ \A k \in Chests : ChestOwner(ix, longer, k) = ChestOwner(ix, dd, k)
<1>1. \A k \in Chests : ix.active[k] # Own!NoClaim => ix.active[k] \in 1..Len(dd)
  BY DEF Own!Index
<1> QED
  BY <1>1 DEF Keyed, Extends, ChestOwner

LEMMA KeyedIndex ==
    ASSUME NEW dd \in Seq(Deed), NEW ix \in Own!Index(1..Len(dd)), Keyed(ix, dd),
           NEW c \in 1..Len(dd)
    PROVE  /\ Keyed(Own!IndexActive(ix, c, dd[c].target), dd)
           /\ Keyed(Own!DeindexActive(ix, c, dd[c].target), dd)
<1>1. dd[c].target \in Chests
  <2>1. dd[c] \in Deed
    OBVIOUS
  <2> QED
    BY <2>1 DEF Deed
<1> QED
  BY <1>1 DEF Keyed, Own!Index, Own!IndexActive, Own!DeindexActive

LEMMA OwnerOf ==
    ASSUME NEW ix, NEW dd, NEW k
    PROVE  /\ ix.active[k] = Own!NoClaim => ChestOwner(ix, dd, k) = {}
           /\ ix.active[k] # Own!NoClaim => ChestOwner(ix, dd, k) = {dd[ix.active[k]].owner}
BY DEF ChestOwner

(* Whose the chest k is after a claim of the chest j.                      *)
LEMMA ClaimOwner ==
    ASSUME NEW st, IsStage(st), Keyed(st.ix, st.deeds),
           NEW a \in Agents, NEW j \in Chests,
           NEW result, result = ClaimChest(st, a, j)
    PROVE  /\ Keyed(result.ix, result.deeds)
           /\ \A k \in Chests : k # j \/ st.ix.active[j] # Own!NoClaim =>
                 ChestOwner(result.ix, result.deeds, k) = ChestOwner(st.ix, st.deeds, k)
           /\ st.ix.active[j] = Own!NoClaim => ChestOwner(result.ix, result.deeds, j) = {a}
<1> DEFINE n == Len(st.deeds)
           c == n + 1
           new == ClaimChest(st, a, j)
           deed == [owner |-> a, target |-> j]
           dd == Append(st.deeds, deed)
<1>1. /\ n \in Nat /\ st.ix \in Own!Index(1..n) /\ st.deeds \in Seq(Deed)
      /\ st.lines \in Seq(OwnLines(n)) /\ st \in Stages(n)
  BY DEF IsStage, Stages
<1>4. result = new
  OBVIOUS
<1>5. Keyed(st.ix, st.deeds)
  OBVIOUS
<1>2. CASE st.ix.active[j] = Own!NoClaim
  <2>1. new.ix = Own!IndexActive(st.ix, c, j) /\ new.deeds = dd
    BY <1>2, FreeChest DEF ClaimChest
  <2>2. /\ dd \in Seq(Deed) /\ Len(dd) = c /\ dd[c] = deed /\ Extends(st.deeds, dd)
    BY <1>1 DEF Deed, Extends
  <2>3. /\ Keyed(st.ix, dd) /\ st.ix \in Own!Index(1..c) /\ c \in 1..c
        /\ \A k \in Chests : ChestOwner(st.ix, dd, k) = ChestOwner(st.ix, st.deeds, k)
    BY <1>1, <2>2, KeyedLater, LedgersGrow
  <2>4. dd[c].target = j /\ dd[c].owner = a
    BY <2>2
  <2>5. new.ix.active = [st.ix.active EXCEPT ![j] = c]
    BY <2>1 DEF Own!IndexActive
  <2>6. new.ix.active[j] = c /\ \A k \in Chests : k # j => new.ix.active[k] = st.ix.active[k]
    BY <1>1, <2>5 DEF Own!Index
  <2>7. c # Own!NoClaim
    BY <1>1 DEF Own!NoClaim
  <2>8. Keyed(new.ix, new.deeds)
    <3> HIDE DEF dd, new
    <3> QED
      BY <2>1, <2>3, <2>4, <2>6 DEF Keyed
  <2>9. ChestOwner(new.ix, dd, j) = {a}
    <3> HIDE DEF dd, new
    <3> QED
      BY <2>4, <2>6, <2>7, OwnerOf
  <2>10. ASSUME NEW k \in Chests, k # j
         PROVE  ChestOwner(new.ix, dd, k) = ChestOwner(st.ix, st.deeds, k)
    <3>1. ChestOwner(new.ix, dd, k) = ChestOwner(st.ix, dd, k)
      BY <2>6, <2>10 DEF ChestOwner
    <3> QED
      BY <2>3, <3>1
  <2> HIDE DEF dd, new
  <2> QED
    BY <1>2, <1>4, <2>1, <2>8, <2>9, <2>10
<1>3. CASE st.ix.active[j] # Own!NoClaim
  <2>1. new = [st EXCEPT !.lines = Append(@, OwnLine("conflict", st.ix.active[j]))]
    BY <1>3, FreeChest DEF ClaimChest
  <2>2. new.ix = st.ix /\ new.deeds = st.deeds
    BY <1>1, <2>1 DEF Stages
  <2> HIDE DEF new
  <2> QED
    BY <1>3, <1>4, <1>5, <2>2
<1> QED
  BY <1>2, <1>3

LEMMA ReleaseOwner ==
    ASSUME NEW st, IsStage(st), Keyed(st.ix, st.deeds), NEW c \in 1..Len(st.deeds)
    PROVE  LET new == ReleaseChest(st, c) IN
           /\ Keyed(new.ix, new.deeds)
           /\ new.ix.active[st.deeds[c].target] = Own!NoClaim
           /\ \A k \in Chests : k # st.deeds[c].target =>
                 ChestOwner(new.ix, new.deeds, k) = ChestOwner(st.ix, st.deeds, k)
           /\ \A k \in Chests : new.ix.active[k] \in {st.ix.active[k], Own!NoClaim}
<1> DEFINE n == Len(st.deeds)
           new == ReleaseChest(st, c)
           j == st.deeds[c].target
<1>1. /\ n \in Nat /\ st.ix \in Own!Index(1..n) /\ st.deeds \in Seq(Deed)
      /\ st \in Stages(n)
  BY DEF IsStage, Stages
<1>2. new.ix = Own!DeindexActive(st.ix, c, j) /\ new.deeds = st.deeds
  BY <1>1 DEF ReleaseChest, Stages
<1>3. j \in Chests
  <2>1. st.deeds[c] \in Deed
    BY <1>1
  <2> QED
    BY <2>1 DEF Deed
<1>4. new.ix.active = [st.ix.active EXCEPT ![j] = Own!NoClaim]
  BY <1>2 DEF Own!DeindexActive
<1>5. Keyed(new.ix, new.deeds)
  BY <1>1, <1>2, KeyedIndex
<1>6. /\ new.ix.active[j] = Own!NoClaim
      /\ \A k \in Chests : k # j => new.ix.active[k] = st.ix.active[k]
  BY <1>1, <1>3, <1>4 DEF Own!Index
<1> HIDE DEF new, j
<1>7. \A k \in Chests : k # j =>
         ChestOwner(new.ix, new.deeds, k) = ChestOwner(st.ix, st.deeds, k)
  BY <1>2, <1>6 DEF ChestOwner
<1> QED
  BY <1>5, <1>6, <1>7 DEF new, j

(* A transfer takes a chest from its giver or from nobody.                 *)
LEMMA TransferOwner ==
    ASSUME NEW st, IsStage(st), Keyed(st.ix, st.deeds), NEW move \in Move, NEW k \in Chests,
           NEW result,
           result = TransferContainer(st, move.chest, move.giver, move.taker)
    PROVE  /\ Keyed(result.ix, result.deeds)
           /\ \/ ChestOwner(result.ix, result.deeds, k) = ChestOwner(st.ix, st.deeds, k)
              \/ /\ move.chest = k
                 /\ ChestOwner(st.ix, st.deeds, k) \in {{}, {move.giver}}
                 /\ ChestOwner(result.ix, result.deeds, k) = {move.taker}
<1> DEFINE j == move.chest
           held == st.ix.active[j]
           gives == held # Own!NoClaim /\ st.deeds[held].owner = move.giver
           freed == IF gives THEN ReleaseChest(st, held) ELSE st
           new == TransferContainer(st, j, move.giver, move.taker)
           Of(s) == ChestOwner(s.ix, s.deeds, k)
<1>1. j \in Chests /\ move.taker \in Agents
  BY DEF Move
<1>2. held # Own!NoClaim => held \in 1..Len(st.deeds) /\ st.deeds[held].target = j
  BY <1>1 DEF IsStage, Stages, Own!Index, Keyed
<1>3. new = ClaimChest(freed, move.taker, j)
  BY DEF TransferContainer
<1>6. result = new
  OBVIOUS
<1>4. CASE gives
  <2>1. held \in 1..Len(st.deeds) /\ st.deeds[held].target = j /\ freed = ReleaseChest(st, held)
    BY <1>2, <1>4
  <2> HIDE DEF freed, held, j
  <2>2. IsStage(freed) /\ Keyed(freed.ix, freed.deeds) /\ freed.ix.active[j] = Own!NoClaim
    BY <2>1, ReleaseStage, ReleaseOwner
  <2>3. k # j => Of(freed) = Of(st)
    BY <2>1, ReleaseOwner
  <2>4. Keyed(new.ix, new.deeds) /\ Of(new) = IF k = j THEN {move.taker} ELSE Of(freed)
    <3>2. new = ClaimChest(freed, move.taker, j)
      BY <1>3
    <3> HIDE DEF new
    <3>1. /\ Keyed(new.ix, new.deeds)
          /\ k # j => ChestOwner(new.ix, new.deeds, k) = ChestOwner(freed.ix, freed.deeds, k)
          /\ ChestOwner(new.ix, new.deeds, j) = {move.taker}
      BY <1>1, <2>2, <3>2, ClaimOwner
    <3> QED
      BY <3>1
  <2>5. k = j => Of(st) = {move.giver}
    BY <1>4, OwnerOf DEF held
  <2> HIDE DEF new, Of
  <2>6. /\ Keyed(new.ix, new.deeds)
        /\ \/ Of(new) = Of(st)
           \/ j = k /\ Of(st) \in {{}, {move.giver}} /\ Of(new) = {move.taker}
    BY <2>3, <2>4, <2>5
  <2> QED
    BY <1>6, <2>6 DEF j, Of
<1>5. CASE ~gives
  <2>1. freed = st
    BY <1>5
  <2>2. /\ Keyed(new.ix, new.deeds)
        /\ Of(new) = IF k = j /\ held = Own!NoClaim THEN {move.taker} ELSE Of(st)
    <3>2. new = ClaimChest(st, move.taker, j)
      BY <1>3, <2>1
    <3>3. IsStage(st) /\ Keyed(st.ix, st.deeds)
      OBVIOUS
    <3> HIDE DEF new, j
    <3>1. /\ Keyed(new.ix, new.deeds)
          /\ k # j \/ held # Own!NoClaim =>
                ChestOwner(new.ix, new.deeds, k) = ChestOwner(st.ix, st.deeds, k)
          /\ held = Own!NoClaim => ChestOwner(new.ix, new.deeds, j) = {move.taker}
      BY <1>1, <3>2, <3>3, ClaimOwner, SMTT(30)
    <3> QED
      BY <3>1
  <2>3. held = Own!NoClaim /\ k = j => Of(st) = {}
    BY OwnerOf
  <2> HIDE DEF new, Of, held, j
  <2>4. /\ Keyed(new.ix, new.deeds)
        /\ \/ Of(new) = Of(st)
           \/ j = k /\ Of(st) \in {{}, {move.giver}} /\ Of(new) = {move.taker}
    BY <2>2, <2>3
  <2> QED
    BY <1>6, <2>4 DEF j, Of
<1> QED
  BY <1>4, <1>5

LEMMA TransferOwners ==
    ASSUME NEW st, IsStage(st), Keyed(st.ix, st.deeds), NEW move \in Move, NEW result,
           result = TransferContainer(st, move.chest, move.giver, move.taker)
    PROVE  \A k \in Chests :
              /\ Keyed(result.ix, result.deeds)
              /\ \/ ChestOwner(result.ix, result.deeds, k) = ChestOwner(st.ix, st.deeds, k)
                 \/ /\ move.chest = k
                    /\ ChestOwner(st.ix, st.deeds, k) \in {{}, {move.giver}}
                    /\ ChestOwner(result.ix, result.deeds, k) = {move.taker}
BY TransferOwner

KeyInv ==
    /\ EconomyTypes
    /\ \A ix \in {mem.own, disk.own.img, disk.own.base} : Keyed(ix, deeds)

Passed(moves, i, k, x, owner) ==
    \E j \in 1..i : moves[j].chest = k /\ moves[j].giver = x /\ owner = {moves[j].taker}

(* A chest of x is still with x after any of an offer's moves, or with the *)
(* taker of a move in which x gave it.                                     *)
LEMMA OwnersOfTransfers ==
    ASSUME NEW start, IsStage(start), Keyed(start.ix, start.deeds), NEW offer \in Offer,
           offer.from # offer.to,
           NEW st, Steps(st, start, Moves(offer), Len(Moves(offer)))
    PROVE  \A i \in 0..Len(Moves(offer)) :
              /\ Keyed(st[i].ix, st[i].deeds)
              /\ \A k \in Chests, x \in Agents :
                    ChestOwner(start.ix, start.deeds, k) = {x} =>
                       LET owner == ChestOwner(st[i].ix, st[i].deeds, k)
                       IN  owner = {x} \/ Passed(Moves(offer), i, k, x, owner)
<1> DEFINE moves == Moves(offer)
           n == Len(moves)
           Of(s, k) == ChestOwner(s.ix, s.deeds, k)
           Good(i) ==
              /\ Keyed(st[i].ix, st[i].deeds)
              /\ \A k \in Chests, x \in Agents : Of(start, k) = {x} =>
                    Of(st[i], k) = {x} \/ Passed(moves, i, k, x, Of(st[i], k))
           T == {i \in Nat : i <= n => Good(i)}
<1>1. /\ moves \in Seq(Move) /\ n \in Nat
      /\ \A i \in 1..n : /\ moves[i] \in Move
                         /\ {moves[i].giver, moves[i].taker} = {offer.from, offer.to}
                         /\ moves[i].giver # moves[i].taker
  <2>1. moves \in Seq(Move)
    BY MovesOf
  <2>2. n \in Nat /\ \A i \in 1..n : moves[i] \in Move
    <3> HIDE DEF moves
    <3> QED
      BY <2>1
  <2>3. \A i \in 1..n :  \/ moves[i].giver = offer.from /\ moves[i].taker = offer.to
                         \/ moves[i].giver = offer.to /\ moves[i].taker = offer.from
    BY MovesOf
  <2> HIDE DEF moves
  <2> QED
    BY <2>1, <2>2, <2>3
<1>2. /\ st[0] = start
      /\ \A i \in 0..n : IsStage(st[i])
      /\ \A i \in 1..n : st[i] = TransferContainer(st[i-1], moves[i].chest, moves[i].giver,
                                                   moves[i].taker)
  BY <1>1, StagesOfTransfers
<1> HIDE DEF moves
<1>3. 0 \in T
  BY <1>2
<1>4. ASSUME NEW i \in Nat, i \in T PROVE i + 1 \in T
  <2> SUFFICES ASSUME i + 1 <= n PROVE Good(i + 1)
    OBVIOUS
  <2> DEFINE move == moves[i + 1]
  <2>1. /\ Good(i) /\ IsStage(st[i]) /\ move \in Move /\ i + 1 \in 1..n
        /\ st[i + 1] = TransferContainer(st[i], move.chest, move.giver, move.taker)
    <3>1. i + 1 \in 1..n /\ i \in 0..n /\ (i + 1) - 1 = i
      BY <1>1
    <3> HIDE DEF Good
    <3> QED
      BY <1>1, <1>2, <1>4, <3>1
  <2>2. Keyed(st[i].ix, st[i].deeds)
    BY <2>1
  <2>3. /\ Keyed(st[i + 1].ix, st[i + 1].deeds)
        /\ \A k \in Chests :
              \/ Of(st[i + 1], k) = Of(st[i], k)
              \/ /\ move.chest = k /\ Of(st[i], k) \in {{}, {move.giver}}
                 /\ Of(st[i + 1], k) = {move.taker}
    <3>1. IsStage(st[i]) /\ move \in Move
          /\ st[i + 1] = TransferContainer(st[i], move.chest, move.giver, move.taker)
      BY <2>1
    <3> HIDE DEF move, Good
    <3>4. IsStage(st[i]) /\ Keyed(st[i].ix, st[i].deeds)
      BY <2>2, <3>1
    <3>5. \A k \in Chests :
             /\ Keyed(st[i + 1].ix, st[i + 1].deeds)
             /\ \/ ChestOwner(st[i + 1].ix, st[i + 1].deeds, k)
                        = ChestOwner(st[i].ix, st[i].deeds, k)
                \/ /\ move.chest = k
                   /\ ChestOwner(st[i].ix, st[i].deeds, k) \in {{}, {move.giver}}
                   /\ ChestOwner(st[i + 1].ix, st[i + 1].deeds, k) = {move.taker}
      <4> HIDE DEF Of, T, n
      <4>1. PICK s, r, mv : s = st[i] /\ r = st[i + 1] /\ mv = move
        OBVIOUS
      <4>2. /\ IsStage(s) /\ Keyed(s.ix, s.deeds) /\ mv \in Move
            /\ r = TransferContainer(s, mv.chest, mv.giver, mv.taker)
        BY <3>1, <3>4, <4>1
      <4>3. \A k \in Chests :
               /\ Keyed(r.ix, r.deeds)
               /\ \/ ChestOwner(r.ix, r.deeds, k) = ChestOwner(s.ix, s.deeds, k)
                  \/ /\ mv.chest = k
                     /\ ChestOwner(s.ix, s.deeds, k) \in {{}, {mv.giver}}
                     /\ ChestOwner(r.ix, r.deeds, k) = {mv.taker}
        BY ONLY <4>2, TransferOwners
      <4> QED
        BY <4>1, <4>3
    <3>2. ASSUME NEW k \in Chests
          PROVE  /\ Keyed(st[i + 1].ix, st[i + 1].deeds)
                 /\ \/ Of(st[i + 1], k) = Of(st[i], k)
                    \/ /\ move.chest = k /\ Of(st[i], k) \in {{}, {move.giver}}
                       /\ Of(st[i + 1], k) = {move.taker}
      BY <3>5
    <3>3. Keyed(st[i + 1].ix, st[i + 1].deeds)
      <4>1. CASE Chests = {}
        BY <4>1 DEF Keyed
      <4>2. CASE Chests # {}
        BY <3>2, <4>2
      <4> QED
        BY <4>1, <4>2
    <3> HIDE DEF Of
    <3> QED
      BY <3>2, <3>3
  <2>4. ASSUME NEW k \in Chests, NEW x \in Agents, Of(start, k) = {x}
        PROVE  Of(st[i + 1], k) = {x} \/ Passed(moves, i + 1, k, x, Of(st[i + 1], k))
    <3> DEFINE before == Of(st[i], k)
               after == Of(st[i + 1], k)
    <3>1. before = {x} \/ Passed(moves, i, k, x, before)
      BY <2>1, <2>4
    <3>2. \/ after = before
          \/ /\ move.chest = k /\ before \in {{}, {move.giver}}
             /\ after = {move.taker}
      BY <2>3
    <3> HIDE DEF before, after
    <3>3. CASE after = before
      <4>1. 1..i \subseteq 1..(i + 1)
        OBVIOUS
      <4> QED
        BY <3>1, <3>3, <4>1 DEF Passed, before, after
    <3>4. CASE /\ move.chest = k /\ before \in {{}, {move.giver}}
               /\ after = {move.taker}
      <4>1. CASE before = {x}
        <5>1. move.giver = x /\ i + 1 \in 1..(i + 1)
          BY <3>4, <4>1
        <5>2. Passed(moves, i + 1, k, x, after)
          BY <3>4, <5>1 DEF Passed
        <5> QED
          BY <5>2 DEF after
      <4>2. CASE Passed(moves, i, k, x, before)
        <5>1. PICK j \in 1..i : moves[j].giver = x /\ before = {moves[j].taker}
          BY <4>2 DEF Passed
        <5>2. move.giver = moves[j].taker
          BY <3>4, <5>1
        <5>3. /\ {moves[j].giver, moves[j].taker} = {offer.from, offer.to}
              /\ {move.giver, move.taker} = {offer.from, offer.to}
              /\ move.giver # move.taker
          <6>1. j \in 1..n /\ i + 1 \in 1..n
            BY <1>1, <2>1
          <6> QED
            BY <1>1, <6>1
        <5>4. move.taker = x
          BY <5>1, <5>2, <5>3
        <5> QED
          BY <3>4, <5>4 DEF after
      <4> QED
        BY <3>1, <4>1, <4>2
    <3> QED
      BY <3>2, <3>3, <3>4
  <2> QED
    BY <2>3, <2>4
<1>5. Nat \subseteq T
  <2> HIDE DEF T
  <2> QED
    BY <1>3, <1>4, NaturalsByInduction
<1>6. \A i \in 0..n : Good(i)
  <2> HIDE DEF Good, n
  <2> QED
    BY <1>1, <1>5
<1> QED
  BY <1>6 DEF moves

(* An accepted offer passes on only the chests it names.                   *)
LEMMA AcceptMoves ==
    ASSUME KeyInv, NEW a \in Agents, NEW o \in 1..Len(offers), AcceptTrade(a, o)
    PROVE  /\ Keyed(mem'.own, deeds')
           /\ \A k \in Chests, x, y \in Agents :
                 /\ x # y
                 /\ ChestOwner(mem.own, deeds, k) = {x}
                 /\ ChestOwner(mem'.own, deeds', k) = {y}
                 => Accepts(o) /\ HandsOver(o, k, x, y)
<1> DEFINE moves == Moves(offers[o])
<1>1. PICK st : /\ Steps(st, NoLines, moves, Len(moves))
                /\ ContainerTransfers(offers[o]) = st[Len(moves)]
  BY AcceptStages DEF KeyInv
<1> DEFINE new == st[Len(moves)]
<1>2. /\ mem'.own = new.ix /\ deeds' = new.deeds
      /\ mem.trade.status[o] = "pending" /\ mem'.trade.status[o] = "accepted"
  <2>1. /\ mem' = [mem EXCEPT !.trade = Settle(@, o, offers[o]), !.own = new.ix]
        /\ deeds' = new.deeds /\ mem.trade.status[o] = "pending"
    BY <1>1 DEF AcceptTrade, Acceptable
  <2>2. mem \in Ledgers(Len(deeds)) /\ o \in OfferIds /\ mem.trade \in Books(OfferIds)
    BY BasicTypes DEF KeyInv
  <2>3. Settle(mem.trade, o, offers[o]).status[o] = "accepted"
    BY <2>2 DEF Settle, Books
  <2> QED
    BY <2>1, <2>2, <2>3 DEF Ledgers
<1>3. IsStage(NoLines) /\ NoLines.deeds = deeds /\ NoLines.ix = mem.own
  BY FirstStage DEF KeyInv, EconomyTypes
<1>4. offers[o] \in Offer /\ offers[o].from # offers[o].to
  BY BasicTypes DEF KeyInv, EconomyTypes
<1>5. Len(moves) \in Nat
  <2>1. moves \in Seq(Move)
    BY <1>4, MovesOf
  <2> HIDE DEF moves
  <2> QED
    BY <2>1
<1>6. /\ Keyed(new.ix, new.deeds)
      /\ \A k \in Chests, x \in Agents :
            ChestOwner(mem.own, deeds, k) = {x} =>
               \/ ChestOwner(new.ix, new.deeds, k) = {x}
               \/ Passed(moves, Len(moves), k, x, ChestOwner(new.ix, new.deeds, k))
  <2>1. Keyed(NoLines.ix, NoLines.deeds) /\ Len(moves) \in 0..Len(moves)
    BY <1>3, <1>5 DEF KeyInv
  <2> QED
    BY <1>1, <1>3, <1>4, <2>1, OwnersOfTransfers
<1>7. ASSUME NEW k \in Chests, NEW x \in Agents, NEW y \in Agents, x # y,
             ChestOwner(mem.own, deeds, k) = {x}, ChestOwner(mem'.own, deeds', k) = {y}
      PROVE  HandsOver(o, k, x, y)
  <2>1. ChestOwner(new.ix, new.deeds, k) = {y}
    BY <1>2, <1>7
  <2>2. Passed(moves, Len(moves), k, x, {y})
    <3>1. {x} # {y}
      BY <1>7
    <3> HIDE DEF new, moves
    <3> QED
      BY <1>6, <1>7, <2>1, <3>1
  <2>3. PICK j \in 1..Len(moves) :
           moves[j].chest = k /\ moves[j].giver = x /\ {y} = {moves[j].taker}
    BY <2>2 DEF Passed
  <2>4. moves[j].taker = y
    BY <2>3
  <2>5. \/ /\ moves[j].giver = offers[o].from /\ moves[j].taker = offers[o].to
           /\ moves[j].chest \in ToSet(offers[o].giveChests)
        \/ /\ moves[j].giver = offers[o].to /\ moves[j].taker = offers[o].from
           /\ moves[j].chest \in ToSet(offers[o].wantChests)
    BY <1>4, MovesOf
  <2> HIDE DEF moves
  <2> QED
    BY <2>3, <2>4, <2>5 DEF HandsOver
<1> QED
  BY <1>2, <1>6, <1>7 DEF Accepts

LEMMA KeysKept == KeyInv /\ [Next]_vars => KeyInv'
<1> SUFFICES ASSUME KeyInv, [Next]_vars PROVE KeyInv'
  OBVIOUS
<1>0. EconomyTypes /\ EconomyTypes'
  BY TypesKept DEF KeyInv
<1>1. /\ deeds \in Seq(Deed) /\ mem \in Ledgers(Len(deeds))
      /\ disk.own \in Files(Own!Index(1..Len(deeds)))
      /\ IsStage(NoLines) /\ NoLines.deeds = deeds /\ NoLines.ix = mem.own
      /\ Keyed(mem.own, deeds) /\ Keyed(disk.own.img, deeds) /\ Keyed(disk.own.base, deeds)
  BY <1>0, FirstStage, BasicTypes DEF KeyInv, EconomyTypes, TypeOK
<1>2. CASE mem'.own = mem.own /\ deeds' = deeds /\ disk' = disk
  BY <1>0, <1>1, <1>2 DEF KeyInv
<1>3. CASE Keyed(mem'.own, deeds') /\ Extends(deeds, deeds') /\ disk' = disk
  <2>1. disk.own.img \in Own!Index(1..Len(deeds)) /\ disk.own.base \in Own!Index(1..Len(deeds))
    BY <1>1 DEF Files
  <2>2. Keyed(disk.own.img, deeds') /\ Keyed(disk.own.base, deeds')
    BY <1>1, <1>3, <2>1, KeyedLater
  <2> QED
    BY <1>0, <1>3, <2>2 DEF KeyInv
<1>4. CASE \E a \in Agents, m \in Materials, qty \in Stocks : Seed(a, m, qty)
  BY <1>1, <1>2, <1>4 DEF Seed, Ledgers
<1>5. CASE \E a \in Agents, k \in Chests : Claim(a, k)
  <2>1. PICK a \in Agents, k \in Chests : Claim(a, k)
    BY <1>5
  <2> DEFINE st == ClaimChest(NoLines, a, k)
  <2>2. mem'.own = st.ix /\ deeds' = st.deeds /\ disk' = disk
    BY <1>1, <2>1 DEF Claim, Ledgers
  <2>3. Keyed(st.ix, st.deeds) /\ Extends(deeds, st.deeds)
    BY <1>1, ClaimStage, ClaimOwner
  <2> QED
    BY <1>3, <2>2, <2>3
<1>6. CASE \E c \in 1..Len(deeds) : Release(c)
  <2>1. PICK c \in 1..Len(deeds) : Release(c)
    BY <1>6
  <2> DEFINE st == ReleaseChest(NoLines, c)
  <2>2. mem'.own = st.ix /\ deeds' = deeds /\ disk' = disk
    BY <1>1, <2>1 DEF Release, Ledgers
  <2>3. Keyed(st.ix, st.deeds) /\ st.deeds = deeds
    BY <1>1, ReleaseStage, ReleaseOwner
  <2>4. Extends(deeds, deeds')
    BY <1>1, <2>2, ExtendsAtAll
  <2> QED
    BY <1>3, <2>2, <2>3, <2>4
<1>7. CASE \E a, b \in Agents, terms \in OfferTerms : ProposeTrade(a, b, terms)
  BY <1>1, <1>2, <1>7 DEF ProposeTrade, Ledgers
<1>8. CASE \E a \in Agents, o \in 1..Len(offers) : AcceptTrade(a, o)
  <2>1. PICK a \in Agents, o \in 1..Len(offers) : AcceptTrade(a, o)
    BY <1>8
  <2>2. Keyed(mem'.own, deeds')
    BY <2>1, AcceptMoves
  <2>3. Extends(deeds, deeds') /\ disk' = disk
    BY <1>0, <2>1, AcceptStages DEF AcceptTrade
  <2> QED
    BY <1>3, <2>2, <2>3
<1>9. CASE \E a \in Agents, o \in 1..Len(offers) : RejectTrade(a, o)
  BY <1>1, <1>2, <1>9 DEF RejectTrade, Ledgers
<1>10. CASE \E a, b \in Agents, k \in Chests, loot \in Loots, d \in BOOLEAN :
              Steal(a, b, k, loot, d)
  <2>1. mem'.own = mem.own /\ deeds' = deeds /\ disk' = disk
    BY <1>1, <1>10 DEF Steal, Ledgers
  <2> QED
    BY <1>2, <2>1
<1>15. CASE \E a, b \in Agents, loot \in Loots : StealRaises(a, b, loot)
  BY <1>0, <1>2, <1>15, RaisedTheft
<1>11. CASE \E a \in Agents, k \in Chests : ReportTheft(a, k)
  BY <1>1, <1>2, <1>11 DEF ReportTheft, Ledgers
<1>12. CASE Write \/ WriteFails
  <2>1. /\ queue # <<>> /\ UNCHANGED <<deeds, mem>>
        /\ \E file : Appends(Head(queue), file)
    BY <1>12, WriteIsAppend
  <2>2. PICK file : Appends(Head(queue), file)
    BY <2>1
  <2> DEFINE line == Head(queue)
  <2>3. line \in Lines(Len(deeds), Len(offers), Len(thefts))
    BY <1>0, <2>1 DEF EconomyTypes
  <2> HIDE DEF line
  <2>4. disk' = [disk EXCEPT ![line.log] = file]
    BY <2>2 DEF Appends, line
  <2>5. line.log \in {"own", "trade", "theft"}
    BY <1>0, <2>3, ReplayTypes
  <2>6. DOMAIN disk = {"own", "trade", "theft"}
    BY <1>0 DEF EconomyTypes, TypeOK
  <2>7. CASE line.log # "own"
    <3>1. disk'.own = disk.own
      BY <2>4, <2>5, <2>7
    <3> QED
      BY <1>0, <1>1, <2>1, <3>1 DEF KeyInv
  <2>8. CASE line.log = "own"
    <3>1. Replayed(line) = ReplayOwn(disk.own.img, line)
      BY <2>8 DEF Replayed
    <3>2. /\ disk'.own = file
          /\ \/ file = Written(disk.own, Replayed(line))
             \/ file \in Damaged(disk.own, Replayed(line))
      BY <2>2, <2>4, <2>6, <2>8 DEF Appends, line
    <3>3. disk.own.img \in Own!Index(1..Len(deeds))
      BY <1>1 DEF Files
    <3>4. Replayed(line) \in Own!Index(1..Len(deeds))
      BY <1>0, <2>3, <2>8, <3>1, <3>3, ReplayTypes
    <3>5. /\ file.img \in {disk.own.base, disk.own.img, Replayed(line)}
          /\ file.base \in {disk.own.base, disk.own.img, Replayed(line)}
      BY <1>1, <3>2, <3>4, AppendImages
    <3>6. Keyed(Replayed(line), deeds)
      <4>1. line \in OwnLines(Len(deeds))
        BY <2>3, <2>8, LineLogs DEF Lines
      <4>2. /\ line.ev \in {"claim", "release", "conflict"}
            /\ line.id \in 1..Len(deeds)
        BY <4>1, LineLogs
      <4>3. /\ Keyed(Own!ReplayClaim(disk.own.img, line.id, deeds[line.id].target), deeds)
            /\ Keyed(Own!DeindexActive(disk.own.img, line.id, deeds[line.id].target), deeds)
        BY <1>1, <3>3, <4>2, KeyedIndex DEF Own!ReplayClaim
      <4>4. Keyed(Own!ReplayRelease(disk.own.img, line.id, deeds[line.id].target), deeds)
        BY <1>1, <4>3 DEF Own!ReplayRelease
      <4>5. Keyed(Own!ReplayConflict(disk.own.img), deeds)
        BY <1>1 DEF Own!ReplayConflict
      <4> QED
        BY <3>1, <4>2, <4>3, <4>4, <4>5 DEF ReplayOwn
    <3> QED
      BY <1>0, <1>1, <2>1, <3>2, <3>5, <3>6 DEF KeyInv
  <2> QED
    BY <2>7, <2>8
<1>13. CASE Crash
  BY <1>0, <1>1, <1>13 DEF Crash, contents, KeyInv
<1>14. CASE UNCHANGED vars
  BY <1>0, <1>1, <1>2, <1>14 DEF vars
<1> QED
  BY <1>4, <1>5, <1>6, <1>7, <1>8, <1>9, <1>10, <1>11, <1>12, <1>13, <1>14, <1>15 DEF Next

LEMMA KeysStart == Init => KeyInv
BY TypesStart DEF KeyInv, Init, Keyed, Own!EmptyIndex, Blank

(* A chest passes directly from one agent to another only when the offer   *)
(* being accepted is between these two and names it (trade.py:417-493),    *)
(* whatever was lost from the logs before.                                 *)
THEOREM ChestsNeedATrade == Spec => ChestsMoveOnlyByTrade
<1> DEFINE A == queue' # <<>> /\ Idle =>
        \A k \in Chests, x, y \in Agents :
            /\ x # y
            /\ ChestOwner(mem.own, deeds, k) = {x}
            /\ ChestOwner(mem'.own, deeds', k) = {y}
            => \E o \in 1..Len(offers) : Accepts(o) /\ HandsOver(o, k, x, y)
<1>1. KeyInv /\ [Next]_vars => [A]_vars
  <2> SUFFICES ASSUME KeyInv, [Next]_vars,
                      queue' # <<>>, Idle, NEW k \in Chests, NEW x \in Agents, NEW y \in Agents,
                      x # y, ChestOwner(mem.own, deeds, k) = {x},
                      ChestOwner(mem'.own, deeds', k) = {y}
               PROVE  \E o \in 1..Len(offers) : Accepts(o) /\ HandsOver(o, k, x, y)
    OBVIOUS
  <2>0. /\ IsStage(NoLines) /\ NoLines.deeds = deeds /\ NoLines.ix = mem.own
        /\ Keyed(mem.own, deeds) /\ mem \in Ledgers(Len(deeds)) /\ {x} # {y}
    <3>1. EconomyTypes /\ TypeOK
      BY DEF KeyInv, EconomyTypes
    <3>2. {x} # {y}
      OBVIOUS
    <3> QED
      BY <3>1, <3>2, FirstStage, BasicTypes DEF KeyInv
  <2>1. CASE mem'.own = mem.own /\ deeds' = deeds
    BY <2>0, <2>1
  <2>2. CASE \E a \in Agents, o \in 1..Len(offers) : AcceptTrade(a, o)
    <3>1. PICK a \in Agents, o \in 1..Len(offers) : AcceptTrade(a, o)
      BY <2>2
    <3>2. Accepts(o) /\ HandsOver(o, k, x, y)
      BY <3>1, AcceptMoves
    <3> QED
      BY <3>2
  <2>3. CASE \E a \in Agents, j \in Chests : Claim(a, j)
    <3>1. PICK a \in Agents, j \in Chests : Claim(a, j)
      BY <2>3
    <3> DEFINE st == ClaimChest(NoLines, a, j)
    <3>2. mem'.own = st.ix /\ deeds' = st.deeds
      BY <2>0, <3>1 DEF Claim, Ledgers
    <3>3. /\ k # j \/ mem.own.active[j] # Own!NoClaim =>
                ChestOwner(st.ix, st.deeds, k) = {x}
      BY <2>0, ClaimOwner
    <3>4. k = j /\ mem.own.active[j] = Own!NoClaim => {x} = {}
      BY OwnerOf
    <3> HIDE DEF st
    <3> QED
      BY <2>0, <3>2, <3>3, <3>4
  <2>4. CASE \E c \in 1..Len(deeds) : Release(c)
    <3>1. PICK c \in 1..Len(deeds) : Release(c)
      BY <2>4
    <3> DEFINE st == ReleaseChest(NoLines, c)
    <3>2. mem'.own = st.ix /\ deeds' = deeds /\ st.deeds = deeds
      BY <2>0, <3>1, ReleaseStage DEF Release, Ledgers
    <3>3. /\ st.ix.active[deeds[c].target] = Own!NoClaim
          /\ k # deeds[c].target => ChestOwner(st.ix, st.deeds, k) = {x}
      BY <2>0, ReleaseOwner
    <3>4. k = deeds[c].target => ChestOwner(st.ix, st.deeds, k) = {}
      BY <3>3, OwnerOf
    <3> HIDE DEF st
    <3> QED
      BY <2>0, <3>2, <3>3, <3>4
  <2>5. CASE \/ \E a \in Agents, m \in Materials, qty \in Stocks : Seed(a, m, qty)
             \/ \E a, b \in Agents, terms \in OfferTerms : ProposeTrade(a, b, terms)
             \/ \E a \in Agents, o \in 1..Len(offers) : RejectTrade(a, o)
    BY <2>0, <2>1, <2>5 DEF Seed, ProposeTrade, RejectTrade, Ledgers
  <2>6. CASE \/ \E a, b \in Agents, j \in Chests, loot \in Loots, d \in BOOLEAN :
                   Steal(a, b, j, loot, d)
             \/ \E a \in Agents, j \in Chests : ReportTheft(a, j)
             \/ \E a, b \in Agents, loot \in Loots : StealRaises(a, b, loot)
    <3>1. mem'.own = mem.own /\ deeds' = deeds
      <4>1. CASE \E a, b \in Agents, j \in Chests, loot \in Loots, d \in BOOLEAN :
                     Steal(a, b, j, loot, d)
        <5>1. PICK a \in Agents, b \in Agents, j \in Chests, loot \in Loots, d \in BOOLEAN :
                     Steal(a, b, j, loot, d)
          BY <4>1
        <5> QED
          BY <2>0, <5>1, SMTT(30) DEF Steal, Ledgers
      <4>2. CASE \E a \in Agents, j \in Chests : ReportTheft(a, j)
        BY <2>0, <4>2, SMTT(30) DEF ReportTheft, Ledgers
      <4>3. CASE \E a, b \in Agents, loot \in Loots : StealRaises(a, b, loot)
        BY <4>3, RaisedTheft DEF KeyInv
      <4> QED
        BY <2>6, <4>1, <4>2, <4>3
    <3> QED
      BY <2>1, <3>1
  <2>7. CASE Write \/ WriteFails
    BY <2>7, WriteIsAppend DEF Idle
  <2>8. CASE Crash \/ UNCHANGED vars
    BY <2>1, <2>8 DEF Crash, vars, Idle
  <2> QED
    BY <2>2, <2>3, <2>4, <2>5, <2>6, <2>7, <2>8 DEF Next
<1> QED
  BY <1>1, KeysStart, KeysKept, PTL DEF Spec, ChestsMoveOnlyByTrade

-----------------------------------------------------------------------------
(* What the books add up to.                                               *)

GainOf(offer, a, m) ==
    LET swing == offer.want[m] - offer.give[m] IN
    CASE a = offer.from -> swing
      [] a = offer.to   -> -swing
      [] OTHER          -> 0

Gains(ofs, a, m) == [o \in 1..Len(ofs) |-> GainOf(ofs[o], a, m)]

Done(bk, ofs) == {o \in 1..Len(ofs) : bk.status[o] = "accepted"}

(* A holding is what came from outside and what the accepted offers add.   *)
Balanced(bk, ofs) ==
    /\ \A a \in Agents, m \in Materials :
          bk.inv[a][m] = bk.external[a][m] + SumFunctionOnSet(Gains(ofs, a, m), Done(bk, ofs))
    /\ \A o \in OfferIds : o > Len(ofs) => bk.status[o] = "none"

(* A line "proposed" is alone in the queue, and news to the file.          *)
ProposedIsNews ==
    \A i \in 1..Len(queue) : queue[i].ev = "proposed" =>
        /\ Len(queue) = 1
        /\ disk.trade.img.status[queue[i].id] = "none"
        /\ disk.trade.base.status[queue[i].id] = "none"

BalanceInv ==
    /\ EconomyTypes
    /\ \A bk \in AllBooks : Balanced(bk, offers)
    /\ ProposedIsNews

LEMMA GainsType ==
    ASSUME NEW ofs \in Seq(Offer), Len(ofs) <= MaxOffers, NEW bk \in Books(OfferIds),
           NEW a \in Agents, NEW m \in Materials
    PROVE  /\ Done(bk, ofs) \subseteq 1..Len(ofs)
           /\ IsFiniteSet(Done(bk, ofs))
           /\ \A o \in 1..Len(ofs) : Gains(ofs, a, m)[o] = GainOf(ofs[o], a, m)
           /\ \A o \in 1..Len(ofs) : Gains(ofs, a, m)[o] \in Int
           /\ SumFunctionOnSet(Gains(ofs, a, m), Done(bk, ofs)) \in Int
<1>1. Done(bk, ofs) \subseteq 1..Len(ofs) /\ IsFiniteSet(Done(bk, ofs))
  <2>1. IsFiniteSet(1..Len(ofs))
    BY FS_Interval
  <2>2. Done(bk, ofs) \subseteq 1..Len(ofs)
    BY DEF Done
  <2> QED
    BY <2>1, <2>2, FS_Subset
<1>2. ASSUME NEW o \in 1..Len(ofs)
      PROVE  Gains(ofs, a, m)[o] = GainOf(ofs[o], a, m) /\ Gains(ofs, a, m)[o] \in Int
  <2>1. ofs[o] \in Offer
    OBVIOUS
  <2>2. GainOf(ofs[o], a, m) \in Int
    <3>1. ofs[o].want[m] \in Int /\ ofs[o].give[m] \in Int
      BY <2>1 DEF Offer, Bundles
    <3> QED
      BY <3>1 DEF GainOf
  <2> QED
    BY <2>2 DEF Gains
<1>3. SumFunctionOnSet(Gains(ofs, a, m), Done(bk, ofs)) \in Int
  BY <1>1, <1>2, SumType
<1> QED
  BY <1>1, <1>2, <1>3

(* What the run checks of a book.                                          *)
LEMMA BalanceIsChecked ==
    ASSUME EconomyTypes, NEW bk \in Books(OfferIds), Balanced(bk, offers),
           NEW a \in Agents, NEW m \in Materials
    PROVE  bk.inv[a][m] = bk.external[a][m]
              + SumFunction([o \in {p \in 1..Len(offers) : bk.status[p] = "accepted"}
                                |-> Gain(o, a, m)])
<1> DEFINE accepted == {p \in 1..Len(offers) : bk.status[p] = "accepted"}
           f == [o \in accepted |-> Gain(o, a, m)]
<1>1. offers \in Seq(Offer) /\ Len(offers) <= MaxOffers
  BY BasicTypes DEF EconomyTypes
<1>2. accepted = Done(bk, offers)
  BY DEF Done
<1>3. \A o \in Done(bk, offers) : Gains(offers, a, m)[o] = f[o]
  <2>1. \A o \in Done(bk, offers) : Gains(offers, a, m)[o] = GainOf(offers[o], a, m)
    BY <1>1, GainsType
  <2>2. \A o \in Done(bk, offers) : f[o] = Gain(o, a, m)
    BY <1>2
  <2>3. \A o \in Done(bk, offers) : Gain(o, a, m) = GainOf(offers[o], a, m)
    BY DEF Gain, GainOf
  <2> QED
    BY <2>1, <2>2, <2>3
<1>4. SumFunction(f) = SumFunctionOnSet(f, Done(bk, offers))
  BY <1>2 DEF SumFunction
<1>5. SumFunctionOnSet(Gains(offers, a, m), Done(bk, offers)) = SumFunctionOnSet(f, Done(bk, offers))
  <2> HIDE DEF f, accepted
  <2> QED
    BY <1>1, <1>3, GainsType, SumEqual
<1>6. bk.inv[a][m] = bk.external[a][m]
         + SumFunctionOnSet(Gains(offers, a, m), Done(bk, offers))
  BY DEF Balanced
<1> QED
  BY <1>4, <1>5, <1>6

(* Goods that come from outside, and offers that are not accepted.         *)
LEMMA SameBalance ==
    ASSUME NEW ofs \in Seq(Offer), Len(ofs) <= MaxOffers,
           NEW bk \in Books(OfferIds), Balanced(bk, ofs), NEW new \in Books(OfferIds),
           \A a \in Agents, m \in Materials :
              new.inv[a][m] - bk.inv[a][m] = new.external[a][m] - bk.external[a][m],
           Done(new, ofs) = Done(bk, ofs),
           \A o \in OfferIds : o > Len(ofs) => new.status[o] = bk.status[o]
    PROVE  Balanced(new, ofs)
<1>1. ASSUME NEW a \in Agents, NEW m \in Materials
      PROVE  new.inv[a][m] = new.external[a][m]
                + SumFunctionOnSet(Gains(ofs, a, m), Done(new, ofs))
  <2> DEFINE sum == SumFunctionOnSet(Gains(ofs, a, m), Done(bk, ofs))
  <2>1. sum \in Int
    BY GainsType
  <2>2. bk.inv[a][m] = bk.external[a][m] + sum
    BY DEF Balanced
  <2>3. /\ bk.inv[a][m] \in Int /\ bk.external[a][m] \in Int
        /\ new.inv[a][m] \in Int /\ new.external[a][m] \in Int
    BY DEF Books
  <2>4. new.inv[a][m] - bk.inv[a][m] = new.external[a][m] - bk.external[a][m]
    OBVIOUS
  <2>5. SumFunctionOnSet(Gains(ofs, a, m), Done(new, ofs)) = sum
    OBVIOUS
  <2> HIDE DEF sum
  <2> QED
    BY <2>1, <2>2, <2>3, <2>4, <2>5, SMTT(30)
<1>2. \A o \in OfferIds : o > Len(ofs) => new.status[o] = "none"
  BY DEF Balanced
<1> QED
  BY <1>1, <1>2 DEF Balanced

LEMMA SetInventoryBalance ==
    ASSUME NEW ofs \in Seq(Offer), Len(ofs) <= MaxOffers,
           NEW bk \in Books(OfferIds), Balanced(bk, ofs),
           NEW a \in Agents, NEW m \in Materials, NEW qty \in Int, NEW b \in BOOLEAN
    PROVE  Balanced(SetInventory(bk, a, m, qty, b), ofs)
<1> DEFINE new == SetInventory(bk, a, m, qty, b)
           added == qty - bk.inv[a][m]
<1>1. new \in Books(OfferIds)
  BY SetInventoryType
<1>2. /\ new.inv = [bk.inv EXCEPT ![a][m] = qty]
      /\ new.external = [bk.external EXCEPT ![a][m] = @ + added]
      /\ new.status = bk.status
  BY DEF SetInventory, Books
<1> HIDE DEF new
<1>3. ASSUME NEW x \in Agents, NEW y \in Materials
      PROVE  new.inv[x][y] - bk.inv[x][y] = new.external[x][y] - bk.external[x][y]
  <2>1. /\ bk.inv \in [Agents -> [Materials -> Int]]
        /\ bk.external \in [Agents -> [Materials -> Int]]
    BY DEF Books
  <2>2. CASE x = a /\ y = m
    <3>1. new.inv[x][y] = qty /\ new.external[x][y] = bk.external[x][y] + added
      BY <1>2, <2>1, <2>2
    <3>2. bk.inv[x][y] \in Int /\ bk.external[x][y] \in Int
      BY <2>1
    <3> QED
      BY <2>2, <3>1, <3>2
  <2>3. CASE x # a \/ y # m
    <3>1. new.inv[x][y] = bk.inv[x][y] /\ new.external[x][y] = bk.external[x][y]
      BY <1>2, <2>1, <2>3
    <3>2. bk.inv[x][y] \in Int /\ bk.external[x][y] \in Int
      BY <2>1
    <3> QED
      BY <3>1, <3>2
  <2> QED
    BY <2>2, <2>3
<1>4. Done(new, ofs) = Done(bk, ofs) /\ \A o \in OfferIds : new.status[o] = bk.status[o]
  BY <1>2 DEF Done
<1>5. Balanced(new, ofs)
  BY <1>1, <1>3, <1>4, SameBalance
<1> QED
  BY <1>5 DEF new

LEMMA StatusBalance ==
    ASSUME NEW ofs \in Seq(Offer), Len(ofs) <= MaxOffers,
           NEW bk \in Books(OfferIds), Balanced(bk, ofs),
           NEW o \in 1..Len(ofs), bk.status[o] # "accepted"
    PROVE  /\ Balanced(Propose(bk, o), ofs)
           /\ Balanced(Decline(bk, o), ofs)
<1>1. o \in OfferIds
  BY EconomyAssumption DEF OfferIds
<1>2. Propose(bk, o) \in Books(OfferIds) /\ Decline(bk, o) \in Books(OfferIds)
  BY <1>1, BookTypes
<1>3. ASSUME NEW new \in Books(OfferIds), NEW s \in Statuses \ {"accepted"},
             new = [bk EXCEPT !.status[o] = s]
      PROVE  Balanced(new, ofs)
  <2>1. new.inv = bk.inv /\ new.external = bk.external /\ new.status = [bk.status EXCEPT ![o] = s]
    BY <1>3 DEF Books
  <2>2. bk.status \in [OfferIds -> Statuses]
    BY DEF Books
  <2>3. \A p \in OfferIds : new.status[p] = IF p = o THEN s ELSE bk.status[p]
    BY <2>1, <2>2
  <2>4. 1..Len(ofs) \subseteq OfferIds
    BY EconomyAssumption DEF OfferIds
  <2>5. Done(new, ofs) = Done(bk, ofs)
    BY <1>3, <2>3, <2>4 DEF Done
  <2>6. \A p \in OfferIds : p > Len(ofs) => new.status[p] = bk.status[p]
    BY <2>3
  <2>7. \A a \in Agents, m \in Materials :
           new.inv[a][m] - bk.inv[a][m] = new.external[a][m] - bk.external[a][m]
    <3>1. \A a \in Agents, m \in Materials : bk.inv[a][m] \in Int /\ bk.external[a][m] \in Int
      BY DEF Books
    <3> QED
      BY <2>1, <3>1
  <2> QED
    BY <2>5, <2>6, <2>7, SameBalance
<1> QED
  BY <1>2, <1>3, SMTT(30) DEF Propose, Decline, Statuses

(* An accepted offer adds its gain to the holdings and to the sum.         *)
LEMMA SettleBalance ==
    ASSUME NEW ofs \in Seq(Offer), Len(ofs) <= MaxOffers,
           NEW bk \in Books(OfferIds), Balanced(bk, ofs),
           NEW o \in 1..Len(ofs), bk.status[o] # "accepted", ofs[o].from # ofs[o].to
    PROVE  Balanced(Settle(bk, o, ofs[o]), ofs)
<1> DEFINE offer == ofs[o]
           new == Settle(bk, o, offer)
<1>1. o \in OfferIds /\ 1..Len(ofs) \subseteq OfferIds
  BY EconomyAssumption DEF OfferIds
<1>2. offer \in Offer
  OBVIOUS
<1>3. new \in Books(OfferIds)
  BY <1>1, <1>2, BookTypes
<1>4. /\ new.inv = Swap(bk.inv, offer) /\ new.external = bk.external
      /\ new.status = [bk.status EXCEPT ![o] = "accepted"]
  BY DEF Settle, Books
<1>5. bk.status \in [OfferIds -> Statuses] /\ bk.inv \in [Agents -> [Materials -> Int]]
  BY DEF Books
<1> HIDE DEF new
<1>6. \A p \in OfferIds : new.status[p] = IF p = o THEN "accepted" ELSE bk.status[p]
  BY <1>4, <1>5
<1>7. Done(new, ofs) = Done(bk, ofs) \cup {o} /\ o \notin Done(bk, ofs)
  BY <1>1, <1>6 DEF Done
<1>8. ASSUME NEW a \in Agents, NEW m \in Materials
      PROVE  new.inv[a][m] = new.external[a][m]
                + SumFunctionOnSet(Gains(ofs, a, m), Done(new, ofs))
  <2> DEFINE g == Gains(ofs, a, m)
             before == SumFunctionOnSet(g, Done(bk, ofs))
             after == SumFunctionOnSet(g, Done(new, ofs))
  <2>1. before \in Int /\ bk.inv[a][m] = bk.external[a][m] + before
    BY GainsType DEF Balanced
  <2>2. g[o] = GainOf(offer, a, m) /\ g[o] \in Int
    BY <1>3, GainsType
  <2>3. after = g[o] + before
    <3>1. /\ IsFiniteSet(Done(new, ofs)) /\ o \in Done(new, ofs)
          /\ \A y \in Done(new, ofs) : g[y] \in Int
      <4>1. IsFiniteSet(Done(new, ofs)) /\ \A y \in Done(new, ofs) : g[y] \in Int
        BY <1>3, GainsType
      <4> QED
        BY <1>7, <4>1
    <3>2. Done(new, ofs) \ {o} = Done(bk, ofs)
      BY <1>7
    <3> HIDE DEF g
    <3>3. SumFunctionOnSet(g, Done(new, ofs)) = g[o] + SumFunctionOnSet(g, Done(new, ofs) \ {o})
      BY ONLY <3>1, SumStep, ZenonT(30)
    <3> QED
      BY <3>2, <3>3
  <2>4. new.inv[a][m] = bk.inv[a][m] + GainOf(offer, a, m)
    <3>1. /\ offer.want[m] \in Int /\ offer.give[m] \in Int /\ bk.inv[a][m] \in Int
          /\ offer.from # offer.to
      BY <1>2, <1>5, SMTT(30) DEF Offer, Bundles
    <3> DEFINE given == ApplyDelta(bk.inv, offer.from, offer.to, offer.give)
    <3>2. given[a][m] = CASE a = offer.from -> bk.inv[a][m] - offer.give[m]
                          [] a = offer.to   -> bk.inv[a][m] + offer.give[m]
                          [] OTHER          -> bk.inv[a][m]
      BY DEF ApplyDelta
    <3>3. new.inv[a][m] = CASE a = offer.to   -> given[a][m] - offer.want[m]
                            [] a = offer.from -> given[a][m] + offer.want[m]
                            [] OTHER          -> given[a][m]
      <4>1. new.inv = ApplyDelta(given, offer.to, offer.from, offer.want)
        BY <1>4 DEF Swap
      <4> HIDE DEF given, offer
      <4> QED
        BY <4>1 DEF ApplyDelta
    <3> HIDE DEF given, offer
    <3> QED
      BY <3>1, <3>2, <3>3 DEF GainOf
  <2>5. new.external[a][m] = bk.external[a][m] /\ bk.external[a][m] \in Int
    BY <1>4 DEF Books
  <2> HIDE DEF g, before, after, offer
  <2>6. new.inv[a][m] = new.external[a][m] + after
    BY <2>1, <2>2, <2>3, <2>4, <2>5
  <2> QED
    BY <2>6 DEF after, g
<1>9. \A p \in OfferIds : p > Len(ofs) => new.status[p] = "none"
  BY <1>6 DEF Balanced
<1>10. Balanced(new, ofs)
  BY <1>8, <1>9 DEF Balanced
<1> QED
  BY <1>10 DEF new

(* A theft moves the same amounts in a holding and in what came from       *)
(* outside.                                                                *)
LEMMA PartLootBalance ==
    ASSUME NEW ofs \in Seq(Offer), Len(ofs) <= MaxOffers,
           NEW bk \in Books(OfferIds), Balanced(bk, ofs),
           NEW thief \in Agents, NEW victim \in Agents, NEW taken \in Bundles,
           NEW gone, NEW got
    PROVE  Balanced(PartLoot(bk, thief, victim, taken, gone, got), ofs)
<1> DEFINE new == PartLoot(bk, thief, victim, taken, gone, got)
<1>1. new \in Books(OfferIds)
  BY PartLootType
<1>2. /\ new.inv = Carried(bk.inv, thief, victim, taken, gone, got)
      /\ new.external = Carried(bk.external, thief, victim, taken, gone, got)
      /\ new.status = bk.status
  BY DEF PartLoot, Books
<1> HIDE DEF new
<1>3. ASSUME NEW a \in Agents, NEW m \in Materials
      PROVE  new.inv[a][m] - bk.inv[a][m] = new.external[a][m] - bk.external[a][m]
  <2>1. bk.inv[a][m] \in Int /\ bk.external[a][m] \in Int /\ taken[m] \in Int
    BY DEF Books, Bundles
  <2>2. new.inv[a][m] = CASE a = victim /\ m \in gone -> bk.inv[a][m] - taken[m]
                          [] a = thief /\ m \in got   -> bk.inv[a][m] + taken[m]
                          [] OTHER                    -> bk.inv[a][m]
    BY <1>2 DEF Carried
  <2>3. new.external[a][m] =
           CASE a = victim /\ m \in gone -> bk.external[a][m] - taken[m]
             [] a = thief /\ m \in got   -> bk.external[a][m] + taken[m]
             [] OTHER                    -> bk.external[a][m]
    BY <1>2 DEF Carried
  <2> QED
    BY <2>1, <2>2, <2>3
<1>4. Done(new, ofs) = Done(bk, ofs) /\ \A o \in OfferIds : new.status[o] = bk.status[o]
  BY <1>2 DEF Done
<1>5. Balanced(new, ofs)
  BY <1>1, <1>3, <1>4, SameBalance
<1> QED
  BY <1>5 DEF new

LEMMA MoveLootBalance ==
    ASSUME NEW ofs \in Seq(Offer), Len(ofs) <= MaxOffers,
           NEW bk \in Books(OfferIds), Balanced(bk, ofs),
           NEW thief \in Agents, NEW victim \in Agents, NEW taken \in Bundles
    PROVE  Balanced(MoveLoot(bk, thief, victim, taken), ofs)
BY PartLootBalance DEF MoveLoot

(* A book that balances does so after one more offer was made.             *)
LEMMA LongerBalance ==
    ASSUME NEW ofs \in Seq(Offer), NEW offer \in Offer, Len(ofs) < MaxOffers,
           NEW bk \in Books(OfferIds), Balanced(bk, ofs)
    PROVE  Balanced(bk, Append(ofs, offer)) /\ bk.status[Len(ofs) + 1] = "none"
<1> DEFINE longer == Append(ofs, offer)
<1>1. /\ longer \in Seq(Offer) /\ Len(longer) = Len(ofs) + 1 /\ Len(longer) <= MaxOffers
      /\ \A o \in 1..Len(ofs) : longer[o] = ofs[o]
  BY EconomyAssumption
<1>2. Len(ofs) + 1 \in OfferIds /\ Len(ofs) + 1 > Len(ofs)
  BY EconomyAssumption DEF OfferIds
<1>3. bk.status[Len(ofs) + 1] = "none"
  BY <1>2 DEF Balanced
<1> HIDE DEF longer
<1>4. Done(bk, longer) = Done(bk, ofs)
  <2>1. \A o \in 1..Len(longer) : o \in 1..Len(ofs) \/ o = Len(ofs) + 1
    BY <1>1
  <2>2. 1..Len(ofs) \subseteq 1..Len(longer)
    BY <1>1
  <2> QED
    BY <1>3, <2>1, <2>2 DEF Done
<1>5. ASSUME NEW a \in Agents, NEW m \in Materials
      PROVE  bk.inv[a][m] = bk.external[a][m]
                + SumFunctionOnSet(Gains(longer, a, m), Done(bk, longer))
  <2>1. IsFiniteSet(Done(bk, ofs)) /\ Done(bk, ofs) \subseteq 1..Len(ofs)
    BY EconomyAssumption, GainsType
  <2>2. \A o \in Done(bk, ofs) : Gains(longer, a, m)[o] = Gains(ofs, a, m)[o]
    <3>1. \A o \in 1..Len(ofs) : o \in 1..Len(longer) /\ longer[o] = ofs[o]
      BY <1>1
    <3> QED
      BY <2>1, <3>1 DEF Gains
  <2>3. SumFunctionOnSet(Gains(longer, a, m), Done(bk, ofs))
          = SumFunctionOnSet(Gains(ofs, a, m), Done(bk, ofs))
    BY <2>1, <2>2, SumEqual
  <2> QED
    BY <1>4, <2>3 DEF Balanced
<1>6. \A o \in OfferIds : o > Len(longer) => bk.status[o] = "none"
  <2>1. \A o \in OfferIds : o > Len(longer) => o > Len(ofs)
    BY <1>1, EconomyAssumption DEF OfferIds
  <2> QED
    BY <2>1 DEF Balanced
<1>7. Balanced(bk, longer)
  BY <1>5, <1>6 DEF Balanced
<1> QED
  BY <1>3, <1>7 DEF longer

(* A replay keeps the balance, if an offer it announces was not accepted.  *)
LEMMA ReplayBalance ==
    ASSUME EconomyTypes, NEW line \in Lines(Len(deeds), Len(offers), Len(thefts)),
           line.log = "trade", NEW bk \in Books(OfferIds), Balanced(bk, offers),
           line.ev = "proposed" => bk.status[line.id] = "none"
    PROVE  Balanced(ReplayTrade(bk, line), offers)
<1>1. offers \in Seq(Offer) /\ Len(offers) <= MaxOffers
  BY BasicTypes DEF EconomyTypes
<1>2. line \in OfferLines(Len(offers)) \/ line \in SetLines
  <2>1. line \notin OwnLines(Len(deeds)) /\ line \notin TheftLines(Len(thefts))
    BY LineLogs
  <2> QED
    BY <2>1 DEF Lines
<1>3. CASE line \in SetLines
  <2>1. /\ line.ev = "inventory_set" /\ line.agent \in Agents /\ line.material \in Materials
        /\ line.qty \in Int /\ line.bootstrap \in BOOLEAN
    BY <1>3, LineLogs
  <2>2. ReplayTrade(bk, line) =
           SetInventory(bk, line.agent, line.material, line.qty, line.bootstrap)
    BY <2>1 DEF ReplayTrade
  <2> QED
    BY <1>1, <2>1, <2>2, SetInventoryBalance
<1>4. CASE line \in OfferLines(Len(offers))
  <2> DEFINE o == line.id
  <2>1. o \in 1..Len(offers) /\ line.ev \in {"proposed", "accepted", "rejected"}
    BY <1>4, LineLogs
  <2>2. offers[o].from # offers[o].to
    BY <2>1 DEF EconomyTypes
  <2>3. CASE line.ev = "proposed"
    <3>1. bk.status[o] # "accepted" /\ ReplayTrade(bk, line) = Propose(bk, o)
      BY <2>3 DEF ReplayTrade
    <3> QED
      BY <1>1, <2>1, <3>1, StatusBalance
  <2>4. CASE line.ev = "accepted"
    <3>1. ReplayTrade(bk, line) = ReplayAccepted(bk, o, offers[o])
      BY <2>4 DEF ReplayTrade
    <3>2. CASE bk.status[o] = "pending"
      <4>1. bk.status[o] # "accepted" /\ ReplayTrade(bk, line) = Settle(bk, o, offers[o])
        BY <3>1, <3>2 DEF ReplayAccepted
      <4> QED
        BY <1>1, <2>1, <2>2, <4>1, SettleBalance
    <3>3. CASE bk.status[o] # "pending"
      BY <3>1, <3>3 DEF ReplayAccepted
    <3> QED
      BY <3>2, <3>3
  <2>5. CASE line.ev = "rejected"
    <3>1. ReplayTrade(bk, line) = ReplayRejected(bk, o)
      BY <2>5 DEF ReplayTrade
    <3>2. CASE bk.status[o] = "pending"
      <4>1. bk.status[o] # "accepted" /\ ReplayTrade(bk, line) = Decline(bk, o)
        BY <3>1, <3>2 DEF ReplayRejected
      <4> QED
        BY <1>1, <2>1, <4>1, StatusBalance
    <3>3. CASE bk.status[o] # "pending"
      BY <3>1, <3>3 DEF ReplayRejected
    <3> QED
      BY <3>2, <3>3
  <2> QED
    BY <2>1, <2>3, <2>4, <2>5
<1> QED
  BY <1>2, <1>3, <1>4

Unannounced(lines) == \A i \in 1..Len(lines) : lines[i].ev # "proposed"

LEMMA UnannouncedLines ==
    /\ \A line : line.ev # "proposed" => Unannounced(<<line>>)
    /\ \A S : \A lines \in Seq(S) : \A line : line.ev # "proposed" /\ Unannounced(lines) =>
          Unannounced(Append(lines, line))
    /\ \A n : \A lines \in Seq(OwnLines(n)) : Unannounced(lines)
<1>1. ASSUME NEW S, NEW lines \in Seq(S), NEW line, line.ev # "proposed", Unannounced(lines)
      PROVE  Unannounced(Append(lines, line))
  <2>1. \A i \in 1..Len(Append(lines, line)) :
           i \in 1..Len(lines) \/ i = Len(lines) + 1
    OBVIOUS
  <2> QED
    BY <1>1, <2>1 DEF Unannounced
<1>2. ASSUME NEW n, NEW lines \in Seq(OwnLines(n)) PROVE Unannounced(lines)
  <2>1. \A i \in 1..Len(lines) : lines[i] \in OwnLines(n)
    OBVIOUS
  <2>2. \A line \in OwnLines(n) : line.ev # "proposed"
    BY LineLogs
  <2> QED
    BY <2>1, <2>2 DEF Unannounced
<1>3. \A line : line.ev # "proposed" => Unannounced(<<line>>)
  BY DEF Unannounced
<1> QED
  BY <1>1, <1>2, <1>3

LEMMA BalanceStart == Init => BalanceInv
<1> SUFFICES ASSUME Init PROVE BalanceInv
  OBVIOUS
<1>1. EconomyTypes
  BY TypesStart
<1>2. offers = <<>> /\ queue = <<>> /\ AllBooks = {EmptyBook(OfferIds)}
  BY DEF Init, AllBooks, Blank
<1> DEFINE bk == EmptyBook(OfferIds)
<1>3. Done(bk, <<>>) = {}
  BY DEF Done
<1>4. \A a \in Agents, m \in Materials : bk.inv[a][m] = 0 /\ bk.external[a][m] = 0
  BY DEF EmptyBook, NoGoods
<1>5. \A a \in Agents, m \in Materials :
         bk.inv[a][m] = bk.external[a][m] + SumFunctionOnSet(Gains(<<>>, a, m), Done(bk, <<>>))
  <2> HIDE DEF bk
  <2> SUFFICES ASSUME NEW a \in Agents, NEW m \in Materials
               PROVE  bk.inv[a][m] = bk.external[a][m]
                         + SumFunctionOnSet(Gains(<<>>, a, m), Done(bk, <<>>))
    OBVIOUS
  <2>1. SumFunctionOnSet(Gains(<<>>, a, m), {}) = 0
    BY SumOfNothing
  <2>2. SumFunctionOnSet(Gains(<<>>, a, m), Done(bk, <<>>)) = 0
    BY <1>3, <2>1, Zenon
  <2>3. bk.inv[a][m] = 0 /\ bk.external[a][m] = 0
    BY <1>4
  <2> QED
    BY <2>2, <2>3
<1>6. \A o \in OfferIds : bk.status[o] = "none"
  BY DEF EmptyBook
<1>7. Balanced(bk, <<>>)
  BY <1>5, <1>6 DEF Balanced
<1> QED
  BY <1>1, <1>2, <1>7 DEF BalanceInv, ProposedIsNews

LEMMA BalanceKept == BalanceInv /\ [Next]_vars => BalanceInv'
<1> SUFFICES ASSUME BalanceInv, [Next]_vars PROVE BalanceInv'
  OBVIOUS
<1>0. EconomyTypes /\ EconomyTypes' /\ Len(offers) <= MaxOffers
  BY TypesKept DEF BalanceInv, EconomyTypes
<1>1. /\ offers \in Seq(Offer) /\ mem \in Ledgers(Len(deeds)) /\ mem.trade \in Books(OfferIds)
      /\ disk.trade \in Files(Books(OfferIds))
      /\ disk.trade.img \in Books(OfferIds) /\ disk.trade.base \in Books(OfferIds)
      /\ Balanced(mem.trade, offers)
      /\ Balanced(disk.trade.img, offers) /\ Balanced(disk.trade.base, offers)
  BY <1>0, BasicTypes DEF BalanceInv, AllBooks, EconomyTypes, TypeOK, Files
<1>2. ASSUME offers' = offers, disk' = disk, Unannounced(queue'), Balanced(mem'.trade, offers)
      PROVE  BalanceInv'
  <2>1. ProposedIsNews'
    BY <1>2 DEF Unannounced, ProposedIsNews
  <2>2. \A bk \in AllBooks' : Balanced(bk, offers')
    BY <1>1, <1>2 DEF AllBooks
  <2> QED
    BY <1>0, <2>1, <2>2 DEF BalanceInv
<1>3. CASE \E a \in Agents, m \in Materials, qty \in Stocks : Seed(a, m, qty)
  <2>1. PICK a \in Agents, m \in Materials, qty \in Stocks : Seed(a, m, qty)
    BY <1>3
  <2>2. /\ offers' = offers /\ disk' = disk /\ queue' = <<SetLine(a, m, qty, TRUE)>>
        /\ mem'.trade = SetInventory(mem.trade, a, m, qty, TRUE)
    BY <1>1, <2>1 DEF Seed, Ledgers
  <2>3. Unannounced(queue')
    BY <2>2, UnannouncedLines DEF SetLine
  <2>4. qty \in Int /\ TRUE \in BOOLEAN
    BY EconomyAssumption
  <2>5. \A b \in BOOLEAN : Balanced(SetInventory(mem.trade, a, m, qty, b), offers)
    BY <1>0, <1>1, <2>4, SetInventoryBalance
  <2> QED
    BY <1>2, <2>2, <2>3, <2>4, <2>5
<1>4. CASE \/ \E a \in Agents, k \in Chests : Claim(a, k)
           \/ \E c \in 1..Len(deeds) : Release(c)
  <2>1. IsStage(NoLines) /\ NoLines.deeds = deeds
    BY <1>0, FirstStage DEF EconomyTypes
  <2>2. PICK st : IsStage(st) /\ queue' = st.lines /\ mem' = [mem EXCEPT !.own = st.ix]
                  /\ offers' = offers /\ disk' = disk
    <3>1. ASSUME NEW a \in Agents, NEW k \in Chests, Claim(a, k)
          PROVE  \E st : IsStage(st) /\ queue' = st.lines /\ mem' = [mem EXCEPT !.own = st.ix]
                         /\ offers' = offers /\ disk' = disk
      BY <2>1, <3>1, ClaimStage DEF Claim
    <3>2. ASSUME NEW c \in 1..Len(deeds), Release(c)
          PROVE  \E st : IsStage(st) /\ queue' = st.lines /\ mem' = [mem EXCEPT !.own = st.ix]
                         /\ offers' = offers /\ disk' = disk
      BY <2>1, <3>2, ReleaseStage DEF Release
    <3> QED
      BY <1>4, <3>1, <3>2
  <2>3. Unannounced(queue')
    <3>1. st.lines \in Seq(OwnLines(Len(st.deeds)))
      BY <2>2 DEF IsStage, Stages
    <3> QED
      BY <2>2, <3>1, UnannouncedLines
  <2>4. mem'.trade = mem.trade
    BY <1>1, <2>2 DEF Ledgers
  <2> QED
    BY <1>1, <1>2, <2>2, <2>3, <2>4
<1>5. CASE \E a, b \in Agents, terms \in OfferTerms : ProposeTrade(a, b, terms)
  <2>1. PICK a \in Agents, b \in Agents, terms \in OfferTerms : ProposeTrade(a, b, terms)
    BY <1>5
  <2> DEFINE o == Len(offers) + 1
             offer == [from |-> a, to |-> b, give |-> terms.give, want |-> terms.want,
                       giveChests |-> terms.giveChests, wantChests |-> terms.wantChests]
  <2>2. /\ o <= MaxOffers /\ offers' = Append(offers, offer) /\ disk' = disk
        /\ queue' = <<TradeLine("proposed", o)>> /\ mem'.trade = Propose(mem.trade, o)
    BY <1>1, <2>1 DEF ProposeTrade, Ledgers
  <2>3. offer \in Offer /\ Len(offers) < MaxOffers
    BY <1>1, <2>2, EconomyAssumption DEF Offer
  <2> HIDE DEF offer
  <2>4. \A bk \in AllBooks : Balanced(bk, offers') /\ bk.status[o] = "none"
    <3>1. \A bk \in AllBooks : bk \in Books(OfferIds) /\ Balanced(bk, offers)
      BY <1>1 DEF AllBooks
    <3> QED
      BY <1>1, <2>2, <2>3, <3>1, LongerBalance
  <2>5. Balanced(mem'.trade, offers')
    <3>1. /\ offers' \in Seq(Offer) /\ Len(offers') = o /\ o \in 1..Len(offers')
          /\ Len(offers') <= MaxOffers
      BY <1>1, <2>2, <2>3
    <3>2. Balanced(mem.trade, offers') /\ mem.trade.status[o] # "accepted"
      BY <2>4 DEF AllBooks
    <3> QED
      BY <1>1, <2>2, <3>1, <3>2, StatusBalance
  <2>6. ProposedIsNews'
    <3>1. /\ queue' = <<TradeLine("proposed", o)>> /\ disk' = disk
          /\ disk.trade.img.status[o] = "none" /\ disk.trade.base.status[o] = "none"
      BY <2>2, <2>4 DEF AllBooks
    <3>2. Len(queue') = 1 /\ queue'[1].id = o
      BY <3>1 DEF TradeLine
    <3> QED
      BY <3>1, <3>2 DEF ProposedIsNews
  <2>7. \A bk \in AllBooks' : Balanced(bk, offers')
    BY <2>2, <2>4, <2>5 DEF AllBooks
  <2> QED
    BY <1>0, <2>6, <2>7 DEF BalanceInv
<1>6. CASE \E a \in Agents, o \in 1..Len(offers) : AcceptTrade(a, o)
  <2>1. PICK a \in Agents, o \in 1..Len(offers) : AcceptTrade(a, o)
    BY <1>6
  <2> DEFINE st == ContainerTransfers(offers[o])
  <2>2. IsStage(st)
    BY <1>0, AcceptStages
  <2>3. /\ offers' = offers /\ disk' = disk
        /\ queue' = Append(st.lines, TradeLine("accepted", o))
        /\ mem'.trade = Settle(mem.trade, o, offers[o])
        /\ mem.trade.status[o] # "accepted"
    BY <1>1, <2>1 DEF AcceptTrade, Acceptable, Ledgers
  <2> HIDE DEF st
  <2>4. Unannounced(queue')
    <3>1. st.lines \in Seq(OwnLines(Len(st.deeds)))
      BY <2>2 DEF IsStage, Stages
    <3>2. TradeLine("accepted", o).ev # "proposed"
      BY DEF TradeLine
    <3> QED
      BY <2>3, <3>1, <3>2, UnannouncedLines
  <2>5. offers[o].from # offers[o].to
    BY <1>0 DEF EconomyTypes
  <2> QED
    BY <1>0, <1>1, <1>2, <2>3, <2>4, <2>5, SettleBalance
<1>7. CASE \E a \in Agents, o \in 1..Len(offers) : RejectTrade(a, o)
  <2>1. PICK a \in Agents, o \in 1..Len(offers) : RejectTrade(a, o)
    BY <1>7
  <2>2. /\ offers' = offers /\ disk' = disk /\ queue' = <<TradeLine("rejected", o)>>
        /\ mem'.trade = Decline(mem.trade, o) /\ mem.trade.status[o] # "accepted"
    BY <1>1, <2>1 DEF RejectTrade, Ledgers
  <2>3. Unannounced(queue')
    BY <2>2, UnannouncedLines DEF TradeLine
  <2> QED
    BY <1>0, <1>1, <1>2, <2>2, <2>3, StatusBalance
<1>8. CASE \E a, b \in Agents, k \in Chests, loot \in Loots, d \in BOOLEAN :
              Steal(a, b, k, loot, d)
  <2>1. PICK a \in Agents, b \in Agents, k \in Chests, loot \in Loots, d \in BOOLEAN :
               Steal(a, b, k, loot, d)
    BY <1>8
  <2> DEFINE i == Len(thefts) + 1
             inv == mem.trade.inv
             taken == Takes(inv, b, loot)
             S == {m \in Materials : taken[m] > 0}
  <2>2. PICK order \in SetToSeqs(S) :
          queue' = Append(LootLines(inv, a, b, taken, order), TheftLine("attempt", i, d))
    BY <2>1 DEF Steal, Orders
  <2>3. offers' = offers /\ disk' = disk /\ mem'.trade = MoveLoot(mem.trade, a, b, taken)
    BY <1>1, <2>1 DEF Steal, Ledgers
  <2>4. inv \in [Agents -> [Materials -> Int]] /\ taken \in Bundles
    <3>1. inv \in [Agents -> [Materials -> Int]]
      BY <1>1 DEF Books
    <3> QED
      BY <3>1, EconomyAssumption, TakesType
  <2>5. order \in Seq(Materials)
    <3>1. order \in Seq(S)
      BY OrderType
    <3> HIDE DEF S
    <3>2. S \subseteq Materials
      BY DEF S
    <3> QED
      BY <3>1, <3>2
  <2> DEFINE lines == LootLines(inv, a, b, taken, order)
  <2> HIDE DEF taken, inv, S, i
  <2>6. lines \in Seq(Lines(0, 0, 0)) /\ Unannounced(lines)
    <3>1. lines \in Seq(Lines(0, 0, 0)) /\ Len(lines) = 2 * Len(order)
      BY <2>4, <2>5, LootLinesType
    <3>2. \A j \in 1..(2 * Len(order)) : lines[j].ev # "proposed"
      BY DEF LootLines, LeftWith, GainedBy, SetLine
    <3> QED
      BY <3>1, <3>2 DEF Unannounced
  <2>7. Unannounced(queue')
    <3>1. TheftLine("attempt", i, d).ev # "proposed"
      BY DEF TheftLine
    <3> HIDE DEF lines
    <3>2. \A T : \A ls \in Seq(T) : \A line : line.ev # "proposed" /\ Unannounced(ls) =>
             Unannounced(Append(ls, line))
      BY UnannouncedLines
    <3>3. queue' = Append(lines, TheftLine("attempt", i, d))
      BY <2>2 DEF lines
    <3> QED
      BY <2>6, <3>1, <3>2, <3>3
  <2> QED
    BY <1>0, <1>1, <1>2, <2>3, <2>4, <2>7, MoveLootBalance
<1>13. CASE \E a, b \in Agents, loot \in Loots : StealRaises(a, b, loot)
  <2>1. PICK a \in Agents, b \in Agents, loot \in Loots : StealRaises(a, b, loot)
    BY <1>13
  <2> DEFINE taken == Takes(mem.trade.inv, b, loot)
  <2>2. PICK gone, got : mem' = [mem EXCEPT !.trade = PartLoot(@, a, b, taken, gone, got)]
    BY <1>0, <2>1, RaisedTheft
  <2>3. /\ offers' = offers /\ disk' = disk /\ taken \in Bundles
        /\ queue' \in Seq(SetLines)
    BY <1>0, <2>1, RaisedTheft
  <2> HIDE DEF taken
  <2>4. mem'.trade = PartLoot(mem.trade, a, b, taken, gone, got)
    BY <1>1, <2>2 DEF Ledgers
  <2>5. Unannounced(queue')
    <3>1. \A line \in SetLines : line.ev # "proposed"
      BY LineLogs
    <3>2. \A i \in 1..Len(queue') : queue'[i] \in SetLines
      BY <2>3
    <3> QED
      BY <3>1, <3>2 DEF Unannounced
  <2>6. Balanced(mem'.trade, offers)
    BY <1>0, <1>1, <2>3, <2>4, PartLootBalance
  <2> QED
    BY <1>0, <1>1, <1>2, <2>3, <2>5, <2>6
<1>9. CASE \E a \in Agents, k \in Chests : ReportTheft(a, k)
  <2>1. PICK a \in Agents, k \in Chests : ReportTheft(a, k)
    BY <1>9
  <2>2. /\ offers' = offers /\ disk' = disk /\ mem'.trade = mem.trade
        /\ \E i : queue' = <<TheftLine("report", i, TRUE)>>
    BY <1>1, <2>1 DEF ReportTheft, Ledgers
  <2>3. Unannounced(queue')
    BY <2>2, UnannouncedLines DEF TheftLine
  <2> QED
    BY <1>1, <1>2, <2>2, <2>3
<1>10. CASE Write \/ WriteFails
  <2>1. /\ queue # <<>> /\ queue' = Tail(queue) /\ UNCHANGED <<deeds, offers, thefts, mem>>
        /\ \E file : Appends(Head(queue), file)
    BY <1>10, WriteIsAppend
  <2>2. PICK file : Appends(Head(queue), file)
    BY <2>1
  <2> DEFINE line == Head(queue)
             L == Lines(Len(deeds), Len(offers), Len(thefts))
  <2>3. /\ line \in L /\ line = queue[1] /\ 1 \in 1..Len(queue)
        /\ Len(queue') = Len(queue) - 1 /\ Len(queue) \in Nat
        /\ \A i \in 1..Len(queue') : queue'[i] = queue[i + 1] /\ i + 1 \in 1..Len(queue)
    <3>1. queue \in Seq(L)
      BY <1>0 DEF EconomyTypes
    <3> HIDE DEF L
    <3> QED
      BY <2>1, <3>1
  <2> HIDE DEF line, L
  <2>4. disk' = [disk EXCEPT ![line.log] = file]
    BY <2>2 DEF Appends, line
  <2>5. line.log \in {"own", "trade", "theft"}
    BY <1>0, <2>3, ReplayTypes DEF L
  <2>6. DOMAIN disk = {"own", "trade", "theft"}
    BY <1>0 DEF EconomyTypes, TypeOK
  <2>7. CASE line.log # "trade"
    <3>1. disk'.trade = disk.trade
      BY <2>4, <2>5, <2>7
    <3>2. ProposedIsNews'
      <4>1. ASSUME NEW i \in 1..Len(queue'), queue'[i].ev = "proposed" PROVE FALSE
        <5>1. queue[i + 1].ev = "proposed" /\ i + 1 \in 1..Len(queue) /\ i \in 1..Len(queue')
          BY <2>3, <4>1
        <5>2. Len(queue) = 1
          BY <5>1 DEF BalanceInv, ProposedIsNews
        <5> QED
          BY <2>3, <5>1, <5>2
      <4> QED
        BY <4>1 DEF ProposedIsNews
    <3> QED
      BY <1>0, <1>1, <2>1, <3>1, <3>2 DEF BalanceInv, AllBooks
  <2>8. CASE line.log = "trade"
    <3>1. Replayed(line) = ReplayTrade(disk.trade.img, line)
      BY <2>8 DEF Replayed
    <3>2. /\ disk'.trade = file
          /\ \/ file = Written(disk.trade, Replayed(line))
             \/ file \in Damaged(disk.trade, Replayed(line))
      BY <2>2, <2>4, <2>6, <2>8 DEF Appends, line
    <3>3. Replayed(line) \in Books(OfferIds)
      BY <1>0, <1>1, <2>3, <2>8, <3>1, ReplayTypes DEF L
    <3>4. /\ file.img \in {disk.trade.base, disk.trade.img, Replayed(line)}
          /\ file.base \in {disk.trade.base, disk.trade.img, Replayed(line)}
      BY <1>1, <3>2, <3>3, AppendImages
    <3>5. Balanced(Replayed(line), offers)
      <4>1. line.ev = "proposed" => disk.trade.img.status[line.id] = "none"
        BY <2>3 DEF BalanceInv, ProposedIsNews
      <4> QED
        BY <1>0, <1>1, <2>3, <2>8, <3>1, <4>1, ReplayBalance DEF L
    <3>6. ProposedIsNews'
      <4>1. ASSUME NEW i \in 1..Len(queue'), queue'[i].ev = "proposed" PROVE FALSE
        <5>1. queue[i + 1].ev = "proposed" /\ i + 1 \in 1..Len(queue) /\ i \in 1..Len(queue')
          BY <2>3, <4>1
        <5>2. Len(queue) = 1
          BY <5>1 DEF BalanceInv, ProposedIsNews
        <5> QED
          BY <2>3, <5>1, <5>2
      <4> QED
        BY <4>1 DEF ProposedIsNews
    <3> QED
      BY <1>0, <1>1, <2>1, <3>2, <3>4, <3>5, <3>6 DEF BalanceInv, AllBooks
  <2> QED
    BY <2>7, <2>8
<1>11. CASE Crash
  <2>1. /\ offers' = offers /\ disk' = disk /\ queue' = <<>> /\ mem'.trade = disk.trade.img
    BY <1>11 DEF Crash, contents
  <2>2. Unannounced(queue')
    BY <2>1 DEF Unannounced
  <2> QED
    BY <1>1, <1>2, <2>1, <2>2
<1>12. CASE UNCHANGED vars
  BY <1>0, <1>12 DEF vars, BalanceInv, AllBooks, ProposedIsNews
<1> QED
  BY <1>3, <1>4, <1>5, <1>6, <1>7, <1>8, <1>9, <1>10, <1>11, <1>12, <1>13 DEF Next

(* Whatever appends fail and wherever a crash strikes, every holding is    *)
(* what came from outside and what the offers marked accepted add up to    *)
(* (trade.py:383-455, 640-700).                                            *)
THEOREM HoldingsAddUp == Spec => []BooksBalance
<1>1. BalanceInv => BooksBalance
  <2> SUFFICES ASSUME BalanceInv, NEW bk \in AllBooks, NEW a \in Agents, NEW m \in Materials
               PROVE  bk.inv[a][m] = bk.external[a][m]
                         + SumFunction([o \in {p \in 1..Len(offers) : bk.status[p] = "accepted"}
                                           |-> Gain(o, a, m)])
    BY DEF BooksBalance
  <2>1. EconomyTypes /\ Balanced(bk, offers)
    BY DEF BalanceInv
  <2>2. bk \in Books(OfferIds)
    BY <2>1, BasicTypes DEF AllBooks, EconomyTypes, TypeOK, Files
  <2> QED
    BY <2>1, <2>2, BalanceIsChecked
<1> QED
  BY <1>1, BalanceStart, BalanceKept, PTL DEF Spec

-----------------------------------------------------------------------------
(* Goods are neither owed nor made.                                        *)

Sound(bk) ==
    /\ \A a \in Agents, m \in Materials : bk.inv[a][m] >= 0
    /\ \A m \in Materials : Total(bk, m) <= bk.minted[m]

Column(bk, m) == [a \in Agents |-> bk.inv[a][m]]

LEMMA TotalOfColumn ==
    ASSUME NEW bk \in Books(OfferIds), NEW m \in Materials
    PROVE  /\ Total(bk, m) = SumFunctionOnSet(Column(bk, m), Agents)
           /\ \A a \in Agents : Column(bk, m)[a] = bk.inv[a][m] /\ bk.inv[a][m] \in Int
           /\ Total(bk, m) \in Int /\ bk.minted[m] \in Int /\ IsFiniteSet(Agents)
<1>1. Total(bk, m) = SumFunctionOnSet(Column(bk, m), Agents)
  BY DEF Total, Column, SumFunction
<1>2. \A a \in Agents : Column(bk, m)[a] = bk.inv[a][m] /\ bk.inv[a][m] \in Int
  BY DEF Column, Books
<1>3. IsFiniteSet(Agents) /\ bk.minted[m] \in Int
  BY EconomyAssumption DEF Books
<1>4. SumFunctionOnSet(Column(bk, m), Agents) \in Int
  BY <1>2, <1>3, SumType
<1> QED
  BY <1>1, <1>2, <1>3, <1>4

(* A total follows the holdings that change.                               *)
LEMMA TotalChanges ==
    ASSUME NEW bk \in Books(OfferIds), NEW new \in Books(OfferIds), NEW m \in Materials
    PROVE  /\ (\A z \in Agents : new.inv[z][m] = bk.inv[z][m]) => Total(new, m) = Total(bk, m)
           /\ \A x \in Agents : (\A z \in Agents \ {x} : new.inv[z][m] = bk.inv[z][m]) =>
                 Total(new, m) = Total(bk, m) + (new.inv[x][m] - bk.inv[x][m])
           /\ \A x, y \in Agents :
                 x # y /\ (\A z \in Agents \ {x, y} : new.inv[z][m] = bk.inv[z][m]) =>
                 Total(new, m) = Total(bk, m) + (new.inv[x][m] - bk.inv[x][m])
                                              + (new.inv[y][m] - bk.inv[y][m])
<1> DEFINE f == Column(bk, m)
           g == Column(new, m)
<1>1. /\ Total(bk, m) = SumFunctionOnSet(f, Agents) /\ Total(new, m) = SumFunctionOnSet(g, Agents)
      /\ \A a \in Agents : f[a] = bk.inv[a][m] /\ g[a] = new.inv[a][m]
      /\ \A a \in Agents : f[a] \in Int /\ g[a] \in Int
      /\ IsFiniteSet(Agents)
  BY TotalOfColumn
<1> HIDE DEF f, g
<1>2. (\A z \in Agents : new.inv[z][m] = bk.inv[z][m]) => Total(new, m) = Total(bk, m)
  BY <1>1, SumEqual
<1>3. ASSUME NEW x \in Agents, \A z \in Agents \ {x} : new.inv[z][m] = bk.inv[z][m]
      PROVE  Total(new, m) = Total(bk, m) + (new.inv[x][m] - bk.inv[x][m])
  <2>1. \A z \in Agents \ {x} : f[z] = g[z]
    BY <1>1, <1>3
  <2>2. SumFunctionOnSet(g, Agents) = SumFunctionOnSet(f, Agents) + (g[x] - f[x])
    BY <1>1, <2>1, SumChangeOne
  <2> QED
    BY <1>1, <2>2
<1>4. ASSUME NEW x \in Agents, NEW y \in Agents, x # y,
             \A z \in Agents \ {x, y} : new.inv[z][m] = bk.inv[z][m]
      PROVE  Total(new, m) = Total(bk, m) + (new.inv[x][m] - bk.inv[x][m])
                                          + (new.inv[y][m] - bk.inv[y][m])
  <2>1. \A z \in Agents \ {x, y} : f[z] = g[z]
    BY <1>1, <1>4
  <2>2. SumFunctionOnSet(g, Agents)
          = SumFunctionOnSet(f, Agents) + (g[x] - f[x]) + (g[y] - f[y])
    BY <1>1, <1>4, <2>1, SumChangeTwo
  <2> QED
    BY <1>1, <2>2
<1> QED
  BY <1>2, <1>3, <1>4

(* The bootstrap accounts for what it puts into the world.                 *)
LEMMA SeedSound ==
    ASSUME NEW bk \in Books(OfferIds), Sound(bk),
           NEW a \in Agents, NEW m \in Materials, NEW qty \in Nat
    PROVE  Sound(SetInventory(bk, a, m, qty, TRUE))
<1> DEFINE new == SetInventory(bk, a, m, qty, TRUE)
           added == qty - bk.inv[a][m]
<1>1. new \in Books(OfferIds)
  <2>1. TRUE \in BOOLEAN /\ qty \in Int
    OBVIOUS
  <2>2. \A b \in BOOLEAN : SetInventory(bk, a, m, qty, b) \in Books(OfferIds)
    BY <2>1, SetInventoryType
  <2> QED
    BY <2>1, <2>2
<1>2. /\ new.inv = [bk.inv EXCEPT ![a][m] = qty]
      /\ new.minted = [bk.minted EXCEPT ![m] = @ + added]
  BY DEF SetInventory, Books
<1> HIDE DEF new
<1>3. \A z \in Agents, y \in Materials :
         new.inv[z][y] = IF z = a /\ y = m THEN qty ELSE bk.inv[z][y]
  BY <1>2 DEF Books
<1>4. \A y \in Materials :
         new.minted[y] = IF y = m THEN bk.minted[y] + added ELSE bk.minted[y]
  BY <1>2 DEF Books
<1>5. \A z \in Agents, y \in Materials : new.inv[z][y] >= 0
  BY <1>3 DEF Sound
<1>6. ASSUME NEW y \in Materials PROVE Total(new, y) <= new.minted[y]
  <2>1. Total(bk, y) <= bk.minted[y]
    BY DEF Sound
  <2>2. Total(bk, y) \in Int /\ bk.minted[y] \in Int /\ bk.inv[a][m] \in Int
    BY TotalOfColumn
  <2>3. CASE y # m
    <3>1. Total(new, y) = Total(bk, y)
      BY <1>1, <1>3, <2>3, TotalChanges
    <3> QED
      BY <1>4, <2>1, <2>3, <3>1
  <2>4. CASE y = m
    <3>1. \A z \in Agents \ {a} : new.inv[z][y] = bk.inv[z][y]
      BY <1>3
    <3>2. Total(new, y) = Total(bk, y) + (new.inv[a][y] - bk.inv[a][y])
      BY <1>1, <3>1, TotalChanges
    <3>3. new.inv[a][y] = qty /\ new.minted[y] = bk.minted[y] + added
      BY <1>3, <1>4, <2>4
    <3> QED
      BY <2>1, <2>2, <2>4, <3>2, <3>3
  <2> QED
    BY <2>3, <2>4
<1>7. Sound(new)
  BY <1>5, <1>6 DEF Sound
<1> QED
  BY <1>7 DEF new

LEMMA StatusSound ==
    ASSUME NEW bk \in Books(OfferIds), Sound(bk), NEW new \in Books(OfferIds),
           new.inv = bk.inv, new.minted = bk.minted
    PROVE  Sound(new)
<1>1. \A m \in Materials : Total(new, m) = Total(bk, m)
  BY TotalChanges
<1> QED
  BY <1>1 DEF Sound

(* A swap that both sides can afford.                                      *)
LEMMA SettleSound ==
    ASSUME NEW bk \in Books(OfferIds), Sound(bk), NEW o \in OfferIds,
           NEW offer \in Offer, offer.from # offer.to,
           HasInventory(bk.inv, offer.from, offer.give),
           HasInventory(bk.inv, offer.to, offer.want)
    PROVE  Sound(Settle(bk, o, offer))
<1> DEFINE new == Settle(bk, o, offer)
           x == offer.from
           y == offer.to
<1>1. new \in Books(OfferIds)
  BY BookTypes
<1>2. new.inv = Swap(bk.inv, offer) /\ new.minted = bk.minted
  BY DEF Settle, Books
<1> HIDE DEF new
<1>3. ASSUME NEW m \in Materials
      PROVE  /\ new.inv[x][m] = bk.inv[x][m] - offer.give[m] + offer.want[m]
             /\ new.inv[y][m] = bk.inv[y][m] + offer.give[m] - offer.want[m]
             /\ \A z \in Agents \ {x, y} : new.inv[z][m] = bk.inv[z][m]
             /\ offer.give[m] \in Nat /\ offer.want[m] \in Nat
             /\ bk.inv[x][m] >= offer.give[m] /\ bk.inv[y][m] >= offer.want[m]
             /\ x \in Agents /\ y \in Agents /\ x # y
  <2>1. x \in Agents /\ y \in Agents /\ x # y
    BY DEF Offer
  <2>2. offer.give[m] \in Nat /\ offer.want[m] \in Nat
    BY DEF Offer, Bundles
  <2>4. \A z \in Agents : bk.inv[z][m] \in Int
    BY DEF Books
  <2>3. bk.inv[x][m] >= offer.give[m] /\ bk.inv[y][m] >= offer.want[m]
    <3>1. /\ offer.give[m] > 0 => bk.inv[x][m] >= offer.give[m]
          /\ offer.want[m] > 0 => bk.inv[y][m] >= offer.want[m]
      BY DEF HasInventory
    <3>2. bk.inv[x][m] >= 0 /\ bk.inv[y][m] >= 0
      BY <2>1 DEF Sound
    <3> QED
      BY <2>1, <2>2, <2>4, <3>1, <3>2
  <2> DEFINE given == ApplyDelta(bk.inv, x, y, offer.give)
  <2>5. new.inv = ApplyDelta(given, y, x, offer.want)
    BY <1>2 DEF Swap
  <2>6. \A z \in Agents : given[z][m] = CASE z = x -> bk.inv[z][m] - offer.give[m]
                                          [] z = y -> bk.inv[z][m] + offer.give[m]
                                          [] OTHER -> bk.inv[z][m]
    BY DEF ApplyDelta
  <2> HIDE DEF given, x, y
  <2>7. \A z \in Agents : new.inv[z][m] = CASE z = y -> given[z][m] - offer.want[m]
                                            [] z = x -> given[z][m] + offer.want[m]
                                            [] OTHER -> given[z][m]
    BY <2>5 DEF ApplyDelta
  <2> QED
    BY <2>1, <2>2, <2>3, <2>4, <2>6, <2>7
<1> HIDE DEF x, y
<1>4. ASSUME NEW z \in Agents, NEW m \in Materials PROVE new.inv[z][m] >= 0
  <2>1. \A a \in Agents : bk.inv[a][m] >= 0 /\ bk.inv[a][m] \in Int
    BY DEF Sound, Books
  <2> QED
    BY <1>3, <2>1
<1>5. ASSUME NEW m \in Materials PROVE Total(new, m) <= new.minted[m]
  <2>1. Total(new, m) = Total(bk, m) + (new.inv[x][m] - bk.inv[x][m])
                                     + (new.inv[y][m] - bk.inv[y][m])
    BY <1>1, <1>3, TotalChanges
  <2>2. bk.inv[x][m] \in Int /\ bk.inv[y][m] \in Int /\ Total(bk, m) \in Int
    BY <1>3, TotalOfColumn
  <2>3. Total(new, m) = Total(bk, m)
    BY <1>3, <2>1, <2>2
  <2> QED
    BY <1>2, <2>3 DEF Sound
<1>6. Sound(new)
  BY <1>4, <1>5 DEF Sound
<1> QED
  BY <1>6 DEF new

-----------------------------------------------------------------------------
(* The ledgers that the lines of an operation replay to, one by one.       *)

(* A claim that is indexed can be released.                                *)
HeldKeys(ix) == \A k \in Chests : ix.active[k] # Own!NoClaim => ix.active[k] \in Own!Held(ix)

Sane(r) == Sound(r.trade) /\ HeldKeys(r.own)

ReplayedOwn(ix, dd, line) ==
    CASE line.ev = "claim"    -> Own!ReplayClaim(ix, line.id, dd[line.id].target)
      [] line.ev = "release"  -> Own!ReplayRelease(ix, line.id, dd[line.id].target)
      [] line.ev = "conflict" -> Own!ReplayConflict(ix)

ReplayedTrade(bk, ofs, line) ==
    CASE line.ev = "inventory_set" ->
             SetInventory(bk, line.agent, line.material, line.qty, line.bootstrap)
      [] line.ev = "proposed" -> Propose(bk, line.id)
      [] line.ev = "accepted" -> ReplayAccepted(bk, line.id, ofs[line.id])
      [] line.ev = "rejected" -> ReplayRejected(bk, line.id)

OneReplay(r, dd, ofs, line) ==
    [own   |-> IF line.log = "own" THEN ReplayedOwn(r.own, dd, line) ELSE r.own,
     trade |-> IF line.log = "trade" THEN ReplayedTrade(r.trade, ofs, line) ELSE r.trade,
     theft |-> IF line.log = "theft" THEN ReplayTheft(r.theft, line) ELSE r.theft]

(* The lines lead from r to final, and never through a ledger that owes.   *)
IsPath(path, r, dd, ofs, lines, final) ==
    /\ path[0] = r /\ path[Len(lines)] = final
    /\ \A i \in 1..Len(lines) : path[i] = OneReplay(path[i-1], dd, ofs, lines[i])
    /\ \A i \in 0..Len(lines) : path[i] \in Ledgers(Len(dd)) /\ Sane(path[i])

LEMMA EmptyPath ==
    ASSUME NEW dd, NEW ofs, NEW r \in Ledgers(Len(dd)), Sane(r)
    PROVE  \E path : IsPath(path, r, dd, ofs, <<>>, r)
<1> DEFINE path == [i \in {0} |-> r]
<1>1. path[0] = r
  OBVIOUS
<1>2. \A i \in 0..0 : i = 0
  OBVIOUS
<1>3. Len(<<>>) = 0 /\ 1..0 = {}
  OBVIOUS
<1> HIDE DEF path
<1>4. IsPath(path, r, dd, ofs, <<>>, r)
  BY <1>1, <1>2, <1>3 DEF IsPath
<1> QED
  BY <1>4

LEMMA PathGrows ==
    ASSUME NEW S, NEW lines \in Seq(S), NEW line, NEW dd, NEW ofs, NEW r, NEW mid, NEW path,
           IsPath(path, r, dd, ofs, lines, mid),
           NEW final \in Ledgers(Len(dd)), Sane(final), final = OneReplay(mid, dd, ofs, line)
    PROVE  \E longer : IsPath(longer, r, dd, ofs, Append(lines, line), final)
<1> DEFINE n == Len(lines)
           new == Append(lines, line)
           longer == [i \in 0..(n + 1) |-> IF i = n + 1 THEN final ELSE path[i]]
<1>1. /\ n \in Nat /\ Len(new) = n + 1 /\ new[n + 1] = line
      /\ \A i \in 1..n : new[i] = lines[i]
  OBVIOUS
<1>2. /\ longer[n + 1] = final /\ \A i \in 0..n : longer[i] = path[i]
      /\ \A i \in 1..(n + 1) : i \in 1..n \/ i = n + 1
      /\ \A i \in 0..(n + 1) : i \in 0..n \/ i = n + 1
      /\ \A i \in 1..n : i \in 0..n /\ i - 1 \in 0..n
      /\ 0 \in 0..n /\ n \in 0..n /\ (n + 1) - 1 = n
  BY <1>1
<1>3. /\ path[0] = r /\ path[n] = mid
      /\ \A i \in 1..n : path[i] = OneReplay(path[i-1], dd, ofs, lines[i])
      /\ \A i \in 0..n : path[i] \in Ledgers(Len(dd)) /\ Sane(path[i])
  BY DEF IsPath
<1> HIDE DEF longer, new, n
<1>4. \A i \in 1..(n + 1) : longer[i] = OneReplay(longer[i-1], dd, ofs, new[i])
  <2> SUFFICES ASSUME NEW i \in 1..(n + 1)
               PROVE  longer[i] = OneReplay(longer[i-1], dd, ofs, new[i])
    OBVIOUS
  <2>1. CASE i \in 1..n
    <3>1. longer[i] = path[i] /\ longer[i-1] = path[i-1] /\ new[i] = lines[i]
      BY <1>1, <1>2, <2>1
    <3> QED
      BY <1>3, <2>1, <3>1
  <2>2. CASE i = n + 1
    <3>1. longer[i] = final /\ longer[i-1] = mid /\ new[i] = line
      BY <1>1, <1>2, <1>3, <2>2
    <3> QED
      BY <3>1
  <2> QED
    BY <1>2, <2>1, <2>2
<1>5. \A i \in 0..(n + 1) : longer[i] \in Ledgers(Len(dd)) /\ Sane(longer[i])
  BY <1>2, <1>3
<1>6. longer[0] = r /\ longer[n + 1] = final
  BY <1>2, <1>3
<1>7. IsPath(longer, r, dd, ofs, new, final)
  BY <1>1, <1>4, <1>5, <1>6 DEF IsPath
<1> QED
  BY <1>7 DEF new

LEMMA PathOfOne ==
    ASSUME NEW dd, NEW ofs, NEW r \in Ledgers(Len(dd)), Sane(r), NEW line,
           NEW final \in Ledgers(Len(dd)), Sane(final), final = OneReplay(r, dd, ofs, line)
    PROVE  \E path : IsPath(path, r, dd, ofs, <<line>>, final)
<1>1. PICK path : IsPath(path, r, dd, ofs, <<>>, r)
  BY EmptyPath
<1>2. <<>> \in Seq({}) /\ Append(<<>>, line) = <<line>>
  OBVIOUS
<1>3. \E longer : IsPath(longer, r, dd, ofs, Append(<<>>, line), final)
  BY <1>1, <1>2, PathGrows
<1> QED
  BY <1>2, <1>3

LEMMA PathShrinks ==
    ASSUME NEW S, NEW lines \in Seq(S), lines # <<>>, NEW dd, NEW ofs, NEW r, NEW final,
           NEW path, IsPath(path, r, dd, ofs, lines, final)
    PROVE  \E rest : IsPath(rest, OneReplay(r, dd, ofs, Head(lines)), dd, ofs, Tail(lines), final)
<1> DEFINE n == Len(lines)
           rest == [i \in 0..(n - 1) |-> path[i + 1]]
<1>1. /\ n \in Nat /\ n >= 1 /\ Len(Tail(lines)) = n - 1 /\ Head(lines) = lines[1]
      /\ \A i \in 1..(n - 1) : Tail(lines)[i] = lines[i + 1]
  OBVIOUS
<1>2. /\ \A i \in 0..(n - 1) : rest[i] = path[i + 1] /\ i + 1 \in 0..n
      /\ \A i \in 1..(n - 1) : /\ i \in 0..(n - 1) /\ i - 1 \in 0..(n - 1) /\ (i - 1) + 1 = i
                               /\ i + 1 \in 1..n /\ (i + 1) - 1 = i
      /\ 0 \in 0..(n - 1) /\ n - 1 \in 0..(n - 1) /\ (n - 1) + 1 = n /\ 0 + 1 = 1 /\ 1 - 1 = 0
      /\ 1 \in 1..n
  BY <1>1
<1>3. /\ path[0] = r /\ path[n] = final
      /\ \A i \in 1..n : path[i] = OneReplay(path[i-1], dd, ofs, lines[i])
      /\ \A i \in 0..n : path[i] \in Ledgers(Len(dd)) /\ Sane(path[i])
  BY DEF IsPath
<1> HIDE DEF rest, n
<1>4. rest[0] = OneReplay(r, dd, ofs, Head(lines)) /\ rest[n - 1] = final
  <2>1. rest[0] = path[1] /\ path[1] = OneReplay(path[1 - 1], dd, ofs, lines[1])
    BY <1>2, <1>3
  <2>2. rest[n - 1] = path[n]
    BY <1>2
  <2> QED
    BY <1>1, <1>2, <1>3, <2>1, <2>2
<1>5. \A i \in 1..(n - 1) : rest[i] = OneReplay(rest[i-1], dd, ofs, Tail(lines)[i])
  <2> SUFFICES ASSUME NEW i \in 1..(n - 1)
               PROVE  rest[i] = OneReplay(rest[i-1], dd, ofs, Tail(lines)[i])
    OBVIOUS
  <2>1. rest[i] = path[i + 1] /\ rest[i - 1] = path[i] /\ Tail(lines)[i] = lines[i + 1]
    BY <1>1, <1>2
  <2>2. path[i + 1] = OneReplay(path[(i + 1) - 1], dd, ofs, lines[i + 1])
    BY <1>2, <1>3
  <2> QED
    BY <1>2, <2>1, <2>2
<1>6. \A i \in 0..(n - 1) : rest[i] \in Ledgers(Len(dd)) /\ Sane(rest[i])
  BY <1>2, <1>3
<1>7. IsPath(rest, OneReplay(r, dd, ofs, Head(lines)), dd, ofs, Tail(lines), final)
  BY <1>1, <1>4, <1>5, <1>6 DEF IsPath
<1> QED
  BY <1>7

(* More deeds do not change what lines about the old ones replay to.       *)
LEMMA PathKept ==
    ASSUME NEW dd \in Seq(Deed), NEW longer \in Seq(Deed), Extends(dd, longer),
           NEW lines \in Seq(OwnLines(Len(dd))), NEW ofs, NEW r, NEW final,
           NEW path, IsPath(path, r, dd, ofs, lines, final)
    PROVE  IsPath(path, r, longer, ofs, lines, final)
<1>1. ASSUME NEW s, NEW line \in OwnLines(Len(dd))
      PROVE  OneReplay(s, dd, ofs, line) = OneReplay(s, longer, ofs, line)
  <2>1. line.log = "own" /\ line.id \in 1..Len(dd)
    BY LineLogs
  <2>2. longer[line.id] = dd[line.id]
    BY <2>1 DEF Extends
  <2>3. ReplayedOwn(s.own, dd, line) = ReplayedOwn(s.own, longer, line)
    BY <2>2 DEF ReplayedOwn
  <2> QED
    BY <2>1, <2>3 DEF OneReplay
<1>2. \A i \in 1..Len(lines) : lines[i] \in OwnLines(Len(dd))
  OBVIOUS
<1>3. Ledgers(Len(dd)) \subseteq Ledgers(Len(longer))
  BY LedgersGrow DEF Extends
<1> QED
  BY <1>1, <1>2, <1>3 DEF IsPath

WithIndex(r, ix) == [own |-> ix, trade |-> r.trade, theft |-> r.theft]

(* The lines of a stage lead from the ledgers r to its index.              *)
StagePath(r, ofs, st) ==
    \E path : IsPath(path, r, st.deeds, ofs, st.lines, WithIndex(r, st.ix))

LEMMA StagePathEnd ==
    ASSUME NEW r, NEW ofs, NEW st, IsStage(st), StagePath(r, ofs, st)
    PROVE  /\ WithIndex(r, st.ix) \in Ledgers(Len(st.deeds))
           /\ Sound(r.trade) /\ HeldKeys(st.ix)
<1>1. PICK path : IsPath(path, r, st.deeds, ofs, st.lines, WithIndex(r, st.ix))
  BY DEF StagePath
<1>2. Len(st.lines) \in 0..Len(st.lines)
  <2>1. st.lines \in Seq(OwnLines(Len(st.deeds)))
    BY DEF IsStage, Stages
  <2> QED
    BY <2>1
<1>3. WithIndex(r, st.ix) \in Ledgers(Len(st.deeds)) /\ Sane(WithIndex(r, st.ix))
  BY <1>1, <1>2 DEF IsPath
<1> QED
  BY <1>3 DEF Sane, WithIndex

(* One more line and the index it leads to.                                *)
LEMMA StagePathGrows ==
    ASSUME NEW r, NEW ofs, NEW st, IsStage(st), StagePath(r, ofs, st),
           NEW new, IsStage(new), Extends(st.deeds, new.deeds),
           NEW line, new.lines = Append(st.lines, line), line.log = "own",
           new.ix = ReplayedOwn(st.ix, new.deeds, line), HeldKeys(new.ix)
    PROVE  StagePath(r, ofs, new)
<1>1. PICK path : IsPath(path, r, st.deeds, ofs, st.lines, WithIndex(r, st.ix))
  BY DEF StagePath
<1>2. /\ st.deeds \in Seq(Deed) /\ new.deeds \in Seq(Deed)
      /\ st.lines \in Seq(OwnLines(Len(st.deeds)))
      /\ new.ix \in Own!Index(1..Len(new.deeds))
  BY DEF IsStage, Stages
<1>3. IsPath(path, r, new.deeds, ofs, st.lines, WithIndex(r, st.ix))
  BY <1>1, <1>2, PathKept
<1>4. WithIndex(r, new.ix) \in Ledgers(Len(new.deeds)) /\ Sane(WithIndex(r, new.ix))
  <2>1. WithIndex(r, st.ix) \in Ledgers(Len(st.deeds)) /\ Sound(r.trade)
    BY StagePathEnd
  <2> QED
    BY <1>2, <2>1 DEF WithIndex, Ledgers, Sane
<1>5. WithIndex(r, new.ix) = OneReplay(WithIndex(r, st.ix), new.deeds, ofs, line)
  BY DEF WithIndex, OneReplay
<1>6. \E longer : IsPath(longer, r, new.deeds, ofs, Append(st.lines, line), WithIndex(r, new.ix))
  BY <1>2, <1>3, <1>4, <1>5, PathGrows
<1> QED
  BY <1>6 DEF StagePath

LEMMA ClaimPath ==
    ASSUME NEW r, NEW ofs, NEW st, IsStage(st), StagePath(r, ofs, st),
           NEW a \in Agents, NEW k \in Chests
    PROVE  StagePath(r, ofs, ClaimChest(st, a, k))
<1> DEFINE n == Len(st.deeds)
           c == n + 1
           new == ClaimChest(st, a, k)
           deed == [owner |-> a, target |-> k]
<1>1. /\ n \in Nat /\ st.ix \in Own!Index(1..n) /\ st.deeds \in Seq(Deed)
      /\ st \in Stages(n) /\ HeldKeys(st.ix)
  BY StagePathEnd DEF IsStage, Stages
<1>2. IsStage(new) /\ Extends(st.deeds, new.deeds)
  BY ClaimStage
<1>3. CASE st.ix.active[k] = Own!NoClaim
  <2>1. new = [ix    |-> Own!IndexActive(st.ix, c, k),
               deeds |-> Append(st.deeds, deed),
               lines |-> Append(st.lines, OwnLine("claim", c))]
    BY <1>3, FreeChest DEF ClaimChest
  <2>2. new.deeds[c].target = k
    BY <1>1, <2>1
  <2> DEFINE line == OwnLine("claim", c)
  <2>3. new.lines = Append(st.lines, line) /\ line.log = "own"
    BY <2>1 DEF OwnLine
  <2>4. new.ix = ReplayedOwn(st.ix, new.deeds, line)
    <3>1. line.ev = "claim" /\ line.id = c /\ new.ix = Own!IndexActive(st.ix, c, k)
      BY <2>1 DEF OwnLine
    <3> HIDE DEF new, line
    <3> QED
      BY <2>2, <3>1 DEF ReplayedOwn, Own!ReplayClaim
  <2>5. HeldKeys(new.ix)
    <3>1. /\ new.ix.active = [st.ix.active EXCEPT ![k] = c]
          /\ new.ix.known = st.ix.known \cup {c} /\ new.ix.released = st.ix.released
      BY <2>1 DEF Own!IndexActive
    <3>2. c \notin st.ix.released
      BY <1>1 DEF Own!Index
    <3>3. \A j \in Chests : new.ix.active[j] = IF j = k THEN c ELSE st.ix.active[j]
      BY <1>1, <3>1 DEF Own!Index
    <3> HIDE DEF new
    <3> QED
      BY <1>1, <3>1, <3>2, <3>3 DEF HeldKeys, Own!Held
  <2> HIDE DEF new, line
  <2>6. StagePath(r, ofs, new)
    BY <1>2, <2>3, <2>4, <2>5, StagePathGrows
  <2> QED
    BY <2>6 DEF new
<1>4. CASE st.ix.active[k] # Own!NoClaim
  <2> DEFINE line == OwnLine("conflict", st.ix.active[k])
  <2>1. new = [st EXCEPT !.lines = Append(@, line)]
    BY <1>4, FreeChest DEF ClaimChest
  <2>2. new.ix = st.ix /\ new.lines = Append(st.lines, line)
    BY <1>1, <2>1 DEF Stages
  <2>3. line.log = "own" /\ line.ev = "conflict"
    BY DEF OwnLine
  <2> HIDE DEF new, line
  <2>4. new.ix = ReplayedOwn(st.ix, new.deeds, line)
    BY <2>2, <2>3 DEF ReplayedOwn, Own!ReplayConflict
  <2>5. StagePath(r, ofs, new)
    BY <1>1, <1>2, <2>2, <2>3, <2>4, StagePathGrows
  <2> QED
    BY <2>5 DEF new
<1> QED
  BY <1>3, <1>4

LEMMA ReleasePath ==
    ASSUME NEW r, NEW ofs, NEW st, IsStage(st), StagePath(r, ofs, st), Keyed(st.ix, st.deeds),
           NEW c \in 1..Len(st.deeds), c \in Own!Held(st.ix)
    PROVE  StagePath(r, ofs, ReleaseChest(st, c))
<1> DEFINE n == Len(st.deeds)
           new == ReleaseChest(st, c)
           k == st.deeds[c].target
           line == OwnLine("release", c)
<1>1. /\ n \in Nat /\ st.ix \in Own!Index(1..n) /\ st.deeds \in Seq(Deed)
      /\ st \in Stages(n) /\ HeldKeys(st.ix)
  BY StagePathEnd DEF IsStage, Stages
<1>2. IsStage(new) /\ new.deeds = st.deeds /\ Extends(st.deeds, new.deeds)
  BY <1>1, ReleaseStage, ExtendsAtAll
<1>3. new.ix = Own!DeindexActive(st.ix, c, k) /\ new.lines = Append(st.lines, line)
  BY <1>1 DEF ReleaseChest, Stages
<1>4. line.log = "own" /\ line.ev = "release" /\ line.id = c
  BY DEF OwnLine
<1>5. k \in Chests
  <2>1. st.deeds[c] \in Deed
    BY <1>1
  <2> QED
    BY <2>1 DEF Deed
<1>6. HeldKeys(new.ix)
  <2>1. /\ new.ix.active = [st.ix.active EXCEPT ![k] = Own!NoClaim]
        /\ new.ix.known = st.ix.known /\ new.ix.released = st.ix.released \cup {c}
    BY <1>3 DEF Own!DeindexActive
  <2>2. \A j \in Chests : new.ix.active[j] = IF j = k THEN Own!NoClaim ELSE st.ix.active[j]
    BY <1>1, <2>1 DEF Own!Index
  <2>3. \A j \in Chests : j # k => st.ix.active[j] # c
    BY <1>1 DEF Keyed, Own!NoClaim
  <2> HIDE DEF new, k
  <2> QED
    BY <1>1, <2>1, <2>2, <2>3 DEF HeldKeys, Own!Held
<1>7. new.ix = ReplayedOwn(st.ix, new.deeds, line)
  <2> HIDE DEF new, line
  <2> QED
    BY <1>2, <1>3, <1>4 DEF ReplayedOwn, Own!ReplayRelease
<1> HIDE DEF new, line
<1>8. StagePath(r, ofs, new)
  BY <1>2, <1>3, <1>4, <1>6, <1>7, StagePathGrows
<1> QED
  BY <1>8 DEF new

LEMMA TransferPath ==
    ASSUME NEW r, NEW ofs, NEW st, IsStage(st), StagePath(r, ofs, st), Keyed(st.ix, st.deeds),
           NEW move \in Move
    PROVE  StagePath(r, ofs, TransferContainer(st, move.chest, move.giver, move.taker))
<1> DEFINE k == move.chest
           held == st.ix.active[k]
           gives == held # Own!NoClaim /\ st.deeds[held].owner = move.giver
           freed == IF gives THEN ReleaseChest(st, held) ELSE st
<1>1. k \in Chests /\ move.taker \in Agents
  BY DEF Move
<1>2. gives => held \in 1..Len(st.deeds) /\ held \in Own!Held(st.ix)
  <2>1. HeldKeys(st.ix)
    BY StagePathEnd
  <2> QED
    BY <1>1, <2>1 DEF IsStage, Stages, Own!Index, HeldKeys
<1>3. TransferContainer(st, k, move.giver, move.taker) = ClaimChest(freed, move.taker, k)
  BY DEF TransferContainer
<1>4. IsStage(freed) /\ StagePath(r, ofs, freed)
  <2>1. CASE gives
    <3>1. freed = ReleaseChest(st, held)
      BY <2>1
    <3> HIDE DEF held
    <3> QED
      BY <1>2, <2>1, <3>1, ReleaseStage, ReleasePath
  <2>2. CASE ~gives
    BY <2>2
  <2> QED
    BY <2>1, <2>2
<1> HIDE DEF freed, k
<1>5. StagePath(r, ofs, ClaimChest(freed, move.taker, k))
  BY <1>1, <1>4, ClaimPath
<1> QED
  BY <1>3, <1>5 DEF k

LEMMA TransfersPath ==
    ASSUME NEW r, NEW ofs, NEW start, IsStage(start), Keyed(start.ix, start.deeds),
           StagePath(r, ofs, start), NEW offer \in Offer, offer.from # offer.to,
           NEW st, Steps(st, start, Moves(offer), Len(Moves(offer)))
    PROVE  StagePath(r, ofs, st[Len(Moves(offer))])
<1> DEFINE moves == Moves(offer)
           n == Len(moves)
           T == {i \in Nat : i <= n => StagePath(r, ofs, st[i])}
<1>1. moves \in Seq(Move)
  BY MovesOf
<1>2. /\ st[0] = start
      /\ \A i \in 0..n : IsStage(st[i])
      /\ \A i \in 1..n : st[i] = TransferContainer(st[i-1], moves[i].chest, moves[i].giver,
                                                   moves[i].taker)
  BY <1>1, StagesOfTransfers
<1>3. \A i \in 0..n : Keyed(st[i].ix, st[i].deeds)
  BY OwnersOfTransfers
<1> HIDE DEF moves
<1>4. n \in Nat /\ \A i \in 1..n : moves[i] \in Move
  BY <1>1
<1>5. 0 \in T
  BY <1>2
<1>6. ASSUME NEW i \in Nat, i \in T PROVE i + 1 \in T
  <2> SUFFICES ASSUME i + 1 <= n PROVE StagePath(r, ofs, st[i + 1])
    OBVIOUS
  <2>1. i + 1 \in 1..n /\ i \in 0..n /\ (i + 1) - 1 = i /\ StagePath(r, ofs, st[i])
    BY <1>4, <1>6
  <2> DEFINE move == moves[i + 1]
  <2>2. /\ IsStage(st[i]) /\ Keyed(st[i].ix, st[i].deeds) /\ move \in Move
        /\ st[i + 1] = TransferContainer(st[i], move.chest, move.giver, move.taker)
    BY <1>2, <1>3, <1>4, <2>1
  <2> HIDE DEF move, T, n
  <2> QED
    BY <2>1, <2>2, TransferPath
<1>7. Nat \subseteq T
  <2> HIDE DEF T
  <2> QED
    BY <1>5, <1>6, NaturalsByInduction
<1>8. StagePath(r, ofs, st[n])
  <2> HIDE DEF n
  <2> QED
    BY <1>4, <1>7
<1> QED
  BY <1>8 DEF moves

-----------------------------------------------------------------------------
(* A theft, line after line.                                               *)

LEMMA SameHoldings ==
    ASSUME NEW f \in [Agents -> [Materials -> Int]], NEW g \in [Agents -> [Materials -> Int]],
           \A a \in Agents, m \in Materials : f[a][m] = g[a][m]
    PROVE  f = g
<1>1. ASSUME NEW a \in Agents PROVE f[a] = g[a]
  <2>1. f[a] \in [Materials -> Int] /\ g[a] \in [Materials -> Int]
    OBVIOUS
  <2>2. \A m \in Materials : f[a][m] = g[a][m]
    OBVIOUS
  <2> QED
    BY <2>1, <2>2
<1> QED
  BY <1>1

LEMMA PartLootAt ==
    ASSUME NEW bk \in Books(OfferIds), NEW thief \in Agents, NEW victim \in Agents,
           NEW taken \in Bundles, NEW gone, NEW got,
           NEW part, part = PartLoot(bk, thief, victim, taken, gone, got)
    PROVE  /\ part.status = bk.status /\ part.minted = bk.minted
           /\ \A a \in Agents, m \in Materials :
                 /\ bk.inv[a][m] \in Int /\ bk.external[a][m] \in Int /\ taken[m] \in Nat
                 /\ part.inv[a][m] = CASE a = victim /\ m \in gone -> bk.inv[a][m] - taken[m]
                                       [] a = thief /\ m \in got   -> bk.inv[a][m] + taken[m]
                                       [] OTHER                    -> bk.inv[a][m]
                 /\ part.external[a][m] =
                       CASE a = victim /\ m \in gone -> bk.external[a][m] - taken[m]
                         [] a = thief /\ m \in got   -> bk.external[a][m] + taken[m]
                         [] OTHER                    -> bk.external[a][m]
BY DEF PartLoot, Carried, Bundles, Books

LEMMA SameBook ==
    ASSUME NEW x \in Books(OfferIds), NEW y \in Books(OfferIds),
           x.status = y.status, x.minted = y.minted,
           \A a \in Agents, m \in Materials :
              x.inv[a][m] = y.inv[a][m] /\ x.external[a][m] = y.external[a][m]
    PROVE  x = y
<1>1. /\ x.inv \in [Agents -> [Materials -> Int]] /\ x.external \in [Agents -> [Materials -> Int]]
      /\ y.inv \in [Agents -> [Materials -> Int]] /\ y.external \in [Agents -> [Materials -> Int]]
  BY DEF Books
<1>2. x.inv = y.inv
  BY <1>1, SameHoldings
<1>3. x.external = y.external
  BY <1>1, SameHoldings
<1> QED
  BY <1>2, <1>3 DEF Books

(* A holding is set without goods entering the world.                      *)
IsSet(bk, a, m, qty, new) ==
    /\ new.status = bk.status /\ new.minted = bk.minted
    /\ \A x \in Agents, y \in Materials :
          /\ new.inv[x][y] = IF x = a /\ y = m THEN qty ELSE bk.inv[x][y]
          /\ new.external[x][y] =
                IF x = a /\ y = m THEN bk.external[a][m] + (qty - bk.inv[a][m])
                ELSE bk.external[x][y]

LEMMA SetInventoryIs ==
    ASSUME NEW bk \in Books(OfferIds), NEW a \in Agents, NEW m \in Materials, NEW qty \in Int,
           NEW b \in BOOLEAN, ~b, NEW new \in Books(OfferIds), IsSet(bk, a, m, qty, new)
    PROVE  SetInventory(bk, a, m, qty, b) = new
<1> DEFINE set == SetInventory(bk, a, m, qty, b)
<1>1. set \in Books(OfferIds)
  <2>1. b \in BOOLEAN
    OBVIOUS
  <2> QED
    BY <2>1, SetInventoryType
<1>2. /\ set.inv = [bk.inv EXCEPT ![a][m] = qty] /\ set.status = bk.status
      /\ set.external = [bk.external EXCEPT ![a][m] = @ + (qty - bk.inv[a][m])]
      /\ set.minted = [bk.minted EXCEPT ![m] = IF b THEN @ + (qty - bk.inv[a][m]) ELSE @]
  BY DEF SetInventory, Books
<1>3. set.minted = bk.minted
  BY <1>2 DEF Books
<1>4. bk.inv \in [Agents -> [Materials -> Int]] /\ bk.external \in [Agents -> [Materials -> Int]]
  BY DEF Books
<1> HIDE DEF set
<1>5. \A x \in Agents, y \in Materials :
         /\ set.inv[x][y] = IF x = a /\ y = m THEN qty ELSE bk.inv[x][y]
         /\ set.external[x][y] =
               IF x = a /\ y = m THEN bk.external[a][m] + (qty - bk.inv[a][m])
               ELSE bk.external[x][y]
  BY <1>2, <1>4
<1>7. \A x \in Agents, y \in Materials :
         set.inv[x][y] = new.inv[x][y] /\ set.external[x][y] = new.external[x][y]
  BY <1>5 DEF IsSet
<1>8. set.status = new.status /\ set.minted = new.minted
  BY <1>2, <1>3 DEF IsSet
<1>6. set = new
  BY <1>1, <1>7, <1>8, SameBook
<1> QED
  BY <1>6 DEF set

LEMMA DebitStep ==
    ASSUME NEW bk \in Books(OfferIds), NEW thief \in Agents, NEW victim \in Agents,
           thief # victim, NEW taken \in Bundles, NEW gone, NEW got, NEW n \in Materials,
           n \notin gone, NEW b \in BOOLEAN, ~b,
           NEW part, part = PartLoot(bk, thief, victim, taken, gone, got),
           NEW qty, qty = bk.inv[victim][n] - taken[n], NEW more, more = gone \cup {n},
           NEW new, new = PartLoot(bk, thief, victim, taken, more, got)
    PROVE  SetInventory(part, victim, n, qty, b) = new
<1>1. part \in Books(OfferIds)
  BY PartLootType
<1>2. /\ part.status = bk.status /\ part.minted = bk.minted
      /\ \A a \in Agents, m \in Materials :
            /\ bk.inv[a][m] \in Int /\ bk.external[a][m] \in Int /\ taken[m] \in Nat
            /\ part.inv[a][m] = CASE a = victim /\ m \in gone -> bk.inv[a][m] - taken[m]
                                  [] a = thief /\ m \in got   -> bk.inv[a][m] + taken[m]
                                  [] OTHER                    -> bk.inv[a][m]
            /\ part.external[a][m] =
                  CASE a = victim /\ m \in gone -> bk.external[a][m] - taken[m]
                    [] a = thief /\ m \in got   -> bk.external[a][m] + taken[m]
                    [] OTHER                    -> bk.external[a][m]
  BY PartLootAt
<1>3. new \in Books(OfferIds)
  BY PartLootType
<1>4. /\ new.status = bk.status /\ new.minted = bk.minted
      /\ \A a \in Agents, m \in Materials :
            /\ new.inv[a][m] = CASE a = victim /\ m \in more -> bk.inv[a][m] - taken[m]
                                 [] a = thief /\ m \in got   -> bk.inv[a][m] + taken[m]
                                 [] OTHER                    -> bk.inv[a][m]
            /\ new.external[a][m] =
                  CASE a = victim /\ m \in more -> bk.external[a][m] - taken[m]
                    [] a = thief /\ m \in got   -> bk.external[a][m] + taken[m]
                    [] OTHER                    -> bk.external[a][m]
  BY PartLootAt
<1>5. \A x \in Agents, y \in Materials :
         /\ new.inv[x][y] = IF x = victim /\ y = n THEN qty ELSE part.inv[x][y]
         /\ new.external[x][y] =
               IF x = victim /\ y = n THEN part.external[victim][n] + (qty - part.inv[victim][n])
               ELSE part.external[x][y]
  <2> SUFFICES ASSUME NEW x \in Agents, NEW y \in Materials
               PROVE  /\ new.inv[x][y] = IF x = victim /\ y = n THEN qty ELSE part.inv[x][y]
                      /\ new.external[x][y] =
                            IF x = victim /\ y = n
                              THEN part.external[victim][n] + (qty - part.inv[victim][n])
                              ELSE part.external[x][y]
    OBVIOUS
  <2>1. CASE x = victim /\ y = n
    <3>1. bk.inv[victim][n] \in Int /\ bk.external[victim][n] \in Int /\ taken[n] \in Nat
      BY <1>2
    <3>2. part.inv[victim][n] = bk.inv[victim][n] /\ part.external[victim][n] = bk.external[victim][n]
      BY <1>2
    <3>3. /\ new.inv[x][y] = qty
          /\ new.external[x][y] = bk.external[victim][n] - taken[n]
      BY <1>4, <2>1
    <3> QED
      BY <2>1, <3>1, <3>2, <3>3
  <2>2. CASE ~(x = victim /\ y = n)
    <3>1. x = victim => (y \in more <=> y \in gone)
      BY <2>2
    <3>2. new.inv[x][y] = part.inv[x][y] /\ new.external[x][y] = part.external[x][y]
      <4>1. /\ part.inv[x][y] = CASE x = victim /\ y \in gone -> bk.inv[x][y] - taken[y]
                                [] x = thief /\ y \in got   -> bk.inv[x][y] + taken[y]
                                [] OTHER                    -> bk.inv[x][y]
            /\ part.external[x][y] =
                  CASE x = victim /\ y \in gone -> bk.external[x][y] - taken[y]
                    [] x = thief /\ y \in got   -> bk.external[x][y] + taken[y]
                    [] OTHER                    -> bk.external[x][y]
        BY <1>2
      <4>2. /\ new.inv[x][y] = CASE x = victim /\ y \in more -> bk.inv[x][y] - taken[y]
                                [] x = thief /\ y \in got   -> bk.inv[x][y] + taken[y]
                                [] OTHER                    -> bk.inv[x][y]
            /\ new.external[x][y] =
                  CASE x = victim /\ y \in more -> bk.external[x][y] - taken[y]
                    [] x = thief /\ y \in got   -> bk.external[x][y] + taken[y]
                    [] OTHER                    -> bk.external[x][y]
        BY <1>4
      <4> QED
        BY <3>1, <4>1, <4>2
    <3> QED
      BY <2>2, <3>2
  <2> QED
    BY <2>1, <2>2
<1>6. qty \in Int
  BY <1>2
<1>7. new.status = part.status /\ new.minted = part.minted
  BY <1>2, <1>4
<1>8. IsSet(part, victim, n, qty, new)
  BY <1>5, <1>7 DEF IsSet
<1>9. SetInventory(part, victim, n, qty, b) = new
  BY <1>1, <1>3, <1>6, <1>8, SetInventoryIs
<1> QED
  BY <1>9

LEMMA CreditStep ==
    ASSUME NEW bk \in Books(OfferIds), NEW thief \in Agents, NEW victim \in Agents,
           thief # victim, NEW taken \in Bundles, NEW gone, NEW got, NEW n \in Materials,
           n \notin got, NEW b \in BOOLEAN, ~b,
           NEW part, part = PartLoot(bk, thief, victim, taken, gone, got),
           NEW qty, qty = bk.inv[thief][n] + taken[n], NEW more, more = got \cup {n},
           NEW new, new = PartLoot(bk, thief, victim, taken, gone, more)
    PROVE  SetInventory(part, thief, n, qty, b) = new
<1>1. part \in Books(OfferIds)
  BY PartLootType
<1>2. /\ part.status = bk.status /\ part.minted = bk.minted
      /\ \A a \in Agents, m \in Materials :
            /\ bk.inv[a][m] \in Int /\ bk.external[a][m] \in Int /\ taken[m] \in Nat
            /\ part.inv[a][m] = CASE a = victim /\ m \in gone -> bk.inv[a][m] - taken[m]
                                  [] a = thief /\ m \in got   -> bk.inv[a][m] + taken[m]
                                  [] OTHER                    -> bk.inv[a][m]
            /\ part.external[a][m] =
                  CASE a = victim /\ m \in gone -> bk.external[a][m] - taken[m]
                    [] a = thief /\ m \in got   -> bk.external[a][m] + taken[m]
                    [] OTHER                    -> bk.external[a][m]
  BY PartLootAt
<1>3. new \in Books(OfferIds)
  BY PartLootType
<1>4. /\ new.status = bk.status /\ new.minted = bk.minted
      /\ \A a \in Agents, m \in Materials :
            /\ new.inv[a][m] = CASE a = victim /\ m \in gone -> bk.inv[a][m] - taken[m]
                                 [] a = thief /\ m \in more -> bk.inv[a][m] + taken[m]
                                 [] OTHER                    -> bk.inv[a][m]
            /\ new.external[a][m] =
                  CASE a = victim /\ m \in gone -> bk.external[a][m] - taken[m]
                    [] a = thief /\ m \in more -> bk.external[a][m] + taken[m]
                    [] OTHER                    -> bk.external[a][m]
  BY PartLootAt
<1>5. \A x \in Agents, y \in Materials :
         /\ new.inv[x][y] = IF x = thief /\ y = n THEN qty ELSE part.inv[x][y]
         /\ new.external[x][y] =
               IF x = thief /\ y = n THEN part.external[thief][n] + (qty - part.inv[thief][n])
               ELSE part.external[x][y]
  <2> SUFFICES ASSUME NEW x \in Agents, NEW y \in Materials
               PROVE  /\ new.inv[x][y] = IF x = thief /\ y = n THEN qty ELSE part.inv[x][y]
                      /\ new.external[x][y] =
                            IF x = thief /\ y = n
                              THEN part.external[thief][n] + (qty - part.inv[thief][n])
                              ELSE part.external[x][y]
    OBVIOUS
  <2>1. CASE x = thief /\ y = n
    <3>1. bk.inv[thief][n] \in Int /\ bk.external[thief][n] \in Int /\ taken[n] \in Nat
      BY <1>2
    <3>2. part.inv[thief][n] = bk.inv[thief][n] /\ part.external[thief][n] = bk.external[thief][n]
      BY <1>2
    <3>3. /\ new.inv[x][y] = qty
          /\ new.external[x][y] = bk.external[thief][n] + taken[n]
      BY <1>4, <2>1
    <3> QED
      BY <2>1, <3>1, <3>2, <3>3
  <2>2. CASE ~(x = thief /\ y = n)
    <3>1. x = thief => (y \in more <=> y \in got)
      BY <2>2
    <3>2. new.inv[x][y] = part.inv[x][y] /\ new.external[x][y] = part.external[x][y]
      <4>1. /\ part.inv[x][y] = CASE x = victim /\ y \in gone -> bk.inv[x][y] - taken[y]
                                [] x = thief /\ y \in got   -> bk.inv[x][y] + taken[y]
                                [] OTHER                    -> bk.inv[x][y]
            /\ part.external[x][y] =
                  CASE x = victim /\ y \in gone -> bk.external[x][y] - taken[y]
                    [] x = thief /\ y \in got   -> bk.external[x][y] + taken[y]
                    [] OTHER                    -> bk.external[x][y]
        BY <1>2
      <4>2. /\ new.inv[x][y] = CASE x = victim /\ y \in gone -> bk.inv[x][y] - taken[y]
                                [] x = thief /\ y \in more   -> bk.inv[x][y] + taken[y]
                                [] OTHER                    -> bk.inv[x][y]
            /\ new.external[x][y] =
                  CASE x = victim /\ y \in gone -> bk.external[x][y] - taken[y]
                    [] x = thief /\ y \in more   -> bk.external[x][y] + taken[y]
                    [] OTHER                    -> bk.external[x][y]
        BY <1>4
      <4> QED
        BY <3>1, <4>1, <4>2
    <3> QED
      BY <2>2, <3>2
  <2> QED
    BY <2>1, <2>2
<1>6. qty \in Int
  BY <1>2
<1>7. new.status = part.status /\ new.minted = part.minted
  BY <1>2, <1>4
<1>8. IsSet(part, thief, n, qty, new)
  BY <1>5, <1>7 DEF IsSet
<1>9. SetInventory(part, thief, n, qty, b) = new
  BY <1>1, <1>3, <1>6, <1>8, SetInventoryIs
<1> QED
  BY <1>9

(* Goods on their way from victim to thief are in no book.                 *)
LEMMA PartLootSound ==
    ASSUME NEW bk \in Books(OfferIds), Sound(bk), NEW thief \in Agents, NEW victim \in Agents,
           thief # victim, NEW taken \in Bundles, NEW gone, NEW got \in SUBSET gone,
           \A m \in Materials : m \in gone => taken[m] <= bk.inv[victim][m],
           NEW part, part = PartLoot(bk, thief, victim, taken, gone, got)
    PROVE  Sound(part)
<1>1. part \in Books(OfferIds)
  BY PartLootType
<1>2. /\ part.minted = bk.minted
      /\ \A a \in Agents, m \in Materials :
            /\ bk.inv[a][m] \in Int /\ taken[m] \in Nat
            /\ part.inv[a][m] = CASE a = victim /\ m \in gone -> bk.inv[a][m] - taken[m]
                                  [] a = thief /\ m \in got   -> bk.inv[a][m] + taken[m]
                                  [] OTHER                    -> bk.inv[a][m]
  BY PartLootAt
<1>3. ASSUME NEW a \in Agents, NEW m \in Materials PROVE part.inv[a][m] >= 0
  <2>1. bk.inv[a][m] >= 0
    BY DEF Sound
  <2> QED
    BY <1>2, <2>1
<1>4. ASSUME NEW m \in Materials PROVE Total(part, m) <= part.minted[m]
  <2>1. \A z \in Agents \ {thief, victim} : part.inv[z][m] = bk.inv[z][m]
    BY <1>2
  <2>2. Total(part, m) = Total(bk, m) + (part.inv[thief][m] - bk.inv[thief][m])
                                      + (part.inv[victim][m] - bk.inv[victim][m])
    BY <1>1, <2>1, TotalChanges
  <2>3. Total(bk, m) \in Int /\ bk.minted[m] \in Int /\ Total(bk, m) <= bk.minted[m]
    BY TotalOfColumn DEF Sound
  <2>4. /\ bk.inv[thief][m] \in Int /\ bk.inv[victim][m] \in Int /\ taken[m] \in Nat
        /\ part.inv[thief][m] = IF m \in got THEN bk.inv[thief][m] + taken[m]
                                ELSE bk.inv[thief][m]
        /\ part.inv[victim][m] = IF m \in gone THEN bk.inv[victim][m] - taken[m]
                                 ELSE bk.inv[victim][m]
        /\ m \in got => m \in gone
    BY <1>2
  <2>5. Total(part, m) <= Total(bk, m)
    BY <2>2, <2>3, <2>4
  <2>6. Total(part, m) \in Int
    BY <1>1, TotalOfColumn
  <2>7. part.minted[m] = bk.minted[m]
    BY <1>2
  <2> QED
    BY <2>3, <2>5, <2>6, <2>7
<1> QED
  BY <1>3, <1>4 DEF Sound

Loot(taken) == {m \in Materials : taken[m] > 0}

LEMMA PartLootEnds ==
    ASSUME NEW bk \in Books(OfferIds), NEW thief \in Agents, NEW victim \in Agents,
           thief # victim, NEW taken \in Bundles, NEW S, S = Loot(taken)
    PROVE  /\ PartLoot(bk, thief, victim, taken, {}, {}) = bk
           /\ PartLoot(bk, thief, victim, taken, S, S) = MoveLoot(bk, thief, victim, taken)
<1>1. ASSUME NEW first, first = PartLoot(bk, thief, victim, taken, {}, {})
      PROVE  first = bk
  <2>1. first \in Books(OfferIds)
    BY <1>1, PartLootType
  <2>2. /\ first.status = bk.status /\ first.minted = bk.minted
        /\ \A a \in Agents, m \in Materials :
              /\ first.inv[a][m] = CASE a = victim /\ m \in {} -> bk.inv[a][m] - taken[m]
                                     [] a = thief /\ m \in {}  -> bk.inv[a][m] + taken[m]
                                     [] OTHER                  -> bk.inv[a][m]
              /\ first.external[a][m] =
                    CASE a = victim /\ m \in {} -> bk.external[a][m] - taken[m]
                      [] a = thief /\ m \in {}  -> bk.external[a][m] + taken[m]
                      [] OTHER                  -> bk.external[a][m]
    BY <1>1, PartLootAt
  <2>3. \A a \in Agents, m \in Materials :
           first.inv[a][m] = bk.inv[a][m] /\ first.external[a][m] = bk.external[a][m]
    BY <2>2
  <2> QED
    BY <2>1, <2>2, <2>3, SameBook
<1>2. ASSUME NEW last, last = PartLoot(bk, thief, victim, taken, S, S),
             NEW moved, moved = MoveLoot(bk, thief, victim, taken)
      PROVE  last = moved
  <2>1. last \in Books(OfferIds) /\ moved \in Books(OfferIds)
    BY <1>2, PartLootType, MoveLootType
  <2>2. /\ last.status = bk.status /\ last.minted = bk.minted
        /\ \A a \in Agents, m \in Materials :
              /\ bk.inv[a][m] \in Int /\ bk.external[a][m] \in Int /\ taken[m] \in Nat
              /\ last.inv[a][m] = CASE a = victim /\ m \in S -> bk.inv[a][m] - taken[m]
                                    [] a = thief /\ m \in S  -> bk.inv[a][m] + taken[m]
                                    [] OTHER                 -> bk.inv[a][m]
              /\ last.external[a][m] =
                    CASE a = victim /\ m \in S -> bk.external[a][m] - taken[m]
                      [] a = thief /\ m \in S  -> bk.external[a][m] + taken[m]
                      [] OTHER                 -> bk.external[a][m]
    BY <1>2, PartLootAt
  <2>3. /\ moved.status = bk.status /\ moved.minted = bk.minted
        /\ \A a \in Agents, m \in Materials :
              /\ moved.inv[a][m] = CASE a = victim -> bk.inv[a][m] - taken[m]
                                     [] a = thief  -> bk.inv[a][m] + taken[m]
                                     [] OTHER      -> bk.inv[a][m]
              /\ moved.external[a][m] = CASE a = victim -> bk.external[a][m] - taken[m]
                                          [] a = thief  -> bk.external[a][m] + taken[m]
                                          [] OTHER      -> bk.external[a][m]
    BY <1>2 DEF MoveLoot, PartLoot, Carried, Books
  <2>4. \A m \in Materials : m \notin S => taken[m] = 0
    BY <2>2 DEF Bundles, Loot
  <2>5. \A a \in Agents, m \in Materials :
           last.inv[a][m] = moved.inv[a][m] /\ last.external[a][m] = moved.external[a][m]
    BY <2>2, <2>3, <2>4
  <2>6. last.status = moved.status /\ last.minted = moved.minted
    BY <2>2, <2>3
  <2> QED
    BY <2>1, <2>5, <2>6, SameBook
<1> QED
  BY <1>1, <1>2

(* The materials that have left the victim and reached the thief after i   *)
(* of the lines of a theft.                                                *)
Gone(order, i) == {order[j] : j \in {j \in 1..Len(order) : 2 * j - 1 <= i}}
Got(order, i) == {order[j] : j \in {j \in 1..Len(order) : 2 * j <= i}}

LEMMA GoneAndGot ==
    ASSUME NEW order, Len(order) \in Nat,
           \A i, j \in 1..Len(order) : i # j => order[i] # order[j]
    PROVE  /\ Gone(order, 0) = {} /\ Got(order, 0) = {}
           /\ Gone(order, 2 * Len(order)) = {order[j] : j \in 1..Len(order)}
           /\ Got(order, 2 * Len(order)) = {order[j] : j \in 1..Len(order)}
           /\ \A i \in Nat : Got(order, i) \subseteq Gone(order, i)
           /\ \A i \in Nat : Gone(order, i) \subseteq {order[j] : j \in 1..Len(order)}
           /\ \A j \in 1..Len(order) :
                 /\ Gone(order, 2 * j - 1) = Gone(order, 2 * j - 2) \cup {order[j]}
                 /\ Got(order, 2 * j - 1) = Got(order, 2 * j - 2)
                 /\ order[j] \notin Gone(order, 2 * j - 2)
                 /\ Gone(order, 2 * j) = Gone(order, 2 * j - 1)
                 /\ Got(order, 2 * j) = Got(order, 2 * j - 1) \cup {order[j]}
                 /\ order[j] \notin Got(order, 2 * j - 1)
<1> DEFINE n == Len(order)
<1>1. Gone(order, 0) = {} /\ Got(order, 0) = {}
  BY DEF Gone, Got
<1>2. /\ Gone(order, 2 * n) = {order[j] : j \in 1..n}
      /\ Got(order, 2 * n) = {order[j] : j \in 1..n}
  BY DEF Gone, Got
<1>3. \A i \in Nat : /\ Got(order, i) \subseteq Gone(order, i)
                     /\ Gone(order, i) \subseteq {order[j] : j \in 1..n}
  BY DEF Gone, Got
<1>4. ASSUME NEW j \in 1..n
      PROVE  /\ Gone(order, 2 * j - 1) = Gone(order, 2 * j - 2) \cup {order[j]}
             /\ order[j] \notin Gone(order, 2 * j - 2)
             /\ Gone(order, 2 * j) = Gone(order, 2 * j - 1)
  <2>1. \A i \in 1..n : /\ 2 * i - 1 <= 2 * j - 1 <=> 2 * i - 1 <= 2 * j - 2 \/ i = j
                        /\ 2 * i - 1 <= 2 * j - 2 => i # j
                        /\ 2 * i - 1 <= 2 * j <=> 2 * i - 1 <= 2 * j - 1
    OBVIOUS
  <2> QED
    BY <2>1 DEF Gone
<1>5. ASSUME NEW j \in 1..n
      PROVE  /\ Got(order, 2 * j - 1) = Got(order, 2 * j - 2)
             /\ Got(order, 2 * j) = Got(order, 2 * j - 1) \cup {order[j]}
             /\ order[j] \notin Got(order, 2 * j - 1)
  <2>1. \A i \in 1..n : /\ 2 * i <= 2 * j - 1 <=> 2 * i <= 2 * j - 2
                        /\ 2 * i <= 2 * j <=> 2 * i <= 2 * j - 1 \/ i = j
                        /\ 2 * i <= 2 * j - 1 => i # j
    OBVIOUS
  <2> QED
    BY <2>1 DEF Got
<1> QED
  BY <1>1, <1>2, <1>3, <1>4, <1>5

WithBook(r, bk) == [own |-> r.own, trade |-> bk, theft |-> r.theft]

LEMMA LootPath ==
    ASSUME NEW dd, NEW ofs, NEW r \in Ledgers(Len(dd)), Sane(r),
           NEW thief \in Agents, NEW victim \in Agents, thief # victim, NEW taken \in Bundles,
           NEW S, S = {m \in Materials : taken[m] > 0},
           \A m \in S : taken[m] <= r.trade.inv[victim][m],
           NEW order \in SetToSeqs(S)
    PROVE  \E path : IsPath(path, r, dd, ofs, LootLines(r.trade.inv, thief, victim, taken, order),
                            WithBook(r, MoveLoot(r.trade, thief, victim, taken)))
<1> DEFINE bk == r.trade
           n == Len(order)
           lines == LootLines(bk.inv, thief, victim, taken, order)
           Part(i) == PartLoot(bk, thief, victim, taken, Gone(order, i), Got(order, i))
           path == [i \in 0..(2 * n) |-> WithBook(r, Part(i))]
           final == WithBook(r, MoveLoot(bk, thief, victim, taken))
<1>1. bk \in Books(OfferIds) /\ Sound(bk) /\ bk.inv \in [Agents -> [Materials -> Int]]
  BY DEF Ledgers, Sane, Books
<1>2. /\ order \in Seq(Materials) /\ n \in Nat
      /\ \A i, j \in 1..n : i # j => order[i] # order[j]
      /\ {order[j] : j \in 1..n} = S
      /\ S \subseteq Materials
  <2>1. S \subseteq Materials
    OBVIOUS
  <2>2. /\ order \in Seq(S) /\ n \in Nat
        /\ \A i, j \in 1..n : i # j => order[i] # order[j]
        /\ \A m \in S : \E i \in 1..n : order[i] = m
    BY <2>1, OrderType, SMTT(30)
  <2>3. order \in Seq(Materials)
    BY <2>1, <2>2
  <2>4. \A j \in 1..n : order[j] \in S
    BY <2>2
  <2>5. {order[j] : j \in 1..n} = S
    BY <2>2, <2>4, SMTT(30)
  <2> QED
    BY <2>1, <2>2, <2>3, <2>5
<1>3. Len(lines) = 2 * n
  BY <1>1, <1>2, LootLinesType
<1>4. path[0] = r /\ path[2 * n] = final
  <2>1. Part(0) = bk /\ Part(2 * n) = MoveLoot(bk, thief, victim, taken)
    <3>1. /\ Gone(order, 0) = {} /\ Got(order, 0) = {}
          /\ Gone(order, 2 * n) = S /\ Got(order, 2 * n) = S
      BY <1>2, GoneAndGot
    <3>2. /\ PartLoot(bk, thief, victim, taken, {}, {}) = bk
          /\ PartLoot(bk, thief, victim, taken, S, S) = MoveLoot(bk, thief, victim, taken)
      <4>1. PICK book \in Books(OfferIds) : book = bk
        BY <1>1
      <4>2. S = Loot(taken)
        BY DEF Loot
      <4>3. /\ PartLoot(book, thief, victim, taken, {}, {}) = book
            /\ PartLoot(book, thief, victim, taken, S, S) = MoveLoot(book, thief, victim, taken)
        BY ONLY thief \in Agents, victim \in Agents, thief # victim, taken \in Bundles,
                <4>2, PartLootEnds
      <4> HIDE DEF bk
      <4> QED
        BY <4>1, <4>3
    <3> HIDE DEF n, bk
    <3> QED
      BY <3>1, <3>2
  <2>2. path[0] = WithBook(r, Part(0)) /\ path[2 * n] = WithBook(r, Part(2 * n))
    BY <1>2
  <2>3. WithBook(r, bk) = r
    BY DEF WithBook, Ledgers
  <2> HIDE DEF path, Part, n, bk
  <2> QED
    BY <2>1, <2>2, <2>3
<1>5. ASSUME NEW i \in 0..(2 * n) PROVE path[i] \in Ledgers(Len(dd)) /\ Sane(path[i])
  <2>1. path[i] = WithBook(r, Part(i)) /\ i \in Nat
    BY <1>2
  <2>2. Part(i) \in Books(OfferIds)
    BY <1>1, PartLootType
  <2>3. Got(order, i) \subseteq Gone(order, i) /\ Gone(order, i) \subseteq S
    BY <1>2, <2>1, GoneAndGot
  <2>4. Sound(Part(i))
    <3>1. \A m \in Materials : m \in Gone(order, i) => taken[m] <= bk.inv[victim][m]
      BY <2>3
    <3> HIDE DEF bk
    <3> QED
      BY <1>1, <2>3, <3>1, PartLootSound
  <2> HIDE DEF Part, path, bk
  <2> QED
    BY <2>1, <2>2, <2>4 DEF WithBook, Ledgers, Sane
<1>6. ASSUME NEW j \in 1..n
      PROVE  /\ Part(2 * j - 1) = ReplayedTrade(Part(2 * j - 2), ofs, lines[2 * j - 1])
             /\ Part(2 * j) = ReplayedTrade(Part(2 * j - 1), ofs, lines[2 * j])
             /\ lines[2 * j - 1].log = "trade" /\ lines[2 * j].log = "trade"
  <2> DEFINE m == order[j]
             gone == Gone(order, 2 * j - 2)
             got == Got(order, 2 * j - 2)
             debit == lines[2 * j - 1]
             credit == lines[2 * j]
  <2>1. /\ m \in Materials
        /\ Gone(order, 2 * j - 1) = gone \cup {m} /\ Got(order, 2 * j - 1) = got
        /\ Gone(order, 2 * j) = gone \cup {m} /\ Got(order, 2 * j) = got \cup {m}
        /\ m \notin gone /\ m \notin got
    <3>1. /\ Gone(order, 2 * j - 1) = gone \cup {m} /\ Got(order, 2 * j - 1) = got
          /\ m \notin gone
          /\ Gone(order, 2 * j) = Gone(order, 2 * j - 1)
          /\ Got(order, 2 * j) = Got(order, 2 * j - 1) \cup {m}
          /\ m \notin Got(order, 2 * j - 1)
      BY <1>2, GoneAndGot
    <3>2. m \in Materials
      BY <1>2
    <3> HIDE DEF gone, got, m
    <3> QED
      BY <3>1, <3>2
  <2>2. /\ debit = LeftWith(bk.inv, victim, m, taken)
        /\ credit = GainedBy(bk.inv, thief, m, taken)
    <3>1. /\ 2 * j - 1 \in 1..(2 * n) /\ 2 * j \in 1..(2 * n)
          /\ (2 * j - 1) % 2 = 1 /\ (2 * j) % 2 # 1
          /\ ((2 * j - 1) + 1) \div 2 = j /\ (2 * j + 1) \div 2 = j
      BY <1>2
    <3> HIDE DEF bk
    <3> QED
      BY <3>1 DEF LootLines
  <2>3. /\ debit.log = "trade" /\ debit.ev = "inventory_set" /\ debit.agent = victim
        /\ debit.material = m /\ debit.qty = bk.inv[victim][m] - taken[m]
        /\ debit.bootstrap \in BOOLEAN /\ ~debit.bootstrap
        /\ credit.log = "trade" /\ credit.ev = "inventory_set" /\ credit.agent = thief
        /\ credit.material = m /\ credit.qty = bk.inv[thief][m] + taken[m]
        /\ credit.bootstrap \in BOOLEAN /\ ~credit.bootstrap
    <3> HIDE DEF debit, credit, m, bk
    <3> QED
      BY <2>2 DEF LeftWith, GainedBy, SetLine
  <2> HIDE DEF debit, credit, m, gone, got, bk
  <2>4. /\ Part(2 * j - 2) = PartLoot(bk, thief, victim, taken, gone, got)
        /\ Part(2 * j - 1) = PartLoot(bk, thief, victim, taken, gone \cup {m}, got)
        /\ Part(2 * j) = PartLoot(bk, thief, victim, taken, gone \cup {m}, got \cup {m})
    BY <2>1 DEF gone, got
  <2>5. SetInventory(Part(2 * j - 2), victim, m, bk.inv[victim][m] - taken[m], debit.bootstrap)
           = Part(2 * j - 1)
    <3>1. PICK b \in BOOLEAN : b = debit.bootstrap /\ ~b
      BY <2>3
    <3>2. SetInventory(PartLoot(bk, thief, victim, taken, gone, got), victim, m,
                       bk.inv[victim][m] - taken[m], b)
             = PartLoot(bk, thief, victim, taken, gone \cup {m}, got)
      <4>1. PICK part : part = PartLoot(bk, thief, victim, taken, gone, got)
        OBVIOUS
      <4>2. PICK book \in Books(OfferIds), item \in Materials : book = bk /\ item = m
        BY <1>1, <2>1
      <4>3. part = PartLoot(book, thief, victim, taken, gone, got)
        BY <4>1, <4>2
      <4>4. PICK qty, more, new :
               /\ qty = book.inv[victim][item] - taken[item] /\ more = gone \cup {item}
               /\ new = PartLoot(book, thief, victim, taken, more, got)
        OBVIOUS
      <4>5. SetInventory(part, victim, item, qty, b) = new
        <5>1. b \in BOOLEAN /\ ~b /\ item \notin gone
          BY <2>1, <3>1, <4>2
        <5> QED
          BY <4>2, <4>3, <4>4, <5>1, DebitStep
      <4> QED
        BY <4>1, <4>2, <4>4, <4>5
    <3> HIDE DEF Part
    <3> QED
      BY <2>4, <3>1, <3>2
  <2>6. SetInventory(Part(2 * j - 1), thief, m, bk.inv[thief][m] + taken[m], credit.bootstrap)
           = Part(2 * j)
    <3>1. PICK b \in BOOLEAN : b = credit.bootstrap /\ ~b
      BY <2>3
    <3>2. SetInventory(PartLoot(bk, thief, victim, taken, gone \cup {m}, got), thief, m,
                       bk.inv[thief][m] + taken[m], b)
             = PartLoot(bk, thief, victim, taken, gone \cup {m}, got \cup {m})
      <4>1. PICK part : part = PartLoot(bk, thief, victim, taken, gone \cup {m}, got)
        OBVIOUS
      <4>2. PICK book \in Books(OfferIds), item \in Materials : book = bk /\ item = m
        BY <1>1, <2>1
      <4>3. part = PartLoot(book, thief, victim, taken, gone \cup {m}, got)
        BY <4>1, <4>2
      <4>4. PICK qty, more, new :
               /\ qty = book.inv[thief][item] + taken[item] /\ more = got \cup {item}
               /\ new = PartLoot(book, thief, victim, taken, gone \cup {item}, more)
        OBVIOUS
      <4>5. SetInventory(part, thief, item, qty, b) = new
        <5>1. b \in BOOLEAN /\ ~b /\ item \notin got
          BY <2>1, <3>1, <4>2
        <5> QED
          BY <4>2, <4>3, <4>4, <5>1, CreditStep
      <4> QED
        BY <4>1, <4>2, <4>4, <4>5
    <3> HIDE DEF Part
    <3> QED
      BY <2>4, <3>1, <3>2
  <2> HIDE DEF Part, lines
  <2>7. /\ ReplayedTrade(Part(2 * j - 2), ofs, debit) = Part(2 * j - 1)
        /\ ReplayedTrade(Part(2 * j - 1), ofs, credit) = Part(2 * j)
    BY <2>3, <2>5, <2>6 DEF ReplayedTrade
  <2> QED
    BY <2>3, <2>7 DEF debit, credit
<1>7. ASSUME NEW i \in 1..(2 * n) PROVE path[i] = OneReplay(path[i-1], dd, ofs, lines[i])
  <2>1. Part(i) = ReplayedTrade(Part(i - 1), ofs, lines[i]) /\ lines[i].log = "trade"
    <3>1. \E j \in 1..n : i = 2 * j - 1 \/ i = 2 * j
      <4>1. CASE i % 2 = 1
        <5>1. (i + 1) \div 2 \in 1..n /\ i = 2 * ((i + 1) \div 2) - 1
          BY <1>2, <4>1
        <5> QED
          BY <5>1
      <4>2. CASE i % 2 # 1
        <5>1. i \div 2 \in 1..n /\ i = 2 * (i \div 2)
          BY <1>2, <4>2
        <5> QED
          BY <5>1
      <4> QED
        BY <4>1, <4>2
    <3>2. PICK j \in 1..n : i = 2 * j - 1 \/ i = 2 * j
      BY <3>1
    <3>3. (2 * j - 1) - 1 = 2 * j - 2
      OBVIOUS
    <3> HIDE DEF Part, lines, n
    <3> QED
      BY <1>6, <3>2, <3>3
  <2>2. path[i] = WithBook(r, Part(i)) /\ path[i-1] = WithBook(r, Part(i-1))
    BY <1>2
  <2> HIDE DEF path, Part, lines
  <2> QED
    BY <2>1, <2>2 DEF WithBook, OneReplay
<1> HIDE DEF path, lines, final, n
<1>8. IsPath(path, r, dd, ofs, lines, final)
  BY <1>3, <1>4, <1>5, <1>7 DEF IsPath
<1>9. \E p : IsPath(p, r, dd, ofs, lines, final)
  BY <1>8
<1> QED
  BY <1>9 DEF lines, final

-----------------------------------------------------------------------------
(* What the logs hold is what the operations did.                          *)

Images == [own |-> disk.own.img, trade |-> disk.trade.img, theft |-> disk.theft.img]

Clean(f) == f.tail = "closed" /\ f.base = f.img

(* The lines yet to be appended lead from r to final.                      *)
Leads(r, dd, ofs, lines, final) == \E path : IsPath(path, r, dd, ofs, lines, final)

LogsLead ==
    /\ Clean(disk.own) /\ Clean(disk.trade) /\ Clean(disk.theft)
    /\ Leads(Images, deeds, offers, queue, mem)

PathInv == KeyInv /\ (faults = 0 => LogsLead)

LEMMA PathEnds ==
    ASSUME NEW r, NEW dd, NEW ofs, NEW S, NEW lines \in Seq(S), NEW final,
           Leads(r, dd, ofs, lines, final)
    PROVE  /\ r \in Ledgers(Len(dd)) /\ Sane(r)
           /\ final \in Ledgers(Len(dd)) /\ Sane(final)
<1>1. PICK path : IsPath(path, r, dd, ofs, lines, final)
  BY DEF Leads
<1>2. 0 \in 0..Len(lines) /\ Len(lines) \in 0..Len(lines)
  OBVIOUS
<1>3. path[0] = r /\ path[Len(lines)] = final
  BY <1>1 DEF IsPath
<1>4. \A i \in 0..Len(lines) : path[i] \in Ledgers(Len(dd)) /\ Sane(path[i])
  BY <1>1 DEF IsPath
<1> QED
  BY <1>2, <1>3, <1>4

LEMMA NothingLeft ==
    ASSUME NEW r, NEW dd, NEW ofs, NEW lines, lines = <<>>, NEW final,
           Leads(r, dd, ofs, lines, final)
    PROVE  r = final
<1>1. PICK path : IsPath(path, r, dd, ofs, lines, final)
  BY DEF Leads
<1>2. Len(lines) = 0
  OBVIOUS
<1> QED
  BY <1>1, <1>2 DEF IsPath

LEMMA TradeReplay ==
    ASSUME NEW n, NEW r \in Ledgers(n), NEW dd, NEW ofs, NEW line, line.log = "trade"
    PROVE  OneReplay(r, dd, ofs, line) = WithBook(r, ReplayedTrade(r.trade, ofs, line))
BY DEF OneReplay, WithBook

LEMMA SetReplay ==
    ASSUME NEW bk, NEW ofs, NEW a, NEW m, NEW qty, NEW b \in BOOLEAN
    PROVE  /\ SetLine(a, m, qty, b).log = "trade"
           /\ ReplayedTrade(bk, ofs, SetLine(a, m, qty, b)) = SetInventory(bk, a, m, qty, b)
BY DEF ReplayedTrade, SetLine

LEMMA OfferReplay ==
    ASSUME NEW bk, NEW ofs, NEW o
    PROVE  /\ \A ev : TradeLine(ev, o).log = "trade"
           /\ ReplayedTrade(bk, ofs, TradeLine("proposed", o)) = Propose(bk, o)
           /\ bk.status[o] = "pending" =>
                 /\ ReplayedTrade(bk, ofs, TradeLine("accepted", o)) = Settle(bk, o, ofs[o])
                 /\ ReplayedTrade(bk, ofs, TradeLine("rejected", o)) = Decline(bk, o)
<1>1. /\ \A ev : TradeLine(ev, o).log = "trade"
      /\ \A ev : TradeLine(ev, o).ev = ev /\ TradeLine(ev, o).id = o
  BY DEF TradeLine
<1> QED
  BY <1>1 DEF ReplayedTrade, ReplayAccepted, ReplayRejected

(* One line that changes the trade ledger, appended to lines that lead to  *)
(* mid.                                                                    *)
LEMMA TradeLineLeads ==
    ASSUME NEW S, NEW lines \in Seq(S), NEW line, line.log = "trade", NEW dd, NEW ofs, NEW r,
           NEW mid, Leads(r, dd, ofs, lines, mid),
           NEW bk \in Books(OfferIds), bk = ReplayedTrade(mid.trade, ofs, line), Sound(bk)
    PROVE  Leads(r, dd, ofs, Append(lines, line), WithBook(mid, bk))
<1>1. mid \in Ledgers(Len(dd)) /\ Sane(mid)
  BY PathEnds
<1>2. PICK path : IsPath(path, r, dd, ofs, lines, mid)
  BY DEF Leads
<1> DEFINE final == WithBook(mid, bk)
<1>3. final = OneReplay(mid, dd, ofs, line)
  BY <1>1, TradeReplay
<1>4. final \in Ledgers(Len(dd)) /\ Sane(final)
  BY <1>1 DEF WithBook, Ledgers, Sane
<1> HIDE DEF final
<1>5. \E longer : IsPath(longer, r, dd, ofs, Append(lines, line), final)
  BY <1>2, <1>3, <1>4, PathGrows
<1> QED
  BY <1>5 DEF Leads, final

LEMMA NoLinesLead ==
    ASSUME NEW dd, NEW ofs, NEW r \in Ledgers(Len(dd)), Sane(r)
    PROVE  Leads(r, dd, ofs, <<>>, r)
BY EmptyPath DEF Leads

LEMMA OneTradeLineLeads ==
    ASSUME NEW line, line.log = "trade", NEW dd, NEW ofs, NEW r \in Ledgers(Len(dd)), Sane(r),
           NEW bk \in Books(OfferIds), bk = ReplayedTrade(r.trade, ofs, line), Sound(bk)
    PROVE  Leads(r, dd, ofs, <<line>>, WithBook(r, bk))
<1>1. Leads(r, dd, ofs, <<>>, r)
  BY NoLinesLead
<1>2. <<>> \in Seq({}) /\ Append(<<>>, line) = <<line>>
  OBVIOUS
<1>3. Leads(r, dd, ofs, Append(<<>>, line), WithBook(r, bk))
  BY <1>1, <1>2, TradeLineLeads
<1> QED
  BY <1>2, <1>3

Follows == Leads(mem, deeds', offers', queue', mem')

LEMMA SeedFollows ==
    ASSUME KeyInv, Sane(mem), NEW a \in Agents, NEW m \in Materials, NEW qty \in Stocks,
           Seed(a, m, qty)
    PROVE  Follows
<1>1. /\ deeds' = deeds /\ offers' = offers
      /\ queue' = <<SetLine(a, m, qty, TRUE)>>
      /\ mem' = [mem EXCEPT !.trade = SetInventory(@, a, m, qty, TRUE)]
  BY DEF Seed
<1>2. mem \in Ledgers(Len(deeds)) /\ mem.trade \in Books(OfferIds) /\ Sound(mem.trade)
  BY BasicTypes DEF KeyInv, Sane
<1>3. qty \in Nat /\ qty \in Int /\ TRUE \in BOOLEAN
  BY EconomyAssumption
<1>4. MaxOffers \in Nat
  BY EconomyAssumption
<1> DEFINE new(b) == SetInventory(mem.trade, a, m, qty, b)
<1>5. \A b \in BOOLEAN : new(b) \in Books(OfferIds)
  BY <1>2, <1>3, SetInventoryType
<1>6. Sound(new(TRUE))
  BY <1>2, <1>3, SeedSound
<1>7. ASSUME NEW b \in BOOLEAN, Sound(new(b))
      PROVE  Leads(mem, deeds, offers, <<SetLine(a, m, qty, b)>>, WithBook(mem, new(b)))
  <2>1. PICK line : line = SetLine(a, m, qty, b)
    OBVIOUS
  <2>2. line.log = "trade" /\ ReplayedTrade(mem.trade, offers, line) = new(b)
    BY <2>1, SetReplay
  <2>3. new(b) \in Books(OfferIds)
    BY <1>5
  <2>4. PICK bk \in Books(OfferIds) : bk = new(b)
    BY <2>3
  <2> HIDE DEF new
  <2>5. Leads(mem, deeds, offers, <<line>>, WithBook(mem, bk))
    BY <1>2, <1>7, <2>2, <2>4, OneTradeLineLeads
  <2> QED
    BY <2>1, <2>4, <2>5
<1>8. mem' = WithBook(mem, new(TRUE))
  BY <1>1, <1>2 DEF WithBook, Ledgers
<1> HIDE DEF new
<1>9. Leads(mem, deeds, offers, <<SetLine(a, m, qty, TRUE)>>, WithBook(mem, new(TRUE)))
  BY <1>3, <1>6, <1>7
<1> QED
  BY <1>1, <1>8, <1>9 DEF Follows

LEMMA ProposeFollows ==
    ASSUME KeyInv, Sane(mem), NEW a \in Agents, NEW b \in Agents, NEW terms \in OfferTerms,
           ProposeTrade(a, b, terms)
    PROVE  Follows
<1> DEFINE o == Len(offers) + 1
           bk == Propose(mem.trade, o)
<1>1. /\ deeds' = deeds /\ queue' = <<TradeLine("proposed", o)>> /\ o <= MaxOffers
      /\ mem' = [mem EXCEPT !.trade = bk]
  BY DEF ProposeTrade
<1>2. /\ mem \in Ledgers(Len(deeds)) /\ mem.trade \in Books(OfferIds) /\ Sound(mem.trade)
      /\ Len(offers) \in Nat
  BY BasicTypes DEF KeyInv, Sane
<1>3. o \in OfferIds
  BY <1>1, <1>2, EconomyAssumption DEF OfferIds
<1>4. bk \in Books(OfferIds) /\ bk.inv = mem.trade.inv /\ bk.minted = mem.trade.minted
  <2> HIDE DEF o
  <2>1. bk \in Books(OfferIds)
    BY <1>2, <1>3, BookTypes
  <2> QED
    BY <1>2, <2>1 DEF Propose, Books
<1>5. mem' = WithBook(mem, bk)
  BY <1>1, <1>2 DEF WithBook, Ledgers
<1>6. PICK line : line = TradeLine("proposed", o)
  OBVIOUS
<1> HIDE DEF o
<1>7. line.log = "trade" /\ bk = ReplayedTrade(mem.trade, offers', line)
  BY <1>6, OfferReplay
<1> HIDE DEF bk
<1>8. Sound(bk)
  BY <1>2, <1>4, StatusSound
<1>9. Leads(mem, deeds, offers', <<line>>, WithBook(mem, bk))
  BY <1>2, <1>4, <1>7, <1>8, OneTradeLineLeads
<1> QED
  BY <1>1, <1>5, <1>6, <1>9 DEF Follows

LEMMA RejectFollows ==
    ASSUME KeyInv, Sane(mem), NEW a \in Agents, NEW o \in 1..Len(offers), RejectTrade(a, o)
    PROVE  Follows
<1> DEFINE bk == Decline(mem.trade, o)
<1>1. /\ deeds' = deeds /\ offers' = offers /\ queue' = <<TradeLine("rejected", o)>>
      /\ mem' = [mem EXCEPT !.trade = bk] /\ mem.trade.status[o] = "pending"
  BY DEF RejectTrade
<1>2. /\ mem \in Ledgers(Len(deeds)) /\ mem.trade \in Books(OfferIds) /\ Sound(mem.trade)
      /\ o \in OfferIds
  BY BasicTypes DEF KeyInv, Sane
<1>4. bk \in Books(OfferIds) /\ bk.inv = mem.trade.inv /\ bk.minted = mem.trade.minted
  <2>1. bk \in Books(OfferIds)
    BY <1>2, BookTypes
  <2> QED
    BY <1>2, <2>1 DEF Decline, Books
<1>5. mem' = WithBook(mem, bk)
  BY <1>1, <1>2 DEF WithBook, Ledgers
<1>6. PICK line : line = TradeLine("rejected", o)
  OBVIOUS
<1>7. line.log = "trade" /\ bk = ReplayedTrade(mem.trade, offers, line)
  BY <1>1, <1>6, OfferReplay
<1> HIDE DEF bk
<1>8. Sound(bk)
  BY <1>2, <1>4, StatusSound
<1>9. Leads(mem, deeds, offers, <<line>>, WithBook(mem, bk))
  BY <1>2, <1>4, <1>7, <1>8, OneTradeLineLeads
<1> QED
  BY <1>1, <1>5, <1>6, <1>9 DEF Follows

LEMMA FirstStageLeads ==
    ASSUME KeyInv, Sane(mem)
    PROVE  /\ StagePath(mem, offers, NoLines) /\ IsStage(NoLines)
           /\ NoLines.deeds = deeds /\ NoLines.ix = mem.own
           /\ Keyed(NoLines.ix, NoLines.deeds)
<1>1. mem \in Ledgers(Len(deeds)) /\ EconomyTypes /\ Keyed(mem.own, deeds)
  BY BasicTypes DEF KeyInv
<1>2. IsStage(NoLines) /\ NoLines.deeds = deeds /\ NoLines.ix = mem.own
  BY <1>1, FirstStage DEF EconomyTypes
<1>3. WithIndex(mem, mem.own) = mem
  BY <1>1 DEF WithIndex, Ledgers
<1>4. NoLines.lines = <<>>
  BY DEF NoLines
<1>5. \E path : IsPath(path, mem, deeds, offers, <<>>, mem)
  BY <1>1, EmptyPath
<1>6. StagePath(mem, offers, NoLines)
  BY <1>2, <1>3, <1>4, <1>5 DEF StagePath
<1> QED
  BY <1>1, <1>2, <1>6

LEMMA StageFollows ==
    ASSUME KeyInv, NEW st, StagePath(mem, offers, st), offers' = offers,
           deeds' = st.deeds, queue' = st.lines, mem' = [mem EXCEPT !.own = st.ix]
    PROVE  Follows
<1>1. mem \in Ledgers(Len(deeds))
  BY BasicTypes DEF KeyInv
<1>2. mem' = WithIndex(mem, st.ix)
  BY <1>1 DEF WithIndex, Ledgers
<1> QED
  BY <1>2 DEF StagePath, Follows, Leads

LEMMA ChestsFollow ==
    ASSUME KeyInv, Sane(mem),
           \/ \E a \in Agents, k \in Chests : Claim(a, k)
           \/ \E c \in 1..Len(deeds) : Release(c)
    PROVE  Follows
<1>1. ASSUME NEW a \in Agents, NEW k \in Chests, Claim(a, k)
      PROVE  Follows
  <2> DEFINE st == ClaimChest(NoLines, a, k)
  <2>1. /\ offers' = offers /\ deeds' = st.deeds /\ queue' = st.lines
        /\ mem' = [mem EXCEPT !.own = st.ix]
    BY <1>1 DEF Claim
  <2>2. StagePath(mem, offers, st)
    BY FirstStageLeads, ClaimPath
  <2> HIDE DEF st
  <2> QED
    BY <2>1, <2>2, StageFollows
<1>2. ASSUME NEW c \in 1..Len(deeds), Release(c)
      PROVE  Follows
  <2> DEFINE st == ReleaseChest(NoLines, c)
  <2>1. /\ offers' = offers /\ deeds' = deeds /\ queue' = st.lines
        /\ mem' = [mem EXCEPT !.own = st.ix] /\ c \in Own!Held(mem.own)
    BY <1>2 DEF Release
  <2>2. StagePath(mem, offers, st)
    BY <2>1, FirstStageLeads, ReleasePath
  <2>3. st.deeds = deeds
    BY FirstStageLeads, ReleaseStage
  <2> HIDE DEF st
  <2> QED
    BY <2>1, <2>2, <2>3, StageFollows
<1> QED
  BY <1>1, <1>2

LEMMA AcceptFollows ==
    ASSUME KeyInv, Sane(mem), NEW a \in Agents, NEW o \in 1..Len(offers), AcceptTrade(a, o)
    PROVE  Follows
<1>1. PICK offer, moves, st : /\ offer = offers[o] /\ moves = Moves(offers[o])
                              /\ Steps(st, NoLines, moves, Len(moves))
                              /\ ContainerTransfers(offers[o]) = st[Len(moves)]
  BY AcceptStages DEF KeyInv
<1>2. PICK last : last = st[Len(moves)]
  OBVIOUS
<1>3. /\ offers' = offers /\ deeds' = last.deeds
      /\ queue' = Append(last.lines, TradeLine("accepted", o))
      /\ mem' = [mem EXCEPT !.trade = Settle(@, o, offer), !.own = last.ix]
      /\ Acceptable(mem.trade, o, offer, a)
  BY <1>1, <1>2 DEF AcceptTrade
<1>4. /\ mem \in Ledgers(Len(deeds)) /\ mem.trade \in Books(OfferIds) /\ Sound(mem.trade)
      /\ offer \in Offer /\ o \in OfferIds /\ offer.from # offer.to
  <2>1. EconomyTypes
    BY DEF KeyInv
  <2> QED
    BY <1>1, <2>1, BasicTypes DEF Sane, EconomyTypes
<1>5. IsStage(last)
  BY <1>1, <1>2, AcceptStages DEF KeyInv
<1>6. StagePath(mem, offers, last)
  <2>1. Steps(st, NoLines, Moves(offer), Len(Moves(offer)))
    BY <1>1
  <2>2. StagePath(mem, offers, st[Len(Moves(offer))])
    BY <1>4, <2>1, FirstStageLeads, TransfersPath
  <2> QED
    BY <1>1, <1>2, <2>2
<1>7. /\ mem.trade.status[o] = "pending"
      /\ HasInventory(mem.trade.inv, offer.from, offer.give)
      /\ HasInventory(mem.trade.inv, offer.to, offer.want)
  BY <1>3 DEF Acceptable
<1> DEFINE bk == Settle(mem.trade, o, offer)
           mid == WithIndex(mem, last.ix)
<1>8. Sound(bk) /\ bk \in Books(OfferIds)
  BY <1>4, <1>7, SettleSound, BookTypes
<1>9. PICK line : line = TradeLine("accepted", o)
  OBVIOUS
<1>10. line.log = "trade" /\ bk = ReplayedTrade(mem.trade, offers, line)
  BY <1>1, <1>7, <1>9, OfferReplay
<1>11. mid.trade = mem.trade
  BY DEF WithIndex
<1>12. Leads(mem, last.deeds, offers, last.lines, mid)
  BY <1>6 DEF StagePath, Leads
<1>13. last.lines \in Seq(OwnLines(Len(last.deeds)))
  BY <1>5 DEF IsStage, Stages
<1>14. mem' = WithBook(mid, bk)
  BY <1>3, <1>4 DEF WithBook, WithIndex, Ledgers
<1> HIDE DEF bk, mid
<1>15. Leads(mem, last.deeds, offers, Append(last.lines, line), WithBook(mid, bk))
  BY <1>8, <1>10, <1>11, <1>12, <1>13, TradeLineLeads
<1> QED
  BY <1>3, <1>9, <1>14, <1>15 DEF Follows

LEMMA TheftReplay ==
    ASSUME NEW th, NEW i, NEW d \in BOOLEAN
    PROVE  /\ TheftLine("attempt", i, d).log = "theft" /\ TheftLine("report", i, d).log = "theft"
           /\ ReplayTheft(th, TheftLine("attempt", i, d))
                 = [th EXCEPT ![i] = IF d THEN "detected" ELSE "secret"]
           /\ th[i] # "none" => ReplayTheft(th, TheftLine("report", i, d))
                                   = [th EXCEPT ![i] = "detected"]
<1>1. /\ TheftLine("attempt", i, d).log = "theft" /\ TheftLine("report", i, d).log = "theft"
      /\ TheftLine("attempt", i, d).ev = "attempt" /\ TheftLine("report", i, d).ev = "report"
      /\ TheftLine("attempt", i, d).id = i /\ TheftLine("report", i, d).id = i
      /\ TheftLine("attempt", i, d).detected <=> d
  BY DEF TheftLine
<1> QED
  BY <1>1 DEF ReplayTheft

(* One line that changes the theft ledger, appended to lines that lead to  *)
(* mid.                                                                    *)
LEMMA TheftLineLeads ==
    ASSUME NEW S, NEW lines \in Seq(S), NEW line, line.log = "theft", NEW dd, NEW ofs, NEW r,
           NEW mid, Leads(r, dd, ofs, lines, mid),
           NEW th \in Thefts, th = ReplayTheft(mid.theft, line)
    PROVE  Leads(r, dd, ofs, Append(lines, line),
                 [own |-> mid.own, trade |-> mid.trade, theft |-> th])
<1>1. mid \in Ledgers(Len(dd)) /\ Sane(mid)
  BY PathEnds
<1>2. PICK path : IsPath(path, r, dd, ofs, lines, mid)
  BY DEF Leads
<1> DEFINE final == [own |-> mid.own, trade |-> mid.trade, theft |-> th]
<1>3. final = OneReplay(mid, dd, ofs, line)
  BY <1>1 DEF OneReplay
<1>4. final \in Ledgers(Len(dd)) /\ Sane(final)
  BY <1>1 DEF Ledgers, Sane
<1> HIDE DEF final
<1>5. \E longer : IsPath(longer, r, dd, ofs, Append(lines, line), final)
  BY <1>2, <1>3, <1>4, PathGrows
<1> QED
  BY <1>5 DEF Leads, final

LEMMA StealFollows ==
    ASSUME KeyInv, Sane(mem), NEW thief \in Agents, NEW victim \in Agents, NEW k \in Chests,
           NEW loot \in Loots, NEW detected \in BOOLEAN, Steal(thief, victim, k, loot, detected)
    PROVE  Follows
<1>1. PICK i, taken, S, verdict :
           /\ i = Len(thefts) + 1 /\ taken = Takes(mem.trade.inv, victim, loot)
           /\ S = {m \in Materials : taken[m] > 0}
           /\ verdict = IF detected THEN "detected" ELSE "secret"
  OBVIOUS
<1>2. PICK order \in SetToSeqs(S) :
        queue' = Append(LootLines(mem.trade.inv, thief, victim, taken, order),
                        TheftLine("attempt", i, detected))
  BY <1>1 DEF Steal, Orders
<1>3. /\ mem \in Ledgers(Len(deeds)) /\ mem.trade \in Books(OfferIds) /\ mem.theft \in Thefts
      /\ mem.trade.inv \in [Agents -> [Materials -> Int]] /\ Len(thefts) \in Nat
  BY BasicTypes DEF KeyInv, Books
<1>4. /\ i <= MaxThefts /\ deeds' = deeds /\ offers' = offers /\ thief # victim
      /\ mem' = [mem EXCEPT !.trade = MoveLoot(mem.trade, thief, victim, taken),
                            !.theft = [mem.theft EXCEPT ![i] = verdict]]
  BY <1>1, <1>3 DEF Steal, Ledgers
<1>5. i \in TheftIds
  BY <1>1, <1>3, <1>4, EconomyAssumption DEF TheftIds
<1>6. taken \in Bundles /\ \A m \in Materials : taken[m] > 0 => taken[m] <= mem.trade.inv[victim][m]
  <2>1. loot \in Bundles
    BY EconomyAssumption
  <2> QED
    BY <1>1, <1>3, <2>1, TakesType
<1> DEFINE lines == LootLines(mem.trade.inv, thief, victim, taken, order)
           moved == MoveLoot(mem.trade, thief, victim, taken)
           mid == WithBook(mem, moved)
<1>7. Leads(mem, deeds, offers, lines, mid)
  <2>1. \A m \in S : taken[m] <= mem.trade.inv[victim][m]
    BY <1>1, <1>6
  <2>2. S = {m \in Materials : taken[m] > 0}
    BY <1>1
  <2> QED
    BY <1>3, <1>4, <1>6, <2>1, <2>2, LootPath DEF Leads
<1>8. lines \in Seq(Lines(0, 0, 0))
  <2>1. S \subseteq Materials
    BY <1>1
  <2>2. order \in Seq(S)
    BY <2>1, OrderType
  <2>3. order \in Seq(Materials)
    BY <2>1, <2>2
  <2> QED
    BY <1>3, <1>6, <2>3, LootLinesType
<1>9. PICK line, th : /\ line = TheftLine("attempt", i, detected)
                      /\ th = [mem.theft EXCEPT ![i] = verdict]
  OBVIOUS
<1>10. line.log = "theft" /\ th = ReplayTheft(mem.theft, line)
  BY <1>1, <1>9, TheftReplay
<1>11. th \in Thefts
  <2>1. verdict \in TheftStates
    BY <1>1 DEF TheftStates
  <2> QED
    BY <1>3, <1>5, <1>9, <2>1 DEF Thefts
<1>12. mid.theft = mem.theft /\ mid.own = mem.own /\ mid.trade = moved
  BY DEF WithBook
<1>13. mem' = [own |-> mid.own, trade |-> mid.trade, theft |-> th]
  <2> HIDE DEF mid, moved
  <2> QED
    BY <1>3, <1>4, <1>9, <1>12 DEF Ledgers, moved
<1>14. queue' = Append(lines, line)
  BY <1>2, <1>9
<1> HIDE DEF lines, mid, moved
<1>15. Leads(mem, deeds, offers, Append(lines, line),
             [own |-> mid.own, trade |-> mid.trade, theft |-> th])
  BY <1>7, <1>8, <1>10, <1>11, <1>12, TheftLineLeads
<1> QED
  BY <1>4, <1>13, <1>14, <1>15 DEF Follows

(* Nobody is in debt in a sane ledger, so no theft raises.                 *)
LEMMA NoTheftRaises ==
    ASSUME KeyInv, Sane(mem), NEW thief \in Agents, NEW victim \in Agents, NEW loot \in Loots,
           StealRaises(thief, victim, loot)
    PROVE  FALSE
<1> DEFINE taken == Takes(mem.trade.inv, victim, loot)
<1>1. PICK m \in Materials : taken[m] > 0 /\ mem.trade.inv[thief][m] + taken[m] < 0
  BY RaisedTheft DEF KeyInv
<1>2. taken \in Bundles
  BY RaisedTheft DEF KeyInv
<1>3. mem.trade.inv[thief][m] \in Int /\ mem.trade.inv[thief][m] >= 0
  BY BasicTypes DEF KeyInv, Sane, Sound, Books
<1> HIDE DEF taken
<1>4. taken[m] \in Nat
  BY <1>2 DEF Bundles
<1> QED
  BY <1>1, <1>3, <1>4

LEMMA ReportFollows ==
    ASSUME KeyInv, Sane(mem), NEW thief \in Agents, NEW k \in Chests, ReportTheft(thief, k)
    PROVE  Follows
<1>1. PICK i : i = Max(Matches(thief, k))
  OBVIOUS
<1>2. /\ mem' = [mem EXCEPT !.theft[i] = "detected"]
      /\ queue' = <<TheftLine("report", i, TRUE)>>
      /\ deeds' = deeds /\ offers' = offers
  BY <1>1 DEF ReportTheft
<1>3. i \in 1..Len(thefts) /\ mem.theft[i] # "none"
  BY <1>1, ReportTypes DEF KeyInv
<1>4. mem \in Ledgers(Len(deeds)) /\ mem.theft \in Thefts /\ i \in TheftIds
  BY <1>3, BasicTypes DEF KeyInv
<1>5. PICK th : th = [mem.theft EXCEPT ![i] = "detected"]
  OBVIOUS
<1>6. th \in Thefts
  BY <1>4, <1>5 DEF Thefts, TheftStates
<1>7. mem' = [own |-> mem.own, trade |-> mem.trade, theft |-> th]
  BY <1>2, <1>4, <1>5 DEF Ledgers
<1>8. ASSUME NEW d \in BOOLEAN
      PROVE  Leads(mem, deeds, offers, <<TheftLine("report", i, d)>>,
                   [own |-> mem.own, trade |-> mem.trade, theft |-> th])
  <2>1. PICK line : line = TheftLine("report", i, d)
    OBVIOUS
  <2>2. line.log = "theft" /\ th = ReplayTheft(mem.theft, line)
    BY <1>3, <1>5, <2>1, TheftReplay
  <2>3. Leads(mem, deeds, offers, <<>>, mem)
    BY <1>4, NoLinesLead
  <2>4. <<>> \in Seq({}) /\ Append(<<>>, line) = <<line>>
    OBVIOUS
  <2>5. Leads(mem, deeds, offers, Append(<<>>, line),
              [own |-> mem.own, trade |-> mem.trade, theft |-> th])
    BY <1>6, <2>2, <2>3, <2>4, TheftLineLeads
  <2> QED
    BY <2>1, <2>4, <2>5
<1>9. Leads(mem, deeds, offers, <<TheftLine("report", i, TRUE)>>,
            [own |-> mem.own, trade |-> mem.trade, theft |-> th])
  <2>1. TRUE \in BOOLEAN
    OBVIOUS
  <2> QED
    BY <1>8, <2>1
<1> QED
  BY <1>2, <1>7, <1>9 DEF Follows

(* A line that reaches its file takes the images one step along the path.  *)
LEMMA WriteLeads ==
    ASSUME KeyInv, LogsLead, Write
    PROVE  LogsLead'
<1>1. PICK line : line = Head(queue)
  OBVIOUS
<1>2. /\ queue # <<>> /\ queue' = Tail(queue) /\ mem' = mem /\ deeds' = deeds /\ offers' = offers
      /\ disk' = [disk EXCEPT ![line.log] = Written(@, Replayed(line))]
  BY <1>1 DEF Write, Idle, contents
<1>3. /\ queue \in Seq(Lines(Len(deeds), Len(offers), Len(thefts)))
      /\ DOMAIN disk = {"own", "trade", "theft"}
      /\ disk = [own |-> disk.own, trade |-> disk.trade, theft |-> disk.theft]
  BY DEF KeyInv, EconomyTypes, TypeOK
<1>4. line.log \in {"own", "trade", "theft"}
  <2>1. \A S : \A q \in Seq(S) : q # <<>> => Head(q) \in S
    OBVIOUS
  <2>2. line \in Lines(Len(deeds), Len(offers), Len(thefts))
    BY <1>1, <1>2, <1>3, <2>1
  <2> QED
    BY <2>2, ReplayTypes DEF KeyInv
<1>5. /\ line.log = "own" => Replayed(line) = ReplayedOwn(disk.own.img, deeds, line)
      /\ line.log = "trade" => Replayed(line) = ReplayedTrade(disk.trade.img, offers, line)
      /\ line.log = "theft" => Replayed(line) = ReplayTheft(disk.theft.img, line)
  BY DEF Replayed, ReplayOwn, ReplayedOwn, ReplayTrade, ReplayedTrade
<1>6. PICK next : next = Replayed(line)
  OBVIOUS
<1>7. disk' = [disk EXCEPT ![line.log] = Blank(next)]
  <2>1. disk[line.log].tail = "closed"
    BY <1>4 DEF LogsLead, Clean
  <2>2. Written(disk[line.log], next) = Blank(next)
    BY <2>1 DEF Written
  <2> QED
    BY <1>2, <1>6, <2>2
<1>8. Clean(disk'.own) /\ Clean(disk'.trade) /\ Clean(disk'.theft)
  BY <1>3, <1>4, <1>7 DEF LogsLead, Clean, Blank
<1>9. Images' = OneReplay(Images, deeds, offers, line)
  <2>1. CASE line.log = "own"
    BY <1>3, <1>5, <1>6, <1>7, <2>1 DEF Images, OneReplay, Blank
  <2>2. CASE line.log = "trade"
    BY <1>3, <1>5, <1>6, <1>7, <2>2 DEF Images, OneReplay, Blank
  <2>3. CASE line.log = "theft"
    BY <1>3, <1>5, <1>6, <1>7, <2>3 DEF Images, OneReplay, Blank
  <2> QED
    BY <1>4, <2>1, <2>2, <2>3
<1>10. PICK path : IsPath(path, Images, deeds, offers, queue, mem)
  BY DEF LogsLead, Leads
<1>11. \E rest : IsPath(rest, OneReplay(Images, deeds, offers, Head(queue)), deeds, offers,
                        Tail(queue), mem)
  BY <1>2, <1>3, <1>10, PathShrinks
<1> QED
  BY <1>1, <1>2, <1>8, <1>9, <1>11 DEF LogsLead, Leads

LEMMA EmptyIsSane ==
    /\ Sound(EmptyBook(OfferIds)) /\ HeldKeys(Own!EmptyIndex)
    /\ EmptyBook(OfferIds) \in Books(OfferIds)
<1>1. EmptyBook(OfferIds) \in Books(OfferIds)
  BY DEF EmptyBook, Books, NoGoods, Statuses
<1> DEFINE bk == EmptyBook(OfferIds)
<1>2. \A m \in Materials : bk.minted[m] = 0 /\ \A a \in Agents : bk.inv[a][m] = 0
  BY DEF EmptyBook, NoGoods
<1> HIDE DEF bk
<1>3. ASSUME NEW m \in Materials PROVE Total(bk, m) = 0
  <2>1. bk \in Books(OfferIds)
    BY <1>1 DEF bk
  <2>2. Total(bk, m) = SumFunctionOnSet(Column(bk, m), Agents) /\ IsFiniteSet(Agents)
    BY <2>1, TotalOfColumn
  <2>3. \A a \in Agents : Column(bk, m)[a] = 0
    BY <1>2 DEF Column
  <2> QED
    BY <2>2, <2>3, SumOfZeros
<1>4. Sound(bk)
  BY <1>2, <1>3 DEF Sound
<1>5. HeldKeys(Own!EmptyIndex)
  BY DEF HeldKeys, Own!EmptyIndex
<1> QED
  BY <1>1, <1>4, <1>5 DEF bk

LEMMA PathStart == Init => PathInv
<1> SUFFICES ASSUME Init PROVE PathInv
  OBVIOUS
<1>1. KeyInv
  BY KeysStart
<1>2. Clean(disk.own) /\ Clean(disk.trade) /\ Clean(disk.theft)
  BY DEF Init, Clean, Blank
<1>3. Images = mem /\ queue = <<>>
  BY DEF Init, Images, Blank
<1>4. mem \in Ledgers(Len(deeds)) /\ Sane(mem)
  <2>1. mem \in Ledgers(Len(deeds))
    BY <1>1, BasicTypes DEF KeyInv
  <2>2. mem.trade = EmptyBook(OfferIds) /\ mem.own = Own!EmptyIndex
    BY DEF Init
  <2> QED
    BY <2>1, <2>2, EmptyIsSane DEF Sane
<1>5. Leads(mem, deeds, offers, <<>>, mem)
  BY <1>4, NoLinesLead
<1> QED
  BY <1>1, <1>2, <1>3, <1>5 DEF PathInv, LogsLead

LEMMA PathInvKept == PathInv /\ [Next]_vars => PathInv'
<1> SUFFICES ASSUME PathInv, [Next]_vars PROVE PathInv'
  OBVIOUS
<1>0. KeyInv /\ KeyInv' /\ EconomyTypes /\ faults \in Nat
      /\ queue \in Seq(Lines(Len(deeds), Len(offers), Len(thefts)))
  <2>1. KeyInv /\ KeyInv' /\ EconomyTypes
    BY KeysKept DEF PathInv, KeyInv
  <2>2. faults \in Nat
    BY <2>1 DEF EconomyTypes, TypeOK
  <2> QED
    BY <2>1, <2>2 DEF EconomyTypes
<1>1. ASSUME queue = <<>>, faults' = faults, disk' = disk, KeyInv /\ Sane(mem) => Follows
      PROVE  PathInv'
  <2> SUFFICES ASSUME faults = 0 PROVE LogsLead'
    BY <1>0, <1>1 DEF PathInv
  <2>1. LogsLead
    BY DEF PathInv
  <2>2. Images = mem /\ Sane(mem)
    BY <1>0, <1>1, <2>1, NothingLeft, PathEnds DEF LogsLead
  <2>3. Images' = mem
    BY <1>1, <2>2 DEF Images
  <2>4. Clean(disk'.own) /\ Clean(disk'.trade) /\ Clean(disk'.theft)
    BY <1>1, <2>1 DEF LogsLead
  <2> QED
    BY <1>0, <1>1, <2>2, <2>3, <2>4 DEF Follows, LogsLead
<1>2. CASE \E a \in Agents, m \in Materials, qty \in Stocks : Seed(a, m, qty)
  BY <1>1, <1>2, SeedFollows DEF Seed, Idle
<1>3. CASE \/ \E a \in Agents, k \in Chests : Claim(a, k)
           \/ \E c \in 1..Len(deeds) : Release(c)
  <2>1. queue = <<>> /\ faults' = faults /\ disk' = disk
    BY <1>3 DEF Claim, Release, Idle
  <2> QED
    BY <1>1, <1>3, <2>1, ChestsFollow
<1>4. CASE \E a, b \in Agents, terms \in OfferTerms : ProposeTrade(a, b, terms)
  BY <1>1, <1>4, ProposeFollows DEF ProposeTrade, Idle
<1>5. CASE \E a \in Agents, o \in 1..Len(offers) : AcceptTrade(a, o)
  <2>1. queue = <<>> /\ faults' = faults /\ disk' = disk
    BY <1>5 DEF AcceptTrade, Idle
  <2> QED
    BY <1>1, <1>5, <2>1, AcceptFollows
<1>6. CASE \E a \in Agents, o \in 1..Len(offers) : RejectTrade(a, o)
  BY <1>1, <1>6, RejectFollows DEF RejectTrade, Idle
<1>7. CASE \E a, b \in Agents, k \in Chests, loot \in Loots, d \in BOOLEAN :
              Steal(a, b, k, loot, d)
  <2>1. PICK a \in Agents, b \in Agents, k \in Chests, loot \in Loots, d \in BOOLEAN :
               Steal(a, b, k, loot, d)
    BY <1>7
  <2>2. queue = <<>> /\ faults' = faults /\ disk' = disk
    BY <2>1 DEF Steal, Idle
  <2>3. KeyInv /\ Sane(mem) => Follows
    BY <2>1, StealFollows
  <2> QED
    BY <1>1, <2>2, <2>3
<1>13. CASE \E a, b \in Agents, loot \in Loots : StealRaises(a, b, loot)
  <2>1. PICK a \in Agents, b \in Agents, loot \in Loots : StealRaises(a, b, loot)
    BY <1>13
  <2>2. queue = <<>> /\ faults' = faults /\ disk' = disk
    BY <1>0, <2>1, RaisedTheft
  <2> QED
    BY <1>1, <2>1, <2>2, NoTheftRaises
<1>8. CASE \E a \in Agents, k \in Chests : ReportTheft(a, k)
  <2>1. queue = <<>> /\ faults' = faults /\ disk' = disk
    BY <1>8 DEF ReportTheft, Idle
  <2> QED
    BY <1>1, <1>8, <2>1, ReportFollows
<1>9. CASE Write
  <2>1. faults' = faults
    BY <1>9 DEF Write
  <2> QED
    BY <1>0, <1>9, <2>1, WriteLeads DEF PathInv
<1>10. CASE WriteFails
  <2>1. faults' # 0
    BY <1>0, <1>10 DEF WriteFails
  <2> QED
    BY <1>0, <2>1 DEF PathInv
<1>11. CASE Crash
  <2> SUFFICES ASSUME faults = 0 PROVE LogsLead'
    BY <1>0, <1>11 DEF PathInv, Crash
  <2>1. LogsLead
    BY DEF PathInv
  <2>2. Images \in Ledgers(Len(deeds)) /\ Sane(Images)
    BY <1>0, <2>1, PathEnds DEF LogsLead
  <2>3. /\ mem' = Images /\ queue' = <<>> /\ disk' = disk
        /\ deeds' = deeds /\ offers' = offers /\ Images' = Images
    BY <1>11 DEF Crash, contents, Images
  <2>4. Leads(Images, deeds, offers, <<>>, Images)
    BY <2>2, NoLinesLead
  <2> QED
    BY <2>1, <2>3, <2>4 DEF LogsLead
<1>12. CASE UNCHANGED vars
  BY <1>0, <1>12 DEF vars, PathInv, LogsLead, Images
<1> QED
  BY <1>2, <1>3, <1>4, <1>5, <1>6, <1>7, <1>8, <1>9, <1>10, <1>11, <1>12, <1>13 DEF Next

(* Between operations the three logs together replay to exactly the live   *)
(* ledgers (trade.py:417-493, theft.py, ownership.py), after any history   *)
(* of crashes, while appends work: the lines that an operation appends     *)
(* lead the three replays from the ledgers before it to the ledgers after. *)
THEOREM LogsHoldTheLedgers == Spec => []IdleIsDurable
<1>1. PathInv => IdleIsDurable
  <2> SUFFICES ASSUME PathInv, Idle, faults = 0 PROVE mem = Images
    BY DEF IdleIsDurable, Images
  <2>1. LogsLead /\ queue = <<>>
    BY DEF PathInv, Idle
  <2> QED
    BY <2>1, NothingLeft DEF LogsLead
<1> QED
  BY <1>1, PathStart, PathInvKept, PTL DEF Spec

(* While appends work, no trade, theft, crash or resumption makes a        *)
(* holding negative or makes goods out of nothing, at any line an          *)
(* operation may be cut short at (trade.py:417-493, theft.py).             *)
THEOREM NoGoodsFromNothing == Spec => []GoodsConserved
<1>1. PathInv => GoodsConserved
  <2> SUFFICES ASSUME PathInv PROVE GoodsConserved
    OBVIOUS
  <2>1. TypeOK /\ queue \in Seq(Lines(Len(deeds), Len(offers), Len(thefts)))
    BY DEF PathInv, KeyInv, EconomyTypes
  <2>2. ASSUME faults = 0, NEW bk \in AllBooks PROVE Sound(bk)
    <3>1. LogsLead
      BY <2>2 DEF PathInv
    <3>2. Sane(mem) /\ Sane(Images)
      BY <2>1, <3>1, PathEnds DEF LogsLead
    <3>3. disk.trade.base = disk.trade.img
      BY <3>1 DEF LogsLead, Clean
    <3> QED
      BY <2>2, <3>2, <3>3 DEF Sane, AllBooks, Images
  <2>3. NoNegativeHoldings /\ NothingDuplicated
    BY <2>2 DEF NoNegativeHoldings, NothingDuplicated, Sound
  <2> QED
    BY <2>1, <2>3 DEF GoodsConserved
<1> QED
  BY <1>1, PathStart, PathInvKept, PTL DEF Spec

=============================================================================
