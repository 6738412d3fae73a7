------------------------------ MODULE MCEconomy ------------------------------
(***************************************************************************)
(* An instance of Economy for TLC.  A behaviour is about the sale of a     *)
(* chest between three agents, whose log lines a crash may separate, or    *)
(* about goods that two agents barter, give away and steal, over appends   *)
(* that may fail as well.                                                  *)
(***************************************************************************)
EXTENDS Economy

CONSTANTS Alice, Bob, Carol, Wood, Stone, Chest

VARIABLE about

Bundle(wood, stone) == [m \in Materials |-> IF m = Wood THEN wood ELSE stone]

Terms(give, want, giveChests, wantChests) ==
    [give |-> give, want |-> want, giveChests |-> giveChests, wantChests |-> wantChests]

(* Sell a chest for wood, buy one with wood, barter wood and stone.        *)
SellChest == Terms(NoGoods, Bundle(2, 0), <<Chest>>, <<>>)
BuyChest  == Terms(Bundle(2, 0), NoGoods, <<>>, <<Chest>>)
Barter    == Terms(Bundle(2, 0), Bundle(0, 1), <<>>, <<>>)
Gift      == Terms(Bundle(2, 0), NoGoods, <<>>, <<>>)

MCOfferTerms == {SellChest, BuyChest, Barter, Gift}
MCLoots == {Bundle(3, 1), Bundle(1, 1)}

NamesChest(offer) == offer.giveChests \o offer.wantChests # <<>>
Involved ==
    {a \in Agents : \/ \E bk \in AllBooks : bk.external[a] # NoGoods
                    \/ \E o \in DOMAIN offers : a \in {offers[o].from, offers[o].to}
                    \/ \E i \in DOMAIN thefts : thefts[i].thief = a}

MCInit == Init /\ about \in {"chests", "goods"}

MCNext ==
    /\ Next
    /\ UNCHANGED about
    /\ about = "chests" =>
          /\ seeds' <= 1 /\ mem'.trade.minted[Stone] = 0
          /\ thefts' = <<>> /\ faults' = 0
          /\ \A o \in DOMAIN offers' :
                NamesChest(offers'[o]) /\ mem'.trade.status[o] # "rejected"
    /\ about = "goods" =>
          /\ deeds' = <<>> /\ Cardinality(Involved') <= 2
          /\ Len(offers') + Len(thefts') + faults' <= 3
          /\ \A o \in DOMAIN offers' : ~NamesChest(offers'[o])

MCSpec == MCInit /\ [][MCNext]_<<vars, about>>

(* No ledger and no property tells agents apart but by equality.           *)
AgentSymmetry == Permutations(Agents)

=============================================================================
