------------------------------ MODULE TradeBook ------------------------------
(***************************************************************************)
(* The trade ledger of core/civilization/trade.py as a value: inventories, *)
(* the status of every offer, and the functions on them that the live      *)
(* operations and the replay share.  A material that an agent does not     *)
(* hold is a material it holds 0 of: the code deletes zero entries and     *)
(* reads missing ones as 0.  Price observations are one list entry per     *)
(* accepted offer, in the live ledger and on replay alike, and are read    *)
(* off the statuses.                                                       *)
(***************************************************************************)
EXTENDS Integers

CONSTANTS Agents, Materials

(* A give or want bundle, {material: quantity}; absent materials are 0.    *)
Bundles == [Materials -> Nat]

NoGoods == [m \in Materials |-> 0]

Statuses == {"none", "pending", "accepted", "rejected"}

(* _inventory and the statuses in _offers ("none": not in _offers), with   *)
(* two ghosts: external is what inventory_set events added to each         *)
(* holding, minted what the bootstrap ones among them added in all.        *)
Books(OfferIds) ==
    [inv      : [Agents -> [Materials -> Int]],
     status   : [OfferIds -> Statuses],
     external : [Agents -> [Materials -> Int]],
     minted   : [Materials -> Int]]

EmptyBook(OfferIds) ==
    [inv      |-> [a \in Agents |-> NoGoods],
     status   |-> [o \in OfferIds |-> "none"],
     external |-> [a \in Agents |-> NoGoods],
     minted   |-> NoGoods]

(* _has_inventory: only the materials that the bundle names are looked at. *)
HasInventory(inv, a, bundle) ==
    \A m \in Materials : bundle[m] > 0 => inv[a][m] >= bundle[m]

(* _apply_inventory_delta, between two different agents.                   *)
ApplyDelta(inv, debit, credit, bundle) ==
    [a \in Agents |-> [m \in Materials |->
        CASE a = debit  -> inv[a][m] - bundle[m]
          [] a = credit -> inv[a][m] + bundle[m]
          [] OTHER      -> inv[a][m]]]

(* The swap of an accepted offer: give first, then want.                   *)
Swap(inv, offer) ==
    ApplyDelta(ApplyDelta(inv, offer.from, offer.to, offer.give),
               offer.to, offer.from, offer.want)

(* set_inventory, live and on replay of "inventory_set"; bootstrap tells   *)
(* the ghosts whether goods enter the world or change hands by theft.      *)
SetInventory(bk, a, m, qty, bootstrap) ==
    LET added == qty - bk.inv[a][m] IN
    [bk EXCEPT !.inv[a][m] = qty,
               !.external[a][m] = @ + added,
               !.minted[m] = IF bootstrap THEN @ + added ELSE @]

(* "proposed", live and on replay.                                         *)
Propose(bk, o) == [bk EXCEPT !.status[o] = "pending"]

(* The end of accept() and of reject(), behind the checks of each.         *)
Settle(bk, o, offer) ==
    [bk EXCEPT !.inv = Swap(@, offer), !.status[o] = "accepted"]

Decline(bk, o) == [bk EXCEPT !.status[o] = "rejected"]

(* accept() checks that the offer is pending, addressed to the agent and   *)
(* backed on both sides.                                                   *)
Acceptable(bk, o, offer, a) ==
    /\ bk.status[o] = "pending"
    /\ offer.to = a
    /\ HasInventory(bk.inv, offer.from, offer.give)
    /\ HasInventory(bk.inv, offer.to, offer.want)

(* Mutants: replay marks the offer and forgets the swap; replay ignores    *)
(* rejections.                                                             *)
ReplayMarksOnly(bk, o, offer) ==
    IF bk.status[o] = "pending" THEN [bk EXCEPT !.status[o] = "accepted"] ELSE bk

ReplayKeepsPending(bk, o) == bk

(* _apply_replay of "accepted" and "rejected": only for pending offers,    *)
(* and with no look at the inventories.                                    *)
ReplayAccepted(bk, o, offer) ==
    IF bk.status[o] = "pending" THEN Settle(bk, o, offer) ELSE bk

ReplayRejected(bk, o) ==
    IF bk.status[o] = "pending" THEN Decline(bk, o) ELSE bk

=============================================================================
