----------------------------- MODULE Alliances -----------------------------
(***************************************************************************)
(* Alliances between agents (core/social/alliances.py over                 *)
(* core/repos/alliance_repo.py): proposals, votes, formation, leaving.     *)
(* An agent makes one call at a time, calls of different agents overlap,   *)
(* and an action is one SQL statement.  A vote is a transaction of two     *)
(* statements that holds the lock of the proposal's row; everything else   *)
(* commits by itself.                                                      *)
(***************************************************************************)
EXTENDS Naturals, Sequences, FiniteSets

CONSTANTS Allies,        \* the agents
          Invitations,   \* lists of invitees, as sets
          MaxPerAgent,   \* MAX_ALLIANCES_PER_AGENT
          MaxProposals, MaxVotes, MaxFormed, MaxLeaves, MaxLosses \* bounds

NoHolder == "no holder"

ASSUME AllianceAssumption ==
    /\ NoHolder \notin Allies
    /\ Invitations \subseteq SUBSET Allies
    /\ {MaxPerAgent, MaxProposals, MaxVotes, MaxFormed, MaxLeaves, MaxLosses} \subseteq Nat

VARIABLES proposal,  \* the rows of alliance_proposals
          alliance,  \* the rows of alliances, with their active members
          rowLock,   \* who holds the lock of each proposal
          doing,     \* the call each agent is in
          ballots,   \* ghost: the last vote of each agent on each proposal
          consent,   \* ghost: who accepted which proposal, at any time
          votings,   \* votes committed
          leaves,    \* calls to leave an alliance
          losses     \* statements that raised

ballotVars == <<ballots, consent, votings>>
allianceVars == <<proposal, alliance, rowLock, doing, ballotVars, leaves, losses>>

Resting == [step |-> "none", on |-> 0, yes |-> FALSE, votes |-> {}, formed |-> 0]

AllianceInit ==
    /\ proposal = <<>> /\ alliance = <<>> /\ rowLock = <<>>
    /\ doing = [a \in Allies |-> Resting]
    /\ ballots = {} /\ consent = {}
    /\ votings = 0 /\ leaves = 0 /\ losses = 0

Doing(a, step) == doing[a].step = step
Continues(a, call) == doing' = [doing EXCEPT ![a] = call]
Then(a, step) == Continues(a, [doing[a] EXCEPT !.step = step])
Done(a) == Continues(a, Resting)

(* votes is a JSON object: at most one entry <<agent, accept>> per agent.  *)
Cast(votes, a, yes) == {v \in votes : v[1] # a} \cup {<<a, yes>>}
Voters(votes) == {v[1] : v \in votes}
Yes(votes) == {v[1] : v \in {w \in votes : w[2]}}

MemberOf(a) == {x \in 1..Len(alliance) : a \in alliance[x].members /\ ~alliance[x].dissolved}

-----------------------------------------------------------------------------
(* propose_alliance.                                                       *)
CheckProposer(a) ==
    /\ Doing(a, "none") /\ Len(proposal) < MaxProposals
    /\ Cardinality(MemberOf(a)) < MaxPerAgent
    /\ Then(a, "propose")
    /\ UNCHANGED <<proposal, alliance, rowLock, ballotVars, leaves, losses>>

CreateProposal(a) ==
    /\ Doing(a, "propose") /\ Len(proposal) < MaxProposals
    /\ \E invitees \in Invitations :
          proposal' = Append(proposal, [by |-> a, invitees |-> invitees, votes |-> {},
                                        status |-> "pending"])
    /\ rowLock' = Append(rowLock, NoHolder)
    /\ Done(a)
    /\ UNCHANGED <<alliance, ballotVars, leaves, losses>>

(* AllianceRepo.vote_on_proposal: SELECT ... FOR UPDATE, then the UPDATE   *)
(* and the commit.  Anybody may vote, at any time.                         *)
ReadVotesOf(a, p) ==
    \E yes \in BOOLEAN :
        Continues(a, [Resting EXCEPT !.step = "vote", !.on = p, !.yes = yes,
                                     !.votes = proposal[p].votes])

(* Mutant: a plain SELECT.                                                 *)
SelectVotes(a, p) ==
    /\ Doing(a, "none") /\ votings < MaxVotes
    /\ ReadVotesOf(a, p)
    /\ UNCHANGED <<proposal, alliance, rowLock, ballotVars, leaves, losses>>

SelectForUpdate(a, p) ==
    /\ Doing(a, "none") /\ votings < MaxVotes
    /\ rowLock[p] = NoHolder
    /\ rowLock' = [rowLock EXCEPT ![p] = a]
    /\ ReadVotesOf(a, p)
    /\ UNCHANGED <<proposal, alliance, ballotVars, leaves, losses>>

UpdateVotes(a) ==
    LET p == doing[a].on IN
    /\ Doing(a, "vote")
    /\ proposal' = [proposal EXCEPT ![p].votes = Cast(doing[a].votes, a, doing[a].yes)]
    /\ rowLock' = [rowLock EXCEPT ![p] = NoHolder]
    /\ ballots' = {b \in ballots : b[1] # p \/ b[2] # a} \cup {<<p, a, doing[a].yes>>}
    /\ consent' = consent \cup (IF doing[a].yes THEN {<<p, a>>} ELSE {})
    /\ votings' = votings + 1
    /\ Then(a, "tally")
    /\ UNCHANGED <<alliance, leaves, losses>>

(* AllianceManager.vote_on_proposal: the row is read again, whatever its   *)
(* status, and the call ends while an invitee has not voted.               *)
Tally(a) ==
    LET row == proposal[doing[a].on] IN
    /\ Doing(a, "tally")
    /\ IF ~(row.invitees \subseteq Voters(row.votes)) THEN Done(a)
       ELSE IF 2 * Cardinality(Yes(row.votes)) > Cardinality(row.invitees)
            THEN Continues(a, [doing[a] EXCEPT !.step = "create", !.votes = row.votes])
            ELSE Then(a, "reject")
    /\ UNCHANGED <<proposal, alliance, rowLock, ballotVars, leaves, losses>>

Settle(a, step, status) ==
    /\ Doing(a, step)
    /\ proposal' = [proposal EXCEPT ![doing[a].on].status = status]
    /\ Done(a)
    /\ UNCHANGED <<alliance, rowLock, ballotVars, leaves, losses>>

Reject(a) == Settle(a, "reject", "rejected")

CreateAlliance(a) ==
    LET p == doing[a].on IN
    /\ Doing(a, "create") /\ Len(alliance) < MaxFormed
    /\ alliance' = Append(alliance, [of |-> p, members |-> {}, dissolved |-> FALSE, left |-> FALSE])
    /\ Continues(a, [doing[a] EXCEPT !.step = "found", !.formed = Len(alliance) + 1])
    /\ UNCHANGED <<proposal, rowLock, ballotVars, leaves, losses>>

AddMember(x, a) == alliance' = [alliance EXCEPT ![x].members = @ \cup {a}]

AddFounder(a) ==
    /\ Doing(a, "found")
    /\ AddMember(doing[a].formed, proposal[doing[a].on].by)
    /\ Then(a, "add")
    /\ UNCHANGED <<proposal, rowLock, ballotVars, leaves, losses>>

(* The invitees that were read as accepting, one by one.                   *)
Accepted(a) == Yes(doing[a].votes) \cap proposal[doing[a].on].invitees

AddInvitee(a) ==
    /\ Doing(a, "add")
    /\ \E m \in Accepted(a) :
          /\ AddMember(doing[a].formed, m)
          /\ Continues(a, [doing[a] EXCEPT !.votes = {v \in @ : v[1] # m}])
    /\ UNCHANGED <<proposal, rowLock, ballotVars, leaves, losses>>

Accept(a) == Settle(a, "add", "accepted") /\ Accepted(a) = {}

-----------------------------------------------------------------------------
(* leave_alliance, and dissolve_alliance with its two statements.  Anybody *)
(* may call it, a member or not, at any time.                              *)
RemoveMember(a, x) ==
    /\ Doing(a, "none") /\ leaves < MaxLeaves
    /\ alliance' = [alliance EXCEPT ![x].members = @ \ {a}, ![x].left = TRUE]
    /\ leaves' = leaves + 1
    /\ Continues(a, [Resting EXCEPT !.step = "left", !.on = x])
    /\ UNCHANGED <<proposal, rowLock, ballotVars, losses>>

GetMembers(a) ==
    /\ Doing(a, "left")
    /\ IF Cardinality(alliance[doing[a].on].members) < 2 THEN Then(a, "dissolve") ELSE Done(a)
    /\ UNCHANGED <<proposal, alliance, rowLock, ballotVars, leaves, losses>>

DissolveAlliance(a) ==
    /\ Doing(a, "dissolve")
    /\ alliance' = [alliance EXCEPT ![doing[a].on].dissolved = TRUE]
    /\ Then(a, "empty")
    /\ UNCHANGED <<proposal, rowLock, ballotVars, leaves, losses>>

EmptyAlliance(a) ==
    /\ Doing(a, "empty")
    /\ alliance' = [alliance EXCEPT ![doing[a].on].members = {}]
    /\ Done(a)
    /\ UNCHANGED <<proposal, rowLock, ballotVars, leaves, losses>>

(* A statement raises: the call ends, and a transaction is rolled back.    *)
Loses(a) ==
    /\ ~Doing(a, "none") /\ losses < MaxLosses
    /\ losses' = losses + 1
    /\ rowLock' = [p \in DOMAIN rowLock |-> IF rowLock[p] = a THEN NoHolder ELSE rowLock[p]]
    /\ Done(a)
    /\ UNCHANGED <<proposal, alliance, ballotVars, leaves>>

AllianceNext ==
    \E a \in Allies :
        \/ CheckProposer(a) \/ CreateProposal(a) \/ UpdateVotes(a) \/ Tally(a) \/ Reject(a)
        \/ CreateAlliance(a) \/ AddFounder(a) \/ AddInvitee(a) \/ Accept(a)
        \/ GetMembers(a) \/ DissolveAlliance(a) \/ EmptyAlliance(a) \/ Loses(a)
        \/ \E p \in 1..Len(proposal) : SelectForUpdate(a, p)
        \/ \E x \in 1..Len(alliance) : RemoveMember(a, x)

AllianceSpec == AllianceInit /\ [][AllianceNext]_allianceVars

-----------------------------------------------------------------------------
AllianceTypeOK ==
    /\ \A p \in DOMAIN proposal : proposal[p].status \in {"pending", "accepted", "rejected"}
    /\ \A x \in DOMAIN alliance : alliance[x].members \subseteq Allies
    /\ DOMAIN rowLock = DOMAIN proposal
    /\ losses <= MaxLosses

(* No vote is lost: a proposal holds the last vote of everybody who voted  *)
(* on it, however the votes overlapped.                                    *)
NoVoteLost ==
    \A p \in DOMAIN proposal :
        proposal[p].votes = {<<b[2], b[3]>> : b \in {c \in ballots : c[1] = p}}

(* An alliance exists only of a proposal on which every invitee has voted, *)
(* and its members are the proposer and invitees that accepted at some     *)
(* time.                                                                   *)
FormedByConsent ==
    \A x \in DOMAIN alliance :
        LET p == alliance[x].of IN
        /\ proposal[p].invitees \subseteq {b[2] : b \in {c \in ballots : c[1] = p}}
        /\ \A m \in alliance[x].members \ {proposal[p].by} :
              m \in proposal[p].invitees /\ <<p, m>> \in consent

(* When the last call that left or founded it is over, an alliance that    *)
(* somebody left has two members or is dissolved, unless a statement       *)
(* failed.                                                                 *)
InHands(x) ==
    \E a \in Allies :
        \/ doing[a].step \in {"left", "dissolve", "empty"} /\ doing[a].on = x
        \/ doing[a].step \in {"found", "add"} /\ doing[a].formed = x

NoLoner ==
    losses = 0 =>
        \A x \in DOMAIN alliance :
            alliance[x].left /\ ~InHands(x) =>
                alliance[x].dissolved \/ Cardinality(alliance[x].members) >= 2

(* What agents are told by a proposal, its votes and its alliance holds    *)
(* together.                                                               *)
AlliancesSound == NoVoteLost /\ FormedByConsent /\ NoLoner

=============================================================================
