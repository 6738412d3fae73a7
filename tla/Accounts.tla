------------------------------ MODULE Accounts ------------------------------
(***************************************************************************)
(* The accounts of the agents (core/agent_economy.py).  Payments are       *)
(* transactions at the isolation level READ COMMITTED: an UPDATE waits for *)
(* the lock of its row, looks at the committed balance then, and keeps the *)
(* lock until the transaction ends.  An action is one statement; what a    *)
(* transaction wrote takes effect when it commits.  Payments of one agent  *)
(* overlap: each runs in a connection of its own.                          *)
(***************************************************************************)
EXTENDS Integers, FiniteSets

CONSTANTS Payers,       \* agents
          Sessions,     \* connections in which payments run (bound)
          Share,        \* weekly_allocation of an account, also its first balance
          Amounts,      \* what is paid
          MaxPayments, MaxWeeks, MaxAborts \* bounds

Payday == "payday"            \* who calls weekly_allocation
Clients == Sessions \cup {Payday}
Rows == Payers \cup {Payday}   \* Payday stands for nobody

ASSUME AccountAssumption ==
    /\ Payday \notin Payers \cup Sessions
    /\ Share \in Nat /\ Amounts \subseteq Nat \ {0}
    /\ {MaxPayments, MaxWeeks, MaxAborts} \subseteq Nat

VARIABLES account,  \* the rows of agent_accounts; those of absent agents do not exist
          entries,  \* per agent and type, the sum of its rows in agent_transactions
          tx,       \* the transaction each connection is in
          payments, weeks, aborts

accountVars == <<account, entries, tx, payments, weeks, aborts>>

NoAccount == [exists |-> FALSE, balance |-> 0, earned |-> 0, spent |-> 0, sent |-> 0]
NoEntries == [allocation |-> 0, cost |-> 0, transfer |-> 0]
NoTx == [step |-> "none", row |-> Payday, from |-> Payday, to |-> Payday, amount |-> 0,
         holds |-> {}, todo |-> {}]

AccountInit ==
    /\ account = [a \in Payers |-> NoAccount]
    /\ entries = [a \in Payers |-> NoEntries]
    /\ tx = [c \in Clients |-> NoTx]
    /\ payments = 0 /\ weeks = 0 /\ aborts = 0

Within(c, step) == tx[c].step = step
Becomes(c, t) == tx' = [tx EXCEPT ![c] = t]
Over(c) == Becomes(c, NoTx)

(* The next statement updates tx[c].row: it waits while another            *)
(* transaction holds the lock of that row.                                 *)
WaitsFor(c, d) == d # c /\ tx[c].row \in tx[d].holds
RowFree(c) == \A d \in Clients : ~WaitsFor(c, d)
Locked(c) == tx[c].holds \cup {tx[c].row}

-----------------------------------------------------------------------------
(* initialize_accounts and create_account: INSERT ... ON CONFLICT DO       *)
(* NOTHING.                                                                *)
CreateAccount(a) ==
    /\ ~account[a].exists
    /\ account' = [account EXCEPT ![a] = [NoAccount EXCEPT !.exists = TRUE, !.balance = Share]]
    /\ UNCHANGED <<entries, tx, payments, weeks, aborts>>

(* deduct_cost (a payment to nobody) and transfer.  The tool refuses a     *)
(* transfer to oneself; the receiver may have no account.                  *)
BeginPayment(s) ==
    /\ Within(s, "none") /\ payments < MaxPayments
    /\ \E from \in Payers, to \in Rows, amount \in Amounts :
          /\ to # from
          /\ Becomes(s, [NoTx EXCEPT !.step = "debit", !.row = from, !.from = from, !.to = to,
                                     !.amount = amount])
    /\ payments' = payments + 1
    /\ UNCHANGED <<account, entries, weeks, aborts>>

Charge(s) ==
    Becomes(s, [tx[s] EXCEPT !.step = IF tx[s].to = Payday THEN "commit" ELSE "credit",
                             !.row = tx[s].to, !.holds = Locked(s)])

Covered(s) ==
    LET row == account[tx[s].from] IN row.exists /\ row.balance >= tx[s].amount

(* Mutant: the balance is looked at before the row is free.                *)
DebitEarly(s) ==
    /\ Within(s, "debit")
    /\ IF Covered(s) THEN Charge(s) ELSE Over(s)
    /\ UNCHANGED <<account, entries, payments, weeks, aborts>>

(* UPDATE ... WHERE balance >= amount; without a row it returns False.     *)
Debit(s) ==
    /\ Within(s, "debit") /\ RowFree(s)
    /\ IF Covered(s) THEN Charge(s) ELSE Over(s)
    /\ UNCHANGED <<account, entries, payments, weeks, aborts>>

(* The receiver must have a row; otherwise ValueError rolls back.          *)
Credit(s) ==
    /\ Within(s, "credit") /\ RowFree(s)
    /\ IF account[tx[s].to].exists
       THEN Becomes(s, [tx[s] EXCEPT !.step = "commit", !.row = Payday, !.holds = Locked(s)])
       ELSE Over(s)
    /\ UNCHANGED <<account, entries, payments, weeks, aborts>>

Debited(row, amount, cost) ==
    [row EXCEPT !.balance = @ - amount, !.spent = @ + (IF cost THEN amount ELSE 0),
                !.sent = @ + (IF cost THEN 0 ELSE amount)]
Credited(row, amount) == [row EXCEPT !.balance = @ + amount, !.earned = @ + amount]

CommitCost(s) ==
    /\ Within(s, "commit") /\ tx[s].to = Payday
    /\ account' = [account EXCEPT ![tx[s].from] = Debited(@, tx[s].amount, TRUE)]
    /\ entries' = [entries EXCEPT ![tx[s].from].cost = @ + tx[s].amount]
    /\ Over(s)
    /\ UNCHANGED <<payments, weeks, aborts>>

CommitTransfer(s) ==
    LET from == tx[s].from
        to == tx[s].to
    IN  /\ Within(s, "commit") /\ to # Payday
        /\ account' = [account EXCEPT ![from] = Debited(@, tx[s].amount, FALSE),
                                      ![to] = Credited(@, tx[s].amount)]
        /\ entries' = [entries EXCEPT ![from].transfer = @ - tx[s].amount,
                                      ![to].transfer = @ + tx[s].amount]
        /\ Over(s)
        /\ UNCHANGED <<payments, weeks, aborts>>

-----------------------------------------------------------------------------
(* weekly_allocation: the accounts are read, then paid one by one, in the  *)
(* order in which the SELECT returned them.                                *)
NextRow(t) ==
    IF t.todo = {} THEN {[t EXCEPT !.step = "commit", !.row = Payday]}
    ELSE {[t EXCEPT !.step = "pay", !.row = a, !.todo = @ \ {a}] : a \in t.todo}

BeginWeek ==
    /\ Within(Payday, "none") /\ weeks < MaxWeeks
    /\ weeks' = weeks + 1
    /\ \E t \in NextRow([NoTx EXCEPT !.todo = {a \in Payers : account[a].exists}]) :
          Becomes(Payday, t)
    /\ UNCHANGED <<account, entries, payments, aborts>>

PayRow ==
    /\ Within(Payday, "pay") /\ RowFree(Payday)
    /\ \E t \in NextRow([tx[Payday] EXCEPT !.holds = Locked(Payday)]) : Becomes(Payday, t)
    /\ UNCHANGED <<account, entries, payments, weeks, aborts>>

CommitWeek ==
    /\ Within(Payday, "commit")
    /\ account' = [a \in Payers |-> IF a \in tx[Payday].holds THEN Credited(account[a], Share)
                                                              ELSE account[a]]
    /\ entries' = [a \in Payers |-> IF a \in tx[Payday].holds
                                    THEN [entries[a] EXCEPT !.allocation = @ + Share]
                                    ELSE entries[a]]
    /\ Over(Payday)
    /\ UNCHANGED <<payments, weeks, aborts>>

-----------------------------------------------------------------------------
(* A statement raises or the connection is lost: the transaction is rolled *)
(* back.                                                                   *)
Abort(c) ==
    /\ ~Within(c, "none") /\ aborts < MaxAborts
    /\ aborts' = aborts + 1
    /\ Over(c)
    /\ UNCHANGED <<account, entries, payments, weeks>>

(* Postgres aborts a transaction of a cycle of waiting ones.               *)
Deadlocked(c) ==
    \E cycle \in SUBSET Clients :
        /\ c \in cycle
        /\ \A d \in cycle : /\ \E e \in cycle : WaitsFor(d, e)
                            /\ \E e \in cycle : WaitsFor(e, d)

DeadlockVictim(c) ==
    /\ Deadlocked(c)
    /\ Over(c)
    /\ UNCHANGED <<account, entries, payments, weeks, aborts>>

Pays(s) == Debit(s) \/ Credit(s) \/ CommitCost(s) \/ CommitTransfer(s)
PaysWeek == PayRow \/ CommitWeek

AccountNext ==
    \/ \E a \in Payers : CreateAccount(a)
    \/ \E s \in Sessions : BeginPayment(s) \/ Pays(s)
    \/ BeginWeek \/ PaysWeek
    \/ \E c \in Clients : Abort(c) \/ DeadlockVictim(c)

AccountSpec == AccountInit /\ [][AccountNext]_accountVars

-----------------------------------------------------------------------------
AccountTypeOK ==
    /\ \A a \in Payers : account[a].exists \in BOOLEAN /\ account[a].balance \in Int
    /\ \A c \in Clients : tx[c].holds \subseteq Payers /\ tx[c].todo \subseteq Payers
    /\ \A c, d \in Clients : c # d => tx[c].holds \cap tx[d].holds = {}

(* Money is neither made nor lost: no account is overdrawn, and every      *)
(* balance is what the account's totals say and what the transactions of   *)
(* the agent say, whichever payments overlapped or were rolled back.       *)
AccountsBalance ==
    \A a \in Payers :
        LET row == account[a]
            first == IF row.exists THEN Share ELSE 0
        IN  /\ row.balance >= 0
            /\ row.balance = first + row.earned - row.spent - row.sent
            /\ row.balance = first + entries[a].allocation + entries[a].transfer - entries[a].cost

(* Every payment ends, also when one waits for another of the same agent,  *)
(* two agents pay each other at once or the weekly allocation takes their  *)
(* rows in another order.                                                  *)
PaymentsEnd == \A c \in Clients : ~Within(c, "none") ~> Within(c, "none")

=============================================================================
